---------------------------- MODULE MCCDPipeline ----------------------------
(* One character, two model urls (one a file stat() sees, one it does     *)
(* not), two good contents and one loadModelFile rejects, three seconds    *)
(* of clock.  Each model has one link, and no pairs or queries are made:   *)
(* the question is which model a character gets, not what it touches.     *)
EXTENDS CDPipeline, TLC

CONSTANTS u1, u2, v1, v2, bad, ca

MCUrls == {u1, u2}
MCFileUrls == {u1}
MCVersions == {v1, v2, bad}
MCBadVersions == {bad}
MCCharNames == {ca}
MCNumLinks == [u \in MCUrls |-> 1]
MCCharOrder == <<ca>>
=============================================================================
