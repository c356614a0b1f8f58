---------------------------- MODULE MCModelLoader ----------------------------
(* Two urls, one a local file stat() sees and one it does not; two good   *)
(* contents and one loadModelFile rejects; three seconds of clock.        *)
EXTENDS ModelLoader, TLC

CONSTANTS u1, u2, v1, v2, bad

MCUrls == {u1, u2}
MCFileUrls == {u1}
MCVersions == {v1, v2, bad}
MCBadVersions == {bad}
=============================================================================
