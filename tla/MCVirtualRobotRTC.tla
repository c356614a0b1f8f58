--------------------------- MODULE MCVirtualRobotRTC ---------------------------
(* Port infos: an owner-less joint-value out port and an owned force-sensor *)
(* out port (both handled), an owned colour image out port (no handler),   *)
(* an owner-less torque in port (handled) and an owned in port (none).     *)
EXTENDS VirtualRobotRTC, TLC

CONSTANTS vr, r1, r2, r3

MCOutInfos == {[name |-> "angle", type |-> "JOINT_VALUE", owned |-> FALSE],
               [name |-> "force", type |-> "FORCE_SENSOR", owned |-> TRUE],
               [name |-> "image", type |-> "COLOR_IMAGE", owned |-> TRUE]}
MCInInfos == {[name |-> "torque", type |-> "JOINT_TORQUE", owned |-> FALSE],
              [name |-> "ext", type |-> "EXTERNAL_FORCE", owned |-> TRUE]}

(* r1: one ExtTrig context; r2: a periodic one then an ExtTrig one;        *)
(* r3: periodic only.                                                       *)
MCExtTrig == (r1 :> <<TRUE>>) @@ (r2 :> <<FALSE, TRUE>>) @@ (r3 :> <<FALSE>>)

(* r1 with two ExtTrig execution contexts.                                  *)
MCExtTrigTwice == (r1 :> <<TRUE, TRUE>>) @@ (r2 :> <<FALSE, TRUE>>) @@ (r3 :> <<FALSE>>)
=============================================================================
