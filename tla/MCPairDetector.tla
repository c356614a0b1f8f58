---------------------------- MODULE MCPairDetector ----------------------------
(* Axis tilts of 0, asin(3/5), asin(4/5) and 90 degrees; centres from     *)
(* below the plane to well above it; one radius and two heights.         *)
EXTENDS PairDetector, TLC

MCAxes == {[s |-> 0, c |-> 1, k |-> 1], [s |-> 3, c |-> 4, k |-> 5],
           [s |-> 4, c |-> 3, k |-> 5], [s |-> 1, c |-> 0, k |-> 1]}
MCCenters == -2..3
=============================================================================
