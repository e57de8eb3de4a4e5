---------------------------- MODULE MCBagDetails ----------------------------
(* A small instance of BagDetails for TLC: a bag with a coordinate and a   *)
(* tag, and two windows that show it.                                      *)
EXTENDS BagDetails

CONSTANTS w1, w2, latitude, longitude, t1, null, zero, v1, x, none

Tagged == [fields |-> [f \in Fields |-> v1], tags |-> [t \in Tags |-> x]]
=============================================================================
