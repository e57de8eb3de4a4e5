---------------------------- MODULE MCBagActions ----------------------------
(* A small instance of BagActions for TLC: two bags and a folder.          *)
EXTENDS BagActions, TLC

CONSTANTS a, b, f, all, some, none

Search == (all :> {a, b}) @@ (some :> {b})
=============================================================================
