---------------------------- MODULE MCBagUpload ----------------------------
(* A small instance of BagUpload for TLC: two files of two names.          *)
EXTENDS BagUpload

CONSTANTS a, b, n1, n2, t1, t2

TwoNames == (a :> n1) @@ (b :> n2)
=============================================================================
