------------------------- MODULE MCRecursiveWatcher -------------------------
(* Small instances of RecursiveWatcher for TLC: a directory in the root,   *)
(* and one in that.                                                        *)
EXTENDS RecursiveWatcher

CONSTANTS root, sub, leaf, t1, t2

Chain == [d \in {sub, leaf} |-> IF d = sub THEN root ELSE sub]
=============================================================================
