---------------------------- MODULE MCBagScanner ----------------------------
(* Small instances of BagScanner for TLC.                                   *)
EXTENDS BagScanner, TLC

CONSTANTS sa, sb, p1, p2, x, y, z

OneStorage  == <<sa>>
TwoStorages == <<sa, sb>>

(* Bounds on the outside events, one per run.                               *)
NoEvents   == [e \in Events |-> 0]
MixedBound == [NoEvents EXCEPT !["change"] = 1, !["remove"] = 1, !["edit"] = 1,
                                !["outage"] = 1]
FilesBound == [NoEvents EXCEPT !["change"] = 3, !["restart"] = 1]
BucketBound == [NoEvents EXCEPT !["change"] = 3, !["request"] = 1, !["restart"] = 1,
                                 !["reset"] = 1]

Symmetric == Permutations({x, y}) \cup Permutations({p1, p2})
=============================================================================
