---------------------------- MODULE MCFolderView ----------------------------
(* A small instance of FolderView for TLC: the folder f with a bag, in it  *)
(* the folder g with another.                                              *)
EXTENDS FolderView, TLC

CONSTANTS root, f, g, b, c, none, t

Tree == (f :> root) @@ (g :> f) @@ (b :> f) @@ (c :> g)

(* The text t matches c; b differs from it only by the case of letters,    *)
(* which the server does not tell apart.                                   *)
ShownBags == (none :> {b, c}) @@ (t :> {c})
CountedBags == (none :> {b, c}) @@ (t :> {b, c})
=============================================================================
