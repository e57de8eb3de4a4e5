--------------------------- MODULE MCScriptEditor ---------------------------
(* A small instance of ScriptEditor for TLC: a script with conditions that *)
(* match no bag the scanner comes upon, and one that may be added.         *)
EXTENDS ScriptEditor, TLC

CONSTANTS c, b

NoMatch == (c :> {})
Picky == [i \in Ids |-> IF i = 1 THEN [runAutomatically |-> TRUE, criteria |-> {c}] ELSE NoScript]
=============================================================================
