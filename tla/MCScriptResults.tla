-------------------------- MODULE MCScriptResults --------------------------
(* Small instances of ScriptResults for TLC: one topic, one or two runs.   *)
EXTENDS ScriptResults

CONSTANTS r1, r2, finished
=============================================================================
