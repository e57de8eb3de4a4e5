-------------------------- MODULE MCScriptService --------------------------
(* Small instances of ScriptService for TLC: a web request and the scanner *)
(* each start runs of scripts.                                             *)
EXTENDS ScriptService

CONSTANTS web, scanner, r1, r2

CallerOf == [r \in Runs |-> IF r = r2 THEN scanner ELSE web]
=============================================================================
