----------------------------- MODULE MCScriptVm -----------------------------
(* A script that is there from the start and one that is added, two        *)
(* goroutines that call.                                                   *)
EXTENDS ScriptVm

CONSTANTS old, new

MCFiles   == {old, new}
MCPresent == {old}
=============================================================================
