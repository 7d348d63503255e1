---------------------------- MODULE MCStateStore ----------------------------
(* Start up to an early save, a kill at any step, and a second Start.        *)
EXTENDS StateStore
MCThreads == {"main", "recorder", "rollback"}
MCNames == {"state", "state.tmp", "checkpoint", "checkpoint.tmp"}
MCNoValue == Empty
MCProgram == <<"source", "clear", "flow", "save", "close">>
=============================================================================
