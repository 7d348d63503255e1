----------------------------- MODULE MCFullSync -----------------------------
(***************************************************************************)
(* Small instances of FullSync.                                            *)
(***************************************************************************)
EXTENDS FullSync

CONSTANTS f1, f2, f3

OneKey == [f \in Flows |-> 1]

\* One entry on the FLOWs that end with FULLSYNC_END, none on the other.
EndedKeys == [f \in Flows |-> IF f \in DirectEOF THEN 0 ELSE 1]
=============================================================================
