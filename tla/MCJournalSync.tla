--------------------------- MODULE MCJournalSync ---------------------------
(* Small instances of JournalSync for TLC. *)
EXTENDS JournalSync, TLC

CONSTANTS f1, f2

OneFlow == {f1}
TwoFlows == {f1, f2}
FlowSymmetry == Permutations(TwoFlows)

Rec(op, lsn) == [op |-> op, lsn |-> lsn]

\* A session that starts at LSN 4: markers ahead of the count, equal to it and
\* behind it.
Session == <<Rec("LSN", 4), Rec("EXPIRED", 5), Rec("LSN", 5), Rec("LSN", 5)>>
\* A session that starts without a marker and jumps to a later one.
Counted == <<Rec("COMMAND", 4), Rec("PING", 5), Rec("LSN", 5)>>
Unknown == <<Rec("COMMAND", 1), Rec("NOOP", 2)>>
Short == <<Rec("LSN", 3), Rec("COMMAND", 4)>>

AnyJournal == {Session, Counted, Unknown}
ShortOnly == {Short}
=============================================================================
