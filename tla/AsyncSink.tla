----------------------------- MODULE AsyncSink -----------------------------
(***************************************************************************)
(* What the asynchronous writer of one FLOW promises to the snapshot       *)
(* receiver: entries are accepted one after the other, each accepted       *)
(* entry is settled (tried on the target or given up) exactly once and in  *)
(* any order, and Stop returns only when nothing is left to settle.        *)
(*                                                                         *)
(* Entries are named by the order in which Enqueue accepted them.          *)
(***************************************************************************)
EXTENDS Naturals

VARIABLES
  accepted,   \* number of entries accepted so far
  settled,    \* the accepted entries that have been dealt with
  phase       \* "running", "closing" (Stop is waiting) or "stopped"

sinkVars == <<accepted, settled, phase>>

Outstanding == (1 .. accepted) \ settled

SinkTypeOK ==
  /\ accepted \in Nat
  /\ settled \subseteq 1 .. accepted
  /\ phase \in {"running", "closing", "stopped"}

SinkInit ==
  /\ accepted = 0
  /\ settled = {}
  /\ phase = "running"

\* Enqueue puts one more entry in the writer's hands.
Accept ==
  /\ phase = "running"
  /\ accepted' = accepted + 1
  /\ UNCHANGED <<settled, phase>>

\* A batch, or part of one, has been dealt with.
Settle ==
  /\ \E S \in SUBSET Outstanding :
        /\ S # {}
        /\ settled' = settled \cup S
  /\ UNCHANGED <<accepted, phase>>

\* Stop closes the channel ...
Close ==
  /\ phase = "running"
  /\ phase' = "closing"
  /\ UNCHANGED <<accepted, settled>>

\* ... and returns when nothing is outstanding.
Finish ==
  /\ phase = "closing"
  /\ Outstanding = {}
  /\ phase' = "stopped"
  /\ UNCHANGED <<accepted, settled>>

SinkNext == Accept \/ Settle \/ Close \/ Finish

SinkSafe == SinkInit /\ [][SinkNext]_sinkVars

SinkSpec == SinkSafe /\ WF_sinkVars(Settle) /\ WF_sinkVars(Finish)
=============================================================================
