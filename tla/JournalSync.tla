---------------------------- MODULE JournalSync ----------------------------
(***************************************************************************)
(* Stable sync: receiveJournal, readFlowJournal, startFlowHeartbeat,       *)
(* replayCommand and the checkpoint (internal/replica/replicator.go), and  *)
(* the part of Stop that meets them.                                       *)
(*                                                                         *)
(* One reader per FLOW takes journal records from its connection, advances *)
(* the FLOW's ACK state and sends the record to a bounded channel; the     *)
(* main loop replays what it receives and now and then saves a checkpoint; *)
(* one heartbeat per FLOW acknowledges the ACK state to the source.        *)
(*                                                                         *)
(* A record is its opcode and the source's journal position (LSN) after    *)
(* it: every record but an LSN marker advances the position by one, and a  *)
(* marker carries it.  SELECT is merged into the record that follows it,   *)
(* as in JournalReader; NOOP stands for an opcode the reader rejects.      *)
(***************************************************************************)
EXTENDS Integers, Sequences, FiniteSets

CONSTANTS
  Flows,      \* the FLOW connections
  Journals,   \* the journals a FLOW may carry: sequences of records
  ChanCap,    \* capacity of entryChan (100 in the code)
  MaxFaults   \* connections that break, ACK writes that fail (bound)

Opcodes == {"COMMAND", "EXPIRED", "PING", "LSN", "NOOP"}

Record == [op : Opcodes, lsn : Nat]

\* The position before the first record is one less, unless that is a marker.
WellNumbered(j) ==
  /\ \A i \in 2 .. Len(j) : j[i].lsn = j[i - 1].lsn + (IF j[i].op = "LSN" THEN 0 ELSE 1)
  /\ Len(j) > 0 /\ j[1].op # "LSN" => j[1].lsn > 0

ASSUME JournalAssumption ==
  /\ IsFiniteSet(Flows) /\ Flows # {}
  /\ Journals # {}
  /\ \A j \in Journals : j \in Seq(Record) /\ WellNumbered(j)
  /\ ChanCap \in Nat \ {0}
  /\ MaxFaults \in Nat

VARIABLES
  journal,   \* journal[f]: what the source sends on f
  pc,        \* pc[f]: where f's reader is
  got,       \* got[f]: records f's reader has read
  ack,       \* ack[f]: the FlowACKState
  heartbeat, \* heartbeat[f]: "wait", "send" or "returned"
  ackVal,    \* ackVal[f]: the value the heartbeat has read and will send
  lastSent,  \* lastSent[f]: the heartbeat's lastSentAckVal
  acked,     \* acked[f]: the last ACK the source has got from f
  entryChan, \* the channel: <<f, i>> for record i of f, <<f, 0>> for an error
  current,   \* the flowEntry the main loop works on
  main,      \* where receiveJournal is
  replayed,  \* replayed[f]: records of f replayed (successfully or not)
  flowLSNs,  \* replayStats.FlowLSNs
  saved,     \* the FlowLSNs in the checkpoint file
  final,     \* the final checkpoint was saved
  ctxDone,   \* r.ctx is cancelled
  conn,      \* conn[f]: "up", "half" (write side closed) or "down"
  stop,      \* Stop: "no", "cancelled", "half" or "closed"
  faults

readerVars == <<pc, got, ack>>
heartbeatVars == <<heartbeat, ackVal, lastSent, acked>>
mainVars == <<current, main, replayed, flowLSNs, saved, final>>
envVars == <<journal, conn, stop, faults>>
vars == <<readerVars, heartbeatVars, mainVars, envVars, entryChan, ctxDone>>

Nobody == <<>>

\* The value a heartbeat would acknowledge.
AckValue(f) == ack[f].lsn + ack[f].ops

\* The source's position after the first n records of f.
Position(f, n) == IF n = 0 THEN 0 ELSE journal[f][n].lsn

\* Every variable has its type; the channel never holds more than its
\* capacity, and the main loop is never ahead of a reader.
TypeOK ==
  /\ journal \in [Flows -> Journals]
  /\ pc \in [Flows -> {"check", "read", "send", "sendError", "returned"}]
  /\ got \in [Flows -> Nat]
  /\ ack \in [Flows -> [lsn : Nat, ops : Nat, forcePing : BOOLEAN]]
  /\ heartbeat \in [Flows -> {"wait", "send", "returned"}]
  /\ ackVal \in [Flows -> Nat]
  /\ lastSent \in [Flows -> Nat]
  /\ acked \in [Flows -> Nat]
  /\ entryChan \in Seq(Flows \X Nat) /\ Len(entryChan) <= ChanCap
  /\ \A n \in 1 .. Len(entryChan) : entryChan[n][2] <= got[entryChan[n][1]]
  /\ main \in {"receive", "handle", "done", "failed"}
  /\ IF main = "handle"
       THEN current \in Flows \X Nat /\ current[2] <= got[current[1]]
       ELSE current = Nobody
  /\ replayed \in [Flows -> Nat]
  /\ \A f \in Flows : replayed[f] <= got[f] /\ got[f] <= Len(journal[f])
  /\ flowLSNs \in [Flows -> Nat]
  /\ saved \in [Flows -> Nat]
  /\ final \in BOOLEAN /\ ctxDone \in BOOLEAN
  /\ conn \in [Flows -> {"up", "half", "down"}]
  /\ stop \in {"no", "cancelled", "half", "closed"}
  /\ faults \in 0 .. MaxFaults

-----------------------------------------------------------------------------
\* receiveJournal has started the readers, and each of them its heartbeat.
Init ==
  /\ journal \in [Flows -> Journals]
  /\ pc = [f \in Flows |-> "check"]
  /\ got = [f \in Flows |-> 0]
  /\ ack = [f \in Flows |-> [lsn |-> 0, ops |-> 0, forcePing |-> FALSE]]
  /\ heartbeat = [f \in Flows |-> "wait"]
  /\ ackVal = [f \in Flows |-> 0]
  /\ lastSent = [f \in Flows |-> 0]
  /\ acked = [f \in Flows |-> 0]
  /\ entryChan = <<>>
  /\ current = Nobody
  /\ main = "receive"
  /\ replayed = [f \in Flows |-> 0]
  /\ flowLSNs = [f \in Flows |-> 0]
  /\ saved = [f \in Flows |-> 0]
  /\ final = FALSE
  /\ ctxDone = FALSE
  /\ conn = [f \in Flows |-> "up"]
  /\ stop = "no"
  /\ faults = 0

-----------------------------------------------------------------------------
(* readFlowJournal *)

CheckContext(f) ==
  /\ pc[f] = "check"
  /\ pc' = [pc EXCEPT ![f] = IF ctxDone THEN "returned" ELSE "read"]
  /\ UNCHANGED <<got, ack, heartbeatVars, mainVars, envVars, entryChan, ctxDone>>

\* A fault: the jump to a marker does not reset the count.
AckAfter_KeepsOps(a, r) ==
  LET jump == r.op = "LSN" /\ r.lsn > a.lsn + a.ops IN
  [lsn |-> IF jump THEN r.lsn ELSE a.lsn,
   ops |-> IF jump THEN a.ops ELSE a.ops + 1,
   forcePing |-> a.forcePing \/ r.op = "PING"]

\* The ACK state after a record: a marker ahead of the current total replaces
\* it; every other record, a marker that is not ahead included, counts as one
\* more operation.
AckAfter(a, r) ==
  LET jump == r.op = "LSN" /\ r.lsn > a.lsn + a.ops IN
  [lsn |-> IF jump THEN r.lsn ELSE a.lsn,
   ops |-> IF jump THEN 0 ELSE a.ops + 1,
   forcePing |-> a.forcePing \/ r.op = "PING"]

\* ReadEntry finds a record of a known opcode; it waits while there is none.
EntryReady(f) ==
  /\ conn[f] # "down"
  /\ got[f] < Len(journal[f])
  /\ journal[f][got[f] + 1].op # "NOOP"

\* ReadEntry returns the next record, and the ACK state is advanced, before
\* the record is replayed.
ReadRecord(f) ==
  /\ pc[f] = "read"
  /\ EntryReady(f)
  /\ got' = [got EXCEPT ![f] = @ + 1]
  /\ ack' = [ack EXCEPT ![f] = AckAfter(@, journal[f][got'[f]])]
  /\ pc' = [pc EXCEPT ![f] = "send"]
  /\ UNCHANGED <<heartbeatVars, mainVars, envVars, entryChan, ctxDone>>

\* Any read error, EOF and an unknown opcode included, is fatal for the FLOW.
ReadFails(f) ==
  /\ pc[f] = "read"
  /\ \/ conn[f] = "down"
     \/ got[f] < Len(journal[f]) /\ journal[f][got[f] + 1].op = "NOOP"
  /\ pc' = [pc EXCEPT ![f] = "sendError"]
  /\ UNCHANGED <<got, ack, heartbeatVars, mainVars, envVars, entryChan, ctxDone>>

\* A fault: a full channel drops the record, as a select with a default does.
Send_Drops(f) ==
  /\ entryChan' = IF Len(entryChan) = ChanCap THEN entryChan
                  ELSE Append(entryChan, <<f, IF pc[f] = "send" THEN got[f] ELSE 0>>)
  /\ \/ /\ pc[f] = "send"
        /\ pc' = [pc EXCEPT ![f] = "check"]
     \/ /\ pc[f] = "sendError"
        /\ pc' = [pc EXCEPT ![f] = "returned"]
  /\ UNCHANGED <<got, ack, heartbeatVars, mainVars, envVars, ctxDone>>

\* The send blocks while the channel is full; nothing else ends the wait.
Send(f) ==
  /\ Len(entryChan) < ChanCap
  /\ \/ /\ pc[f] = "send"
        /\ entryChan' = Append(entryChan, <<f, got[f]>>)
        /\ pc' = [pc EXCEPT ![f] = "check"]
     \/ /\ pc[f] = "sendError"
        /\ entryChan' = Append(entryChan, <<f, 0>>)
        /\ pc' = [pc EXCEPT ![f] = "returned"]
  /\ UNCHANGED <<got, ack, heartbeatVars, mainVars, envVars, ctxDone>>

ReaderStep(f) == CheckContext(f) \/ ReadRecord(f) \/ ReadFails(f) \/ Send(f)

-----------------------------------------------------------------------------
(* startFlowHeartbeat *)

\* A tick reads the ACK value and clears the flag under the mutex; the value is
\* sent after the unlock, if it has grown or the source has asked for it.
Tick(f) ==
  /\ heartbeat[f] = "wait"
  /\ AckValue(f) > lastSent[f] \/ ack[f].forcePing
  /\ ackVal' = [ackVal EXCEPT ![f] = AckValue(f)]
  /\ ack' = [ack EXCEPT ![f].forcePing = FALSE]
  /\ heartbeat' = [heartbeat EXCEPT ![f] = "send"]
  /\ UNCHANGED <<pc, got, lastSent, acked, mainVars, envVars, entryChan, ctxDone>>

\* A fault: a keep-alive sends the last marker without the operations since.
KeepAlive_MarkerOnly(f) ==
  /\ heartbeat[f] = "wait"
  /\ AckValue(f) <= lastSent[f] /\ ~ack[f].forcePing
  /\ ackVal' = [ackVal EXCEPT ![f] = ack[f].lsn]
  /\ heartbeat' = [heartbeat EXCEPT ![f] = "send"]
  /\ UNCHANGED <<readerVars, lastSent, acked, mainVars, envVars, entryChan, ctxDone>>

\* A tick ten seconds after the last ACK repeats it.
KeepAlive(f) ==
  /\ heartbeat[f] = "wait"
  /\ AckValue(f) <= lastSent[f] /\ ~ack[f].forcePing
  /\ ackVal' = [ackVal EXCEPT ![f] = AckValue(f)]
  /\ heartbeat' = [heartbeat EXCEPT ![f] = "send"]
  /\ UNCHANGED <<readerVars, lastSent, acked, mainVars, envVars, entryChan, ctxDone>>

\* The write of the ACK fails: the connection is closed for writing, or a
\* deadline passes.
WriteFails(f) ==
  \/ conn[f] # "up" /\ UNCHANGED faults
  \/ faults < MaxFaults /\ faults' = faults + 1

\* A fault: lastSentAckVal is updated even if the write fails.
SendAck_ForgetsFailure(f) ==
  /\ heartbeat[f] = "send"
  /\ heartbeat' = [heartbeat EXCEPT ![f] = "wait"]
  /\ lastSent' = [lastSent EXCEPT ![f] = ackVal[f]]
  /\ \/ /\ conn[f] = "up"
        /\ acked' = [acked EXCEPT ![f] = ackVal[f]]
        /\ UNCHANGED faults
     \/ /\ WriteFails(f)
        /\ UNCHANGED acked
  /\ ackVal' = [ackVal EXCEPT ![f] = 0]
  /\ UNCHANGED <<readerVars, mainVars, journal, conn, stop, entryChan, ctxDone>>

\* sendFlowACK: a failed write leaves lastSentAckVal alone, so that the next
\* tick tries again.
SendAck(f) ==
  /\ heartbeat[f] = "send"
  /\ heartbeat' = [heartbeat EXCEPT ![f] = "wait"]
  /\ \/ /\ conn[f] = "up"
        /\ acked' = [acked EXCEPT ![f] = ackVal[f]]
        /\ lastSent' = [lastSent EXCEPT ![f] = ackVal[f]]
        /\ UNCHANGED faults
     \/ /\ WriteFails(f)
        /\ UNCHANGED <<acked, lastSent>>
  /\ ackVal' = [ackVal EXCEPT ![f] = 0]
  /\ UNCHANGED <<readerVars, mainVars, journal, conn, stop, entryChan, ctxDone>>

\* The select takes a closed channel, the reader's or the context's; a tick that
\* is ready at the same time may be taken first.
HeartbeatReturns(f) ==
  /\ heartbeat[f] = "wait"
  /\ pc[f] = "returned" \/ ctxDone
  /\ heartbeat' = [heartbeat EXCEPT ![f] = "returned"]
  /\ UNCHANGED <<readerVars, ackVal, lastSent, acked, mainVars, envVars, entryChan, ctxDone>>

HeartbeatStep(f) == Tick(f) \/ SendAck(f) \/ HeartbeatReturns(f)

-----------------------------------------------------------------------------
(* receiveJournal *)

Receive ==
  /\ main = "receive"
  /\ entryChan # <<>>
  /\ current' = Head(entryChan)
  /\ entryChan' = Tail(entryChan)
  /\ main' = "handle"
  /\ UNCHANGED <<readerVars, heartbeatVars, replayed, flowLSNs, saved, final, envVars, ctxDone>>

\* replayCommand: a marker sets FlowLSNs; a command is executed or skipped,
\* and a failure is only logged.
ReplayCommand(f, i) ==
  /\ replayed' = [replayed EXCEPT ![f] = i]
  /\ flowLSNs' = IF journal[f][i].op = "LSN"
                   THEN [flowLSNs EXCEPT ![f] = journal[f][i].lsn] ELSE flowLSNs

\* saveCheckpoint with the given FlowLSNs, as far as it happens at all: it may
\* be disabled, not yet due (tryAutoSaveCheckpoint), or fail, which is logged.
CheckpointAfter(lsns) == {saved, lsns}

\* A fault: the checkpoint records what has been read, as the ACK does.
Replay_SavesAcked ==
  /\ main = "handle"
  /\ current[2] # 0
  /\ ReplayCommand(current[1], current[2])
  /\ saved' \in CheckpointAfter([f \in Flows |-> ack[f].lsn])
  /\ current' = Nobody
  /\ main' = "receive"
  /\ UNCHANGED <<readerVars, heartbeatVars, final, envVars, entryChan, ctxDone>>

\* The main loop replays the record, and then tries to save a checkpoint.
Replay ==
  /\ main = "handle"
  /\ current[2] # 0
  /\ ReplayCommand(current[1], current[2])
  /\ saved' \in CheckpointAfter(flowLSNs')
  /\ current' = Nobody
  /\ main' = "receive"
  /\ UNCHANGED <<readerVars, heartbeatVars, final, envVars, entryChan, ctxDone>>

\* The error of a FLOW cancels the context and ends receiveJournal at once,
\* without the final checkpoint.
HandleError ==
  /\ main = "handle"
  /\ current[2] = 0
  /\ ctxDone' = TRUE
  /\ current' = Nobody
  /\ main' = "failed"
  /\ UNCHANGED <<readerVars, heartbeatVars, replayed, flowLSNs, saved, final, envVars, entryChan>>

\* A fault: the loop ends when the readers have returned, with records still in
\* the channel.
Finish_LeavesRecords ==
  /\ main = "receive"
  /\ \A f \in Flows : pc[f] = "returned"
  /\ saved' \in CheckpointAfter(flowLSNs)
  /\ final' = TRUE
  /\ main' = "done"
  /\ UNCHANGED <<readerVars, heartbeatVars, current, replayed, flowLSNs, envVars, entryChan,
                 ctxDone>>

\* All readers have returned, the channel is closed and empty: the final
\* checkpoint is saved (or its failure logged).
Finish ==
  /\ main = "receive"
  /\ entryChan = <<>>
  /\ \A f \in Flows : pc[f] = "returned"
  /\ saved' \in CheckpointAfter(flowLSNs)
  /\ final' = TRUE
  /\ main' = "done"
  /\ UNCHANGED <<readerVars, heartbeatVars, current, replayed, flowLSNs, envVars, entryChan,
                 ctxDone>>

MainStep == Receive \/ Replay \/ HandleError \/ Finish

-----------------------------------------------------------------------------
(* Stop, and what the network does *)

StopCancel ==
  /\ stop = "no"
  /\ stop' = "cancelled"
  /\ ctxDone' = TRUE
  /\ UNCHANGED <<readerVars, heartbeatVars, mainVars, journal, conn, faults, entryChan>>

\* CloseWrite, two seconds later, on every FLOW connection still open.
StopHalfClose ==
  /\ stop = "cancelled"
  /\ stop' = "half"
  /\ conn' = [f \in Flows |-> IF conn[f] = "up" THEN "half" ELSE conn[f]]
  /\ UNCHANGED <<readerVars, heartbeatVars, mainVars, journal, faults, entryChan, ctxDone>>

\* A fault: the FLOW connections stay half-closed.
StopClose_HalfOnly ==
  /\ stop = "half"
  /\ stop' = "closed"
  /\ UNCHANGED <<readerVars, heartbeatVars, mainVars, journal, conn, faults, entryChan, ctxDone>>

\* Close, one second later; Stop then waits for Start to return.
StopClose ==
  /\ stop = "half"
  /\ stop' = "closed"
  /\ conn' = [f \in Flows |-> "down"]
  /\ UNCHANGED <<readerVars, heartbeatVars, mainVars, journal, faults, entryChan, ctxDone>>

\* The source answers a FIN with its own.
SourceHangsUp(f) ==
  /\ conn[f] = "half"
  /\ conn' = [conn EXCEPT ![f] = "down"]
  /\ UNCHANGED <<readerVars, heartbeatVars, mainVars, journal, stop, faults, entryChan, ctxDone>>

Break(f) ==
  /\ conn[f] = "up"
  /\ faults < MaxFaults
  /\ faults' = faults + 1
  /\ conn' = [conn EXCEPT ![f] = "down"]
  /\ UNCHANGED <<readerVars, heartbeatVars, mainVars, journal, stop, entryChan, ctxDone>>

Next ==
  \/ \E f \in Flows :
       ReaderStep(f) \/ HeartbeatStep(f) \/ KeepAlive(f) \/ Break(f) \/ SourceHangsUp(f)
  \/ MainStep
  \/ StopCancel
  \/ StopHalfClose
  \/ StopClose

SafeSpec == Init /\ [][Next]_vars

\* Every goroutine is scheduled, the ticker of a heartbeat keeps firing, the
\* source keeps sending, replaying a command takes finite time, and a Stop
\* that has begun goes on to close the connections.
Spec ==
  /\ SafeSpec
  /\ \A f \in Flows : WF_vars(ReaderStep(f)) /\ WF_vars(HeartbeatStep(f))
  /\ WF_vars(MainStep)
  /\ WF_vars(StopHalfClose)
  /\ WF_vars(StopClose)

-----------------------------------------------------------------------------
(* Properties *)

\* The checkpoint never claims a position that has not been replayed: the LSN
\* saved for a FLOW is at most the position of the records replayed from it.
CheckpointCovered == \A f \in Flows : saved[f] <= Position(f, replayed[f])

\* The records of a FLOW are replayed in the order the source sent them, none
\* left out and none twice, although all FLOWs share one channel.
ReplayInOrder ==
  [][\A f \in Flows : replayed'[f] \in {replayed[f], replayed[f] + 1}]_vars

\* The source never sees the acknowledged position of a FLOW go back, whatever
\* markers, pings, keep-alives and failed writes come in between.
AckMonotone == [][\A f \in Flows : acked'[f] >= acked[f]]_vars

\* The markers among the records f's reader has taken.
MarkersRead(f) == {i \in 1 .. got[f] : journal[f][i].op = "LSN"}

\* The ACK value leads the position of the records read by the markers counted
\* as operations, never by more: the jump to a marker ahead forgets the count
\* it replaces.  (A Dragonfly replica counts no marker, and never leads.)
AckLeadsByMarkers ==
  \A f \in Flows : AckValue(f) <= Position(f, got[f]) + Cardinality(MarkersRead(f))

\* The final checkpoint comes after everything: when receiveJournal returns
\* without an error, every record that any reader has taken, and acknowledged, has
\* been replayed, although a canceled reader stops between two records.
FinalCoversRead == final => \A f \in Flows : replayed[f] = got[f]

\* Every record a reader has taken is eventually replayed, unless the journal
\* phase ends.
RecordsReplayed ==
  \A f \in Flows : \A i \in UNION {1 .. Len(j) : j \in Journals} :
    got[f] >= i ~> (replayed[f] >= i \/ main \in {"done", "failed"})

\* What a reader has counted is eventually acknowledged to the source, even if
\* a write of the ACK fails, as long as the FLOW lives.
AckDelivered ==
  \A f \in Flows :
    []<>(acked[f] >= AckValue(f) \/ pc[f] = "returned" \/ ctxDone \/ conn[f] # "up")

\* Stop's wait for Start ends: receiveJournal returns after the connections
\* have been closed.
StopReturns == (stop = "closed") ~> main \in {"done", "failed"}
=============================================================================
