-------------------------- MODULE JournalSyncProofs --------------------------
(* What receiveJournal replays and saves, for any FLOWs, journals and channel *)
(* capacity: the type invariant, in parts that other proofs cite, then order, *)
(* and how far the checkpoints reach; and what startFlowHeartbeat             *)
(* acknowledges.                                                              *)
EXTENDS JournalSync, FiniteSetTheorems, TLAPS

AckState == [lsn : Nat, ops : Nat, forcePing : BOOLEAN]

\* TypeOK in parts that few actions touch at a time.
ReaderType ==
  /\ pc \in [Flows -> {"check", "read", "send", "sendError", "returned"}]
  /\ got \in [Flows -> Nat]
BeatType ==
  /\ heartbeat \in [Flows -> {"wait", "send", "returned"}]
  /\ ackVal \in [Flows -> Nat]
  /\ lastSent \in [Flows -> Nat]
  /\ acked \in [Flows -> Nat]
ChanType ==
  /\ entryChan \in Seq(Flows \X Nat) /\ Len(entryChan) <= ChanCap
  /\ \A n \in 1 .. Len(entryChan) : entryChan[n][2] <= got[entryChan[n][1]]
CurrentType ==
  /\ main \in {"receive", "handle", "done", "failed"}
  /\ IF main = "handle"
       THEN current \in Flows \X Nat /\ current[2] <= got[current[1]]
       ELSE current = Nobody
MainType == replayed \in [Flows -> Nat] /\ flowLSNs \in [Flows -> Nat] /\ saved \in [Flows -> Nat]
CountType == \A f \in Flows : replayed[f] <= got[f] /\ got[f] <= Len(journal[f])
EnvType ==
  /\ conn \in [Flows -> {"up", "half", "down"}]
  /\ stop \in {"no", "cancelled", "half", "closed"}
  /\ faults \in 0 .. MaxFaults
JournalType == journal \in [Flows -> Journals]
AckType == ack \in [Flows -> AckState]
FlagType == final \in BOOLEAN /\ ctxDone \in BOOLEAN
Parts ==
  /\ ReaderType /\ BeatType /\ ChanType /\ CurrentType /\ MainType
  /\ CountType /\ EnvType /\ JournalType /\ AckType /\ FlagType

\* The parts are the whole.
LEMMA TypeParts == TypeOK <=> Parts
BY Zenon DEF TypeOK, Parts, ReaderType, BeatType, ChanType, CurrentType, MainType, CountType, EnvType,
             JournalType, AckType, FlagType, AckState

\* Every journal is a sequence of records, numbered in order.
LEMMA JournalRecords ==
  ASSUME JournalType, NEW f \in Flows
  PROVE  /\ journal[f] \in Seq(Record) /\ WellNumbered(journal[f])
         /\ \A i \in 1 .. Len(journal[f]) :
              journal[f][i] \in Record /\ journal[f][i].lsn \in Nat
<1>1. journal[f] \in Seq(Record) /\ WellNumbered(journal[f])
  BY JournalAssumption, Zenon DEF JournalType
<1>2. \A i \in 1 .. Len(journal[f]) : journal[f][i] \in Record
  BY <1>1
<1> QED BY <1>1, <1>2, Zenon DEF Record

\* The ACK state never loses count, whatever the record.
LEMMA AckGrows ==
  ASSUME NEW a \in [lsn : Nat, ops : Nat, forcePing : BOOLEAN], NEW r \in Record
  PROVE  /\ AckAfter(a, r) \in [lsn : Nat, ops : Nat, forcePing : BOOLEAN]
         /\ a.lsn + a.ops < AckAfter(a, r).lsn + AckAfter(a, r).ops
<1> DEFINE jump == r.op = "LSN" /\ r.lsn > a.lsn + a.ops
<1>1. a.lsn \in Nat /\ a.ops \in Nat /\ a.forcePing \in BOOLEAN /\ r.lsn \in Nat
  BY Zenon DEF Record
<1>2. CASE jump
  BY <1>1, <1>2 DEF AckAfter
<1>3. CASE ~jump
  BY <1>1, <1>3 DEF AckAfter
<1> QED BY <1>2, <1>3, Zenon

\* Every variable starts with its type.
LEMMA TypeInit == Init => TypeOK
<1> SUFFICES ASSUME Init PROVE TypeOK
  BY Zenon
<1> USE JournalAssumption
<1>1. entryChan \in Seq(Flows \X Nat) /\ Len(entryChan) = 0
  BY DEF Init
<1>2. \A f \in Flows : journal[f] \in Seq(Record) /\ 0 <= Len(journal[f])
  BY DEF Init
<1>3. final \in BOOLEAN /\ ctxDone \in BOOLEAN
  BY Zenon DEF Init
<1>4. AckType
  <2>1. [lsn |-> 0, ops |-> 0, forcePing |-> FALSE] \in AckState
    BY Zenon DEF AckState
  <2> QED BY <2>1, Zenon DEF Init, AckType
<1>5. ReaderType /\ BeatType /\ MainType /\ EnvType /\ JournalType
  BY DEF Init, ReaderType, BeatType, MainType, EnvType, JournalType
<1>6. ChanType /\ CurrentType /\ CountType
  BY <1>1, <1>2 DEF Init, ChanType, CurrentType, CountType
<1> QED BY <1>3, <1>4, <1>5, <1>6, TypeParts, Zenon DEF Parts, FlagType
-----------------------------------------------------------------------------
\* The actions as one list of disjuncts, quantifiers first.
LEMMA NextCases ==
  ASSUME Next
  PROVE  \/ \E f \in Flows :
              \/ CheckContext(f) \/ ReadRecord(f) \/ ReadFails(f) \/ Send(f)
              \/ Tick(f) \/ SendAck(f) \/ HeartbeatReturns(f) \/ KeepAlive(f)
              \/ Break(f) \/ SourceHangsUp(f)
         \/ Receive \/ Replay \/ HandleError \/ Finish
         \/ StopCancel \/ StopHalfClose \/ StopClose
BY Zenon DEF Next, ReaderStep, HeartbeatStep, MainStep

\* Every action keeps every part of the type invariant.
LEMMA TypeStep == TypeOK /\ [Next]_vars => TypeOK'
<1> SUFFICES ASSUME TypeOK, [Next]_vars PROVE Parts'
  <2> TypeOK' <=> Parts'
    BY Zenon DEF TypeOK, Parts, ReaderType, BeatType, ChanType, CurrentType, MainType, CountType,
                 EnvType, JournalType, AckType, FlagType, AckState
  <2> QED BY Zenon
<1>r. ReaderType /\ EnvType /\ JournalType
  BY TypeParts, Zenon DEF Parts
<1>b. BeatType /\ AckType
  BY TypeParts, Zenon DEF Parts
<1>c. ChanType /\ CurrentType
  BY TypeParts, Zenon DEF Parts
<1>m. MainType /\ CountType
  BY TypeParts, Zenon DEF Parts
<1>f. FlagType
  BY TypeParts, Zenon DEF Parts
<1>j. \A f \in Flows : Len(journal[f]) \in Nat
                       /\ \A i \in 1 .. Len(journal[f]) :
                            journal[f][i] \in Record /\ journal[f][i].lsn \in Nat
  BY <1>r, JournalRecords
<1> USE DEF Nobody, readerVars, heartbeatVars, mainVars, envVars
\* What each group depends on.
<1>r1. UNCHANGED <<pc, got>> => ReaderType'
  BY <1>r, Zenon DEF ReaderType
<1>b1. UNCHANGED heartbeatVars => BeatType'
  BY <1>b, Zenon DEF BeatType
<1>c1. UNCHANGED <<entryChan, got>> => ChanType'
  BY <1>c, Zenon DEF ChanType
<1>c2. UNCHANGED <<main, current, got>> => CurrentType'
  BY <1>c, Zenon DEF CurrentType
<1>m1. UNCHANGED <<replayed, flowLSNs, saved>> => MainType'
  BY <1>m, Zenon DEF MainType
<1>m2. UNCHANGED <<replayed, got, journal>> => CountType'
  BY <1>m, Zenon DEF CountType
<1>e1. UNCHANGED <<conn, stop, faults>> => EnvType'
  BY <1>r, Zenon DEF EnvType
<1>e2. UNCHANGED journal => JournalType'
  BY <1>r, Zenon DEF JournalType
<1>a1. UNCHANGED ack => AckType'
  BY <1>b, Zenon DEF AckType
<1>f1. UNCHANGED <<final, ctxDone>> => FlagType'
  BY <1>f, Zenon DEF FlagType
<1>2. ASSUME NEW f \in Flows, CheckContext(f) \/ ReadFails(f) PROVE Parts'
  <2>1. ReaderType'
    BY <1>2, <1>r, Zenon DEF CheckContext, ReadFails, ReaderType
  <2> QED BY <1>2, <2>1, <1>b1, <1>c1, <1>c2, <1>m1, <1>m2, <1>e1, <1>e2, <1>a1, <1>f1, SMTT(30)
          DEF CheckContext, ReadFails, Parts
<1>3. ASSUME NEW f \in Flows, ReadRecord(f) PROVE Parts'
  <2>0. got[f] \in Nat
    BY <1>r, Zenon DEF ReaderType
  <2>1. got' = [got EXCEPT ![f] = got[f] + 1] /\ got[f] + 1 \in 1 .. Len(journal[f])
    BY <1>3, <1>j, <2>0 DEF EntryReady, ReadRecord
  <2>2. ReaderType' /\ \A g \in Flows : got[g] \in Nat /\ got'[g] \in Nat /\ got[g] <= got'[g]
    BY <1>3, <1>r, <2>1 DEF ReadRecord, ReaderType
  <2>3. CountType'
    <3> SUFFICES ASSUME NEW g \in Flows PROVE replayed[g] <= got'[g] /\ got'[g] <= Len(journal[g])
      BY <1>3, Zenon DEF ReadRecord, CountType
    <3>1. replayed[g] \in Nat /\ replayed[g] <= got[g] /\ got[g] <= Len(journal[g])
      BY <1>m, Zenon DEF MainType, CountType
    <3>2. got'[g] = IF g = f THEN got[f] + 1 ELSE got[g]
      BY <1>r, <2>1, Zenon DEF ReaderType
    <3> QED BY <1>j, <2>1, <2>2, <3>1, <3>2
  <2>4. ChanType'
    <3>1. \A n \in 1 .. Len(entryChan) : entryChan[n] \in Flows \X Nat
      BY <1>c DEF ChanType
    <3>2. \A n \in 1 .. Len(entryChan) : entryChan[n][2] <= got'[entryChan[n][1]]
      <4> SUFFICES ASSUME NEW n \in 1 .. Len(entryChan)
                   PROVE entryChan[n][2] <= got'[entryChan[n][1]]
        BY Zenon
      <4>1. entryChan[n][1] \in Flows /\ entryChan[n][2] \in Nat
        BY <3>1, Zenon
      <4>2. entryChan[n][2] <= got[entryChan[n][1]]
        BY <1>c, Zenon DEF ChanType
      <4> QED BY <2>2, <4>1, <4>2
    <3> QED BY <1>3, <1>c, <3>2, Zenon DEF ReadRecord, ChanType
  <2>5. CurrentType'
    <3>1. CASE main = "handle"
      <4>1. current[1] \in Flows /\ current[2] \in Nat /\ current[2] <= got[current[1]]
        BY <1>c, <3>1, Zenon DEF CurrentType
      <4>2. current[2] <= got'[current[1]]
        BY <2>2, <4>1
      <4> QED BY <1>3, <1>c, <3>1, <4>2, Zenon DEF ReadRecord, CurrentType
    <3>2. CASE main # "handle"
      BY <1>3, <1>c, <3>2, Zenon DEF ReadRecord, CurrentType
    <3> QED BY <3>1, <3>2, Zenon
  <2>6. AckType'
    <3>1. AckAfter(ack[f], journal[f][got[f] + 1]) \in AckState
      BY <1>b, <1>j, <2>1, AckGrows, SMTT(30) DEF AckState, AckType
    <3>2. ack' = [ack EXCEPT ![f] = AckAfter(ack[f], journal[f][got[f] + 1])]
      <4>1. got'[f] = got[f] + 1
        BY <1>r, <2>1, Zenon DEF ReaderType
      <4> QED BY <1>3, <4>1, Zenon DEF ReadRecord
    <3> QED BY <1>b, <3>1, <3>2, Zenon DEF AckType
  <2> QED BY <1>3, <2>2, <2>3, <2>4, <2>5, <2>6, <1>b1, <1>m1, <1>e1, <1>e2, <1>f1, SMTT(30)
          DEF ReadRecord, Parts
<1>5. ASSUME NEW f \in Flows, Send(f) PROVE Parts'
  <2>1. PICK i \in Nat : entryChan' = Append(entryChan, <<f, i>>) /\ i <= got[f]
    BY <1>r, <1>5 DEF Send, ReaderType
  <2>2. entryChan \in Seq(Flows \X Nat) /\ <<f, i>> \in Flows \X Nat
    BY <1>c, <2>1, Zenon DEF ChanType
  <2>3. entryChan' \in Seq(Flows \X Nat) /\ Len(entryChan') = Len(entryChan) + 1
    BY <2>1, <2>2
  <2>4. \A n \in 1 .. Len(entryChan') :
          entryChan'[n] = IF n = Len(entryChan) + 1 THEN <<f, i>> ELSE entryChan[n]
    BY <2>1, <2>2, <2>3
  <2>5. \A n \in 1 .. Len(entryChan') : entryChan'[n][2] <= got[entryChan'[n][1]]
    <3> SUFFICES ASSUME NEW n \in 1 .. Len(entryChan')
                 PROVE entryChan'[n][2] <= got[entryChan'[n][1]]
      BY Zenon
    <3>1. CASE n = Len(entryChan) + 1
      <4>1. entryChan'[n] = <<f, i>>
        BY <2>4, <3>1, Zenon
      <4> QED BY <2>1, <4>1
    <3>2. CASE n # Len(entryChan) + 1
      <4>1. n \in 1 .. Len(entryChan)
        BY <2>2, <2>3, <3>2
      <4> QED BY <1>c, <2>4, <3>2, <4>1, Zenon DEF ChanType
    <3> QED BY <3>1, <3>2, Zenon
  <2>6. ChanType'
    <3>1. Len(entryChan') <= ChanCap
      BY <1>5, <2>2, <2>3, JournalAssumption DEF Send
    <3>2. got' = got
      BY <1>5, Zenon DEF Send
    <3> QED BY <2>3, <2>5, <3>1, <3>2, Zenon DEF ChanType
  <2>7. ReaderType'
    BY <1>5, <1>r, Zenon DEF Send, ReaderType
  <2> QED BY <1>5, <2>6, <2>7, <1>b1, <1>c2, <1>m1, <1>m2, <1>e1, <1>e2, <1>a1, <1>f1, SMTT(30) DEF Send, Parts
<1>6. ASSUME NEW f \in Flows, Tick(f) \/ KeepAlive(f) PROVE Parts'
  <2>1. ack[f] \in AckState /\ ack[f].lsn \in Nat /\ ack[f].ops \in Nat
    BY <1>b, Zenon DEF AckState, AckType
  <2>2. AckValue(f) \in Nat
    BY <2>1 DEF AckValue
  <2>3. BeatType'
    BY <1>b, <1>6, <2>2, Zenon DEF Tick, KeepAlive, BeatType
  <2>4. AckType'
    <3>1. CASE KeepAlive(f)
      BY <1>a1, <3>1, Zenon DEF KeepAlive
    <3>2. CASE Tick(f)
      <4>1. [ack[f] EXCEPT !.forcePing = FALSE] \in AckState
        BY <2>1, Zenon DEF AckState
      <4>2. ack' = [ack EXCEPT ![f] = [ack[f] EXCEPT !.forcePing = FALSE]]
        BY <3>2, Zenon DEF Tick
      <4> QED BY <1>b, <4>1, <4>2, Zenon DEF AckType
    <3> QED BY <1>6, <3>1, <3>2, Zenon
  <2> QED BY <1>6, <2>3, <2>4, <1>r1, <1>c1, <1>c2, <1>m1, <1>m2, <1>e1, <1>e2, <1>f1, SMTT(30)
          DEF Tick, KeepAlive, Parts
<1>7. ASSUME NEW f \in Flows, SendAck(f) PROVE Parts'
  <2>1. BeatType'
    BY <1>b, <1>7, Zenon DEF SendAck, BeatType
  <2>2. EnvType'
    BY <1>r, <1>7, JournalAssumption DEF SendAck, WriteFails, EnvType
  <2> QED BY <1>7, <2>1, <2>2, <1>r1, <1>c1, <1>c2, <1>m1, <1>m2, <1>e2, <1>a1, <1>f1, Zenon
          DEF SendAck, Parts
<1>8. ASSUME NEW f \in Flows, HeartbeatReturns(f) PROVE Parts'
  <2>1. BeatType'
    BY <1>b, <1>8, Zenon DEF HeartbeatReturns, BeatType
  <2> QED BY <1>8, <2>1, <1>r1, <1>c1, <1>c2, <1>m1, <1>m2, <1>e1, <1>e2, <1>a1, <1>f1, SMTT(30)
          DEF HeartbeatReturns, Parts
<1>9. ASSUME (\E f \in Flows : Break(f) \/ SourceHangsUp(f)) \/ StopHalfClose \/ StopClose
      PROVE Parts'
  <2>1. EnvType'
    BY <1>r, <1>9, JournalAssumption DEF Break, SourceHangsUp, StopHalfClose, StopClose, EnvType
  <2> QED BY <1>9, <2>1, <1>r1, <1>b1, <1>c1, <1>c2, <1>m1, <1>m2, <1>e2, <1>a1, <1>f1, SMTT(30)
          DEF Break, SourceHangsUp, StopHalfClose, StopClose, Parts
<1>10. ASSUME Receive PROVE Parts'
  <2>1. entryChan \in Seq(Flows \X Nat) /\ entryChan # <<>>
    BY <1>c, <1>10, Zenon DEF Receive, ChanType
  <2>2. /\ Head(entryChan) = entryChan[1] /\ 1 \in 1 .. Len(entryChan)
        /\ Head(entryChan) \in Flows \X Nat
        /\ Tail(entryChan) \in Seq(Flows \X Nat) /\ Len(Tail(entryChan)) = Len(entryChan) - 1
        /\ \A n \in 1 .. Len(entryChan) - 1 : Tail(entryChan)[n] = entryChan[n + 1]
    BY <2>1
  <2>3. CurrentType'
    BY <1>c, <1>10, <2>2, Zenon DEF Receive, ChanType, CurrentType
  <2>4. ChanType'
    <3>1. Len(entryChan') <= ChanCap
      BY <1>c, <1>10, <2>1, <2>2, JournalAssumption DEF Receive, ChanType
    <3>2. \A n \in 1 .. Len(entryChan') : entryChan'[n][2] <= got[entryChan'[n][1]]
      BY <1>c, <1>10, <2>1, <2>2 DEF Receive, ChanType
    <3> QED BY <1>10, <2>2, <3>1, <3>2, Zenon DEF Receive, ChanType
  <2> QED BY <1>10, <2>3, <2>4, <1>r1, <1>b1, <1>m1, <1>m2, <1>e1, <1>e2, <1>a1, <1>f1, SMTT(30)
          DEF Receive, Parts
<1>11. ASSUME Replay PROVE Parts'
  <2>1. PICK f \in Flows, i \in Nat : current[1] = f /\ current[2] = i /\ 1 <= i /\ i <= got[f]
    BY <1>c, <1>11 DEF Replay, CurrentType
  <2>2. i \in 1 .. Len(journal[f])
    <3>1. got[f] \in Nat /\ got[f] <= Len(journal[f])
      BY <1>r, <1>m, Zenon DEF ReaderType, CountType
    <3> QED BY <1>j, <2>1, <3>1
  <2>3. MainType'
    <3>1. journal[f][i].lsn \in Nat
      BY <1>j, <2>2, Zenon
    <3>2. flowLSNs' \in [Flows -> Nat] /\ replayed' \in [Flows -> Nat]
      BY <1>m, <1>11, <2>1, <3>1, Zenon DEF Replay, ReplayCommand, MainType
    <3> QED BY <1>m, <1>11, <3>2, SMTT(30) DEF CheckpointAfter, Replay, MainType
  <2>4. CountType'
    BY <1>m, <1>11, <2>1, Zenon DEF Replay, ReplayCommand, MainType, CountType
  <2>5. CurrentType'
    BY <1>11, Zenon DEF Replay, CurrentType
  <2> QED BY <1>11, <2>3, <2>4, <2>5, <1>r1, <1>b1, <1>c1, <1>e1, <1>e2, <1>a1, <1>f1, SMTT(30) DEF Replay, Parts
<1>12. ASSUME HandleError PROVE Parts'
  <2>1. CurrentType'
    BY <1>12, Zenon DEF HandleError, CurrentType
  <2>2. FlagType'
    BY <1>f, <1>12, Zenon DEF HandleError, FlagType
  <2> QED BY <1>12, <2>1, <2>2, <1>r1, <1>b1, <1>c1, <1>m1, <1>m2, <1>e1, <1>e2, <1>a1, SMTT(30)
          DEF HandleError, Parts
<1>13. ASSUME StopCancel PROVE Parts'
  <2>1. EnvType'
    BY <1>r, <1>13, Zenon DEF StopCancel, EnvType
  <2>2. FlagType'
    BY <1>f, <1>13, Zenon DEF StopCancel, FlagType
  <2> QED BY <1>13, <2>1, <2>2, <1>r1, <1>b1, <1>c1, <1>c2, <1>m1, <1>m2, <1>e2, <1>a1, SMTT(30)
          DEF StopCancel, Parts
<1>14. ASSUME Finish PROVE Parts'
  <2>1. CurrentType'
    BY <1>c, <1>14, Zenon DEF Finish, CurrentType
  <2>2. FlagType'
    BY <1>f, <1>14, Zenon DEF Finish, FlagType
  <2>3. MainType'
    BY <1>m, <1>14, Zenon DEF CheckpointAfter, Finish, MainType
  <2> QED BY <1>14, <2>1, <2>2, <2>3, <1>r1, <1>b1, <1>c1, <1>m2, <1>e1, <1>e2, <1>a1, SMTT(30)
          DEF Finish, Parts
<1>15. ASSUME UNCHANGED vars PROVE Parts'
  BY <1>15, <1>r1, <1>b1, <1>c1, <1>c2, <1>m1, <1>m2, <1>e1, <1>e2, <1>a1, <1>f1, SMTT(30) DEF vars, Parts
<1>16. Next \/ UNCHANGED vars
  BY Zenon
<1> QED
  BY <1>2, <1>3, <1>5, <1>6, <1>7, <1>8, <1>9, <1>10, <1>11, <1>12, <1>13, <1>14, <1>15, <1>16,
     NextCases, ZenonT(30)

-----------------------------------------------------------------------------
\* Types hold, and entryChan never exceeds its capacity, for any number of
\* FLOWs and any journals.
THEOREM JournalTypeOK == SafeSpec => []TypeOK
  BY TypeInit, TypeStep, PTL DEF SafeSpec
-----------------------------------------------------------------------------
(* Order and checkpoints *)

\* Records of f that its reader has put into the channel.
Sent(f) == IF pc[f] = "send" THEN got[f] - 1 ELSE got[f]

\* Records of f that the main loop has taken out of it.
Taken(f) ==
  IF main = "handle" /\ current[1] = f /\ current[2] # 0 THEN replayed[f] + 1 ELSE replayed[f]

\* The record in the main loop's hands is the next one of its FLOW.
CurrentIsNext == main = "handle" /\ current[2] # 0 => current[2] = replayed[current[1]] + 1

\* The channel holds, for every FLOW, exactly the records sent and not taken,
\* in the order of the journal.
QueueInOrder ==
  /\ \A f \in Flows : Taken(f) <= Sent(f)
  /\ \A f \in Flows : \A n \in 1 .. Len(entryChan) :
       (entryChan[n][1] = f /\ entryChan[n][2] # 0)
         => Taken(f) < entryChan[n][2] /\ entryChan[n][2] <= Sent(f)
  /\ \A m, n \in 1 .. Len(entryChan) :
       (m < n /\ entryChan[m][1] = entryChan[n][1] /\ entryChan[m][2] # 0 /\ entryChan[n][2] # 0)
         => entryChan[m][2] < entryChan[n][2]
  /\ \A f \in Flows : \A i \in Nat : (Taken(f) < i /\ i <= Sent(f))
       => \E n \in 1 .. Len(entryChan) : entryChan[n][1] = f /\ entryChan[n][2] = i

\* What the main loop knows of the source's position has been replayed.
LSNsCovered ==
  \A f \in Flows : flowLSNs[f] <= Position(f, replayed[f]) /\ saved[f] <= Position(f, replayed[f])

QueueInv == TypeOK /\ CurrentIsNext /\ QueueInOrder
IndInv == QueueInv /\ LSNsCovered

\* The channel starts empty.
LEMMA InitInv == Init => IndInv
<1> SUFFICES ASSUME Init PROVE IndInv
  BY Zenon
<1>1. CurrentIsNext /\ QueueInOrder
  BY DEF Init, CurrentIsNext, QueueInOrder, Sent, Taken
<1>2. LSNsCovered
  BY DEF Init, LSNsCovered, Position
<1> QED BY TypeInit, <1>1, <1>2, Zenon DEF IndInv, QueueInv

-----------------------------------------------------------------------------
\* The channel keeps every FLOW's records in order, so that the main loop always
\* takes the next record of a FLOW.
LEMMA QueueStep ==
  TypeOK /\ CurrentIsNext /\ QueueInOrder /\ [Next]_vars => (CurrentIsNext /\ QueueInOrder)'
<1> SUFFICES ASSUME TypeOK, CurrentIsNext, QueueInOrder, [Next]_vars
             PROVE CurrentIsNext' /\ QueueInOrder'
  BY Zenon
<1>t. ReaderType /\ ChanType /\ CurrentType /\ MainType
  BY TypeParts, Zenon DEF Parts
<1>c. /\ entryChan \in Seq(Flows \X Nat) /\ Len(entryChan) \in Nat
      /\ \A n \in 1 .. Len(entryChan) : /\ entryChan[n] \in Flows \X Nat
                                        /\ entryChan[n][1] \in Flows /\ entryChan[n][2] \in Nat
  BY <1>t DEF ChanType
<1>g. \A f \in Flows : /\ got[f] \in Nat /\ replayed[f] \in Nat
                       /\ Sent(f) \in Int /\ Taken(f) \in Nat
  BY <1>t DEF ReaderType, MainType, Sent, Taken
<1> USE DEF readerVars, heartbeatVars, mainVars, envVars, Nobody
<1>1. ASSUME UNCHANGED <<entryChan, main, current, replayed>>, \A f \in Flows : Sent(f)' = Sent(f)
      PROVE CurrentIsNext' /\ QueueInOrder'
  <2>1. \A f \in Flows : Taken(f)' = Taken(f)
    BY <1>1, Zenon DEF Taken
  <2>2. CurrentIsNext'
    BY <1>1, Zenon DEF CurrentIsNext
  <2> HIDE DEF Taken, Sent
  <2>3. QueueInOrder'
    <3>1. entryChan' = entryChan /\ \A f \in Flows : Sent(f)' = Sent(f)
      BY <1>1, Zenon
    <3>2. \A f \in Flows : Taken(f)' <= Sent(f)'
      BY <2>1, <3>1, Zenon DEF QueueInOrder
    <3>3. \A f \in Flows : \A n \in 1 .. Len(entryChan') :
            (entryChan'[n][1] = f /\ entryChan'[n][2] # 0)
              => Taken(f)' < entryChan'[n][2] /\ entryChan'[n][2] <= Sent(f)'
      BY <2>1, <3>1 DEF QueueInOrder
    <3>4. \A m, n \in 1 .. Len(entryChan') :
            (m < n /\ entryChan'[m][1] = entryChan'[n][1] /\ entryChan'[m][2] # 0
               /\ entryChan'[n][2] # 0)
              => entryChan'[m][2] < entryChan'[n][2]
      BY <3>1, Zenon DEF QueueInOrder
    <3>5. \A f \in Flows : \A i \in Nat : (Taken(f)' < i /\ i <= Sent(f)')
            => \E n \in 1 .. Len(entryChan') : entryChan'[n][1] = f /\ entryChan'[n][2] = i
      BY <2>1, <3>1 DEF QueueInOrder
    <3> QED BY <3>2, <3>3, <3>4, <3>5, Zenon DEF QueueInOrder
  <2> QED BY <2>2, <2>3, Zenon
<1>2. ASSUME UNCHANGED <<entryChan, main, current, replayed, pc, got>>
      PROVE CurrentIsNext' /\ QueueInOrder'
  BY <1>1, <1>2, SMTT(30) DEF Sent
<1>3. ASSUME NEW f \in Flows, CheckContext(f) \/ ReadFails(f) \/ ReadRecord(f)
      PROVE CurrentIsNext' /\ QueueInOrder'
  <2>1. \A g \in Flows : Sent(g)' = Sent(g)
    <3>1. CASE CheckContext(f) \/ ReadFails(f)
      <4>1. /\ got' = got /\ pc[f] \in {"check", "read"}
            /\ \E p \in {"returned", "read", "sendError"} : pc' = [pc EXCEPT ![f] = p]
        BY <3>1, Zenon DEF CheckContext, ReadFails
      <4> QED BY <4>1, <1>t, Zenon DEF Sent, ReaderType
    <3>2. CASE ReadRecord(f)
      <4>1. /\ got' = [got EXCEPT ![f] = got[f] + 1] /\ pc' = [pc EXCEPT ![f] = "send"]
            /\ pc[f] = "read"
        BY <3>2, ZenonT(30) DEF ReadRecord
      <4> QED BY <4>1, <1>t, SMTT(30) DEF Sent, ReaderType
    <3> QED BY <1>3, <3>1, <3>2, Zenon
  <2> QED BY <1>1, <1>3, <2>1, Zenon DEF CheckContext, ReadFails, ReadRecord
<1>4. ASSUME NEW f \in Flows, Send(f) PROVE CurrentIsNext' /\ QueueInOrder'
  <2> DEFINE L == Len(entryChan)
  <2>1. PICK i \in Nat : /\ entryChan' = Append(entryChan, <<f, i>>)
                         /\ i # 0 => Sent(f) < i
                         /\ i # 0 => Sent(f)' = i /\ i = Sent(f) + 1
                         /\ i = 0 => Sent(f)' = Sent(f)
    <3>1. CASE pc[f] = "send"
      <4>1. got[f] # 0
        BY <1>g, <3>1 DEF QueueInOrder, Sent
      <4>2. entryChan' = Append(entryChan, <<f, got[f]>>) /\ pc'[f] = "check" /\ got' = got
        BY <1>4, <1>t, <3>1, Zenon DEF Send, ReaderType
      <4> QED BY <1>g, <3>1, <4>1, <4>2, SMTT(30) DEF Sent
    <3>2. CASE pc[f] = "sendError"
      <4>1. entryChan' = Append(entryChan, <<f, 0>>) /\ pc'[f] = "returned" /\ got' = got
        BY <1>4, <1>t, <3>2, Zenon DEF Send, ReaderType
      <4> QED BY <1>g, <3>2, <4>1, Zenon DEF Sent
    <3> QED BY <1>4, <3>1, <3>2, Zenon DEF Send
  <2>2. \A g \in Flows : g # f => Sent(g)' = Sent(g)
    BY <1>4, <1>t, Zenon DEF Send, Sent, ReaderType
  <2>3. \A g \in Flows : Taken(g)' = Taken(g)
    BY <1>4, Zenon DEF Send, Taken
  <2>4. CurrentIsNext'
    BY <1>4, Zenon DEF Send, CurrentIsNext
  <2>5. /\ Len(entryChan') = L + 1
        /\ entryChan'[L + 1] = <<f, i>>
        /\ \A n \in 1 .. L : entryChan'[n] = entryChan[n]
    BY <1>c, <2>1
  <2>6. \A g \in Flows : Sent(g) <= Sent(g)' /\ Sent(g)' \in Int
    BY <1>g, <2>1, <2>2
  <2>7. \A n \in 1 .. Len(entryChan') : n \in 1 .. L \/ (n = L + 1 /\ entryChan'[n] = <<f, i>>)
    BY <1>c, <2>5
  <2> HIDE DEF Taken, Sent, L
  <2>8. \A g \in Flows : Taken(g)' <= Sent(g)'
    BY <1>g, <2>3, <2>6 DEF QueueInOrder
  <2>9. ASSUME NEW g \in Flows, NEW n \in 1 .. Len(entryChan'),
               entryChan'[n][1] = g, entryChan'[n][2] # 0
        PROVE Taken(g)' < entryChan'[n][2] /\ entryChan'[n][2] <= Sent(g)'
    <3>1. CASE n \in 1 .. L
      <4>1. entryChan'[n] = entryChan[n] /\ entryChan[n][1] = g /\ entryChan[n][2] \in Nat
        BY <1>c, <2>5, <2>9, <3>1, Zenon DEF L
      <4>2. Taken(g) < entryChan[n][2] /\ entryChan[n][2] <= Sent(g)
        BY <2>9, <3>1, <4>1, Zenon DEF QueueInOrder, L
      <4> QED BY <1>g, <2>3, <2>6, <4>1, <4>2, SMTT(30)
    <3>2. CASE entryChan'[n] = <<f, i>>
      <4>1. g = f /\ entryChan'[n][2] = i /\ i # 0
        BY <2>9, <3>2
      <4>2. Taken(f) <= Sent(f)
        BY Zenon DEF QueueInOrder
      <4> QED BY <1>g, <2>1, <2>3, <4>1, <4>2
    <3> QED BY <2>7, <3>1, <3>2, Zenon
  <2>10. ASSUME NEW m \in 1 .. Len(entryChan'), NEW n \in 1 .. Len(entryChan'), m < n,
                entryChan'[m][1] = entryChan'[n][1], entryChan'[m][2] # 0, entryChan'[n][2] # 0
         PROVE entryChan'[m][2] < entryChan'[n][2]
    <3>0. m \in 1 .. L
      BY <1>c, <2>5, <2>7, <2>10 DEF L
    <3>1. CASE n \in 1 .. L
      BY <2>5, <2>10, <3>0, <3>1, Zenon DEF QueueInOrder, L
    <3>2. CASE entryChan'[n] = <<f, i>>
      <4>1. entryChan'[m] = entryChan[m] /\ entryChan[m][1] = f /\ entryChan[m][2] \in Nat
        BY <1>c, <2>5, <2>10, <3>0, <3>2 DEF L
      <4>2. entryChan[m][2] <= Sent(f)
        BY <2>10, <3>0, <4>1, Zenon DEF QueueInOrder, L
      <4> QED BY <1>g, <2>1, <2>10, <3>2, <4>1, <4>2, SMTT(30)
    <3> QED BY <2>7, <3>1, <3>2, Zenon
  <2>11. ASSUME NEW g \in Flows, NEW k \in Nat, Taken(g)' < k, k <= Sent(g)'
         PROVE \E n \in 1 .. Len(entryChan') : entryChan'[n][1] = g /\ entryChan'[n][2] = k
    <3>1. CASE k <= Sent(g)
      <4>1. PICK n \in 1 .. L : entryChan[n][1] = g /\ entryChan[n][2] = k
        BY <2>3, <2>11, <3>1 DEF QueueInOrder, L
      <4> QED BY <1>c, <2>5, <4>1 DEF L
    <3>2. CASE ~(k <= Sent(g))
      <4>1. g = f /\ k = i
        BY <1>g, <2>1, <2>2, <2>11, <3>2
      <4>2. L + 1 \in 1 .. Len(entryChan')
        BY <1>c, <2>5 DEF L
      <4>3. entryChan'[L + 1][1] = f /\ entryChan'[L + 1][2] = i
        BY <2>5
      <4> QED BY <4>1, <4>2, <4>3, Zenon
    <3> QED BY <3>1, <3>2, Zenon
  <2>12. QueueInOrder'
    BY <2>8, <2>9, <2>10, <2>11, SMTT(30) DEF QueueInOrder
  <2> QED BY <2>4, <2>12, Zenon
<1>5. ASSUME Receive PROVE CurrentIsNext' /\ QueueInOrder'
  <2> DEFINE L == Len(entryChan)
             f == entryChan[1][1]
             i == entryChan[1][2]
  <2>1. /\ L >= 1 /\ current' = entryChan[1] /\ Len(entryChan') = L - 1
        /\ \A n \in 1 .. L - 1 : entryChan'[n] = entryChan[n + 1]
    BY <1>c, <1>5, SMTT(30) DEF Receive
  <2>2. f \in Flows /\ i \in Nat /\ current'[1] = f /\ current'[2] = i
    BY <1>c, <2>1
  <2>3. UNCHANGED <<replayed, pc, got>> /\ main = "receive" /\ main' = "handle"
    BY <1>5, Zenon DEF Receive
  <2>4. \A g \in Flows : Sent(g)' = Sent(g)
    BY <2>3, Zenon DEF Sent
  <2>5. \A g \in Flows : /\ Taken(g) = replayed[g]
                         /\ Taken(g)' = IF g = f /\ i # 0 THEN replayed[g] + 1 ELSE replayed[g]
    BY <2>2, <2>3, Zenon DEF Taken
  <2> HIDE DEF Taken, Sent, L, f, i
  <2>6. i # 0 => i = replayed[f] + 1
    <3> SUFFICES ASSUME i # 0 PROVE i = replayed[f] + 1
      BY Zenon
    <3>1. 1 \in 1 .. L
      BY <1>c, <2>1, SMTT(30) DEF L
    <3>2. replayed[f] < i /\ i <= Sent(f)
      BY <2>2, <2>5, <3>1 DEF QueueInOrder, f, i, L
    <3>3. SUFFICES ASSUME replayed[f] + 1 < i PROVE FALSE
      BY <1>g, <2>2, <3>2
    <3>4. PICK n \in 1 .. L : entryChan[n][1] = f /\ entryChan[n][2] = replayed[f] + 1
      <4>1. replayed[f] + 1 \in Nat /\ Taken(f) < replayed[f] + 1 /\ replayed[f] + 1 <= Sent(f)
        BY <1>g, <2>2, <2>5, <3>2, <3>3
      <4> QED BY <2>2, <4>1 DEF QueueInOrder, L
    <3>5. n # 1
      BY <2>2, <3>3, <3>4, <1>g DEF i
    <3>6. 1 < n
      BY <1>c, <3>5, SMTT(30) DEF L
    <3>7. i < replayed[f] + 1
      BY <1>g, <2>2, <3>1, <3>4, <3>6 DEF QueueInOrder, f, i, L
    <3> QED BY <1>g, <2>2, <3>3, <3>7
  <2>7. CurrentIsNext'
    BY <2>2, <2>3, <2>6, Zenon DEF CurrentIsNext
  <2>8. ASSUME NEW n \in 1 .. Len(entryChan')
        PROVE n + 1 \in 1 .. L /\ 1 \in 1 .. L /\ 1 < n + 1 /\ entryChan'[n] = entryChan[n + 1]
    <3>1. L \in Nat /\ n \in 1 .. L - 1
      BY <1>c, <2>1, Zenon DEF L
    <3> QED BY <2>1, <3>1
  <2>9. \A g \in Flows : Taken(g)' \in Nat /\ Taken(g) <= Taken(g)' /\ (Taken(g)' = Taken(g) \/ (g = f /\ i # 0 /\ Taken(g)' = i))
    BY <1>g, <2>2, <2>5, <2>6
  <2>10. \A g \in Flows : Taken(g)' <= Sent(g)'
    <3> SUFFICES ASSUME NEW g \in Flows PROVE Taken(g)' <= Sent(g)
      BY <2>4, Zenon
    <3>1. Taken(g) <= Sent(g)
      BY Zenon DEF QueueInOrder
    <3>2. i # 0 => i <= Sent(f)
      BY <1>c, <2>1 DEF QueueInOrder, f, i, L
    <3> QED BY <2>9, <3>1, <3>2, Zenon
  <2>11. ASSUME NEW g \in Flows, NEW n \in 1 .. Len(entryChan'),
                entryChan'[n][1] = g, entryChan'[n][2] # 0
         PROVE Taken(g)' < entryChan'[n][2] /\ entryChan'[n][2] <= Sent(g)'
    <3>1. n + 1 \in 1 .. L /\ 1 \in 1 .. L /\ 1 < n + 1 /\ entryChan'[n] = entryChan[n + 1]
      BY <2>8, Zenon
    <3>2. entryChan[n + 1][1] = g /\ entryChan[n + 1][2] \in Nat /\ entryChan[n + 1][2] # 0
      BY <1>c, <2>11, <3>1, Zenon DEF L
    <3>3. Taken(g) < entryChan[n + 1][2] /\ entryChan[n + 1][2] <= Sent(g)
      BY <3>1, <3>2, Zenon DEF QueueInOrder, L
    <3>4. g = f /\ i # 0 => i < entryChan[n + 1][2]
      BY <3>1, <3>2, Zenon DEF QueueInOrder, L, f, i
    <3>5. Taken(g)' < entryChan[n + 1][2]
      BY <2>9, <3>3, <3>4, Zenon
    <3> QED BY <2>4, <3>1, <3>3, <3>5, SMTT(30)
  <2>12. ASSUME NEW m \in 1 .. Len(entryChan'), NEW n \in 1 .. Len(entryChan'), m < n,
                entryChan'[m][1] = entryChan'[n][1], entryChan'[m][2] # 0, entryChan'[n][2] # 0
         PROVE entryChan'[m][2] < entryChan'[n][2]
    <3>1. m + 1 < n + 1
      BY <2>12, <1>c, <2>1 DEF L
    <3>2. /\ m + 1 \in 1 .. L /\ n + 1 \in 1 .. L
          /\ entryChan'[m] = entryChan[m + 1] /\ entryChan'[n] = entryChan[n + 1]
      BY <2>8, Zenon
    <3> QED BY <2>12, <3>1, <3>2, SMTT(30) DEF QueueInOrder, L
  <2>13. ASSUME NEW g \in Flows, NEW k \in Nat, Taken(g)' < k, k <= Sent(g)'
         PROVE \E n \in 1 .. Len(entryChan') : entryChan'[n][1] = g /\ entryChan'[n][2] = k
    <3>1. Taken(g) < k /\ k <= Sent(g)
      BY <1>g, <2>4, <2>9, <2>13, SMTT(30)
    <3>2. PICK n \in 1 .. L : entryChan[n][1] = g /\ entryChan[n][2] = k
      BY <3>1 DEF QueueInOrder, L
    <3>3. n # 1
      <4> SUFFICES ASSUME n = 1 PROVE FALSE
        BY Zenon
      <4>1. g = f /\ i = k
        BY <3>2, Zenon DEF f, i
      <4>2. i # 0
        BY <1>g, <3>1, <4>1
      <4>3. Taken(g)' = i
        BY <1>g, <2>5, <2>6, <4>1, <4>2, Zenon
      <4> QED BY <2>13, <4>1, <4>3
    <3>4. n - 1 \in 1 .. Len(entryChan')
      BY <1>c, <2>1, <3>3 DEF L
    <3>5. entryChan'[n - 1] = entryChan[n]
      BY <1>c, <2>8, <3>4, SMTT(30) DEF L
    <3> QED BY <3>2, <3>4, <3>5, Zenon
  <2>14. QueueInOrder'
    BY <2>10, <2>11, <2>12, <2>13, SMTT(30) DEF QueueInOrder
  <2> QED BY <2>7, <2>14, SMTT(30)
<1>6. ASSUME Replay PROVE CurrentIsNext' /\ QueueInOrder'
  <2>1. current[1] \in Flows /\ current[2] = replayed[current[1]] + 1 /\ current[2] # 0
    BY <1>6, <1>t, SMTT(30) DEF Replay, CurrentType, CurrentIsNext
  <2>2. \A g \in Flows : replayed'[g] = IF g = current[1] THEN current[2] ELSE replayed[g]
    BY <1>6, <1>t, <2>1, Zenon DEF Replay, ReplayCommand, MainType
  <2>3. \A g \in Flows : Taken(g)' = Taken(g)
    BY <1>6, <2>1, <2>2, Zenon DEF Replay, Taken
  <2>4. \A g \in Flows : Sent(g)' = Sent(g)
    BY <1>6, Zenon DEF Replay, Sent
  <2>5. CurrentIsNext'
    BY <1>6, Zenon DEF Replay, CurrentIsNext
  <2> HIDE DEF Taken, Sent
  <2>6. entryChan' = entryChan
    BY <1>6, SMTT(30) DEF Replay
  <2> QED BY <1>c, <2>3, <2>4, <2>5, <2>6 DEF QueueInOrder
<1>7. ASSUME HandleError \/ Finish PROVE CurrentIsNext' /\ QueueInOrder'
  <2>1. \A g \in Flows : Taken(g)' = Taken(g) /\ Sent(g)' = Sent(g)
    BY <1>7, Zenon DEF HandleError, Finish, Taken, Sent
  <2>2. CurrentIsNext'
    BY <1>7, Zenon DEF HandleError, Finish, CurrentIsNext
  <2> HIDE DEF Taken, Sent
  <2>3. entryChan' = entryChan
    BY <1>7, Zenon DEF HandleError, Finish
  <2>4. \A g \in Flows : Taken(g)' <= Sent(g)'
    BY <2>1, Zenon DEF QueueInOrder
  <2>5. ASSUME NEW g \in Flows, NEW n \in 1 .. Len(entryChan),
               entryChan[n][1] = g, entryChan[n][2] # 0
        PROVE  Taken(g)' < entryChan[n][2] /\ entryChan[n][2] <= Sent(g)'
    <3>1. Taken(g) < entryChan[n][2] /\ entryChan[n][2] <= Sent(g)
      BY <2>5, Zenon DEF QueueInOrder
    <3> QED BY <2>1, <3>1, Zenon
  <2>6. ASSUME NEW g \in Flows, NEW i \in Nat, Taken(g)' < i, i <= Sent(g)'
        PROVE  \E n \in 1 .. Len(entryChan) : entryChan[n][1] = g /\ entryChan[n][2] = i
    <3>1. Taken(g) < i /\ i <= Sent(g)
      BY <2>1, <2>6, Zenon
    <3> QED BY <3>1, ZenonT(30) DEF QueueInOrder
  <2>7. QueueInOrder'
    <3>1. ASSUME NEW g \in Flows, NEW n \in 1 .. Len(entryChan'),
                 entryChan'[n][1] = g, entryChan'[n][2] # 0
          PROVE  Taken(g)' < entryChan'[n][2] /\ entryChan'[n][2] <= Sent(g)'
      BY <2>3, <2>5, <3>1, Zenon
    <3>2. ASSUME NEW m \in 1 .. Len(entryChan'), NEW n \in 1 .. Len(entryChan'), m < n,
                 entryChan'[m][1] = entryChan'[n][1], entryChan'[m][2] # 0, entryChan'[n][2] # 0
          PROVE  entryChan'[m][2] < entryChan'[n][2]
      BY <2>3, <3>2, Zenon DEF QueueInOrder
    <3>3. ASSUME NEW g \in Flows, NEW i \in Nat, Taken(g)' < i, i <= Sent(g)'
          PROVE  \E n \in 1 .. Len(entryChan') : entryChan'[n][1] = g /\ entryChan'[n][2] = i
      <4>1. PICK n \in 1 .. Len(entryChan) : entryChan[n][1] = g /\ entryChan[n][2] = i
        BY <2>6, <3>3, ZenonT(40)
      <4>2. n \in 1 .. Len(entryChan') /\ entryChan'[n][1] = g /\ entryChan'[n][2] = i
        BY <2>3, <4>1, Zenon
      <4> QED BY <4>2, Zenon
    <3> QED BY <2>4, <3>1, <3>2, <3>3, SMTT(30) DEF QueueInOrder
  <2> QED BY <2>2, <2>7, Zenon
<1>8. CASE \E f \in Flows : \/ Tick(f) \/ SendAck(f) \/ HeartbeatReturns(f) \/ KeepAlive(f)
                            \/ Break(f) \/ SourceHangsUp(f)
  BY <1>2, <1>8, Zenon DEF Tick, SendAck, HeartbeatReturns, KeepAlive, Break, SourceHangsUp
<1>9. CASE StopCancel \/ StopHalfClose \/ StopClose \/ UNCHANGED vars
  BY <1>2, <1>9, Zenon DEF StopCancel, StopHalfClose, StopClose, vars
<1>10. Next \/ UNCHANGED vars
  BY Zenon
<1> QED BY <1>3, <1>4, <1>5, <1>6, <1>7, <1>8, <1>9, <1>10, NextCases, Zenon

-----------------------------------------------------------------------------
\* A record is replayed only after all records before it, and the position the
\* checkpoint knows moves with it.
LEMMA ReplayStep ==
  QueueInv /\ LSNsCovered /\ [Next]_vars
    => LSNsCovered' /\ \A f \in Flows : replayed'[f] \in {replayed[f], replayed[f] + 1}
<1> SUFFICES ASSUME TypeOK, CurrentIsNext, QueueInOrder, LSNsCovered, [Next]_vars
             PROVE LSNsCovered' /\ \A f \in Flows : replayed'[f] \in {replayed[f], replayed[f] + 1}
  BY Zenon DEF QueueInv
<1>t. ReaderType /\ CurrentType /\ MainType /\ CountType /\ JournalType
  BY TypeParts, Zenon DEF Parts
<1> USE DEF readerVars, heartbeatVars, mainVars, envVars, Nobody
<1>1. ASSUME UNCHANGED <<replayed, flowLSNs, journal>>, saved' \in {saved, flowLSNs}
      PROVE LSNsCovered' /\ \A f \in Flows : replayed'[f] \in {replayed[f], replayed[f] + 1}
  <2>1. \A f \in Flows : Position(f, replayed[f])' = Position(f, replayed[f])
    BY <1>1, Zenon DEF Position
  <2> HIDE DEF Position
  <2> QED BY <1>1, <2>1, Zenon DEF LSNsCovered
<1>2. ASSUME Replay
      PROVE LSNsCovered' /\ \A f \in Flows : replayed'[f] \in {replayed[f], replayed[f] + 1}
  <2>1. PICK f \in Flows, i \in Nat : /\ f = current[1] /\ i = current[2]
                                      /\ i = replayed[f] + 1 /\ i <= got[f]
    BY <1>2, <1>t, SMTT(30) DEF Replay, CurrentType, CurrentIsNext
  <2>2. \A g \in Flows : replayed'[g] = IF g = f THEN i ELSE replayed[g]
    BY <1>2, <1>t, <2>1, Zenon DEF Replay, ReplayCommand, MainType
  <2>3. i \in 1 .. Len(journal[f])
    BY <1>t, <2>1, JournalRecords DEF ReaderType, MainType, CountType
  <2>4. journal[f][i].lsn \in Nat /\ Position(f, replayed[f]) <= journal[f][i].lsn
    <3>1. CASE replayed[f] = 0
      BY <1>t, <2>1, <2>3, <3>1, JournalRecords DEF Position
    <3>2. CASE replayed[f] # 0
      <4>1. i \in 2 .. Len(journal[f]) /\ i - 1 \in 1 .. Len(journal[f]) /\ i - 1 = replayed[f]
        <5>1. replayed[f] \in Nat /\ Len(journal[f]) \in Nat
          BY <1>t, JournalRecords DEF MainType
        <5> QED BY <2>1, <2>3, <3>2, <5>1
      <4>2. journal[f][i].lsn = journal[f][i - 1].lsn + (IF journal[f][i].op = "LSN" THEN 0 ELSE 1)
        BY <1>t, <2>1, <4>1, JournalRecords, Zenon DEF WellNumbered
      <4>3. journal[f][i - 1].lsn \in Nat /\ Position(f, replayed[f]) = journal[f][i - 1].lsn
        BY <1>t, <2>1, <3>2, <4>1, JournalRecords, Zenon DEF Position
      <4>4. (IF journal[f][i].op = "LSN" THEN 0 ELSE 1) \in {0, 1}
        BY Zenon
      <4>5. journal[f][i].lsn \in Nat
        BY <1>t, <2>1, <2>3, JournalRecords, Zenon
      <4> QED BY <4>2, <4>3, <4>4, <4>5
    <3> QED BY <3>1, <3>2, Zenon
  <2>5. \A g \in Flows : g # f => Position(g, replayed[g])' = Position(g, replayed[g])
    BY <1>2, <2>2, Zenon DEF Replay, Position
  <2>6. Position(f, replayed[f])' = journal[f][i].lsn
    <3>1. replayed'[f] = i /\ i # 0 /\ journal' = journal
      BY <1>2, <2>1, <2>2, <2>3, SMTT(30) DEF Replay
    <3> QED BY <1>2, <3>1, Zenon DEF Replay, Position
  <2>7. \A g \in Flows : flowLSNs'[g] = flowLSNs[g] \/ (g = f /\ flowLSNs'[g] = journal[f][i].lsn)
    BY <1>2, <1>t, <2>1, ZenonT(30) DEF Replay, ReplayCommand, MainType
  <2>8. saved' = saved \/ saved' = flowLSNs'
    BY <1>2, Zenon DEF CheckpointAfter, Replay
  <2>9. \A g \in Flows : /\ flowLSNs[g] \in Nat /\ saved[g] \in Nat
                         /\ flowLSNs[g] <= Position(g, replayed[g])
                         /\ saved[g] <= Position(g, replayed[g])
    BY <1>t, Zenon DEF MainType, LSNsCovered
  <2>10. Position(f, replayed[f]) \in Nat
    <3>1. replayed[f] # 0 => replayed[f] \in 1 .. Len(journal[f])
      BY <1>t, <2>1, <2>3, JournalRecords, SMTT(30) DEF MainType
    <3> QED BY <1>t, <2>1, <3>1, JournalRecords, Zenon DEF Position
  <2> HIDE DEF Position
  <2>11. \A g \in Flows : flowLSNs'[g] <= Position(g, replayed[g])'
                          /\ saved[g] <= Position(g, replayed[g])'
    <3> SUFFICES ASSUME NEW g \in Flows
                 PROVE  flowLSNs'[g] <= Position(g, replayed[g])' /\ saved[g] <= Position(g, replayed[g])'
      OBVIOUS
    <3>1. CASE g # f
      BY <2>5, <2>7, <2>9, <3>1, Zenon
    <3>2. CASE g = f
      <4>1. /\ flowLSNs[g] \in Nat /\ saved[g] \in Nat
            /\ flowLSNs[g] <= Position(f, replayed[f]) /\ saved[g] <= Position(f, replayed[f])
        BY <2>9, <3>2, Zenon
      <4>2. flowLSNs'[g] = flowLSNs[g] \/ flowLSNs'[g] = journal[f][i].lsn
        BY <2>7, Zenon
      <4> QED BY <2>4, <2>6, <2>10, <3>2, <4>1, <4>2
    <3> QED BY <3>1, <3>2
  <2>12. LSNsCovered'
    BY <2>8, <2>11, SMTT(30) DEF LSNsCovered
  <2> QED BY <2>1, <2>2, <2>12, Zenon
<1>3. CASE \E f \in Flows : CheckContext(f) \/ ReadRecord(f) \/ ReadFails(f) \/ Send(f)
                            \/ Tick(f) \/ SendAck(f) \/ HeartbeatReturns(f) \/ KeepAlive(f)
                            \/ Break(f) \/ SourceHangsUp(f)
  <2>1. UNCHANGED <<replayed, flowLSNs, journal, saved>>
    BY <1>3, Zenon DEF CheckContext, ReadRecord, ReadFails, Send, Tick, SendAck, HeartbeatReturns,
       KeepAlive, Break, SourceHangsUp
  <2> QED BY <1>1, <2>1, Zenon
<1>4. CASE Receive \/ HandleError \/ Finish \/ StopCancel \/ StopHalfClose \/ StopClose
  BY <1>1, <1>4, Zenon DEF CheckpointAfter, Receive, HandleError, Finish, StopCancel, StopHalfClose, StopClose
<1>5. CASE UNCHANGED vars
  BY <1>1, <1>5, Zenon DEF vars
<1>6. Next \/ UNCHANGED vars
  BY Zenon
<1> QED BY <1>2, <1>3, <1>4, <1>5, <1>6, NextCases, Zenon

-----------------------------------------------------------------------------
\* The inductive invariant holds throughout.
LEMMA InvariantHolds == SafeSpec => []IndInv
<1>1. IndInv /\ [Next]_vars => IndInv'
  <2> SUFFICES ASSUME IndInv, [Next]_vars PROVE IndInv'
    BY Zenon
  <2>1. TypeOK' /\ CurrentIsNext' /\ QueueInOrder'
    BY TypeStep, QueueStep, Zenon DEF IndInv, QueueInv
  <2>2. LSNsCovered'
    BY ReplayStep, Zenon DEF IndInv, QueueInv
  <2> QED BY <2>1, <2>2, Zenon DEF IndInv, QueueInv
<1> QED BY <1>1, InitInv, PTL DEF SafeSpec

\* saveCheckpoint never records an LSN beyond what replayCommand has gone through.
THEOREM CheckpointIsCovered == SafeSpec => []CheckpointCovered
<1>1. IndInv => CheckpointCovered
  BY Zenon DEF IndInv, LSNsCovered, CheckpointCovered
<1> QED BY <1>1, InvariantHolds, PTL

\* The shared entryChan never reorders, loses or repeats a record of a FLOW:
\* receiveJournal replays record n + 1 of a FLOW right after record n of it.
THEOREM ReplayedInOrder == SafeSpec => ReplayInOrder
<1>1. IndInv /\ [Next]_vars => [\A f \in Flows : replayed'[f] \in {replayed[f], replayed[f] + 1}]_vars
  BY ReplayStep, Zenon DEF IndInv
<1> QED BY <1>1, InvariantHolds, PTL DEF SafeSpec, ReplayInOrder

\* Once the final checkpoint is saved, the readers and the main loop are done.
AllDone == final => main = "done" /\ \A f \in Flows : pc[f] = "returned" /\ replayed[f] = got[f]

\* The channel that receiveJournal finds closed and empty has delivered everything
\* the readers took, so the final checkpoint leaves no record out.
THEOREM FinalCheckpointCoversRead == SafeSpec => []FinalCoversRead
<1>1. Init => AllDone
  BY Zenon DEF Init, AllDone
<1>2. IndInv /\ AllDone /\ [Next]_vars => AllDone'
  <2> SUFFICES ASSUME IndInv, AllDone, [Next]_vars PROVE AllDone'
    BY Zenon
  <2>1. CASE Finish
    <3>1. /\ entryChan = <<>> /\ main = "receive" /\ main' = "done"
          /\ pc' = pc /\ got' = got /\ replayed' = replayed
          /\ \A f \in Flows : pc[f] = "returned"
      BY <2>1, Zenon DEF Finish, readerVars
    <3>2. ASSUME NEW f \in Flows PROVE replayed[f] = got[f]
      <4>1. Taken(f) = replayed[f] /\ Sent(f) = got[f]
        BY <3>1, Zenon DEF Taken, Sent
      <4>2. replayed[f] \in Nat /\ got[f] \in Nat
        BY Zenon DEF IndInv, QueueInv, TypeOK
      <4>3. replayed[f] <= got[f]
        BY <4>1, Zenon DEF IndInv, QueueInv, QueueInOrder
      <4>4. ~(replayed[f] < got[f])
        <5>1. ASSUME replayed[f] < got[f] PROVE \E m \in 1 .. Len(entryChan) : TRUE
          BY <4>1, <4>2, <5>1 DEF IndInv, QueueInv, QueueInOrder
        <5>2. 1 .. Len(entryChan) = {}
          BY <3>1
        <5> QED BY <5>1, <5>2, SMTT(30)
      <4> QED BY <4>2, <4>3, <4>4
    <3> QED BY <3>1, <3>2, Zenon DEF AllDone
  <2>2. CASE ~Finish /\ final
    <3>1. main = "done" /\ \A f \in Flows : pc[f] = "returned"
      BY <2>2, SMTT(30) DEF AllDone
    <3>2. \A f \in Flows : ~CheckContext(f) /\ ~ReadRecord(f) /\ ~ReadFails(f) /\ ~Send(f)
      BY <3>1, Zenon DEF CheckContext, ReadRecord, ReadFails, Send
    <3>3. ~Receive /\ ~Replay /\ ~HandleError
      BY <3>1, Zenon DEF Receive, Replay, HandleError
    <3>4. \/ UNCHANGED vars \/ StopCancel \/ StopHalfClose \/ StopClose
          \/ \E f \in Flows : \/ Tick(f) \/ SendAck(f) \/ HeartbeatReturns(f) \/ KeepAlive(f)
                              \/ Break(f) \/ SourceHangsUp(f)
      BY <2>2, <3>2, <3>3, NextCases, Zenon
    <3>5. UNCHANGED <<pc, got, main, replayed>>
      BY <3>4, Zenon DEF Tick, KeepAlive, SendAck, HeartbeatReturns, Break, SourceHangsUp, StopCancel,
         StopHalfClose, StopClose, vars, readerVars, mainVars
    <3> QED BY <2>2, <3>5, Zenon DEF AllDone
  <2>3. CASE ~Finish /\ ~final
    <3>1. final' = final
      BY <2>3, Zenon DEF Next, ReaderStep, CheckContext, ReadRecord, ReadFails, Send, HeartbeatStep,
         Tick, KeepAlive, SendAck, HeartbeatReturns, Break, SourceHangsUp, MainStep, Receive, Replay,
         HandleError, StopCancel, StopHalfClose, StopClose, vars, mainVars
    <3> QED BY <2>3, <3>1, SMTT(30) DEF AllDone
  <2> QED BY <2>1, <2>2, <2>3, Zenon
<1>3. AllDone => FinalCoversRead
  BY Zenon DEF AllDone, FinalCoversRead
<1> QED BY <1>1, <1>2, <1>3, InvariantHolds, PTL DEF SafeSpec

------------------------------------------------------------------------------
(* ACKs never go back, and how far they can lead *)

\* The value a heartbeat holds lies between the last one sent and the state.
AckBetween ==
  \A f \in Flows :
    /\ acked[f] <= lastSent[f] /\ lastSent[f] <= AckValue(f)
    /\ heartbeat[f] = "send" => lastSent[f] <= ackVal[f] /\ ackVal[f] <= AckValue(f)

AckInv == TypeOK /\ AckBetween

\* The value of the ACK state never falls, and heartbeats only send values they
\* have read from it after their last success.
LEMMA AckStep == TypeOK /\ AckBetween /\ [Next]_vars => AckBetween' /\ \A f \in Flows : acked[f] <= acked'[f]
<1> SUFFICES ASSUME TypeOK, AckBetween, [Next]_vars
             PROVE AckBetween' /\ \A f \in Flows : acked[f] <= acked'[f]
  BY Zenon
<1>r. ReaderType /\ JournalType /\ CountType
  BY TypeParts, Zenon DEF Parts
<1>b. BeatType /\ AckType
  BY TypeParts, Zenon DEF Parts
<1>v. \A f \in Flows : /\ ack[f] \in AckState /\ ack[f].lsn \in Nat /\ ack[f].ops \in Nat
                       /\ AckValue(f) \in Nat
  BY <1>b DEF AckType, AckState, AckValue
<1>n. \A f \in Flows : acked[f] \in Nat /\ lastSent[f] \in Nat /\ ackVal[f] \in Nat
  BY <1>b, Zenon DEF BeatType
<1> USE DEF readerVars, heartbeatVars, mainVars, envVars
\* Enough: the value does not fall, and the heartbeats do nothing.
<1>1. ASSUME UNCHANGED heartbeatVars,
             \A f \in Flows : AckValue(f)' \in Nat /\ AckValue(f) <= AckValue(f)'
      PROVE AckBetween' /\ \A f \in Flows : acked[f] <= acked'[f]
  <2>1. \A f \in Flows : acked[f] <= acked'[f]
    BY <1>1, <1>n
  <2>2. AckBetween'
    <3> SUFFICES ASSUME NEW f \in Flows
                 PROVE (/\ acked[f] <= lastSent[f] /\ lastSent[f] <= AckValue(f)
                        /\ heartbeat[f] = "send" => lastSent[f] <= ackVal[f] /\ ackVal[f] <= AckValue(f))'
      BY Zenon DEF AckBetween
    <3>1. /\ acked[f] <= lastSent[f] /\ lastSent[f] <= AckValue(f)
          /\ heartbeat[f] = "send" => lastSent[f] <= ackVal[f] /\ ackVal[f] <= AckValue(f)
      BY Zenon DEF AckBetween
    <3>2. AckValue(f)' \in Nat /\ AckValue(f) <= AckValue(f)'
      BY <1>1, Zenon
    <3> HIDE DEF AckValue
    <3> QED BY <1>1, <1>n, <1>v, <3>1, <3>2
  <2> QED BY <2>1, <2>2, Zenon
<1>2. ASSUME UNCHANGED <<heartbeatVars, ack>>
      PROVE AckBetween' /\ \A f \in Flows : acked[f] <= acked'[f]
  <2>1. \A f \in Flows : AckValue(f)' = AckValue(f)
    BY <1>2, Zenon DEF AckValue
  <2> QED BY <1>1, <1>2, <1>v, <2>1
<1>3. ASSUME NEW f \in Flows, ReadRecord(f)
      PROVE AckBetween' /\ \A g \in Flows : acked[g] <= acked'[g]
  <2>1. got[f] + 1 \in 1 .. Len(journal[f]) /\ got'[f] = got[f] + 1
    BY <1>r, <1>3, JournalRecords DEF EntryReady, ReadRecord, ReaderType
  <2>2. journal[f][got[f] + 1] \in Record
    BY <1>r, <2>1, JournalRecords, Zenon
  <2> DEFINE b == AckAfter(ack[f], journal[f][got[f] + 1])
  <2>3. b \in AckState /\ ack[f].lsn + ack[f].ops < b.lsn + b.ops
    BY <1>v, <2>2, AckGrows, Zenon DEF AckState
  <2>4. ack' = [ack EXCEPT ![f] = b]
    BY <1>3, <2>1, Zenon DEF ReadRecord
  <2>5. b.lsn \in Nat /\ b.ops \in Nat
    BY <2>3, Zenon DEF AckState
  <2> HIDE DEF b
  <2>6. ASSUME NEW g \in Flows PROVE AckValue(g)' \in Nat /\ AckValue(g) <= AckValue(g)'
    <3>1. ack'[g] = IF g = f THEN b ELSE ack[g]
      BY <1>b, <2>4, Zenon DEF AckType
    <3> QED BY <1>v, <2>3, <2>5, <3>1 DEF AckValue
  <2>7. UNCHANGED heartbeatVars
    BY <1>3, Zenon DEF ReadRecord
  <2> QED BY <1>1, <2>6, <2>7, Zenon
<1>4. ASSUME NEW f \in Flows, Tick(f) \/ KeepAlive(f)
      PROVE AckBetween' /\ \A g \in Flows : acked[g] <= acked'[g]
  <2>1. UNCHANGED <<lastSent, acked>>
    BY <1>4, Zenon DEF Tick, KeepAlive
  <2>2. ASSUME NEW g \in Flows PROVE AckValue(g)' = AckValue(g)
    <3>1. CASE KeepAlive(f)
      BY <3>1, Zenon DEF KeepAlive, AckValue
    <3>2. CASE Tick(f)
      <4>1. ack' = [ack EXCEPT ![f] = [ack[f] EXCEPT !.forcePing = FALSE]]
        BY <3>2, Zenon DEF Tick
      <4>2. ack'[g] = IF g = f THEN [ack[f] EXCEPT !.forcePing = FALSE] ELSE ack[g]
        BY <1>b, <4>1, Zenon DEF AckType
      <4>3. ack'[g].lsn = ack[g].lsn /\ ack'[g].ops = ack[g].ops
        BY <1>v, <4>2, Zenon DEF AckState
      <4> QED BY <4>3, Zenon DEF AckValue
    <3> QED BY <1>4, <3>1, <3>2, Zenon
  <2>3. ASSUME NEW g \in Flows
        PROVE /\ ackVal'[g] = IF g = f THEN AckValue(f) ELSE ackVal[g]
              /\ heartbeat'[g] = IF g = f THEN "send" ELSE heartbeat[g]
    BY <1>b, <1>4, Zenon DEF Tick, KeepAlive, BeatType
  <2>4. ASSUME NEW g \in Flows
        PROVE /\ acked[g] <= lastSent[g] /\ lastSent[g] <= AckValue(g)
              /\ heartbeat[g] = "send" => lastSent[g] <= ackVal[g] /\ ackVal[g] <= AckValue(g)
    BY Zenon DEF AckBetween
  <2>5. AckBetween'
    <3> SUFFICES ASSUME NEW g \in Flows
                 PROVE (/\ acked[g] <= lastSent[g] /\ lastSent[g] <= AckValue(g)
                        /\ heartbeat[g] = "send" => lastSent[g] <= ackVal[g] /\ ackVal[g] <= AckValue(g))'
      BY Zenon DEF AckBetween
    <3> HIDE DEF AckValue
    <3> QED BY <1>v, <1>n, <2>1, <2>2, <2>3, <2>4
  <2> QED BY <1>n, <2>1, <2>5
<1>5. ASSUME NEW f \in Flows, SendAck(f)
      PROVE AckBetween' /\ \A g \in Flows : acked[g] <= acked'[g]
  <2>1. ASSUME NEW g \in Flows PROVE AckValue(g)' = AckValue(g)
    BY <1>5, Zenon DEF SendAck, AckValue
  <2>2. ASSUME NEW g \in Flows
        PROVE /\ acked[g] <= lastSent[g] /\ lastSent[g] <= AckValue(g)
              /\ heartbeat[g] = "send" => lastSent[g] <= ackVal[g] /\ ackVal[g] <= AckValue(g)
    BY Zenon DEF AckBetween
  <2>3. heartbeat[f] = "send" /\ heartbeat' = [heartbeat EXCEPT ![f] = "wait"]
    BY <1>5, Zenon DEF SendAck
  <2>4. \/ /\ acked' = [acked EXCEPT ![f] = ackVal[f]]
           /\ lastSent' = [lastSent EXCEPT ![f] = ackVal[f]]
        \/ acked' = acked /\ lastSent' = lastSent
    BY <1>5, Zenon DEF SendAck
  <2>5. ASSUME NEW g \in Flows
        PROVE /\ acked[g] <= acked'[g] /\ acked'[g] <= lastSent'[g] /\ lastSent'[g] <= AckValue(g)
              /\ heartbeat'[g] = "send" => g # f
    BY <1>b, <1>n, <1>v, <2>2, <2>3, <2>4 DEF BeatType
  <2>6. AckBetween'
    <3> SUFFICES ASSUME NEW g \in Flows
                 PROVE (/\ acked[g] <= lastSent[g] /\ lastSent[g] <= AckValue(g)
                        /\ heartbeat[g] = "send" => lastSent[g] <= ackVal[g] /\ ackVal[g] <= AckValue(g))'
      BY Zenon DEF AckBetween
    <3>1. g # f => ackVal'[g] = ackVal[g] /\ lastSent'[g] = lastSent[g] /\ heartbeat'[g] = heartbeat[g]
      BY <1>b, <1>5, <2>3, <2>4, SMTT(30) DEF SendAck, BeatType
    <3> HIDE DEF AckValue
    <3> QED BY <1>v, <1>n, <2>1, <2>2, <2>5, <3>1, Zenon
  <2> QED BY <2>5, <2>6, Zenon
<1>6. ASSUME NEW f \in Flows, HeartbeatReturns(f)
      PROVE AckBetween' /\ \A g \in Flows : acked[g] <= acked'[g]
  <2>1. \A g \in Flows : AckValue(g)' = AckValue(g) /\ (heartbeat'[g] = "send" => heartbeat[g] = "send")
    BY <1>b, <1>6, Zenon DEF HeartbeatReturns, AckValue, BeatType
  <2>2. ackVal' = ackVal /\ lastSent' = lastSent /\ acked' = acked
    BY <1>6, Zenon DEF HeartbeatReturns
  <2>3. AckBetween'
    BY <2>1, <2>2, Zenon DEF AckBetween
  <2>4. \A g \in Flows : acked[g] <= acked[g]
    BY <1>n
  <2> QED BY <2>2, <2>3, <2>4, Zenon
<1>7. CASE \E f \in Flows : CheckContext(f) \/ ReadFails(f) \/ Send(f) \/ Break(f) \/ SourceHangsUp(f)
  BY <1>2, <1>7, Zenon DEF CheckContext, ReadFails, Send, Break, SourceHangsUp
<1>8. CASE Receive \/ Replay \/ HandleError \/ Finish \/ StopCancel \/ StopHalfClose \/ StopClose
  BY <1>2, <1>8, Zenon DEF Receive, Replay, HandleError, Finish, StopCancel, StopHalfClose, StopClose
<1>9. CASE UNCHANGED vars
  BY <1>2, <1>9, Zenon DEF vars
<1>10. Next \/ UNCHANGED vars
  BY Zenon
<1> QED BY <1>3, <1>4, <1>5, <1>6, <1>7, <1>8, <1>9, <1>10, NextCases, Zenon

-----------------------------------------------------------------------------
\* The inductive invariant holds throughout.
LEMMA AckInvariant == SafeSpec => []AckInv
<1>1. Init => AckInv
  <2>1. Init => AckBetween
    BY DEF Init, AckBetween, AckValue
  <2> QED BY <2>1, TypeInit, Zenon DEF AckInv
<1>2. AckInv /\ [Next]_vars => AckInv'
  BY TypeStep, AckStep, Zenon DEF AckInv
<1> QED BY <1>1, <1>2, PTL DEF SafeSpec

\* The ACKs of startFlowHeartbeat never go back, although the value is read
\* under the mutex and sent after it is released.
THEOREM AcksNeverRegress == SafeSpec => AckMonotone
<1>1. AckInv /\ [Next]_vars => [\A f \in Flows : acked'[f] >= acked[f]]_vars
  <2> SUFFICES ASSUME AckInv, [Next]_vars PROVE \A f \in Flows : acked'[f] >= acked[f]
    BY Zenon
  <2>1. TypeOK /\ TypeOK' /\ \A f \in Flows : acked[f] <= acked'[f]
    BY AckStep, TypeStep, Zenon DEF AckInv
  <2> QED BY <2>1, Zenon DEF TypeOK
<1> QED BY <1>1, AckInvariant, PTL DEF SafeSpec, AckMonotone

-----------------------------------------------------------------------------
(* How far the ACK value can lead *)

\* The indexes up to the next one.
LEMMA OneMore ==
  \A m \in Nat : /\ m + 1 \notin 1 .. m
                 /\ \A i : i \in 1 .. (m + 1) <=> i \in 1 .. m \/ i = m + 1
  BY SMTT(30)

\* Reading one more record adds it to the markers read, or nothing.
LEMMA MarkersGrow ==
  ASSUME TypeOK, NEW f \in Flows, got'[f] = got[f] + 1, UNCHANGED journal
  PROVE  /\ Cardinality(MarkersRead(f)) \in Nat
         /\ Cardinality(MarkersRead(f)') = Cardinality(MarkersRead(f))
              + (IF journal[f][got[f] + 1].op = "LSN" THEN 1 ELSE 0)
<1>1. got[f] \in Nat
  BY SMTT(30) DEF TypeOK
<1>2. IsFiniteSet(1 .. got[f])
  BY <1>1, FS_Interval
<1>3. IsFiniteSet(MarkersRead(f))
  BY <1>2, FS_Subset, Zenon DEF MarkersRead
<1>4. got[f] + 1 \notin MarkersRead(f)
  BY <1>1, OneMore, Zenon DEF MarkersRead
<1>5. MarkersRead(f)' = IF journal[f][got[f] + 1].op = "LSN"
                        THEN MarkersRead(f) \cup {got[f] + 1} ELSE MarkersRead(f)
  <2>1. \A i : i \in 1 .. (got[f] + 1) <=> i \in 1 .. got[f] \/ i = got[f] + 1
    BY <1>1, OneMore, Zenon
  <2>2. MarkersRead(f)' = {i \in 1 .. (got[f] + 1) : journal[f][i].op = "LSN"}
    BY Zenon DEF MarkersRead
  <2> QED BY <2>1, <2>2, Zenon DEF MarkersRead
<1>6. Cardinality(MarkersRead(f)) \in Nat
  BY <1>3, FS_CardinalityType, Zenon
<1>7. Cardinality(MarkersRead(f) \cup {got[f] + 1}) = Cardinality(MarkersRead(f)) + 1
  BY <1>3, <1>4, FS_AddElement, Zenon
<1>8. CASE journal[f][got[f] + 1].op = "LSN"
  <2>1. MarkersRead(f)' = MarkersRead(f) \cup {got[f] + 1}
    BY <1>5, <1>8, Zenon
  <2>2. Cardinality(MarkersRead(f)') = Cardinality(MarkersRead(f)) + 1
    BY <2>1, <1>7, Zenon
  <2> QED BY <1>6, <1>8, <2>2, Zenon
<1>9. CASE journal[f][got[f] + 1].op # "LSN"
  <2>1. MarkersRead(f)' = MarkersRead(f)
    BY <1>5, <1>9, Zenon
  <2>2. Cardinality(MarkersRead(f)) = Cardinality(MarkersRead(f)) + 0
    BY <1>6, SMTT(30)
  <2>3. Cardinality(MarkersRead(f)') = Cardinality(MarkersRead(f)) + 0
    BY <2>1, <2>2, Zenon
  <2> QED BY <1>6, <1>9, <2>3, Zenon
<1> QED BY <1>8, <1>9, Zenon

\* The source's position grows by one with every record that is not a marker.
LEMMA NextRecord ==
  ASSUME NEW j \in Seq(Record), WellNumbered(j), NEW n \in Nat, n < Len(j),
         NEW p, p = IF n = 0 THEN 0 ELSE j[n].lsn
  PROVE  /\ j[n + 1] \in Record /\ p \in Nat
         /\ j[n + 1].lsn >= p + (IF j[n + 1].op = "LSN" THEN 0 ELSE 1)
<1>1. Len(j) \in Nat /\ n + 1 \in 1 .. Len(j)
  OBVIOUS
<1>2. j[n + 1] \in Record
  BY <1>1
<1>3. j[n + 1].lsn \in Nat
  BY <1>2, Zenon DEF Record
<1>4. CASE n = 0
  <2>1. j[1].op # "LSN" => j[1].lsn > 0
    BY <1>1, <1>4, Zenon DEF WellNumbered
  <2> QED BY <1>2, <1>3, <1>4, <2>1
<1>5. CASE n # 0
  <2>1. n \in 1 .. Len(j) /\ n + 1 \in 2 .. Len(j) /\ (n + 1) - 1 = n
    BY <1>1, <1>5
  <2>2. j[n] \in Record
    BY <2>1
  <2>3. p = j[n].lsn /\ p \in Nat
    BY <1>5, <2>2, Zenon DEF Record
  <2>4. j[n + 1].lsn = j[(n + 1) - 1].lsn + (IF j[n + 1].op = "LSN" THEN 0 ELSE 1)
    BY <2>1, Zenon DEF WellNumbered
  <2>5. j[n + 1].lsn = p + (IF j[n + 1].op = "LSN" THEN 0 ELSE 1)
    BY <2>1, <2>3, <2>4, Zenon
  <2> QED BY <1>2, <1>3, <2>3, <2>5
<1> QED BY <1>4, <1>5, Zenon

\* One record raises the lead of the ACK state a over the position p by at most
\* one, and only if it is a marker.
LEMMA LeadStep ==
  ASSUME NEW a \in AckState, NEW r \in Record, NEW p \in Nat, NEW m \in Nat,
         a.lsn + a.ops <= p + m, r.lsn >= p + (IF r.op = "LSN" THEN 0 ELSE 1)
  PROVE  AckAfter(a, r).lsn + AckAfter(a, r).ops <= r.lsn + (m + (IF r.op = "LSN" THEN 1 ELSE 0))
<1>1. a.lsn \in Nat /\ a.ops \in Nat /\ r.lsn \in Nat
  BY Zenon DEF AckState, Record
<1>2. CASE r.op = "LSN" /\ r.lsn > a.lsn + a.ops
  <2>1. AckAfter(a, r).lsn = r.lsn /\ AckAfter(a, r).ops = 0
    BY <1>2, Zenon DEF AckAfter
  <2> QED BY <1>1, <1>2, <2>1
<1>3. CASE ~(r.op = "LSN" /\ r.lsn > a.lsn + a.ops)
  <2>1. AckAfter(a, r).lsn = a.lsn /\ AckAfter(a, r).ops = a.ops + 1
    BY <1>3, Zenon DEF AckAfter
  <2> QED BY <1>1, <2>1
<1> QED BY <1>2, <1>3, Zenon

\* readFlowJournal counts a marker that is not ahead as an operation, and that is
\* all that its ACK value can be ahead of the source's position by.
THEOREM AckLeadIsBounded == SafeSpec => []AckLeadsByMarkers
<1>1. Init => AckLeadsByMarkers
  <2> SUFFICES ASSUME Init, NEW f \in Flows
               PROVE AckValue(f) <= Position(f, got[f]) + Cardinality(MarkersRead(f))
    BY Zenon DEF AckLeadsByMarkers
  <2>1. MarkersRead(f) = {} /\ AckValue(f) = 0 /\ Position(f, got[f]) = 0
    BY DEF Init, MarkersRead, AckValue, Position
  <2> QED BY <2>1, FS_EmptySet
<1>2. AckInv /\ AckLeadsByMarkers /\ [Next]_vars => AckLeadsByMarkers'
  <2> SUFFICES ASSUME TypeOK, AckLeadsByMarkers, [Next]_vars, NEW f \in Flows
               PROVE (AckValue(f) <= Position(f, got[f]) + Cardinality(MarkersRead(f)))'
    BY Zenon DEF AckLeadsByMarkers, AckInv
  <2>1. CASE UNCHANGED <<ack, got, journal>>
    BY <2>1, Zenon DEF AckLeadsByMarkers, AckValue, Position, MarkersRead
  <2>2. ASSUME NEW g \in Flows, ReadRecord(g), g # f
        PROVE (AckValue(f) <= Position(f, got[f]) + Cardinality(MarkersRead(f)))'
    <3>1. ack'[f] = ack[f] /\ got'[f] = got[f] /\ journal' = journal
      BY <2>2, Zenon DEF ReadRecord, envVars, TypeOK
    <3> QED BY <3>1, SMTT(30) DEF AckLeadsByMarkers, AckValue, Position, MarkersRead
  <2>3. CASE ReadRecord(f)
    <3>1. /\ got'[f] = got[f] + 1 /\ journal' = journal
          /\ ack'[f] = AckAfter(ack[f], journal[f][got[f] + 1])
          /\ got[f] \in Nat /\ got[f] < Len(journal[f])
      <4>1. got \in [Flows -> Nat] /\ DOMAIN ack = Flows
        BY Zenon DEF TypeOK
      <4>2. got'[f] = got[f] + 1 /\ journal' = journal /\ got[f] < Len(journal[f]) /\ got[f] \in Nat
        BY <2>3, <4>1, Zenon DEF ReadRecord, EntryReady, envVars
      <4>3. ack'[f] = AckAfter(ack[f], journal[f][got'[f]])
        BY <2>3, <4>1, Zenon DEF ReadRecord
      <4> QED BY <4>2, <4>3, Zenon
    <3>2. journal[f] \in Seq(Record) /\ WellNumbered(journal[f]) /\ ack[f] \in AckState
      BY JournalAssumption, SMTT(30) DEF TypeOK, AckState
    <3> DEFINE r == journal[f][got[f] + 1]
               p == IF got[f] = 0 THEN 0 ELSE journal[f][got[f]].lsn
               m == Cardinality(MarkersRead(f))
    <3>3. r \in Record /\ p \in Nat /\ r.lsn >= p + (IF r.op = "LSN" THEN 0 ELSE 1)
      BY <3>1, <3>2, NextRecord, SMTT(30)
    <3>4. m \in Nat /\ Cardinality(MarkersRead(f)') = m + (IF r.op = "LSN" THEN 1 ELSE 0)
      BY <3>1, MarkersGrow, Zenon
    <3>5. ack[f].lsn + ack[f].ops <= p + m
      BY Zenon DEF AckLeadsByMarkers, AckValue, Position
    <3>6. Position(f, got[f])' = r.lsn
      BY <3>1 DEF Position
    <3>7. AckValue(f)' = AckAfter(ack[f], r).lsn + AckAfter(ack[f], r).ops
      BY <3>1, Zenon DEF AckValue
    <3> HIDE DEF r, p, m
    <3>8. AckValue(f)' <= r.lsn + (m + (IF r.op = "LSN" THEN 1 ELSE 0))
      BY <3>2, <3>3, <3>4, <3>5, <3>7, LeadStep, Zenon
    <3> QED BY <3>4, <3>6, <3>8, SMTT(30)
  <2>4. ASSUME NEW g \in Flows, Tick(g)
        PROVE (AckValue(f) <= Position(f, got[f]) + Cardinality(MarkersRead(f)))'
    <3>1. /\ ack' = [ack EXCEPT ![g].forcePing = FALSE]
          /\ got' = got /\ journal' = journal
      BY <2>4, Zenon DEF Tick, envVars
    <3>2. ack'[f].lsn = ack[f].lsn /\ ack'[f].ops = ack[f].ops
      BY <3>1, ZenonT(30) DEF TypeOK
    <3> QED BY <3>1, <3>2, Zenon DEF AckLeadsByMarkers, AckValue, Position, MarkersRead
  <2>5. \/ UNCHANGED <<ack, got, journal>>
        \/ \E g \in Flows : ReadRecord(g) \/ Tick(g)
    BY ZenonT(30) DEF Next, ReaderStep, CheckContext, ReadFails, Send, HeartbeatStep,
       KeepAlive, SendAck, HeartbeatReturns, Break, SourceHangsUp, MainStep, Receive, Replay,
       HandleError, Finish, StopCancel, StopHalfClose, StopClose, vars, readerVars, heartbeatVars,
       mainVars, envVars
  <2> QED BY <2>1, <2>2, <2>3, <2>4, <2>5, Zenon
<1> QED BY <1>1, <1>2, AckInvariant, PTL DEF SafeSpec
=============================================================================
