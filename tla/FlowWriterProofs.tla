-------------------------- MODULE FlowWriterProofs --------------------------
(***************************************************************************)
(* Proofs about FlowWriter, for every number of entries, every capacity of *)
(* the channel and the semaphore, every topology and every sequence of     *)
(* configuration updates.                                                  *)
(***************************************************************************)
EXTENDS FlowWriter, TLAPS

\* Every variable has its type, and the channel never holds more than it can.
VarsOK ==
  /\ received \in 0 .. MaxEntries
  /\ taken \in 0 .. received
  /\ flushed \in 0 .. taken
  /\ received - taken <= ChannelBuffer
  /\ loop \in LoopPlaces
  /\ batches \subseteq Batch
  /\ fate \in [Entries -> Fates]
  /\ limited \in BOOLEAN
  /\ burst \in Int
  /\ batchSize \in Nat \ {0}
  /\ update \in [held : BOOLEAN, qps : Int, size : Int]
  /\ sizing \subseteq (1 .. MaxUpdates) \X Int
  /\ updates \in 0 .. MaxUpdates
  /\ stop \in {"running", "closing", "stopped"}

\* Each batch in flight is an interval of entries the loop has handed over,
\* and what it still has to do lies in that interval.
BatchesBounded ==
  \A b \in batches : b.lo <= b.hi /\ b.hi <= flushed /\ b.todo \subseteq b.lo .. b.hi

\* Batches in flight do not overlap.
BatchesDisjoint ==
  \A b, c \in batches : b # c => (b.lo .. b.hi) \cap (c.lo .. c.hi) = {}

\* An entry that was handed over is unsettled exactly while a goroutine still
\* has it to do; one that was not is unsettled.
Accounted ==
  /\ \A e \in Entries : e > flushed => fate[e] = "none"
  /\ \A e \in Entries : e <= flushed /\ fate[e] = "none" => \E b \in batches : e \in b.todo
  /\ \A b \in batches : \A e \in b.todo : fate[e] = "none"

\* Where the loop is tells how far it has come, and what Stop has waited for.
LoopPosition ==
  /\ loop \in {"acquire", "acquireLast"} => flushed < taken
  /\ loop = "acquireLast" => stop # "running" /\ taken = received
  /\ loop = "exited" => stop # "running" /\ flushed = received
  /\ stop = "stopped" => loop = "exited" /\ batches = {}

\* The call that holds limiterMu has been counted.
UpdateBegun == update.held => updates > 0

\* The inductive invariant: Conservation alone does not say why the last flush
\* has happened when the loop is gone, nor why two batches cannot meet.
IndInv ==
  /\ VarsOK
  /\ BatchesBounded
  /\ BatchesDisjoint
  /\ Accounted
  /\ LoopPosition
  /\ UpdateBegun
-----------------------------------------------------------------------------
(* Steps of a flush goroutine *)

\* What a step that settles the entries S of batch b does, whichever step it is.
SettleIn(b, S) ==
  /\ fate' \in [Entries -> Fates]
  /\ \A e \in S : fate'[e] # "none"
  /\ \A e \in Entries \ S : fate'[e] = fate[e]
  /\ UNCHANGED <<received, taken, flushed, loop, configVars, stop>>

\* A goroutine that settles part of its batch and keeps the rest (groupByNode,
\* one pipeline of writeNodeBatch) preserves the invariant.
LEMMA SettlePart ==
  ASSUME IndInv, NEW b \in batches, NEW S \in SUBSET b.todo, SettleIn(b, S),
         batches' = (batches \ {b})
                      \cup {[b EXCEPT !.stage = "write", !.todo = b.todo \ S]}
  PROVE  IndInv'
<1> DEFINE r == [b EXCEPT !.stage = "write", !.todo = b.todo \ S]
<1>1. b \in Batch /\ S \subseteq Entries
  BY Zenon DEF IndInv, VarsOK, Batch
<1>2. r \in Batch /\ r.lo = b.lo /\ r.hi = b.hi /\ r.todo = b.todo \ S
  BY <1>1, Zenon DEF Batch
<1>3. batches' = (batches \ {b}) \cup {r}
  BY Zenon
<1> HIDE DEF r
<1>4. VarsOK'
  <2>1. batches' \subseteq Batch
    BY <1>2, <1>3, Zenon DEF IndInv, VarsOK
  <2> QED
    BY <2>1, Zenon DEF IndInv, VarsOK, SettleIn, configVars
<1>5. BatchesBounded'
  BY <1>2, <1>3, Zenon DEF IndInv, BatchesBounded, SettleIn
<1>6. BatchesDisjoint'
  BY <1>2, <1>3, Zenon DEF IndInv, BatchesDisjoint
<1>7. \A c \in batches : c # b => c.todo \cap S = {}
  BY Zenon DEF IndInv, BatchesDisjoint, BatchesBounded
<1>8. Accounted'
  <2>1. \A e \in Entries : e > flushed' => fate'[e] = "none"
    <3> SUFFICES ASSUME NEW e \in Entries, e > flushed
                 PROVE  fate'[e] = "none"
      BY Zenon DEF SettleIn
    <3>1. b.hi \in Int /\ b.lo \in Int /\ flushed \in Int /\ e \in Int
      BY <1>1 DEF IndInv, VarsOK, Batch, Entries
    <3>2. b.hi <= flushed /\ b.todo \subseteq b.lo .. b.hi
      BY Zenon DEF IndInv, BatchesBounded
    <3>3. e \notin S
      BY <3>1, <3>2
    <3> QED
      BY <3>3, Zenon DEF IndInv, Accounted, SettleIn
  <2>2. ASSUME NEW e \in Entries, e <= flushed', fate'[e] = "none"
        PROVE  \E c \in batches' : e \in c.todo
    <3>1. e \notin S /\ fate[e] = "none" /\ e <= flushed
      BY <2>2, Zenon DEF SettleIn
    <3>2. PICK c \in batches : e \in c.todo
      BY <3>1, Zenon DEF IndInv, Accounted
    <3>3. CASE c = b
      BY <3>1, <3>2, <3>3, <1>2, <1>3, Zenon
    <3>4. CASE c # b
      BY <3>2, <3>4, <1>3, Zenon
    <3> QED
      BY <3>3, <3>4, Zenon
  <2>3. ASSUME NEW c \in batches', NEW e \in c.todo
        PROVE  fate'[e] = "none"
    <3>1. e \notin S /\ \E d \in batches : e \in d.todo
      BY <2>3, <1>2, <1>3, <1>7, Zenon
    <3>2. e \in Entries /\ fate[e] = "none"
      BY <3>1, Zenon DEF IndInv, VarsOK, Batch, Accounted
    <3> QED
      BY <3>1, <3>2, Zenon DEF SettleIn
  <2> QED
    BY <2>1, <2>2, <2>3, Zenon DEF Accounted
<1>9. LoopPosition'
  BY <1>3, Zenon DEF IndInv, LoopPosition, SettleIn
<1> QED
  BY <1>4, <1>5, <1>6, <1>8, <1>9, Zenon DEF IndInv, UpdateBegun, SettleIn, configVars

\* A goroutine that returns (its batch refused by the limiter, or every group
\* written) preserves the invariant.
LEMMA SettleAll ==
  ASSUME IndInv, NEW b \in batches, SettleIn(b, b.todo), batches' = batches \ {b}
  PROVE  IndInv'
<1>1. b \in Batch /\ b.todo \subseteq Entries
  BY Zenon DEF IndInv, VarsOK, Batch
<1>2. VarsOK'
  BY Zenon DEF IndInv, VarsOK, SettleIn, configVars
<1>3. BatchesBounded' /\ BatchesDisjoint'
  BY Zenon DEF IndInv, BatchesBounded, BatchesDisjoint, SettleIn
<1>4. \A c \in batches : c # b => c.todo \cap b.todo = {}
  BY Zenon DEF IndInv, BatchesDisjoint, BatchesBounded
<1>5. Accounted'
  <2>1. \A e \in Entries : e > flushed' => fate'[e] = "none"
    <3> SUFFICES ASSUME NEW e \in Entries, e > flushed
                 PROVE  fate'[e] = "none"
      BY Zenon DEF SettleIn
    <3>1. b.hi \in Int /\ b.lo \in Int /\ flushed \in Int /\ e \in Int
      BY <1>1 DEF IndInv, VarsOK, Batch, Entries
    <3>2. b.hi <= flushed /\ b.todo \subseteq b.lo .. b.hi
      BY Zenon DEF IndInv, BatchesBounded
    <3>3. e \notin b.todo
      BY <3>1, <3>2
    <3> QED
      BY <3>3, Zenon DEF IndInv, Accounted, SettleIn
  <2>2. ASSUME NEW e \in Entries, e <= flushed', fate'[e] = "none"
        PROVE  \E c \in batches' : e \in c.todo
    BY <2>2, Zenon DEF SettleIn, IndInv, Accounted
  <2>3. ASSUME NEW c \in batches', NEW e \in c.todo
        PROVE  fate'[e] = "none"
    BY <2>3, <1>4, Zenon DEF SettleIn, IndInv, Accounted, VarsOK, Batch
  <2> QED
    BY <2>1, <2>2, <2>3, Zenon DEF Accounted
<1>6. LoopPosition'
  BY Zenon DEF IndInv, LoopPosition, SettleIn
<1> QED
  BY <1>2, <1>3, <1>5, <1>6, Zenon DEF IndInv, UpdateBegun, SettleIn, configVars
-----------------------------------------------------------------------------
(* The invariant is inductive *)

LEMMA InitInv == Init => IndInv
<1> SUFFICES ASSUME Init PROVE IndInv
  BY Zenon
<1>2. VarsOK
  BY FlowWriterAssumption DEF Init, VarsOK, LoopPlaces, Fates, NoUpdate
<1>3. BatchesBounded /\ BatchesDisjoint /\ LoopPosition
  BY Zenon DEF Init, BatchesBounded, BatchesDisjoint, LoopPosition
<1>4. Accounted
  BY DEF Init, Accounted, Entries
<1> QED
  BY <1>2, <1>3, <1>4, Zenon DEF IndInv, Init, UpdateBegun, NoUpdate

\* asyncFlush makes the loop's batch a batch in flight.
LEMMA AsyncFlushInv == IndInv /\ AsyncFlush => IndInv'
<1> SUFFICES ASSUME IndInv, AsyncFlush PROVE IndInv'
  BY Zenon
<1> DEFINE r == [lo |-> flushed + 1, hi |-> taken, stage |-> "limit",
                 todo |-> (flushed + 1) .. taken]
<1>1. flushed \in Int /\ taken \in Int /\ received \in Int /\ 0 <= flushed
      /\ flushed < taken /\ taken <= received /\ received <= MaxEntries /\ MaxEntries \in Int
  BY FlowWriterAssumption DEF IndInv, VarsOK, LoopPosition, AsyncFlush
<1>2. r \in Batch
  BY <1>1 DEF Batch, Entries
<1>3. batches' = batches \cup {r} /\ flushed' = taken
  BY Zenon DEF AsyncFlush
<1>4. r.lo = flushed + 1 /\ r.hi = taken /\ r.todo = (flushed + 1) .. taken
  BY Zenon
<1>5. UNCHANGED <<received, taken, fate, configVars, stop>>
  BY Zenon DEF AsyncFlush
<1> HIDE DEF r
<1>6. VarsOK'
  <2>5. batches' \subseteq Batch
    BY <1>2, <1>3, Zenon DEF IndInv, VarsOK
  <2>6. loop' \in LoopPlaces
    BY Zenon DEF AsyncFlush, LoopPlaces
  <2> QED
    BY <2>5, <2>6, <1>1, <1>3, <1>5 DEF IndInv, VarsOK, configVars
<1>7. BatchesBounded'
  <2> SUFFICES ASSUME NEW c \in batches'
               PROVE  c.lo <= c.hi /\ c.hi <= taken /\ c.todo \subseteq c.lo .. c.hi
    BY <1>3, Zenon DEF BatchesBounded
  <2>1. CASE c = r
    BY <2>1, <1>1, <1>4
  <2>2. CASE c \in batches
    BY <2>2, <1>1 DEF IndInv, BatchesBounded, VarsOK, Batch, Entries
  <2> QED
    BY <2>1, <2>2, <1>3, Zenon
<1>8. BatchesDisjoint'
  <2>1. \A c \in batches : c.hi \in Int /\ c.lo \in Int /\ c.hi <= flushed
    BY DEF IndInv, BatchesBounded, VarsOK, Batch, Entries
  <2>2. \A c \in batches : (c.lo .. c.hi) \cap (r.lo .. r.hi) = {}
    BY <2>1, <1>1, <1>4
  <2> QED
    BY <2>2, <1>3, Zenon DEF IndInv, BatchesDisjoint
<1>9. Accounted'
  <2>1. \A e \in Entries : e > flushed' => fate'[e] = "none"
    BY <1>1, <1>3, <1>5 DEF IndInv, Accounted, Entries
  <2>2. ASSUME NEW e \in Entries, e <= flushed', fate'[e] = "none"
        PROVE  \E c \in batches' : e \in c.todo
    <3>1. CASE e <= flushed
      BY <2>2, <3>1, <1>3, <1>5, Zenon DEF IndInv, Accounted
    <3>2. CASE e > flushed
      BY <2>2, <3>2, <1>1, <1>3, <1>4 DEF Entries
    <3> QED
      BY <3>1, <3>2, <1>1 DEF Entries
  <2>3. ASSUME NEW c \in batches', NEW e \in c.todo
        PROVE  fate'[e] = "none"
    <3>1. CASE c = r
      BY <3>1, <1>1, <1>4, <1>5 DEF IndInv, Accounted, Entries
    <3>2. CASE c \in batches
      BY <3>2, <1>5, Zenon DEF IndInv, Accounted
    <3> QED
      BY <3>1, <3>2, <1>3, Zenon
  <2> QED
    BY <2>1, <2>2, <2>3, Zenon DEF Accounted
<1>10. LoopPosition'
  BY <1>1, <1>3, <1>5, Zenon DEF IndInv, LoopPosition, AsyncFlush
<1> QED
  BY <1>5, <1>6, <1>7, <1>8, <1>9, <1>10, Zenon DEF IndInv, UpdateBegun, configVars

\* The steps of a flush goroutine are instances of the two lemmas above.
LEMMA FlushInv == IndInv /\ FlushStep => IndInv'
<1> SUFFICES ASSUME IndInv, NEW b \in batches,
                    \/ DropBatch(b) \/ GroupBatch(b)
                    \/ \E n \in Nodes : WriteChunk(b, n)
                    \/ BatchDone(b)
             PROVE  IndInv'
  BY Zenon DEF FlushStep
<1>1. b \in Batch /\ b.todo \subseteq Entries /\ fate \in [Entries -> Fates]
  BY Zenon DEF IndInv, VarsOK, Batch
<1>2. CASE DropBatch(b)
  <2>1. SettleIn(b, b.todo)
    BY <1>1, <1>2, SMTT(30) DEF DropBatch, SettleIn, Fates
  <2> QED
    BY <2>1, <1>2, SettleAll, Zenon DEF DropBatch
<1>3. CASE GroupBatch(b)
  <2> DEFINE S == {e \in b.todo : MasterAddr[e] = NoAddr}
  <2>1. SettleIn(b, S)
    BY <1>1, <1>3, ZenonT(30) DEF GroupBatch, SettleIn, Fates
  <2>2. batches' = (batches \ {b})
                     \cup {[b EXCEPT !.stage = "write", !.todo = b.todo \ S]}
    BY <1>3, Zenon DEF GroupBatch
  <2>3. S \in SUBSET b.todo
    BY Zenon
  <2> HIDE DEF S
  <2> QED
    BY <2>1, <2>2, <2>3, SettlePart, ZenonT(30)
<1>4. ASSUME NEW n \in Nodes, WriteChunk(b, n)
      PROVE  IndInv'
  <2> DEFINE S == Chunk(b, n)
  <2>1. S \in SUBSET b.todo
    BY Zenon DEF Chunk
  <2>2. SettleIn(b, S)
    <3>1. PICK ok \in SUBSET (S \cap Pipelined), client \in BOOLEAN :
             fate' = [e \in Entries |->
                        CASE e \in ok -> "written"
                          [] e \in (S \cap Pipelined) \ ok -> "failed"
                          [] e \in S \ (S \cap Pipelined) ->
                               IF client THEN "skipped" ELSE "failed"
                          [] OTHER -> fate[e]]
      BY <1>4, Zenon DEF Sendable, WriteChunk
    <3> HIDE DEF S
    <3>2. S \subseteq Entries
      BY <2>1, <1>1, Zenon
    <3>3. ASSUME NEW e \in Entries
          PROVE  /\ fate'[e] \in Fates
                 /\ e \in S => fate'[e] # "none"
                 /\ e \notin S => fate'[e] = fate[e]
      <4>1. CASE e \in ok
        BY <3>1, <4>1, Zenon DEF Fates
      <4>2. CASE e \in (S \cap Pipelined) \ ok
        BY <3>1, <4>2, Zenon DEF Fates
      <4>3. CASE e \in S \ (S \cap Pipelined)
        BY <3>1, <4>3, Zenon DEF Fates
      <4>4. CASE e \notin S
        BY <3>1, <4>4, <1>1, Zenon
      <4> QED
        BY <4>1, <4>2, <4>3, <4>4, Zenon
    <3>4. fate' \in [Entries -> Fates]
      BY <3>1, <3>3, Zenon
    <3>5. UNCHANGED <<received, taken, flushed, loop, configVars, stop>>
      BY <1>4, Zenon DEF WriteChunk
    <3> QED
      BY <3>2, <3>3, <3>4, <3>5, Zenon DEF SettleIn
  <2>3. batches' = (batches \ {b})
                     \cup {[b EXCEPT !.stage = "write", !.todo = b.todo \ S]}
    <3>1. b.stage = "write" /\ batches' = (batches \ {b}) \cup {[b EXCEPT !.todo = b.todo \ S]}
      BY <1>4, Zenon DEF WriteChunk
    <3>2. [b EXCEPT !.todo = b.todo \ S] = [b EXCEPT !.stage = "write", !.todo = b.todo \ S]
      BY <3>1, <1>1, Zenon DEF Batch
    <3> QED
      BY <3>1, <3>2, Zenon
  <2> HIDE DEF S
  <2> QED
    BY <2>1, <2>2, <2>3, SettlePart, Zenon
<1>5. CASE BatchDone(b)
  <2>1. SettleIn(b, b.todo)
    BY <1>1, <1>5, Zenon DEF BatchDone, SettleIn, configVars
  <2> QED
    BY <2>1, <1>5, SettleAll, Zenon DEF BatchDone
<1> QED
  BY <1>2, <1>3, <1>4, <1>5, Zenon
\* Each action of the loop, of the callers and of UpdateConfig preserves it.
LEMMA NextInv == IndInv /\ [Next]_writerVars => IndInv'
<1> SUFFICES ASSUME IndInv, [Next]_writerVars PROVE IndInv'
  BY Zenon
<1> USE FlowWriterAssumption
<1>1. CASE Enqueue
  <2>1. VarsOK'
    BY <1>1 DEF Enqueue, IndInv, VarsOK, configVars
  <2> QED
    BY <2>1, <1>1, Zenon DEF Enqueue, IndInv, BatchesBounded, BatchesDisjoint, Accounted, LoopPosition,
       UpdateBegun, configVars
<1>2. CASE Stop
  <2>1. VarsOK'
    BY <1>2, Zenon DEF Stop, IndInv, VarsOK, configVars
  <2> QED
    BY <2>1, <1>2, Zenon DEF Stop, IndInv, BatchesBounded, BatchesDisjoint, Accounted, LoopPosition,
       UpdateBegun, configVars
<1>3. CASE StopReturns
  <2>1. VarsOK'
    BY <1>3, Zenon DEF StopReturns, IndInv, VarsOK, configVars
  <2> QED
    BY <2>1, <1>3, Zenon DEF StopReturns, IndInv, BatchesBounded, BatchesDisjoint, Accounted, LoopPosition,
       UpdateBegun, configVars
<1>4. CASE Receive
  <2>1. VarsOK'
    BY <1>4 DEF Receive, IndInv, VarsOK, configVars, LoopPlaces
  <2>2. LoopPosition'
    BY <1>4 DEF Receive, IndInv, VarsOK, LoopPosition
  <2> QED
    BY <2>1, <2>2, <1>4, Zenon DEF Receive, IndInv, BatchesBounded, BatchesDisjoint, Accounted,
       UpdateBegun, configVars
<1>5. CASE Tick
  <2>1. VarsOK'
    BY <1>5, Zenon DEF Tick, IndInv, VarsOK, configVars, LoopPlaces
  <2> QED
    BY <2>1, <1>5, Zenon DEF Tick, IndInv, BatchesBounded, BatchesDisjoint, Accounted, LoopPosition, VarsOK,
       UpdateBegun, configVars
<1>6. CASE ChannelClosed
  <2>1. VarsOK'
    BY <1>6, Zenon DEF ChannelClosed, IndInv, VarsOK, configVars, LoopPlaces
  <2>2. LoopPosition'
    BY <1>6, SMTT(30) DEF ChannelClosed, IndInv, VarsOK, LoopPosition
  <2> QED
    BY <2>1, <2>2, <1>6, Zenon DEF ChannelClosed, IndInv, BatchesBounded, BatchesDisjoint, Accounted,
       UpdateBegun, configVars
<1>7. CASE UpdateConfig
  <2>1. UNCHANGED <<received, taken, flushed, loop, batches, fate, stop>>
    BY <1>7, Zenon DEF UpdateConfig, SetLimit, SetBurst, SetBatchSize
  <2>2. VarsOK'
    <3>1. ASSUME NEW u \in ConfigUpdates, SetLimit(u[1], u[2])
          PROVE  VarsOK'
      BY <3>1 DEF SetLimit, IndInv, VarsOK
    <3>2. CASE SetBurst
      <4>1. updates \in 1 .. MaxUpdates
        BY <3>2 DEF SetBurst, IndInv, VarsOK, UpdateBegun
      <4> QED
        BY <4>1, <3>2 DEF SetBurst, IndInv, VarsOK, NoUpdate
    <3>3. CASE SetBatchSize
      BY <3>3 DEF SetBatchSize, IndInv, VarsOK
    <3> QED
      BY <3>1, <3>2, <3>3, <1>7, Zenon DEF UpdateConfig
  <2> QED
    BY <2>1, <2>2, <1>7 DEF IndInv, BatchesBounded, BatchesDisjoint, Accounted, LoopPosition,
       UpdateBegun, UpdateConfig, SetLimit, SetBurst, SetBatchSize, NoUpdate, VarsOK
<1>8. CASE UNCHANGED writerVars
  <2>1. VarsOK'
    BY <1>8, Zenon DEF writerVars, IndInv, VarsOK
  <2> QED
    BY <2>1, <1>8, Zenon DEF writerVars, IndInv, BatchesBounded, BatchesDisjoint, Accounted,
       LoopPosition, UpdateBegun
<1> QED
  BY <1>1, <1>2, <1>3, <1>4, <1>5, <1>6, <1>7, <1>8, AsyncFlushInv, FlushInv
 , Zenon DEF Next, LoopStep

LEMMA InvariantHolds == SafeSpec => []IndInv
<1>1. Init => IndInv
  BY InitInv, Zenon
<1>2. IndInv /\ [Next]_writerVars => IndInv'
  BY NextInv, Zenon
<1> QED
  BY <1>1, <1>2, PTL DEF SafeSpec

-----------------------------------------------------------------------------
(* What the invariant says about the entries *)

\* From Enqueue to its settlement an entry is in exactly one place: the
\* channel and the loop's batch, one flush goroutine, or settled.
THEOREM WriterConserves == SafeSpec => []Conservation
<1>1. IndInv => Conservation
  <2> SUFFICES ASSUME IndInv PROVE Conservation
    BY Zenon
  <2>1. flushed \in Nat /\ received \in Nat /\ flushed <= received /\ received <= MaxEntries
    BY FlowWriterAssumption DEF IndInv, VarsOK
  <2>2. \A e \in Settled : e \in Entries /\ e <= flushed /\ fate[e] # "none"
    BY <2>1 DEF Settled, IndInv, Accounted, Entries
  <2>3. \A e \in InFlight : e \in Entries /\ e <= flushed /\ fate[e] = "none"
    <3> SUFFICES ASSUME NEW b \in batches, NEW e \in b.todo
                 PROVE  e \in Entries /\ e <= flushed /\ fate[e] = "none"
      BY Zenon DEF InFlight
    <3>1. b.hi \in Int /\ b.lo \in Int /\ e \in Entries
      BY DEF IndInv, VarsOK, Batch, Entries
    <3>2. b.hi <= flushed /\ e \in b.lo .. b.hi
      BY Zenon DEF IndInv, BatchesBounded
    <3>3. fate[e] = "none"
      BY Zenon DEF IndInv, Accounted
    <3> QED
      BY <3>1, <3>2, <3>3, <2>1
  <2>4. Settled \cap (Queued \cup InFlight) = {} /\ Queued \cap InFlight = {}
    BY <2>1, <2>2, <2>3 DEF Queued, Entries
  <2>5. Settled \cup Queued \cup InFlight = 1 .. received
    <3>1. Settled \cup Queued \cup InFlight \subseteq 1 .. received
      BY <2>1, <2>2, <2>3 DEF Queued, Entries
    <3>2. ASSUME NEW e \in 1 .. received
          PROVE  e \in Settled \cup Queued \cup InFlight
      <4>0. e \in Entries
        BY <2>1, FlowWriterAssumption DEF Entries
      <4>1. CASE e > flushed
        BY <4>1, <2>1 DEF Queued
      <4>2. CASE e <= flushed /\ fate[e] # "none"
        BY <4>0, <4>2, Zenon DEF Settled
      <4>3. CASE e <= flushed /\ fate[e] = "none"
        BY <4>0, <4>3, Zenon DEF InFlight, IndInv, Accounted
      <4> QED
        BY <4>1, <4>2, <4>3, <2>1
    <3> QED
      BY <3>1, <3>2, Zenon
  <2>6. \A b, c \in batches : b # c => (b.lo .. b.hi) \cap (c.lo .. c.hi) = {}
    BY Zenon DEF IndInv, BatchesDisjoint
  <2> QED
    BY <2>4, <2>5, <2>6, Zenon DEF Conservation
<1> QED
  BY <1>1, InvariantHolds, PTL

\* Nothing outstanding and the loop gone: every accepted entry is settled.
LEMMA NothingLeft ==
  ASSUME IndInv, loop = "exited", batches = {}
  PROVE  Settled = 1 .. received
<1>1. flushed = received /\ received \in Nat /\ received <= MaxEntries
  BY FlowWriterAssumption DEF IndInv, VarsOK, LoopPosition
<1>2. \A e \in Entries : e <= received => fate[e] # "none"
  BY <1>1, Zenon DEF IndInv, Accounted
<1>3. \A e \in Entries : fate[e] # "none" => e <= received
  BY <1>1 DEF IndInv, Accounted, Entries
<1> QED
  BY <1>1, <1>2, <1>3, FlowWriterAssumption DEF Settled, Entries

\* When Stop has returned, no entry is left in the channel, in the batch or in
\* a goroutine.
THEOREM StopIsComplete == SafeSpec => []StopLeavesNothing
<1>1. IndInv => StopLeavesNothing
  BY NothingLeft, Zenon DEF IndInv, LoopPosition, StopLeavesNothing
<1> QED
  BY <1>1, InvariantHolds, PTL

-----------------------------------------------------------------------------
(* Settling happens once *)

\* Every step either leaves the fates alone or settles unsettled entries of
\* one batch.
LEMMA SettlesOnce ==
  ASSUME IndInv, [Next]_writerVars
  PROVE  /\ \A e \in Entries : fate[e] # "none" => fate'[e] = fate[e]
         /\ fate' # fate => UNCHANGED <<received, stop>>
<1>1. CASE UNCHANGED fate
  BY <1>1, Zenon
<1>2. ASSUME NEW b \in batches,
             DropBatch(b) \/ GroupBatch(b) \/ \E n \in Nodes : WriteChunk(b, n)
      PROVE  /\ \A e \in Entries : fate[e] # "none" => fate'[e] = fate[e]
             /\ UNCHANGED <<received, stop>>
  <2>1. \A e \in b.todo : fate[e] = "none"
    BY Zenon DEF IndInv, Accounted
  <2>2. CASE DropBatch(b)
    BY <2>1, <2>2, SMTT(30) DEF DropBatch
  <2>3. CASE GroupBatch(b)
    BY <2>1, <2>3, Zenon DEF GroupBatch
  <2>4. ASSUME NEW n \in Nodes, WriteChunk(b, n)
        PROVE  /\ \A e \in Entries : fate[e] # "none" => fate'[e] = fate[e]
               /\ UNCHANGED <<received, stop>>
    <3>1. Chunk(b, n) \subseteq b.todo
      BY Zenon DEF Chunk
    <3>2. \A e \in Entries : e \notin b.todo => fate'[e] = fate[e]
      BY <3>1, <2>4, SMTT(30) DEF Sendable, WriteChunk
    <3> QED
      BY <3>2, <2>1, <2>4, Zenon DEF WriteChunk
  <2> QED
    BY <1>2, <2>2, <2>3, <2>4, Zenon
<1>3. fate' = fate \/ \E b \in batches :
        DropBatch(b) \/ GroupBatch(b) \/ \E n \in Nodes : WriteChunk(b, n)
  BY Zenon DEF Next, writerVars, Enqueue, Stop, StopReturns, LoopStep, Receive, Tick, ChannelClosed,
     AsyncFlush, FlushStep, BatchDone, UpdateConfig, SetLimit, SetBurst, SetBatchSize
<1> QED
  BY <1>1, <1>2, <1>3, Zenon

\* No second goroutine, chunk or retry changes what has become of an entry.
THEOREM FateNeverChanges == SafeSpec => FateIsFinal
<1>1. IndInv /\ [Next]_writerVars =>
        [\A e \in Entries : fate[e] # "none" => fate'[e] = fate[e]]_writerVars
  BY SettlesOnce, Zenon
<1> QED
  BY <1>1, InvariantHolds, PTL DEF SafeSpec, FateIsFinal

-----------------------------------------------------------------------------
(* The writer keeps the promise of AsyncSink *)

\* The detailed writer implements the safety part of the abstract one that
\* receiveSnapshot relies on, with the settled entries as refinement mapping.
THEOREM WriterImplementsSink == SafeSpec => Sink!SinkSafe
<1>1. Init => Sink!SinkInit
  BY Zenon DEF Init, Sink!SinkInit, Settled
<1>2. IndInv /\ IndInv' /\ [Next]_writerVars => [Sink!SinkNext]_(Sink!sinkVars)
  <2> SUFFICES ASSUME IndInv, IndInv', [Next]_writerVars
               PROVE  [Sink!SinkNext]_(Sink!sinkVars)
    BY Zenon
  <2>1. CASE fate' # fate
    <3>1. /\ \A e \in Entries : fate[e] # "none" => fate'[e] = fate[e]
          /\ UNCHANGED <<received, stop>>
      BY <2>1, SettlesOnce, Zenon
    <3>2. Settled \subseteq Settled'
      BY <3>1, Zenon DEF Settled
    <3>3. Settled' \subseteq 1 .. received
      <4>1. \A e \in Settled' : e \in Entries /\ e <= flushed'
        BY FlowWriterAssumption, SMTT(30) DEF Settled, IndInv, VarsOK, Accounted, Entries
      <4>2. received' = received /\ received \in Int /\ flushed' \in Int /\ flushed' <= received
        BY <3>1 DEF IndInv, VarsOK
      <4> QED
        BY <4>1, <4>2, FlowWriterAssumption DEF Entries
    <3>4. CASE Settled' = Settled
      BY <3>1, <3>4, Zenon DEF Sink!sinkVars
    <3>5. CASE Settled' # Settled
      <4> DEFINE S == Settled' \ Settled
      <4>1. S \in SUBSET Sink!Outstanding /\ S # {} /\ Settled' = Settled \cup S
        BY <3>2, <3>3, <3>5, Zenon DEF Sink!Outstanding
      <4>2. Sink!Settle
        BY <4>1, <3>1, Zenon DEF Sink!Settle
      <4> QED
        BY <4>2, Zenon DEF Sink!SinkNext
    <3> QED
      BY <3>4, <3>5, Zenon
  <2>2. CASE fate' = fate
    <3>1. Settled' = Settled
      BY <2>2, Zenon DEF Settled
    <3>2. CASE Enqueue
      BY <3>1, <3>2, Zenon DEF Enqueue, Sink!SinkNext, Sink!Accept
    <3>3. CASE Stop
      BY <3>1, <3>3, Zenon DEF Stop, Sink!SinkNext, Sink!Close
    <3>4. CASE StopReturns
      <4>1. Settled = 1 .. received
        BY <3>4, NothingLeft, Zenon DEF StopReturns
      <4> QED
        BY <3>1, <3>4, <4>1, Zenon DEF StopReturns, Sink!SinkNext, Sink!Finish, Sink!Outstanding
    <3>5. CASE LoopStep \/ FlushStep \/ UpdateConfig \/ UNCHANGED writerVars
      <4>1. UNCHANGED <<received, stop>>
        BY <3>5, Zenon DEF LoopStep, Receive, Tick, ChannelClosed, AsyncFlush, FlushStep, DropBatch,
           GroupBatch, WriteChunk, BatchDone, UpdateConfig, SetLimit, SetBurst, SetBatchSize,
           writerVars
      <4> QED
        BY <3>1, <4>1, SMTT(30) DEF Sink!sinkVars
    <3> QED
      BY <3>2, <3>3, <3>4, <3>5, Zenon DEF Next
  <2> QED
    BY <2>1, <2>2, Zenon
<1> QED
  BY <1>1, <1>2, InvariantHolds, PTL DEF SafeSpec, Sink!SinkSafe

-----------------------------------------------------------------------------
(* Without reconfiguration the limiter never refuses a batch *)

\* As long as nobody reconfigures the writer, the burst covers a batch, and no
\* batch ever outgrows the batch size.
StaticInv ==
  /\ ~update.held /\ sizing = {}
  /\ limited => burst = batchSize
  /\ loop = "select" => taken - flushed < batchSize
  /\ taken - flushed <= batchSize
  /\ \A b \in batches : Size(b) <= batchSize
  /\ \A e \in Entries : fate[e] # "dropped"

\* ... and no update has begun.
UntouchedInv == updates = 0 => StaticInv

\* Until UpdateConfig is called, whatever the rate and the batch size the writer
\* was started with, it loses no entry to its limiter: Stop's "all data flushed"
\* holds.
THEOREM StaticWriterFlushesAll == SafeSpec => []NoDropUnlessReconfigured
<1> USE FlowWriterAssumption
<1>1. ASSUME Init PROVE StaticInv
  <2>1. limited => burst = batchSize
    BY <1>1, Zenon DEF Init
  <2>2. \A e \in Entries : fate[e] # "dropped"
    BY <1>1, Zenon DEF Init
  <2>3. taken - flushed < batchSize /\ taken - flushed <= batchSize
    BY <1>1 DEF Init
  <2> QED
    BY <1>1, <2>1, <2>2, <2>3, Zenon DEF Init, StaticInv, NoUpdate
<1>2. IndInv /\ IndInv' /\ UntouchedInv /\ [Next]_writerVars => UntouchedInv'
  <2> SUFFICES ASSUME IndInv, IndInv', UntouchedInv, [Next]_writerVars, updates' = 0
               PROVE  StaticInv'
    BY Zenon DEF UntouchedInv
  <2>0. updates = 0 /\ StaticInv
    <3>1. CASE UNCHANGED updates
      BY <3>1, Zenon DEF UntouchedInv
    <3>2. CASE updates' = updates + 1
      BY <3>2, SMTT(30) DEF IndInv, VarsOK
    <3>3. UNCHANGED configVars \/ UpdateConfig
      BY ZenonT(30) DEF Next, LoopStep, FlushStep, Enqueue, Stop, StopReturns, Receive, Tick, ChannelClosed,
         AsyncFlush, DropBatch, GroupBatch, WriteChunk, BatchDone, writerVars, configVars
    <3> QED
      BY <3>1, <3>2, <3>3, Zenon DEF UpdateConfig, SetLimit, SetBurst, SetBatchSize, configVars
  <2>1. /\ received \in Int /\ taken \in Int /\ flushed \in Int
        /\ batchSize \in Int /\ batchSize > 0
    BY DEF IndInv, VarsOK
  <2>2. CASE Enqueue \/ Stop \/ StopReturns \/ UNCHANGED writerVars
    BY <2>0, <2>2 DEF Enqueue, Stop, StopReturns, writerVars, configVars, StaticInv, Size
  <2>3. CASE Receive
    BY <2>0, <2>1, <2>3 DEF Receive, configVars, StaticInv, Size
  <2>4. CASE Tick \/ ChannelClosed
    BY <2>0, <2>4 DEF Tick, ChannelClosed, configVars, StaticInv, Size
  <2>5. CASE AsyncFlush
    <3> DEFINE r == [lo |-> flushed + 1, hi |-> taken, stage |-> "limit",
                     todo |-> (flushed + 1) .. taken]
    <3>1. batches' = batches \cup {r} /\ flushed' = taken /\ loop' \in {"select", "exited"}
          /\ UNCHANGED <<taken, fate, configVars>>
      BY <2>5, Zenon DEF AsyncFlush
    <3>2. Size(r) <= batchSize
      BY <2>0, <2>1 DEF Size, StaticInv
    <3> HIDE DEF r
    <3>3. \A b \in batches' : Size(b) <= batchSize
      BY <2>0, <3>1, <3>2, Zenon DEF StaticInv
    <3> QED
      BY <2>0, <3>1, <3>3, <2>1 DEF StaticInv, configVars, Size
  <2>6. ASSUME NEW b \in batches,
               DropBatch(b) \/ GroupBatch(b) \/ (\E n \in Nodes : WriteChunk(b, n)) \/ BatchDone(b)
        PROVE  StaticInv'
    <3>1. b \in Batch /\ Size(b) <= batchSize
      BY <2>0, Zenon DEF IndInv, VarsOK, StaticInv
    <3>2. ~TooLarge(b)
      BY <2>0, <3>1, <2>1, SMTT(30) DEF TooLarge, StaticInv, Size, Batch, Entries
    <3>3. UNCHANGED <<received, taken, flushed, loop, configVars, stop>>
      BY <2>6, ZenonT(30) DEF DropBatch, GroupBatch, WriteChunk, BatchDone
    <3>4. \A c \in batches' : c \in batches \/ (c.lo = b.lo /\ c.hi = b.hi)
      <4>1. CASE batches' = batches \ {b}
        BY <4>1, Zenon
      <4>2. CASE \E S : batches' = (batches \ {b}) \cup
                           {[b EXCEPT !.stage = "write", !.todo = b.todo \ S]}
        BY <4>2, <3>1, Zenon DEF Batch
      <4>3. CASE \E S : batches' = (batches \ {b}) \cup {[b EXCEPT !.todo = b.todo \ S]}
        BY <4>3, <3>1, Zenon DEF Batch
      <4> QED
        BY <2>6, <4>1, <4>2, <4>3, Zenon DEF DropBatch, GroupBatch, WriteChunk, BatchDone
    <3>5. \A e \in Entries : fate'[e] # "dropped"
      BY <2>0, <2>6, <3>2, ZenonT(30) DEF DropBatch, GroupBatch, WriteChunk, BatchDone, StaticInv
    <3> QED
      BY <2>0, <3>1, <3>3, <3>4, <3>5, SMTT(30) DEF StaticInv, configVars, Size
  <2>7. CASE UpdateConfig
    BY <2>0, <2>7 DEF UpdateConfig, SetLimit, SetBurst, SetBatchSize, StaticInv, IndInv, VarsOK
  <2> QED
    BY <2>2, <2>3, <2>4, <2>5, <2>6, <2>7, Zenon DEF Next, LoopStep, FlushStep
<1>3. UntouchedInv => NoDropUnlessReconfigured
  BY Zenon DEF UntouchedInv, StaticInv, NoDropUnlessReconfigured
<1>4. Init => UntouchedInv
  BY <1>1, Zenon DEF UntouchedInv
<1> QED
  BY <1>2, <1>3, <1>4, InvariantHolds, PTL DEF SafeSpec
=============================================================================
