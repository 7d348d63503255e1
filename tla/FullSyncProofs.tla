--------------------------- MODULE FullSyncProofs ---------------------------
(***************************************************************************)
(* Proofs about FullSync, for any number of FLOWs, any snapshot sizes, any *)
(* mix of FULLSYNC_END and direct EOF, and any faults.                     *)
(***************************************************************************)
EXTENDS FullSync, FiniteSetTheorems, TLAPS

\* The FLOWs whose stream has ended.
EndedFlows == {f \in Flows : Ended(f)}

\* Only a FLOW whose stream has ended arrives at the barrier; the second
\* arrival, the marker entry's, is still to come while the goroutine is there.
ArrivalsInv ==
  /\ arrivals \subseteq EndedFlows \X {"first", "again"}
  /\ \A f \in Flows : pc[f] = "marker" => rdbCompleted[f] /\ <<f, "again">> \notin arrivals
  /\ \A f \in Flows : pc[f] = "token" => rdbCompleted[f]

\* receiveSnapshot is past the select, and STARTSTABLE sent, only if the
\* barrier was closed.
StableInv ==
  main \in {"startstable", "reply", "drain", "writers", "ok"} \/ started => closes > 0

\* Until receiveSnapshot fails, the error of every failed FLOW is in errChan.
ErrorsInv ==
  main \in {"select", "startstable", "reply", "drain"} =>
    \A f \in Flows : pc[f] = "failed" => f \in errChan

\* Past wg.Wait every goroutine has returned without an error.
DoneInv ==
  /\ main \in {"writers", "ok"} => errChan = {} /\ \A f \in Flows : pc[f] = "done"
  /\ main = "ok" => \A f \in Flows : pending[f] = 0

\* The inductive invariant.
IndInv ==
  /\ TypeOK
  /\ BarrierClosedOnce
  /\ ArrivalsInv
  /\ StableInv
  /\ ErrorsInv
  /\ DoneInv
-----------------------------------------------------------------------------
(* The barrier *)

LEMMA PairsFinite ==
  ASSUME NEW S, IsFiniteSet(S)
  PROVE  /\ IsFiniteSet(S \X {"first", "again"})
         /\ Cardinality(S \X {"first", "again"}) = 2 * Cardinality(S)
<1>1. IsFiniteSet({"first"}) /\ Cardinality({"first"}) = 1
  BY FS_Singleton, Zenon
<1>2. IsFiniteSet({"first"} \cup {"again"}) /\ Cardinality({"first"} \cup {"again"}) = 2
  BY <1>1, FS_AddElement
<1>3. {"first"} \cup {"again"} = {"first", "again"}
  BY Zenon
<1>4. IsFiniteSet({"first", "again"}) /\ Cardinality({"first", "again"}) = 2
  BY <1>2, <1>3, Zenon
<1>5. /\ IsFiniteSet(S \X {"first", "again"})
      /\ Cardinality(S \X {"first", "again"}) = Cardinality(S) * 2
  BY <1>4, FS_Product, Zenon
<1>6. Cardinality(S) \in Nat
  BY FS_CardinalityType, Zenon
<1> QED
  BY <1>5, <1>6

\* An arrival on a new occasion is counted once, and keeps the barrier closed
\* exactly from the moment the counter reaches the number of FLOWs.
LEMMA ArriveOnce ==
  ASSUME TypeOK, BarrierClosedOnce, NEW f \in Flows, NEW o \in {"first", "again"},
         <<f, o>> \notin arrivals, Arrive(f, o)
  PROVE  /\ arrivals' = arrivals \cup {<<f, o>>}
         /\ count' = Cardinality(arrivals')
         /\ closes' \in Nat /\ closes' >= closes
         /\ BarrierClosedOnce'
<1>1. IsFiniteSet(arrivals)
  <2>1. IsFiniteSet(Flows \X {"first", "again"})
    BY PairsFinite, FullSyncAssumption, Zenon
  <2> QED
    BY <2>1, FS_Subset, Zenon DEF TypeOK
<1>2. Cardinality(arrivals) \in Nat
  BY <1>1, FS_CardinalityType, Zenon
<1>3. Cardinality(arrivals \cup {<<f, o>>}) = Cardinality(arrivals) + 1
  BY <1>1, FS_AddElement, Zenon
<1>4. numFlows \in Nat
  BY FS_CardinalityType, FullSyncAssumption, Zenon DEF numFlows
<1>5. arrivals' = arrivals \cup {<<f, o>>} /\ count' = count + 1
      /\ closes' = IF count' = numFlows THEN closes + 1 ELSE closes
  BY Zenon DEF Arrive
<1>6. count \in Nat /\ count = Cardinality(arrivals)
  BY <1>2, Zenon DEF TypeOK
<1>7. BarrierClosedOnce'
  <2>1. numFlows' = numFlows
    BY Zenon DEF numFlows
  <2> QED
    BY <2>1, <1>4, <1>5, <1>6 DEF BarrierClosedOnce
<1> QED
  BY <1>3, <1>4, <1>5, <1>6, <1>7 DEF TypeOK, BarrierClosedOnce

LEMMA InitInv == Init => IndInv
<1> SUFFICES ASSUME Init PROVE IndInv
  BY Zenon
<1>1. Cardinality({}) = 0
  BY FS_EmptySet, Zenon
<1>2. numFlows \in Nat /\ numFlows # 0
  <2>1. numFlows \in Nat
    BY FS_CardinalityType, FullSyncAssumption, Zenon DEF numFlows
  <2>2. numFlows # 0
    BY FS_EmptySet, FullSyncAssumption, Zenon DEF numFlows
  <2> QED
    BY <2>1, <2>2, Zenon
<1>3. TypeOK
  <2>1. count = Cardinality(arrivals)
    BY <1>1, Zenon DEF Init
  <2>2. /\ pc \in [Flows -> FlowPlaces] /\ rdbCompleted \in [Flows -> BOOLEAN]
        /\ keys \in [Flows -> Nat] /\ pending \in [Flows -> Nat]
        /\ conn \in [Flows -> {"up", "fin", "broken"}]
    BY FullSyncAssumption, Zenon DEF Init, FlowPlaces
  <2>3. errChan \subseteq {f \in Flows : pc[f] = "failed"}
    BY Zenon DEF Init
  <2>4. ctxDone \in BOOLEAN /\ started \in BOOLEAN /\ main \in MainPlaces
        /\ stop \in {"no", "cancelled", "closed"}
    BY Zenon DEF Init, MainPlaces
  <2>5. /\ verified \subseteq Flows /\ arrivals \subseteq Flows \X {"first", "again"}
        /\ closes \in Nat /\ breaks \in 0 .. MaxBreaks /\ cuts \in 0 .. MaxCloses
    BY FullSyncAssumption DEF Init
  <2> QED
    BY <2>1, <2>2, <2>3, <2>4, <2>5, Zenon DEF TypeOK
<1>4. BarrierClosedOnce
  BY <1>2 DEF Init, BarrierClosedOnce
<1>5. ArrivalsInv
  BY Zenon DEF Init, ArrivalsInv
<1> QED
  BY <1>3, <1>4, <1>5, Zenon DEF Init, IndInv, StableInv, ErrorsInv, DoneInv

\* A step that leaves the barrier alone and lets no FLOW's stream un-end.
LEMMA NoArrival ==
  ASSUME IndInv, UNCHANGED barrierVars,
         \A f \in Flows : Ended(f) => Ended(f)',
         \A f \in Flows : pc'[f] = "marker" => pc[f] = "marker" /\ rdbCompleted'[f],
         \A f \in Flows : pc'[f] = "token" => rdbCompleted'[f]
  PROVE  BarrierClosedOnce' /\ ArrivalsInv'
<1>1. EndedFlows \subseteq EndedFlows'
  BY Zenon DEF EndedFlows
<1>2. numFlows' = numFlows
  BY Zenon DEF numFlows
<1> QED
  BY <1>1, <1>2, Zenon DEF IndInv, BarrierClosedOnce, ArrivalsInv, barrierVars

\* A step by which f, whose stream has ended, arrives on a new occasion.
LEMMA OneArrival ==
  ASSUME IndInv, NEW f \in Flows, NEW o \in {"first", "again"},
         <<f, o>> \notin arrivals, Arrive(f, o), Ended(f)',
         \A g \in Flows : Ended(g) => Ended(g)',
         \A g \in Flows : pc'[g] = "marker" => rdbCompleted'[g] /\ <<g, "again">> \notin arrivals',
         \A g \in Flows : pc'[g] = "token" => rdbCompleted'[g]
  PROVE  /\ BarrierClosedOnce' /\ ArrivalsInv'
         /\ count' = Cardinality(arrivals') /\ closes' \in Nat /\ closes' >= closes
         /\ arrivals' \subseteq Flows \X {"first", "again"}
<1>1. /\ arrivals' = arrivals \cup {<<f, o>>}
      /\ count' = Cardinality(arrivals')
      /\ closes' \in Nat /\ closes' >= closes
      /\ BarrierClosedOnce'
  BY ArriveOnce, Zenon DEF IndInv
<1>2. EndedFlows \subseteq EndedFlows' /\ f \in EndedFlows'
  BY Zenon DEF EndedFlows
<1>3. arrivals' \subseteq EndedFlows' \X {"first", "again"}
  BY <1>1, <1>2 DEF IndInv, ArrivalsInv
<1> QED
  BY <1>1, <1>3 DEF IndInv, ArrivalsInv, TypeOK
-----------------------------------------------------------------------------
(* The goroutine of one FLOW *)

LEMMA FlowInv ==
  ASSUME IndInv, NEW f \in Flows, FlowStep(f)
  PROVE  IndInv'
<1> USE FullSyncAssumption
<1> DEFINE Frame == UNCHANGED <<envVars, ctxDone, started, main, stop>>
<1>0. /\ pc \in [Flows -> FlowPlaces] /\ rdbCompleted \in [Flows -> BOOLEAN]
      /\ keys \in [Flows -> Nat] /\ pending \in [Flows -> Nat]
      /\ verified \subseteq Flows /\ errChan \subseteq {g \in Flows : pc[g] = "failed"}
      /\ closes \in Nat
  BY Zenon DEF IndInv, TypeOK
<1>1. CASE ParseHeader(f) \/ CheckContext(f) \/ ReadError(f)
  <2>1. UNCHANGED <<rdbCompleted, keys, pending, verified, barrierVars>> /\ Frame
    BY <1>1, Zenon DEF ParseHeader, CheckContext, ReadError
  <2>2. /\ pc[f] \in {"header", "check", "parse"}
        /\ \/ \E p \in {"check", "parse"} : pc' = [pc EXCEPT ![f] = p] /\ errChan' = errChan
           \/ pc' = [pc EXCEPT ![f] = "failed"] /\ errChan' = errChan \cup {f}
    BY <1>1, Zenon DEF ParseHeader, CheckContext, ReadError, Fail
  <2>3. TypeOK'
    BY <1>0, <2>1, <2>2 DEF IndInv, TypeOK, FlowPlaces, barrierVars, envVars
  <2>4. BarrierClosedOnce' /\ ArrivalsInv'
    BY <1>0, <2>1, <2>2, NoArrival, ZenonT(30) DEF Ended, IndInv, ArrivalsInv
  <2>5. main \notin {"writers", "ok"}
    BY <2>2, Zenon DEF IndInv, DoneInv
  <2> QED
    BY <1>0, <2>1, <2>2, <2>3, <2>4, <2>5, Zenon DEF IndInv, StableInv, ErrorsInv, DoneInv, barrierVars
<1>2. CASE ReadEntry(f)
  <2>1. UNCHANGED <<rdbCompleted, verified, barrierVars, errChan>> /\ Frame
    BY <1>2, Zenon DEF ReadEntry
  <2>2. pc[f] = "parse" /\ pc' = [pc EXCEPT ![f] = "check"]
    BY <1>2, Zenon DEF ReadEntry
  <2>3. keys' \in [Flows -> Nat] /\ pending' \in [Flows -> Nat]
    BY <1>0, <1>2 DEF ReadEntry
  <2>4. TypeOK'
    BY <1>0, <2>1, <2>2, <2>3, Zenon DEF IndInv, TypeOK, FlowPlaces, barrierVars, envVars
  <2>5. BarrierClosedOnce' /\ ArrivalsInv'
    BY <1>0, <2>1, <2>2, NoArrival, Zenon DEF Ended, IndInv, ArrivalsInv
  <2>6. main \notin {"writers", "ok"}
    BY <2>2, Zenon DEF IndInv, DoneInv
  <2> QED
    BY <1>0, <2>1, <2>2, <2>4, <2>5, <2>6, Zenon DEF IndInv, StableInv, ErrorsInv, DoneInv, barrierVars
<1>3. CASE FullSyncEnd(f)
  <2>1. UNCHANGED <<keys, pending, verified, errChan>> /\ Frame
    BY <1>3, Zenon DEF FullSyncEnd
  <2>2. /\ pc[f] = "parse" /\ pc' = [pc EXCEPT ![f] = "marker"]
        /\ ~rdbCompleted[f] /\ rdbCompleted' = [rdbCompleted EXCEPT ![f] = TRUE]
        /\ Arrive(f, "first")
    BY <1>3, Zenon DEF FullSyncEnd
  <2>3. \A o : <<f, o>> \notin arrivals
    BY <2>2, Zenon DEF IndInv, ArrivalsInv, EndedFlows, Ended
  <2>4. arrivals' = arrivals \cup {<<f, "first">>}
    BY <2>2, Zenon DEF Arrive
  <2>5. \A g \in Flows : Ended(g) => Ended(g)'
    BY <1>0, <2>2, Zenon DEF Ended
  <2>6. \A g \in Flows : /\ pc'[g] = "marker" => rdbCompleted'[g] /\ <<g, "again">> \notin arrivals'
                         /\ pc'[g] = "token" => rdbCompleted'[g]
    BY <1>0, <2>2, <2>3, <2>4, Zenon DEF IndInv, ArrivalsInv
  <2>7. Ended(f)'
    BY <1>0, <2>2, Zenon DEF Ended
  <2>8. /\ BarrierClosedOnce' /\ ArrivalsInv'
        /\ count' = Cardinality(arrivals') /\ closes' \in Nat /\ closes' >= closes
        /\ arrivals' \subseteq Flows \X {"first", "again"}
    BY <2>2, <2>3, <2>5, <2>6, <2>7, OneArrival, Zenon
  <2>9. TypeOK'
    BY <1>0, <2>1, <2>2, <2>8, Zenon DEF IndInv, TypeOK, FlowPlaces, envVars
  <2>10. main \notin {"writers", "ok"}
    BY <2>2, Zenon DEF IndInv, DoneInv
  <2> QED
    BY <1>0, <2>1, <2>2, <2>8, <2>9, <2>10 DEF IndInv, StableInv, ErrorsInv, DoneInv
<1>4. CASE MarkerEntry(f)
  <2>1. UNCHANGED <<rdbCompleted, keys, pending, verified, errChan>> /\ Frame
    BY <1>4, Zenon DEF MarkerEntry
  <2>2. pc[f] = "marker" /\ pc' = [pc EXCEPT ![f] = "barrier"] /\ Arrive(f, "again")
    BY <1>4, Zenon DEF MarkerEntry
  <2>3. <<f, "again">> \notin arrivals /\ rdbCompleted[f]
    BY <2>2, Zenon DEF IndInv, ArrivalsInv
  <2>4. arrivals' = arrivals \cup {<<f, "again">>}
    BY <2>2, Zenon DEF Arrive
  <2>5. \A g \in Flows : Ended(g) => Ended(g)'
    BY <1>0, <2>1, <2>2, Zenon DEF Ended
  <2>6. \A g \in Flows : /\ pc'[g] = "marker" => rdbCompleted'[g] /\ <<g, "again">> \notin arrivals'
                         /\ pc'[g] = "token" => rdbCompleted'[g]
    BY <1>0, <2>1, <2>2, <2>3, <2>4, Zenon DEF IndInv, ArrivalsInv
  <2>7. Ended(f)'
    BY <2>1, <2>3, Zenon DEF Ended
  <2>8. /\ BarrierClosedOnce' /\ ArrivalsInv'
        /\ count' = Cardinality(arrivals') /\ closes' \in Nat /\ closes' >= closes
        /\ arrivals' \subseteq Flows \X {"first", "again"}
    BY <2>2, <2>3, <2>5, <2>6, <2>7, OneArrival, Zenon
  <2>9. TypeOK'
    BY <1>0, <2>1, <2>2, <2>8, Zenon DEF IndInv, TypeOK, FlowPlaces, envVars
  <2>10. main \notin {"writers", "ok"}
    BY <2>2, Zenon DEF IndInv, DoneInv
  <2> QED
    BY <1>0, <2>1, <2>2, <2>8, <2>9, <2>10 DEF IndInv, StableInv, ErrorsInv, DoneInv
<1>5. CASE LeaveBarrier(f)
  <2>1. UNCHANGED <<keys, pending, verified, barrierVars, errChan>> /\ Frame
    BY <1>5, Zenon DEF LeaveBarrier
  <2>2. \/ /\ pc[f] = "barrier" /\ pc' = [pc EXCEPT ![f] = "check"]
           /\ rdbCompleted' = rdbCompleted
        \/ /\ pc[f] = "barrierEof" /\ pc' = [pc EXCEPT ![f] = "done"]
           /\ rdbCompleted' = [rdbCompleted EXCEPT ![f] = TRUE]
    BY <1>5, Zenon DEF LeaveBarrier
  <2>3. TypeOK'
    BY <1>0, <2>1, <2>2, Zenon DEF IndInv, TypeOK, FlowPlaces, barrierVars, envVars
  <2>4. BarrierClosedOnce' /\ ArrivalsInv'
    BY <1>0, <2>1, <2>2, NoArrival, ZenonT(30) DEF Ended, IndInv, ArrivalsInv
  <2>5. main \notin {"writers", "ok"}
    BY <2>2, Zenon DEF IndInv, DoneInv
  <2> QED
    BY <1>0, <2>1, <2>2, <2>3, <2>4, <2>5, Zenon DEF IndInv, StableInv, ErrorsInv, DoneInv, barrierVars
<1>6. CASE EndOfStream(f) /\ ~rdbCompleted[f]
  <2>1. UNCHANGED <<rdbCompleted, keys, pending, verified, errChan>> /\ Frame
    BY <1>6, Zenon DEF EndOfStream
  <2>2. /\ pc[f] = "parse" /\ pc' = [pc EXCEPT ![f] = "barrierEof"]
        /\ ~rdbCompleted[f] /\ Arrive(f, "first")
    BY <1>6, Zenon DEF EndOfStream
  <2>3. \A o : <<f, o>> \notin arrivals
    BY <2>2, Zenon DEF IndInv, ArrivalsInv, EndedFlows, Ended
  <2>4. arrivals' = arrivals \cup {<<f, "first">>}
    BY <2>2, Zenon DEF Arrive
  <2>5. \A g \in Flows : Ended(g) => Ended(g)'
    BY <1>0, <2>1, <2>2, Zenon DEF Ended
  <2>6. \A g \in Flows : /\ pc'[g] = "marker" => rdbCompleted'[g] /\ <<g, "again">> \notin arrivals'
                         /\ pc'[g] = "token" => rdbCompleted'[g]
    BY <1>0, <2>1, <2>2, <2>3, <2>4, Zenon DEF IndInv, ArrivalsInv
  <2>7. Ended(f)'
    BY <1>0, <2>2, Zenon DEF Ended
  <2>8. /\ BarrierClosedOnce' /\ ArrivalsInv'
        /\ count' = Cardinality(arrivals') /\ closes' \in Nat /\ closes' >= closes
        /\ arrivals' \subseteq Flows \X {"first", "again"}
    BY <2>2, <2>3, <2>5, <2>6, <2>7, OneArrival, ZenonT(30)
  <2>9. TypeOK'
    BY <1>0, <2>1, <2>2, <2>8, Zenon DEF IndInv, TypeOK, FlowPlaces, envVars
  <2>10. main \notin {"writers", "ok"}
    BY <2>2, Zenon DEF IndInv, DoneInv
  <2> QED
    BY <1>0, <2>1, <2>2, <2>8, <2>9, <2>10 DEF IndInv, StableInv, ErrorsInv, DoneInv
<1>7. CASE (EndOfStream(f) /\ rdbCompleted[f]) \/ VerifyToken(f)
  <2>1. UNCHANGED <<rdbCompleted, keys, pending, barrierVars>> /\ Frame
    BY <1>7, Zenon DEF EndOfStream, VerifyToken
  <2>2. /\ pc[f] \in {"parse", "token"} /\ rdbCompleted[f]
        /\ verified' \subseteq Flows
        /\ \/ \E p \in {"token", "done"} : pc' = [pc EXCEPT ![f] = p] /\ errChan' = errChan
           \/ pc' = [pc EXCEPT ![f] = "failed"] /\ errChan' = errChan \cup {f}
    BY <1>0, <1>7, Zenon DEF EndOfStream, VerifyToken, Fail, IndInv, ArrivalsInv
  <2>3. TypeOK'
    BY <1>0, <2>1, <2>2 DEF IndInv, TypeOK, FlowPlaces, barrierVars, envVars
  <2>4. BarrierClosedOnce' /\ ArrivalsInv'
    BY <1>0, <2>1, <2>2, NoArrival, Zenon DEF Ended, IndInv, ArrivalsInv
  <2>5. main \notin {"writers", "ok"}
    BY <2>2, Zenon DEF IndInv, DoneInv
  <2> QED
    BY <1>0, <2>1, <2>2, <2>3, <2>4, <2>5, Zenon DEF IndInv, StableInv, ErrorsInv, DoneInv, barrierVars
<1> QED
  BY <1>1, <1>2, <1>3, <1>4, <1>5, <1>6, <1>7, Zenon DEF FlowStep
-----------------------------------------------------------------------------
(* receiveSnapshot, Stop and the environment *)

LEMMA NextInv == IndInv /\ [Next]_vars => IndInv'
<1> SUFFICES ASSUME IndInv, [Next]_vars PROVE IndInv'
  BY Zenon
<1> USE FullSyncAssumption
<1>1. ASSUME NEW f \in Flows, FlowStep(f) PROVE IndInv'
  BY <1>1, FlowInv, Zenon
<1>2. ASSUME NEW f \in Flows, Settle(f) \/ Break(f) \/ SourceCloses(f) PROVE IndInv'
  <2>1. UNCHANGED <<pc, rdbCompleted, verified, barrierVars, errChan, ctxDone, started, main, stop>>
    BY <1>2, Zenon DEF Settle, Break, SourceCloses, flowVars
  <2>2. TypeOK'
    BY <1>2 DEF Settle, Break, SourceCloses, flowVars, barrierVars, envVars, IndInv, TypeOK
  <2>3. BarrierClosedOnce' /\ ArrivalsInv'
    BY <2>1, NoArrival, Zenon DEF Ended, IndInv, ArrivalsInv
  <2>4. DoneInv'
    BY <1>2, <2>1 DEF Settle, Break, SourceCloses, flowVars, IndInv, TypeOK, DoneInv
  <2> QED
    BY <2>1, <2>2, <2>3, <2>4, Zenon DEF IndInv, StableInv, ErrorsInv, barrierVars
<1>3. CASE MainStep
  <2>1. UNCHANGED <<flowVars, barrierVars, conn, cuts, stop>>
    BY <1>3, Zenon DEF MainStep, Select, SendStartStable, StartStableReply, Drain, StopWriters, mainUnchanged
  <2>2. BarrierClosedOnce' /\ ArrivalsInv'
    BY <2>1, NoArrival, Zenon DEF flowVars, Ended, IndInv, ArrivalsInv
  <2>3. CASE Select
    <3>1. TypeOK'
      BY <2>1, <2>3, Zenon DEF Select, flowVars, barrierVars, IndInv, TypeOK, MainPlaces
    <3> QED
      BY <2>1, <2>2, <2>3, <3>1, Zenon DEF Select, BarrierClosed, flowVars, barrierVars, IndInv, StableInv,
         ErrorsInv, DoneInv
  <2>4. CASE SendStartStable
    <3>1. TypeOK'
      BY <2>1, <2>4, Zenon DEF SendStartStable, flowVars, barrierVars, IndInv, TypeOK, MainPlaces
    <3> QED
      BY <2>1, <2>2, <2>4, <3>1, Zenon DEF SendStartStable, flowVars, barrierVars, IndInv, StableInv,
         ErrorsInv, DoneInv
  <2>5. CASE StartStableReply
    <3>1. TypeOK'
      BY <2>1, <2>5 DEF StartStableReply, flowVars, barrierVars, IndInv, TypeOK, MainPlaces
    <3> QED
      BY <2>1, <2>2, <2>5, <3>1, Zenon DEF StartStableReply, flowVars, barrierVars, IndInv, StableInv,
         ErrorsInv, DoneInv
  <2>6. CASE Drain
    <3>1. TypeOK'
      BY <2>1, <2>6, SMTT(30) DEF Drain, flowVars, barrierVars, IndInv, TypeOK, MainPlaces
    <3> QED
      BY <2>1, <2>2, <2>6, <3>1, Zenon DEF Drain, flowVars, barrierVars, IndInv, StableInv,
         ErrorsInv, DoneInv
  <2>7. CASE StopWriters
    <3>1. TypeOK'
      BY <2>1, <2>7, Zenon DEF StopWriters, flowVars, barrierVars, IndInv, TypeOK, MainPlaces
    <3> QED
      BY <2>1, <2>2, <2>7, <3>1, Zenon DEF StopWriters, flowVars, barrierVars, IndInv, StableInv,
         ErrorsInv, DoneInv
  <2> QED
    BY <1>3, <2>3, <2>4, <2>5, <2>6, <2>7, Zenon DEF MainStep
<1>4. CASE StopCancel \/ StopClose \/ UNCHANGED vars
  <2>1. UNCHANGED <<flowVars, barrierVars, errChan, started, main>>
    BY <1>4, Zenon DEF StopCancel, StopClose, vars
  <2>2. TypeOK'
    BY <1>4, <2>1, Zenon DEF StopCancel, StopClose, vars, flowVars, barrierVars, envVars, IndInv, TypeOK
  <2>3. BarrierClosedOnce' /\ ArrivalsInv'
    BY <2>1, NoArrival, Zenon DEF flowVars, Ended, IndInv, ArrivalsInv
  <2> QED
    BY <2>1, <2>2, <2>3, Zenon DEF IndInv, StableInv, ErrorsInv, DoneInv, flowVars, barrierVars
<1> QED
  BY <1>1, <1>2, <1>3, <1>4, Zenon DEF Next

LEMMA InvariantHolds == SafeSpec => []IndInv
<1> QED
  BY InitInv, NextInv, PTL DEF SafeSpec

-----------------------------------------------------------------------------
(* What follows *)

\* The counter counts every arrival, no FLOW arrives more than twice, and
\* errChan never holds more than one error per FLOW.
THEOREM FullSyncTypeOK == SafeSpec => []TypeOK
<1>1. IndInv => TypeOK
  BY Zenon DEF IndInv
<1> QED
  BY <1>1, InvariantHolds, PTL

\* However the goroutines interleave, the barrier channel is closed exactly
\* once: the double count cannot make it panic.
THEOREM BarrierNeverPanics == SafeSpec => []BarrierClosedOnce
<1>1. IndInv => BarrierClosedOnce
  BY Zenon DEF IndInv
<1> QED
  BY <1>1, InvariantHolds, PTL

\* With any number of FLOWs, at least half of the streams have ended when
\* STARTSTABLE is sent.  (Run fullsync_early shows that not all have.)
THEOREM HalfBarrier == SafeSpec => []HalfEndedBeforeStable
<1>1. IndInv => HalfEndedBeforeStable
  <2> SUFFICES ASSUME IndInv, started
               PROVE  2 * Cardinality(EndedFlows) >= numFlows
    BY Zenon DEF HalfEndedBeforeStable, EndedFlows
  <2>1. IsFiniteSet(EndedFlows)
    BY FS_Subset, FullSyncAssumption, Zenon DEF EndedFlows
  <2>2. /\ IsFiniteSet(EndedFlows \X {"first", "again"})
        /\ Cardinality(EndedFlows \X {"first", "again"}) = 2 * Cardinality(EndedFlows)
    BY <2>1, PairsFinite, Zenon
  <2>3. Cardinality(arrivals) <= Cardinality(EndedFlows \X {"first", "again"})
    BY <2>2, FS_Subset, Zenon DEF IndInv, ArrivalsInv
  <2>4. closes > 0 /\ closes \in Nat
    BY Zenon DEF IndInv, StableInv, TypeOK
  <2>5. count >= numFlows /\ count = Cardinality(arrivals)
    BY <2>4 DEF IndInv, BarrierClosedOnce, TypeOK
  <2>6. Cardinality(EndedFlows) \in Nat /\ numFlows \in Nat
    BY <2>1, FS_CardinalityType, FullSyncAssumption, Zenon DEF numFlows
  <2>7. IsFiniteSet(arrivals)
    BY <2>2, FS_Subset, Zenon DEF IndInv, ArrivalsInv
  <2>8. Cardinality(arrivals) \in Nat
    BY <2>7, FS_CardinalityType, Zenon
  <2> QED
    BY <2>2, <2>3, <2>5, <2>6, <2>8
<1> QED
  BY <1>1, InvariantHolds, PTL

\* Success is reported only after every goroutine has returned without an
\* error and every writer has settled everything.
THEOREM SuccessIsFlushed == SafeSpec => []SuccessMeansFlushed
<1>1. IndInv => SuccessMeansFlushed
  BY Zenon DEF IndInv, DoneInv, SuccessMeansFlushed
<1> QED
  BY <1>1, InvariantHolds, PTL

\* No connection has been closed by the source, and a stream that has ended has
\* been read to its last entry.
ReadToEnd ==
  /\ \A f \in Flows : conn[f] # "fin"
  /\ \A f \in Flows : Ended(f) => keys[f] = 0

NoCutInv == cuts = 0 => ReadToEnd

\* Connections may break, Stop may come at any moment and STARTSTABLE may be sent
\* too early, but as long as the source closes no connection in the middle of its
\* stream, a successful full sync has read every entry.  (Run fullsync_closed
\* shows that the condition is needed.)
THEOREM SuccessIsComplete == SafeSpec => []CompleteUnlessCut
<1>1. Init => NoCutInv
  BY Zenon DEF Init, NoCutInv, ReadToEnd, Ended
<1>2. IndInv /\ NoCutInv /\ [Next]_vars => NoCutInv'
  <2> SUFFICES ASSUME IndInv, NoCutInv, [Next]_vars, cuts' = 0 PROVE ReadToEnd'
    BY Zenon DEF NoCutInv
  <2>0. /\ pc \in [Flows -> FlowPlaces] /\ rdbCompleted \in [Flows -> BOOLEAN]
        /\ keys \in [Flows -> Nat]
        /\ conn \in [Flows -> {"up", "fin", "broken"}]
        /\ cuts \in Nat
    BY SMTT(30) DEF IndInv, TypeOK
  <2>a. cuts = 0 /\ ReadToEnd
    <3>1. CASE UNCHANGED cuts
      BY <3>1, Zenon DEF NoCutInv
    <3>2. CASE cuts' = cuts + 1
      BY <2>0, <3>2
    <3> QED
      BY <3>1, <3>2, Zenon DEF Next, FlowStep, ParseHeader, CheckContext, ReadEntry, FullSyncEnd,
         MarkerEntry, LeaveBarrier, EndOfStream, ReadError, VerifyToken, Settle, Break,
         SourceCloses, MainStep, Select, SendStartStable, StartStableReply, Drain, StopWriters,
         mainUnchanged, StopCancel, StopClose, vars, envVars
  <2>1. ASSUME NEW f \in Flows, FlowStep(f) PROVE ReadToEnd'
    <3>1. UNCHANGED <<conn, cuts>>
      BY <2>1, Zenon DEF FlowStep, ParseHeader, CheckContext, ReadEntry, FullSyncEnd, MarkerEntry,
         LeaveBarrier, EndOfStream, ReadError, VerifyToken, envVars
    <3>2. CASE ReadEntry(f)
      <4>1. keys' = [keys EXCEPT ![f] = keys[f] - 1] /\ pc' = [pc EXCEPT ![f] = "check"]
            /\ rdbCompleted' = rdbCompleted /\ keys[f] > 0
        BY <3>2, Zenon DEF ReadEntry
      <4> QED
        BY <2>0, <2>a, <3>1, <4>1, SMTT(30) DEF ReadToEnd, Ended
    <3>3. CASE FullSyncEnd(f)
      BY <2>0, <2>a, <3>1, <3>3, Zenon DEF FullSyncEnd, ReadToEnd, Ended
    <3>4. CASE EndOfStream(f)
      <4>1. keys[f] = 0 \/ rdbCompleted[f]
        BY <2>a, <3>4, Zenon DEF EndOfStream, StreamEnded, ReadToEnd
      <4>2. /\ UNCHANGED <<keys, rdbCompleted>>
            /\ \E p \in FlowPlaces : pc' = [pc EXCEPT ![f] = p]
        BY <3>4, Zenon DEF EndOfStream, FlowPlaces
      <4> QED
        BY <2>0, <2>a, <3>1, <4>1, <4>2, Zenon DEF ReadToEnd, Ended
    <3>5. CASE LeaveBarrier(f)
      BY <2>0, <2>a, <3>1, <3>5, Zenon DEF LeaveBarrier, ReadToEnd, Ended
    <3>6. CASE ParseHeader(f) \/ CheckContext(f) \/ MarkerEntry(f) \/ ReadError(f)
      <4>1. /\ UNCHANGED <<keys, rdbCompleted>>
            /\ \E p \in FlowPlaces \ {"barrierEof", "done"} : pc' = [pc EXCEPT ![f] = p]
        BY <3>6, Zenon DEF ParseHeader, CheckContext, MarkerEntry, ReadError, Fail, FlowPlaces
      <4> QED
        BY <2>0, <2>a, <3>1, <4>1, Zenon DEF ReadToEnd, Ended
    <3>7. CASE VerifyToken(f)
      <4>1. rdbCompleted[f]
        BY <3>7, Zenon DEF VerifyToken, IndInv, ArrivalsInv
      <4>2. /\ UNCHANGED <<keys, rdbCompleted>>
            /\ \E p \in FlowPlaces : pc' = [pc EXCEPT ![f] = p]
        BY <3>7, Zenon DEF VerifyToken, Fail, FlowPlaces
      <4> QED
        BY <2>0, <2>a, <3>1, <4>1, <4>2, Zenon DEF ReadToEnd, Ended
    <3> QED
      BY <2>1, <3>2, <3>3, <3>4, <3>5, <3>6, <3>7, SMTT(30) DEF FlowStep
  <2>2. ASSUME NEW f \in Flows, Settle(f) \/ Break(f) \/ SourceCloses(f) PROVE ReadToEnd'
    BY <2>0, <2>a, <2>2, SMTT(30) DEF Settle, Break, SourceCloses, flowVars, envVars, ReadToEnd, Ended
  <2>3. CASE MainStep \/ StopCancel \/ StopClose \/ UNCHANGED vars
    BY <2>a, <2>3, Zenon DEF MainStep, Select, SendStartStable, StartStableReply, Drain, StopWriters,
       mainUnchanged, StopCancel, StopClose, vars, flowVars, envVars, ReadToEnd, Ended
  <2> QED
    BY <2>1, <2>2, <2>3, Zenon DEF Next
<1>3. IndInv /\ NoCutInv => CompleteUnlessCut
  BY Zenon DEF IndInv, DoneInv, NoCutInv, ReadToEnd, Ended, SuccessMeansComplete, CompleteUnlessCut
<1> QED
  BY <1>1, <1>2, <1>3, InvariantHolds, PTL DEF SafeSpec

-----------------------------------------------------------------------------
(* The tokens *)

\* A FLOW that handled a FULLSYNC_END marker has had its callback set
\* rdbCompleted, so it does not return through the barrier of the FLOWs that
\* end without one; it returns through the comparison of its token, if any.
TokenInv ==
  /\ \A f \in Flows : pc[f] = "barrierEof" => ~rdbCompleted[f]
  /\ \A f \in Flows : <<f, "again">> \in arrivals => rdbCompleted[f]
  /\ \A f \in TokenFlows : pc[f] = "done" /\ <<f, "again">> \in arrivals => f \in verified

\* A successful full sync has compared the token of every FLOW whose
\* FULLSYNC_END it handled, whatever broke or was closed meanwhile.
THEOREM MarkedFlowsVerified == SafeSpec => []TokensVerified
<1>1. Init => TokenInv
  BY FullSyncAssumption, SMTT(30) DEF Init, TokenInv
<1>2. IndInv /\ TokenInv /\ [Next]_vars => TokenInv'
  <2> SUFFICES ASSUME IndInv, TokenInv, [Next]_vars PROVE TokenInv'
    BY Zenon
  <2>0. /\ pc \in [Flows -> FlowPlaces] /\ rdbCompleted \in [Flows -> BOOLEAN]
        /\ TokenFlows \subseteq Flows
        /\ \A f \in Flows : pc[f] = "marker" => rdbCompleted[f]
        /\ \A f \in Flows : pc[f] = "token" => rdbCompleted[f]
    BY FullSyncAssumption, Zenon DEF IndInv, TypeOK, ArrivalsInv
  <2>1. ASSUME NEW f \in Flows, FlowStep(f) PROVE TokenInv'
    <3>1. CASE ParseHeader(f) \/ CheckContext(f) \/ ReadEntry(f) \/ ReadError(f)
      <4>1. /\ UNCHANGED <<rdbCompleted, arrivals, verified>>
            /\ \E p \in FlowPlaces \ {"barrierEof", "done"} : pc' = [pc EXCEPT ![f] = p]
        BY <3>1, Zenon DEF ParseHeader, CheckContext, ReadEntry, ReadError, Fail, barrierVars, FlowPlaces
      <4> QED
        BY <2>0, <4>1, Zenon DEF TokenInv
    <3>2. CASE FullSyncEnd(f)
      BY <2>0, <3>2, Zenon DEF FullSyncEnd, Arrive, TokenInv
    <3>3. CASE MarkerEntry(f)
      BY <2>0, <3>3, Zenon DEF MarkerEntry, Arrive, TokenInv
    <3>4. CASE LeaveBarrier(f)
      BY <2>0, <3>4, Zenon DEF LeaveBarrier, barrierVars, TokenInv
    <3>5. CASE EndOfStream(f)
      BY <2>0, <3>5, Zenon DEF EndOfStream, Arrive, barrierVars, TokenInv
    <3>6. CASE VerifyToken(f)
      BY <2>0, <3>6, Zenon DEF VerifyToken, Fail, barrierVars, TokenInv
    <3> QED
      BY <2>1, <3>1, <3>2, <3>3, <3>4, <3>5, <3>6, Zenon DEF FlowStep
  <2>2. CASE UNCHANGED <<pc, rdbCompleted, arrivals, verified>>
    BY <2>2, Zenon DEF TokenInv
  <2> QED
    BY <2>1, <2>2, Zenon DEF Next, Settle, Break, SourceCloses, MainStep, Select, SendStartStable,
       StartStableReply, Drain, StopWriters, mainUnchanged, StopCancel, StopClose, vars, flowVars,
       barrierVars
<1>3. IndInv /\ TokenInv => TokensVerified
  BY FullSyncAssumption, Zenon DEF IndInv, DoneInv, TokenInv, TokensVerified
<1> QED
  BY <1>1, <1>2, <1>3, InvariantHolds, PTL DEF SafeSpec
=============================================================================
