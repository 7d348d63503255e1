-------------------------- MODULE ReplicatorProofs --------------------------
(* The safety of the life of a replicator, for any number of FLOWs, target   *)
(* addresses and failures.  The source is asked for the data only with every *)
(* FLOW registered, and Stop leaves no stream's connection open: both rest   *)
(* on where Start is, what it has stored and registered (Progress), and on   *)
(* the context: Start passes the dial of the target only before Stop         *)
(* canceled it, so Stop's loops begin with all of r.flowConns stored         *)
(* (Closing).  The status tells how the process ended (Outcome), and what    *)
(* Stop closes it has half-closed before (FinFirst).                         *)
EXTENDS Replicator, TLAPS

Places == {"new", "connect", "mainAuth", "ping", "port", "capa", "dragonfly", "dial", "auth",
           "register", "target", "returned"} \cup Streaming

\* The part of the types the argument needs.
Typed ==
  /\ n \in 0 .. MaxFlows /\ i \in Nat \ {0} /\ start \in Places
  /\ flowConns \in [Flows -> {"none", "open", "half", "closed"}]
  /\ j \in Nat \ {0} /\ len \in Nat

\* What Start has registered and stored when it is at a place.
Progress ==
  /\ start \in {"new", "connect", "mainAuth", "ping", "port", "capa", "dragonfly"} =>
       i = 1 /\ registered = {}
  /\ start \in {"dial", "auth", "register"} =>
       /\ i <= n /\ made /\ registered = 1 .. i - 1
       /\ \A f \in 1 .. i - 1 : flowConns[f] # "none"
  /\ start = "register" => flowConns[i] # "none"
  /\ start \in {"target"} \cup Streaming =>
       made /\ registered = Used /\ \A f \in Used : flowConns[f] # "none"
  /\ synced => start \in {"snapshot", "journal", "returned"} /\ registered = Used

\* Stop has canceled the context before it looks at the connections, and its
\* last loop closes all of them under a Start that is past the target's dial.
Closing ==
  /\ ~ctx => stop \in {"no", "called"}
  /\ start \in Streaming /\ stop = "close" =>
       len = n /\ \A f \in Used : f < j => flowConns[f] = "closed"

LifeInv == Typed /\ Progress /\ Closing

\* Start has not begun, and neither has Stop.
LEMMA LifeInitInv == LifeInit => LifeInv
  BY ReplicatorAssumption
  DEF LifeInit, LifeInv, Typed, Progress, Closing, Places, Streaming, Flows, Used

\* Fail leaves Start at its end, where only what was synced matters.
LEMMA FailInv ==
  ASSUME LifeInv, Fail,
         UNCHANGED <<n, registered, synced, flowConns, stop, j, len>>, ctx => ctx'
  PROVE  LifeInv'
<1>1. Typed'
  BY Zenon DEF LifeInv, Typed, Fail, Places, Streaming
<1>2. Progress'
  BY Zenon DEF LifeInv, Progress, Fail, Streaming, Used
<1>3. Closing'
  BY Zenon DEF LifeInv, Closing, Fail, Streaming
<1> QED BY <1>1, <1>2, <1>3, Zenon DEF LifeInv

\* A step of Start that only moves on, within the places before the FLOWs or
\* past the dial of the target.
LEMMA GoInv ==
  ASSUME LifeInv,
         UNCHANGED <<n, i, made, registered, synced, flowConns, stop, j, len, ctx>>,
         \/ start' = start
         \/ start' = "returned"
         \/ /\ start \in {"new", "connect", "mainAuth", "ping", "port", "capa"}
            /\ start' \in {"connect", "mainAuth", "ping", "port", "capa", "dragonfly"}
         \/ start = "dial" /\ start' = "auth"
         \/ start = "target" /\ ~ctx /\ start' = "targetAuth"
         \/ start = "targetAuth" /\ start' \in {"target", "sync"}
         \/ start = "snapshot" /\ start' = "journal"
  PROVE  LifeInv'
<1>1. Typed'
  BY Zenon DEF LifeInv, Typed, Places, Streaming
<1>2. Progress'
  BY Zenon DEF LifeInv, Progress, Streaming, Used
<1>3. Closing'
  BY Zenon DEF LifeInv, Closing, Streaming, Used
<1> QED BY <1>1, <1>2, <1>3, Zenon DEF LifeInv

\* r.flowConns is made, and the first FLOW is next.
LEMMA DragonflyInv == ASSUME LifeInv, sendCapaDragonfly PROVE LifeInv'
<1>1. CASE Fail
  BY <1>1, FailInv, Zenon DEF sendCapaDragonfly, fixedVars, connVars, stopVars, sourceVars
<1>2. CASE ~Fail
  <2>1. /\ start = "dragonfly" /\ start' \in {"target", "dial"} /\ (start' = "target" <=> n = 0)
        /\ made' /\ UNCHANGED <<n, i, registered, synced, flowConns, stop, j, len, ctx>>
    BY <1>2, Zenon DEF sendCapaDragonfly, fixedVars, connVars, stopVars, sourceVars
  <2>2. Typed'
    BY <2>1, Zenon DEF LifeInv, Typed, Places
  <2>3. Progress'
    <3>1. i = 1 /\ registered = {} /\ ~synced /\ n \in Nat
      BY <2>1 DEF LifeInv, Typed, Progress
    <3>2. 1 .. i - 1 = {}
      BY <3>1
    <3>3. CASE n = 0
      <4>1. Used = {}
        BY <3>3 DEF Used
      <4> QED BY <2>1, <3>1, <3>3, <4>1, Zenon DEF Progress, Used
    <3>4. CASE n # 0
      BY <2>1, <3>1, <3>2, <3>4 DEF Progress, Streaming
    <3> QED BY <3>3, <3>4, Zenon
  <2>4. Closing'
    BY <2>1, Zenon DEF LifeInv, Closing, Streaming
  <2> QED BY <2>2, <2>3, <2>4, Zenon DEF LifeInv
<1> QED BY <1>1, <1>2, Zenon

\* A FLOW connection is stored.
LEMMA StoreInv == ASSUME LifeInv, storeFlowConn PROVE LifeInv'
<1>1. CASE Fail
  BY <1>1, FailInv, Zenon DEF storeFlowConn, Fail, Go, fixedVars, connVars, stopVars, sourceVars
<1>2. CASE ~Fail
  <2>1. /\ start = "auth" /\ start' = "register" /\ flowConns' = [flowConns EXCEPT ![i] = "open"]
        /\ UNCHANGED <<n, i, made, registered, synced, stop, j, len, ctx>>
    BY <1>2, Zenon DEF storeFlowConn, Go, fixedVars, stopVars, sourceVars
  <2>2. i \in Flows /\ \A f \in 1 .. i - 1 : f \in Flows /\ f # i
    <3>1. i \in Nat \ {0} /\ i <= n /\ n \in 0 .. MaxFlows /\ MaxFlows \in Nat
      BY <2>1, ReplicatorAssumption, Zenon DEF LifeInv, Typed, Progress
    <3> QED BY <3>1 DEF Flows
  <2>3. Typed'
    BY <2>1, <2>2, Zenon DEF LifeInv, Typed, Places
  <2>4. Progress'
    BY <2>1, <2>2, Zenon DEF LifeInv, Typed, Progress, Streaming
  <2>5. Closing'
    BY <2>1, Zenon DEF LifeInv, Closing, Streaming
  <2> QED BY <2>3, <2>4, <2>5, Zenon DEF LifeInv
<1> QED BY <1>1, <1>2, Zenon

\* A FLOW is registered, and the next one or the target follows.
LEMMA RegisterInv == ASSUME LifeInv, registerFlow PROVE LifeInv'
<1>1. CASE Fail
  <2>1. registered' = registered \/ ~Fail
    BY Zenon DEF registerFlow, Fail
  <2> QED BY <1>1, <2>1, FailInv, Zenon DEF registerFlow, fixedVars, connVars, stopVars
<1>2. CASE ~Fail
  <2>1. /\ start = "register" /\ registered' = registered \cup {i}
        /\ IF i < n THEN start' = "dial" /\ i' = i + 1 ELSE start' = "target" /\ i' = i
        /\ UNCHANGED <<n, made, synced, flowConns, stop, j, len, ctx>>
    BY <1>2, Zenon DEF registerFlow, fixedVars, connVars, stopVars
  <2>2. i \in Nat \ {0} /\ n \in Nat /\ i <= n /\ registered = 1 .. i - 1
    BY <2>1 DEF LifeInv, Typed, Progress
  <2>3. registered' = 1 .. i
    BY <2>1, <2>2
  <2>4. Typed'
    BY <2>1, <2>2 DEF LifeInv, Typed, Places
  <2>5. made /\ ~synced /\ \A f \in 1 .. i : flowConns[f] # "none"
    BY <2>1, <2>2 DEF LifeInv, Progress
  <2>6. Progress'
    <3>1. CASE i < n
      BY <2>1, <2>2, <2>3, <2>5, <3>1 DEF Progress, Streaming
    <3>2. CASE i = n
      BY <2>1, <2>2, <2>3, <2>5, <3>2 DEF Progress, Streaming, Used
    <3> QED BY <2>2, <3>1, <3>2
  <2>7. Closing'
    BY <2>1, Zenon DEF LifeInv, Closing, Streaming
  <2> QED BY <2>4, <2>6, <2>7, Zenon DEF LifeInv
<1> QED BY <1>1, <1>2, Zenon

\* Every step of Start.
LEMMA StartInv == ASSUME LifeInv, StartStep \/ StreamSucceeds \/ StreamFails PROVE LifeInv'
<1> USE DEF fixedVars, connVars, stopVars, sourceVars
<1>1. CASE BeginStart
  <2>1. /\ start = "new" /\ start' = "connect"
        /\ UNCHANGED <<n, i, made, registered, synced, flowConns, stop, j, len, ctx>>
    BY <1>1, Zenon DEF BeginStart
  <2> QED BY <2>1, GoInv, Zenon
<1>2. CASE DialContext("connect", "mainAuth")
  <2>1. CASE Fail
    <3>1. UNCHANGED <<n, registered, synced, flowConns, stop, j, len, ctx>>
      BY <1>2, <2>1, Zenon DEF DialContext
    <3> QED BY <2>1, <3>1, FailInv, Zenon
  <2>2. CASE ~Fail
    <3>1. /\ start = "connect" /\ start' = "mainAuth"
          /\ UNCHANGED <<n, i, made, registered, synced, flowConns, stop, j, len, ctx>>
      BY <1>2, <2>2, Zenon DEF DialContext, Go
    <3> QED BY <3>1, GoInv, Zenon
  <2> QED BY <2>1, <2>2, Zenon
<1>3. CASE DialContext("dial", "auth")
  <2>1. CASE Fail
    <3>1. UNCHANGED <<n, registered, synced, flowConns, stop, j, len, ctx>>
      BY <1>3, <2>1, Zenon DEF DialContext
    <3> QED BY <2>1, <3>1, FailInv, Zenon
  <2>2. CASE ~Fail
    <3>1. /\ start = "dial" /\ start' = "auth"
          /\ UNCHANGED <<n, i, made, registered, synced, flowConns, stop, j, len, ctx>>
      BY <1>3, <2>2, Zenon DEF DialContext, Go
    <3> QED BY <3>1, GoInv, Zenon
  <2> QED BY <2>1, <2>2, Zenon
<1>4. CASE connect
  <2>1. CASE Fail
    <3>1. UNCHANGED <<n, registered, synced, flowConns, stop, j, len, ctx>>
      BY <1>4, <2>1, Zenon DEF connect
    <3> QED BY <2>1, <3>1, FailInv, Zenon
  <2>2. CASE ~Fail
    <3>1. /\ start = "mainAuth" /\ start' = "ping"
          /\ UNCHANGED <<n, i, made, registered, synced, flowConns, stop, j, len, ctx>>
      BY <1>4, <2>2, Zenon DEF connect, Go
    <3> QED BY <3>1, GoInv, Zenon
  <2> QED BY <2>1, <2>2, Zenon
<1>5. CASE handshake("ping", "port") \/ handshake("port", "capa") \/ handshake("capa", "dragonfly")
  <2>1. CASE Fail
    <3>1. UNCHANGED <<n, registered, synced, flowConns, stop, j, len, ctx>>
      BY <1>5, <2>1, Zenon DEF handshake
    <3> QED BY <2>1, <3>1, FailInv, Zenon
  <2>2. CASE ~Fail
    <3>1. /\ start \in {"ping", "port", "capa"} /\ start' \in {"port", "capa", "dragonfly"}
          /\ UNCHANGED <<n, i, made, registered, synced, flowConns, stop, j, len, ctx>>
      BY <1>5, <2>2, Zenon DEF handshake, Go
    <3> QED BY <3>1, GoInv, Zenon
  <2> QED BY <2>1, <2>2, Zenon
<1>6. CASE DialTarget
  <2>1. CASE Fail
    <3>1. UNCHANGED <<n, registered, synced, flowConns, stop, j, len, ctx>>
      BY <1>6, <2>1, Zenon DEF DialTarget
    <3> QED BY <2>1, <3>1, FailInv, Zenon
  <2>2. CASE ~Fail
    <3>1. start = "target" /\ UNCHANGED <<n, i, made, registered, synced, flowConns, stop, j, len, ctx>>
      BY <1>6, <2>2, Zenon DEF DialTarget, Go, NextSeed
    <3>2. CASE ctx
      <4>1. start' = "target"
        BY <1>6, <2>2, <3>2, Zenon DEF DialTarget, NextSeed
      <4> QED BY <3>1, <4>1, GoInv, Zenon
    <3>3. CASE ~ctx
      <4>1. start' \in {"target", "targetAuth"}
        BY <1>6, <2>2, Zenon DEF DialTarget, Go, NextSeed
      <4> QED BY <3>1, <3>3, <4>1, GoInv, Zenon
    <3> QED BY <3>2, <3>3, Zenon
  <2> QED BY <2>1, <2>2, Zenon
<1>7. CASE TargetReplies
  <2>1. CASE Fail
    <3>1. UNCHANGED <<n, registered, synced, flowConns, stop, j, len, ctx>>
      BY <1>7, <2>1, Zenon DEF TargetReplies
    <3> QED BY <2>1, <3>1, FailInv, Zenon
  <2>2. CASE ~Fail
    <3>1. /\ start = "targetAuth" /\ start' \in {"target", "sync"}
          /\ UNCHANGED <<n, i, made, registered, synced, flowConns, stop, j, len, ctx>>
      BY <1>7, <2>2, Zenon DEF TargetReplies, Go, NextSeed
    <3> QED BY <3>1, GoInv, Zenon
  <2> QED BY <2>1, <2>2, Zenon
<1>8. CASE sendDflySync
  <2>1. CASE Fail
    <3>1. UNCHANGED <<n, registered, synced, flowConns, stop, j, len, ctx>>
      BY <1>8, <2>1, Zenon DEF sendDflySync, Fail, Go
    <3> QED BY <2>1, <3>1, FailInv, Zenon
  <2>2. CASE ~Fail
    <3>1. /\ start = "sync" /\ start' = "snapshot"
          /\ UNCHANGED <<n, i, made, registered, flowConns, stop, j, len, ctx>>
      BY <1>8, <2>2, Zenon DEF sendDflySync, Go
    <3>2. Typed'
      BY <3>1, Zenon DEF LifeInv, Typed, Places, Streaming
    <3>3. Progress'
      BY <3>1, Zenon DEF LifeInv, Progress, Streaming, Used
    <3>4. Closing'
      BY <3>1, Zenon DEF LifeInv, Closing, Streaming, Used
    <3> QED BY <3>2, <3>3, <3>4, Zenon DEF LifeInv
  <2> QED BY <2>1, <2>2, Zenon
<1>9. CASE StreamSucceeds
  <2>1. /\ (start = "snapshot" /\ start' = "journal") \/ start' = "returned"
        /\ UNCHANGED <<n, i, made, registered, synced, flowConns, stop, j, len, ctx>>
    BY <1>9, Zenon DEF StreamSucceeds, Succeed
  <2> QED BY <2>1, GoInv, Zenon
<1>10. CASE StreamFails
  <2>1. Fail /\ UNCHANGED <<n, registered, synced, flowConns, stop, j, len>>
    BY <1>10, Zenon DEF StreamFails
  <2>2. ctx => ctx'
    BY <1>10, ZenonT(30) DEF StreamFails
  <2> QED BY <2>1, <2>2, FailInv, Zenon
<1> QED
  BY <1>1, <1>2, <1>3, <1>4, <1>5, <1>6, <1>7, <1>8, <1>9, <1>10, DragonflyInv, StoreInv,
     RegisterInv
 , Zenon DEF StartStep

\* Every step of Stop: a loop begins with the FLOWs there are, and goes through
\* them.
LEMMA StopInv == ASSUME LifeInv, StopStep PROVE LifeInv'
<1> USE DEF fixedVars, connVars, startVars, sourceVars
<1>1. CASE StopCancel
  BY <1>1, Zenon DEF StopCancel, LifeInv, Typed, Progress, Closing, Used, Streaming
<1>2. CASE StopRange("sleep", "fin") \/ StopRange("main", "close")
  <2>1. /\ stop \in {"sleep", "main"} /\ j' = 1 /\ len' = Ranged
        /\ UNCHANGED <<start, n, i, made, registered, synced, flowConns, ctx>>
    BY <1>2, Zenon DEF StopRange
  <2>2. ctx
    BY <2>1, Zenon DEF LifeInv, Closing
  <2>3. Typed'
    BY <2>1 DEF LifeInv, Typed, Ranged
  <2>4. Progress'
    BY <2>1, Zenon DEF LifeInv, Progress, Used
  <2>5. Closing'
    BY <2>1, <2>2 DEF LifeInv, Typed, Progress, Closing, Ranged, Used
  <2> QED BY <2>3, <2>4, <2>5, Zenon DEF LifeInv
<1>3. CASE StopCloseWrite
  <2>1. /\ stop = "fin" /\ stop' = "fin" /\ j' = j + 1
        /\ UNCHANGED <<start, n, i, made, registered, synced, ctx, len>>
        /\ flowConns' \in {flowConns, [flowConns EXCEPT ![j] = "half"]}
    BY <1>3, Zenon DEF StopCloseWrite
  <2>2. \A f \in Flows : flowConns[f] # "none" => flowConns'[f] # "none"
    BY <2>1, Zenon DEF LifeInv, Typed
  <2>3. Typed'
    BY <2>1 DEF LifeInv, Typed
  <2>4. Progress'
    BY <2>1, <2>2, ReplicatorAssumption DEF LifeInv, Typed, Progress, Used, Flows
  <2>5. Closing'
    BY <2>1, Zenon DEF LifeInv, Closing
  <2> QED BY <2>3, <2>4, <2>5, Zenon DEF LifeInv
<1>4. CASE StopCloseMain
  BY <1>4, Zenon DEF StopCloseMain, LifeInv, Typed, Progress, Closing, Used, Streaming
<1>5. CASE StopClose
  <2>1. /\ stop = "close" /\ stop' = "close" /\ j' = j + 1
        /\ UNCHANGED <<start, n, i, made, registered, synced, ctx, len>>
        /\ flowConns' = [flowConns EXCEPT ![j] = IF @ = "none" THEN "none" ELSE "closed"]
    BY <1>5, Zenon DEF StopClose
  <2>2. \A f \in Flows : flowConns[f] # "none" => flowConns'[f] # "none"
    BY <2>1, Zenon DEF LifeInv, Typed
  <2>3. Typed'
    <3>1. flowConns \in [Flows -> {"none", "open", "half", "closed"}] /\ j \in Nat \ {0}
      BY Zenon DEF LifeInv, Typed
    <3>2. \A f \in Flows : flowConns'[f] \in {"none", "open", "half", "closed"}
      BY <2>1, <3>1, Zenon
    <3>3. flowConns' \in [Flows -> {"none", "open", "half", "closed"}]
      BY <2>1, <3>1, <3>2, ZenonT(30)
    <3> QED BY <2>1, <3>1, <3>3 DEF LifeInv, Typed
  <2>4. Progress'
    BY <2>1, <2>2, ReplicatorAssumption DEF LifeInv, Typed, Progress, Used, Flows
  <2>5. Closing'
    <3>1. ASSUME start \in Streaming, NEW f \in Used, f < j + 1
          PROVE  flowConns'[f] = "closed"
      <4>1. f \in Flows /\ flowConns[f] # "none" /\ j \in Nat
        BY <3>1, ReplicatorAssumption DEF LifeInv, Typed, Progress, Used, Flows
      <4>2. CASE f = j
        BY <2>1, <4>1, <4>2, Zenon DEF LifeInv, Typed
      <4>3. CASE f < j
        BY <2>1, <3>1, <4>1, <4>3, Zenon DEF LifeInv, Typed, Closing
      <4> QED BY <3>1, <4>1, <4>2, <4>3 DEF Used
    <3> QED BY <2>1, <3>1, Zenon DEF LifeInv, Closing, Used
  <2> QED BY <2>3, <2>4, <2>5, Zenon DEF LifeInv
<1>6. CASE StopReturns
  BY <1>6, Zenon DEF StopReturns, LifeInv, Typed, Progress, Closing, Used, Streaming
<1> QED BY <1>1, <1>2, <1>3, <1>4, <1>5, <1>6, Zenon DEF StopStep

\* The command, the signal and stuttering touch neither Start nor its
\* connections.
LEMMA CommandInv ==
  ASSUME LifeInv, Deliver \/ Signal \/ Select \/ Exit \/ UNCHANGED vars
  PROVE  LifeInv'
<1>1. UNCHANGED <<start, n, i, made, registered, synced, flowConns, ctx, j, len>>
  BY Zenon DEF Deliver, Signal, Select, Exit, vars, fixedVars, startVars, connVars, stopVars, sourceVars
<1>2. stop' = stop \/ stop' = "called"
  BY Zenon DEF Deliver, Signal, Select, Exit, vars, stopVars
<1> QED BY <1>1, <1>2, Zenon DEF LifeInv, Typed, Progress, Closing, Used

\* The invariant holds in every reachable state.
LEMMA LifeInvariant == LifeSpec => []LifeInv
<1>1. LifeInv /\ [LifeNext]_vars => LifeInv'
  BY StartInv, StopInv, CommandInv, Zenon DEF LifeNext
<1> QED BY <1>1, LifeInitInv, PTL DEF LifeSpec

\* The source gets DFLY SYNC only once every FLOW it asked for is registered
\* (sendDflySync after establishFlows, replicator.go:516-632), for any number of
\* FLOWs and wherever a call fails or Stop intervenes.
THEOREM SyncNeedsAllFlows == LifeSpec => []SyncAfterRegistration
<1>1. LifeInv => SyncAfterRegistration
  BY Zenon DEF LifeInv, Progress, SyncAfterRegistration
<1> QED BY <1>1, LifeInvariant, PTL

\* When Stop waits for Start (replicator.go:286), no connection of a stream phase
\* is open any more, however the two goroutines' accesses to r.flowConns fell.
THEOREM StopReachesStreams == LifeSpec => []NoStreamLeftOpen
<1>1. LifeInv => NoStreamLeftOpen
  BY DEF LifeInv, Typed, Closing, NoStreamLeftOpen, AllClosed, Used, Streaming
<1> QED BY <1>1, LifeInvariant, PTL
-----------------------------------------------------------------------------
(* How the process ends *)

\* The status is Start's result until Stop overwrites it, the error channel
\* carries that result and no other, and the command exits after Stop, or on a
\* result of migrate without it.
Outcome ==
  /\ start \in {"snapshot", "journal"} => synced
  /\ start # "returned" => ~failed /\ errCh = "empty" /\ stop # "done"
  /\ start = "returned" => status = IF stop = "done" THEN "stopped"
                                    ELSE IF failed THEN "error" ELSE "completed"
  /\ start = "returned" /\ ~failed => synced /\ n > 0
  /\ errCh # "empty" => errCh = IF failed THEN "error" ELSE "nil"
  /\ cli = "select" => stop = "no"
  /\ cli = "stopping" => stop # "no"
  /\ cli = "exited" => \/ stop = "done"
                       \/ stop = "no" /\ errCh # "empty" /\ (code = 0 => errCh = "nil")

\* Before the first step there is nothing to report.
LEMMA OutcomeInit == LifeInit => Outcome
  BY Zenon DEF LifeInit, Outcome

\* Start goes on, fails, or ends its streams.
LEMMA OutcomeStart ==
  ASSUME LifeInv, Outcome, StartStep \/ StreamSucceeds \/ StreamFails
  PROVE  Outcome'
<1>1. /\ UNCHANGED <<n, stop, cli, code, errCh>> /\ start # "returned"
      /\ synced' = synced \/ synced' = TRUE
  BY Zenon DEF StartStep, BeginStart, DialContext, connect, handshake, sendCapaDragonfly, storeFlowConn,
     registerFlow, DialTarget, TargetReplies, sendDflySync, StreamSucceeds, StreamFails,
     fixedVars, stopVars, cliVars, sourceVars
<1>2. \/ Fail
      \/ Succeed /\ start \in {"snapshot", "journal"} /\ n > 0
      \/ /\ start' # "returned" /\ failed' = failed
         /\ start' \in {"snapshot", "journal"} => synced' \/ start = "snapshot"
  BY Zenon DEF StartStep, BeginStart, DialContext, connect, handshake, sendCapaDragonfly, storeFlowConn,
     registerFlow, DialTarget, TargetReplies, sendDflySync, StreamSucceeds, StreamFails, Go, NextSeed
<1>3. CASE Fail
  BY <1>1, <1>3, Zenon DEF Outcome, Fail
<1>4. CASE Succeed /\ start \in {"snapshot", "journal"} /\ n > 0
  BY <1>1, <1>4 DEF Outcome, Succeed
<1>5. CASE /\ start' # "returned" /\ failed' = failed
           /\ start' \in {"snapshot", "journal"} => synced' \/ start = "snapshot"
  BY <1>1, <1>5 DEF Outcome
<1> QED BY <1>2, <1>3, <1>4, <1>5, Zenon

\* Stop and the command.
LEMMA OutcomeRest ==
  ASSUME LifeInv, Outcome, cli # "exited", StopStep \/ Deliver \/ Signal \/ Select \/ Exit
  PROVE  Outcome'
<1> USE DEF fixedVars, startVars, stopVars, cliVars, sourceVars
<1>1. CASE StopStep
  <2>1. /\ UNCHANGED <<n, start, failed, synced, cli, code, errCh>>
        /\ stop # "no" /\ stop' # "no"
        /\ \/ stop # "done" /\ stop' # "done" /\ status' = status
           \/ start = "returned" /\ stop' = "done" /\ status' = "stopped"
    BY <1>1, Zenon DEF StopStep, StopCancel, StopRange, StopCloseWrite, StopCloseMain, StopClose, StopReturns
  <2> QED BY <2>1, Zenon DEF Outcome
<1>2. CASE Deliver
  BY <1>2, Zenon DEF Deliver, Outcome
<1>3. CASE Signal
  BY <1>3, Zenon DEF Signal, Outcome
<1>4. CASE Select
  BY <1>4 DEF Select, Outcome
<1>5. CASE Exit
  BY <1>5, Zenon DEF Exit, Outcome
<1> QED BY <1>1, <1>2, <1>3, <1>4, <1>5, Zenon

\* The three processes keep the status, the channel and the exit consistent.
LEMMA OutcomeInvariant == LifeSpec => []Outcome
<1>1. LifeInv /\ Outcome /\ [LifeNext]_vars => Outcome'
  <2> SUFFICES ASSUME LifeInv, Outcome, [LifeNext]_vars PROVE Outcome'
    BY Zenon
  <2>1. CASE LifeNext
    BY <2>1, OutcomeStart, OutcomeRest, Zenon DEF LifeNext
  <2>2. CASE UNCHANGED vars
    BY <2>2, Zenon DEF vars, fixedVars, startVars, stopVars, cliVars, sourceVars, Outcome
  <2> QED BY <2>1, <2>2, Zenon
<1> QED BY <1>1, OutcomeInit, LifeInvariant, PTL DEF LifeSpec

\* The status in the state file and the exit code tell how the process ended
\* (recordPipelineStatus in Start and Stop, replicator.go:137-205 and 289, and
\* the exits of runMigrate and runReplicate), whatever failed and whenever the
\* signal came.
THEOREM StatusTellsEnd == LifeSpec => []FinalStatus
<1>1. Outcome => FinalStatus
  BY Zenon DEF Outcome, FinalStatus
<1> QED BY <1>1, OutcomeInvariant, PTL

-----------------------------------------------------------------------------
(* The connections Stop closes *)

\* Connections stored before the context was canceled: Stop's loops see them all.
Early == {f \in Flows : flowConns[f] # "none" /\ f \notin late}

\* Each of them is open until Stop's first loop comes to it, half-closed until
\* the second one does, and closed from then on.
FinFirst ==
  /\ \A f \in registered : f \in Flows /\ flowConns[f] # "none"
  /\ \A f \in Flows : flowConns[f] # "none" => made /\ f \in Used
  /\ stop \in {"no", "called", "sleep"} => \A f \in Early : flowConns[f] = "open"
  /\ stop = "fin" => \A f \in Early : /\ f <= len
                                      /\ IF f < j THEN f \in fin /\ flowConns[f] = "half"
                                         ELSE flowConns[f] = "open"
  /\ stop = "main" => \A f \in Early : f \in fin /\ flowConns[f] = "half"
  /\ stop = "close" => \A f \in Early : f \in fin /\ f <= len /\ (f < j => flowConns[f] = "closed")
  /\ stop = "done" => start = "returned" /\ \A f \in Early : f \in fin /\ flowConns[f] = "closed"
\* No connection is stored yet.
LEMMA FinFirstInit == LifeInit => FinFirst
  BY Zenon DEF LifeInit, FinFirst, Early

\* The connections stay what they are for every step of Start but one, which may
\* register the FLOW it is at.
LEMMA FinFirstStart ==
  ASSUME LifeInv, FinFirst,
         UNCHANGED <<n, flowConns, late, stop, j, len, fin>>,
         made => made',
         start # "returned",
         registered' = registered \/ (start = "register" /\ registered' = registered \cup {i})
  PROVE  FinFirst'
<1>1. \A f \in registered' : f \in Flows /\ flowConns[f] # "none"
  BY ReplicatorAssumption DEF LifeInv, Typed, Progress, FinFirst, Flows
<1>2. Early' = Early
  BY Zenon DEF Early
<1>3. stop # "done"
  BY Zenon DEF FinFirst
<1>4. \A f \in Flows : flowConns'[f] # "none" => made' /\ f \in Used'
  BY Zenon DEF FinFirst, Used
<1> QED BY <1>1, <1>2, <1>3, <1>4, Zenon DEF FinFirst

\* A connection is stored: open, and late if the context is canceled.
LEMMA FinFirstStore ==
  ASSUME LifeInv, FinFirst, storeFlowConn
  PROVE  FinFirst'
<1> USE DEF fixedVars, stopVars, sourceVars
<1>1. start = "auth" /\ UNCHANGED <<n, stop, j, len, fin, registered>>
  BY Zenon DEF storeFlowConn, Go, Fail
<1>a. i \in Flows /\ i \in Used
  BY <1>1, ReplicatorAssumption DEF LifeInv, Typed, Progress, Flows, Used
<1>b. made /\ made'
  BY <1>1, Zenon DEF LifeInv, Progress, storeFlowConn, Go, Fail
<1>2. CASE UNCHANGED <<flowConns, late>>
  BY <1>1, <1>b, <1>2, FinFirstStart, Zenon
<1>3. CASE /\ flowConns' = [flowConns EXCEPT ![i] = "open"]
           /\ late' = IF ctx THEN late \cup {i} ELSE late
  <2>1. \A f \in Flows : flowConns'[f] = IF f = i THEN "open" ELSE flowConns[f]
    BY <1>a, <1>3, Zenon DEF LifeInv, Typed
  <2>2. stop # "done"
    BY <1>1, Zenon DEF FinFirst
  <2>3. CASE ctx
    <3>1. \A f \in Early' : f \in Early /\ flowConns'[f] = flowConns[f]
      BY <1>3, <2>1, <2>3, Zenon DEF Early
    <3> QED BY <1>1, <1>a, <1>b, <2>1, <2>2, <3>1, Zenon DEF FinFirst, Used
  <2>4. CASE ~ctx
    <3>1. stop \in {"no", "called"}
      BY <2>4, Zenon DEF LifeInv, Closing
    <3>2. \A f \in Early' : flowConns'[f] = "open"
      BY <1>3, <2>1, <2>4, <3>1, Zenon DEF Early, FinFirst
    <3> QED BY <1>1, <1>a, <1>b, <2>1, <3>1, <3>2, Zenon DEF FinFirst, Used
  <2> QED BY <2>3, <2>4, Zenon
<1> QED BY <1>2, <1>3, Zenon DEF storeFlowConn

\* Stop's loops: the first half-closes, the second closes, each of them over all
\* that was stored before the context was canceled.
LEMMA FinFirstStop ==
  ASSUME LifeInv, FinFirst, StopStep
  PROVE  FinFirst'
<1> USE DEF fixedVars, startVars, connVars, sourceVars
<1>1. UNCHANGED <<n, made, late, start, registered>>
  BY Zenon DEF StopStep, StopCancel, StopRange, StopCloseWrite, StopCloseMain, StopClose, StopReturns
<1>2. flowConns \in [Flows -> {"none", "open", "half", "closed"}] /\ j \in Nat \ {0} /\ len \in Nat
  BY Zenon DEF LifeInv, Typed
<1>3. \A f \in Early : f \in Flows /\ made /\ f <= n /\ f >= 1
  BY <1>2 DEF Early, FinFirst, Used, Flows
<1>4. CASE StopCancel
  BY <1>1, <1>4 DEF StopCancel, FinFirst, Early, Used
<1>5. CASE StopRange("sleep", "fin") \/ StopRange("main", "close")
  <2>1. Early' = Early /\ UNCHANGED <<flowConns, fin>> /\ j' = 1
    BY <1>1, <1>5, Zenon DEF StopRange, Early
  <2>a. Early # {} => len' = n
    BY <1>3, <1>5, Zenon DEF StopRange, Ranged
  <2>2. \A f \in Early : f <= len' /\ ~(f < j')
    BY <1>3, <2>1, <2>a DEF LifeInv, Typed, Flows
  <2> QED BY <1>1, <1>5, <2>1, <2>2, Zenon DEF StopRange, FinFirst, Used
<1>6. CASE StopCloseWrite
  <2>1. Early' = Early /\ UNCHANGED <<stop, len>> /\ stop = "fin" /\ j' = j + 1
    BY <1>1, <1>2, <1>6, Zenon DEF StopCloseWrite, Early
  <2>2. \A f \in Flows : flowConns'[f] = "none" <=> flowConns[f] = "none"
    BY <1>2, <1>6, Zenon DEF StopCloseWrite
  <2>3. \A f \in Early : /\ f <= len
                         /\ IF f < j' THEN f \in fin' /\ flowConns'[f] = "half"
                            ELSE flowConns'[f] = "open"
    <3> SUFFICES ASSUME NEW f \in Early
                 PROVE  /\ f <= len
                        /\ IF f < j' THEN f \in fin' /\ flowConns'[f] = "half"
                           ELSE flowConns'[f] = "open"
      BY Zenon
    <3>1. f \in Flows /\ f \in Nat /\ f <= len
      BY <1>2, <1>3, <2>1 DEF FinFirst, Flows
    <3>2. CASE f = j
      BY <1>2, <1>6, <2>1, <3>1, <3>2 DEF StopCloseWrite, FinFirst
    <3>3. CASE f # j
      <4>1. flowConns'[f] = flowConns[f] /\ (f \in fin => f \in fin')
        BY <1>2, <1>6, <3>1, <3>3, Zenon DEF StopCloseWrite
      <4> QED BY <1>2, <2>1, <3>1, <3>3, <4>1 DEF FinFirst
    <3> QED BY <3>2, <3>3, Zenon
  <2> QED BY <1>1, <2>1, <2>2, <2>3, Zenon DEF FinFirst, Used
<1>7. CASE StopCloseMain
  <2>1. Early' = Early /\ UNCHANGED <<flowConns, fin>>
    BY <1>1, <1>7, Zenon DEF StopCloseMain, Early
  <2>2. \A f \in Early : f \in fin /\ flowConns[f] = "half"
    BY <1>2, <1>3, <1>7 DEF StopCloseMain, FinFirst, Flows
  <2> QED BY <1>1, <1>7, <2>1, <2>2 DEF StopCloseMain, FinFirst, Used
<1>8. CASE StopClose
  <2>1. Early' = Early /\ UNCHANGED <<stop, len, fin>> /\ stop = "close" /\ j' = j + 1
    BY <1>1, <1>2, <1>8, Zenon DEF StopClose, Early
  <2>2. \A f \in Flows : flowConns'[f] = "none" <=> flowConns[f] = "none"
    BY <1>2, <1>8, Zenon DEF StopClose
  <2>3. \A f \in Early : f \in fin /\ f <= len /\ (f < j' => flowConns'[f] = "closed")
    BY <1>2, <1>3, <1>8, <2>1 DEF StopClose, FinFirst, Flows, Early
  <2> QED BY <1>1, <2>1, <2>2, <2>3, Zenon DEF FinFirst, Used
<1>9. CASE StopReturns
  <2>1. Early' = Early /\ UNCHANGED <<flowConns, fin>>
    BY <1>1, <1>9, Zenon DEF StopReturns, Early
  <2>2. \A f \in Early : f \in fin /\ flowConns[f] = "closed"
    BY <1>2, <1>3, <1>9 DEF StopReturns, FinFirst, Flows
  <2> QED BY <1>1, <1>9, <2>1, <2>2 DEF StopReturns, FinFirst, Used
<1> QED BY <1>4, <1>5, <1>6, <1>7, <1>8, <1>9, Zenon DEF StopStep

\* Stop ends each stream the source had registered with a FIN before it closes
\* it (replicator.go:225-289), unless Start stored the connection after the
\* context was canceled: the loops of Stop find all the others.
THEOREM FinBeforeClose == LifeSpec => []GracefulStop
<1>1. LifeInv /\ Outcome /\ FinFirst /\ [LifeNext]_vars => FinFirst'
  <2> SUFFICES ASSUME LifeInv, Outcome, FinFirst, [LifeNext]_vars PROVE FinFirst'
    BY Zenon
  <2> USE DEF fixedVars, startVars, connVars, stopVars, cliVars, sourceVars
  <2>1. CASE StartStep \/ StreamSucceeds \/ StreamFails
    <3>1. CASE storeFlowConn
      BY <3>1, FinFirstStore, Zenon
    <3>2. CASE ~storeFlowConn
      <4>1. UNCHANGED <<n, flowConns, late, stop, j, len, fin>> /\ start # "returned"
        BY <2>1, <3>2, Zenon DEF StartStep, BeginStart, DialContext, connect, handshake,
           sendCapaDragonfly, registerFlow, DialTarget, TargetReplies, sendDflySync,
           StreamSucceeds, StreamFails
      <4>2. registered' = registered \/ (start = "register" /\ registered' = registered \cup {i})
        BY <2>1, <3>2, Zenon DEF StartStep, BeginStart, DialContext, connect, handshake,
           sendCapaDragonfly, registerFlow, DialTarget, TargetReplies, sendDflySync,
           StreamSucceeds, StreamFails
      <4>3. made => made'
        BY <2>1, <3>2, Zenon DEF StartStep, BeginStart, DialContext, connect, handshake,
           sendCapaDragonfly, registerFlow, DialTarget, TargetReplies, sendDflySync,
           StreamSucceeds, StreamFails, Go, Fail, Succeed, NextSeed
      <4> QED BY <4>1, <4>2, <4>3, FinFirstStart, Zenon
    <3> QED BY <3>1, <3>2, Zenon
  <2>2. CASE StopStep
    BY <2>2, FinFirstStop, Zenon
  <2>3. CASE Deliver \/ Signal \/ Exit \/ UNCHANGED vars
    <3>1. UNCHANGED <<n, made, flowConns, late, stop, j, len, fin, registered, start>>
      BY <2>3, Zenon DEF Deliver, Signal, Exit, vars
    <3> QED BY <3>1, Zenon DEF FinFirst, Early, Used
  <2>4. CASE Select
    <3>1. /\ UNCHANGED <<n, made, flowConns, late, j, len, fin, registered, start>>
          /\ stop' = stop \/ (stop' = "called" /\ stop = "no")
      BY <2>4, Zenon DEF Select, Outcome
    <3>2. CASE stop' = stop
      BY <3>1, <3>2, Zenon DEF FinFirst, Early, Used
    <3>3. CASE stop' = "called" /\ stop = "no"
      BY <3>1, <3>3, Zenon DEF FinFirst, Early, Used
    <3> QED BY <3>1, <3>2, <3>3, Zenon
  <2> QED BY <2>1, <2>2, <2>3, <2>4, Zenon DEF LifeNext
<1>2. FinFirst => GracefulStop
  BY Zenon DEF FinFirst, GracefulStop, Early
<1> QED BY <1>1, <1>2, FinFirstInit, LifeInvariant, OutcomeInvariant, PTL DEF LifeSpec
=============================================================================
