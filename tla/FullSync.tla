------------------------------ MODULE FullSync ------------------------------
(***************************************************************************)
(* The full-sync phase: receiveSnapshot, sendStartStable and the part of   *)
(* Stop that meets them (internal/replica/replicator.go), over what        *)
(* ParseNext reports (rdb_parser.go).                                      *)
(*                                                                         *)
(* One goroutine per FLOW parses its stream and hands the entries to its   *)
(* FlowWriter (the abstract AsyncSink: only how many entries it still      *)
(* holds).  The goroutines meet at a barrier, a counter under a mutex and  *)
(* a channel that is closed when the counter equals the number of FLOWs;   *)
(* receiveSnapshot waits for the channel, sends DFLY STARTSTABLE, waits    *)
(* for the goroutines and stops the writers.                               *)
(*                                                                         *)
(* A stream is its entries, then FULLSYNC_END, then, once the source has   *)
(* got STARTSTABLE, EOF and a token.  The FLOWs in DirectEOF end with EOF  *)
(* and no FULLSYNC_END.  A connection may break (an error at the next      *)
(* read) or be closed by the source (at an opcode boundary ParseNext then  *)
(* returns io.EOF).                                                        *)
(***************************************************************************)
EXTENDS Integers, FiniteSets

CONSTANTS
  Flows,      \* the FLOW connections
  Keys,       \* Keys[f]: entries in f's snapshot
  DirectEOF,  \* FLOWs whose stream has no FULLSYNC_END
  TokenFlows, \* FLOWs established as FULL with a 40-byte EOF token
  MaxBreaks,  \* connections that break, and STARTSTABLE calls that fail (bound)
  MaxCloses   \* connections the source closes (bound)

ASSUME FullSyncAssumption ==
  /\ IsFiniteSet(Flows) /\ Flows # {}
  /\ Keys \in [Flows -> Nat]
  /\ DirectEOF \subseteq Flows
  /\ TokenFlows \subseteq Flows
  /\ MaxBreaks \in Nat
  /\ MaxCloses \in Nat

numFlows == Cardinality(Flows)

VARIABLES
  pc,            \* pc[f]: where f's goroutine is
  rdbCompleted,  \* rdbCompleted[f]: the goroutine's local flag
  keys,          \* keys[f]: entries of f's stream not yet read
  conn,          \* conn[f]: "up", "fin" (closed by the source) or "broken"
  pending,       \* pending[f]: entries f's writer has accepted and not settled
  verified,      \* FLOWs whose EOF token has been compared
  count,         \* flowCompletionCount.count
  arrivals,      \* history: who has incremented it, and on which occasion
  closes,        \* how often rdbCompletionBarrier has been closed
  errChan,       \* FLOWs whose error is in errChan
  ctxDone,       \* r.ctx is cancelled
  started,       \* the source has got STARTSTABLE
  main,          \* where receiveSnapshot is
  stop,          \* Stop: "no", "cancelled" or "closed" (connections closed)
  breaks, cuts   \* faults so far

flowVars == <<pc, rdbCompleted, keys, pending, verified>>
barrierVars == <<count, arrivals, closes>>
envVars == <<conn, breaks, cuts>>
vars == <<flowVars, barrierVars, envVars, errChan, ctxDone, started, main, stop>>

FlowPlaces == {"header", "check", "parse", "marker", "barrier", "barrierEof", "token",
               "done", "failed"}

MainPlaces == {"select", "startstable", "reply", "drain", "writers", "ok", "error"}

\* Every variable has its type; the counter is the number of arrivals, and a
\* FLOW arrives at most twice; errChan holds at most one error per FLOW, so
\* sending to it never blocks.
TypeOK ==
  /\ pc \in [Flows -> FlowPlaces]
  /\ rdbCompleted \in [Flows -> BOOLEAN]
  /\ keys \in [Flows -> Nat]
  /\ conn \in [Flows -> {"up", "fin", "broken"}]
  /\ pending \in [Flows -> Nat]
  /\ verified \subseteq Flows
  /\ arrivals \subseteq Flows \X {"first", "again"}
  /\ count = Cardinality(arrivals)
  /\ closes \in Nat
  /\ errChan \subseteq {f \in Flows : pc[f] = "failed"}
  /\ ctxDone \in BOOLEAN
  /\ started \in BOOLEAN
  /\ main \in MainPlaces
  /\ stop \in {"no", "cancelled", "closed"}
  /\ breaks \in 0 .. MaxBreaks
  /\ cuts \in 0 .. MaxCloses

BarrierClosed == closes > 0
-----------------------------------------------------------------------------
\* receiveSnapshot has created and started the writers and the goroutines.
Init ==
  /\ pc = [f \in Flows |-> "header"]
  /\ rdbCompleted = [f \in Flows |-> FALSE]
  /\ keys = Keys
  /\ conn = [f \in Flows |-> "up"]
  /\ pending = [f \in Flows |-> 0]
  /\ verified = {}
  /\ count = 0
  /\ arrivals = {}
  /\ closes = 0
  /\ errChan = {}
  /\ ctxDone = FALSE
  /\ started = FALSE
  /\ main = "select"
  /\ stop = "no"
  /\ breaks = 0
  /\ cuts = 0

-----------------------------------------------------------------------------
(* The goroutine of one FLOW *)

\* A fault: every arrival from the last one on closes the barrier.
Arrive_AtLeast(f, occasion) ==
  /\ count' = count + 1
  /\ arrivals' = arrivals \cup {<<f, occasion>>}
  /\ closes' = IF count' >= numFlows THEN closes + 1 ELSE closes

\* A fault: the barrier opens one arrival early.
Arrive_OffByOne(f, occasion) ==
  /\ count' = count + 1
  /\ arrivals' = arrivals \cup {<<f, occasion>>}
  /\ closes' = IF count' = numFlows - 1 THEN closes + 1 ELSE closes

\* The counter is incremented under its mutex, and whoever sees it reach the
\* number of FLOWs closes the barrier.
Arrive(f, occasion) ==
  /\ count' = count + 1
  /\ arrivals' = arrivals \cup {<<f, occasion>>}
  /\ closes' = IF count' = numFlows THEN closes + 1 ELSE closes

\* An error goes to errChan and the goroutine returns.
Fail(f) ==
  /\ errChan' = errChan \cup {f}
  /\ pc' = [pc EXCEPT ![f] = "failed"]

ParseHeader(f) ==
  /\ pc[f] = "header"
  /\ \/ /\ conn[f] = "up"
        /\ pc' = [pc EXCEPT ![f] = "check"]
        /\ UNCHANGED errChan
     \/ /\ conn[f] # "up"
        /\ Fail(f)
  /\ UNCHANGED <<rdbCompleted, keys, pending, verified, barrierVars, envVars,
                 ctxDone, started, main, stop>>

\* The head of the loop observes cancellation.
CheckContext(f) ==
  /\ pc[f] = "check"
  /\ \/ /\ ~ctxDone
        /\ pc' = [pc EXCEPT ![f] = "parse"]
        /\ UNCHANGED errChan
     \/ /\ ctxDone
        /\ Fail(f)
  /\ UNCHANGED <<rdbCompleted, keys, pending, verified, barrierVars, envVars,
                 ctxDone, started, main, stop>>

\* An entry is skipped when it has expired, and enqueued otherwise.
ReadEntry(f) ==
  /\ pc[f] = "parse"
  /\ conn[f] = "up"
  /\ keys[f] > 0
  /\ keys' = [keys EXCEPT ![f] = @ - 1]
  /\ \/ pending' = [pending EXCEPT ![f] = @ + 1]
     \/ UNCHANGED pending
  /\ pc' = [pc EXCEPT ![f] = "check"]
  /\ UNCHANGED <<rdbCompleted, verified, barrierVars, envVars, errChan, ctxDone, started,
                 main, stop>>

\* ParseNext meets FULLSYNC_END: the onFullSyncEnd callback arrives at the
\* barrier, and a marker entry is returned.
FullSyncEnd(f) ==
  /\ pc[f] = "parse"
  /\ conn[f] = "up"
  /\ keys[f] = 0
  /\ f \notin DirectEOF
  /\ ~rdbCompleted[f]
  /\ rdbCompleted' = [rdbCompleted EXCEPT ![f] = TRUE]
  /\ Arrive(f, "first")
  /\ pc' = [pc EXCEPT ![f] = "marker"]
  /\ UNCHANGED <<keys, pending, verified, envVars, errChan, ctxDone, started, main, stop>>

\* The loop handles the marker entry: it arrives again, and waits.
MarkerEntry(f) ==
  /\ pc[f] = "marker"
  /\ Arrive(f, "again")
  /\ pc' = [pc EXCEPT ![f] = "barrier"]
  /\ UNCHANGED <<rdbCompleted, keys, pending, verified, envVars, errChan, ctxDone, started,
                 main, stop>>

\* The wait has no other case: cancellation does not end it.
LeaveBarrier(f) ==
  /\ BarrierClosed
  /\ \/ /\ pc[f] = "barrier"
        /\ pc' = [pc EXCEPT ![f] = "check"]
        /\ UNCHANGED rdbCompleted
     \/ /\ pc[f] = "barrierEof"
        /\ pc' = [pc EXCEPT ![f] = "done"]
        /\ rdbCompleted' = [rdbCompleted EXCEPT ![f] = TRUE]
  /\ UNCHANGED <<keys, pending, verified, barrierVars, envVars, errChan, ctxDone, started,
                 main, stop>>

\* What ends the stream for ParseNext: the EOF opcode, which the source sends
\* after STARTSTABLE or directly, or the end of the connection.
StreamEnded(f) ==
  \/ conn[f] = "fin"
  \/ /\ conn[f] = "up"
     /\ keys[f] = 0
     /\ f \in DirectEOF \/ (rdbCompleted[f] /\ started)

\* A fault: a FLOW that ends without FULLSYNC_END does not arrive.
EndOfStream_NoArrival(f) ==
  /\ pc[f] = "parse"
  /\ StreamEnded(f)
  /\ pc' = [pc EXCEPT ![f] = IF ~rdbCompleted[f] THEN "barrierEof"
                             ELSE IF f \in TokenFlows THEN "token" ELSE "done"]
  /\ UNCHANGED <<rdbCompleted, keys, pending, verified, barrierVars, envVars, errChan, ctxDone,
                 started, main, stop>>

\* A fault: nobody reads the token.
EndOfStream_NoToken(f) ==
  /\ pc[f] = "parse"
  /\ StreamEnded(f)
  /\ \/ /\ ~rdbCompleted[f]
        /\ Arrive(f, "first")
        /\ pc' = [pc EXCEPT ![f] = "barrierEof"]
     \/ /\ rdbCompleted[f]
        /\ pc' = [pc EXCEPT ![f] = "done"]
        /\ UNCHANGED barrierVars
  /\ UNCHANGED <<rdbCompleted, keys, pending, verified, envVars, errChan, ctxDone, started,
                 main, stop>>

\* ParseNext returns io.EOF.  A FLOW that never saw FULLSYNC_END arrives at the
\* barrier now; the others go on to their token.
EndOfStream(f) ==
  /\ pc[f] = "parse"
  /\ StreamEnded(f)
  /\ \/ /\ ~rdbCompleted[f]
        /\ Arrive(f, "first")
        /\ pc' = [pc EXCEPT ![f] = "barrierEof"]
     \/ /\ rdbCompleted[f]
        /\ pc' = [pc EXCEPT ![f] = IF f \in TokenFlows THEN "token" ELSE "done"]
        /\ UNCHANGED barrierVars
  /\ UNCHANGED <<rdbCompleted, keys, pending, verified, envVars, errChan, ctxDone, started,
                 main, stop>>

\* A fault: every error of ParseNext is taken for the end of the stream.
ReadError_AsEnd(f) ==
  /\ pc[f] = "parse"
  /\ conn[f] = "broken"
  /\ ~rdbCompleted[f]
  /\ Arrive(f, "first")
  /\ pc' = [pc EXCEPT ![f] = "barrierEof"]
  /\ UNCHANGED <<rdbCompleted, keys, pending, verified, envVars, errChan, ctxDone, started,
                 main, stop>>

\* Any other error of ParseNext ends the goroutine.
ReadError(f) ==
  /\ pc[f] = "parse"
  /\ conn[f] = "broken"
  /\ Fail(f)
  /\ UNCHANGED <<rdbCompleted, keys, pending, verified, barrierVars, envVars, ctxDone, started,
                 main, stop>>

\* The 40 bytes after EOF are read and compared.  A broken connection stands
\* for a mismatch as well: both are errors.
VerifyToken(f) ==
  /\ pc[f] = "token"
  /\ \/ /\ conn[f] = "up"
        /\ verified' = verified \cup {f}
        /\ pc' = [pc EXCEPT ![f] = "done"]
        /\ UNCHANGED errChan
     \/ /\ conn[f] # "up"
        /\ Fail(f)
        /\ UNCHANGED verified
  /\ UNCHANGED <<rdbCompleted, keys, pending, barrierVars, envVars, ctxDone, started, main, stop>>

\* The FLOW's writer settles entries on its own (AsyncSink).
Settle(f) ==
  /\ pending[f] > 0
  /\ pending' = [pending EXCEPT ![f] = @ - 1]
  /\ UNCHANGED <<pc, rdbCompleted, keys, verified, barrierVars, envVars, errChan, ctxDone,
                 started, main, stop>>

FlowStep(f) ==
  \/ ParseHeader(f)
  \/ CheckContext(f)
  \/ ReadEntry(f)
  \/ FullSyncEnd(f)
  \/ MarkerEntry(f)
  \/ LeaveBarrier(f)
  \/ EndOfStream(f)
  \/ ReadError(f)
  \/ VerifyToken(f)

-----------------------------------------------------------------------------
(* receiveSnapshot and sendStartStable *)

mainUnchanged == <<flowVars, barrierVars, conn, cuts, stop>>

\* The select: any case that is ready may be taken.  An error cancels the
\* context for the other FLOWs; nobody waits for them or for the writers.
Select ==
  /\ main = "select"
  /\ \/ /\ BarrierClosed
        /\ main' = "startstable"
        /\ UNCHANGED <<errChan, ctxDone>>
     \/ /\ \E f \in errChan : errChan' = errChan \ {f}
        /\ ctxDone' = TRUE
        /\ main' = "error"
     \/ /\ ctxDone
        /\ main' = "error"
        /\ UNCHANGED <<errChan, ctxDone>>
  /\ UNCHANGED <<mainUnchanged, started, breaks>>

\* sendStartStable fails at once when Stop has closed the main connection.
SendStartStable ==
  /\ main = "startstable"
  /\ \/ /\ stop # "closed"
        /\ started' = TRUE
        /\ main' = "reply"
     \/ /\ stop = "closed"
        /\ main' = "error"
        /\ UNCHANGED started
  /\ UNCHANGED <<mainUnchanged, errChan, ctxDone, breaks>>

\* The reply is OK, or the call fails: an error reply, a lost connection, the
\* timeout of 180 seconds.
StartStableReply ==
  /\ main = "reply"
  /\ \/ /\ main' = "drain"
        /\ UNCHANGED breaks
     \/ /\ breaks < MaxBreaks
        /\ breaks' = breaks + 1
        /\ main' = "error"
  /\ UNCHANGED <<mainUnchanged, errChan, ctxDone, started>>

\* A fault: the errors left in errChan are not looked at.
Drain_IgnoresErrors ==
  /\ main = "drain"
  /\ \A f \in Flows : pc[f] \in {"done", "failed"}
  /\ main' = "writers"
  /\ UNCHANGED <<mainUnchanged, errChan, ctxDone, started, breaks>>

\* wg.Wait, then the errors the select did not take.
Drain ==
  /\ main = "drain"
  /\ \A f \in Flows : pc[f] \in {"done", "failed"}
  /\ main' = IF errChan # {} THEN "error" ELSE "writers"
  /\ UNCHANGED <<mainUnchanged, errChan, ctxDone, started, breaks>>

\* Every writer is stopped, one after the other: Stop returns when the writer
\* holds nothing any more.
StopWriters ==
  /\ main = "writers"
  /\ \A f \in Flows : pending[f] = 0
  /\ main' = "ok"
  /\ UNCHANGED <<mainUnchanged, errChan, ctxDone, started, breaks>>

MainStep == Select \/ SendStartStable \/ StartStableReply \/ Drain \/ StopWriters

-----------------------------------------------------------------------------
(* Stop, and what the network does *)

\* Stop cancels the context (on a signal, or after a failure) ...
StopCancel ==
  /\ stop = "no"
  /\ stop' = "cancelled"
  /\ ctxDone' = TRUE
  /\ UNCHANGED <<flowVars, barrierVars, envVars, errChan, started, main>>

\* ... and closes the main connection, for which it needs the mutex that
\* STARTSTABLE holds until its reply, and the FLOW connections.
StopClose ==
  /\ stop = "cancelled"
  /\ main # "reply"
  /\ stop' = "closed"
  /\ conn' = [f \in Flows |-> "broken"]
  /\ UNCHANGED <<flowVars, barrierVars, breaks, cuts, errChan, ctxDone, started, main>>

Break(f) ==
  /\ conn[f] = "up"
  /\ breaks < MaxBreaks
  /\ breaks' = breaks + 1
  /\ conn' = [conn EXCEPT ![f] = "broken"]
  /\ UNCHANGED <<flowVars, barrierVars, cuts, errChan, ctxDone, started, main, stop>>

SourceCloses(f) ==
  /\ conn[f] = "up"
  /\ cuts < MaxCloses
  /\ cuts' = cuts + 1
  /\ conn' = [conn EXCEPT ![f] = "fin"]
  /\ UNCHANGED <<flowVars, barrierVars, breaks, errChan, ctxDone, started, main, stop>>

Next ==
  \/ \E f \in Flows : FlowStep(f) \/ Settle(f) \/ Break(f) \/ SourceCloses(f)
  \/ MainStep
  \/ StopCancel
  \/ StopClose

SafeSpec == Init /\ [][Next]_vars

\* Every goroutine is scheduled, the source keeps sending, the writers keep
\* settling (AsyncSink), STARTSTABLE times out at the latest, and a process
\* whose replication has failed calls Stop (runReplicate), which goes on to
\* close the connections.  No fault has to happen.
Spec ==
  /\ SafeSpec
  /\ \A f \in Flows : WF_vars(FlowStep(f)) /\ WF_vars(Settle(f))
  /\ WF_vars(MainStep)
  /\ WF_vars(StopCancel /\ main = "error")
  /\ WF_vars(StopClose)

-----------------------------------------------------------------------------
(* Properties *)

\* The stream of f has come to its end, as far as the goroutine can tell.
Ended(f) == rdbCompleted[f] \/ pc[f] \in {"barrierEof", "done"}

\* rdbCompletionBarrier is closed exactly when the counter has reached the
\* number of FLOWs, and only once, although a FLOW may count twice: closing a
\* closed channel would panic.
BarrierClosedOnce == closes = IF count >= numFlows THEN 1 ELSE 0

\* What the barrier guarantees in spite of the double count: when STARTSTABLE
\* is sent, the streams of at least half of the FLOWs have ended.
HalfEndedBeforeStable == started => 2 * Cardinality({f \in Flows : Ended(f)}) >= numFlows

\* "Ensures all FLOWs finish RDB static snapshot before we send STARTSTABLE":
\* when STARTSTABLE is sent no FLOW has snapshot entries left to read.
AllEndedBeforeStable == started => \A f \in Flows : Ended(f)

\* receiveSnapshot reports success only if every goroutine has returned
\* without an error and every writer has settled what it accepted.
SuccessMeansFlushed ==
  main = "ok" => /\ \A f \in Flows : pc[f] = "done" /\ pending[f] = 0
                 /\ errChan = {}

\* A successful full sync has read every entry of every snapshot: the end of a
\* stream is not mistaken for the end of the snapshot.
SuccessMeansComplete == main = "ok" => \A f \in Flows : keys[f] = 0

\* The end of a stream is mistaken for the end of the snapshot only if the
\* source closes a connection: broken connections, a Stop and a STARTSTABLE sent
\* too early never make receiveSnapshot report an incomplete snapshot as success.
CompleteUnlessCut == cuts = 0 => SuccessMeansComplete

\* "all tokens were already verified above": a successful full sync has compared
\* the EOF token of every FLOW whose FULLSYNC_END was handled.  (FLOWs that end
\* without FULLSYNC_END return before the comparison.)
TokensVerified ==
  main = "ok" => \A f \in TokenFlows : <<f, "again">> \in arrivals => f \in verified

\* receiveSnapshot returns, whichever connections break and whenever Stop is
\* called: the barrier is reached, or an error or the cancellation is seen.
Terminates == <>(main \in {"ok", "error"})
=============================================================================
