----------------------------- MODULE FlowWriter -----------------------------
(***************************************************************************)
(* The asynchronous batch writer of one FLOW                               *)
(* (internal/replica/flow_writer.go, flow_writer_pipeline.go).             *)
(*                                                                         *)
(* The parser goroutine of the FLOW calls Enqueue; batchWriteLoop drains   *)
(* the channel into a batch and hands full batches, and whatever a timer   *)
(* tick finds, to asyncFlush; up to MaxConcurrentWrites goroutines run     *)
(* flushBatch at the same time; UpdateConfig may be called at any moment;  *)
(* receiveSnapshot calls Stop once the parser has returned.                *)
(*                                                                         *)
(* UpdateConfig is written for the dashboard's OnConfigUpdate callback,    *)
(* which no command of df2redis sets yet: MaxUpdates = 0 is the program as *)
(* it is wired, MaxUpdates > 0 the writer under the callback it offers.    *)
(*                                                                         *)
(* An entry is named by its position in the order Enqueue accepted it, so  *)
(* the channel holds the entries taken+1 .. received, the loop's batch     *)
(* holds flushed+1 .. taken, and a batch in flight is an interval lo .. hi.*)
(***************************************************************************)
EXTENDS Integers, FiniteSets

CONSTANTS
  MaxEntries,           \* how many entries the FLOW delivers (bound)
  ChannelBuffer,        \* capacity of entryChan (2,000,000 in the code)
  MaxConcurrentWrites,  \* capacity of writeSemaphore (20 .. 50 in the code)
  MaxPipelineSize,      \* maxPipelineSize of writeNodeBatch (500 in the code)
  Nodes,                \* addresses of the target's master nodes
  NoAddr,               \* MasterAddr's "" for a slot without a master
  MasterAddr,           \* MasterAddr[e]: the master of the slot of e's key
  Pipelined,            \* entries for which buildCommands returns commands
  InitialQPS,           \* cfg.Advanced when the writer is created
  InitialBatchSize,
  ConfigUpdates,        \* the <<qps, batchSize>> an operator may post
  MaxUpdates            \* how many times they do (bound)

Entries == 1 .. MaxEntries

ASSUME FlowWriterAssumption ==
  /\ MaxEntries \in Nat
  /\ ChannelBuffer \in Nat \ {0}
  /\ MaxConcurrentWrites \in Nat \ {0}
  /\ MaxPipelineSize \in Nat \ {0}
  /\ NoAddr \notin Nodes
  /\ MasterAddr \in [Entries -> Nodes \cup {NoAddr}]
  /\ Pipelined \subseteq Entries
  /\ InitialQPS \in Int
  /\ InitialBatchSize \in Nat \ {0}
  /\ ConfigUpdates \subseteq Int \X Int
  /\ MaxUpdates \in Nat

VARIABLES
  received,   \* entries accepted by Enqueue (stats.totalReceived)
  taken,      \* entries the loop has received from the channel
  flushed,    \* entries the loop has handed to a flush goroutine
  loop,       \* where batchWriteLoop is
  batches,    \* the batches in flight, one per flush goroutine
  fate,       \* what has become of each entry
  limited,    \* limiter.Limit() # rate.Inf
  burst,      \* the limiter's burst
  batchSize,  \* fw.batchSize
  update,     \* the UpdateConfig call that holds limiterMu, or NoUpdate
  sizing,     \* UpdateConfig calls past limiterMu, as <<call, batchSize>>
  updates,    \* UpdateConfig calls begun
  stop        \* "running", "closing" (Stop waits) or "stopped"

writerVars == <<received, taken, flushed, loop, batches, fate,
                limited, burst, batchSize, update, sizing, updates, stop>>

\* What UpdateConfig changes: the flush path only reads it.
configVars == <<limited, burst, batchSize, update, sizing, updates>>

NoUpdate == [held |-> FALSE, qps |-> 0, size |-> 0]

Fates == {"none", "written", "failed", "dropped", "skipped"}

LoopPlaces == {"select",       \* at the select statement
               "acquire",      \* in asyncFlush, waiting for the semaphore
               "acquireLast",  \* the same, for the flush before returning
               "exited"}

Batch == [lo : Entries, hi : Entries, stage : {"limit", "write"}, todo : SUBSET Entries]

\* Every variable has its type, and the two bounded resources of the writer,
\* the channel and the semaphore, never hold more than they can.
TypeOK ==
  /\ received \in 0 .. MaxEntries
  /\ taken \in 0 .. received
  /\ flushed \in 0 .. taken
  /\ received - taken <= ChannelBuffer
  /\ loop \in LoopPlaces
  /\ batches \subseteq Batch
  /\ IsFiniteSet(batches)
  /\ Cardinality(batches) <= MaxConcurrentWrites
  /\ fate \in [Entries -> Fates]
  /\ limited \in BOOLEAN
  /\ burst \in Int
  /\ batchSize \in Nat \ {0}
  /\ update \in [held : BOOLEAN, qps : Int, size : Int]
  /\ sizing \subseteq (1 .. MaxUpdates) \X Int
  /\ updates \in 0 .. MaxUpdates
  /\ stop \in {"running", "closing", "stopped"}
-----------------------------------------------------------------------------
\* NewFlowWriter, then UpdateConfig with the initial configuration, then Start.
\* ApplyDefaults has made the configured batch size positive.
Init ==
  /\ received = 0
  /\ taken = 0
  /\ flushed = 0
  /\ loop = "select"
  /\ batches = {}
  /\ fate = [e \in Entries |-> "none"]
  /\ limited = (InitialQPS > 0)
  /\ burst = IF InitialQPS > 0 THEN InitialBatchSize ELSE 0
  /\ batchSize = InitialBatchSize
  /\ update = NoUpdate
  /\ sizing = {}
  /\ updates = 0
  /\ stop = "running"

-----------------------------------------------------------------------------
(* The parser's side *)

\* Enqueue blocks while the channel is full.  receiveSnapshot stops the writer
\* only after the parser has returned, and the writer's context is cancelled
\* only at the end of Stop, so the ctx.Done() branch is never taken.
Enqueue ==
  /\ stop = "running"
  /\ received < MaxEntries
  /\ received - taken < ChannelBuffer
  /\ received' = received + 1
  /\ UNCHANGED <<taken, flushed, loop, batches, fate, configVars, stop>>

\* Stop closes the channel ...
Stop ==
  /\ stop = "running"
  /\ stop' = "closing"
  /\ UNCHANGED <<received, taken, flushed, loop, batches, fate, configVars>>

\* ... and waits for the loop and for every flush goroutine: fw.wg counts both.
StopReturns ==
  /\ stop = "closing"
  /\ loop = "exited"
  /\ batches = {}
  /\ stop' = "stopped"
  /\ UNCHANGED <<received, taken, flushed, loop, batches, fate, configVars>>

-----------------------------------------------------------------------------
(* batchWriteLoop *)

\* A fault: the batch is flushed one entry late.
Receive_OffByOne ==
  /\ loop = "select"
  /\ taken < received
  /\ taken' = taken + 1
  /\ loop' = IF taken' - flushed > batchSize THEN "acquire" ELSE "select"
  /\ UNCHANGED <<received, flushed, batches, fate, configVars, stop>>

\* The loop receives an entry and flushes when the batch has reached its size.
Receive ==
  /\ loop = "select"
  /\ taken < received
  /\ taken' = taken + 1
  /\ loop' = IF taken' - flushed >= batchSize THEN "acquire" ELSE "select"
  /\ UNCHANGED <<received, flushed, batches, fate, configVars, stop>>

\* A fault: the timer only flushes batches that are already full.
Tick_FullOnly ==
  /\ loop = "select"
  /\ taken - flushed >= batchSize
  /\ loop' = "acquire"
  /\ UNCHANGED <<received, taken, flushed, batches, fate, configVars, stop>>

\* The ticker flushes a batch that is not empty.
Tick ==
  /\ loop = "select"
  /\ taken > flushed
  /\ loop' = "acquire"
  /\ UNCHANGED <<received, taken, flushed, batches, fate, configVars, stop>>

\* A fault: the loop returns on a closed channel without its last flush.
ChannelClosed_NoFlush ==
  /\ loop = "select"
  /\ stop # "running"
  /\ taken = received
  /\ loop' = "exited"
  /\ UNCHANGED <<received, taken, flushed, batches, fate, configVars, stop>>

\* A closed channel delivers what it still holds; then the loop flushes the
\* rest of its batch and returns.
ChannelClosed ==
  /\ loop = "select"
  /\ stop # "running"
  /\ taken = received
  /\ loop' = IF taken > flushed THEN "acquireLast" ELSE "exited"
  /\ UNCHANGED <<received, taken, flushed, batches, fate, configVars, stop>>

\* A fault: the batch goes on being filled after it has been handed over.
AsyncFlush_KeepsBatch ==
  /\ loop \in {"acquire", "acquireLast"}
  /\ Cardinality(batches) < MaxConcurrentWrites
  /\ batches' = batches \cup {[lo |-> flushed + 1, hi |-> taken,
                               stage |-> "limit", todo |-> (flushed + 1) .. taken]}
  /\ flushed' = IF loop = "acquire" THEN taken - 1 ELSE taken
  /\ loop' = IF loop = "acquire" THEN "select" ELSE "exited"
  /\ UNCHANGED <<received, taken, fate, configVars, stop>>

\* asyncFlush takes a semaphore slot and starts the goroutine; the loop goes on
\* with a new batch or returns.
AsyncFlush ==
  /\ loop \in {"acquire", "acquireLast"}
  /\ Cardinality(batches) < MaxConcurrentWrites
  /\ batches' = batches \cup {[lo |-> flushed + 1, hi |-> taken,
                               stage |-> "limit", todo |-> (flushed + 1) .. taken]}
  /\ flushed' = taken
  /\ loop' = IF loop = "acquire" THEN "select" ELSE "exited"
  /\ UNCHANGED <<received, taken, fate, configVars, stop>>

-----------------------------------------------------------------------------
(* flushBatch, one goroutine per batch *)

Size(b) == b.hi - b.lo + 1

\* limiter.WaitN fails at once when asked for more tokens than the burst.
TooLarge(b) == limited /\ Size(b) > burst

\* WaitN fails: flushBatch returns, and with it the goroutine and its slot.
DropBatch(b) ==
  /\ b.stage = "limit"
  /\ TooLarge(b)
  /\ fate' = [e \in Entries |-> IF e \in b.todo THEN "dropped" ELSE fate[e]]
  /\ batches' = batches \ {b}
  /\ UNCHANGED <<received, taken, flushed, loop, configVars, stop>>

\* The tokens are granted and groupByNode sorts the batch by master, leaving
\* out the entries whose slot has none.
GroupBatch(b) ==
  LET unrouted == {e \in b.todo : MasterAddr[e] = NoAddr} IN
  /\ b.stage = "limit"
  /\ ~TooLarge(b)
  /\ fate' = [e \in Entries |-> IF e \in unrouted THEN "skipped" ELSE fate[e]]
  /\ batches' = (batches \ {b})
                  \cup {[b EXCEPT !.stage = "write", !.todo = b.todo \ unrouted]}
  /\ UNCHANGED <<received, taken, flushed, loop, configVars, stop>>

\* The next pipeline of a node's group: its first maxPipelineSize entries.
Chunk(b, n) ==
  LET group == {e \in b.todo : MasterAddr[e] = n} IN
  {e \in group : Cardinality({d \in group : d < e}) < MaxPipelineSize}

\* The entries buildCommands has commands for: all types but streams.
Sendable(chunk) == chunk \cap Pipelined

\* writeNodeBatch for one pipeline.  Without a client every entry fails; when
\* the pipeline succeeds every entry is written; when it fails, writeSequential
\* tries the entries one by one and any of them may fail.  Entries without
\* commands (streams) are passed over by both.
WriteChunk(b, n) ==
  LET chunk == Chunk(b, n)
      sendable == Sendable(chunk) IN
  /\ b.stage = "write"
  /\ chunk # {}
  /\ \E ok \in SUBSET sendable, client \in BOOLEAN :
        /\ ~client => ok = {}
        /\ fate' = [e \in Entries |->
                      CASE e \in ok -> "written"
                        [] e \in sendable \ ok -> "failed"
                        [] e \in chunk \ sendable -> IF client THEN "skipped" ELSE "failed"
                        [] OTHER -> fate[e]]
  /\ batches' = (batches \ {b}) \cup {[b EXCEPT !.todo = b.todo \ chunk]}
  /\ UNCHANGED <<received, taken, flushed, loop, configVars, stop>>

\* Every group is written: the goroutine releases its slot and leaves fw.wg.
BatchDone(b) ==
  /\ b.stage = "write"
  /\ b.todo = {}
  /\ batches' = batches \ {b}
  /\ UNCHANGED <<received, taken, flushed, loop, fate, configVars, stop>>

-----------------------------------------------------------------------------
(* UpdateConfig, as the dashboard's handler would call it: every request runs in
   a goroutine of its own; limiterMu covers the two limiter stores, but flushBatch does not hold it
   in WaitN, and the store to batchSize comes after it. *)

SetLimit(qps, size) ==
  /\ ~update.held
  /\ updates < MaxUpdates
  /\ limited' = (qps > 0)
  /\ update' = [held |-> TRUE, qps |-> qps, size |-> size]
  /\ updates' = updates + 1
  /\ UNCHANGED <<received, taken, flushed, loop, batches, fate, burst, batchSize,
                 sizing, stop>>

SetBurst ==
  /\ update.held
  /\ burst' = IF update.qps > 0 THEN update.size ELSE 0
  /\ sizing' = sizing \cup {<<updates, update.size>>}
  /\ update' = NoUpdate
  /\ UNCHANGED <<received, taken, flushed, loop, batches, fate, limited, batchSize,
                 updates, stop>>

SetBatchSize ==
  /\ \E u \in sizing :
        /\ batchSize' = IF u[2] > 0 THEN u[2] ELSE batchSize
        /\ sizing' = sizing \ {u}
  /\ UNCHANGED <<received, taken, flushed, loop, batches, fate, limited, burst,
                 update, updates, stop>>

-----------------------------------------------------------------------------
LoopStep == Receive \/ Tick \/ ChannelClosed \/ AsyncFlush

FlushStep == \E b \in batches :
               \/ DropBatch(b)
               \/ GroupBatch(b)
               \/ \E n \in Nodes : WriteChunk(b, n)
               \/ BatchDone(b)

UpdateConfig == \/ \E u \in ConfigUpdates : SetLimit(u[1], u[2])
                \/ SetBurst
                \/ SetBatchSize

Next == Enqueue \/ Stop \/ StopReturns \/ LoopStep \/ FlushStep \/ UpdateConfig

SafeSpec == Init /\ [][Next]_writerVars

\* The Go scheduler runs every runnable goroutine, the ticker keeps firing, the
\* limiter grants what it can grant and every command on the target times out:
\* the loop, the flushes and a Stop in progress make progress.  Nobody has to
\* enqueue, stop or reconfigure.
Spec ==
  /\ SafeSpec
  /\ WF_writerVars(LoopStep)
  /\ WF_writerVars(FlushStep)
  /\ WF_writerVars(StopReturns)
-----------------------------------------------------------------------------
(* Properties *)

Queued == (flushed + 1) .. received

InFlight == UNION {b.todo : b \in batches}

Settled == {e \in Entries : fate[e] # "none"}

\* Every entry Enqueue has accepted is in exactly one place: still queued (in
\* the channel or in the loop's batch), in exactly one flush goroutine, or
\* settled.  Handing a batch over, chunking it and losing it to the limiter
\* neither forget an entry nor write it from two goroutines.
Conservation ==
  /\ Settled \cap (Queued \cup InFlight) = {}
  /\ Queued \cap InFlight = {}
  /\ Settled \cup Queued \cup InFlight = 1 .. received
  /\ \A b, c \in batches : b # c => (b.lo .. b.hi) \cap (c.lo .. c.hi) = {}

\* When Stop has returned, nothing is left behind: neither in the channel nor
\* in the batch nor in a flush goroutine (fw.wg covers all of them).
StopLeavesNothing == stop = "stopped" => Settled = 1 .. received

\* "Shutdown complete, all data flushed": with the configuration it was started
\* with, whatever its rate and batch size, the writer loses no entry to its own
\* limiter.  A batch never outgrows the burst until UpdateConfig changes one of
\* them before the other.
NoDropUnlessReconfigured ==
  updates = 0 => \A e \in Entries : fate[e] # "dropped"

\* A settled entry is never touched again: no second goroutine, chunk or retry
\* changes what has become of it.
FateIsFinal ==
  [][\A e \in Entries : fate[e] # "none" => fate'[e] = fate[e]]_writerVars

\* Every accepted entry is eventually settled, whatever the load, the limiter
\* and the operator do, and whether or not more entries or Stop ever come: the
\* ticker flushes a batch that never fills.
EntriesSettle ==
  \A e \in Entries : (e <= received) ~> (fate[e] # "none")

\* What receiveSnapshot relies on (module AsyncSink): everything accepted is
\* settled before the writer reports that it has stopped.
Sink == INSTANCE AsyncSink WITH
          accepted <- received,
          settled <- Settled,
          phase <- stop

ImplementsSink == Sink!SinkSpec
=============================================================================
