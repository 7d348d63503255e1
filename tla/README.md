# A TLA+ model of df2redis

df2redis makes itself a replica of a Dragonfly server and writes what it receives to a
Redis server or cluster: first a snapshot, over several FLOW connections in parallel (full
sync), then the journal (stable sync). This directory holds TLA+ modules for the concurrent
core of that program, TLC configurations that check them on small instances, and TLAPS
proofs of the safety properties for all instances. `PROJECT.json` lists components, runs,
the source lines every definition models, findings, hazards and theorems.

## The system and its parts

| Part | Source (`src/internal/`) | Model |
|---|---|---|
| Life cycle: handshake, FLOWs, phases, `Stop`, the commands that run them | `replica/replicator.go` `Start`, `Stop`; `cli/cli.go` | `Replicator` |
| Full sync: FLOW goroutines, barrier, STARTSTABLE, tokens | `replica/replicator.go` `receiveSnapshot` | `FullSync` |
| Asynchronous batch writer, one per FLOW | `replica/flow_writer.go`, `flow_writer_pipeline.go` | `FlowWriter`, promise: `AsyncSink` |
| Snapshot parser and inline journal | `replica/rdb_parser.go`, `replicator.go` | `InlineJournal` (extends `FlowWriter`) |
| Decoding of values | `replica/rdb_string.go`, `rdb_complex.go` | `RdbValues` |
| Stable sync: readers, replay, ACKs, checkpoints | `replica/replicator.go` `receiveJournal`, `journal.go` | `JournalSync` |
| RESP client | `redisx/client.go` | `RespClient` |
| Writing a batch over a shared connection | `replica/flow_writer.go` `writeNodeBatch`, `writeSequential` | `NodeBatch` (extends `RespClient`) |
| Cluster routing | `redisx/cluster_client.go` | dialling in `Replicator`, grouping in `FlowWriter` |
| Status file, metrics recorder, checkpoint file | `state/`, `replica/metrics.go`, `checkpoint/` | `StateStore` over `Files` |
| Consistency checker | `checker/` | `Checker` |
| Dashboard | `web/` | the validation task in `CheckTask` |
| Configuration, logger, counters | `config/`, `logger/`, others | not modelled |

`Start` connects to the source, registers the FLOWs, connects to the target and runs the two
stream phases; `Stop` runs beside it and takes no lock. In the snapshot phase one goroutine
per FLOW parses its stream. Snapshot entries go to the FLOW's writer, which batches them and
writes them from up to 50 goroutines; journal commands found in the stream are applied at
once. The goroutines meet at a barrier, the replicator sends STARTSTABLE, waits for them and
stops the writers. In the journal phase one reader per FLOW sends records to one bounded
channel, the replicator replays them, and one heartbeat per FLOW acknowledges positions to the
source.

## Modules

**`AsyncSink`** is what `receiveSnapshot` needs from a writer: accepted entries are settled
(written, failed or given up) once each, and Stop returns only when none is outstanding.

**`FlowWriter`** is the writer in detail. Entries are numbered in the order Enqueue accepted
them, so that the channel, the loop's batch and each batch in flight are intervals
(`received`, `taken`, `flushed`, `lo .. hi`). Actions: `Enqueue`, `Stop`, `StopReturns` (the
callers); `Receive`, `Tick`, `ChannelClosed`, `AsyncFlush` (`batchWriteLoop`); `DropBatch`,
`GroupBatch`, `WriteChunk`, `BatchDone` (`flushBatch`, `writeNodeBatch`, in each flush
goroutine); `SetLimit`, `SetBurst`, `SetBatchSize` (`UpdateConfig`, three stores that others
can see between). The context of the writer is cancelled only at the end of Stop, so the
branches that wait for it are dead and are left out. `UpdateConfig` is written for the
dashboard's `OnConfigUpdate`, which no command sets yet: `MaxUpdates = 0` is df2redis as it
is wired today, `MaxUpdates > 0` the writer under the callback it offers.

**`FullSync`** is `receiveSnapshot` with one goroutine per FLOW (`pc[f]`), the counter and
the channel of the barrier (`count`, `closes`; `arrivals` is a history of who counted), the
error channel, STARTSTABLE, and the part of `Stop` that meets them. A writer is the number
of entries it still holds (`pending`), as `AsyncSink` allows. A stream is its entries,
FULLSYNC_END, and, after STARTSTABLE, EOF and a token; FLOWs in `DirectEOF` end without
FULLSYNC_END. Journal blobs after FULLSYNC_END change nothing the module tells apart.
Connections break (`Break`) or are closed by the source (`SourceCloses`, external).

**`InlineJournal`** composes one FLOW's parser with its `FlowWriter`. The stream is a
sequence of items, one per opcode: expiries, entries with their encoded bytes, opcodes that
are read over, journal blobs, and compressed blobs, whose items follow them (`inner` of them
are still to be read, then the end mark). `cut` is where the connection is lost, `part` how
many bytes of the item there still arrived (-1: none). The source sends one entry of a key,
and the entry and the commands of a key in the order of their versions. `ParseValue`, what
the decoders make of bytes, is a constant, which the runs give the decoders of `RdbValues`.
The field `at` of an entry is history: its place in the stream.
`OpenBlob` and `CloseBlob` switch the reader as `handleLZ4Blob` and `handleLZ4BlobEnd` do;
`ReadExpiry`, `ReadOver`, `SkipExpired`, `ParseEntry`, `BadEntry`, `ReadJournal` are the
branches of `ParseNext`; `TornFails`, `TornJournal` and `StreamEnds` the ways it ends.
`ApplyInline` changes the target at once, `FlushToTarget` when the writer gets to an entry.

**`RdbValues`** has the decoders as operators on sequences of bytes, in the shape of the Go
functions: lengths, strings (integer-encoded ones too), listpacks, ziplists, intsets and the
hashes, lists, sets and sorted sets made of them. `MCInlineJournal` holds the other
direction, the source's encoders, written from the formats; a run decodes what they encode.

**`JournalSync`** is stable sync. A record is an opcode with the source's position after
it. Readers (`CheckContext`, `ReadRecord`, `ReadFails`, `Send`), heartbeats (`Tick`,
`KeepAlive`, `SendAck`, `HeartbeatReturns`), the main loop (`Receive`, `Replay`,
`HandleError`, `Finish`) and `Stop` (`StopCancel`, `StopHalfClose`, `StopClose`) interleave.
SELECT is merged into the record after it, as `JournalReader` does.

**`RespClient`** is one connection and the goroutines that share it. A command connection
carries calls (`Begin`, `WriteCommands`, `ReadReply` and the failures), kept apart by the
mutex; bytes are abstracted to the commands whose replies nobody has taken. A stream
connection carries one goroutine in `Read`, one in `Write`, and `Stop` in `CloseWrite` and
`Close`. **`NodeBatch`** adds what flush goroutines do with it: a pipeline, and after a
failure every entry again with `Do`; and what the target executes.

**`Files`** (external) is a file system with truncating opens, writes that can fail half way,
and renames. **`StateStore`** runs three goroutines of two processes over it: `main` (what
`Start` records, `clearOldFlowStages`, checkpoints), the metrics recorder, and the rollback
command. `Kill` ends the first process at any step; it is started again.

**`Checker`** is a check: the scanner (`ScanKey`, `ScanEnds`), the channel, workers that take
batches and compare types, strings, lengths and other values over pipelines that can fail, and
`Return`. The groups a worker makes of its batch (`strings`, `others`) are positions in it,
since SCAN may return a key twice. **`CheckTask`** is the dashboard's task around it:
`handleCheckStart`, `handleCheckStop`, the task's goroutine, and the goroutine that copies
progress reports.

**`Replicator`** is `Start` call by call up to the stream phases (which are one step here,
that succeeds or fails, and have modules of their own), `Stop` with its loops over
`flowConns`, and the `select` of the migrate and replicate commands.

Operators named `X_Something` just before a definition `X` are variants of it with a fault; no
specification uses them. Each shows that a property would notice such a bug.

## What the runs check

| Run | Properties | Result |
|---|---|---|
| `writer` | `Conservation`, `NoDropUnlessReconfigured` | no entry is forgotten or written by two goroutines; the limiter refuses no batch under the configuration it was started with |
| | `ImplementsSink`, `EntriesSettle` | the writer implements `AsyncSink` (Stop returns, with nothing left), every entry is settled |
| `fullsync` | `BarrierClosedOnce`, `HalfEndedBeforeStable` | the barrier never panics and holds back STARTSTABLE until half of the FLOWs have ended |
| | `SuccessMeansFlushed`, `CompleteUnlessCut`, `TokensVerified` | success is a flushed snapshot with verified tokens, and a complete one unless the source closed a connection |
| | `Terminates` | `receiveSnapshot` returns, whatever breaks |
| `inline_races` | `EntriesAsSent`, `ValuesAsSent` | the parser keeps to the source's entries, expiries and values, through blobs and up to where the connection is lost |
| | `OnlyRacesAreStale` | a stale key was overtaken inside the writer |
| `journal_flow` | `AckMonotone`, `AckLeadsByMarkers` | ACKs never go back, and lead by no more than the markers read |
| | `RecordsReplayed`, `AckDelivered`, `StopReturns` | records are replayed, counts acknowledged, Stop's wait ends |
| `journal_flows` | `CheckpointCovered`, `ReplayInOrder`, `FinalCoversRead` | FLOWs are replayed in order; no checkpoint is ahead, and the final one leaves nothing out that was read |
| `node_batch` | `ReplyOffset` | a call reads its own replies, behind what earlier calls left on the connection |
| | `ReportedApplied`, `TwiceOnlyAfterFailure` | what is counted as written was executed unless replies were out of step; a command runs twice only after a failed pipeline |
| | `CloseReleases` | Close gets the mutex, and a reader blocked in Read is released |
| `state_files` | `CheckpointSurvives`, `SavedIsOnDisk` | the checkpoint file is the last one saved, wherever the process is killed, and the status file announces no other |
| | `NoLostUpdate` | the status file parses, and completed updates stay in it |
| `checker` | `CleanMeansSame`, `NoFalseAlarm` | without failed calls every key gets a verdict; a clean result in the modes full and length keeps what the repository says of the mode; what is reported differs |
| | `OneBatchPerFault`, `RunReturns` | a failed call costs at most one batch of verdicts; Run returns in any case |
| `check_task` | `OneTaskPerStop`, `ResultStays`, `Settles` | how many validations can run at once, when a result stays on the page, and that all tasks end |
| `lifecycle` | `SyncAfterRegistration`, `NoStreamLeftOpen`, `GracefulStop` | DFLY SYNC comes after all FLOWs; Stop reaches every stream, and half-closes it first |
| | `FinalStatus`, `ProcessEnds` | the status file tells how it ended; a signal or an error ends the process |

Where the code disagrees with its own comments, a run is expected to find a counterexample;
`findings` in `PROJECT.json` quotes the line.

| Run | What the code does |
|---|---|
| `fullsync_early` | every FLOW counts twice, so STARTSTABLE is sent after half of them |
| `inline_stale` | an older queued entry overwrites a newer inline command |

Conditions in the passing properties mark weaker spots of the code:

* `NoDropUnlessReconfigured`: `UpdateConfig` may leave a batch larger than the limiter's
  burst, and `flushBatch` drops such a batch. No command calls `UpdateConfig` yet.
* `CompleteUnlessCut`: a connection the source closes in mid-snapshot is a regular end.
  `TokensVerified` speaks of FLOWs with a FULLSYNC_END: the branch for a stream that ends
  without one returns before the comparison.
* `EntriesAsSent`: `readString` drops its error, so that an entry cut short by a lost
  connection can be handed over with an empty key, value or listpack; it is the last one.
* `ValuesAsSent`: the immediate 0 of a ziplist (`0xF1`) is taken for a 24-bit integer
  (`rdb_complex.go:376`), which misreads the rest or indexes out of range. The encoded values
  include no list of type 14, whose nodes are ziplists without a container number:
  `parseList` sends that type through `parseListQuicklist2` (`rdb_complex.go:95`), the decoder
  of type 18, which takes the length of a node's ziplist for the container and loses its place
  in the stream. `OldListLosesTheFrame` in `MCInlineJournal` shows it for a list with one
  node. Dragonfly sends type 18 (`docs/en/research/dragonfly-stream-rdb-format.md:17`).
* `Conservation` counts an entry without commands as settled: a stream value is passed over,
  although `flow_writer_pipeline.go:76` speaks of a fallback. `writeNodeBatch` counts
  commands, so such an entry is in no statistic.
* `AckLeadsByMarkers`: a marker that is not ahead is counted as an operation, which a
  Dragonfly replica does not do. ACKs are counted before the replay.
* `FinalCoversRead` is about a `receiveJournal` that returns without an error. A Stop that
  finds readers blocked in a read takes the error path, without a final checkpoint.
* `ReplyOffset`, `ReportedApplied`: after a timeout or an error reply in a pipeline the
  connection stays in use with replies unread, and later calls take them for their own.
* `NoLostUpdate`: two processes share the temporary file's name, and `clearOldFlowStages`
  loads and writes in two critical sections.
* `CleanMeansSame` and `NoFalseAlarm` hold the result against what the repository says a mode
  compares (`Documented`), and say for which types the code does that (`Kept`). For two modes
  it is none: only full and length go on to values (`checker.go:276`), so that a clean check in
  outline or smart has compared types. `checker.go:21` says "type, ttl, existence" of outline,
  and no mode reads a TTL; `docs/zh/guides/data-validation.md:11` and 235-239 add lengths. Line
  13 and 274-280 describe smart, the mode of the check after a migrate, as comparing lengths of
  big keys and full values of the others. Mode full compares streams by their lengths and
  passes over types it does not know, although line 10 has it compare all fields and values.
  Mode length reports more than it says: `checker.go:23` has "value length comparison", and
  line 12 "only the length", but equal lengths are followed by the values.
* `OneBatchPerFault`: a pipeline that fails is only logged and its keys are in no verdict, and
  a SCAN that fails ends the scan like its last page: a check may succeed with keys nobody
  compared. The property says how many.
* `OneTaskPerStop`: a stopped validation goes on beside the next one, and clears its flag.
* `FinalStatus`: "stopped" overwrites "error". `ProcessEnds`: a replicate whose `Start`
  returns without an error waits for a signal. `GracefulStop` is about runs with a `Stop`;
  migrate exits after an error without one, against the comment at `cli.go:552`.
* `Terminates` and `StopReturns` are about the main goroutine. A FLOW goroutine at the
  barrier after another FLOW has failed, and a reader blocked on the full channel after
  `receiveJournal` has returned, stay until the process ends.

### Bounds

* `writer`: four entries, a channel of 2, two flush goroutines, batches of 2, pipelines of
  1, two nodes, one update, an unrouted slot and a stream. The channel and the semaphore
  fill up, a batch needs two pipelines, and batches are flushed full, by the ticker and at
  Stop. One update is enough for a batch to be collected under one configuration and flushed
  under another; the proofs cover any number.
* `fullsync`: three FLOWs, one entry on two of them, the third without FULLSYNC_END, one
  break and one close. Three FLOWs make the half of the barrier different from one FLOW and
  from all of them; each fault can happen before, at and after the barrier.
  `fullsync_early` needs two FLOWs.
* `inline_*`: three keys and at most three entries. Six streams put commands before and after
  the entry of their key, inside and outside of compressed blobs, with and without expiries;
  one stream per encoding holds its boundary values (integers at the ends of 6 to 32 bits,
  texts around 63, 127 and 254 bytes). The connection is lost at any item,
  with one of six numbers of its bytes received. The clock stands still.
* `journal_flow`: one FLOW, journals of up to four records (markers ahead of the count,
  equal to it and behind it, a ping, an expiry, a rejected opcode), a channel of 1, one
  fault. `journal_flows`: two FLOWs with two records, so that both readers compete for a
  full channel of 1; one fault.
* `node_batch`: two goroutines with an entry of two commands and an entry of one, and one
  chunk on a stream connection: enough for a reply left by one call to meet the other.
  Batches of several entries are left to the proofs.
* `state_files`: one restart and one failing write or rename, two updates by the rollback
  command; every step of one process meets every step of the other.
* `checker`: two keys, two workers, a channel of 1, batches of 2, chunks of 2, eleven kinds
  of equal and different values, one failing call, one key that SCAN returns twice.
* `check_task`: three tasks, two stops, a channel of 2: a stopped task can end during the
  next one and during the one after it.
* `lifecycle`: up to three FLOWs, two seeds, two failing calls, both commands; Stop can find
  none, some or all of the FLOWs stored.

Symmetry is used only in `journal_flows`, among FLOWs with equal journals and without
liveness; in `checker` the items are given in one order instead. Deadlock is not checked:
every one of these components is meant to stop.

### Fairness

All fairness is weak, on steps the runtime or a timer makes happen: goroutines that can run,
the ticker and the limiter (`FlowWriter`), the source that sends what it has (`FullSync`,
`JournalSync`), calls with a deadline (`RespClient`, `Checker`, `Replicator`), the
180-second limit of STARTSTABLE, and a `Stop` that has begun. `FullSync` also assumes that a
failed replication is followed by `Stop`, which `runReplicate` does (`runMigrate` exits
instead). `CheckTask` assumes that the check returns, which is `RunReturns` of `Checker`.
Nothing is assumed about callers that enqueue, stop, reconfigure or close, about requests to
the dashboard, signals and kills, about a server's answers, nor about faults. In
`Replicator` the stream phases may go on for ever. `KeepAlive` has no fairness: nothing
depends on it. `InlineJournal` and `StateStore` have none: their properties are safety.

## What is proved

Eight modules hold theorems, for every value of the constants, from the named assumptions of
the modules (finite non-empty sets of FLOWs, positive capacities, journals numbered the way
the source numbers them, batches whose commands are in the order of their entries, streams
that end with their EOF and hold one entry of a key and its versions in order). The inductive
invariants were model-checked on the instances of the runs.

* **Writer** (`FlowWriterProofs`). `Conservation` is not inductive: it does not say why two
  batches cannot meet or why the last flush has happened. `IndInv` adds that batches in flight
  are disjoint intervals below `flushed`, that an entry handed over is unsettled exactly while
  a goroutine has it to do, and what the loop's place says about Stop. `WriterConserves`,
  `StopIsComplete` (when Stop has returned everything is settled), `FateNeverChanges` (a
  settled entry is not touched again) follow; `WriterTypeOK` (channel and semaphore within
  their bounds) is at the end of `InlineProofs`, as counting the flush goroutines takes the
  theorems on finite sets, which nothing else there uses. `WriterImplementsSink` is the step
  simulation of `AsyncSink` (safety). `StaticWriterFlushesAll` adds that, until the first
  update, the burst is the batch size and no batch is larger.
* **One FLOW, parser and writer** (`InlineProofs`, over `FlowWriterProofs`).
  The steps of the parser leave the writer alone or are steps of it (`WriterStep`), so that
  `IndInv` can be used here. `FlowInv` adds where the parser is: a blob it reads has arrived
  whole and still has its end mark, the expiry it holds is the one sent since the last entry,
  and what is left of a JOURNAL_BLOB is the tail of the item just read.
  `ParserKeepsToSource` is a conjunct of it. For staleness it says of a key that was
  not overtaken and has lost nothing (`Unharmed`) that the target has the newest of what was
  written and applied so far, and that no command was applied after an entry of the key which
  is still in the writer (`Fresh`). When the writer has stopped, everything that arrived was
  written or applied: `OnlyOvertakenKeysAreStale`. Streams, losses and batches are arbitrary,
  and so is `ParseValue`: nothing here depends on what the decoders compute.
* **Full sync** (`FullSyncProofs`). `IndInv` says that only FLOWs whose stream has ended
  arrive and at most on two occasions each, which gives `BarrierNeverPanics` and, by counting
  pairs, `HalfBarrier`; and that until a failure every error is still in `errChan`, which
  gives `SuccessIsFlushed`. `SuccessIsComplete` adds that a stream that ended while nothing
  was closed has been read to its last entry, `MarkedFlowsVerified` that a FLOW past its
  marker can only return through its token. `FullSyncTypeOK` bounds counter and `errChan`.
* **Journal** (`JournalSyncProofs`). `JournalTypeOK` is the type invariant, in parts.
  `QueueInv` says that the shared channel holds, per FLOW, exactly the records sent and not
  taken, in order (`ReplayedInOrder`); with `LSNsCovered`, that known LSNs have been replayed
  (`CheckpointIsCovered`). `FinalCheckpointCoversRead` adds that an empty channel whose
  readers have all returned has delivered everything. `AckInv` says that the value in a
  heartbeat's hands lies between the last one sent and the ACK state (`AcksNeverRegress`);
  `AckLeadIsBounded` counts the markers along the way the source numbers its journal.
* **RESP client** (`RespClientProofs`). `RespInv` says who holds the mutex, that a call has
  written everything before it reads, and that between two calls the connection holds just
  what was left behind; `RepliesInStep` follows for any callers and commands.
* **Batches over that client** (`RespClientProofs`, second part). Neither property of
  `NodeBatch` is inductive: what a goroutine reports rests on replies it took several steps
  earlier. `BatchInv` adds that a call is the one its stage made (`CallOfStage`), that a
  command which was answered, and not with an error, has been executed (`Answered`), that a
  goroutine whose calls found nothing unread has seen only such answers to its own commands
  (`SeenApplied`), and that a command waits on the line at no more places than it was written
  and not yet executed (`Paid`). `ReportsAreTrue` and `NeverThrice` follow for any number of
  goroutines and any batches: the run has one small batch for each of two goroutines.
* **Status and checkpoint files** (`DashboardProofs`, first part). `SaveInv` says what the
  checkpoint file and its temporary file hold at each step of `Save` (`CheckpointKept`),
  `SavedInv` that no LSN on its way into the status file, in the recorder, in a snapshot or in
  a file, is ahead of the checkpoint (`SavedOnDisk`). `UpdateInv` says that the mutex gives
  the temporary file to one update at a time, whose snapshot agrees with what was acknowledged
  on all keys it does not change (`UpdatesKept`). The goroutines and file names are those of
  the program; the steps of main, restarts and faults are not bounded.
* **Validation task** (`DashboardProofs`, second part). `TaskInv` counts live tasks against
  stops and the flag: `ValidationsBounded`. `ResultInv` says that without a stop the tasks
  before the newest are gone, and that the result stands from the moment the newest has stored
  it: `ResultSurvives`.
* **Consistency check** (`CheckerProofs`). The result is three counters and a set of reports,
  so that a clean result says nothing of a key by itself. `CheckInv` counts (`Counted`): a key
  that was sent is in the channel, in a batch or in the total, a key of the total waits for its
  verdict or is in one of the two, and what is missing is at most a batch for each failed call.
  This gives `FaultsAreBounded`, for any number of failed calls. As long as no call has failed,
  a key that was scanned is under way, reported, or the same on both sides as far as the code
  compares in its mode (`Judged`, `Differs`). `Holds` says what a worker has at each of its
  places. With the lemmas on the comparison in chunks (`ChunksCover`: the chunks of two lists
  agree only if the lists do) and on what the code's comparison implies of what the mode is
  said to compare (`KeptPromise`) this gives `CleanIsClean` and `AlarmsAreTrue`, for any keys,
  values, workers, batch, channel and chunk sizes and any number of repeated keys.
* **Life cycle** (`ReplicatorProofs`). `LifeInv` says what `Start` has registered and stored
  at each of its places, and that it passes the dial of the target only with a context that
  was not canceled, so that the loops of `Stop` find all FLOWs: `SyncNeedsAllFlows`,
  `StopReachesStreams`. `Outcome` follows the result of Start through the error channel and
  the status record to the exit of the command (`StatusTellsEnd`); `FinFirst` says how far
  each of the two loops of Stop has come with the connections stored before the context was
  canceled (`FinBeforeClose`).

Only model-checked: liveness (`EntriesSettle`, the fairness part of `ImplementsSink`,
`Terminates`, `RecordsReplayed`, `AckDelivered`, `StopReturns`, `CloseReleases`,
`RunReturns`, `Settles`, `ProcessEnds`), which the prover does not handle, and
`ValuesAsSent`, which compares what the recursive decoders compute with what was encoded and
would need induction over the bytes (TLC's integers have 32 bits, so that 64-bit encodings
are checked for values that fit).

## Not modelled

* Parser: stream values (types 15, 19 and 21), the header, auxiliary fields, the rule for an
  EOF token without its opcode (`rdb_parser.go:110`; the models' streams send the opcode, as
  Dragonfly does), and LZF, LZ4 and ZSTD, which are libraries. Database numbers: the replay
  ignores them. Scores are integers here; the code sends them with `%f`, which keeps six
  decimals.
* Journal decoder: packed integers and the layout of a payload.
* Cluster: CRC16, hash tags, the parsing of CLUSTER replies. The slot map does not change
  after dialling and no MOVED reply is followed, in the code as in the models. `internal/cluster`
  and `internal/consistency` are imported by nothing.
* Checker: throttle and result file; data that changes during a check, except a key that is
  gone. Its connections are assumed to answer in step (`RespClient` shows when they do not).
* Power failures: the files are not synced, so that only kills are covered. The metrics
  recorder's last flush is modelled; nothing in the code waits for it.
* Statistics, logs, charts, dashboard pages, configuration and flag parsing: sequential
  set-up and output, without state another part depends on.
* Code that no path calls: `checkKeyConflict` and `writeRDBEntry` (the conflict policies are
  therefore not consulted, although the repository's README names them), `verifyEofTokens`,
  `calculateSlot` of the writer, `Load` and `Delete` of the checkpoint manager,
  `SaveCheckResult`, `RawRead`.
