----------------------------- MODULE StateStore -----------------------------
(* The files a migration leaves for the dashboard and for an operator: the   *)
(* status file (internal/state), the metrics recorder that feeds it          *)
(* (internal/replica/metrics.go), and the checkpoint file                    *)
(* (internal/checkpoint).  Three goroutines of two processes: "main", which  *)
(* runs Start, "recorder", the loop of the metrics recorder, and "rollback", *)
(* the rollback command in a process of its own, with a mutex of its own.    *)
(* The process of main and recorder can be killed at any step and started    *)
(* again.                                                                    *)
EXTENDS Files, Sequences

CONSTANTS Program,    \* what Start records, in order
          MaxRestarts,\* bound: restarts of the replicate process
          MaxFaults   \* bound: writes and renames that fail

ASSUME StoreAssumption ==
  /\ Threads = {"main", "recorder", "rollback"}
  /\ Names = {"state", "state.tmp", "checkpoint", "checkpoint.tmp"}
  /\ None \notin Names \cup {Unlinked}
  /\ MaxRestarts \in Nat /\ MaxFaults \in Nat

\* A snapshot: the pipeline status, the stages of the FLOWs, two metrics.
Metrics == {"source", "saved"}
Keys == {"status", "flow"} \cup Metrics
Proc(t) == IF t = "rollback" THEN "rollback" ELSE "replicate"
Processes == {"replicate", "rollback"}

VARIABLES
  mu,       \* s.mu of each process: the holder
  pc,       \* where each goroutine is
  snap,     \* the snapshot each goroutine has loaded and changed
  upd,      \* the keys it has changed
  ip,       \* the next step of main's program
  rolled,   \* status updates the rollback command has made
  pending,  \* m.pending: the metrics not yet flushed, 0 for none
  batch,    \* the metrics the recorder has taken
  stopCh,   \* m.stopCh is closed
  final,    \* the recorder's flush is the one after the stop
  lsn,      \* the LSN main has replayed; it is what a checkpoint holds
  restarts,
  faults,
  acked,    \* history: what the last completed update of each key wrote, while it is compared
  savedLsn, \* history: the LSN of the last completed save
  shared,   \* history: both processes were in an update at the same time
  cut       \* history: an update completed while clearOldFlowStages held an older snapshot

threadVars == <<mu, pc, snap, upd>>
recVars == <<pending, batch, stopCh, final>>
history == <<acked, savedLsn, shared, cut>>
storeVars == <<fileVars, threadVars, recVars, ip, rolled, lsn, restarts, faults, history>>

Nobody == "none"
Empty == [k \in Keys |-> 0]
NoMetrics == [k \in Metrics |-> 0]

StoreInit ==
  /\ FilesInit
  /\ mu = [p \in Processes |-> Nobody]
  /\ pc = [t \in Threads |-> IF t = "recorder" THEN "select" ELSE "idle"]
  /\ snap = [t \in Threads |-> Empty]
  /\ ip = 1 /\ rolled = 0
  /\ upd = [t \in Threads |-> {}]
  /\ pending = NoMetrics /\ batch = NoMetrics /\ stopCh = FALSE /\ final = FALSE
  /\ lsn = 0 /\ restarts = 0 /\ faults = 0
  /\ acked = Empty /\ savedLsn = 0 /\ shared = FALSE /\ cut = FALSE

InUpdate(t) == pc[t] \in {"fill", "rename"}

-----------------------------------------------------------------------------
(* Store: load, change and write under the mutex                             *)

\* What the file gives: nothing yet, or a snapshot; else it does not parse.
Loaded == IF Exists("state") THEN Content("state") ELSE Empty
Parses == Exists("state") => Whole("state")

\* Where a goroutine goes on when its update has returned.
After(t) == IF t # "recorder" THEN "idle" ELSE IF final THEN "gone" ELSE "select"

\* write fills a temporary file first.
TempFile == "state.tmp"

\* A fault: the keys that were in the file are not kept.
Changed_NoLoad(keys, val) == [k \in Keys |-> IF k \in keys THEN val[k] ELSE 0]

\* The snapshot with the new values of keys.
Changed(keys, val) == [k \in Keys |-> IF k \in keys THEN val[k] ELSE Loaded[k]]

\* The deferred unlock runs when load returns an error, too.
LoadFails(t) ==
  /\ pc' = [pc EXCEPT ![t] = After(t)]
  /\ UNCHANGED <<mu, snap, upd, fileVars, shared>>

\* The mutex is taken, the file is read and changed, and the temporary file is
\* opened.
Update(t, keys, val) ==
  /\ mu[Proc(t)] = Nobody
  /\ \/ /\ Parses
        /\ mu' = [mu EXCEPT ![Proc(t)] = t]
        /\ snap' = [snap EXCEPT ![t] = Changed(keys, val)]
        /\ upd' = [upd EXCEPT ![t] = keys]
        /\ Create(t, TempFile)
        /\ pc' = [pc EXCEPT ![t] = "fill"]
        /\ shared' = (shared \/ \E u \in Threads : Proc(u) # Proc(t) /\ InUpdate(u))
     \/ ~Parses /\ LoadFails(t)

\* The update returns and the deferred unlock runs.
Unlock(t) ==
  /\ mu' = [mu EXCEPT ![Proc(t)] = Nobody]
  /\ pc' = [pc EXCEPT ![t] = After(t)]
  /\ snap' = [snap EXCEPT ![t] = Empty]
  /\ upd' = [upd EXCEPT ![t] = {}]

Fault == faults < MaxFaults /\ faults' = faults + 1

FillTemp(t) ==
  /\ pc[t] = "fill"
  /\ \/ Fill(t, snap[t]) /\ pc' = [pc EXCEPT ![t] = "rename"] /\ UNCHANGED <<mu, snap, upd, faults>>
     \/ FillFails(t) /\ Fault /\ Unlock(t)
  /\ UNCHANGED <<recVars, ip, rolled, lsn, restarts, history>>

\* os.Rename; it fails when the other process has renamed the file away.
Rename(t) ==
  /\ pc[t] = "rename"
  /\ Unlock(t)
  /\ \/ /\ Move(TempFile, "state")
        /\ cut' = (cut \/ \E u \in Threads : u # t /\ pc[u] = "clear")
        /\ acked' = IF shared \/ cut' THEN Empty
                    ELSE [k \in Keys |-> IF k \in upd[t] THEN snap[t][k] ELSE acked[k]]
     \/ /\ ~Exists(TempFile)
        /\ UNCHANGED <<fileVars, acked, cut>>
  /\ UNCHANGED <<recVars, ip, rolled, lsn, restarts, faults, savedLsn, shared>>

WriteStep(t) == FillTemp(t) \/ Rename(t)

-----------------------------------------------------------------------------
(* main: what Start records                                                  *)

\* What main writes tells its runs apart, and from the rollback command's 0.
Value == restarts + 1
Step(what) == pc["main"] = "idle" /\ ip <= Len(Program) /\ Program[ip] = what
NextStep == ip' = ip + 1

\* recordPipelineStatus and recordFlowStage; an error is only logged.
Record(key) ==
  /\ Step(key) /\ NextStep
  /\ Update("main", {key}, [k \in {key} |-> Value])
  /\ UNCHANGED <<recVars, rolled, lsn, restarts, faults, acked, savedLsn, cut>>

\* estimateSourceKeys leaves its result to the recorder.
SetSource ==
  /\ Step("source") /\ NextStep
  /\ pending' = [pending EXCEPT !["source"] = Value]
  /\ UNCHANGED <<fileVars, threadVars, batch, stopCh, final, rolled, lsn, restarts, faults, history>>

\* clearOldFlowStages loads the snapshot and lets the mutex go...
ClearLoad ==
  /\ Step("clear") /\ NextStep
  /\ mu["replicate"] = Nobody
  /\ IF Parses
     THEN /\ snap' = [snap EXCEPT !["main"] = [Loaded EXCEPT !["flow"] = 0]]
          /\ pc' = [pc EXCEPT !["main"] = "clear"]
     ELSE UNCHANGED <<snap, pc>>
  /\ UNCHANGED <<fileVars, mu, upd, recVars, rolled, lsn, restarts, faults, history>>

\* ... and takes it again to write what it has loaded.
ClearWrite ==
  /\ pc["main"] = "clear" /\ mu["replicate"] = Nobody
  /\ mu' = [mu EXCEPT !["replicate"] = "main"]
  /\ upd' = [upd EXCEPT !["main"] = {"flow"}]
  /\ Create("main", TempFile)
  /\ pc' = [pc EXCEPT !["main"] = "fill"]
  /\ shared' = (shared \/ InUpdate("rollback"))
  /\ UNCHANGED <<snap, recVars, ip, rolled, lsn, restarts, faults, acked, savedLsn, cut>>

\* The deferred Close of the recorder when Start returns.
CloseRecorder ==
  /\ Step("close") /\ NextStep
  /\ stopCh' = TRUE
  /\ UNCHANGED <<fileVars, threadVars, pending, batch, final, rolled, lsn, restarts, faults, history>>

-----------------------------------------------------------------------------
(* main: saveCheckpoint and Manager.Save                                     *)

\* A fault: the checkpoint is written in place.
CheckpointTemp_Direct == "checkpoint"

\* Save fills a temporary file first, too.
CheckpointTemp == "checkpoint.tmp"

\* More has been replayed since the last save; the temporary file is opened.
SaveCreate ==
  /\ Step("save")
  /\ lsn' = lsn + 1
  /\ Create("main", CheckpointTemp)
  /\ pc' = [pc EXCEPT !["main"] = "saveFill"]
  /\ UNCHANGED <<mu, snap, upd, recVars, ip, rolled, restarts, faults, history>>

Checkpoint == [Empty EXCEPT !["saved"] = lsn]

\* A fault: the save is reported before the rename.
SaveFill_SetsEarly ==
  /\ pc["main"] = "saveFill"
  /\ \/ Fill("main", Checkpoint) /\ pc' = [pc EXCEPT !["main"] = "saveRename"] /\ UNCHANGED <<ip, faults>>
        /\ pending' = [pending EXCEPT !["saved"] = lsn]
     \/ FillFails("main") /\ Fault /\ pc' = [pc EXCEPT !["main"] = "idle"] /\ NextStep /\ UNCHANGED pending
  /\ UNCHANGED <<mu, snap, upd, batch, stopCh, final, rolled, lsn, restarts, history>>

SaveFill ==
  /\ pc["main"] = "saveFill"
  /\ \/ Fill("main", Checkpoint) /\ pc' = [pc EXCEPT !["main"] = "saveRename"] /\ UNCHANGED <<ip, faults>>
     \/ FillFails("main") /\ Fault /\ pc' = [pc EXCEPT !["main"] = "idle"] /\ NextStep
  /\ UNCHANGED <<mu, snap, upd, recVars, rolled, lsn, restarts, history>>

\* The file is replaced, or the temporary one is removed.
SaveRename ==
  /\ pc["main"] = "saveRename"
  /\ \/ /\ Move(CheckpointTemp, "checkpoint")
        /\ savedLsn' = lsn
        /\ pc' = [pc EXCEPT !["main"] = "saveSet"]
        /\ UNCHANGED <<ip, faults>>
     \/ /\ Fault /\ Remove(CheckpointTemp)
        /\ pc' = [pc EXCEPT !["main"] = "idle"]
        /\ NextStep
        /\ UNCHANGED savedLsn
  /\ UNCHANGED <<mu, snap, upd, recVars, rolled, lsn, restarts, acked, shared, cut>>

\* The time of the save, here its LSN, is left to the recorder.
SaveSet ==
  /\ pc["main"] = "saveSet"
  /\ pending' = [pending EXCEPT !["saved"] = lsn]
  /\ pc' = [pc EXCEPT !["main"] = "idle"]
  /\ NextStep
  /\ UNCHANGED <<fileVars, mu, snap, upd, batch, stopCh, final, rolled, lsn, restarts, faults, history>>

Main ==
  \/ (\E key \in {"status", "flow"} : Record(key)) \/ SetSource \/ ClearLoad \/ ClearWrite \/ CloseRecorder
  \/ SaveCreate \/ SaveFill \/ SaveRename \/ SaveSet \/ WriteStep("main")

-----------------------------------------------------------------------------
(* The recorder's loop                                                       *)

\* A tick, or the closed stopCh; with nothing pending there is nothing to write.
TakeBatch ==
  /\ pc["recorder"] = "select"
  /\ \E stop \in {FALSE, stopCh} :
       /\ final' = stop
       /\ pending # NoMetrics \/ stop
       /\ pc' = [pc EXCEPT !["recorder"] = IF pending # NoMetrics THEN "flush" ELSE "gone"]
  /\ batch' = pending /\ pending' = NoMetrics
  /\ UNCHANGED <<fileVars, mu, snap, upd, stopCh, ip, rolled, lsn, restarts, faults, history>>

\* UpdateMetrics; an error is ignored and the batch is gone.
Flush ==
  /\ pc["recorder"] = "flush"
  /\ Update("recorder", {k \in Metrics : batch[k] # 0}, batch)
  /\ batch' = NoMetrics
  /\ UNCHANGED <<pending, stopCh, final, ip, rolled, lsn, restarts, faults, acked, savedLsn, cut>>

RecorderStep == TakeBatch \/ Flush \/ WriteStep("recorder")

-----------------------------------------------------------------------------
(* The rollback command, and the death of the replicate process              *)

Rollback ==
  /\ pc["rollback"] = "idle" /\ rolled < 2
  /\ rolled' = IF Parses THEN rolled + 1 ELSE 2
  /\ Update("rollback", {"status"}, [k \in {"status"} |-> 0])
  /\ UNCHANGED <<recVars, ip, lsn, restarts, faults, acked, savedLsn, cut>>

RollbackStep == Rollback \/ WriteStep("rollback")

\* The process is killed, or exits when main has returned; it may be started
\* again with the files as they are.
Kill ==
  /\ restarts < MaxRestarts
  /\ restarts' = restarts + 1
  /\ LET own == {t \in Threads : Proc(t) = "replicate"} IN
       /\ pc' = [t \in Threads |-> IF t \notin own THEN pc[t] ELSE IF t = "main" THEN "idle" ELSE "select"]
       /\ snap' = [t \in Threads |-> IF t \in own THEN Empty ELSE snap[t]]
       /\ upd' = [t \in Threads |-> IF t \in own THEN {} ELSE upd[t]]
       /\ open' = [t \in Threads |-> IF t \in own THEN None ELSE open[t]]
  /\ mu' = [mu EXCEPT !["replicate"] = Nobody]
  /\ ip' = 1
  /\ pending' = NoMetrics /\ batch' = NoMetrics /\ stopCh' = FALSE /\ final' = FALSE
  /\ UNCHANGED <<file, rolled, lsn, faults, history>>

StoreNext == Main \/ RecorderStep \/ RollbackStep \/ Kill

StoreSpec == StoreInit /\ [][StoreNext]_storeVars

-----------------------------------------------------------------------------
\* The checkpoint file is a whole checkpoint, the last one whose Save returned
\* without an error, wherever the process was killed (temporary file and
\* rename, checkpoint.go:84-93).
CheckpointSurvives ==
  IF Exists("checkpoint") THEN Whole("checkpoint") /\ Content("checkpoint")["saved"] = savedLsn
  ELSE savedLsn = 0

\* The status file parses at every moment, for the dashboard and the status
\* command and after a kill (state.go:109-114), and a completed update of a
\* status, a stage or a metric stays in it until the same key is written again:
\* s.mu covers the load and the write.  The exceptions are two processes in an
\* update at the same time, which share the name of the temporary file, and an
\* update that completes between the Load and the Write of clearOldFlowStages
\* (replicator.go:2291-2311).
NoLostUpdate == ~shared => Parses /\ (~cut => Loaded = acked)

\* The dashboard never shows a checkpoint that is not in the checkpoint file:
\* the metric is set after the rename, and kills do not reorder the two files.
SavedIsOnDisk == Parses => Loaded["saved"] <= savedLsn
=============================================================================
