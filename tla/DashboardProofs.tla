-------------------------- MODULE DashboardProofs --------------------------
(* What the dashboard shows and runs: the files a migration leaves for it    *)
(* (StateStore) and its validation task (CheckTask).                         *)
(*                                                                           *)
(* The files survive, for any program of main, any number of restarts and    *)
(* any number of writes and renames that fail.  Three inductive invariants   *)
(* over a common type: what stands in the checkpoint file and its temporary  *)
(* file at each step of a save (SaveInv), that no LSN anywhere on its way    *)
(* into the status file is ahead of the checkpoint file (SavedInv), and what *)
(* the mutex keeps together: one update at a time owns the temporary file,   *)
(* and its snapshot agrees with the file on all it does not change           *)
(* (UpdateInv).                                                              *)
(*                                                                           *)
(* The safety of the validation task, for any number of tasks, stops and     *)
(* buffered reports.  The bound: the difference between the live tasks and   *)
(* the stop requests is paid for by the flag.  A start raises both, a stop   *)
(* trades the flag for a stop, and a deferred function lowers the live tasks *)
(* along with the flag, even when the flag is that of another task.  The     *)
(* result: without a stop the flag keeps the tasks apart.                    *)
EXTENDS StateStore, CheckTask, TLAPS

Snapshots == [Keys -> Nat]
FileStates == {Absent, Partial} \cup [is : {"whole"}, val : Snapshots]
Places == {"idle", "select", "flush", "gone", "clear", "fill", "rename",
           "saveFill", "saveRename", "saveSet"}

FilesTypeOK ==
  /\ file \in [Names -> FileStates]
  /\ open \in [Threads -> Names \cup {None, Unlinked}]

ThreadsTypeOK ==
  /\ mu \in [Processes -> Threads \cup {Nobody}]
  /\ pc \in [Threads -> Places]
  /\ snap \in [Threads -> Snapshots]
  /\ upd \in [Threads -> SUBSET Keys]

StoreTypeOK ==
  /\ FilesTypeOK /\ ThreadsTypeOK
  /\ pending \in [Metrics -> Nat] /\ batch \in [Metrics -> Nat]
  /\ lsn \in Nat /\ savedLsn \in Nat /\ restarts \in Nat
  /\ acked \in Snapshots

\* Only main writes the checkpoint files, and only through the temporary one.
SaveInv ==
  /\ \A t \in Threads : open[t] \in {"checkpoint", "checkpoint.tmp"} =>
       t = "main" /\ pc[t] = "saveFill" /\ open[t] = CheckpointTemp
  /\ pc["main"] = "saveFill" => open["main"] = CheckpointTemp /\ file[CheckpointTemp] = Partial
  /\ pc["main"] = "saveRename" => file[CheckpointTemp] = [is |-> "whole", val |-> Checkpoint]
  /\ pc["main"] = "saveSet" => savedLsn = lsn
  /\ savedLsn <= lsn
  /\ CheckpointSurvives

\* An LSN is on disk before it sets out for the status file.
SavedInv ==
  /\ pending["saved"] <= savedLsn /\ batch["saved"] <= savedLsn
  /\ \A t \in Threads : snap[t]["saved"] <= savedLsn
  /\ \A f \in {"state", TempFile} : Whole(f) => Content(f)["saved"] <= savedLsn

\* A process's mutex is held by its goroutine in an update.
Mutex == \A t \in Threads : InUpdate(t) => mu[Proc(t)] = t

\* As long as the processes stay apart one update at a time has the temporary
\* file, and the status file is never a part of one.
Apart ==
  ~shared =>
    /\ \A t, u \in Threads : InUpdate(t) /\ InUpdate(u) => t = u
    /\ Parses
    /\ \A t \in Threads : pc[t] = "fill" => open[t] = TempFile /\ file[TempFile] = Partial
    /\ \A t \in Threads : pc[t] = "rename" => file[TempFile] = [is |-> "whole", val |-> snap[t]]

\* What a goroutine is going to write agrees with what is acknowledged, but for
\* the keys it changes.
Agrees ==
  ~shared /\ ~cut =>
    /\ Loaded = acked
    /\ \A t \in Threads : InUpdate(t) => \A k \in Keys \ upd[t] : snap[t][k] = acked[k]
    /\ pc["main"] = "clear" => \A k \in Keys \ {"flow"} : snap["main"][k] = acked[k]

UpdateInv == Mutex /\ Apart /\ Agrees
-----------------------------------------------------------------------------
(* Types *)

\* The files a thread opens and fills stay whole, partly written or absent.
LEMMA FilesType ==
  ASSUME FilesTypeOK, NEW t \in Threads, NEW name \in Names, NEW to \in Names, NEW v \in Snapshots,
         \/ Create(t, name) \/ Fill(t, v) \/ FillFails(t) \/ Move(name, to) \/ Remove(name)
  PROVE  FilesTypeOK'
<1> USE DEF FilesTypeOK, FileStates
<1>1. CASE Create(t, name) BY <1>1, Zenon DEF Create
<1>2. CASE Fill(t, v)
  <2>1. [is |-> "whole", val |-> v] \in FileStates /\ Partial \in FileStates
    BY Zenon
  <2> HIDE DEF FileStates
  <2> QED BY <1>2, <2>1, Zenon DEF Fill
<1>3. CASE FillFails(t) BY <1>3, Zenon DEF FillFails
<1>4. CASE Move(name, to) BY <1>4, Zenon DEF Move
<1>5. CASE Remove(name) BY <1>5, Zenon DEF Remove
<1> QED BY <1>1, <1>2, <1>3, <1>4, <1>5, Zenon

\* What the status file gives is a snapshot.
LEMMA LoadedType ==
  ASSUME FilesTypeOK, Parses
  PROVE  Loaded \in Snapshots
  BY StoreAssumption
  DEF FilesTypeOK, FileStates, Parses, Loaded, Exists, Whole, Content, Absent, Partial, Empty, Snapshots

\* An update, in the mutex or turned away by a file that does not parse.
LEMMA UpdateType ==
  ASSUME FilesTypeOK, ThreadsTypeOK, NEW t \in Threads, NEW keys \in SUBSET Keys, NEW val,
         \A k \in keys : val[k] \in Nat, Update(t, keys, val)
  PROVE  FilesTypeOK' /\ ThreadsTypeOK'
<1>1. CASE Parses /\ Create(t, TempFile)
           /\ mu' = [mu EXCEPT ![Proc(t)] = t]
           /\ snap' = [snap EXCEPT ![t] = Changed(keys, val)]
           /\ upd' = [upd EXCEPT ![t] = keys]
           /\ pc' = [pc EXCEPT ![t] = "fill"]
  <2>1. FilesTypeOK'
    BY <1>1, FilesType, StoreAssumption, Zenon DEF TempFile, FilesTypeOK, FileStates, Create
  <2>2. Changed(keys, val) \in Snapshots
    BY <1>1, LoadedType, Zenon DEF Changed, Snapshots
  <2>3. Proc(t) \in Processes
    BY Zenon DEF Proc, Processes
  <2> QED BY <1>1, <2>1, <2>2, <2>3, Zenon DEF ThreadsTypeOK, Places
<1>2. CASE LoadFails(t)
  BY <1>2, Zenon DEF LoadFails, After, FilesTypeOK, ThreadsTypeOK, Places, fileVars
<1> QED BY <1>1, <1>2, Zenon DEF Update

\* The deferred unlock.
LEMMA UnlockType ==
  ASSUME ThreadsTypeOK, NEW t \in Threads, Unlock(t)
  PROVE  ThreadsTypeOK'
<1>1. Empty \in Snapshots /\ Proc(t) \in Processes /\ After(t) \in Places
  BY Zenon DEF Empty, Snapshots, Proc, Processes, After, Places
<1> QED BY <1>1, Zenon DEF Unlock, ThreadsTypeOK
\* The steps of the three goroutines and the death of a process.
LEMMA TypeStep == StoreTypeOK /\ [StoreNext]_storeVars => StoreTypeOK'
<1> SUFFICES ASSUME StoreTypeOK, [StoreNext]_storeVars PROVE StoreTypeOK'
  BY Zenon
<1> USE DEF fileVars, threadVars, recVars, history
<1>0. /\ FilesTypeOK /\ ThreadsTypeOK /\ "main" \in Threads /\ "recorder" \in Threads
      /\ "rollback" \in Threads /\ TempFile \in Names /\ CheckpointTemp \in Names
      /\ "state" \in Names /\ "checkpoint" \in Names /\ Empty \in Snapshots
  BY StoreAssumption, Zenon DEF StoreTypeOK, TempFile, CheckpointTemp, Empty, Snapshots
<1>1. ASSUME NEW key \in {"status", "flow"}, Record(key) PROVE StoreTypeOK'
  <2>1. FilesTypeOK' /\ ThreadsTypeOK'
    <3>1. {key} \in SUBSET Keys /\ \A k \in {key} : [l \in {key} |-> Value][k] \in Nat
      BY DEF Keys, Value, StoreTypeOK
    <3> QED BY <1>0, <1>1, <3>1, UpdateType, Zenon DEF Record
  <2> QED BY <1>1, <2>1, Zenon DEF Record, StoreTypeOK
<1>2. CASE SetSource
  BY <1>2 DEF SetSource, StoreTypeOK, FilesTypeOK, ThreadsTypeOK, Value, Metrics
<1>3. CASE ClearLoad
  <2>1. Parses => [Loaded EXCEPT !["flow"] = 0] \in Snapshots
    BY <1>0, LoadedType, Zenon DEF Snapshots
  <2>2. ThreadsTypeOK'
    BY <1>0, <1>3, <2>1, Zenon DEF ClearLoad, ThreadsTypeOK, Places
  <2> QED BY <1>3, <2>2, Zenon DEF ClearLoad, StoreTypeOK, FilesTypeOK
<1>4. CASE ClearWrite
  <2>1. FilesTypeOK'
    BY <1>0, <1>4, FilesType, Zenon DEF ClearWrite
  <2>2. ThreadsTypeOK'
    BY <1>0, <1>4, Zenon DEF ClearWrite, ThreadsTypeOK, Places, Processes, Keys
  <2> QED BY <1>4, <2>1, <2>2, Zenon DEF ClearWrite, StoreTypeOK
<1>5. CASE CloseRecorder
  BY <1>5, Zenon DEF CloseRecorder, StoreTypeOK, FilesTypeOK, ThreadsTypeOK
<1>6. CASE SaveCreate
  <2>1. FilesTypeOK'
    BY <1>0, <1>6, FilesType, Zenon DEF SaveCreate
  <2>2. ThreadsTypeOK'
    BY <1>0, <1>6, Zenon DEF SaveCreate, ThreadsTypeOK, Places
  <2>3. lsn' \in Nat
    <3>1. lsn' = lsn + 1 BY <1>6, Zenon DEF SaveCreate
    <3>2. lsn \in Nat BY Zenon DEF StoreTypeOK
    <3> QED BY <3>1, <3>2
  <2> QED BY <1>6, <2>1, <2>2, <2>3, Zenon DEF SaveCreate, StoreTypeOK
<1>7. CASE SaveFill
  <2>1. Checkpoint \in Snapshots
    BY Zenon DEF Checkpoint, Empty, Snapshots, Keys, Metrics, StoreTypeOK
  <2>2. FilesTypeOK'
    BY <1>0, <1>7, <2>1, FilesType, Zenon DEF SaveFill
  <2> QED BY <1>0, <1>7, <2>2, Zenon DEF SaveFill, StoreTypeOK, ThreadsTypeOK, Places
<1>8. CASE SaveRename
  <2>1. FilesTypeOK'
    BY <1>0, <1>8, FilesType, Zenon DEF SaveRename
  <2> QED BY <1>0, <1>8, <2>1, Zenon DEF SaveRename, StoreTypeOK, ThreadsTypeOK, Places
<1>9. CASE SaveSet
  BY <1>9, Zenon DEF SaveSet, StoreTypeOK, FilesTypeOK, ThreadsTypeOK, Places
<1>10. ASSUME NEW t \in Threads, WriteStep(t) PROVE StoreTypeOK'
  <2>1. CASE FillTemp(t)
    <3>1. snap[t] \in Snapshots
      BY <1>0, Zenon DEF ThreadsTypeOK
    <3>2. FilesTypeOK'
      BY <1>0, <2>1, <3>1, FilesType, Zenon DEF FillTemp
    <3>3. ThreadsTypeOK'
      BY <1>0, <2>1, UnlockType, Zenon DEF FillTemp, ThreadsTypeOK, Places
    <3> QED BY <2>1, <3>2, <3>3, Zenon DEF FillTemp, StoreTypeOK
  <2>2. CASE Rename(t)
    <3>1. FilesTypeOK'
      <4>1. CASE Move(TempFile, "state")
        BY <1>0, <4>1, FilesType, Zenon
      <4>2. CASE UNCHANGED <<file, open>>
        BY <1>0, <4>2, Zenon DEF FilesTypeOK
      <4> QED BY <2>2, <4>1, <4>2, Zenon DEF Rename
    <3>2. ThreadsTypeOK'
      BY <1>0, <2>2, UnlockType, Zenon DEF Rename
    <3>3. acked' \in Snapshots
      BY <1>0, <2>2 DEF Rename, StoreTypeOK, ThreadsTypeOK, Snapshots
    <3> QED BY <2>2, <3>1, <3>2, <3>3, Zenon DEF Rename, StoreTypeOK
  <2> QED BY <1>10, <2>1, <2>2, Zenon DEF WriteStep
<1>11. CASE TakeBatch
  <2>1. /\ UNCHANGED <<file, open, mu, snap, upd, lsn, restarts, savedLsn, acked>>
        /\ batch' = pending /\ pending' = NoMetrics
        /\ pc' = [pc EXCEPT !["recorder"] = "flush"] \/ pc' = [pc EXCEPT !["recorder"] = "gone"]
    BY <1>11, Zenon DEF TakeBatch
  <2> QED BY <2>1, Zenon DEF NoMetrics, StoreTypeOK, FilesTypeOK, ThreadsTypeOK, Places
<1>12. CASE Flush
  <2>1. FilesTypeOK' /\ ThreadsTypeOK'
    <3>1. /\ {k \in Metrics : batch[k] # 0} \in SUBSET Keys
          /\ \A k \in {l \in Metrics : batch[l] # 0} : batch[k] \in Nat
      BY Zenon DEF Keys, StoreTypeOK
    <3> QED BY <1>0, <1>12, <3>1, UpdateType, Zenon DEF Flush
  <2> QED BY <1>12, <2>1, Zenon DEF Flush, StoreTypeOK, NoMetrics
<1>13. CASE Rollback
  <2>1. FilesTypeOK' /\ ThreadsTypeOK'
    <3>1. {"status"} \in SUBSET Keys /\ \A k \in {"status"} : [l \in {"status"} |-> 0][k] \in Nat
      BY Zenon DEF Keys
    <3> QED BY <1>0, <1>13, <3>1, UpdateType, Zenon DEF Rollback
  <2> QED BY <1>13, <2>1, Zenon DEF Rollback, StoreTypeOK
<1>14. CASE Kill
  <2>1. FilesTypeOK'
    BY <1>14, Zenon DEF Kill, StoreTypeOK, FilesTypeOK
  <2>2. ThreadsTypeOK'
    BY <1>0, <1>14, Zenon DEF Kill, ThreadsTypeOK, Places, Processes
  <2>3. restarts' \in Nat /\ pending' \in [Metrics -> Nat] /\ batch' \in [Metrics -> Nat]
    BY <1>14 DEF Kill, StoreTypeOK, NoMetrics
  <2> QED BY <1>14, <2>1, <2>2, <2>3, Zenon DEF Kill, StoreTypeOK
<1>15. CASE UNCHANGED storeVars
  BY <1>15, Zenon DEF storeVars, StoreTypeOK, FilesTypeOK, ThreadsTypeOK
<1> QED
  BY <1>0, <1>1, <1>2, <1>3, <1>4, <1>5, <1>6, <1>7, <1>8, <1>9, <1>10, <1>11, <1>12, <1>13, <1>14,
     <1>15, Zenon DEF StoreNext, Main, RecorderStep, RollbackStep
-----------------------------------------------------------------------------
(* The checkpoint file *)

SaveFiles == {"checkpoint", "checkpoint.tmp"}
SavePlaces == {"saveFill", "saveRename", "saveSet"}

\* A step outside the save leaves its files alone.
LEMMA SaveKept ==
  ASSUME StoreTypeOK, SaveInv, UNCHANGED <<lsn, savedLsn>>,
         \A f \in SaveFiles : file'[f] = file[f],
         \A t \in Threads : open'[t] \in SaveFiles => open'[t] = open[t],
         \/ pc'["main"] = pc["main"] /\ (open["main"] \in SaveFiles => open'["main"] = open["main"])
         \/ pc'["main"] \notin SavePlaces /\ open'["main"] \notin SaveFiles
  PROVE  SaveInv'
<1>1. Checkpoint' = Checkpoint /\ CheckpointSurvives'
  BY Zenon DEF Checkpoint, Empty, SaveInv, CheckpointSurvives, Exists, Whole, Content, SaveFiles
<1>2. \A t \in Threads : open'[t] \in SaveFiles =>
        t = "main" /\ pc'[t] = "saveFill" /\ open'[t] = CheckpointTemp
  BY Zenon DEF SaveInv, SaveFiles, SavePlaces
<1> QED BY <1>1, <1>2, Zenon DEF SaveInv, SaveFiles, SavePlaces, CheckpointTemp

\* So does an update of the status file by any goroutine...
LEMMA SaveUpdate ==
  ASSUME StoreTypeOK, SaveInv, NEW t \in Threads, NEW keys, NEW val,
         pc[t] \notin SavePlaces, Update(t, keys, val), UNCHANGED <<lsn, savedLsn>>
  PROVE  SaveInv'
<1> USE StoreAssumption DEF SaveFiles, SavePlaces
<1>1. open["main"] \in SaveFiles => pc["main"] = "saveFill"
  BY Zenon DEF SaveInv
<1>2. CASE Create(t, TempFile) /\ pc' = [pc EXCEPT ![t] = "fill"]
  <2>1. \A f \in SaveFiles : file'[f] = file[f]
    BY <1>2, Zenon DEF Create, TempFile, StoreTypeOK, FilesTypeOK
  <2>2. \A u \in Threads : open'[u] \in SaveFiles => open'[u] = open[u]
    BY <1>2, Zenon DEF Create, TempFile, StoreTypeOK, FilesTypeOK
  <2>3. CASE t = "main"
    <3>1. pc'["main"] \notin SavePlaces /\ open'["main"] \notin SaveFiles
      BY <1>2, <2>3, Zenon DEF Create, TempFile, StoreTypeOK, FilesTypeOK, ThreadsTypeOK
    <3> QED BY <2>1, <2>2, <3>1, SaveKept, Zenon
  <2>4. CASE t # "main"
    <3>1. pc'["main"] = pc["main"] /\ open'["main"] = open["main"]
      BY <1>2, <2>4, Zenon DEF Create, StoreTypeOK, FilesTypeOK, ThreadsTypeOK
    <3> QED BY <2>1, <2>2, <3>1, SaveKept, Zenon
  <2> QED BY <2>3, <2>4, Zenon
<1>3. CASE LoadFails(t)
  <2>1. UNCHANGED <<file, open>> /\ pc' = [pc EXCEPT ![t] = After(t)]
    BY <1>3, Zenon DEF LoadFails, fileVars
  <2>2. pc'["main"] = pc["main"] \/ (t = "main" /\ pc'["main"] = "idle")
    BY <2>1, Zenon DEF After, StoreTypeOK, ThreadsTypeOK
  <2> QED BY <1>1, <2>1, <2>2, SaveKept, Zenon
<1> QED BY <1>2, <1>3, Zenon DEF Update

\* ... and the write that follows, whatever name the file has by then.
LEMMA SaveWrite ==
  ASSUME StoreTypeOK, SaveInv, NEW t \in Threads, WriteStep(t)
  PROVE  SaveInv'
<1> USE StoreAssumption DEF SaveFiles, SavePlaces
<1>1. UNCHANGED <<lsn, savedLsn>> /\ pc[t] \in {"fill", "rename"}
  BY Zenon DEF WriteStep, FillTemp, Rename, history
<1>2. open[t] \notin SaveFiles
  BY <1>1, Zenon DEF SaveInv
<1>3. \A f \in SaveFiles : file'[f] = file[f]
  BY <1>2, Zenon DEF WriteStep, FillTemp, Rename, Fill, FillFails, Move, TempFile, fileVars,
     StoreTypeOK, FilesTypeOK
<1>a. \/ open' = [open EXCEPT ![t] = None] \/ open' = open
      \/ open' = [u \in Threads |-> IF open[u] = TempFile THEN "state"
                                    ELSE IF open[u] = "state" THEN Unlinked ELSE open[u]]
  BY Zenon DEF WriteStep, FillTemp, Rename, Fill, FillFails, Move, fileVars
<1>4. \A u \in Threads : open'[u] \in SaveFiles => open'[u] = open[u]
  BY <1>a, Zenon DEF StoreTypeOK, FilesTypeOK, Unlinked
<1>5. pc' = [pc EXCEPT ![t] = "rename"] \/ pc' = [pc EXCEPT ![t] = After(t)]
  BY Zenon DEF WriteStep, FillTemp, Rename, Unlock
<1>6. CASE t = "main"
  <2>1. pc'["main"] \notin SavePlaces
    BY <1>5, <1>6, Zenon DEF After, StoreTypeOK, ThreadsTypeOK
  <2>2. open'["main"] \notin SaveFiles
    BY <1>2, <1>4, <1>6, Zenon
  <2> QED BY <1>1, <1>3, <1>4, <2>1, <2>2, SaveKept, Zenon
<1>7. CASE t # "main"
  <2>1. pc'["main"] = pc["main"]
    BY <1>5, <1>7, Zenon DEF StoreTypeOK, ThreadsTypeOK
  <2>2. open["main"] \in SaveFiles => open'["main"] = open["main"]
    BY <1>7, <1>a, Zenon DEF StoreTypeOK, FilesTypeOK, TempFile
  <2> QED BY <1>1, <1>3, <1>4, <2>1, <2>2, SaveKept, Zenon
<1> QED BY <1>6, <1>7, Zenon
\* A save: the temporary file is filled before it gets the checkpoint's name.
LEMMA SaveStep ==
  ASSUME StoreTypeOK, SaveInv, SaveCreate \/ SaveFill \/ SaveRename \/ SaveSet
  PROVE  SaveInv'
<1> USE DEF SaveFiles, SavePlaces, history, fileVars, CheckpointTemp
<1>0. /\ "main" \in Threads /\ lsn \in Nat /\ savedLsn \in Nat /\ savedLsn <= lsn
      /\ file \in [Names -> FileStates] /\ pc \in [Threads -> Places]
      /\ open \in [Threads -> Names \cup {None, Unlinked}]
      /\ "checkpoint" \in Names /\ "checkpoint.tmp" \in Names /\ None \notin SaveFiles
  BY StoreAssumption, Zenon DEF StoreTypeOK, FilesTypeOK, ThreadsTypeOK, SaveInv
<1>1. CASE SaveCreate
  <2>1. lsn' = lsn + 1 /\ savedLsn' = savedLsn /\ Create("main", "checkpoint.tmp")
        /\ pc' = [pc EXCEPT !["main"] = "saveFill"]
    BY <1>1, Zenon DEF SaveCreate
  <2>2. /\ file'["checkpoint"] = file["checkpoint"] /\ file'["checkpoint.tmp"] = Partial
        /\ open'["main"] = "checkpoint.tmp" /\ pc'["main"] = "saveFill"
        /\ \A t \in Threads \ {"main"} : open'[t] = open[t]
    BY <1>0, <2>1, Zenon DEF Create
  <2>3. CheckpointSurvives'
    BY <2>1, <2>2, Zenon DEF SaveInv, CheckpointSurvives, Exists, Whole, Content
  <2>4. savedLsn' <= lsn'
    BY <1>0, <2>1
  <2> QED BY <2>2, <2>3, <2>4, Zenon DEF SaveInv
<1>2. CASE SaveFill
  <2>1. /\ UNCHANGED <<lsn, savedLsn>> /\ pc["main"] = "saveFill"
        /\ open["main"] = "checkpoint.tmp" /\ file["checkpoint.tmp"] = Partial
    BY <1>2, Zenon DEF SaveFill, SaveInv
  <2>2. file'["checkpoint"] = file["checkpoint"] /\ open' = [open EXCEPT !["main"] = None]
    BY <1>0, <1>2, <2>1, Zenon DEF SaveFill, Fill, FillFails
  <2>3. CheckpointSurvives'
    BY <2>1, <2>2, Zenon DEF SaveInv, CheckpointSurvives, Exists, Whole, Content
  <2>4. \A t \in Threads : open'[t] \notin SaveFiles
    BY <1>0, <2>1, <2>2, Zenon DEF SaveInv
  <2>5. CASE Fill("main", Checkpoint) /\ pc' = [pc EXCEPT !["main"] = "saveRename"]
    <3>1. file'["checkpoint.tmp"] = [is |-> "whole", val |-> Checkpoint]
      BY <1>0, <2>1, <2>5 DEF Fill, Whole, Partial, Unlinked
    <3>2. Checkpoint' = Checkpoint
      BY <2>1, Zenon DEF Checkpoint, Empty
    <3> QED BY <1>0, <2>1, <2>3, <2>4, <2>5, <3>1, <3>2, Zenon DEF SaveInv
  <2>6. CASE pc' = [pc EXCEPT !["main"] = "idle"]
    BY <1>0, <2>1, <2>3, <2>4, <2>6, Zenon DEF SaveInv
  <2> QED BY <1>2, <2>5, <2>6, Zenon DEF SaveFill
<1>3. CASE SaveRename
  <2>1. pc["main"] = "saveRename" /\ lsn' = lsn
        /\ file["checkpoint.tmp"] = [is |-> "whole", val |-> Checkpoint]
    BY <1>3, Zenon DEF SaveRename, SaveInv
  <2>2. \A t \in Threads : open[t] \notin SaveFiles
    BY <2>1, Zenon DEF SaveInv
  <2>3. CASE Move("checkpoint.tmp", "checkpoint") /\ savedLsn' = lsn
             /\ pc' = [pc EXCEPT !["main"] = "saveSet"]
    <3>1. file'["checkpoint"] = [is |-> "whole", val |-> Checkpoint]
      BY <1>0, <2>1, <2>3, Zenon DEF Move
    <3>2. Checkpoint["saved"] = lsn
      BY Zenon DEF Checkpoint, Empty, Keys, Metrics
    <3>3. CheckpointSurvives'
      BY <2>3, <3>1, <3>2 DEF CheckpointSurvives, Exists, Whole, Content
    <3>4. \A t \in Threads : open'[t] \notin SaveFiles
      BY <1>0, <2>2, <2>3, Zenon DEF Move
    <3> QED BY <1>0, <2>1, <2>3, <3>3, <3>4 DEF SaveInv
  <2>4. CASE Remove("checkpoint.tmp") /\ savedLsn' = savedLsn /\ pc' = [pc EXCEPT !["main"] = "idle"]
    <3>1. file'["checkpoint"] = file["checkpoint"]
      BY <1>0, <2>4, Zenon DEF Remove
    <3>2. CheckpointSurvives'
      BY <2>4, <3>1, Zenon DEF SaveInv, CheckpointSurvives, Exists, Whole, Content
    <3>3. \A t \in Threads : open'[t] \notin SaveFiles
      BY <1>0, <2>2, <2>4, Zenon DEF Remove, Unlinked
    <3> QED BY <1>0, <2>1, <2>4, <3>2, <3>3, Zenon DEF SaveInv
  <2> QED BY <1>3, <2>3, <2>4, Zenon DEF SaveRename
<1>4. CASE SaveSet
  <2>1. UNCHANGED <<file, open, lsn, savedLsn>> /\ pc["main"] = "saveSet" /\ pc'["main"] = "idle"
    BY <1>0, <1>4, Zenon DEF SaveSet
  <2>2. open["main"] \notin SaveFiles
    BY <1>0, <2>1, Zenon DEF SaveInv
  <2> QED BY <2>1, <2>2, SaveKept, Zenon
<1> QED BY <1>1, <1>2, <1>3, <1>4, Zenon
\* Every step of the two processes keeps the two checkpoint files in step with
\* the save.
LEMMA SaveInvStep == StoreTypeOK /\ SaveInv /\ [StoreNext]_storeVars => SaveInv'
<1> SUFFICES ASSUME StoreTypeOK, SaveInv, [StoreNext]_storeVars PROVE SaveInv'
  BY Zenon
<1> USE DEF fileVars, threadVars, recVars, history
<1>0. "main" \in Threads /\ "recorder" \in Threads /\ "rollback" \in Threads
  BY StoreAssumption, Zenon
<1>1. ASSUME NEW key \in {"status", "flow"}, Record(key) PROVE SaveInv'
  BY <1>0, <1>1, SaveUpdate, Zenon DEF Record, Step, SavePlaces
<1>2. CASE SetSource \/ CloseRecorder \/ UNCHANGED storeVars
  <2>1. UNCHANGED <<file, open, lsn, savedLsn, pc>>
    BY <1>2, Zenon DEF SetSource, CloseRecorder, storeVars
  <2> QED BY <2>1, SaveKept, Zenon
<1>3. CASE ClearLoad
  <2>1. UNCHANGED <<file, open, lsn, savedLsn>> /\ pc["main"] = "idle" /\ pc'["main"] \in {"idle", "clear"}
    BY <1>0, <1>3, Zenon DEF ClearLoad, Step, StoreTypeOK, ThreadsTypeOK
  <2>2. open["main"] \notin SaveFiles
    BY <1>0, <2>1, Zenon DEF SaveInv, SaveFiles
  <2> QED BY <2>1, <2>2, SaveKept, Zenon DEF SavePlaces
<1>4. CASE ClearWrite
  <2>1. /\ UNCHANGED <<lsn, savedLsn>> /\ Create("main", TempFile) /\ pc'["main"] = "fill"
    BY <1>0, <1>4, Zenon DEF ClearWrite, StoreTypeOK, ThreadsTypeOK
  <2>2. \A f \in SaveFiles : file'[f] = file[f]
    BY <2>1, StoreAssumption, Zenon DEF Create, TempFile, SaveFiles, StoreTypeOK, FilesTypeOK
  <2>3. \A t \in Threads : open'[t] = IF t = "main" THEN TempFile ELSE open[t]
    BY <2>1, Zenon DEF Create, StoreTypeOK, FilesTypeOK
  <2> QED BY <1>0, <2>1, <2>2, <2>3, SaveKept, Zenon DEF SavePlaces, SaveFiles, TempFile
<1>5. CASE SaveCreate \/ SaveFill \/ SaveRename \/ SaveSet
  BY <1>5, SaveStep, Zenon
<1>6. ASSUME NEW t \in Threads, WriteStep(t) PROVE SaveInv'
  BY <1>6, SaveWrite, Zenon
<1>7. CASE TakeBatch
  <2>1. UNCHANGED <<file, open, lsn, savedLsn>>
    BY <1>7, Zenon DEF TakeBatch
  <2>2. pc'["main"] = pc["main"]
    BY <1>0, <1>7, Zenon DEF TakeBatch, StoreTypeOK, ThreadsTypeOK
  <2> QED BY <2>1, <2>2, SaveKept, Zenon
<1>8. CASE Flush
  BY <1>0, <1>8, SaveUpdate, Zenon DEF Flush, SavePlaces
<1>9. CASE Rollback
  BY <1>0, <1>9, SaveUpdate, Zenon DEF Rollback, SavePlaces
<1>10. CASE Kill
  <2>1. UNCHANGED <<file, lsn, savedLsn>> /\ pc'["main"] = "idle"
    BY <1>0, <1>10, Zenon DEF Kill, Proc
  <2>2. \A t \in Threads : open'[t] = IF Proc(t) = "replicate" THEN None ELSE open[t]
    BY <1>10, Zenon DEF Kill
  <2>3. None \notin SaveFiles /\ Proc("main") = "replicate"
    BY StoreAssumption, Zenon DEF SaveFiles, Proc
  <2> QED BY <1>0, <2>1, <2>2, <2>3, SaveKept, Zenon DEF SavePlaces
<1> QED
  BY <1>0, <1>1, <1>2, <1>3, <1>4, <1>5, <1>6, <1>7, <1>8, <1>9, <1>10
 , Zenon DEF StoreNext, Main, RecorderStep, RollbackStep
-----------------------------------------------------------------------------
(* The LSN in the status file *)

\* What is loaded is no newer than the checkpoint.
LEMMA LoadedSaved ==
  ASSUME StoreTypeOK, SavedInv, Parses
  PROVE  Loaded["saved"] <= savedLsn
  BY DEF StoreTypeOK, SavedInv, Parses, Loaded, Empty, Keys, Metrics

\* An update keeps the LSN of the file, or takes one from the recorder's batch.
LEMMA SavedUpdate ==
  ASSUME StoreTypeOK, SavedInv, NEW t \in Threads, NEW keys, NEW val,
         "saved" \in keys => val["saved"] <= savedLsn,
         Update(t, keys, val), UNCHANGED <<pending, savedLsn>>,
         batch' = batch \/ batch' = NoMetrics
  PROVE  SavedInv'
<1> USE DEF StoreTypeOK, FilesTypeOK, ThreadsTypeOK
<1>1. batch'["saved"] <= savedLsn
  BY DEF NoMetrics, Metrics, SavedInv
<1>2. CASE Parses /\ snap' = [snap EXCEPT ![t] = Changed(keys, val)] /\ Create(t, TempFile)
  <2>1. Changed(keys, val)["saved"] <= savedLsn
    BY <1>2, LoadedSaved, Zenon DEF Changed, Keys, Metrics
  <2>2. \A u \in Threads : snap'[u]["saved"] <= savedLsn
    BY <1>2, <2>1, Zenon DEF SavedInv
  <2>3. file'["state"] = file["state"] /\ file'[TempFile] = Partial
    BY <1>2, StoreAssumption, Zenon DEF Create, TempFile
  <2> QED BY <1>1, <2>2, <2>3 DEF SavedInv, Whole, Content, Partial
<1>3. CASE LoadFails(t)
  BY <1>1, <1>3, Zenon DEF LoadFails, SavedInv, Whole, Content, fileVars
<1> QED BY <1>2, <1>3, Zenon DEF Update

\* The write takes the LSN of a snapshot to one of the two names.
LEMMA SavedWrite ==
  ASSUME StoreTypeOK, SavedInv, NEW t \in Threads, WriteStep(t)
  PROVE  SavedInv'
<1> USE DEF StoreTypeOK, FilesTypeOK, ThreadsTypeOK
<1>1. UNCHANGED <<pending, batch, savedLsn>>
  BY Zenon DEF WriteStep, FillTemp, Rename, history, recVars
<1>2. \A u \in Threads : snap'[u]["saved"] <= savedLsn
  <2>1. snap' = snap \/ snap' = [snap EXCEPT ![t] = Empty]
    BY Zenon DEF WriteStep, FillTemp, Rename, Unlock
  <2>2. Empty["saved"] <= savedLsn
    BY DEF Empty, Keys, Metrics
  <2> QED BY <2>1, <2>2, Zenon DEF SavedInv
<1>3. ASSUME NEW f \in {"state", TempFile}
      PROVE  Whole(f)' => Content(f)'["saved"] <= savedLsn
  <2>0. f \in Names /\ TempFile \in Names /\ "state" \in Names
    BY StoreAssumption, Zenon DEF TempFile
  <2>1. CASE file' = file
    BY <2>1, Zenon DEF SavedInv, Whole, Content
  <2>2. CASE file' = [file EXCEPT ![open[t]] = [is |-> "whole", val |-> snap[t]]]
    BY <2>0, <2>2, Zenon DEF SavedInv, Whole, Content
  <2>3. CASE file' = [file EXCEPT ![open[t]] = Partial]
    BY <2>0, <2>3, Zenon DEF SavedInv, Whole, Content, Partial
  <2>4. CASE file' = [file EXCEPT !["state"] = file[TempFile], ![TempFile] = Absent]
    BY <2>0, <2>4, Zenon DEF SavedInv, Whole, Content, Absent
  <2> QED BY <2>1, <2>2, <2>3, <2>4, Zenon DEF WriteStep, FillTemp, Rename, Fill, FillFails, Move, fileVars
<1> QED BY <1>1, <1>2, <1>3, Zenon DEF SavedInv

\* A step of a save changes neither name of the status file.
LEMMA SaveElsewhere ==
  ASSUME StoreTypeOK, SaveInv, SaveCreate \/ SaveFill \/ SaveRename \/ SaveSet
  PROVE  \A f \in {"state", TempFile} : file'[f] = file[f]
<1>1. SaveFill => open["main"] = "checkpoint.tmp"
  BY Zenon DEF SaveFill, SaveInv, CheckpointTemp
<1> QED BY <1>1, StoreAssumption
   , Zenon DEF SaveCreate, SaveFill, SaveRename, SaveSet, Create, Fill, FillFails, Move, Remove,
        TempFile, CheckpointTemp, StoreTypeOK, FilesTypeOK, fileVars

\* Its LSN is on disk when it is left to the recorder.
LEMMA SavedSave ==
  ASSUME StoreTypeOK, SaveInv, SavedInv, SaveCreate \/ SaveFill \/ SaveRename \/ SaveSet
  PROVE  SavedInv'
<1> USE DEF StoreTypeOK, FilesTypeOK, ThreadsTypeOK, fileVars, recVars, history
<1>1. savedLsn' \in Nat /\ savedLsn <= savedLsn' /\ UNCHANGED <<batch, snap>>
  BY DEF SaveCreate, SaveFill, SaveRename, SaveSet, SaveInv
<1>2. \A f \in {"state", TempFile} : file'[f] = file[f]
  BY SaveElsewhere, Zenon
<1>3. pending'["saved"] <= savedLsn'
  <2>1. CASE SaveSet
    BY <2>1, Zenon DEF SaveSet, SaveInv, Metrics
  <2>2. CASE pending' = pending
    BY <1>1, <2>2 DEF SavedInv, Metrics
  <2> QED BY <2>1, <2>2, Zenon DEF SaveCreate, SaveFill, SaveRename
<1>4. batch'["saved"] <= savedLsn' /\ \A t \in Threads : snap'[t]["saved"] <= savedLsn'
  BY <1>1 DEF SavedInv, Metrics, Snapshots, Keys
<1>5. ASSUME NEW f \in {"state", TempFile}, Whole(f)'
      PROVE  Content(f)'["saved"] <= savedLsn'
  <2>1. Whole(f) /\ Content(f)' = Content(f)
    BY <1>2, <1>5, Zenon DEF Whole, Content
  <2>2. Content(f) \in Snapshots
    BY <2>1, StoreAssumption DEF Whole, Content, FileStates, TempFile, Absent, Partial
  <2> QED BY <1>1, <2>1, <2>2 DEF SavedInv, Snapshots, Keys, Metrics
<1> QED BY <1>3, <1>4, <1>5, Zenon DEF SavedInv
\* No step lets an LSN overtake the checkpoint file.
LEMMA SavedInvStep == StoreTypeOK /\ SaveInv /\ SavedInv /\ [StoreNext]_storeVars => SavedInv'
<1> SUFFICES ASSUME StoreTypeOK, SaveInv, SavedInv, [StoreNext]_storeVars PROVE SavedInv'
  BY Zenon
<1> USE DEF fileVars, threadVars, recVars, history
<1>0. "main" \in Threads /\ "recorder" \in Threads /\ "rollback" \in Threads
  BY StoreAssumption, Zenon
<1>1. ASSUME NEW key \in {"status", "flow"}, Record(key) PROVE SavedInv'
  BY <1>0, <1>1, SavedUpdate, Zenon DEF Record
<1>2. CASE SetSource \/ CloseRecorder \/ TakeBatch \/ UNCHANGED storeVars
  <2>1. UNCHANGED <<file, snap, savedLsn>>
    BY <1>2, Zenon DEF SetSource, CloseRecorder, TakeBatch, storeVars
  <2>2. pending'["saved"] \in {0, pending["saved"]} /\ batch'["saved"] \in {batch["saved"], pending["saved"]}
    BY <1>2, Zenon DEF SetSource, CloseRecorder, TakeBatch, storeVars, NoMetrics, Metrics, StoreTypeOK
  <2> QED BY <2>1, <2>2 DEF SavedInv, StoreTypeOK, Whole, Content
<1>3. CASE ClearLoad
  <2>1. UNCHANGED <<file, pending, batch, savedLsn>>
        /\ (snap' = snap \/ (Parses /\ snap' = [snap EXCEPT !["main"] = [Loaded EXCEPT !["flow"] = 0]]))
    BY <1>3, Zenon DEF ClearLoad
  <2>2. Parses => [Loaded EXCEPT !["flow"] = 0]["saved"] <= savedLsn
    BY LoadedType, LoadedSaved, Zenon DEF Snapshots, Keys, Metrics, StoreTypeOK
  <2>3. \A t \in Threads : snap'[t]["saved"] <= savedLsn
    BY <1>0, <2>1, <2>2, Zenon DEF SavedInv, StoreTypeOK, ThreadsTypeOK
  <2> QED BY <2>1, <2>3, Zenon DEF SavedInv, Whole, Content
<1>4. CASE ClearWrite
  <2>1. UNCHANGED <<snap, pending, batch, savedLsn>> /\ Create("main", TempFile)
    BY <1>4, Zenon DEF ClearWrite
  <2>2. file'["state"] = file["state"] /\ file'[TempFile] = Partial
    BY <2>1, StoreAssumption, Zenon DEF Create, TempFile, StoreTypeOK, FilesTypeOK
  <2> QED BY <2>1, <2>2 DEF SavedInv, Whole, Content, Partial
<1>5. CASE SaveCreate \/ SaveFill \/ SaveRename \/ SaveSet
  BY <1>5, SavedSave, Zenon
<1>6. ASSUME NEW t \in Threads, WriteStep(t) PROVE SavedInv'
  BY <1>6, SavedWrite, Zenon
<1>7. CASE Flush
  BY <1>0, <1>7, SavedUpdate, Zenon DEF Flush, SavedInv
<1>8. CASE Rollback
  BY <1>0, <1>8, SavedUpdate, Zenon DEF Rollback
<1>9. CASE Kill
  <2>1. /\ UNCHANGED <<file, savedLsn>> /\ pending' = NoMetrics /\ batch' = NoMetrics
        /\ \A t \in Threads : snap'[t] \in {Empty, snap[t]}
    BY <1>9, Zenon DEF Kill
  <2>2. NoMetrics["saved"] = 0 /\ Empty["saved"] = 0
    BY Zenon DEF NoMetrics, Empty, Keys, Metrics
  <2> QED BY <2>1, <2>2 DEF SavedInv, Whole, Content, StoreTypeOK
<1> QED
  BY <1>0, <1>1, <1>2, <1>3, <1>4, <1>5, <1>6, <1>7, <1>8, <1>9
 , Zenon DEF StoreNext, Main, RecorderStep, RollbackStep
-----------------------------------------------------------------------------
(* The status file *)

\* The status file is as before, and so are what it gives and whether it parses.
LEMMA SameState ==
  ASSUME file'["state"] = file["state"]
  PROVE  Loaded' = Loaded /\ (Parses' <=> Parses)
  BY Zenon DEF Loaded, Parses, Exists, Whole, Content, Empty

\* A step outside the updates.
LEMMA UpdateKept ==
  ASSUME UpdateInv, \A f \in {"state", TempFile} : file'[f] = file[f],
         UNCHANGED <<mu, upd, snap, acked>>, shared => shared', cut => cut',
         \A t \in Threads : pc'[t] = pc[t] \/ pc'[t] \notin {"fill", "rename", "clear"},
         \A t \in Threads : pc[t] = "fill" => open'[t] = open[t], "main" \in Threads
  PROVE  UpdateInv'
<1>1. Mutex'
  BY Zenon DEF UpdateInv, Mutex, InUpdate
<1>2. Loaded' = Loaded /\ (Parses' <=> Parses)
  BY SameState, Zenon
<1>3. Apart'
  BY <1>2, Zenon DEF UpdateInv, Apart, InUpdate, TempFile
<1>4. Agrees'
  BY <1>2, Zenon DEF UpdateInv, Agrees, InUpdate
<1> QED BY <1>1, <1>3, <1>4, Zenon DEF UpdateInv

\* A goroutine that finds its mutex free, and no other process in an update, is
\* alone.
LEMMA Enter ==
  ASSUME StoreTypeOK, UpdateInv, NEW t \in Threads, mu[Proc(t)] = Nobody,
         ~\E u \in Threads : Proc(u) # Proc(t) /\ InUpdate(u)
  PROVE  \A u \in Threads : ~InUpdate(u)
<1>1. Nobody \notin Threads
  BY StoreAssumption, Zenon DEF Nobody
<1> QED BY <1>1, Zenon DEF UpdateInv, Mutex

\* The temporary file is opened under the mutex, with a snapshot that agrees with
\* the file.
LEMMA UpdateEnter ==
  ASSUME StoreTypeOK, UpdateInv, NEW t \in Threads, NEW keys,
         mu[Proc(t)] = Nobody,
         mu' = [mu EXCEPT ![Proc(t)] = t], pc' = [pc EXCEPT ![t] = "fill"],
         upd' = [upd EXCEPT ![t] = keys], Create(t, TempFile),
         \A u \in Threads \ {t} : snap'[u] = snap[u],
         ~shared' => ~shared /\ ~\E u \in Threads : Proc(u) # Proc(t) /\ InUpdate(u),
         UNCHANGED acked, cut => cut',
         ~shared /\ ~cut => \A k \in Keys \ keys : snap'[t][k] = acked[k]
  PROVE  UpdateInv'
<1> USE DEF StoreTypeOK, FilesTypeOK, ThreadsTypeOK
<1>0. "main" \in Threads /\ TempFile \in Names /\ "state" \in Names /\ TempFile # "state"
      /\ Nobody \notin Threads /\ Proc(t) \in Processes
  BY StoreAssumption, Zenon DEF TempFile, Nobody, Proc, Processes
<1>1. pc'[t] = "fill" /\ \A u \in Threads \ {t} : pc'[u] = pc[u]
  BY Zenon
<1>2. Mutex'
  <2> SUFFICES ASSUME NEW u \in Threads, InUpdate(u)' PROVE mu'[Proc(u)] = u
    BY Zenon DEF Mutex
  <2>1. CASE u = t BY <1>0, <2>1, Zenon
  <2>2. CASE u # t
    <3>1. mu[Proc(u)] = u
      BY <1>1, <2>2, Zenon DEF InUpdate, UpdateInv, Mutex
    <3> QED BY <1>0, <3>1
  <2> QED BY <2>1, <2>2, Zenon
<1>3. file'["state"] = file["state"] /\ file'[TempFile] = Partial /\ open'[t] = TempFile
  BY <1>0, Zenon DEF Create
<1>4. Loaded' = Loaded /\ (Parses' <=> Parses)
  BY <1>3, SameState, Zenon
<1>5. ~shared' => ~shared /\ \A u \in Threads : ~InUpdate(u)
  BY Enter, Zenon
<1>6. ~shared' => \A u \in Threads \ {t} : pc'[u] \notin {"fill", "rename"}
  BY <1>1, <1>5, Zenon DEF InUpdate
<1>7. Apart'
  BY <1>1, <1>3, <1>4, <1>5, <1>6, Zenon DEF UpdateInv, Apart, InUpdate
<1>8. Agrees'
  <2> SUFFICES ASSUME ~shared', ~cut'
               PROVE  /\ Loaded' = acked
                      /\ \A u \in Threads : InUpdate(u)' =>
                           \A k \in Keys \ upd'[u] : snap'[u][k] = acked[k]
                      /\ pc'["main"] = "clear" =>
                           \A k \in Keys \ {"flow"} : snap'["main"][k] = acked[k]
    BY Zenon DEF Agrees
  <2>1. ~shared /\ ~cut
    BY <1>5, Zenon
  <2>2. Loaded' = acked
    BY <1>4, <2>1, Zenon DEF UpdateInv, Agrees
  <2>3. \A k \in Keys \ upd'[t] : snap'[t][k] = acked[k]
    BY <2>1, Zenon
  <2>4. pc'["main"] = "clear" => \A k \in Keys \ {"flow"} : snap'["main"][k] = acked[k]
    BY <1>0, <1>1, <2>1, Zenon DEF UpdateInv, Agrees
  <2> QED BY <1>6, <2>2, <2>3, <2>4, Zenon DEF InUpdate
<1> QED BY <1>2, <1>7, <1>8, Zenon DEF UpdateInv
\* An update, in the mutex or turned away.
LEMMA UpdateBegin ==
  ASSUME StoreTypeOK, UpdateInv, NEW t \in Threads, NEW keys, NEW val,
         Update(t, keys, val), UNCHANGED <<acked, cut>>
  PROVE  UpdateInv'
<1>1. CASE LoadFails(t)
  <2>1. UNCHANGED <<file, open, mu, snap, upd, shared>> /\ pc' = [pc EXCEPT ![t] = After(t)]
    BY <1>1, Zenon DEF LoadFails, fileVars
  <2>2. \A u \in Threads : pc'[u] = pc[u] \/ pc'[u] \notin {"fill", "rename", "clear"}
    BY <2>1, Zenon DEF After, StoreTypeOK, ThreadsTypeOK
  <2> QED BY <2>1, <2>2, UpdateKept, StoreAssumption, Zenon
<1>2. CASE ~LoadFails(t)
  <2>1. /\ Parses /\ mu[Proc(t)] = Nobody
        /\ mu' = [mu EXCEPT ![Proc(t)] = t] /\ pc' = [pc EXCEPT ![t] = "fill"]
        /\ upd' = [upd EXCEPT ![t] = keys] /\ Create(t, TempFile)
        /\ snap' = [snap EXCEPT ![t] = Changed(keys, val)]
    BY <1>2, Zenon DEF Update
  <2>2. ~shared' => ~shared /\ ~\E u \in Threads : Proc(u) # Proc(t) /\ InUpdate(u)
    BY <1>2, Zenon DEF Update
  <2>3. ~shared /\ ~cut => \A k \in Keys \ keys : snap'[t][k] = acked[k]
    BY <2>1, Zenon DEF StoreTypeOK, ThreadsTypeOK, Changed, UpdateInv, Agrees
  <2>4. \A u \in Threads \ {t} : snap'[u] = snap[u]
    BY <2>1, Zenon DEF StoreTypeOK, ThreadsTypeOK
  <2> QED BY <2>1, <2>2, <2>3, <2>4, UpdateEnter, Zenon
<1> QED BY <1>1, <1>2, Zenon

\* The goroutine in the mutex leaves it.
LEMMA MutexLeave ==
  ASSUME StoreTypeOK, UpdateInv, NEW t \in Threads, InUpdate(t), Unlock(t)
  PROVE  /\ Mutex' /\ pc'[t] \notin {"fill", "rename", "clear"}
         /\ \A u \in Threads \ {t} : pc'[u] = pc[u] /\ snap'[u] = snap[u] /\ upd'[u] = upd[u]
<1> USE DEF StoreTypeOK, ThreadsTypeOK
<1>1. pc'[t] \notin {"fill", "rename", "clear"}
      /\ \A u \in Threads \ {t} : pc'[u] = pc[u] /\ snap'[u] = snap[u] /\ upd'[u] = upd[u]
  BY Zenon DEF Unlock, After
<1>2. Mutex'
  <2> SUFFICES ASSUME NEW u \in Threads, InUpdate(u)' PROVE mu'[Proc(u)] = u
    BY Zenon DEF Mutex
  <2>1. u # t /\ InUpdate(u)
    BY <1>1, Zenon DEF InUpdate
  <2>2. mu[Proc(u)] = u /\ mu[Proc(t)] = t
    BY <2>1, Zenon DEF UpdateInv, Mutex
  <2> QED BY <2>1, <2>2 DEF Unlock
<1> QED BY <1>1, <1>2, Zenon

\* The temporary file is whole before the rename, or the update is given up.
LEMMA UpdateFill ==
  ASSUME StoreTypeOK, UpdateInv, NEW t \in Threads, FillTemp(t)
  PROVE  UpdateInv'
<1> USE DEF StoreTypeOK, FilesTypeOK, ThreadsTypeOK
<1>0. /\ pc[t] = "fill" /\ InUpdate(t) /\ UNCHANGED <<acked, shared, cut>>
      /\ TempFile \in Names /\ "state" \in Names /\ TempFile # "state" /\ "main" \in Threads
  BY StoreAssumption, Zenon DEF FillTemp, InUpdate, history, TempFile
<1>1. CASE Fill(t, snap[t]) /\ pc' = [pc EXCEPT ![t] = "rename"] /\ UNCHANGED <<mu, snap, upd>>
  <2>1. pc'[t] = "rename" /\ \A u \in Threads \ {t} : pc'[u] = pc[u]
    BY <1>1, Zenon
  <2>2. Mutex'
    BY <1>0, <1>1, <2>1, Zenon DEF UpdateInv, Mutex, InUpdate
  <2>3. ASSUME ~shared
        PROVE  /\ file'["state"] = file["state"]
               /\ file'[TempFile] = [is |-> "whole", val |-> snap[t]]
    <3>1. open[t] = TempFile /\ file[TempFile] = Partial
      BY <1>0, <2>3, Zenon DEF UpdateInv, Apart
    <3>2. open[t] # Unlinked /\ ~Whole(open[t])
      BY <3>1 DEF TempFile, Unlinked, Whole, Partial
    <3> QED BY <1>0, <1>1, <3>1, <3>2, Zenon DEF Fill
  <2>4. ~shared => Loaded' = Loaded /\ (Parses' <=> Parses)
    BY <2>3, SameState, Zenon
  <2>5. ASSUME ~shared, NEW u \in Threads \ {t} PROVE pc'[u] \notin {"fill", "rename"}
    BY <1>0, <2>1, <2>5, Zenon DEF UpdateInv, Apart, InUpdate
  <2>6. Apart'
    BY <1>0, <1>1, <2>1, <2>3, <2>4, <2>5, Zenon DEF UpdateInv, Apart, InUpdate
  <2>7. Agrees'
    <3>1. \A u \in Threads : InUpdate(u)' => InUpdate(u)
      BY <1>0, <2>1, Zenon DEF InUpdate
    <3>2. pc'["main"] = "clear" => pc["main"] = "clear"
      BY <1>0, <2>1, Zenon
    <3> QED BY <1>0, <1>1, <2>4, <3>1, <3>2, Zenon DEF UpdateInv, Agrees
  <2> QED BY <2>2, <2>6, <2>7, Zenon DEF UpdateInv
<1>2. CASE FillFails(t) /\ Unlock(t)
  <2>1. /\ Mutex' /\ pc'[t] \notin {"fill", "rename", "clear"}
        /\ \A u \in Threads \ {t} : pc'[u] = pc[u] /\ snap'[u] = snap[u] /\ upd'[u] = upd[u]
    BY <1>0, <1>2, MutexLeave, Zenon
  <2>2. file' = file /\ \A u \in Threads \ {t} : open'[u] = open[u]
    BY <1>2, Zenon DEF FillFails
  <2>3. Loaded' = Loaded /\ (Parses' <=> Parses)
    BY <2>2, SameState, Zenon
  <2>4. Apart'
    BY <1>0, <2>1, <2>2, <2>3, Zenon DEF UpdateInv, Apart, InUpdate
  <2>5. Agrees'
    BY <1>0, <2>1, <2>3 DEF UpdateInv, Agrees, InUpdate
  <2> QED BY <2>1, <2>4, <2>5, Zenon DEF UpdateInv
<1> QED BY <1>1, <1>2, Zenon DEF FillTemp
\* The rename puts the snapshot in the place of the file.
LEMMA UpdateRename ==
  ASSUME StoreTypeOK, UpdateInv, NEW t \in Threads, Rename(t)
  PROVE  UpdateInv'
<1> USE DEF StoreTypeOK, FilesTypeOK, ThreadsTypeOK
<1>0. /\ pc[t] = "rename" /\ InUpdate(t) /\ UNCHANGED shared
      /\ TempFile \in Names /\ "state" \in Names /\ TempFile # "state" /\ "main" \in Threads
  BY StoreAssumption, Zenon DEF Rename, InUpdate, TempFile
<1>1. /\ Mutex' /\ pc'[t] \notin {"fill", "rename", "clear"}
      /\ \A u \in Threads \ {t} : pc'[u] = pc[u] /\ snap'[u] = snap[u] /\ upd'[u] = upd[u]
  BY <1>0, MutexLeave, Zenon DEF Rename
<1>2. CASE shared
  BY <1>0, <1>1, <1>2, Zenon DEF UpdateInv, Apart, Agrees
<1>3. CASE ~shared
  <2>1. file[TempFile] = [is |-> "whole", val |-> snap[t]]
    BY <1>0, <1>3, Zenon DEF UpdateInv, Apart
  <2>2. \A u \in Threads \ {t} : pc'[u] \notin {"fill", "rename"}
    BY <1>0, <1>1, <1>3, Zenon DEF UpdateInv, Apart, InUpdate
  <2>3. Exists(TempFile)
    BY <2>1 DEF Exists
  <2>4. file'["state"] = [is |-> "whole", val |-> snap[t]]
    BY <1>0, <2>1, <2>3, Zenon DEF Rename, Move
  <2>5. Parses' /\ Loaded' = snap[t]
    BY <2>4 DEF Parses, Loaded, Exists, Whole, Content
  <2>6. Apart'
    BY <1>1, <2>2, <2>5, Zenon DEF Apart, InUpdate
  <2>7. ASSUME ~cut' PROVE pc["main"] # "clear" /\ ~cut /\ Loaded' = acked'
    <3>1. cut' = (cut \/ \E u \in Threads : u # t /\ pc[u] = "clear")
      BY <2>3, Zenon DEF Rename
    <3>2. ~cut /\ ~\E u \in Threads : u # t /\ pc[u] = "clear"
      BY <2>7, <3>1, Zenon
    <3>3. acked' = [k \in Keys |-> IF k \in upd[t] THEN snap[t][k] ELSE acked[k]]
      BY <1>3, <2>3, <2>7, Zenon DEF Rename
    <3>4. \A k \in Keys \ upd[t] : snap[t][k] = acked[k]
      BY <1>0, <1>3, <3>2, Zenon DEF UpdateInv, Agrees
    <3>5. snap[t] \in [Keys -> Nat]
      BY Zenon DEF Snapshots
    <3>6. acked' = snap[t]
      BY <3>3, <3>4, <3>5, Zenon
    <3> QED BY <1>0, <2>5, <3>2, <3>6, Zenon
  <2>8. Agrees'
    BY <1>0, <1>1, <2>2, <2>7, Zenon DEF Agrees, InUpdate
  <2> QED BY <1>1, <2>6, <2>8, Zenon DEF UpdateInv
<1> QED BY <1>2, <1>3, Zenon

\* clearOldFlowStages: the snapshot it loads is the acknowledged one.
LEMMA UpdateClear ==
  ASSUME StoreTypeOK, UpdateInv, ClearLoad \/ ClearWrite
  PROVE  UpdateInv'
<1> USE DEF StoreTypeOK, FilesTypeOK, ThreadsTypeOK
<1>0. "main" \in Threads /\ Proc("main") = "replicate"
  BY StoreAssumption, Zenon DEF Proc
<1>1. CASE ClearLoad /\ Parses
  <2>1. /\ UNCHANGED <<file, open, mu, upd, acked>> /\ pc["main"] = "idle"
        /\ snap' = [snap EXCEPT !["main"] = [Loaded EXCEPT !["flow"] = 0]]
        /\ pc' = [pc EXCEPT !["main"] = "clear"]
    BY <1>1, Zenon DEF ClearLoad, Step, fileVars, history
  <2>2. (shared => shared') /\ (cut => cut')
    BY <1>1, Zenon DEF ClearLoad, history
  <2>3. pc'["main"] = "clear" /\ \A t \in Threads \ {"main"} : pc'[t] = pc[t] /\ snap'[t] = snap[t]
    BY <1>0, <2>1, Zenon
  <2>4. Loaded' = Loaded /\ (Parses' <=> Parses)
    BY <2>1, SameState, Zenon
  <2>5. \A k \in Keys \ {"flow"} : snap'["main"][k] = Loaded[k]
    BY <1>0, <1>1, <2>1, LoadedType, Zenon DEF Snapshots
  <2>6. Mutex'
    BY <2>1, <2>3, Zenon DEF UpdateInv, Mutex, InUpdate
  <2>7. Apart'
    BY <2>1, <2>2, <2>3, <2>4, Zenon DEF UpdateInv, Apart, InUpdate
  <2>8. Agrees'
    BY <2>1, <2>2, <2>3, <2>4, <2>5 DEF UpdateInv, Agrees, InUpdate
  <2> QED BY <2>6, <2>7, <2>8, Zenon DEF UpdateInv
<1>2. CASE ClearLoad /\ ~Parses
  <2>1. UNCHANGED <<file, open, mu, upd, snap, pc, acked>>
    BY <1>2, Zenon DEF ClearLoad, fileVars, history
  <2>2. (shared => shared') /\ (cut => cut')
    BY <1>2, Zenon DEF ClearLoad, history
  <2> QED BY <1>0, <2>1, <2>2, UpdateKept, Zenon
<1>3. CASE ClearWrite
  <2>1. /\ mu["replicate"] = Nobody /\ mu' = [mu EXCEPT !["replicate"] = "main"]
        /\ pc["main"] = "clear" /\ pc' = [pc EXCEPT !["main"] = "fill"]
        /\ upd' = [upd EXCEPT !["main"] = {"flow"}] /\ Create("main", TempFile)
        /\ UNCHANGED <<snap, acked>>
    BY <1>3, Zenon DEF ClearWrite
  <2>2. (cut => cut') /\ (~shared' => ~shared /\ ~InUpdate("rollback"))
    BY <1>3, Zenon DEF ClearWrite
  <2>3. ~shared' => ~shared /\ ~\E u \in Threads : Proc(u) # Proc("main") /\ InUpdate(u)
    BY <1>0, <2>2, Zenon DEF Proc
  <2>4. ~shared /\ ~cut => \A k \in Keys \ {"flow"} : snap'["main"][k] = acked[k]
    BY <2>1, Zenon DEF UpdateInv, Agrees
  <2> QED BY <1>0, <2>1, <2>2, <2>3, <2>4, UpdateEnter, Zenon
<1> QED BY <1>1, <1>2, <1>3, Zenon

\* A killed process holds nothing and writes nothing more.
LEMMA UpdateKill ==
  ASSUME StoreTypeOK, UpdateInv, Kill
  PROVE  UpdateInv'
<1> USE DEF StoreTypeOK, FilesTypeOK, ThreadsTypeOK
<1>1. /\ UNCHANGED <<file, acked>> /\ mu' = [mu EXCEPT !["replicate"] = Nobody]
      /\ \A t \in Threads : IF Proc(t) = "replicate" THEN pc'[t] \in {"idle", "select"}
                            ELSE /\ pc'[t] = pc[t] /\ snap'[t] = snap[t]
                                 /\ upd'[t] = upd[t] /\ open'[t] = open[t]
  BY Zenon DEF Kill, history
<1>2. (shared => shared') /\ (cut => cut')
  BY Zenon DEF Kill, history
<1>3. "main" \in Threads /\ Proc("main") = "replicate"
  BY StoreAssumption, Zenon DEF Proc
<1>4. Loaded' = Loaded /\ (Parses' <=> Parses)
  BY <1>1, SameState, Zenon
<1>5. Mutex'
  BY <1>1 DEF UpdateInv, Mutex, InUpdate
<1>6. Apart'
  BY <1>1, <1>2, <1>4, Zenon DEF UpdateInv, Apart, InUpdate
<1>7. Agrees'
  BY <1>1, <1>2, <1>3, <1>4 DEF UpdateInv, Agrees, InUpdate
<1> QED BY <1>5, <1>6, <1>7, Zenon DEF UpdateInv
\* Every step of the two processes keeps the updates apart.
LEMMA UpdateInvStep ==
  StoreTypeOK /\ SaveInv /\ UpdateInv /\ [StoreNext]_storeVars => UpdateInv'
<1> SUFFICES ASSUME StoreTypeOK, SaveInv, UpdateInv, [StoreNext]_storeVars PROVE UpdateInv'
  BY Zenon
<1> USE DEF fileVars, threadVars, recVars, history
<1>0. "main" \in Threads /\ "recorder" \in Threads /\ "rollback" \in Threads
  BY StoreAssumption, Zenon
<1>1. ASSUME NEW key \in {"status", "flow"}, Record(key) PROVE UpdateInv'
  BY <1>0, <1>1, UpdateBegin, Zenon DEF Record
<1>2. CASE SetSource \/ CloseRecorder \/ UNCHANGED storeVars
  <2>1. UNCHANGED <<file, open, mu, upd, snap, acked, pc>>
    BY <1>2, Zenon DEF SetSource, CloseRecorder, storeVars
  <2>2. (shared => shared') /\ (cut => cut')
    <3>1. UNCHANGED <<shared, cut>> BY <1>2, Zenon DEF SetSource, CloseRecorder, storeVars
    <3> QED BY <3>1, Zenon
  <2> QED BY <1>0, <2>1, <2>2, UpdateKept, Zenon
<1>3. CASE ClearLoad \/ ClearWrite
  BY <1>3, UpdateClear, Zenon
<1>4. CASE SaveCreate \/ SaveFill \/ SaveRename \/ SaveSet
  <2>1. UNCHANGED <<mu, upd, snap, acked>> /\ pc["main"] # "fill"
    BY <1>4, Zenon DEF SaveCreate, SaveFill, SaveRename, SaveSet, Step
  <2>2. (shared => shared') /\ (cut => cut')
    <3>1. UNCHANGED <<shared, cut>> BY <1>4, Zenon DEF SaveCreate, SaveFill, SaveRename, SaveSet
    <3> QED BY <3>1, Zenon
  <2>3. \A t \in Threads : pc'[t] = pc[t] \/ pc'[t] \notin {"fill", "rename", "clear"}
    BY <1>4, Zenon DEF SaveCreate, SaveFill, SaveRename, SaveSet, StoreTypeOK, ThreadsTypeOK
  <2>4. \A t \in Threads : open'[t] = open[t] \/ t = "main" \/ open[t] \in SaveFiles
    BY <1>4, Zenon DEF SaveCreate, SaveFill, SaveRename, SaveSet, Create, Fill, FillFails, Move, Remove,
       CheckpointTemp, SaveFiles, StoreTypeOK, FilesTypeOK
  <2>5. \A t \in Threads : pc[t] = "fill" => open'[t] = open[t]
    BY <2>1, <2>4, Zenon DEF SaveInv, SaveFiles
  <2> QED BY <1>0, <1>4, <2>1, <2>2, <2>3, <2>5, SaveElsewhere, UpdateKept, Zenon
<1>5. ASSUME NEW t \in Threads, WriteStep(t) PROVE UpdateInv'
  BY <1>5, UpdateFill, UpdateRename, Zenon DEF WriteStep
<1>6. CASE TakeBatch
  <2>1. UNCHANGED <<file, open, mu, upd, snap, acked>> /\ (shared => shared') /\ (cut => cut')
    BY <1>6, Zenon DEF TakeBatch
  <2>2. \A t \in Threads : pc'[t] = pc[t] \/ pc'[t] \notin {"fill", "rename", "clear"}
    BY <1>6, Zenon DEF TakeBatch, StoreTypeOK, ThreadsTypeOK
  <2> QED BY <1>0, <2>1, <2>2, UpdateKept, Zenon
<1>7. CASE Flush
  BY <1>0, <1>7, UpdateBegin, Zenon DEF Flush
<1>8. CASE Rollback
  BY <1>0, <1>8, UpdateBegin, Zenon DEF Rollback
<1>9. CASE Kill
  BY <1>9, UpdateKill, Zenon
<1> QED
  BY <1>0, <1>1, <1>2, <1>3, <1>4, <1>5, <1>6, <1>7, <1>8, <1>9
 , Zenon DEF StoreNext, Main, RecorderStep, RollbackStep

-----------------------------------------------------------------------------
(* The theorems *)

\* No file is there yet, and nobody writes.
LEMMA StoreInitInv == StoreInit => StoreTypeOK /\ SaveInv /\ SavedInv /\ UpdateInv
<1> SUFFICES ASSUME StoreInit PROVE StoreTypeOK /\ SaveInv /\ SavedInv /\ UpdateInv
  BY Zenon
<1> USE StoreAssumption DEF StoreInit, FilesInit
<1>1. StoreTypeOK
  BY Zenon DEF StoreTypeOK, FilesTypeOK, ThreadsTypeOK, FileStates, Places, Processes, Nobody, Empty,
     Snapshots, NoMetrics
<1>2. SaveInv
  BY DEF SaveInv, CheckpointSurvives, Exists, Absent, Unlinked
<1>3. SavedInv
  BY DEF SavedInv, NoMetrics, Metrics, Empty, Keys, Whole, Absent, TempFile
<1>4. UpdateInv
  <2>1. Loaded = acked /\ Parses
    BY Zenon DEF Loaded, Parses, Exists, Absent
  <2> QED BY <2>1, Zenon DEF UpdateInv, Mutex, Apart, Agrees, InUpdate
<1> QED BY <1>1, <1>2, <1>3, <1>4, Zenon

\* The conjunction is inductive.
LEMMA StoreInvariant == StoreSpec => [](StoreTypeOK /\ SaveInv /\ SavedInv /\ UpdateInv)
  BY StoreInitInv, TypeStep, SaveInvStep, SavedInvStep, UpdateInvStep, PTL DEF StoreSpec

\* Wherever the process is killed and whichever writes and renames fail, the
\* checkpoint file is the whole checkpoint of the last Save that returned nil
\* (checkpoint.go:62-97).
THEOREM CheckpointKept == StoreSpec => []CheckpointSurvives
<1>1. SaveInv => CheckpointSurvives
  BY Zenon DEF SaveInv
<1> QED BY <1>1, StoreInvariant, PTL

\* The dashboard is never told of a checkpoint that is not in the checkpoint file
\* (saveCheckpoint sets the metric after Save, replicator.go:1831-1858), not even
\* when two processes write the status file at once.
THEOREM SavedOnDisk == StoreSpec => []SavedIsOnDisk
<1>1. StoreTypeOK /\ SavedInv => SavedIsOnDisk
  BY LoadedSaved, Zenon DEF SavedIsOnDisk
<1> QED BY <1>1, StoreInvariant, PTL

\* The status file parses in every state and has every completed update, as long
\* as the two processes do not update it at the same time and no update completes
\* inside clearOldFlowStages (s.mu, state.go:97-199; replicator.go:2287-2311).
THEOREM UpdatesKept == StoreSpec => []NoLostUpdate
<1>1. UpdateInv => NoLostUpdate
  BY Zenon DEF UpdateInv, Apart, Agrees, NoLostUpdate
<1> QED BY <1>1, StoreInvariant, PTL

-----------------------------------------------------------------------------
(* The validation task *)

INSTANCE FiniteSetTheorems

\* The flag is up only once there is a task to cancel.
TaskInv == TaskTypeOK /\ (running => cancel \in Tasks) /\ OneTaskPerStop

\* The set of live tasks is finite.
LEMMA LiveFinite ==
  ASSUME TaskAssumption
  PROVE  IsFiniteSet(Live) /\ Cardinality(Live) \in Nat
<1>1. IsFiniteSet(Tasks)
  BY FS_Interval DEF Tasks, TaskAssumption
<1>2. IsFiniteSet(Live)
  BY <1>1, FS_Subset, Zenon DEF Live
<1> QED BY <1>2, FS_CardinalityType, Zenon

\* A start adds one live task.
LEMMA StartInv == TaskInv /\ handleCheckStart => TaskInv'
<1> SUFFICES ASSUME TaskInv, handleCheckStart PROVE TaskInv'
  BY Zenon
<1>1. TaskTypeOK'
  BY TaskAssumption DEF TaskInv, TaskTypeOK, handleCheckStart, Newest, Status, Messages, Tasks
<1>2. Live' = Live \cup {cancel + 1}
  BY TaskAssumption DEF TaskInv, TaskTypeOK, handleCheckStart, Newest, Live, Tasks
<1>3. Cardinality(Live') <= Cardinality(Live) + 1
  <2>1. IsFiniteSet(Live) /\ Cardinality(Live) \in Nat
    BY LiveFinite, TaskAssumption, Zenon
  <2>2. Cardinality(Live \cup {cancel + 1}) \in {Cardinality(Live), Cardinality(Live) + 1}
    BY <2>1, FS_AddElement, Zenon
  <2> QED BY <1>2, <2>1, <2>2
<1>4. Cardinality(Live) <= stops
  <2>1. stops \in Nat /\ ~running
    BY TaskAssumption DEF TaskInv, TaskTypeOK, handleCheckStart
  <2> QED BY <2>1 DEF TaskInv, OneTaskPerStop
<1>5. running' /\ stops' = stops /\ stops \in Nat /\ Cardinality(Live) \in Nat /\ Cardinality(Live') \in Nat
  <2>1. Cardinality(Live') \in Nat
    BY <1>2, LiveFinite, TaskAssumption, FS_AddElement, FS_CardinalityType, Zenon
  <2> QED BY <2>1, LiveFinite, TaskAssumption DEF TaskInv, TaskTypeOK, handleCheckStart
<1>6. OneTaskPerStop'
  BY <1>3, <1>4, <1>5 DEF OneTaskPerStop
<1>7. cancel' \in Tasks
  BY TaskAssumption DEF TaskInv, TaskTypeOK, handleCheckStart, Newest, Tasks
<1> QED BY <1>1, <1>6, <1>7, Zenon DEF TaskInv

\* The end of a task takes it from the live ones and clears the flag.
LEMMA DeferredInv == ASSUME NEW t \in Tasks PROVE TaskInv /\ Deferred(t) => TaskInv'
<1> SUFFICES ASSUME TaskInv, Deferred(t) PROVE TaskInv'
  BY Zenon
<1>1. TaskTypeOK'
  BY ZenonT(30) DEF TaskInv, TaskTypeOK, Deferred
<1>2. t \in Live /\ Live' = Live \ {t}
  BY Zenon DEF TaskInv, TaskTypeOK, Deferred, Live
<1>3. Cardinality(Live') = Cardinality(Live) - 1
  BY <1>2, LiveFinite, TaskAssumption, FS_RemoveElement, Zenon
<1>4. Cardinality(Live) <= stops + 1
  BY LiveFinite, TaskAssumption DEF TaskInv, TaskTypeOK, OneTaskPerStop
<1>5. ~running' /\ stops' = stops /\ stops \in Nat /\ Cardinality(Live) \in Nat
  BY LiveFinite, TaskAssumption DEF TaskInv, TaskTypeOK, Deferred
<1>6. OneTaskPerStop'
  BY <1>3, <1>4, <1>5 DEF OneTaskPerStop
<1> QED BY <1>1, <1>5, <1>6, Zenon DEF TaskInv

\* A stop frees the flag and is counted.
LEMMA StopInv == TaskInv /\ handleCheckStop => TaskInv'
<1> SUFFICES ASSUME TaskInv, handleCheckStop PROVE TaskInv'
  BY Zenon
<1>1. TaskTypeOK'
  <2>1. cancel \in Tasks
    BY Zenon DEF TaskInv, handleCheckStop
  <2>2. status' \in [Running : BOOLEAN, of : 0 .. MaxTasks, message : Messages]
    BY ZenonT(30) DEF TaskInv, TaskTypeOK, handleCheckStop, Messages
  <2>3. stops' \in 0 .. MaxStops
    BY TaskAssumption DEF TaskInv, TaskTypeOK, handleCheckStop
  <2> QED BY <2>1, <2>2, <2>3, ZenonT(30) DEF TaskInv, TaskTypeOK, handleCheckStop
<1>2. Live' = Live
  BY Zenon DEF handleCheckStop, Live
<1>3. Cardinality(Live) <= stops + 1 /\ stops' = stops + 1 /\ ~running'
  BY Zenon DEF TaskInv, OneTaskPerStop, handleCheckStop
<1>4. stops \in Nat /\ Cardinality(Live) \in Nat
  BY LiveFinite, TaskAssumption DEF TaskInv, TaskTypeOK
<1> QED BY <1>1, <1>2, <1>3, <1>4 DEF TaskInv, OneTaskPerStop

\* No other step touches the flag, the stops or who is alive.
LEMMA RestInv ==
  ASSUME NEW t \in Tasks, TaskInv,
         \/ Dial(t) \/ Report(t) \/ CheckerReturns(t) \/ Outcome(t)
         \/ updateCheckProgressFromChannel(t)
  PROVE  TaskInv'
<1>1. TaskTypeOK'
  <2>1. CASE Dial(t) BY <2>1, Zenon DEF TaskInv, TaskTypeOK, Dial
  <2>2. CASE Report(t) BY <2>2, TaskAssumption DEF TaskInv, TaskTypeOK, Report
  <2>3. CASE CheckerReturns(t) BY <2>3, Zenon DEF TaskInv, TaskTypeOK, CheckerReturns
  <2>4. CASE Outcome(t)
    <3>1. t \in 0 .. MaxTasks /\ at[t] \in Messages
      BY <2>4, TaskAssumption DEF Outcome, Tasks, Messages
    <3> QED BY <2>4, <3>1, Zenon DEF TaskInv, TaskTypeOK, Outcome, Status
  <2>5. CASE updateCheckProgressFromChannel(t)
    <3>1. t \in 0 .. MaxTasks
      BY TaskAssumption DEF Tasks
    <3>2. late' \in BOOLEAN
      BY <2>5, Zenon DEF TaskInv, TaskTypeOK, updateCheckProgressFromChannel
    <3>3. status' \in [Running : BOOLEAN, of : 0 .. MaxTasks, message : Messages]
      BY <2>5, <3>1 DEF TaskInv, TaskTypeOK, updateCheckProgressFromChannel, Status, Messages
    <3>4. chan' \in [Tasks -> 0 .. Buffer]
      BY <2>5, TaskAssumption DEF TaskInv, TaskTypeOK, updateCheckProgressFromChannel
    <3> QED
      BY <2>5, <3>2, <3>3, <3>4, Zenon DEF TaskInv, TaskTypeOK, updateCheckProgressFromChannel
  <2> QED BY <2>1, <2>2, <2>3, <2>4, <2>5, Zenon
<1>2. Live' = Live
  <2>1. CASE Dial(t) BY <2>1, Zenon DEF TaskInv, TaskTypeOK, Dial, Live
  <2>2. CASE CheckerReturns(t) BY <2>2, Zenon DEF TaskInv, TaskTypeOK, CheckerReturns, Live
  <2>3. CASE Outcome(t) BY <2>3, Zenon DEF TaskInv, TaskTypeOK, Outcome, Live
  <2>4. CASE UNCHANGED at BY <2>4, Zenon DEF Live
  <2> QED
    BY <2>1, <2>2, <2>3, <2>4, Zenon DEF Report, updateCheckProgressFromChannel
<1>3. UNCHANGED <<running, stops, cancel>>
  BY ZenonT(30) DEF Dial, Report, CheckerReturns, Outcome, updateCheckProgressFromChannel
<1> QED BY <1>1, <1>2, <1>3, Zenon DEF TaskInv, OneTaskPerStop

\* All that is used of TaskInv below is that every state satisfies it.
LEMMA TaskInvariant == TaskSpec => []TaskInv
<1>1. TaskInit => TaskInv
  <2> SUFFICES ASSUME TaskInit PROVE TaskInv
    BY Zenon
  <2>1. TaskTypeOK
    <3>1. status \in [Running : BOOLEAN, of : 0 .. MaxTasks, message : Messages]
      BY TaskAssumption DEF TaskInit, Status, Messages
    <3>2. chan \in [Tasks -> 0 .. Buffer] /\ stops \in 0 .. MaxStops /\ cancel \in 0 .. MaxTasks
      BY TaskAssumption DEF TaskInit
    <3> QED BY <3>1, <3>2, ZenonT(30) DEF TaskInit, TaskTypeOK
  <2>2. Live = {}
    BY Zenon DEF TaskInit, Live
  <2>3. Cardinality(Live) = 0 /\ stops = 0 /\ ~running
    BY <2>2, FS_EmptySet, Zenon DEF TaskInit
  <2> QED BY <2>1, <2>3 DEF TaskInv, OneTaskPerStop
<1>2. TaskInv /\ [TaskNext]_taskVars => TaskInv'
  <2> SUFFICES ASSUME TaskInv, [TaskNext]_taskVars PROVE TaskInv'
    BY Zenon
  <2>1. CASE handleCheckStart BY <2>1, StartInv, Zenon
  <2>2. CASE handleCheckStop BY <2>2, StopInv, Zenon
  <2>3. ASSUME NEW t \in Tasks, runRealCheckTask(t) PROVE TaskInv'
    BY <2>3, DeferredInv, RestInv, Zenon DEF runRealCheckTask
  <2>4. ASSUME NEW t \in Tasks, Report(t) \/ updateCheckProgressFromChannel(t) PROVE TaskInv'
    BY <2>4, RestInv, Zenon
  <2>5. CASE UNCHANGED taskVars
    <3>1. TaskTypeOK' BY <2>5, Zenon DEF TaskInv, TaskTypeOK, taskVars
    <3>2. Live' = Live /\ UNCHANGED <<running, stops, cancel>> BY <2>5, Zenon DEF Live, taskVars
    <3> QED BY <3>1, <3>2, Zenon DEF TaskInv, OneTaskPerStop
  <2> QED BY <2>1, <2>2, <2>3, <2>4, <2>5, Zenon DEF TaskNext
<1> QED BY <1>1, <1>2, PTL DEF TaskSpec

\* The validations that run at once are never more than the stop requests obeyed
\* plus the one the checkRunning flag stands for, in every execution of the
\* handlers and the task goroutines (check_handlers.go:57, 115, 151).
THEOREM ValidationsBounded == TaskSpec => []OneTaskPerStop
<1>1. TaskInv => OneTaskPerStop
  BY Zenon DEF TaskInv
<1> QED BY <1>1, TaskInvariant, PTL

-----------------------------------------------------------------------------
(* The result on the page *)

\* As long as no stop lets two tasks overlap, the flag stays up until the newest
\* task is gone, so the older ones are gone and only its copier and its own
\* outcome can write the status.
ResultInv ==
  /\ \A t \in copier : t <= cancel
  /\ stops = 0 =>
       /\ \A t \in Tasks : /\ t < cancel => at[t] = "gone"
                           /\ t > cancel => at[t] = "new"
       /\ cancel # 0 /\ at[cancel] # "gone" => running
       /\ ~late /\ cancel # 0 /\ at[cancel] \in {"defer", "gone"} =>
            status.of = cancel /\ status.message \in {"failed", "completed"}

\* The next task starts when the newest one is gone.
LEMMA StartResult ==
  ASSUME TaskInv, ResultInv, handleCheckStart
  PROVE  ResultInv'
<1>1. /\ cancel \in 0 .. MaxTasks /\ cancel < MaxTasks /\ cancel' = cancel + 1 /\ stops' = stops
      /\ copier' = copier \cup {cancel + 1} /\ at' = [at EXCEPT ![cancel + 1] = "dial"]
      /\ at \in [Tasks -> {"new", "dial", "run", "failed", "completed", "defer", "gone"}]
      /\ running' = TRUE /\ cancel + 1 \in Tasks /\ copier \subseteq Tasks
  BY TaskAssumption DEF TaskInv, TaskTypeOK, handleCheckStart, Newest, Tasks
<1>2. \A t \in copier' : t <= cancel'
  BY <1>1, TaskAssumption DEF ResultInv, Tasks
<1>3. ASSUME stops = 0
      PROVE  cancel # 0 => at[cancel] = "gone"
  BY <1>3, Zenon DEF handleCheckStart, ResultInv
<1>4. ASSUME stops = 0, NEW t \in Tasks
      PROVE  (t < cancel' => at'[t] = "gone") /\ (t > cancel' => at'[t] = "new")
  <2>1. t \in Nat \ {0}
    BY TaskAssumption DEF Tasks
  <2>2. t # cancel + 1 => at'[t] = at[t]
    BY <1>1, Zenon
  <2>3. (t < cancel => at[t] = "gone") /\ (t > cancel => at[t] = "new")
    BY <1>4, Zenon DEF ResultInv
  <2> QED BY <1>1, <1>3, <1>4, <2>1, <2>2, <2>3
<1>5. at'[cancel'] = "dial"
  BY <1>1, Zenon
<1> QED BY <1>1, <1>2, <1>4, <1>5, Zenon DEF ResultInv

\* With no stop so far, the task at work is the newest one.
LEMMA AtWork ==
  ASSUME TaskInv, ResultInv, stops = 0, NEW t \in Tasks, at[t] \notin {"new", "gone"}
  PROVE  t = cancel
<1>1. t \in Nat /\ cancel \in Nat
  BY TaskAssumption DEF TaskInv, TaskTypeOK, Tasks
<1> QED BY <1>1 DEF ResultInv

\* A task moves on; at its end the status has its own result.
LEMMA RunResult ==
  ASSUME TaskInv, ResultInv, NEW t \in Tasks, runRealCheckTask(t)
  PROVE  ResultInv'
<1>1. /\ UNCHANGED <<cancel, copier, stops, late>>
      /\ at \in [Tasks -> {"new", "dial", "run", "failed", "completed", "defer", "gone"}]
      /\ cancel \in Nat /\ t \in Nat \ {0}
  <2>1. UNCHANGED <<cancel, copier, stops, late>>
    BY Zenon DEF runRealCheckTask, Dial, CheckerReturns, Outcome, Deferred
  <2> QED BY <2>1, TaskAssumption DEF TaskInv, TaskTypeOK, Tasks
<1>2. at[t] \notin {"new", "gone"} /\ \E p : at' = [at EXCEPT ![t] = p]
  BY Zenon DEF runRealCheckTask, Dial, CheckerReturns, Outcome, Deferred
<1>3. CASE stops # 0
  BY <1>1, <1>3, Zenon DEF ResultInv
<1>4. CASE stops = 0
  <2>1. t = cancel
    BY <1>2, <1>4, AtWork, Zenon
  <2>a. running
    <3>1. cancel # 0 /\ at[cancel] # "gone"
      BY <1>1, <1>2, <2>1, Zenon
    <3> QED BY <1>4, <3>1, Zenon DEF ResultInv
  <2>2. \A u \in Tasks : (u < cancel => at'[u] = "gone") /\ (u > cancel => at'[u] = "new")
    BY <1>1, <1>2, <1>4, <2>1, Zenon DEF ResultInv, Tasks
  <2>3. CASE Dial(t) \/ CheckerReturns(t)
    <3>1. at'[t] \in {"run", "failed", "completed"} /\ running' = running
      BY <1>1, <2>3, Zenon DEF Dial, CheckerReturns
    <3>2. running'
      BY <2>a, <3>1, Zenon
    <3> QED BY <1>1, <2>1, <2>2, <3>1, <3>2, Zenon DEF ResultInv
  <2>4. CASE Outcome(t)
    <3>1. at'[t] = "defer" /\ status'.of = t /\ status'.message \in {"failed", "completed"}
      BY <1>1, <2>4, Zenon DEF Outcome, Status
    <3>2. running'
      BY <2>a, <2>4, Zenon DEF Outcome
    <3> QED BY <1>1, <2>1, <2>2, <3>1, <3>2, Zenon DEF ResultInv
  <2>5. CASE Deferred(t)
    <3>1. at[t] = "defer" /\ at'[t] = "gone"
      BY <1>1, <2>5, Zenon DEF Deferred
    <3>2. status'.of = status.of /\ status'.message = status.message
      BY <2>5, Zenon DEF Deferred, TaskInv, TaskTypeOK
    <3> QED BY <1>1, <1>4, <2>1, <2>2, <3>1, <3>2, Zenon DEF ResultInv
  <2> QED BY <2>3, <2>4, <2>5, Zenon DEF runRealCheckTask
<1> QED BY <1>3, <1>4, Zenon

\* A report copied for another task than the one at work comes late.
LEMMA CopyResult ==
  ASSUME TaskInv, ResultInv, NEW t \in Tasks, updateCheckProgressFromChannel(t)
  PROVE  ResultInv'
<1>1. /\ UNCHANGED <<running, cancel, at, stops>> /\ copier' \subseteq copier
      /\ t \in copier /\ t \in Nat \ {0} /\ cancel \in Nat
  BY TaskAssumption DEF updateCheckProgressFromChannel, TaskInv, TaskTypeOK, Tasks
<1>2. CASE stops # 0
  BY <1>1, <1>2, Zenon DEF ResultInv
<1>3. CASE stops = 0 /\ UNCHANGED <<status, late>>
  BY <1>1, <1>3, Zenon DEF ResultInv
<1>4. CASE stops = 0 /\ late' = (late \/ at[t] \in {"defer", "gone"})
  <2>1. CASE at[t] \in {"defer", "gone"}
    <3>1. late'
      BY <1>4, <2>1, Zenon
    <3> QED BY <1>1, <1>4, <3>1, Zenon DEF ResultInv
  <2>2. CASE at[t] \notin {"defer", "gone"}
    <3>1. t = cancel
      BY <1>1, <1>4, <2>2 DEF ResultInv
    <3> QED BY <1>1, <1>4, <2>2, <3>1, Zenon DEF ResultInv
  <2> QED BY <2>1, <2>2, Zenon
<1> QED BY <1>2, <1>3, <1>4, Zenon DEF updateCheckProgressFromChannel

\* What a finished task left in the status is still there when the next task
\* starts (updateCheckStatus and the deferred function of runRealCheckTask,
\* check_handlers.go:151-237), unless its copier was behind or a stop let two
\* tasks overlap.
THEOREM ResultSurvives == TaskSpec => []ResultStays
<1>1. TaskInit => ResultInv
  BY TaskAssumption DEF TaskInit, ResultInv, Tasks
<1>2. TaskInv /\ ResultInv /\ [TaskNext]_taskVars => ResultInv'
  <2> SUFFICES ASSUME TaskInv, ResultInv, [TaskNext]_taskVars PROVE ResultInv'
    BY Zenon
  <2>1. CASE handleCheckStart BY <2>1, StartResult, Zenon
  <2>2. CASE handleCheckStop
    <3>1. UNCHANGED <<copier, cancel>> /\ stops' = stops + 1 /\ stops \in Nat
      BY <2>2, TaskAssumption DEF handleCheckStop, TaskInv, TaskTypeOK
    <3> QED BY <3>1 DEF ResultInv
  <2>3. ASSUME NEW t \in Tasks, runRealCheckTask(t) PROVE ResultInv'
    BY <2>3, RunResult, Zenon
  <2>4. ASSUME NEW t \in Tasks, updateCheckProgressFromChannel(t) PROVE ResultInv'
    BY <2>4, CopyResult, Zenon
  <2>5. CASE UNCHANGED <<running, status, cancel, at, copier, stops, late>>
    BY <2>5, Zenon DEF ResultInv
  <2> QED BY <2>1, <2>2, <2>3, <2>4, <2>5, Zenon DEF TaskNext, Report, taskVars
<1>3. TaskInv /\ ResultInv => ResultStays
  BY Zenon DEF ResultInv, ResultStays, Newest
<1> QED BY <1>1, <1>2, <1>3, TaskInvariant, PTL DEF TaskSpec
==============================================================================
