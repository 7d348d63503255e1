------------------------------ MODULE CheckTask ------------------------------
(* The dashboard's validation task (internal/web/check_handlers.go): requests *)
(* start and stop a task, its goroutine runs the Checker (of which Run, with  *)
(* its reports, is all that is seen here), and a second goroutine copies the  *)
(* reports of the progress channel into the status that the page shows.       *)
EXTENDS Naturals, Sequences, FiniteSets

CONSTANTS
  MaxTasks, \* bound: tasks started
  MaxStops, \* bound: stop requests obeyed
  Buffer    \* capacity of the progress channel, 100 in the code

ASSUME TaskAssumption == MaxTasks \in Nat /\ MaxStops \in Nat /\ Buffer \in Nat

Tasks == 1 .. MaxTasks

VARIABLES
  running,  \* s.checkRunning
  status,   \* s.checkStatus: Running, and whose message and counts it shows
  cancel,   \* the task s.checkCancel cancels; 0 before the first
  canceled, \* the tasks whose context is done
  at,       \* where runRealCheckTask is in each task
  chan,     \* progressCh of each task
  closed,   \* tasks whose progressCh is closed
  copier,   \* tasks with a live updateCheckProgressFromChannel
  stops,    \* history: stop requests obeyed
  late      \* history: a report was copied after its task had gone

taskVars == <<running, status, cancel, canceled, at, chan, closed, copier, stops, late>>

Status(r, t, m) == [Running |-> r, of |-> t, message |-> m]
Messages == {"none", "initializing", "progress", "stopped", "failed", "completed"}

TaskInit ==
  /\ running = FALSE /\ status = Status(FALSE, 0, "none")
  /\ cancel = 0 /\ canceled = {}
  /\ at = [t \in Tasks |-> "new"]
  /\ chan = [t \in Tasks |-> 0] /\ closed = {} /\ copier = {}
  /\ stops = 0 /\ late = FALSE

\* The task of the latest start request.
Newest == cancel

\* The goroutine of a task has not gone through its deferred function.
Live == {t \in Tasks : at[t] \notin {"new", "gone"}}

-----------------------------------------------------------------------------
\* A fault: a running task does not turn the request down.
handleCheckStart_NoGuard ==
  /\ Newest < MaxTasks
  /\ LET t == Newest + 1 IN
     /\ running' = TRUE
     /\ status' = Status(TRUE, t, "initializing")
     /\ cancel' = t
     /\ at' = [at EXCEPT ![t] = "dial"]
     /\ copier' = copier \cup {t}
  /\ UNCHANGED <<canceled, chan, closed, stops, late>>

\* A request while a task is running is refused and changes nothing.
handleCheckStart ==
  /\ Newest < MaxTasks /\ ~running
  /\ LET t == Newest + 1 IN
     /\ running' = TRUE
     /\ status' = Status(TRUE, t, "initializing")
     /\ cancel' = t
     /\ at' = [at EXCEPT ![t] = "dial"]
     /\ copier' = copier \cup {t}
  /\ UNCHANGED <<canceled, chan, closed, stops, late>>

\* Only the context is canceled: the task itself goes on.
handleCheckStop ==
  /\ running /\ stops < MaxStops
  /\ canceled' = canceled \cup {cancel}
  /\ running' = FALSE
  /\ status' = [status EXCEPT !.Running = FALSE, !.message = "stopped"]
  /\ stops' = stops + 1
  /\ UNCHANGED <<cancel, at, chan, closed, copier, late>>

\* A fault: the progress channel stays open when Run cannot connect.
Dial_LeavesOpen(t) ==
  /\ at[t] = "dial"
  /\ \/ t \notin canceled /\ at' = [at EXCEPT ![t] = "run"] /\ UNCHANGED closed
     \/ at' = [at EXCEPT ![t] = "failed"] /\ UNCHANGED closed
  /\ UNCHANGED <<running, status, cancel, canceled, chan, copier, stops, late>>

\* Run looks at its context only while it connects.
Dial(t) ==
  /\ at[t] = "dial"
  /\ \/ t \notin canceled /\ at' = [at EXCEPT ![t] = "run"] /\ UNCHANGED closed
     \/ at' = [at EXCEPT ![t] = "failed"] /\ closed' = closed \cup {t}
  /\ UNCHANGED <<running, status, cancel, canceled, chan, copier, stops, late>>

\* reportProgress: a full channel drops the report.
Report(t) ==
  /\ at[t] = "run" /\ chan[t] < Buffer
  /\ chan' = [chan EXCEPT ![t] = @ + 1]
  /\ UNCHANGED <<running, status, cancel, canceled, at, closed, copier, stops, late>>

\* Run returns and the channel is closed.
CheckerReturns(t) ==
  /\ at[t] = "run"
  /\ at' = [at EXCEPT ![t] = "completed"]
  /\ closed' = closed \cup {t}
  /\ UNCHANGED <<running, status, cancel, canceled, chan, copier, stops, late>>

\* A fault: the outcome leaves the message alone.
Outcome_NoMessage(t) ==
  /\ at[t] \in {"failed", "completed"}
  /\ status' = [status EXCEPT !.Running = FALSE]
  /\ at' = [at EXCEPT ![t] = "defer"]
  /\ UNCHANGED <<running, cancel, canceled, chan, closed, copier, stops, late>>

\* updateCheckStatus writes to the status of the moment, whoever's it is.
Outcome(t) ==
  /\ at[t] \in {"failed", "completed"}
  /\ status' = Status(FALSE, t, at[t])
  /\ at' = [at EXCEPT ![t] = "defer"]
  /\ UNCHANGED <<running, cancel, canceled, chan, closed, copier, stops, late>>

\* The deferred function.
Deferred(t) ==
  /\ at[t] = "defer"
  /\ running' = FALSE
  /\ status' = [status EXCEPT !.Running = FALSE]
  /\ at' = [at EXCEPT ![t] = "gone"]
  /\ UNCHANGED <<cancel, canceled, chan, closed, copier, stops, late>>

runRealCheckTask(t) == Dial(t) \/ CheckerReturns(t) \/ Outcome(t) \/ Deferred(t)

\* Copies one report, or ends with the channel closed and empty.
updateCheckProgressFromChannel(t) ==
  /\ t \in copier
  /\ \/ /\ chan[t] > 0
        /\ chan' = [chan EXCEPT ![t] = @ - 1]
        /\ status' = Status(status.Running, t, "progress")
        /\ late' = (late \/ at[t] \in {"defer", "gone"})
        /\ UNCHANGED copier
     \/ /\ chan[t] = 0 /\ t \in closed
        /\ copier' = copier \ {t}
        /\ UNCHANGED <<chan, status, late>>
  /\ UNCHANGED <<running, cancel, canceled, at, closed, stops>>

TaskNext ==
  \/ handleCheckStart \/ handleCheckStop
  \/ \E t \in Tasks : runRealCheckTask(t) \/ Report(t) \/ updateCheckProgressFromChannel(t)

\* Goroutines run, and Checker.Run returns (RunReturns of module Checker); nobody
\* has to send a request.
TaskSpec ==
  /\ TaskInit /\ [][TaskNext]_taskVars
  /\ \A t \in Tasks : /\ WF_taskVars(runRealCheckTask(t))
                      /\ WF_taskVars(updateCheckProgressFromChannel(t))

-----------------------------------------------------------------------------
TaskTypeOK ==
  /\ running \in BOOLEAN /\ cancel \in 0 .. MaxTasks
  /\ status \in [Running : BOOLEAN, of : 0 .. MaxTasks, message : Messages]
  /\ canceled \subseteq Tasks /\ closed \subseteq Tasks /\ copier \subseteq Tasks
  /\ at \in [Tasks -> {"new", "dial", "run", "failed", "completed", "defer", "gone"}]
  /\ chan \in [Tasks -> 0 .. Buffer]
  /\ stops \in 0 .. MaxStops /\ late \in BOOLEAN

\* The checkRunning guard bounds the validations that load the two servers at
\* once: one, and one more for each stop request.  A stop frees the guard while
\* its task goes on, and what is left of that task can free the guard of the
\* next one when it ends (check_handlers.go:151), but never more than that.
OneTaskPerStop ==
  Cardinality(Live) <= stops + (IF running THEN 1 ELSE 0)

\* The result of a task stays on the page until the next start, unless a report
\* was still in the channel when the task ended (check_handlers.go:237: nobody
\* waits for the copier) or a stop let two tasks overlap.
ResultStays ==
  stops = 0 /\ ~late /\ Newest # 0 /\ at[Newest] = "gone" =>
    status.of = Newest /\ status.message \in {"failed", "completed"}

\* Once the requests end, every task and copier ends and the flags fall, however
\* the stops and the tasks overlapped.
Settles ==
  <>[](Live = {} /\ copier = {} /\ ~running /\ ~status.Running)
=============================================================================
