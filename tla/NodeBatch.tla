------------------------------ MODULE NodeBatch ------------------------------
(* writeNodeBatch and writeSequential (internal/replica/flow_writer.go): the *)
(* flush goroutines of the FLOW writers write their batches over one shared  *)
(* RESP connection.  A batch is tried as one pipeline; when the pipeline     *)
(* fails, every entry is sent again with Do, one command after the other.    *)
(* The connection is RespClient; this module adds what the goroutines do     *)
(* with its calls and what the target does with the commands.                *)
EXTENDS RespClient

CONSTANTS Batch,     \* each goroutine's batch: the entry that each command of it belongs to
          Rejections \* the sets of commands the target may answer with an error

\* A command of a batch is named by its place in the pipeline: the commands of
\* the first entry (SET, PEXPIREAT), then those of the next.
CommandIds(c) == 1 .. Len(Batch[c])
EntryIds(c) == {Batch[c][p] : p \in CommandIds(c)}

ASSUME BatchAssumption ==
  \A c \in Callers :
    /\ Batch[c] \in Seq(Nat) /\ Len(Batch[c]) \in 1 .. MaxCmds /\ CommandIds(c) \subseteq Cmds
    /\ \A p, q \in CommandIds(c) : p <= q => Batch[c][p] <= Batch[c][q]

VARIABLES
  stage,   \* where writeNodeBatch is
  at,      \* the command writeSequential is at
  fell,    \* the pipeline has failed, writeSequential runs
  report,  \* success or failed, per entry, as the batch counts it
  rejected, \* the commands the target answers with an error (WRONGTYPE, OOM)
  lagged,  \* history: a call of the batch found unread replies on the connection
  applied  \* how often the target has executed each command without an error

batchVars == <<stage, at, fell, report, lagged, applied, rejected>>
nodeVars == <<respVars, batchVars>>

Pipelined(c) == [p \in CommandIds(c) |-> p]

NodeInit ==
  /\ RespInit
  /\ rejected \in Rejections
  /\ stage = [c \in Callers |-> "idle"]
  /\ at = [c \in Callers |-> 1]
  /\ fell = [c \in Callers |-> FALSE]
  /\ report = [c \in Callers |-> [e \in EntryIds(c) |-> "none"]]
  /\ lagged = [c \in Callers |-> FALSE]
  /\ applied = [c \in Callers |-> [p \in CommandIds(c) |-> 0]]

\* The pipeline is sent whole.
StartBatch(c) ==
  /\ stage[c] = "idle"
  /\ Begin(c, Pipelined(c))
  /\ stage' = [stage EXCEPT ![c] = "pipeline"]
  /\ UNCHANGED <<at, fell, report, lagged, applied, rejected>>

\* writeSequential, from command p on: Do for that command, or the loop has
\* ended.
Sequential(c, p) ==
  /\ at' = [at EXCEPT ![c] = p]
  /\ IF p > Len(Batch[c])
     THEN /\ stage' = [stage EXCEPT ![c] = "done"]
          /\ UNCHANGED respVars
     ELSE /\ Begin(c, <<p>>)
          /\ stage' = [stage EXCEPT ![c] = "do"]

\* A fault: the entries are written one by one after a good pipeline, too.
PipelineReturns_AlwaysAgain(c) ==
  /\ stage[c] = "pipeline" /\ pc[c] \in {"ok", "err"}
  /\ fell' = [fell EXCEPT ![c] = pc[c] = "err"]
  /\ Sequential(c, 1)
  /\ UNCHANGED <<report, lagged, applied, rejected>>

\* A result for every command, or an error and the fallback.
PipelineReturns(c) ==
  /\ stage[c] = "pipeline" /\ pc[c] \in {"ok", "err"}
  /\ IF pc[c] = "ok"
     THEN /\ report' = [report EXCEPT ![c] = [e \in EntryIds(c) |-> "ok"]]
          /\ stage' = [stage EXCEPT ![c] = "done"]
          /\ UNCHANGED <<respVars, fell, at>>
     ELSE /\ fell' = [fell EXCEPT ![c] = TRUE]
          /\ Sequential(c, 1)
          /\ UNCHANGED report
  /\ UNCHANGED <<lagged, applied, rejected>>

\* q is the first command after those of the entry of p.
NextEntry(c, p, q) ==
  /\ q \in p + 1 .. Len(Batch[c]) + 1
  /\ \A r \in p .. q - 1 : Batch[c][r] = Batch[c][p]
  /\ q \in CommandIds(c) => Batch[c][q] # Batch[c][p]

\* writeEntryWithClient: an error ends the entry; otherwise its next command
\* follows.
DoReturns(c) ==
  LET p == at[c]
      Counted(result) == report' = [report EXCEPT ![c][Batch[c][p]] = result] IN
  /\ stage[c] = "do" /\ pc[c] \in {"ok", "err"}
  /\ \/ /\ pc[c] = "ok"
        /\ Sequential(c, p + 1)
        /\ IF NextEntry(c, p, p + 1) THEN Counted("ok") ELSE UNCHANGED report
     \/ /\ pc[c] = "err"
        /\ \E q \in p + 1 .. Len(Batch[c]) + 1 : NextEntry(c, p, q) /\ Sequential(c, q)
        /\ Counted("failed")
  /\ UNCHANGED <<fell, lagged, applied, rejected>>

\* A step inside a call; the histories follow the connection.
InCall(c) ==
  /\ CallStep(c)
  /\ lagged' = [lagged EXCEPT ![c] = @ \/ (mu' = c /\ (unread > 0 \/ garbled))]
  /\ UNCHANGED <<stage, at, fell, report, applied, rejected>>

\* The target executes the command, or answers with an error.
Execute ==
  LET next == line[ready + 1]
      refused == <<next.by, next.cmd>> \in rejected IN
  /\ Serve(IF refused THEN "-" ELSE "+")
  /\ applied' = IF refused THEN applied
                ELSE [applied EXCEPT ![next.by][next.cmd] = @ + 1]
  /\ UNCHANGED <<stage, at, fell, report, lagged, rejected>>

Writer(c) == PipelineReturns(c) \/ DoReturns(c) \/ InCall(c)

NodeNext ==
  \/ \E c \in Callers : StartBatch(c) \/ Writer(c)
  \/ Execute
  \/ (CloseSwap \/ CloseStep \/ CloseWrite \/ PeerCloses \/ StreamStep) /\ UNCHANGED batchVars

\* Every call has deadlines, and Go runs what can run.  Nothing is assumed of
\* the server, the source, or whether anybody calls Close.
NodeSpec ==
  /\ NodeInit /\ [][NodeNext]_nodeVars
  /\ \A c \in Callers : WF_nodeVars(Writer(c))
  /\ WF_nodeVars(CloseStep /\ UNCHANGED batchVars)
  /\ WF_nodeVars(ReaderStep /\ UNCHANGED batchVars)

-----------------------------------------------------------------------------
\* An entry that writeNodeBatch counts as written has been executed by the
\* target, every command of it, unless a call of the batch found replies that
\* an earlier call had left on the connection (flow_writer.go:500 after
\* client.go:455): then the success it saw may be another command's.
ReportedApplied ==
  \A c \in Callers : \A p \in CommandIds(c) :
    report[c][Batch[c][p]] = "ok" /\ ~lagged[c] => applied[c][p] > 0

\* A command is executed at most once, or twice when the pipeline failed and
\* writeSequential sent everything again, what had been executed included
\* (flow_writer.go:500): RPUSH then leaves its elements twice.
TwiceOnlyAfterFailure ==
  \A c \in Callers : \A p \in CommandIds(c) :
    applied[c][p] <= IF fell[c] THEN 2 ELSE 1

\* Close waits for the mutex and gets it, and a goroutine blocked in Read, which
\* holds no mutex (client.go:198-201), is released.
CloseReleases == closed ~> (closer = "done" /\ rd \in {"idle", "ended"})
=============================================================================
