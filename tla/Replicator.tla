----------------------------- MODULE Replicator -----------------------------
(* The life of a replicator: the goroutine of Start from the handshake to    *)
(* the stream phases (of which FullSync and JournalSync are the inside),     *)
(* Stop, and the command of cli.go that runs the one and calls the other on  *)
(* an error or a signal.  Stop shares r.mainConn and r.flowConns with Start  *)
(* and takes no lock: it closes what it finds when it looks.                 *)
EXTENDS Naturals

CONSTANTS
  MaxFlows,  \* bound: FLOWs the source can ask for
  Seeds,     \* addresses of the target that are tried; 1 for a standalone target
  MaxFaults  \* bound: calls that fail while their connection is open

ASSUME ReplicatorAssumption == MaxFlows \in Nat /\ Seeds \in Nat \ {0} /\ MaxFaults \in Nat

VARIABLES
  cmd,      \* the command: migrate (SnapshotOnly) or replicate
  start,    \* where Start is
  failed,   \* Start returned an error
  n,        \* masterInfo.NumFlows
  made,     \* r.flowConns is allocated
  i, seed,  \* the FLOW, and the address of the target, Start is at
  mainConn, flowConns,
  ctx,      \* r.ctx is canceled
  stop,     \* where Stop is
  j, len,   \* the index and the length of its loops over r.flowConns
  cli, code, errCh, sig, \* the command, its exit code, the error and signal channels
  status,   \* the pipeline status in the state file
  registered, synced, \* the source: FLOWs it knows, and whether it got DFLY SYNC
  fin,      \* history: FLOW connections that were half-closed
  late,     \* history: FLOW connections stored after the context was canceled
  faults

startVars == <<start, failed, made, i, seed>>
connVars == <<mainConn, flowConns, late>>
stopVars == <<stop, j, len>>
cliVars == <<cli, code, errCh>>
sourceVars == <<registered, synced>>
fixedVars == <<cmd, n>>
vars == <<fixedVars, startVars, connVars, ctx, stopVars, cliVars, sig, status, sourceVars, fin,
          faults>>

Flows == 1 .. MaxFlows
Used == 1 .. n

\* The streams have been asked for, or are about to be.
Streaming == {"targetAuth", "sync", "snapshot", "journal"}

LifeInit ==
  /\ cmd \in {"migrate", "replicate"} /\ n \in 0 .. MaxFlows
  /\ start = "new" /\ failed = FALSE /\ made = FALSE /\ i = 1 /\ seed = 1
  /\ mainConn = "none" /\ flowConns = [f \in Flows |-> "none"] /\ late = {}
  /\ ctx = FALSE
  /\ stop = "no" /\ j = 1 /\ len = 0
  /\ cli = "select" /\ code = 0 /\ errCh = "empty" /\ sig = FALSE
  /\ status = "starting"
  /\ registered = {} /\ synced = FALSE
  /\ fin = {} /\ faults = 0

Fault == faults < MaxFaults /\ faults' = faults + 1

\* A call on a connection fails for certain once it is closed.
Usable(conn) == conn = "open" /\ UNCHANGED faults
Broken(conn) == \/ conn # "open" /\ UNCHANGED faults
                \/ conn = "open" /\ Fault

-----------------------------------------------------------------------------
(* Start *)

\* The error is recorded, and the deferred close of r.done follows.
Fail ==
  /\ start' = "returned" /\ failed' = TRUE
  /\ status' = "error"
  /\ UNCHANGED <<made, i, seed>>

Succeed ==
  /\ start' = "returned" /\ failed' = FALSE
  /\ status' = "completed"
  /\ UNCHANGED <<made, i, seed>>

Go(place) == start' = place /\ UNCHANGED <<failed, made, i, seed, status>>

\* Dial: the context counts while the connection is made, and not for the AUTH
\* and the PING that follow.
DialContext(from, to) ==
  /\ start = from
  /\ \/ ~ctx /\ Go(to) /\ UNCHANGED faults
     \/ ctx /\ Fail /\ UNCHANGED faults
     \/ Fault /\ Fail
  /\ UNCHANGED <<fixedVars, connVars, ctx, stopVars, cliVars, sig, sourceVars, fin>>

BeginStart ==
  /\ start = "new"
  /\ start' = "connect" /\ status' = "handshake"
  /\ UNCHANGED <<fixedVars, failed, made, i, seed, connVars, ctx, stopVars, cliVars, sig,
                 sourceVars, fin, faults>>

\* r.mainConn = client
connect ==
  /\ start = "mainAuth"
  /\ \/ mainConn' = "open" /\ Go("ping") /\ UNCHANGED faults
     \/ Fault /\ Fail /\ UNCHANGED mainConn
  /\ UNCHANGED <<fixedVars, flowConns, late, ctx, stopVars, cliVars, sig, sourceVars, fin>>

\* PING and REPLCONF on the main connection; an unexpected answer is a failure.
\* announceIP is never set, so that step is skipped.
handshake(from, to) ==
  /\ start = from
  /\ \/ Usable(mainConn) /\ Go(to)
     \/ Broken(mainConn) /\ Fail
  /\ UNCHANGED <<fixedVars, connVars, ctx, stopVars, cliVars, sig, sourceVars, fin>>

\* The answer to capa dragonfly has the number of FLOWs; establishFlows begins.
sendCapaDragonfly ==
  /\ start = "dragonfly"
  /\ \/ /\ Usable(mainConn)
        /\ start' = IF n = 0 THEN "target" ELSE "dial"
        /\ status' = IF n = 0 THEN "full_sync" ELSE status
        /\ made' = TRUE
        /\ UNCHANGED <<failed, i, seed>>
     \/ Broken(mainConn) /\ Fail
  /\ UNCHANGED <<fixedVars, connVars, ctx, stopVars, cliVars, sig, sourceVars, fin>>

\* r.flowConns[i] = flowConn
storeFlowConn ==
  /\ start = "auth"
  /\ \/ /\ flowConns' = [flowConns EXCEPT ![i] = "open"]
        /\ late' = IF ctx THEN late \cup {i} ELSE late
        /\ Go("register") /\ UNCHANGED faults
     \/ Fault /\ Fail /\ UNCHANGED <<flowConns, late>>
  /\ UNCHANGED <<fixedVars, mainConn, ctx, stopVars, cliVars, sig, sourceVars, fin>>

\* A fault: a FLOW that cannot be registered is skipped.
registerFlow_Continues ==
  /\ start = "register"
  /\ \/ /\ Usable(flowConns[i])
        /\ registered' = registered \cup {i}
        /\ start' = IF i < n THEN "dial" ELSE "target"
        /\ i' = IF i < n THEN i + 1 ELSE i
        /\ status' = IF i < n THEN status ELSE "full_sync"
        /\ UNCHANGED <<failed, made, seed>>
     \/ /\ Broken(flowConns[i]) /\ UNCHANGED registered
        /\ start' = IF i < n THEN "dial" ELSE "target"
        /\ i' = IF i < n THEN i + 1 ELSE i
        /\ UNCHANGED <<failed, made, seed, status>>
  /\ UNCHANGED <<fixedVars, connVars, ctx, stopVars, cliVars, sig, synced, fin>>

\* PING and DFLY FLOW on the FLOW's own connection, then the next FLOW.  After
\* the last one the handshake is over: the source's keys are estimated and the
\* old stages cleared, whether that works or not.
registerFlow ==
  /\ start = "register"
  /\ \/ /\ Usable(flowConns[i])
        /\ registered' = registered \cup {i}
        /\ start' = IF i < n THEN "dial" ELSE "target"
        /\ i' = IF i < n THEN i + 1 ELSE i
        /\ status' = IF i < n THEN status ELSE "full_sync"
        /\ UNCHANGED <<failed, made, seed>>
     \/ Broken(flowConns[i]) /\ Fail /\ UNCHANGED registered
  /\ UNCHANGED <<fixedVars, connVars, ctx, stopVars, cliVars, sig, synced, fin>>

\* The next address of the target is tried, or none is left.
NextSeed ==
  \/ seed < Seeds /\ seed' = seed + 1 /\ start' = "target" /\ UNCHANGED <<failed, made, i, status>>
  \/ seed = Seeds /\ Fail

\* DialCluster (refreshSlots and fetchSlots over the seeds) or DialStandalone.
DialTarget ==
  /\ start = "target"
  /\ \/ ~ctx /\ Go("targetAuth") /\ UNCHANGED faults
     \/ ctx /\ NextSeed /\ UNCHANGED faults
     \/ Fault /\ NextSeed
  /\ UNCHANGED <<fixedVars, connVars, ctx, stopVars, cliVars, sig, sourceVars, fin>>

TargetReplies ==
  /\ start = "targetAuth"
  /\ \/ Go("sync") /\ UNCHANGED faults
     \/ Fault /\ NextSeed
  /\ UNCHANGED <<fixedVars, connVars, ctx, stopVars, cliVars, sig, sourceVars, fin>>

sendDflySync ==
  /\ start = "sync"
  /\ \/ Usable(mainConn) /\ Go("snapshot") /\ synced' = TRUE
     \/ Broken(mainConn) /\ Fail /\ UNCHANGED synced
  /\ UNCHANGED <<fixedVars, connVars, ctx, stopVars, cliVars, sig, registered, fin>>

AllClosed == \A f \in Used : flowConns[f] = "closed"

\* receiveSnapshot succeeds only over a main connection (STARTSTABLE) and FLOWs,
\* and goes on to the journal; it or receiveJournal can fail at any time, which
\* cancels the context.
StreamSucceeds ==
  /\ start \in {"snapshot", "journal"} /\ n > 0
  /\ start = "snapshot" => mainConn = "open"
  /\ IF start = "snapshot" /\ cmd = "replicate"
     THEN /\ start' = "journal" /\ status' = "incremental"
          /\ UNCHANGED <<failed, made, i, seed>>
     ELSE Succeed
  /\ UNCHANGED <<fixedVars, connVars, ctx, stopVars, cliVars, sig, sourceVars, fin, faults>>

StreamFails ==
  /\ start \in {"snapshot", "journal"}
  /\ Fail /\ ctx' \in {ctx, TRUE}
  /\ UNCHANGED <<fixedVars, connVars, stopVars, cliVars, sig, sourceVars, fin, faults>>

\* What Start cannot put off: a stream phase ends when its connections are
\* closed (Terminates of FullSync, StopReturns of JournalSync) or it has none.
StartStep ==
  \/ BeginStart
  \/ DialContext("connect", "mainAuth") \/ connect
  \/ handshake("ping", "port") \/ handshake("port", "capa") \/ handshake("capa", "dragonfly")
  \/ sendCapaDragonfly
  \/ DialContext("dial", "auth") \/ storeFlowConn \/ registerFlow
  \/ DialTarget \/ TargetReplies \/ sendDflySync
  \/ AllClosed /\ StreamFails

-----------------------------------------------------------------------------
(* Stop *)

\* len(r.flowConns) when a loop over it begins.
Ranged == IF made THEN n ELSE 0

StopCancel ==
  /\ stop = "called"
  /\ ctx' = TRUE
  /\ stop' = "sleep"
  /\ UNCHANGED <<fixedVars, startVars, connVars, j, len, cliVars, sig, status, sourceVars, fin,
                 faults>>

\* A loop over the FLOW connections is entered.
StopRange(from, to) ==
  /\ stop = from
  /\ stop' = to /\ j' = 1 /\ len' = Ranged
  /\ UNCHANGED <<fixedVars, startVars, connVars, ctx, cliVars, sig, status, sourceVars, fin, faults>>

\* A fault: the connection is closed at once.
StopCloseWrite_Closes ==
  /\ stop = "fin" /\ j <= len
  /\ j' = j + 1
  /\ IF flowConns[j] = "open"
     THEN flowConns' = [flowConns EXCEPT ![j] = "closed"] /\ UNCHANGED fin
     ELSE UNCHANGED <<flowConns, fin>>
  /\ UNCHANGED <<fixedVars, startVars, mainConn, late, ctx, stop, len, cliVars, sig, status,
                 sourceVars, faults>>

\* if conn != nil { conn.CloseWrite() }
StopCloseWrite ==
  /\ stop = "fin" /\ j <= len
  /\ j' = j + 1
  /\ IF flowConns[j] = "open"
     THEN flowConns' = [flowConns EXCEPT ![j] = "half"] /\ fin' = fin \cup {j}
     ELSE UNCHANGED <<flowConns, fin>>
  /\ UNCHANGED <<fixedVars, startVars, mainConn, late, ctx, stop, len, cliVars, sig, status,
                 sourceVars, faults>>

StopCloseMain ==
  /\ stop = "fin" /\ j > len
  /\ mainConn' = IF mainConn = "none" THEN "none" ELSE "closed"
  /\ stop' = "main"
  /\ UNCHANGED <<fixedVars, startVars, flowConns, late, ctx, j, len, cliVars, sig, status,
                 sourceVars, fin, faults>>

\* A fault: a half-closed connection counts as closed.
StopClose_SkipsHalf ==
  /\ stop = "close" /\ j <= len
  /\ j' = j + 1
  /\ flowConns' = [flowConns EXCEPT ![j] = IF @ = "open" THEN "closed" ELSE @]
  /\ UNCHANGED <<fixedVars, startVars, mainConn, late, ctx, stop, len, cliVars, sig, status,
                 sourceVars, fin, faults>>

\* if conn != nil { conn.Close() }
StopClose ==
  /\ stop = "close" /\ j <= len
  /\ j' = j + 1
  /\ flowConns' = [flowConns EXCEPT ![j] = IF @ = "none" THEN "none" ELSE "closed"]
  /\ UNCHANGED <<fixedVars, startVars, mainConn, late, ctx, stop, len, cliVars, sig, status,
                 sourceVars, fin, faults>>

\* A fault: Stop does not wait for r.done.
StopReturns_NoWait ==
  /\ stop = "close" /\ j > len
  /\ stop' = "done" /\ status' = "stopped"
  /\ UNCHANGED <<fixedVars, startVars, connVars, ctx, j, len, cliVars, sig, sourceVars, fin, faults>>

\* <-r.done, and the status is overwritten.
StopReturns ==
  /\ stop = "close" /\ j > len
  /\ start = "returned"
  /\ stop' = "done" /\ status' = "stopped"
  /\ UNCHANGED <<fixedVars, startVars, connVars, ctx, j, len, cliVars, sig, sourceVars, fin, faults>>

StopStep ==
  \/ StopCancel \/ StopRange("sleep", "fin") \/ StopCloseWrite \/ StopCloseMain
  \/ StopRange("main", "close") \/ StopClose \/ StopReturns

-----------------------------------------------------------------------------
(* runMigrate and runReplicate *)

\* The goroutine that called Start; replicate reports only an error.
Deliver ==
  /\ start = "returned" /\ errCh = "empty"
  /\ failed \/ cmd = "migrate"
  /\ errCh' = IF failed THEN "error" ELSE "nil"
  /\ UNCHANGED <<fixedVars, startVars, connVars, ctx, stopVars, cli, code, sig, status, sourceVars,
                 fin, faults>>

Signal ==
  /\ ~sig /\ sig' = TRUE
  /\ UNCHANGED <<fixedVars, startVars, connVars, ctx, stopVars, cliVars, status, sourceVars, fin,
                 faults>>

\* A fault: the signal is not listened for.
Select_NoSignal ==
  /\ cli = "select" /\ errCh # "empty"
  /\ \/ /\ cmd = "migrate"
        /\ cli' = "exited" /\ code' \in (IF errCh = "nil" THEN {0, 1} ELSE {1})
        /\ UNCHANGED stop
     \/ /\ cmd = "replicate"
        /\ code' = 1
        /\ cli' = "stopping" /\ stop' = "called"
  /\ UNCHANGED <<fixedVars, startVars, connVars, ctx, j, len, errCh, sig, status, sourceVars, fin,
                 faults>>

\* migrate exits on the result without Stop, and with 1 as well when the check
\* of --verify fails or finds a difference; everything else stops first.
Select ==
  /\ cli = "select"
  /\ \/ /\ errCh # "empty" /\ cmd = "migrate"
        /\ cli' = "exited" /\ code' \in (IF errCh = "nil" THEN {0, 1} ELSE {1})
        /\ UNCHANGED stop
     \/ /\ \/ sig /\ code' = 0
           \/ errCh # "empty" /\ cmd = "replicate" /\ code' = 1
        /\ cli' = "stopping" /\ stop' = "called"
  /\ UNCHANGED <<fixedVars, startVars, connVars, ctx, j, len, errCh, sig, status, sourceVars, fin,
                 faults>>

Exit ==
  /\ cli = "stopping" /\ stop = "done"
  /\ cli' = "exited"
  /\ UNCHANGED <<fixedVars, startVars, connVars, ctx, stopVars, code, errCh, sig, status, sourceVars,
                 fin, faults>>

\* Nothing more happens once the process has exited.
LifeNext ==
  /\ cli # "exited"
  /\ StartStep \/ StreamSucceeds \/ StreamFails \/ StopStep \/ Deliver \/ Signal \/ Select \/ Exit

\* The calls have deadlines and the sleeps end; streams may go on for ever.
LifeSpec ==
  /\ LifeInit /\ [][LifeNext]_vars
  /\ WF_vars(cli # "exited" /\ StartStep) /\ WF_vars(cli # "exited" /\ StopStep)
  /\ WF_vars(cli # "exited" /\ Deliver) /\ WF_vars(Select) /\ WF_vars(Exit)

-----------------------------------------------------------------------------
\* The source gets DFLY SYNC only when it knows every FLOW it asked for
\* (replicator.go:613: otherwise it sends no data), whatever failed or stopped
\* before.
SyncAfterRegistration == synced => registered = Used

\* Stop can wait for Start: once it has closed the connections it found, none of
\* those that a stream phase reads is left open.  A connection that Start stores
\* behind the back of Stop's loops (replicator.go:543) never comes to carry a
\* stream: the canceled context stops Start at the next dial.
NoStreamLeftOpen ==
  stop = "close" /\ j > len /\ start \in {"snapshot", "journal"} => AllClosed

\* The status left in the file says how the process ended: stopped after Stop,
\* even when an error was recorded before (replicator.go:289 overwrites it), and
\* otherwise what Start returned.  Without Stop, exit code 0 means completed,
\* and completed that the snapshot was asked for.
FinalStatus ==
  cli = "exited" =>
    /\ status = IF stop = "done" THEN "stopped" ELSE IF failed THEN "error" ELSE "completed"
    /\ stop = "no" /\ code = 0 => status = "completed"
    /\ status = "completed" => synced /\ n > 0

\* After Stop, every FLOW the source had registered has been sent a FIN before
\* its connection was closed (replicator.go:225: an abrupt end can hang
\* Dragonfly), except one that was stored after the context was canceled.
GracefulStop ==
  stop = "done" => \A f \in registered \ late : f \in fin /\ flowConns[f] = "closed"

\* A signal ends the process, in every phase of Start (cli.go:277, 560), and so
\* does an error that Start returns, without a signal (cli.go:216, 551).
ProcessEnds == sig \/ (start = "returned" /\ failed) ~> cli = "exited"
=============================================================================
