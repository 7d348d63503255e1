----------------------------- MODULE RespClient -----------------------------
(* One connection of the RESP client (internal/redisx/client.go) and the     *)
(* goroutines that share it.  A connection has one of two uses: a "command"  *)
(* connection carries Do, DoWithTimeout and Pipeline calls of many           *)
(* goroutines, which the mutex c.mu keeps apart; a "stream" connection (a    *)
(* FLOW after DFLY FLOW) carries one goroutine in Read, one in Write, and    *)
(* Stop in CloseWrite and Close.                                             *)
(*                                                                           *)
(* Bytes are abstracted to a line of commands: those that were written and   *)
(* whose replies nobody has taken, oldest first, the answered ones in front. *)
(* The next reply read answers the first of them, whoever asked.             *)
EXTENDS Integers, Sequences

CONSTANTS Callers,   \* goroutines that call Do, DoWithTimeout or Pipeline
          Cmds,      \* commands
          MaxCmds,   \* bound: the longest pipeline
          MaxPushed, \* bound: chunks a source pushes on a stream
          Nobody     \* the mutex is free

ASSUME BoundsAssumption == MaxCmds \in Nat /\ MaxPushed \in Nat /\ Nobody \notin Callers

VARIABLES
  use,     \* what the connection is used for
  closed,  \* c.closed
  conn,    \* the TCP connection: open, closed by Close, or broken by the peer
  fin,     \* CloseWrite has shut down the write side
  mu,      \* the holder of c.mu
  pc,      \* where each caller is; "ok" and "err" are what its last call returned
  call,    \* the call each caller is in: its commands, how many are written, replies taken
  line,    \* the commands whose replies have not been taken
  ready,   \* how many of them are answered
  garbled, \* a timeout has cut a command or a reply in two
  unread,  \* history: replies that calls gave up before taking them
  closer,  \* where the goroutine that won the swap in Close is
  rd,      \* the reader of a stream
  hb,      \* the writer of a stream
  pushed   \* chunks the source has pushed and the reader has not taken

callVars == <<pc, call, mu>>
wireVars == <<line, ready, garbled, unread>>
closeVars == <<closed, conn, fin, closer>>
streamVars == <<rd, hb, pushed>>
respVars == <<use, callVars, wireVars, closeVars, streamVars>>

Idle == {"ready", "ok", "err"}
Pending == [by : Callers, cmd : Cmds, reply : {"none", "+", "-"}]
CallState == [cmds : Seq(Cmds), wrote : Nat, got : Nat]
NoCall == [cmds |-> <<>>, wrote |-> 0, got |-> 0]

RespInit ==
  /\ use \in {"command", "stream"}
  /\ closed = FALSE /\ conn = "open" /\ fin = FALSE /\ closer = "idle"
  /\ mu = Nobody
  /\ pc = [c \in Callers |-> "ready"]
  /\ call = [c \in Callers |-> NoCall]
  /\ line = <<>> /\ ready = 0 /\ garbled = FALSE /\ unread = 0
  /\ rd = "idle" /\ hb = "idle" /\ pushed = 0

-----------------------------------------------------------------------------
(* Do, DoWithTimeout and Pipeline; the first two are calls of one command.   *)

\* The check of the closed flag, before the mutex is taken.
Begin(c, cmds) ==
  /\ use = "command" /\ pc[c] \in Idle
  /\ pc' = [pc EXCEPT ![c] = IF closed THEN "err" ELSE "lock"]
  /\ call' = [call EXCEPT ![c] = IF closed THEN NoCall ELSE [NoCall EXCEPT !.cmds = cmds]]
  /\ UNCHANGED <<use, mu, wireVars, closeVars, streamVars>>

\* The deferred unlock, with the result and what the call leaves unread.
Return(c, result, wrote, got) ==
  /\ mu' = Nobody
  /\ pc' = [pc EXCEPT ![c] = result]
  /\ call' = [call EXCEPT ![c] = NoCall]
  /\ unread' = unread + wrote - got

\* The first k commands of the call leave.
Written(c, k) ==
  line' = line \o [i \in 1 .. k |-> [by |-> c, cmd |-> call[c].cmds[i], reply |-> "none"]]

\* A fault: the mutex is not waited for.
WriteCommands_NoLock(c) ==
  /\ pc[c] = "lock" /\ conn = "open"
  /\ mu' = c
  /\ Written(c, Len(call[c].cmds))
  /\ call' = [call EXCEPT ![c].wrote = Len(call[c].cmds)]
  /\ pc' = [pc EXCEPT ![c] = "read"]
  /\ UNCHANGED <<use, ready, garbled, unread, closeVars, streamVars>>

\* c.mu is taken, every conn.Write of the loop succeeds, and the read deadline
\* is set.  Nobody else touches the connection meanwhile: one step.
WriteCommands(c) ==
  /\ pc[c] = "lock" /\ mu = Nobody /\ conn = "open"
  /\ mu' = c
  /\ Written(c, Len(call[c].cmds))
  /\ call' = [call EXCEPT ![c].wrote = Len(call[c].cmds)]
  /\ pc' = [pc EXCEPT ![c] = "read"]
  /\ UNCHANGED <<use, ready, garbled, unread, closeVars, streamVars>>

\* A conn.Write fails: the connection is gone, or the deadline passes when k
\* commands, or k and a part of the next, have been written.
WriteFails(c) ==
  /\ pc[c] = "lock" /\ mu = Nobody
  /\ \E k \in 0 .. Len(call[c].cmds) - 1 :
       /\ conn # "open" => k = 0
       /\ Written(c, k)
       /\ Return(c, "err", k, 0)
  /\ garbled' \in IF conn = "open" THEN {garbled, TRUE} ELSE {garbled}
  /\ UNCHANGED <<use, ready, closeVars, streamVars>>

\* A fault: an error reply counts as a result like any other.
ReadReply_ErrorIsValue(c) ==
  /\ pc[c] = "read" /\ ready > 0 /\ ~garbled /\ conn # "closed"
  /\ line' = Tail(line) /\ ready' = ready - 1
  /\ IF call[c].got + 1 = Len(call[c].cmds)
     THEN Return(c, "ok", call[c].wrote, call[c].got + 1)
     ELSE /\ call' = [call EXCEPT ![c].got = @ + 1]
          /\ UNCHANGED <<mu, pc, unread>>
  /\ UNCHANGED <<use, garbled, closeVars, streamVars>>

\* readReply takes the next reply of the connection, whoever it is for.  An
\* error reply ends the call at once, a pipeline's too.
ReadReply(c) ==
  /\ pc[c] = "read" /\ ready > 0 /\ ~garbled /\ conn # "closed"
  /\ line' = Tail(line) /\ ready' = ready - 1
  /\ IF Head(line).reply = "-"
     THEN Return(c, "err", call[c].wrote, call[c].got + 1)
     ELSE IF call[c].got + 1 = Len(call[c].cmds)
     THEN Return(c, "ok", call[c].wrote, call[c].got + 1)
     ELSE /\ call' = [call EXCEPT ![c].got = @ + 1]
          /\ UNCHANGED <<mu, pc, unread>>
  /\ UNCHANGED <<use, garbled, closeVars, streamVars>>

\* The read deadline passes, or the connection has ended, when nothing of the
\* reply has arrived, or a part of it, which is lost.
ReadFails(c) ==
  /\ pc[c] = "read"
  /\ Return(c, "err", call[c].wrote, call[c].got)
  /\ garbled' = (garbled \/ ready > 0)
  /\ UNCHANGED <<use, line, ready, closeVars, streamVars>>

\* After a cut the bytes that follow are taken for any reply, or for none.
ReadGarbage(c) ==
  /\ pc[c] = "read" /\ garbled /\ conn # "closed"
  /\ Return(c, "ok", call[c].wrote, Len(call[c].cmds))
  /\ UNCHANGED <<use, line, ready, garbled, closeVars, streamVars>>

CallStep(c) ==
  \/ WriteCommands(c) \/ WriteFails(c)
  \/ ReadReply(c) \/ ReadFails(c) \/ ReadGarbage(c)

\* The server executes the next command and answers it.  After a cut command it
\* may find no further command in what it gets: no fairness is assumed here.
Serve(answer) ==
  /\ ready < Len(line)
  /\ line' = [line EXCEPT ![ready + 1].reply = answer]
  /\ ready' = ready + 1
  /\ UNCHANGED <<use, callVars, garbled, unread, closeVars, streamVars>>

-----------------------------------------------------------------------------
(* Close and CloseWrite *)

CloseSwap ==
  /\ ~closed
  /\ closed' = TRUE /\ closer' = "lock"
  /\ UNCHANGED <<use, callVars, wireVars, conn, fin, streamVars>>

\* c.mu is taken and released only to read c.conn, but a call may hold it.
CloseLock ==
  /\ closer = "lock" /\ mu = Nobody
  /\ closer' = "close"
  /\ UNCHANGED <<use, callVars, wireVars, closed, conn, fin, streamVars>>

CloseConn ==
  /\ closer = "close"
  /\ conn' = "closed" /\ closer' = "done"
  /\ UNCHANGED <<use, callVars, wireVars, closed, fin, streamVars>>

CloseWrite ==
  /\ use = "stream" /\ mu = Nobody /\ conn = "open" /\ ~fin
  /\ fin' = TRUE
  /\ UNCHANGED <<use, callVars, wireVars, closed, conn, closer, streamVars>>

\* The source ends the stream; what it has sent can still be read.  On a command
\* connection the end of the peer is a server that answers no more: every call
\* fails as after a timeout.
PeerCloses ==
  /\ use = "stream" /\ conn = "open"
  /\ conn' = "broken"
  /\ UNCHANGED <<use, callVars, wireVars, closed, fin, closer, streamVars>>

-----------------------------------------------------------------------------
(* Read and Write on a stream *)

ReadCheck ==
  /\ use = "stream" /\ rd = "idle"
  /\ rd' = IF closed THEN "ended" ELSE "deadline"
  /\ UNCHANGED <<use, callVars, wireVars, closeVars, hb, pushed>>

\* A fault: the mutex is held while Read blocks.
ReadDeadline_KeepsLock ==
  /\ rd = "deadline" /\ mu = Nobody
  /\ rd' = IF conn = "closed" THEN "ended" ELSE "blocked"
  /\ mu' = CHOOSE c \in Callers : TRUE
  /\ UNCHANGED <<use, pc, call, wireVars, closeVars, hb, pushed>>

\* The mutex is taken for the deadline and released before the read blocks.
ReadDeadline ==
  /\ rd = "deadline" /\ mu = Nobody
  /\ rd' = IF conn = "closed" THEN "ended" ELSE "blocked"
  /\ UNCHANGED <<use, callVars, wireVars, closeVars, hb, pushed>>

ReadData ==
  /\ rd = "blocked" /\ pushed > 0 /\ conn # "closed"
  /\ pushed' = pushed - 1 /\ rd' = "idle"
  /\ UNCHANGED <<use, callVars, wireVars, closeVars, hb>>

ReadEnds ==
  /\ rd = "blocked"
  /\ conn = "closed" \/ (conn = "broken" /\ pushed = 0)
  /\ rd' = "ended"
  /\ UNCHANGED <<use, callVars, wireVars, closeVars, hb, pushed>>

WriteCheck ==
  /\ use = "stream" /\ hb = "idle" /\ ~closed
  /\ hb' = "write"
  /\ UNCHANGED <<use, callVars, wireVars, closeVars, rd, pushed>>

\* conn.Write without the mutex: it succeeds, or its deadline of 5 s passes.
WriteReturns ==
  /\ hb = "write"
  /\ hb' = "idle"
  /\ UNCHANGED <<use, callVars, wireVars, closeVars, rd, pushed>>

SourcePushes ==
  /\ use = "stream" /\ conn = "open" /\ pushed < MaxPushed
  /\ pushed' = pushed + 1
  /\ UNCHANGED <<use, callVars, wireVars, closeVars, rd, hb>>

CloseStep == CloseLock \/ CloseConn
ReaderStep == ReadCheck \/ ReadDeadline \/ ReadData \/ ReadEnds
StreamStep == ReaderStep \/ WriteCheck \/ WriteReturns \/ SourcePushes

RespNext ==
  \/ \E c \in Callers : CallStep(c) \/ \E n \in 1 .. MaxCmds : \E cmds \in [1 .. n -> Cmds] : Begin(c, cmds)
  \/ \E answer \in {"+", "-"} : Serve(answer)
  \/ CloseSwap \/ CloseStep \/ CloseWrite \/ PeerCloses
  \/ StreamStep

RespSpec == RespInit /\ [][RespNext]_respVars

-----------------------------------------------------------------------------
\* The first u commands of line l were left behind; the others are those of
\* call k of caller c whose replies it has not taken.
Behind(l, u, k, c) ==
  /\ Len(l) = u + k.wrote - k.got
  /\ \A i \in 1 .. Len(l) : i > u => l[i].by = c /\ l[i].cmd = k.cmds[k.got + i - u]

\* What the holder of the mutex has still to take, and before it the replies
\* that earlier calls left behind (Pipeline returns at the first error reply
\* and at a timeout, client.go:455), are all there is on the line: a call reads
\* its own replies when nothing was left behind, whatever the interleaving of
\* the callers, and a reply left behind puts every later call out of step.
ReplyOffset ==
  ~garbled /\ conn = "open" =>
    \A c \in Callers : pc[c] = "read" => Behind(line, unread, call[c], c)
=============================================================================
