-------------------------- MODULE RespClientProofs --------------------------
(* Every caller of a shared RESP connection reads its own replies, behind    *)
(* those that earlier calls left, for any number of callers and commands;    *)
(* and what writeNodeBatch reports and sends twice over such a connection,   *)
(* for any batches.                                                          *)
EXTENDS NodeBatch, TLAPS

\* The mutex is held exactly between the write and the last read of a call.
LockHeld ==
  /\ mu \in Callers \cup {Nobody}
  /\ pc \in [Callers -> Idle \cup {"lock", "read"}]
  /\ \A c \in Callers : pc[c] = "read" <=> mu = c

\* The call of a caller: nothing is written before the mutex is held, and
\* everything when it reads.
CallShape ==
  /\ call \in [Callers -> CallState]
  /\ \A c \in Callers :
       /\ pc[c] # "read" => call[c].wrote = 0 /\ call[c].got = 0
       /\ pc[c] = "lock" => Len(call[c].cmds) > 0
       /\ pc[c] = "read" => call[c].wrote = Len(call[c].cmds) /\ call[c].got < call[c].wrote

\* The line between two calls: what was left behind, and nothing else.
LineShape ==
  /\ line \in Seq(Pending) /\ ready \in 0 .. Len(line)
  /\ garbled \in BOOLEAN /\ unread \in Int
  /\ ~garbled => unread >= 0
  /\ ~garbled /\ conn = "open" /\ mu = Nobody => Len(line) = unread

RespInv == LockHeld /\ CallShape /\ LineShape /\ ReplyOffset

USE BoundsAssumption

LEMMA InitInv == RespInit => RespInv
<1> SUFFICES ASSUME RespInit PROVE RespInv
  BY Zenon
<1> USE DEF RespInit
<1>1. LockHeld
  BY Zenon DEF LockHeld, Idle
<1>2. CallShape
  BY DEF CallShape, CallState, NoCall
<1>3. LineShape
  <2>1. line \in Seq(Pending) /\ Len(line) = 0
    BY DEF Pending
  <2>2. ready \in 0 .. Len(line) /\ unread \in Int /\ unread >= 0 /\ Len(line) = unread
    BY <2>1
  <2>3. garbled \in BOOLEAN
    BY Zenon
  <2> QED BY <2>1, <2>2, <2>3, Zenon DEF LineShape
<1>4. ReplyOffset
  BY Zenon DEF ReplyOffset
<1> QED BY <1>1, <1>2, <1>3, <1>4, Zenon DEF RespInv

\* The commands a call appends to the line.
Appended(c, k) == [i \in 1 .. k |-> [by |-> c, cmd |-> call[c].cmds[i], reply |-> "none"]]

LEMMA AppendedShape ==
  ASSUME NEW c \in Callers, NEW k \in Nat, CallShape, line \in Seq(Pending),
         k <= Len(call[c].cmds), Written(c, k)
  PROVE  /\ line' \in Seq(Pending) /\ Len(line') = Len(line) + k
         /\ \A i \in 1 .. Len(line) : line'[i] = line[i]
         /\ \A i \in Len(line) + 1 .. Len(line') :
              line'[i].by = c /\ line'[i].cmd = call[c].cmds[i - Len(line)]
<1> DEFINE app == Appended(c, k)
<1>1. call[c].cmds \in Seq(Cmds)
  BY Zenon DEF CallShape, CallState
<1>2. \A i \in 1 .. k : call[c].cmds[i] \in Cmds
  BY <1>1
<1>3. app \in Seq(Pending) /\ Len(app) = k
  <2>1. app \in [1 .. k -> Pending]
    BY <1>2, Zenon DEF Appended, Pending
  <2> QED BY <2>1
<1>4. \A i \in 1 .. k : app[i].by = c /\ app[i].cmd = call[c].cmds[i]
  BY Zenon DEF Appended
<1>5. line' = line \o app
  BY Zenon DEF Written, Appended
<1> HIDE DEF app
<1>6. Len(line) \in Nat
  BY SMT
<1>7. /\ line' \in Seq(Pending) /\ Len(line') = Len(line) + k
      /\ \A i \in 1 .. Len(line) + k : line'[i] = IF i <= Len(line) THEN line[i] ELSE app[i - Len(line)]
  <2>1. line \o app \in Seq(Pending) /\ Len(line \o app) = Len(line) + Len(app)
    <3>1. \A S : \A s, t \in Seq(S) : s \o t \in Seq(S) /\ Len(s \o t) = Len(s) + Len(t)
      BY SMT
    <3> QED BY <1>3, <3>1, Zenon
  <2>2. \A i \in 1 .. Len(line) + Len(app) :
           (line \o app)[i] = IF i <= Len(line) THEN line[i] ELSE app[i - Len(line)]
    BY <1>3, <1>6
  <2> QED BY <1>3, <1>5, <2>1, <2>2, Zenon
<1>8. \A i \in 1 .. Len(line) : line'[i] = line[i]
  BY <1>6, <1>7
<1>9. \A i \in Len(line) + 1 .. Len(line') : i - Len(line) \in 1 .. k /\ line'[i] = app[i - Len(line)]
  BY <1>6, <1>7
<1> QED BY <1>4, <1>7, <1>8, <1>9, SMTT(30)

\* A step that leaves the line and the calls that read alone.
LEMMA OffsetKept ==
  ASSUME ReplyOffset, line' = line, unread' = unread, garbled' = garbled,
         conn' = "open" => conn = "open",
         \A d \in Callers : pc'[d] = "read" => pc[d] = "read" /\ call'[d] = call[d]
  PROVE  ReplyOffset'
  BY Zenon DEF ReplyOffset

LEMMA BeginInv ==
  ASSUME RespInv, NEW c \in Callers, NEW n \in 1 .. MaxCmds, NEW cmds \in [1 .. n -> Cmds], Begin(c, cmds)
  PROVE  RespInv'
<1>1. cmds \in Seq(Cmds) /\ Len(cmds) > 0
  OBVIOUS
<1> USE DEF Begin, wireVars, closeVars
<1>2. LockHeld'
  BY Zenon DEF RespInv, LockHeld, Idle
<1>3. pc[c] # "read"
  BY Zenon DEF Idle
<1>4. CallShape'
  BY <1>1, <1>3 DEF RespInv, CallShape, LockHeld, CallState, NoCall, Idle
<1>5. LineShape'
  BY Zenon DEF RespInv, LineShape
<1>6. \A d \in Callers : pc'[d] = "read" => pc[d] = "read" /\ call'[d] = call[d]
  BY Zenon DEF RespInv, LockHeld, CallShape
<1>8. ReplyOffset'
  BY <1>6, OffsetKept, Zenon DEF RespInv
<1> QED BY <1>2, <1>4, <1>5, <1>8, Zenon DEF RespInv

LEMMA WriteInv ==
  ASSUME RespInv, NEW c \in Callers, WriteCommands(c)
  PROVE  RespInv'
<1> USE DEF WriteCommands, closeVars
<1>1. Len(call[c].cmds) \in Nat /\ Len(call[c].cmds) > 0
  BY DEF RespInv, CallShape, CallState
<1>2. LockHeld'
  BY Zenon DEF RespInv, LockHeld
<1>3. CallShape'
  BY <1>1, ZenonT(30) DEF RespInv, CallShape, CallState, LockHeld
<1>4. /\ line' \in Seq(Pending) /\ Len(line') = Len(line) + Len(call[c].cmds)
      /\ \A i \in Len(line) + 1 .. Len(line') :
           line'[i].by = c /\ line'[i].cmd = call[c].cmds[i - Len(line)]
  <2>1. /\ CallShape /\ line \in Seq(Pending)
        /\ Written(c, Len(call[c].cmds)) /\ Len(call[c].cmds) <= Len(call[c].cmds)
    BY <1>1 DEF RespInv, LineShape
  <2> QED BY <1>1, <2>1, AppendedShape, SMTT(30)
<1>5. LineShape'
  BY <1>1, <1>4 DEF RespInv, LineShape
<1>6. ReplyOffset'
  <2> SUFFICES ASSUME ~garbled', conn' = "open", NEW d \in Callers, pc'[d] = "read"
               PROVE  Behind(line', unread', call'[d], d)
    BY Zenon DEF ReplyOffset
  <2>1. d = c
    BY <1>2, Zenon DEF LockHeld
  <2>2. Len(line) = unread /\ unread \in Int
    BY Zenon DEF RespInv, LineShape
  <2>3. pc[c] # "read"
    BY Zenon
  <2>4. call[c].got = 0
    BY <2>3, Zenon DEF RespInv, CallShape
  <2>5. /\ call'[c].wrote = Len(call[c].cmds)
        /\ call'[c].cmds = call[c].cmds
        /\ call'[c].got = 0
    BY <2>4, Zenon DEF RespInv, CallShape, CallState
  <2>6. Len(line') = unread' + call'[c].wrote - call'[c].got
    BY <1>1, <1>4, <2>2, <2>5
  <2>7. ASSUME NEW i \in 1 .. Len(line'), i > unread'
        PROVE  line'[i].by = c /\ line'[i].cmd = call'[c].cmds[call'[c].got + i - unread']
    <3>1. i \in Len(line) + 1 .. Len(line') /\ 0 + i - unread' = i - Len(line)
      BY <1>1, <1>4, <2>2, <2>7
    <3> QED BY <1>4, <2>5, <3>1, SMTT(30)
  <2> QED BY <2>1, <2>6, <2>7, Zenon DEF Behind
<1> QED BY <1>2, <1>3, <1>5, <1>6, Zenon DEF RespInv

\* The end of a call, when the line holds what the call and the earlier ones
\* leave unread.
LEMMA ReturnInv ==
  ASSUME RespInv, NEW c \in Callers, NEW result \in {"ok", "err"}, NEW wrote, NEW got,
         Return(c, result, wrote, got), mu \in {c, Nobody},
         line' \in Seq(Pending), ready' \in 0 .. Len(line'),
         garbled' \in BOOLEAN, unread' \in Int,
         ~garbled' => unread' >= 0,
         ~garbled' /\ conn' = "open" => Len(line') = unread'
  PROVE  RespInv'
<1> USE DEF Return
<1>1. LockHeld'
  BY Zenon DEF RespInv, LockHeld, Idle
<1>2. CallShape'
  BY DEF RespInv, CallShape, CallState, NoCall, LockHeld
<1>3. LineShape'
  BY Zenon DEF LineShape
<1>4. \A d \in Callers : pc'[d] # "read"
  BY <1>1, Zenon DEF LockHeld
<1>5. ReplyOffset'
  BY <1>4, Zenon DEF ReplyOffset
<1> QED BY <1>1, <1>2, <1>3, <1>5, Zenon DEF RespInv

LEMMA WriteFailsInv ==
  ASSUME RespInv, NEW c \in Callers, WriteFails(c)
  PROVE  RespInv'
<1>1. PICK k \in 0 .. Len(call[c].cmds) - 1 : Written(c, k) /\ Return(c, "err", k, 0)
  BY Zenon DEF WriteFails
<1>2. Len(call[c].cmds) \in Nat /\ k \in Nat /\ k <= Len(call[c].cmds)
  BY DEF RespInv, CallShape, CallState
<1>3. line' \in Seq(Pending) /\ Len(line') = Len(line) + k
  BY <1>1, <1>2, AppendedShape, Zenon DEF RespInv, LineShape
<1>4. /\ mu = Nobody /\ ready' = ready /\ conn' = conn
      /\ garbled' \in {garbled, TRUE} /\ unread' = unread + k - 0
  BY <1>1, ZenonT(30) DEF WriteFails, Return, closeVars
<1>5. Len(line) \in Nat /\ ready' \in 0 .. Len(line') /\ unread' \in Int
  BY <1>2, <1>3, <1>4 DEF RespInv, LineShape
<1>6. garbled' \in BOOLEAN /\ (~garbled' => ~garbled)
  BY <1>4, Zenon DEF RespInv, LineShape
<1>7. ~garbled => unread' >= 0
  BY <1>2, <1>4 DEF RespInv, LineShape
<1>8. ~garbled /\ conn' = "open" => Len(line') = unread'
  BY <1>2, <1>3, <1>4 DEF RespInv, LineShape
<1> QED BY <1>1, <1>3, <1>4, <1>5, <1>6, <1>7, <1>8, ReturnInv, Zenon

\* Taking the first reply shifts the line by one.
LEMMA TailShape ==
  ASSUME RespInv, ready > 0, line' = Tail(line), ready' = ready - 1
  PROVE  /\ line' \in Seq(Pending) /\ Len(line') \in Nat /\ Len(line) \in Nat
         /\ Len(line') = Len(line) - 1
         /\ \A i \in 1 .. Len(line') : line'[i] = line[i + 1]
         /\ ready' \in 0 .. Len(line')
<1>1. line \in Seq(Pending) /\ ready \in 0 .. Len(line) /\ Len(line) \in Nat
  BY DEF RespInv, LineShape
<1>2. line # <<>>
  BY <1>1
<1> QED BY <1>1, <1>2

LEMMA ReadReplyInv ==
  ASSUME RespInv, NEW c \in Callers, ReadReply(c)
  PROVE  RespInv'
<1>1. /\ line' \in Seq(Pending) /\ Len(line') \in Nat /\ Len(line) \in Nat
      /\ Len(line') = Len(line) - 1
      /\ \A i \in 1 .. Len(line') : line'[i] = line[i + 1]
      /\ ready' \in 0 .. Len(line')
  BY TailShape, Zenon DEF ReadReply
<1>2. mu = c /\ conn' = conn /\ unread \in Int /\ unread >= 0
  BY Zenon DEF RespInv, LockHeld, LineShape, closeVars, ReadReply
<1>3. /\ call[c].cmds \in Seq(Cmds) /\ call[c].got \in Nat /\ call[c].wrote \in Nat
      /\ call[c].wrote = Len(call[c].cmds) /\ call[c].got < call[c].wrote
  BY Zenon DEF RespInv, CallShape, CallState, ReadReply
<1>4. conn = "open" => Behind(line, unread, call[c], c)
  BY <1>2, Zenon DEF RespInv, ReplyOffset, ReadReply
<1>5. garbled' \in BOOLEAN
  BY Zenon DEF RespInv, LineShape, ReadReply
<1>6. Len(line') = Len(line) - 1 /\ Len(line) \in Nat
  BY <1>1, Zenon
<1>7. call[c].got \in Nat /\ call[c].wrote \in Nat
  BY <1>3, Zenon
<1>8. ASSUME NEW result \in {"ok", "err"}, Return(c, result, call[c].wrote, call[c].got + 1)
      PROVE  RespInv'
  <2>1. unread' = unread + call[c].wrote - (call[c].got + 1)
    BY <1>8, Zenon DEF Return
  <2>2. unread' \in Int /\ unread' >= 0
    BY <2>1, <1>2, <1>3
  <2>3. conn' = "open" => Len(line') = unread'
    <3> SUFFICES ASSUME conn = "open" PROVE Len(line') = unread'
      BY <1>2, Zenon
    <3>1. Len(line) = unread + call[c].wrote - call[c].got
      BY <1>4, Zenon DEF Behind
    <3>2. unread \in Int
      BY <1>2, Zenon
    <3>3. Len(line) \in Int /\ call[c].wrote \in Int /\ call[c].got \in Int
      BY <1>6, <1>7
    <3>4. Len(line) - 1 = unread + call[c].wrote - (call[c].got + 1)
      BY <3>1, <3>2, <3>3, SMTT(30)
    <3> QED BY <1>6, <2>1, <3>4, Zenon
  <2> QED BY <1>1, <1>2, <1>5, <1>8, <2>2, <2>3, ReturnInv, Zenon
<1>9. CASE /\ call' = [call EXCEPT ![c].got = @ + 1]
           /\ call[c].got + 1 # Len(call[c].cmds)
           /\ UNCHANGED <<mu, pc, unread>>
  <2>1. LockHeld'
    BY <1>9, Zenon DEF RespInv, LockHeld
  <2>2. /\ call'[c].cmds = call[c].cmds /\ call'[c].wrote = call[c].wrote
        /\ call'[c].got = call[c].got + 1
        /\ \A d \in Callers : d # c => call'[d] = call[d]
        /\ call' \in [Callers -> CallState]
    BY <1>3, <1>9 DEF RespInv, CallShape, CallState
  <2>3. CallShape'
    BY <1>2, <1>3, <1>9, <2>2 DEF RespInv, CallShape, LockHeld
  <2>4. mu' # Nobody
    BY <1>2, <1>9, Zenon
  <2>5. LineShape'
    BY <1>1, <1>2, <1>5, <1>9, <2>4, Zenon DEF LineShape
  <2>6. ReplyOffset'
    <3> SUFFICES ASSUME conn' = "open", NEW d \in Callers, pc'[d] = "read"
                 PROVE  Behind(line', unread', call'[d], d)
      BY Zenon DEF ReplyOffset
    <3>1. d = c
      BY <1>2, <1>9, <2>1, Zenon DEF LockHeld
    <3>2. Behind(line, unread, call[c], c)
      BY <1>2, <1>4, Zenon
    <3>3. Len(line') = unread' + call'[c].wrote - call'[c].got
      <4>1. Len(line) = unread + call[c].wrote - call[c].got
        BY <3>2, Zenon DEF Behind
      <4>2. unread' = unread /\ call'[c].wrote = call[c].wrote /\ call'[c].got = call[c].got + 1
        BY <1>9, <2>2, Zenon
      <4> QED BY <1>2, <1>6, <1>7, <4>1, <4>2, SMTT(30)
    <3>4. ASSUME NEW i \in 1 .. Len(line'), i > unread'
          PROVE  /\ line'[i].by = c
                 /\ line'[i].cmd = call'[c].cmds[call'[c].got + i - unread']
      <4>1. /\ i + 1 \in 1 .. Len(line) /\ i + 1 > unread
            /\ call[c].got + (i + 1) - unread = call'[c].got + i - unread'
        <5>1. unread' = unread /\ call'[c].got = call[c].got + 1
          BY <1>9, <2>2, Zenon
        <5> QED BY <1>2, <1>6, <1>7, <3>4, <5>1
      <4>2. line[i + 1].by = c /\ line[i + 1].cmd = call[c].cmds[call[c].got + (i + 1) - unread]
        BY <3>2, <4>1, Zenon DEF Behind
      <4> QED BY <1>1, <2>2, <4>1, <4>2, Zenon
    <3> QED BY <3>1, <3>3, <3>4, Zenon DEF Behind
  <2> QED BY <2>1, <2>3, <2>5, <2>6, Zenon DEF RespInv
<1>10. \/ \E result \in {"ok", "err"} : Return(c, result, call[c].wrote, call[c].got + 1)
      \/ /\ call' = [call EXCEPT ![c].got = @ + 1]
         /\ call[c].got + 1 # Len(call[c].cmds)
         /\ UNCHANGED <<mu, pc, unread>>
  BY Zenon DEF ReadReply
<1> QED BY <1>8, <1>9, <1>10, Zenon

LEMMA ReadFailsInv ==
  ASSUME RespInv, NEW c \in Callers, ReadFails(c) \/ ReadGarbage(c)
  PROVE  RespInv'
<1>1. mu = c
  BY Zenon DEF RespInv, LockHeld, ReadFails, ReadGarbage
<1>2. /\ line' = line /\ ready' = ready /\ conn' = conn
      /\ line \in Seq(Pending) /\ ready \in 0 .. Len(line) /\ Len(line) \in Nat
  BY DEF ReadFails, ReadGarbage, closeVars, RespInv, LineShape
<1>3. /\ call[c].cmds \in Seq(Cmds) /\ call[c].got \in Nat /\ call[c].wrote \in Nat
      /\ call[c].wrote = Len(call[c].cmds) /\ call[c].got < call[c].wrote
  BY Zenon DEF RespInv, CallShape, CallState, ReadFails, ReadGarbage
<1>4. garbled \in BOOLEAN /\ unread \in Int
  BY Zenon DEF RespInv, LineShape
<1>5. CASE ReadFails(c)
  <2>1. Return(c, "err", call[c].wrote, call[c].got)
    BY <1>5, Zenon DEF ReadFails
  <2>2. unread' = unread + call[c].wrote - call[c].got
    BY <2>1, Zenon DEF Return
  <2>3. garbled' \in BOOLEAN /\ (~garbled' => ~garbled)
    BY <1>5, Zenon DEF ReadFails
  <2>4. ~garbled => unread >= 0 /\ (conn = "open" => Len(line) = unread + call[c].wrote - call[c].got)
    BY <1>1, <1>5, Zenon DEF RespInv, LineShape, ReplyOffset, Behind, ReadFails
  <2>5. unread' \in Int /\ (~garbled => unread' >= 0)
    BY <1>3, <1>4, <2>2, <2>4
  <2>6. ~garbled /\ conn' = "open" => Len(line') = unread'
    BY <1>2, <2>2, <2>4, Zenon
  <2> QED BY <1>1, <1>2, <2>1, <2>3, <2>5, <2>6, ReturnInv, Zenon
<1>6. CASE ReadGarbage(c)
  <2>1. Return(c, "ok", call[c].wrote, Len(call[c].cmds))
    BY <1>6, Zenon DEF ReadGarbage
  <2>2. unread' \in Int
    BY <1>3, <1>4, <2>1 DEF Return
  <2>3. garbled' = garbled /\ garbled
    BY <1>6, Zenon DEF ReadGarbage
  <2> QED BY <1>1, <1>2, <1>4, <2>1, <2>2, <2>3, ReturnInv, Zenon
<1> QED BY <1>5, <1>6, Zenon

LEMMA ServeInv ==
  ASSUME RespInv, NEW answer \in {"+", "-"}, Serve(answer)
  PROVE  RespInv'
<1> DEFINE p == [line[ready + 1] EXCEPT !.reply = answer]
<1>1. /\ line \in Seq(Pending) /\ Len(line) \in Nat /\ ready + 1 \in 1 .. Len(line)
      /\ line[ready + 1] \in Pending
  BY DEF RespInv, LineShape, Serve
<1>2. p \in Pending /\ p.by = line[ready + 1].by /\ p.cmd = line[ready + 1].cmd
  BY <1>1, Zenon DEF Pending
<1>3. line' = [line EXCEPT ![ready + 1] = p]
  BY Zenon DEF Serve
<1> HIDE DEF p
<1>4. /\ line' \in Seq(Pending) /\ Len(line') = Len(line)
      /\ \A i \in 1 .. Len(line) : line'[i] = IF i = ready + 1 THEN p ELSE line[i]
  BY <1>1, <1>2, <1>3
<1>5. \A i \in 1 .. Len(line) : line'[i].by = line[i].by /\ line'[i].cmd = line[i].cmd
  BY <1>2, <1>4, Zenon
<1>6. /\ ready' = ready + 1 /\ pc' = pc /\ call' = call /\ mu' = mu /\ garbled' = garbled
      /\ unread' = unread /\ conn' = conn
  BY Zenon DEF Serve, callVars, closeVars
<1>7. LockHeld' /\ CallShape'
  BY <1>6, Zenon DEF RespInv, LockHeld, CallShape
<1>8. ready' \in 0 .. Len(line')
  BY <1>1, <1>4, <1>6 DEF RespInv, LineShape
<1>9. LineShape'
  BY <1>4, <1>6, <1>8, Zenon DEF RespInv, LineShape
<1>10. ASSUME NEW c \in Callers, Behind(line, unread, call[c], c)
       PROVE  Behind(line', unread, call[c], c)
  BY <1>4, <1>5, <1>10, Zenon DEF Behind
<1>11. ReplyOffset'
  BY <1>6, <1>10, Zenon DEF RespInv, ReplyOffset
<1> QED BY <1>7, <1>9, <1>11, Zenon DEF RespInv

LEMMA RestInv ==
  ASSUME RespInv,
         \/ CloseSwap \/ CloseStep \/ CloseWrite \/ PeerCloses \/ StreamStep
         \/ UNCHANGED respVars
  PROVE  RespInv'
<1>1. /\ UNCHANGED <<pc, call, mu, line, ready, garbled, unread>>
      /\ conn' = "open" => conn = "open"
  BY Zenon DEF CloseSwap, CloseStep, CloseLock, CloseConn, CloseWrite, PeerCloses, StreamStep, ReaderStep,
         ReadCheck, ReadDeadline, ReadData, ReadEnds, WriteCheck, WriteReturns, SourcePushes,
         respVars, callVars, wireVars, closeVars, streamVars
<1>2. LockHeld' /\ CallShape' /\ LineShape'
  BY <1>1, Zenon DEF RespInv, LockHeld, CallShape, LineShape
<1>3. ReplyOffset'
  BY <1>1, OffsetKept, Zenon DEF RespInv
<1> QED BY <1>2, <1>3, Zenon DEF RespInv

\* What a step that makes a call leaves behind.
LEMMA BeginShape ==
  ASSUME RespInv, NEW c \in Callers, NEW cmds, Begin(c, cmds)
  PROVE  /\ pc[c] \in Idle /\ pc'[c] \in {"lock", "err"} /\ use = "command"
         /\ pc'[c] = "lock" => call'[c].cmds = cmds
         /\ \A d \in Callers : d # c => pc'[d] = pc[d] /\ call'[d] = call[d]
         /\ UNCHANGED <<use, conn, mu, line, ready, garbled, unread>>
<1>1. /\ pc[c] \in Idle /\ use = "command" /\ UNCHANGED <<use, conn, mu, line, ready, garbled, unread>>
  BY Zenon DEF Begin, wireVars, closeVars
<1>2. /\ pc'[c] \in {"lock", "err"}
      /\ \A d \in Callers : d # c => pc'[d] = pc[d] /\ call'[d] = call[d]
  BY Zenon DEF Begin, RespInv, LockHeld, CallShape
<1>3. pc'[c] = "lock" => call'[c].cmds = cmds
  BY Zenon DEF Begin, RespInv, LockHeld, CallShape, NoCall
<1> QED BY <1>1, <1>2, <1>3, Zenon

\* A step of a call: it writes some commands, takes a reply, or only ends.
Writes(c, k) == /\ pc[c] = "lock" /\ Written(c, k) /\ UNCHANGED ready
                /\ pc'[c] \in {"read", "err"} /\ mu = Nobody
Takes(c) == /\ pc[c] = "read" /\ ready > 0 /\ ~garbled /\ conn # "closed"
            /\ line' = Tail(line) /\ ready' = ready - 1
Ends(c) == pc[c] = "read" /\ pc'[c] \in {"ok", "err"} /\ UNCHANGED <<line, ready>>

LEMMA CallStepShape ==
  ASSUME RespInv, NEW c \in Callers, CallStep(c)
  PROVE  /\ \E k \in Nat : k <= Len(call[c].cmds) /\ Writes(c, k)
         \/ Takes(c) \/ Ends(c)
<1>1. Len(call[c].cmds) \in Nat /\ pc \in [Callers -> Idle \cup {"lock", "read"}]
  BY DEF RespInv, LockHeld, CallShape, CallState
<1>2. CASE WriteCommands(c)
  <2>1. Writes(c, Len(call[c].cmds))
    BY <1>1, <1>2, Zenon DEF WriteCommands, Writes
  <2> QED BY <1>1, <2>1
<1>3. CASE WriteFails(c)
  <2>1. PICK k \in 0 .. Len(call[c].cmds) - 1 : Written(c, k) /\ Return(c, "err", k, 0)
    BY <1>3, Zenon DEF WriteFails
  <2>2. pc[c] = "lock" /\ mu = Nobody /\ UNCHANGED ready
    BY <1>3, Zenon DEF WriteFails
  <2>3. Writes(c, k) /\ k \in Nat /\ k <= Len(call[c].cmds)
    BY <1>1, <2>1, <2>2 DEF Return, Writes
  <2> QED BY <2>3, Zenon
<1>4. CASE ReadReply(c)
  BY <1>4, Zenon DEF ReadReply, Takes
<1>5. CASE ReadFails(c)
  BY <1>1, <1>5, Zenon DEF ReadFails, Return, Ends
<1>6. CASE ReadGarbage(c)
  BY <1>1, <1>6, Zenon DEF ReadGarbage, Return, Ends
<1> QED BY <1>2, <1>3, <1>4, <1>5, <1>6, Zenon DEF CallStep

LEMMA CallStepFrame ==
  ASSUME RespInv, NEW c \in Callers, CallStep(c)
  PROVE  /\ pc[c] \in {"lock", "read"} /\ pc'[c] \in {"read", "ok", "err"}
         /\ pc'[c] = "read" => call'[c].cmds = call[c].cmds
         /\ pc'[c] = "ok" => pc[c] = "read"
         /\ \A d \in Callers : d # c => pc'[d] = pc[d] /\ call'[d] = call[d]
         /\ \A d \in Callers : d # c => pc[d] # "read"
         /\ UNCHANGED <<use, conn>>
<1> USE DEF RespInv, LockHeld, CallShape, CallState
<1>1. \A d \in Callers : d # c => pc[d] # "read"
  BY Zenon DEF CallStep, WriteCommands, WriteFails, ReadReply, ReadFails, ReadGarbage
<1>2. UNCHANGED <<use, conn>>
  BY Zenon DEF CallStep, WriteCommands, WriteFails, ReadReply, ReadFails, ReadGarbage, closeVars
<1>3. CASE WriteCommands(c)
  BY <1>1, <1>2, <1>3, Zenon DEF WriteCommands
<1>4. CASE WriteFails(c)
  BY <1>1, <1>2, <1>4, Zenon DEF WriteFails, Return
<1>5. CASE ReadReply(c)
  <2>1. pc[c] = "read" /\ \/ \E r \in {"ok", "err"} : \E w, g : Return(c, r, w, g)
                          \/ UNCHANGED <<mu, pc>> /\ call' = [call EXCEPT ![c].got = @ + 1]
    BY <1>5, Zenon DEF ReadReply
  <2> QED BY <1>1, <1>2, <2>1, ZenonT(30) DEF Return
<1>6. CASE ReadFails(c) \/ ReadGarbage(c)
  BY <1>1, <1>2, <1>6, Zenon DEF ReadFails, ReadGarbage, Return
<1> QED BY <1>3, <1>4, <1>5, <1>6, Zenon DEF CallStep

LEMMA RestFrame ==
  ASSUME CloseSwap \/ CloseStep \/ CloseWrite \/ PeerCloses \/ StreamStep \/ UNCHANGED respVars
  PROVE  UNCHANGED <<pc, call, mu, line, ready, garbled, unread>>
BY Zenon DEF CloseSwap, CloseStep, CloseLock, CloseConn, CloseWrite, PeerCloses, StreamStep, ReaderStep,
       ReadCheck, ReadDeadline, ReadData, ReadEnds, WriteCheck, WriteReturns, SourcePushes,
       respVars, callVars, wireVars

\* For every number of goroutines that share a connection, every pipeline
\* length and every command, under any interleaving, timeouts and Close
\* included: the commands whose replies a call has still to read are the last
\* of the line, in order, behind exactly the replies that earlier calls left
\* (Client.Do and Pipeline under c.mu, client.go:290-317 and 396-463).
THEOREM RepliesInStep == RespSpec => []ReplyOffset
<1>1. RespInv /\ [RespNext]_respVars => RespInv'
  <2> SUFFICES ASSUME RespInv, [RespNext]_respVars PROVE RespInv'
    BY Zenon
  <2>1. ASSUME NEW c \in Callers, CallStep(c) PROVE RespInv'
    BY <2>1, WriteInv, WriteFailsInv, ReadReplyInv, ReadFailsInv, Zenon DEF CallStep
  <2>2. ASSUME NEW c \in Callers, NEW n \in 1 .. MaxCmds, NEW cmds \in [1 .. n -> Cmds], Begin(c, cmds)
        PROVE RespInv'
    BY <2>2, BeginInv, Zenon
  <2>3. ASSUME NEW answer \in {"+", "-"}, Serve(answer) PROVE RespInv'
    BY <2>3, ServeInv, Zenon
  <2> QED BY <2>1, <2>2, <2>3, RestInv, Zenon DEF RespNext
<1>2. RespInv => ReplyOffset
  BY Zenon DEF RespInv
<1> QED BY <1>1, <1>2, InitInv, PTL DEF RespSpec

-----------------------------------------------------------------------------
(* The batches of a node goroutine over its connection.                       *)

BatchTypeOK ==
  /\ stage \in [Callers -> {"idle", "pipeline", "do", "done"}]
  /\ at \in [Callers -> Nat \ {0}]
  /\ fell \in [Callers -> BOOLEAN] /\ lagged \in [Callers -> BOOLEAN]
  /\ DOMAIN report = Callers /\ DOMAIN applied = Callers
  /\ \A c \in Callers : /\ report[c] \in [EntryIds(c) -> {"none", "ok", "failed"}]
                        /\ applied[c] \in [CommandIds(c) -> Nat]

\* The connection of a batch is one for commands, which the peer never breaks.
ConnUse ==
  /\ conn \in {"open", "closed", "broken"}
  /\ conn = "broken" => use = "stream"
  /\ \A c \in Callers : pc[c] \in {"lock", "read"} => use = "command"

\* The call a goroutine is in is the one its stage made, and the line holds
\* commands of batches.
CallOfStage ==
  /\ \A c \in Callers :
       /\ stage[c] \in {"idle", "done"} => pc[c] \in Idle
       /\ stage[c] = "do" => fell[c] /\ at[c] \in CommandIds(c)
       /\ fell[c] => stage[c] \in {"do", "done"}
       /\ pc[c] \in {"lock", "read"} =>
            call[c].cmds = IF stage[c] = "pipeline" THEN Pipelined(c) ELSE <<at[c]>>
  /\ \A j \in 1 .. Len(line) : line[j].cmd \in CommandIds(line[j].by)

\* How often command p of goroutine c has been written: with the pipeline, and
\* by writeSequential when it has come to it.
SentOnce(c) == IF stage[c] = "idle" \/ (stage[c] = "pipeline" /\ pc[c] = "lock") THEN 0 ELSE 1
SentAgain(c, p) ==
  IF fell[c] /\ (p < at[c] \/ (p = at[c] /\ pc[c] # "lock")) THEN 1 ELSE 0

\* The places on the line where command p of goroutine c waits to be executed.
Waiting(c, p) == {j \in ready + 1 .. Len(line) : line[j].by = c /\ line[j].cmd = p}

\* S has at most n elements, for n up to 2.
AtMost(S, n) ==
  /\ n >= 0
  /\ n = 0 => S = {}
  /\ n = 1 => \A i, j \in S : i = j
  /\ n = 2 => \A i, j, k \in S : i = j \/ i = k \/ j = k

\* Every execution, past or to come, is paid for by a write: a command waits at
\* no more places than writes are left when its executions are taken off.
Left(c, p) == SentOnce(c) + SentAgain(c, p) - applied[c][p]
Paid == \A c \in Callers : \A p \in CommandIds(c) : AtMost(Waiting(c, p), Left(c, p))

\* A command that was answered, and not with an error, has been executed.
Answered ==
  \A j \in 1 .. ready : line[j].reply = "-" \/ applied[line[j].by][line[j].cmd] > 0

\* A goroutine whose calls found nothing unread takes its own replies, so what
\* it has seen succeed has been executed.
SeenApplied(c) ==
  /\ pc[c] = "read" => /\ unread = 0 /\ ~garbled
                       /\ \A m \in 1 .. call[c].got : applied[c][call[c].cmds[m]] > 0
  /\ stage[c] = "pipeline" /\ pc[c] = "ok" => \A p \in CommandIds(c) : applied[c][p] > 0
  /\ stage[c] = "do" =>
       \A p \in 1 .. at[c] : Batch[c][p] = Batch[c][at[c]] /\ (p < at[c] \/ pc[c] = "ok")
                               => applied[c][p] > 0

BatchInv ==
  /\ RespInv /\ BatchTypeOK /\ ConnUse /\ CallOfStage /\ Paid /\ Answered
  /\ \A c \in Callers : ~lagged[c] => SeenApplied(c)
  /\ ReportedApplied

LEMMA BatchFacts ==
  ASSUME NEW c \in Callers
  PROVE  /\ Len(Batch[c]) \in 1 .. MaxCmds /\ CommandIds(c) \subseteq Cmds
         /\ \A p \in CommandIds(c) : Batch[c][p] \in Nat
         /\ Pipelined(c) \in [1 .. Len(Batch[c]) -> Cmds] /\ Len(Pipelined(c)) = Len(Batch[c])
<1>1. /\ Batch[c] \in Seq(Nat) /\ Len(Batch[c]) \in 1 .. MaxCmds /\ CommandIds(c) \subseteq Cmds
  BY BatchAssumption, Zenon
<1>2. \A p \in CommandIds(c) : Batch[c][p] \in Nat
  BY <1>1 DEF CommandIds
<1>3. Pipelined(c) \in [1 .. Len(Batch[c]) -> Cmds] /\ Len(Pipelined(c)) = Len(Batch[c])
  BY <1>1 DEF Pipelined, CommandIds
<1> QED BY <1>1, <1>2, <1>3, Zenon

\* A command that writeSequential sends is a call of one command.
LEMMA SingleCall ==
  ASSUME NEW c \in Callers, NEW p \in Nat \ {0}, p <= Len(Batch[c])
  PROVE  /\ p \in CommandIds(c) /\ p \in Cmds /\ 1 \in 1 .. MaxCmds
         /\ <<p>> \in [1 .. 1 -> Cmds]
<1>1. p \in CommandIds(c) /\ p \in Cmds /\ 1 \in 1 .. MaxCmds
  BY BoundsAssumption, BatchFacts DEF CommandIds
<1> QED BY <1>1

\* Go on with command q, or end the loop.
LEMMA SequentialResp ==
  ASSUME RespInv, NEW c \in Callers, NEW q \in Nat \ {0}, Sequential(c, q)
  PROVE  RespInv'
<1>1. CASE q > Len(Batch[c])
  BY <1>1, RestInv, Zenon DEF Sequential
<1>2. CASE ~(q > Len(Batch[c]))
  <2>1. Begin(c, <<q>>) /\ q <= Len(Batch[c])
    BY <1>2, BatchFacts DEF Sequential
  <2> QED BY <2>1, SingleCall, BeginInv, Zenon
<1> QED BY <1>1, <1>2, Zenon

\* What DoReturns does: the entry's next command, the next entry after a
\* success, or the next entry after an error.
LEMMA DoReturnsShape ==
  ASSUME BatchTypeOK, CallOfStage, NEW c \in Callers, DoReturns(c)
  PROVE  /\ stage[c] = "do" /\ at[c] \in CommandIds(c) /\ at[c] \in Nat \ {0}
         /\ UNCHANGED <<fell, lagged, applied, rejected>>
         /\ \E q \in Nat \ {0} :
              /\ q > at[c] /\ Sequential(c, q)
              /\ \/ /\ pc[c] = "ok" /\ q = at[c] + 1 /\ ~NextEntry(c, at[c], q) /\ report' = report
                 \/ /\ pc[c] = "ok" /\ q = at[c] + 1 /\ NextEntry(c, at[c], q)
                    /\ report' = [report EXCEPT ![c][Batch[c][at[c]]] = "ok"]
                 \/ /\ pc[c] = "err" /\ NextEntry(c, at[c], q)
                    /\ report' = [report EXCEPT ![c][Batch[c][at[c]]] = "failed"]
<1>1. /\ stage[c] = "do" /\ at[c] \in CommandIds(c) /\ at[c] \in Nat \ {0}
      /\ UNCHANGED <<fell, lagged, applied, rejected>>
  BY Zenon DEF DoReturns, BatchTypeOK, CallOfStage
<1>2. CASE pc[c] = "ok"
  <2>1. at[c] + 1 \in Nat \ {0} /\ at[c] + 1 > at[c]
    BY <1>1
  <2>2. /\ Sequential(c, at[c] + 1)
        /\ IF NextEntry(c, at[c], at[c] + 1)
           THEN report' = [report EXCEPT ![c][Batch[c][at[c]]] = "ok"] ELSE report' = report
    BY <1>2, Zenon DEF DoReturns
  <2> QED BY <1>1, <1>2, <2>1, <2>2, Zenon
<1>3. CASE pc[c] = "err"
  <2>1. PICK q \in at[c] + 1 .. Len(Batch[c]) + 1 : NextEntry(c, at[c], q) /\ Sequential(c, q)
    BY <1>3, Zenon DEF DoReturns
  <2>2. q \in Nat \ {0} /\ q > at[c]
    BY <1>1
  <2>3. report' = [report EXCEPT ![c][Batch[c][at[c]]] = "failed"]
    BY <1>3, Zenon DEF DoReturns
  <2> QED BY <1>1, <1>3, <2>1, <2>2, <2>3, Zenon
<1> QED BY <1>2, <1>3, Zenon DEF DoReturns

\* Whatever a goroutine does with the results, the connection's invariant is
\* that of RespClient.
LEMMA RespStep ==
  ASSUME RespInv, BatchTypeOK, CallOfStage, NodeNext \/ UNCHANGED nodeVars
  PROVE  RespInv'
<1>1. ASSUME NEW c \in Callers, StartBatch(c) PROVE RespInv'
  BY <1>1, BatchFacts, BeginInv, Zenon DEF StartBatch
<1>2. ASSUME NEW c \in Callers, PipelineReturns(c) PROVE RespInv'
  <2>1. Sequential(c, 1) \/ UNCHANGED respVars
    BY <1>2, Zenon DEF PipelineReturns
  <2> QED BY <2>1, SequentialResp, RestInv
<1>3. ASSUME NEW c \in Callers, DoReturns(c) PROVE RespInv'
  BY <1>3, DoReturnsShape, SequentialResp, Zenon
<1>4. ASSUME NEW c \in Callers, InCall(c) PROVE RespInv'
  BY <1>4, WriteInv, WriteFailsInv, ReadReplyInv, ReadFailsInv, Zenon DEF InCall, CallStep
<1>5. ASSUME Execute PROVE RespInv'
  BY <1>5, ServeInv, Zenon DEF Execute
<1> QED BY <1>1, <1>2, <1>3, <1>4, <1>5, RestInv, Zenon DEF NodeNext, Writer, nodeVars

\* The target's step: one command leaves the waiting ones, and is executed
\* unless it is answered with an error.
LEMMA ExecuteShape ==
  ASSUME RespInv, BatchTypeOK, CallOfStage, Execute
  PROVE  /\ line \in Seq(Pending) /\ ready \in Nat /\ Len(line) \in Nat
         /\ ready + 1 \in 1 .. Len(line) /\ ready' = ready + 1 /\ Len(line') = Len(line)
         /\ line[ready + 1].by \in Callers /\ line[ready + 1].cmd \in CommandIds(line[ready + 1].by)
         /\ \A j \in 1 .. Len(line) : line'[j].by = line[j].by /\ line'[j].cmd = line[j].cmd
         /\ \A j \in 1 .. Len(line) : j # ready + 1 => line'[j] = line[j]
         /\ UNCHANGED <<use, pc, call, mu, garbled, unread, conn>>
         /\ UNCHANGED <<stage, at, fell, report, lagged, rejected>>
         /\ DOMAIN applied' = Callers
         /\ \A c \in Callers : applied'[c] \in [CommandIds(c) -> Nat]
         /\ \A c \in Callers : \A p \in CommandIds(c) :
              applied'[c][p] = IF /\ c = line[ready + 1].by /\ p = line[ready + 1].cmd
                                  /\ line'[ready + 1].reply # "-"
                               THEN applied[c][p] + 1 ELSE applied[c][p]
<1> DEFINE b == line[ready + 1].by
           m == line[ready + 1].cmd
           answer == IF <<b, m>> \in rejected THEN "-" ELSE "+"
           w == [line[ready + 1] EXCEPT !.reply = answer]
<1>1. /\ line \in Seq(Pending) /\ Len(line) \in Nat /\ ready \in Nat /\ ready + 1 \in 1 .. Len(line)
      /\ line[ready + 1] \in Pending
  BY DEF RespInv, LineShape, Execute, Serve
<1>2. b \in Callers /\ m \in CommandIds(b)
  BY <1>1, Zenon DEF Pending, CallOfStage
<1>3. w \in Pending /\ w.by = b /\ w.cmd = m /\ w.reply = answer
  BY <1>1, Zenon DEF Pending
<1>4. line' = [line EXCEPT ![ready + 1] = w] /\ ready' = ready + 1
  BY Zenon DEF Execute, Serve
<1>5. /\ applied' = IF answer = "-" THEN applied ELSE [applied EXCEPT ![b][m] = @ + 1]
      /\ UNCHANGED <<stage, at, fell, report, lagged, rejected>>
      /\ UNCHANGED <<use, pc, call, mu, garbled, unread, conn>>
  BY Zenon DEF Execute, Serve, callVars, closeVars
<1>6. answer \in {"-", "+"}
  BY Zenon
<1> HIDE DEF w, answer
<1>7. /\ Len(line') = Len(line)
      /\ \A j \in 1 .. Len(line) : line'[j] = IF j = ready + 1 THEN w ELSE line[j]
  BY <1>1, <1>3, <1>4
<1>8. line'[ready + 1].reply = answer
  BY <1>1, <1>3, <1>7, Zenon
<1>9. \A j \in 1 .. Len(line) : /\ line'[j].by = line[j].by /\ line'[j].cmd = line[j].cmd
                                /\ j # ready + 1 => line'[j] = line[j]
  BY <1>3, <1>7, Zenon
<1>10. /\ DOMAIN applied' = Callers
       /\ \A c \in Callers : applied'[c] \in [CommandIds(c) -> Nat]
       /\ \A c \in Callers : \A p \in CommandIds(c) :
              applied'[c][p] = IF c = b /\ p = m /\ answer # "-"
                               THEN applied[c][p] + 1 ELSE applied[c][p]
  <2> HIDE DEF b, m
  <2>1. /\ DOMAIN applied = Callers
        /\ \A c \in Callers : applied[c] \in [CommandIds(c) -> Nat]
    BY Zenon DEF BatchTypeOK
  <2>2. CASE answer = "-"
    BY <1>5, <2>1, <2>2, Zenon
  <2>3. CASE answer # "-"
    <3>1. applied' = [applied EXCEPT ![b] = [applied[b] EXCEPT ![m] = applied[b][m] + 1]]
      BY <1>5, <2>3, Zenon
    <3>2. [applied[b] EXCEPT ![m] = applied[b][m] + 1] \in [CommandIds(b) -> Nat]
      BY <1>2, <2>1
    <3> QED BY <1>2, <2>1, <2>3, <3>1, <3>2, Zenon
  <2> QED BY <2>2, <2>3, Zenon
<1>11. \A c \in Callers : \A p \in CommandIds(c) :
         applied'[c][p] = IF c = b /\ p = m /\ line'[ready + 1].reply # "-"
                          THEN applied[c][p] + 1 ELSE applied[c][p]
  BY <1>8, <1>10
<1> QED BY <1>1, <1>2, <1>4, <1>5, <1>7, <1>9, <1>10, <1>11, Zenon

\* The fields of the batches that a step of a call leaves alone, and the history.
LEMMA InCallShape ==
  ASSUME BatchTypeOK, NEW c \in Callers, InCall(c)
  PROVE  /\ CallStep(c) /\ UNCHANGED <<stage, at, fell, report, applied, rejected>>
         /\ lagged' \in [Callers -> BOOLEAN]
         /\ \A d \in Callers : lagged[d] => lagged'[d]
         /\ ~lagged'[c] => ~(mu' = c /\ (unread > 0 \/ garbled))
<1>1. CallStep(c) /\ UNCHANGED <<stage, at, fell, report, applied, rejected>>
  BY Zenon DEF InCall
<1>2. lagged \in [Callers -> BOOLEAN]
  BY Zenon DEF BatchTypeOK
<1>3. lagged' = [lagged EXCEPT ![c] = lagged[c] \/ (mu' = c /\ (unread > 0 \/ garbled))]
  BY Zenon DEF InCall
<1>4. lagged' \in [Callers -> BOOLEAN] /\ \A d \in Callers : lagged[d] => lagged'[d]
  BY <1>2, <1>3, Zenon
<1>5. ~lagged'[c] => ~(mu' = c /\ (unread > 0 \/ garbled))
  BY <1>2, <1>3, Zenon
<1> QED BY <1>1, <1>4, <1>5, Zenon

Results == {"none", "ok", "failed"}

LEMMA ReportType ==
  ASSUME BatchTypeOK, NEW c \in Callers, NEW r \in [EntryIds(c) -> Results],
         report' = [report EXCEPT ![c] = r]
  PROVE  DOMAIN report' = Callers /\ \A d \in Callers : report'[d] \in [EntryIds(d) -> Results]
<1>1. DOMAIN report = Callers /\ \A d \in Callers : report[d] \in [EntryIds(d) -> Results]
  BY Zenon DEF BatchTypeOK, Results
<1>2. report'[c] = r /\ \A d \in Callers : d # c => report'[d] = report[d]
  BY <1>1, Zenon
<1>3. ASSUME NEW d \in Callers PROVE report'[d] \in [EntryIds(d) -> Results]
  BY <1>1, <1>2, Zenon
<1> QED BY <1>1, <1>3, Zenon

LEMMA BatchTypeStep ==
  ASSUME RespInv, BatchTypeOK, CallOfStage, NodeNext \/ UNCHANGED nodeVars
  PROVE  BatchTypeOK'
<1>1. ASSUME NEW c \in Callers, NEW q \in Nat \ {0}, Sequential(c, q)
      PROVE  /\ stage' \in [Callers -> {"idle", "pipeline", "do", "done"}]
             /\ at' \in [Callers -> Nat \ {0}]
  BY <1>1, Zenon DEF Sequential, BatchTypeOK
<1>2. ASSUME NEW c \in Callers, StartBatch(c) PROVE BatchTypeOK'
  BY <1>2, Zenon DEF StartBatch, BatchTypeOK
<1>3. ASSUME NEW c \in Callers, PipelineReturns(c) PROVE BatchTypeOK'
  <2>1. CASE pc[c] = "ok"
    <3>1. [e \in EntryIds(c) |-> "ok"] \in [EntryIds(c) -> Results]
      BY Zenon DEF Results
    <3>2. /\ report' = [report EXCEPT ![c] = [e \in EntryIds(c) |-> "ok"]]
          /\ UNCHANGED <<at, fell, lagged, applied>>
          /\ stage' \in [Callers -> {"idle", "pipeline", "do", "done"}]
      BY <1>3, <2>1, Zenon DEF PipelineReturns, BatchTypeOK
    <3> QED BY <3>1, <3>2, ReportType, Zenon DEF BatchTypeOK, Results
  <2>2. CASE pc[c] = "err"
    <3>1. /\ stage' \in [Callers -> {"idle", "pipeline", "do", "done"}]
          /\ at' \in [Callers -> Nat \ {0}]
      BY <1>1, <1>3, <2>2 DEF PipelineReturns
    <3>2. fell' \in [Callers -> BOOLEAN]
      BY <1>3, <2>2, Zenon DEF PipelineReturns, BatchTypeOK
    <3>3. UNCHANGED <<report, lagged, applied>>
      BY <1>3, <2>2, Zenon DEF PipelineReturns
    <3> QED BY <3>1, <3>2, <3>3, Zenon DEF BatchTypeOK
  <2> QED BY <1>3, <2>1, <2>2, Zenon DEF PipelineReturns
<1>4. ASSUME NEW c \in Callers, DoReturns(c) PROVE BatchTypeOK'
  <2>1. /\ stage' \in [Callers -> {"idle", "pipeline", "do", "done"}]
        /\ at' \in [Callers -> Nat \ {0}]
    BY <1>1, <1>4, DoReturnsShape, Zenon
  <2>2. /\ UNCHANGED <<fell, lagged, applied>> /\ Batch[c][at[c]] \in EntryIds(c)
        /\ \/ report' = report
           \/ report' = [report EXCEPT ![c][Batch[c][at[c]]] = "ok"]
           \/ report' = [report EXCEPT ![c][Batch[c][at[c]]] = "failed"]
    BY <1>4, DoReturnsShape, Zenon DEF EntryIds
  <2>3. /\ DOMAIN report' = Callers
        /\ \A d \in Callers : report'[d] \in [EntryIds(d) -> Results]
    <3>1. CASE report' = report
      BY <3>1, Zenon DEF BatchTypeOK, Results
    <3>2. ASSUME NEW x \in {"ok", "failed"}, report' = [report EXCEPT ![c][Batch[c][at[c]]] = x]
          PROVE  \E r \in [EntryIds(c) -> Results] : report' = [report EXCEPT ![c] = r]
      <4>1. [report[c] EXCEPT ![Batch[c][at[c]]] = x] \in [EntryIds(c) -> Results]
        BY <2>2, Zenon DEF BatchTypeOK, Results
      <4>2. report' = [report EXCEPT ![c] = [report[c] EXCEPT ![Batch[c][at[c]]] = x]]
        BY <3>2, Zenon
      <4> QED BY <4>1, <4>2, Zenon
    <3> QED BY <2>2, <3>1, <3>2, ReportType, Zenon
  <2> QED BY <2>1, <2>2, <2>3, Zenon DEF BatchTypeOK, Results
<1>5. ASSUME NEW c \in Callers, InCall(c) PROVE BatchTypeOK'
  BY <1>5, InCallShape, Zenon DEF BatchTypeOK
<1>6. ASSUME Execute PROVE BatchTypeOK'
  BY <1>6, ExecuteShape, Zenon DEF BatchTypeOK
<1>7. ASSUME UNCHANGED batchVars PROVE BatchTypeOK'
  BY <1>7, Zenon DEF batchVars, BatchTypeOK
<1> QED BY <1>2, <1>3, <1>4, <1>5, <1>6, <1>7, Zenon DEF NodeNext, Writer, nodeVars

\* writeSequential goes on with command q of c, or has ended.
LEMMA SequentialShape ==
  ASSUME RespInv, BatchTypeOK, NEW c \in Callers, pc[c] \in Idle, NEW q \in Nat \ {0}, Sequential(c, q)
  PROVE  /\ at'[c] = q
         /\ \/ stage'[c] = "done" /\ pc'[c] = pc[c]
            \/ /\ stage'[c] = "do" /\ pc'[c] \in {"lock", "err"} /\ q \in CommandIds(c)
               /\ use = "command" /\ (pc'[c] = "lock" => call'[c].cmds = <<q>>)
         /\ \A d \in Callers : d # c => /\ pc'[d] = pc[d] /\ call'[d] = call[d]
                                        /\ stage'[d] = stage[d] /\ at'[d] = at[d]
         /\ UNCHANGED <<use, conn, mu, line, ready, garbled, unread>>
<1>1. at'[c] = q /\ \A d \in Callers : d # c => stage'[d] = stage[d] /\ at'[d] = at[d]
  BY Zenon DEF Sequential, BatchTypeOK
<1>2. CASE q > Len(Batch[c])
  BY <1>1, <1>2, Zenon DEF Sequential, BatchTypeOK, respVars, callVars, wireVars, closeVars
<1>3. CASE ~(q > Len(Batch[c]))
  <2>1. Begin(c, <<q>>) /\ stage'[c] = "do" /\ q <= Len(Batch[c])
    BY <1>3, BatchFacts, SMTT(30) DEF Sequential, BatchTypeOK
  <2>2. q \in CommandIds(c)
    BY <2>1, SingleCall, Zenon
  <2> QED BY <1>1, <2>1, <2>2, BeginShape, Zenon
<1> QED BY <1>2, <1>3, Zenon

LEMMA UseStep ==
  ASSUME RespInv, BatchTypeOK, ConnUse, CallOfStage, NodeNext \/ UNCHANGED nodeVars
  PROVE  ConnUse'
<1>1. ASSUME NEW c \in Callers, NEW cmds, Begin(c, cmds) PROVE ConnUse'
  BY <1>1, BeginShape, Zenon DEF ConnUse
<1>2. ASSUME UNCHANGED respVars PROVE ConnUse'
  BY <1>2, Zenon DEF ConnUse, respVars, callVars, closeVars
<1>3. ASSUME NEW c \in Callers, NEW q, Sequential(c, q) PROVE ConnUse'
  BY <1>1, <1>2, <1>3, Zenon DEF Sequential
<1>4. ASSUME NEW c \in Callers, StartBatch(c) \/ PipelineReturns(c) PROVE ConnUse'
  BY <1>1, <1>2, <1>3, <1>4, Zenon DEF StartBatch, PipelineReturns
<1>5. ASSUME NEW c \in Callers, DoReturns(c) PROVE ConnUse'
  BY <1>3, <1>5, DoReturnsShape, Zenon
<1>6. ASSUME NEW c \in Callers, InCall(c) PROVE ConnUse'
  <2>1. CallStep(c)
    BY <1>6, Zenon DEF InCall
  <2> QED BY <2>1, CallStepFrame, Zenon DEF ConnUse
<1>7. ASSUME Execute PROVE ConnUse'
  BY <1>7, ExecuteShape, Zenon DEF ConnUse
<1>8. ASSUME CloseSwap \/ CloseStep \/ CloseWrite \/ PeerCloses \/ StreamStep PROVE ConnUse'
  BY <1>8, Zenon DEF CloseSwap, CloseStep, CloseLock, CloseConn, CloseWrite, PeerCloses, StreamStep, ReaderStep,
         ReadCheck, ReadDeadline, ReadData, ReadEnds, WriteCheck, WriteReturns, SourcePushes,
         callVars, closeVars, ConnUse
<1> QED BY <1>2, <1>4, <1>5, <1>6, <1>7, <1>8, Zenon DEF NodeNext, Writer, nodeVars

\* The commands of the call a goroutine is in.
LEMMA CallCommands ==
  ASSUME BatchTypeOK, CallOfStage, NEW c \in Callers, pc[c] \in {"lock", "read"}
  PROVE  \/ /\ stage[c] = "pipeline" /\ ~fell[c]
            /\ Len(call[c].cmds) = Len(Batch[c])
            /\ \A m \in CommandIds(c) : call[c].cmds[m] = m
         \/ /\ stage[c] = "do" /\ fell[c] /\ at[c] \in CommandIds(c)
            /\ Len(call[c].cmds) = 1 /\ call[c].cmds[1] = at[c]
<1>1. stage[c] \in {"pipeline", "do"}
  BY Zenon DEF BatchTypeOK, CallOfStage, Idle
<1>2. CASE stage[c] = "pipeline"
  <2>1. ~fell[c] /\ call[c].cmds = Pipelined(c)
    BY <1>2, Zenon DEF CallOfStage
  <2>2. Len(call[c].cmds) = Len(Batch[c])
    BY <2>1, BatchFacts, Zenon
  <2> QED BY <1>2, <2>1, <2>2, Zenon DEF Pipelined
<1>3. CASE stage[c] = "do"
  <2>1. fell[c] /\ at[c] \in CommandIds(c) /\ call[c].cmds = <<at[c]>>
    BY <1>3, Zenon DEF CallOfStage
  <2> QED BY <1>3, <2>1
<1> QED BY <1>1, <1>2, <1>3, Zenon

\* What the calls write are commands of the batches.
LEMMA WritesShape ==
  ASSUME RespInv, BatchTypeOK, CallOfStage, NEW c \in Callers, NEW k \in Nat,
         k <= Len(call[c].cmds), Writes(c, k)
  PROVE  /\ Len(line) \in Nat /\ Len(line') = Len(line) + k
         /\ \A j \in 1 .. Len(line) : line'[j] = line[j]
         /\ \A j \in Len(line) + 1 .. Len(line') :
              /\ line'[j].by = c /\ line'[j].cmd = call[c].cmds[j - Len(line)]
              /\ line'[j].cmd \in CommandIds(c)
         /\ \A i, j \in Len(line) + 1 .. Len(line') : line'[i].cmd = line'[j].cmd => i = j
<1>1. Written(c, k) /\ CallShape /\ line \in Seq(Pending)
  BY Zenon DEF Writes, RespInv, LineShape
<1>2. /\ Len(line) \in Nat /\ Len(line') = Len(line) + k
      /\ \A j \in 1 .. Len(line) : line'[j] = line[j]
      /\ \A j \in Len(line) + 1 .. Len(line') :
           line'[j].by = c /\ line'[j].cmd = call[c].cmds[j - Len(line)]
  <2>1. Len(line) \in Nat
    BY <1>1
  <2> QED BY <1>1, <2>1, AppendedShape, Zenon
<1>3. \A j \in Len(line) + 1 .. Len(line') : j - Len(line) \in 1 .. k
  BY <1>2
<1>4. Len(Batch[c]) \in Nat
  BY BatchFacts
<1>5. CASE /\ Len(call[c].cmds) = Len(Batch[c])
           /\ \A m \in CommandIds(c) : call[c].cmds[m] = m
  <2>1. \A j \in Len(line) + 1 .. Len(line') : j - Len(line) \in CommandIds(c)
    BY <1>3, <1>4, <1>5 DEF CommandIds
  <2>2. \A j \in Len(line) + 1 .. Len(line') : line'[j].cmd = j - Len(line)
    BY <1>2, <1>5, <2>1, Zenon
  <2> QED BY <1>2, <2>1, <2>2
<1>6. CASE Len(call[c].cmds) = 1 /\ call[c].cmds[1] = at[c] /\ at[c] \in CommandIds(c)
  <2>1. \A j \in Len(line) + 1 .. Len(line') : j = Len(line) + 1 /\ j - Len(line) = 1
    BY <1>2, <1>6
  <2> QED BY <1>2, <1>6, <2>1, Zenon
<1>7. pc[c] = "lock"
  BY Zenon DEF Writes
<1> QED BY <1>5, <1>6, <1>7, CallCommands, Zenon

LEMMA StageStep ==
  ASSUME RespInv, BatchTypeOK, CallOfStage, NodeNext \/ UNCHANGED nodeVars
  PROVE  CallOfStage'
<1> DEFINE Line == \A j \in 1 .. Len(line) : line[j].cmd \in CommandIds(line[j].by)
           Stage(c) == /\ stage[c] \in {"idle", "done"} => pc[c] \in Idle
                       /\ stage[c] = "do" => fell[c] /\ at[c] \in CommandIds(c)
                       /\ fell[c] => stage[c] \in {"do", "done"}
                       /\ pc[c] \in {"lock", "read"} =>
                            call[c].cmds = IF stage[c] = "pipeline" THEN Pipelined(c) ELSE <<at[c]>>
<1>0. /\ CallOfStage <=> Line /\ \A c \in Callers : Stage(c)
      /\ CallOfStage' <=> Line' /\ \A c \in Callers : Stage(c)'
  BY Zenon DEF CallOfStage
<1>1. ASSUME NEW c \in Callers, UNCHANGED <<line, ready>>,
             fell' = fell \/ fell' = [fell EXCEPT ![c] = TRUE],
             \A d \in Callers : d # c => /\ pc'[d] = pc[d] /\ call'[d] = call[d]
                                         /\ stage'[d] = stage[d] /\ at'[d] = at[d],
             Stage(c)'
      PROVE  CallOfStage'
  <2>1. \A d \in Callers : d # c => (fell'[d] <=> fell[d])
    BY <1>1, Zenon DEF BatchTypeOK
  <2>2. \A d \in Callers : d # c => Stage(d)'
    BY <1>0, <1>1, <2>1
  <2>3. Line'
    BY <1>0, <1>1, Zenon
  <2> QED BY <1>0, <1>1, <2>2, <2>3, Zenon
<1>2. ASSUME NEW c \in Callers, NEW q \in Nat \ {0}, Sequential(c, q), pc[c] \in Idle, fell'[c],
             fell' = fell \/ fell' = [fell EXCEPT ![c] = TRUE]
      PROVE  CallOfStage'
  <2>1. /\ at'[c] = q
        /\ \/ stage'[c] = "done" /\ pc'[c] = pc[c]
           \/ /\ stage'[c] = "do" /\ pc'[c] \in {"lock", "err"} /\ q \in CommandIds(c)
              /\ pc'[c] = "lock" => call'[c].cmds = <<q>>
        /\ \A d \in Callers : d # c => /\ pc'[d] = pc[d] /\ call'[d] = call[d]
                                       /\ stage'[d] = stage[d] /\ at'[d] = at[d]
        /\ UNCHANGED <<line, ready>>
    BY <1>2, SequentialShape, Zenon
  <2>2. Stage(c)'
    BY <1>2, <2>1, Zenon DEF Idle
  <2> QED BY <1>1, <1>2, <2>1, <2>2, Zenon
<1>3. ASSUME NEW c \in Callers, StartBatch(c) PROVE CallOfStage'
  <2>1. /\ Begin(c, Pipelined(c)) /\ stage[c] = "idle" /\ UNCHANGED fell
        /\ stage'[c] = "pipeline" /\ \A d \in Callers : d # c => stage'[d] = stage[d] /\ at'[d] = at[d]
    BY <1>3, Zenon DEF StartBatch, BatchTypeOK
  <2>2. fell'[c] => stage[c] \in {"do", "done"}
    BY <1>0, <2>1, Zenon
  <2>3. Stage(c)'
    BY <2>1, <2>2, BeginShape, Zenon DEF Idle
  <2> QED BY <1>1, <2>1, <2>3, BeginShape, Zenon
<1>4. ASSUME NEW c \in Callers, PipelineReturns(c) PROVE CallOfStage'
  <2>1. CASE pc[c] = "ok"
    <3>1. /\ UNCHANGED <<pc, call, line, ready, fell, at>> /\ pc'[c] \in Idle
          /\ stage'[c] = "done" /\ \A d \in Callers : d # c => stage'[d] = stage[d]
      BY <1>4, <2>1, Zenon DEF PipelineReturns, BatchTypeOK, respVars, callVars, wireVars, Idle
    <3>2. Stage(c)'
      BY <3>1, Zenon DEF Idle
    <3> QED BY <1>1, <3>1, <3>2, Zenon
  <2>2. CASE pc[c] = "err"
    <3>1. Sequential(c, 1) /\ fell' = [fell EXCEPT ![c] = TRUE]
      BY <1>4, <2>2, Zenon DEF PipelineReturns
    <3>2. fell'[c]
      BY <3>1, Zenon DEF BatchTypeOK
    <3>3. 1 \in Nat \ {0} /\ pc[c] \in Idle
      BY <2>2 DEF Idle
    <3> QED BY <1>2, <3>1, <3>2, <3>3, Zenon
  <2> QED BY <1>4, <2>1, <2>2, Zenon DEF PipelineReturns
<1>5. ASSUME NEW c \in Callers, DoReturns(c) PROVE CallOfStage'
  <2>1. PICK q \in Nat \ {0} : Sequential(c, q)
    BY <1>5, DoReturnsShape, Zenon
  <2>2. pc[c] \in Idle /\ stage[c] = "do" /\ fell' = fell
    BY <1>5, Zenon DEF DoReturns, Idle
  <2>3. fell'[c]
    BY <1>0, <2>2, Zenon
  <2> QED BY <1>2, <2>1, <2>2, <2>3, Zenon
<1>6. ASSUME NEW c \in Callers, InCall(c) PROVE CallOfStage'
  <2>1. CallStep(c) /\ UNCHANGED <<stage, at, fell>>
    BY <1>6, InCallShape, Zenon
  <2>2. ASSUME NEW d \in Callers PROVE Stage(d)'
    BY <1>0, <2>1, CallStepFrame, SMTT(30) DEF Idle
  <2>3. CASE \E k \in Nat : k <= Len(call[c].cmds) /\ Writes(c, k)
    <3>1. PICK k \in Nat : k <= Len(call[c].cmds) /\ Writes(c, k)
      BY <2>3, Zenon
    <3>2. Line'
      <4> SUFFICES ASSUME NEW m \in 1 .. Len(line') PROVE line'[m].cmd \in CommandIds(line'[m].by)
        BY Zenon
      <4>1. /\ Len(line) \in Nat /\ Len(line') = Len(line) + k
            /\ \A j \in 1 .. Len(line) : line'[j] = line[j]
            /\ \A j \in Len(line) + 1 .. Len(line') : line'[j].by = c /\ line'[j].cmd \in CommandIds(c)
        BY <3>1, WritesShape, Zenon
      <4>2. m \in 1 .. Len(line) \/ m \in Len(line) + 1 .. Len(line')
        BY <4>1
      <4> QED BY <1>0, <4>1, <4>2, Zenon
    <3> QED BY <1>0, <2>2, <3>2, Zenon
  <2>4. CASE Takes(c)
    <3>1. /\ Len(line') \in Nat /\ Len(line) \in Nat /\ Len(line') = Len(line) - 1
          /\ \A i \in 1 .. Len(line') : line'[i] = line[i + 1]
      BY <2>4, TailShape, Zenon DEF Takes
    <3>2. Line'
      BY <1>0, <3>1
    <3> QED BY <1>0, <2>2, <3>2, Zenon
  <2>5. CASE Ends(c)
    BY <1>0, <2>2, <2>5, Zenon DEF Ends
  <2> QED BY <2>1, <2>3, <2>4, <2>5, CallStepShape, Zenon
<1>7. ASSUME Execute PROVE CallOfStage'
  <2>1. Line'
    BY <1>0, <1>7, ExecuteShape, Zenon
  <2>2. UNCHANGED <<stage, at, fell, pc, call>>
    BY <1>7, ExecuteShape, Zenon
  <2> QED BY <1>0, <2>1, <2>2, Zenon
<1>8. ASSUME UNCHANGED <<stage, at, fell, pc, call, line>> PROVE CallOfStage'
  BY <1>0, <1>8, Zenon
<1>9. ASSUME CloseSwap \/ CloseStep \/ CloseWrite \/ PeerCloses \/ StreamStep \/ UNCHANGED respVars
      PROVE  UNCHANGED <<pc, call, line>>
  BY <1>9, Zenon DEF CloseSwap, CloseStep, CloseLock, CloseConn, CloseWrite, PeerCloses, StreamStep, ReaderStep,
         ReadCheck, ReadDeadline, ReadData, ReadEnds, WriteCheck, WriteReturns, SourcePushes,
         respVars, callVars, wireVars
<1> QED BY <1>3, <1>4, <1>5, <1>6, <1>7, <1>8, <1>9, Zenon DEF NodeNext, Writer, nodeVars, batchVars

LEMMA AtMostMore ==
  ASSUME NEW S, NEW T, NEW m \in Int, NEW n \in Int, AtMost(S, m), T \subseteq S, m <= n, n <= 2
  PROVE  AtMost(T, n)
BY DEF AtMost

LEMMA AtMostAdd ==
  ASSUME NEW S, NEW T, NEW x, NEW m \in Int, NEW n \in Int,
         AtMost(S, m), T \subseteq S \cup {x}, m + 1 <= n, n <= 2
  PROVE  AtMost(T, n)
<1>1. m \in {0, 1} /\ n \in {1, 2} /\ m < n
  BY DEF AtMost
<1> QED BY <1>1 DEF AtMost

LEMMA AtMostRemove ==
  ASSUME NEW S, NEW x \in S, NEW m \in Int, AtMost(S, m), m <= 2
  PROVE  AtMost(S \ {x}, m - 1)
<1>1. m \in {1, 2}
  BY DEF AtMost
<1> QED BY <1>1 DEF AtMost

LEMMA AtMostShift ==
  ASSUME NEW S \in SUBSET Int, NEW T \in SUBSET Int, NEW m \in Int, AtMost(S, m),
         \A i \in T : i + 1 \in S
  PROVE  AtMost(T, m)
<1>1. \A i, j \in T : i + 1 = j + 1 => i = j
  OBVIOUS
<1> QED BY <1>1 DEF AtMost

LEMMA LeftType ==
  ASSUME BatchTypeOK, BatchTypeOK', NEW c \in Callers, NEW p \in CommandIds(c)
  PROVE  /\ Left(c, p) \in Int /\ Left(c, p) <= 2 /\ Left(c, p)' \in Int /\ Left(c, p)' <= 2
         /\ SentOnce(c) \in 0 .. 1 /\ SentAgain(c, p) \in 0 .. 1 /\ applied[c][p] \in Nat
         /\ SentOnce(c)' \in 0 .. 1 /\ SentAgain(c, p)' \in 0 .. 1 /\ applied'[c][p] \in Nat
<1>1. applied[c][p] \in Nat /\ applied'[c][p] \in Nat
  BY Zenon DEF BatchTypeOK
<1>2. /\ SentOnce(c) \in 0 .. 1 /\ SentAgain(c, p) \in 0 .. 1
      /\ SentOnce(c)' \in 0 .. 1 /\ SentAgain(c, p)' \in 0 .. 1
  BY DEF SentOnce, SentAgain
<1> QED BY <1>1, <1>2 DEF Left

\* Writing: the command's place in the call is the one place it gets.
LEMMA WritesPaid ==
  ASSUME RespInv, RespInv', BatchTypeOK, BatchTypeOK', CallOfStage, Paid,
         NEW c \in Callers, NEW k \in Nat, k <= Len(call[c].cmds), Writes(c, k),
         \A d \in Callers : d # c => pc'[d] = pc[d],
         UNCHANGED <<stage, at, fell, applied>>
  PROVE  Paid'
<1>1. /\ Len(line) \in Nat /\ Len(line') = Len(line) + k
      /\ \A j \in 1 .. Len(line) : line'[j] = line[j]
      /\ \A j \in Len(line) + 1 .. Len(line') :
           line'[j].by = c /\ line'[j].cmd = call[c].cmds[j - Len(line)]
      /\ \A i, j \in Len(line) + 1 .. Len(line') : line'[i].cmd = line'[j].cmd => i = j
  BY WritesShape, Zenon
<1>2. ready \in Nat /\ ready <= Len(line) /\ ready' = ready
  BY <1>1, SMTT(30) DEF RespInv, LineShape, Writes
<1>3. pc[c] = "lock" /\ pc'[c] \in {"read", "err"}
  BY Zenon DEF Writes
<1> SUFFICES ASSUME NEW d \in Callers, NEW p \in CommandIds(d)
             PROVE  AtMost(Waiting(d, p)', Left(d, p)')
  BY Zenon DEF Paid
<1>4. AtMost(Waiting(d, p), Left(d, p)) /\ applied'[d][p] = applied[d][p]
  BY Zenon DEF Paid
<1>5. /\ Left(d, p) \in Int /\ Left(d, p) <= 2 /\ Left(d, p)' \in Int /\ Left(d, p)' <= 2
      /\ SentOnce(d) \in 0 .. 1 /\ SentAgain(d, p) \in 0 .. 1 /\ applied[d][p] \in Nat
      /\ SentOnce(d)' \in 0 .. 1 /\ SentAgain(d, p)' \in 0 .. 1
  BY LeftType, Zenon
<1>6. /\ Left(d, p) = SentOnce(d) + SentAgain(d, p) - applied[d][p]
      /\ Left(d, p)' = SentOnce(d)' + SentAgain(d, p)' - applied[d][p]
  BY <1>4, Zenon DEF Left
<1>7. ASSUME NEW j \in Waiting(d, p)', j \notin Waiting(d, p)
      PROVE  d = c /\ j \in Len(line) + 1 .. Len(line') /\ line'[j].cmd = p
  BY <1>1, <1>2, <1>7, SMTT(30) DEF Waiting
<1>8. CASE Waiting(d, p)' \subseteq Waiting(d, p)
  <2>1. SentOnce(d) <= SentOnce(d)' /\ SentAgain(d, p) <= SentAgain(d, p)'
    <3>1. CASE d = c
      BY <1>3, <3>1 DEF SentOnce, SentAgain
    <3>2. CASE d # c
      BY <3>2 DEF SentOnce, SentAgain
    <3> QED BY <3>1, <3>2, Zenon
  <2>2. Left(d, p) <= Left(d, p)'
    BY <1>5, <1>6, <2>1, SMTT(30)
  <2> QED BY <1>4, <1>5, <1>8, <2>2, AtMostMore, Zenon
<1>9. CASE ~(Waiting(d, p)' \subseteq Waiting(d, p))
  <2>1. PICK j \in Waiting(d, p)' : j \notin Waiting(d, p)
    BY <1>9, Zenon
  <2>2. d = c /\ j \in Len(line) + 1 .. Len(line') /\ line'[j].cmd = p
    BY <1>7, <2>1, Zenon
  <2>3. Waiting(d, p)' \subseteq Waiting(d, p) \cup {j}
    <3> SUFFICES ASSUME NEW i \in Waiting(d, p)', i \notin Waiting(d, p) PROVE i = j
      BY Zenon
    <3> QED BY <1>1, <1>7, <2>2, Zenon
  <2>4. SentOnce(d) + SentAgain(d, p) + 1 <= SentOnce(d)' + SentAgain(d, p)'
    <3>1. CASE stage[c] = "pipeline" /\ ~fell[c]
      BY <1>3, <2>2, <3>1 DEF SentOnce, SentAgain
    <3>2. CASE stage[c] = "do" /\ fell[c] /\ Len(call[c].cmds) = 1 /\ call[c].cmds[1] = at[c]
      <4>1. j - Len(line) = 1 /\ p = at[c]
        BY <1>1, <2>2, <3>2
      <4>2. at[c] \in Nat
        BY Zenon DEF BatchTypeOK
      <4> QED BY <1>3, <2>2, <3>2, <4>1, <4>2 DEF SentOnce, SentAgain
    <3> QED BY <1>3, <3>1, <3>2, CallCommands, Zenon
  <2>5. Left(d, p) + 1 <= Left(d, p)'
    BY <1>5, <1>6, <2>4, SMTT(30)
  <2> QED BY <1>4, <1>5, <2>3, <2>5, AtMostAdd, Zenon
<1> QED BY <1>8, <1>9, Zenon

\* Any other step: no command gets more places, and no write is undone.
LEMMA PaidKept ==
  ASSUME BatchTypeOK, BatchTypeOK', Paid, UNCHANGED applied,
         \A c \in Callers : \A p \in CommandIds(c) :
           /\ \A m \in Int : AtMost(Waiting(c, p), m) => AtMost(Waiting(c, p)', m)
           /\ SentOnce(c) + SentAgain(c, p) <= SentOnce(c)' + SentAgain(c, p)'
  PROVE  Paid'
<1> SUFFICES ASSUME NEW c \in Callers, NEW p \in CommandIds(c)
             PROVE  AtMost(Waiting(c, p)', Left(c, p)')
  BY Zenon DEF Paid
<1>1. /\ Left(c, p) \in Int /\ Left(c, p) <= 2 /\ Left(c, p)' \in Int /\ Left(c, p)' <= 2
      /\ SentOnce(c) \in 0 .. 1 /\ SentAgain(c, p) \in 0 .. 1 /\ applied[c][p] \in Nat
      /\ SentOnce(c)' \in 0 .. 1 /\ SentAgain(c, p)' \in 0 .. 1
  BY LeftType, Zenon
<1>2. AtMost(Waiting(c, p)', Left(c, p))
  BY <1>1, Zenon DEF Paid
<1>3. Left(c, p) <= Left(c, p)'
  BY <1>1 DEF Left
<1> QED BY <1>1, <1>2, <1>3, AtMostMore, Zenon

\* A step of a call that writes nothing writes no command off.
LEMMA SentSame ==
  ASSUME NEW c, NEW p, UNCHANGED <<stage, at, fell>>,
         pc'[c] = pc[c] \/ (pc[c] = "read" /\ pc'[c] \in {"read", "ok", "err"})
  PROVE  SentOnce(c) + SentAgain(c, p) <= SentOnce(c)' + SentAgain(c, p)'
BY DEF SentOnce, SentAgain

\* Taking a reply moves the waiting commands up by one place.
LEMMA TakesPaid ==
  ASSUME RespInv, RespInv', NEW c \in Callers, Takes(c), NEW d \in Callers, NEW p \in CommandIds(d),
         NEW m \in Int, AtMost(Waiting(d, p), m)
  PROVE  AtMost(Waiting(d, p)', m)
<1>1. /\ Len(line') \in Nat /\ Len(line) \in Nat /\ Len(line') = Len(line) - 1
      /\ \A i \in 1 .. Len(line') : line'[i] = line[i + 1]
      /\ ready' = ready - 1 /\ ready \in Nat /\ ready > 0
  BY TailShape DEF Takes, RespInv, LineShape
<1>2. \A i \in Waiting(d, p)' : i + 1 \in Waiting(d, p)
  BY <1>1, SMTT(30) DEF Waiting
<1>3. Waiting(d, p) \in SUBSET Int /\ Waiting(d, p)' \in SUBSET Int
  BY <1>1 DEF Waiting
<1> QED BY <1>2, <1>3, AtMostShift, Zenon

\* The target's step turns a waiting command into an execution, or drops it.
LEMMA ExecutePaid ==
  ASSUME RespInv, BatchTypeOK, BatchTypeOK', CallOfStage, Paid, Execute,
         NEW c \in Callers, NEW p \in CommandIds(c)
  PROVE  AtMost(Waiting(c, p)', Left(c, p)')
<1>1. /\ ready \in Nat /\ Len(line) \in Nat /\ ready + 1 \in 1 .. Len(line)
      /\ ready' = ready + 1 /\ Len(line') = Len(line)
      /\ \A j \in 1 .. Len(line) : line'[j].by = line[j].by /\ line'[j].cmd = line[j].cmd
      /\ UNCHANGED <<stage, at, fell, pc>>
  BY ExecuteShape, Zenon
<1>2. Waiting(c, p)' = Waiting(c, p) \ {ready + 1}
  BY <1>1 DEF Waiting
<1>3. ready + 1 \in Waiting(c, p) <=> line[ready + 1].by = c /\ line[ready + 1].cmd = p
  BY <1>1 DEF Waiting
<1>4. applied'[c][p] = IF /\ c = line[ready + 1].by /\ p = line[ready + 1].cmd
                          /\ line'[ready + 1].reply # "-"
                       THEN applied[c][p] + 1 ELSE applied[c][p]
  BY ExecuteShape, Zenon
<1>5. SentOnce(c)' = SentOnce(c) /\ SentAgain(c, p)' = SentAgain(c, p)
  BY <1>1, Zenon DEF SentOnce, SentAgain
<1>6. /\ Left(c, p) \in Int /\ Left(c, p) <= 2 /\ Left(c, p)' \in Int /\ Left(c, p)' <= 2
      /\ SentOnce(c) \in 0 .. 1 /\ SentAgain(c, p) \in 0 .. 1 /\ applied[c][p] \in Nat
  BY LeftType, Zenon
<1>7. AtMost(Waiting(c, p), Left(c, p))
  BY Zenon DEF Paid
<1>8. CASE ready + 1 \in Waiting(c, p)
  <2>1. AtMost(Waiting(c, p)', Left(c, p) - 1)
    BY <1>2, <1>6, <1>7, <1>8, AtMostRemove
  <2>2. Left(c, p) - 1 <= Left(c, p)'
    BY <1>4, <1>5, <1>6 DEF Left
  <2> QED BY <1>6, <2>1, <2>2, AtMostMore
<1>9. CASE ready + 1 \notin Waiting(c, p)
  <2>1. Left(c, p)' = Left(c, p)
    BY <1>3, <1>4, <1>5, <1>9, Zenon DEF Left
  <2> QED BY <1>2, <1>6, <1>7, <2>1, AtMostMore
<1> QED BY <1>8, <1>9, Zenon

LEMMA PaidStep ==
  ASSUME RespInv, RespInv', BatchTypeOK, BatchTypeOK', CallOfStage, Paid, NodeNext \/ UNCHANGED nodeVars
  PROVE  Paid'
<1>1. ASSUME UNCHANGED <<line, ready, applied>>, NEW c \in Callers,
             \A d \in Callers : d # c => /\ pc'[d] = pc[d] /\ stage'[d] = stage[d]
                                         /\ at'[d] = at[d] /\ (fell[d] <=> fell'[d]),
             \A p \in CommandIds(c) : SentOnce(c) + SentAgain(c, p) <= SentOnce(c)' + SentAgain(c, p)'
      PROVE  Paid'
  <2> SUFFICES ASSUME NEW d \in Callers, NEW p \in CommandIds(d)
               PROVE /\ \A m \in Int : AtMost(Waiting(d, p), m) => AtMost(Waiting(d, p)', m)
                     /\ SentOnce(d) + SentAgain(d, p) <= SentOnce(d)' + SentAgain(d, p)'
    BY <1>1, PaidKept, Zenon
  <2>1. Waiting(d, p)' = Waiting(d, p)
    BY <1>1, Zenon DEF Waiting
  <2>2. d # c => SentOnce(d) + SentAgain(d, p) <= SentOnce(d)' + SentAgain(d, p)'
    <3>1. d # c => SentOnce(d)' = SentOnce(d) /\ SentAgain(d, p)' = SentAgain(d, p)
      BY <1>1, Zenon DEF SentOnce, SentAgain
    <3>2. SentOnce(d) \in {0, 1} /\ SentAgain(d, p) \in {0, 1}
      BY Zenon DEF SentOnce, SentAgain
    <3> QED BY <3>1, <3>2
  <2> QED BY <1>1, <2>1, <2>2, Zenon
<1>2. ASSUME NEW c \in Callers, StartBatch(c) PROVE Paid'
  <2>1. /\ UNCHANGED <<line, ready, applied, fell, at>> /\ stage[c] = "idle"
        /\ \A d \in Callers : d # c => pc'[d] = pc[d] /\ stage'[d] = stage[d]
    BY <1>2, BeginShape, Zenon DEF StartBatch, BatchTypeOK
  <2>2. ~fell[c]
    BY <2>1, Zenon DEF CallOfStage
  <2>3. \A p \in CommandIds(c) : SentOnce(c) + SentAgain(c, p) <= SentOnce(c)' + SentAgain(c, p)'
    BY <2>1, <2>2 DEF SentOnce, SentAgain
  <2> QED BY <1>1, <2>1, <2>3, Zenon
<1>3. ASSUME NEW c \in Callers, PipelineReturns(c) PROVE Paid'
  <2>0. /\ stage[c] = "pipeline" /\ pc[c] \in {"ok", "err"} /\ pc[c] \in Idle /\ 1 \in Nat \ {0}
        /\ UNCHANGED applied
    BY <1>3, SMTT(30) DEF PipelineReturns, Idle
  <2>1. ~fell[c]
    BY <2>0, Zenon DEF CallOfStage
  <2>2. CASE pc[c] = "ok"
    <3>1. /\ UNCHANGED <<pc, line, ready, fell, at>>
          /\ stage'[c] = "done" /\ \A d \in Callers : d # c => stage'[d] = stage[d]
      BY <1>3, <2>2, Zenon DEF PipelineReturns, BatchTypeOK, respVars, callVars, wireVars
    <3>2. \A p \in CommandIds(c) : SentOnce(c) + SentAgain(c, p) <= SentOnce(c)' + SentAgain(c, p)'
      BY <2>1, <3>1 DEF SentOnce, SentAgain
    <3> QED BY <1>1, <2>0, <3>1, <3>2, Zenon
  <2>3. CASE pc[c] = "err"
    <3>1. Sequential(c, 1) /\ fell' = [fell EXCEPT ![c] = TRUE]
      BY <1>3, <2>3, Zenon DEF PipelineReturns
    <3>2. \A d \in Callers : d # c => (fell[d] <=> fell'[d])
      BY <3>1, Zenon DEF BatchTypeOK
    <3>3. /\ UNCHANGED <<line, ready>> /\ stage'[c] \in {"do", "done"}
          /\ \A d \in Callers : d # c => pc'[d] = pc[d] /\ stage'[d] = stage[d] /\ at'[d] = at[d]
      <4>1. PICK q \in Nat \ {0} : Sequential(c, q)
        BY <2>0, <3>1, Zenon
      <4> QED BY <2>0, <4>1, SequentialShape, ZenonT(30)
    <3>4. \A p \in CommandIds(c) : SentOnce(c) + SentAgain(c, p) <= SentOnce(c)' + SentAgain(c, p)'
      <4> SUFFICES ASSUME NEW p \in CommandIds(c)
                   PROVE  SentOnce(c) + SentAgain(c, p) <= SentOnce(c)' + SentAgain(c, p)'
        OBVIOUS
      <4>1. SentOnce(c) \in {0, 1} /\ SentAgain(c, p) = 0
        BY <2>0, <2>1, Zenon DEF SentOnce, SentAgain
      <4>2. SentOnce(c)' = 1
        BY <3>3, Zenon DEF SentOnce
      <4>3. SentAgain(c, p)' \in {0, 1}
        BY Zenon DEF SentAgain
      <4> QED BY <4>1, <4>2, <4>3
    <3> QED BY <1>1, <2>0, <3>2, <3>3, <3>4, Zenon
  <2> QED BY <2>0, <2>2, <2>3, Zenon
<1>4. ASSUME NEW c \in Callers, DoReturns(c) PROVE Paid'
  <2>1. PICK q \in Nat \ {0} : q > at[c] /\ Sequential(c, q)
    BY <1>4, DoReturnsShape, Zenon
  <2>2. pc[c] \in {"ok", "err"} /\ pc[c] \in Idle /\ stage[c] = "do" /\ UNCHANGED <<fell, applied>>
    BY <1>4, Zenon DEF DoReturns, Idle
  <2>3. /\ UNCHANGED <<line, ready>> /\ stage'[c] \in {"do", "done"} /\ at'[c] = q
        /\ \A d \in Callers : d # c => pc'[d] = pc[d] /\ stage'[d] = stage[d] /\ at'[d] = at[d]
    BY <2>1, <2>2, SequentialShape, Zenon
  <2>4. fell[c] /\ fell'[c]
    BY <2>2, Zenon DEF CallOfStage
  <2>5. \A p \in CommandIds(c) : SentOnce(c) + SentAgain(c, p) <= SentOnce(c)' + SentAgain(c, p)'
    <3> SUFFICES ASSUME NEW p \in CommandIds(c)
                 PROVE  SentOnce(c) + SentAgain(c, p) <= SentOnce(c)' + SentAgain(c, p)'
      BY Zenon
    <3>1. p \in Int /\ at[c] \in Int
      BY DEF CommandIds, BatchTypeOK
    <3>2. SentOnce(c) = 1 /\ SentOnce(c)' = 1
      BY <2>2, <2>3, Zenon DEF SentOnce
    <3>3. SentAgain(c, p) \in {0, 1} /\ SentAgain(c, p)' \in {0, 1}
      BY Zenon DEF SentAgain
    <3>4. SentAgain(c, p) = 1 => SentAgain(c, p)' = 1
      <4>1. SentAgain(c, p) = 1 => p <= at[c]
        BY <3>1 DEF SentAgain
      <4>2. p <= at[c] => p < at'[c]
        BY <2>1, <2>3, <3>1
      <4> QED BY <2>4, <4>1, <4>2, Zenon DEF SentAgain
    <3> QED BY <3>2, <3>3, <3>4
  <2> QED BY <1>1, <2>2, <2>3, <2>5, Zenon
<1>5. ASSUME NEW c \in Callers, InCall(c) PROVE Paid'
  <2>1. CallStep(c) /\ UNCHANGED <<stage, at, fell, applied>>
    BY <1>5, InCallShape, Zenon
  <2>2. CASE \E k \in Nat : k <= Len(call[c].cmds) /\ Writes(c, k)
    BY <2>1, <2>2, WritesPaid, CallStepFrame, Zenon
  <2>3. CASE Takes(c) \/ Ends(c)
    <3>1. pc[c] = "read"
      BY <2>3, Zenon DEF Takes, Ends
    <3>2. \A d \in Callers : \A p \in CommandIds(d) :
            SentOnce(d) + SentAgain(d, p) <= SentOnce(d)' + SentAgain(d, p)'
      BY <2>1, <3>1, CallStepFrame, SentSame, Zenon
    <3>3. ASSUME NEW d \in Callers, NEW p \in CommandIds(d), NEW m \in Int, AtMost(Waiting(d, p), m)
          PROVE  AtMost(Waiting(d, p)', m)
      <4>1. CASE Takes(c)
        BY <3>3, <4>1, TakesPaid, Zenon
      <4>2. CASE Ends(c)
        <5>1. Waiting(d, p)' = Waiting(d, p)
          BY <4>2, Zenon DEF Ends, Waiting
        <5> QED BY <3>3, <5>1, Zenon
      <4> QED BY <2>3, <4>1, <4>2, Zenon
    <3> QED BY <2>1, <3>2, <3>3, PaidKept, Zenon
  <2> QED BY <2>1, <2>2, <2>3, CallStepShape, Zenon
<1>6. ASSUME Execute PROVE Paid'
  BY <1>6, ExecutePaid, Zenon DEF Paid
<1>7. ASSUME UNCHANGED <<pc, line, ready>>, UNCHANGED batchVars PROVE Paid'
  <2>1. \A c \in Callers : \A p \in CommandIds(c) : Waiting(c, p)' = Waiting(c, p)
    BY <1>7, Zenon DEF Waiting
  <2> QED BY <1>7, <2>1, ZenonT(30) DEF batchVars, Paid, Left, SentOnce, SentAgain
<1> QED BY <1>2, <1>3, <1>4, <1>5, <1>6, <1>7, RestFrame, Zenon DEF NodeNext, Writer, nodeVars

\* No execution is undone.
Grows == \A c \in Callers : \A p \in CommandIds(c) : applied[c][p] > 0 => applied'[c][p] > 0

LEMMA GrowsStep ==
  ASSUME RespInv, BatchTypeOK, CallOfStage, NodeNext \/ UNCHANGED nodeVars
  PROVE  Grows /\ (Execute \/ UNCHANGED applied)
<1>1. CASE Execute
  <2> SUFFICES ASSUME NEW c \in Callers, NEW p \in CommandIds(c), applied[c][p] > 0
               PROVE  applied'[c][p] > 0
    BY <1>1, Zenon DEF Grows
  <2>1. applied[c][p] \in Nat /\ applied'[c][p] \in {applied[c][p], applied[c][p] + 1}
    BY <1>1, ExecuteShape, ZenonT(30) DEF BatchTypeOK
  <2> QED BY <2>1
<1>2. CASE ~Execute
  <2>1. UNCHANGED applied
    BY <1>2, Zenon DEF NodeNext, Writer, StartBatch, PipelineReturns, DoReturns, InCall, nodeVars, batchVars
  <2> QED BY <2>1, Zenon DEF Grows
<1> QED BY <1>1, <1>2, Zenon

\* The line entries are commands of batches.
LEMMA LineType ==
  ASSUME RespInv, CallOfStage, NEW j \in 1 .. Len(line)
  PROVE  line[j].by \in Callers /\ line[j].cmd \in CommandIds(line[j].by)
<1>1. line[j] \in Pending
  BY DEF RespInv, LineShape
<1> QED BY <1>1, Zenon DEF Pending, CallOfStage

LEMMA AnsweredStep ==
  ASSUME RespInv, RespInv', BatchTypeOK, CallOfStage, Answered, NodeNext \/ UNCHANGED nodeVars
  PROVE  Answered'
<1>0. Grows /\ line \in Seq(Pending) /\ ready \in Nat /\ Len(line) \in Nat /\ ready <= Len(line)
  BY GrowsStep DEF RespInv, LineShape
<1>1. ASSUME ready' \in Nat,
             \A j \in 1 .. ready' : \E i \in 1 .. ready : line'[j] = line[i]
      PROVE  Answered'
  <2> SUFFICES ASSUME NEW j \in 1 .. ready', line'[j].reply # "-"
               PROVE  applied'[line'[j].by][line'[j].cmd] > 0
    BY Zenon DEF Answered
  <2>1. PICK i \in 1 .. ready : line'[j] = line[i]
    BY <1>1, Zenon
  <2>2. i \in 1 .. Len(line) /\ applied[line[i].by][line[i].cmd] > 0
    BY <1>0, <2>1 DEF Answered
  <2> QED BY <1>0, <2>1, <2>2, LineType, Zenon DEF Grows
<1>2. ASSUME UNCHANGED <<line, ready>> PROVE Answered'
  BY <1>0, <1>1, <1>2, Zenon
<1>3. ASSUME NEW c \in Callers, NEW q, Sequential(c, q) PROVE UNCHANGED <<line, ready>>
  BY <1>3, Zenon DEF Sequential, Begin, respVars, wireVars
<1>4. ASSUME NEW c \in Callers, StartBatch(c) \/ PipelineReturns(c) \/ DoReturns(c) PROVE Answered'
  <2>1. UNCHANGED <<line, ready>>
    <3>1. CASE StartBatch(c)
      BY <3>1, Zenon DEF StartBatch, Begin, wireVars
    <3>2. CASE PipelineReturns(c)
      BY <1>3, <3>2, Zenon DEF PipelineReturns, respVars, wireVars
    <3>3. CASE DoReturns(c)
      BY <1>3, <3>3, DoReturnsShape, Zenon
    <3> QED BY <1>4, <3>1, <3>2, <3>3, Zenon
  <2> QED BY <1>2, <2>1, Zenon
<1>5. ASSUME NEW c \in Callers, InCall(c) PROVE Answered'
  <2>1. CallStep(c)
    BY <1>5, Zenon DEF InCall
  <2>2. CASE \E k \in Nat : k <= Len(call[c].cmds) /\ Writes(c, k)
    <3>1. ready' = ready /\ \A j \in 1 .. Len(line) : line'[j] = line[j]
      BY <2>2, WritesShape, Zenon DEF Writes
    <3> QED BY <1>0, <1>1, <3>1
  <2>3. CASE Takes(c)
    <3>1. /\ Len(line') \in Nat /\ Len(line') = Len(line) - 1 /\ ready' = ready - 1 /\ ready > 0
          /\ \A i \in 1 .. Len(line') : line'[i] = line[i + 1]
      BY <2>3, TailShape, Zenon DEF Takes
    <3>2. ready' \in Nat /\ \A j \in 1 .. ready' : j + 1 \in 1 .. ready /\ line'[j] = line[j + 1]
      BY <1>0, <3>1
    <3> QED BY <1>1, <3>2, Zenon
  <2>4. CASE Ends(c)
    BY <1>2, <2>4, Zenon DEF Ends
  <2> QED BY <2>1, <2>2, <2>3, <2>4, CallStepShape, Zenon
<1>6. ASSUME Execute PROVE Answered'
  <2> SUFFICES ASSUME NEW j \in 1 .. ready', line'[j].reply # "-"
               PROVE  applied'[line'[j].by][line'[j].cmd] > 0
    BY Zenon DEF Answered
  <2>1. /\ ready + 1 \in 1 .. Len(line) /\ ready' = ready + 1
        /\ \A i \in 1 .. Len(line) : line'[i].by = line[i].by /\ line'[i].cmd = line[i].cmd
        /\ \A i \in 1 .. Len(line) : i # ready + 1 => line'[i] = line[i]
    BY <1>6, ExecuteShape, Zenon
  <2>2. j \in 1 .. Len(line)
    BY <1>0, <2>1
  <2>3. line[j].by \in Callers /\ line[j].cmd \in CommandIds(line[j].by)
    BY <2>2, LineType, Zenon
  <2>4. CASE j # ready + 1
    <3>1. j \in 1 .. ready /\ line'[j] = line[j]
      BY <1>0, <2>1, <2>2, <2>4
    <3>2. applied[line[j].by][line[j].cmd] > 0
      BY <3>1, Zenon DEF Answered
    <3> QED BY <1>0, <2>3, <3>1, <3>2, Zenon DEF Grows
  <2>5. CASE j = ready + 1
    <3>1. applied'[line[j].by][line[j].cmd] = applied[line[j].by][line[j].cmd] + 1
      BY <1>6, <2>3, <2>5, ExecuteShape, Zenon
    <3>2. applied[line[j].by][line[j].cmd] \in Nat
      BY <2>3, ZenonT(30) DEF BatchTypeOK
    <3>3. line'[j].by = line[j].by /\ line'[j].cmd = line[j].cmd
      BY <2>1, <2>2, Zenon
    <3> QED BY <3>1, <3>2, <3>3
  <2> QED BY <2>4, <2>5, Zenon
<1> QED BY <1>2, <1>4, <1>5, <1>6, RestFrame, Zenon DEF NodeNext, Writer, nodeVars

\* A goroutine that is not in the step keeps what it has seen.
LEMMA SeenKept ==
  ASSUME RespInv, BatchTypeOK, CallOfStage, Grows, NEW d \in Callers, SeenApplied(d),
         pc'[d] = pc[d], call'[d] = call[d], stage'[d] = stage[d], at'[d] = at[d],
         pc[d] = "read" => unread' = unread /\ (garbled' => garbled)
  PROVE  SeenApplied(d)'
<1>1. pc'[d] = "read" => /\ unread' = 0 /\ ~garbled'
                         /\ \A m \in 1 .. call'[d].got : applied'[d][call'[d].cmds[m]] > 0
  <2> SUFFICES ASSUME pc[d] = "read"
               PROVE  /\ unread' = 0 /\ ~garbled'
                      /\ \A m \in 1 .. call[d].got : applied'[d][call[d].cmds[m]] > 0
    BY Zenon
  <2>1. unread' = 0 /\ ~garbled' /\ \A m \in 1 .. call[d].got : applied[d][call[d].cmds[m]] > 0
    BY Zenon DEF SeenApplied
  <2>2. call[d].got \in Nat /\ call[d].got < Len(call[d].cmds)
    BY Zenon DEF RespInv, CallShape, CallState
  <2>3. \A m \in 1 .. call[d].got : call[d].cmds[m] \in CommandIds(d)
    <3>1. Len(Batch[d]) \in Nat
      BY BatchFacts
    <3>2. CASE Len(call[d].cmds) = Len(Batch[d]) /\ \A m \in CommandIds(d) : call[d].cmds[m] = m
      BY <2>2, <3>1, <3>2 DEF CommandIds
    <3>3. CASE Len(call[d].cmds) = 1
      BY <2>2, <3>3
    <3> QED BY <3>2, <3>3, CallCommands, Zenon
  <2> QED BY <2>1, <2>3, Zenon DEF Grows
<1>2. stage'[d] = "pipeline" /\ pc'[d] = "ok" => \A p \in CommandIds(d) : applied'[d][p] > 0
  BY Zenon DEF SeenApplied, Grows
<1>3. stage'[d] = "do" =>
       \A p \in 1 .. at'[d] : Batch[d][p] = Batch[d][at'[d]] /\ (p < at'[d] \/ pc'[d] = "ok")
                               => applied'[d][p] > 0
  <2> SUFFICES ASSUME stage[d] = "do", NEW p \in 1 .. at[d],
                      Batch[d][p] = Batch[d][at[d]], p < at[d] \/ pc[d] = "ok"
               PROVE  applied'[d][p] > 0
    BY Zenon
  <2>1. at[d] \in CommandIds(d) /\ Len(Batch[d]) \in Nat
    <3>1. at[d] \in CommandIds(d)
      BY Zenon DEF CallOfStage
    <3> QED BY <3>1, BatchFacts
  <2>2. p \in CommandIds(d)
    BY <2>1 DEF CommandIds
  <2> QED BY <2>2, Zenon DEF SeenApplied, Grows
<1> QED BY <1>1, <1>2, <1>3, Zenon DEF SeenApplied

\* writeSequential comes to command q: those of its entry before it are written.
LEMMA SeenSequential ==
  ASSUME RespInv, BatchTypeOK, NEW c \in Callers, NEW q \in Nat \ {0}, Sequential(c, q), pc[c] \in Idle,
         UNCHANGED applied,
         q \in CommandIds(c) => \A p \in 1 .. q - 1 : Batch[c][p] = Batch[c][q] => applied[c][p] > 0
  PROVE  SeenApplied(c)'
<1>1. /\ at'[c] = q
      /\ \/ stage'[c] = "done" /\ pc'[c] \in Idle
         \/ stage'[c] = "do" /\ pc'[c] \in {"lock", "err"} /\ q \in CommandIds(c)
  BY SequentialShape, Zenon
<1>2. pc'[c] # "read" /\ stage'[c] # "pipeline"
  BY <1>1, Zenon DEF Idle
<1>3. ASSUME stage'[c] = "do", NEW p \in 1 .. q, Batch[c][p] = Batch[c][q], p < q \/ pc'[c] = "ok"
      PROVE  applied'[c][p] > 0
  <2>1. pc'[c] # "ok" /\ q \in CommandIds(c)
    BY <1>1, <1>3, Zenon
  <2>2. p \in 1 .. q - 1
    BY <1>3, <2>1
  <2> QED BY <1>3, <2>1, <2>2, Zenon
<1> QED BY <1>1, <1>2, <1>3, Zenon DEF SeenApplied

\* The commands of one entry are neighbours.
LEMMA SameEntry ==
  ASSUME NEW c \in Callers, NEW p \in CommandIds(c), NEW r \in CommandIds(c), NEW q \in CommandIds(c),
         p <= r, r <= q, Batch[c][p] = Batch[c][q]
  PROVE  Batch[c][r] = Batch[c][q]
<1>1. Batch[c][p] \in Nat /\ Batch[c][q] \in Nat /\ Batch[c][r] \in Nat
  BY BatchFacts, Zenon
<1>2. Batch[c][p] <= Batch[c][r] /\ Batch[c][r] <= Batch[c][q]
  BY BatchAssumption, Zenon
<1> QED BY <1>1, <1>2

\* The step inside a call: a reply taken by a goroutine that found nothing
\* unread is its own.
LEMMA SeenCall ==
  ASSUME RespInv, BatchTypeOK, ConnUse, CallOfStage, Answered, NEW c \in Callers, InCall(c),
         SeenApplied(c), ~lagged'[c]
  PROVE  SeenApplied(c)'
<1>1. /\ CallStep(c) /\ UNCHANGED <<stage, at, fell, applied>>
      /\ ~(mu' = c /\ (unread > 0 \/ garbled))
  BY InCallShape, Zenon
<1>2. /\ pc \in [Callers -> Idle \cup {"lock", "read"}] /\ call \in [Callers -> CallState]
      /\ stage[c] \in {"idle", "pipeline", "do", "done"} /\ at[c] \in Nat
  BY Zenon DEF RespInv, LockHeld, CallShape, BatchTypeOK
<1>3. ASSUME pc'[c] # "ok", pc'[c] # "read" PROVE SeenApplied(c)'
  BY <1>1, <1>2, <1>3, Zenon DEF SeenApplied
<1>4. CASE WriteCommands(c)
  <2>1. /\ pc'[c] = "read" /\ mu' = c /\ UNCHANGED <<unread, garbled>>
        /\ pc[c] = "lock" /\ call'[c].got = call[c].got
    BY <1>2, <1>4, Zenon DEF WriteCommands, CallState
  <2>2. call'[c].got = 0
    BY <2>1, Zenon DEF RespInv, CallShape
  <2>3. ~garbled /\ unread = 0
    <3>1. ~garbled /\ ~(unread > 0)
      BY <1>1, <2>1, Zenon
    <3> QED BY <3>1 DEF RespInv, LineShape
  <2>4. ~garbled'
    BY <2>1, <2>3, Zenon
  <2>5. unread' = 0 /\ \A m \in 1 .. call'[c].got : applied'[c][call'[c].cmds[m]] > 0
    BY <2>1, <2>2, <2>3
  <2> QED BY <1>1, <1>2, <2>1, <2>4, <2>5, Zenon DEF SeenApplied
<1>5. CASE WriteFails(c)
  BY <1>2, <1>3, <1>5, Zenon DEF WriteFails, Return
<1>6. CASE ReadFails(c)
  BY <1>2, <1>3, <1>6, Zenon DEF ReadFails, Return
<1>7. CASE ReadGarbage(c)
  <2>1. pc[c] = "read" /\ garbled
    BY <1>7, Zenon DEF ReadGarbage
  <2> QED BY <2>1, Zenon DEF SeenApplied
<1>8. CASE ReadReply(c)
  <2>1. pc[c] = "read" /\ ready > 0 /\ ~garbled /\ conn # "closed"
    BY <1>8, Zenon DEF ReadReply
  <2>2. /\ unread = 0
        /\ \A m \in 1 .. call[c].got : applied[c][call[c].cmds[m]] > 0
    BY <2>1, Zenon DEF SeenApplied
  <2>3. conn = "open"
    BY <2>1, Zenon DEF ConnUse
  <2>4. Behind(line, unread, call[c], c)
    BY <2>1, <2>3, Zenon DEF RespInv, ReplyOffset
  <2>5. /\ line \in Seq(Pending) /\ Len(line) \in Nat /\ 1 \in 1 .. Len(line) /\ 1 \in 1 .. ready
        /\ call[c].got \in Nat /\ call[c].got < Len(call[c].cmds)
    BY <1>2, <2>1 DEF RespInv, LineShape, CallShape, CallState
  <2>6. Head(line) = line[1]
    BY <2>5
  <2>7. line[1].by = c /\ line[1].cmd = call[c].cmds[call[c].got + 1]
    <3>1. line[1].by = c /\ line[1].cmd = call[c].cmds[call[c].got + 1 - unread]
      BY <2>2, <2>4, <2>5, SMTT(30) DEF Behind
    <3> QED BY <2>2, <2>5, <3>1
  <2>8. line[1].reply = "-" \/ applied[c][call[c].cmds[call[c].got + 1]] > 0
    BY <2>5, <2>7, Zenon DEF Answered
  <2>9. CASE line[1].reply = "-"
    BY <1>2, <1>3, <1>8, <2>6, <2>9, Zenon DEF ReadReply, Return
  <2>10. CASE line[1].reply # "-"
    <3>1. \A m \in 1 .. call[c].got + 1 : applied[c][call[c].cmds[m]] > 0
      <4> SUFFICES ASSUME NEW m \in 1 .. call[c].got + 1 PROVE applied[c][call[c].cmds[m]] > 0
        BY Zenon
      <4>1. m \in 1 .. call[c].got \/ m = call[c].got + 1
        BY <2>5
      <4> QED BY <2>2, <2>8, <2>10, <4>1, Zenon
    <3>2. CASE call[c].got + 1 # Len(call[c].cmds)
      <4>1. call' = [call EXCEPT ![c].got = @ + 1] /\ UNCHANGED <<pc, unread, garbled>>
        BY <1>8, <2>6, <2>10, <3>2, Zenon DEF ReadReply
      <4>2. call'[c].got = call[c].got + 1 /\ call'[c].cmds = call[c].cmds
        BY <1>2, <4>1, Zenon DEF CallState
      <4>3. ~garbled'
        BY <2>1, <4>1, Zenon
      <4>4. unread' = 0 /\ \A m \in 1 .. call'[c].got : applied'[c][call'[c].cmds[m]] > 0
        BY <1>1, <2>2, <3>1, <4>1, <4>2, Zenon
      <4> QED BY <1>1, <2>1, <4>1, <4>3, <4>4, Zenon DEF SeenApplied
    <3>3. CASE call[c].got + 1 = Len(call[c].cmds)
      <4>1. pc'[c] = "ok"
        BY <1>2, <1>8, <2>6, <2>10, <3>3, Zenon DEF ReadReply, Return
      <4>2. CASE /\ stage[c] = "pipeline" /\ Len(call[c].cmds) = Len(Batch[c])
                 /\ \A m \in CommandIds(c) : call[c].cmds[m] = m
        <5>1. \A p \in CommandIds(c) : applied'[c][p] > 0
          BY <1>1, <3>1, <3>3, <4>2, Zenon DEF CommandIds
        <5> QED BY <1>1, <4>1, <4>2, <5>1, Zenon DEF SeenApplied
      <4>3. CASE stage[c] = "do" /\ Len(call[c].cmds) = 1 /\ call[c].cmds[1] = at[c]
        <5>1. applied[c][at[c]] > 0
          BY <2>5, <3>1, <3>3, <4>3
        <5>2. ASSUME NEW p \in 1 .. at[c], Batch[c][p] = Batch[c][at[c]] PROVE applied[c][p] > 0
          <6>1. CASE p < at[c]
            BY <4>3, <5>2, <6>1, Zenon DEF SeenApplied
          <6>2. CASE p = at[c]
            BY <5>1, <6>2, Zenon
          <6> QED BY <1>2, <6>1, <6>2
        <5> QED BY <1>1, <4>1, <4>3, <5>2, Zenon DEF SeenApplied
      <4> QED BY <2>1, <4>2, <4>3, CallCommands, Zenon
    <3> QED BY <3>2, <3>3, Zenon
  <2> QED BY <2>9, <2>10, Zenon
<1> QED BY <1>1, <1>4, <1>5, <1>6, <1>7, <1>8, Zenon DEF CallStep

\* The command DoReturns goes on with: those of its entry before it have been
\* executed, for its entry is the one that goes well, or a new one.
LEMMA SeenDo ==
  ASSUME RespInv, BatchTypeOK, CallOfStage, NEW c \in Callers, DoReturns(c), SeenApplied(c)
  PROVE  SeenApplied(c)'
<1>1. PICK q \in Nat \ {0} :
        /\ q > at[c] /\ Sequential(c, q)
        /\ \/ pc[c] = "ok" /\ q = at[c] + 1 /\ ~NextEntry(c, at[c], q)
           \/ NextEntry(c, at[c], q)
  BY DoReturnsShape, Zenon
<1>2. /\ stage[c] = "do" /\ at[c] \in CommandIds(c) /\ at[c] \in Nat \ {0} /\ pc[c] \in Idle
      /\ UNCHANGED applied /\ Len(Batch[c]) \in Nat
  <2>1. stage[c] = "do" /\ at[c] \in CommandIds(c) /\ at[c] \in Nat \ {0} /\ UNCHANGED applied
    BY DoReturnsShape, Zenon
  <2>2. pc[c] \in Idle
    BY Zenon DEF DoReturns, Idle
  <2>3. Len(Batch[c]) \in 1 .. MaxCmds
    BY BatchFacts, Zenon
  <2>4. Len(Batch[c]) \in Nat
    BY <2>3
  <2> QED BY <2>1, <2>2, <2>4, Zenon
<1>3. ASSUME q \in CommandIds(c), NEW p \in 1 .. q - 1, Batch[c][p] = Batch[c][q]
      PROVE  applied[c][p] > 0
  <2>1. p \in CommandIds(c) /\ p \in Nat /\ q \in Nat /\ p < q
    BY <1>2, <1>3, SMTT(30) DEF CommandIds
  <2>2. CASE NextEntry(c, at[c], q)
    <3>1. Batch[c][q] # Batch[c][at[c]] /\ \A r \in at[c] .. q - 1 : Batch[c][r] = Batch[c][at[c]]
      BY <1>3, <2>2, Zenon DEF NextEntry
    <3>2. CASE p <= at[c]
      <4>1. at[c] <= q
        BY <1>1, <1>2
      <4>2. Batch[c][at[c]] = Batch[c][q]
        BY <1>2, <1>3, <2>1, <3>2, <4>1, SameEntry, Zenon
      <4> QED BY <3>1, <4>2, Zenon
    <3>3. CASE p > at[c]
      <4>1. p \in at[c] .. q - 1
        BY <1>2, <2>1, <3>3
      <4> QED BY <1>3, <3>1, <4>1, Zenon
    <3> QED BY <1>2, <2>1, <3>2, <3>3
  <2>3. CASE pc[c] = "ok" /\ q = at[c] + 1 /\ ~NextEntry(c, at[c], q)
    <3>1. Batch[c][q] = Batch[c][at[c]]
      <4>1. q \in at[c] + 1 .. Len(Batch[c]) + 1 /\ \A r \in at[c] .. q - 1 : r = at[c]
        BY <1>2, <1>3, <2>3 DEF CommandIds
      <4> QED BY <2>3, <4>1, Zenon DEF NextEntry
    <3>2. p \in 1 .. at[c]
      BY <1>2, <2>1, <2>3
    <3> QED BY <1>2, <1>3, <2>3, <3>1, <3>2, Zenon DEF SeenApplied
  <2> QED BY <1>1, <2>2, <2>3, Zenon
<1> QED BY <1>1, <1>2, <1>3, SeenSequential, Zenon

LEMMA SeenStep ==
  ASSUME RespInv, BatchTypeOK, ConnUse, CallOfStage, Answered, \A c \in Callers : ~lagged[c] => SeenApplied(c),
         NodeNext \/ UNCHANGED nodeVars, NEW d \in Callers, ~lagged'[d]
  PROVE  SeenApplied(d)'
<1>0. Grows
  BY GrowsStep, Zenon
<1>1. ASSUME NEW c \in Callers, StartBatch(c) PROVE SeenApplied(d)'
  <2>1. UNCHANGED lagged /\ Begin(c, Pipelined(c)) /\ at' = at
    BY <1>1, Zenon DEF StartBatch
  <2>2. SeenApplied(d)
    BY <2>1, Zenon
  <2>3. /\ pc'[c] \in {"lock", "err"} /\ UNCHANGED <<unread, garbled>>
        /\ \A b \in Callers : b # c => pc'[b] = pc[b] /\ call'[b] = call[b]
    BY <2>1, BeginShape, Zenon
  <2>4. stage'[c] = "pipeline" /\ \A b \in Callers : b # c => stage'[b] = stage[b]
    BY <1>1, Zenon DEF StartBatch, BatchTypeOK
  <2>5. CASE d = c
    BY <2>3, <2>4, <2>5, Zenon DEF SeenApplied
  <2>6. CASE d # c
    BY <1>0, <2>1, <2>2, <2>3, <2>4, <2>6, SeenKept, Zenon
  <2> QED BY <2>5, <2>6, Zenon
<1>2. ASSUME NEW c \in Callers, NEW q \in Nat \ {0}, Sequential(c, q), pc[c] \in Idle, UNCHANGED lagged,
             d # c
      PROVE  SeenApplied(d)'
  <2>1. SeenApplied(d)
    BY <1>2, Zenon
  <2>2. /\ pc'[d] = pc[d] /\ call'[d] = call[d] /\ stage'[d] = stage[d] /\ at'[d] = at[d]
        /\ UNCHANGED <<unread, garbled>>
    BY <1>2, SequentialShape, Zenon
  <2> QED BY <1>0, <2>1, <2>2, SeenKept, Zenon
<1>3. ASSUME NEW c \in Callers, PipelineReturns(c) PROVE SeenApplied(d)'
  <2>0. pc[c] \in {"ok", "err"} /\ pc[c] \in Idle /\ UNCHANGED <<lagged, applied>> /\ 1 \in Nat \ {0}
    BY <1>3, SMTT(30) DEF PipelineReturns, Idle
  <2>1. SeenApplied(d)
    BY <2>0, Zenon
  <2>2. CASE pc[c] = "ok"
    <3>1. /\ UNCHANGED <<pc, call, at, unread, garbled>>
          /\ stage'[c] = "done" /\ \A b \in Callers : b # c => stage'[b] = stage[b]
      BY <1>3, <2>2, Zenon DEF PipelineReturns, BatchTypeOK, respVars, callVars, wireVars
    <3>2. CASE d = c
      BY <2>2, <3>1, <3>2, Zenon DEF SeenApplied
    <3>3. CASE d # c
      BY <1>0, <2>1, <3>1, <3>3, SeenKept, Zenon
    <3> QED BY <3>2, <3>3, Zenon
  <2>3. CASE pc[c] = "err"
    <3>1. Sequential(c, 1)
      BY <1>3, <2>3, Zenon DEF PipelineReturns
    <3>2. CASE d = c
      <4>1. 1 \in CommandIds(c) => \A p \in 1 .. 1 - 1 : Batch[c][p] = Batch[c][1] => applied[c][p] > 0
        OBVIOUS
      <4> QED BY <2>0, <3>1, <3>2, <4>1, SeenSequential, Zenon
    <3>3. CASE d # c
      BY <1>2, <2>0, <3>1, <3>3, Zenon
    <3> QED BY <3>2, <3>3, Zenon
  <2> QED BY <2>0, <2>2, <2>3, Zenon
<1>4. ASSUME NEW c \in Callers, DoReturns(c) PROVE SeenApplied(d)'
  <2>0. UNCHANGED lagged /\ pc[c] \in Idle
    BY <1>4, Zenon DEF DoReturns, Idle
  <2>1. SeenApplied(d)
    BY <2>0, Zenon
  <2>2. CASE d = c
    BY <1>4, <2>1, <2>2, SeenDo, Zenon
  <2>3. CASE d # c
    BY <1>2, <1>4, <2>0, <2>3, DoReturnsShape, Zenon
  <2> QED BY <2>2, <2>3, Zenon
<1>5. ASSUME NEW c \in Callers, InCall(c) PROVE SeenApplied(d)'
  <2>1. SeenApplied(d)
    <3>1. lagged[d] => lagged'[d]
      BY <1>5, InCallShape, Zenon
    <3> QED BY <3>1, Zenon
  <2>2. CASE d = c
    BY <1>5, <2>1, <2>2, SeenCall, Zenon
  <2>3. CASE d # c
    <3>1. /\ pc[d] # "read" /\ pc'[d] = pc[d] /\ call'[d] = call[d]
          /\ stage'[d] = stage[d] /\ at'[d] = at[d]
      BY <1>5, <2>3, InCallShape, CallStepFrame, Zenon
    <3> QED BY <1>0, <2>1, <3>1, SeenKept, Zenon
  <2> QED BY <2>2, <2>3, Zenon
<1>6. ASSUME UNCHANGED <<pc, call, unread, garbled, stage, at, lagged>> PROVE SeenApplied(d)'
  <2>1. SeenApplied(d)
    BY <1>6, Zenon
  <2> QED BY <1>0, <1>6, <2>1, SeenKept, Zenon
<1>7. ASSUME Execute PROVE SeenApplied(d)'
  BY <1>6, <1>7, ExecuteShape, Zenon
<1> QED BY <1>1, <1>3, <1>4, <1>5, <1>6, <1>7, RestFrame, Zenon DEF NodeNext, Writer, nodeVars, batchVars

LEMMA ReportStep ==
  ASSUME RespInv, BatchTypeOK, CallOfStage, \A c \in Callers : ~lagged[c] => SeenApplied(c),
         ReportedApplied, NodeNext \/ UNCHANGED nodeVars
  PROVE  ReportedApplied'
<1>0. Grows
  BY GrowsStep, Zenon
<1>1. ASSUME \A c \in Callers : lagged[c] => lagged'[c],
             \A c \in Callers : \A p \in CommandIds(c) :
               report'[c][Batch[c][p]] = "ok" /\ ~lagged'[c] =>
                 report[c][Batch[c][p]] = "ok" \/ applied[c][p] > 0
      PROVE  ReportedApplied'
  <2> SUFFICES ASSUME NEW c \in Callers, NEW p \in CommandIds(c),
                      report'[c][Batch[c][p]] = "ok", ~lagged'[c]
               PROVE  applied'[c][p] > 0
    BY Zenon DEF ReportedApplied
  <2>1. ~lagged[c]
    BY <1>1, Zenon
  <2>2. applied[c][p] > 0
    BY <1>1, <2>1, Zenon DEF ReportedApplied
  <2> QED BY <1>0, <2>2, Zenon DEF Grows
<1>2. ASSUME UNCHANGED report, \A c \in Callers : lagged[c] => lagged'[c] PROVE ReportedApplied'
  BY <1>1, <1>2, Zenon
<1>3. ASSUME UNCHANGED lagged PROVE \A c \in Callers : lagged[c] => lagged'[c]
  BY <1>3, Zenon
<1>4. ASSUME NEW c \in Callers, StartBatch(c) PROVE ReportedApplied'
  BY <1>2, <1>3, <1>4, Zenon DEF StartBatch
<1>5. ASSUME NEW c \in Callers, PipelineReturns(c) PROVE ReportedApplied'
  <2>1. UNCHANGED lagged /\ stage[c] = "pipeline" /\ pc[c] \in {"ok", "err"}
    BY <1>5, Zenon DEF PipelineReturns
  <2>2. CASE pc[c] = "err"
    BY <1>2, <1>3, <1>5, <2>1, <2>2, Zenon DEF PipelineReturns
  <2>3. CASE pc[c] = "ok"
    <3>1. \A d \in Callers : d # c => report'[d] = report[d]
      BY <1>5, <2>3, Zenon DEF PipelineReturns, BatchTypeOK
    <3>2. ~lagged'[c] => \A p \in CommandIds(c) : applied[c][p] > 0
      <4>1. ~lagged'[c] => SeenApplied(c)
        BY <2>1, Zenon
      <4> QED BY <2>1, <2>3, <4>1, Zenon DEF SeenApplied
    <3> QED BY <1>1, <1>3, <2>1, <3>1, <3>2, Zenon
  <2> QED BY <2>1, <2>2, <2>3, Zenon
<1>6. ASSUME NEW c \in Callers, DoReturns(c) PROVE ReportedApplied'
  <2> DEFINE e == Batch[c][at[c]]
  <2>1. /\ stage[c] = "do" /\ at[c] \in CommandIds(c) /\ at[c] \in Nat \ {0}
        /\ UNCHANGED lagged /\ Len(Batch[c]) \in Nat /\ e \in EntryIds(c)
    BY <1>6, DoReturnsShape, BatchFacts DEF EntryIds
  <2>2. CASE report' = report
    BY <1>2, <1>3, <2>1, <2>2, Zenon
  <2>3. ASSUME NEW x \in {"ok", "failed"}, report' = [report EXCEPT ![c][e] = x],
               x = "ok" => pc[c] = "ok" /\ NextEntry(c, at[c], at[c] + 1)
        PROVE  ReportedApplied'
    <3>1. /\ \A d \in Callers : d # c => report'[d] = report[d]
          /\ \A f \in EntryIds(c) : report'[c][f] = IF f = e THEN x ELSE report[c][f]
      BY <2>1, <2>3, Zenon DEF BatchTypeOK
    <3>2. ASSUME NEW p \in CommandIds(c), report'[c][Batch[c][p]] = "ok", ~lagged'[c]
          PROVE  report[c][Batch[c][p]] = "ok" \/ applied[c][p] > 0
      <4>1. Batch[c][p] \in EntryIds(c) /\ p \in Nat /\ p \in 1 .. Len(Batch[c])
        BY DEF EntryIds, CommandIds
      <4>2. CASE Batch[c][p] # e
        BY <3>1, <3>2, <4>1, <4>2, Zenon
      <4>3. CASE Batch[c][p] = e
        <5>1. x = "ok"
          BY <3>1, <3>2, <4>1, <4>3, Zenon
        <5>2. pc[c] = "ok" /\ (at[c] + 1 \in CommandIds(c) => Batch[c][at[c] + 1] # e)
          BY <2>3, <5>1, Zenon DEF NextEntry
        <5>3. p <= at[c]
          <6> SUFFICES ASSUME p > at[c] PROVE FALSE
            BY <2>1, <4>1
          <6>1. at[c] + 1 \in CommandIds(c) /\ at[c] <= at[c] + 1 /\ at[c] + 1 <= p
            <7>1. \A a, n, L \in Int : a >= 1 /\ n > a /\ n <= L => a + 1 \in 1 .. L /\ a <= a + 1 /\ a + 1 <= n
              OBVIOUS
            <7>2. at[c] \in Int /\ at[c] >= 1
              BY <2>1
            <7>3. p \in Int /\ Len(Batch[c]) \in Int /\ p <= Len(Batch[c])
              BY <4>1
            <7> QED BY <7>1, <7>2, <7>3, Zenon DEF CommandIds
          <6>2. Batch[c][at[c] + 1] = Batch[c][p]
            BY <2>1, <4>3, <6>1, SameEntry, Zenon
          <6> QED BY <4>3, <5>2, <6>1, <6>2, Zenon
        <5>4. SeenApplied(c)
          BY <2>1, <3>2, Zenon
        <5>5. p \in 1 .. at[c]
          BY <2>1, <4>1, <5>3
        <5> QED BY <2>1, <4>3, <5>2, <5>4, <5>5, Zenon DEF SeenApplied
      <4> QED BY <4>2, <4>3, Zenon
    <3> QED BY <1>1, <1>3, <2>1, <3>1, <3>2, Zenon
  <2>4. \/ report' = report
        \/ /\ pc[c] = "ok" /\ NextEntry(c, at[c], at[c] + 1)
           /\ report' = [report EXCEPT ![c][e] = "ok"]
        \/ report' = [report EXCEPT ![c][e] = "failed"]
    BY <1>6, DoReturnsShape, Zenon
  <2> HIDE DEF e
  <2> QED BY <2>2, <2>3, <2>4, Zenon
<1>7. ASSUME NEW c \in Callers, InCall(c) PROVE ReportedApplied'
  BY <1>2, <1>7, InCallShape, Zenon
<1>8. ASSUME Execute PROVE ReportedApplied'
  BY <1>2, <1>3, <1>8, ExecuteShape, Zenon
<1> QED BY <1>2, <1>3, <1>4, <1>5, <1>6, <1>7, <1>8, Zenon DEF NodeNext, Writer, nodeVars, batchVars

LEMMA BatchInit == NodeInit => BatchInv
<1> SUFFICES ASSUME NodeInit PROVE BatchInv
  BY Zenon
<1>1. RespInv
  BY InitInv, Zenon DEF NodeInit
<1>2. line = <<>> /\ ready = 0 /\ conn = "open" /\ pc = [c \in Callers |-> "ready"]
  BY Zenon DEF NodeInit, RespInit
<1>3. BatchTypeOK
  <2>1. fell \in [Callers -> BOOLEAN] /\ lagged \in [Callers -> BOOLEAN]
    BY Zenon DEF NodeInit
  <2> QED BY <2>1 DEF NodeInit, BatchTypeOK
<1>4. ConnUse
  BY <1>2, Zenon DEF ConnUse
<1>5. \A c \in Callers : ~fell[c] /\ stage[c] = "idle" /\ pc[c] = "ready"
  BY <1>2, Zenon DEF NodeInit
<1>6. CallOfStage
  BY <1>2, <1>5 DEF CallOfStage, Idle
<1>7. Paid
  <2> SUFFICES ASSUME NEW c \in Callers, NEW p \in CommandIds(c)
               PROVE  AtMost(Waiting(c, p), Left(c, p))
    BY Zenon DEF Paid
  <2>1. Waiting(c, p) = {} /\ applied[c][p] = 0
    BY <1>2 DEF Waiting, NodeInit
  <2>2. Left(c, p) = 0
    BY <1>5, <2>1 DEF Left, SentOnce, SentAgain
  <2> QED BY <2>1, <2>2 DEF AtMost
<1>8. Answered
  BY <1>2 DEF Answered
<1>9. \A c \in Callers : SeenApplied(c)
  BY <1>5, Zenon DEF SeenApplied
<1>10. ReportedApplied
  <2> SUFFICES ASSUME NEW c \in Callers, NEW p \in CommandIds(c) PROVE report[c][Batch[c][p]] # "ok"
    BY Zenon DEF ReportedApplied
  <2> QED BY Zenon DEF NodeInit, EntryIds
<1> QED BY <1>1, <1>3, <1>4, <1>6, <1>7, <1>8, <1>9, <1>10, Zenon DEF BatchInv

LEMMA BatchInvariant == NodeSpec => []BatchInv
<1>1. BatchInv /\ [NodeNext]_nodeVars => BatchInv'
  <2> SUFFICES ASSUME BatchInv, NodeNext \/ UNCHANGED nodeVars PROVE BatchInv'
    BY Zenon
  <2>1. /\ RespInv /\ BatchTypeOK /\ ConnUse /\ CallOfStage /\ Paid /\ Answered
        /\ \A c \in Callers : ~lagged[c] => SeenApplied(c)
        /\ ReportedApplied
    BY Zenon DEF BatchInv
  <2>2. RespInv' /\ BatchTypeOK'
    BY <2>1, RespStep, BatchTypeStep, Zenon
  <2>3. ConnUse' /\ CallOfStage' /\ Paid' /\ Answered'
    BY <2>1, <2>2, UseStep, StageStep, PaidStep, AnsweredStep, Zenon
  <2>4. \A c \in Callers : ~lagged'[c] => SeenApplied(c)'
    BY <2>1, SeenStep, Zenon
  <2>5. ReportedApplied'
    BY <2>1, ReportStep, Zenon
  <2> QED BY <2>2, <2>3, <2>4, <2>5, Zenon DEF BatchInv
<1> QED BY <1>1, BatchInit, PTL DEF NodeSpec

\* For every number of goroutines, every batch (entries of one command and of
\* several) and every set of commands the target refuses, under any interleaving
\* of calls, timeouts, cut replies and Close: an entry that writeNodeBatch counts
\* as written has been executed, every command of it, unless a call of the batch
\* found unread replies on the connection (flow_writer.go:434-568).
THEOREM ReportsAreTrue == NodeSpec => []ReportedApplied
<1>1. BatchInv => ReportedApplied
  BY Zenon DEF BatchInv
<1> QED BY <1>1, BatchInvariant, PTL

\* In the same generality: no command of a batch is executed more than once, or
\* twice when the pipeline has failed and writeSequential has sent the entries
\* again (flow_writer.go:500).
THEOREM NeverThrice == NodeSpec => []TwiceOnlyAfterFailure
<1>1. BatchInv => TwiceOnlyAfterFailure
  <2> SUFFICES ASSUME BatchInv, NEW c \in Callers, NEW p \in CommandIds(c)
               PROVE  applied[c][p] <= IF fell[c] THEN 2 ELSE 1
    BY Zenon DEF TwiceOnlyAfterFailure
  <2>1. /\ applied[c][p] \in Nat
        /\ Left(c, p) >= 0
    BY Zenon DEF BatchInv, BatchTypeOK, Paid, AtMost
  <2>2. SentOnce(c) \in 0 .. 1 /\ SentAgain(c, p) \in 0 .. 1 /\ (~fell[c] => SentAgain(c, p) = 0)
    BY DEF SentOnce, SentAgain
  <2> QED BY <2>1, <2>2 DEF Left
<1> QED BY <1>1, BatchInvariant, PTL
=============================================================================
