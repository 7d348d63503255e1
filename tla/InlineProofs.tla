---------------------------- MODULE InlineProofs ----------------------------
(***************************************************************************)
(* Proofs about one FLOW of the snapshot phase, parser and writer together *)
(* (InlineJournal): for every stream the source may send, every place the  *)
(* connection may be lost at, and every way the writer may run.  The bound *)
(* on the writer's goroutines comes last: it needs the facts about finite  *)
(* sets, which nothing else here does.                                     *)
(***************************************************************************)
EXTENDS InlineJournal, FlowWriterProofs

\* What arrives of the stream is fixed from the start.
WireOK ==
  /\ stream \in Streams /\ part \in Int
  /\ cut \in 0 .. Len(stream) /\ ~InBlob(stream, cut)
  /\ part >= 0 => cut < Len(stream)

\* Where the parser is: a blob it reads has arrived whole and has its end mark, an
\* expiry it holds is that of the next item, and it ends where the stream does.
ReadOK ==
  /\ pos \in Nat /\ inner \in Nat /\ reader \in {"original", "blob"}
  /\ reader = "blob" => endMark /\ pos + inner <= cut
  /\ pos <= cut \/ (part >= 0 /\ pos = cut + 1)
  /\ expireMs = Own(pos + 1)
  /\ parser = "done" => pos >= cut /\ blob = <<>>
  /\ stop # "running" => parser = "done"

\* The commands left of a JOURNAL_BLOB are the last ones of the item just read.
BlobOK ==
  /\ blob \in Seq([key : Keys, version : Nat \ {0}])
  /\ blob # <<>> =>
       LET sent == stream[pos].commands IN
       /\ pos \in 1 .. cut /\ stream[pos].op = "journal"
       /\ Len(blob) <= Len(sent)
       /\ \A x \in 1 .. Len(blob) : blob[x] = sent[Len(sent) - Len(blob) + x]

\* What was handed over has been read, and is what was enqueued.
HandedOK ==
  /\ entries \in Seq({entries[e] : e \in 1 .. Len(entries)})
  /\ received = Len(entries)
  /\ \A e \in 1 .. received : entries[e].at \in 1 .. pos

\* The target may have every key.
TargetOK == target = [k \in Keys \cup {EmptyKey} |-> target[k]]

\* The c-th command of the item at i has been applied.
Ran(i, c) ==
  /\ i \in 1 .. pos /\ i <= cut /\ stream[i].op = "journal"
  /\ c \in 1 .. Len(stream[i].commands)
  /\ i = pos => c <= Len(stream[i].commands) - Len(blob)

\* No entry of k has been cut short or lost so far.
Unharmed(k) == \A e \in 1 .. received : entries[e].key = k => Whole(e) /\ fate[e] \in {"none", "written"}

\* The target has the newest of what was written and applied of k, and no command
\* has been applied after an entry of k that is still in the writer.
Fresh(k) ==
  /\ \/ target[k] = 0
     \/ \E e \in 1 .. received : entries[e].key = k /\ fate[e] = "written" /\ target[k] = entries[e].version
     \/ \E i, c \in Nat :
          Ran(i, c) /\ stream[i].commands[c].key = k /\ target[k] = stream[i].commands[c].version
  /\ \A e \in 1 .. received :
       entries[e].key = k /\ fate[e] = "written" => entries[e].version <= target[k]
  /\ \A i, c \in Nat :
       Ran(i, c) /\ stream[i].commands[c].key = k =>
         /\ stream[i].commands[c].version <= target[k]
         /\ \A e \in 1 .. received :
              entries[e].key = k /\ fate[e] = "none" => i < entries[e].at

FlowInv ==
  /\ WireOK /\ ReadOK /\ BlobOK /\ HandedOK /\ TargetOK /\ EntriesAsSent
  /\ \A k \in Keys \ raced : Unharmed(k) => Fresh(k)

-----------------------------------------------------------------------------
(* The flow drives the writer *)

\* Every step of the parser, of its callbacks and of receiveSnapshot is a step of
\* the writer or none.
LEMMA WriterStep == ASSUME [InlineNext]_allVars PROVE [Next]_writerVars
<1>1. CASE ParseStep
  <2>1. CASE ParseEntry
    BY <2>1, Zenon DEF ParseEntry, Next
  <2>2. CASE ~ParseEntry
    <3>1. UNCHANGED writerVars
      BY <1>1, <2>2, Zenon DEF ParseStep, ReadExpiry, ReadOver, OpenBlob, CloseBlob, TornFails,
         TornJournal, StreamEnds, BadEntry, SkipExpired, ReadJournal, ApplyInline, InlineFails
    <3> QED BY <3>1, Zenon
  <2> QED BY <2>1, <2>2, Zenon
<1>2. CASE StopWriter \/ StopReturns \/ LoopStep \/ FlushToTarget
  BY <1>2, Zenon DEF StopWriter, FlushToTarget, Next
<1>3. CASE UNCHANGED allVars
  BY <1>3, Zenon DEF allVars
<1> QED BY <1>1, <1>2, <1>3, Zenon DEF InlineNext

-----------------------------------------------------------------------------
(* What the source means *)

\* How much is sent, and how much arrives.
LEMMA WireSizes ==
  ASSUME WireOK
  PROVE  /\ cut \in Nat /\ Len(stream) \in Nat /\ cut <= Len(stream) /\ part \in Int
         /\ \A i \in 1 .. cut : i \in Nat /\ i \in 1 .. Len(stream)
<1>1. Len(stream) \in Nat /\ cut \in 0 .. Len(stream) /\ part \in Int
  BY InlineJournalAssumption, Zenon DEF WireOK
<1> QED BY <1>1

\* The latest of a set is its largest element.
LEMMA LatestIs ==
  ASSUME NEW S, NEW n \in S, S \subseteq Int, \A m \in S : m <= n
  PROVE  Latest(S) = n
<1>1. Latest(S) \in S /\ \A m \in S : m <= Latest(S)
  BY Zenon DEF Latest
<1>2. Latest(S) <= n /\ n <= Latest(S) /\ Latest(S) \in Int /\ n \in Int
  BY <1>1, Zenon
<1> QED BY <1>2

\* The expiry in force after an item: that of an expiry opcode, none after an entry.
LEMMA OwnStep ==
  ASSUME WireOK, NEW i \in 1 .. Len(stream)
  PROVE  Own(i + 1) = IF stream[i].op \in Expiries
                      THEN IF stream[i].op = "expiretime" THEN stream[i].time * 1000 ELSE stream[i].time
                      ELSE IF IsEntry(stream[i]) THEN 0 ELSE Own(i)
<1> DEFINE Since(n) == {j \in 1 .. (n - 1) : /\ stream[j].op \in Expiries
                                             /\ \A m \in j .. (n - 1) : ~IsEntry(stream[m])}
           At(n) == LET last == stream[Latest(Since(n))]
                    IN IF Since(n) = {} THEN 0
                       ELSE IF last.op = "expiretime" THEN last.time * 1000 ELSE last.time
<1>0. i \in Nat /\ \A n : Own(n) = At(n)
  <2>1. Len(stream) \in Nat
    BY WireSizes, Zenon
  <2> QED BY <2>1 DEF Own
<1>1. CASE stream[i].op \in Expiries
  <2>1. ~IsEntry(stream[i])
    BY <1>1, Zenon DEF IsEntry, Expiries
  <2>2. i \in Since(i + 1) /\ Since(i + 1) \subseteq Int /\ \A m \in Since(i + 1) : m <= i
    BY <1>0, <1>1, <2>1
  <2> HIDE DEF Since
  <2>3. Latest(Since(i + 1)) = i
    BY <2>2, LatestIs, Zenon
  <2>4. Since(i + 1) # {}
    BY <2>2, Zenon
  <2>5. At(i + 1) = IF stream[i].op = "expiretime" THEN stream[i].time * 1000 ELSE stream[i].time
    BY <2>3, <2>4
  <2> QED BY <1>0, <1>1, <2>5
<1>2. CASE IsEntry(stream[i]) /\ stream[i].op \notin Expiries
  <2>1. Since(i + 1) = {}
    BY <1>0, <1>2
  <2> HIDE DEF Since
  <2> QED BY <1>0, <1>2, <2>1, Zenon
<1>3. CASE ~IsEntry(stream[i]) /\ stream[i].op \notin Expiries
  <2>1. ASSUME NEW j \in Since(i + 1) PROVE j \in Since(i)
    <3>1. j \in 1 .. i /\ stream[j].op \in Expiries /\ \A m \in j .. i : ~IsEntry(stream[m])
      BY <1>0, <2>1
    <3>2. j # i
      BY <1>3, <3>1, Zenon
    <3> QED BY <1>0, <3>1, <3>2
  <2>2. ASSUME NEW j \in Since(i) PROVE j \in Since(i + 1)
    <3>1. j \in 1 .. (i - 1) /\ stream[j].op \in Expiries /\ \A m \in j .. (i - 1) : ~IsEntry(stream[m])
      BY <1>0, <2>2, Zenon
    <3>2. \A m \in j .. i : m \in j .. (i - 1) \/ m = i
      BY <1>0, <3>1
    <3>3. \A m \in j .. i : ~IsEntry(stream[m])
      BY <1>3, <3>1, <3>2, Zenon
    <3> QED BY <1>0, <3>1, <3>3
  <2>3. Since(i + 1) = Since(i)
    BY <2>1, <2>2, Zenon
  <2> HIDE DEF Since
  <2>4. At(i + 1) = At(i)
    BY <2>3
  <2> HIDE DEF At
  <2> QED BY <1>0, <1>3, <2>4, Zenon
<1> QED BY <1>1, <1>2, <1>3, Zenon

\* No expiry is in force at the start.
LEMMA OwnFirst == Own(1) = 0
<1>1. {j \in 1 .. (1 - 1) : /\ stream[j].op \in Expiries
                            /\ \A m \in j .. (1 - 1) : ~IsEntry(stream[m])} = {}
  OBVIOUS
<1> QED BY <1>1, Zenon DEF Own

\* Only the source decides what is sent, and when the connection is lost.
LEMMA WireStays == ASSUME [InlineNext]_allVars PROVE UNCHANGED <<stream, cut, part>>
<1>1. CASE ParseStep
  BY <1>1, Zenon DEF ParseStep, ReadExpiry, ReadOver, OpenBlob, CloseBlob, TornFails, TornJournal,
     StreamEnds, BadEntry, SkipExpired, ParseEntry, ReadJournal, ApplyInline, InlineFails, wireVars
<1>2. CASE StopWriter \/ FlushToTarget \/ UNCHANGED inlineVars
  BY <1>2, Zenon DEF StopWriter, FlushToTarget, inlineVars, wireVars
<1>3. CASE UNCHANGED allVars
  BY <1>3, Zenon DEF allVars, inlineVars, wireVars
<1> QED BY <1>1, <1>2, <1>3, Zenon DEF InlineNext

-----------------------------------------------------------------------------
(* Where the parser is *)

\* The item ParseNext is about to read, and how much of it arrives.
LEMMA NextItem ==
  ASSUME WireOK, ReadOK, NEW ops, Upcoming(ops), "blobEnd" \notin ops
  PROVE  /\ Item = stream[pos + 1] /\ pos + 1 \in 1 .. Len(stream)
         /\ stream[pos + 1].op \in ops /\ WellFormed(stream[pos + 1])
         /\ parser = "parsing" /\ blob = <<>>
         /\ ~Torn => pos + 1 <= cut
         /\ Torn => pos = cut /\ part >= 0 /\ reader = "original"
         /\ reader = "blob" => inner > 0
<1>0. parser = "parsing" /\ blob = <<>> /\ Readable /\ Item.op \in ops
  BY Zenon DEF Upcoming
<1>1. ~(reader = "blob" /\ inner = 0) /\ Item = stream[pos + 1]
  <2>1. ASSUME reader = "blob", inner = 0 PROVE FALSE
    <3>1. Item = [op |-> "blobEnd"]
      BY <2>1, Zenon DEF Item
    <3>2. [op |-> "blobEnd"].op = "blobEnd"
      BY Zenon
    <3> QED BY <1>0, <3>1, <3>2, Zenon
  <2> QED BY <2>1, Zenon DEF Item
<1>2. pos \in Nat /\ inner \in Nat /\ cut \in Nat /\ Len(stream) \in Nat /\ cut <= Len(stream)
  BY WireSizes, Zenon DEF ReadOK
<1>3. Torn => pos = cut /\ part >= 0 /\ reader = "original"
  BY Zenon DEF Torn
<1>4. ~Torn => pos + 1 <= cut
  <2>1. CASE reader = "blob"
    BY <1>1, <1>2, <2>1 DEF ReadOK
  <2>2. CASE reader # "blob" /\ ~Torn
    <3>1. pos < cut
      BY <1>0, <2>2, Zenon DEF Readable
    <3> QED BY <1>2, <3>1
  <2> QED BY <2>1, <2>2, Zenon
<1>5. pos + 1 \in 1 .. Len(stream)
  <2>1. CASE Torn
    BY <1>2, <1>3, <2>1 DEF WireOK
  <2>2. CASE ~Torn
    BY <1>2, <1>4, <2>2
  <2> QED BY <2>1, <2>2, Zenon
<1>6. WellFormed(stream[pos + 1])
  BY <1>5, InlineJournalAssumption, Zenon DEF WireOK
<1>7. reader = "blob" => inner > 0
  BY <1>1, <1>2
<1> QED BY <1>0, <1>1, <1>3, <1>4, <1>5, <1>6, <1>7, Zenon

\* Reading an item, the parser stays inside what has arrived.
LEMMA ConsumeKeeps ==
  ASSUME WireOK, ReadOK, NEW ops, Upcoming(ops), "blobEnd" \notin ops, Consume, UNCHANGED <<cut, part>>
  PROVE  /\ pos' = pos + 1 /\ pos \in Nat /\ pos' \in Nat /\ inner' \in Nat
         /\ reader' \in {"original", "blob"}
         /\ reader' = "blob" => endMark' /\ pos' + inner' <= cut'
         /\ pos' <= cut' \/ (part' >= 0 /\ pos' = cut' + 1)
<1>1. pos' = pos + 1 /\ inner' = (IF reader = "blob" THEN inner - 1 ELSE inner) /\ reader' = reader
      /\ endMark' = endMark
  BY Zenon DEF Consume
<1>2. /\ ~Torn => pos + 1 <= cut
      /\ Torn => pos = cut /\ part >= 0 /\ reader = "original"
      /\ reader = "blob" => inner > 0
  BY NextItem, Zenon
<1>3. pos \in Nat /\ inner \in Nat /\ cut \in Nat /\ reader \in {"original", "blob"}
      /\ (reader = "blob" => pos + inner <= cut)
  BY WireSizes, Zenon DEF ReadOK
<1>4. reader' = "blob" => endMark'
  BY <1>1, Zenon DEF ReadOK
<1>5. reader' = "blob" => pos' + inner' <= cut'
  BY <1>1, <1>2, <1>3
<1>6. pos' <= cut' \/ (part' >= 0 /\ pos' = cut' + 1)
  BY <1>1, <1>2, <1>3, Zenon
<1>7. inner' \in Nat /\ pos' \in Nat
  BY <1>1, <1>2, <1>3
<1> QED BY <1>1, <1>3, <1>4, <1>5, <1>6, <1>7, Zenon

\* Every step leaves the parser where it may be.
LEMMA ReadStep == ASSUME WireOK, ReadOK, [InlineNext]_allVars PROVE ReadOK'
<1>0. stream' = stream /\ cut' = cut /\ part' = part
  BY WireStays, Zenon
<1>1. (Own(pos + 1))' = Own(pos' + 1)
  BY <1>0 DEF Own
<1>2. pos \in Nat /\ Len(stream) \in Nat /\ cut \in Nat /\ cut <= Len(stream)
  BY WireSizes, Zenon DEF ReadOK
\* An item is read, and its expiry is known.
<1>3. ASSUME NEW ops, Upcoming(ops), "blobEnd" \notin ops, Consume, stop' = stop,
             expireMs' = Own((pos + 1) + 1),
             parser' = "parsing" \/ (parser' = "done" /\ stream[pos + 1].op = "eof" /\ blob' = <<>>)
      PROVE  ReadOK'
  <2>1. /\ pos' = pos + 1 /\ pos' \in Nat /\ inner' \in Nat /\ reader' \in {"original", "blob"}
        /\ reader' = "blob" => endMark' /\ pos' + inner' <= cut'
        /\ pos' <= cut' \/ (part' >= 0 /\ pos' = cut' + 1)
    BY <1>0, <1>3, ConsumeKeeps, Zenon
  <2>2. pos + 1 \in 1 .. Len(stream) /\ parser = "parsing"
    BY <1>3, NextItem, Zenon
  <2>3. expireMs' = (Own(pos + 1))'
    BY <1>1, <1>3, <2>1, Zenon
  <2>4. parser' = "done" => pos' >= cut' /\ blob' = <<>>
    <3> SUFFICES ASSUME parser' = "done" PROVE pos' >= cut' /\ blob' = <<>>
      BY Zenon
    <3>1. stream[pos + 1].op = "eof" /\ blob' = <<>>
      BY <1>3, Zenon
    <3>2. pos + 1 = Len(stream)
      BY <2>2, <3>1, InlineJournalAssumption, Zenon DEF WireOK
    <3> QED BY <1>0, <1>2, <2>1, <3>1, <3>2, Zenon
  <2>5. stop' # "running" => parser' = "done"
    <3>1. stop = "running"
      BY <2>2, Zenon DEF ReadOK
    <3> QED BY <1>3, <3>1, Zenon
  <2> QED BY <2>1, <2>3, <2>4, <2>5, Zenon DEF ReadOK
\* Nothing is read.
<1>4. ASSUME UNCHANGED <<pos, reader, inner, endMark, expireMs>>,
             parser' = "done" => pos >= cut /\ blob' = <<>>,
             stop' # "running" => parser' = "done"
      PROVE  ReadOK'
  <2>1. expireMs' = (Own(pos + 1))'
    BY <1>1, <1>4, Zenon DEF ReadOK
  <2> QED BY <1>0, <1>4, <2>1, Zenon DEF ReadOK
<1>5. ASSUME NEW ops, Upcoming(ops), "blobEnd" \notin ops
      PROVE  Own((pos + 1) + 1) = IF Item.op \in Expiries
                                  THEN IF Item.op = "expiretime" THEN Item.time * 1000 ELSE Item.time
                                  ELSE IF IsEntry(Item) THEN 0 ELSE expireMs
  <2>1. pos + 1 \in 1 .. Len(stream) /\ Item = stream[pos + 1]
    BY <1>5, NextItem, Zenon
  <2>2. expireMs = Own(pos + 1)
    BY Zenon DEF ReadOK
  <2>3. Own((pos + 1) + 1) = IF stream[pos + 1].op \in Expiries
                             THEN IF stream[pos + 1].op = "expiretime"
                                  THEN stream[pos + 1].time * 1000 ELSE stream[pos + 1].time
                             ELSE IF IsEntry(stream[pos + 1]) THEN 0 ELSE Own(pos + 1)
    BY <2>1, OwnStep, ZenonT(40)
  <2> QED BY <2>1, <2>2, <2>3, Zenon
<1>6. ASSUME UNCHANGED writerVars \/ Enqueue PROVE stop' = stop
  BY <1>6, Zenon DEF writerVars, Enqueue
<1>7. CASE ReadExpiry
  <2>1. Upcoming(Expiries) /\ Consume /\ parser' = parser /\ stop' = stop
        /\ expireMs' = IF Item.op = "expiretime" THEN 1000 * Item.time ELSE Item.time
    BY <1>6, <1>7, Zenon DEF ReadExpiry
  <2>2. "blobEnd" \notin Expiries
    BY Zenon DEF Expiries
  <2>3. Item.op \in Expiries /\ WellFormed(Item) /\ parser = "parsing"
    BY <2>1, <2>2, NextItem, Zenon
  <2>4. Item.time \in Nat
    BY <2>3, Zenon DEF WellFormed
  <2>5. expireMs' = IF Item.op = "expiretime" THEN Item.time * 1000 ELSE Item.time
    BY <2>1, <2>4
  <2>6. expireMs' = Own((pos + 1) + 1)
    <3>1. Own((pos + 1) + 1) = IF Item.op \in Expiries
                               THEN IF Item.op = "expiretime" THEN Item.time * 1000 ELSE Item.time
                               ELSE IF IsEntry(Item) THEN 0 ELSE expireMs
      BY <1>5, <2>1, <2>2, Zenon
    <3> QED BY <2>3, <2>5, <3>1, Zenon
  <2> QED BY <1>3, <2>1, <2>2, <2>3, <2>6, Zenon
<1>8. CASE ReadOver \/ TornJournal \/ ReadJournal
  <2> DEFINE ops == {"skip", "journal"}
  <2>1. Upcoming(ops) /\ Consume /\ parser' = parser /\ stop' = stop /\ expireMs' = expireMs
    BY <1>6, <1>8, Zenon DEF ReadOver, TornJournal, ReadJournal, Upcoming
  <2>2. "blobEnd" \notin ops /\ \A x \in ops : x \notin Expiries /\ x # "entry"
    BY Zenon DEF Expiries
  <2> HIDE DEF ops
  <2>3. Item.op \in ops /\ parser = "parsing"
    BY <2>1, <2>2, NextItem, Zenon
  <2>4. expireMs' = Own((pos + 1) + 1)
    BY <1>5, <2>1, <2>2, <2>3, Zenon DEF IsEntry
  <2> QED BY <1>3, <2>1, <2>2, <2>3, <2>4, Zenon
<1>9. CASE SkipExpired \/ ParseEntry
  <2> DEFINE ops == {"entry"}
  <2>1. Upcoming(ops) /\ Consume /\ parser' = parser /\ stop' = stop /\ expireMs' = 0
    BY <1>6, <1>9, Zenon DEF SkipExpired, ParseEntry
  <2>2. "blobEnd" \notin ops /\ \A x \in ops : x \notin Expiries /\ x = "entry"
    BY Zenon DEF Expiries
  <2> HIDE DEF ops
  <2>3. Item.op \in ops /\ parser = "parsing"
    BY <2>1, <2>2, NextItem, Zenon
  <2>4. expireMs' = Own((pos + 1) + 1)
    BY <1>5, <2>1, <2>2, <2>3, Zenon DEF IsEntry
  <2> QED BY <1>3, <2>1, <2>2, <2>3, <2>4, Zenon
<1>10. CASE OpenBlob
  <2> DEFINE ops == {"compressed"}
  <2>1. Upcoming(ops) /\ ~Torn /\ inner' = Item.count /\ endMark' /\ reader' = "blob" /\ pos' = pos + 1
        /\ expireMs' = expireMs /\ parser' = parser /\ stop' = stop
    BY <1>6, <1>10, Zenon DEF OpenBlob
  <2>2. "blobEnd" \notin ops /\ \A x \in ops : x \notin Expiries /\ x # "entry" /\ x = "compressed"
    BY Zenon DEF Expiries
  <2> HIDE DEF ops
  <2>3. /\ Item.op \in ops /\ Item = stream[pos + 1] /\ pos + 1 <= cut /\ WellFormed(Item)
        /\ parser = "parsing"
    BY <2>1, <2>2, NextItem, Zenon
  <2>4. expireMs' = Own((pos + 1) + 1)
    BY <1>5, <2>1, <2>2, <2>3, Zenon DEF IsEntry
  <2>5. Item.count \in Nat
    BY <2>2, <2>3, Zenon DEF WellFormed
  <2>6. (pos + 1) + Item.count <= cut
    <3>1. ~(cut < (pos + 1) + stream[pos + 1].count)
      <4>1. pos + 1 \in 1 .. cut /\ stream[pos + 1].op = "compressed"
        BY <1>2, <2>2, <2>3
      <4> QED BY <4>1, Zenon DEF WireOK, InBlob
    <3> QED BY <1>2, <2>3, <2>5, <3>1
  <2>7. expireMs' = (Own(pos + 1))'
    BY <1>1, <2>1, <2>4, Zenon
  <2>8. stop' = "running" /\ parser' = "parsing"
    BY <2>1, <2>3, Zenon DEF ReadOK
  <2>9. pos' \in Nat /\ inner' \in Nat /\ pos' + inner' <= cut' /\ pos' <= cut'
    BY <1>0, <1>2, <2>1, <2>3, <2>5, <2>6
  <2> QED BY <2>1, <2>7, <2>8, <2>9, Zenon DEF ReadOK
<1>11. CASE CloseBlob
  <2>1. reader' = "original" /\ pos' = pos /\ inner' = inner /\ expireMs' = expireMs /\ parser' = parser
        /\ stop' = stop /\ parser = "parsing"
    BY <1>6, <1>11, Zenon DEF CloseBlob, Upcoming
  <2>2. expireMs' = (Own(pos + 1))'
    BY <1>1, <2>1, Zenon DEF ReadOK
  <2> QED BY <1>0, <2>1, <2>2, Zenon DEF ReadOK
<1>12. CASE TornFails \/ BadEntry \/ InlineFails
  <2>1. UNCHANGED <<pos, reader, inner, endMark, expireMs>> /\ parser' = "failed" /\ parser = "parsing"
        /\ stop' = stop
    BY <1>6, <1>12, Zenon DEF TornFails, BadEntry, InlineFails, readVars, Upcoming
  <2>2. stop' = "running" /\ parser' # "done"
    BY <2>1, Zenon DEF ReadOK
  <2> QED BY <1>4, <2>1, <2>2, Zenon
<1>13. CASE ApplyInline
  <2>1. UNCHANGED <<pos, reader, inner, endMark, expireMs>> /\ parser' = parser /\ parser = "parsing"
        /\ stop' = stop
    BY <1>6, <1>13, Zenon DEF ApplyInline, readVars
  <2>2. stop' = "running" /\ parser' # "done"
    BY <2>1, Zenon DEF ReadOK
  <2> QED BY <1>4, <2>1, <2>2, Zenon
<1>14. CASE StreamEnds
  <2>0. stop' = stop /\ expireMs' = expireMs /\ blob' = <<>> /\ parser = "parsing"
    BY <1>6, <1>14, Zenon DEF StreamEnds
  <2>1. CASE Upcoming({"eof"}) /\ ~Torn /\ Consume /\ parser' = "done"
    <3> DEFINE ops == {"eof"}
    <3>1. "blobEnd" \notin ops /\ \A x \in ops : x \notin Expiries /\ x # "entry" /\ x = "eof"
      BY Zenon DEF Expiries
    <3>2. Upcoming(ops)
      BY <2>1, Zenon
    <3> HIDE DEF ops
    <3>3. Item.op \in ops /\ Item = stream[pos + 1]
      BY <3>1, <3>2, NextItem, Zenon
    <3>4. expireMs' = Own((pos + 1) + 1)
      BY <1>5, <2>0, <3>1, <3>2, <3>3, Zenon DEF IsEntry
    <3> QED BY <1>3, <2>0, <2>1, <3>1, <3>2, <3>3, <3>4, Zenon
  <2>2. CASE ~Readable /\ parser' \in {"done", "failed"} /\ UNCHANGED readVars
    <3>1. stop' = "running"
      BY <2>0, Zenon DEF ReadOK
    <3>2. pos >= cut
      <4>1. reader # "blob"
        BY <2>2, Zenon DEF Readable, ReadOK
      <4>2. ~(pos < cut)
        BY <2>2, <4>1, Zenon DEF Readable
      <4> QED BY <1>2, <4>2
    <3> QED BY <1>4, <2>0, <2>2, <3>1, <3>2, Zenon DEF readVars
  <2> QED BY <1>14, <2>1, <2>2, Zenon DEF StreamEnds
<1>15. CASE StopWriter
  BY <1>4, <1>15, Zenon DEF StopWriter, inlineVars, readVars, ReadOK
<1>16. CASE (StopReturns \/ LoopStep) /\ UNCHANGED inlineVars
  <2>1. stop' # "running" => stop # "running"
    BY <1>16, Zenon DEF StopReturns, LoopStep, Receive, Tick, ChannelClosed, AsyncFlush
  <2> QED BY <1>4, <1>16, <2>1, Zenon DEF inlineVars, readVars, ReadOK
<1>17. CASE FlushToTarget
  <2>1. stop' = stop
    BY <1>17, Zenon DEF FlushToTarget, FlushStep, DropBatch, GroupBatch, WriteChunk, BatchDone
  <2> QED BY <1>4, <1>17, <2>1, Zenon DEF FlushToTarget, readVars, ReadOK
<1>18. CASE UNCHANGED allVars
  BY <1>4, <1>18, Zenon DEF allVars, inlineVars, readVars, writerVars, ReadOK
<1> QED BY <1>7, <1>8, <1>9, <1>10, <1>11, <1>12, <1>13, <1>14, <1>15, <1>16, <1>17, <1>18, Zenon
      DEF InlineNext, ParseStep

-----------------------------------------------------------------------------
(* The commands of a JOURNAL_BLOB *)

\* A step reads nothing, reads an item, or applies a command.
LEMMA Moves ==
  ASSUME WireOK, ReadOK, [InlineNext]_allVars
  PROVE  \/ pos' = pos /\ blob' = blob
         \/ /\ pos' = pos + 1 /\ blob = <<>> /\ pos + 1 \in 1 .. Len(stream)
            /\ \/ blob' = <<>> /\ (stream[pos + 1].op # "journal" \/ pos + 1 > cut)
               \/ blob' = stream[pos + 1].commands /\ stream[pos + 1].op = "journal" /\ pos + 1 <= cut
         \/ ApplyInline
<1>0. pos \in Nat /\ cut \in Nat
  BY WireSizes, Zenon DEF ReadOK
<1>1. ASSUME ReadExpiry \/ ReadOver \/ OpenBlob \/ SkipExpired \/ ParseEntry
             \/ (StreamEnds /\ ~UNCHANGED readVars)
      PROVE  pos' = pos + 1 /\ blob' = blob /\ blob = <<>> /\ pos + 1 \in 1 .. Len(stream)
             /\ stream[pos + 1].op # "journal"
  <2> DEFINE ops == Ops \ {"journal"}
  <2>1. Upcoming(ops) /\ pos' = pos + 1 /\ blob' = blob
    <3>1. Expiries \subseteq ops /\ {"skip"} \subseteq ops /\ {"compressed"} \subseteq ops
          /\ {"entry"} \subseteq ops /\ {"eof"} \subseteq ops
      BY Zenon DEF Expiries, Ops
    <3> HIDE DEF ops
    <3>2. \A x : Upcoming(x) /\ x \subseteq ops => Upcoming(ops)
      BY Zenon DEF Upcoming
    <3>3. CASE StreamEnds /\ ~UNCHANGED readVars
      BY <3>1, <3>2, <3>3, Zenon DEF StreamEnds, Consume
    <3> QED BY <1>1, <3>1, <3>2, <3>3, Zenon DEF ReadExpiry, ReadOver, OpenBlob, SkipExpired, ParseEntry,
            Consume
  <2>2. "blobEnd" \notin ops /\ "journal" \notin ops
    BY Zenon DEF Ops, Expiries
  <2> HIDE DEF ops
  <2> QED BY <2>1, <2>2, NextItem, Zenon
<1>2. CASE ReadJournal \/ TornJournal
  <2> DEFINE ops == {"journal"}
  <2>1. Upcoming(ops) /\ Consume /\ ((Torn /\ blob' = blob) \/ (~Torn /\ blob' = Item.commands))
    BY <1>2, Zenon DEF ReadJournal, TornJournal
  <2>2. "blobEnd" \notin ops /\ \A x \in ops : x = "journal"
    BY Zenon
  <2> HIDE DEF ops
  <2>3. /\ Item = stream[pos + 1] /\ pos + 1 \in 1 .. Len(stream) /\ stream[pos + 1].op = "journal"
        /\ blob = <<>> /\ (~Torn => pos + 1 <= cut) /\ (Torn => pos = cut)
    BY <2>1, <2>2, NextItem, Zenon
  <2>4. Torn => pos + 1 > cut
    BY <1>0, <2>3
  <2> QED BY <2>1, <2>3, <2>4, Zenon DEF Consume
<1>3. CASE CloseBlob \/ TornFails \/ BadEntry \/ InlineFails \/ (StreamEnds /\ UNCHANGED readVars)
  BY <1>3, Zenon DEF CloseBlob, TornFails, BadEntry, InlineFails, StreamEnds, readVars
<1>4. CASE StopWriter \/ FlushToTarget \/ UNCHANGED inlineVars
  BY <1>4, Zenon DEF StopWriter, FlushToTarget, inlineVars, readVars
<1>5. CASE UNCHANGED allVars
  BY <1>5, Zenon DEF allVars, inlineVars, readVars
<1> QED BY <1>1, <1>2, <1>3, <1>4, <1>5, Zenon DEF InlineNext, ParseStep

\* What a command is.
Command == [key : Keys, version : Nat \ {0}]

\* The commands of a journal item of the stream.
LEMMA CommandsSent ==
  ASSUME WireOK, NEW i \in 1 .. Len(stream), stream[i].op = "journal"
  PROVE  stream[i].commands \in Seq(Command)
<1>1. WellFormed(stream[i])
  BY InlineJournalAssumption, Zenon DEF WireOK
<1> QED BY <1>1, Zenon DEF WellFormed, Command

\* What ApplyInline takes from the blob and leaves in it.
LEMMA NextCommand ==
  ASSUME WireOK, BlobOK, ApplyInline
  PROVE  LET sent == stream[pos].commands
             n == Len(sent) - Len(blob) + 1 IN
         /\ pos \in 1 .. cut /\ stream[pos].op = "journal" /\ pos' = pos /\ stream' = stream /\ cut' = cut
         /\ sent \in Seq(Command) /\ n \in 1 .. Len(sent) /\ Head(blob) = sent[n] /\ sent[n] \in Command
         /\ blob' \in Seq(Command) /\ Len(blob') = Len(blob) - 1 /\ Len(blob) \in Nat
         /\ \A x \in 1 .. Len(blob') : blob'[x] = blob[x + 1]
<1> DEFINE sent == stream[pos].commands
<1>1. blob # <<>> /\ blob' = Tail(blob) /\ pos' = pos /\ stream' = stream /\ cut' = cut
  BY Zenon DEF ApplyInline, readVars, wireVars
<1>2. /\ pos \in 1 .. cut /\ stream[pos].op = "journal" /\ Len(blob) <= Len(sent)
      /\ \A x \in 1 .. Len(blob) : blob[x] = sent[Len(sent) - Len(blob) + x]
  BY <1>1, Zenon DEF BlobOK
<1>3. pos \in 1 .. Len(stream)
  <2>1. Len(stream) \in Nat
    BY WireSizes, Zenon
  <2> QED BY <1>2, <2>1 DEF WireOK
<1>4. sent \in Seq(Command) /\ blob \in Seq(Command)
  BY <1>2, <1>3, CommandsSent, Zenon DEF BlobOK, Command
<1> HIDE DEF sent
<1>5. Len(sent) \in Nat /\ Len(blob) \in Nat /\ Len(blob) > 0
  BY <1>1, <1>4
<1>6. /\ blob' \in Seq(Command) /\ Len(blob') = Len(blob) - 1
      /\ \A x \in 1 .. Len(blob') : blob'[x] = blob[x + 1]
      /\ Head(blob) = blob[1]
  BY <1>1, <1>4, <1>5
<1>7. Len(sent) - Len(blob) + 1 \in 1 .. Len(sent) /\ blob[1] = sent[Len(sent) - Len(blob) + 1]
  BY <1>2, <1>5
<1>8. sent[Len(sent) - Len(blob) + 1] \in Command
  BY <1>4, <1>7
<1> QED BY <1>1, <1>2, <1>4, <1>5, <1>6, <1>7, <1>8, Zenon DEF sent

\* The blob stays the end of the item.
LEMMA BlobStep == ASSUME WireOK, ReadOK, BlobOK, [InlineNext]_allVars PROVE BlobOK'
<1>0. stream' = stream /\ cut' = cut
  BY WireStays, Zenon
<1>1. CASE pos' = pos /\ blob' = blob
  BY <1>0, <1>1, Zenon DEF BlobOK
<1>2. CASE blob' = <<>>
  <2>1. blob' \in Seq([key : Keys, version : Nat \ {0}])
    BY <1>2
  <2> QED BY <1>2, <2>1, Zenon DEF BlobOK
<1>3. CASE /\ pos' = pos + 1 /\ pos + 1 \in 1 .. Len(stream) /\ blob' = stream[pos + 1].commands
           /\ stream[pos + 1].op = "journal" /\ pos + 1 <= cut
  <2>1. blob' \in Seq(Command)
    BY <1>3, CommandsSent, Zenon
  <2>2. Len(blob') \in Nat /\ \A x \in 1 .. Len(blob') : Len(blob') - Len(blob') + x = x
    BY <2>1
  <2>3. stream'[pos'].commands = blob' /\ stream'[pos'].op = "journal"
    BY <1>0, <1>3, Zenon
  <2>4. pos' \in 1 .. cut'
    <3>1. cut \in Nat /\ pos \in Nat
      BY WireSizes, Zenon DEF ReadOK
    <3> QED BY <1>0, <1>3, <3>1
  <2>5. Len(blob') <= Len(blob')
    BY <2>2
  <2> QED BY <2>1, <2>2, <2>3, <2>4, <2>5, Zenon DEF BlobOK, Command
<1>4. CASE ApplyInline
  <2> DEFINE sent == stream[pos].commands
  <2>1. /\ pos \in 1 .. cut /\ stream[pos].op = "journal" /\ pos' = pos
        /\ blob' \in Seq(Command) /\ Len(blob') = Len(blob) - 1 /\ Len(blob) \in Nat
        /\ \A x \in 1 .. Len(blob') : blob'[x] = blob[x + 1]
        /\ sent \in Seq(Command)
    BY <1>4, NextCommand, Zenon
  <2>2. blob # <<>>
    BY <1>4, Zenon DEF ApplyInline
  <2>3. /\ Len(blob) <= Len(sent)
        /\ \A x \in 1 .. Len(blob) : blob[x] = sent[Len(sent) - Len(blob) + x]
    BY <2>2, Zenon DEF BlobOK
  <2>4. stream'[pos'].commands = sent /\ stream'[pos'].op = "journal" /\ pos' \in 1 .. cut'
    BY <1>0, <2>1, Zenon
  <2> HIDE DEF sent
  <2>5. Len(sent) \in Nat
    BY <2>1
  <2>6. /\ Len(blob') <= Len(sent)
        /\ \A x \in 1 .. Len(blob') : blob'[x] = sent[Len(sent) - Len(blob') + x]
    <3>1. Len(blob') <= Len(sent)
      BY <2>1, <2>3, <2>5
    <3>2. ASSUME NEW x \in 1 .. Len(blob') PROVE blob'[x] = sent[Len(sent) - Len(blob') + x]
      <4>1. x + 1 \in 1 .. Len(blob) /\ Len(sent) - Len(blob) + (x + 1) = Len(sent) - Len(blob') + x
        BY <2>1, <2>5
      <4> QED BY <2>1, <2>3, <4>1, Zenon
    <3> QED BY <3>1, <3>2, Zenon
  <2> QED BY <2>1, <2>4, <2>6, Zenon DEF BlobOK, Command
<1> QED BY <1>1, <1>2, <1>3, <1>4, Moves, Zenon

\* Only ApplyInline applies a command.
LEMMA RanSame ==
  ASSUME WireOK, ReadOK, [InlineNext]_allVars, ~ApplyInline, NEW i \in Nat, NEW c \in Nat
  PROVE  Ran(i, c)' <=> Ran(i, c)
<1>0. stream' = stream /\ cut' = cut /\ pos \in Nat /\ cut \in Nat
  BY WireStays, WireSizes, Zenon DEF ReadOK
<1>1. CASE pos' = pos /\ blob' = blob
  BY <1>0, <1>1, Zenon DEF Ran
<1>2. CASE /\ pos' = pos + 1 /\ blob = <<>> /\ pos + 1 \in 1 .. Len(stream)
           /\ \/ blob' = <<>> /\ (stream[pos + 1].op # "journal" \/ pos + 1 > cut)
              \/ blob' = stream[pos + 1].commands /\ stream[pos + 1].op = "journal" /\ pos + 1 <= cut
  <2>1. Len(blob) = 0
    BY <1>2, Zenon
  <2>2. ASSUME i <= cut, i \in 1 .. (pos + 1), stream[i].op = "journal",
               c \in 1 .. Len(stream[i].commands)
        PROVE  /\ Len(stream[i].commands) \in Nat
               /\ i = pos + 1 => ~(c <= Len(stream[i].commands) - Len(blob'))
               /\ i = pos => c <= Len(stream[i].commands) - Len(blob)
    <3>1. i \in 1 .. Len(stream)
      BY <1>0, <1>2, <2>2
    <3>2. stream[i].commands \in Seq(Command)
      BY <2>2, <3>1, CommandsSent, Zenon
    <3>3. Len(stream[i].commands) \in Nat
      BY <3>2
    <3>4. i = pos + 1 => blob' = stream[i].commands
      BY <1>0, <1>2, <2>2
    <3>5. i = pos + 1 => Len(blob') = Len(stream[i].commands)
      BY <3>4, Zenon
    <3> QED BY <2>1, <2>2, <3>3, <3>5
  <2>3. ASSUME Ran(i, c) PROVE Ran(i, c)'
    <3>1. /\ i \in 1 .. pos /\ i <= cut /\ stream[i].op = "journal"
          /\ c \in 1 .. Len(stream[i].commands)
      BY <2>3, Zenon DEF Ran
    <3>2. i \in 1 .. pos' /\ i # pos'
      BY <1>0, <1>2, <3>1
    <3> QED BY <1>0, <3>1, <3>2, Zenon DEF Ran
  <2>4. ASSUME Ran(i, c)' PROVE Ran(i, c)
    <3>1. /\ i \in 1 .. (pos + 1) /\ i <= cut /\ stream[i].op = "journal"
          /\ c \in 1 .. Len(stream[i].commands)
          /\ i = pos + 1 => c <= Len(stream[i].commands) - Len(blob')
      BY <1>0, <1>2, <2>4, Zenon DEF Ran
    <3>2. i # pos + 1 /\ (i = pos => c <= Len(stream[i].commands) - Len(blob))
      BY <2>2, <3>1, Zenon
    <3>3. i \in 1 .. pos
      BY <1>0, <3>1, <3>2
    <3> QED BY <3>1, <3>2, <3>3, Zenon DEF Ran
  <2> QED BY <2>3, <2>4, Zenon
<1> QED BY <1>1, <1>2, Moves, Zenon

\* ApplyInline applies the next command of the blob.
LEMMA RanNext ==
  ASSUME WireOK, ReadOK, BlobOK, ApplyInline, NEW i \in Nat, NEW c \in Nat
  PROVE  Ran(i, c)' <=> Ran(i, c) \/ (i = pos /\ c = Len(stream[pos].commands) - Len(blob) + 1)
<1> DEFINE sent == stream[pos].commands
           n == Len(sent) - Len(blob) + 1
<1>1. /\ pos \in 1 .. cut /\ stream[pos].op = "journal" /\ pos' = pos /\ stream' = stream /\ cut' = cut
      /\ sent \in Seq(Command) /\ n \in 1 .. Len(sent)
      /\ Len(blob') = Len(blob) - 1 /\ Len(blob) \in Nat
  BY NextCommand, Zenon
<1>2. CASE i # pos
  BY <1>1, <1>2, Zenon DEF Ran
<1>3. CASE i = pos
  <2>1. Ran(pos, c) <=> c \in 1 .. Len(sent) /\ c <= Len(sent) - Len(blob)
    <3>1. pos \in 1 .. pos /\ pos <= cut
      BY <1>1, WireSizes
    <3> QED BY <1>1, <3>1, Zenon DEF Ran
  <2>2. Ran(pos, c)' <=> c \in 1 .. Len(sent) /\ c <= Len(sent) - Len(blob')
    <3>1. pos \in 1 .. pos /\ pos <= cut
      BY <1>1, WireSizes
    <3> QED BY <1>1, <3>1, Zenon DEF Ran
  <2> HIDE DEF sent
  <2>3. Len(sent) \in Nat
    BY <1>1
  <2>4. Ran(pos, c)' <=> Ran(pos, c) \/ c = n
    BY <1>1, <2>1, <2>2, <2>3
  <2>5. Ran(i, c)' <=> Ran(pos, c)'
    BY <1>1, <1>3, Zenon DEF Ran
  <2> QED BY <1>3, <2>4, <2>5, Zenon DEF sent
<1> QED BY <1>2, <1>3, Zenon

-----------------------------------------------------------------------------
(* The entries *)

\* Appending to a sequence, whatever its elements.
LEMMA AppendAny ==
  ASSUME NEW s, NEW x, s \in Seq({s[i] : i \in 1 .. Len(s)}), NEW t, t = Append(s, x)
  PROVE  /\ t \in Seq({t[i] : i \in 1 .. Len(t)}) /\ Len(s) \in Nat /\ Len(t) = Len(s) + 1
         /\ t[Len(s) + 1] = x /\ \A i \in 1 .. Len(s) : t[i] = s[i]
<1> DEFINE S == {s[i] : i \in 1 .. Len(s)} \cup {x}
<1>1. s \in Seq(S) /\ x \in S
  OBVIOUS
<1> HIDE DEF S
<1>2. /\ t \in Seq(S) /\ Len(s) \in Nat /\ Len(t) = Len(s) + 1
      /\ t[Len(s) + 1] = x /\ \A i \in 1 .. Len(s) : t[i] = s[i]
  BY <1>1
<1>3. t \in Seq({t[i] : i \in 1 .. Len(t)})
  BY <1>2
<1> QED BY <1>2, <1>3, Zenon

\* What is sent, and with which expiry, does not change.
LEMMA SentStays ==
  ASSUME stream' = stream, NEW i
  PROVE  Own(i)' = Own(i) /\ (Live(i)' <=> Live(i))
<1>1. Own(i)' = Own(i)
  BY DEF Own
<1> QED BY <1>1, Zenon DEF Live, IsEntry, IsExpired

\* The entry parseKeyValue makes, if its item has arrived whole and if not.
LEMMA NewEntry ==
  ASSUME WireOK, ReadOK, ParseEntry
  PROVE  /\ pos + 1 \in 1 .. Len(stream) /\ IsEntry(stream[pos + 1])
         /\ Entry.at = pos + 1 /\ Entry.expire = Own(pos + 1) /\ ~IsExpired(Own(pos + 1))
         /\ stream[pos + 1].version \in Nat \ {0}
         /\ ~Torn => pos + 1 <= cut /\ Entry.key = stream[pos + 1].key
                     /\ Entry.version = stream[pos + 1].version
         /\ Torn => pos = cut /\ part >= 0 /\ Entry.version = TornVersion
         /\ entries' = Append(entries, Entry) /\ Enqueue /\ Consume
         /\ target' = target /\ raced' = raced /\ blob' = blob
<1> DEFINE ops == {"entry"}
<1>1. /\ Upcoming(ops) /\ ~IsExpired(expireMs) /\ Enqueue /\ entries' = Append(entries, Entry) /\ Consume
      /\ target' = target /\ raced' = raced /\ blob' = blob
  BY Zenon DEF ParseEntry
<1>2. "blobEnd" \notin ops /\ \A x \in ops : x = "entry"
  BY Zenon
<1> HIDE DEF ops
<1>3. /\ Item = stream[pos + 1] /\ pos + 1 \in 1 .. Len(stream)
      /\ stream[pos + 1].op \in ops /\ WellFormed(stream[pos + 1])
      /\ ~Torn => pos + 1 <= cut
      /\ Torn => pos = cut /\ part >= 0
  BY <1>1, <1>2, NextItem, Zenon
<1>4. IsEntry(stream[pos + 1])
  BY <1>2, <1>3, Zenon DEF IsEntry
<1>5. stream[pos + 1].version \in Nat \ {0}
  BY <1>3, <1>4, Zenon DEF WellFormed
<1>6. expireMs = Own(pos + 1)
  BY Zenon DEF ReadOK
<1>7. /\ Entry.key = IF Torn /\ part = 0 THEN EmptyKey ELSE Item.key
      /\ Entry.version = IF Torn THEN TornVersion ELSE Item.version
      /\ Entry.expire = expireMs /\ Entry.at = pos + 1
  BY Zenon DEF Entry
<1>8. ~Torn => Entry.key = stream[pos + 1].key /\ Entry.version = stream[pos + 1].version
  BY <1>3, <1>7, Zenon
<1>9. Torn => Entry.version = TornVersion
  BY <1>7, Zenon
<1> QED BY <1>1, <1>3, <1>4, <1>5, <1>6, <1>7, <1>8, <1>9, Zenon

\* Any other step hands nothing over, and passes no live entry by.
LEMMA NothingHanded ==
  ASSUME WireOK, ReadOK, [InlineNext]_allVars, ~ParseEntry
  PROVE  /\ entries' = entries /\ received' = received
         /\ \/ pos' = pos
            \/ /\ pos' = pos + 1 /\ pos + 1 \in 1 .. Len(stream)
               /\ ~(IsEntry(stream[pos + 1]) /\ Live(pos + 1))
<1>1. ASSUME ParseStep PROVE entries' = entries /\ received' = received
  BY <1>1, Zenon DEF ParseStep, ReadExpiry, ReadOver, OpenBlob, CloseBlob, TornFails, TornJournal,
     StreamEnds, BadEntry, SkipExpired, ReadJournal, ApplyInline, InlineFails, writerVars
<1>2. ASSUME NEW ops, Upcoming(ops), "blobEnd" \notin ops, "entry" \notin ops, pos' = pos + 1
      PROVE  pos' = pos + 1 /\ pos + 1 \in 1 .. Len(stream) /\ ~IsEntry(stream[pos + 1])
  BY <1>2, NextItem, Zenon DEF IsEntry
<1>3. CASE ReadExpiry \/ ReadOver \/ OpenBlob \/ TornJournal \/ ReadJournal \/ StreamEnds
  <2> DEFINE ops == Ops \ {"entry"}
  <2>1. (Upcoming(ops) /\ pos' = pos + 1) \/ pos' = pos
    <3>1. Expiries \subseteq ops /\ {"skip"} \subseteq ops /\ {"compressed"} \subseteq ops
          /\ {"journal"} \subseteq ops /\ {"eof"} \subseteq ops
      BY Zenon DEF Expiries, Ops
    <3> HIDE DEF ops
    <3>2. \A x : Upcoming(x) /\ x \subseteq ops => Upcoming(ops)
      BY Zenon DEF Upcoming
    <3> QED BY <1>3, <3>1, <3>2, Zenon DEF ReadExpiry, ReadOver, OpenBlob, TornJournal, ReadJournal,
            StreamEnds, Consume, readVars
  <2>2. "blobEnd" \notin ops /\ "entry" \notin ops
    BY Zenon DEF Ops, Expiries
  <2> HIDE DEF ops
  <2>3. ParseStep
    BY <1>3, Zenon DEF ParseStep
  <2> QED BY <1>1, <1>2, <2>1, <2>2, <2>3, Zenon
<1>4. CASE SkipExpired
  <2> DEFINE ops == {"entry"}
  <2>1. Upcoming(ops) /\ IsExpired(expireMs) /\ Consume
    BY <1>4, Zenon DEF SkipExpired
  <2>2. "blobEnd" \notin ops
    BY Zenon
  <2> HIDE DEF ops
  <2>3. pos + 1 \in 1 .. Len(stream)
    BY <2>1, <2>2, NextItem, Zenon
  <2>4. IsExpired(Own(pos + 1))
    BY <2>1, Zenon DEF ReadOK
  <2> QED BY <1>1, <1>4, <2>1, <2>3, <2>4, Zenon DEF ParseStep, Live, Consume
<1>5. CASE CloseBlob \/ TornFails \/ BadEntry \/ ApplyInline \/ InlineFails
  BY <1>1, <1>5, Zenon DEF ParseStep, CloseBlob, TornFails, BadEntry, ApplyInline, InlineFails, readVars
<1>6. CASE StopWriter \/ ((StopReturns \/ LoopStep) /\ UNCHANGED inlineVars) \/ FlushToTarget
  BY <1>6, Zenon DEF StopWriter, Stop, StopReturns, LoopStep, Receive, Tick, ChannelClosed, AsyncFlush,
     FlushToTarget, FlushStep, DropBatch, GroupBatch, WriteChunk, BatchDone, inlineVars, readVars
<1>7. CASE UNCHANGED allVars
  BY <1>7, Zenon DEF allVars, inlineVars, readVars, writerVars
<1> QED BY <1>3, <1>4, <1>5, <1>6, <1>7, Zenon DEF InlineNext, ParseStep

\* What EntriesAsSent says of one entry, at a place of the stream.
SentAt(e, i) ==
  IF Whole(e)
  THEN /\ i \in 1 .. cut /\ IsEntry(stream[i]) /\ Live(i)
       /\ entries[e].key = stream[i].key
       /\ entries[e].version = stream[i].version
       /\ entries[e].expire = Own(i)
  ELSE e = Len(entries) /\ i = cut + 1 /\ part >= 0

\* Every step keeps to the source's entries.
LEMMA HandStep ==
  ASSUME WireOK, ReadOK, HandedOK, EntriesAsSent, [InlineNext]_allVars
  PROVE  HandedOK' /\ EntriesAsSent'
<1>0. stream' = stream /\ cut' = cut /\ part' = part /\ pos \in Nat /\ cut \in Nat /\ part \in Int
  BY WireStays, WireSizes, Zenon DEF ReadOK
<1>1. ASSUME NEW e, NEW i, i = entries'[e].at PROVE SentAt(e, i)' => SentAt(e, entries[e].at)'
  <2>1. (Own(entries[e].at))' = Own(i)'
    BY <1>1 DEF Own
  <2>2. (Live(entries[e].at))' <=> Live(i)'
    BY <1>1, <2>1, Zenon DEF Live, IsEntry, IsExpired
  <2> QED BY <1>1, <2>1, <2>2, Zenon DEF SentAt, IsEntry
<1>2. ASSUME NEW i PROVE Own(i)' = Own(i) /\ (Live(i)' <=> Live(i))
  BY <1>0, SentStays, Zenon
<1>3. CASE ~ParseEntry
  <2>1. /\ entries' = entries /\ received' = received
        /\ \/ pos' = pos
           \/ /\ pos' = pos + 1 /\ pos + 1 \in 1 .. Len(stream)
              /\ ~(IsEntry(stream[pos + 1]) /\ Live(pos + 1))
    BY <1>3, NothingHanded, Zenon
  <2>2. HandedOK'
    <3>1. \A e \in 1 .. received : entries[e].at \in 1 .. pos'
      BY <1>0, <2>1 DEF HandedOK
    <3> QED BY <2>1, <3>1, Zenon DEF HandedOK
  <2>3. ASSUME NEW i \in 1 .. pos', IsEntry(stream[i]), Live(i)
        PROVE  \E e \in 1 .. Len(entries) : entries[e].at = i
    <3>1. i \in 1 .. pos
      <4>1. i # pos' \/ pos' = pos
        BY <2>1, <2>3, Zenon
      <4> QED BY <1>0, <2>1, <4>1
    <3> QED BY <2>3, <3>1, Zenon DEF EntriesAsSent
  <2>4. ASSUME NEW e \in 1 .. Len(entries) PROVE SentAt(e, entries[e].at)'
    <3>1. SentAt(e, entries[e].at)
      BY Zenon DEF EntriesAsSent, SentAt
    <3>2. ASSUME NEW i, i = entries[e].at PROVE SentAt(e, i)'
      BY <1>0, <1>2, <2>1, <3>1, <3>2, Zenon DEF SentAt, Whole
    <3> QED BY <1>1, <2>1, <3>2, Zenon
  <2>5. \A i : IsEntry(stream[i])' <=> IsEntry(stream[i])
    BY <1>0, Zenon DEF IsEntry
  <2> QED BY <1>2, <2>1, <2>2, <2>3, <2>4, <2>5, Zenon DEF EntriesAsSent, SentAt
<1>4. CASE ParseEntry
  <2>1. /\ pos + 1 \in 1 .. Len(stream) /\ IsEntry(stream[pos + 1])
        /\ Entry.at = pos + 1 /\ Entry.expire = Own(pos + 1) /\ ~IsExpired(Own(pos + 1))
        /\ stream[pos + 1].version \in Nat \ {0}
        /\ ~Torn => pos + 1 <= cut /\ Entry.key = stream[pos + 1].key
                    /\ Entry.version = stream[pos + 1].version
        /\ Torn => pos = cut /\ part >= 0 /\ Entry.version = TornVersion
        /\ entries' = Append(entries, Entry) /\ Enqueue /\ Consume
    BY <1>4, NewEntry, Zenon
  <2>2. pos' = pos + 1 /\ received' = received + 1
    BY <2>1, Zenon DEF Consume, Enqueue
  <2>0. Len(entries) \in Nat
    <3>1. entries \in Seq({entries[e] : e \in 1 .. Len(entries)})
      BY Zenon DEF HandedOK
    <3> QED BY <3>1
  <2>n. PICK n \in Nat : n = Len(entries) + 1
    BY <2>0
  <2>3. /\ entries' \in Seq({entries'[e] : e \in 1 .. Len(entries')}) /\ Len(entries) \in Nat
        /\ Len(entries') = n /\ entries'[n] = Entry
        /\ \A e \in 1 .. Len(entries) : entries'[e] = entries[e]
    <3>1. entries \in Seq({entries[e] : e \in 1 .. Len(entries)})
      BY Zenon DEF HandedOK
    <3>2. entries' = Append(entries, Entry)
      BY <2>1, Zenon
    <3>3. /\ entries' \in Seq({entries'[e] : e \in 1 .. Len(entries')}) /\ Len(entries) \in Nat
          /\ Len(entries') = Len(entries) + 1 /\ entries'[Len(entries) + 1] = Entry
          /\ \A e \in 1 .. Len(entries) : entries'[e] = entries[e]
      BY <3>1, <3>2, AppendAny
    <3> QED BY <2>n, <3>3, Zenon
  <2>4. n \in 1 .. n /\ \A e \in 1 .. n : e \in 1 .. Len(entries) \/ e = n
    BY <2>0, <2>n
  <2>5. \A e \in 1 .. Len(entries) : entries[e].at \in 1 .. pos
    BY Zenon DEF HandedOK
  <2>6. HandedOK'
    <3>1. received' = Len(entries')
      BY <2>2, <2>3, <2>n, Zenon DEF HandedOK
    <3>2. \A e \in 1 .. Len(entries) : entries'[e].at \in 1 .. pos'
      BY <1>0, <2>2, <2>3, <2>5
    <3>3. entries'[n].at \in 1 .. pos'
      BY <1>0, <2>1, <2>2, <2>3
    <3>4. \A e \in 1 .. received' : entries'[e].at \in 1 .. pos'
      BY <2>3, <2>4, <3>1, <3>2, <3>3, Zenon
    <3> QED BY <2>3, <3>1, <3>4, Zenon DEF HandedOK
  <2>7. ASSUME NEW e \in 1 .. Len(entries) PROVE SentAt(e, entries[e].at)'
    <3>1. SentAt(e, entries[e].at)
      BY Zenon DEF EntriesAsSent, SentAt
    <3>2. Whole(e)
      <4> SUFFICES ASSUME ~Whole(e) PROVE FALSE
        BY Zenon
      <4>1. entries[e].at = cut + 1
        BY <3>1, Zenon DEF SentAt
      <4>2. cut + 1 \in 1 .. pos /\ (pos + 1 <= cut \/ pos = cut)
        BY <2>1, <2>5, <4>1, Zenon
      <4> QED BY <1>0, <4>2
    <3>3. ASSUME NEW i, i = entries[e].at PROVE SentAt(e, i)'
      BY <1>0, <1>2, <2>3, <3>1, <3>2, <3>3, Zenon DEF SentAt, Whole
    <3> QED BY <1>1, <2>3, <3>3, Zenon
  <2>8. ASSUME NEW i, i = pos + 1 PROVE SentAt(n, i)'
    <3>1. CASE Torn
      <4>1. ~Whole(n)'
        BY <2>1, <2>3, <3>1, Zenon DEF Whole, TornVersion
      <4>2. n = Len(entries') /\ i = cut' + 1 /\ part' >= 0
        BY <1>0, <2>1, <2>3, <2>8, <3>1, Zenon
      <4> QED BY <4>1, <4>2, Zenon DEF SentAt
    <3>2. CASE ~Torn
      <4>1. entries'[n] = Entry /\ Entry.version \in Nat \ {0}
        BY <2>1, <2>3, <3>2, Zenon
      <4>2. Whole(n)'
        BY <4>1 DEF Whole, TornVersion
      <4>3. i \in 1 .. cut' /\ IsEntry(stream'[i]) /\ Live(i)'
        <5>1. i \in 1 .. cut'
          BY <1>0, <2>1, <2>8, <3>2
        <5>2. Live(i)
          BY <2>1, <2>8, Zenon DEF Live
        <5> QED BY <1>0, <1>2, <2>1, <2>8, <5>1, <5>2, Zenon
      <4>4. entries'[n].key = stream'[i].key /\ entries'[n].version = stream'[i].version
            /\ entries'[n].expire = Own(i)'
        BY <1>0, <1>2, <2>1, <2>8, <3>2, <4>1, Zenon
      <4> QED BY <4>2, <4>3, <4>4, Zenon DEF SentAt, IsEntry
    <3> QED BY <3>1, <3>2, Zenon
  <2>9. SentAt(n, entries[n].at)'
    <3>1. entries'[n].at = pos + 1
      BY <2>1, <2>3, Zenon
    <3> QED BY <1>1, <2>8, <3>1, Zenon
  <2>10. ASSUME NEW e \in 1 .. n, NEW f \in 1 .. n, e < f PROVE entries'[e].at < entries'[f].at
    <3>1. e \in 1 .. Len(entries)
      BY <2>0, <2>n, <2>10
    <3>2. CASE f \in 1 .. Len(entries)
      BY <2>3, <2>10, <3>1, <3>2, Zenon DEF EntriesAsSent
    <3>3. CASE f = n
      <4>1. entries'[e].at \in 1 .. pos /\ entries'[f].at = pos + 1
        BY <2>1, <2>3, <2>5, <3>1, <3>3, Zenon
      <4> QED BY <1>0, <4>1
    <3> QED BY <2>4, <3>2, <3>3, Zenon
  <2>11. ASSUME NEW i \in 1 .. pos', IsEntry(stream[i]), Live(i)
         PROVE  \E e \in 1 .. n : entries'[e].at = i
    <3>1. CASE i = pos + 1
      <4>1. entries'[n].at = i
        BY <2>1, <2>3, <3>1, Zenon
      <4> QED BY <2>4, <4>1, Zenon
    <3>2. CASE i # pos + 1
      <4>1. i \in 1 .. pos
        BY <1>0, <2>2, <3>2
      <4>2. PICK e \in 1 .. Len(entries) : entries[e].at = i
        BY <2>11, <4>1, Zenon DEF EntriesAsSent
      <4>3. e \in 1 .. n
        BY <2>0, <2>n
      <4> QED BY <2>3, <4>2, <4>3, Zenon
    <3> QED BY <3>1, <3>2, Zenon
  <2>12. \A i : IsEntry(stream[i])' <=> IsEntry(stream[i])
    BY <1>0, Zenon DEF IsEntry
  <2>13. \A e \in 1 .. n : SentAt(e, entries[e].at)'
    BY <2>4, <2>7, <2>9, Zenon
  <2>14. EntriesAsSent'
    BY <1>2, <2>3, <2>10, <2>11, <2>12, <2>13, Zenon DEF EntriesAsSent, SentAt
  <2> QED BY <2>6, <2>14, Zenon
<1> QED BY <1>3, <1>4, Zenon

-----------------------------------------------------------------------------
(* Versions *)

\* The source's order, of two items of a stream.
LEMMA VersionsOrdered ==
  ASSUME WireOK, NEW k \in Keys, NEW i \in 1 .. Len(stream), NEW j \in 1 .. Len(stream), i < j,
         NEW v \in VersionsOf(stream[i], k), NEW w \in VersionsOf(stream[j], k)
  PROVE  v < w
<1>1. InOrder(stream)
  BY InlineJournalAssumption, Zenon DEF WireOK
<1> QED BY <1>1, Zenon DEF InOrder

\* An entry gives its key its version.
LEMMA EntryGives ==
  ASSUME NEW i, IsEntry(stream[i])
  PROVE  stream[i].version \in VersionsOf(stream[i], stream[i].key)
BY Zenon DEF VersionsOf

\* A command gives its key its version.
LEMMA CommandGives ==
  ASSUME NEW i, stream[i].op = "journal", NEW c \in DOMAIN stream[i].commands
  PROVE  stream[i].commands[c].version \in VersionsOf(stream[i], stream[i].commands[c].key)
<1>1. stream[i].commands[c].version \in
        {stream[i].commands[d].version :
           d \in {b \in DOMAIN stream[i].commands :
                    stream[i].commands[b].key = stream[i].commands[c].key}}
  BY Zenon
<1> QED BY <1>1, Zenon DEF VersionsOf

\* A command that was applied is one the source sent.
LEMMA RanSent ==
  ASSUME WireOK, NEW i \in Nat, NEW c \in Nat, Ran(i, c)
  PROVE  /\ i \in 1 .. Len(stream) /\ i \in 1 .. cut /\ i \in 1 .. pos /\ stream[i].op = "journal"
         /\ stream[i].commands \in Seq(Command) /\ c \in 1 .. Len(stream[i].commands)
         /\ c \in DOMAIN stream[i].commands /\ stream[i].commands[c] \in Command
         /\ stream[i].commands[c].key \in Keys /\ stream[i].commands[c].version \in Nat
         /\ stream[i].commands[c].version \in VersionsOf(stream[i], stream[i].commands[c].key)
<1>1. i \in 1 .. pos /\ i <= cut /\ stream[i].op = "journal" /\ c \in 1 .. Len(stream[i].commands)
  BY Zenon DEF Ran
<1>2. i \in 1 .. Len(stream) /\ i \in 1 .. cut
  <2>1. cut \in Nat /\ Len(stream) \in Nat /\ cut <= Len(stream)
    BY WireSizes, Zenon
  <2>2. i >= 1
    BY <1>1
  <2> QED BY <1>1, <2>1, <2>2
<1>3. stream[i].commands \in Seq(Command)
  BY <1>1, <1>2, CommandsSent, Zenon
<1>4. c \in DOMAIN stream[i].commands /\ stream[i].commands[c] \in Command
  BY <1>1, <1>3
<1>5. stream[i].commands[c].key \in Keys /\ stream[i].commands[c].version \in Nat
  BY <1>4, Zenon DEF Command
<1>6. stream[i].commands[c].version \in VersionsOf(stream[i], stream[i].commands[c].key)
  BY <1>1, <1>4, CommandGives, Zenon
<1> QED BY <1>1, <1>2, <1>3, <1>4, <1>5, <1>6, Zenon

\* An entry that was handed over whole is one the source sent.
LEMMA WholeSent ==
  ASSUME WireOK, HandedOK, EntriesAsSent, NEW e \in 1 .. received, Whole(e)
  PROVE  LET i == entries[e].at IN
         /\ i \in 1 .. Len(stream) /\ i \in 1 .. cut /\ i \in 1 .. pos /\ IsEntry(stream[i]) /\ Live(i)
         /\ entries[e].key = stream[i].key /\ entries[e].version = stream[i].version
         /\ entries[e].key \in Keys /\ entries[e].version \in Nat \ {0}
         /\ entries[e].version \in VersionsOf(stream[i], entries[e].key)
<1> DEFINE i == entries[e].at
<1>0. e \in 1 .. Len(entries)
  BY Zenon DEF HandedOK
<1>1. /\ i \in 1 .. cut /\ IsEntry(stream[i]) /\ Live(i)
      /\ entries[e].key = stream[i].key /\ entries[e].version = stream[i].version
  BY <1>0, Zenon DEF EntriesAsSent
<1>2. i \in 1 .. pos
  BY Zenon DEF HandedOK
<1>3. i \in 1 .. Len(stream)
  BY <1>1, WireSizes, Zenon
<1>4. WellFormed(stream[i])
  BY <1>3, InlineJournalAssumption, Zenon DEF WireOK
<1>5. stream[i].key \in Keys /\ stream[i].version \in Nat \ {0}
  BY <1>1, <1>4, Zenon DEF WellFormed
<1>6. stream[i].version \in VersionsOf(stream[i], stream[i].key)
  BY <1>1, EntryGives, Zenon
<1> QED BY <1>1, <1>2, <1>3, <1>5, <1>6, Zenon

\* The snapshot holds a key once.
LEMMA OneEntry ==
  ASSUME WireOK, HandedOK, EntriesAsSent, NEW e \in 1 .. received, NEW f \in 1 .. received,
         Whole(e), Whole(f), entries[e].key = entries[f].key
  PROVE  e = f
<1>1. /\ entries[e].at \in 1 .. Len(stream) /\ IsEntry(stream[entries[e].at])
      /\ entries[e].key = stream[entries[e].at].key
  BY WholeSent, Zenon
<1>2. /\ entries[f].at \in 1 .. Len(stream) /\ IsEntry(stream[entries[f].at])
      /\ entries[f].key = stream[entries[f].at].key
  BY WholeSent, Zenon
<1>3. entries[e].at = entries[f].at
  BY <1>1, <1>2, InlineJournalAssumption, Zenon DEF WireOK
<1>4. received \in Nat /\ received = Len(entries)
  <2>1. entries \in Seq({entries[d] : d \in 1 .. Len(entries)}) /\ received = Len(entries)
    BY Zenon DEF HandedOK
  <2> QED BY <2>1
<1>5. ~(e < f) /\ ~(f < e)
  <2>1. entries[e].at \in Int /\ entries[f].at \in Int
    <3>1. Len(stream) \in Nat
      BY WireSizes, Zenon
    <3> QED BY <1>1, <1>2, <3>1
  <2>2. ~(entries[e].at < entries[f].at) /\ ~(entries[f].at < entries[e].at)
    BY <1>3, <2>1
  <2> QED BY <1>4, <2>2, Zenon DEF EntriesAsSent
<1> QED BY <1>4, <1>5

\* A command before an entry of its key is older, one after it is newer.
LEMMA AroundEntry ==
  ASSUME WireOK, HandedOK, EntriesAsSent, NEW e \in 1 .. received, Whole(e),
         NEW i \in 1 .. Len(stream), stream[i].op = "journal", NEW c \in DOMAIN stream[i].commands,
         stream[i].commands[c].key = entries[e].key
  PROVE  /\ i < entries[e].at => stream[i].commands[c].version < entries[e].version
         /\ entries[e].at < i => entries[e].version < stream[i].commands[c].version
         /\ i # entries[e].at
<1>1. /\ entries[e].at \in 1 .. Len(stream) /\ IsEntry(stream[entries[e].at]) /\ entries[e].key \in Keys
      /\ entries[e].version \in VersionsOf(stream[entries[e].at], entries[e].key)
  BY WholeSent, Zenon
<1>2. stream[i].commands[c].version \in VersionsOf(stream[i], entries[e].key)
  BY CommandGives, Zenon
<1>3. i # entries[e].at
  BY <1>1, <1>2, Zenon DEF IsEntry
<1>4. i < entries[e].at => stream[i].commands[c].version < entries[e].version
  BY <1>1, <1>2, VersionsOrdered, Zenon
<1>5. entries[e].at < i => entries[e].version < stream[i].commands[c].version
  BY <1>1, <1>2, VersionsOrdered, Zenon
<1> QED BY <1>3, <1>4, <1>5, Zenon

-----------------------------------------------------------------------------
(* The target *)

\* The entries that were handed over are entries of the writer.
LEMMA HandedType ==
  ASSUME IndInv, HandedOK
  PROVE  /\ received \in Nat /\ received = Len(entries) /\ 1 .. received \subseteq Entries
         /\ fate \in [Entries -> Fates]
<1>1. received \in 0 .. MaxEntries /\ fate \in [Entries -> Fates]
  BY Zenon DEF IndInv, VarsOK
<1>2. MaxEntries \in Nat
  BY FlowWriterAssumption, Zenon
<1> QED BY <1>1, <1>2 DEF Entries, HandedOK

\* Only a flush settles entries.
LEMMA FateStays == ASSUME [InlineNext]_allVars, ~FlushToTarget PROVE fate' = fate
<1>1. CASE ParseStep
  BY <1>1, Zenon DEF ParseStep, ReadExpiry, ReadOver, OpenBlob, CloseBlob, TornFails, TornJournal,
     StreamEnds, BadEntry, SkipExpired, ParseEntry, ReadJournal, ApplyInline, InlineFails, Enqueue, writerVars
<1>2. CASE StopWriter \/ StopReturns \/ LoopStep
  BY <1>2, Zenon DEF StopWriter, Stop, StopReturns, LoopStep, Receive, Tick, ChannelClosed, AsyncFlush
<1>3. CASE UNCHANGED allVars
  BY <1>3, Zenon DEF allVars, writerVars
<1> QED BY <1>1, <1>2, <1>3, Zenon DEF InlineNext

\* Only commands and flushes change the target.
LEMMA TargetStays ==
  ASSUME [InlineNext]_allVars, ~FlushToTarget, ~ApplyInline
  PROVE  target' = target /\ raced' = raced
<1>1. CASE ParseStep
  BY <1>1, Zenon DEF ParseStep, ReadExpiry, ReadOver, OpenBlob, CloseBlob, TornFails, TornJournal,
     StreamEnds, BadEntry, SkipExpired, ParseEntry, ReadJournal, InlineFails
<1>2. CASE StopWriter \/ UNCHANGED inlineVars
  BY <1>2, Zenon DEF StopWriter, inlineVars
<1>3. CASE UNCHANGED allVars
  BY <1>3, Zenon DEF allVars, inlineVars
<1> QED BY <1>1, <1>2, <1>3, Zenon DEF InlineNext

\* What a flush does to the version of a key.
Newly(k) == {e \in 1 .. received : /\ fate[e] # "written" /\ fate'[e] = "written"
                                   /\ entries[e].key = k}

\* A flush leaves the parser alone.
LEMMA FlushLeaves ==
  ASSUME FlushToTarget
  PROVE  /\ received' = received /\ entries' = entries /\ raced' = raced
         /\ target' = [k \in DOMAIN target |->
                         IF Newly(k) = {} THEN target[k] ELSE entries[Latest(Newly(k))].version]
<1>1. received' = received
  BY Zenon DEF FlushToTarget, FlushStep, DropBatch, GroupBatch, WriteChunk, BatchDone
<1> QED BY <1>1, Zenon DEF FlushToTarget, Newly

\* The keys of the target are fixed.
LEMMA TargetStep == ASSUME WireOK, BlobOK, TargetOK, [InlineNext]_allVars PROVE TargetOK'
<1>1. CASE ApplyInline
  <2>1. target' = [target EXCEPT ![Head(blob).key] = Head(blob).version]
    BY <1>1, Zenon DEF ApplyInline
  <2> QED BY <2>1, Zenon DEF TargetOK
<1>2. CASE FlushToTarget
  <2>1. target' = [k \in DOMAIN target |->
                     IF Newly(k) = {} THEN target[k] ELSE entries[Latest(Newly(k))].version]
    BY <1>2, FlushLeaves, Zenon
  <2>2. DOMAIN target = Keys \cup {EmptyKey}
    BY Zenon DEF TargetOK
  <2> QED BY <2>1, <2>2, Zenon DEF TargetOK
<1>3. CASE ~ApplyInline /\ ~FlushToTarget
  BY <1>3, TargetStays, Zenon DEF TargetOK
<1> QED BY <1>1, <1>2, <1>3, Zenon

\* What a step may do to the entries that were handed over before it.
LEMMA Settling ==
  ASSUME IndInv, WireOK, ReadOK, HandedOK, [InlineNext]_allVars
  PROVE  /\ received \in Nat /\ received' \in Nat /\ received <= received' /\ 1 .. received \subseteq Entries
         /\ \A e \in 1 .. received : /\ entries'[e] = entries[e]
                                     /\ fate[e] # "none" => fate'[e] = fate[e]
         /\ ~ParseEntry => received' = received
         /\ ParseEntry => /\ received' = received + 1 /\ entries'[received + 1] = Entry
                          /\ fate'[received + 1] = "none" /\ fate' = fate
<1>1. received \in Nat /\ received = Len(entries) /\ 1 .. received \subseteq Entries
  BY HandedType, Zenon
<1>2. \A e \in Entries : fate[e] # "none" => fate'[e] = fate[e]
  BY WriterStep, SettlesOnce, Zenon
<1>3. CASE ParseEntry
  <2>1. /\ received' = received + 1 /\ fate' = fate /\ received < MaxEntries
        /\ entries' = Append(entries, Entry)
    BY <1>3, Zenon DEF ParseEntry, Enqueue
  <2>2. entries \in Seq({entries[e] : e \in 1 .. Len(entries)})
    BY Zenon DEF HandedOK
  <2>3. entries'[Len(entries) + 1] = Entry /\ \A e \in 1 .. Len(entries) : entries'[e] = entries[e]
    BY <2>1, <2>2, AppendAny
  <2>4. fate[received + 1] = "none"
    <3>1. received + 1 \in Entries /\ received + 1 > flushed
      BY <1>1, <2>1, FlowWriterAssumption DEF IndInv, VarsOK, Entries
    <3> QED BY <3>1, Zenon DEF IndInv, Accounted
  <2>5. received' \in Nat /\ received <= received'
    BY <1>1, <2>1
  <2> QED BY <1>1, <1>2, <1>3, <2>1, <2>3, <2>4, <2>5, Zenon
<1>4. CASE ~ParseEntry
  <2>1. entries' = entries /\ received' = received
    BY <1>4, NothingHanded, Zenon
  <2>2. received <= received
    BY <1>1
  <2> QED BY <1>1, <1>2, <1>4, <2>1, <2>2, Zenon
<1> QED BY <1>3, <1>4, Zenon

\* A key that is unharmed was so before.
LEMMA UnharmedBefore ==
  ASSUME IndInv, WireOK, ReadOK, HandedOK, [InlineNext]_allVars, NEW k, Unharmed(k)'
  PROVE  Unharmed(k)
<1> SUFFICES ASSUME NEW e \in 1 .. received, entries[e].key = k
             PROVE  Whole(e) /\ fate[e] \in {"none", "written"}
  BY Zenon DEF Unharmed
<1>1. e \in 1 .. received'
  BY Settling
<1>2. entries'[e] = entries[e] /\ (fate[e] # "none" => fate'[e] = fate[e])
  BY Settling, Zenon
<1>3. Whole(e)' /\ fate'[e] \in {"none", "written"}
  BY <1>1, <1>2, Zenon DEF Unharmed
<1> QED BY <1>2, <1>3, Zenon DEF Whole

\* A step that applies no command and settles nothing leaves what it does not hand over as it was.
LEMMA FreshQuiet ==
  ASSUME IndInv, WireOK, ReadOK, HandedOK, [InlineNext]_allVars, ~ApplyInline, ~FlushToTarget, ~ParseEntry,
         NEW k, Fresh(k)
  PROVE  Fresh(k)'
<1>1. \A i, c \in Nat : Ran(i, c)' <=> Ran(i, c)
  BY RanSame, Zenon
<1>2. entries' = entries /\ received' = received /\ fate' = fate /\ target' = target /\ stream' = stream
  BY NothingHanded, FateStays, TargetStays, WireStays, Zenon
<1> QED BY <1>1, <1>2, Zenon DEF Fresh

\* An entry that is handed over comes after every command applied so far.
LEMMA FreshHanded ==
  ASSUME IndInv, WireOK, ReadOK, HandedOK, [InlineNext]_allVars, ParseEntry, NEW k, Fresh(k)
  PROVE  Fresh(k)'
<1>0. ~ApplyInline /\ ~FlushToTarget
  <2>1. received \in Nat /\ received' = received + 1
    BY Settling, Zenon
  <2>2. received' # received
    BY <2>1
  <2>3. ApplyInline => received' = received
    BY Zenon DEF ApplyInline, writerVars
  <2> QED BY <2>2, <2>3, FlushLeaves, Zenon
<1>1. \A i, c \in Nat : Ran(i, c)' <=> Ran(i, c)
  BY <1>0, RanSame, Zenon
<1>2. /\ received \in Nat /\ received' = received + 1 /\ entries'[received + 1] = Entry
      /\ fate'[received + 1] = "none" /\ fate' = fate
      /\ \A e \in 1 .. received : entries'[e] = entries[e]
  BY Settling, Zenon
<1>3. target' = target /\ stream' = stream /\ Entry.at = pos + 1
  BY <1>0, TargetStays, WireStays, NewEntry, Zenon
<1>4. \A e \in 1 .. received' : e = received + 1 \/ e \in 1 .. received
  BY <1>2
<1>5. \A e \in 1 .. received : e \in 1 .. received'
  BY <1>2
<1>6. \A i, c \in Nat : Ran(i, c) => i < pos + 1
  <2> SUFFICES ASSUME NEW i \in Nat, NEW c \in Nat, Ran(i, c) PROVE i < pos + 1
    BY Zenon
  <2>1. i \in 1 .. pos /\ pos \in Nat
    BY Zenon DEF Ran, ReadOK
  <2> QED BY <2>1
<1>7. (\/ target[k] = 0
       \/ \E e \in 1 .. received : entries[e].key = k /\ fate[e] = "written" /\ target[k] = entries[e].version
       \/ \E i, c \in Nat :
            Ran(i, c) /\ stream[i].commands[c].key = k /\ target[k] = stream[i].commands[c].version)'
  BY <1>1, <1>2, <1>3, <1>5, Zenon DEF Fresh
<1>8. (\A e \in 1 .. received :
         entries[e].key = k /\ fate[e] = "written" => entries[e].version <= target[k])'
  <2> SUFFICES ASSUME NEW e \in 1 .. received', entries'[e].key = k, fate'[e] = "written"
               PROVE  entries'[e].version <= target'[k]
    BY Zenon
  <2>1. e \in 1 .. received
    BY <1>2, <1>4, Zenon
  <2> QED BY <1>2, <1>3, <2>1, Zenon DEF Fresh
<1>9. ASSUME NEW i \in Nat, NEW c \in Nat, Ran(i, c)', stream'[i].commands[c].key = k
      PROVE  /\ stream'[i].commands[c].version <= target'[k]
             /\ \A e \in 1 .. received' :
                  entries'[e].key = k /\ fate'[e] = "none" => i < entries'[e].at
  <2>1. Ran(i, c) /\ stream[i].commands[c].key = k /\ i < pos + 1
    BY <1>1, <1>3, <1>6, <1>9, Zenon
  <2>2. /\ stream[i].commands[c].version <= target[k]
        /\ \A e \in 1 .. received : entries[e].key = k /\ fate[e] = "none" => i < entries[e].at
    BY <2>1, Zenon DEF Fresh
  <2>3. ASSUME NEW e \in 1 .. received', entries'[e].key = k, fate'[e] = "none" PROVE i < entries'[e].at
    <3>1. CASE e = received + 1
      BY <1>2, <1>3, <2>1, <3>1, Zenon
    <3>2. CASE e \in 1 .. received
      BY <1>2, <2>2, <2>3, <3>2, Zenon
    <3> QED BY <1>4, <3>1, <3>2, Zenon
  <2> QED BY <1>3, <2>2, <2>3, Zenon
<1> QED BY <1>7, <1>8, <1>9, Zenon DEF Fresh

\* A flush that writes an entry of a key writes what is newer than every command applied before it.
LEMMA FreshFlushed ==
  ASSUME IndInv, WireOK, ReadOK, BlobOK, HandedOK, TargetOK, EntriesAsSent, [InlineNext]_allVars, FlushToTarget,
         ~ApplyInline, NEW k \in Keys, Unharmed(k), Fresh(k)
  PROVE  Fresh(k)'
<1>1. \A i, c \in Nat : Ran(i, c)' <=> Ran(i, c)
  BY RanSame, Zenon
<1>2. /\ received' = received /\ entries' = entries /\ stream' = stream
      /\ \A e \in 1 .. received : fate[e] # "none" => fate'[e] = fate[e]
  BY FlushLeaves, WireStays, Settling, Zenon
<1>3. target'[k] = IF Newly(k) = {} THEN target[k] ELSE entries[Latest(Newly(k))].version
  <2>1. target' = [j \in DOMAIN target |->
                     IF Newly(j) = {} THEN target[j] ELSE entries[Latest(Newly(j))].version]
    BY FlushLeaves, Zenon
  <2>2. k \in DOMAIN target
    BY Zenon DEF TargetOK
  <2> QED BY <2>1, <2>2, Zenon
<1>4. \A e \in 1 .. received : fate'[e] = "none" => fate[e] = "none"
  BY <1>2, Zenon
<1>5. CASE Newly(k) = {}
  <2>1. target'[k] = target[k]
    BY <1>3, <1>5, Zenon
  <2>2. \A e \in 1 .. received : entries[e].key = k => (fate'[e] = "written" <=> fate[e] = "written")
    BY <1>2, <1>5, Zenon DEF Newly
  <2> QED BY <1>1, <1>2, <1>4, <2>1, <2>2, Zenon DEF Fresh
<1>6. CASE Newly(k) # {}
  <2>1. PICK e \in Newly(k) : TRUE
    BY <1>6, Zenon
  <2>2. e \in 1 .. received /\ fate[e] # "written" /\ fate'[e] = "written" /\ entries[e].key = k
    BY <2>1, Zenon DEF Newly
  <2>3. Whole(e) /\ fate[e] = "none"
    BY <2>2, Zenon DEF Unharmed
  <2>4. \A f \in 1 .. received : entries[f].key = k => f = e
    BY <2>2, <2>3, OneEntry, Zenon DEF Unharmed
  <2>5. target'[k] = entries[e].version
    <3>1. Newly(k) \subseteq {e}
      BY <2>4, Zenon DEF Newly
    <3>2. received \in Nat
      BY Settling, Zenon
    <3>3. e \in Int
      BY <2>2, <3>2
    <3>4. Newly(k) \subseteq Int /\ \A m \in Newly(k) : m <= e
      BY <3>1, <3>3
    <3>5. Latest(Newly(k)) = e
      BY <2>1, <3>4, LatestIs, Zenon
    <3> QED BY <1>3, <1>6, <3>5, Zenon
  <2>6. entries[e].version \in Nat
    BY <2>2, <2>3, WholeSent, Zenon
  <2>7. entries[e].version <= entries[e].version
    BY <2>6
  <2>8. ASSUME NEW i \in Nat, NEW c \in Nat, Ran(i, c), stream[i].commands[c].key = k
        PROVE  stream[i].commands[c].version <= entries[e].version
    <3>1. i < entries[e].at
      BY <2>2, <2>3, <2>8, Zenon DEF Fresh
    <3>2. /\ i \in 1 .. Len(stream) /\ stream[i].op = "journal" /\ c \in DOMAIN stream[i].commands
          /\ stream[i].commands[c].version \in Nat
      BY <2>8, RanSent, Zenon
    <3>3. stream[i].commands[c].version < entries[e].version
      BY <2>2, <2>3, <2>8, <3>1, <3>2, AroundEntry, Zenon
    <3> QED BY <2>6, <3>2, <3>3
  <2> QED BY <1>1, <1>2, <1>4, <2>2, <2>4, <2>5, <2>7, <2>8, Zenon DEF Fresh
<1> QED BY <1>5, <1>6, Zenon

\* A command of a key that has nothing left in the writer is newer than all of it that has been
\* written and applied.
LEMMA FreshCommanded ==
  ASSUME IndInv, WireOK, ReadOK, BlobOK, HandedOK, TargetOK, EntriesAsSent, ApplyInline,
         NEW k \in Keys \ raced', Unharmed(k), Fresh(k)
  PROVE  Fresh(k)'
<1>0. PICK n : n = Len(stream[pos].commands) - Len(blob) + 1
  BY Zenon
<1>1. /\ pos \in 1 .. cut /\ stream[pos].op = "journal" /\ stream' = stream
      /\ stream[pos].commands \in Seq(Command) /\ n \in 1 .. Len(stream[pos].commands)
      /\ Head(blob) = stream[pos].commands[n] /\ stream[pos].commands[n] \in Command
      /\ Len(blob) \in Nat
  BY <1>0, NextCommand, Zenon
<1>2. \A i, c \in Nat : Ran(i, c)' <=> Ran(i, c) \/ (i = pos /\ c = n)
  BY <1>0, RanNext, Zenon
<1>3. /\ received' = received /\ entries' = entries /\ fate' = fate
      /\ target' = [target EXCEPT ![stream[pos].commands[n].key] = stream[pos].commands[n].version]
      /\ raced' = IF stream[pos].commands[n].key \in UnsettledKeys
                  THEN raced \cup {stream[pos].commands[n].key} ELSE raced
  BY <1>1, Zenon DEF ApplyInline, writerVars
<1>4. DOMAIN target = Keys \cup {EmptyKey}
  BY Zenon DEF TargetOK
<1>5. cut \in Nat /\ Len(stream) \in Nat /\ cut <= Len(stream)
  BY WireSizes, Zenon
<1>6. pos \in Nat /\ n \in Nat /\ pos \in 1 .. Len(stream) /\ n \in DOMAIN stream[pos].commands
  BY <1>1, <1>5
<1>7. CASE stream[pos].commands[n].key # k
  <2>1. target'[k] = target[k]
    BY <1>3, <1>4, <1>7, Zenon
  <2>2. \A i, c \in Nat : stream[i].commands[c].key = k => (Ran(i, c)' <=> Ran(i, c))
    BY <1>2, <1>7, Zenon
  <2> QED BY <1>1, <1>3, <2>1, <2>2, Zenon DEF Fresh
<1>8. CASE stream[pos].commands[n].key = k
  <2>1. target'[k] = stream[pos].commands[n].version
    BY <1>3, <1>4, <1>8, Zenon
  <2>2. stream[pos].commands[n].version \in Nat
    BY <1>1, Zenon DEF Command
  <2>3. k \notin UnsettledKeys
    BY <1>3, <1>8, Zenon
  <2>4. \A e \in 1 .. received : entries[e].key = k => fate[e] # "none"
    BY <2>3, Zenon DEF UnsettledKeys
  <2>5. ASSUME NEW e \in 1 .. received, entries[e].key = k
        PROVE  entries[e].version <= stream[pos].commands[n].version
    <3>1. Whole(e)
      BY <2>5, Zenon DEF Unharmed
    <3>2. entries[e].at \in 1 .. pos /\ entries[e].version \in Nat
      BY <3>1, WholeSent, Zenon
    <3>3. /\ pos # entries[e].at
          /\ entries[e].at < pos => entries[e].version < stream[pos].commands[n].version
      BY <1>1, <1>6, <1>8, <2>5, <3>1, AroundEntry, Zenon
    <3>4. entries[e].at < pos
      BY <1>6, <3>2, <3>3
    <3>5. entries[e].version < stream[pos].commands[n].version
      BY <3>3, <3>4, Zenon
    <3> QED BY <2>2, <3>2, <3>5
  <2>6. ASSUME NEW i \in Nat, NEW c \in Nat, Ran(i, c), stream[i].commands[c].key = k
        PROVE  stream[i].commands[c].version <= stream[pos].commands[n].version
    <3>1. /\ i \in 1 .. Len(stream) /\ i \in 1 .. pos /\ c \in DOMAIN stream[i].commands
          /\ stream[i].op = "journal" /\ stream[i].commands[c].version \in Nat
          /\ stream[i].commands[c].version \in VersionsOf(stream[i], k)
      BY <2>6, RanSent, Zenon
    <3>2. CASE i < pos
      <4>1. stream[pos].commands[n].version \in VersionsOf(stream[pos], k)
        BY <1>1, <1>6, <1>8, CommandGives, Zenon
      <4>2. stream[i].commands[c].version < stream[pos].commands[n].version
        BY <1>6, <3>1, <3>2, <4>1, VersionsOrdered, Zenon
      <4> QED BY <2>2, <3>1, <4>2
    <3>3. CASE i = pos
      <4>1. c <= Len(stream[pos].commands) - Len(blob)
        BY <2>6, <3>3, Zenon DEF Ran
      <4>2. c < n
        BY <1>0, <1>1, <4>1
      <4>3. InOrder(stream)
        BY InlineJournalAssumption, Zenon DEF WireOK
      <4>4. stream[i].commands[c].version < stream[pos].commands[n].version
        BY <1>1, <1>6, <1>8, <2>6, <3>1, <3>3, <4>2, <4>3, Zenon DEF InOrder
      <4> QED BY <2>2, <3>1, <4>4
    <3>4. i < pos \/ i = pos
      BY <1>6, <3>1
    <3> QED BY <3>2, <3>3, <3>4, Zenon
  <2>7. stream[pos].commands[n].version <= stream[pos].commands[n].version
    BY <2>2
  <2>8. \A i, c \in Nat : Ran(i, c)' /\ stream[i].commands[c].key = k
                           => stream[i].commands[c].version <= stream[pos].commands[n].version
    BY <1>2, <2>6, <2>7, Zenon
  <2>9. \E p \in Nat : p = pos /\ Ran(p, n)'
    BY <1>2, <1>6, Zenon
  <2>10. \E i, c \in Nat : /\ Ran(i, c)' /\ stream[i].commands[c].key = k
                            /\ target'[k] = stream[i].commands[c].version
    BY <1>6, <1>8, <2>1, <2>9, Zenon
  <2> QED BY <1>1, <1>3, <2>1, <2>4, <2>5, <2>8, <2>10, Zenon DEF Fresh
<1> QED BY <1>7, <1>8, Zenon

\* No step leaves an unharmed key that was not overtaken with anything but its newest version.
LEMMA FreshStep ==
  ASSUME IndInv, FlowInv, [InlineNext]_allVars, NEW k \in Keys \ raced', Unharmed(k)'
  PROVE  Fresh(k)'
<1>0. WireOK /\ ReadOK /\ BlobOK /\ HandedOK /\ TargetOK /\ EntriesAsSent
  BY Zenon DEF FlowInv
<1>1. Unharmed(k)
  BY <1>0, UnharmedBefore, Zenon
<1>2. k \notin raced
  <2>1. CASE ApplyInline
    BY <2>1, Zenon DEF ApplyInline
  <2>2. CASE ~ApplyInline
    BY <2>2, FlushLeaves, TargetStays, Zenon
  <2> QED BY <2>1, <2>2, Zenon
<1>3. Fresh(k)
  BY <1>1, <1>2, Zenon DEF FlowInv
<1>4. CASE ApplyInline
  BY <1>0, <1>1, <1>3, <1>4, FreshCommanded, Zenon
<1>5. CASE FlushToTarget /\ ~ApplyInline
  BY <1>0, <1>1, <1>3, <1>5, FreshFlushed, Zenon
<1>6. CASE ParseEntry
  BY <1>0, <1>3, <1>6, FreshHanded, Zenon
<1>7. CASE ~ApplyInline /\ ~FlushToTarget /\ ~ParseEntry
  BY <1>0, <1>3, <1>7, FreshQuiet, Zenon
<1> QED BY <1>4, <1>5, <1>6, <1>7, Zenon

-----------------------------------------------------------------------------
(* The invariant of the flow *)

\* What arrives stays as it is.
LEMMA WireStep == ASSUME WireOK, [InlineNext]_allVars PROVE WireOK'
<1>1. stream' = stream /\ cut' = cut /\ part' = part
  BY WireStays, Zenon
<1> QED BY <1>1, Zenon DEF WireOK, InBlob

\* A FLOW starts with nothing read, handed over or applied.
LEMMA FlowInit == ASSUME InlineInit PROVE FlowInv
<1> USE DEF InlineInit
<1>1. Len(stream) \in Nat /\ received = 0 /\ stop = "running"
  BY InlineJournalAssumption, Zenon DEF Init
<1>2. WireOK
  BY InlineJournalAssumption, Zenon DEF WireOK
<1>3. ReadOK
  <2>1. Own(pos + 1) = Own(1)
    BY DEF Own
  <2> QED BY <1>1, <2>1, OwnFirst DEF ReadOK
<1>4. BlobOK
  BY DEF BlobOK
<1>5. HandedOK
  BY <1>1 DEF HandedOK
<1>6. TargetOK
  BY Zenon DEF TargetOK
<1>7. EntriesAsSent
  BY DEF EntriesAsSent
<1>8. \A k \in Keys : Fresh(k)
  <2>1. \A i, c \in Nat : ~Ran(i, c)
    BY DEF Ran
  <2>2. \A e \in 1 .. received : FALSE
    BY <1>1
  <2>3. \A k \in Keys : target[k] = 0
    BY Zenon
  <2> QED BY <2>1, <2>2, <2>3, Zenon DEF Fresh
<1> QED BY <1>2, <1>3, <1>4, <1>5, <1>6, <1>7, <1>8, Zenon DEF FlowInv

\* Every step keeps it.
LEMMA FlowStep == ASSUME IndInv, FlowInv, [InlineNext]_allVars PROVE FlowInv'
<1>1. WireOK /\ ReadOK /\ BlobOK /\ HandedOK /\ TargetOK /\ EntriesAsSent
  BY Zenon DEF FlowInv
<1>2. WireOK' /\ ReadOK' /\ BlobOK' /\ TargetOK'
  BY <1>1, WireStep, ReadStep, BlobStep, TargetStep, Zenon
<1>3. HandedOK' /\ EntriesAsSent'
  BY <1>1, HandStep, Zenon
<1>4. \A k \in Keys \ raced' : Unharmed(k)' => Fresh(k)'
  BY FreshStep, Zenon
<1> QED BY <1>2, <1>3, <1>4, Zenon DEF FlowInv

\* The invariant of the writer and that of the flow hold together.
LEMMA FlowInvariant == InlineSpec => [](IndInv /\ FlowInv)
<1>1. InlineInit => IndInv /\ FlowInv
  BY InitInv, FlowInit, Zenon DEF InlineInit
<1>2. IndInv /\ FlowInv /\ [InlineNext]_allVars => IndInv' /\ FlowInv'
  BY WriterStep, NextInv, FlowStep, Zenon
<1> QED BY <1>1, <1>2, PTL DEF InlineSpec

\* The parser keeps to the entries of the source, whatever it sends and wherever the connection is
\* lost: those handed to Enqueue are the live ones of what was read, in order, each with its own
\* key, version and expiry.
THEOREM ParserKeepsToSource == InlineSpec => []EntriesAsSent
<1>1. IndInv /\ FlowInv => EntriesAsSent
  BY Zenon DEF FlowInv
<1> QED BY <1>1, FlowInvariant, PTL

\* The versions that arrived whole of a key.
Arrived(k) == {0} \cup UNION {VersionsOf(stream[i], k) : i \in {j \in 1 .. cut : Live(j)}}

\* Once the writer has stopped, all that arrived of a key that was delivered has reached the target.
LEMMA AllArrived ==
  ASSUME IndInv, FlowInv, stop = "stopped", NEW k \in Keys \ raced, Delivered(k)
  PROVE  target[k] \in Arrived(k) /\ Arrived(k) \subseteq Int /\ \A v \in Arrived(k) : v <= target[k]
<1>0. WireOK /\ ReadOK /\ BlobOK /\ HandedOK /\ TargetOK /\ EntriesAsSent
  BY Zenon DEF FlowInv
<1>1. Unharmed(k)
  BY Zenon DEF Delivered, Unharmed
<1>2. Fresh(k)
  BY <1>1, Zenon DEF FlowInv
<1>3. pos \in Nat /\ cut \in Nat /\ pos >= cut /\ blob = <<>> /\ Len(stream) \in Nat /\ cut <= Len(stream)
  <2>1. stop # "running"
    BY Zenon
  <2>2. pos >= cut /\ blob = <<>> /\ pos \in Nat
    BY <1>0, <2>1, Zenon DEF ReadOK
  <2> QED BY <1>0, <2>2, WireSizes, Zenon
<1>4. \A i \in 1 .. cut : i \in 1 .. pos /\ i \in Nat /\ i \in 1 .. Len(stream)
  BY <1>3
<1>5. ASSUME NEW i \in 1 .. cut, Live(i), NEW v \in VersionsOf(stream[i], k)
      PROVE  v \in Nat /\ v <= target[k]
  <2>1. CASE IsEntry(stream[i])
    <3>0. stream[i].op # "journal"
      BY <2>1, Zenon DEF IsEntry
    <3>1. v = stream[i].version /\ stream[i].key = k
      BY <1>5, <2>1, <3>0, Zenon DEF VersionsOf
    <3>2. received = Len(entries)
      BY <1>0, Zenon DEF HandedOK
    <3>3. PICK e \in 1 .. received : entries[e].at = i
      BY <1>0, <1>4, <1>5, <2>1, <3>2, Zenon DEF EntriesAsSent
    <3>4. Whole(e)
      <4>1. i # cut + 1
        BY <1>3
      <4> QED BY <1>0, <3>2, <3>3, <4>1, Zenon DEF EntriesAsSent
    <3>5. entries[e].key = k /\ entries[e].version = v /\ v \in Nat
      BY <1>0, <3>1, <3>3, <3>4, WholeSent, Zenon
    <3>6. fate[e] = "written"
      BY <3>5, Zenon DEF Delivered
    <3> QED BY <1>2, <3>5, <3>6, Zenon DEF Fresh
  <2>2. CASE ~IsEntry(stream[i])
    <3>1. stream[i].op = "journal" /\ \E c \in DOMAIN stream[i].commands :
            stream[i].commands[c].key = k /\ v = stream[i].commands[c].version
      BY <1>5, <2>2, Zenon DEF VersionsOf
    <3>2. PICK c \in DOMAIN stream[i].commands :
            stream[i].commands[c].key = k /\ v = stream[i].commands[c].version
      BY <3>1, Zenon
    <3>3. stream[i].commands \in Seq(Command)
      BY <1>0, <1>4, <3>1, CommandsSent, Zenon
    <3>4. c \in 1 .. Len(stream[i].commands) /\ c \in Nat /\ Len(stream[i].commands) \in Nat
      BY <3>2, <3>3
    <3>5. Len(blob) = 0 /\ c <= Len(stream[i].commands) - Len(blob) /\ i <= cut
      BY <1>3, <3>4
    <3>6. Ran(i, c) /\ i \in Nat
      BY <1>4, <3>1, <3>4, <3>5, Zenon DEF Ran
    <3>7. v \in Nat
      BY <1>0, <3>2, <3>4, <3>6, RanSent, Zenon
    <3> QED BY <1>2, <3>2, <3>4, <3>6, <3>7, Zenon DEF Fresh
  <2> QED BY <2>1, <2>2, Zenon
<1>6. target[k] \in Nat /\ target[k] \in Arrived(k)
  <2>1. CASE target[k] = 0
    BY <2>1 DEF Arrived
  <2>2. ASSUME NEW e \in 1 .. received, entries[e].key = k, target[k] = entries[e].version
        PROVE  target[k] \in Nat /\ target[k] \in Arrived(k)
    <3>1. Whole(e)
      BY <2>2, Zenon DEF Delivered
    <3>2. /\ entries[e].at \in 1 .. cut /\ Live(entries[e].at) /\ target[k] \in Nat
          /\ target[k] \in VersionsOf(stream[entries[e].at], k)
      BY <1>0, <2>2, <3>1, WholeSent, Zenon
    <3> QED BY <3>2, Zenon DEF Arrived
  <2>3. ASSUME NEW i \in Nat, NEW c \in Nat, Ran(i, c), stream[i].commands[c].key = k,
               target[k] = stream[i].commands[c].version
        PROVE  target[k] \in Nat /\ target[k] \in Arrived(k)
    <3>1. /\ i \in 1 .. cut /\ stream[i].op = "journal" /\ target[k] \in Nat
          /\ target[k] \in VersionsOf(stream[i], k)
      BY <1>0, <2>3, RanSent, Zenon
    <3>2. Live(i)
      BY <3>1, Zenon DEF Live, IsEntry
    <3> QED BY <3>1, <3>2, Zenon DEF Arrived
  <2> QED BY <1>2, <2>1, <2>2, <2>3, Zenon DEF Fresh
<1>7. 0 <= target[k]
  BY <1>6
<1>8. \A v \in Arrived(k) : v \in Nat /\ v <= target[k]
  <2>1. 0 \in Nat
    BY Zenon
  <2> QED BY <1>5, <1>7, <2>1, Zenon DEF Arrived
<1>9. Arrived(k) \subseteq Int
  BY <1>8
<1> QED BY <1>6, <1>8, <1>9, Zenon

\* Snapshot entries are written late and in batches, journal commands at once: still, a key that
\* no command has overtaken inside the writer and that lost nothing has, once Stop has returned, the
\* newest version that arrived.
THEOREM OnlyOvertakenKeysAreStale == InlineSpec => []OnlyRacesAreStale
<1>1. IndInv /\ FlowInv => OnlyRacesAreStale
  <2> SUFFICES ASSUME IndInv, FlowInv, stop = "stopped", NEW k \in Keys \ raced, Delivered(k)
               PROVE  target[k] = SourceVersion(k)
    BY Zenon DEF OnlyRacesAreStale
  <2>1. Latest(Arrived(k)) = target[k]
    BY AllArrived, LatestIs, Zenon
  <2> QED BY <2>1, Zenon DEF SourceVersion, Arrived
<1> QED BY <1>1, FlowInvariant, PTL

-----------------------------------------------------------------------------
(* The semaphore of the writer *)

INSTANCE FiniteSetTheorems

\* Every flush goroutine holds a slot of writeSemaphore.
SlotsOK == IsFiniteSet(batches) /\ Cardinality(batches) <= MaxConcurrentWrites

\* Replacing a batch in flight does not change how many there are.
LEMMA ReplaceKeepsCount ==
  ASSUME NEW S, IsFiniteSet(S), NEW x \in S, NEW y
  PROVE  /\ IsFiniteSet((S \ {x}) \cup {y})
         /\ Cardinality((S \ {x}) \cup {y}) <= Cardinality(S)
<1>1. IsFiniteSet(S \ {x}) /\ Cardinality(S \ {x}) = Cardinality(S) - 1
  BY FS_RemoveElement, Zenon
<1>2. /\ IsFiniteSet((S \ {x}) \cup {y})
      /\ \/ Cardinality((S \ {x}) \cup {y}) = Cardinality(S \ {x})
         \/ Cardinality((S \ {x}) \cup {y}) = Cardinality(S \ {x}) + 1
  BY <1>1, FS_AddElement, Zenon
<1>3. Cardinality(S) \in Nat
  BY FS_CardinalityType, Zenon
<1> QED
  BY <1>1, <1>2, <1>3

\* A goroutine takes a slot before it starts, and gives it back when it returns.
LEMMA SlotsStep == ASSUME SlotsOK, [Next]_writerVars PROVE SlotsOK'
<1>1. IsFiniteSet(batches) /\ Cardinality(batches) \in Nat /\ Cardinality(batches) <= MaxConcurrentWrites
  BY FS_CardinalityType, Zenon DEF SlotsOK
<1>2. MaxConcurrentWrites \in Nat
  BY FlowWriterAssumption
<1>3. CASE batches' = batches
  BY <1>3, Zenon DEF SlotsOK
<1>4. ASSUME NEW r, batches' = batches \cup {r}, Cardinality(batches) < MaxConcurrentWrites
      PROVE  SlotsOK'
  <2>1. /\ IsFiniteSet(batches \cup {r})
        /\ \/ Cardinality(batches \cup {r}) = Cardinality(batches)
           \/ Cardinality(batches \cup {r}) = Cardinality(batches) + 1
    BY <1>1, FS_AddElement, Zenon
  <2>2. Cardinality(batches \cup {r}) <= MaxConcurrentWrites
    BY <1>1, <1>2, <1>4, <2>1
  <2> QED BY <1>4, <2>1, <2>2, Zenon DEF SlotsOK
<1>5. ASSUME NEW b \in batches, batches' = batches \ {b} PROVE SlotsOK'
  <2>1. IsFiniteSet(batches \ {b}) /\ Cardinality(batches \ {b}) = Cardinality(batches) - 1
    BY <1>1, FS_RemoveElement, Zenon
  <2>2. Cardinality(batches \ {b}) <= MaxConcurrentWrites
    BY <1>1, <1>2, <2>1
  <2> QED BY <1>5, <2>1, <2>2, Zenon DEF SlotsOK
<1>6. ASSUME NEW b \in batches, NEW r, batches' = (batches \ {b}) \cup {r} PROVE SlotsOK'
  <2>1. /\ IsFiniteSet((batches \ {b}) \cup {r})
        /\ Cardinality((batches \ {b}) \cup {r}) <= Cardinality(batches)
    BY <1>1, ReplaceKeepsCount, Zenon
  <2>2. Cardinality((batches \ {b}) \cup {r}) \in Nat
    BY <2>1, FS_CardinalityType, Zenon
  <2>3. Cardinality((batches \ {b}) \cup {r}) <= MaxConcurrentWrites
    BY <1>1, <1>2, <2>1, <2>2
  <2> QED BY <1>6, <2>1, <2>3, Zenon DEF SlotsOK
<1>7. CASE AsyncFlush
  BY <1>4, <1>7, Zenon DEF AsyncFlush
<1>8. CASE FlushStep
  <2>1. PICK b \in batches : \/ DropBatch(b) \/ GroupBatch(b)
                             \/ \E n \in Nodes : WriteChunk(b, n)
                             \/ BatchDone(b)
    BY <1>8, Zenon DEF FlushStep
  <2>2. CASE DropBatch(b) \/ BatchDone(b)
    BY <1>5, <2>2, Zenon DEF DropBatch, BatchDone
  <2>3. CASE GroupBatch(b) \/ \E n \in Nodes : WriteChunk(b, n)
    BY <1>6, <2>3, Zenon DEF GroupBatch, WriteChunk
  <2> QED BY <2>1, <2>2, <2>3, Zenon
<1>9. CASE ~AsyncFlush /\ ~FlushStep
  <2>1. batches' = batches
    BY <1>9, Zenon DEF Next, writerVars, Enqueue, Stop, StopReturns, LoopStep, Receive, Tick, ChannelClosed,
       UpdateConfig, SetLimit, SetBurst, SetBatchSize
  <2> QED BY <1>3, <2>1, Zenon
<1> QED BY <1>7, <1>8, <1>9, Zenon

\* The channel never holds more than its capacity and never more than
\* maxConcurrentWrites batches are in flight, whatever configuration updates come.
THEOREM WriterTypeOK == SafeSpec => []TypeOK
<1>1. Init => SlotsOK
  <2>1. IsFiniteSet({}) /\ Cardinality({}) = 0
    BY FS_EmptySet, Zenon
  <2>2. 0 <= MaxConcurrentWrites
    BY FlowWriterAssumption
  <2> QED BY <2>1, <2>2, Zenon DEF Init, SlotsOK
<1>2. SlotsOK /\ [Next]_writerVars => SlotsOK'
  BY SlotsStep, Zenon
<1>3. IndInv /\ SlotsOK => TypeOK
  BY Zenon DEF IndInv, VarsOK, SlotsOK, TypeOK
<1> QED
  BY <1>1, <1>2, <1>3, InvariantHolds, PTL DEF SafeSpec
=============================================================================
