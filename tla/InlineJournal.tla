--------------------------- MODULE InlineJournal ---------------------------
(***************************************************************************)
(* One FLOW of the snapshot phase, from the connection to the target: the  *)
(* parser reads the RDB stream (internal/replica/rdb_parser.go) and hands  *)
(* the entries to FlowWriter.Enqueue, which writes them later; the journal *)
(* commands it finds inside the snapshot (JOURNAL_BLOB) it applies at      *)
(* once, through processJournalBlob, onJournalEntry and replayCommand.     *)
(*                                                                         *)
(* The stream is what the source sends, as a sequence of items, one per    *)
(* opcode; the items in a compressed blob follow the item of the blob.     *)
(* The source sends one entry of a key, and its entry and commands in the  *)
(* order of the versions they give the key.  The connection may be lost    *)
(* between two items or inside one.                                        *)
(***************************************************************************)
EXTENDS FlowWriter, Sequences

CONSTANTS
  Keys,
  EmptyKey,  \* the key "", which a key that cannot be read becomes
  Streams,   \* what a FLOW may send: sequences of items
  Parts,     \* how much of the item it is lost in a connection may deliver
  Now,       \* the time IsExpired compares with, in milliseconds
  ParseValue(_, _)  \* what the decoder of a type makes of bytes (see RdbValues)

IsEntry(item) == item.op = "entry"
Expiries == {"expiretime", "expiretime_ms"}
Ops == {"entry", "skip", "journal", "compressed", "eof"} \cup Expiries

\* The fields an item has.  The source sends lists as quicklists with containers
\* (type 18, docs/en/research/dragonfly-stream-rdb-format.md:17); of the older
\* type 14 the parser would read past the end, into the items behind it.
WellFormed(item) ==
  /\ item.op \in Ops
  /\ IsEntry(item) =>
       item.key \in Keys /\ item.version \in Nat \ {0} /\ item.type # "list_quicklist"
  /\ item.op \in Expiries => item.time \in Nat
  /\ item.op = "journal" => item.commands \in Seq([key : Keys, version : Nat \ {0}])
  /\ item.op = "compressed" => item.count \in Nat

\* The versions an item gives k.
VersionsOf(item, k) ==
  {v \in (IF IsEntry(item) THEN {item.version} ELSE {}) : item.key = k}
    \cup (IF item.op = "journal"
          THEN {item.commands[c].version : c \in {d \in DOMAIN item.commands : item.commands[d].key = k}}
          ELSE {})

\* The source sends the versions of a key in their order.
InOrder(s) ==
  /\ \A k \in Keys : \A i, j \in 1 .. Len(s) :
       i < j => \A v \in VersionsOf(s[i], k) : \A w \in VersionsOf(s[j], k) : v < w
  /\ \A i \in 1 .. Len(s) : s[i].op = "journal" =>
       \A c, d \in DOMAIN s[i].commands :
         c < d /\ s[i].commands[c].key = s[i].commands[d].key
           => s[i].commands[c].version < s[i].commands[d].version

\* The n-th item of s is inside a blob that goes on after it.
InBlob(s, n) ==
  \E i \in 1 .. n : s[i].op = "compressed" /\ n < i + s[i].count

ASSUME InlineJournalAssumption ==
  /\ EmptyKey \notin Keys
  /\ Parts \subseteq Int
  /\ Now \in Nat
  /\ \A s \in Streams :
       /\ Len(s) \in Nat
       /\ \A i \in 1 .. Len(s) : WellFormed(s[i]) /\ (s[i].op = "eof" <=> i = Len(s))
       /\ \A i \in 1 .. Len(s) : s[i].op = "compressed" =>
            /\ i + s[i].count < Len(s)
            /\ \A j \in (i + 1) .. (i + s[i].count) : s[j].op # "compressed"
       /\ Cardinality({i \in 1 .. Len(s) : IsEntry(s[i])}) <= MaxEntries
       /\ \A i, j \in 1 .. Len(s) :
            IsEntry(s[i]) /\ IsEntry(s[j]) /\ s[i].key = s[j].key => i = j
       /\ InOrder(s)

VARIABLES
  stream,    \* what the source sends on the FLOW
  cut,       \* how many items arrive whole before the connection is lost
  part,      \* how much of the next one does: nothing of it if negative
  pos,       \* items read, those read from a blob included
  reader,    \* what p.reader reads: the "original" connection or a "blob"
  inner,     \* how many items are left to read of the blob
  endMark,   \* the end mark that was appended to the blob is still to be read
  expireMs,  \* the expiry the next entry gets, 0 if none
  blob,      \* journal entries of the JOURNAL_BLOB that are still to be applied
  parser,    \* "parsing", "done" (io.EOF) or "failed"
  entries,   \* the entries handed to the writer, in that order
  target,    \* target[k]: the version of k on the target, 0 if it has none
  raced      \* keys that were commanded while an entry of theirs was unsettled

wireVars == <<stream, cut, part>>
readVars == <<pos, reader, inner, endMark>>
inlineVars == <<wireVars, readVars, expireMs, blob, parser, entries, target, raced>>
allVars == <<writerVars, inlineVars>>

TornVersion == -1

UnsettledKeys == {entries[e].key : e \in {d \in 1 .. received : fate[d] = "none"}}

InlineInit ==
  /\ Init
  /\ stream \in Streams
  /\ cut \in 0 .. Len(stream) /\ ~InBlob(stream, cut)
  /\ part \in Parts
  /\ part >= 0 =>
       /\ cut < Len(stream)
       /\ part <= IF IsEntry(stream[cut + 1]) THEN Len(stream[cut + 1].payload) ELSE 0
  /\ pos = 0
  /\ reader = "original"
  /\ inner = 0
  /\ endMark = FALSE
  /\ expireMs = 0
  /\ blob = <<>>
  /\ parser = "parsing"
  /\ entries = <<>>
  /\ target = [k \in Keys \cup {EmptyKey} |-> 0]
  /\ raced = {}

-----------------------------------------------------------------------------
(* ParseNext: the next opcode, from the connection or from a blob *)

\* The connection ends inside the next item.
Torn == reader = "original" /\ pos = cut /\ part >= 0

Readable == IF reader = "blob" THEN inner > 0 \/ endMark ELSE pos < cut \/ Torn

Item == IF reader = "blob" /\ inner = 0 THEN [op |-> "blobEnd"] ELSE stream[pos + 1]

Upcoming(ops) == parser = "parsing" /\ blob = <<>> /\ Readable /\ Item.op \in ops

Consume ==
  /\ pos' = pos + 1
  /\ inner' = IF reader = "blob" THEN inner - 1 ELSE inner
  /\ UNCHANGED <<reader, endMark>>

\* EXPIRETIME and EXPIRETIME_MS set the expiry of the entry that follows.
ReadExpiry ==
  /\ Upcoming(Expiries)
  /\ ~Torn
  /\ expireMs' = IF Item.op = "expiretime" THEN 1000 * Item.time ELSE Item.time
  /\ Consume
  /\ UNCHANGED <<wireVars, blob, parser, entries, target, raced, writerVars>>

\* SELECTDB, RESIZEDB, AUX and JOURNAL_OFFSET are read over, and so is, for this
\* FLOW's data, FULLSYNC_END (see FullSync).
ReadOver ==
  /\ Upcoming({"skip"})
  /\ ~Torn
  /\ Consume
  /\ UNCHANGED <<wireVars, expireMs, blob, parser, entries, target, raced, writerVars>>

\* A fault: the end mark is not appended to what was decompressed.
OpenBlob_NoEndMark ==
  /\ Upcoming({"compressed"})
  /\ ~Torn
  /\ inner' = Item.count
  /\ endMark' = FALSE
  /\ reader' = "blob"
  /\ pos' = pos + 1
  /\ UNCHANGED <<wireVars, expireMs, blob, parser, entries, target, raced, writerVars>>

\* handleZstdBlob and handleLZ4Blob: the blob is decompressed, an end mark is
\* appended, and the parser reads on from it.
OpenBlob ==
  /\ Upcoming({"compressed"})
  /\ ~Torn
  /\ inner' = Item.count
  /\ endMark' = TRUE
  /\ reader' = "blob"
  /\ pos' = pos + 1
  /\ UNCHANGED <<wireVars, expireMs, blob, parser, entries, target, raced, writerVars>>

\* handleLZ4BlobEnd: back to the connection.
CloseBlob ==
  /\ Upcoming({"blobEnd"})
  /\ reader' = "original"
  /\ endMark' = FALSE
  /\ UNCHANGED <<wireVars, pos, inner, expireMs, blob, parser, entries, target, raced, writerVars>>

\* The item the connection is lost in.  Its fixed fields and lengths are checked:
\* the error ends the FLOW.
TornFails ==
  /\ Upcoming(Ops \ {"entry"})
  /\ Torn
  /\ parser' = "failed"
  /\ UNCHANGED <<wireVars, readVars, expireMs, blob, entries, target, raced, writerVars>>

\* The string of a JOURNAL_BLOB is not: it is read as "" and passed over.
TornJournal ==
  /\ Upcoming({"journal"})
  /\ Torn
  /\ Consume
  /\ UNCHANGED <<wireVars, expireMs, blob, parser, entries, target, raced, writerVars>>

\* Nothing more to read: io.EOF after the EOF opcode, at the end of a blob that
\* has no end mark, and from a connection the source has closed.  A connection
\* that broke otherwise, or timed out, returns another error.
StreamEnds ==
  /\ parser = "parsing"
  /\ blob = <<>>
  /\ \/ Upcoming({"eof"}) /\ ~Torn /\ Consume /\ parser' = "done"
     \/ ~Readable /\ parser' = "done" /\ UNCHANGED readVars
     \/ ~Readable /\ reader = "original" /\ parser' = "failed" /\ UNCHANGED readVars
  /\ UNCHANGED <<wireVars, expireMs, blob, entries, target, raced, writerVars>>

-----------------------------------------------------------------------------
(* parseKeyValue, and what receiveSnapshot does with the entry *)

\* The entry as parseKeyValue makes it of what arrives: a key that is cut short
\* is "", and the value is whatever its decoder makes of the bytes there are.
Value ==
  ParseValue(Item.type, IF Torn THEN SubSeq(Item.payload, 1, part - 1) ELSE Item.payload)

Entry == [key |-> IF Torn /\ part = 0 THEN EmptyKey ELSE Item.key,
          version |-> IF Torn THEN TornVersion ELSE Item.version,
          type |-> Item.type,
          value |-> Value.v,
          rest |-> Len(Item.payload) + 1 - Value.at,
          expire |-> expireMs,
          at |-> pos + 1]  \* where in the stream it was, for the properties only

IsExpired(ms) == ms # 0 /\ ms < Now

\* The value cannot be decoded: the error goes up and ends the FLOW.
BadEntry ==
  /\ Upcoming({"entry"})
  /\ ~Value.ok
  /\ parser' = "failed"
  /\ UNCHANGED <<wireVars, readVars, expireMs, blob, entries, target, raced, writerVars>>

SkipExpired ==
  /\ Upcoming({"entry"})
  /\ Value.ok
  /\ IsExpired(expireMs)
  /\ expireMs' = 0
  /\ Consume
  /\ UNCHANGED <<wireVars, blob, parser, entries, target, raced, writerVars>>

\* A fault: the expiry is not reset after the entry it belongs to.
ParseEntry_KeepsExpiry ==
  /\ Upcoming({"entry"})
  /\ Value.ok
  /\ ~IsExpired(expireMs)
  /\ Enqueue
  /\ entries' = Append(entries, Entry)
  /\ expireMs' = expireMs
  /\ Consume
  /\ UNCHANGED <<wireVars, blob, parser, target, raced>>

\* An entry that has not expired is enqueued.
ParseEntry ==
  /\ Upcoming({"entry"})
  /\ Value.ok
  /\ ~IsExpired(expireMs)
  /\ Enqueue
  /\ entries' = Append(entries, Entry)
  /\ expireMs' = 0
  /\ Consume
  /\ UNCHANGED <<wireVars, blob, parser, target, raced>>

-----------------------------------------------------------------------------
(* processJournalBlob *)

ReadJournal ==
  /\ Upcoming({"journal"})
  /\ ~Torn
  /\ blob' = Item.commands
  /\ Consume
  /\ UNCHANGED <<wireVars, expireMs, parser, entries, target, raced, writerVars>>

\* A command is applied before ParseNext goes on.
ApplyInline ==
  /\ parser = "parsing"
  /\ blob # <<>>
  /\ LET c == Head(blob) IN
       /\ target' = [target EXCEPT ![c.key] = c.version]
       /\ raced' = IF c.key \in UnsettledKeys THEN raced \cup {c.key} ELSE raced
  /\ blob' = Tail(blob)
  /\ UNCHANGED <<wireVars, readVars, expireMs, parser, entries, writerVars>>

\* The command fails: the error goes up through ParseNext and ends the FLOW, with
\* the rest of the blob unapplied; the writer is left running and never stopped.
InlineFails ==
  /\ parser = "parsing"
  /\ blob # <<>>
  /\ parser' = "failed"
  /\ UNCHANGED <<wireVars, readVars, expireMs, blob, entries, target, raced, writerVars>>

-----------------------------------------------------------------------------
\* The stream has ended: receiveSnapshot stops the writer.
StopWriter ==
  /\ parser = "done"
  /\ Stop
  /\ UNCHANGED inlineVars

Latest(S) == CHOOSE n \in S : \A m \in S : m <= n

\* The entries a flush has just written reach the target.
FlushToTarget ==
  /\ FlushStep
  /\ target' = [k \in DOMAIN target |->
                  LET now == {e \in 1 .. received : /\ fate[e] # "written" /\ fate'[e] = "written"
                                                    /\ entries[e].key = k}
                  IN IF now = {} THEN target[k] ELSE entries[Latest(now)].version]
  /\ UNCHANGED <<wireVars, readVars, expireMs, blob, parser, entries, raced>>

ParseStep ==
  \/ ReadExpiry
  \/ ReadOver
  \/ OpenBlob
  \/ CloseBlob
  \/ TornFails
  \/ TornJournal
  \/ StreamEnds
  \/ BadEntry
  \/ SkipExpired
  \/ ParseEntry
  \/ ReadJournal
  \/ ApplyInline
  \/ InlineFails

InlineNext ==
  \/ ParseStep
  \/ StopWriter
  \/ StopReturns /\ UNCHANGED inlineVars
  \/ LoopStep /\ UNCHANGED inlineVars
  \/ FlushToTarget

InlineSpec == InlineInit /\ [][InlineNext]_allVars

-----------------------------------------------------------------------------
(* Properties *)

\* The expiry the source means for the item at i: the one sent since the entry
\* before it.
Own(i) ==
  LET since == {j \in 1 .. (i - 1) : /\ stream[j].op \in Expiries
                                     /\ \A m \in j .. (i - 1) : ~IsEntry(stream[m])}
      last == stream[Latest(since)]
  IN IF since = {} THEN 0 ELSE IF last.op = "expiretime" THEN last.time * 1000 ELSE last.time

\* The items that count: an entry that has expired does not.
Live(i) == IsEntry(stream[i]) => ~IsExpired(Own(i))

Whole(e) == entries[e].version # TornVersion

\* Through compressed blobs, skipped opcodes and inline commands the parser keeps
\* to the source's entries: it hands over the live ones of what it has read, all
\* of them and in their order, each with its own expiry and no other's.  Only the
\* entry the connection was lost in may be another, and it is the last.
EntriesAsSent ==
  /\ \A e \in 1 .. Len(entries) :
       LET i == entries[e].at IN
       IF Whole(e)
       THEN /\ i \in 1 .. cut /\ IsEntry(stream[i]) /\ Live(i)
            /\ entries[e].key = stream[i].key
            /\ entries[e].version = stream[i].version
            /\ entries[e].expire = Own(i)
       ELSE e = Len(entries) /\ i = cut + 1 /\ part >= 0
  /\ \A e, f \in 1 .. Len(entries) : e < f => entries[e].at < entries[f].at
  /\ \A i \in 1 .. pos : IsEntry(stream[i]) /\ Live(i) => \E e \in 1 .. Len(entries) : entries[e].at = i

\* The version the source has sent last for k among what arrived whole.
SourceVersion(k) ==
  Latest({0} \cup UNION {VersionsOf(stream[i], k) : i \in {j \in 1 .. cut : Live(j)}})

\* No entry of k has been lost on its way, or been cut short.
Delivered(k) == \A e \in 1 .. received : entries[e].key = k => fate[e] = "written" /\ Whole(e)

\* "must be applied inline to maintain consistency": once the writer has stopped
\* and nothing was lost, every key has the version the source has sent last.
InlineConsistent ==
  stop = "stopped" => \A k \in Keys : Delivered(k) => target[k] = SourceVersion(k)

\* The only way to a stale key is a command that overtakes an entry of its key
\* inside the writer: every other key has the version that arrived last.  Neither
\* a blob nor a command in it is left unread by a FLOW that ends without an error.
OnlyRacesAreStale ==
  stop = "stopped" => \A k \in Keys \ raced : Delivered(k) => target[k] = SourceVersion(k)
=============================================================================
