------------------------------- MODULE Checker -------------------------------
(* The consistency check (internal/checker): one goroutine scans the keys of *)
(* the source into a channel, the workers take them in batches and compare   *)
(* the two sides over two shared connections.  Every call on a connection    *)
(* can fail, and the check goes on without what it asked for.                *)
EXTENDS Integers, Sequences, FiniteSets

CONSTANTS
  Keys,      \* keys of the source
  Data,      \* what the keys can be: their types, values and TTLs on either side
  Modes,     \* c.config.Mode
  Workers,   \* c.config.Parallel goroutines
  Capacity,  \* the channel's capacity, 2 * BatchSize in the code
  BatchSize, \* keys of a batch, 100 in the code
  Chunk,     \* list elements compared at a time, 1000 in the code
  Threshold, \* c.config.BigKeyThreshold
  MaxFaults, \* bound: calls that fail
  MaxRepeats \* bound: keys SCAN returns a second time

ASSUME CheckerAssumption ==
  /\ Capacity > 0 /\ BatchSize \in Nat \ {0} /\ Chunk \in Nat \ {0}
  /\ Workers # {}
  /\ Data \subseteq [Keys -> [srcType : STRING, tgtType : STRING, src : Seq(Nat), tgt : Seq(Nat),
                             srcTTL : Nat, tgtTTL : Nat]]

VARIABLES
  mode, item,  \* the mode, and the item of each key
  scanned,     \* keys SCAN has returned
  repeats,     \* keys it has returned again
  scan,        \* the scanner: scanning, done or failed
  keyChan,     \* keys on their way to the workers
  keysClosed,  \* close(keyChan)
  pc, batch,   \* where each worker is, and its batch
  strings, others, \* stringKeys and otherKeys, as positions in the batch
  total, consistent, inconsistent, missing, \* the counters of Result
  alarms,      \* the keys recordInconsistency was called for
  emitted,     \* history: keys sent to the channel
  faults, returned

dataVars == <<mode, item>>
scanVars == <<scanned, repeats, scan, keysClosed, emitted>>
workVars == <<batch, strings, others>>
counters == <<total, consistent, inconsistent, missing, alarms>>
checkVars == <<dataVars, scanVars, keyChan, pc, workVars, counters, faults, returned>>

CheckInit ==
  /\ mode \in Modes /\ item \in Data
  /\ scanned = {} /\ repeats = 0 /\ scan = "scanning" /\ keysClosed = FALSE /\ emitted = 0
  /\ keyChan = <<>>
  /\ pc = [w \in Workers |-> "take"]
  /\ batch = [w \in Workers |-> <<>>]
  /\ strings = [w \in Workers |-> {}] /\ others = [w \in Workers |-> {}]
  /\ total = 0 /\ consistent = 0 /\ inconsistent = 0 /\ missing = 0 /\ alarms = {}
  /\ faults = 0 /\ returned = FALSE

Fault == faults < MaxFaults /\ faults' = faults + 1

-----------------------------------------------------------------------------
(* verifyFullValue: values are sequences; those of sets and hashes come in   *)
(* any order.                                                                *)

Elements(s) == {s[i] : i \in DOMAIN s}

\* LRANGE clips its bounds to the list.
LRANGE(s, i, j) == SubSeq(s, i + 1, IF j < Len(s) THEN j + 1 ELSE Len(s))

\* The length is compared first; a smart check leaves a big value at that.
LengthThen(a, b, equal) ==
  /\ Len(a) = Len(b)
  /\ (mode = "smart" /\ Len(a) > Threshold) \/ equal

compareString(a, b) == LengthThen(a, b, a = b)

\* A fault: only the first chunk is compared.
compareList_FirstChunk(a, b) ==
  LengthThen(a, b, LRANGE(a, 0, Chunk - 1) = LRANGE(b, 0, Chunk - 1))

\* Chunk elements are fetched and compared at a time.
compareList(a, b) ==
  LengthThen(a, b, \A i \in {j \in 0 .. Len(a) - 1 : j % Chunk = 0} :
                     LRANGE(a, i, i + Chunk - 1) = LRANGE(b, i, i + Chunk - 1))

\* A fault: the members are compared in the order they come.
compareSet_InOrder(a, b) == LengthThen(a, b, a = b)

\* SMEMBERS in any order, sorted.
compareSet(a, b) == LengthThen(a, b, Elements(a) = Elements(b))

\* HGETALL in any order, put in a map.
compareHash(a, b) == LengthThen(a, b, Elements(a) = Elements(b))

\* ZRANGE WITHSCORES in the order of the scores.
compareZSet(a, b) == LengthThen(a, b, a = b)

\* A stream has nothing but its length compared.
compareStream(a, b) == Len(a) = Len(b)

\* A value of any other type passes.
verifyFullValue(type, a, b) ==
  CASE type = "string" -> compareString(a, b)
    [] type = "list" -> compareList(a, b)
    [] type = "set" -> compareSet(a, b)
    [] type = "zset" -> compareZSet(a, b)
    [] type = "hash" -> compareHash(a, b)
    [] type = "stream" -> compareStream(a, b)
    [] OTHER -> TRUE

-----------------------------------------------------------------------------
(* scanSource *)

\* SCAN returns each key at least once when it is not cut short; a rehash can
\* make it return one again.  out <- k blocks while the channel is full.
ScanKey(k) ==
  /\ scan = "scanning" /\ Len(keyChan) < Capacity
  /\ \/ k \notin scanned /\ UNCHANGED repeats
     \/ k \in scanned /\ repeats < MaxRepeats /\ repeats' = repeats + 1
  /\ scanned' = scanned \cup {k}
  /\ keyChan' = Append(keyChan, k)
  /\ emitted' = emitted + 1
  /\ UNCHANGED <<dataVars, scan, keysClosed, pc, workVars, counters, faults, returned>>

\* A fault: the channel is not closed when SCAN fails.
ScanEnds_FailureKeepsOpen ==
  /\ scan = "scanning"
  /\ \/ scanned = Keys /\ scan' = "done" /\ UNCHANGED faults
     \/ Fault /\ scan' = "failed"
  /\ keysClosed' = (scanned = Keys)
  /\ UNCHANGED <<dataVars, scanned, repeats, emitted, keyChan, pc, workVars, counters, returned>>

\* Cursor 0, or an error, which is only logged: the channel is closed.
ScanEnds ==
  /\ scan = "scanning"
  /\ \/ scanned = Keys /\ scan' = "done" /\ UNCHANGED faults
     \/ Fault /\ scan' = "failed"
  /\ keysClosed' = TRUE
  /\ UNCHANGED <<dataVars, scanned, repeats, emitted, keyChan, pc, workVars, counters, returned>>

Scanner == (\E k \in Keys : ScanKey(k)) \/ ScanEnds

-----------------------------------------------------------------------------
(* processKeys and processBatch *)

\* A fault: what is left in the batch when the channel is closed is forgotten.
TakeKey_DropsRest(w) ==
  /\ pc[w] = "take"
  /\ \/ /\ keyChan # <<>>
        /\ keyChan' = Tail(keyChan)
        /\ batch' = [batch EXCEPT ![w] = Append(@, Head(keyChan))]
        /\ pc' = [pc EXCEPT ![w] = IF Len(batch[w]) + 1 >= BatchSize THEN "types" ELSE "take"]
     \/ /\ keyChan = <<>> /\ keysClosed
        /\ pc' = [pc EXCEPT ![w] = "done"]
        /\ UNCHANGED <<keyChan, batch>>
  /\ UNCHANGED <<dataVars, scanVars, strings, others, counters, faults, returned>>

\* A key is appended to the batch; a full batch is processed, and so is what is
\* left when the channel is closed and empty.
TakeKey(w) ==
  /\ pc[w] = "take"
  /\ \/ /\ keyChan # <<>>
        /\ keyChan' = Tail(keyChan)
        /\ batch' = [batch EXCEPT ![w] = Append(@, Head(keyChan))]
        /\ pc' = [pc EXCEPT ![w] = IF Len(batch[w]) + 1 >= BatchSize THEN "types" ELSE "take"]
     \/ /\ keyChan = <<>> /\ keysClosed
        /\ pc' = [pc EXCEPT ![w] = IF batch[w] # <<>> THEN "types" ELSE "done"]
        /\ UNCHANGED <<keyChan, batch>>
  /\ UNCHANGED <<dataVars, scanVars, strings, others, counters, faults, returned>>

\* The batch ends, at its end or at an early return.
EndBatch(w) ==
  /\ pc' = [pc EXCEPT ![w] = "take"]
  /\ batch' = [batch EXCEPT ![w] = <<>>]
  /\ strings' = [strings EXCEPT ![w] = {}]
  /\ others' = [others EXCEPT ![w] = {}]

\* recordInconsistency and the counters, for the positions one step judges.
Count(w, ok, bad, gone) ==
  /\ consistent' = consistent + Cardinality(ok)
  /\ inconsistent' = inconsistent + Cardinality(bad)
  /\ missing' = missing + Cardinality(gone)
  /\ alarms' = alarms \cup {batch[w][n] : n \in bad}

\* The TYPE pipelines.  A key whose types differ is inconsistent; the others are
\* consistent, or have their values compared in the modes full and length.
CompareTypes(w) ==
  LET b == batch[w]
      gone == {n \in DOMAIN b : item[b[n]].tgtType = "none"}
      bad == gone \cup {n \in DOMAIN b : item[b[n]].tgtType # item[b[n]].srcType}
      same == DOMAIN b \ bad
      str == {n \in same : item[b[n]].srcType = "string" /\ mode = "full"} IN
  /\ pc[w] = "types"
  /\ \/ /\ Fault /\ EndBatch(w)
        /\ UNCHANGED counters
     \/ /\ total' = total + Len(b)
        /\ IF mode \in {"full", "length"}
           THEN /\ Count(w, {}, bad, gone)
                /\ strings' = [strings EXCEPT ![w] = str]
                /\ others' = [others EXCEPT ![w] = same \ str]
           ELSE /\ Count(w, same, bad, gone)
                /\ UNCHANGED <<strings, others>>
        /\ pc' = [pc EXCEPT ![w] = "strings"]
        /\ UNCHANGED <<batch, faults>>
  /\ UNCHANGED <<dataVars, scanVars, keyChan, returned>>

\* A failed pipeline of batchVerifyStrings leaves its keys without a verdict.
StringsFail(w) ==
  /\ pc[w] \in {"strings", "get"} /\ strings[w] # {} /\ Fault
  /\ strings' = [strings EXCEPT ![w] = {}]
  /\ pc' = [pc EXCEPT ![w] = "others"]
  /\ UNCHANGED <<dataVars, scanVars, keyChan, batch, others, counters, returned>>

\* The STRLEN pipelines: only strings of equal length are fetched.
CompareLengths(w) ==
  LET bad == {n \in strings[w] : Len(item[batch[w][n]].src) # Len(item[batch[w][n]].tgt)} IN
  /\ pc[w] = "strings"
  /\ Count(w, {}, bad, {})
  /\ strings' = [strings EXCEPT ![w] = @ \ bad]
  /\ pc' = [pc EXCEPT ![w] = "get"]
  /\ UNCHANGED <<dataVars, scanVars, keyChan, batch, others, total, faults, returned>>

\* The GET pipelines.
CompareStrings(w) ==
  LET bad == {n \in strings[w] : item[batch[w][n]].src # item[batch[w][n]].tgt} IN
  /\ pc[w] = "get"
  /\ Count(w, strings[w] \ bad, bad, {})
  /\ strings' = [strings EXCEPT ![w] = {}]
  /\ pc' = [pc EXCEPT ![w] = "others"]
  /\ UNCHANGED <<dataVars, scanVars, keyChan, batch, others, total, faults, returned>>

\* One key after the other; a call that fails makes the key inconsistent.  But a
\* GET that fails reads as an empty string (must, ToString): when the other side
\* fails too, or is empty, the key is consistent.
CompareOther(w) ==
  /\ pc[w] = "others"
  /\ \E n \in others[w] :
       LET i == item[batch[w][n]] IN
       /\ \A m \in others[w] : n <= m
       /\ others' = [others EXCEPT ![w] = @ \ {n}]
       /\ \/ Fault /\ Count(w, {}, {n}, {})
          \/ i.srcType = "string" /\ Len(i.src) = Len(i.tgt) /\ Fault /\ Count(w, {n}, {}, {})
          \/ /\ IF verifyFullValue(i.srcType, i.src, i.tgt) THEN Count(w, {n}, {}, {})
                ELSE Count(w, {}, {n}, {})
             /\ UNCHANGED faults
  /\ UNCHANGED <<dataVars, scanVars, keyChan, pc, batch, strings, total, returned>>

\* reportProgress sends without blocking, and the next batch begins.
BatchEnds(w) ==
  /\ pc[w] = "others" /\ others[w] = {}
  /\ EndBatch(w)
  /\ UNCHANGED <<dataVars, scanVars, keyChan, counters, faults, returned>>

Worker(w) ==
  \/ TakeKey(w) \/ CompareTypes(w) \/ StringsFail(w) \/ CompareLengths(w) \/ CompareStrings(w)
  \/ CompareOther(w) \/ BatchEnds(w)

\* workerWg.Wait(): Run returns the result; it does not wait for the scanner.
Return ==
  /\ ~returned /\ \A w \in Workers : pc[w] = "done"
  /\ returned' = TRUE
  /\ UNCHANGED <<dataVars, scanVars, keyChan, pc, workVars, counters, faults>>

CheckNext == Scanner \/ (\E w \in Workers : Worker(w)) \/ Return

\* The calls have deadlines, so every goroutine that can go on does.
CheckSpec ==
  /\ CheckInit /\ [][CheckNext]_checkVars
  /\ WF_checkVars(Scanner) /\ WF_checkVars(Return)
  /\ \A w \in Workers : WF_checkVars(Worker(w))

-----------------------------------------------------------------------------
\* Two values of a type are the same: the order counts where it has a meaning.
Same(i) ==
  IF i.srcType \in {"set", "hash"}
  THEN Len(i.src) = Len(i.tgt) /\ Elements(i.src) = Elements(i.tgt)
  ELSE i.src = i.tgt

SameLength(i) == Len(i.src) = Len(i.tgt)

\* What a mode is said to compare (checker.go:19-26; docs/zh/guides/
\* data-validation.md:10-13, 232-239 and 274-280): the types, and the values
\* (full), the lengths (length), the lengths and the TTLs (outline), or the
\* lengths of big values and the whole of the others (smart).
Documented(m, i) ==
  \/ i.tgtType # i.srcType
  \/ m = "full" /\ ~Same(i)
  \/ m = "length" /\ ~SameLength(i)
  \/ m = "outline" /\ (~SameLength(i) \/ i.tgtTTL # i.srcTTL)
  \/ m = "smart" /\ IF Len(i.src) > Threshold THEN ~SameLength(i) ELSE ~Same(i)

\* The types of value for which a mode does what it is said to do.  No mode reads
\* a TTL; outline and smart stop at the types (checker.go:276-300); full compares
\* the lengths of streams, and nothing of a value of a type it does not know.
Kept(m) ==
  CASE m = "full" -> {"string", "list", "set", "hash", "zset"}
    [] m = "length" -> {"string", "list", "set", "hash", "zset", "stream"}
    [] OTHER -> {}

\* If no call failed, every key sent to the channel has been counted with a
\* verdict when Run returns, whatever the batches and the workers; and a check
\* that finds nothing has looked at every key of the source.  No key then has two
\* types, and in the modes full and length no key differs in what the mode is said
\* to compare, unless its type is one the mode does not handle (Kept); a full
\* check has at least compared the lengths of streams.
CleanMeansSame ==
  returned /\ faults = 0 =>
    /\ total = emitted /\ consistent + inconsistent = total
    /\ inconsistent = 0 =>
         /\ scanned = Keys
         /\ \A k \in Keys :
              /\ item[k].tgtType = item[k].srcType
              /\ item[k].srcType \in Kept(mode) => ~Documented(mode, item[k])
              /\ mode = "full" /\ item[k].srcType = "stream" => SameLength(item[k])

\* If no call failed, a key is reported only when it differs in what the mode is
\* said to compare, or has gone from both sides since the scan (checker.go:263).
\* One mode reports more: length sends every key through verifyFullValue
\* (checker.go:276-300), so values of one length that differ are reported too,
\* against "value length comparison" (checker.go:23).
NoFalseAlarm ==
  faults = 0 =>
    \A k \in alarms :
      \/ Documented(mode, item[k]) \/ item[k].tgtType = "none"
      \/ mode = "length" /\ ~Same(item[k])

\* A call that fails costs at most the verdicts of one batch: a failed pipeline
\* takes its keys out of the counts (checker.go:238, 330, 371) and the workers go
\* on.  Only a failed SCAN, which ends the check as if there were no more keys
\* (checker.go:177), leaves keys of the source out.
OneBatchPerFault ==
  returned =>
    /\ emitted <= consistent + inconsistent + BatchSize * faults
    /\ scanned # Keys => faults > 0

\* Run returns, with calls that fail or without: the channel is closed on every
\* path of scanSource and the workers drain it.
RunReturns == <>returned
=============================================================================
