--------------------------- MODULE CheckerProofs ---------------------------
(***************************************************************************)
(* The check, for any keys, values, number of workers, batch, channel and  *)
(* chunk size.  Its result is three atomic counters and a set of reports,  *)
(* so the invariant counts: every key sent is in the channel, in a batch,  *)
(* or in the total, and every key of the total waits for its verdict or    *)
(* is in one of the two verdicts.                                          *)
(***************************************************************************)
EXTENDS Checker, FiniteSetTheorems, TLAPS

\* The state is well formed; a batch is handed over when it is full.
CheckTypeOK ==
  /\ mode \in Modes /\ item \in Data
  /\ scanned \in SUBSET Keys
  /\ scan \in {"scanning", "done", "failed"} /\ keysClosed = (scan # "scanning")
  /\ keyChan \in Seq(Keys)
  /\ pc \in [Workers -> {"take", "types", "strings", "get", "others", "done"}]
  /\ batch \in [Workers -> Seq(Keys)]
  /\ strings \in [Workers -> SUBSET (1 .. BatchSize)]
  /\ others \in [Workers -> SUBSET (1 .. BatchSize)]
  /\ emitted \in Nat /\ total \in Nat /\ consistent \in Nat /\ inconsistent \in Nat
  /\ alarms \in SUBSET Keys
  /\ faults \in Nat /\ returned \in BOOLEAN

\* A key whose value is compared has equal types, in a mode that compares values.
Compared(i) == i.srcType = i.tgtType /\ i.tgtType # "none" /\ mode \in {"full", "length"}

\* What worker w holds, where it is.
Holds(w) ==
  /\ Len(batch[w]) <= BatchSize
  /\ pc[w] = "take" => Len(batch[w]) < BatchSize
  /\ strings[w] \subseteq 1 .. Len(batch[w]) /\ others[w] \subseteq 1 .. Len(batch[w])
  /\ strings[w] \cap others[w] = {}
  /\ \A n \in strings[w] \cup others[w] : Compared(item[batch[w][n]])
  /\ \A n \in strings[w] : item[batch[w][n]].srcType = "string"
  /\ pc[w] \in {"take", "types", "done"} => strings[w] = {} /\ others[w] = {}
  /\ pc[w] = "others" => strings[w] = {}
  /\ pc[w] = "done" => batch[w] = <<>> /\ keysClosed /\ keyChan = <<>>

\* The keys of the batch of worker w are not in the total yet.
Untold(w) == pc[w] \in {"take", "types"}

\* The places of the batches whose keys have not been counted in the total, and
\* those whose keys have been and wait for a verdict.
Slots == Workers \X (1 .. BatchSize)
Untyped == {s \in Slots : Untold(s[1]) /\ s[2] <= Len(batch[s[1]])}
Unjudged == {s \in Slots : s[2] \in strings[s[1]] \cup others[s[1]]}

\* e keys sent, t in the total, c + i with a verdict, k in the channel, u not typed
\* yet and j not judged yet: the keys in none of these were lost, and the f calls
\* that failed lost no more than a batch each.
Balanced(e, t, c, i, k, u, j, f) ==
  /\ t + k + u <= e /\ c + i + j <= t
  /\ e <= c + i + j + k + u + BatchSize * f

\* Every key sent is in the channel, in a batch, or counted; every key counted
\* waits for its verdict or has had it; but for what failed calls lost.
Counted ==
  /\ IsFiniteSet(Untyped) /\ IsFiniteSet(Unjudged)
  /\ Balanced(emitted, total, consistent, inconsistent, Len(keyChan),
              Cardinality(Untyped), Cardinality(Unjudged), faults)

\* The key is under way.
Pending(k) ==
  \/ \E x \in 1 .. Len(keyChan) : keyChan[x] = k
  \/ \E w \in Workers : \E n \in 1 .. Len(batch[w]) :
       batch[w][n] = k /\ (Untold(w) \/ n \in strings[w] \cup others[w])

\* What the verdicts turn on: the types, and in the modes full and length the
\* values of the five basic types, and the lengths of streams.
Differs(i) ==
  \/ i.tgtType # i.srcType
  \/ /\ mode \in {"full", "length"}
     /\ \/ i.srcType = "stream" /\ Len(i.src) # Len(i.tgt)
        \/ i.srcType \in {"string", "list", "set", "hash", "zset"} /\ ~Same(i)

\* Every key scanned is under way, reported, or the same on both sides.
Judged ==
  /\ \A k \in scanned : Pending(k) \/ k \in alarms \/ ~Differs(item[k])
  /\ alarms # {} => inconsistent > 0
  /\ scan # "scanning" => scanned = Keys

\* What was reported differs, or has gone.
TrueAlarms == \A k \in alarms : Differs(item[k]) \/ item[k].tgtType = "none"

\* The inductive invariant.
CheckInv ==
  /\ CheckTypeOK
  /\ \A w \in Workers : Holds(w)
  /\ returned => \A w \in Workers : pc[w] = "done"
  /\ Counted
  /\ faults = 0 => Judged /\ TrueAlarms

-----------------------------------------------------------------------------
(* What the comparison of two values tells *)

\* An entry of Data.
ItemType ==
  [srcType : STRING, tgtType : STRING, src : Seq(Nat), tgt : Seq(Nat), srcTTL : Nat, tgtTTL : Nat]

\* What the two sides hold for a key is an entry of Data.
LEMMA ItemTyped == ASSUME CheckTypeOK, NEW k \in Keys PROVE item[k] \in ItemType
BY CheckerAssumption, Zenon DEF CheckTypeOK, ItemType

\* Multiples of a chunk.
LEMMA Multiple == ASSUME NEW c \in Nat \ {0}, NEW q \in Nat PROVE c * q \in Nat /\ (c * q) % c = 0
OBVIOUS

\* Every index of a list falls in the chunk that starts at a multiple of Chunk.
LEMMA ChunkOf ==
  ASSUME NEW x \in Nat
  PROVE  \E j \in 0 .. x : j % Chunk = 0 /\ x < j + Chunk
<1>1. Chunk \in Nat \ {0}
  BY CheckerAssumption, Zenon
<1>2. PICK q \in Nat : Chunk * q <= x /\ x < Chunk * q + Chunk
  <2>1. x \div Chunk \in Nat
    BY <1>1
  <2>2. Chunk * (x \div Chunk) <= x /\ x < Chunk * (x \div Chunk) + Chunk
    BY <1>1
  <2> QED BY <2>1, <2>2, Zenon
<1>3. Chunk * q \in Nat /\ (Chunk * q) % Chunk = 0
  BY <1>1, Multiple, Zenon
<1>4. Chunk * q \in 0 .. x
  BY <1>2, <1>3
<1> QED BY <1>2, <1>3, <1>4, Zenon

\* compareList, chunk by chunk, compares the whole of two lists of one length.
LEMMA ChunksCover ==
  ASSUME NEW a \in Seq(Nat), NEW b \in Seq(Nat), Len(a) = Len(b),
         \A i \in {j \in 0 .. Len(a) - 1 : j % Chunk = 0} :
           LRANGE(a, i, i + Chunk - 1) = LRANGE(b, i, i + Chunk - 1)
  PROVE  a = b
<1> SUFFICES ASSUME NEW x \in 1 .. Len(a) PROVE a[x] = b[x]
  OBVIOUS
<1>1. PICK i \in 0 .. x - 1 : i % Chunk = 0 /\ x - 1 < i + Chunk
  BY ChunkOf
<1> DEFINE last == IF i + Chunk - 1 < Len(a) THEN i + Chunk ELSE Len(a)
<1>2. Chunk \in Nat \ {0} /\ i \in Nat /\ last \in Nat /\ i + 1 <= x /\ x <= last /\ last <= Len(a)
  BY <1>1, CheckerAssumption
<1>3. SubSeq(a, i + 1, last) = SubSeq(b, i + 1, last)
  <2>1. i \in 0 .. Len(a) - 1 /\ i % Chunk = 0
    BY <1>1
  <2>2. LRANGE(a, i, i + Chunk - 1) = LRANGE(b, i, i + Chunk - 1)
    BY <2>1, Zenon
  <2>3. (IF i + Chunk - 1 < Len(a) THEN i + Chunk - 1 + 1 ELSE Len(a)) = last
    BY <1>2
  <2> QED BY <2>2, <2>3, Zenon DEF LRANGE
<1>4. ASSUME NEW s \in Seq(Nat), Len(s) = Len(a)
      PROVE  SubSeq(s, i + 1, last)[x - i] = s[x]
  <2> HIDE DEF last
  <2>1. x - i \in 1 .. last - (i + 1) + 1 /\ (i + 1) + (x - i) - 1 = x
    BY <1>2
  <2>2. SubSeq(s, i + 1, last) = [n \in 1 .. last - (i + 1) + 1 |-> s[(i + 1) + n - 1]]
    BY <1>2, <1>4
  <2> QED BY <2>1, <2>2, Zenon
<1> HIDE DEF last
<1>5. SubSeq(a, i + 1, last)[x - i] = a[x] /\ SubSeq(b, i + 1, last)[x - i] = b[x]
  BY <1>4, Zenon
<1> QED BY <1>3, <1>5, Zenon

\* The verdict on a value of equal types is what the mode is able to see.
LEMMA Verdict ==
  ASSUME NEW i \in ItemType, Compared(i)
  PROVE  verifyFullValue(i.srcType, i.src, i.tgt) <=> ~Differs(i)
<1>1. i.src \in Seq(Nat) /\ i.tgt \in Seq(Nat) /\ mode # "smart" /\ mode \in {"full", "length"}
      /\ i.srcType = i.tgtType
  BY Zenon DEF ItemType, Compared
<1>2. compareList(i.src, i.tgt) <=> i.src = i.tgt
  BY <1>1, ChunksCover, Zenon DEF compareList, LengthThen
<1>3. compareString(i.src, i.tgt) <=> i.src = i.tgt
  BY <1>1, Zenon DEF compareString, LengthThen
<1>4. compareZSet(i.src, i.tgt) <=> i.src = i.tgt
  BY <1>1, Zenon DEF compareZSet, LengthThen
<1>5. compareSet(i.src, i.tgt) <=> Len(i.src) = Len(i.tgt) /\ Elements(i.src) = Elements(i.tgt)
  BY <1>1, Zenon DEF compareSet, LengthThen
<1>6. compareHash(i.src, i.tgt) <=> Len(i.src) = Len(i.tgt) /\ Elements(i.src) = Elements(i.tgt)
  BY <1>1, Zenon DEF compareHash, LengthThen
<1>7. CASE i.srcType = "string"
  BY <1>1, <1>3, <1>7, Zenon DEF verifyFullValue, Differs, Same
<1>8. CASE i.srcType = "list"
  BY <1>1, <1>2, <1>8, Zenon DEF verifyFullValue, Differs, Same
<1>9. CASE i.srcType = "set"
  BY <1>1, <1>5, <1>9, Zenon DEF verifyFullValue, Differs, Same
<1>10. CASE i.srcType = "zset"
  BY <1>1, <1>4, <1>10, Zenon DEF verifyFullValue, Differs, Same
<1>11. CASE i.srcType = "hash"
  BY <1>1, <1>6, <1>11, Zenon DEF verifyFullValue, Differs, Same
<1>12. CASE i.srcType = "stream"
  BY <1>1, <1>12, Zenon DEF verifyFullValue, Differs, compareStream
<1>13. CASE i.srcType \notin {"string", "list", "set", "zset", "hash", "stream"}
  BY <1>1, <1>13, Zenon DEF verifyFullValue, Differs
<1> QED BY <1>7, <1>8, <1>9, <1>10, <1>11, <1>12, <1>13, Zenon

-----------------------------------------------------------------------------
(* Counting places *)

\* The places S of worker w.
At(w, S) == {w} \X S

\* As many places of a worker as there are positions.
LEMMA AtCount ==
  ASSUME NEW w, NEW S, IsFiniteSet(S)
  PROVE  IsFiniteSet(At(w, S)) /\ Cardinality(At(w, S)) = Cardinality(S) /\ Cardinality(S) \in Nat
<1>1. IsFiniteSet({w}) /\ Cardinality({w}) = 1
  BY FS_Singleton, Zenon
<1>2. IsFiniteSet(At(w, S)) /\ Cardinality(At(w, S)) = 1 * Cardinality(S)
  BY <1>1, FS_Product, Zenon DEF At
<1>3. Cardinality(S) \in Nat
  BY FS_CardinalityType, Zenon
<1> QED BY <1>2, <1>3

\* The sizes of disjoint finite sets add up.
LEMMA Parted ==
  ASSUME NEW S, IsFiniteSet(S), NEW T, IsFiniteSet(T), S \cap T = {}
  PROVE  IsFiniteSet(S \cup T) /\ Cardinality(S \cup T) = Cardinality(S) + Cardinality(T)
<1>0. /\ IsFiniteSet(S \cup T)
      /\ Cardinality(S \cup T) = Cardinality(S) + Cardinality(T) - Cardinality(S \cap T)
  BY FS_Union, Zenon
<1>1. Cardinality(S \cup T) = Cardinality(S) + Cardinality(T) - 0
  BY <1>0, FS_EmptySet, Zenon
<1>2. Cardinality(S) \in Nat /\ Cardinality(T) \in Nat
  BY FS_CardinalityType, Zenon
<1> QED BY <1>0, <1>1, <1>2

\* New places of one worker add their number to the count.
LEMMA AddPlaces ==
  ASSUME NEW U, IsFiniteSet(U), NEW w, NEW S, IsFiniteSet(S), U \cap At(w, S) = {}
  PROVE  /\ IsFiniteSet(U \cup At(w, S))
         /\ Cardinality(U \cup At(w, S)) = Cardinality(U) + Cardinality(S)
         /\ Cardinality(U) \in Nat /\ Cardinality(S) \in Nat
<1>1. /\ IsFiniteSet(U \cup At(w, S))
      /\ Cardinality(U \cup At(w, S)) = Cardinality(U) + Cardinality(At(w, S))
  BY AtCount, Parted, Zenon
<1> QED BY <1>1, AtCount, FS_CardinalityType, Zenon

\* Places of one worker that are given up take their number from the count.
LEMMA TakePlaces ==
  ASSUME NEW U, IsFiniteSet(U), NEW w, NEW S, IsFiniteSet(S), At(w, S) \subseteq U
  PROVE  /\ IsFiniteSet(U \ At(w, S))
         /\ Cardinality(U) = Cardinality(U \ At(w, S)) + Cardinality(S)
         /\ Cardinality(U \ At(w, S)) \in Nat /\ Cardinality(S) \in Nat
<1> DEFINE V == U \ At(w, S)
<1>1. IsFiniteSet(V)
  BY FS_Difference, Zenon
<1>2. V \cap At(w, S) = {} /\ V \cup At(w, S) = U
  BY Zenon
<1> HIDE DEF V
<1>3. /\ Cardinality(V \cup At(w, S)) = Cardinality(V) + Cardinality(S)
      /\ Cardinality(V) \in Nat /\ Cardinality(S) \in Nat
  BY <1>1, <1>2, AddPlaces, Zenon
<1>4. Cardinality(U) = Cardinality(V) + Cardinality(S)
  BY <1>2, <1>3, Zenon
<1> QED BY <1>1, <1>3, <1>4, Zenon DEF V

\* V is U without the places S of worker w.
Removed(U, w, S, V) == IsFiniteSet(U) /\ IsFiniteSet(S) /\ At(w, S) \subseteq U /\ V = U \ At(w, S)

\* The same, with a name for what is left.
LEMMA RemovePlaces ==
  ASSUME NEW U, NEW w, NEW S, NEW V, Removed(U, w, S, V)
  PROVE  IsFiniteSet(V) /\ Cardinality(U) = Cardinality(V) + Cardinality(S) /\ Cardinality(V) \in Nat
<1>1. IsFiniteSet(U) /\ IsFiniteSet(S) /\ At(w, S) \subseteq U /\ V = U \ At(w, S)
  BY Zenon DEF Removed
<1>2. /\ IsFiniteSet(U \ At(w, S)) /\ Cardinality(U) = Cardinality(U \ At(w, S)) + Cardinality(S)
      /\ Cardinality(U \ At(w, S)) \in Nat
  BY <1>1, TakePlaces, SMTT(20)
<1> QED BY <1>1, <1>2, Zenon

\* A batch of n keys has n positions.
LEMMA PrefixCount == ASSUME NEW n \in Nat PROVE IsFiniteSet(1 .. n) /\ Cardinality(1 .. n) = n
BY FS_Interval

\* There are finitely many places: workers, and positions up to BatchSize.
LEMMA PlacesFinite ==
  ASSUME NEW n \in Nat, NEW S \in SUBSET (1 .. n)
  PROVE  IsFiniteSet(S) /\ Cardinality(S) \in Nat
<1>1. IsFiniteSet(1 .. n)
  BY FS_Interval
<1> QED BY <1>1, FS_Subset, FS_CardinalityType, Zenon

\* A set that is not empty counts for something.
LEMMA SomeBad == ASSUME NEW S, IsFiniteSet(S), S # {} PROVE Cardinality(S) > 0
<1>1. Cardinality(S) # 0 /\ Cardinality(S) \in Nat
  BY FS_EmptySet, FS_CardinalityType, Zenon
<1> QED BY <1>1

-----------------------------------------------------------------------------
(* Keeping the balance *)

\* What f failed calls may lose.
LEMMA Allowed ==
  ASSUME NEW f \in Nat
  PROVE  /\ BatchSize \in Nat /\ BatchSize * f \in Nat /\ BatchSize * 0 = 0
         /\ BatchSize * (f + 1) = BatchSize * f + BatchSize
<1>1. BatchSize \in Nat
  BY CheckerAssumption, Zenon
<1> QED BY <1>1

\* Numbers of keys that are in balance.
Counts(e, t, c, i, k, u, j, f) ==
  /\ e \in Nat /\ t \in Nat /\ c \in Nat /\ i \in Nat
  /\ k \in Nat /\ u \in Nat /\ j \in Nat /\ f \in Nat
  /\ Balanced(e, t, c, i, k, u, j, f)

\* A call that fails without losing a key.
LEMMA BalanceKept ==
  ASSUME NEW e, NEW t, NEW c, NEW i, NEW k, NEW u, NEW j, NEW f, Counts(e, t, c, i, k, u, j, f),
         NEW g \in {f, f + 1}
  PROVE  Balanced(e, t, c, i, k, u, j, g)
<1> DEFINE p == BatchSize * f
           q == BatchSize * g
<1>1. f \in Nat
  BY Zenon DEF Counts
<1>2. p \in Nat /\ BatchSize \in Nat /\ q \in {p, p + BatchSize}
  BY <1>1, Allowed, Zenon
<1>3. /\ e \in Nat /\ t \in Nat /\ c \in Nat /\ i \in Nat /\ k \in Nat /\ u \in Nat /\ j \in Nat
      /\ t + k + u <= e /\ c + i + j <= t /\ e <= c + i + j + k + u + p
  BY Zenon DEF Counts, Balanced
<1> HIDE DEF p, q
<1>4. e <= c + i + j + k + u + q
  BY <1>2, <1>3
<1> QED BY <1>3, <1>4, Zenon DEF Balanced, q

\* A key is sent.
LEMMA BalanceSent ==
  ASSUME NEW e, NEW t, NEW c, NEW i, NEW k, NEW u, NEW j, NEW f, Counts(e, t, c, i, k, u, j, f)
  PROVE  Balanced(e + 1, t, c, i, k + 1, u, j, f)
<1>1. f \in Nat
  BY Zenon DEF Counts
<1> QED BY <1>1, Allowed DEF Counts, Balanced

\* A key goes from the channel to a batch.
LEMMA BalanceTaken ==
  ASSUME NEW e, NEW t, NEW c, NEW i, NEW k, NEW u, NEW j, NEW f, Counts(e, t, c, i, k, u, j, f)
  PROVE  Balanced(e, t, c, i, k - 1, u + 1, j, f)
<1>1. f \in Nat
  BY Zenon DEF Counts
<1> QED BY <1>1, Allowed DEF Counts, Balanced

\* A batch of n keys is typed: o and b have their verdict, l wait for it.
LEMMA BalanceTyped ==
  ASSUME NEW e, NEW t, NEW c, NEW i, NEW k, NEW u, NEW j, NEW f, Counts(e, t, c, i, k, u, j, f),
         NEW v \in Nat, NEW n \in Nat, NEW o \in Nat, NEW b \in Nat, NEW l \in Nat,
         u = v + n, n = o + l + b
  PROVE  Balanced(e, t + n, c + o, i + b, k, v, j + l, f)
<1>1. f \in Nat
  BY Zenon DEF Counts
<1> QED BY <1>1, Allowed DEF Counts, Balanced

\* o and b of the keys that wait for a verdict have it.
LEMMA BalanceJudged ==
  ASSUME NEW e, NEW t, NEW c, NEW i, NEW k, NEW u, NEW j, NEW f, Counts(e, t, c, i, k, u, j, f),
         NEW m \in Nat, NEW o \in Nat, NEW b \in Nat, j = m + (o + b), NEW g \in {f, f + 1}
  PROVE  Balanced(e, t, c + o, i + b, k, u, m, g)
<1> DEFINE p == BatchSize * f
           q == BatchSize * g
<1>1. f \in Nat
  BY Zenon DEF Counts
<1>2. p \in Nat /\ BatchSize \in Nat /\ q \in {p, p + BatchSize}
  BY <1>1, Allowed, Zenon
<1>3. /\ e \in Nat /\ t \in Nat /\ c \in Nat /\ i \in Nat /\ k \in Nat /\ u \in Nat /\ j \in Nat
      /\ t + k + u <= e /\ c + i + j <= t /\ e <= c + i + j + k + u + p
  BY Zenon DEF Counts, Balanced
<1> HIDE DEF p, q
<1>4. /\ (c + o) + (i + b) + m <= t
      /\ e <= (c + o) + (i + b) + m + k + u + q
  BY <1>2, <1>3
<1> QED BY <1>3, <1>4, Zenon DEF Balanced, q

\* A call fails and n + l keys, at most a batch, are forgotten.
LEMMA BalanceLost ==
  ASSUME NEW e, NEW t, NEW c, NEW i, NEW k, NEW u, NEW j, NEW f, Counts(e, t, c, i, k, u, j, f),
         NEW v \in Nat, NEW m \in Nat, NEW n \in Nat, NEW l \in Nat,
         u = v + n, j = m + l, n + l <= BatchSize
  PROVE  Balanced(e, t, c, i, k, v, m, f + 1)
<1> DEFINE p == BatchSize * f
           q == BatchSize * (f + 1)
<1>1. f \in Nat
  BY Zenon DEF Counts
<1>2. p \in Nat /\ BatchSize \in Nat /\ q = p + BatchSize
  BY <1>1, Allowed, Zenon
<1>3. /\ e \in Nat /\ t \in Nat /\ c \in Nat /\ i \in Nat /\ k \in Nat /\ u \in Nat /\ j \in Nat
      /\ t + k + u <= e /\ c + i + j <= t /\ e <= c + i + j + k + u + p
  BY Zenon DEF Counts, Balanced
<1> HIDE DEF p, q
<1>4. t + k + v <= e /\ c + i + m <= t /\ e <= c + i + m + k + v + q
  BY <1>2, <1>3
<1> QED BY <1>4, Zenon DEF Balanced, q

\* The numbers of the state.
LEMMA StateCounts ==
  ASSUME CheckTypeOK, Counted
  PROVE  Counts(emitted, total, consistent, inconsistent, Len(keyChan),
                Cardinality(Untyped), Cardinality(Unjudged), faults)
<1>1. Cardinality(Untyped) \in Nat /\ Cardinality(Unjudged) \in Nat
  BY FS_CardinalityType, Zenon DEF Counted
<1>2. Len(keyChan) \in Nat
  BY DEF CheckTypeOK
<1> QED BY <1>1, <1>2, Zenon DEF Counts, Counted, CheckTypeOK

\* A step that moves no key.
LEMMA CountedAsBefore ==
  ASSUME CheckTypeOK, Counted, faults' \in {faults, faults + 1}, Untyped' = Untyped, Unjudged' = Unjudged,
         emitted' = emitted, total' = total, consistent' = consistent, inconsistent' = inconsistent,
         keyChan' = keyChan
  PROVE  Counted'
<1>1. Balanced(emitted, total, consistent, inconsistent, Len(keyChan),
               Cardinality(Untyped), Cardinality(Unjudged), faults')
  BY StateCounts, BalanceKept, Zenon
<1> QED BY <1>1, Zenon DEF Counted, Balanced

-----------------------------------------------------------------------------
(* The steps *)

\* A worker that nothing happens to holds what it held.
LEMMA HeldAsBefore ==
  ASSUME NEW v \in Workers, Holds(v), mode' = mode, item' = item, keysClosed' = keysClosed,
         pc'[v] = pc[v], batch'[v] = batch[v], strings'[v] = strings[v], others'[v] = others[v],
         keyChan' = keyChan \/ pc[v] # "done"
  PROVE  Holds(v)'
BY ZenonT(40) DEF Holds, Compared

\* At the start nothing has been sent, held or counted.
LEMMA CheckInitInv == CheckInit => CheckInv
<1> SUFFICES ASSUME CheckInit PROVE CheckInv
  BY Zenon
<1>1. CheckTypeOK
  <2>1. keysClosed = (scan # "scanning") /\ returned \in BOOLEAN
    BY Zenon DEF CheckInit
  <2> QED BY <2>1, CheckerAssumption DEF CheckInit, CheckTypeOK
<1>2. ASSUME NEW w \in Workers PROVE Holds(w)
  BY CheckerAssumption DEF CheckInit, Holds
<1>3. Untyped = {} /\ Unjudged = {}
  BY CheckerAssumption DEF CheckInit, Untyped, Unjudged, Slots
<1>4. Counted
  <2>1. /\ IsFiniteSet(Untyped) /\ IsFiniteSet(Unjudged)
        /\ Cardinality(Untyped) = 0 /\ Cardinality(Unjudged) = 0
    BY <1>3, FS_EmptySet, Zenon
  <2>2. Balanced(0, 0, 0, 0, 0, 0, 0, 0)
    BY Allowed DEF Balanced
  <2>3. Len(keyChan) = 0
    BY DEF CheckInit
  <2> QED BY <2>1, <2>2, <2>3, Zenon DEF Counted, CheckInit
<1>5. Judged /\ TrueAlarms /\ ~returned
  BY Zenon DEF CheckInit, Judged, TrueAlarms
<1> QED BY <1>1, <1>2, <1>4, <1>5, Zenon DEF CheckInv

\* A step that judges some of the keys worker w has before it.
LEMMA JudgeCount ==
  ASSUME CheckTypeOK, \A v \in Workers : Holds(v), Counted,
         NEW w \in Workers, NEW ok, NEW bad, NEW gone, Count(w, ok, bad, gone),
         ok \cup bad \subseteq strings[w] \cup others[w], ok \cap bad = {},
         strings'[w] \cup others'[w] = (strings[w] \cup others[w]) \ (ok \cup bad),
         \A v \in Workers \ {w} : strings'[v] = strings[v] /\ others'[v] = others[v],
         \A v \in Workers : Untold(v)' = Untold(v),
         faults' \in {faults, faults + 1}, UNCHANGED <<keyChan, batch, emitted, total>>
  PROVE  Counted'
<1> DEFINE S == ok \cup bad
<1>1. S \subseteq 1 .. Len(batch[w]) /\ S \subseteq 1 .. BatchSize /\ Len(batch[w]) \in Nat
  BY DEF CheckTypeOK, Holds
<1>2. /\ IsFiniteSet(ok) /\ IsFiniteSet(bad) /\ IsFiniteSet(S)
      /\ Cardinality(ok) \in Nat /\ Cardinality(bad) \in Nat
  BY <1>1, PlacesFinite, CheckerAssumption, Zenon
<1>3. Cardinality(S) = Cardinality(ok) + Cardinality(bad)
  BY <1>2, Parted, Zenon
<1>4. Untyped' = Untyped
  BY Zenon DEF Untyped, Slots
<1>5. At(w, S) \subseteq Unjudged /\ Unjudged' = Unjudged \ At(w, S)
  BY <1>1 DEF Unjudged, Slots, At
<1>6. /\ IsFiniteSet(Unjudged') /\ Cardinality(Unjudged) = Cardinality(Unjudged') + Cardinality(S)
      /\ Cardinality(Unjudged') \in Nat
  <2>1. IsFiniteSet(Unjudged)
    BY Zenon DEF Counted
  <2> HIDE DEF S
  <2>2. Removed(Unjudged, w, S, Unjudged')
    BY <1>2, <1>5, <2>1, Zenon DEF Removed
  <2> QED BY <2>2, RemovePlaces, Zenon
<1>7. Balanced(emitted, total, consistent + Cardinality(ok), inconsistent + Cardinality(bad), Len(keyChan),
               Cardinality(Untyped), Cardinality(Unjudged'), faults')
  <2>1. Cardinality(Unjudged) = Cardinality(Unjudged') + (Cardinality(ok) + Cardinality(bad))
    BY <1>3, <1>6, Zenon
  <2>2. Counts(emitted, total, consistent, inconsistent, Len(keyChan),
               Cardinality(Untyped), Cardinality(Unjudged), faults)
    BY StateCounts, Zenon
  <2> HIDE DEF S
  <2> QED BY <1>2, <1>6, <2>1, <2>2, BalanceJudged, SMTT(20)
<1>8. consistent' = consistent + Cardinality(ok) /\ inconsistent' = inconsistent + Cardinality(bad)
  BY Zenon DEF Count
<1> QED BY <1>4, <1>6, <1>7, <1>8, Zenon DEF Counted, Balanced

\* The keys it judges without a failed call are judged rightly.
LEMMA JudgeStep ==
  ASSUME CheckTypeOK, \A v \in Workers : Holds(v), Judged, TrueAlarms,
         NEW w \in Workers, NEW ok, NEW bad, NEW gone, Count(w, ok, bad, gone),
         ok \cup bad \subseteq strings[w] \cup others[w],
         strings'[w] \cup others'[w] = (strings[w] \cup others[w]) \ (ok \cup bad),
         \A v \in Workers \ {w} : strings'[v] = strings[v] /\ others'[v] = others[v],
         \A v \in Workers : Untold(v)' = Untold(v),
         \A n \in ok : ~Differs(item[batch[w][n]]),
         \A n \in bad : Differs(item[batch[w][n]]),
         UNCHANGED <<mode, item, scanned, scan, keyChan, batch>>
  PROVE  Judged' /\ TrueAlarms'
<1> DEFINE S == ok \cup bad
<1>1. S \subseteq 1 .. BatchSize
  BY DEF CheckTypeOK, Holds
<1>2. IsFiniteSet(bad) /\ Cardinality(bad) \in Nat
  BY <1>1, PlacesFinite, CheckerAssumption, Zenon
<1>8. Judged'
  <2>1. ASSUME NEW k \in scanned PROVE Pending(k)' \/ k \in alarms' \/ ~Differs(item[k])'
    <3>1. CASE k \in alarms \/ ~Differs(item[k])
      BY <3>1, Zenon DEF Count, Differs, Same
    <3>2. CASE \E x \in 1 .. Len(keyChan) : keyChan[x] = k
      BY <3>2, Zenon DEF Pending
    <3>3. CASE \E v \in Workers : \E n \in 1 .. Len(batch[v]) :
                 batch[v][n] = k /\ (Untold(v) \/ n \in strings[v] \cup others[v])
      <4>0. PICK v \in Workers : \E n \in 1 .. Len(batch[v]) :
                 batch[v][n] = k /\ (Untold(v) \/ n \in strings[v] \cup others[v])
        BY <3>3, Zenon
      <4>1. PICK n \in 1 .. Len(batch[v]) :
                 batch[v][n] = k /\ (Untold(v) \/ n \in strings[v] \cup others[v])
        BY <4>0, Zenon
      <4>2. CASE Untold(v) \/ v # w \/ n \notin S
        <5>1. Untold(v)' \/ n \in strings'[v] \cup others'[v]
          BY <4>1, <4>2, Zenon
        <5> QED BY <4>1, <5>1, Zenon DEF Pending
      <4>3. CASE v = w /\ n \in ok
        BY <4>1, <4>3, Zenon DEF Differs, Same
      <4>4. CASE v = w /\ n \in bad
        BY <4>1, <4>4, Zenon DEF Count
      <4> QED BY <4>2, <4>3, <4>4, Zenon
    <3> QED BY <3>1, <3>2, <3>3, Zenon DEF Judged, Pending
  <2>2. ASSUME alarms' # {} PROVE inconsistent' > 0
    <3>1. inconsistent' = inconsistent + Cardinality(bad) /\ inconsistent \in Nat
      BY Zenon DEF Count, CheckTypeOK
    <3>2. CASE bad # {}
      BY <1>2, <3>1, <3>2, SomeBad
    <3>3. CASE bad = {}
      <4>1. alarms # {}
        BY <2>2, <3>3, Zenon DEF Count
      <4> QED BY <1>2, <3>1, <4>1 DEF Judged
    <3> QED BY <3>2, <3>3, Zenon
  <2> QED BY <2>1, <2>2, Zenon DEF Judged
<1>9. TrueAlarms'
  <2>1. \A k \in alarms' : k \in alarms \/ \E n \in bad : k = batch[w][n]
    BY Zenon DEF Count
  <2>2. \A k : Differs(item[k])' <=> Differs(item[k])
    BY Zenon DEF Differs, Same
  <2> QED BY <2>1, <2>2, ZenonT(40) DEF TrueAlarms
<1> QED BY <1>8, <1>9, Zenon

\* scanSourceKeys sends a key: it is one more in the channel.
LEMMA ScanKeyInv == ASSUME CheckInv, NEW k \in Keys, ScanKey(k) PROVE CheckInv'
<1>0. /\ CheckTypeOK /\ scan = "scanning" /\ ~keysClosed /\ \A w \in Workers : Holds(w)
      /\ faults' = faults /\ returned' = returned /\ pc' = pc /\ batch' = batch
      /\ strings' = strings /\ others' = others /\ keysClosed' = keysClosed /\ item' = item /\ mode' = mode
  BY Zenon DEF CheckInv, ScanKey, CheckTypeOK, dataVars, workVars
<1>1. CheckTypeOK'
  BY <1>0 DEF ScanKey, CheckTypeOK, counters
<1>2. ASSUME NEW w \in Workers PROVE Holds(w)'
  BY <1>0, Zenon DEF Holds, Compared
<1>3. Len(keyChan') = Len(keyChan) + 1 /\ keyChan'[Len(keyChan) + 1] = k /\ Len(keyChan) \in Nat
      /\ \A x \in 1 .. Len(keyChan) : keyChan'[x] = keyChan[x]
  BY <1>0 DEF ScanKey, CheckTypeOK
<1>4. Untyped' = Untyped /\ Unjudged' = Unjudged
  BY <1>0, Zenon DEF Untyped, Unjudged, Untold
<1>6. Counted'
  <2>1. Counted /\ emitted' = emitted + 1
    BY Zenon DEF CheckInv, ScanKey
  <2>2. Balanced(emitted + 1, total, consistent, inconsistent, Len(keyChan) + 1,
                 Cardinality(Untyped), Cardinality(Unjudged), faults)
    BY <1>0, <2>1, StateCounts, BalanceSent, Zenon
  <2>3. total' = total /\ consistent' = consistent /\ inconsistent' = inconsistent
    BY Zenon DEF ScanKey, counters
  <2> QED BY <1>0, <1>3, <1>4, <2>1, <2>2, <2>3, Zenon DEF Counted, Balanced
<1>5. ASSUME faults' = 0 PROVE Judged' /\ TrueAlarms'
  <2>0. Judged /\ TrueAlarms /\ faults = 0
    BY <1>0, <1>5, Zenon DEF CheckInv
  <2>2. ASSUME NEW j \in scanned' PROVE Pending(j)' \/ j \in alarms' \/ ~Differs(item[j])'
    <3>1. CASE j = k
      BY <1>3, <3>1 DEF Pending
    <3>2. CASE j \in scanned /\ (j \in alarms \/ ~Differs(item[j]))
      BY <1>0, <3>2, Zenon DEF ScanKey, counters, Differs, Same
    <3>3. CASE Pending(j)
      BY <1>0, <1>3, <3>3 DEF Pending, Untold
    <3> QED BY <2>0, <3>1, <3>2, <3>3, Zenon DEF ScanKey, Judged
  <2>3. Judged'
    BY <1>0, <2>0, <2>2, Zenon DEF Judged, ScanKey, counters
  <2>4. TrueAlarms'
    BY <1>0, <2>0, Zenon DEF TrueAlarms, ScanKey, counters, Differs, Same
  <2> QED BY <2>3, <2>4, Zenon
<1> QED BY <1>0, <1>1, <1>2, <1>5, <1>6, Zenon DEF CheckInv

\* The end of the SCAN closes the channel, having seen every key unless it failed.
LEMMA ScanEndsInv == ASSUME CheckInv, ScanEnds PROVE CheckInv'
<1>0. /\ CheckTypeOK /\ scan = "scanning" /\ ~keysClosed /\ \A w \in Workers : Holds(w)
      /\ returned' = returned /\ pc' = pc /\ batch' = batch /\ scanned' = scanned /\ emitted' = emitted
      /\ strings' = strings /\ others' = others /\ keysClosed' /\ item' = item /\ mode' = mode
      /\ keyChan' = keyChan /\ counters' = counters
  BY Zenon DEF CheckInv, ScanEnds, CheckTypeOK, dataVars, workVars
<1>1. CheckTypeOK'
  <2>1. scan' \in {"done", "failed"} /\ faults' \in Nat
    BY <1>0 DEF ScanEnds, Fault, CheckTypeOK
  <2>2. keysClosed' = (scan' # "scanning")
    BY <1>0, <2>1, Zenon DEF ScanEnds
  <2> QED BY <1>0, <2>1, <2>2, Zenon DEF CheckTypeOK, counters
<1>2. ASSUME NEW w \in Workers PROVE Holds(w)'
  BY <1>0, Zenon DEF Holds, Compared
<1>3. ASSUME faults' = 0 PROVE Judged' /\ TrueAlarms'
  <2>1. faults = 0 /\ scanned = Keys
    BY <1>0, <1>3 DEF ScanEnds, Fault, CheckTypeOK
  <2>2. Judged /\ TrueAlarms
    BY <2>1, Zenon DEF CheckInv
  <2> QED BY <1>0, <2>1, <2>2, ZenonT(40)
          DEF Judged, TrueAlarms, Pending, Untold, Differs, Same, counters
<1>4. Counted'
  <2>1. Untyped' = Untyped /\ Unjudged' = Unjudged /\ faults' \in {faults, faults + 1} /\ Counted
    BY <1>0, Zenon DEF CheckInv, ScanEnds, Fault, Untyped, Unjudged, Untold
  <2> QED BY <1>0, <2>1, CountedAsBefore, Zenon DEF counters
<1> QED BY <1>0, <1>1, <1>2, <1>3, <1>4, Zenon DEF CheckInv

\* A key goes from the channel to the end of a batch.
LEMMA TakeOneInv ==
  ASSUME CheckInv, NEW w \in Workers, TakeKey(w), keyChan # <<>>
  PROVE  CheckInv'
<1> DEFINE n == Len(batch[w]) + 1
<1>0. /\ CheckTypeOK /\ \A v \in Workers : Holds(v)
      /\ pc[w] = "take" /\ keyChan' = Tail(keyChan)
      /\ batch' = [batch EXCEPT ![w] = Append(@, Head(keyChan))]
      /\ pc' = [pc EXCEPT ![w] = IF n >= BatchSize THEN "types" ELSE "take"]
      /\ mode' = mode /\ item' = item /\ scanned' = scanned /\ scan' = scan /\ keysClosed' = keysClosed
      /\ emitted' = emitted /\ strings' = strings /\ others' = others /\ counters' = counters
      /\ faults' = faults /\ returned' = returned
  BY Zenon DEF CheckInv, TakeKey, dataVars, scanVars
<1>1. CheckTypeOK'
  BY <1>0 DEF CheckTypeOK, counters
<1>2. /\ Len(batch'[w]) = n /\ batch'[w][n] = Head(keyChan) /\ n \in 1 .. BatchSize /\ Len(batch[w]) \in Nat
      /\ \A x \in 1 .. Len(batch[w]) : batch'[w][x] = batch[w][x]
      /\ \A v \in Workers \ {w} : batch'[v] = batch[v] /\ pc'[v] = pc[v]
  BY <1>0, CheckerAssumption DEF CheckTypeOK, Holds
<1>3. pc'[w] \in {"take", "types"} /\ (pc'[w] = "take" => n < BatchSize)
  BY <1>0, <1>2, CheckerAssumption DEF CheckTypeOK
<1>4. ASSUME NEW v \in Workers PROVE Holds(v)'
  <2>1. CASE v = w
    <3>1. strings[w] = {} /\ others[w] = {} /\ Len(batch'[w]) <= BatchSize
      BY <1>0, <1>2, CheckerAssumption DEF Holds
    <3> QED BY <1>0, <1>2, <1>3, <2>1, <3>1 DEF Holds
  <2>2. CASE v # w
    <3>1. pc[v] # "done"
      BY <1>0, Zenon DEF Holds
    <3> QED BY <1>0, <1>2, <2>2, <3>1, HeldAsBefore, Zenon
  <2> QED BY <2>1, <2>2, Zenon
<1>7. Counted'
  <2>0. Counted
    BY Zenon DEF CheckInv
  <2>1. Unjudged' = Unjudged
    BY <1>0, Zenon DEF Unjudged
  <2> DEFINE new == {n}
  <2>2. Untyped' = Untyped \cup At(w, new)
    BY <1>0, <1>2, <1>3 DEF Untyped, Untold, Slots, At
  <2>3. Untyped \cap At(w, new) = {}
    BY <1>2 DEF Untyped, At
  <2>4. IsFiniteSet(Untyped) /\ IsFiniteSet(new) /\ Cardinality(new) = 1
    BY <2>0, FS_Singleton, Zenon DEF Counted
  <2> HIDE DEF new
  <2>5. /\ IsFiniteSet(Untyped \cup At(w, new))
        /\ Cardinality(Untyped \cup At(w, new)) = Cardinality(Untyped) + 1
    BY <2>3, <2>4, AddPlaces, SMTT(60)
  <2>6. /\ IsFiniteSet(Untyped') /\ Cardinality(Untyped') = Cardinality(Untyped) + 1
        /\ IsFiniteSet(Unjudged') /\ Cardinality(Unjudged') = Cardinality(Unjudged)
    BY <2>0, <2>1, <2>2, <2>5, Zenon DEF Counted
  <2>7. Len(keyChan') = Len(keyChan) - 1
    BY <1>0 DEF CheckTypeOK
  <2>8. /\ emitted' = emitted /\ total' = total /\ consistent' = consistent /\ inconsistent' = inconsistent
        /\ faults' = faults
    BY <1>0, Zenon DEF counters
  <2>9. Balanced(emitted, total, consistent, inconsistent, Len(keyChan) - 1,
                 Cardinality(Untyped) + 1, Cardinality(Unjudged), faults)
    BY <1>0, <2>0, StateCounts, BalanceTaken, Zenon
  <2> QED BY <2>6, <2>7, <2>8, <2>9, Zenon DEF Counted, Balanced
<1>5. ASSUME faults' = 0 PROVE Judged' /\ TrueAlarms'
  <2>0. Judged /\ TrueAlarms /\ faults = 0
    BY <1>0, <1>5, Zenon DEF CheckInv
  <2>2. ASSUME NEW j \in scanned PROVE Pending(j)' \/ j \in alarms' \/ ~Differs(item[j])'
    <3>1. CASE j \in alarms \/ ~Differs(item[j])
      BY <1>0, <3>1, Zenon DEF counters, Differs, Same
    <3>2. CASE \E x \in 1 .. Len(keyChan) : keyChan[x] = j
      <4>1. PICK x \in 1 .. Len(keyChan) : keyChan[x] = j
        BY <3>2, Zenon
      <4>2. CASE x = 1
        <5>1. batch'[w][n] = j
          BY <1>0, <1>2, <4>1, <4>2 DEF CheckTypeOK
        <5> QED BY <1>2, <1>3, <5>1 DEF Pending, Untold
      <4>3. CASE x # 1
        <5>1. x - 1 \in 1 .. Len(keyChan') /\ keyChan'[x - 1] = j
          BY <1>0, <4>1, <4>3 DEF CheckTypeOK
        <5> QED BY <5>1, Zenon DEF Pending
      <4> QED BY <4>2, <4>3, Zenon
    <3>3. CASE \E v \in Workers : \E x \in 1 .. Len(batch[v]) :
                 batch[v][x] = j /\ (Untold(v) \/ x \in strings[v] \cup others[v])
      <4>1. PICK v \in Workers : \E x \in 1 .. Len(batch[v]) :
                 batch[v][x] = j /\ (Untold(v) \/ x \in strings[v] \cup others[v])
        BY <3>3, Zenon
      <4>2. PICK x \in 1 .. Len(batch[v]) :
                 batch[v][x] = j /\ (Untold(v) \/ x \in strings[v] \cup others[v])
        BY <4>1, Zenon
      <4>3. /\ x \in 1 .. Len(batch'[v]) /\ batch'[v][x] = j
            /\ Untold(v)' \/ x \in strings'[v] \cup others'[v]
        BY <1>0, <1>2, <1>3, <4>2 DEF Untold
      <4> QED BY <4>3, Zenon DEF Pending
    <3> QED BY <2>0, <3>1, <3>2, <3>3, Zenon DEF Judged, Pending
  <2>3. Judged' /\ TrueAlarms'
    BY <1>0, <2>0, <2>2, Zenon DEF Judged, TrueAlarms, counters, Differs, Same
  <2> QED BY <2>3, Zenon
<1>6. returned' => \A v \in Workers : pc'[v] = "done"
  BY <1>0, Zenon DEF CheckInv
<1> QED BY <1>1, <1>4, <1>5, <1>6, <1>7, Zenon DEF CheckInv

\* The channel is closed and empty: the worker ends, or processes what it has.
LEMMA TakeNoneInv ==
  ASSUME CheckInv, NEW w \in Workers, TakeKey(w), keyChan = <<>>
  PROVE  CheckInv'
<1>0. /\ CheckTypeOK /\ \A v \in Workers : Holds(v)
      /\ pc[w] = "take" /\ keysClosed
      /\ keyChan' = keyChan /\ batch' = batch
      /\ pc' = [pc EXCEPT ![w] = IF batch[w] # <<>> THEN "types" ELSE "done"]
      /\ mode' = mode /\ item' = item /\ scanned' = scanned /\ scan' = scan /\ keysClosed' = keysClosed
      /\ emitted' = emitted /\ strings' = strings /\ others' = others /\ counters' = counters
      /\ faults' = faults /\ returned' = returned
  BY Zenon DEF CheckInv, TakeKey, dataVars, scanVars
<1>1. CheckTypeOK'
  BY <1>0, Zenon DEF CheckTypeOK, counters
<1>2. /\ pc'[w] = IF batch[w] # <<>> THEN "types" ELSE "done"
      /\ \A v \in Workers \ {w} : pc'[v] = pc[v]
  BY <1>0, Zenon DEF CheckTypeOK
<1>3. ASSUME NEW v \in Workers PROVE Holds(v)'
  <2>1. CASE v = w
    <3>1. strings[w] = {} /\ others[w] = {} /\ Len(batch[w]) <= BatchSize
      BY <1>0, Zenon DEF Holds
    <3> QED BY <1>0, <1>2, <2>1, <3>1 DEF Holds
  <2>2. CASE v # w
    BY <1>0, <1>2, <2>2, Zenon DEF Holds, Compared
  <2> QED BY <2>1, <2>2, Zenon
<1>4. ASSUME NEW v \in Workers, NEW x \in 1 .. Len(batch[v]) PROVE Untold(v)' = Untold(v)
  <2>1. v = w => batch[v] # <<>>
    BY <1>0 DEF CheckTypeOK
  <2>2. CASE v = w
    BY <1>0, <1>2, <2>1, <2>2 DEF Untold
  <2>3. CASE v # w
    BY <1>2, <2>3, Zenon DEF Untold
  <2> QED BY <2>2, <2>3, Zenon
<1>7. Counted'
  <2>0. Counted
    BY Zenon DEF CheckInv
  <2>1. Unjudged' = Unjudged
    BY <1>0, Zenon DEF Unjudged
  <2>2. Untyped' = Untyped
    <3>1. ASSUME NEW s \in Slots, s[2] <= Len(batch[s[1]]) PROVE Untold(s[1])' = Untold(s[1])
      <4>1. s[1] \in Workers /\ s[2] \in 1 .. Len(batch[s[1]])
        BY <1>0, <3>1 DEF Slots, CheckTypeOK
      <4> QED BY <1>4, <4>1, Zenon
    <3> QED BY <1>0, <3>1, Zenon DEF Untyped
  <2> QED BY <1>0, <2>0, <2>1, <2>2, CountedAsBefore, Zenon DEF counters
<1>5. ASSUME faults' = 0 PROVE Judged' /\ TrueAlarms'
  <2>0. Judged /\ TrueAlarms /\ faults = 0
    BY <1>0, <1>5, Zenon DEF CheckInv
  <2>4. ASSUME NEW j \in Keys, Pending(j) PROVE Pending(j)'
    BY <1>0, <1>4, <2>4, Zenon DEF Pending
  <2>5. Judged' /\ TrueAlarms'
    <3>1. scanned \subseteq Keys
      BY <1>0, Zenon DEF CheckTypeOK
    <3> QED BY <1>0, <2>0, <2>4, <3>1, Zenon DEF Judged, TrueAlarms, counters, Differs, Same
  <2> QED BY <2>5, Zenon
<1>6. returned' => \A v \in Workers : pc'[v] = "done"
  BY <1>0, Zenon DEF CheckInv
<1> QED BY <1>1, <1>3, <1>5, <1>6, <1>7, Zenon DEF CheckInv

\* An early return: what the batch held is in no count.
LEMMA EarlyReturnInv ==
  ASSUME CheckInv, NEW w \in Workers, Fault, EndBatch(w), pc[w] = "types",
         UNCHANGED <<dataVars, scanVars, keyChan, counters, returned>>
  PROVE  CheckInv'
<1>0. CheckTypeOK /\ (\A v \in Workers : Holds(v)) /\ faults' # 0 /\ faults' \in Nat
  BY DEF CheckInv, CheckTypeOK, Fault
<1>1. CheckTypeOK'
  BY <1>0 DEF CheckTypeOK, EndBatch, dataVars, scanVars, counters
<1>2. ASSUME NEW v \in Workers PROVE Holds(v)'
  <2>0. /\ item' = item /\ mode' = mode /\ keyChan' = keyChan /\ keysClosed' = keysClosed
    BY Zenon DEF dataVars, scanVars
  <2>1. CASE v = w
    BY <1>0, <2>1, CheckerAssumption DEF CheckTypeOK, Holds, EndBatch
  <2>2. CASE v # w
    <3>1. /\ pc'[v] = pc[v] /\ batch'[v] = batch[v]
          /\ strings'[v] = strings[v] /\ others'[v] = others[v]
      BY <1>0, <2>2, Zenon DEF EndBatch, CheckTypeOK
    <3> QED BY <1>0, <2>0, <3>1, ZenonT(40) DEF Holds, Compared
  <2> QED BY <2>1, <2>2, Zenon
<1>3. returned' => \A v \in Workers : pc'[v] = "done"
  <2>1. "types" # "done"
    BY Zenon
  <2> QED BY <2>1, Zenon DEF CheckInv
<1>4. Counted'
  <2> DEFINE all == 1 .. Len(batch[w])
  <2>0. Counted /\ faults' = faults + 1 /\ strings[w] = {} /\ others[w] = {} /\ Len(batch[w]) <= BatchSize
    BY <1>0, Zenon DEF CheckInv, Fault, Holds
  <2>1. /\ pc'[w] = "take" /\ batch'[w] = <<>> /\ strings'[w] = {} /\ others'[w] = {}
        /\ \A v \in Workers \ {w} : /\ pc'[v] = pc[v] /\ batch'[v] = batch[v]
                                    /\ strings'[v] = strings[v] /\ others'[v] = others[v]
    BY <1>0, Zenon DEF EndBatch, CheckTypeOK
  <2>2. Unjudged' = Unjudged
    BY <2>0, <2>1 DEF Unjudged, Slots
  <2>3. Len(batch[w]) \in Nat /\ Len(batch'[w]) = 0
    BY <1>0, <2>1 DEF CheckTypeOK
  <2>4. At(w, all) \subseteq Untyped /\ Untyped' = Untyped \ At(w, all)
    BY <2>0, <2>1, <2>3, CheckerAssumption DEF Untyped, Untold, Slots, At
  <2>5. IsFiniteSet(all) /\ Cardinality(all) = Len(batch[w])
    BY <2>3, PrefixCount, Zenon
  <2>6. IsFiniteSet(Untyped) /\ IsFiniteSet(Unjudged) /\ Cardinality(Unjudged) \in Nat
    BY <2>0, FS_CardinalityType, Zenon DEF Counted
  <2> HIDE DEF all
  <2>7. Removed(Untyped, w, all, Untyped')
    BY <2>4, <2>5, <2>6, Zenon DEF Removed
  <2>8. /\ IsFiniteSet(Untyped') /\ Cardinality(Untyped) = Cardinality(Untyped') + Len(batch[w])
        /\ Cardinality(Untyped') \in Nat
    <3>1. /\ IsFiniteSet(Untyped') /\ Cardinality(Untyped) = Cardinality(Untyped') + Cardinality(all)
          /\ Cardinality(Untyped') \in Nat
      BY <2>7, RemovePlaces, Zenon
    <3> QED BY <2>5, <3>1, Zenon
  <2>9. /\ Cardinality(Unjudged) = Cardinality(Unjudged) + 0 /\ Len(batch[w]) + 0 <= BatchSize /\ 0 \in Nat
    BY <2>0, <2>3, <2>6
  <2>10. Balanced(emitted, total, consistent, inconsistent, Len(keyChan),
                  Cardinality(Untyped'), Cardinality(Unjudged), faults + 1)
    BY <1>0, <2>0, <2>3, <2>6, <2>8, <2>9, StateCounts, BalanceLost, Zenon
  <2>11. /\ emitted' = emitted /\ total' = total /\ consistent' = consistent /\ inconsistent' = inconsistent
         /\ keyChan' = keyChan
    BY Zenon DEF scanVars, counters
  <2> QED BY <2>0, <2>2, <2>6, <2>8, <2>10, <2>11, Zenon DEF Counted, Balanced
<1> QED BY <1>0, <1>1, <1>2, <1>3, <1>4, Zenon DEF CheckInv

\* The TYPE pipelines judge the keys of a batch or hand them on.
LEMMA CompareTypesInv ==
  ASSUME CheckInv, NEW w \in Workers, CompareTypes(w), ~(Fault /\ EndBatch(w))
  PROVE  CheckInv'
<1> DEFINE b == batch[w]
           gone == {n \in DOMAIN b : item[b[n]].tgtType = "none"}
           bad == gone \cup {n \in DOMAIN b : item[b[n]].tgtType # item[b[n]].srcType}
           same == DOMAIN b \ bad
           str == {n \in same : item[b[n]].srcType = "string" /\ mode = "full"}
           ok == IF mode \in {"full", "length"} THEN {} ELSE same
           left == IF mode \in {"full", "length"} THEN same ELSE {}
<1>0. /\ CheckTypeOK /\ \A v \in Workers : Holds(v)
      /\ pc[w] = "types" /\ pc' = [pc EXCEPT ![w] = "strings"]
      /\ batch' = batch /\ faults' = faults /\ total' = total + Len(b)
      /\ mode' = mode /\ item' = item /\ scanned' = scanned /\ scan' = scan /\ keysClosed' = keysClosed
      /\ emitted' = emitted /\ keyChan' = keyChan /\ returned' = returned
  BY Zenon DEF CheckInv, CompareTypes, dataVars, scanVars
<1>1. /\ DOMAIN b = 1 .. Len(b) /\ Len(b) \in Nat /\ Len(b) <= BatchSize /\ BatchSize \in Nat
      /\ strings[w] = {} /\ others[w] = {}
  BY <1>0, CheckerAssumption DEF CheckTypeOK, Holds
<1>2. Count(w, ok, bad, gone)
  BY Zenon DEF CompareTypes
<1>3. /\ strings'[w] \cup others'[w] = left /\ strings'[w] \cap others'[w] = {}
      /\ \A n \in strings'[w] : item[b[n]].srcType = "string"
      /\ \A v \in Workers \ {w} : strings'[v] = strings[v] /\ others'[v] = others[v]
      /\ strings' \in [Workers -> SUBSET (1 .. BatchSize)] /\ others' \in [Workers -> SUBSET (1 .. BatchSize)]
  <2>1. CASE mode \in {"full", "length"}
    <3>1. strings' = [strings EXCEPT ![w] = str] /\ others' = [others EXCEPT ![w] = same \ str]
      BY <2>1, Zenon DEF CompareTypes
    <3>2. same \subseteq 1 .. BatchSize /\ str \subseteq same /\ left = same
      <4>0. left = same
        BY <2>1, Zenon
      <4>1. str \subseteq same
        BY Zenon
      <4>2. same \subseteq 1 .. Len(b)
        BY <1>1, Zenon
      <4> HIDE DEF b, same, str, left
      <4>3. 1 .. Len(b) \subseteq 1 .. BatchSize
        BY <1>1
      <4> QED BY <4>0, <4>1, <4>2, <4>3, Zenon
    <3>3. \A n \in str : item[b[n]].srcType = "string"
      BY Zenon
    <3> HIDE DEF str, same, left, b
    <3> QED BY <1>0, <3>1, <3>2, <3>3, Zenon DEF CheckTypeOK
  <2>2. CASE mode \notin {"full", "length"}
    <3>1. strings' = strings /\ others' = others /\ left = {}
      BY <2>2, Zenon DEF CompareTypes
    <3> HIDE DEF left
    <3> QED BY <1>0, <1>1, <3>1, Zenon DEF CheckTypeOK
  <2> QED BY <2>1, <2>2, Zenon
<1>4. /\ bad \subseteq 1 .. Len(b) /\ same \subseteq 1 .. Len(b) /\ bad \cap same = {} /\ bad \cup same = 1 .. Len(b)
      /\ ok \cup left = same /\ ok \cap left = {} /\ gone \subseteq 1 .. Len(b)
  BY <1>1, Zenon
<1>5. \A n \in bad : Differs(item[b[n]]) \/ item[b[n]].tgtType = "none"
  BY Zenon DEF Differs
<1>6. \A n \in ok : ~Differs(item[b[n]])
  BY Zenon DEF Differs
<1>7. \A n \in left : Compared(item[b[n]])
  BY Zenon DEF Compared
<1>8. /\ IsFiniteSet(ok) /\ IsFiniteSet(bad) /\ IsFiniteSet(left) /\ IsFiniteSet(gone)
      /\ Cardinality(ok) \in Nat /\ Cardinality(bad) \in Nat /\ Cardinality(left) \in Nat
  <2> HIDE DEF ok, bad, left, gone, same
  <2>1. ok \subseteq 1 .. Len(b) /\ left \subseteq 1 .. Len(b)
    BY <1>4, Zenon
  <2> QED BY <1>1, <1>4, <2>1, PlacesFinite, Zenon
<1>9. \A n \in bad : b[n] \in Keys
  <2>1. b \in Seq(Keys)
    BY <1>0, Zenon DEF CheckTypeOK
  <2> HIDE DEF b, bad, same, ok, left, gone
  <2> QED BY <2>1, <1>4
<1> HIDE DEF ok, bad, left, gone, same, str, b
<1>10. CheckTypeOK'
  <2>0. consistent' \in Nat /\ inconsistent' \in Nat /\ total' \in Nat
    <3>1. /\ consistent' = consistent + Cardinality(ok) /\ inconsistent' = inconsistent + Cardinality(bad)
          /\ total' = total + Len(b)
      BY <1>0, <1>2, Zenon DEF Count
    <3>2. consistent \in Nat /\ inconsistent \in Nat /\ total \in Nat /\ Len(b) \in Nat
      BY <1>0, <1>1, Zenon DEF CheckTypeOK
    <3>3. Cardinality(ok) \in Nat /\ Cardinality(bad) \in Nat
      BY <1>8, Zenon
    <3> QED BY <3>1, <3>2, <3>3
  <2>1. alarms' \in SUBSET Keys
    BY <1>0, <1>2, <1>9, Zenon DEF Count, CheckTypeOK, b
  <2>2. pc' \in [Workers -> {"take", "types", "strings", "get", "others", "done"}]
    BY <1>0, Zenon DEF CheckTypeOK
  <2> QED BY <1>0, <1>3, <2>0, <2>1, <2>2, Zenon DEF CheckTypeOK
<1>11. pc'[w] = "strings" /\ \A v \in Workers \ {w} : pc'[v] = pc[v]
  BY <1>0, Zenon DEF CheckTypeOK
<1>12. ASSUME NEW v \in Workers PROVE Holds(v)'
  <2>1. CASE v = w
    <3>1. strings'[w] \subseteq 1 .. Len(b) /\ others'[w] \subseteq 1 .. Len(b)
      BY <1>3, <1>4, Zenon
    <3>2. \A n \in strings'[w] \cup others'[w] : Compared(item[b[n]])'
      BY <1>0, <1>3, <1>7, Zenon DEF Compared, b
    <3> QED BY <1>0, <1>1, <1>3, <1>11, <2>1, <3>1, <3>2, Zenon DEF Holds, b
  <2>2. CASE v # w
    BY <1>0, <1>3, <1>11, <2>2, HeldAsBefore, Zenon
  <2> QED BY <2>1, <2>2, Zenon
<1>15. Counted'
  <2>0. Counted
    BY Zenon DEF CheckInv
  <2> DEFINE all == 1 .. Len(b)
  <2>1. IsFiniteSet(all) /\ Cardinality(all) = Len(b)
    BY <1>1, PrefixCount, Zenon
  <2>2. At(w, all) \subseteq Untyped /\ Untyped' = Untyped \ At(w, all)
    BY <1>0, <1>1, <1>11 DEF Untyped, Untold, Slots, At, b
  <2>3. Unjudged \cap At(w, left) = {} /\ Unjudged' = Unjudged \cup At(w, left)
    BY <1>0, <1>1, <1>3, <1>4 DEF Unjudged, Slots, At
  <2>4. IsFiniteSet(Untyped) /\ IsFiniteSet(Unjudged)
    BY <2>0, Zenon DEF Counted
  <2> HIDE DEF all
  <2>5. Removed(Untyped, w, all, Untyped')
    BY <2>1, <2>2, <2>4, Zenon DEF Removed
  <2>6. /\ IsFiniteSet(Unjudged \cup At(w, left))
        /\ Cardinality(Unjudged \cup At(w, left)) = Cardinality(Unjudged) + Cardinality(left)
        /\ Cardinality(Unjudged) \in Nat
    BY <1>8, <2>3, <2>4, AddPlaces, SMTT(20)
  <2>7. /\ IsFiniteSet(Untyped') /\ Cardinality(Untyped) = Cardinality(Untyped') + Len(b)
        /\ Cardinality(Untyped') \in Nat
    <3>1. /\ IsFiniteSet(Untyped') /\ Cardinality(Untyped) = Cardinality(Untyped') + Cardinality(all)
          /\ Cardinality(Untyped') \in Nat
      BY <2>5, RemovePlaces, Zenon
    <3> QED BY <2>1, <3>1, Zenon
  <2>8. IsFiniteSet(Unjudged') /\ Cardinality(Unjudged') = Cardinality(Unjudged) + Cardinality(left)
    BY <2>3, <2>6, Zenon
  <2>9. Len(b) = Cardinality(ok) + Cardinality(left) + Cardinality(bad)
    <3>1. ok \cup left = same /\ ok \cap left = {} /\ bad \cap same = {} /\ bad \cup same = all
      BY <1>4, Zenon DEF all
    <3>2. IsFiniteSet(same) /\ Cardinality(same) = Cardinality(ok) + Cardinality(left)
      BY <1>8, <3>1, Parted, Zenon
    <3>3. Cardinality(all) = Cardinality(bad) + Cardinality(same)
      BY <1>8, <3>1, <3>2, Parted, Zenon
    <3> QED BY <1>8, <2>1, <3>2, <3>3
  <2>10. consistent' = consistent + Cardinality(ok) /\ inconsistent' = inconsistent + Cardinality(bad)
    BY <1>2, Zenon DEF Count
  <2>11. Balanced(emitted, total + Len(b), consistent + Cardinality(ok), inconsistent + Cardinality(bad),
                  Len(keyChan), Cardinality(Untyped'), Cardinality(Unjudged) + Cardinality(left), faults)
    BY <1>0, <1>1, <1>8, <2>0, <2>7, <2>9, StateCounts, BalanceTyped, Zenon
  <2> QED BY <1>0, <2>7, <2>8, <2>10, <2>11, Zenon DEF Counted, Balanced
<1>13. ASSUME faults' = 0 PROVE Judged' /\ TrueAlarms'
  <2>0. Judged /\ TrueAlarms /\ faults = 0
    BY <1>0, <1>13, Zenon DEF CheckInv
  <2>2. ASSUME NEW j \in scanned PROVE Pending(j)' \/ j \in alarms' \/ ~Differs(item[j])'
    <3>1. CASE j \in alarms \/ ~Differs(item[j])
      BY <1>0, <1>2, <3>1, Zenon DEF Count, Differs, Same
    <3>2. CASE \E x \in 1 .. Len(keyChan) : keyChan[x] = j
      BY <1>0, <3>2, Zenon DEF Pending
    <3>3. CASE \E v \in Workers : \E x \in 1 .. Len(batch[v]) :
                 batch[v][x] = j /\ (Untold(v) \/ x \in strings[v] \cup others[v])
      <4>1. PICK v \in Workers : \E x \in 1 .. Len(batch[v]) :
                 batch[v][x] = j /\ (Untold(v) \/ x \in strings[v] \cup others[v])
        BY <3>3, Zenon
      <4>2. PICK x \in 1 .. Len(batch[v]) :
                 batch[v][x] = j /\ (Untold(v) \/ x \in strings[v] \cup others[v])
        BY <4>1, Zenon
      <4>3. CASE v # w
        <5>1. Untold(v)' \/ x \in strings'[v] \cup others'[v]
          BY <1>3, <1>11, <4>2, <4>3, Zenon DEF Untold
        <5> QED BY <1>0, <4>2, <5>1, Zenon DEF Pending
      <4>4. CASE v = w /\ x \in left
        BY <1>0, <1>3, <4>2, <4>4, Zenon DEF Pending
      <4>5. CASE v = w /\ x \in ok
        BY <1>0, <1>6, <4>2, <4>5, Zenon DEF Differs, Same, b
      <4>6. CASE v = w /\ x \in bad
        BY <1>2, <4>2, <4>6, Zenon DEF Count, b
      <4>7. v = w => x \in ok \/ x \in left \/ x \in bad
        BY <1>4, <4>2, Zenon DEF b
      <4> QED BY <4>3, <4>4, <4>5, <4>6, <4>7, Zenon
    <3> QED BY <2>0, <3>1, <3>2, <3>3, Zenon DEF Judged, Pending
  <2>3. ASSUME alarms' # {} PROVE inconsistent' > 0
    <3>1. inconsistent' = inconsistent + Cardinality(bad) /\ inconsistent \in Nat
      BY <1>0, <1>2, Zenon DEF Count, CheckTypeOK
    <3>2. CASE bad # {}
      BY <1>8, <3>1, <3>2, SomeBad
    <3>3. CASE bad = {}
      <4>1. alarms # {}
        BY <1>2, <2>3, <3>3, Zenon DEF Count
      <4> QED BY <1>8, <2>0, <3>1, <4>1 DEF Judged
    <3> QED BY <3>2, <3>3, Zenon
  <2>4. Judged'
    BY <1>0, <2>0, <2>2, <2>3, Zenon DEF Judged
  <2>5. TrueAlarms'
    <3>1. \A k \in alarms' : Differs(item[k]) \/ item[k].tgtType = "none"
      BY <1>2, <1>5, <2>0, Zenon DEF TrueAlarms, Count, b
    <3> QED BY <1>0, <3>1, Zenon DEF TrueAlarms, Differs, Same
  <2> QED BY <2>4, <2>5, Zenon
<1>14. returned' => \A v \in Workers : pc'[v] = "done"
  BY <1>0, Zenon DEF CheckInv
<1> QED BY <1>10, <1>12, <1>13, <1>14, <1>15, Zenon DEF CheckInv

\* A step of worker w that judges ok and bad among the keys it has before it.
Judges(w, ok, bad) ==
  /\ Count(w, ok, bad, {})
  /\ ok \cup bad \subseteq strings[w] \cup others[w] /\ ok \cap bad = {}
  /\ strings' \in [Workers -> SUBSET (1 .. BatchSize)] /\ others' \in [Workers -> SUBSET (1 .. BatchSize)]
  /\ strings'[w] \subseteq strings[w] /\ others'[w] \subseteq others[w]
  /\ strings'[w] \cup others'[w] = (strings[w] \cup others[w]) \ (ok \cup bad)
  /\ \A v \in Workers \ {w} : strings'[v] = strings[v] /\ others'[v] = others[v] /\ pc'[v] = pc[v]
  /\ pc' \in [Workers -> {"take", "types", "strings", "get", "others", "done"}]
  /\ pc[w] \in {"strings", "get", "others"} /\ pc'[w] \in {"strings", "get", "others"}
  /\ pc'[w] = "others" => strings'[w] = {}
  /\ faults' \in Nat /\ faults' \in {faults, faults + 1}
  /\ faults' = 0 =>
       /\ faults = 0
       /\ \A n \in ok : ~Differs(item[batch[w][n]])
       /\ \A n \in bad : Differs(item[batch[w][n]])
  /\ UNCHANGED <<dataVars, scanVars, keyChan, batch, total, returned>>

\* Such a step keeps the invariant.
LEMMA JudgeInv ==
  ASSUME CheckInv, NEW w \in Workers, NEW ok, NEW bad, Judges(w, ok, bad)
  PROVE  CheckInv'
<1>0. /\ CheckTypeOK /\ \A v \in Workers : Holds(v)
      /\ mode' = mode /\ item' = item /\ scanned' = scanned /\ scan' = scan /\ keysClosed' = keysClosed
      /\ emitted' = emitted /\ keyChan' = keyChan /\ batch' = batch /\ total' = total /\ returned' = returned
  BY Zenon DEF CheckInv, dataVars, scanVars, Judges
<1>j. /\ pc[w] \in {"strings", "get", "others"} /\ pc'[w] \in {"strings", "get", "others"}
      /\ \A v \in Workers \ {w} : strings'[v] = strings[v] /\ others'[v] = others[v] /\ pc'[v] = pc[v]
      /\ strings'[w] \subseteq strings[w] /\ others'[w] \subseteq others[w]
      /\ pc'[w] = "others" => strings'[w] = {}
  BY Zenon DEF Judges
<1>1. /\ ok \subseteq 1 .. BatchSize /\ bad \subseteq 1 .. BatchSize /\ bad \subseteq 1 .. Len(batch[w])
      /\ BatchSize \in Nat
  BY <1>0, CheckerAssumption, Zenon DEF CheckTypeOK, Holds, Judges
<1>2. CheckTypeOK'
  <2>1. Cardinality(ok) \in Nat /\ Cardinality(bad) \in Nat
    BY <1>1, PlacesFinite, Zenon
  <2>2. consistent' = consistent + Cardinality(ok) /\ inconsistent' = inconsistent + Cardinality(bad)
    BY Zenon DEF Count, Judges
  <2>3. consistent' \in Nat /\ inconsistent' \in Nat
    BY <1>0, <2>1, <2>2 DEF CheckTypeOK
  <2>4. alarms' \in SUBSET Keys
    <3>1. batch[w] \in Seq(Keys) /\ alarms \in SUBSET Keys
      BY <1>0, Zenon DEF CheckTypeOK
    <3>2. \A n \in bad : batch[w][n] \in Keys
      BY <1>1, <3>1
    <3>3. alarms' = alarms \cup {batch[w][n] : n \in bad}
      BY Zenon DEF Count, Judges
    <3> QED BY <3>1, <3>2, <3>3, Zenon
  <2>5. /\ strings' \in [Workers -> SUBSET (1 .. BatchSize)] /\ others' \in [Workers -> SUBSET (1 .. BatchSize)]
        /\ pc' \in [Workers -> {"take", "types", "strings", "get", "others", "done"}] /\ faults' \in Nat
    BY Zenon DEF Judges
  <2> QED BY <1>0, <2>3, <2>4, <2>5, Zenon DEF CheckTypeOK
<1>3. ASSUME NEW v \in Workers PROVE Holds(v)'
  <2>1. CASE v = w
    <3>1. Holds(w)
      BY <1>0, Zenon
    <3>2. pc[w] \notin {"take", "types", "done"} /\ pc'[w] \notin {"take", "types", "done"}
      BY <1>j
    <3> QED BY <1>0, <1>j, <2>1, <3>1, <3>2, ZenonT(40) DEF Holds, Compared
  <2>2. CASE v # w
    <3>1. strings'[v] = strings[v] /\ others'[v] = others[v] /\ pc'[v] = pc[v] /\ Holds(v)
      BY <1>0, <1>j, <2>2, Zenon
    <3> QED BY <1>0, <3>1, ZenonT(40) DEF Holds, Compared
  <2> QED BY <2>1, <2>2, Zenon
<1>6. \A v \in Workers : Untold(v)' = Untold(v)
  <2>1. Untold(w) = FALSE /\ Untold(w)' = FALSE
    BY <1>j DEF Untold
  <2>2. \A v \in Workers \ {w} : Untold(v)' = Untold(v)
    BY <1>j, Zenon DEF Untold
  <2> QED BY <2>1, <2>2, Zenon
<1>7. /\ Count(w, ok, bad, {}) /\ ok \cap bad = {}
      /\ ok \cup bad \subseteq strings[w] \cup others[w]
      /\ strings'[w] \cup others'[w] = (strings[w] \cup others[w]) \ (ok \cup bad)
      /\ faults' \in {faults, faults + 1}
      /\ \A v \in Workers \ {w} : strings'[v] = strings[v] /\ others'[v] = others[v]
  BY Zenon DEF Judges
<1>8. Counted'
  <2>1. Counted /\ UNCHANGED <<keyChan, batch, emitted, total>>
    BY <1>0, Zenon DEF CheckInv
  <2> QED BY <1>0, <1>6, <1>7, <2>1, JudgeCount, Zenon
<1>4. ASSUME faults' = 0 PROVE Judged' /\ TrueAlarms'
  <2>1. Judged /\ TrueAlarms
    BY <1>4, Zenon DEF CheckInv, Judges
  <2>2. UNCHANGED <<mode, item, scanned, scan, keyChan, batch>>
    BY <1>0, Zenon
  <2>3. /\ \A n \in ok : ~Differs(item[batch[w][n]])
        /\ \A n \in bad : Differs(item[batch[w][n]])
    BY <1>4, Zenon DEF Judges
  <2> QED BY <1>0, <1>6, <1>7, <2>1, <2>2, <2>3, JudgeStep, Zenon
<1>5. returned' => \A v \in Workers : pc'[v] = "done"
  <2>1. ~returned
    BY <1>0, <1>j, Zenon DEF CheckInv
  <2> QED BY <1>0, <2>1, Zenon
<1> QED BY <1>2, <1>3, <1>4, <1>5, <1>8, Zenon DEF CheckInv

\* A failed pipeline of the strings drops them; it is a fault.
LEMMA StringsFailInv == ASSUME CheckInv, NEW w \in Workers, StringsFail(w) PROVE CheckInv'
<1>0. CheckTypeOK /\ (\A v \in Workers : Holds(v)) /\ faults' # 0 /\ faults' \in Nat
  BY DEF CheckInv, CheckTypeOK, StringsFail, Fault
<1>1. CheckTypeOK'
  BY <1>0, Zenon DEF CheckTypeOK, StringsFail, dataVars, scanVars, counters
<1>2. ASSUME NEW v \in Workers PROVE Holds(v)'
  <2>0. /\ mode' = mode /\ item' = item /\ keysClosed' = keysClosed /\ keyChan' = keyChan
        /\ batch' = batch /\ others' = others /\ strings'[w] = {} /\ pc'[w] = "others"
        /\ \A u \in Workers \ {w} : strings'[u] = strings[u] /\ pc'[u] = pc[u]
    BY <1>0, Zenon DEF CheckTypeOK, StringsFail, dataVars, scanVars
  <2>1. CASE v = w
    BY <1>0, <2>0, <2>1, ZenonT(40) DEF Holds, Compared
  <2>2. CASE v # w
    BY <1>0, <2>0, <2>2, HeldAsBefore, Zenon
  <2> QED BY <2>1, <2>2, Zenon
<1>3. returned' => \A v \in Workers : pc'[v] = "done"
  BY Zenon DEF CheckInv, StringsFail
<1>4. Counted'
  <2> DEFINE S == strings[w]
  <2>0. /\ Counted /\ faults' = faults + 1 /\ S \subseteq 1 .. BatchSize /\ S \cap others[w] = {}
        /\ pc[w] \in {"strings", "get"} /\ strings'[w] = {} /\ pc'[w] = "others"
        /\ batch' = batch /\ others' = others
        /\ \A u \in Workers \ {w} : strings'[u] = strings[u] /\ pc'[u] = pc[u]
    BY <1>0, Zenon DEF CheckInv, StringsFail, Fault, Holds, CheckTypeOK
  <2>1. Untyped' = Untyped
    <3>1. Untold(w) = FALSE /\ Untold(w)' = FALSE
      BY <2>0 DEF Untold
    <3>2. \A v \in Workers \ {w} : Untold(v)' = Untold(v)
      BY <2>0, Zenon DEF Untold
    <3>3. \A v \in Workers : Untold(v)' = Untold(v)
      BY <3>1, <3>2, Zenon
    <3> QED BY <2>0, <3>3, Zenon DEF Untyped, Slots
  <2>2. At(w, S) \subseteq Unjudged /\ Unjudged' = Unjudged \ At(w, S)
    BY <2>0 DEF Unjudged, Slots, At
  <2>3. IsFiniteSet(S) /\ Cardinality(S) \in Nat /\ Cardinality(S) <= BatchSize
    <3>1. BatchSize \in Nat
      BY CheckerAssumption, Zenon
    <3>2. IsFiniteSet(1 .. BatchSize) /\ Cardinality(1 .. BatchSize) = BatchSize
      BY <3>1, PrefixCount, Zenon
    <3> HIDE DEF S
    <3> QED BY <2>0, <3>2, FS_Subset, FS_CardinalityType, Zenon
  <2>4. IsFiniteSet(Untyped) /\ IsFiniteSet(Unjudged) /\ Cardinality(Untyped) \in Nat
    BY <2>0, FS_CardinalityType, Zenon DEF Counted
  <2> HIDE DEF S
  <2>5. Removed(Unjudged, w, S, Unjudged')
    BY <2>2, <2>3, <2>4, Zenon DEF Removed
  <2>6. /\ IsFiniteSet(Unjudged') /\ Cardinality(Unjudged) = Cardinality(Unjudged') + Cardinality(S)
        /\ Cardinality(Unjudged') \in Nat
    BY <2>5, RemovePlaces, Zenon
  <2>7. Cardinality(Untyped) = Cardinality(Untyped) + 0 /\ 0 + Cardinality(S) <= BatchSize /\ 0 \in Nat
    BY <2>3, <2>4
  <2>8. Balanced(emitted, total, consistent, inconsistent, Len(keyChan),
                 Cardinality(Untyped), Cardinality(Unjudged'), faults + 1)
    BY <1>0, <2>0, <2>3, <2>4, <2>6, <2>7, StateCounts, BalanceLost, Zenon
  <2>9. /\ emitted' = emitted /\ total' = total /\ consistent' = consistent /\ inconsistent' = inconsistent
        /\ keyChan' = keyChan
    BY Zenon DEF StringsFail, scanVars, counters
  <2> QED BY <2>0, <2>1, <2>4, <2>6, <2>8, <2>9, Zenon DEF Counted, Balanced
<1> QED BY <1>0, <1>1, <1>2, <1>3, <1>4, Zenon DEF CheckInv

\* STRLEN clears or judges the strings of the batch.
LEMMA CompareLengthsInv == ASSUME CheckInv, NEW w \in Workers, CompareLengths(w) PROVE CheckInv'
<1> DEFINE bad == {n \in strings[w] : Len(item[batch[w][n]].src) # Len(item[batch[w][n]].tgt)}
           none == {}
<1>0. /\ CheckTypeOK /\ Holds(w) /\ Count(w, none, bad, {})
      /\ strings' = [strings EXCEPT ![w] = @ \ bad] /\ others' = others
      /\ pc[w] = "strings" /\ pc' = [pc EXCEPT ![w] = "get"] /\ faults' = faults
      /\ UNCHANGED <<dataVars, scanVars, keyChan, batch, total, returned>>
  BY Zenon DEF CheckInv, CompareLengths
<1>1. \A n \in bad : Differs(item[batch[w][n]])
  <2> SUFFICES ASSUME NEW n \in bad PROVE Differs(item[batch[w][n]])
    BY Zenon
  <2>1. /\ Compared(item[batch[w][n]]) /\ item[batch[w][n]].srcType = "string"
        /\ Len(item[batch[w][n]].src) # Len(item[batch[w][n]].tgt)
    BY <1>0, Zenon DEF Holds
  <2> QED BY <2>1, Zenon DEF Compared, Differs, Same
<1>2. bad \subseteq strings[w]
  BY Zenon
<1> HIDE DEF bad
<1>3. /\ strings' \in [Workers -> SUBSET (1 .. BatchSize)] /\ others' \in [Workers -> SUBSET (1 .. BatchSize)]
      /\ strings'[w] = strings[w] \ bad /\ others'[w] = others[w]
      /\ \A v \in Workers \ {w} : strings'[v] = strings[v] /\ others'[v] = others[v] /\ pc'[v] = pc[v]
      /\ pc' \in [Workers -> {"take", "types", "strings", "get", "others", "done"}] /\ pc'[w] = "get"
  BY <1>0, Zenon DEF CheckTypeOK
<1>4. strings'[w] \cup others'[w] = (strings[w] \cup others[w]) \ (none \cup bad) /\ none \cap bad = {}
      /\ none \cup bad \subseteq strings[w] \cup others[w] /\ strings'[w] \subseteq strings[w]
  BY <1>0, <1>2, <1>3, Zenon DEF Holds
<1>5. faults' \in Nat /\ faults' \in {faults, faults + 1}
  BY <1>0, Zenon DEF CheckTypeOK
<1>6. \A n \in none : ~Differs(item[batch[w][n]])
  BY Zenon
<1>7. pc'[w] \in {"strings", "get", "others"} /\ pc[w] \in {"strings", "get", "others"} /\ pc'[w] # "others"
  BY <1>0, <1>3, Zenon
<1> HIDE DEF none
<1>j. Judges(w, none, bad)
  BY <1>0, <1>1, <1>3, <1>4, <1>5, <1>6, <1>7, ZenonT(40) DEF Judges
<1> QED BY <1>j, JudgeInv, Zenon

\* GET judges the strings of the batch.
LEMMA CompareStringsInv == ASSUME CheckInv, NEW w \in Workers, CompareStrings(w) PROVE CheckInv'
<1> DEFINE bad == {n \in strings[w] : item[batch[w][n]].src # item[batch[w][n]].tgt}
           ok == strings[w] \ bad
<1>0. /\ CheckTypeOK /\ Holds(w) /\ Count(w, ok, bad, {})
      /\ strings' = [strings EXCEPT ![w] = {}] /\ others' = others
      /\ pc[w] = "get" /\ pc' = [pc EXCEPT ![w] = "others"] /\ faults' = faults
      /\ UNCHANGED <<dataVars, scanVars, keyChan, batch, total, returned>>
  BY Zenon DEF CheckInv, CompareStrings
<1>1. \A n \in strings[w] : Differs(item[batch[w][n]]) <=> item[batch[w][n]].src # item[batch[w][n]].tgt
  <2> SUFFICES ASSUME NEW n \in strings[w]
               PROVE  Differs(item[batch[w][n]]) <=> item[batch[w][n]].src # item[batch[w][n]].tgt
    BY Zenon
  <2>1. Compared(item[batch[w][n]]) /\ item[batch[w][n]].srcType = "string"
    BY <1>0, Zenon DEF Holds
  <2>2. "string" \notin {"set", "hash"} /\ "string" # "stream"
    BY Zenon
  <2> QED BY <2>1, <2>2, Zenon DEF Compared, Differs, Same
<1>2. ok \cup bad = strings[w] /\ ok \cap bad = {} /\ bad \subseteq strings[w]
  BY Zenon
<1>3. (\A n \in ok : ~Differs(item[batch[w][n]])) /\ \A n \in bad : Differs(item[batch[w][n]])
  BY <1>1, Zenon
<1> HIDE DEF bad, ok
<1>4. /\ strings' \in [Workers -> SUBSET (1 .. BatchSize)] /\ others' \in [Workers -> SUBSET (1 .. BatchSize)]
      /\ strings'[w] = {} /\ others'[w] = others[w]
      /\ \A v \in Workers \ {w} : strings'[v] = strings[v] /\ others'[v] = others[v] /\ pc'[v] = pc[v]
      /\ pc' \in [Workers -> {"take", "types", "strings", "get", "others", "done"}] /\ pc'[w] = "others"
  BY <1>0, Zenon DEF CheckTypeOK
<1>5. strings'[w] \cup others'[w] = (strings[w] \cup others[w]) \ (ok \cup bad)
      /\ ok \cup bad \subseteq strings[w] \cup others[w] /\ strings'[w] \subseteq strings[w]
  BY <1>0, <1>2, <1>4, Zenon DEF Holds
<1>6. faults' \in Nat /\ faults' \in {faults, faults + 1}
  BY <1>0, Zenon DEF CheckTypeOK
<1>7. pc'[w] \in {"strings", "get", "others"} /\ pc[w] \in {"strings", "get", "others"}
  BY <1>0, <1>4, Zenon
<1>8. others'[w] \subseteq others[w] /\ (pc'[w] = "others" => strings'[w] = {})
  BY <1>4, Zenon
<1>9. faults' = 0 => /\ faults = 0
                     /\ \A n \in ok : ~Differs(item[batch[w][n]])
                     /\ \A n \in bad : Differs(item[batch[w][n]])
  BY <1>0, <1>3, Zenon
<1>10. Count(w, ok, bad, {}) /\ UNCHANGED <<dataVars, scanVars, keyChan, batch, total, returned>>
  BY <1>0, Zenon
<1>j. Judges(w, ok, bad)
  BY <1>2, <1>4, <1>5, <1>6, <1>7, <1>8, <1>9, <1>10, ZenonT(40) DEF Judges
<1> QED BY <1>j, JudgeInv, Zenon

\* The comparison of one other value judges its key.
LEMMA CompareOtherInv == ASSUME CheckInv, NEW w \in Workers, CompareOther(w) PROVE CheckInv'
<1>0. /\ CheckTypeOK /\ Holds(w) /\ pc[w] = "others" /\ pc' = pc /\ strings' = strings
      /\ UNCHANGED <<dataVars, scanVars, keyChan, batch, total, returned>>
  BY Zenon DEF CheckInv, CompareOther
<1>1. PICK n \in others[w] :
        LET i == item[batch[w][n]] IN
        /\ others' = [others EXCEPT ![w] = @ \ {n}]
        /\ \/ Fault /\ Count(w, {}, {n}, {})
           \/ i.srcType = "string" /\ Len(i.src) = Len(i.tgt) /\ Fault /\ Count(w, {n}, {}, {})
           \/ /\ IF verifyFullValue(i.srcType, i.src, i.tgt) THEN Count(w, {n}, {}, {})
                 ELSE Count(w, {}, {n}, {})
              /\ UNCHANGED faults
  BY Zenon DEF CompareOther
<1>2. verifyFullValue(item[batch[w][n]].srcType, item[batch[w][n]].src, item[batch[w][n]].tgt)
        <=> ~Differs(item[batch[w][n]])
  <2>1. Compared(item[batch[w][n]])
    BY <1>0, Zenon DEF Holds
  <2>2. batch[w][n] \in Keys
    <3>1. batch[w] \in Seq(Keys) /\ n \in 1 .. Len(batch[w])
      BY <1>0, Zenon DEF Holds, CheckTypeOK
    <3> QED BY <3>1
  <2> QED BY <1>0, <2>1, <2>2, Verdict, ItemTyped, Zenon
<1>3. faults' \in Nat /\ (faults' = 0 => faults = 0 /\ ~Fault) /\ faults' \in {faults, faults + 1}
  <2>1. Fault \/ faults' = faults
    BY <1>1, Zenon
  <2>2. faults \in Nat
    BY <1>0, Zenon DEF CheckTypeOK
  <2> QED BY <2>1, <2>2 DEF Fault
<1>4. PICK ok \in {{}, {n}}, bad \in {{}, {n}} :
        /\ ok \cup bad = {n} /\ ok \cap bad = {} /\ Count(w, ok, bad, {})
        /\ faults' = 0 => /\ \A m \in ok : ~Differs(item[batch[w][m]])
                          /\ \A m \in bad : Differs(item[batch[w][m]])
  <2>1. CASE Count(w, {n}, {}, {}) /\ (faults' = 0 => ~Differs(item[batch[w][n]]))
    BY <2>1, Zenon
  <2>2. CASE Count(w, {}, {n}, {}) /\ (faults' = 0 => Differs(item[batch[w][n]]))
    BY <2>2, Zenon
  <2> QED BY <1>1, <1>2, <1>3, <2>1, <2>2, Zenon
<1>5. /\ strings' \in [Workers -> SUBSET (1 .. BatchSize)] /\ others' \in [Workers -> SUBSET (1 .. BatchSize)]
      /\ strings'[w] = strings[w] /\ others'[w] = others[w] \ {n}
      /\ \A v \in Workers \ {w} : strings'[v] = strings[v] /\ others'[v] = others[v] /\ pc'[v] = pc[v]
      /\ pc' \in [Workers -> {"take", "types", "strings", "get", "others", "done"}] /\ pc'[w] = "others"
  BY <1>0, <1>1, Zenon DEF CheckTypeOK
<1>6. strings[w] = {} /\ strings'[w] \subseteq strings[w] /\ others'[w] \subseteq others[w]
  BY <1>0, <1>5, Zenon DEF Holds
<1>7. strings'[w] \cup others'[w] = (strings[w] \cup others[w]) \ (ok \cup bad)
      /\ ok \cup bad \subseteq strings[w] \cup others[w]
  BY <1>4, <1>5, <1>6, Zenon
<1>8. pc'[w] \in {"strings", "get", "others"} /\ pc[w] \in {"strings", "get", "others"}
  BY <1>0, <1>5, Zenon
<1>9. /\ ok \cap bad = {} /\ Count(w, ok, bad, {}) /\ faults' \in Nat /\ faults' \in {faults, faults + 1}
      /\ faults' = 0 => /\ faults = 0
                        /\ \A m \in ok : ~Differs(item[batch[w][m]])
                        /\ \A m \in bad : Differs(item[batch[w][m]])
  BY <1>3, <1>4, Zenon
<1>10. pc'[w] = "others" => strings'[w] = {}
  BY <1>5, <1>6, Zenon
<1>j. Judges(w, ok, bad)
  BY <1>0, <1>5, <1>6, <1>7, <1>8, <1>9, <1>10, ZenonT(40) DEF Judges
<1> QED BY <1>j, JudgeInv, Zenon

\* The end of a batch: everything in it has had its verdict.
LEMMA BatchEndsInv == ASSUME CheckInv, NEW w \in Workers, BatchEnds(w) PROVE CheckInv'
<1>0. /\ CheckTypeOK /\ \A v \in Workers : Holds(v)
      /\ pc[w] = "others" /\ others[w] = {} /\ strings[w] = {}
      /\ mode' = mode /\ item' = item /\ scanned' = scanned /\ scan' = scan /\ keysClosed' = keysClosed
      /\ emitted' = emitted /\ keyChan' = keyChan /\ counters' = counters
      /\ faults' = faults /\ returned' = returned
  BY Zenon DEF CheckInv, BatchEnds, Holds, dataVars, scanVars
<1>1. /\ pc' = [pc EXCEPT ![w] = "take"] /\ batch' = [batch EXCEPT ![w] = <<>>]
      /\ strings' = [strings EXCEPT ![w] = {}] /\ others' = [others EXCEPT ![w] = {}]
  BY Zenon DEF BatchEnds, EndBatch
<1>2. CheckTypeOK'
  BY <1>0, <1>1 DEF CheckTypeOK, counters
<1>3. /\ pc'[w] = "take" /\ batch'[w] = <<>> /\ Len(batch'[w]) = 0 /\ strings'[w] = {} /\ others'[w] = {}
      /\ \A v \in Workers \ {w} : /\ pc'[v] = pc[v] /\ batch'[v] = batch[v]
                                  /\ strings'[v] = strings[v] /\ others'[v] = others[v]
  BY <1>0, <1>1, Zenon DEF CheckTypeOK
<1>4. ASSUME NEW v \in Workers PROVE Holds(v)'
  <2>1. CASE v = w
    <3>1. Len(batch'[w]) <= BatchSize /\ Len(batch'[w]) < BatchSize
      <4>1. 0 <= BatchSize /\ 0 < BatchSize
        BY CheckerAssumption
      <4> QED BY <1>3, <4>1, Zenon
    <3> QED BY <1>3, <2>1, <3>1, ZenonT(40) DEF Holds
  <2>2. CASE v # w
    <3>1. /\ pc'[v] = pc[v] /\ batch'[v] = batch[v]
          /\ strings'[v] = strings[v] /\ others'[v] = others[v]
      BY <1>3, <2>2, Zenon
    <3> QED BY <1>0, <3>1, ZenonT(40) DEF Holds, Compared
  <2> QED BY <2>1, <2>2, Zenon
<1>7. Counted'
  <2>0. Counted
    BY Zenon DEF CheckInv
  <2>1. Unjudged' = Unjudged
    BY <1>0, <1>3 DEF Unjudged, Slots
  <2>2. Untyped' = Untyped
    <3>1. ASSUME NEW v \in Workers, NEW x \in 1 .. BatchSize
          PROVE  (Untold(v) /\ x <= Len(batch[v]))' <=> (Untold(v) /\ x <= Len(batch[v]))
      <4>1. CASE v = w
        <5>1. ~(x <= 0)
          BY CheckerAssumption
        <5> QED BY <1>0, <1>3, <4>1, <5>1, Zenon DEF Untold
      <4>2. CASE v # w
        BY <1>3, <4>2, Zenon DEF Untold
      <4> QED BY <4>1, <4>2, Zenon
    <3>2. \A s \in Slots : s[1] \in Workers /\ s[2] \in 1 .. BatchSize
      BY DEF Slots
    <3>3. Slots' = Slots
      BY Zenon DEF Slots
    <3>4. ASSUME NEW s \in Slots
          PROVE  (Untold(s[1]) /\ s[2] <= Len(batch[s[1]]))' <=> (Untold(s[1]) /\ s[2] <= Len(batch[s[1]]))
      BY <3>1, <3>2, Zenon
    <3> QED BY <3>3, <3>4, Zenon DEF Untyped
  <2> QED BY <1>0, <2>0, <2>1, <2>2, CountedAsBefore, Zenon DEF counters
<1>5. ASSUME faults' = 0 PROVE Judged' /\ TrueAlarms'
  <2>0. Judged /\ TrueAlarms /\ faults = 0
    BY <1>0, <1>5, Zenon DEF CheckInv
  <2>4. ASSUME NEW j \in Keys, Pending(j) PROVE Pending(j)'
    <3>1. CASE \E x \in 1 .. Len(keyChan) : keyChan[x] = j
      BY <1>0, <3>1, Zenon DEF Pending
    <3>2. CASE \E v \in Workers : \E x \in 1 .. Len(batch[v]) :
                 batch[v][x] = j /\ (Untold(v) \/ x \in strings[v] \cup others[v])
      <4>1. PICK v \in Workers : \E x \in 1 .. Len(batch[v]) :
                 batch[v][x] = j /\ (Untold(v) \/ x \in strings[v] \cup others[v])
        BY <3>2, Zenon
      <4>2. v # w
        BY <1>0, <4>1, Zenon DEF Untold
      <4> QED BY <1>3, <4>1, <4>2, Zenon DEF Pending, Untold
    <3> QED BY <2>4, <3>1, <3>2, Zenon DEF Pending
  <2>5. Judged' /\ TrueAlarms'
    <3>1. scanned \subseteq Keys
      BY <1>0, Zenon DEF CheckTypeOK
    <3> QED BY <1>0, <2>0, <2>4, <3>1, Zenon DEF Judged, TrueAlarms, counters, Differs, Same
  <2> QED BY <2>5, Zenon
<1>6. returned' => \A v \in Workers : pc'[v] = "done"
  BY <1>0, Zenon DEF CheckInv
<1> QED BY <1>2, <1>4, <1>5, <1>6, <1>7, Zenon DEF CheckInv

\* A step that leaves everything but `returned' alone.
LEMMA ReturnInv ==
  ASSUME CheckInv, returned' \in BOOLEAN, returned' => \A v \in Workers : pc[v] = "done",
         UNCHANGED <<dataVars, scanVars, keyChan, pc, workVars, counters, faults>>
  PROVE  CheckInv'
<1>0. /\ mode' = mode /\ item' = item /\ scanned' = scanned /\ scan' = scan /\ keysClosed' = keysClosed
      /\ emitted' = emitted /\ keyChan' = keyChan /\ pc' = pc /\ batch' = batch /\ strings' = strings
      /\ others' = others /\ total' = total /\ consistent' = consistent /\ inconsistent' = inconsistent
      /\ alarms' = alarms /\ faults' = faults
  BY Zenon DEF dataVars, scanVars, workVars, counters
<1>1. CheckTypeOK'
  BY <1>0, Zenon DEF CheckInv, CheckTypeOK
<1>2. \A w \in Workers : Holds(w)'
  BY <1>0, ZenonT(40) DEF CheckInv, Holds, Compared
<1>3. Counted => Counted'
  BY <1>0, Zenon DEF Counted, Balanced, Untyped, Unjudged, Untold
<1>4. (faults = 0 => Judged) => (faults' = 0 => Judged')
  BY <1>0, ZenonT(40) DEF Judged, Pending, Untold, Differs, Same
<1>5. TrueAlarms => TrueAlarms'
  BY <1>0, Zenon DEF TrueAlarms, Differs, Same
<1> QED BY <1>0, <1>1, <1>2, <1>3, <1>4, <1>5, Zenon DEF CheckInv

\* Every step of the check keeps the invariant.
LEMMA CheckStep == CheckInv /\ [CheckNext]_checkVars => CheckInv'
<1> SUFFICES ASSUME CheckInv, [CheckNext]_checkVars PROVE CheckInv'
  BY Zenon
<1>1. CASE Scanner
  BY <1>1, ScanKeyInv, ScanEndsInv, Zenon DEF Scanner
<1>2. ASSUME NEW w \in Workers, Worker(w) PROVE CheckInv'
  <2>1. CASE TakeKey(w)
    BY <2>1, TakeOneInv, TakeNoneInv, Zenon
  <2>2. CASE CompareTypes(w)
    <3>1. CASE Fault /\ EndBatch(w)
      <4>1. UNCHANGED <<dataVars, scanVars, keyChan, counters, returned>> /\ pc[w] = "types"
        <5>1. faults \in Nat
          BY Zenon DEF CheckInv, CheckTypeOK
        <5>2. faults' # faults
          BY <3>1, <5>1 DEF Fault
        <5> QED BY <2>2, <5>2, Zenon DEF CompareTypes
      <4> QED BY <3>1, <4>1, EarlyReturnInv, Zenon
    <3> QED BY <2>2, <3>1, CompareTypesInv, Zenon
  <2> QED BY <1>2, <2>1, <2>2, StringsFailInv, CompareLengthsInv, CompareStringsInv, CompareOtherInv,
             BatchEndsInv, Zenon DEF Worker
<1>3. CASE Return
  BY <1>3, ReturnInv, Zenon DEF Return
<1>4. CASE UNCHANGED checkVars
  <2>1. returned \in BOOLEAN /\ (returned => \A v \in Workers : pc[v] = "done")
    BY Zenon DEF CheckInv, CheckTypeOK
  <2> QED BY <1>4, <2>1, ReturnInv, Zenon DEF checkVars
<1> QED BY <1>1, <1>2, <1>3, <1>4, Zenon DEF CheckNext

\* The invariant holds throughout a check.
LEMMA CheckInvariant == CheckSpec => []CheckInv
BY CheckInitInv, CheckStep, PTL DEF CheckSpec

-----------------------------------------------------------------------------
(* The theorems *)

\* The check raises no false alarm (NoFalseAlarm): without a failed call, a key is
\* reported only if it differs in what the mode is said to compare, or has gone,
\* or differs in its value in the mode length.
THEOREM AlarmsAreTrue == CheckSpec => []NoFalseAlarm
<1>1. CheckInv => NoFalseAlarm
  <2> SUFFICES ASSUME CheckInv, faults = 0, NEW k \in alarms, Differs(item[k])
               PROVE  Documented(mode, item[k]) \/ (mode = "length" /\ ~Same(item[k]))
    BY Zenon DEF CheckInv, TrueAlarms, NoFalseAlarm
  <2>1. "stream" \notin {"set", "hash"}
    BY Zenon
  <2>2. item[k].srcType = "stream" /\ ~SameLength(item[k]) => ~Same(item[k])
    BY <2>1, Zenon DEF Same, SameLength
  <2>3. CASE item[k].tgtType # item[k].srcType
    BY <2>3 DEF Documented
  <2>4. CASE mode = "full" /\ ~Same(item[k])
    BY <2>4, Zenon DEF Documented
  <2>5. CASE mode = "length" /\ ~Same(item[k])
    BY <2>5, Zenon
  <2> QED BY <2>2, <2>3, <2>4, <2>5, Zenon DEF Differs, SameLength
<1> QED BY <1>1, CheckInvariant, PTL

\* When Run has returned nothing is under way.
LEMMA AtReturn ==
  ASSUME CheckInv, returned
  PROVE  /\ keysClosed /\ Len(keyChan) = 0
         /\ Cardinality(Untyped) = 0 /\ Cardinality(Unjudged) = 0
         /\ \A k \in Keys : ~Pending(k)
<1>1. \A w \in Workers : pc[w] = "done" /\ batch[w] = <<>> /\ strings[w] = {} /\ others[w] = {}
                          /\ keysClosed /\ keyChan = <<>>
  BY Zenon DEF CheckInv, Holds
<1>2. Untyped = {} /\ Unjudged = {}
  BY <1>1, Zenon DEF Untyped, Unjudged, Slots, Untold
<1>3. PICK w \in Workers : TRUE
  BY CheckerAssumption, Zenon
<1>4. keysClosed /\ keyChan = <<>> /\ Len(keyChan) = 0
  <2>1. Len(<<>>) = 0
    OBVIOUS
  <2> QED BY <1>1, <1>3, <2>1, Zenon
<1>5. Cardinality(Untyped) = 0 /\ Cardinality(Unjudged) = 0
  BY <1>2, FS_EmptySet, Zenon
<1>6. \A k \in Keys : ~Pending(k)
  BY <1>1, <1>4 DEF Pending, Untold
<1> QED BY <1>4, <1>5, <1>6, Zenon

\* A failed call costs at most the verdicts of one batch (OneBatchPerFault), for any
\* number of keys, workers and failed calls and any batch size: the pipelines fail
\* batch by batch, and what one worker loses costs the others nothing.
THEOREM FaultsAreBounded == CheckSpec => []OneBatchPerFault
<1>1. CheckInv => OneBatchPerFault
  <2> SUFFICES ASSUME CheckInv, returned
               PROVE  /\ emitted <= consistent + inconsistent + BatchSize * faults
                      /\ scanned # Keys => faults > 0
    BY Zenon DEF OneBatchPerFault
  <2>1. CheckTypeOK /\ Counted
    BY Zenon DEF CheckInv
  <2>2. /\ Len(keyChan) = 0 /\ keysClosed
        /\ Cardinality(Untyped) = 0 /\ Cardinality(Unjudged) = 0
    BY AtReturn, Zenon
  <2>3. Balanced(emitted, total, consistent, inconsistent, 0, 0, 0, faults)
    BY <2>1, <2>2, Zenon DEF Counted
  <2>4. /\ emitted \in Nat /\ consistent \in Nat /\ inconsistent \in Nat /\ faults \in Nat
        /\ BatchSize * faults \in Nat
    BY <2>1, Allowed, Zenon DEF CheckTypeOK
  <2>5. emitted <= consistent + inconsistent + BatchSize * faults
    BY <2>3, <2>4 DEF Balanced
  <2>6. faults = 0 => scanned = Keys
    BY <2>1, <2>2, Zenon DEF CheckInv, Judged, CheckTypeOK
  <2> QED BY <2>4, <2>5, <2>6
<1> QED BY <1>1, CheckInvariant, PTL

\* What the verdicts turn on is what a mode is said to compare, where it is kept.
LEMMA KeptPromise ==
  ASSUME NEW i, ~Differs(i)
  PROVE  /\ i.tgtType = i.srcType
         /\ i.srcType \in Kept(mode) => ~Documented(mode, i)
         /\ mode = "full" /\ i.srcType = "stream" => SameLength(i)
<1>1. i.tgtType = i.srcType
  BY Zenon DEF Differs
<1>2. mode = "full" /\ i.srcType = "stream" => SameLength(i)
  BY Zenon DEF Differs, SameLength
<1>3. CASE mode = "full"
  <2>1. Kept(mode) = {"string", "list", "set", "hash", "zset"}
    BY <1>3, Zenon DEF Kept
  <2> QED BY <1>1, <1>2, <1>3, <2>1, ZenonT(40) DEF Documented, Differs
<1>4. CASE mode = "length"
  <2>1. Kept(mode) = {"string", "list", "set", "hash", "zset", "stream"}
    BY <1>4 DEF Kept
  <2>2. Same(i) => SameLength(i)
    BY Zenon DEF Same, SameLength
  <2>3. i.srcType \in Kept(mode) => SameLength(i)
    BY <1>4, <2>1, <2>2, Zenon DEF Differs, SameLength
  <2> QED BY <1>1, <1>4, <2>3, ZenonT(40) DEF Documented
<1>5. CASE mode \notin {"full", "length"}
  <2>1. Kept(mode) = {}
    BY <1>5 DEF Kept
  <2> QED BY <1>1, <1>5, <2>1, Zenon
<1> QED BY <1>1, <1>2, <1>3, <1>4, <1>5, Zenon

\* A result without inconsistencies can be believed (CleanMeansSame), for any
\* number of keys, workers and repetitions of SCAN, any batch, channel and chunk
\* size: without a failed call every key sent has been counted with one verdict,
\* and if none is bad every key of the source was seen, with equal types, and in
\* the modes full and length with what they are said to compare.
THEOREM CleanIsClean == CheckSpec => []CleanMeansSame
<1>1. CheckInv => CleanMeansSame
  <2> SUFFICES ASSUME CheckInv, returned, faults = 0
               PROVE  /\ total = emitted /\ consistent + inconsistent = total
                      /\ inconsistent = 0 => scanned = Keys /\ \A k \in Keys : ~Differs(item[k])
    BY KeptPromise, Zenon DEF CleanMeansSame
  <2>1. CheckTypeOK /\ Counted /\ Judged
    BY Zenon DEF CheckInv
  <2>2. /\ Len(keyChan) = 0 /\ keysClosed
        /\ Cardinality(Untyped) = 0 /\ Cardinality(Unjudged) = 0
        /\ \A k \in Keys : ~Pending(k)
    BY AtReturn, Zenon
  <2>3. total = emitted /\ consistent + inconsistent = total
    <3>1. Balanced(emitted, total, consistent, inconsistent, 0, 0, 0, 0)
      BY <2>1, <2>2, Zenon DEF Counted
    <3>2. /\ emitted \in Nat /\ total \in Nat /\ consistent \in Nat /\ inconsistent \in Nat
          /\ BatchSize * 0 = 0
      BY <2>1, Allowed, Zenon DEF CheckTypeOK
    <3> QED BY <3>1, <3>2 DEF Balanced
  <2>4. ASSUME inconsistent = 0 PROVE scanned = Keys /\ \A k \in Keys : ~Differs(item[k])
    <3>1. scanned = Keys
      BY <2>1, <2>2, Zenon DEF Judged, CheckTypeOK
    <3>2. alarms = {}
      BY <2>1, <2>4 DEF Judged
    <3> QED BY <2>1, <2>2, <3>1, <3>2, Zenon DEF Judged
  <2> QED BY <2>3, <2>4, Zenon
<1> QED BY <1>1, CheckInvariant, PTL
=============================================================================
