----------------------------- MODULE RdbValues -----------------------------
(***************************************************************************)
(* How the snapshot parser decodes a value: RDB lengths and strings        *)
(* (internal/replica/rdb_parser.go, rdb_string.go) and the encodings of    *)
(* hashes, lists, sets and sorted sets (internal/replica/rdb_complex.go).  *)
(*                                                                         *)
(* A value is decoded from a sequence b of bytes, read from position at    *)
(* on.  A reading is what was read and the position after it, or an error. *)
(* Running past the end of b is io.ReadFull failing on a stream that has   *)
(* ended.  The code slices packed values without looking at their length;  *)
(* the payloads are well formed, and a slice out of range, which panics,   *)
(* is an error here.                                                       *)
(***************************************************************************)
EXTENDS Integers, Sequences, SequencesExt

\* A Go string is a text of bytes, or the decimal text strconv makes of a number.
Num(n) == [num |-> TRUE, n |-> n, s |-> <<>>]
Text(s) == [num |-> FALSE, n |-> 0, s |-> s]

Read(v, at) == [ok |-> TRUE, v |-> v, at |-> at]
ReadErr(at) == [ok |-> FALSE, v |-> <<>>, at |-> at]

\* A reading that goes on with what has been read, or returns its error.
Then(r, Op(_, _)) == IF r.ok THEN Op(r.v, r.at) ELSE r

Slice(b, at, n) == SubSeq(b, at, at + n - 1)

\* io.ReadFull for n bytes.
ReadFull(b, at, n) ==
  IF at + n - 1 <= Len(b) THEN Read(Slice(b, at, n), at + n) ELSE ReadErr(Len(b) + 1)

-----------------------------------------------------------------------------
(* Integers *)

BigEndian(s) == FoldLeft(LAMBDA acc, x : 256 * acc + x, 0, s)
LittleEndian(s) == BigEndian(Reverse(s))

\* int8, int16, int32 or int64 of a little-endian word: the last byte has the sign.
SignedLE(s) ==
  LET r == Reverse(s)
      top == IF r[1] >= 128 THEN r[1] - 256 ELSE r[1]
  IN FoldLeft(LAMBDA acc, x : 256 * acc + x, top, Tail(r))

\* A fault: the smallest integer of a width is taken as positive.
Signed_OffByOne(u, w) == IF u > 2^(w - 1) THEN -(2^w - 1 - u) - 1 ELSE u

\* The 13-bit and the 24-bit integers of a listpack.
Signed(u, w) == IF u >= 2^(w - 1) THEN -(2^w - 1 - u) - 1 ELSE u

-----------------------------------------------------------------------------
(* Lengths and strings *)

Length(n, special) == [n |-> n, special |-> special]

readLength(b, at) ==
  Then(ReadFull(b, at, 1), LAMBDA s, p :
    LET low == s[1] % 64
        Wide(w) == Then(ReadFull(b, p, w), LAMBDA t, q : Read(Length(BigEndian(t), FALSE), q))
    IN CASE s[1] < 64 -> Read(Length(low, FALSE), p)
         [] s[1] \in 64 .. 127 ->
              Then(ReadFull(b, p, 1), LAMBDA t, q : Read(Length(256 * low + t[1], FALSE), q))
         [] s[1] = 128 -> Wide(4)
         [] s[1] = 129 -> Wide(8)
         [] OTHER -> Read(Length(low, TRUE), p))

\* The LZF library; the payloads of the model are one run of literals.
LzfDecompress(s) == Tail(s)

readLZFString(b, at) ==
  Then(readLength(b, at), LAMBDA packed, p :
    Then(readLength(b, p), LAMBDA original, q :
      Then(ReadFull(b, q, packed.n), LAMBDA s, r :
        IF Len(LzfDecompress(s)) = original.n THEN Read(Text(LzfDecompress(s)), r) ELSE ReadErr(r))))

readStringEncoded(b, enc, at) ==
  CASE enc \in 0 .. 2 -> Then(ReadFull(b, at, 2^enc), LAMBDA s, p : Read(Num(SignedLE(s)), p))
    [] enc = 3 -> readLZFString(b, at)
    [] OTHER -> ReadErr(at)

readStringFull(b, at) ==
  Then(readLength(b, at), LAMBDA l, p :
    IF l.special
    THEN readStringEncoded(b, l.n, p)
    ELSE Then(ReadFull(b, p, l.n), LAMBDA s, q : Read(Text(s), q)))

\* readString drops the error: a string that cannot be read is the empty one.
OrEmpty(r) == IF r.ok THEN r ELSE Read(Text(<<>>), r.at)

readString(b, at) == OrEmpty(readStringFull(b, at))

\* One more element.
Extend(vs, r) == Read(Append(vs, r.v), r.at)

\* n strings, one after the other.
readStrings(b, at, n) ==
  FoldLeft(LAMBDA acc, i : Extend(acc.v, readString(b, acc.at)),
           Read(<<>>, at), [i \in 1 .. n |-> i])

\* What the string r holds, decoded: the stream goes on after the string.
Unpacked(els, at) == IF els.ok THEN Read(els.v, at) ELSE ReadErr(at)
Unpack(r, Parse(_)) == Unpacked(Parse(r.v.s), r.at)

\* A packed value: a string, and what it holds.
ReadPacked(b, at, Parse(_)) == Unpack(readString(b, at), Parse)

-----------------------------------------------------------------------------
(* Ziplists, listpacks and intsets *)

\* 0xF1 is taken for 0xF0, a 24-bit integer: of the immediate integers 0 .. 12
\* only 1 .. 12 are decoded as such.
readZiplistEntry(d, at) ==
  LET o == at + (IF d[at] < 254 THEN 1 ELSE 5)
      e == d[o]
      Str(len, skip) == Read(Text(Slice(d, o + skip, len)), o + skip + len)
      Word(w) == Read(Num(SignedLE(Slice(d, o + 1, w))), o + 1 + w)
      u24 == LittleEndian(Slice(d, o + 1, 3))
  IN IF o > Len(d) THEN ReadErr(at) ELSE
     CASE e < 64 -> Str(e, 1)
       [] e \in 64 .. 127 -> Str(256 * (e % 64) + d[o + 1], 2)
       [] e \in 128 .. 191 -> Str(BigEndian(Slice(d, o + 1, 4)), 5)
       [] e \in 192 .. 207 -> Word(2)
       [] e \in 208 .. 223 -> Word(4)
       [] e \in 224 .. 239 -> Word(8)
       [] e \in 240 .. 241 -> IF o + 3 > Len(d) THEN ReadErr(at)
                              ELSE Read(Num(IF u24 >= 2^23 THEN u24 - 2^24 ELSE u24), o + 4)
       [] e = 254 -> Word(1)
       [] OTHER -> Read(Num((e % 16) - 1), o + 1)

\* A ten-byte header, then entries up to the 0xFF mark or the end.
parseZiplist(d) ==
  LET from[at \in Nat] ==
        IF at > Len(d) \/ d[at] = 255
        THEN Read(<<>>, at)
        ELSE Then(readZiplistEntry(d, at), LAMBDA v, p :
               Then(from[p], LAMBDA vs, q : Read(<<v>> \o vs, q)))
  IN IF Len(d) < 10 THEN ReadErr(1) ELSE from[11]

lpEncodeBacklenSize(l) ==
  CASE l <= 127 -> 1
    [] l \in 128 .. 16382 -> 2
    [] l \in 16383 .. 2097150 -> 3
    [] l \in 2097151 .. 268435454 -> 4
    [] OTHER -> 5

\* An entry, the position after it and after the length that follows it for
\* reading backwards.
readListpackEntry(d, at) ==
  LET e == d[at]
      Arg(w) == Slice(d, at + 1, w)
      Entry(v, size) ==
        LET total == size + lpEncodeBacklenSize(size) IN
        IF at + total - 1 <= Len(d) THEN Read(v, at + total) ELSE ReadErr(at)
      Str(len, skip) == Entry(Text(Slice(d, at + skip, len)), skip + len)
      Word(w) == Entry(Num(SignedLE(Arg(w))), 1 + w)
  IN CASE e < 128 -> Entry(Num(e), 1)
       [] e \in 128 .. 191 -> Str(e % 64, 1)
       [] e \in 192 .. 223 -> Entry(Num(Signed(256 * (e % 32) + d[at + 1], 13)), 2)
       [] e \in 224 .. 239 -> Str(256 * (e % 16) + d[at + 1], 2)
       [] e = 240 -> Str(LittleEndian(Arg(4)), 5)
       [] e = 241 -> Word(2)
       [] e = 242 -> Entry(Num(Signed(LittleEndian(Arg(3)), 24)), 4)
       [] e = 243 -> Word(4)
       [] e = 244 -> Word(8)
       [] OTHER -> ReadErr(at)

\* A header with the size and the number of entries, the entries, 0xFF.  Nothing
\* at all is an empty listpack.
parseListpack(d) ==
  LET Step(acc, i) ==
        IF ~acc.ok \/ acc.at > Len(d) \/ d[acc.at] = 255
        THEN ReadErr(acc.at)
        ELSE Then(readListpackEntry(d, acc.at), LAMBDA v, p : Read(Append(acc.v, v), p))
      count == LittleEndian(Slice(d, 5, 2))
      entries == FoldLeft(Step, Read(<<>>, 7), [i \in 1 .. count |-> i])
  IN CASE Len(d) = 0 -> Read(<<>>, 1)
       [] Len(d) \in 1 .. 6 -> ReadErr(1)
       [] OTHER -> IF /\ LittleEndian(Slice(d, 1, 4)) = Len(d)
                      /\ entries.ok /\ entries.at <= Len(d)
                      /\ d[entries.at] = 255
                   THEN entries ELSE ReadErr(1)

parseIntset(d) ==
  LET w == LittleEndian(Slice(d, 1, 4))
      count == LittleEndian(Slice(d, 5, 4))
  IN IF Len(d) < 8 \/ (count > 0 /\ w \notin {2, 4, 8})
     THEN ReadErr(1)
     ELSE Read([i \in 1 .. count |-> Num(SignedLE(Slice(d, 9 + w * (i - 1), w)))], Len(d) + 1)

-----------------------------------------------------------------------------
(* Values *)

\* Elements two by two; an odd last one is passed over.
Couples(els) == [i \in 1 .. Len(els) \div 2 |-> <<els[2 * i - 1], els[2 * i]>>]

\* The map of fields a hash becomes: the last value of a field stays.
Fields(els) ==
  LET c == Couples(els) IN
  {c[i] : i \in {j \in 1 .. Len(c) : \A k \in (j + 1) .. Len(c) : c[k][1] # c[j][1]}}

As(r, Op(_)) == Then(r, LAMBDA v, p : Read(Op(v), p))

parseHash(type, b) ==
  CASE type = "hash" ->
         As(Then(readLength(b, 1), LAMBDA l, p : readStrings(b, p, 2 * l.n)), Fields)
    [] type = "hash_ziplist" -> As(ReadPacked(b, 1, parseZiplist), Fields)
    [] type = "hash_listpack" -> As(ReadPacked(b, 1, parseListpack), Fields)

\* A node of a list is a listpack (container 2) or one plain element.
ReadNode(b, acc) ==
  Then(readLength(b, acc.at), LAMBDA container, p :
    LET node == IF container.n = 2
                THEN ReadPacked(b, p, parseListpack)
                ELSE readStrings(b, p, 1)
    IN As(node, LAMBDA els : acc.v \o els))

\* Both list types, with and without the containers, are read with containers.
parseList(b) ==
  Then(readLength(b, 1), LAMBDA nodes, p :
    FoldLeft(LAMBDA acc, i : IF acc.ok THEN ReadNode(b, acc) ELSE acc,
             Read(<<>>, p), [i \in 1 .. nodes.n |-> i]))

parseSet(type, b) ==
  CASE type = "set" -> Then(readLength(b, 1), LAMBDA l, p : readStrings(b, p, l.n))
    [] type = "set_intset" -> ReadPacked(b, 1, parseIntset)
    [] type = "set_listpack" -> ReadPacked(b, 1, parseListpack)

\* A member and the eight bytes of its score: a score cut short is an error.
ReadMember(b, acc) ==
  Then(readString(b, acc.at), LAMBDA m, q :
    Then(ReadFull(b, q, 8), LAMBDA score, p : Read(Append(acc.v, <<m, Text(score)>>), p)))

parseZSet(type, b) ==
  CASE type = "zset_2" ->
         Then(readLength(b, 1), LAMBDA l, p :
           FoldLeft(LAMBDA acc, i : IF acc.ok THEN ReadMember(b, acc) ELSE acc,
                    Read(<<>>, p), [i \in 1 .. l.n |-> i]))
    [] type = "zset_ziplist" -> As(ReadPacked(b, 1, parseZiplist), Couples)
    [] type = "zset_listpack" -> As(ReadPacked(b, 1, parseListpack), Couples)

\* parseKeyValue after the key: the value by its type, or an error.  Streams
\* (types 15, 19 and 21) are left out.
parseValue(type, b) ==
  CASE type = "string" -> readString(b, 1)
    [] type \in {"hash", "hash_ziplist", "hash_listpack"} -> parseHash(type, b)
    [] type \in {"list_quicklist", "list_quicklist_2"} -> parseList(b)
    [] type \in {"set", "set_intset", "set_listpack"} -> parseSet(type, b)
    [] type \in {"zset_2", "zset_ziplist", "zset_listpack"} -> parseZSet(type, b)
    [] OTHER -> ReadErr(1)
=============================================================================
