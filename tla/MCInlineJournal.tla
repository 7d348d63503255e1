-------------------------- MODULE MCInlineJournal --------------------------
(* Small instances of InlineJournal for TLC: streams, and how the source
   encodes the values in them. *)
EXTENDS InlineJournal, RdbValues

CONSTANTS n1, n2, k1, k2, k3

-----------------------------------------------------------------------------
(* The encodings of the RDB format *)

\* The w low bytes of n, little-endian.
Bytes(n, w) ==
  FoldLeft(LAMBDA acc, i : [n |-> acc.n \div 256, s |-> Append(acc.s, acc.n % 256)],
           [n |-> n, s |-> <<>>], [i \in 1 .. w |-> i]).s

Concat(ss) == FoldLeft(LAMBDA acc, s : acc \o s, <<>>, ss)
Each(f(_), els) == [i \in 1 .. Len(els) |-> f(els[i])]

Fits(n, w) == n \in -(2^(w - 1)) .. (2^(w - 1) - 1)

RdbLength(n) ==
  CASE n < 64 -> <<n>>
    [] n \in 64 .. 16383 -> <<64 + (n \div 256), n % 256>>
    [] OTHER -> <<128>> \o Reverse(Bytes(n, 4))

RdbText(s) == RdbLength(Len(s)) \o s

RdbString(el) ==
  CASE ~el.num -> RdbText(el.s)
    [] el.num /\ Fits(el.n, 8) -> <<192>> \o Bytes(el.n, 1)
    [] el.num /\ ~Fits(el.n, 8) /\ Fits(el.n, 16) -> <<193>> \o Bytes(el.n, 2)
    [] OTHER -> <<194>> \o Bytes(el.n, 4)

LpEntry(el) ==
  LET len == Len(el.s)
      data == CASE ~el.num /\ len < 64 -> <<128 + len>> \o el.s
                [] ~el.num /\ len >= 64 -> <<224 + (len \div 256), len % 256>> \o el.s
                [] el.num /\ el.n \in 0 .. 127 -> <<el.n>>
                [] el.num /\ el.n \notin 0 .. 127 /\ Fits(el.n, 13) ->
                     <<192 + ((el.n \div 256) % 32), el.n % 256>>
                [] el.num /\ ~Fits(el.n, 13) /\ Fits(el.n, 16) -> <<241>> \o Bytes(el.n, 2)
                [] el.num /\ ~Fits(el.n, 16) /\ Fits(el.n, 24) -> <<242>> \o Bytes(el.n, 3)
                [] OTHER -> <<243>> \o Bytes(el.n, 4)
  IN data \o (IF Len(data) <= 127 THEN <<Len(data)>>
              ELSE <<Len(data) \div 128, 128 + (Len(data) % 128)>>)

Listpack(els) ==
  LET body == Concat(Each(LpEntry, els))
  IN Bytes(Len(body) + 7, 4) \o Bytes(Len(els), 2) \o body \o <<255>>

ZlEntry(prev, el) ==
  LET len == Len(el.s)
      data == CASE ~el.num /\ len < 64 -> <<len>> \o el.s
                [] ~el.num /\ len >= 64 -> <<64 + (len \div 256), len % 256>> \o el.s
                [] el.num /\ el.n \in 0 .. 12 -> <<241 + el.n>>
                [] el.num /\ el.n \notin 0 .. 12 /\ Fits(el.n, 8) -> <<254>> \o Bytes(el.n, 1)
                [] el.num /\ ~Fits(el.n, 8) /\ Fits(el.n, 16) -> <<192>> \o Bytes(el.n, 2)
                [] el.num /\ ~Fits(el.n, 16) /\ Fits(el.n, 24) -> <<240>> \o Bytes(el.n, 3)
                [] OTHER -> <<208>> \o Bytes(el.n, 4)
  IN (IF prev < 254 THEN <<prev>> ELSE <<254>> \o Bytes(prev, 4)) \o data

Ziplist(els) ==
  LET body == FoldLeft(LAMBDA acc, el : LET e == ZlEntry(acc.prev, el) IN
                                        [prev |-> Len(e), s |-> acc.s \o e],
                       [prev |-> 0, s |-> <<>>], els)
  IN Bytes(Len(body.s) + 11, 4) \o Bytes(10 + Len(body.s) - body.prev, 4) \o Bytes(Len(els), 2)
       \o body.s \o <<255>>

Intset(w, els) ==
  Bytes(w, 4) \o Bytes(Len(els), 4) \o Concat(Each(LAMBDA el : Bytes(el.n, w), els))

-----------------------------------------------------------------------------
(* Values at the boundaries of the encodings *)

Long(n) == Text([i \in 1 .. n |-> 97])
A == Text(<<97>>)

Small == <<Num(-1), Num(12), Num(13), Num(127), Num(128), Num(-128), Num(-129), Num(4095), Num(4096),
           Num(-4096), Num(-4097)>>
Large == <<Num(32767), Num(32768), Num(-32768), Num(-32769), Num(8388607), Num(8388608), Num(-8388608),
           Num(-8388609), Num(2147483647), Num(-2147483647 - 1)>>
Texts == <<Text(<<>>), A, Long(63), Long(64), Long(125), Long(126), Long(254), A>>

V(type, payload, value) == [type |-> type, payload |-> payload, value |-> value]

AsString(el) == V("string", RdbString(el), el)
AsHash(els) == V("hash", RdbLength(Len(els) \div 2) \o Concat(Each(RdbString, els)), Fields(els))
AsHashZiplist(els) == V("hash_ziplist", RdbText(Ziplist(els)), Fields(els))
AsHashListpack(els) == V("hash_listpack", RdbText(Listpack(els)), Fields(els))
AsList(els) == V("list_quicklist_2",
                 RdbLength(2) \o RdbLength(2) \o RdbText(Listpack(els)) \o RdbLength(1) \o RdbString(A),
                 Append(els, A))
AsSet(els) == V("set", RdbLength(Len(els)) \o Concat(Each(RdbString, els)), els)
AsIntset(w, els) == V("set_intset", RdbText(Intset(w, els)), els)
AsSetListpack(els) == V("set_listpack", RdbText(Listpack(els)), els)
AsZSet(m) == V("zset_2", RdbLength(1) \o RdbString(m) \o [i \in 1 .. 8 |-> i],
               <<<<m, Text([i \in 1 .. 8 |-> i])>>>>)
AsZSetZiplist(els) == V("zset_ziplist", RdbText(Ziplist(els)), Couples(els))
AsZSetListpack(els) == V("zset_listpack", RdbText(Listpack(els)), Couples(els))
AsLzf(s) == V("string", <<195>> \o RdbLength(Len(s) + 1) \o RdbLength(Len(s)) \o <<Len(s) - 1>> \o s, Text(s))

\* A field with the value 0, with room behind it and at the end of the ziplist.
Zeros == {AsHashZiplist(<<A, Num(0), Text(<<98>>), Num(7)>>), AsHashZiplist(<<A, Num(0)>>)}

Values ==
  {AsString(el) : el \in Range(Small) \cup Range(Large) \cup Range(Texts)}
    \cup UNION {{AsList(els), AsHashZiplist(Front(els)), AsSetListpack(els)} : els \in {Small, Large, Texts}}
    \cup {AsHash(<<A, Num(1), A, Num(2)>>), AsHashListpack(<<A, Num(1), A, Num(2), A>>),
          AsSet(Texts), AsIntset(2, <<Num(-32768), Num(5)>>), AsIntset(4, <<Num(-2147483647 - 1)>>),
          AsIntset(8, <<Num(-2), Num(2147483647)>>), AsZSet(A), AsZSetZiplist(<<A, Num(3)>>),
          AsZSetListpack(<<A, Num(-3)>>), AsLzf(<<97, 98>>), V("module", <<>>, <<>>)}
    \cup Zeros

-----------------------------------------------------------------------------
(* Streams *)

EntryOf(key, version, v) ==
  [op |-> "entry", key |-> key, version |-> version, type |-> v.type, payload |-> v.payload,
   value |-> v.value]
En(key, version) == EntryOf(key, version, AsString(A))
Journal(commands) == [op |-> "journal", commands |-> commands]
Cmd(key, version) == [key |-> key, version |-> version]
Blob(items) == <<[op |-> "compressed", count |-> Len(items)]>> \o items
Skip == [op |-> "skip"]
Eof == [op |-> "eof"]
Seconds(t) == [op |-> "expiretime", time |-> t]
Millis(t) == [op |-> "expiretime_ms", time |-> t]

\* A key written after its entry, a key written before it, and both; blobs that
\* hold entries, commands and an expiry; entries that live and that have expired.
RaceStreams ==
  { <<En(k1, 1), Journal(<<Cmd(k1, 2)>>), Eof>>,
    <<Journal(<<Cmd(k1, 1)>>), En(k1, 2), En(k2, 1), Journal(<<Cmd(k2, 2)>>), Eof>>,
    <<Skip>> \o Blob(<<En(k1, 1), En(k2, 1), Journal(<<Cmd(k1, 2)>>)>>)
      \o <<Skip, Journal(<<Cmd(k1, 3)>>), Eof>>,
    <<En(k1, 1), Journal(<<Cmd(k1, 2), Cmd(k2, 1)>>), En(k2, 2), Journal(<<Cmd(k1, 3)>>), Eof>>,
    <<Seconds(3), En(k1, 1), En(k2, 1), Millis(3000), Eof>>,
    <<Millis(1000), En(k1, 1), Skip>> \o Blob(<<Seconds(4), Skip, En(k2, 1)>>) \o <<En(k3, 1), Eof>> }

\* One value each.
ValueStreams == {<<EntryOf(k1, 1, v), Journal(<<Cmd(k2, 1)>>), Eof>> : v \in Values}

MCStreams == RaceStreams \cup ValueStreams
MCParts == {-1, 0, 1, 2, 5, 12}

\* Every slot has a master, and every entry has commands.
MCAllRouted == [e \in Entries |-> IF e % 2 = 1 THEN n1 ELSE n2]
MCPipelined == Entries
MCNoUpdates == {}

-----------------------------------------------------------------------------
(* Values, once the decoders are those of RdbValues *)

\* The source packs the integer 0 into a ziplist, as the immediate 0xF1.
ZeroInZiplist(item) ==
  /\ item.type \in {"hash_ziplist", "zset_ziplist"}
  /\ Num(0) \in UNION {Range(couple) : couple \in IF item.type = "hash_ziplist" THEN item.value
                                                  ELSE Range(item.value)}

\* A list of type 14: its nodes are ziplists, without a container before them.
OldList(els) == RdbLength(1) \o RdbText(Ziplist(els))

\* Why the streams have no list of type 14, which parseList takes (rdb_complex.go:95)
\* and decodes as type 18: the length of a node is read as its container, and the
\* first bytes of the node as the length of a string, so that the parser goes on
\* behind the opcode that follows the value.
ASSUME OldListLosesTheFrame ==
  \A els \in {<<A>>, <<A, A>>, <<A, Num(7)>>} :
    parseValue("list_quicklist", OldList(els) \o <<255>>).at = Len(OldList(els)) + 2

\* Every encoding of strings, hashes, lists, sets and sorted sets the parser takes,
\* but for lists of type 14 (see above), is decoded to the value that was encoded,
\* at the boundaries of its integers and lengths too, except a 0 in a ziplist; and
\* in any case it takes exactly the bytes of the value: the next opcode is read
\* where it was written.
ValuesAsSent ==
  \A e \in 1 .. Len(entries) :
    Whole(e) =>
      /\ ZeroInZiplist(stream[entries[e].at]) \/ entries[e].value = stream[entries[e].at].value
      /\ entries[e].rest = 0
=============================================================================
