------------------------------ MODULE MCChecker ------------------------------
(* Two keys and two workers; the items make the two sides agree or differ in *)
(* every way the comparison tells apart.  The keys are alike, so one order of *)
(* each pair of items is enough.                                             *)
EXTENDS Checker
CONSTANTS k1, k2, w1, w2
MCKeys == {k1, k2}
MCWorkers == {w1, w2}
Item(s, t, a, b) ==
  [srcType |-> s, tgtType |-> t, src |-> a, tgt |-> b, srcTTL |-> 0, tgtTTL |-> 0]
MCItems == <<
  [Item("string", "string", <<1>>, <<1>>) EXCEPT !.tgtTTL = 1], Item("string", "string", <<1>>, <<1, 2>>),
  Item("string", "string", <<1, 2>>, <<2, 1>>),
  Item("list", "list", <<1, 2, 3>>, <<1, 2, 3>>), Item("list", "list", <<1, 2, 3>>, <<1, 2, 4>>),
  Item("set", "set", <<1, 2>>, <<2, 1>>), Item("stream", "stream", <<1>>, <<1, 2>>),
  Item("hash", "hash", <<1, 2>>, <<2, 1>>), Item("zset", "zset", <<1, 2>>, <<1, 3>>),
  Item("string", "none", <<1>>, <<>>), Item("ReJSON-RL", "ReJSON-RL", <<1>>, <<2>>)>>
MCData == {[k \in MCKeys |-> MCItems[d[k]]] :
            d \in {e \in [MCKeys -> DOMAIN MCItems] : e[k1] <= e[k2]}}
=============================================================================
