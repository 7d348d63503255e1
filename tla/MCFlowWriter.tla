---------------------------- MODULE MCFlowWriter ----------------------------
(***************************************************************************)
(* Small instances of FlowWriter.  The constants that are functions or     *)
(* tuples are given here; the configurations choose among them.            *)
(***************************************************************************)
EXTENDS FlowWriter

CONSTANTS n1, n2

\* Entry 2 hashes to a slot without a master; the others alternate.
MCMasterAddr ==
  [e \in Entries |-> IF e = 2 THEN NoAddr ELSE IF e % 2 = 1 THEN n1 ELSE n2]

\* Every slot has a master.
MCAllRouted == [e \in Entries |-> IF e % 2 = 1 THEN n1 ELSE n2]

\* Entry 3 is a stream.
MCPipelined == Entries \ {3}

MCNoUpdates == {}

\* Limit removed, batches made smaller, and the batch size left at zero.
MCUpdates == {<<0, 2>>, <<1, 1>>, <<1, 0>>}
=============================================================================
