----------------------------- MODULE MCNodeBatch -----------------------------
(* Two flush goroutines share the connection: one has an entry of two        *)
(* commands (SET and PEXPIREAT), the other an entry of one.                  *)
EXTENDS NodeBatch, TLC
CONSTANTS w1, w2
MCCallers == {w1, w2}
MCCmds == 1 .. 2
MCBatch == w1 :> <<1, 1>> @@ w2 :> <<1>>
MCRejections == {{}, {<<w1, 1>>}}
=============================================================================
