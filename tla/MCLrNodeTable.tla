---------------------------- MODULE MCLrNodeTable ----------------------------
(* Instances of LrNodeTable for TLC.                                       *)
EXTENDS LrNodeTable

CONSTANTS d1, d2, b1, b2

MCPower(low, high) == [h \in Half |-> IF h = "low" THEN low ELSE high]

MCNode(w, d, p) ==
  [wakeup |-> w, device |-> d, lrTxPower |-> p, txPower |-> Absent]

(* Powers that use one half of the byte, both, and none.                   *)
MCNodes ==
  {MCNode("250ms", d1, MCPower({b1}, {})),
   MCNode("none", d2, MCPower({b2}, {b1})),
   MCNode("1000ms", d1, Absent)}

MCFewNodes ==
  {MCNode("250ms", d1, MCPower({b1}, {b2})),
   MCNode("none", d2, MCPower({b2}, {b1}))}

MCDevice == {d1, d2}
MCBit == {b1, b2}
==============================================================================
