--------------------------- MODULE MCNodeTableMap ----------------------------
(* Instances of NodeTableMap for TLC.                                      *)
EXTENDS MCNodeTable, NodeTableMap
==============================================================================
