------------------------------ MODULE MCSucTable ------------------------------
(* Instances of SucTable for TLC: four places in files of two, three       *)
(* classes to an entry, bytes of three bits, 6 for the mark.               *)
EXTENDS SucTable

MCUpdate(n, s, c) ==
  [nodeId |-> n, changeType |-> 1, supportedCCs |-> s, controlledCCs |-> c]

(* One that fits, and ones that lose a class, have the mark and a zero     *)
(* among their classes, or have numbers that are empty as bytes.           *)
MCUpdates ==
  {MCUpdate(1, <<1>>, <<2>>),
   MCUpdate(2, <<1, 2, 3>>, <<4>>),
   MCUpdate(3, <<1, 2, 3>>, <<>>),
   MCUpdate(9, <<6, 0>>, <<9>>),
   MCUpdate(15, <<>>, <<3>>)}

MCDocuments == UNION {[1 .. n -> MCUpdates] : n \in 0 .. 5}

(* Tables of a device: empty places of both kinds anywhere.                *)
MCEntry(n, info) == [NodeID |-> n, changeType |-> 1, nodeInfo |-> info]
MCTables ==
  [1 .. 4 -> {ZeroEntry, UnusedEntry, MCEntry(1, <<2, 6, 3>>), MCEntry(2, <<6, 1, 6>>),
             MCEntry(3, <<1, 2, 3>>)}]
==============================================================================
