------------------------------- MODULE NodeSet --------------------------------
(***************************************************************************)
(* What a node mask promises: a set of nodes, from which nodes can be      *)
(* asked for one after the other, listed in order and counted.             *)
(***************************************************************************)
EXTENDS Integers, Sequences, FiniteSets

CONSTANTS
  MaxNode,       \* the largest node of the set
  ClassicMax,    \* the largest node that is asked for or listed
  CountModulus   \* one more than the largest count

VARIABLES
  nodes,   \* the set
  last,    \* the node found last, 0 if there was none
  told,    \* the list made since the set was changed, if any
  total    \* the count made since then

vars == <<nodes, last, told, total>>

Node == 1 .. MaxNode
Classic == {n \in nodes : n <= ClassicMax}

Ascending(s) == \A i, j \in 1 .. Len(s) : i < j => s[i] < s[j]

Init ==
  /\ nodes \in SUBSET Node
  /\ last = 0
  /\ told = <<>>
  /\ total = 0

Change(set) ==
  /\ nodes' = set
  /\ told' = <<>>
  /\ total' = 0
  /\ UNCHANGED last

Add(n) == Change(nodes \cup {n})

Remove(n) == Change(nodes \ {n})

(* All nodes, or those that a list can name.                               *)
Clear == Change({}) \/ Change(nodes \ Classic)

(* The least node after the last one, and 0 after the greatest.            *)
Find ==
  /\ \/ /\ last' \in Classic /\ last' > last
        /\ \A n \in Classic : n > last => last' <= n
     \/ /\ last' = 0
        /\ \A n \in Classic : n <= last
  /\ UNCHANGED <<nodes, told, total>>

Tell ==
  /\ told' \in Seq(Node)
  /\ Ascending(told')
  /\ {told'[i] : i \in 1 .. Len(told')} = Classic
  /\ UNCHANGED <<nodes, last, total>>

Count ==
  /\ total' = Cardinality(nodes) % CountModulus
  /\ UNCHANGED <<nodes, last, told>>

Next ==
  \/ \E n \in Node : Add(n) \/ Remove(n)
  \/ Clear \/ Find \/ Tell \/ Count

Spec == Init /\ [][Next]_vars
==============================================================================
