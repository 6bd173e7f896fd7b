----------------------------- MODULE NetworkMap ------------------------------
(***************************************************************************)
(* What a backup tool promises about the nodes of a network, without files,*)
(* masks or buffers: a map from node numbers to nodes that is filled entry *)
(* by entry, sealed, and then reported in one piece.                       *)
(*                                                                         *)
(* An entry for a number that is already in the map is merged with it: the *)
(* description is replaced, flags add up, and a missing route keeps the    *)
(* earlier one.                                                            *)
(***************************************************************************)
EXTENDS Integers

CONSTANTS NodeId, Node, NoNode, NoLine, Blank

VARIABLES stage, net, report

vars == <<stage, net, report>>

Empty == [n \in NodeId |-> NoNode]

Init ==
  /\ stage = "filling"
  /\ net = Empty
  /\ report = Empty

(* What an NVM of the controller can remember of a node: the two pending   *)
(* flags are lost and one route brings unwritten bytes for the other.      *)
Routed(v) == v.lwr # NoLine \/ v.nlwr # NoLine

Half(line, v) == IF line = NoLine /\ Routed(v) THEN Blank ELSE line

Remembered(v) ==
  [wakeup |-> IF v.wakeup = "none" THEN "none" ELSE "1000ms",
   device |-> v.device,
   isVirtual |-> v.isVirtual,
   routeSlaveSuc |-> v.routeSlaveSuc,
   appRouteLock |-> v.appRouteLock,
   sucPendingUpdate |-> FALSE, pendingDiscovery |-> FALSE,
   lwr |-> Half(v.lwr, v), nlwr |-> Half(v.nlwr, v)]

(* v, an entry, over old, what the map holds for its node.                 *)
Kept(old, line, v) ==
  IF line = NoLine /\ old # NoLine THEN old ELSE Half(line, v)

Merged(old, v) ==
  IF old = NoNode
    THEN Remembered(v)
    ELSE [wakeup |-> Remembered(v).wakeup,
          device |-> v.device,
          isVirtual |-> v.isVirtual \/ old.isVirtual,
          routeSlaveSuc |-> v.routeSlaveSuc \/ old.routeSlaveSuc,
          appRouteLock |-> v.appRouteLock \/ old.appRouteLock,
          sucPendingUpdate |-> FALSE, pendingDiscovery |-> FALSE,
          lwr |-> Kept(old.lwr, v.lwr, v), nlwr |-> Kept(old.nlwr, v.nlwr, v)]

Put(n, v) ==
  /\ stage = "filling"
  /\ net' = [net EXCEPT ![n] = Merged(@, v)]
  /\ UNCHANGED <<stage, report>>

Seal ==
  /\ stage = "filling"
  /\ stage' = "sealed"
  /\ UNCHANGED <<net, report>>

Report ==
  /\ stage = "sealed"
  /\ stage' = "reported"
  /\ report' = net
  /\ UNCHANGED net

Next ==
  \/ \E n \in NodeId, v \in Node : Put(n, v)
  \/ Seal
  \/ Report

Spec == Init /\ [][Next]_vars /\ WF_vars(Seal \/ Report)
==============================================================================
