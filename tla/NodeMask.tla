------------------------------- MODULE NodeMask -------------------------------
(***************************************************************************)
(* Node masks: a bit for each node in an array of bytes (ZW_nodemask.c,    *)
(* and the same functions once more in json_helpers.c), and the conversion *)
(* to and from a JSON array of node numbers.                               *)
(*                                                                         *)
(* The functions take a pointer and, some of them, a length.  Those that   *)
(* look for nodes end at ZW_CLASSIC_MAX_NODES whatever the mask is; a mask *)
(* of Long Range nodes has more bits than that.                            *)
(*                                                                         *)
(* A call with a loop is a step for each turn.  Between two calls the      *)
(* caller may change the mask.                                             *)
(***************************************************************************)
EXTENDS Nvm3Files, Sequences, FiniteSets

CONSTANTS
  BitsPerByte,    \* 8
  Length,         \* bytes of the mask at hand
  ClassicLength,  \* MAX_CLASSIC_NODEMASK_LENGTH
  CountModulus,   \* 2^8: ZW_NodeMaskBitsIn counts in a uint8_t
  Lists           \* arrays of node numbers in documents

ClassicMax == ClassicLength * BitsPerByte
MaxNode == Length * BitsPerByte
Node == 1 .. MaxNode
ClassicNode == 1 .. ClassicMax

(* A number outside of the mask is outside of the array; a document that   *)
(* was exported has none.                                                  *)
ASSUME MaskAssumption ==
  /\ BitsPerByte \in Nat \ {0}
  /\ Length \in Nat
  /\ ClassicLength \in 1 .. Length
  /\ CountModulus \in Nat \ {0}
  /\ \A s \in Lists : s \in Seq(ClassicNode)

VARIABLES
  mask,    \* the array, each byte as the set of its bits that are 1
  call,    \* the function that runs
  at,      \* its position
  jo,      \* the JSON array it reads or writes
  count,   \* its counter
  last,    \* result of the last ZW_NodeMaskGetNextNode
  told,    \* result of nodemask_to_json for this mask
  total,   \* result of ZW_NodeMaskBitsIn for this mask
  walk     \* history of the calls since GetNextNode was called with 0

locals == <<at, jo, count>>
results == <<last, told, total>>
vars == <<mask, call, locals, results, walk>>

ByteIndex == 0 .. Length - 1
Bit == 0 .. BitsPerByte - 1

ByteOf(n) == FileOf(n, BitsPerByte)
BitOf(n) == SlotOf(n, BitsPerByte)

Has(m, n) == BitOf(n) \in m[ByteOf(n)]
NodesOf(m) == {n \in Node : Has(m, n)}
ClassicOf(m) == {n \in ClassicNode : Has(m, n)}

NodeIn(n) == Has(mask, n)
Nodes == NodesOf(mask)
ClassicNodes == ClassicOf(mask)

Walk(ended, seen, always, ever) ==
  [ended |-> ended, seen |-> seen, always |-> always, ever |-> ever]

(* The local variables of a call end with it.                              *)
Return ==
  /\ call' = "none"
  /\ at' = 0 /\ count' = 0
  /\ jo' = <<>>

Init ==
  /\ mask \in [ByteIndex -> SUBSET Bit]
  /\ call = "none"
  /\ at = 0 /\ count = 0
  /\ jo = <<>>
  /\ last = 0 /\ told = <<>> /\ total = 0
  /\ walk = Walk(FALSE, {}, {}, {})

------------------------------------------------------------------------------
(***************************************************************************)
(* Changes of a mask                                                       *)
(***************************************************************************)

(* A fault: the byte is assigned, the bits of its other nodes are lost.    *)
WithOnlyBit(m, n) == [m EXCEPT ![ByteOf(n)] = {BitOf(n)}]

WithBit(m, n) == [m EXCEPT ![ByteOf(n)] = @ \cup {BitOf(n)}]

WithoutBit(m, n) == [m EXCEPT ![ByteOf(n)] = @ \ {BitOf(n)}]

(* A fault: the last byte is left as it was.                               *)
ClearedShort(m, length) == [b \in ByteIndex |-> IF b < length - 1 THEN {} ELSE m[b]]

Cleared(m, length) == [b \in ByteIndex |-> IF b < length THEN {} ELSE m[b]]

WalkSees(m) ==
  Walk(walk.ended, walk.seen, walk.always \cap ClassicOf(m), walk.ever \cup ClassicOf(m))

(* What was listed or counted of the mask before is out of date.           *)
Change(m) ==
  /\ mask' = m
  /\ told' = <<>>
  /\ total' = 0
  /\ UNCHANGED last
  /\ walk' = WalkSees(m)

SetBit(n) ==
  /\ call = "none"
  /\ Change(WithBit(mask, n))
  /\ UNCHANGED <<call, locals>>

ClearBit(n) ==
  /\ call = "none"
  /\ Change(WithoutBit(mask, n))
  /\ UNCHANGED <<call, locals>>

Clear ==
  /\ call = "none"
  /\ Change(Cleared(mask, Length))
  /\ UNCHANGED <<call, locals>>

------------------------------------------------------------------------------
(***************************************************************************)
(* ZW_NodeMaskGetNextNode.  A caller passes 0 and then what it got.        *)
(***************************************************************************)

BeginFind ==
  /\ call = "none"
  /\ call' = "find"
  /\ at' = last
  /\ walk' = IF last = 0
               THEN Walk(FALSE, {}, ClassicNodes, ClassicNodes)
               ELSE walk
  /\ UNCHANGED <<mask, jo, count, results>>

(* Position i is the bit of node i + 1.                                    *)
FindTurn ==
  /\ call = "find"
  /\ at < ClassicMax
  /\ IF NodeIn(at + 1)
       THEN /\ last' = at + 1
            /\ walk' = Walk(walk.ended, walk.seen \cup {at + 1}, walk.always, walk.ever)
            /\ Return
       ELSE /\ at' = at + 1
            /\ UNCHANGED <<call, jo, count, last, walk>>
  /\ UNCHANGED <<mask, told, total>>

(* A fault: the search ends with the number of bytes, as it once did.      *)
FindNoneEarly ==
  /\ call = "find"
  /\ ~(at < ClassicLength)
  /\ last' = 0
  /\ walk' = Walk(TRUE, walk.seen, walk.always, walk.ever)
  /\ Return
  /\ UNCHANGED <<mask, told, total>>

FindNone ==
  /\ call = "find"
  /\ ~(at < ClassicMax)
  /\ last' = 0
  /\ walk' = Walk(TRUE, walk.seen, walk.always, walk.ever)
  /\ Return
  /\ UNCHANGED <<mask, told, total>>

------------------------------------------------------------------------------
(***************************************************************************)
(* ZW_NodeMaskBitsIn, over the whole mask                                  *)
(***************************************************************************)

BeginCount ==
  /\ call = "none"
  /\ call' = "count"
  /\ at' = 0
  /\ count' = 0
  /\ UNCHANGED <<mask, jo, results, walk>>

CountTurn ==
  /\ call = "count"
  /\ at < MaxNode
  /\ count' = IF NodeIn(at + 1) THEN (count + 1) % CountModulus ELSE count
  /\ at' = at + 1
  /\ UNCHANGED <<mask, call, jo, results, walk>>

EndCount ==
  /\ call = "count"
  /\ ~(at < MaxNode)
  /\ total' = count
  /\ Return
  /\ UNCHANGED <<mask, last, told, walk>>

------------------------------------------------------------------------------
(***************************************************************************)
(* nodemask_to_json and json_get_nodemask                                  *)
(***************************************************************************)

BeginTell ==
  /\ call = "none"
  /\ call' = "tell"
  /\ at' = 0
  /\ jo' = <<>>
  /\ UNCHANGED <<mask, count, results, walk>>

TellTurn ==
  /\ call = "tell"
  /\ at < ClassicMax
  /\ jo' = IF NodeIn(at + 1) THEN Append(jo, at + 1) ELSE jo
  /\ at' = at + 1
  /\ UNCHANGED <<mask, call, count, results, walk>>

EndTell ==
  /\ call = "tell"
  /\ ~(at < ClassicMax)
  /\ told' = jo
  /\ Return
  /\ UNCHANGED <<mask, last, total, walk>>

(* The array is one of a document, or the one exported last.  The mask is  *)
(* cleared as far as a mask of classic nodes goes.                         *)
BeginLoad ==
  /\ call = "none"
  /\ call' = "load"
  /\ at' = 0
  /\ jo' \in Lists \cup {told}
  /\ Change(Cleared(mask, ClassicLength))
  /\ UNCHANGED count

LoadTurn ==
  /\ call = "load"
  /\ at < Len(jo) /\ at < ClassicMax
  /\ Change(WithBit(mask, jo[at + 1]))
  /\ at' = at + 1
  /\ UNCHANGED <<call, jo, count>>

EndLoad ==
  /\ call = "load"
  /\ ~(at < Len(jo) /\ at < ClassicMax)
  /\ Return
  /\ UNCHANGED <<mask, results, walk>>

Next ==
  \/ \E n \in Node : SetBit(n) \/ ClearBit(n)
  \/ Clear
  \/ BeginFind \/ FindTurn \/ FindNone
  \/ BeginCount \/ CountTurn \/ EndCount
  \/ BeginTell \/ TellTurn \/ EndTell
  \/ BeginLoad \/ LoadTurn \/ EndLoad

Spec == Init /\ [][Next]_vars

------------------------------------------------------------------------------
(***************************************************************************)
(* Properties                                                              *)
(***************************************************************************)

TypeOK ==
  /\ mask \in [ByteIndex -> SUBSET Bit]
  /\ call \in {"none", "find", "count", "tell", "load"}
  /\ at \in 0 .. MaxNode
  /\ jo \in Seq(ClassicNode)
  /\ count \in 0 .. CountModulus - 1
  /\ last \in 0 .. ClassicMax
  /\ told \in Seq(ClassicNode)
  /\ total \in 0 .. CountModulus - 1
  /\ walk \in [ended: BOOLEAN, seen: SUBSET ClassicNode,
               always: SUBSET ClassicNode, ever: SUBSET ClassicNode]

(* The functions on bytes are a set of nodes: the bit of a node is its own *)
(* in every length of mask, a search returns the least node after the one  *)
(* it was given, the JSON array has the nodes up to ZW_CLASSIC_MAX_NODES   *)
(* in order, an array is loaded node by node, and the count is the number  *)
(* of nodes except that it wraps at 256 (ZW_nodemask.c:90-113).            *)
Set == INSTANCE NodeSet WITH nodes <- Nodes
ImplementsNodeSet == Set!Spec

(* A search from 0 until the result is 0 finds every node that is in the   *)
(* mask all the time, and none that is not there at any time, when the     *)
(* caller changes the mask between two calls.                              *)
WalkFindsNodes ==
  walk.ended =>
    /\ walk.always \subseteq walk.seen
    /\ walk.seen \subseteq walk.ever

(* After an array is loaded the classic part of the mask has its nodes and *)
(* no other, also if it repeats a number; so what was exported comes back. *)
ListLoaded ==
  call = "load" /\ ~(at < Len(jo)) =>
    ClassicNodes = {jo[i] : i \in 1 .. Len(jo)}
==============================================================================
