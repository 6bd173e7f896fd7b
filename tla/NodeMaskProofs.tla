--------------------------- MODULE NodeMaskProofs ----------------------------
(***************************************************************************)
(* NodeMask implements NodeSet, for every length of mask and width of byte *)
(* and counter.                                                            *)
(***************************************************************************)
EXTENDS NodeMask, StorageRulesProofs, FiniteSetTheorems

------------------------------------------------------------------------------
(***************************************************************************)
(* Bits and nodes                                                          *)
(***************************************************************************)

Masks == [ByteIndex -> SUBSET Bit]

LEMMA SizesAreNumbers ==
  /\ MaxNode \in Nat /\ ClassicMax \in Nat \ {0} /\ ClassicMax <= MaxNode
  /\ BitsPerByte \in Nat \ {0} /\ Length \in Nat /\ CountModulus \in Nat \ {0}
<1>1. /\ BitsPerByte \in Nat \ {0} /\ Length \in Nat /\ CountModulus \in Nat \ {0}
      /\ ClassicLength \in 1 .. Length
  BY MaskAssumption
<1>2. ASSUME NEW a \in Nat, NEW b \in Nat, NEW c \in Nat \ {0}, a <= b, a > 0
      PROVE  a * c \in Nat \ {0} /\ b * c \in Nat /\ a * c <= b * c
  BY <1>2
<1>3. ClassicLength \in Nat /\ ClassicLength > 0 /\ ClassicLength <= Length
  BY <1>1
<1>4. ClassicMax \in Nat \ {0} /\ MaxNode \in Nat /\ ClassicMax <= MaxNode
  BY <1>1, <1>2, <1>3 DEF ClassicMax, MaxNode
<1>5. QED
  BY <1>1, <1>4

LEMMA ClassicIsNode == ClassicNode \subseteq Node
BY SizesAreNumbers DEF ClassicNode, Node

(* The bit of a node is inside the array.                                  *)
LEMMA BitInMask ==
  ASSUME NEW n \in Node
  PROVE  ByteOf(n) \in ByteIndex /\ BitOf(n) \in Bit
<1>1. n \in Nat \ {0} /\ n <= MaxNode /\ MaxNode = Length * BitsPerByte
  BY SizesAreNumbers DEF Node, MaxNode
<1>2. BitOf(n) \in Bit /\ ByteOf(n) \in Nat
  BY <1>1, SizesAreNumbers, PlaceInTable DEF ByteOf, BitOf, Bit, Node, FileNumbers
<1>3. n = ByteOf(n) * BitsPerByte + BitOf(n) + 1
  BY <1>1, SizesAreNumbers, PlaceInverse DEF RecordAt, ByteOf, BitOf
<1>4. ByteOf(n) * BitsPerByte < Length * BitsPerByte
  <2> DEFINE p == ByteOf(n) * BitsPerByte
             q == Length * BitsPerByte
  <2>1. p \in Nat /\ q \in Nat
    BY <1>2, SizesAreNumbers
  <2>2. n = p + BitOf(n) + 1 /\ n <= q
    BY <1>1, <1>3
  <2>3. BitOf(n) \in Nat /\ n \in Nat
    BY <1>1, <1>2, SizesAreNumbers DEF Bit
  <2> HIDE DEF p, q
  <2>4. p < q
    BY <2>1, <2>2, <2>3
  <2>5. QED
    BY <2>4 DEF p, q
<1>5. ByteOf(n) < Length
  <2>1. ASSUME NEW a \in Nat, NEW b \in Nat, NEW c \in Nat \ {0}, a * c < b * c PROVE a < b
    BY <2>1
  <2>2. QED
    BY <1>2, <1>4, <2>1, SizesAreNumbers
<1>6. QED
  BY <1>2, <1>5, SizesAreNumbers DEF ByteIndex

(* Two nodes do not share a bit.                                           *)
LEMMA BitUnique ==
  ASSUME NEW n \in Node, NEW m \in Node, ByteOf(n) = ByteOf(m), BitOf(n) = BitOf(m)
  PROVE  n = m
<1>1. n \in Nat \ {0} /\ m \in Nat \ {0}
  BY SizesAreNumbers DEF Node
<1>2. QED
  BY <1>1, SizesAreNumbers, PlaceUnique DEF ByteOf, BitOf

(* Setting, clearing and testing bits is adding, removing and testing      *)
(* members.                                                                *)
LEMMA SetBitAdds ==
  ASSUME NEW m \in Masks, NEW n \in Node
  PROVE  /\ WithBit(m, n) \in Masks
         /\ NodesOf(WithBit(m, n)) = NodesOf(m) \cup {n}
<1>1. ByteOf(n) \in ByteIndex /\ BitOf(n) \in Bit
  BY BitInMask
<1>2. WithBit(m, n) \in Masks
  BY <1>1 DEF WithBit, Masks
<1>3. ASSUME NEW k \in Node
      PROVE  Has(WithBit(m, n), k) <=> Has(m, k) \/ k = n
  <2>1. ByteOf(k) \in ByteIndex
    BY BitInMask
  <2>2. WithBit(m, n)[ByteOf(k)] =
          IF ByteOf(k) = ByteOf(n) THEN m[ByteOf(k)] \cup {BitOf(n)} ELSE m[ByteOf(k)]
    BY <2>1 DEF WithBit, Masks
  <2>3. QED
    BY <2>2, BitUnique DEF Has
<1>4. QED
  BY <1>2, <1>3 DEF NodesOf

LEMMA ClearBitRemoves ==
  ASSUME NEW m \in Masks, NEW n \in Node
  PROVE  /\ WithoutBit(m, n) \in Masks
         /\ NodesOf(WithoutBit(m, n)) = NodesOf(m) \ {n}
<1>1. ByteOf(n) \in ByteIndex /\ BitOf(n) \in Bit
  BY BitInMask
<1>2. WithoutBit(m, n) \in Masks
  BY <1>1 DEF WithoutBit, Masks
<1>3. ASSUME NEW k \in Node
      PROVE  Has(WithoutBit(m, n), k) <=> Has(m, k) /\ k # n
  <2>1. ByteOf(k) \in ByteIndex
    BY BitInMask
  <2>2. WithoutBit(m, n)[ByteOf(k)] =
          IF ByteOf(k) = ByteOf(n) THEN m[ByteOf(k)] \ {BitOf(n)} ELSE m[ByteOf(k)]
    BY <2>1 DEF WithoutBit, Masks
  <2>3. QED
    BY <2>2, BitUnique DEF Has
<1>4. QED
  BY <1>2, <1>3 DEF NodesOf

(* Clearing bytes removes the nodes of these bytes.                        *)
LEMMA ClearedNodes ==
  ASSUME NEW m \in Masks
  PROVE  /\ Cleared(m, Length) \in Masks /\ Cleared(m, ClassicLength) \in Masks
         /\ NodesOf(Cleared(m, Length)) = {}
         /\ NodesOf(Cleared(m, ClassicLength)) = NodesOf(m) \ ClassicNode
<1>1. ASSUME NEW l \in Nat, NEW k \in Node
      PROVE  /\ Cleared(m, l) \in Masks
             /\ Has(Cleared(m, l), k) <=> Has(m, k) /\ ~(ByteOf(k) < l)
  <2>1. ByteOf(k) \in ByteIndex
    BY BitInMask
  <2>2. QED
    BY <2>1 DEF Cleared, Masks, Has
<1>2. ASSUME NEW l \in Nat PROVE Cleared(m, l) \in Masks
  BY DEF Cleared, Masks
<1>3. ASSUME NEW k \in Node PROVE ByteOf(k) < Length
  BY BitInMask, SizesAreNumbers DEF ByteIndex
<1>4. ASSUME NEW k \in Node PROVE (ByteOf(k) < ClassicLength) <=> k \in ClassicNode
  <2>1. k \in Nat \ {0} /\ ClassicLength \in Nat /\ ClassicMax = ClassicLength * BitsPerByte
    BY MaskAssumption, SizesAreNumbers DEF Node, ClassicMax
  <2>2. ByteOf(k) \in Nat /\ BitOf(k) \in 0 .. BitsPerByte - 1
    BY BitInMask, SizesAreNumbers DEF ByteIndex, Bit
  <2>3. k = ByteOf(k) * BitsPerByte + BitOf(k) + 1
    BY <2>1, SizesAreNumbers, PlaceInverse DEF RecordAt, ByteOf, BitOf
  <2>4. ASSUME NEW a \in Nat, NEW b \in 0 .. BitsPerByte - 1, NEW l \in Nat
        PROVE  (a < l) <=> (a * BitsPerByte + b + 1 <= l * BitsPerByte)
    <3>1. BitsPerByte \in Nat /\ BitsPerByte > 0
      BY SizesAreNumbers
    <3>2. CASE a < l
      <4>1. (a + 1) * BitsPerByte <= l * BitsPerByte
        BY <3>1, <3>2
      <4>2. (a + 1) * BitsPerByte = a * BitsPerByte + BitsPerByte
        BY <3>1
      <4>3. a * BitsPerByte \in Nat /\ l * BitsPerByte \in Nat
        BY <3>1
      <4>4. QED
        BY <3>1, <3>2, <4>1, <4>2, <4>3
    <3>3. CASE ~(a < l)
      <4>1. l * BitsPerByte <= a * BitsPerByte
        BY <3>1, <3>3
      <4>2. a * BitsPerByte \in Nat /\ l * BitsPerByte \in Nat
        BY <3>1
      <4>3. QED
        BY <3>1, <3>3, <4>1, <4>2
    <3>4. QED
      BY <3>2, <3>3
  <2>5. (ByteOf(k) < ClassicLength) <=> k <= ClassicMax
    BY <2>1, <2>2, <2>3, <2>4
  <2>6. QED
    BY <2>1, <2>5, SizesAreNumbers DEF ClassicNode
<1>5. Length \in Nat /\ ClassicLength \in Nat
  BY MaskAssumption
<1>6. QED
  BY <1>1, <1>2, <1>3, <1>4, <1>5 DEF NodesOf

LEMMA ClassicIsPart ==
  ASSUME NEW m
  PROVE  ClassicOf(m) = {n \in NodesOf(m) : n <= ClassicMax}
BY ClassicIsNode, SizesAreNumbers DEF ClassicOf, NodesOf, ClassicNode, Node

------------------------------------------------------------------------------
(***************************************************************************)
(* Types                                                                   *)
(***************************************************************************)

LEMMA ChangeTypes ==
  ASSUME TypeOK, NEW m \in Masks, Change(m)
  PROVE  /\ mask' \in [ByteIndex -> SUBSET Bit]
         /\ last' \in 0 .. ClassicMax
         /\ told' \in Seq(ClassicNode)
         /\ total' \in 0 .. CountModulus - 1
         /\ walk' \in [ended: BOOLEAN, seen: SUBSET ClassicNode,
                       always: SUBSET ClassicNode, ever: SUBSET ClassicNode]
<1>1. mask' \in [ByteIndex -> SUBSET Bit]
  BY DEF Change, Masks
<1>2. last' \in 0 .. ClassicMax
  BY DEF Change, TypeOK
<1>3. told' \in Seq(ClassicNode)
  BY EmptySeq DEF Change
<1>4. total' \in 0 .. CountModulus - 1
  BY SizesAreNumbers DEF Change
<1>5. ClassicOf(m) \in SUBSET ClassicNode
  BY DEF ClassicOf
<1>6. walk' \in [ended: BOOLEAN, seen: SUBSET ClassicNode,
                 always: SUBSET ClassicNode, ever: SUBSET ClassicNode]
  BY <1>5 DEF Change, WalkSees, Walk, TypeOK
<1>7. QED
  BY <1>1, <1>2, <1>3, <1>4, <1>6

LEMMA ReturnTypes ==
  ASSUME Return
  PROVE  /\ call' \in {"none", "find", "count", "tell", "load"}
         /\ at' \in 0 .. MaxNode
         /\ count' \in 0 .. CountModulus - 1
         /\ jo' \in Seq(ClassicNode)
BY SizesAreNumbers, EmptySeq DEF Return

LEMMA InitTypes == Init => TypeOK
<1> SUFFICES ASSUME Init PROVE TypeOK
  OBVIOUS
<1>1. jo \in Seq(ClassicNode) /\ told \in Seq(ClassicNode)
  BY EmptySeq DEF Init
<1>2. at \in 0 .. MaxNode /\ last \in 0 .. ClassicMax
      /\ count \in 0 .. CountModulus - 1 /\ total \in 0 .. CountModulus - 1
  BY SizesAreNumbers DEF Init
<1>3. walk \in [ended: BOOLEAN, seen: SUBSET ClassicNode,
                always: SUBSET ClassicNode, ever: SUBSET ClassicNode]
  BY DEF Init, Walk
<1>4. QED
  BY <1>1, <1>2, <1>3 DEF Init, TypeOK

LEMMA NextTypes == TypeOK /\ [Next]_vars => TypeOK'
<1> SUFFICES ASSUME TypeOK, [Next]_vars PROVE TypeOK'
  OBVIOUS
<1> USE SizesAreNumbers
<1>0. mask \in Masks
  BY DEF TypeOK, Masks
<1>1. ASSUME NEW n \in Node, SetBit(n) PROVE TypeOK'
  <2>1. Change(WithBit(mask, n)) /\ WithBit(mask, n) \in Masks
    BY <1>0, <1>1, SetBitAdds DEF SetBit
  <2>2. UNCHANGED <<call, at, jo, count>>
    BY <1>1 DEF SetBit, locals
  <2>3. QED
    BY <2>1, <2>2, ChangeTypes DEF TypeOK
<1>2. ASSUME NEW n \in Node, ClearBit(n) PROVE TypeOK'
  <2>1. Change(WithoutBit(mask, n)) /\ WithoutBit(mask, n) \in Masks
    BY <1>0, <1>2, ClearBitRemoves DEF ClearBit
  <2>2. UNCHANGED <<call, at, jo, count>>
    BY <1>2 DEF ClearBit, locals
  <2>3. QED
    BY <2>1, <2>2, ChangeTypes DEF TypeOK
<1>3. CASE Clear
  <2>1. Change(Cleared(mask, Length)) /\ Cleared(mask, Length) \in Masks
    BY <1>0, <1>3, ClearedNodes DEF Clear
  <2>2. UNCHANGED <<call, at, jo, count>>
    BY <1>3 DEF Clear, locals
  <2>3. QED
    BY <2>1, <2>2, ChangeTypes DEF TypeOK
<1>4. CASE BeginFind
  <2>1. walk' \in [ended: BOOLEAN, seen: SUBSET ClassicNode,
                   always: SUBSET ClassicNode, ever: SUBSET ClassicNode]
    <3>1. ClassicNodes \in SUBSET ClassicNode
      BY DEF ClassicNodes, ClassicOf
    <3>2. QED
      BY <1>4, <3>1 DEF BeginFind, Walk, TypeOK
  <2>2. at' \in 0 .. MaxNode
    BY <1>4 DEF BeginFind, TypeOK
  <2>3. QED
    BY <1>4, <2>1, <2>2 DEF BeginFind, results, TypeOK
<1>5. CASE FindTurn
  <2>1. at + 1 \in ClassicNode /\ at + 1 \in 0 .. MaxNode /\ at + 1 \in 0 .. ClassicMax
    BY <1>5 DEF FindTurn, TypeOK, ClassicNode
  <2>2. CASE NodeIn(at + 1)
    <3>1. Return /\ last' = at + 1 /\ UNCHANGED <<mask, told, total>>
          /\ walk' = Walk(walk.ended, walk.seen \cup {at + 1}, walk.always, walk.ever)
      BY <1>5, <2>2 DEF FindTurn
    <3>2. walk' \in [ended: BOOLEAN, seen: SUBSET ClassicNode,
                     always: SUBSET ClassicNode, ever: SUBSET ClassicNode]
      BY <2>1, <3>1 DEF Walk, TypeOK
    <3>3. QED
      BY <2>1, <3>1, <3>2, ReturnTypes DEF TypeOK
  <2>3. CASE ~NodeIn(at + 1)
    BY <1>5, <2>1, <2>3 DEF FindTurn, TypeOK
  <2>4. QED
    BY <2>2, <2>3
<1>6. CASE FindNone
  <2>1. Return /\ last' = 0 /\ UNCHANGED <<mask, told, total>>
        /\ walk' = Walk(TRUE, walk.seen, walk.always, walk.ever)
    BY <1>6 DEF FindNone
  <2>2. walk' \in [ended: BOOLEAN, seen: SUBSET ClassicNode,
                   always: SUBSET ClassicNode, ever: SUBSET ClassicNode]
    BY <2>1 DEF Walk, TypeOK
  <2>3. last' \in 0 .. ClassicMax
    BY <2>1
  <2>4. QED
    BY <2>1, <2>2, <2>3, ReturnTypes DEF TypeOK
<1>7. CASE BeginCount
  BY <1>7 DEF BeginCount, results, TypeOK
<1>8. CASE CountTurn
  <2>1. at' \in 0 .. MaxNode
    BY <1>8 DEF CountTurn, TypeOK
  <2>2. count' \in 0 .. CountModulus - 1
    <3>1. ASSUME NEW c \in Nat PROVE c % CountModulus \in 0 .. CountModulus - 1
      OBVIOUS
    <3>2. count + 1 \in Nat /\ count \in 0 .. CountModulus - 1
      BY DEF TypeOK
    <3>3. count' = IF NodeIn(at + 1) THEN (count + 1) % CountModulus ELSE count
      BY <1>8 DEF CountTurn
    <3>4. (count + 1) % CountModulus \in 0 .. CountModulus - 1
      BY <3>1, <3>2
    <3>5. QED
      BY <3>2, <3>3, <3>4
  <2>3. QED
    BY <1>8, <2>1, <2>2 DEF CountTurn, results, TypeOK
<1>9. CASE EndCount
  BY <1>9, ReturnTypes DEF EndCount, TypeOK
<1>10. CASE BeginTell
  BY <1>10, EmptySeq DEF BeginTell, results, TypeOK
<1>11. CASE TellTurn
  <2>1. at + 1 \in ClassicNode /\ at' \in 0 .. MaxNode
    BY <1>11 DEF TellTurn, TypeOK, ClassicNode
  <2>2. jo' \in Seq(ClassicNode)
    BY <1>11, <2>1, AppendProperties DEF TellTurn, TypeOK
  <2>3. QED
    BY <1>11, <2>1, <2>2 DEF TellTurn, results, TypeOK
<1>12. CASE EndTell
  BY <1>12, ReturnTypes DEF EndTell, TypeOK
<1>13. CASE BeginLoad
  <2>1. Change(Cleared(mask, ClassicLength)) /\ Cleared(mask, ClassicLength) \in Masks
    BY <1>0, <1>13, ClearedNodes DEF BeginLoad
  <2>2. jo' \in Seq(ClassicNode)
    BY <1>13, MaskAssumption DEF BeginLoad, TypeOK
  <2>3. call' = "load" /\ at' \in 0 .. MaxNode /\ count' = count
    BY <1>13 DEF BeginLoad
  <2>4. QED
    BY <2>1, <2>2, <2>3, ChangeTypes DEF TypeOK
<1>14. CASE LoadTurn
  <2>1. jo[at + 1] \in ClassicNode /\ at' \in 0 .. MaxNode
    BY <1>14 DEF LoadTurn, TypeOK
  <2>2. Change(WithBit(mask, jo[at + 1])) /\ WithBit(mask, jo[at + 1]) \in Masks
    BY <1>0, <1>14, <2>1, ClassicIsNode, SetBitAdds DEF LoadTurn
  <2>3. UNCHANGED <<call, jo, count>>
    BY <1>14 DEF LoadTurn
  <2>4. QED
    BY <2>1, <2>2, <2>3, ChangeTypes DEF TypeOK
<1>15. CASE EndLoad
  BY <1>15, ReturnTypes DEF EndLoad, results, TypeOK
<1>16. CASE UNCHANGED vars
  BY <1>16 DEF vars, locals, results, TypeOK
<1>17. QED
  BY <1>1, <1>2, <1>3, <1>4, <1>5, <1>6, <1>7, <1>8, <1>9, <1>10, <1>11, <1>12,
     <1>13, <1>14, <1>15, <1>16 DEF Next

(* The variables always have their types.                                  *)
THEOREM TypeCorrect == Spec => []TypeOK
<1>1. Init => TypeOK
  BY InitTypes
<1>2. TypeOK /\ [Next]_vars => TypeOK'
  BY NextTypes
<1>3. QED
  BY <1>1, <1>2, PTL DEF Spec

------------------------------------------------------------------------------
(***************************************************************************)
(* What a call has done so far                                             *)
(***************************************************************************)

UpTo(set, k) == {n \in set : n <= k}
ElementsUpTo(s, k) == {s[i] : i \in 1 .. k}

FindInv ==
  call = "find" => /\ last <= at /\ at <= ClassicMax
                   /\ \A n \in ClassicNodes : ~(last < n /\ n <= at)

CountInv ==
  call = "count" => count = Cardinality(UpTo(Nodes, at)) % CountModulus

TellInv ==
  call = "tell" => /\ at <= ClassicMax
                   /\ Set!Ascending(jo)
                   /\ ElementsUpTo(jo, Len(jo)) = UpTo(ClassicNodes, at)

LoadInv ==
  call = "load" => at <= Len(jo) /\ ClassicNodes = ElementsUpTo(jo, at)

CallInv == FindInv /\ CountInv /\ TellInv /\ LoadInv

(* Adding one to a number counted in a byte adds one to what it stands for.*)
LEMMA CountWraps ==
  ASSUME NEW M \in Nat \ {0}, NEW c \in Nat
  PROVE  ((c % M) + 1) % M = (c + 1) % M
<1>1. /\ c = M * (c \div M) + (c % M) /\ c % M \in 0 .. M - 1 /\ c \div M \in Int
      /\ c + 1 = M * ((c + 1) \div M) + ((c + 1) % M)
      /\ (c + 1) % M \in 0 .. M - 1 /\ (c + 1) \div M \in Int
      /\ (c % M) + 1 = M * (((c % M) + 1) \div M) + (((c % M) + 1) % M)
      /\ ((c % M) + 1) % M \in 0 .. M - 1 /\ ((c % M) + 1) \div M \in Int
  <2>1. ASSUME NEW n \in Nat
        PROVE  n = M * (n \div M) + (n % M) /\ n % M \in 0 .. M - 1 /\ n \div M \in Int
    <3>1. n % M \in 0 .. M - 1 /\ n \div M \in Int
      OBVIOUS
    <3>2. n = M * (n \div M) + (n % M)
      OBVIOUS
    <3>3. QED
      BY <3>1, <3>2
  <2>2. c + 1 \in Nat /\ (c % M) + 1 \in Nat
    BY <2>1
  <2>3. QED
    BY <2>1, <2>2
<1>2. ASSUME NEW p \in Int, NEW q \in Int, NEW a \in 0 .. M - 1, NEW b \in 0 .. M - 1,
             M * p + a = M * q + b
      PROVE  a = b
  <2>1. M * (p - q) = b - a
    BY <1>2
  <2>2. ASSUME NEW d \in Int, M * d < M, M * d > -M PROVE d = 0
    <3>1. CASE d >= 1
      <4>1. M * d >= M
        BY <3>1
      <4>2. QED
        BY <2>2, <4>1
    <3>2. CASE d <= -1
      <4>1. M * d <= -M
        BY <3>2
      <4>2. QED
        BY <2>2, <4>1
    <3>3. QED
      BY <3>1, <3>2
  <2>3. p - q \in Int /\ M * (p - q) < M /\ M * (p - q) > -M
    BY <2>1
  <2>4. p - q = 0
    BY <2>2, <2>3
  <2>5. M * (p - q) = 0
    BY <2>4
  <2>6. QED
    BY <2>1, <2>5
<1> DEFINE x == c \div M  r == c % M  y == (c + 1) \div M  s == (c + 1) % M
           z == ((c % M) + 1) \div M  u == ((c % M) + 1) % M
<1>3. M * x + r = c /\ M * y + s = c + 1 /\ M * z + u = r + 1
      /\ x \in Int /\ y \in Int /\ z \in Int
      /\ s \in 0 .. M - 1 /\ u \in 0 .. M - 1 /\ r \in 0 .. M - 1
  BY <1>1
<1> HIDE DEF x, r, y, s, z, u
<1>4. M * (x + z) = M * x + M * z
  BY <1>3
<1>5. M * (x + z) + u = M * y + s
  BY <1>3, <1>4
<1>6. u = s
  <2>1. x + z \in Int
    BY <1>3
  <2>2. QED
    BY <1>2, <1>3, <1>5, <2>1
<1>7. QED
  BY <1>6 DEF u, s

LEMMA NodesAreFinite ==
  ASSUME NEW set \in SUBSET Node, NEW k \in Nat
  PROVE  IsFiniteSet(UpTo(set, k)) /\ Cardinality(UpTo(set, k)) \in Nat
<1>1. IsFiniteSet(Node)
  BY FS_Interval, SizesAreNumbers DEF Node
<1>2. UpTo(set, k) \in SUBSET Node
  BY DEF UpTo
<1>3. IsFiniteSet(UpTo(set, k))
  BY <1>1, <1>2, FS_Subset
<1>4. QED
  BY <1>3, FS_CardinalityType

LEMMA OneMore ==
  ASSUME NEW set \in SUBSET Node, NEW k \in Nat
  PROVE  UpTo(set, k + 1) = IF k + 1 \in set THEN UpTo(set, k) \cup {k + 1} ELSE UpTo(set, k)
<1>1. \A n \in set : n \in Nat /\ ((n <= k + 1) <=> (n <= k \/ n = k + 1))
  BY SizesAreNumbers DEF Node
<1>2. QED
  BY <1>1 DEF UpTo

LEMMA CountTurnInv ==
  ASSUME TypeOK, CountInv, CountTurn
  PROVE  CountInv'
<1>1. /\ call = "count" /\ at < MaxNode /\ mask' = mask
      /\ count' = (IF NodeIn(at + 1) THEN (count + 1) % CountModulus ELSE count)
      /\ at' = at + 1
  BY DEF CountTurn
<1>2. Nodes' = Nodes /\ Nodes \in SUBSET Node /\ at \in Nat /\ at + 1 \in Node
  BY <1>1, SizesAreNumbers DEF Nodes, NodesOf, TypeOK, Node
<1>3. NodeIn(at + 1) <=> at + 1 \in Nodes
  BY <1>2 DEF Nodes, NodesOf, NodeIn
<1> DEFINE c == Cardinality(UpTo(Nodes, at))
<1>4. c \in Nat /\ IsFiniteSet(UpTo(Nodes, at)) /\ count = c % CountModulus
  BY <1>1, <1>2, NodesAreFinite DEF CountInv
<1>5. at + 1 \notin UpTo(Nodes, at)
  BY <1>2 DEF UpTo
<1>6. Cardinality(UpTo(Nodes, at + 1)) = IF NodeIn(at + 1) THEN c + 1 ELSE c
  <2>1. CASE NodeIn(at + 1)
    <3>1. UpTo(Nodes, at + 1) = UpTo(Nodes, at) \cup {at + 1}
      BY <1>2, <1>3, <2>1, OneMore
    <3>2. QED
      BY <1>4, <1>5, <2>1, <3>1, FS_AddElement
  <2>2. CASE ~NodeIn(at + 1)
    <3>1. UpTo(Nodes, at + 1) = UpTo(Nodes, at)
      BY <1>2, <1>3, <2>2, OneMore
    <3>2. QED
      BY <2>2, <3>1
  <2>3. QED
    BY <2>1, <2>2
<1> HIDE DEF c
<1>7. (count + 1) % CountModulus = (c + 1) % CountModulus
  BY <1>4, CountWraps, SizesAreNumbers
<1>8. count' = Cardinality(UpTo(Nodes, at + 1)) % CountModulus
  BY <1>1, <1>4, <1>6, <1>7
<1>9. QED
  BY <1>1, <1>2, <1>8 DEF CountInv

LEMMA TellTurnInv ==
  ASSUME TypeOK, TellInv, TellTurn
  PROVE  TellInv'
<1>1. /\ call = "tell" /\ at < ClassicMax /\ mask' = mask /\ at' = at + 1
      /\ jo' = IF NodeIn(at + 1) THEN Append(jo, at + 1) ELSE jo
  BY DEF TellTurn
<1>2. /\ ClassicNodes' = ClassicNodes /\ ClassicNodes \in SUBSET Node
      /\ at \in Nat /\ at + 1 \in ClassicNode /\ at + 1 <= ClassicMax
  BY <1>1, ClassicIsNode, SizesAreNumbers DEF ClassicNodes, ClassicOf, TypeOK, ClassicNode
<1>3. NodeIn(at + 1) <=> at + 1 \in ClassicNodes
  BY <1>2 DEF ClassicNodes, ClassicOf, NodeIn
<1>4. /\ jo \in Seq(ClassicNode) /\ Len(jo) \in Nat
      /\ Set!Ascending(jo)
      /\ ElementsUpTo(jo, Len(jo)) = UpTo(ClassicNodes, at)
  BY <1>1 DEF TypeOK, TellInv
<1>5. \A i \in 1 .. Len(jo) : jo[i] \in ClassicNode /\ jo[i] <= at
  BY <1>4 DEF ElementsUpTo, UpTo
<1>6. CASE NodeIn(at + 1)
  <2>1. /\ Len(jo') = Len(jo) + 1
        /\ \A i \in 1 .. Len(jo) : jo'[i] = jo[i]
        /\ jo'[Len(jo) + 1] = at + 1
    BY <1>1, <1>2, <1>4, <1>6, AppendProperties
  <2>2. \A i \in 1 .. Len(jo) + 1 : i \in 1 .. Len(jo) \/ i = Len(jo) + 1
    BY <1>4
  <2>3. Set!Ascending(jo')
    <3>1. SUFFICES ASSUME NEW i \in 1 .. Len(jo) + 1, NEW j \in 1 .. Len(jo) + 1, i < j
                   PROVE  jo'[i] < jo'[j]
      BY <2>1 DEF Set!Ascending
    <3>2. i \in 1 .. Len(jo)
      BY <1>4, <3>1
    <3>3. CASE j \in 1 .. Len(jo)
      BY <1>4, <2>1, <3>1, <3>2, <3>3 DEF Set!Ascending
    <3>4. CASE j = Len(jo) + 1
      BY <1>2, <1>5, <2>1, <3>2, <3>4, SizesAreNumbers DEF ClassicNode
    <3>5. QED
      BY <2>2, <3>3, <3>4
  <2>4. ElementsUpTo(jo', Len(jo')) = ElementsUpTo(jo, Len(jo)) \cup {at + 1}
    <3>1. ASSUME NEW e
          PROVE  e \in ElementsUpTo(jo', Len(jo')) <=>
                   e \in ElementsUpTo(jo, Len(jo)) \/ e = at + 1
      <4>1. e \in ElementsUpTo(jo', Len(jo')) <=> \E i \in 1 .. Len(jo) + 1 : e = jo'[i]
        BY <2>1 DEF ElementsUpTo
      <4>2. e \in ElementsUpTo(jo, Len(jo)) <=> \E i \in 1 .. Len(jo) : e = jo[i]
        BY DEF ElementsUpTo
      <4>3. Len(jo) + 1 \in 1 .. Len(jo) + 1 /\ \A i \in 1 .. Len(jo) : i \in 1 .. Len(jo) + 1
        BY <1>4
      <4>4. QED
        BY <2>1, <2>2, <4>1, <4>2, <4>3
    <3>2. QED
      BY <3>1
  <2>5. UpTo(ClassicNodes, at + 1) = UpTo(ClassicNodes, at) \cup {at + 1}
    BY <1>2, <1>3, <1>6, OneMore
  <2>6. QED
    BY <1>1, <1>2, <1>4, <2>3, <2>4, <2>5 DEF TellInv
<1>7. CASE ~NodeIn(at + 1)
  <2>1. UpTo(ClassicNodes, at + 1) = UpTo(ClassicNodes, at)
    BY <1>2, <1>3, <1>7, OneMore
  <2>2. jo' = jo
    BY <1>1, <1>7
  <2>3. QED
    BY <1>1, <1>2, <1>4, <2>1, <2>2 DEF TellInv
<1>8. QED
  BY <1>6, <1>7

LEMMA LoadTurnInv ==
  ASSUME TypeOK, LoadInv, LoadTurn
  PROVE  LoadInv'
<1>1. /\ call = "load" /\ at < Len(jo) /\ at' = at + 1 /\ jo' = jo
      /\ mask' = WithBit(mask, jo[at + 1])
  BY DEF LoadTurn, Change
<1>2. jo[at + 1] \in ClassicNode /\ at \in Nat /\ Len(jo) \in Nat /\ mask \in Masks
  BY <1>1, SizesAreNumbers DEF TypeOK, Masks
<1>3. NodesOf(mask') = NodesOf(mask) \cup {jo[at + 1]}
  BY <1>1, <1>2, ClassicIsNode, SetBitAdds
<1>4. ClassicNodes' = ClassicNodes \cup {jo[at + 1]}
  <2>1. ClassicOf(mask') = {n \in NodesOf(mask') : n <= ClassicMax}
        /\ ClassicOf(mask) = {n \in NodesOf(mask) : n <= ClassicMax}
    BY ClassicIsPart
  <2>2. jo[at + 1] <= ClassicMax
    BY <1>2, SizesAreNumbers DEF ClassicNode
  <2>3. QED
    BY <1>3, <2>1, <2>2 DEF ClassicNodes
<1>5. ElementsUpTo(jo, at + 1) = ElementsUpTo(jo, at) \cup {jo[at + 1]}
  <2>1. \A i \in 1 .. at + 1 : i \in 1 .. at \/ i = at + 1
    BY <1>2
  <2>2. at + 1 \in 1 .. at + 1 /\ \A i \in 1 .. at : i \in 1 .. at + 1
    BY <1>2
  <2>3. QED
    BY <2>1, <2>2 DEF ElementsUpTo
<1>6. QED
  BY <1>1, <1>2, <1>4, <1>5 DEF LoadInv

LEMMA CallInvNext == TypeOK /\ CallInv /\ [Next]_vars => CallInv'
<1> SUFFICES ASSUME TypeOK, CallInv, [Next]_vars PROVE CallInv'
  OBVIOUS
<1>1. ASSUME call' = "none" PROVE CallInv'
  BY <1>1 DEF CallInv, FindInv, CountInv, TellInv, LoadInv
<1>2. ASSUME NEW n \in Node, SetBit(n) \/ ClearBit(n) PROVE CallInv'
  BY <1>1, <1>2 DEF SetBit, ClearBit
<1>3. CASE Clear
  BY <1>1, <1>3 DEF Clear
<1>4. CASE BeginFind
  <2>1. call' = "find" /\ at' = last /\ last' = last /\ last \in 0 .. ClassicMax
    <3>1. call' = "find" /\ at' = last /\ last' = last
      BY <1>4 DEF BeginFind, results
    <3>2. QED
      BY <3>1 DEF TypeOK
  <2>2. \A n \in ClassicNodes' : n \in Nat
    BY SizesAreNumbers DEF ClassicNodes, ClassicOf, ClassicNode
  <2>3. last \in Nat /\ last <= ClassicMax
    BY <2>1, SizesAreNumbers
  <2>4. FindInv'
    BY <2>1, <2>2, <2>3 DEF FindInv
  <2>5. QED
    BY <2>1, <2>4 DEF CallInv, CountInv, TellInv, LoadInv
<1>5. CASE FindTurn
  <2>1. CASE NodeIn(at + 1)
    BY <1>1, <1>5, <2>1 DEF FindTurn, Return
  <2>2. CASE ~NodeIn(at + 1)
    <3>1. call' = "find" /\ at' = at + 1 /\ last' = last /\ mask' = mask /\ at < ClassicMax
          /\ call = "find"
      BY <1>5, <2>2 DEF FindTurn
    <3>2. ClassicNodes' = ClassicNodes /\ at + 1 \notin ClassicNodes
      BY <2>2, <3>1 DEF ClassicNodes, ClassicOf, NodeIn
    <3>3. at \in Nat /\ last \in Nat /\ \A n \in ClassicNodes : n \in Nat
      BY SizesAreNumbers DEF TypeOK, ClassicNodes, ClassicOf, ClassicNode
    <3>4. FindInv'
      BY <3>1, <3>2, <3>3, SizesAreNumbers DEF CallInv, FindInv
    <3>5. QED
      BY <3>1, <3>4 DEF CallInv, CountInv, TellInv, LoadInv
  <2>3. QED
    BY <2>1, <2>2
<1>6. CASE FindNone \/ EndCount \/ EndTell \/ EndLoad
  BY <1>1, <1>6 DEF FindNone, EndCount, EndTell, EndLoad, Return
<1>7. CASE BeginCount
  <2>1. call' = "count" /\ at' = 0 /\ count' = 0 /\ mask' = mask
    BY <1>7 DEF BeginCount
  <2>2. UpTo(Nodes, 0) = {} /\ Nodes' = Nodes
    BY <2>1, SizesAreNumbers DEF UpTo, Nodes, NodesOf, Node
  <2>3. Cardinality(UpTo(Nodes, 0)) = 0 /\ 0 % CountModulus = 0
    BY <2>2, FS_EmptySet, SizesAreNumbers
  <2>4. CountInv'
    BY <2>1, <2>2, <2>3 DEF CountInv
  <2>5. QED
    BY <2>1, <2>4 DEF CallInv, FindInv, TellInv, LoadInv
<1>8. CASE CountTurn
  <2>1. CountInv' /\ call' = "count"
    BY <1>8, CountTurnInv DEF CallInv, CountTurn
  <2>2. QED
    BY <2>1 DEF CallInv, FindInv, TellInv, LoadInv
<1>9. CASE BeginTell
  <2>1. call' = "tell" /\ at' = 0 /\ jo' = <<>> /\ mask' = mask
    BY <1>9 DEF BeginTell
  <2>2. UpTo(ClassicNodes, 0) = {} /\ ClassicNodes' = ClassicNodes
    BY <2>1, SizesAreNumbers DEF UpTo, ClassicNodes, ClassicOf, ClassicNode
  <2>3. Len(jo') = 0 /\ 1 .. 0 = {}
    BY <2>1, EmptySeq
  <2>4. Set!Ascending(jo') /\ ElementsUpTo(jo', Len(jo')) = {}
    BY <2>3 DEF Set!Ascending, ElementsUpTo
  <2>5. TellInv'
    BY <2>1, <2>2, <2>4, SizesAreNumbers DEF TellInv
  <2>6. QED
    BY <2>1, <2>5 DEF CallInv, FindInv, CountInv, LoadInv
<1>10. CASE TellTurn
  <2>1. TellInv' /\ call' = "tell"
    BY <1>10, TellTurnInv DEF CallInv, TellTurn
  <2>2. QED
    BY <2>1 DEF CallInv, FindInv, CountInv, LoadInv
<1>11. CASE BeginLoad
  <2>1. call' = "load" /\ at' = 0 /\ mask' = Cleared(mask, ClassicLength)
    BY <1>11 DEF BeginLoad, Change
  <2>2. NodesOf(mask') = NodesOf(mask) \ ClassicNode
    BY <2>1, ClearedNodes DEF TypeOK, Masks
  <2>3. ClassicNodes' = {}
    BY <2>2, ClassicIsNode DEF ClassicNodes, ClassicOf, NodesOf
  <2>4. jo' \in Seq(ClassicNode)
    BY <1>11, MaskAssumption DEF BeginLoad, TypeOK
  <2>5. LoadInv'
    BY <2>1, <2>3, <2>4 DEF LoadInv, ElementsUpTo
  <2>6. QED
    BY <2>1, <2>5 DEF CallInv, FindInv, CountInv, TellInv
<1>12. CASE LoadTurn
  <2>1. LoadInv' /\ call' = "load"
    BY <1>12, LoadTurnInv DEF CallInv, LoadTurn
  <2>2. QED
    BY <2>1 DEF CallInv, FindInv, CountInv, TellInv
<1>13. CASE UNCHANGED vars
  BY <1>13 DEF vars, locals, results, CallInv, FindInv, CountInv, TellInv, LoadInv,
     Nodes, ClassicNodes
<1>14. QED
  BY <1>2, <1>3, <1>4, <1>5, <1>6, <1>7, <1>8, <1>9, <1>10, <1>11, <1>12, <1>13 DEF Next

------------------------------------------------------------------------------
(***************************************************************************)
(* The refinement: a change of bits is a change of the set, the last turn  *)
(* of a function is the whole function, and every other step is a stutter. *)
(***************************************************************************)

LEMMA InitRefines == Init => Set!Init
<1>1. Nodes \in SUBSET (1 .. MaxNode)
  BY DEF Nodes, NodesOf, Node
<1>2. QED
  BY <1>1 DEF Init, Set!Init, Set!Node

LEMMA ChangeRefines ==
  ASSUME NEW m, Change(m)
  PROVE  Nodes' = NodesOf(m) /\ told' = <<>> /\ total' = 0 /\ last' = last
BY DEF Change, Nodes

LEMMA ClassicIsClassic == Set!Classic = ClassicNodes
BY ClassicIsPart DEF Set!Classic, ClassicNodes, Nodes

LEMMA StepRefines == TypeOK /\ CallInv /\ [Next]_vars => [Set!Next]_(Set!vars)
<1> SUFFICES ASSUME TypeOK, CallInv, [Next]_vars PROVE [Set!Next]_(Set!vars)
  OBVIOUS
<1>0. mask \in Masks
  BY DEF TypeOK, Masks
<1>1. ASSUME UNCHANGED <<mask, last, told, total>> PROVE UNCHANGED Set!vars
  BY <1>1 DEF Set!vars, Nodes
<1>2. ASSUME NEW n \in Node, SetBit(n) PROVE Set!Next
  <2>1. Change(WithBit(mask, n)) /\ NodesOf(WithBit(mask, n)) = Nodes \cup {n}
    BY <1>0, <1>2, SetBitAdds DEF SetBit, Nodes
  <2>2. Set!Add(n) /\ n \in Set!Node
    BY <2>1, ChangeRefines DEF Set!Add, Set!Change, Set!Node, Node
  <2>3. QED
    BY <2>2 DEF Set!Next
<1>3. ASSUME NEW n \in Node, ClearBit(n) PROVE Set!Next
  <2>1. Change(WithoutBit(mask, n)) /\ NodesOf(WithoutBit(mask, n)) = Nodes \ {n}
    BY <1>0, <1>3, ClearBitRemoves DEF ClearBit, Nodes
  <2>2. Set!Remove(n) /\ n \in Set!Node
    BY <2>1, ChangeRefines DEF Set!Remove, Set!Change, Set!Node, Node
  <2>3. QED
    BY <2>2 DEF Set!Next
<1>4. CASE Clear
  <2>1. Change(Cleared(mask, Length)) /\ NodesOf(Cleared(mask, Length)) = {}
    BY <1>0, <1>4, ClearedNodes DEF Clear
  <2>2. Set!Clear
    BY <2>1, ChangeRefines DEF Set!Clear, Set!Change
  <2>3. QED
    BY <2>2 DEF Set!Next
<1>5. CASE BeginFind
  BY <1>1, <1>5 DEF BeginFind, results
<1>6. CASE FindTurn
  <2>1. CASE NodeIn(at + 1)
    <3>1. last' = at + 1 /\ mask' = mask /\ told' = told /\ total' = total /\ call = "find"
          /\ at < ClassicMax
      BY <1>6, <2>1 DEF FindTurn
    <3>2. at + 1 \in ClassicNodes /\ last <= at /\ at \in Nat /\ last \in Nat
      BY <2>1, <3>1, SizesAreNumbers
      DEF TypeOK, CallInv, FindInv, ClassicNodes, ClassicOf, NodeIn, ClassicNode
    <3>3. \A n \in ClassicNodes : n \in Nat /\ ~(last < n /\ n <= at)
      BY <3>1, SizesAreNumbers DEF CallInv, FindInv, ClassicNodes, ClassicOf, ClassicNode
    <3>4. \A n \in Set!Classic : n > last => last' <= n
      BY <3>1, <3>2, <3>3, ClassicIsClassic
    <3>5. last' \in Set!Classic /\ last' > last
      BY <3>1, <3>2, ClassicIsClassic
    <3>6. Set!Find
      BY <3>1, <3>4, <3>5 DEF Set!Find, Nodes
    <3>7. QED
      BY <3>6 DEF Set!Next
  <2>2. CASE ~NodeIn(at + 1)
    BY <1>1, <1>6, <2>2 DEF FindTurn
  <2>3. QED
    BY <2>1, <2>2
<1>7. CASE FindNone
  <2>1. last' = 0 /\ mask' = mask /\ told' = told /\ total' = total /\ call = "find"
        /\ ~(at < ClassicMax)
    BY <1>7 DEF FindNone
  <2>2. at = ClassicMax /\ last \in Nat
    BY <2>1, SizesAreNumbers DEF TypeOK, CallInv, FindInv
  <2>3. \A n \in ClassicNodes : n \in Nat /\ n <= ClassicMax /\ ~(last < n /\ n <= at)
    BY <2>1, SizesAreNumbers DEF CallInv, FindInv, ClassicNodes, ClassicOf, ClassicNode
  <2>4. \A n \in Set!Classic : n <= last
    BY <2>2, <2>3, ClassicIsClassic
  <2>5. Set!Find
    BY <2>1, <2>4 DEF Set!Find, Nodes
  <2>6. QED
    BY <2>5 DEF Set!Next
<1>8. CASE BeginCount \/ CountTurn \/ BeginTell \/ TellTurn
  BY <1>1, <1>8 DEF BeginCount, CountTurn, BeginTell, TellTurn, results
<1>9. CASE EndCount
  <2>1. total' = count /\ mask' = mask /\ last' = last /\ told' = told /\ call = "count"
        /\ ~(at < MaxNode)
    BY <1>9 DEF EndCount
  <2>2. at = MaxNode
    BY <2>1, SizesAreNumbers DEF TypeOK
  <2>3. UpTo(Nodes, at) = Nodes
    BY <2>2, SizesAreNumbers DEF UpTo, Nodes, NodesOf, Node
  <2>4. total' = Cardinality(Nodes) % CountModulus
    BY <2>1, <2>3 DEF CallInv, CountInv
  <2>5. Nodes' = Nodes
    BY <2>1 DEF Nodes
  <2>6. Set!Count
    <3>1. Set!Cardinality(Nodes) = Cardinality(Nodes)
      BY DEF Set!Cardinality, Cardinality
    <3>2. total' = Set!Cardinality(Nodes) % CountModulus
      BY <2>4, <3>1
    <3>3. QED
      BY <2>1, <2>5, <3>2 DEF Set!Count
  <2>7. QED
    BY <2>6 DEF Set!Next
<1>10. CASE EndTell
  <2>1. told' = jo /\ mask' = mask /\ last' = last /\ total' = total /\ call = "tell"
        /\ ~(at < ClassicMax)
    BY <1>10 DEF EndTell
  <2>2. at = ClassicMax
    BY <2>1, SizesAreNumbers DEF TypeOK, CallInv, TellInv
  <2>3. UpTo(ClassicNodes, at) = ClassicNodes
    BY <2>2, SizesAreNumbers DEF UpTo, ClassicNodes, ClassicOf, ClassicNode
  <2>4. Set!Ascending(jo) /\ ElementsUpTo(jo, Len(jo)) = ClassicNodes
    BY <2>1, <2>3 DEF CallInv, TellInv
  <2>5. {told'[i] : i \in 1 .. Len(told')} = Set!Classic
    BY <2>1, <2>4, ClassicIsClassic DEF ElementsUpTo
  <2>6. jo \in Seq(Set!Node)
    BY ClassicIsNode, SeqMonotonic DEF TypeOK, Set!Node, Node
  <2>7. Set!Tell
    BY <2>1, <2>4, <2>5, <2>6 DEF Set!Tell, Nodes
  <2>8. QED
    BY <2>7 DEF Set!Next
<1>11. CASE BeginLoad
  <2>1. Change(Cleared(mask, ClassicLength))
        /\ NodesOf(Cleared(mask, ClassicLength)) = Nodes \ ClassicNode
    BY <1>0, <1>11, ClearedNodes DEF BeginLoad, Nodes
  <2>2. Nodes \ ClassicNode = Nodes \ Set!Classic
    BY ClassicIsClassic DEF Nodes, ClassicNodes, NodesOf, ClassicOf
  <2>3. Set!Clear
    BY <2>1, <2>2, ChangeRefines DEF Set!Clear, Set!Change
  <2>4. QED
    BY <2>3 DEF Set!Next
<1>12. CASE LoadTurn
  <2>1. jo[at + 1] \in Node
    BY <1>12, ClassicIsNode DEF LoadTurn, TypeOK
  <2>2. Change(WithBit(mask, jo[at + 1]))
        /\ NodesOf(WithBit(mask, jo[at + 1])) = Nodes \cup {jo[at + 1]}
    BY <1>0, <1>12, <2>1, SetBitAdds DEF LoadTurn, Nodes
  <2>3. Set!Add(jo[at + 1]) /\ jo[at + 1] \in Set!Node
    BY <2>1, <2>2, ChangeRefines DEF Set!Add, Set!Change, Set!Node, Node
  <2>4. QED
    BY <2>3 DEF Set!Next
<1>13. CASE EndLoad
  BY <1>1, <1>13 DEF EndLoad, results
<1>14. CASE UNCHANGED vars
  BY <1>1, <1>14 DEF vars, results
<1>15. QED
  BY <1>2, <1>3, <1>4, <1>5, <1>6, <1>7, <1>8, <1>9, <1>10, <1>11, <1>12, <1>13,
     <1>14 DEF Next

LEMMA InitCalls == Init => CallInv
BY DEF Init, CallInv, FindInv, CountInv, TellInv, LoadInv

(* The byte arrays with their shifts and loops are a set of nodes, for     *)
(* every length of mask.                                                   *)
THEOREM MaskIsSet == Spec => ImplementsNodeSet
<1>1. Init => TypeOK /\ CallInv
  BY InitTypes, InitCalls
<1>2. (TypeOK /\ CallInv) /\ [Next]_vars => (TypeOK /\ CallInv)'
  BY NextTypes, CallInvNext
<1>3. Init => Set!Init
  BY InitRefines
<1>4. (TypeOK /\ CallInv) /\ [Next]_vars => [Set!Next]_(Set!vars)
  BY StepRefines
<1>5. QED
  BY <1>1, <1>2, <1>3, <1>4, PTL DEF Spec, ImplementsNodeSet, Set!Spec

(* A loaded array is the classic part of the mask.                         *)
THEOREM ArraysLoad == Spec => []ListLoaded
<1>1. Init => TypeOK /\ CallInv
  BY InitTypes, InitCalls
<1>2. (TypeOK /\ CallInv) /\ [Next]_vars => (TypeOK /\ CallInv)'
  BY NextTypes, CallInvNext
<1>3. TypeOK /\ CallInv => ListLoaded
  <2> SUFFICES ASSUME TypeOK, CallInv, call = "load", ~(at < Len(jo))
               PROVE  ClassicNodes = {jo[i] : i \in 1 .. Len(jo)}
    BY DEF ListLoaded
  <2>1. at \in Nat /\ Len(jo) \in Nat /\ at <= Len(jo)
    BY SizesAreNumbers DEF TypeOK, CallInv, LoadInv
  <2>2. at = Len(jo)
    BY <2>1
  <2>3. QED
    BY <2>2 DEF CallInv, LoadInv, ElementsUpTo
<1>4. QED
  BY <1>1, <1>2, <1>3, PTL DEF Spec

------------------------------------------------------------------------------
(***************************************************************************)
(* A walk over a mask that changes                                         *)
(***************************************************************************)

(* Nodes that stayed are found up to the result at hand; while the walk is *)
(* under way what is in the mask counts as having been there.              *)
WalkInv ==
  /\ walk.seen \subseteq walk.ever
  /\ walk.always \subseteq ClassicNodes
  /\ walk.ended => walk.always \subseteq walk.seen
  /\ \A n \in walk.always : n <= last => n \in walk.seen
  /\ call = "find" \/ last > 0 => ClassicNodes \subseteq walk.ever /\ ~walk.ended

LEMMA ChangeKeepsWalk ==
  ASSUME TypeOK, WalkInv, NEW m \in Masks, Change(m), call' # "find"
  PROVE  WalkInv'
<1>1. /\ walk'.seen = walk.seen /\ walk'.ended = walk.ended
      /\ walk'.always = walk.always \cap ClassicOf(m)
      /\ walk'.ever = walk.ever \cup ClassicOf(m)
      /\ last' = last
  BY DEF Change, WalkSees, Walk
<1>2. ClassicNodes' = ClassicOf(m)
  BY DEF Change, ClassicNodes
<1>3. QED
  BY <1>1, <1>2 DEF WalkInv

LEMMA WalkInvNext == TypeOK /\ CallInv /\ WalkInv /\ [Next]_vars => WalkInv'
<1> SUFFICES ASSUME TypeOK, CallInv, WalkInv, [Next]_vars PROVE WalkInv'
  OBVIOUS
<1>0. mask \in Masks
  BY DEF TypeOK, Masks
<1>1. ASSUME mask' = mask, last' = last, walk' = walk, call = "find" \/ call' # "find"
      PROVE  WalkInv'
  BY <1>1 DEF WalkInv, ClassicNodes
<1>2. ASSUME NEW n \in Node, SetBit(n) PROVE WalkInv'
  <2>1. WithBit(mask, n) \in Masks
    BY <1>0, SetBitAdds
  <2>2. QED
    BY <1>2, <2>1, ChangeKeepsWalk DEF SetBit
<1>3. ASSUME NEW n \in Node, ClearBit(n) PROVE WalkInv'
  <2>1. WithoutBit(mask, n) \in Masks
    BY <1>0, ClearBitRemoves
  <2>2. QED
    BY <1>3, <2>1, ChangeKeepsWalk DEF ClearBit
<1>4. CASE Clear
  <2>1. Cleared(mask, Length) \in Masks
    BY <1>0, ClearedNodes
  <2>2. QED
    BY <1>4, <2>1, ChangeKeepsWalk DEF Clear
<1>5. CASE BeginFind
  <2>1. mask' = mask /\ last' = last /\ ClassicNodes' = ClassicNodes
    BY <1>5 DEF BeginFind, results, ClassicNodes
  <2>2. CASE last = 0
    <3>1. walk'.ended = FALSE /\ walk'.seen = {}
          /\ walk'.always = ClassicNodes /\ walk'.ever = ClassicNodes
      BY <1>5, <2>2 DEF BeginFind, Walk
    <3>2. \A n \in ClassicNodes : ~(n <= 0)
      BY SizesAreNumbers DEF ClassicNodes, ClassicOf, ClassicNode
    <3>3. QED
      BY <2>1, <2>2, <3>1, <3>2 DEF WalkInv
  <2>3. CASE last # 0
    <3>1. last > 0
      BY <2>3, SizesAreNumbers DEF TypeOK
    <3>2. walk' = walk
      BY <1>5, <2>3 DEF BeginFind
    <3>3. QED
      BY <2>1, <3>1, <3>2 DEF WalkInv
  <2>4. QED
    BY <2>2, <2>3
<1>6. CASE FindTurn
  <2>1. CASE NodeIn(at + 1)
    <3>1. /\ mask' = mask /\ last' = at + 1 /\ call' = "none" /\ call = "find"
          /\ at < ClassicMax
          /\ walk'.ended = walk.ended /\ walk'.seen = walk.seen \cup {at + 1}
          /\ walk'.always = walk.always /\ walk'.ever = walk.ever
      BY <1>6, <2>1 DEF FindTurn, Walk, Return
    <3>2. ClassicNodes' = ClassicNodes
      BY <3>1 DEF ClassicNodes
    <3>3. at \in Nat /\ last \in Nat /\ \A n \in ClassicNodes : n \in Nat
      BY SizesAreNumbers DEF TypeOK, ClassicNodes, ClassicOf, ClassicNode
    <3>4. at + 1 \in ClassicNodes
      BY <2>1, <3>1, <3>3, SizesAreNumbers DEF ClassicNodes, ClassicOf, ClassicNode, NodeIn
    <3>5. \A n \in ClassicNodes : ~(last < n /\ n <= at)
      BY <3>1 DEF CallInv, FindInv
    <3>6. \A n \in walk.always : n <= at + 1 => n \in walk.seen \/ n = at + 1
      BY <3>3, <3>5 DEF WalkInv
    <3>7. QED
      BY <3>1, <3>2, <3>4, <3>6 DEF WalkInv
  <2>2. CASE ~NodeIn(at + 1)
    BY <1>1, <1>6, <2>2 DEF FindTurn
  <2>3. QED
    BY <2>1, <2>2
<1>7. CASE FindNone
  <2>1. /\ mask' = mask /\ last' = 0 /\ call' = "none" /\ call = "find"
        /\ ~(at < ClassicMax)
        /\ walk'.ended = TRUE /\ walk'.seen = walk.seen
        /\ walk'.always = walk.always /\ walk'.ever = walk.ever
    BY <1>7 DEF FindNone, Walk, Return
  <2>2. ClassicNodes' = ClassicNodes
    BY <2>1 DEF ClassicNodes
  <2>3. at \in Nat /\ last \in Nat /\ at = ClassicMax
    BY <2>1, SizesAreNumbers DEF TypeOK, CallInv, FindInv
  <2>4. \A n \in ClassicNodes : n \in Nat /\ n <= ClassicMax /\ n > 0
    BY SizesAreNumbers DEF ClassicNodes, ClassicOf, ClassicNode
  <2>5. \A n \in ClassicNodes : ~(last < n /\ n <= at)
    BY <2>1 DEF CallInv, FindInv
  <2>6. \A n \in ClassicNodes : n <= last
    BY <2>3, <2>4, <2>5
  <2>7. walk.always \subseteq walk.seen
    BY <2>6 DEF WalkInv
  <2>8. QED
    BY <2>1, <2>2, <2>7 DEF WalkInv
<1>8. CASE BeginCount \/ CountTurn \/ EndCount
  BY <1>1, <1>8 DEF BeginCount, CountTurn, EndCount, Return, results
<1>9. CASE BeginTell \/ TellTurn \/ EndTell
  BY <1>1, <1>9 DEF BeginTell, TellTurn, EndTell, Return, results
<1>10. CASE BeginLoad
  <2>1. Cleared(mask, ClassicLength) \in Masks
    BY <1>0, ClearedNodes
  <2>2. QED
    BY <1>10, <2>1, ChangeKeepsWalk DEF BeginLoad
<1>11. CASE LoadTurn
  <2>1. jo[at + 1] \in Node
    BY <1>11, ClassicIsNode DEF LoadTurn, TypeOK
  <2>2. WithBit(mask, jo[at + 1]) \in Masks
    BY <1>0, <2>1, SetBitAdds
  <2>3. QED
    BY <1>11, <2>2, ChangeKeepsWalk DEF LoadTurn
<1>12. CASE EndLoad
  BY <1>1, <1>12 DEF EndLoad, Return, results
<1>13. CASE UNCHANGED vars
  BY <1>1, <1>13 DEF vars, results
<1>14. QED
  BY <1>2, <1>3, <1>4, <1>5, <1>6, <1>7, <1>8, <1>9, <1>10, <1>11, <1>12, <1>13
     DEF Next

(* A search repeated from 0 finds each node that stays in the mask, and no *)
(* node that is never there, however the caller changes the mask.          *)
THEOREM WalksComplete == Spec => []WalkFindsNodes
<1>1. Init => TypeOK /\ CallInv
  BY InitTypes, InitCalls
<1>2. (TypeOK /\ CallInv) /\ [Next]_vars => (TypeOK /\ CallInv)'
  BY NextTypes, CallInvNext
<1>3. Init => WalkInv
  BY DEF Init, WalkInv, Walk
<1>4. (TypeOK /\ CallInv) /\ WalkInv /\ [Next]_vars => WalkInv'
  BY WalkInvNext
<1>5. WalkInv => WalkFindsNodes
  BY DEF WalkInv, WalkFindsNodes
<1>6. QED
  BY <1>1, <1>2, <1>3, <1>4, <1>5, PTL DEF Spec
==============================================================================
