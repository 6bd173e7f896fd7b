--------------------------- MODULE SucTableProofs ----------------------------
(***************************************************************************)
(* Theorems about SucTable, for every size of the table, of its files and  *)
(* of its entries.                                                         *)
(***************************************************************************)
EXTENDS SucTable, StorageRulesProofs, FiniteSetTheorems

(* A set of numbers has a least one.                                       *)
LEMMA LeastNumber ==
  ASSUME NEW T, T \subseteq Nat, T # {}
  PROVE  \E x \in T : \A y \in T : x <= y
<1>1. IsWellFoundedOn(OpToRel(<, Nat), Nat)
  BY NatLessThanWellFounded
<1>2. PICK x \in T : \A y \in T : ~ (<<y, x>> \in OpToRel(<, Nat))
  BY <1>1, WFMin
<1>3. ASSUME NEW y \in T PROVE x <= y
  <2>1. ~(y < x)
    BY <1>2 DEF OpToRel
  <2>2. QED
    BY <2>1
<1>4. QED
  BY <1>3

(* A set of numbers has an i-th element for each i up to its cardinality.  *)
LEMMA IthElement ==
  ASSUME NEW N \in Nat, NEW taken \in SUBSET (1 .. N), NEW i \in 1 .. Cardinality(taken)
  PROVE  \E k \in taken : Cardinality({j \in taken : j <= k}) = i
<1> DEFINE upTo(k) == {j \in taken : j <= k}
           enough == {k \in 0 .. N : Cardinality(upTo(k)) >= i}
<1>1. IsFiniteSet(taken) /\ Cardinality(taken) \in Nat
  <2>1. IsFiniteSet(1 .. N)
    BY FS_Interval
  <2>2. IsFiniteSet(taken)
    BY <2>1, FS_Subset
  <2>3. QED
    BY <2>2, FS_CardinalityType
<1>2. ASSUME NEW k \in Int
      PROVE  IsFiniteSet(upTo(k)) /\ Cardinality(upTo(k)) \in Nat
  <2>1. upTo(k) \in SUBSET taken
    OBVIOUS
  <2> HIDE DEF upTo
  <2>2. IsFiniteSet(upTo(k))
    BY <1>1, <2>1, FS_Subset
  <2>3. QED
    BY <2>2, FS_CardinalityType
<1>3. N \in enough
  <2>1. \A j \in taken : j <= N
    OBVIOUS
  <2>2. upTo(N) = taken
    BY <2>1
  <2> HIDE DEF upTo
  <2>3. QED
    BY <1>1, <2>2
<1>4. PICK k \in enough : \A m \in enough : k <= m
  <2>1. enough \subseteq Nat
    OBVIOUS
  <2> HIDE DEF enough
  <2>2. QED
    BY <1>3, <2>1, LeastNumber
<1>5. k \in 0 .. N /\ Cardinality(upTo(k)) >= i
  BY <1>4
<1>6. k # 0
  <2>1. \A j \in taken : ~(j <= 0)
    OBVIOUS
  <2>2. upTo(0) = {}
    BY <2>1
  <2> HIDE DEF upTo
  <2>3. Cardinality(upTo(0)) = 0
    BY <2>2, FS_EmptySet
  <2>4. QED
    BY <1>5, <2>3
<1>7. k - 1 \in 0 .. N /\ ~(Cardinality(upTo(k - 1)) >= i)
  <2> HIDE DEF upTo
  <2>1. k - 1 \in 0 .. N
    BY <1>5, <1>6
  <2>2. k - 1 \notin enough
    <3> HIDE DEF enough
    <3>1. QED
      BY <1>4, <1>5
  <2>3. QED
    BY <2>1, <2>2
<1>8. \A j \in taken : (j <= k) <=> (j <= k - 1 \/ j = k)
  BY <1>5
<1>9. k \in taken
  <2>1. SUFFICES ASSUME k \notin taken PROVE FALSE
    OBVIOUS
  <2>2. upTo(k) = upTo(k - 1)
    BY <1>8, <2>1
  <2> HIDE DEF upTo
  <2>3. QED
    BY <1>5, <1>7, <2>2
<1>10. Cardinality(upTo(k)) = Cardinality(upTo(k - 1)) + 1
  <2>1. upTo(k) = upTo(k - 1) \cup {k}
    BY <1>8, <1>9
  <2>2. k \notin upTo(k - 1)
    BY <1>5
  <2>3. IsFiniteSet(upTo(k - 1))
    <3>1. k - 1 \in Int
      BY <1>5
    <3> HIDE DEF upTo
    <3>2. QED
      BY <1>2, <3>1
  <2> HIDE DEF upTo
  <2>4. QED
    BY <2>1, <2>2, <2>3, FS_AddElement
<1>11. Cardinality(upTo(k)) = i
  <2>1. Cardinality(upTo(k - 1)) \in Nat
    <3>1. k - 1 \in Int
      BY <1>5
    <3> HIDE DEF upTo
    <3>2. QED
      BY <1>2, <3>1
  <2> HIDE DEF upTo
  <2>2. QED
    BY <1>5, <1>7, <1>10, <2>1
<1>12. QED
  BY <1>9, <1>11

(* The classes of an entry are a sequence of its bytes.                    *)
LEMMA ClassesAreBytes ==
  ASSUME NEW info \in [1 .. ParmMax -> Byte], NEW controlled \in BOOLEAN
  PROVE  Classes(info, controlled) \in Seq(Int)
<1> DEFINE taken == {k \in 1 .. ParmMax :
                       info[k] \notin {0, Mark} /\ AfterMark(info, k) = controlled}
           place(i) == CHOOSE k \in taken : Cardinality({j \in taken : j <= k}) = i
<1>1. taken \in SUBSET (1 .. ParmMax) /\ ParmMax \in Nat
  BY SizesAssumption
<1>2. Cardinality(taken) \in Nat
  <2> HIDE DEF taken
  <2>1. IsFiniteSet(1 .. ParmMax)
    BY <1>1, FS_Interval
  <2>2. IsFiniteSet(taken)
    BY <1>1, <2>1, FS_Subset
  <2>3. QED
    BY <2>2, FS_CardinalityType
<1>3. ASSUME NEW i \in 1 .. Cardinality(taken) PROVE info[place(i)] \in Int
  <2>1. \E k \in taken : Cardinality({j \in taken : j <= k}) = i
    <3> HIDE DEF taken
    <3>1. QED
      BY <1>1, IthElement
  <2>2. place(i) \in taken
    <3> HIDE DEF taken
    <3>1. QED
      BY <2>1
  <2>3. place(i) \in 1 .. ParmMax
    BY <1>1, <2>2
  <2>4. QED
    BY <2>3 DEF Byte
<1>4. Classes(info, controlled) = [i \in 1 .. Cardinality(taken) |-> info[place(i)]]
  BY DEF Classes
<1>5. Classes(info, controlled) \in [1 .. Cardinality(taken) -> Int]
  BY <1>3, <1>4
<1> HIDE DEF taken
<1>6. QED
  BY <1>2, <1>5

LEMMA ListedIsUpdate ==
  ASSUME NEW e \in Entry
  PROVE  Listed(e) \in Update
<1>1. e.nodeInfo \in [1 .. ParmMax -> Byte] /\ e.NodeID \in Int /\ e.changeType \in Int
  BY DEF Entry, Byte
<1>2. Classes(e.nodeInfo, FALSE) \in Seq(Int) /\ Classes(e.nodeInfo, TRUE) \in Seq(Int)
  BY <1>1, ClassesAreBytes
<1>3. QED
  BY <1>1, <1>2 DEF Listed, Update

LEMMA BytesOf ==
  ASSUME NEW n \in Int
  PROVE  AsByte(n) \in Byte
<1>1. ByteModulus \in Nat /\ ByteModulus > 0
  BY SizesAssumption
<1>2. n % ByteModulus \in 0 .. ByteModulus - 1
  BY <1>1
<1>3. QED
  BY <1>2 DEF AsByte, Byte

LEMMA PackedIsEntry ==
  ASSUME NEW u \in Update
  PROVE  Packed(u) \in Entry
<1> DEFINE bytes == AsBytes(u.supportedCCs) \o <<Mark>> \o AsBytes(u.controlledCCs)
<1>1. /\ u.nodeId \in Int /\ u.changeType \in Int
      /\ u.supportedCCs \in Seq(Int) /\ u.controlledCCs \in Seq(Int)
  BY DEF Update
<1>2. ASSUME NEW ns \in Seq(Int) PROVE AsBytes(ns) \in Seq(Byte)
  <2>1. Len(ns) \in Nat /\ \A k \in 1 .. Len(ns) : ns[k] \in Int
    OBVIOUS
  <2>2. \A k \in 1 .. Len(ns) : AsByte(ns[k]) \in Byte
    BY <2>1, BytesOf
  <2>3. AsBytes(ns) \in [1 .. Len(ns) -> Byte]
    BY <2>2 DEF AsBytes
  <2>4. QED
    BY <2>1, <2>3
<1>3. <<Mark>> \in Seq(Byte)
  BY SizesAssumption DEF Byte
<1>4. bytes \in Seq(Byte)
  BY <1>1, <1>2, <1>3, ConcatProperties
<1>5. 0 \in Byte
  BY SizesAssumption DEF Byte
<1> HIDE DEF bytes
<1>6. [k \in 1 .. ParmMax |-> IF k <= Len(bytes) THEN bytes[k] ELSE 0] \in [1 .. ParmMax -> Byte]
  <2>1. ASSUME NEW k \in 1 .. ParmMax, k <= Len(bytes) PROVE bytes[k] \in Byte
    BY <1>4, <2>1
  <2>2. QED
    BY <2>1, <1>5
<1>7. Packed(u) = [NodeID |-> AsByte(u.nodeId), changeType |-> AsByte(u.changeType),
                   nodeInfo |-> [k \in 1 .. ParmMax |-> IF k <= Len(bytes) THEN bytes[k] ELSE 0]]
  BY Zenon DEF Packed, bytes
<1>8. AsByte(u.nodeId) \in Byte /\ AsByte(u.changeType) \in Byte
  BY <1>1, BytesOf
<1>9. QED
  BY <1>6, <1>7, <1>8 DEF Entry

LEMMA FillsAreEntries == ZeroEntry \in Entry /\ UnusedEntry \in Entry
<1>1. 0 \in Byte /\ ByteModulus - 1 \in Byte
  BY SizesAssumption DEF Byte
<1>2. ASSUME NEW b \in Byte PROVE Filled(b) \in Entry
  BY DEF Filled, Entry
<1>3. QED
  BY <1>1, <1>2 DEF ZeroEntry, UnusedEntry

(* Division, and that it has no remainder when a number divides itself.    *)
LEMMA Division ==
  ASSUME NEW n \in Int, NEW d \in Nat \ {0}
  PROVE  n = d * (n \div d) + (n % d) /\ n % d \in 0 .. d - 1 /\ n \div d \in Int
<1>1. n % d \in 0 .. d - 1 /\ n \div d \in Int
  OBVIOUS
<1>2. n = d * (n \div d) + (n % d)
  OBVIOUS
<1>3. QED
  BY <1>1, <1>2

LEMMA SelfDivision ==
  ASSUME NEW d \in Nat \ {0}
  PROVE  d % d = 0
<1>1. d = d * (d \div d) + (d % d) /\ d % d \in 0 .. d - 1 /\ d \div d \in Int
  BY Division
<1>2. ASSUME NEW q \in Int, NEW r \in 0 .. d - 1, d = d * q + r
      PROVE  r = 0
  <2>1. CASE q <= 0
    <3>1. d * q <= 0
      BY <2>1
    <3>2. QED
      BY <1>2, <3>1
  <2>2. CASE q >= 2
    <3>1. d * q >= d * 2
      BY <2>2
    <3>2. QED
      BY <1>2, <3>1
  <2>3. CASE q = 1
    BY <1>2, <2>3
  <2>4. QED
    BY <2>1, <2>2, <2>3
<1>3. QED
  BY <1>1, <1>2

LEMMA SlotsArePositive ==
  ASSUME NEW g \in FileForm
  PROVE  SlotsPerFile(g) \in Nat \ {0}
BY SizesAssumption DEF FileForm, SlotsPerFile

(* The files have no slot beyond the table.                                *)
LEMMA SlotsAreInTable ==
  ASSUME NEW g \in FileForm, NEW f \in Files(g), NEW s \in SlotsOf(g)
  PROVE  RecordAt(f, s, SlotsPerFile(g)) \in Place
<1> DEFINE per == SlotsPerFile(g)
           q == MaxUpdates \div per
<1>1. per \in Nat \ {0} /\ MaxUpdates % per = 0
  <2>1. MaxUpdates % MaxUpdates = 0 /\ MaxUpdates % PerFile = 0
    BY SelfDivision, SizesAssumption
  <2>2. QED
    BY <2>1, SlotsArePositive DEF SlotsPerFile
<1> HIDE DEF per
<1>2. MaxUpdates \in Nat /\ q \in Int /\ MaxUpdates = per * q + (MaxUpdates % per)
  BY SizesAssumption, <1>1, Division
<1>3. MaxUpdates = per * q
  BY <1>1, <1>2
<1> HIDE DEF q
<1>4. FileOf(MaxUpdates, per) <= q - 1
  <2>1. MaxUpdates - 1 = per * FileOf(MaxUpdates, per) + ((MaxUpdates - 1) % per)
        /\ (MaxUpdates - 1) % per \in 0 .. per - 1 /\ FileOf(MaxUpdates, per) \in Int
    <3>1. MaxUpdates - 1 \in Int
      BY <1>2
    <3>2. QED
      BY <1>1, <3>1, Division DEF FileOf
  <2>2. per * FileOf(MaxUpdates, per) < per * q
    BY <1>3, <2>1, <1>1, <1>2
  <2>3. FileOf(MaxUpdates, per) < q
    BY <1>1, <1>2, <2>1, <2>2
  <2>4. QED
    BY <2>1, <2>3, <1>2
<1>5. f \in Nat /\ f <= q - 1 /\ s \in 0 .. per - 1
  <2>1. FileOf(MaxUpdates, per) \in Int
    <3>1. MaxUpdates - 1 \in Int
      BY <1>2
    <3>2. QED
      BY <1>1, <3>1 DEF FileOf
  <2>2. QED
    BY <1>4, <2>1, <1>2 DEF Files, FileNumbers, SlotsOf, per
<1>6. f * per <= (q - 1) * per
  <2>1. ASSUME NEW a \in Int, NEW b \in Int, NEW c \in Nat, a <= b PROVE a * c <= b * c
    BY <2>1
  <2>2. QED
    BY <1>1, <1>2, <1>5, <2>1
<1>7. (q - 1) * per = MaxUpdates - per
  BY <1>1, <1>2, <1>3
<1>8. f * per \in Nat
  BY <1>1, <1>5
<1>9. f * per + s + 1 \in 1 .. MaxUpdates
  <2>1. f * per <= MaxUpdates - per
    BY <1>6, <1>7
  <2>2. MaxUpdates \in Nat /\ per \in Nat /\ s \in 0 .. per - 1
    BY <1>1, <1>2, <1>5
  <2> DEFINE fp == f * per
  <2>3. fp \in Nat /\ fp <= MaxUpdates - per
    BY <1>8, <2>1
  <2> HIDE DEF fp
  <2>4. fp + s + 1 \in 1 .. MaxUpdates
    BY <2>2, <2>3
  <2>5. QED
    BY <2>4 DEF fp
<1>10. QED
  BY <1>9 DEF RecordAt, Place, per

------------------------------------------------------------------------------
(***************************************************************************)
(* Types                                                                   *)
(***************************************************************************)

LEMMA ContentsAreEntries ==
  ASSUME TypeOK, NEW f \in Files(generation)
  PROVE  FileContents(f) \in [SlotsOf(generation) -> Entry]
<1>1. ASSUME NEW i \in Place, i <= Len(doc) PROVE Packed(doc[i]) \in Entry
  <2>1. doc[i] \in Update
    BY <1>1 DEF TypeOK, Place
  <2>2. QED
    BY <2>1, PackedIsEntry
<1>2. \A s \in SlotsOf(generation) : RecordAt(f, s, SlotsPerFile(generation)) \in Place
  BY SlotsAreInTable DEF TypeOK
<1>3. QED
  BY <1>1, <1>2, FillsAreEntries DEF FileContents

LEMMA BlanksAreEntries ==
  ASSUME NEW g \in FileForm
  PROVE  BlankFiles(g) \in [Files(g) -> [SlotsOf(g) -> Entry]]
BY FillsAreEntries DEF BlankFiles

LEMMA InitTypes == Init => TypeOK
<1> SUFFICES ASSUME Init PROVE TypeOK
  OBVIOUS
<1>1. CASE DocumentInit
  <2>1. generation \in FileForm /\ doc \in Seq(Update) /\ given \in Seq(Update)
    BY <1>1, InputAssumption DEF DocumentInit
  <2>2. file \in [Files(generation) -> [SlotsOf(generation) -> Entry]]
    BY <1>1, <2>1, BlanksAreEntries DEF DocumentInit
  <2>3. trips \in 0 .. MaxTrips
    BY <1>1, SizesAssumption DEF DocumentInit
  <2>4. QED
    BY <1>1, <2>1, <2>2, <2>3 DEF DocumentInit, Init, TypeOK
<1>2. CASE DeviceInit
  <2>1. generation \in FileForm
    BY <1>2 DEF DeviceInit
  <2>2. file \in [Files(generation) -> [SlotsOf(generation) -> Entry]]
    BY <1>2, SlotsAreInTable, InputAssumption DEF DeviceInit
  <2>3. trips \in 0 .. MaxTrips
    BY <1>2, SizesAssumption DEF DeviceInit
  <2>4. doc \in Seq(Update) /\ given \in Seq(Update)
    BY <1>2, EmptySeq DEF DeviceInit
  <2>5. QED
    BY <1>2, <2>1, <2>2, <2>3, <2>4 DEF DeviceInit, Init, TypeOK
<1>3. QED
  BY <1>1, <1>2 DEF Init

(* What the exporter reads of a place is an entry.                         *)
LEMMA ReadIsEntry ==
  ASSUME TypeOK, NEW p \in Place
  PROVE  Read(p) \in Entry
<1>1. FileAt(p) \in Files(generation) /\ SlotAt(p) \in SlotsOf(generation)
  BY SizesAssumption, PlaceInTable, SlotsArePositive DEF TypeOK, FileAt, SlotAt, Files, SlotsOf, Place
<1>2. file[FileAt(p)][SlotAt(p)] \in Entry
  BY <1>1 DEF TypeOK
<1>3. QED
  BY <1>2, FillsAreEntries DEF Read, Held

LEMMA NextTypes == TypeOK /\ [Next]_vars => TypeOK'
<1> SUFFICES ASSUME TypeOK, [Next]_vars PROVE TypeOK'
  OBVIOUS
<1>1. CASE StoreFile
  <2>1. at \in Files(generation)
    BY <1>1 DEF StoreFile, HasFile
  <2>2. FileContents(at) \in [SlotsOf(generation) -> Entry]
    BY <2>1, ContentsAreEntries
  <2>3. file' \in [Files(generation) -> [SlotsOf(generation) -> Entry]]
    BY <1>1, <2>1, <2>2 DEF StoreFile, TypeOK
  <2>4. present' \subseteq Files(generation) /\ damaged' \subseteq present'
    BY <1>1, <2>1 DEF StoreFile, TypeOK
  <2>5. importError' \in BOOLEAN
    BY <1>1 DEF StoreFile, TypeOK
  <2>6. QED
    BY <1>1, <2>3, <2>4, <2>5 DEF StoreFile, TypeOK
<1>2. CASE EndImport
  BY <1>2 DEF EndImport, nvmVars, TypeOK
<1>3. CASE BeginExport
  BY <1>3, EmptySeq DEF BeginExport, nvmVars, TypeOK
<1>4. CASE ExportPlace
  <2>1. Listed(Read(at)) \in Update
    BY <1>4, ReadIsEntry, ListedIsUpdate DEF ExportPlace
  <2>2. doc' \in Seq(Update)
    BY <1>4, <2>1, AppendProperties DEF ExportPlace, TypeOK
  <2>3. exportError' \in BOOLEAN
    BY <1>4 DEF ExportPlace, TypeOK
  <2>4. QED
    BY <1>4, <2>2, <2>3 DEF ExportPlace, nvmVars, TypeOK
<1>5. CASE EndExport
  BY <1>5 DEF EndExport, nvmVars, TypeOK
<1>6. CASE BeginImport
  <2>1. generation' \in FileForm
    BY <1>6 DEF BeginImport, TypeOK, FileForm
  <2>2. file' \in [Files(generation') -> [SlotsOf(generation') -> Entry]]
    BY <1>6, <2>1, BlanksAreEntries DEF BeginImport
  <2>3. trips' \in 0 .. MaxTrips
    BY <1>6, SizesAssumption DEF BeginImport, TypeOK
  <2>4. QED
    BY <1>6, <2>1, <2>2, <2>3 DEF BeginImport, TypeOK
<1>7. CASE UNCHANGED vars
  BY <1>7 DEF vars, nvmVars, TypeOK
<1>8. QED
  BY <1>1, <1>2, <1>3, <1>4, <1>5, <1>6, <1>7 DEF Next

(* The variables always have their types, whatever numbers the documents   *)
(* hold: every stored entry is made of bytes.                              *)
THEOREM TypeCorrect == Spec => []TypeOK
<1>1. Init => TypeOK
  BY InitTypes
<1>2. TypeOK /\ [Next]_vars => TypeOK'
  BY NextTypes
<1>3. QED
  BY <1>1, <1>2, PTL DEF Spec

------------------------------------------------------------------------------
(***************************************************************************)
(* What the importer stores                                                *)
(*                                                                         *)
(* While an array is imported and until it is exported, each file there is *)
(* holds its part of the array; the file being written is not there yet.   *)
(***************************************************************************)

StoredFiles ==
  stage \in {"import", "stored"} /\ trips > 0 =>
    \A f \in present : f \in Files(generation) /\ file[f] = FileContents(f)

LEMMA StoredFilesInit == Init => StoredFiles
BY DEF Init, DocumentInit, DeviceInit, StoredFiles

LEMMA StoredFilesNext == TypeOK /\ StoredFiles /\ [Next]_vars => StoredFiles'
<1> SUFFICES ASSUME TypeOK, StoredFiles, [Next]_vars PROVE StoredFiles'
  OBVIOUS
<1>1. CASE StoreFile
  <2>1. at \in Files(generation) /\ generation' = generation /\ doc' = doc
    BY <1>1 DEF StoreFile, HasFile
  <2>2. \A f \in Files(generation) : FileContents(f)' = FileContents(f)
    BY <2>1 DEF FileContents
  <2>3. SUFFICES ASSUME trips > 0, NEW f \in present'
                 PROVE  f \in Files(generation) /\ file'[f] = FileContents(f)
    BY <1>1, <2>1, <2>2 DEF StoreFile, StoredFiles
  <2>4. \A g \in present : g \in Files(generation) /\ file[g] = FileContents(g)
    BY <1>1, <2>3 DEF StoredFiles, StoreFile
  <2>5. CASE file' = file /\ present' = present
    BY <2>4, <2>5
  <2>6. CASE file' = [file EXCEPT ![at] = FileContents(at)] /\ present' = present \cup {at}
    BY <2>1, <2>4, <2>6 DEF TypeOK
  <2>7. QED
    BY <1>1, <2>5, <2>6 DEF StoreFile
<1>2. CASE EndImport
  BY <1>2 DEF EndImport, nvmVars, StoredFiles, FileContents
<1>3. CASE BeginExport
  BY <1>3 DEF BeginExport, StoredFiles
<1>4. CASE ExportPlace
  BY <1>4 DEF ExportPlace, StoredFiles
<1>5. CASE EndExport
  BY <1>5 DEF EndExport, StoredFiles
<1>6. CASE BeginImport
  BY <1>6 DEF BeginImport, StoredFiles
<1>7. CASE UNCHANGED vars
  BY <1>7 DEF vars, nvmVars, StoredFiles, FileContents
<1>8. QED
  BY <1>1, <1>2, <1>3, <1>4, <1>5, <1>6, <1>7 DEF Next

LEMMA StoredFilesPlaces == TypeOK /\ StoredFiles => StoredAtOwnPlace
<1> SUFFICES ASSUME TypeOK, StoredFiles, stage \in {"import", "stored"}, trips > 0,
                    NEW p \in Place, FileAt(p) \in present
             PROVE  Held(p) = IF p <= Len(doc) THEN Packed(doc[p]) ELSE UnusedEntry
  BY DEF StoredAtOwnPlace, Held
<1> DEFINE per == SlotsPerFile(generation)
<1>1. per \in Nat \ {0} /\ p \in Nat \ {0}
  BY SlotsArePositive DEF TypeOK, Place
<1>2. SlotAt(p) \in SlotsOf(generation)
  BY <1>1, SizesAssumption, PlaceInTable DEF SlotAt, SlotsOf, Place
<1>3. RecordAt(FileAt(p), SlotAt(p), per) = p
  BY <1>1, PlaceInverse DEF FileAt, SlotAt
<1>4. Held(p) = FileContents(FileAt(p))[SlotAt(p)]
  BY DEF StoredFiles, Held
<1>5. QED
  BY <1>2, <1>3, <1>4 DEF FileContents

(* Entry i of an array is stored at place i and nowhere else, whatever the *)
(* sizes of the table and of its files.                                    *)
THEOREM PlacesCorrect == Spec => []StoredAtOwnPlace
<1>1. Init => TypeOK /\ StoredFiles
  BY InitTypes, StoredFilesInit
<1>2. (TypeOK /\ StoredFiles) /\ [Next]_vars => (TypeOK /\ StoredFiles)'
  BY NextTypes, StoredFilesNext
<1>3. TypeOK /\ StoredFiles => StoredAtOwnPlace
  BY StoredFilesPlaces
<1>4. QED
  BY <1>1, <1>2, <1>3, PTL DEF Spec

------------------------------------------------------------------------------
(***************************************************************************)
(* What the exporter lists                                                 *)
(*                                                                         *)
(* At each place the array has the places in use before it, in order.      *)
(***************************************************************************)

Listing(n) ==
  /\ Len(doc) = Cardinality(UsedUpTo(n))
  /\ \A p \in 1 .. n : Used(p) => doc[Rank(p)] = Listed(Read(p))

ExportProgress ==
  /\ stage = "export" => at \in 1 .. MaxUpdates + 1 /\ Listing(at - 1)
  /\ stage = "exported" => Listing(MaxUpdates)

LEMMA UsedIsFinite ==
  ASSUME NEW n \in Int
  PROVE  IsFiniteSet(UsedUpTo(n)) /\ Cardinality(UsedUpTo(n)) \in Nat
<1>1. IsFiniteSet(1 .. n)
  BY FS_Interval
<1>2. UsedUpTo(n) \in SUBSET (1 .. n)
  BY DEF UsedUpTo
<1>3. IsFiniteSet(UsedUpTo(n))
  BY <1>1, <1>2, FS_Subset
<1>4. QED
  BY <1>3, FS_CardinalityType

(* A place in use has a number between one and the number of places.       *)
LEMMA RankInRange ==
  ASSUME NEW n \in Nat, NEW p \in 1 .. n, Used(p)
  PROVE  Rank(p) \in 1 .. Cardinality(UsedUpTo(n))
<1>1. UsedUpTo(p) \in SUBSET UsedUpTo(n) /\ p \in UsedUpTo(p)
  BY DEF UsedUpTo
<1>2. Cardinality(UsedUpTo(p)) <= Cardinality(UsedUpTo(n))
  BY <1>1, UsedIsFinite, FS_Subset
<1>3. Cardinality(UsedUpTo(p)) # 0
  BY <1>1, UsedIsFinite, FS_EmptySet
<1>4. QED
  BY <1>2, <1>3, UsedIsFinite DEF Rank

LEMMA NextPlaceUsed ==
  ASSUME NEW n \in Nat \ {0}
  PROVE  Cardinality(UsedUpTo(n)) =
           IF Used(n) THEN Cardinality(UsedUpTo(n - 1)) + 1 ELSE Cardinality(UsedUpTo(n - 1))
<1>1. \A p \in 1 .. n : p \in 1 .. n - 1 \/ p = n
  OBVIOUS
<1>2. n \notin UsedUpTo(n - 1) /\ IsFiniteSet(UsedUpTo(n - 1))
  BY UsedIsFinite DEF UsedUpTo
<1>3. CASE Used(n)
  <2>1. UsedUpTo(n) = UsedUpTo(n - 1) \cup {n}
    BY <1>1, <1>3 DEF UsedUpTo
  <2>2. QED
    BY <1>2, <1>3, <2>1, FS_AddElement
<1>4. CASE ~Used(n)
  <2>1. UsedUpTo(n) = UsedUpTo(n - 1)
    BY <1>1, <1>4 DEF UsedUpTo
  <2>2. QED
    BY <1>4, <2>1
<1>5. QED
  BY <1>3, <1>4

LEMMA TableUnchanged ==
  ASSUME UNCHANGED nvmVars
  PROVE  /\ \A p : Used(p)' = Used(p) /\ Read(p)' = Read(p) /\ Rank(p)' = Rank(p)
         /\ \A n : UsedUpTo(n)' = UsedUpTo(n)
<1>1. \A p : Read(p)' = Read(p)
  BY DEF nvmVars, Read, Held, FileAt, SlotAt
<1>2. \A p : Used(p)' = Used(p)
  BY <1>1 DEF Used
<1>3. \A n : UsedUpTo(n)' = UsedUpTo(n)
  BY <1>2 DEF UsedUpTo
<1>4. QED
  BY <1>1, <1>2, <1>3 DEF Rank

LEMMA ExportPlaceProgress ==
  ASSUME TypeOK, ExportProgress, ExportPlace
  PROVE  ExportProgress'
<1>1. at \in Place /\ at' = at + 1 /\ stage = "export" /\ stage' = "export" /\ UNCHANGED nvmVars
  BY DEF ExportPlace
<1>2. Listing(at - 1) /\ at \in Nat \ {0} /\ at - 1 \in Nat
  BY <1>1 DEF ExportProgress, Place
<1>3. doc \in Seq(Update) /\ Len(doc) \in Nat
  BY DEF TypeOK
<1>4. Listed(Read(at)) \in Update
  BY <1>1, ReadIsEntry, ListedIsUpdate
<1>5. Len(doc') = Cardinality(UsedUpTo(at))
  BY <1>2, <1>3, <1>4, NextPlaceUsed, AppendProperties DEF ExportPlace, Listing, Used
<1>6. ASSUME NEW p \in 1 .. at, Used(p)
      PROVE  doc'[Rank(p)] = Listed(Read(p))
  <2>1. CASE p \in 1 .. at - 1
    <3>1. Rank(p) \in 1 .. Len(doc)
      BY <1>2, <1>6, <2>1, RankInRange DEF Listing
    <3>2. doc[Rank(p)] = Listed(Read(p))
      BY <1>2, <1>6, <2>1 DEF Listing
    <3>3. doc'[Rank(p)] = doc[Rank(p)]
      BY <1>3, <1>4, <3>1, AppendProperties DEF ExportPlace
    <3>4. QED
      BY <3>2, <3>3
  <2>2. CASE p = at
    <3>1. doc' = Append(doc, Listed(Read(at)))
      BY <1>6, <2>2 DEF ExportPlace, Used
    <3>2. Rank(at) = Len(doc) + 1
      BY <1>2, <1>6, <2>2, NextPlaceUsed DEF Rank, Listing
    <3>3. QED
      BY <1>3, <1>4, <2>2, <3>1, <3>2, AppendProperties
  <2>3. QED
    BY <1>2, <2>1, <2>2
<1>7. at' \in 1 .. MaxUpdates + 1 /\ at' - 1 = at
  BY <1>1, SizesAssumption DEF Place
<1>8. QED
  BY <1>1, <1>5, <1>6, <1>7, TableUnchanged DEF ExportProgress, Listing

LEMMA ExportProgressNext == TypeOK /\ ExportProgress /\ [Next]_vars => ExportProgress'
<1> SUFFICES ASSUME TypeOK, ExportProgress, [Next]_vars PROVE ExportProgress'
  OBVIOUS
<1>1. CASE StoreFile
  BY <1>1 DEF StoreFile, ExportProgress
<1>2. CASE EndImport
  BY <1>2 DEF EndImport, ExportProgress
<1>3. CASE BeginExport
  <2>1. stage' = "export" /\ at' = 1 /\ doc' = <<>> /\ UNCHANGED nvmVars
    BY <1>3 DEF BeginExport
  <2>2. 1 .. 0 = {} /\ UsedUpTo(0) = {}
    BY DEF UsedUpTo
  <2>3. Len(doc') = Cardinality(UsedUpTo(0))
    BY <2>1, <2>2, FS_EmptySet, EmptySeq
  <2>4. at' \in 1 .. MaxUpdates + 1 /\ at' - 1 = 0
    BY <2>1, SizesAssumption
  <2>5. QED
    BY <2>1, <2>2, <2>3, <2>4, TableUnchanged DEF ExportProgress, Listing
<1>4. CASE ExportPlace
  BY <1>4, ExportPlaceProgress
<1>5. CASE EndExport
  <2>1. at \in 1 .. MaxUpdates + 1 /\ at \notin Place /\ Listing(at - 1)
    BY <1>5 DEF EndExport, ExportProgress
  <2>2. at - 1 = MaxUpdates
    BY <2>1, SizesAssumption DEF Place
  <2>3. Listing(MaxUpdates)
    BY <2>1, <2>2
  <2>4. UNCHANGED nvmVars /\ doc' = doc /\ stage' = "exported"
    BY <1>5 DEF EndExport
  <2>5. QED
    BY <2>3, <2>4, TableUnchanged DEF ExportProgress, Listing
<1>6. CASE BeginImport
  BY <1>6 DEF BeginImport, ExportProgress
<1>7. CASE UNCHANGED vars
  <2>1. UNCHANGED nvmVars /\ UNCHANGED <<doc, stage, at>>
    BY <1>7 DEF vars
  <2>2. QED
    BY <2>1, TableUnchanged DEF ExportProgress, Listing
<1>8. QED
  BY <1>1, <1>2, <1>3, <1>4, <1>5, <1>6, <1>7 DEF Next

(* The exported array is the table without its empty places, in order, for *)
(* every table and every set of files that are missing or unreadable.      *)
THEOREM ListingCorrect == Spec => []DocumentListsTable
<1>1. Init => TypeOK /\ ExportProgress
  BY InitTypes DEF Init, DocumentInit, DeviceInit, ExportProgress
<1>2. (TypeOK /\ ExportProgress) /\ [Next]_vars => (TypeOK /\ ExportProgress)'
  BY NextTypes, ExportProgressNext
<1>3. ExportProgress => DocumentListsTable
  BY DEF ExportProgress, Listing, DocumentListsTable, Rank, Place
<1>4. QED
  BY <1>1, <1>2, <1>3, PTL DEF Spec
------------------------------------------------------------------------------
(***************************************************************************)
(* An update and its entry                                                 *)
(***************************************************************************)

(* The places of an entry whose classes are listed as supported ones, or   *)
(* as controlled ones.                                                     *)
Taken(info, controlled) ==
  {k \in 1 .. ParmMax : info[k] \notin {0, Mark} /\ AfterMark(info, k) = controlled}

LEMMA ClassesTaken ==
  ASSUME NEW info, NEW controlled
  PROVE  Classes(info, controlled) =
           [i \in 1 .. Cardinality(Taken(info, controlled)) |->
              info[CHOOSE k \in Taken(info, controlled) :
                     Cardinality({j \in Taken(info, controlled) : j <= k}) = i]]
BY DEF Classes, Taken

(* If they are a run of places, the classes there are listed in order.     *)
LEMMA ClassesOfRun ==
  ASSUME NEW info, NEW controlled, NEW list \in Seq(Int),
         NEW a \in Nat \ {0}, NEW b \in Int, b = a + Len(list) - 1,
         Taken(info, controlled) = a .. b,
         \A i \in 1 .. Len(list) : info[a + i - 1] = list[i]
  PROVE  Classes(info, controlled) = list
<1> DEFINE n == Len(list)
           taken == Taken(info, controlled)
           place(i) == CHOOSE k \in taken : Cardinality({j \in taken : j <= k}) = i
<1>1. /\ n \in Nat /\ list = [i \in 1 .. n |-> list[i]] /\ b = a + n - 1
      /\ \A i \in 1 .. n : info[a + i - 1] = list[i]
  OBVIOUS
<1>2. Classes(info, controlled) = [i \in 1 .. Cardinality(taken) |-> info[place(i)]]
  BY ClassesTaken
<1>3. taken = a .. b
  OBVIOUS
<1> HIDE DEF n, taken
<1>4. Cardinality(taken) = n
  <2>1. a \in Int /\ b \in Int /\ (a > b => n = 0) /\ (a <= b => n = b - a + 1)
    BY <1>1
  <2>2. Cardinality(a .. b) = IF a > b THEN 0 ELSE b - a + 1
    BY <2>1, FS_Interval, Zenon
  <2> QED
    BY <1>3, <2>1, <2>2
<1>5. ASSUME NEW k \in taken
      PROVE  Cardinality({j \in taken : j <= k}) = k - a + 1
  <2>1. {j \in taken : j <= k} = a .. k
    BY <1>3
  <2>2. a \in Int /\ k \in Int /\ a <= k
    BY <1>3
  <2>3. Cardinality(a .. k) = k - a + 1
    BY <2>2, FS_Interval
  <2> QED
    BY <2>1, <2>3
<1>6. ASSUME NEW i \in 1 .. n
      PROVE  place(i) = a + i - 1
  <2>1. a + i - 1 \in taken /\ (a + i - 1) - a + 1 = i
    BY <1>1, <1>3
  <2>2. \A k \in taken : k - a + 1 = i => k = a + i - 1
    BY <1>1, <1>3
  <2>3. Cardinality({j \in taken : j <= a + i - 1}) = i
    BY <1>5, <2>1
  <2>4. \A k \in taken : Cardinality({j \in taken : j <= k}) = i => k = a + i - 1
    BY <1>5, <2>2
  <2> QED
    BY <2>1, <2>3, <2>4
<1> HIDE DEF place
<1> QED
  BY <1>1, <1>2, <1>4, <1>6

LEMMA BytesKept ==
  ASSUME NEW n \in Byte
  PROVE  AsByte(n) = n
<1>1. ByteModulus \in Nat \ {0} /\ n \in 0 .. ByteModulus - 1
  BY SizesAssumption DEF Byte
<1>2. n % ByteModulus = n
  BY <1>1
<1> QED
  BY <1>2 DEF AsByte

(* The bytes of an entry whose update fits.                                *)
LEMMA PackedBytes ==
  ASSUME NEW u \in Update, Fits(u)
  PROVE  LET s == u.supportedCCs
             c == u.controlledCCs
             info == Packed(u).nodeInfo
         IN  /\ s \in Seq(Int) /\ c \in Seq(Int)
             /\ \A k \in 1 .. Len(s) : s[k] \notin {0, Mark}
             /\ \A k \in 1 .. Len(c) : c[k] \notin {0, Mark}
             /\ \/ Len(s) + Len(c) < ParmMax
                \/ Len(s) = ParmMax /\ c = <<>>
             /\ \A k \in 1 .. ParmMax :
                  info[k] = IF k <= Len(s) THEN s[k]
                            ELSE IF k = Len(s) + 1 THEN Mark
                            ELSE IF k <= Len(s) + 1 + Len(c) THEN c[k - Len(s) - 1]
                            ELSE 0
             /\ Packed(u).NodeID = u.nodeId /\ Packed(u).changeType = u.changeType
<1> DEFINE s == u.supportedCCs
           c == u.controlledCCs
           bytes == AsBytes(s) \o <<Mark>> \o AsBytes(c)
<1>1. s \in Seq(Int) /\ c \in Seq(Int) /\ u.nodeId \in Byte /\ u.changeType \in Byte
  BY DEF Update, Fits, IsByte
<1>2. Len(s) \in Nat /\ Len(c) \in Nat
  BY <1>1
<1>0. Len(s \o c) = Len(s) + Len(c)
      /\ \A k \in 1 .. Len(s) + Len(c) :
           (s \o c)[k] = IF k <= Len(s) THEN s[k] ELSE c[k - Len(s)]
  BY <1>1, ConcatProperties
<1>3. \A k \in 1 .. Len(s) + Len(c) : (s \o c)[k] \in Byte /\ (s \o c)[k] \notin {0, Mark}
  <2> QED
    BY <1>0 DEF Fits, Elements, IsByte
<1>4. \A k \in 1 .. Len(s) : s[k] \in Byte /\ s[k] \notin {0, Mark}
  <2> HIDE DEF s, c
  <2>1. \A k \in 1 .. Len(s) : k \in 1 .. Len(s) + Len(c) /\ (s \o c)[k] = s[k]
    BY <1>0, <1>2
  <2> QED
    BY <1>3, <2>1
<1>5. \A k \in 1 .. Len(c) : c[k] \in Byte /\ c[k] \notin {0, Mark}
  <2> HIDE DEF s, c
  <2>1. ASSUME NEW k \in 1 .. Len(c)
        PROVE  Len(s) + k \in 1 .. Len(s) + Len(c) /\ (s \o c)[Len(s) + k] = c[k]
    <3>1. /\ Len(s) + k \in 1 .. Len(s) + Len(c) /\ ~(Len(s) + k <= Len(s))
          /\ (Len(s) + k) - Len(s) = k
      BY <1>2
    <3> QED
      BY <1>0, <3>1
  <2> QED
    BY <1>3, <2>1
<1>6. AsBytes(s) = s
  <2>1. s = [k \in 1 .. Len(s) |-> s[k]]
    BY <1>1
  <2> QED
    BY <1>4, <2>1, BytesKept DEF AsBytes
<1>7. AsBytes(c) = c
  <2>1. c = [k \in 1 .. Len(c) |-> c[k]]
    BY <1>1
  <2> QED
    BY <1>5, <2>1, BytesKept DEF AsBytes
<1>8. Mark \in Int
  BY SizesAssumption
<1> HIDE DEF s, c
<1>9. s \o <<Mark>> \in Seq(Int) /\ Len(s \o <<Mark>>) = Len(s) + 1
  BY <1>1, <1>8
<1>10. /\ Len(bytes) = Len(s) + 1 + Len(c)
       /\ \A k \in 1 .. Len(s) + 1 + Len(c) :
            bytes[k] = IF k <= Len(s) + 1 THEN (s \o <<Mark>>)[k] ELSE c[k - Len(s) - 1]
  <2>1. bytes = (s \o <<Mark>>) \o c
    BY <1>6, <1>7
  <2> DEFINE head == s \o <<Mark>>
  <2> HIDE DEF head
  <2>4. head \in Seq(Int) /\ Len(head) = Len(s) + 1 /\ bytes = head \o c
    BY <1>9, <2>1 DEF head
  <2> HIDE DEF bytes
  <2>5. /\ Len(bytes) = Len(head) + Len(c)
        /\ \A k \in 1 .. Len(head) + Len(c) :
             bytes[k] = IF k <= Len(head) THEN head[k] ELSE c[k - Len(head)]
    BY <1>1, <2>4, ConcatProperties
  <2>2. /\ Len(bytes) = Len(s) + 1 + Len(c)
        /\ \A k \in 1 .. (Len(s) + 1) + Len(c) :
             bytes[k] = IF k <= Len(s) + 1 THEN (s \o <<Mark>>)[k] ELSE c[k - (Len(s) + 1)]
    BY <2>4, <2>5 DEF head
  <2>3. \A k \in Int : k - (Len(s) + 1) = k - Len(s) - 1
    BY <1>2
  <2> QED
    BY <2>2, <2>3
<1>11. \A k \in 1 .. Len(s) + 1 :
         (s \o <<Mark>>)[k] = IF k <= Len(s) THEN s[k] ELSE Mark
  BY <1>1, <1>2, <1>8
<1>12. Packed(u) = [NodeID |-> AsByte(u.nodeId), changeType |-> AsByte(u.changeType),
                    nodeInfo |-> [k \in 1 .. ParmMax |-> IF k <= Len(bytes) THEN bytes[k] ELSE 0]]
  BY Zenon DEF Packed, bytes, s, c
<1> HIDE DEF bytes
<1>13. ASSUME NEW k \in 1 .. ParmMax
       PROVE  Packed(u).nodeInfo[k] =
                IF k <= Len(s) THEN s[k]
                ELSE IF k = Len(s) + 1 THEN Mark
                ELSE IF k <= Len(s) + 1 + Len(c) THEN c[k - Len(s) - 1]
                ELSE 0
  <2>1. Packed(u).nodeInfo[k] = IF k <= Len(bytes) THEN bytes[k] ELSE 0
    BY <1>12
  <2>2. k \in Nat /\ ParmMax \in Nat
    BY SizesAssumption
  <2> QED
    BY <1>2, <1>10, <1>11, <2>1, <2>2
<1>14. Packed(u).NodeID = u.nodeId /\ Packed(u).changeType = u.changeType
  BY <1>1, <1>12, BytesKept
<1>15. \/ Len(s) + Len(c) < ParmMax
       \/ Len(s) = ParmMax /\ c = <<>>
  BY DEF Fits, s, c
<1> QED
  BY <1>1, <1>4, <1>5, <1>13, <1>14, <1>15 DEF s, c

(* An update that fits is listed from its entry as it was.                 *)
LEMMA PackedReadsBack ==
  ASSUME NEW u \in Update, Fits(u)
  PROVE  Listed(Packed(u)) = u /\ InUse(Packed(u))
<1> DEFINE s == u.supportedCCs
           c == u.controlledCCs
           info == Packed(u).nodeInfo
<1>1. /\ s \in Seq(Int) /\ c \in Seq(Int)
      /\ \A k \in 1 .. Len(s) : s[k] \notin {0, Mark}
      /\ \A k \in 1 .. Len(c) : c[k] \notin {0, Mark}
      /\ \/ Len(s) + Len(c) < ParmMax
         \/ Len(s) = ParmMax /\ c = <<>>
      /\ \A k \in 1 .. ParmMax :
           info[k] = IF k <= Len(s) THEN s[k]
                     ELSE IF k = Len(s) + 1 THEN Mark
                     ELSE IF k <= Len(s) + 1 + Len(c) THEN c[k - Len(s) - 1]
                     ELSE 0
      /\ Packed(u).NodeID = u.nodeId /\ Packed(u).changeType = u.changeType
  BY PackedBytes
<1>2. Len(s) \in Nat /\ Len(c) \in Nat /\ (c = <<>> => Len(c) = 0)
  BY <1>1
<1>3. ParmMax \in Nat \ {0} /\ Mark # 0 /\ Mark \in Nat
  BY SizesAssumption
<1> HIDE DEF s, c, info
<1>4. ASSUME NEW k \in 1 .. ParmMax
      PROVE  AfterMark(info, k) <=> k > Len(s) + 1
  <2>1. ASSUME k > Len(s) + 1
        PROVE  AfterMark(info, k)
    <3>1. Len(s) + 1 \in 1 .. k - 1 /\ Len(s) + 1 \in 1 .. ParmMax
      BY <1>2, <1>3, <2>1
    <3>2. info[Len(s) + 1] = Mark
      BY <1>1, <1>2, <3>1
    <3> QED
      BY <3>1, <3>2 DEF AfterMark
  <2>2. ASSUME k <= Len(s) + 1, NEW j \in 1 .. k - 1
        PROVE  info[j] # Mark
    <3>1. j \in 1 .. Len(s) /\ j \in 1 .. ParmMax
      BY <1>2, <1>3, <2>2
    <3> QED
      BY <1>1, <3>1
  <2> QED
    BY <1>2, <2>1, <2>2 DEF AfterMark
<1>5. Taken(info, FALSE) = 1 .. Len(s)
  <2>1. ASSUME NEW k \in 1 .. ParmMax
        PROVE  info[k] \notin {0, Mark} /\ AfterMark(info, k) = FALSE <=> k <= Len(s)
    <3>1. k <= Len(s) => info[k] \notin {0, Mark}
      BY <1>1
    <3>2. k = Len(s) + 1 => info[k] = Mark
      BY <1>1, <1>2
    <3> QED
      BY <1>2, <1>4, <3>1, <3>2 DEF AfterMark
  <2>2. \A k : k \in 1 .. Len(s) <=> k \in 1 .. ParmMax /\ k <= Len(s)
    BY <1>1, <1>2, <1>3
  <2> QED
    BY <2>1, <2>2, Zenon DEF Taken
<1>6. Taken(info, TRUE) = (Len(s) + 2) .. (Len(s) + 1 + Len(c))
  <2>1. ASSUME NEW k \in 1 .. ParmMax
        PROVE  info[k] \notin {0, Mark} /\ AfterMark(info, k) = TRUE
                 <=> k \in (Len(s) + 2) .. (Len(s) + 1 + Len(c))
    <3>1. ASSUME k > Len(s) + 1, k <= Len(s) + 1 + Len(c)
          PROVE  info[k] \notin {0, Mark}
      <4>1. k - Len(s) - 1 \in 1 .. Len(c) /\ info[k] = c[k - Len(s) - 1]
        BY <1>1, <1>2, <3>1
      <4> QED
        BY <1>1, <4>1
    <3>2. k > Len(s) + 1 + Len(c) => info[k] = 0
      BY <1>1, <1>2
    <3> QED
      BY <1>2, <1>4, <3>1, <3>2 DEF AfterMark
  <2>2. \A k \in (Len(s) + 2) .. (Len(s) + 1 + Len(c)) : k \in 1 .. ParmMax
    BY <1>1, <1>2, <1>3
  <2> QED
    BY <2>1, <2>2, Zenon DEF Taken
<1>7. Classes(info, FALSE) = s
  <2>1. \A i \in 1 .. Len(s) : info[1 + i - 1] = s[i]
    BY <1>1, <1>2, <1>3
  <2>2. 1 \in Nat \ {0} /\ Len(s) \in Int /\ Len(s) = 1 + Len(s) - 1
    BY <1>2
  <2>3. s \in Seq(Int)
    BY <1>1
  <2>4. ASSUME NEW controlled, Taken(info, controlled) = 1 .. Len(s)
        PROVE  Classes(info, controlled) = s
    BY <2>1, <2>2, <2>3, <2>4, ClassesOfRun
  <2> QED
    BY <1>5, <2>4, Zenon
<1>8. Classes(info, TRUE) = c
  <2>2. ASSUME NEW i \in 1 .. Len(c)
        PROVE  info[(Len(s) + 2) + i - 1] = c[i]
    <3> DEFINE k == (Len(s) + 2) + i - 1
    <3>1. k \in 1 .. ParmMax /\ ~(k <= Len(s)) /\ k # Len(s) + 1
          /\ k <= Len(s) + 1 + Len(c) /\ k - Len(s) - 1 = i
      BY <1>1, <1>2, <1>3
    <3> HIDE DEF k
    <3>2. info[k] = c[i]
      BY <1>1, <3>1
    <3> QED
      BY <3>2 DEF k
  <2>3. /\ Len(s) + 2 \in Nat \ {0} /\ Len(s) + 1 + Len(c) \in Int
        /\ Len(s) + 1 + Len(c) = (Len(s) + 2) + Len(c) - 1
    BY <1>2
  <2>4. c \in Seq(Int)
    BY <1>1
  <2>5. ASSUME NEW controlled,
               Taken(info, controlled) = (Len(s) + 2) .. (Len(s) + 1 + Len(c))
        PROVE  Classes(info, controlled) = c
    BY <2>2, <2>3, <2>4, <2>5, ClassesOfRun
  <2> QED
    BY <1>6, <2>5, Zenon
<1>9. Listed(Packed(u)) = u
  BY <1>1, <1>7, <1>8 DEF Listed, Update, info, s, c
<1>10. InUse(Packed(u))
  BY <1>1 DEF InUse, Fits
<1> QED
  BY <1>9, <1>10

(* Whatever is listed of an entry in use fits.                             *)
LEMMA ListedFits ==
  ASSUME NEW e \in Entry, InUse(e)
  PROVE  Fits(Listed(e))
<1> DEFINE info == e.nodeInfo
           s == Classes(info, FALSE)
           c == Classes(info, TRUE)
           first == Taken(info, FALSE)
           second == Taken(info, TRUE)
           marks == {k \in 1 .. ParmMax : info[k] = Mark}
<1>1. /\ info \in [1 .. ParmMax -> Byte] /\ e.NodeID \in Byte /\ e.changeType \in Byte
      /\ ParmMax \in Nat \ {0}
  BY SizesAssumption DEF Entry
<1>2. ASSUME NEW controlled \in BOOLEAN
      PROVE  /\ IsFiniteSet(Taken(info, controlled))
             /\ Cardinality(Taken(info, controlled)) \in Nat
             /\ Classes(info, controlled) \in Seq(Int)
             /\ Len(Classes(info, controlled)) = Cardinality(Taken(info, controlled))
             /\ \A i \in 1 .. Cardinality(Taken(info, controlled)) :
                  /\ Classes(info, controlled)[i] \in Byte
                  /\ Classes(info, controlled)[i] \notin {0, Mark}
  <2> DEFINE taken == Taken(info, controlled)
             place(i) == CHOOSE k \in taken : Cardinality({j \in taken : j <= k}) = i
  <2>1. taken \in SUBSET (1 .. ParmMax) /\ \A k \in taken : info[k] \notin {0, Mark}
    BY DEF Taken
  <2>2. Classes(info, controlled) = [i \in 1 .. Cardinality(taken) |-> info[place(i)]]
    BY ClassesTaken
  <2> HIDE DEF taken
  <2>3. IsFiniteSet(taken) /\ Cardinality(taken) \in Nat
    <3>1. IsFiniteSet(1 .. ParmMax)
      BY <1>1, FS_Interval
    <3>2. IsFiniteSet(taken)
      BY <2>1, <3>1, FS_Subset
    <3> QED
      BY <3>2, FS_CardinalityType
  <2>4. ASSUME NEW i \in 1 .. Cardinality(taken)
        PROVE  info[place(i)] \in Byte /\ info[place(i)] \notin {0, Mark}
    <3>1. \E k \in taken : Cardinality({j \in taken : j <= k}) = i
      BY <1>1, <2>1, IthElement
    <3>2. place(i) \in taken
      BY <3>1
    <3> HIDE DEF place
    <3> QED
      BY <1>1, <2>1, <3>2
  <2>5. Classes(info, controlled) \in Seq(Int)
    BY <1>1, ClassesAreBytes
  <2> HIDE DEF place
  <2>6. Len(Classes(info, controlled)) = Cardinality(taken)
    BY <2>2, <2>3, <2>5
  <2> QED
    BY <2>2, <2>3, <2>4, <2>5, <2>6 DEF taken
<1>3. /\ s \in Seq(Int) /\ Len(s) = Cardinality(first)
      /\ \A i \in 1 .. Len(s) : s[i] \in Byte /\ s[i] \notin {0, Mark}
      /\ IsFiniteSet(first) /\ Cardinality(first) \in Nat
  BY <1>2
<1>4. /\ c \in Seq(Int) /\ Len(c) = Cardinality(second)
      /\ \A i \in 1 .. Len(c) : c[i] \in Byte /\ c[i] \notin {0, Mark}
      /\ IsFiniteSet(second) /\ Cardinality(second) \in Nat
  BY <1>2
<1>5. /\ first \cap second = {} /\ first \cup second \subseteq (1 .. ParmMax) \ marks
      /\ marks = {} => second = {}
  <2>1. \A k \in first \cup second : k \in 1 .. ParmMax /\ info[k] # Mark
    BY DEF Taken
  <2>2. \A k \in first : ~AfterMark(info, k)
    BY DEF Taken
  <2>3. \A k \in second : AfterMark(info, k)
    BY DEF Taken
  <2>4. ASSUME NEW k \in second
        PROVE  marks # {}
    <3>1. PICK j \in 1 .. k - 1 : info[j] = Mark
      BY <2>3 DEF AfterMark
    <3>2. k \in 1 .. ParmMax
      BY <2>1
    <3>3. j \in 1 .. ParmMax
      BY <1>1, <3>2
    <3> QED
      BY <3>1, <3>3
  <2> QED
    BY <2>1, <2>2, <2>3, <2>4
<1> HIDE DEF first, second, marks, s, c
<1>6. Cardinality(first \cup second) = Len(s) + Len(c)
  <2>1. Cardinality(first \cap second) = 0
    BY <1>5, FS_EmptySet
  <2>2. Cardinality(first \cup second) =
          Cardinality(first) + Cardinality(second) - Cardinality(first \cap second)
    BY <1>3, <1>4, FS_Union
  <2> QED
    BY <1>3, <1>4, <2>1, <2>2
<1>7. IsFiniteSet(1 .. ParmMax) /\ Cardinality(1 .. ParmMax) = ParmMax
  BY <1>1, FS_Interval
<1>8. ASSUME marks # {}
      PROVE  Len(s) + Len(c) < ParmMax
  <2>1. PICK m \in 1 .. ParmMax : m \in marks
    BY <1>8 DEF marks
  <2>2. /\ IsFiniteSet((1 .. ParmMax) \ {m})
        /\ Cardinality((1 .. ParmMax) \ {m}) = ParmMax - 1
    BY <1>7, <2>1, FS_RemoveElement
  <2>3. first \cup second \in SUBSET ((1 .. ParmMax) \ {m})
    BY <1>5, <2>1
  <2>4. Cardinality(first \cup second) <= ParmMax - 1
    BY <2>2, <2>3, FS_Subset
  <2> QED
    BY <1>1, <1>3, <1>4, <1>6, <2>4
<1>9. ASSUME marks = {}
      PROVE  c = <<>> /\ (Len(s) + Len(c) < ParmMax \/ Len(s) = ParmMax)
  <2>1. Len(c) = 0
    BY <1>4, <1>5, <1>9, FS_EmptySet
  <2>2. first \cup second \in SUBSET (1 .. ParmMax)
    BY <1>5
  <2>3. Cardinality(first \cup second) <= ParmMax
    BY <1>7, <2>2, FS_Subset
  <2> QED
    BY <1>1, <1>3, <1>4, <1>6, <2>1, <2>3
<1>10. ASSUME NEW i \in 1 .. Len(s \o c)
       PROVE  (s \o c)[i] \in Byte /\ (s \o c)[i] \notin {0, Mark}
  <2>1. /\ Len(s \o c) = Len(s) + Len(c)
        /\ \A k \in 1 .. Len(s) + Len(c) :
             (s \o c)[k] = IF k <= Len(s) THEN s[k] ELSE c[k - Len(s)]
    BY <1>3, <1>4, ConcatProperties
  <2>2. CASE i <= Len(s)
    BY <1>3, <1>4, <2>1, <2>2
  <2>3. CASE ~(i <= Len(s))
    <3>1. i - Len(s) \in 1 .. Len(c)
      BY <1>3, <1>4, <2>1, <2>3
    <3> QED
      BY <1>4, <2>1, <2>3, <3>1
  <2> QED
    BY <2>2, <2>3
<1>11. /\ Listed(e).nodeId = e.NodeID /\ Listed(e).changeType = e.changeType
       /\ Listed(e).supportedCCs = s /\ Listed(e).controlledCCs = c
  BY DEF Listed, s, c
<1> QED
  BY <1>1, <1>8, <1>9, <1>10, <1>11 DEF Fits, Elements, IsByte, InUse
------------------------------------------------------------------------------
(***************************************************************************)
(* Trips                                                                   *)
(*                                                                         *)
(* The files there are those the array asked for, with its part of the     *)
(* array in each; a flag is raised exactly for one that is missing.        *)
(***************************************************************************)
GivenHasFile(f) ==
  /\ f \in Files(generation)
  /\ generation = "whole" \/ f * PerFile < Len(given)

GivenContents(f) ==
  [s \in SlotsOf(generation) |->
     LET i == RecordAt(f, s, SlotsPerFile(generation))
     IN  IF i <= Len(given) THEN Packed(given[i]) ELSE UnusedEntry]

FilesOfArray ==
  /\ damaged = {}
  /\ stage \in {"import", "stored"} => given = doc
  /\ \A f \in present : GivenHasFile(f) /\ file[f] = GivenContents(f)
  /\ stage = "import" =>
       /\ \A f \in 0 .. at - 1 : GivenHasFile(f)
       /\ present \subseteq 0 .. at - 1
       /\ importError <=> \E f \in 0 .. at - 1 : f \notin present
  /\ stage # "import" => (importError <=> \E f : GivenHasFile(f) /\ f \notin present)

FailsUpTo(n) == \E p \in 1 .. n : SlotAt(p) = 0 /\ ReadFails(p)
ErrorsOfFiles ==
  /\ stage = "export" => (exportError <=> FailsUpTo(at - 1))
  /\ stage = "exported" => (exportError <=> FailsUpTo(MaxUpdates))

(* What has been exported once fits.                                       *)
Fitting(array) == \A i \in 1 .. Len(array) : Fits(array[i])
ExportedFits ==
  /\ stage \in {"export", "exported"} => Fitting(doc)
  /\ trips > 1 => Len(given) <= MaxUpdates /\ Fitting(given)

TripInv ==
  /\ TypeOK
  /\ ExportProgress
  /\ trips > 0 => FilesOfArray
  /\ ErrorsOfFiles
  /\ ExportedFits

LEMMA TripsInitially == Init => TripInv
<1> SUFFICES ASSUME Init
             PROVE  TripInv
  OBVIOUS
<1>1. TypeOK /\ ExportProgress
  BY InitTypes DEF Init, DocumentInit, DeviceInit, ExportProgress
<1>2. CASE DocumentInit
  <2>1. FilesOfArray
    <3>1. 0 .. at - 1 = {}
      BY <1>2 DEF DocumentInit
    <3> QED
      BY <1>2, <3>1 DEF DocumentInit, Init, FilesOfArray
  <2> QED
    BY <1>1, <1>2, <2>1 DEF DocumentInit, TripInv, ErrorsOfFiles, ExportedFits
<1>3. CASE DeviceInit
  BY <1>1, <1>3 DEF DeviceInit, TripInv, ErrorsOfFiles, ExportedFits
<1> QED
  BY <1>2, <1>3 DEF Init

(* The files of an array are the first ones.                               *)
LEMMA FilesFirst ==
  ASSUME TypeOK, NEW f, GivenHasFile(f), NEW g \in 0 .. f
  PROVE  GivenHasFile(g)
<1>1. f \in Nat /\ g \in Nat /\ g <= f /\ PerFile \in Nat
  BY SizesAssumption DEF GivenHasFile, Files, FileNumbers
<1>2. g \in Files(generation)
  <2> DEFINE last == FileOf(MaxUpdates, SlotsPerFile(generation))
  <2>1. f \in 0 .. last /\ Files(generation) = 0 .. last
    BY DEF GivenHasFile, Files, FileNumbers
  <2>2. last \in Int
    BY SizesAssumption, SlotsArePositive DEF FileOf, TypeOK
  <2> HIDE DEF last
  <2> QED
    BY <1>1, <2>1, <2>2
<1>3. g * PerFile <= f * PerFile
  BY <1>1
<1>4. g * PerFile \in Nat /\ f * PerFile \in Nat /\ Len(given) \in Nat
  BY <1>1 DEF TypeOK
<1>5. f * PerFile < Len(given) => g * PerFile < Len(given)
  BY <1>3, <1>4
<1> QED
  BY <1>2, <1>5 DEF GivenHasFile

LEMMA StoreFileTrips ==
  ASSUME TripInv, trips > 0, StoreFile
  PROVE  FilesOfArray'
<1>1. /\ stage = "import" /\ at \in Nat /\ HasFile(at) /\ at' = at + 1 /\ given = doc
      /\ UNCHANGED <<generation, damaged, stage, doc, given>>
      /\ FilesOfArray /\ TypeOK
  BY DEF StoreFile, TripInv, TypeOK, FilesOfArray
<1>2. GivenHasFile(at) /\ FileContents(at) = GivenContents(at)
  BY <1>1 DEF HasFile, GivenHasFile, FileContents, GivenContents
<1>3. \A f : GivenHasFile(f)' = GivenHasFile(f) /\ GivenContents(f)' = GivenContents(f)
  BY <1>1 DEF GivenHasFile, GivenContents
<1>4. \A f \in 0 .. at' - 1 : f \in 0 .. at - 1 \/ f = at
  BY <1>1
<1>5. \A f \in 0 .. at' - 1 : GivenHasFile(f)'
  BY <1>1, <1>2, <1>3, <1>4 DEF FilesOfArray
<1>6. 0 .. at - 1 \subseteq 0 .. at' - 1 /\ at \in 0 .. at' - 1 /\ at \notin 0 .. at - 1
  BY <1>1
<1>7. CASE /\ importError' = importError
           /\ file' = [file EXCEPT ![at] = FileContents(at)]
           /\ present' = present \cup {at}
  <2>1. ASSUME NEW f \in present'
        PROVE  GivenHasFile(f)' /\ file'[f] = GivenContents(f)'
    <3>1. at \in DOMAIN file
      BY <1>1, <1>2 DEF TypeOK, HasFile
    <3>2. CASE f = at
      BY <1>2, <1>3, <1>7, <3>1, <3>2
    <3>3. CASE f # at
      <4>1. f \in present /\ GivenHasFile(f) /\ file[f] = GivenContents(f)
        BY <1>1, <1>7, <3>3 DEF FilesOfArray
      <4>2. file'[f] = file[f]
        BY <1>1, <1>7, <3>3, <4>1 DEF TypeOK, GivenHasFile
      <4> QED
        BY <1>3, <4>1, <4>2
    <3> QED
      BY <3>2, <3>3
  <2>2. present' \subseteq 0 .. at' - 1
    BY <1>1, <1>6, <1>7 DEF FilesOfArray
  <2>3. importError' <=> \E f \in 0 .. at' - 1 : f \notin present'
    <3>1. importError <=> \E f \in 0 .. at - 1 : f \notin present
      BY <1>1 DEF FilesOfArray
    <3> QED
      BY <1>4, <1>6, <1>7, <3>1
  <2> QED
    BY <1>1, <1>5, <2>1, <2>2, <2>3 DEF FilesOfArray
<1>8. CASE importError' = TRUE /\ UNCHANGED <<file, present>>
  <2>1. \A f \in present' : GivenHasFile(f)' /\ file'[f] = GivenContents(f)'
    BY <1>1, <1>3, <1>8 DEF FilesOfArray
  <2>2. present' \subseteq 0 .. at' - 1 /\ at \notin present'
    BY <1>1, <1>6, <1>8 DEF FilesOfArray
  <2>3. importError' <=> \E f \in 0 .. at' - 1 : f \notin present'
    BY <1>6, <1>8, <2>2
  <2> QED
    BY <1>1, <1>5, <2>1, <2>2, <2>3 DEF FilesOfArray
<1>9. PICK ok \in BOOLEAN :
        /\ importError' = (importError \/ ~ok)
        /\ IF ok
             THEN /\ file' = [file EXCEPT ![at] = FileContents(at)]
                  /\ present' = present \cup {at}
             ELSE UNCHANGED <<file, present>>
  BY DEF StoreFile
<1>10. importError \in BOOLEAN
  BY <1>1 DEF TypeOK
<1> QED
  BY <1>7, <1>8, <1>9, <1>10

LEMMA EndImportTrips ==
  ASSUME TripInv, trips > 0, EndImport
  PROVE  FilesOfArray'
<1>1. /\ stage = "import" /\ stage' = "stored" /\ at \in Nat /\ ~HasFile(at) /\ given = doc
      /\ UNCHANGED <<generation, file, present, damaged, at, doc, given, importError>>
      /\ FilesOfArray /\ TypeOK
  BY DEF EndImport, nvmVars, TripInv, TypeOK, FilesOfArray
<1>2. ~GivenHasFile(at)
  BY <1>1 DEF HasFile, GivenHasFile
<1>3. ASSUME NEW f, GivenHasFile(f)
      PROVE  f \in 0 .. at - 1
  <2>1. f \in Nat
    BY <1>3 DEF GivenHasFile, Files, FileNumbers
  <2>2. ~(at <= f)
    BY <1>1, <1>2, <1>3, <2>1, FilesFirst
  <2> QED
    BY <1>1, <2>1, <2>2
<1>4. importError <=> \E f : GivenHasFile(f) /\ f \notin present
  BY <1>1, <1>3 DEF FilesOfArray
<1>5. \A f : GivenHasFile(f)' = GivenHasFile(f) /\ GivenContents(f)' = GivenContents(f)
  BY <1>1 DEF GivenHasFile, GivenContents
<1> QED
  BY <1>1, <1>4, <1>5 DEF FilesOfArray

(* Steps that leave the NVM and the array of the import alone.             *)
LEMMA FilesStay ==
  ASSUME FilesOfArray, UNCHANGED <<nvmVars, given, importError>>,
         stage # "import", stage' \notin {"import", "stored"}
  PROVE  FilesOfArray'
<1>1. UNCHANGED <<generation, file, present, damaged, given, importError>>
  BY DEF nvmVars
<1>2. \A f : GivenHasFile(f)' = GivenHasFile(f) /\ GivenContents(f)' = GivenContents(f)
  BY <1>1 DEF GivenHasFile, GivenContents
<1> QED
  BY <1>1, <1>2 DEF FilesOfArray

LEMMA BeginImportTrips ==
  ASSUME TypeOK, BeginImport
  PROVE  FilesOfArray'
<1>1. /\ stage' = "import" /\ at' = 0 /\ given' = doc /\ doc' = doc /\ present' = {}
      /\ damaged' = {} /\ importError' = FALSE
  BY DEF BeginImport
<1>2. 0 .. at' - 1 = {}
  BY <1>1
<1> QED
  BY <1>1, <1>2 DEF FilesOfArray

LEMMA FilesNext ==
  ASSUME TripInv, [Next]_vars, trips' > 0
  PROVE  FilesOfArray'
<1>1. trips' = trips \/ BeginImport
  BY DEF Next, vars, StoreFile, EndImport, BeginExport, ExportPlace, EndExport
<1>2. TypeOK /\ (trips > 0 => FilesOfArray)
  BY DEF TripInv
<1>3. CASE StoreFile \/ EndImport
  <2>1. trips' = trips
    BY <1>3 DEF StoreFile, EndImport
  <2> QED
    BY <1>3, <2>1, StoreFileTrips, EndImportTrips
<1>4. CASE BeginExport \/ ExportPlace \/ EndExport
  <2>1. /\ trips' = trips /\ UNCHANGED <<nvmVars, given, importError>>
        /\ stage # "import" /\ stage' \notin {"import", "stored"}
    BY <1>4 DEF BeginExport, ExportPlace, EndExport
  <2> QED
    BY <1>2, <2>1, FilesStay
<1>5. CASE BeginImport
  BY <1>2, <1>5, BeginImportTrips
<1>6. CASE UNCHANGED vars
  <2>1. UNCHANGED <<generation, file, present, damaged, stage, at, doc, given, importError, trips>>
    BY <1>6 DEF vars, nvmVars
  <2>2. \A f : GivenHasFile(f)' = GivenHasFile(f) /\ GivenContents(f)' = GivenContents(f)
    BY <2>1 DEF GivenHasFile, GivenContents
  <2> QED
    BY <1>2, <2>1, <2>2 DEF FilesOfArray
<1> QED
  BY <1>3, <1>4, <1>5, <1>6 DEF Next
(* The flag of the exporter: a step of the export adds its place, the      *)
(* others leave what it is about alone.                                    *)
LEMMA ErrorsNext ==
  ASSUME TripInv, [Next]_vars
  PROVE  ErrorsOfFiles'
<1>1. ErrorsOfFiles /\ TypeOK /\ ExportProgress
  BY DEF TripInv
<1>2. CASE StoreFile \/ EndImport \/ BeginImport
  BY <1>2 DEF StoreFile, EndImport, BeginImport, ErrorsOfFiles
<1>3. CASE BeginExport
  <2>1. stage' = "export" /\ exportError' = FALSE /\ at' = 1
    BY <1>3 DEF BeginExport
  <2>2. ~FailsUpTo(at - 1)'
    <3>1. 1 .. at' - 1 = {}
      BY <2>1
    <3> QED
      BY <3>1 DEF FailsUpTo
  <2> QED
    BY <2>1, <2>2 DEF ErrorsOfFiles
<1>4. CASE ExportPlace
  <2>1. /\ stage = "export" /\ stage' = "export" /\ at' = at + 1 /\ at \in Nat /\ at \in Place
        /\ UNCHANGED nvmVars
        /\ exportError' = (exportError \/ (SlotAt(at) = 0 /\ ReadFails(at)))
    BY <1>1, <1>4 DEF ExportPlace, TypeOK
  <2>2. at' - 1 = at /\ 1 .. at = (1 .. at - 1) \cup {at}
    BY <2>1 DEF Place
  <2>3. exportError <=> FailsUpTo(at - 1)
    BY <1>1, <2>1 DEF ErrorsOfFiles
  <2>4. FailsUpTo(at) <=> FailsUpTo(at - 1) \/ (SlotAt(at) = 0 /\ ReadFails(at))
    BY <2>2 DEF FailsUpTo
  <2>5. exportError' <=> FailsUpTo(at)
    BY <2>1, <2>3, <2>4
  <2>7. FailsUpTo(at - 1)' = FailsUpTo(at)
    BY <2>1, <2>2 DEF FailsUpTo, SlotAt, ReadFails, FileAt, nvmVars
  <2> QED
    BY <2>1, <2>5, <2>7 DEF ErrorsOfFiles
<1>5. CASE EndExport
  <2>1. /\ stage = "export" /\ stage' = "exported" /\ at \notin Place
        /\ UNCHANGED nvmVars /\ exportError' = exportError
    BY <1>5 DEF EndExport
  <2>2. at - 1 = MaxUpdates
    BY <1>1, <2>1, SizesAssumption DEF ExportProgress, Place
  <2>3. exportError <=> FailsUpTo(MaxUpdates)
    BY <1>1, <2>1, <2>2 DEF ErrorsOfFiles
  <2>4. FailsUpTo(MaxUpdates)' = FailsUpTo(MaxUpdates)
    BY <2>1 DEF FailsUpTo, SlotAt, ReadFails, FileAt, nvmVars
  <2> QED
    BY <2>1, <2>3, <2>4 DEF ErrorsOfFiles
<1>6. CASE UNCHANGED vars
  <2>1. UNCHANGED nvmVars /\ UNCHANGED <<stage, at, exportError>>
    BY <1>6 DEF vars
  <2>2. /\ FailsUpTo(at - 1)' = FailsUpTo(at - 1)
        /\ FailsUpTo(MaxUpdates)' = FailsUpTo(MaxUpdates)
    BY <2>1 DEF FailsUpTo, SlotAt, ReadFails, FileAt, nvmVars
  <2> QED
    BY <1>1, <2>1, <2>2 DEF ErrorsOfFiles
<1> QED
  BY <1>2, <1>3, <1>4, <1>5, <1>6 DEF Next

(* What is exported fits, and an array that was exported is no longer than *)
(* the table.                                                              *)
LEMMA FitsNext ==
  ASSUME TripInv, [Next]_vars
  PROVE  ExportedFits'
<1>1. ExportedFits /\ TypeOK /\ ExportProgress
  BY DEF TripInv
<1>2. CASE StoreFile \/ EndImport
  BY <1>1, <1>2 DEF StoreFile, EndImport, ExportedFits, Fitting
<1>3. CASE BeginExport
  <2>1. doc' = <<>> /\ UNCHANGED <<given, trips>>
    BY <1>3 DEF BeginExport
  <2>2. Fitting(doc)'
    BY <2>1 DEF Fitting
  <2> QED
    BY <1>1, <2>1, <2>2 DEF ExportedFits, Fitting
<1>4. CASE ExportPlace
  <2>1. at \in Place /\ stage = "export" /\ UNCHANGED <<given, trips>>
        /\ doc' = IF InUse(Read(at)) THEN Append(doc, Listed(Read(at))) ELSE doc
    BY <1>4 DEF ExportPlace
  <2>2. doc \in Seq(Update) /\ Fitting(doc)
    BY <1>1, <2>1 DEF TypeOK, ExportedFits
  <2>3. CASE InUse(Read(at))
    <3>1. Read(at) \in Entry
      BY <1>1, <2>1, ReadIsEntry
    <3>2. Listed(Read(at)) \in Update /\ Fits(Listed(Read(at)))
      BY <2>3, <3>1, ListedIsUpdate, ListedFits
    <3>3. /\ Len(doc') = Len(doc) + 1
          /\ \A i \in 1 .. Len(doc) : doc'[i] = doc[i]
          /\ doc'[Len(doc) + 1] = Listed(Read(at))
      BY <2>1, <2>2, <2>3, <3>2, AppendProperties
    <3>4. Len(doc) \in Nat
      BY <2>2
    <3>5. \A i \in 1 .. Len(doc') : Fits(doc'[i])
      BY <2>2, <3>2, <3>3, <3>4 DEF Fitting
    <3> QED
      BY <1>1, <2>1, <3>5 DEF ExportedFits, Fitting
  <2>4. CASE ~InUse(Read(at))
    BY <1>1, <2>1, <2>2, <2>4 DEF ExportedFits, Fitting
  <2> QED
    BY <2>3, <2>4
<1>5. CASE EndExport
  BY <1>1, <1>5 DEF EndExport, ExportedFits, Fitting
<1>6. CASE BeginImport
  <2>1. stage = "exported" /\ stage' = "import" /\ given' = doc
    BY <1>6 DEF BeginImport
  <2>2. Fitting(doc) /\ Len(doc) = Cardinality(UsedUpTo(MaxUpdates))
    BY <1>1, <2>1 DEF ExportedFits, ExportProgress, Listing
  <2>3. Cardinality(UsedUpTo(MaxUpdates)) <= MaxUpdates
    <3>1. MaxUpdates \in Nat \ {0} /\ IsFiniteSet(1 .. MaxUpdates)
          /\ Cardinality(1 .. MaxUpdates) = MaxUpdates
      BY SizesAssumption, FS_Interval
    <3>2. UsedUpTo(MaxUpdates) \in SUBSET (1 .. MaxUpdates)
      BY DEF UsedUpTo
    <3>3. Cardinality(UsedUpTo(MaxUpdates)) <= Cardinality(1 .. MaxUpdates)
      BY <3>1, <3>2, FS_Subset
    <3> QED
      BY <3>1, <3>3
  <2>4. Len(given') <= MaxUpdates /\ Fitting(given)'
    BY <2>1, <2>2, <2>3 DEF Fitting
  <2> QED
    BY <2>1, <2>4 DEF ExportedFits
<1>7. CASE UNCHANGED vars
  BY <1>1, <1>7 DEF vars, ExportedFits, Fitting
<1> QED
  BY <1>2, <1>3, <1>4, <1>5, <1>6, <1>7 DEF Next

LEMMA TripStep == TripInv /\ [Next]_vars => TripInv'
<1> SUFFICES ASSUME TripInv, [Next]_vars
             PROVE  TripInv'
  OBVIOUS
<1>1. TypeOK' /\ ExportProgress'
  BY NextTypes, ExportProgressNext DEF TripInv
<1> QED
  BY <1>1, FilesNext, ErrorsNext, FitsNext DEF TripInv

------------------------------------------------------------------------------
(* Where the array ends: the places in use are as many as it has elements, *)
(* up to those of the table.                                               *)
KeptOf(array) == IF Len(array) < MaxUpdates THEN Len(array) ELSE MaxUpdates

(* If no file is missing, each place of the array has its update, and the  *)
(* others are empty.                                                       *)
LEMMA PlacesOfArray ==
  ASSUME TypeOK, FilesOfArray, stage # "import", ~importError, Fitting(given), NEW p \in Place
  PROVE  /\ p <= Len(given) => Used(p) /\ Listed(Read(p)) = given[p]
         /\ p > Len(given) => ~Used(p)
<1> DEFINE per == SlotsPerFile(generation)
           f == FileAt(p)
           s == SlotAt(p)
<1>1. per \in Nat \ {0} /\ p \in Nat \ {0} /\ Len(given) \in Nat
  BY SlotsArePositive DEF TypeOK, Place
<1>2. f \in Files(generation) /\ s \in SlotsOf(generation)
  BY SizesAssumption, PlaceInTable, SlotsArePositive DEF TypeOK, FileAt, SlotAt, Files, SlotsOf, Place
<1>3. RecordAt(f, s, per) = p
  BY <1>1, PlaceInverse DEF FileAt, SlotAt
<1>4. Read(p) = IF f \in present THEN file[f][s] ELSE ZeroEntry
  BY DEF FilesOfArray, Read, Held
<1>5. ASSUME f \in present
      PROVE  Read(p) = IF p <= Len(given) THEN Packed(given[p]) ELSE UnusedEntry
  <2>1. file[f] = GivenContents(f)
    BY <1>5 DEF FilesOfArray
  <2> HIDE DEF f, s, per
  <2>2. GivenContents(f)[s] = IF p <= Len(given) THEN Packed(given[p]) ELSE UnusedEntry
    BY <1>2, <1>3 DEF GivenContents, per
  <2> QED
    BY <1>4, <1>5, <2>1, <2>2
<1>6. ~InUse(ZeroEntry) /\ ~InUse(UnusedEntry)
  BY DEF InUse, ZeroEntry, UnusedEntry, Filled, EmptyIds
<1>7. ASSUME p <= Len(given)
      PROVE  f \in present
  <2>1. generation = "split" => f * PerFile < Len(given)
    <3>1. f * per + s + 1 = p
      BY <1>3 DEF RecordAt
    <3>2. s \in Nat /\ f \in Nat
      BY <1>2 DEF SlotsOf, Files, FileNumbers
    <3>3. generation = "split" => per = PerFile
      BY DEF SlotsPerFile
    <3> HIDE DEF f, s, per
    <3>4. f * per \in Nat
      BY <1>1, <3>2
    <3>5. f * per < Len(given)
      BY <1>1, <1>7, <3>1, <3>2, <3>4
    <3> QED
      BY <3>3, <3>5
  <2>2. GivenHasFile(f)
    BY <1>2, <2>1 DEF GivenHasFile, TypeOK, FileForm
  <2> QED
    BY <2>2 DEF FilesOfArray
<1>8. ASSUME p <= Len(given)
      PROVE  Used(p) /\ Listed(Read(p)) = given[p]
  <2>1. given[p] \in Update /\ Fits(given[p])
    BY <1>1, <1>8 DEF TypeOK, Fitting
  <2>2. Read(p) = Packed(given[p])
    BY <1>5, <1>7, <1>8
  <2> QED
    BY <2>1, <2>2, PackedReadsBack DEF Used
<1>9. ASSUME p > Len(given)
      PROVE  ~Used(p)
  <2>1. ~(p <= Len(given))
    BY <1>1, <1>9
  <2>2. Read(p) = ZeroEntry \/ Read(p) = UnusedEntry
    BY <1>4, <1>5, <2>1
  <2> QED
    BY <1>6, <2>2 DEF Used
<1> QED
  BY <1>8, <1>9

LEMMA ArrayComesBack ==
  ASSUME TripInv, stage = "exported", trips > 0, ~importError, Fitting(given)
  PROVE  doc = SubSeq(given, 1, KeptOf(given))
<1> DEFINE kept == KeptOf(given)
<1>1. TypeOK /\ FilesOfArray /\ Listing(MaxUpdates)
  BY DEF TripInv, ExportProgress
<1>2. /\ Len(given) \in Nat /\ MaxUpdates \in Nat /\ doc \in Seq(Update)
      /\ given \in Seq(Update)
  BY <1>1, SizesAssumption DEF TypeOK
<1>3. kept \in Nat /\ kept <= MaxUpdates /\ kept <= Len(given)
      /\ (kept = MaxUpdates \/ kept = Len(given))
  BY <1>2 DEF KeptOf
<1> HIDE DEF kept
<1>4. ASSUME NEW p \in 1 .. MaxUpdates
      PROVE  Used(p) <=> p <= kept
  <2>1. p <= Len(given) <=> p <= kept
    BY <1>2, <1>3
  <2>2. p > Len(given) <=> ~(p <= kept)
    BY <1>2, <1>3
  <2> QED
    BY <1>1, <2>1, <2>2, PlacesOfArray DEF Place
<1>5. ASSUME NEW n \in 0 .. MaxUpdates
      PROVE  Cardinality(UsedUpTo(n)) = IF n <= kept THEN n ELSE kept
  <2>1. CASE n <= kept
    <3>1. UsedUpTo(n) = 1 .. n
      BY <1>2, <1>3, <1>4, <2>1 DEF UsedUpTo
    <3>2. Cardinality(1 .. n) = n
      BY <1>2, FS_Interval
    <3> QED
      BY <2>1, <3>1, <3>2
  <2>2. CASE ~(n <= kept)
    <3>1. UsedUpTo(n) = 1 .. kept
      BY <1>2, <1>3, <1>4, <2>2 DEF UsedUpTo
    <3>2. Cardinality(1 .. kept) = kept
      BY <1>3, FS_Interval
    <3> QED
      BY <2>2, <3>1, <3>2
  <2> QED
    BY <2>1, <2>2
<1>6. Len(doc) = kept
  <2>1. MaxUpdates \in 0 .. MaxUpdates
    BY <1>2
  <2>2. Cardinality(UsedUpTo(MaxUpdates)) = kept
    BY <1>2, <1>3, <1>5, <2>1
  <2> QED
    BY <1>1, <2>2 DEF Listing
<1>7. ASSUME NEW i \in 1 .. kept
      PROVE  doc[i] = given[i]
  <2>1. i \in 1 .. MaxUpdates /\ i \in 0 .. MaxUpdates /\ i <= kept /\ i <= Len(given)
    BY <1>2, <1>3
  <2>2. Rank(i) = i
    BY <1>5, <2>1 DEF Rank
  <2>3. Used(i) /\ Listed(Read(i)) = given[i]
    BY <1>1, <2>1, PlacesOfArray DEF Place
  <2> QED
    BY <1>1, <2>1, <2>2, <2>3 DEF Listing
<1>8. /\ SubSeq(given, 1, kept) \in Seq(Update)
      /\ Len(SubSeq(given, 1, kept)) = kept
      /\ \A i \in 1 .. kept : SubSeq(given, 1, kept)[i] = given[i]
  <2>1. \A i \in 1 .. kept : given[i] \in Update
    BY <1>2, <1>3
  <2>2. /\ SubSeq(given, 1, kept) \in Seq(Update)
        /\ Len(SubSeq(given, 1, kept)) = IF 1 <= kept THEN kept - 1 + 1 ELSE 0
        /\ \A i \in 1 .. kept - 1 + 1 : SubSeq(given, 1, kept)[i] = given[1 + i - 1]
    BY <1>3, <2>1, SubSeqProperties
  <2>3. kept - 1 + 1 = kept /\ \A i \in 1 .. kept : 1 + i - 1 = i
    BY <1>3
  <2> QED
    BY <1>3, <2>2, <2>3
<1>9. doc = SubSeq(given, 1, kept)
  BY <1>2, <1>6, <1>7, <1>8, SeqEqual
<1> QED
  BY <1>9 DEF kept
(* The export of what was imported raises its flag for the one file of the *)
(* first form, if that could not be written.                               *)
LEMMA ErrorsOfTrip ==
  ASSUME TripInv, stage = "exported", trips > 0
  PROVE  exportError <=> generation = "whole" /\ importError
<1>1. /\ TypeOK /\ FilesOfArray
      /\ exportError <=> FailsUpTo(MaxUpdates)
  BY DEF TripInv, ErrorsOfFiles
<1>2. /\ damaged = {}
      /\ importError <=> \E f : GivenHasFile(f) /\ f \notin present
  BY <1>1 DEF FilesOfArray
<1>3. \A p : ReadFails(p) <=> FileAt(p) \notin present /\ generation = "whole"
  BY <1>2 DEF ReadFails
<1>4. CASE generation = "split"
  BY <1>1, <1>3, <1>4 DEF FailsUpTo
<1>5. CASE generation = "whole"
  <2>1. MaxUpdates \in Nat \ {0}
    BY SizesAssumption
  <2>2. ASSUME NEW p \in 1 .. MaxUpdates
        PROVE  FileAt(p) = 0
    <3>1. p - 1 \in 0 .. MaxUpdates - 1
      BY <2>1
    <3>2. (p - 1) \div MaxUpdates = 0
      BY <2>1, <3>1
    <3> QED
      BY <1>5, <3>2 DEF FileAt, FileOf, SlotsPerFile
  <2>3. 1 \in 1 .. MaxUpdates /\ SlotAt(1) = 0
    <3>1. (1 - 1) % MaxUpdates = 0
      BY <2>1
    <3> QED
      BY <1>5, <2>1, <3>1 DEF SlotAt, SlotOf, SlotsPerFile
  <2>4. FailsUpTo(MaxUpdates) <=> 0 \notin present
    BY <1>3, <1>5, <2>2, <2>3 DEF FailsUpTo
  <2>5. Files(generation) = {0}
    <3>1. 1 .. MaxUpdates # {} /\ MaxUpdates \in 1 .. MaxUpdates
      BY <2>1
    <3>2. FileOf(MaxUpdates, MaxUpdates) = 0
      BY <1>5, <2>2, <3>1 DEF FileAt, SlotsPerFile
    <3>3. Files(generation) = 0 .. 0
      BY <1>5, <3>2 DEF Files, FileNumbers, SlotsPerFile
    <3> QED
      BY <3>3
  <2>6. \A f : GivenHasFile(f) <=> f = 0
    BY <1>5, <2>5 DEF GivenHasFile
  <2> QED
    BY <1>1, <1>2, <1>5, <2>4, <2>6
<1> QED
  BY <1>1, <1>4, <1>5 DEF TypeOK, FileForm

(* An array of updates that fit comes back as it was, up to the places of  *)
(* the table, for every size of the table, of its files and of its         *)
(* entries; what could not be written is in the flags.                     *)
THEOREM ArraysComeBack == Spec => []RoundTrip
<1>1. TripInv => RoundTrip
  <2> SUFFICES ASSUME TripInv, stage = "exported", trips > 0, Fitting(given)
               PROVE  /\ doc = SubSeq(given, 1, KeptOf(given)) \/ importError
                      /\ exportError <=> generation = "whole" /\ importError
    BY DEF RoundTrip, Fitting, KeptOf
  <2> QED
    BY ArrayComesBack, ErrorsOfTrip
<1> QED
  BY <1>1, TripsInitially, TripStep, PTL DEF Spec

(* Whatever the first array or the table of a device was, an array that    *)
(* was exported once is a fixed point of import and export.                *)
THEOREM LaterTripsStable == Spec => []TripsSettle
<1>1. TripInv => TripsSettle
  <2> SUFFICES ASSUME TripInv, stage = "exported", ~importError, trips > 1
               PROVE  doc = given
    BY DEF TripsSettle
  <2>1. given \in Seq(Update) /\ trips > 0
    BY DEF TripInv, TypeOK
  <2>2. Len(given) <= MaxUpdates /\ Fitting(given)
    BY DEF TripInv, ExportedFits
  <2>3. doc = SubSeq(given, 1, KeptOf(given))
    BY <2>1, <2>2, ArrayComesBack
  <2>4. KeptOf(given) = Len(given)
    BY <2>1, <2>2, SizesAssumption DEF KeptOf
  <2>5. SubSeq(given, 1, Len(given)) = given
    BY <2>1
  <2> QED
    BY <2>3, <2>4, <2>5
<1> QED
  BY <1>1, TripsInitially, TripStep, PTL DEF Spec
==============================================================================
