-------------------------- MODULE LrNodeTableProofs --------------------------
(***************************************************************************)
(* Theorems about the table of Long Range nodes for every format, table    *)
(* and file size, set of JSON keys, number of trips and pattern of write   *)
(* errors.                                                                 *)
(*                                                                         *)
(* What the state of an import says of the entries it has visited is the   *)
(* inductive invariant, in parts: the mask and the error flags (Visits),   *)
(* the node-info files (Infos), and for the transmit powers one part per   *)
(* direction (PowersBounded, PowersHeld).  The bound on the powers speaks  *)
(* of every file and of the importer's buffer, because the bytes of a new  *)
(* file start as what the buffer holds of another file.                    *)
(***************************************************************************)
EXTENDS LrNodeTable, StorageRulesProofs, FiniteSetTheorems

(* ------------------------------- places -------------------------------- *)

(* The places of powers, as functions of the format.                       *)
PerByte(f) == IF f = 2 THEN 2 ELSE 1
PerFile(f) == PerByte(f) * PowerBytes
FileIn(f, n) == FileOf(n, PerFile(f))
ByteIn(f, n) == SlotOf(n, PerFile(f)) \div PerByte(f)
FilesIn(f) == FileNumbers(MaxNode, PerFile(f))
HalvesIn(f, n) == IF f = 2 THEN {IF (n - 1) % 2 = 1 THEN "high" ELSE "low"} ELSE Half
Part(f, n, p) == [h \in Half |-> IF h \in HalvesIn(f, n) THEN p[h] ELSE {}]

LEMMA Places ==
  /\ \A n : PowerFile(n) = FileIn(format, n) /\ PowerByte(n) = ByteIn(format, n)
  /\ PowerFiles = FilesIn(format)
  /\ PowersPerFile = PerFile(format)
  /\ \A n : OwnHalves(n) = HalvesIn(format, n)
  /\ \A n, p : OwnPart(n, p) = Part(format, n, p)
BY DEF PowerFile, PowerByte, PowerFiles, PowersPerFile, NodesPerByte, OwnHalves, OwnPart,
       FileIn, ByteIn, FilesIn, HalvesIn, Part, PerFile, PerByte

LEMMA InfoPlace ==
  /\ \A n \in LrNode : InfoFile(n) \in InfoFiles /\ InfoSlot(n) \in InfoSlots
  /\ \A n, m \in LrNode :
       InfoFile(n) = InfoFile(m) /\ InfoSlot(n) = InfoSlot(m) => n = m
<1>1. ASSUME NEW n \in LrNode
      PROVE  InfoFile(n) \in InfoFiles /\ InfoSlot(n) \in InfoSlots
  BY PlaceInTable, SizesAssumption DEF LrNode, InfoFile, InfoSlot, InfoFiles, InfoSlots
<1>2. ASSUME NEW n \in LrNode, NEW m \in LrNode,
             InfoFile(n) = InfoFile(m), InfoSlot(n) = InfoSlot(m)
      PROVE  n = m
  <2>1. n \in Nat \ {0} /\ m \in Nat \ {0}
    BY SizesAssumption DEF LrNode
  <2> QED
    BY <1>2, <2>1, PlaceUnique, SizesAssumption DEF InfoFile, InfoSlot
<1> QED
  BY <1>1, <1>2

(* The byte of a power lies inside its file; in format 3 it is one node's. *)
LEMMA PowerPlace ==
  ASSUME NEW f \in Nat, NEW n \in LrNode
  PROVE  /\ FileIn(f, n) \in FilesIn(f)
         /\ ByteIn(f, n) \in PowerIndex
         /\ \A m \in LrNode :
              f = 3 /\ FileIn(f, n) = FileIn(f, m) /\ ByteIn(f, n) = ByteIn(f, m) => n = m
<1>1. PerByte(f) \in {1, 2} /\ PerFile(f) \in Nat \ {0}
  BY SizesAssumption DEF PerByte, PerFile
<1>2. FileIn(f, n) \in FilesIn(f) /\ SlotOf(n, PerFile(f)) \in 0 .. PerFile(f) - 1
  BY <1>1, PlaceInTable, SizesAssumption DEF LrNode, FileIn, FilesIn
<1>3. ByteIn(f, n) \in PowerIndex
  BY <1>1, <1>2, SizesAssumption DEF ByteIn, PowerIndex, PerFile
<1>4. ASSUME NEW m \in LrNode, f = 3,
             FileIn(f, n) = FileIn(f, m), ByteIn(f, n) = ByteIn(f, m)
      PROVE  n = m
  <2>1. SlotOf(m, PerFile(f)) \in 0 .. PerFile(f) - 1
    BY <1>1, PlaceInTable, SizesAssumption DEF LrNode
  <2>2. SlotOf(n, PerFile(f)) = SlotOf(m, PerFile(f))
    BY <1>2, <1>4, <2>1 DEF ByteIn, PerByte
  <2> QED
    BY <1>1, <1>4, <2>2, PlaceUnique, SizesAssumption DEF LrNode, FileIn
<1> QED
  BY <1>2, <1>3, <1>4

(* In format 2 two nodes share half a byte of some file if and only if     *)
(* they have the same place in their files.                                *)
LEMMA HalfBytes ==
  ASSUME NEW n \in LrNode, NEW m \in LrNode
  PROVE  /\ ByteIn(2, n) = ByteIn(2, m) /\ HalvesIn(2, n) \cap HalvesIn(2, m) # {}
              => SlotOf(n, PerFile(2)) = SlotOf(m, PerFile(2))
         /\ SlotOf(n, PerFile(2)) = SlotOf(m, PerFile(2))
              => ByteIn(2, n) = ByteIn(2, m) /\ HalvesIn(2, n) = HalvesIn(2, m)
<1>1. PerFile(2) = 2 * PowerBytes
  BY DEF PerFile, PerByte
<1>2. ASSUME NEW i \in LrNode
      PROVE  /\ SlotOf(i, PerFile(2)) \in Nat
             /\ SlotOf(i, PerFile(2)) % 2 = (i - 1) % 2
             /\ (i - 1) % 2 \in {0, 1}
  <2> DEFINE d == 2 * PowerBytes
             q == (i - 1) \div d
             r == (i - 1) % d
  <2>1. i - 1 \in Nat /\ d \in Nat \ {0}
    BY SizesAssumption DEF LrNode
  <2>2. i - 1 = d * q + r /\ q \in Nat /\ r \in Nat
    <3> HIDE DEF d
    <3> QED
      BY <2>1
  <2>3. SlotOf(i, PerFile(2)) = r
    BY <1>1 DEF SlotOf
  <2> HIDE DEF q, r
  <2>4. PowerBytes * q \in Nat
    BY <2>2, SizesAssumption
  <2>5. i - 1 = 2 * (PowerBytes * q) + r
    BY <2>2, <2>4, SizesAssumption
  <2>6. (i - 1) % 2 = r % 2
    BY <2>2, <2>4, <2>5
  <2> QED
    BY <2>1, <2>2, <2>3, <2>6
<1>3. ASSUME NEW i \in LrNode
      PROVE  HalvesIn(2, i) = IF SlotOf(i, PerFile(2)) % 2 = 1 THEN {"high"} ELSE {"low"}
  BY <1>2 DEF HalvesIn
<1>4. ASSUME NEW i \in LrNode
      PROVE  ByteIn(2, i) = SlotOf(i, PerFile(2)) \div 2
  BY DEF ByteIn, PerByte
<1>5. ASSUME ByteIn(2, n) = ByteIn(2, m), HalvesIn(2, n) \cap HalvesIn(2, m) # {}
      PROVE  SlotOf(n, PerFile(2)) = SlotOf(m, PerFile(2))
  <2> DEFINE a == SlotOf(n, PerFile(2))
             b == SlotOf(m, PerFile(2))
  <2>1. a \in Nat /\ b \in Nat /\ a \div 2 = b \div 2
    BY <1>2, <1>4, <1>5
  <2>2. a % 2 = 1 <=> b % 2 = 1
    BY <1>3, <1>5
  <2> HIDE DEF a, b
  <2>3. a = b
    BY <2>1, <2>2
  <2> QED
    BY <2>3 DEF a, b
<1> QED
  BY <1>3, <1>4, <1>5

(* The key of a node spells its number again.                              *)
LEMMA KeyInverse ==
  ASSUME NEW n \in LrNode
  PROVE  KeyOf(n) \in Keys /\ LrNodeOf(KeyOf(n)) = n
<1>1. n - 1 + MinNodeId \in 0 .. IdModulus - 1
  BY SizesAssumption DEF LrNode
<1>2. (n - 1 + MinNodeId) % IdModulus = n - 1 + MinNodeId
  BY <1>1, SizesAssumption
<1> QED
  BY <1>2, SizesAssumption DEF LrNode, KeyOf, LrNodeOf, Keys

(* ----------------------------- invariants ------------------------------ *)

(* No "250ms" reaches a file or an exported node.                          *)
StoredInfo == [wakeup: {"none", "1000ms", Blank}, device: Device \cup {Blank}]
ReportedRecord(f) ==
  {r \in ExportedRecord :
     /\ r.device # Absent => r.wakeup \in {"none", "1000ms"}
     /\ f # 2 => r.lrTxPower = Absent
     /\ f # 3 => r.txPower = Absent}

(* Types.                                                                  *)
TypeOK ==
  /\ format \in Nat /\ trip \in Nat \ {0} /\ stage \in {"import", "stored", "exported"}
  /\ given \in [LrNode -> ExportedRecord \cup {NoNode}]
  /\ json \in [Keys -> ExportedRecord \cup {NoNode}]
  /\ exists \subseteq LrNode /\ existsFile \subseteq LrNode
  /\ infoFile \in [InfoFiles -> [InfoSlots -> StoredInfo]]
  /\ infoKeys \subseteq InfoFiles
  /\ lr_tx_power_buf \in [PowerIndex -> Power]
  /\ powerFile \in [FilesIn(format) -> [PowerIndex -> Power]]
  /\ powerKeys \subseteq FilesIn(format)
  /\ importError \in BOOLEAN /\ parseError \in BOOLEAN /\ existsKey \in BOOLEAN

(* Entry k of JSON object j is one of node n.                              *)
EntryOf(j, k, n) == j[k] # NoNode /\ LrNodeOf(k) = n

(* The nodes that were named are in the importer's mask; an entry without  *)
(* a power raises the flag in the formats that have powers.                *)
Visits ==
  /\ IsFiniteSet({k \in Keys : json[k] # NoNode})
  /\ \A n \in LrNode : n \in exists <=> format >= 2 /\ \E k \in Keys : EntryOf(json, k, n)
  /\ \A k \in Keys, n \in LrNode :
       format \in {2, 3} /\ EntryOf(json, k, n) /\ json[k].lrTxPower = Absent => parseError

(* Each named node has the description of one of its entries.              *)
Infos ==
  ~importError =>
    \A n \in exists :
      /\ InfoFile(n) \in infoKeys
      /\ \E k \in Keys : /\ EntryOf(json, k, n)
                         /\ infoFile[InfoFile(n)][InfoSlot(n)] = ParsedInfo(json[k])

(* Where the bits of format 2 come from: in any file, and in the buffer.   *)
HasBit(n, h, x) ==
  \/ x \in lr_tx_power_buf[ByteIn(2, n)][h]
  \/ \E f \in FilesIn(2) : x \in powerFile[f][ByteIn(2, n)][h]
PowersBounded ==
  format = 2 =>
    \A n \in LrNode : \A h \in HalvesIn(2, n) : \A x \in Bit :
      HasBit(n, h, x) =>
        \E k \in Keys, m \in LrNode :
          /\ EntryOf(json, k, m)
          /\ SlotOf(m, PerFile(2)) = SlotOf(n, PerFile(2))
          /\ x \in JsonPower(json[k])[h]

(* The powers of the entries are in the files.                             *)
PowersHeld ==
  format \in {2, 3} /\ ~importError =>
    \A n \in exists :
      /\ FileIn(format, n) \in powerKeys
      /\ format = 3 =>
           \E k \in Keys :
             /\ EntryOf(json, k, n)
             /\ powerFile[FileIn(3, n)][ByteIn(3, n)] = JsonPower(json[k])
      /\ format = 2 =>
           \A k \in Keys : EntryOf(json, k, n) =>
             \A h \in HalvesIn(2, n) :
               JsonPower(json[k])[h] \subseteq powerFile[FileIn(2, n)][ByteIn(2, n)][h]

(* What a later trip imports.                                              *)
Trips ==
  trip > 1 =>
    /\ \A n \in LrNode :
         given[n] # NoNode =>
           /\ format >= 2
           /\ given[n] \in ReportedRecord(format)
           /\ format = 2 /\ given[n].lrTxPower # Absent =>
                given[n].lrTxPower = Part(2, n, given[n].lrTxPower)
    /\ \A k \in Keys :
         json[k] # NoNode => \E n \in LrNode : k = KeyOf(n) /\ json[k] = given[n]
    /\ stage # "import" => \A n \in LrNode : json[KeyOf(n)] = given[n]

(* The mask that is stored, and the report made from it.                   *)
InfoAt(files, keys, n) ==
  IF InfoFile(n) \notin keys THEN [wakeup |-> Absent, device |-> Absent]
  ELSE [wakeup |-> ReportedWakeup(files[InfoFile(n)][InfoSlot(n)].wakeup),
        device |-> files[InfoFile(n)][InfoSlot(n)].device]
PowerAt(f, files, keys, n) ==
  IF FileIn(f, n) \in keys THEN Part(f, n, files[FileIn(f, n)][ByteIn(f, n)]) ELSE Absent
Reported(f, infos, ikeys, powers, pkeys, n) ==
  [wakeup |-> InfoAt(infos, ikeys, n).wakeup, device |-> InfoAt(infos, ikeys, n).device,
   lrTxPower |-> IF f = 2 THEN PowerAt(f, powers, pkeys, n) ELSE Absent,
   txPower |-> IF f = 3 THEN PowerAt(f, powers, pkeys, n) ELSE Absent]
Stages ==
  /\ format < 2 => existsFile = {}
  /\ stage # "import" /\ ~importError =>
       existsFile = exists /\ (format >= 2 => existsKey)
  /\ stage = "exported" =>
       /\ out = [n \in LrNode |->
                   IF n \in existsFile
                     THEN Reported(format, infoFile, infoKeys, powerFile, powerKeys, n)
                     ELSE NoNode]
       /\ exportError <=>
            \/ format >= 2 /\ ~existsKey
            \/ \E n \in existsFile :
                 \/ InfoFile(n) \notin infoKeys
                 \/ format \in {2, 3} /\ FileIn(format, n) \notin powerKeys

TableInv ==
  TypeOK /\ Visits /\ Infos /\ PowersBounded /\ PowersHeld /\ Trips /\ Stages

(* ------------------------------- records ------------------------------- *)

LEMMA Records ==
  ASSUME NEW v \in ExportedRecord
  PROVE  /\ v # NoNode
         /\ ParsedInfo(v) \in StoredInfo
         /\ JsonPower(v) \in Power
<1>1. v # NoNode
  BY InputAssumption
<1>2. ParsedWakeup(v.wakeup) \in {"none", "1000ms"}
  BY DEF ParsedWakeup
<1>3. v.device = Absent \/ v.device \in Device \cup {Blank}
  BY DEF ExportedRecord
<1>4. ParsedInfo(v) \in StoredInfo
  BY <1>2, <1>3, InputAssumption DEF ParsedInfo, StoredInfo
<1>5. ZeroPower \in Power
  BY DEF ZeroPower, Power
<1>6. JsonPower(v) \in Power
  BY <1>5 DEF JsonPower, ExportedRecord
<1> QED
  BY <1>1, <1>4, <1>6

LEMMA PartType ==
  ASSUME NEW f, NEW n, NEW p \in Power
  PROVE  /\ Part(f, n, p) \in Power
         /\ f # 2 => Part(f, n, p) = p
         /\ Part(f, n, Part(f, n, p)) = Part(f, n, p)
BY DEF Part, Power, HalvesIn

LEMMA ReportedType ==
  ASSUME TypeOK, NEW n \in LrNode
  PROVE  Reported(format, infoFile, infoKeys, powerFile, powerKeys, n) \in
           ReportedRecord(format)
<1> DEFINE r == Reported(format, infoFile, infoKeys, powerFile, powerKeys, n)
           info == infoFile[InfoFile(n)][InfoSlot(n)]
           at == InfoAt(infoFile, infoKeys, n)
           power == PowerAt(format, powerFile, powerKeys, n)
<1>1. info \in StoredInfo
  BY InfoPlace DEF TypeOK
<1>2. info.wakeup \in {"none", "1000ms", Blank} /\ info.device \in Device \cup {Blank}
  BY <1>1 DEF StoredInfo
<1>3. /\ at.wakeup \in {"none", "1000ms", Absent} /\ at.device \in Device \cup {Blank, Absent}
      /\ at.device # Absent => at.wakeup \in {"none", "1000ms"}
  <2>1. CASE InfoFile(n) \notin infoKeys
    BY <2>1 DEF InfoAt
  <2>2. CASE InfoFile(n) \in infoKeys
    <3>1. at = [wakeup |-> ReportedWakeup(info.wakeup), device |-> info.device]
      BY <2>2 DEF InfoAt
    <3>2. ReportedWakeup(info.wakeup) \in {"none", "1000ms"}
      BY <1>2 DEF ReportedWakeup
    <3> HIDE DEF at, info
    <3> QED
      BY <1>2, <3>1, <3>2
  <2> QED
    BY <2>1, <2>2
<1>4. power \in Power \cup {Absent}
  <2>1. powerFile[FileIn(format, n)][ByteIn(format, n)] \in Power
    BY PowerPlace DEF TypeOK
  <2> QED
    BY <2>1, PartType DEF PowerAt
<1> HIDE DEF at, info, power
<1>5. r = [wakeup |-> at.wakeup, device |-> at.device,
           lrTxPower |-> IF format = 2 THEN power ELSE Absent,
           txPower |-> IF format = 3 THEN power ELSE Absent]
  BY DEF Reported, at, power
<1> HIDE DEF r
<1>6. /\ r \in ExportedRecord
      /\ r.device # Absent => r.wakeup \in {"none", "1000ms"}
      /\ format # 2 => r.lrTxPower = Absent
      /\ format # 3 => r.txPower = Absent
  BY <1>3, <1>4, <1>5 DEF ExportedRecord, Wakeup
<1> QED
  BY <1>6 DEF ReportedRecord, r

(* ------------------------------- writing ------------------------------- *)

LEMMA InfoWritten ==
  ASSUME TypeOK, NEW n \in LrNode, NEW v \in ExportedRecord, NEW ok \in BOOLEAN,
         WriteInfo(n, v, ok)
  PROVE  /\ infoFile' \in [InfoFiles -> [InfoSlots -> StoredInfo]]
         /\ infoKeys' = IF ok THEN infoKeys \cup {InfoFile(n)} ELSE infoKeys
         /\ ok => infoFile'[InfoFile(n)][InfoSlot(n)] = ParsedInfo(v)
         /\ \A m \in LrNode :
              m # n /\ InfoFile(m) \in infoKeys =>
                infoFile'[InfoFile(m)][InfoSlot(m)] = infoFile[InfoFile(m)][InfoSlot(m)]
<1>1. CASE ~ok
  BY <1>1 DEF WriteInfo, TypeOK
<1>2. CASE ok
  <2> DEFINE loaded == LoadedInfo(n)
             new == [loaded EXCEPT ![InfoSlot(n)] = ParsedInfo(v)]
  <2>1. /\ infoKeys' = infoKeys \cup {InfoFile(n)}
        /\ infoFile' = [infoFile EXCEPT ![InfoFile(n)] = new]
    BY <1>2 DEF WriteInfo
  <2>2. InfoFile(n) \in InfoFiles /\ InfoSlot(n) \in InfoSlots
    BY InfoPlace
  <2>3. BlankInfo \in StoredInfo
    BY DEF BlankInfo, StoredInfo
  <2>4. /\ loaded \in [InfoSlots -> StoredInfo]
        /\ InfoFile(n) \in infoKeys => loaded = infoFile[InfoFile(n)]
    BY <2>2, <2>3 DEF LoadedInfo, TypeOK
  <2> HIDE DEF loaded
  <2>5. /\ new \in [InfoSlots -> StoredInfo]
        /\ new[InfoSlot(n)] = ParsedInfo(v)
        /\ \A s \in InfoSlots : s # InfoSlot(n) => new[s] = loaded[s]
    BY <2>2, <2>4, Records
  <2> HIDE DEF new
  <2>6. /\ infoFile' \in [InfoFiles -> [InfoSlots -> StoredInfo]]
        /\ infoFile'[InfoFile(n)] = new
        /\ \A f \in InfoFiles : f # InfoFile(n) => infoFile'[f] = infoFile[f]
    BY <2>1, <2>2, <2>5 DEF TypeOK
  <2>7. ASSUME NEW m \in LrNode, m # n, InfoFile(m) \in infoKeys
        PROVE  infoFile'[InfoFile(m)][InfoSlot(m)] = infoFile[InfoFile(m)][InfoSlot(m)]
    <3>1. InfoFile(m) \in InfoFiles /\ InfoSlot(m) \in InfoSlots
      BY InfoPlace
    <3>2. InfoFile(m) = InfoFile(n) => InfoSlot(m) # InfoSlot(n)
      BY <2>7, InfoPlace
    <3> QED
      BY <2>4, <2>5, <2>6, <2>7, <3>1, <3>2
  <2> QED
    BY <1>2, <2>1, <2>5, <2>6, <2>7
<1> QED
  BY <1>1, <1>2

(* A write of a power: the buffer is what it was, or the file if there is  *)
(* one, with one byte changed; the file becomes the buffer.                *)
LEMMA PowerWritten ==
  ASSUME TypeOK, NEW n \in LrNode, NEW v \in ExportedRecord, NEW ok \in BOOLEAN,
         WritePower(n, v, ok)
  PROVE  /\ lr_tx_power_buf' \in [PowerIndex -> Power]
         /\ powerFile' \in [FilesIn(format) -> [PowerIndex -> Power]]
         /\ powerKeys' = IF ok THEN powerKeys \cup {FileIn(format, n)} ELSE powerKeys
         /\ \A b \in PowerIndex : b # ByteIn(format, n) =>
              lr_tx_power_buf'[b] = IF FileIn(format, n) \in powerKeys
                                    THEN powerFile[FileIn(format, n)][b]
                                    ELSE lr_tx_power_buf[b]
         /\ lr_tx_power_buf'[ByteIn(format, n)] =
              PoweredByte(IF FileIn(format, n) \in powerKeys
                            THEN powerFile[FileIn(format, n)][ByteIn(format, n)]
                            ELSE lr_tx_power_buf[ByteIn(format, n)], n, JsonPower(v))
         /\ ok => powerFile'[FileIn(format, n)] = lr_tx_power_buf'
         /\ \A f \in FilesIn(format) :
              ~ok \/ f # FileIn(format, n) => powerFile'[f] = powerFile[f]
<1> DEFINE file == FileIn(format, n)
           byte == ByteIn(format, n)
           loaded == LoadedPower(n)
           old == loaded[byte]
           powered == PoweredByte(old, n, JsonPower(v))
<1>1. file \in FilesIn(format) /\ byte \in PowerIndex
  BY PowerPlace DEF TypeOK
<1>2. PowerFile(n) = file /\ PowerByte(n) = byte
  BY Places
<1>3. /\ loaded = IF file \in powerKeys THEN powerFile[file] ELSE lr_tx_power_buf
      /\ loaded \in [PowerIndex -> Power]
  BY <1>1, <1>2 DEF LoadedPower, TypeOK
<1>4. lr_tx_power_buf' = [loaded EXCEPT ![byte] = powered]
  BY <1>2, <1>3 DEF WritePower
<1>5. powered \in Power
  <2>1. old \in Power /\ JsonPower(v) \in Power
    BY <1>1, <1>3, Records
  <2>2. OwnPart(n, JsonPower(v)) \in Power
    BY <2>1, Places, PartType
  <2> HIDE DEF old
  <2> QED
    BY <2>1, <2>2 DEF PoweredByte, Power
<1>6. /\ powerKeys' = IF ok THEN powerKeys \cup {file} ELSE powerKeys
      /\ powerFile' = IF ok THEN [powerFile EXCEPT ![file] = lr_tx_power_buf'] ELSE powerFile
  BY <1>2 DEF WritePower
<1> HIDE DEF file, byte, loaded, powered
<1>7. /\ lr_tx_power_buf' \in [PowerIndex -> Power]
      /\ lr_tx_power_buf'[byte] = powered
      /\ \A b \in PowerIndex : b # byte => lr_tx_power_buf'[b] = loaded[b]
  BY <1>1, <1>3, <1>4, <1>5
<1>8. /\ powerFile' \in [FilesIn(format) -> [PowerIndex -> Power]]
      /\ ok => powerFile'[file] = lr_tx_power_buf'
      /\ \A f \in FilesIn(format) : ~ok \/ f # file => powerFile'[f] = powerFile[f]
  BY <1>1, <1>6, <1>7 DEF TypeOK
<1>9. powered = PoweredByte(IF file \in powerKeys THEN powerFile[file][byte]
                            ELSE lr_tx_power_buf[byte], n, JsonPower(v))
  BY <1>3 DEF powered
<1>10. \A b \in PowerIndex : b # byte =>
         lr_tx_power_buf'[b] = IF file \in powerKeys THEN powerFile[file][b]
                               ELSE lr_tx_power_buf[b]
  BY <1>3, <1>7
<1> QED
  BY <1>6, <1>7, <1>8, <1>9, <1>10 DEF file, byte

(* ------------------------------- entries ------------------------------- *)

LEMMA Entry ==
  ASSUME TypeOK, Trips, NEW k \in Keys, NEW v \in Node \cup {given[n] : n \in LrNode},
         NextEntry(k, v), json' = [json EXCEPT ![k] = v]
  PROVE  /\ v \in ExportedRecord /\ v # NoNode
         /\ json' \in [Keys -> ExportedRecord \cup {NoNode}]
         /\ json[k] = NoNode /\ json'[k] = v
         /\ \A j \in Keys : j # k => json'[j] = json[j]
         /\ \A j \in Keys : \A n : EntryOf(json', j, n) <=>
              EntryOf(json, j, n) \/ (j = k /\ LrNodeOf(k) = n)
         /\ trip > 1 => \E n \in LrNode : k = KeyOf(n) /\ v = given[n]
<1>1. v \in ExportedRecord
  <2>1. CASE trip = 1
    <3>1. v \in NodeRecord
      BY <2>1, InputAssumption DEF NextEntry
    <3> QED
      BY <3>1 DEF NodeRecord, ExportedRecord
  <2>2. CASE trip # 1
    BY <2>2 DEF NextEntry, TypeOK
  <2> QED
    BY <2>1, <2>2
<1>2. v # NoNode
  BY <1>1, InputAssumption
<1>3. json[k] = NoNode
  BY DEF NextEntry
<1>4. /\ json' \in [Keys -> ExportedRecord \cup {NoNode}]
      /\ json'[k] = v
      /\ \A j \in Keys : j # k => json'[j] = json[j]
  BY <1>1 DEF TypeOK
<1>5. ASSUME NEW j \in Keys, NEW n
      PROVE  EntryOf(json', j, n) <=> EntryOf(json, j, n) \/ (j = k /\ LrNodeOf(k) = n)
  BY <1>2, <1>3, <1>4 DEF EntryOf
<1>6. trip > 1 => \E n \in LrNode : k = KeyOf(n) /\ v = given[n]
  BY DEF NextEntry
<1> QED
  BY <1>1, <1>2, <1>3, <1>4, <1>5, <1>6

LEMMA EntryTrips ==
  ASSUME TypeOK, Trips, NEW k \in Keys, NEW v \in Node \cup {given[n] : n \in LrNode},
         NextEntry(k, v), json' = [json EXCEPT ![k] = v],
         UNCHANGED <<format, trip, stage, given>>
  PROVE  Trips'
<1>1. /\ json'[k] = v
      /\ \A j \in Keys : j # k => json'[j] = json[j]
      /\ trip > 1 => \E n \in LrNode : k = KeyOf(n) /\ v = given[n]
  BY Entry
<1>2. stage = "import"
  BY DEF NextEntry
<1>3. ASSUME trip > 1, NEW j \in Keys, json'[j] # NoNode
      PROVE  \E n \in LrNode : j = KeyOf(n) /\ json'[j] = given[n]
  BY <1>1, <1>3 DEF Trips
<1> QED
  BY <1>2, <1>3 DEF Trips

LEMMA VisitedFinite ==
  ASSUME TypeOK, Trips, NEW k \in Keys, NEW v \in Node \cup {given[n] : n \in LrNode},
         NextEntry(k, v), json' = [json EXCEPT ![k] = v],
         IsFiniteSet({j \in Keys : json[j] # NoNode})
  PROVE  IsFiniteSet({j \in Keys : json'[j] # NoNode})
<1> DEFINE visited == {j \in Keys : json[j] # NoNode}
<1>1. /\ v # NoNode /\ json'[k] = v
      /\ \A j \in Keys : j # k => json'[j] = json[j]
  BY Entry
<1>2. {j \in Keys : json'[j] # NoNode} = visited \cup {k}
  BY <1>1
<1>3. IsFiniteSet(visited \cup {k})
  BY FS_AddElement
<1> QED
  BY <1>2, <1>3

LEMMA SkipEntryInv ==
  ASSUME TableInv, NEW k \in Keys, NEW v \in Node \cup {given[n] : n \in LrNode},
         SkipEntry(k, v)
  PROVE  TableInv'
<1>1. /\ NextEntry(k, v) /\ json' = [json EXCEPT ![k] = v]
      /\ LrNodeOf(k) \notin LrNode \/ format < 2
      /\ format' = format /\ trip' = trip /\ stage' = stage /\ given' = given
      /\ exists' = exists /\ lr_tx_power_buf' = lr_tx_power_buf
      /\ existsFile' = existsFile /\ existsKey' = existsKey
      /\ infoFile' = infoFile /\ infoKeys' = infoKeys
      /\ powerFile' = powerFile /\ powerKeys' = powerKeys
      /\ importError' = importError /\ parseError' = parseError
      /\ exportError' = exportError /\ out' = out
  BY DEF SkipEntry, nvmVars
<1>2. TypeOK /\ Visits /\ Infos /\ PowersBounded /\ PowersHeld /\ Trips /\ Stages
  BY DEF TableInv
<1>3. /\ json' \in [Keys -> ExportedRecord \cup {NoNode}]
      /\ json[k] = NoNode
      /\ \A j \in Keys : j # k => json'[j] = json[j]
      /\ \A j \in Keys : \A n : EntryOf(json', j, n) <=>
           EntryOf(json, j, n) \/ (j = k /\ LrNodeOf(k) = n)
  BY <1>1, <1>2, Entry
<1>4. format \in Nat
  BY <1>2 DEF TypeOK
<1>5. ASSUME NEW j \in Keys, NEW n
      PROVE  EntryOf(json, j, n) => EntryOf(json', j, n) /\ json'[j] = json[j]
  BY <1>3 DEF EntryOf
<1>6. ASSUME NEW j \in Keys, NEW n \in LrNode, format >= 2
      PROVE  EntryOf(json', j, n) <=> EntryOf(json, j, n)
  <2>1. LrNodeOf(k) # n
    BY <1>1, <1>4, <1>6
  <2> QED
    BY <1>3, <2>1
<1>7. TypeOK'
  BY <1>1, <1>2, <1>3 DEF TypeOK, FilesIn
<1>8. Visits'
  <2>1. IsFiniteSet({j \in Keys : json'[j] # NoNode})
    BY <1>1, <1>2, VisitedFinite DEF Visits
  <2>2. ASSUME NEW n \in LrNode
        PROVE  n \in exists <=> format >= 2 /\ \E j \in Keys : EntryOf(json', j, n)
    BY <1>2, <1>6 DEF Visits
  <2>3. ASSUME NEW j \in Keys, NEW n \in LrNode, format \in {2, 3}, EntryOf(json', j, n),
               json'[j].lrTxPower = Absent
        PROVE  parseError
    <3>1. EntryOf(json, j, n) /\ json'[j] = json[j]
      BY <1>5, <1>6, <2>3
    <3> QED
      BY <1>2, <2>3, <3>1 DEF Visits
  <2> QED
    BY <1>1, <2>1, <2>2, <2>3 DEF Visits
<1>9. Infos'
  BY <1>1, <1>2, <1>5 DEF Infos
<1>10. PowersBounded'
  <2>1. ASSUME format = 2, NEW n \in LrNode, NEW h \in HalvesIn(2, n), NEW x \in Bit,
               HasBit(n, h, x)
        PROVE  \E j \in Keys, m \in LrNode :
                 /\ EntryOf(json', j, m)
                 /\ SlotOf(m, PerFile(2)) = SlotOf(n, PerFile(2))
                 /\ x \in JsonPower(json'[j])[h]
    <3>1. PICK j \in Keys, m \in LrNode :
                 /\ EntryOf(json, j, m)
                 /\ SlotOf(m, PerFile(2)) = SlotOf(n, PerFile(2))
                 /\ x \in JsonPower(json[j])[h]
      BY <1>2, <2>1 DEF PowersBounded
    <3> QED
      BY <1>5, <3>1
  <2> QED
    BY <1>1, <2>1 DEF PowersBounded, HasBit
<1>11. PowersHeld'
  <2>1. ASSUME format \in {2, 3}, ~importError, NEW n \in exists
        PROVE  /\ FileIn(format, n) \in powerKeys
               /\ format = 3 =>
                    \E j \in Keys :
                      /\ EntryOf(json', j, n)
                      /\ powerFile[FileIn(3, n)][ByteIn(3, n)] = JsonPower(json'[j])
               /\ format = 2 =>
                    \A j \in Keys : EntryOf(json', j, n) =>
                      \A h \in HalvesIn(2, n) :
                        JsonPower(json'[j])[h] \subseteq powerFile[FileIn(2, n)][ByteIn(2, n)][h]
    <3>1. n \in LrNode
      BY <1>2 DEF TypeOK
    <3>2. FileIn(format, n) \in powerKeys
      BY <1>2, <2>1 DEF PowersHeld
    <3>3. format = 3 => \E j \in Keys :
            /\ EntryOf(json', j, n)
            /\ powerFile[FileIn(3, n)][ByteIn(3, n)] = JsonPower(json'[j])
      BY <1>2, <1>5, <2>1 DEF PowersHeld
    <3>4. ASSUME format = 2, NEW j \in Keys, EntryOf(json', j, n)
          PROVE  \A h \in HalvesIn(2, n) :
                   JsonPower(json'[j])[h] \subseteq powerFile[FileIn(2, n)][ByteIn(2, n)][h]
      <4>1. EntryOf(json, j, n) /\ json'[j] = json[j]
        BY <1>5, <1>6, <3>1, <3>4
      <4> QED
        BY <1>2, <2>1, <3>4, <4>1 DEF PowersHeld
    <3> QED
      BY <3>2, <3>3, <3>4
  <2> QED
    BY <1>1, <2>1 DEF PowersHeld
<1>12. Trips'
  BY <1>1, <1>2, EntryTrips
<1>13. Stages'
  BY <1>1, <1>2 DEF Stages
<1> QED
  BY <1>7, <1>8, <1>9, <1>10, <1>11, <1>12, <1>13 DEF TableInv

(* What an entry that is imported changes.                                 *)
LEMMA Imported ==
  ASSUME TypeOK, Trips, NEW k \in Keys, NEW v \in Node \cup {given[n] : n \in LrNode},
         ImportEntry(k, v)
  PROVE  /\ NextEntry(k, v) /\ json' = [json EXCEPT ![k] = v]
         /\ LrNodeOf(k) \in LrNode /\ format >= 2
         /\ UNCHANGED <<format, trip, stage, given, existsFile, existsKey, exportError, out>>
         /\ exists' = exists \cup {LrNodeOf(k)}
         /\ parseError' \in BOOLEAN
         /\ parseError => parseError'
         /\ format \in {2, 3} /\ v.lrTxPower = Absent => parseError'
         /\ \E infoOk \in BOOLEAN, powerOk \in BOOLEAN :
              /\ WriteInfo(LrNodeOf(k), v, infoOk)
              /\ IF format \in {2, 3}
                   THEN WritePower(LrNodeOf(k), v, powerOk)
                   ELSE UNCHANGED <<lr_tx_power_buf, powerKeys, powerFile>>
              /\ importError' \in BOOLEAN
              /\ ~importError' =>
                   ~importError /\ infoOk /\ (format \in {2, 3} => powerOk)
<1>1. /\ NextEntry(k, v) /\ json' = [json EXCEPT ![k] = v]
      /\ LrNodeOf(k) \in LrNode /\ format >= 2
      /\ UNCHANGED <<format, trip, stage, given, existsFile, existsKey, exportError, out>>
      /\ exists' = exists \cup {LrNodeOf(k)}
  BY DEF ImportEntry
<1>2. PICK infoOk \in WriteResult, powerOk \in WriteResult :
         /\ WriteInfo(LrNodeOf(k), v, infoOk)
         /\ IF HasPower
              THEN WritePower(LrNodeOf(k), v, powerOk)
              ELSE UNCHANGED <<lr_tx_power_buf, powerKeys, powerFile>>
         /\ importError' = (importError \/ ~infoOk \/ (HasPower /\ ~powerOk))
  BY DEF ImportEntry
<1>3. WriteResult \subseteq BOOLEAN
  BY DEF WriteResult
<1>4. HasPower <=> format \in {2, 3}
  BY DEF HasPower
<1>5. importError' \in BOOLEAN /\ importError \in BOOLEAN
  BY <1>2 DEF TypeOK
<1>6. parseError' = (parseError \/ v.device = Absent \/ (HasPower /\ v.lrTxPower = Absent))
  BY DEF ImportEntry
<1>7. /\ parseError' \in BOOLEAN /\ (parseError => parseError')
      /\ format \in {2, 3} /\ v.lrTxPower = Absent => parseError'
  BY <1>4, <1>6 DEF TypeOK
<1>8. ~importError' => ~importError /\ infoOk /\ (format \in {2, 3} => powerOk)
  BY <1>2, <1>4
<1> QED
  BY <1>1, <1>2, <1>3, <1>4, <1>5, <1>7, <1>8

LEMMA ImportEntryVisits ==
  ASSUME TableInv, NEW k \in Keys, NEW v \in Node \cup {given[n] : n \in LrNode},
         ImportEntry(k, v)
  PROVE  TypeOK' /\ Visits' /\ Infos' /\ Trips' /\ Stages'
<1> DEFINE n == LrNodeOf(k)
<1>1. TypeOK /\ Visits /\ Infos /\ Trips /\ Stages
  BY DEF TableInv
<1>2. PICK infoOk \in BOOLEAN, powerOk \in BOOLEAN :
         /\ WriteInfo(n, v, infoOk)
         /\ IF format \in {2, 3}
              THEN WritePower(n, v, powerOk)
              ELSE UNCHANGED <<lr_tx_power_buf, powerKeys, powerFile>>
         /\ importError' \in BOOLEAN
         /\ ~importError' =>
              ~importError /\ infoOk /\ (format \in {2, 3} => powerOk)
  BY <1>1, Imported
<1>3. /\ NextEntry(k, v) /\ json' = [json EXCEPT ![k] = v]
      /\ n \in LrNode /\ format >= 2
      /\ format' = format /\ trip' = trip /\ stage' = stage /\ given' = given
      /\ existsFile' = existsFile /\ existsKey' = existsKey
      /\ exists' = exists \cup {n}
      /\ parseError' \in BOOLEAN
      /\ parseError => parseError'
      /\ format \in {2, 3} /\ v.lrTxPower = Absent => parseError'
  BY <1>1, Imported
<1>4. /\ v \in ExportedRecord
      /\ json' \in [Keys -> ExportedRecord \cup {NoNode}]
      /\ json'[k] = v
      /\ \A j \in Keys : j # k => json'[j] = json[j]
      /\ json[k] = NoNode
      /\ \A j \in Keys : \A m : EntryOf(json', j, m) <=>
           EntryOf(json, j, m) \/ (j = k /\ n = m)
  BY <1>1, <1>3, Entry
<1>5. /\ infoFile' \in [InfoFiles -> [InfoSlots -> StoredInfo]]
      /\ infoKeys' = IF infoOk THEN infoKeys \cup {InfoFile(n)} ELSE infoKeys
      /\ infoOk => infoFile'[InfoFile(n)][InfoSlot(n)] = ParsedInfo(v)
      /\ \A m \in LrNode :
           m # n /\ InfoFile(m) \in infoKeys =>
             infoFile'[InfoFile(m)][InfoSlot(m)] = infoFile[InfoFile(m)][InfoSlot(m)]
  BY <1>1, <1>2, <1>3, <1>4, InfoWritten
<1>6. InfoFile(n) \in InfoFiles
  BY <1>3, InfoPlace
<1>7. /\ lr_tx_power_buf' \in [PowerIndex -> Power]
      /\ powerFile' \in [FilesIn(format) -> [PowerIndex -> Power]]
      /\ powerKeys' \subseteq FilesIn(format)
  <2>1. CASE format \in {2, 3}
    <3>1. /\ lr_tx_power_buf' \in [PowerIndex -> Power]
          /\ powerFile' \in [FilesIn(format) -> [PowerIndex -> Power]]
          /\ powerKeys' = IF powerOk THEN powerKeys \cup {FileIn(format, n)} ELSE powerKeys
      BY <1>1, <1>2, <1>3, <1>4, <2>1, PowerWritten
    <3>2. FileIn(format, n) \in FilesIn(format)
      BY <1>1, <1>3, PowerPlace DEF TypeOK
    <3> QED
      BY <1>1, <3>1, <3>2 DEF TypeOK
  <2>2. CASE format \notin {2, 3}
    BY <1>1, <1>2, <2>2 DEF TypeOK
  <2> QED
    BY <2>1, <2>2
<1> HIDE DEF n
<1>8. TypeOK'
  BY <1>1, <1>2, <1>3, <1>4, <1>5, <1>6, <1>7 DEF TypeOK
<1>9. Visits'
  <2>1. IsFiniteSet({j \in Keys : json'[j] # NoNode})
    BY <1>1, <1>3, VisitedFinite DEF Visits
  <2>2. ASSUME NEW m \in LrNode
        PROVE  m \in exists' <=> format >= 2 /\ \E j \in Keys : EntryOf(json', j, m)
    BY <1>1, <1>3, <1>4 DEF Visits
  <2>3. ASSUME NEW j \in Keys, NEW m \in LrNode, format \in {2, 3}, EntryOf(json', j, m),
               json'[j].lrTxPower = Absent
        PROVE  parseError'
    <3>1. CASE j = k
      BY <1>3, <1>4, <2>3, <3>1
    <3>2. CASE j # k
      BY <1>1, <1>3, <1>4, <2>3, <3>2 DEF Visits
    <3> QED
      BY <3>1, <3>2
  <2> QED
    BY <1>3, <2>1, <2>2, <2>3 DEF Visits
<1>10. Infos'
  <2>1. ASSUME ~importError', NEW m \in exists'
        PROVE  /\ InfoFile(m) \in infoKeys'
               /\ \E j \in Keys : /\ EntryOf(json', j, m)
                                  /\ infoFile'[InfoFile(m)][InfoSlot(m)] = ParsedInfo(json'[j])
    <3>1. ~importError /\ infoOk
      BY <1>2, <2>1
    <3>2. CASE m = n
      BY <1>3, <1>4, <1>5, <3>1, <3>2
    <3>3. CASE m # n
      <4>1. m \in exists /\ m \in LrNode
        BY <1>1, <1>3, <2>1, <3>3 DEF TypeOK
      <4>2. InfoFile(m) \in infoKeys
        BY <1>1, <3>1, <4>1 DEF Infos
      <4>3. PICK j \in Keys : /\ EntryOf(json, j, m)
                              /\ infoFile[InfoFile(m)][InfoSlot(m)] = ParsedInfo(json[j])
        BY <1>1, <3>1, <4>1 DEF Infos
      <4>4. EntryOf(json', j, m) /\ json'[j] = json[j]
        BY <1>4, <4>3 DEF EntryOf
      <4>5. infoFile'[InfoFile(m)][InfoSlot(m)] = ParsedInfo(json'[j])
        BY <1>5, <3>3, <4>1, <4>2, <4>3, <4>4
      <4> QED
        BY <1>5, <4>2, <4>4, <4>5
    <3> QED
      BY <3>2, <3>3
  <2> QED
    BY <2>1 DEF Infos
<1>11. Trips'
  BY <1>1, <1>3, EntryTrips
<1>12. Stages'
  BY <1>1, <1>3 DEF Stages, NextEntry, TypeOK
<1> QED
  BY <1>8, <1>9, <1>10, <1>11, <1>12

(* A bit of the buffer after a write of format 2: the bit was there, at    *)
(* this place of the buffer or of the file that was read; or it is the     *)
(* entry's own.                                                            *)
LEMMA ImportEntryBounded ==
  ASSUME TableInv, NEW k \in Keys, NEW v \in Node \cup {given[n] : n \in LrNode},
         ImportEntry(k, v)
  PROVE  PowersBounded'
<1> DEFINE n == LrNodeOf(k)
<1>1. TypeOK /\ PowersBounded /\ Trips
  BY DEF TableInv
<1>2. /\ NextEntry(k, v) /\ json' = [json EXCEPT ![k] = v]
      /\ n \in LrNode /\ format' = format
  BY <1>1, Imported
<1>3. /\ v \in ExportedRecord
      /\ json'[k] = v
      /\ \A j \in Keys : j # k => json'[j] = json[j]
      /\ json[k] = NoNode
      /\ \A j \in Keys : \A m : EntryOf(json', j, m) <=>
           EntryOf(json, j, m) \/ (j = k /\ n = m)
  BY <1>1, <1>2, Entry
<1>4. SUFFICES ASSUME format = 2, NEW i \in LrNode, NEW h \in HalvesIn(2, i), NEW x \in Bit,
                      HasBit(i, h, x)'
               PROVE  \E j \in Keys, m \in LrNode :
                        /\ EntryOf(json', j, m)
                        /\ SlotOf(m, PerFile(2)) = SlotOf(i, PerFile(2))
                        /\ x \in JsonPower(json'[j])[h]
  BY <1>2 DEF PowersBounded
<1>5. PICK ok \in BOOLEAN : WritePower(n, v, ok)
  BY <1>1, <1>4, Imported
<1>6. /\ \A b \in PowerIndex : b # ByteIn(2, n) =>
           lr_tx_power_buf'[b] = IF FileIn(2, n) \in powerKeys
                                 THEN powerFile[FileIn(2, n)][b]
                                 ELSE lr_tx_power_buf[b]
      /\ lr_tx_power_buf'[ByteIn(2, n)] =
           PoweredByte(IF FileIn(2, n) \in powerKeys
                         THEN powerFile[FileIn(2, n)][ByteIn(2, n)]
                         ELSE lr_tx_power_buf[ByteIn(2, n)], n, JsonPower(v))
      /\ ok => powerFile'[FileIn(2, n)] = lr_tx_power_buf'
      /\ \A f \in FilesIn(2) : ~ok \/ f # FileIn(2, n) => powerFile'[f] = powerFile[f]
  BY <1>1, <1>2, <1>3, <1>4, <1>5, PowerWritten
<1>7. ByteIn(2, i) \in PowerIndex /\ FileIn(2, n) \in FilesIn(2) /\ h \in Half
  BY <1>2, <1>4, PowerPlace DEF HalvesIn, Half
<1>8. CASE HasBit(i, h, x)
  <2>1. PICK j \in Keys, m \in LrNode :
               /\ EntryOf(json, j, m)
               /\ SlotOf(m, PerFile(2)) = SlotOf(i, PerFile(2))
               /\ x \in JsonPower(json[j])[h]
    BY <1>1, <1>4, <1>8 DEF PowersBounded
  <2>2. EntryOf(json', j, m) /\ json'[j] = json[j]
    BY <1>3, <2>1 DEF EntryOf
  <2> QED
    BY <2>1, <2>2
<1>9. CASE ~HasBit(i, h, x)
  <2> HIDE DEF n
  <2>1. x \in lr_tx_power_buf'[ByteIn(2, i)][h]
    BY <1>4, <1>6, <1>9 DEF HasBit
  <2>2. ByteIn(2, i) = ByteIn(2, n)
    BY <1>6, <1>7, <1>9, <2>1 DEF HasBit
  <2> DEFINE old == IF FileIn(2, n) \in powerKeys
                      THEN powerFile[FileIn(2, n)][ByteIn(2, n)]
                      ELSE lr_tx_power_buf[ByteIn(2, n)]
  <2>3. x \notin old[h]
    BY <1>7, <1>9, <2>2 DEF HasBit
  <2>4. lr_tx_power_buf'[ByteIn(2, n)][h] = old[h] \cup OwnPart(n, JsonPower(v))[h]
    BY <1>4, <1>6, <1>7 DEF PoweredByte
  <2> HIDE DEF old
  <2>5. x \in Part(2, n, JsonPower(v))[h]
    BY <1>4, <2>1, <2>2, <2>3, <2>4, Places
  <2>6. h \in HalvesIn(2, n) /\ x \in JsonPower(v)[h]
    BY <1>7, <2>5 DEF Part
  <2>7. SlotOf(n, PerFile(2)) = SlotOf(i, PerFile(2))
    BY <1>2, <1>4, <2>2, <2>6, HalfBytes
  <2>8. EntryOf(json', k, n)
    BY <1>3
  <2> QED
    BY <1>2, <1>3, <2>6, <2>7, <2>8
<1> QED
  BY <1>8, <1>9

(* The write keeps the powers of other nodes: in format 2 it adds bits to  *)
(* what it reads from the file, in format 3 no other node has the byte.    *)
LEMMA ImportEntryHeld ==
  ASSUME TableInv, NEW k \in Keys, NEW v \in Node \cup {given[n] : n \in LrNode},
         ImportEntry(k, v)
  PROVE  PowersHeld'
<1> DEFINE n == LrNodeOf(k)
<1>1. TypeOK /\ Visits /\ PowersHeld /\ Trips
  BY DEF TableInv
<1>2. /\ NextEntry(k, v) /\ json' = [json EXCEPT ![k] = v]
      /\ n \in LrNode /\ format' = format /\ exists' = exists \cup {n}
  BY <1>1, Imported
<1>3. /\ v \in ExportedRecord
      /\ json'[k] = v
      /\ \A j \in Keys : j # k => json'[j] = json[j]
      /\ json[k] = NoNode
      /\ \A j \in Keys : \A m : EntryOf(json', j, m) <=>
           EntryOf(json, j, m) \/ (j = k /\ n = m)
  BY <1>1, <1>2, Entry
<1>4. SUFFICES ASSUME format \in {2, 3}, ~importError', NEW i \in exists'
               PROVE  /\ FileIn(format, i) \in powerKeys'
                      /\ format = 3 =>
                           \E j \in Keys :
                             /\ EntryOf(json', j, i)
                             /\ powerFile'[FileIn(3, i)][ByteIn(3, i)] = JsonPower(json'[j])
                      /\ format = 2 =>
                           \A j \in Keys : EntryOf(json', j, i) =>
                             \A h \in HalvesIn(2, i) :
                               JsonPower(json'[j])[h]
                                 \subseteq powerFile'[FileIn(2, i)][ByteIn(2, i)][h]
  BY <1>2 DEF PowersHeld
<1>5. WritePower(n, v, TRUE) /\ ~importError
  <2>1. PICK infoOk \in BOOLEAN, powerOk \in BOOLEAN :
          /\ IF format \in {2, 3}
               THEN WritePower(n, v, powerOk)
               ELSE UNCHANGED <<lr_tx_power_buf, powerKeys, powerFile>>
          /\ ~importError' =>
               ~importError /\ infoOk /\ (format \in {2, 3} => powerOk)
    BY <1>1, Imported
  <2>2. powerOk = TRUE
    BY <1>4, <2>1
  <2> QED
    BY <1>4, <2>1, <2>2
<1> DEFINE file == FileIn(format, n)
           byte == ByteIn(format, n)
           old == IF file \in powerKeys THEN powerFile[file][byte] ELSE lr_tx_power_buf[byte]
<1>6. /\ powerKeys' = powerKeys \cup {file}
      /\ powerFile'[file][byte] = PoweredByte(old, n, JsonPower(v))
      /\ \A b \in PowerIndex : b # byte /\ file \in powerKeys =>
           powerFile'[file][b] = powerFile[file][b]
      /\ \A f \in FilesIn(format) : f # file => powerFile'[f] = powerFile[f]
  <2>1. /\ powerKeys' = IF TRUE THEN powerKeys \cup {file} ELSE powerKeys
        /\ \A b \in PowerIndex : b # byte =>
             lr_tx_power_buf'[b] = IF file \in powerKeys THEN powerFile[file][b]
                                   ELSE lr_tx_power_buf[b]
        /\ lr_tx_power_buf'[byte] = PoweredByte(old, n, JsonPower(v))
        /\ powerFile'[file] = lr_tx_power_buf'
        /\ \A f \in FilesIn(format) : f # file => powerFile'[f] = powerFile[f]
    BY <1>1, <1>2, <1>3, <1>5, PowerWritten
  <2> HIDE DEF file, byte, old
  <2> QED
    BY <2>1
<1>7. i \in LrNode /\ ByteIn(format, i) \in PowerIndex /\ FileIn(format, i) \in FilesIn(format)
  BY <1>1, <1>2, PowerPlace DEF TypeOK
<1>8. i # n => i \in exists /\ FileIn(format, i) \in powerKeys
  BY <1>1, <1>2, <1>4, <1>5 DEF PowersHeld
<1>9. FileIn(format, i) \in powerKeys'
  BY <1>6, <1>8
<1>10. OwnPart(n, JsonPower(v)) = Part(format, n, JsonPower(v))
  BY Places
<1> HIDE DEF n
<1>11. CASE format = 3
  <2>1. CASE i = n
    <3>1. powerFile'[FileIn(3, i)][ByteIn(3, i)] = JsonPower(v)
      BY <1>6, <1>11, <2>1 DEF PoweredByte
    <3>2. EntryOf(json', k, i)
      BY <1>3, <2>1
    <3> QED
      BY <1>3, <1>9, <1>11, <3>1, <3>2
  <2>2. CASE i # n
    <3>1. PICK j \in Keys : /\ EntryOf(json, j, i)
                            /\ powerFile[FileIn(3, i)][ByteIn(3, i)] = JsonPower(json[j])
      BY <1>1, <1>5, <1>8, <1>11, <2>2 DEF PowersHeld
    <3>2. FileIn(3, i) # FileIn(3, n) \/ ByteIn(3, i) # ByteIn(3, n)
      BY <1>2, <1>7, <2>2, PowerPlace
    <3>3. powerFile'[FileIn(3, i)][ByteIn(3, i)] = powerFile[FileIn(3, i)][ByteIn(3, i)]
      BY <1>6, <1>7, <1>8, <1>11, <2>2, <3>2
    <3>4. EntryOf(json', j, i) /\ json'[j] = json[j]
      BY <1>3, <3>1 DEF EntryOf
    <3> QED
      BY <1>9, <1>11, <3>1, <3>3, <3>4
  <2> QED
    BY <2>1, <2>2
<1>12. CASE format = 2
  <2>1. \A h \in Half : PoweredByte(old, n, JsonPower(v))[h] =
          old[h] \cup Part(2, n, JsonPower(v))[h]
    BY <1>10, <1>12 DEF PoweredByte
  <2>2. ASSUME NEW h \in HalvesIn(2, i), FileIn(2, i) \in powerKeys
        PROVE  powerFile[FileIn(2, i)][ByteIn(2, i)][h]
                 \subseteq powerFile'[FileIn(2, i)][ByteIn(2, i)][h]
    <3>1. h \in Half
      BY DEF HalvesIn, Half
    <3>2. CASE FileIn(2, i) # file
      BY <1>6, <1>7, <1>12, <3>2
    <3>3. CASE FileIn(2, i) = file /\ ByteIn(2, i) # byte
      BY <1>6, <1>7, <1>12, <2>2, <3>3
    <3>4. CASE FileIn(2, i) = file /\ ByteIn(2, i) = byte
      <4>1. old = powerFile[FileIn(2, i)][ByteIn(2, i)]
        BY <2>2, <3>4
      <4> HIDE DEF old
      <4> QED
        BY <1>6, <2>1, <3>1, <3>4, <4>1
    <3> QED
      BY <3>2, <3>3, <3>4
  <2> HIDE DEF old
  <2>3. ASSUME NEW j \in Keys, EntryOf(json', j, i), NEW h \in HalvesIn(2, i)
        PROVE  JsonPower(json'[j])[h] \subseteq powerFile'[FileIn(2, i)][ByteIn(2, i)][h]
    <3>1. CASE EntryOf(json, j, i)
      <4>1. i \in exists
        BY <1>1, <1>7, <1>12, <3>1 DEF Visits
      <4>2. /\ FileIn(2, i) \in powerKeys
            /\ JsonPower(json[j])[h] \subseteq powerFile[FileIn(2, i)][ByteIn(2, i)][h]
        BY <1>1, <1>5, <1>12, <2>3, <3>1, <4>1 DEF PowersHeld
      <4>3. json'[j] = json[j]
        BY <1>3, <3>1 DEF EntryOf
      <4> QED
        BY <2>2, <4>2, <4>3
    <3>2. CASE ~EntryOf(json, j, i)
      <4>1. j = k /\ i = n
        BY <1>3, <2>3, <3>2
      <4>2. h \in Half /\ Part(2, n, JsonPower(v))[h] = JsonPower(v)[h]
        BY <4>1 DEF HalvesIn, Half, Part
      <4>3. powerFile'[FileIn(2, i)][ByteIn(2, i)][h] = old[h] \cup JsonPower(v)[h]
        BY <1>6, <1>12, <2>1, <4>1, <4>2
      <4> QED
        BY <1>3, <4>1, <4>3
    <3> QED
      BY <3>1, <3>2
  <2> QED
    BY <1>9, <1>12, <2>3
<1> QED
  BY <1>4, <1>11, <1>12

(* ------------------------------ the others ----------------------------- *)

LEMMA StoreMaskInv ==
  ASSUME TableInv, StoreMask
  PROVE  TableInv'
<1>1. TypeOK /\ Visits /\ Infos /\ PowersBounded /\ PowersHeld /\ Trips /\ Stages
  BY DEF TableInv
<1>2. /\ stage = "import" /\ stage' = "stored"
      /\ trip > 1 => \A n \in LrNode : json[KeyOf(n)] = given[n]
      /\ format' = format /\ trip' = trip /\ given' = given /\ json' = json
      /\ exists' = exists /\ lr_tx_power_buf' = lr_tx_power_buf
      /\ infoFile' = infoFile /\ infoKeys' = infoKeys
      /\ powerFile' = powerFile /\ powerKeys' = powerKeys
      /\ parseError' = parseError /\ exportError' = exportError /\ out' = out
  BY DEF StoreMask
<1>3. PICK ok \in WriteResult :
        /\ existsKey' = (format >= 2 /\ ok)
        /\ existsFile' = IF existsKey' THEN exists ELSE {}
        /\ importError' = (importError \/ (format >= 2 /\ ~ok))
  BY DEF StoreMask
<1>4. ok \in BOOLEAN /\ importError \in BOOLEAN /\ format \in Nat
  BY <1>1 DEF WriteResult, TypeOK
<1>5. /\ importError' \in BOOLEAN /\ existsKey' \in BOOLEAN
      /\ ~importError' => ~importError /\ (format >= 2 => existsKey')
      /\ existsFile' \subseteq exists
      /\ format < 2 => existsFile' = {}
  <2>1. existsKey' \in BOOLEAN /\ (existsKey' <=> format >= 2 /\ ok)
    BY <1>3
  <2>2. importError' \in BOOLEAN /\ (importError' <=> importError \/ (format >= 2 /\ ~ok))
    BY <1>3
  <2>3. existsFile' = IF existsKey' THEN exists ELSE {}
    BY <1>3
  <2>4. ~(format < 2 /\ format >= 2)
    BY <1>4
  <2> QED
    BY <2>1, <2>2, <2>3, <2>4
<1>6. ~importError' => existsFile' = exists
  <2>1. format < 2 => exists = {}
    BY <1>1, <1>4 DEF Visits, TypeOK
  <2> QED
    BY <1>3, <1>4, <1>5, <2>1
<1>7. TypeOK'
  BY <1>1, <1>2, <1>5 DEF TypeOK
<1>8. Visits' /\ Infos' /\ PowersBounded' /\ PowersHeld'
  BY <1>1, <1>2, <1>5 DEF Visits, Infos, PowersBounded, HasBit, PowersHeld
<1>9. Trips'
  BY <1>1, <1>2 DEF Trips
<1>10. Stages'
  BY <1>2, <1>5, <1>6 DEF Stages
<1> QED
  BY <1>7, <1>8, <1>9, <1>10 DEF TableInv

(* The exporter as a function of what is stored.                           *)
LEMMA Exporting ==
  ASSUME NEW n \in LrNode
  PROVE  ExportedNode(n) = Reported(format, infoFile, infoKeys, powerFile, powerKeys, n)
<1>1. ExportedInfo(n) = InfoAt(infoFile, infoKeys, n)
  BY DEF ExportedInfo, InfoAt
<1>2. ExportedPower(n) = PowerAt(format, powerFile, powerKeys, n)
  BY Places DEF ExportedPower, PowerAt
<1> QED
  BY <1>1, <1>2 DEF ExportedNode, Reported

LEMMA ExportInv ==
  ASSUME TableInv, Export
  PROVE  TableInv'
<1>1. TypeOK /\ Visits /\ Infos /\ PowersBounded /\ PowersHeld /\ Trips /\ Stages
  BY DEF TableInv
<1>2. /\ stage = "stored" /\ stage' = "exported"
      /\ format' = format /\ trip' = trip /\ given' = given /\ json' = json
      /\ exists' = exists /\ lr_tx_power_buf' = lr_tx_power_buf
      /\ existsFile' = existsFile /\ existsKey' = existsKey
      /\ infoFile' = infoFile /\ infoKeys' = infoKeys
      /\ powerFile' = powerFile /\ powerKeys' = powerKeys
      /\ importError' = importError /\ parseError' = parseError
  BY DEF Export, nvmVars
<1>3. out' = [n \in LrNode |->
                IF n \in existsFile
                  THEN Reported(format, infoFile, infoKeys, powerFile, powerKeys, n)
                  ELSE NoNode]
  BY Exporting DEF Export
<1>4. exportError' <=>
        \/ format >= 2 /\ ~existsKey
        \/ \E n \in existsFile :
             \/ InfoFile(n) \notin infoKeys
             \/ format \in {2, 3} /\ FileIn(format, n) \notin powerKeys
  BY Places DEF Export, HasPower
<1>5. TypeOK'
  BY <1>1, <1>2 DEF TypeOK
<1>6. Visits' /\ Infos' /\ PowersBounded' /\ PowersHeld'
  BY <1>1, <1>2 DEF Visits, Infos, PowersBounded, HasBit, PowersHeld
<1>7. Trips'
  BY <1>1, <1>2 DEF Trips
<1>8. Stages'
  <2>1. format < 2 => existsFile = {}
    BY <1>1 DEF Stages
  <2>2. ~importError => existsFile = exists /\ (format >= 2 => existsKey)
    BY <1>1, <1>2 DEF Stages
  <2> QED
    BY <1>2, <1>3, <1>4, <2>1, <2>2 DEF Stages
<1> QED
  BY <1>5, <1>6, <1>7, <1>8 DEF TableInv

(* A new NVM and the JSON to import into it.                               *)
LEMMA NewTrip ==
  ASSUME format' \in Nat, trip' \in Nat \ {0},
         given' \in [LrNode -> ExportedRecord \cup {NoNode}],
         trip' > 1 => \A n \in LrNode :
           given'[n] # NoNode =>
             /\ format' >= 2
             /\ given'[n] \in ReportedRecord(format')
             /\ format' = 2 /\ given'[n].lrTxPower # Absent =>
                  given'[n].lrTxPower = Part(2, n, given'[n].lrTxPower),
         stage' = "import", json' = NoEntries, exists' = {}, lr_tx_power_buf' = NoBytes,
         existsFile' = {}, existsKey' = FALSE, infoFile' = BlankInfoFiles, infoKeys' = {},
         powerFile' = [f \in FilesIn(format') |-> NoBytes], powerKeys' = {},
         importError' = FALSE, parseError' = FALSE
  PROVE  TableInv'
<1>1. \A k \in Keys : json'[k] = NoNode
  BY DEF NoEntries
<1>2. /\ BlankInfoFiles \in [InfoFiles -> [InfoSlots -> StoredInfo]]
      /\ NoBytes \in [PowerIndex -> Power]
      /\ \A b \in PowerIndex : \A h \in Half : NoBytes[b][h] = {}
  BY DEF BlankInfoFiles, BlankInfo, StoredInfo, NoBytes, ZeroPower, Power
<1>3. json' \in [Keys -> ExportedRecord \cup {NoNode}]
  BY DEF NoEntries
<1>4. TypeOK'
  BY <1>2, <1>3 DEF TypeOK
<1>5. Visits'
  <2>1. {k \in Keys : json'[k] # NoNode} = {}
    BY <1>1
  <2>2. IsFiniteSet({k \in Keys : json'[k] # NoNode})
    BY <2>1, FS_EmptySet
  <2> QED
    BY <1>1, <2>2 DEF Visits, EntryOf
<1>6. Infos' /\ PowersHeld' /\ Stages'
  BY DEF Infos, PowersHeld, Stages
<1>7. PowersBounded'
  <2>1. ASSUME format' = 2, NEW n \in LrNode, NEW h \in HalvesIn(2, n), NEW x \in Bit
        PROVE  ~HasBit(n, h, x)'
    <3>1. ByteIn(2, n) \in PowerIndex /\ h \in Half
      BY PowerPlace DEF HalvesIn, Half
    <3> QED
      BY <1>2, <2>1, <3>1 DEF HasBit
  <2> QED
    BY <2>1 DEF PowersBounded
<1>8. Trips'
  BY <1>1 DEF Trips
<1> QED
  BY <1>4, <1>5, <1>6, <1>7, <1>8 DEF TableInv

LEMMA NextTripInv ==
  ASSUME TableInv, NextTrip
  PROVE  TableInv'
<1>1. TypeOK /\ Stages
  BY DEF TableInv
<1>2. /\ stage = "exported" /\ trip' = trip + 1 /\ given' = out /\ format' = format
      /\ stage' = "import" /\ json' = NoEntries /\ exists' = {}
      /\ lr_tx_power_buf' = NoBytes /\ existsFile' = {} /\ existsKey' = FALSE
      /\ infoFile' = BlankInfoFiles /\ infoKeys' = {}
      /\ powerFile' = ZeroPowerFiles /\ powerKeys' = {}
      /\ importError' = FALSE /\ parseError' = FALSE
  BY DEF NextTrip
<1>3. powerFile' = [f \in FilesIn(format') |-> NoBytes]
  BY <1>2, Places DEF ZeroPowerFiles
<1> DEFINE report(n) == Reported(format, infoFile, infoKeys, powerFile, powerKeys, n)
<1>4. /\ out = [n \in LrNode |-> IF n \in existsFile THEN report(n) ELSE NoNode]
      /\ format < 2 => existsFile = {}
  BY <1>1, <1>2 DEF Stages
<1>5. ASSUME NEW n \in LrNode
      PROVE  /\ report(n) \in ReportedRecord(format) /\ report(n) \in ExportedRecord
             /\ format = 2 /\ report(n).lrTxPower # Absent =>
                  report(n).lrTxPower = Part(2, n, report(n).lrTxPower)
  <2>1. report(n) \in ReportedRecord(format)
    BY <1>1, ReportedType
  <2>2. ASSUME format = 2, report(n).lrTxPower # Absent
        PROVE  report(n).lrTxPower = Part(2, n, report(n).lrTxPower)
    <3>1. report(n).lrTxPower = PowerAt(2, powerFile, powerKeys, n)
      BY <2>2 DEF Reported
    <3>2. report(n).lrTxPower = Part(2, n, powerFile[FileIn(2, n)][ByteIn(2, n)])
      BY <2>2, <3>1 DEF PowerAt
    <3>3. powerFile[FileIn(2, n)][ByteIn(2, n)] \in Power
      BY <1>1, <2>2, PowerPlace DEF TypeOK
    <3> QED
      BY <3>2, <3>3, PartType
  <2> QED
    BY <2>1, <2>2 DEF ReportedRecord
<1> HIDE DEF report
<1>6. format \in Nat /\ trip + 1 \in Nat \ {0}
  BY <1>1 DEF TypeOK
<1>7. given' \in [LrNode -> ExportedRecord \cup {NoNode}]
  BY <1>2, <1>4, <1>5
<1>8. ASSUME NEW n \in LrNode, given'[n] # NoNode
      PROVE  /\ format' >= 2
             /\ given'[n] \in ReportedRecord(format')
             /\ format' = 2 /\ given'[n].lrTxPower # Absent =>
                  given'[n].lrTxPower = Part(2, n, given'[n].lrTxPower)
  <2>1. n \in existsFile /\ given'[n] = report(n)
    BY <1>2, <1>4, <1>8
  <2> QED
    BY <1>2, <1>4, <1>5, <1>6, <2>1
<1> QED
  BY <1>2, <1>3, <1>6, <1>7, <1>8, NewTrip

------------------------------------------------------------------------------
(* ------------------------------ theorems ------------------------------- *)

LEMMA TableInductive == Spec => []TableInv
<1>1. Init => TableInv
  <2> SUFFICES ASSUME Init PROVE TableInv
    OBVIOUS
  <2>1. /\ format \in Nat /\ trip = 1 /\ given = NoNodes /\ stage = "import"
        /\ json = NoEntries /\ exists = {} /\ lr_tx_power_buf = NoBytes
        /\ existsFile = {} /\ existsKey = FALSE
        /\ infoFile = BlankInfoFiles /\ infoKeys = {}
        /\ powerKeys = {} /\ importError = FALSE /\ parseError = FALSE
    BY SizesAssumption DEF Init
  <2>2. powerFile = [f \in FilesIn(format) |-> NoBytes]
    BY Places DEF Init, ZeroPowerFiles
  <2>3. \A k \in Keys : json[k] = NoNode
    BY <2>1 DEF NoEntries
  <2>4. /\ BlankInfoFiles \in [InfoFiles -> [InfoSlots -> StoredInfo]]
        /\ NoBytes \in [PowerIndex -> Power]
        /\ \A b \in PowerIndex : \A h \in Half : NoBytes[b][h] = {}
    BY DEF BlankInfoFiles, BlankInfo, StoredInfo, NoBytes, ZeroPower, Power
  <2>5. TypeOK
    <3>1. /\ given \in [LrNode -> ExportedRecord \cup {NoNode}]
          /\ json \in [Keys -> ExportedRecord \cup {NoNode}]
      BY <2>1 DEF NoNodes, NoEntries
    <3>2. powerFile \in [FilesIn(format) -> [PowerIndex -> Power]]
      BY <2>2, <2>4
    <3>3. /\ infoFile \in [InfoFiles -> [InfoSlots -> StoredInfo]]
          /\ lr_tx_power_buf \in [PowerIndex -> Power]
      BY <2>1, <2>4
    <3>4. /\ format \in Nat /\ trip \in Nat \ {0}
          /\ stage \in {"import", "stored", "exported"}
          /\ exists \subseteq LrNode /\ existsFile \subseteq LrNode
          /\ infoKeys \subseteq InfoFiles /\ powerKeys \subseteq FilesIn(format)
      BY <2>1
    <3>5. importError \in BOOLEAN /\ parseError \in BOOLEAN /\ existsKey \in BOOLEAN
      BY <2>1
    <3> QED
      BY <3>1, <3>2, <3>3, <3>4, <3>5 DEF TypeOK
  <2>6. Visits
    <3>1. {k \in Keys : json[k] # NoNode} = {}
      BY <2>3
    <3>2. IsFiniteSet({k \in Keys : json[k] # NoNode})
      BY <3>1, FS_EmptySet
    <3> QED
      BY <2>1, <2>3, <3>2 DEF Visits, EntryOf
  <2>7. Infos /\ PowersHeld /\ Stages /\ Trips
    BY <2>1 DEF Infos, PowersHeld, Stages, Trips
  <2>8. PowersBounded
    <3>1. ASSUME format = 2, NEW n \in LrNode, NEW h \in HalvesIn(2, n), NEW x \in Bit
          PROVE  ~HasBit(n, h, x)
      <4>1. ByteIn(2, n) \in PowerIndex /\ h \in Half
        BY PowerPlace DEF HalvesIn, Half
      <4> QED
        BY <2>1, <2>2, <2>4, <3>1, <4>1 DEF HasBit
    <3> QED
      BY <3>1 DEF PowersBounded
  <2> QED
    BY <2>5, <2>6, <2>7, <2>8 DEF TableInv
<1>2. TableInv /\ [Next]_vars => TableInv'
  <2> SUFFICES ASSUME TableInv, [Next]_vars PROVE TableInv'
    OBVIOUS
  <2>1. ASSUME NEW k \in Keys, NEW v \in Node \cup {given[n] : n \in LrNode},
               ImportEntry(k, v)
        PROVE  TableInv'
    BY <2>1, ImportEntryVisits, ImportEntryBounded, ImportEntryHeld DEF TableInv
  <2>2. ASSUME NEW k \in Keys, NEW v \in Node \cup {given[n] : n \in LrNode},
               SkipEntry(k, v)
        PROVE  TableInv'
    BY <2>2, SkipEntryInv
  <2>3. CASE StoreMask
    BY <2>3, StoreMaskInv
  <2>4. CASE Export
    BY <2>4, ExportInv
  <2>5. CASE NextTrip
    BY <2>5, NextTripInv
  <2>6. CASE UNCHANGED vars
    BY <2>6 DEF vars, nvmVars, TableInv, TypeOK, Visits, Infos, PowersBounded, HasBit,
                PowersHeld, Trips, Stages
  <2> QED
    BY <2>1, <2>2, <2>3, <2>4, <2>5, <2>6 DEF Next
<1> QED
  BY <1>1, <1>2, PTL DEF Spec

(* A report without write errors, node by node.                            *)
LEMMA ReportMade ==
  ASSUME TableInv, Exported, ~importError, NEW n \in LrNode
  PROVE  /\ out[n] # NoNode <=> n \in exists
         /\ out[n] # NoNode =>
              /\ out[n] = Reported(format, infoFile, infoKeys, powerFile, powerKeys, n)
              /\ \E k \in Keys :
                   /\ EntryOf(json, k, n)
                   /\ out[n].wakeup = ParsedInfo(json[k]).wakeup
                   /\ out[n].device = ParsedInfo(json[k]).device
<1> DEFINE report == Reported(format, infoFile, infoKeys, powerFile, powerKeys, n)
<1>1. TypeOK /\ Infos /\ Stages
  BY DEF TableInv
<1>2. out[n] = IF n \in exists THEN report ELSE NoNode
  BY <1>1 DEF Stages, Exported
<1>3. report # NoNode
  BY <1>1, ReportedType, InputAssumption DEF ReportedRecord
<1>4. ASSUME n \in exists
      PROVE  \E k \in Keys :
               /\ EntryOf(json, k, n)
               /\ report.wakeup = ParsedInfo(json[k]).wakeup
               /\ report.device = ParsedInfo(json[k]).device
  <2>1. InfoFile(n) \in infoKeys
    BY <1>1, <1>4 DEF Infos
  <2>2. PICK k \in Keys : /\ EntryOf(json, k, n)
                          /\ infoFile[InfoFile(n)][InfoSlot(n)] = ParsedInfo(json[k])
    BY <1>1, <1>4 DEF Infos
  <2> DEFINE info == ParsedInfo(json[k])
  <2>3. InfoAt(infoFile, infoKeys, n) =
          [wakeup |-> ReportedWakeup(info.wakeup), device |-> info.device]
    BY <2>1, <2>2 DEF InfoAt
  <2>4. info.wakeup \in {"none", "1000ms"}
    BY DEF ParsedInfo, ParsedWakeup
  <2>5. ReportedWakeup(info.wakeup) = info.wakeup
    BY <2>4, InputAssumption DEF ReportedWakeup, Wakeup
  <2> HIDE DEF info
  <2>6. report.wakeup = info.wakeup /\ report.device = info.device
    BY <2>3, <2>5 DEF Reported
  <2> QED
    BY <2>2, <2>6 DEF info
<1> QED
  BY <1>2, <1>3, <1>4

(* RoundTrip: what is exported is what was imported, if no write failed.   *)
THEOREM LrRoundTrip == Spec => []RoundTrip
<1>1. TableInv => RoundTrip
  <2> SUFFICES ASSUME TableInv, Exported, ~importError PROVE RoundTrip
    BY DEF RoundTrip
  <2>1. TypeOK /\ Visits /\ Infos /\ PowersHeld /\ Stages
    BY DEF TableInv
  <2>2. ~exportError
    <3>1. existsFile = exists /\ (format >= 2 => existsKey)
      BY <2>1 DEF Stages, Exported
    <3>2. \A n \in exists :
            /\ InfoFile(n) \in infoKeys
            /\ format \in {2, 3} => FileIn(format, n) \in powerKeys
      BY <2>1 DEF Infos, PowersHeld
    <3> QED
      BY <2>1, <3>1, <3>2 DEF Stages, Exported
  <2>3. ASSUME NEW n \in LrNode
        PROVE  out[n] # NoNode <=> format >= 2 /\ Named(n) # {}
    <3>1. out[n] # NoNode <=> n \in exists
      BY ReportMade
    <3>2. Named(n) # {} <=> \E k \in Keys : EntryOf(json, k, n)
      BY DEF Named, EntryOf
    <3> QED
      BY <2>1, <3>1, <3>2 DEF Visits
  <2>4. ASSUME NEW n \in LrNode, out[n] # NoNode, Cardinality(Named(n)) = 1,
               NEW k \in Named(n)
        PROVE  ParsedInfo(json[k]) = [wakeup |-> out[n].wakeup, device |-> out[n].device]
    <3>1. PICK j \in Keys : /\ EntryOf(json, j, n)
                            /\ out[n].wakeup = ParsedInfo(json[j]).wakeup
                            /\ out[n].device = ParsedInfo(json[j]).device
      BY <2>4, ReportMade
    <3>2. IsFiniteSet(Named(n))
      <4>1. Named(n) \subseteq {i \in Keys : json[i] # NoNode}
        BY DEF Named
      <4> QED
        BY <2>1, <4>1, FS_Subset DEF Visits
    <3>3. \E x : Named(n) = {x}
      BY <2>4, <3>2, FS_Singleton
    <3>4. j \in Named(n)
      BY <3>1 DEF Named, EntryOf
    <3>5. k = j
      BY <2>4, <3>3, <3>4
    <3> QED
      BY <3>1, <3>5 DEF ParsedInfo
  <2> QED
    BY <2>2, <2>3, <2>4 DEF RoundTrip
<1> QED
  BY <1>1, TableInductive, PTL
(* PowersFromOwnPlace: a stored power is made of the bits of the entries   *)
(* of the node, and in format 2 of those with the same place in a file.    *)
THEOREM LrPowersFromOwnPlace == Spec => []PowersFromOwnPlace
<1>1. TableInv => PowersFromOwnPlace
  <2> SUFFICES ASSUME TableInv, HasPower, ~importError, NEW n \in LrNode, Named(n) # {}
               PROVE  /\ PowerFile(n) \in powerKeys
                      /\ format = 3 => \E k \in Named(n) :
                           OwnPart(n, powerFile[PowerFile(n)][PowerByte(n)])
                             = OwnPart(n, JsonPower(json[k]))
                      /\ format = 2 => \A h \in Half :
                           /\ UNION {OwnPart(n, JsonPower(json[k]))[h] : k \in Named(n)}
                                \subseteq OwnPart(n, powerFile[PowerFile(n)][PowerByte(n)])[h]
                           /\ OwnPart(n, powerFile[PowerFile(n)][PowerByte(n)])[h] \subseteq
                                UNION {OwnPart(n, JsonPower(json[k]))[h] : k \in SamePlace(n)}
    BY DEF PowersFromOwnPlace
  <2> DEFINE byte == powerFile[FileIn(format, n)][ByteIn(format, n)]
  <2>1. TypeOK /\ Visits /\ PowersHeld /\ PowersBounded /\ format \in {2, 3}
    BY DEF TableInv, HasPower
  <2>2. n \in exists
    BY <2>1 DEF Visits, Named, EntryOf
  <2>3. OwnPart(n, powerFile[PowerFile(n)][PowerByte(n)]) = Part(format, n, byte)
    BY Places
  <2>4. PowerFile(n) \in powerKeys
    BY <2>1, <2>2, Places DEF PowersHeld
  <2>5. ASSUME format = 3
        PROVE  \E k \in Named(n) : Part(format, n, byte) = OwnPart(n, JsonPower(json[k]))
    <3>1. PICK k \in Keys : /\ EntryOf(json, k, n)
                            /\ byte = JsonPower(json[k])
      BY <2>1, <2>2, <2>5 DEF PowersHeld
    <3>2. k \in Named(n)
      BY <3>1 DEF Named, EntryOf
    <3> QED
      BY <3>1, <3>2, Places
  <2>6. ASSUME format = 2, NEW h \in Half, NEW k \in Named(n),
               NEW x \in OwnPart(n, JsonPower(json[k]))[h]
        PROVE  x \in Part(format, n, byte)[h]
    <3>1. h \in HalvesIn(2, n) /\ x \in JsonPower(json[k])[h]
      BY <2>6, Places DEF Part
    <3>2. k \in Keys /\ EntryOf(json, k, n)
      BY DEF Named, EntryOf
    <3>3. x \in byte[h]
      BY <2>1, <2>2, <2>6, <3>1, <3>2 DEF PowersHeld
    <3> QED
      BY <2>6, <3>1, <3>3 DEF Part
  <2>7. ASSUME format = 2, NEW h \in Half, NEW x \in Part(format, n, byte)[h]
        PROVE  \E k \in SamePlace(n) : x \in OwnPart(n, JsonPower(json[k]))[h]
    <3>1. h \in HalvesIn(2, n) /\ x \in byte[h]
      BY <2>7 DEF Part
    <3>2. FileIn(2, n) \in FilesIn(2) /\ ByteIn(2, n) \in PowerIndex
      BY PowerPlace
    <3>3. byte \in Power
      BY <2>1, <2>7, <3>2 DEF TypeOK
    <3>4. x \in Bit
      BY <3>1, <3>3 DEF Power
    <3>5. HasBit(n, h, x)
      BY <2>7, <3>1, <3>2 DEF HasBit
    <3>6. PICK k \in Keys, m \in LrNode :
            /\ EntryOf(json, k, m)
            /\ SlotOf(m, PerFile(2)) = SlotOf(n, PerFile(2))
            /\ x \in JsonPower(json[k])[h]
      BY <2>1, <2>7, <3>1, <3>4, <3>5 DEF PowersBounded
    <3>7. k \in SamePlace(n)
      BY <2>7, <3>6, Places DEF SamePlace, EntryOf
    <3>8. x \in OwnPart(n, JsonPower(json[k]))[h]
      BY <2>7, <3>1, <3>6, Places DEF Part
    <3> QED
      BY <3>7, <3>8
  <2> HIDE DEF byte
  <2> QED
    BY <2>3, <2>4, <2>5, <2>6, <2>7
<1> QED
  BY <1>1, TableInductive, PTL
(* In a later trip a node has one entry, the one the trip before exported. *)
LEMMA OneEntry ==
  ASSUME TableInv, stage # "import", trip > 1, NEW n \in LrNode
  PROVE  /\ \A k \in Keys : EntryOf(json, k, n) => k = KeyOf(n) /\ json[k] = given[n]
         /\ given[n] # NoNode =>
              /\ EntryOf(json, KeyOf(n), n)
              /\ given[n] \in ReportedRecord(format)
              /\ n \in exists
         /\ n \in exists => given[n] # NoNode
<1>1. Visits /\ Trips
  BY DEF TableInv
<1>2. /\ \A m \in LrNode : json[KeyOf(m)] = given[m]
      /\ \A k \in Keys :
           json[k] # NoNode => \E m \in LrNode : k = KeyOf(m) /\ json[k] = given[m]
      /\ given[n] # NoNode => format >= 2 /\ given[n] \in ReportedRecord(format)
  BY <1>1 DEF Trips
<1>3. ASSUME NEW k \in Keys, EntryOf(json, k, n)
      PROVE  k = KeyOf(n) /\ json[k] = given[n]
  <2>1. PICK m \in LrNode : k = KeyOf(m) /\ json[k] = given[m]
    BY <1>2, <1>3 DEF EntryOf
  <2>2. m = n
    BY <1>3, <2>1, KeyInverse DEF EntryOf
  <2> QED
    BY <2>1, <2>2
<1>4. given[n] # NoNode => EntryOf(json, KeyOf(n), n)
  BY <1>2, KeyInverse DEF EntryOf
<1>5. given[n] # NoNode => n \in exists
  BY <1>1, <1>2, <1>4, KeyInverse DEF Visits
<1>6. n \in exists => given[n] # NoNode
  BY <1>1, <1>3 DEF Visits, EntryOf
<1> QED
  BY <1>2, <1>3, <1>4, <1>5, <1>6

(* LaterTripsStable: what one trip has made of the nodes, the next keep.   *)
THEOREM LrLaterTripsStable == Spec => []LaterTripsStable
<1>1. TableInv => LaterTripsStable
  <2> SUFFICES ASSUME TableInv, Exported, trip > 1, ~importError, NEW n \in LrNode
               PROVE  /\ out[n] = NoNode <=> given[n] = NoNode
                      /\ given[n] # NoNode /\ given[n].device # Absent =>
                           /\ out[n].wakeup = given[n].wakeup
                           /\ out[n].device = given[n].device
                           /\ format = 2 /\ given[n].lrTxPower # Absent =>
                                \A h \in Half :
                                  given[n].lrTxPower[h] \subseteq out[n].lrTxPower[h]
                           /\ format = 3 => out[n].txPower = ZeroPower /\ parseError
                           /\ format >= 4 => out[n] = given[n]
    BY DEF LaterTripsStable
  <2>1. TypeOK /\ Visits /\ PowersHeld /\ Trips /\ stage # "import"
    BY DEF TableInv, Exported
  <2>2. out[n] = NoNode <=> given[n] = NoNode
    BY <2>1, ReportMade, OneEntry
  <2>3. ASSUME given[n] # NoNode, given[n].device # Absent
        PROVE  /\ out[n].wakeup = given[n].wakeup
               /\ out[n].device = given[n].device
               /\ format = 2 /\ given[n].lrTxPower # Absent =>
                    \A h \in Half : given[n].lrTxPower[h] \subseteq out[n].lrTxPower[h]
               /\ format = 3 => out[n].txPower = ZeroPower /\ parseError
               /\ format >= 4 => out[n] = given[n]
    <3> DEFINE g == given[n]
               byte == powerFile[FileIn(format, n)][ByteIn(format, n)]
    <3>1. /\ n \in exists /\ KeyOf(n) \in Keys
          /\ EntryOf(json, KeyOf(n), n) /\ json[KeyOf(n)] = g
          /\ g \in ReportedRecord(format)
          /\ \A k \in Keys : EntryOf(json, k, n) => json[k] = g
      BY <2>1, <2>3, OneEntry, KeyInverse
    <3>2. /\ out[n] = Reported(format, infoFile, infoKeys, powerFile, powerKeys, n)
          /\ out[n].wakeup = ParsedInfo(g).wakeup
          /\ out[n].device = ParsedInfo(g).device
      BY <3>1, ReportMade
    <3>3. /\ g \in ExportedRecord /\ g.wakeup \in {"none", "1000ms"}
          /\ format # 2 => g.lrTxPower = Absent
          /\ format # 3 => g.txPower = Absent
      BY <2>3, <3>1 DEF ReportedRecord
    <3>4. out[n].wakeup = g.wakeup /\ out[n].device = g.device
      <4>1. ParsedWakeup(g.wakeup) = g.wakeup
        BY <3>3, InputAssumption DEF ParsedWakeup, Wakeup
      <4> HIDE DEF g
      <4> QED
        BY <2>3, <3>2, <4>1 DEF ParsedInfo, g
    <3>5. /\ out[n].lrTxPower = IF format = 2 THEN PowerAt(format, powerFile, powerKeys, n)
                                              ELSE Absent
          /\ out[n].txPower = IF format = 3 THEN PowerAt(format, powerFile, powerKeys, n)
                                            ELSE Absent
      BY <3>2 DEF Reported
    <3>6. format \in {2, 3} => PowerAt(format, powerFile, powerKeys, n) = Part(format, n, byte)
      BY <2>1, <3>1 DEF PowersHeld, PowerAt
    <3>7. ASSUME format = 2, g.lrTxPower # Absent, NEW h \in Half, NEW x \in g.lrTxPower[h]
          PROVE  x \in out[n].lrTxPower[h]
      <4>1. g.lrTxPower = Part(2, n, g.lrTxPower)
        BY <2>1, <2>3, <3>7 DEF Trips
      <4>2. h \in HalvesIn(2, n)
        BY <3>7, <4>1 DEF Part
      <4>3. x \in byte[h]
        BY <2>1, <3>1, <3>7, <4>2 DEF PowersHeld, JsonPower
      <4> QED
        BY <3>5, <3>6, <3>7, <4>2, <4>3 DEF Part
    <3>8. ASSUME format = 3
          PROVE  out[n].txPower = ZeroPower /\ parseError
      <4>1. JsonPower(g) = ZeroPower /\ parseError
        BY <2>1, <3>1, <3>3, <3>8 DEF JsonPower, Visits
      <4>2. byte = ZeroPower
        BY <2>1, <3>1, <3>8, <4>1 DEF PowersHeld
      <4>3. Part(3, n, ZeroPower) = ZeroPower
        BY PartType DEF ZeroPower, Power
      <4> QED
        BY <3>5, <3>6, <3>8, <4>1, <4>2, <4>3
    <3>9. ASSUME format >= 4
          PROVE  out[n] = g
      <4>1. out[n] = [wakeup |-> out[n].wakeup, device |-> out[n].device,
                      lrTxPower |-> out[n].lrTxPower, txPower |-> out[n].txPower]
        BY <3>2 DEF Reported
      <4>2. out[n].lrTxPower = Absent /\ out[n].txPower = Absent
        BY <2>1, <3>5, <3>9 DEF TypeOK
      <4>3. g = [wakeup |-> g.wakeup, device |-> g.device,
                 lrTxPower |-> g.lrTxPower, txPower |-> g.txPower]
        BY <3>3 DEF ExportedRecord
      <4>4. g.lrTxPower = Absent /\ g.txPower = Absent
        BY <2>1, <3>3, <3>9 DEF TypeOK
      <4> HIDE DEF g
      <4> QED
        BY <3>4, <4>1, <4>2, <4>3, <4>4
    <3> QED
      BY <3>4, <3>7, <3>8, <3>9
  <2> QED
    BY <2>2, <2>3
<1> QED
  BY <1>1, TableInductive, PTL
==============================================================================
