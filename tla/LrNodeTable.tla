----------------------------- MODULE LrNodeTable -----------------------------
(***************************************************************************)
(* The table of Long Range nodes: "parse_lr_node_table_json" writes the    *)
(* "lrNodes" object of a JSON backup into an empty protocol NVM,           *)
(* "lr_node_table_to_json" reads it back.                                  *)
(*                                                                         *)
(* Long Range nodes exist from format 2 on.  Formats 2 and 3 also keep a   *)
(* transmit power per node: in format 2 as one half of a byte shared by    *)
(* two nodes, in format 3 as a byte of its own.  The importer's buffer for *)
(* those bytes is zeroed once, before the first entry.                     *)
(*                                                                         *)
(* A backup can make several trips: what one run exports is imported by    *)
(* the next run of the program into a new NVM (options -e, then -i; or     *)
(* migration).  A trip is one import and one export.                       *)
(***************************************************************************)
EXTENDS Nvm3Files, FiniteSets

CONSTANTS
  Formats,        \* the values of target_protocol_version.format
  MinNodeId,      \* ZW_LR_MIN_NODE_ID
  MaxNode,        \* ZW_LR_MAX_NODES
  InfosPerFile,   \* LR_NODEINFOS_PER_FILE
  PowerBytes,     \* FILE_SIZE_LR_TX_POWER
  Key,            \* the numbers spelled by the keys of the first JSON object
  IdModulus,      \* 2^16: atoi(key) is assigned to a uint16_t
  Device,         \* device descriptions
  Bit,            \* the bits of half a byte of transmit power
  Node,           \* the JSON nodes of the first backup
  NoNode,         \* "no entry"
  Absent,         \* the key is absent
  DefaultDevice,  \* what the importer assumes of a node without fields
  Blank,          \* what unwritten bytes read as
  MaxTrips,       \* bound on the number of trips
  WritesMayFail   \* whether nvm3_writeData may return an error

Half == {"low", "high"}
Power == [Half -> SUBSET Bit]
ZeroPower == [h \in Half |-> {}]
Wakeup == {"none", "250ms", "1000ms"}

(* "lrTxPower" is the key the importer reads; "txPower" is written by the  *)
(* exporter in format 3 and read by nobody.                                *)
NodeRecord ==
  [wakeup: Wakeup, device: Device,
   lrTxPower: Power \cup {Absent}, txPower: Power \cup {Absent}]

(* A node whose node-info file is missing is exported without its fields.  *)
ExportedRecord ==
  [wakeup: Wakeup \cup {Absent}, device: Device \cup {Blank, Absent},
   lrTxPower: Power \cup {Absent}, txPower: Power \cup {Absent}]

ASSUME SizesAssumption ==
  /\ Formats \subseteq Nat
  /\ MinNodeId \in Nat \ {0}
  /\ MaxNode \in Nat \ {0}
  /\ InfosPerFile \in Nat \ {0}
  /\ PowerBytes \in Nat \ {0}
  /\ IdModulus \in Nat \ {0}
  /\ MinNodeId + MaxNode <= IdModulus
  /\ MaxTrips \in Nat \ {0}

ASSUME InputAssumption ==
  /\ Key \subseteq Nat
  /\ Node \subseteq NodeRecord
  /\ NoNode \notin ExportedRecord
  /\ DefaultDevice \in Device
  /\ Absent \notin Power \cup Device \cup Wakeup
  /\ Blank \notin Device \cup Wakeup \cup {Absent}
  /\ WritesMayFail \in BOOLEAN

(* Nodes are numbered 1.. in masks and files, MinNodeId.. in JSON.         *)
LrNode == 1 .. MaxNode
LrNodeOf(k) == (k % IdModulus) - MinNodeId + 1
KeyOf(n) == n - 1 + MinNodeId
Keys == Key \cup {KeyOf(n) : n \in LrNode}

InfoFile(n) == FileOf(n, InfosPerFile)
InfoSlot(n) == SlotOf(n, InfosPerFile)
InfoFiles == FileNumbers(MaxNode, InfosPerFile)
InfoSlots == 0 .. InfosPerFile - 1
InfoRecord == [wakeup: Wakeup \cup {Blank}, device: Device \cup {Blank}]
BlankInfo == [wakeup |-> Blank, device |-> Blank]

VARIABLES
  format,           \* target_protocol_version.format, the same in each trip
  trip,             \* number of the current trip
  stage,            \* "import", "stored", "exported"
  given,            \* the JSON that the previous trip exported
  json,             \* [Keys -> the entry of that key, NoNode before its visit]
  exists,           \* lr_node_info_exists of the importer
  lr_tx_power_buf,  \* the importer's buffer of transmit powers
  existsFile,       \* contents of the Long Range node mask file
  existsKey,        \* whether that file exists
  infoFile, infoKeys,
  powerFile, powerKeys,
  importError,      \* nvm3_error_detected of the importing process
  parseError,       \* json_parse_error_detected of the importing process
  exportError,      \* nvm3_error_detected of the exporting process
  out               \* jo_lr_node_list

(* LR_TX_POWER_PER_FILE_V2 and _V3: two nodes to a byte, or one.           *)
HasPower == format \in {2, 3}
NodesPerByte == IF format = 2 THEN 2 ELSE 1
PowersPerFile == NodesPerByte * PowerBytes
PowerFile(n) == FileOf(n, PowersPerFile)
PowerByte(n) == SlotOf(n, PowersPerFile) \div NodesPerByte
PowerFiles == FileNumbers(MaxNode, PowersPerFile)
PowerIndex == 0 .. PowerBytes - 1
NoBytes == [b \in PowerIndex |-> ZeroPower]

(* The halves of its byte a node may use.                                  *)
OwnHalves(n) ==
  IF format = 2 THEN {IF (n - 1) % 2 = 1 THEN "high" ELSE "low"} ELSE Half

OwnPart(n, p) == [h \in Half |-> IF h \in OwnHalves(n) THEN p[h] ELSE {}]

nvmVars == <<existsFile, existsKey, infoFile, infoKeys, powerFile, powerKeys>>
vars == <<format, trip, stage, given, json, exists, lr_tx_power_buf, nvmVars,
          importError, parseError, exportError, out>>

BlankInfoFiles == [f \in InfoFiles |-> [s \in InfoSlots |-> BlankInfo]]
ZeroPowerFiles == [f \in PowerFiles |-> NoBytes]
NoEntries == [k \in Keys |-> NoNode]
NoNodes == [n \in LrNode |-> NoNode]

Init ==
  /\ format \in Formats
  /\ trip = 1
  /\ given = NoNodes
  /\ stage = "import"
  /\ json = NoEntries
  /\ exists = {}
  /\ lr_tx_power_buf = NoBytes
  /\ existsFile = {} /\ existsKey = FALSE
  /\ infoFile = BlankInfoFiles /\ infoKeys = {}
  /\ powerFile = ZeroPowerFiles /\ powerKeys = {}
  /\ importError = FALSE /\ parseError = FALSE /\ exportError = FALSE
  /\ out = NoNodes

------------------------------------------------------------------------------
(***************************************************************************)
(* Import                                                                  *)
(***************************************************************************)

(* The next entry of the JSON object: any in the first trip; in the later  *)
(* ones the exporter has written the entries in ascending order.           *)
NextEntry(k, v) ==
  /\ stage = "import"
  /\ json[k] = NoNode
  /\ IF trip = 1
       THEN k \in Key /\ v \in Node
       ELSE \E n \in LrNode :
              /\ k = KeyOf(n)
              /\ v = given[n]
              /\ v # NoNode
              /\ \A m \in 1 .. n - 1 : json[KeyOf(m)] = given[m]

(* The string of "isFrequentListening" is compared by address, as in       *)
(* parse_node_security.                                                    *)
ParsedWakeup(w) == IF w \in {"none", Absent} THEN "none" ELSE "1000ms"

ParsedInfo(v) ==
  [wakeup |-> ParsedWakeup(v.wakeup),
   device |-> IF v.device = Absent THEN DefaultDevice ELSE v.device]

(* A fault: a shared file is not read back before it is written.           *)
InfoNotLoaded(n) == [s \in InfoSlots |-> BlankInfo]

LoadedInfo(n) ==
  IF InfoFile(n) \in infoKeys
    THEN infoFile[InfoFile(n)]
    ELSE [s \in InfoSlots |-> BlankInfo]

(* Only a file that exists is read: the bytes of a new file start as what  *)
(* the buffer holds of the file written before.                            *)
LoadedPower(n) ==
  IF PowerFile(n) \in powerKeys THEN powerFile[PowerFile(n)] ELSE lr_tx_power_buf

JsonPower(v) == IF v.lrTxPower = Absent THEN ZeroPower ELSE v.lrTxPower

(* A fault: format 2 assigns the byte it shares.                           *)
PoweredByteAssigned(old, n, p) == OwnPart(n, p)

(* Format 2 adds the bits of its half with "|=", format 3 assigns the byte.*)
PoweredByte(old, n, p) ==
  IF format = 2 THEN [h \in Half |-> old[h] \cup OwnPart(n, p)[h]] ELSE p

WriteResult == IF WritesMayFail THEN BOOLEAN ELSE {TRUE}

WriteInfo(n, v, ok) ==
  IF ok
    THEN /\ infoKeys' = infoKeys \cup {InfoFile(n)}
         /\ infoFile' = [infoFile EXCEPT ![InfoFile(n)] =
              [LoadedInfo(n) EXCEPT ![InfoSlot(n)] = ParsedInfo(v)]]
    ELSE UNCHANGED <<infoKeys, infoFile>>

WritePower(n, v, ok) ==
  /\ lr_tx_power_buf' =
       [LoadedPower(n) EXCEPT ![PowerByte(n)] = PoweredByte(@, n, JsonPower(v))]
  /\ IF ok
       THEN /\ powerKeys' = powerKeys \cup {PowerFile(n)}
            /\ powerFile' = [powerFile EXCEPT ![PowerFile(n)] = lr_tx_power_buf']
       ELSE UNCHANGED <<powerKeys, powerFile>>

(* One turn of the importer's loop for the number of a Long Range node.    *)
ImportEntry(k, v) ==
  /\ NextEntry(k, v)
  /\ LrNodeOf(k) \in LrNode
  /\ format >= 2
  /\ json' = [json EXCEPT ![k] = v]
  /\ exists' = exists \cup {LrNodeOf(k)}
  /\ \E infoOk, powerOk \in WriteResult :
       /\ WriteInfo(LrNodeOf(k), v, infoOk)
       /\ IF HasPower
            THEN WritePower(LrNodeOf(k), v, powerOk)
            ELSE UNCHANGED <<lr_tx_power_buf, powerKeys, powerFile>>
       /\ importError' = (importError \/ ~infoOk \/ (HasPower /\ ~powerOk))
  /\ parseError' =
       \/ parseError
       \/ v.device = Absent     \* the fields that are JSON_REQUIRED
       \/ HasPower /\ v.lrTxPower = Absent
  /\ UNCHANGED <<format, trip, stage, given, existsFile, existsKey, exportError, out>>

(* Any other number, and every entry of formats 0 and 1, is passed over.   *)
SkipEntry(k, v) ==
  /\ NextEntry(k, v)
  /\ LrNodeOf(k) \notin LrNode \/ format < 2
  /\ json' = [json EXCEPT ![k] = v]
  /\ UNCHANGED <<format, trip, stage, given, exists, lr_tx_power_buf, nvmVars,
                 importError, parseError, exportError, out>>

(* The mask is stored after the last entry.                                *)
StoreMask ==
  /\ stage = "import"
  /\ trip > 1 => \A n \in LrNode : json[KeyOf(n)] = given[n]
  /\ stage' = "stored"
  /\ \E ok \in WriteResult :
       /\ existsKey' = (format >= 2 /\ ok)
       /\ existsFile' = IF existsKey' THEN exists ELSE {}
       /\ importError' = (importError \/ (format >= 2 /\ ~ok))
  /\ UNCHANGED <<format, trip, given, json, exists, lr_tx_power_buf, infoFile, infoKeys,
                 powerFile, powerKeys, parseError, exportError, out>>

------------------------------------------------------------------------------
(***************************************************************************)
(* Export.  No turn of the exporter's loop depends on an earlier one, so   *)
(* the loop is one step.                                                   *)
(***************************************************************************)

(* Sensor bits that are no wake-up mode are reported as "false".           *)
ReportedWakeup(w) == IF w = Blank THEN "none" ELSE w

ExportedInfo(n) ==
  IF InfoFile(n) \notin infoKeys THEN [wakeup |-> Absent, device |-> Absent]
  ELSE LET info == infoFile[InfoFile(n)][InfoSlot(n)]
       IN  [wakeup |-> ReportedWakeup(info.wakeup), device |-> info.device]

(* A fault: the exporter takes the other half of the byte.                 *)
ExportedPowerOtherHalf(n) ==
  LET byte == powerFile[PowerFile(n)][PowerByte(n)]
  IN  IF PowerFile(n) \in powerKeys
        THEN [h \in Half |-> IF h \in OwnHalves(n) THEN {} ELSE byte[h]]
        ELSE Absent

ExportedPower(n) ==
  IF PowerFile(n) \in powerKeys
    THEN OwnPart(n, powerFile[PowerFile(n)][PowerByte(n)])
    ELSE Absent

ExportedNode(n) ==
  [wakeup |-> ExportedInfo(n).wakeup, device |-> ExportedInfo(n).device,
   lrTxPower |-> IF format = 2 THEN ExportedPower(n) ELSE Absent,
   txPower |-> IF format = 3 THEN ExportedPower(n) ELSE Absent]

Export ==
  /\ stage = "stored"
  /\ stage' = "exported"
  /\ out' = [n \in LrNode |-> IF n \in existsFile THEN ExportedNode(n) ELSE NoNode]
  /\ exportError' =
       \/ format >= 2 /\ ~existsKey
       \/ \E n \in existsFile :
            \/ InfoFile(n) \notin infoKeys
            \/ HasPower /\ PowerFile(n) \notin powerKeys
  /\ UNCHANGED <<format, trip, given, json, exists, lr_tx_power_buf, nvmVars,
                 importError, parseError>>

(* The exported file is imported by another run of the program.            *)
NextTrip ==
  /\ stage = "exported"
  /\ trip < MaxTrips
  /\ trip' = trip + 1
  /\ given' = out
  /\ stage' = "import"
  /\ json' = NoEntries
  /\ exists' = {}
  /\ lr_tx_power_buf' = NoBytes
  /\ existsFile' = {} /\ existsKey' = FALSE
  /\ infoFile' = BlankInfoFiles /\ infoKeys' = {}
  /\ powerFile' = ZeroPowerFiles /\ powerKeys' = {}
  /\ importError' = FALSE /\ parseError' = FALSE /\ exportError' = FALSE
  /\ out' = NoNodes
  /\ UNCHANGED format

------------------------------------------------------------------------------
Next ==
  \/ \E k \in Keys, v \in Node \cup {given[n] : n \in LrNode} :
       ImportEntry(k, v) \/ SkipEntry(k, v)
  \/ StoreMask
  \/ Export
  \/ NextTrip

Spec == Init /\ [][Next]_vars

------------------------------------------------------------------------------
(***************************************************************************)
(* Properties                                                              *)
(***************************************************************************)

Named(n) == {k \in Keys : json[k] # NoNode /\ LrNodeOf(k) = n}
Exported == stage = "exported"

(* The exporter reports exactly the nodes that were imported, each with    *)
(* the description of its entry, if no write failed; from format 2 on.     *)
RoundTrip ==
  Exported /\ ~importError =>
    /\ ~exportError
    /\ \A n \in LrNode :
         /\ (out[n] # NoNode) <=> (format >= 2 /\ Named(n) # {})
         /\ out[n] # NoNode /\ Cardinality(Named(n)) = 1 =>
              \A k \in Named(n) :
                ParsedInfo(json[k]) = [wakeup |-> out[n].wakeup, device |-> out[n].device]

(* The entries whose nodes have the same place in a file of powers as n.   *)
SamePlace(n) ==
  {k \in Keys : /\ json[k] # NoNode
                /\ LrNodeOf(k) \in LrNode
                /\ SlotOf(LrNodeOf(k), PowersPerFile) = SlotOf(n, PowersPerFile)}

(* Where the bits of a stored power come from.  In format 3 they are those *)
(* of an entry of the node.  In format 2 all the bits of its entries are   *)
(* there, and the bits that are not its own come from entries of the nodes *)
(* with the same place in other files and the same half of a byte; so the  *)
(* power is exact when one file is enough (controller_nvm.c:1984-2003).    *)
PowersFromOwnPlace ==
  HasPower /\ ~importError =>
    \A n \in LrNode : Named(n) # {} =>
      LET stored == OwnPart(n, powerFile[PowerFile(n)][PowerByte(n)])
          own(k) == OwnPart(n, JsonPower(json[k]))
      IN  /\ PowerFile(n) \in powerKeys
          /\ format = 3 => \E k \in Named(n) : stored = own(k)
          /\ format = 2 => \A h \in Half :
               /\ UNION {own(k)[h] : k \in Named(n)} \subseteq stored[h]
               /\ stored[h] \subseteq UNION {own(k)[h] : k \in SamePlace(n)}

(* What one trip has made of the nodes, the next trips keep: the second    *)
(* export has the same nodes with the same descriptions as the first, and  *)
(* from format 4 on the same JSON altogether.  In format 2 a power keeps   *)
(* its bits and may gain others.  In format 3 every power is zero after    *)
(* the second import, because the exporter calls it "txPower" and the      *)
(* importer reads "lrTxPower" (controller_nvm.c:1362, 2013); the importer  *)
(* raises its parse error flag over it.                                    *)
LaterTripsStable ==
  Exported /\ trip > 1 /\ ~importError =>
    \A n \in LrNode :
      /\ (out[n] = NoNode) <=> (given[n] = NoNode)
      /\ given[n] # NoNode /\ given[n].device # Absent =>
           /\ out[n].wakeup = given[n].wakeup
           /\ out[n].device = given[n].device
           /\ format = 2 /\ given[n].lrTxPower # Absent =>
                \A h \in Half : given[n].lrTxPower[h] \subseteq out[n].lrTxPower[h]
           /\ format = 3 => out[n].txPower = ZeroPower /\ parseError
           /\ format >= 4 => out[n] = given[n]
==============================================================================
