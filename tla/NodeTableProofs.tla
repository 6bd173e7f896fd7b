--------------------------- MODULE NodeTableProofs ---------------------------
(***************************************************************************)
(* Theorems about NodeTable for every format, table size, file size, JSON  *)
(* key set and failure pattern.                                            *)
(*                                                                         *)
(* The argument: a write of the importer changes one slot of one file      *)
(* (InfoWritten, RoutesWritten), because the rest of the file is either    *)
(* what was read from it or what an absent file is taken to hold, and two  *)
(* nodes never share a slot (InfoPlace, RoutePlace).  That files that do   *)
(* not exist are blank (AbsentFilesBlank) is what makes the read-modify-   *)
(* write of a first write as harmless as that of a later one, so it is     *)
(* part of the inductive invariant.                                        *)
(***************************************************************************)
EXTENDS NodeTableMap, StorageRulesProofs

(* ------------------------------- layout -------------------------------- *)

LEMMA PerFileTypes == InfosPer \in Nat \ {0} /\ RoutesPer \in Nat \ {0}
BY SizesAssumption DEF InfosPer, RoutesPer

(* Every node has a place in the node-info table, and no other node has it.*)
LEMMA InfoPlace ==
  /\ \A n \in NodeId : InfoFile(n) \in InfoFiles /\ InfoSlot(n) \in InfoSlots
  /\ \A n, m \in NodeId :
       InfoFile(n) = InfoFile(m) /\ InfoSlot(n) = InfoSlot(m) => n = m
<1>1. ASSUME NEW n \in NodeId
      PROVE  InfoFile(n) \in InfoFiles /\ InfoSlot(n) \in InfoSlots
  BY PlaceInTable, PerFileTypes, SizesAssumption
     DEF NodeId, InfoFile, InfoSlot, InfoFiles, InfoSlots
<1>2. ASSUME NEW n \in NodeId, NEW m \in NodeId,
             InfoFile(n) = InfoFile(m), InfoSlot(n) = InfoSlot(m)
      PROVE  n = m
  <2>1. n \in Nat \ {0} /\ m \in Nat \ {0}
    BY SizesAssumption DEF NodeId
  <2>2. QED
    BY <1>2, <2>1, PlaceUnique, PerFileTypes DEF InfoFile, InfoSlot
<1>3. QED
  BY <1>1, <1>2

(* The same for the route-cache table.                                     *)
LEMMA RoutePlace ==
  /\ \A n \in NodeId : RouteFile(n) \in RouteFiles /\ RouteSlot(n) \in RouteSlots
  /\ \A n, m \in NodeId :
       RouteFile(n) = RouteFile(m) /\ RouteSlot(n) = RouteSlot(m) => n = m
<1>1. ASSUME NEW n \in NodeId
      PROVE  RouteFile(n) \in RouteFiles /\ RouteSlot(n) \in RouteSlots
  BY PlaceInTable, PerFileTypes, SizesAssumption
     DEF NodeId, RouteFile, RouteSlot, RouteFiles, RouteSlots
<1>2. ASSUME NEW n \in NodeId, NEW m \in NodeId,
             RouteFile(n) = RouteFile(m), RouteSlot(n) = RouteSlot(m)
      PROVE  n = m
  <2>1. n \in Nat \ {0} /\ m \in Nat \ {0}
    BY SizesAssumption DEF NodeId
  <2>2. QED
    BY <1>2, <2>1, PlaceUnique, PerFileTypes DEF RouteFile, RouteSlot
<1>3. QED
  BY <1>1, <1>2

(* In format 0 every file has one slot.                                    *)
LEMMA Ungrouped == Format = 0 => InfoSlots = {0} /\ RouteSlots = {0}
BY DEF InfoSlots, RouteSlots, InfosPer, RoutesPer

(* A node number that names a node's slot in format 0 is that node.        *)
LEMMA UngroupedPlace ==
  Format = 0 =>
    \A n, m \in NodeId :
      /\ InfoFile(n) = InfoFile(m) => n = m
      /\ RouteFile(n) = RouteFile(m) => n = m
BY InfoPlace, RoutePlace, Ungrouped

(* ------------------------------- records ------------------------------- *)

LEMMA NodeIsRecord ==
  ASSUME NEW v \in Node
  PROVE  /\ v \in NodeRecord
         /\ v # NoNode
         /\ ParsedInfo(v) \in InfoRecord
         /\ MasksOf(v) \subseteq Mask
<1>1. v \in NodeRecord
  BY InputAssumption
<1>2. v \in ExportedRecord
  BY <1>1 DEF NodeRecord, ExportedRecord
<1>3. ParsedInfo(v) \in InfoRecord
  BY <1>1 DEF NodeRecord, ParsedInfo, ParsedWakeup, InfoRecord, Wakeup
<1>4. MasksOf(v) \subseteq Mask
  BY DEF MasksOf, Mask
<1>5. QED
  BY <1>1, <1>2, <1>3, <1>4, InputAssumption

LEMMA BlankTypes == BlankInfo \in InfoRecord /\ BlankRoute \in RouteRecord
BY DEF BlankInfo, BlankRoute, InfoRecord, RouteRecord

LEMMA ParsedRouteType ==
  ASSUME NEW v \in Node, NEW old \in RouteRecord
  PROVE  ParsedRoute(old, v) \in RouteRecord
BY NodeIsRecord DEF NodeRecord, ParsedRoute, RouteRecord

LEMMA MasksNamed == {"STORAGE_EXIST", "BRIDGE_NODE", "SUC_PENDING_UPDATE",
                     "PENDING_DISCOVERY", "ROUTECACHE_EXIST", "APP_ROUTE_LOCK",
                     "ROUTE_SLAVE_SUC"} \subseteq Mask
BY DEF Mask

(* ------------------------------- writing ------------------------------- *)

(* What the importer finds in a node's info file is what the table holds,  *)
(* except that format 0 starts from a blank record each time.              *)
LEMMA InfoLoaded ==
  ASSUME TypeOK, AbsentFilesBlank, NEW n \in NodeId
  PROVE  /\ LoadedInfo(n) \in [InfoSlots -> InfoRecord]
         /\ Format > 0 => LoadedInfo(n) = infoFile[InfoFile(n)]
<1>1. InfoFile(n) \in InfoFiles
  BY InfoPlace
<1>2. CASE Format > 0 /\ InfoFile(n) \in infoKeys
  BY <1>1, <1>2 DEF LoadedInfo, TypeOK
<1>3. CASE ~(Format > 0 /\ InfoFile(n) \in infoKeys)
  BY <1>1, <1>3, BlankTypes DEF LoadedInfo, TypeOK, AbsentFilesBlank
<1>4. QED
  BY <1>2, <1>3

LEMMA RoutesLoaded ==
  ASSUME TypeOK, AbsentFilesBlank, NEW n \in NodeId
  PROVE  /\ LoadedRoutes(n) \in [RouteSlots -> RouteRecord]
         /\ Format > 0 => LoadedRoutes(n) = routeFile[RouteFile(n)]
         /\ Format = 0 => LoadedRoutes(n)[RouteSlot(n)] = BlankRoute
<1>1. RouteFile(n) \in RouteFiles /\ RouteSlot(n) \in RouteSlots
  BY RoutePlace
<1>2. CASE Format > 0 /\ RouteFile(n) \in routeKeys
  BY <1>1, <1>2 DEF LoadedRoutes, TypeOK
<1>3. CASE ~(Format > 0 /\ RouteFile(n) \in routeKeys)
  BY <1>1, <1>3, BlankTypes DEF LoadedRoutes, TypeOK, AbsentFilesBlank
<1>4. QED
  BY <1>2, <1>3

(* A write of the importer to the node-info table sets the slot of its     *)
(* node, or nothing if it fails, and leaves every other slot alone.        *)
LEMMA InfoWritten ==
  ASSUME TypeOK, AbsentFilesBlank, NEW n \in NodeId, NEW v \in Node,
         NEW ok \in BOOLEAN, WriteInfo(n, v, ok)
  PROVE  /\ infoFile' \in [InfoFiles -> [InfoSlots -> InfoRecord]]
         /\ infoKeys' \subseteq InfoFiles
         /\ infoKeys \subseteq infoKeys'
         /\ \A f \in InfoFiles \ infoKeys' :
              infoFile'[f] = [s \in InfoSlots |-> BlankInfo]
         /\ ok => InfoFile(n) \in infoKeys' /\ InfoAt(n)' = ParsedInfo(v)
         /\ ~ok => UNCHANGED <<infoFile, infoKeys>>
         /\ \A m \in NodeId \ {n} : InfoAt(m)' = InfoAt(m)
<1>1. InfoFile(n) \in InfoFiles /\ InfoSlot(n) \in InfoSlots
  BY InfoPlace
<1>2. CASE ~ok
  BY <1>2 DEF WriteInfo, TypeOK, AbsentFilesBlank, InfoAt
<1>3. CASE ok
  <2> DEFINE written == [LoadedInfo(n) EXCEPT ![InfoSlot(n)] = ParsedInfo(v)]
  <2>1. /\ infoKeys' = infoKeys \cup {InfoFile(n)}
        /\ infoFile' = [infoFile EXCEPT ![InfoFile(n)] = written]
    BY <1>3 DEF WriteInfo
  <2>2. written \in [InfoSlots -> InfoRecord]
    BY InfoLoaded, NodeIsRecord
  <2>3. written[InfoSlot(n)] = ParsedInfo(v)
    BY <1>1, InfoLoaded
  <2> HIDE DEF written
  <2>4. infoFile' \in [InfoFiles -> [InfoSlots -> InfoRecord]]
    BY <2>1, <2>2 DEF TypeOK
  <2>5. infoKeys' \subseteq InfoFiles /\ infoKeys \subseteq infoKeys'
    BY <1>1, <2>1 DEF TypeOK
  <2>6. \A f \in InfoFiles \ infoKeys' :
          infoFile'[f] = [s \in InfoSlots |-> BlankInfo]
    BY <2>1 DEF TypeOK, AbsentFilesBlank
  <2>7. InfoFile(n) \in infoKeys' /\ InfoAt(n)' = ParsedInfo(v)
    BY <1>1, <2>1, <2>3 DEF TypeOK, InfoAt
  <2>8. ASSUME NEW m \in NodeId \ {n}
        PROVE  InfoAt(m)' = InfoAt(m)
    <3>1. InfoFile(m) \in InfoFiles /\ InfoSlot(m) \in InfoSlots
      BY InfoPlace
    <3>2. CASE InfoFile(m) # InfoFile(n)
      BY <1>1, <2>1, <3>1, <3>2 DEF TypeOK, InfoAt
    <3>3. CASE InfoFile(m) = InfoFile(n)
      <4>1. InfoSlot(m) # InfoSlot(n) /\ Format # 0
        BY <3>3, InfoPlace, UngroupedPlace
      <4>2. LoadedInfo(n) = infoFile[InfoFile(n)]
        BY <4>1, InfoLoaded, SizesAssumption
      <4>3. written[InfoSlot(m)] = infoFile[InfoFile(n)][InfoSlot(m)]
        BY <3>1, <4>1, <4>2, InfoLoaded DEF written
      <4>4. QED
        BY <1>1, <2>1, <3>3, <4>3 DEF TypeOK, InfoAt
    <3>4. QED
      BY <3>2, <3>3
  <2>9. QED
    BY <1>3, <2>4, <2>5, <2>6, <2>7, <2>8
<1>4. QED
  BY <1>2, <1>3

(* The same for the route-cache table, whose write depends on the mask.    *)
LEMMA RoutesWritten ==
  ASSUME TypeOK, AbsentFilesBlank, NEW n \in NodeId, NEW v \in Node,
         NEW ok \in BOOLEAN, WriteRoutes(n, v, ok)
  PROVE  LET old == IF Format = 0 THEN BlankRoute ELSE RouteAt(n)
             done == n \in mask'["ROUTECACHE_EXIST"] /\ ok
         IN  /\ routeFile' \in [RouteFiles -> [RouteSlots -> RouteRecord]]
             /\ routeKeys' \subseteq RouteFiles
             /\ routeKeys \subseteq routeKeys'
             /\ \A f \in RouteFiles \ routeKeys' :
                  routeFile'[f] = [s \in RouteSlots |-> BlankRoute]
             /\ done => /\ RouteFile(n) \in routeKeys'
                        /\ RouteAt(n)' = ParsedRoute(old, v)
             /\ ~done => UNCHANGED <<routeFile, routeKeys>>
             /\ \A m \in NodeId \ {n} : RouteAt(m)' = RouteAt(m)
<1> DEFINE old == IF Format = 0 THEN BlankRoute ELSE RouteAt(n)
           done == n \in mask'["ROUTECACHE_EXIST"] /\ ok
<1>1. RouteFile(n) \in RouteFiles /\ RouteSlot(n) \in RouteSlots
  BY RoutePlace
<1>2. CASE ~done
  BY <1>2 DEF WriteRoutes, TypeOK, AbsentFilesBlank, RouteAt
<1>3. CASE done
  <2> DEFINE written ==
        [LoadedRoutes(n) EXCEPT ![RouteSlot(n)] = ParsedRoute(@, v)]
  <2>1. /\ routeKeys' = routeKeys \cup {RouteFile(n)}
        /\ routeFile' = [routeFile EXCEPT ![RouteFile(n)] = written]
    BY <1>3 DEF WriteRoutes
  <2>2. LoadedRoutes(n)[RouteSlot(n)] = old
    <3>1. CASE Format = 0
      BY <3>1, RoutesLoaded
    <3>2. CASE Format # 0
      BY <3>2, RoutesLoaded, SizesAssumption DEF RouteAt
    <3>3. QED
      BY <3>1, <3>2
  <2>3. old \in RouteRecord
    BY <1>1, <2>2, RoutesLoaded
  <2>4. ParsedRoute(old, v) \in RouteRecord
    BY <2>3, ParsedRouteType
  <2>5. written \in [RouteSlots -> RouteRecord]
    BY <2>2, <2>4, RoutesLoaded
  <2>6. written[RouteSlot(n)] = ParsedRoute(old, v)
    BY <1>1, <2>2, RoutesLoaded
  <2> HIDE DEF written, old
  <2>7. routeFile' \in [RouteFiles -> [RouteSlots -> RouteRecord]]
    BY <2>1, <2>5 DEF TypeOK
  <2>8. routeKeys' \subseteq RouteFiles /\ routeKeys \subseteq routeKeys'
    BY <1>1, <2>1 DEF TypeOK
  <2>9. \A f \in RouteFiles \ routeKeys' :
          routeFile'[f] = [s \in RouteSlots |-> BlankRoute]
    BY <2>1 DEF TypeOK, AbsentFilesBlank
  <2>10. RouteFile(n) \in routeKeys' /\ RouteAt(n)' = ParsedRoute(old, v)
    BY <1>1, <2>1, <2>6 DEF TypeOK, RouteAt
  <2>11. ASSUME NEW m \in NodeId \ {n}
         PROVE  RouteAt(m)' = RouteAt(m)
    <3>1. RouteFile(m) \in RouteFiles /\ RouteSlot(m) \in RouteSlots
      BY RoutePlace
    <3>2. CASE RouteFile(m) # RouteFile(n)
      BY <1>1, <2>1, <3>1, <3>2 DEF TypeOK, RouteAt
    <3>3. CASE RouteFile(m) = RouteFile(n)
      <4>1. RouteSlot(m) # RouteSlot(n) /\ Format # 0
        BY <3>3, RoutePlace, UngroupedPlace
      <4>2. LoadedRoutes(n) = routeFile[RouteFile(n)]
        BY <4>1, RoutesLoaded, SizesAssumption
      <4>3. written[RouteSlot(m)] = routeFile[RouteFile(n)][RouteSlot(m)]
        BY <3>1, <4>1, <4>2, RoutesLoaded DEF written
      <4>4. QED
        BY <1>1, <2>1, <3>3, <4>3 DEF TypeOK, RouteAt
    <3>4. QED
      BY <3>2, <3>3
  <2>12. QED
    BY <1>3, <2>7, <2>8, <2>9, <2>10, <2>11 DEF old
<1>4. QED
  BY <1>2, <1>3

(* ------------------------------- types --------------------------------- *)

StorageOK == TypeOK /\ AbsentFilesBlank

LEMMA InitTypes == Init => StorageOK
<1> SUFFICES ASSUME Init PROVE StorageOK
  OBVIOUS
<1>1. TypeOK
  <2>1. node_id \in 1 .. MaxNode + 1
    BY SizesAssumption DEF Init
  <2>2. QED
    BY <2>1, BlankTypes DEF Init, TypeOK
<1>2. AbsentFilesBlank
  BY DEF Init, AbsentFilesBlank
<1>3. QED
  BY <1>1, <1>2 DEF StorageOK

LEMMA ImportTypes ==
  ASSUME StorageOK, NEW k \in Key, NEW v \in Node, ImportEntry(k, v)
  PROVE  StorageOK'
<1> DEFINE n == NodeIdOf(k)
<1>1. TypeOK /\ AbsentFilesBlank /\ n \in NodeId
  BY DEF StorageOK, ImportEntry
<1>2. PICK infoOk \in BOOLEAN, routeOk \in BOOLEAN :
        /\ WriteInfo(n, v, infoOk)
        /\ WriteRoutes(n, v, routeOk)
        /\ importError' = \/ importError
                          \/ ~infoOk
                          \/ n \in mask'["ROUTECACHE_EXIST"] /\ ~routeOk
  BY DEF ImportEntry, WriteResult
<1>3. /\ infoFile' \in [InfoFiles -> [InfoSlots -> InfoRecord]]
      /\ infoKeys' \subseteq InfoFiles
      /\ \A f \in InfoFiles \ infoKeys' :
           infoFile'[f] = [s \in InfoSlots |-> BlankInfo]
  BY <1>1, <1>2, InfoWritten
<1>4. /\ routeFile' \in [RouteFiles -> [RouteSlots -> RouteRecord]]
      /\ routeKeys' \subseteq RouteFiles
      /\ \A f \in RouteFiles \ routeKeys' :
           routeFile'[f] = [s \in RouteSlots |-> BlankRoute]
  BY <1>1, <1>2, RoutesWritten
<1>5. json' \in [Key -> Node \cup {NoNode}]
  BY <1>1 DEF TypeOK, ImportEntry
<1>6. mask' \in [Mask -> SUBSET NodeId]
  BY <1>1 DEF TypeOK, ImportEntry
<1>7. importError' \in BOOLEAN
  BY <1>1, <1>2 DEF TypeOK
<1>8. /\ UNCHANGED <<stage, maskFile, maskKeys>>
      /\ UNCHANGED <<exportError, node_id, route_cache_buf, out>>
  BY DEF ImportEntry, exportVars
<1> HIDE DEF n
<1>9. TypeOK'
  BY <1>1, <1>3, <1>4, <1>5, <1>6, <1>7, <1>8 DEF TypeOK
<1>10. AbsentFilesBlank'
  BY <1>3, <1>4 DEF AbsentFilesBlank
<1>11. QED
  BY <1>9, <1>10 DEF StorageOK

(* What the exporter adds to the JSON has the type of an exported node.    *)
LEMMA ExportedType ==
  ASSUME NEW n, NEW info \in InfoRecord, NEW routes \in RouteRecord
  PROVE  ExportedNode(n, info, routes) \in ExportedRecord
<1>1. ReportedWakeup(info.wakeup) \in Wakeup
  BY DEF ReportedWakeup, InfoRecord, Wakeup
<1>2. QED
  BY <1>1 DEF ExportedNode, ExportedRecord, InfoRecord, RouteRecord

LEMMA ExportTypes ==
  ASSUME StorageOK, ExportNode
  PROVE  StorageOK'
<1> USE DEF StorageOK
<1>1. node_id \in NodeId /\ node_id' \in 1 .. MaxNode + 1
  BY MasksNamed, SizesAssumption DEF ExportNode, TypeOK, NodeId
<1>2. /\ InfoFile(node_id) \in InfoFiles /\ InfoSlot(node_id) \in InfoSlots
      /\ RouteFile(node_id) \in RouteFiles /\ RouteSlot(node_id) \in RouteSlots
  BY <1>1, InfoPlace, RoutePlace
<1>3. route_cache_buf' \in [RouteSlots -> RouteRecord]
  BY <1>2 DEF ExportNode, ReadRoutes, TypeOK
<1>4. out' \in [NodeId -> ExportedRecord \cup {NoNode}]
  <2>1. infoFile[InfoFile(node_id)][InfoSlot(node_id)] \in InfoRecord
    BY <1>2 DEF TypeOK
  <2>2. route_cache_buf'[RouteSlot(node_id)] \in RouteRecord
    BY <1>2, <1>3
  <2>3. QED
    BY <2>1, <2>2, ExportedType DEF ExportNode, TypeOK
<1>5. exportError' \in BOOLEAN
  BY DEF ExportNode, TypeOK
<1>6. UNCHANGED <<stage, json, mask, maskFile, maskKeys, infoFile, infoKeys,
                  routeFile, routeKeys, importError>>
  BY DEF ExportNode, nvmVars
<1>7. TypeOK'
  BY <1>1, <1>3, <1>4, <1>5, <1>6 DEF TypeOK
<1>8. QED
  BY <1>6, <1>7 DEF AbsentFilesBlank

LEMMA NextTypes == StorageOK /\ [Next]_vars => StorageOK'
<1> SUFFICES ASSUME StorageOK, [Next]_vars PROVE StorageOK'
  OBVIOUS
<1>1. CASE \E k \in Key, v \in Node : ImportEntry(k, v)
  BY <1>1, ImportTypes
<1>2. CASE \E k \in Key, v \in Node : SkipEntry(k, v)
  BY <1>2 DEF SkipEntry, StorageOK, TypeOK, AbsentFilesBlank, nvmVars, exportVars
<1>3. CASE StoreMasks
  <2>1. PICK failed \in SUBSET Mask :
          /\ maskFile' = [m \in Mask |-> IF m \in failed THEN maskFile[m] ELSE mask[m]]
          /\ maskKeys' = maskKeys \cup (Mask \ failed)
          /\ importError' = (importError \/ failed # {})
    BY <1>3 DEF StoreMasks
  <2>2. maskFile' \in [Mask -> SUBSET NodeId] /\ maskKeys' \subseteq Mask
    BY <2>1 DEF StorageOK, TypeOK
  <2>3. /\ stage' = "stored"
        /\ UNCHANGED <<json, mask, infoFile, infoKeys, routeFile, routeKeys>>
        /\ UNCHANGED <<exportError, node_id, route_cache_buf, out>>
    BY <1>3 DEF StoreMasks, exportVars
  <2>4. importError' \in BOOLEAN
    BY <2>1 DEF StorageOK, TypeOK
  <2>5. QED
    BY <2>2, <2>3, <2>4 DEF StorageOK, TypeOK, AbsentFilesBlank
<1>4. CASE LoadMasks
  <2>1. mask' \in [Mask -> SUBSET NodeId] /\ exportError' \in BOOLEAN
    BY <1>4 DEF LoadMasks, StorageOK, TypeOK
  <2>2. node_id' \in 1 .. MaxNode + 1
    BY <1>4, SizesAssumption DEF LoadMasks
  <2>3. /\ route_cache_buf' \in [RouteSlots -> RouteRecord]
        /\ out' \in [NodeId -> ExportedRecord \cup {NoNode}]
    BY <1>4, BlankTypes DEF LoadMasks
  <2>4. stage' = "export"
    BY <1>4 DEF LoadMasks
  <2>5. UNCHANGED <<json, maskFile, maskKeys, infoFile, infoKeys,
                    routeFile, routeKeys, importError>>
    BY <1>4 DEF LoadMasks, nvmVars
  <2>6. QED
    BY <2>1, <2>2, <2>3, <2>4, <2>5 DEF StorageOK, TypeOK, AbsentFilesBlank
<1>5. CASE ExportNode
  BY <1>5, ExportTypes
<1>6. CASE PassNode
  <2>1. node_id' \in 1 .. MaxNode + 1
    BY <1>6, SizesAssumption DEF PassNode, NodeId
  <2>2. exportError' \in BOOLEAN
    BY <1>6 DEF PassNode, StorageOK, TypeOK
  <2>3. QED
    BY <1>6, <2>1, <2>2 DEF PassNode, StorageOK, TypeOK, AbsentFilesBlank, nvmVars
<1>7. CASE UNCHANGED vars
  BY <1>7 DEF vars, StorageOK, TypeOK, AbsentFilesBlank, nvmVars, exportVars
<1>8. QED
  BY <1>1, <1>2, <1>3, <1>4, <1>5, <1>6, <1>7 DEF Next

(* Type correctness, for every format and every table geometry: no write   *)
(* leaves the table's files, the exporter's loop variable stays within the *)
(* table, and a file that does not exist has no contents (the ground of    *)
(* the read-modify-write in parse_node_table_json).                        *)
THEOREM TypeCorrect == Spec => [](TypeOK /\ AbsentFilesBlank)
<1>1. Init => StorageOK
  BY InitTypes
<1>2. StorageOK /\ [Next]_vars => StorageOK'
  BY NextTypes
<1>3. QED
  BY <1>1, <1>2, PTL DEF Spec, StorageOK

(* --------------------------- table contents ---------------------------- *)

IInv ==
  /\ StorageOK
  /\ SlotsHoldOwnNode
  /\ UniqueEntriesStored
  /\ MasksMatchEntries

(* Importing an entry adds its key to those that name its node.            *)
LEMMA NamedGrows ==
  ASSUME TypeOK, NEW k \in Key, NEW v \in Node,
         json[k] = NoNode, json' = [json EXCEPT ![k] = v]
  PROVE  /\ json'[k] = v
         /\ \A q \in Key \ {k} : json'[q] = json[q]
         /\ k \notin Named(NodeIdOf(k))
         /\ Named(NodeIdOf(k))' = Named(NodeIdOf(k)) \cup {k}
         /\ \A n \in NodeId : n # NodeIdOf(k) => Named(n)' = Named(n)
<1>1. json'[k] = v /\ \A q \in Key \ {k} : json'[q] = json[q]
  BY DEF TypeOK
<1>2. v # NoNode
  BY NodeIsRecord
<1>3. QED
  BY <1>1, <1>2 DEF Named, NodeIdOf

LEMMA InitContents == Init => IInv
<1> SUFFICES ASSUME Init PROVE IInv
  OBVIOUS
<1>1. StorageOK
  BY InitTypes
<1>2. \A n : Named(n) = {}
  BY DEF Init, Named
<1>3. SlotsHoldOwnNode
  <2>1. ASSUME NEW n \in NodeId
        PROVE  InfoAt(n) = BlankInfo /\ RouteAt(n) = BlankRoute
    BY InfoPlace, RoutePlace DEF Init, InfoAt, RouteAt
  <2>2. QED
    BY <2>1 DEF SlotsHoldOwnNode, BlankRoute
<1>4. UniqueEntriesStored
  BY <1>2 DEF UniqueEntriesStored
<1>5. MasksMatchEntries
  BY <1>2 DEF Init, MasksMatchEntries, EntryMask
<1>6. QED
  BY <1>1, <1>3, <1>4, <1>5 DEF IInv

LEMMA ImportContents ==
  ASSUME IInv, NEW k \in Key, NEW v \in Node, ImportEntry(k, v)
  PROVE  IInv'
<1> DEFINE n == NodeIdOf(k)
           old == IF Format = 0 THEN BlankRoute ELSE RouteAt(n)
<1>1. /\ TypeOK /\ AbsentFilesBlank /\ StorageOK
      /\ SlotsHoldOwnNode /\ UniqueEntriesStored /\ MasksMatchEntries
  BY DEF IInv, StorageOK
<1>2. /\ n \in NodeId
      /\ stage = "import" /\ stage' = "import"
      /\ json[k] = NoNode
      /\ json' = [json EXCEPT ![k] = v]
      /\ mask' = [m \in Mask |-> IF m \in MasksOf(v) THEN mask[m] \cup {n} ELSE mask[m]]
  BY DEF ImportEntry
<1>3. PICK infoOk \in BOOLEAN, routeOk \in BOOLEAN :
        /\ WriteInfo(n, v, infoOk)
        /\ WriteRoutes(n, v, routeOk)
        /\ importError' = \/ importError
                          \/ ~infoOk
                          \/ n \in mask'["ROUTECACHE_EXIST"] /\ ~routeOk
  BY DEF ImportEntry, WriteResult
<1> DEFINE done == n \in mask'["ROUTECACHE_EXIST"] /\ routeOk
<1>4. /\ infoKeys \subseteq infoKeys'
      /\ infoOk => InfoFile(n) \in infoKeys' /\ InfoAt(n)' = ParsedInfo(v)
      /\ ~infoOk => UNCHANGED <<infoFile, infoKeys>>
      /\ \A m \in NodeId \ {n} : InfoAt(m)' = InfoAt(m)
  BY <1>1, <1>2, <1>3, InfoWritten
<1>5. /\ routeKeys \subseteq routeKeys'
      /\ done => RouteFile(n) \in routeKeys' /\ RouteAt(n)' = ParsedRoute(old, v)
      /\ ~done => UNCHANGED <<routeFile, routeKeys>>
      /\ \A m \in NodeId \ {n} : RouteAt(m)' = RouteAt(m)
  BY <1>1, <1>2, <1>3, RoutesWritten
<1>6. /\ json'[k] = v
      /\ \A q \in Key \ {k} : json'[q] = json[q]
      /\ k \notin Named(n)
      /\ Named(n)' = Named(n) \cup {k}
      /\ \A m \in NodeId \ {n} : Named(m)' = Named(m)
  BY <1>1, <1>2, NamedGrows
<1>7. \A m \in NodeId : Named(m) \subseteq Key \ {k}
  BY <1>2 DEF Named
<1>8. StorageOK'
  BY <1>1, ImportTypes
<1> HIDE DEF n, done
<1>9. ~infoOk => InfoAt(n)' = InfoAt(n)
  BY <1>4 DEF InfoAt
<1>10. ~done => RouteAt(n)' = RouteAt(n)
  BY <1>5 DEF RouteAt
<1>11. SlotsHoldOwnNode'
  <2> SUFFICES ASSUME NEW m \in NodeId
               PROVE  /\ \/ InfoAt(m)' = BlankInfo
                         \/ \E q \in Named(m)' : InfoAt(m)' = ParsedInfo(json'[q])
                      /\ RouteAt(m)'.lwr \in {Blank} \cup {json'[q].lwr : q \in Named(m)'}
                      /\ RouteAt(m)'.nlwr \in {Blank} \cup {json'[q].nlwr : q \in Named(m)'}
    BY DEF SlotsHoldOwnNode
  <2>1. /\ \/ InfoAt(m) = BlankInfo
           \/ \E q \in Named(m) : InfoAt(m) = ParsedInfo(json[q])
        /\ RouteAt(m).lwr \in {Blank} \cup {json[q].lwr : q \in Named(m)}
        /\ RouteAt(m).nlwr \in {Blank} \cup {json[q].nlwr : q \in Named(m)}
    BY <1>1 DEF SlotsHoldOwnNode
  <2>2. \A q \in Named(m) : q \in Named(m)' /\ json'[q] = json[q]
    BY <1>6, <1>7
  <2>3. CASE m # n
    BY <1>4, <1>5, <2>1, <2>2, <2>3
  <2>4. CASE m = n
    <3>1. k \in Named(m)' /\ json'[k] = v
      BY <1>6, <2>4
    <3>2. \/ InfoAt(m)' = BlankInfo
          \/ \E q \in Named(m)' : InfoAt(m)' = ParsedInfo(json'[q])
      BY <1>4, <1>9, <2>1, <2>2, <2>4, <3>1
    <3>3. CASE ~done
      BY <1>10, <2>1, <2>2, <2>4, <3>2, <3>3
    <3>4. CASE done
      <4>1. /\ RouteAt(m)'.lwr = IF v.lwr = NoLine THEN old.lwr ELSE v.lwr
            /\ RouteAt(m)'.nlwr = IF v.nlwr = NoLine THEN old.nlwr ELSE v.nlwr
        BY <1>5, <2>4, <3>4 DEF ParsedRoute
      <4>2. \/ old.lwr = Blank /\ old.nlwr = Blank
            \/ old = RouteAt(m)
        BY <2>4 DEF BlankRoute
      <4>3. /\ old.lwr \in {Blank} \cup {json'[q].lwr : q \in Named(m)'}
            /\ old.nlwr \in {Blank} \cup {json'[q].nlwr : q \in Named(m)'}
        BY <2>1, <2>2, <4>2
      <4>4. QED
        BY <3>1, <3>2, <4>1, <4>3
    <3>5. QED
      BY <3>3, <3>4
  <2>5. QED
    BY <2>3, <2>4
<1>12. UniqueEntriesStored'
  <2> SUFFICES ASSUME ~importError', NEW m \in NodeId, NEW q \in Named(m)',
                      Named(m)' = {q}
               PROVE  /\ InfoFile(m) \in infoKeys'
                      /\ InfoAt(m)' = ParsedInfo(json'[q])
                      /\ HasRoute(json'[q]) =>
                           /\ RouteFile(m) \in routeKeys'
                           /\ RouteAt(m)' = ParsedRoute(BlankRoute, json'[q])
    BY DEF UniqueEntriesStored
  <2>1. ~importError /\ infoOk /\ (n \in mask'["ROUTECACHE_EXIST"] => routeOk)
    BY <1>3 DEF n
  <2>2. CASE m # n
    <3>1. Named(m) = {q} /\ q \in Named(m) /\ json'[q] = json[q]
      BY <1>6, <1>7, <2>2
    <3>2. /\ InfoFile(m) \in infoKeys
          /\ InfoAt(m) = ParsedInfo(json[q])
          /\ HasRoute(json[q]) => /\ RouteFile(m) \in routeKeys
                                  /\ RouteAt(m) = ParsedRoute(BlankRoute, json[q])
      BY <1>1, <2>1, <3>1 DEF UniqueEntriesStored
    <3>3. QED
      BY <1>4, <1>5, <2>2, <3>1, <3>2
  <2>3. CASE m = n
    <3>1. q = k /\ Named(n) = {} /\ json'[q] = v
      BY <1>6, <2>3
    <3>2. RouteAt(n) = BlankRoute
      <4>1. RouteAt(n).lwr = Blank /\ RouteAt(n).nlwr = Blank
        BY <1>1, <2>3, <3>1 DEF SlotsHoldOwnNode
      <4>2. RouteAt(n) \in RouteRecord
        BY <1>1, <1>2, RoutePlace DEF TypeOK, RouteAt, n
      <4>3. QED
        BY <4>1, <4>2 DEF RouteRecord, BlankRoute
    <3>3. old = BlankRoute
      BY <3>2
    <3>4. HasRoute(v) => n \in mask'["ROUTECACHE_EXIST"]
      BY <1>2, MasksNamed DEF MasksOf
    <3>5. HasRoute(v) => done
      BY <2>1, <3>4 DEF done
    <3>6. QED
      BY <1>4, <1>5, <2>1, <2>3, <3>1, <3>3, <3>5
  <2>4. QED
    BY <2>2, <2>3
<1>13. MasksMatchEntries'
  <2>1. ASSUME NEW m \in Mask
        PROVE  mask'[m] = EntryMask(m)'
    <3>1. mask[m] = EntryMask(m)
      BY <1>1, <1>2 DEF MasksMatchEntries
    <3>2. ASSUME NEW p \in NodeId
          PROVE  p \in mask'[m] <=> \E q \in Named(p)' : m \in MasksOf(json'[q])
      <4>1. p \in mask[m] <=> \E q \in Named(p) : m \in MasksOf(json[q])
        BY <3>1 DEF EntryMask
      <4>2. \A q \in Named(p) : json'[q] = json[q]
        BY <1>6, <1>7
      <4>3. p \in mask'[m] <=> p \in mask[m] \/ (p = n /\ m \in MasksOf(v))
        BY <1>2 DEF n
      <4>4. QED
        BY <1>6, <4>1, <4>2, <4>3
    <3>3. mask'[m] \subseteq NodeId
      BY <1>8 DEF StorageOK, TypeOK
    <3>4. QED
      BY <3>2, <3>3 DEF EntryMask
  <2>2. QED
    BY <1>2, <2>1 DEF MasksMatchEntries
<1>14. QED
  BY <1>8, <1>11, <1>12, <1>13 DEF IInv

(* Passing over a key changes nothing about any classic node.              *)
LEMMA SkipContents ==
  ASSUME IInv, NEW k \in Key, NEW v \in Node, SkipEntry(k, v)
  PROVE  IInv'
<1>1. TypeOK /\ json[k] = NoNode /\ NodeIdOf(k) \notin NodeId
  BY DEF IInv, StorageOK, SkipEntry
<1>2. json' = [json EXCEPT ![k] = v]
  BY DEF SkipEntry
<1>3. \A n \in NodeId : Named(n)' = Named(n) /\ \A q \in Named(n) : json'[q] = json[q]
  BY <1>1, <1>2 DEF TypeOK, Named, NodeIdOf
<1>4. UNCHANGED <<stage, mask, maskFile, maskKeys, infoFile, infoKeys,
                  routeFile, routeKeys, importError>>
  BY DEF SkipEntry, nvmVars
<1>5. StorageOK'
  BY NextTypes DEF IInv, Next
<1>6. SlotsHoldOwnNode'
  <2> SUFFICES ASSUME NEW n \in NodeId
               PROVE  /\ \/ InfoAt(n)' = BlankInfo
                         \/ \E q \in Named(n)' : InfoAt(n)' = ParsedInfo(json'[q])
                      /\ RouteAt(n)'.lwr \in {Blank} \cup {json'[q].lwr : q \in Named(n)'}
                      /\ RouteAt(n)'.nlwr \in {Blank} \cup {json'[q].nlwr : q \in Named(n)'}
    BY DEF SlotsHoldOwnNode
  <2>1. InfoAt(n)' = InfoAt(n) /\ RouteAt(n)' = RouteAt(n)
    BY <1>4 DEF InfoAt, RouteAt
  <2>2. /\ \/ InfoAt(n) = BlankInfo
           \/ \E q \in Named(n) : InfoAt(n) = ParsedInfo(json[q])
        /\ RouteAt(n).lwr \in {Blank} \cup {json[q].lwr : q \in Named(n)}
        /\ RouteAt(n).nlwr \in {Blank} \cup {json[q].nlwr : q \in Named(n)}
    BY DEF IInv, SlotsHoldOwnNode
  <2>3. QED
    BY <1>3, <2>1, <2>2
<1>7. UniqueEntriesStored'
  BY <1>3, <1>4 DEF IInv, UniqueEntriesStored, InfoAt, RouteAt
<1>8. MasksMatchEntries'
  <2>1. \A m \in Mask : EntryMask(m)' = EntryMask(m)
    BY <1>3 DEF EntryMask
  <2>2. QED
    BY <1>4, <2>1 DEF IInv, MasksMatchEntries
<1>9. QED
  BY <1>5, <1>6, <1>7, <1>8 DEF IInv

(* A step that touches neither the entries nor the two tables keeps what   *)
(* is said about them, if it forgives no write error.                      *)
LEMMA TablesKept ==
  ASSUME IInv,
         UNCHANGED <<json, infoFile, infoKeys, routeFile, routeKeys>>,
         importError => importError'
  PROVE  /\ SlotsHoldOwnNode'
         /\ UniqueEntriesStored'
         /\ \A m \in Mask : EntryMask(m)' = EntryMask(m)
<1>1. /\ \A n : Named(n)' = Named(n)
      /\ \A n : InfoAt(n)' = InfoAt(n) /\ RouteAt(n)' = RouteAt(n)
  BY DEF Named, InfoAt, RouteAt
<1>2. SlotsHoldOwnNode'
  BY <1>1 DEF IInv, SlotsHoldOwnNode
<1>3. UniqueEntriesStored'
  BY <1>1 DEF IInv, UniqueEntriesStored
<1>4. \A m \in Mask : EntryMask(m)' = EntryMask(m)
  BY <1>1 DEF EntryMask
<1>5. QED
  BY <1>2, <1>3, <1>4

LEMMA NextContents == IInv /\ [Next]_vars => IInv'
<1> SUFFICES ASSUME IInv, [Next]_vars PROVE IInv'
  OBVIOUS
<1>1. StorageOK'
  BY NextTypes DEF IInv
<1>2. CASE \E k \in Key, v \in Node : ImportEntry(k, v)
  BY <1>2, ImportContents
<1>3. CASE \E k \in Key, v \in Node : SkipEntry(k, v)
  BY <1>3, SkipContents
<1>4. CASE StoreMasks
  <2>1. PICK failed \in SUBSET Mask :
          /\ maskFile' = [m \in Mask |-> IF m \in failed THEN maskFile[m] ELSE mask[m]]
          /\ maskKeys' = maskKeys \cup (Mask \ failed)
          /\ importError' = (importError \/ failed # {})
    BY <1>4 DEF StoreMasks
  <2>2. /\ stage = "import" /\ stage' = "stored"
        /\ UNCHANGED <<json, mask, infoFile, infoKeys, routeFile, routeKeys>>
    BY <1>4 DEF StoreMasks
  <2>3. SlotsHoldOwnNode' /\ UniqueEntriesStored' /\ \A m \in Mask : EntryMask(m)' = EntryMask(m)
    BY <2>1, <2>2, TablesKept
  <2>4. MasksMatchEntries'
    BY <1>1, <2>1, <2>2, <2>3 DEF IInv, StorageOK, TypeOK, MasksMatchEntries
  <2>5. QED
    BY <1>1, <2>3, <2>4 DEF IInv
<1>5. CASE LoadMasks \/ ExportNode \/ PassNode
  <2>1. /\ UNCHANGED <<json, maskFile, maskKeys, importError>>
        /\ UNCHANGED <<infoFile, infoKeys, routeFile, routeKeys>>
        /\ stage # "import" /\ stage' = "export"
    BY <1>5 DEF LoadMasks, ExportNode, PassNode, nvmVars
  <2>2. SlotsHoldOwnNode' /\ UniqueEntriesStored' /\ \A m \in Mask : EntryMask(m)' = EntryMask(m)
    BY <2>1, TablesKept
  <2>3. MasksMatchEntries'
    BY <2>1, <2>2 DEF IInv, MasksMatchEntries
  <2>4. QED
    BY <1>1, <2>2, <2>3 DEF IInv
<1>6. CASE UNCHANGED vars
  <2>1. SlotsHoldOwnNode' /\ UniqueEntriesStored' /\ \A m \in Mask : EntryMask(m)' = EntryMask(m)
    BY <1>6, TablesKept DEF vars, nvmVars
  <2>2. MasksMatchEntries'
    BY <1>6, <2>1 DEF vars, nvmVars, IInv, MasksMatchEntries
  <2>3. QED
    BY <1>1, <2>1, <2>2 DEF IInv
<1>7. QED
  BY <1>2, <1>3, <1>4, <1>5, <1>6 DEF Next

(* In every reachable state, whichever writes failed, a slot of a shared   *)
(* file holds its own node's data or nothing (parse_node_table_json).      *)
THEOREM ContentsCorrect == Spec => []SlotsHoldOwnNode
<1>1. IInv => SlotsHoldOwnNode
  BY DEF IInv
<1>2. QED
  BY InitContents, NextContents, <1>1, PTL DEF Spec

(* An entry that is alone in naming its node is stored in full, whatever   *)
(* other entries share its files and in whatever order they come.          *)
THEOREM EntriesStored == Spec => []UniqueEntriesStored
<1>1. IInv => UniqueEntriesStored
  BY DEF IInv
<1>2. QED
  BY InitContents, NextContents, <1>1, PTL DEF Spec

(* The masks say what the entries say, and a mask that is stored is that   *)
(* of the end of the import.                                               *)
THEOREM MasksCorrect == Spec => []MasksMatchEntries
<1>1. IInv => MasksMatchEntries
  BY DEF IInv
<1>2. QED
  BY InitContents, NextContents, <1>1, PTL DEF Spec

(* No step changes a slot of a node whose entry it is not importing, even  *)
(* though every write of the importer rewrites a whole shared file.        *)
THEOREM NeighboursKept == Spec => OtherSlotsUntouched
<1> DEFINE Untouched ==
      \A n \in NodeId :
        (\A k \in Key : NodeIdOf(k) = n => json'[k] = json[k]) =>
           InfoAt(n)' = InfoAt(n) /\ RouteAt(n)' = RouteAt(n)
<1>1. StorageOK /\ [Next]_vars => [Untouched]_vars
  <2> SUFFICES ASSUME StorageOK, [Next]_vars PROVE Untouched
    OBVIOUS
  <2>1. CASE UNCHANGED <<infoFile, routeFile>>
    BY <2>1 DEF InfoAt, RouteAt
  <2>2. CASE \E k \in Key, v \in Node : ImportEntry(k, v)
    <3>1. PICK k \in Key, v \in Node : ImportEntry(k, v)
      BY <2>2
    <3>2. /\ TypeOK /\ AbsentFilesBlank
          /\ NodeIdOf(k) \in NodeId
          /\ json[k] = NoNode
          /\ json' = [json EXCEPT ![k] = v]
      BY <3>1 DEF StorageOK, ImportEntry
    <3>3. PICK infoOk \in BOOLEAN, routeOk \in BOOLEAN :
            /\ WriteInfo(NodeIdOf(k), v, infoOk)
            /\ WriteRoutes(NodeIdOf(k), v, routeOk)
      BY <3>1 DEF ImportEntry, WriteResult
    <3>4. \A m \in NodeId \ {NodeIdOf(k)} : InfoAt(m)' = InfoAt(m)
      BY <3>2, <3>3, InfoWritten
    <3>5. \A m \in NodeId \ {NodeIdOf(k)} : RouteAt(m)' = RouteAt(m)
      BY <3>2, <3>3, RoutesWritten
    <3>6. json'[k] # json[k]
      BY <3>2, NamedGrows, NodeIsRecord
    <3>7. QED
      BY <3>4, <3>5, <3>6
  <2>3. CASE (\E k \in Key, v \in Node : SkipEntry(k, v)) \/ UNCHANGED vars
    <3>1. UNCHANGED <<infoFile, routeFile>>
      BY <2>3 DEF SkipEntry, vars, nvmVars
    <3>2. QED
      BY <2>1, <3>1
  <2>4. CASE StoreMasks \/ LoadMasks \/ ExportNode \/ PassNode
    <3>1. UNCHANGED <<infoFile, routeFile>>
      BY <2>4 DEF StoreMasks, LoadMasks, ExportNode, PassNode, nvmVars
    <3>2. QED
      BY <2>1, <3>1
  <2>5. QED
    BY <2>2, <2>3, <2>4 DEF Next
<1>2. Spec => []StorageOK
  BY TypeCorrect, PTL DEF StorageOK
<1>3. QED
  BY <1>1, <1>2, PTL DEF Spec, OtherSlotsUntouched

(* ----------------------------- round trip ------------------------------ *)

(* Whatever a mask announces has a file, also for a node that several      *)
(* entries name, of which the later ones may bring no route.               *)
FilesPresent ==
  ~importError =>
    \A n \in NodeId :
      /\ Named(n) # {} => InfoFile(n) \in infoKeys
      /\ n \in EntryMask("ROUTECACHE_EXIST") => RouteFile(n) \in routeKeys

(* The exporter's pass over the numbers: it has the masks as stored, and   *)
(* has exported what the tables hold of the nodes below node_id.           *)
ExportProgress ==
  stage = "export" =>
    /\ mask = [m \in Mask |-> IF m \in maskKeys THEN maskFile[m] ELSE {}]
    /\ ~importError =>
         /\ ~exportError
         /\ \A n \in NodeId :
              out[n] = IF n < node_id /\ n \in mask["STORAGE_EXIST"]
                         THEN ExportedNode(n, InfoAt(n), RouteAt(n))
                         ELSE NoNode

TripInv == IInv /\ FilesPresent /\ ExportProgress

LEMMA ImportFiles ==
  ASSUME TripInv, NEW k \in Key, NEW v \in Node, ImportEntry(k, v)
  PROVE  FilesPresent'
<1> DEFINE n == NodeIdOf(k)
<1>1. /\ TypeOK /\ AbsentFilesBlank
      /\ FilesPresent /\ MasksMatchEntries
  BY DEF TripInv, IInv, StorageOK
<1>2. /\ n \in NodeId
      /\ stage = "import" /\ stage' = "import"
      /\ json[k] = NoNode
      /\ json' = [json EXCEPT ![k] = v]
      /\ mask' = [m \in Mask |-> IF m \in MasksOf(v) THEN mask[m] \cup {n} ELSE mask[m]]
  BY DEF ImportEntry
<1>3. PICK infoOk \in BOOLEAN, routeOk \in BOOLEAN :
        /\ WriteInfo(n, v, infoOk)
        /\ WriteRoutes(n, v, routeOk)
        /\ importError' = \/ importError
                          \/ ~infoOk
                          \/ n \in mask'["ROUTECACHE_EXIST"] /\ ~routeOk
  BY DEF ImportEntry, WriteResult
<1>4. infoKeys \subseteq infoKeys' /\ (infoOk => InfoFile(n) \in infoKeys')
  BY <1>1, <1>2, <1>3, InfoWritten
<1>5. /\ routeKeys \subseteq routeKeys'
      /\ n \in mask'["ROUTECACHE_EXIST"] /\ routeOk => RouteFile(n) \in routeKeys'
  BY <1>1, <1>2, <1>3, RoutesWritten
<1>6. \A m \in NodeId \ {n} : Named(m)' = Named(m)
  BY <1>1, <1>2, NamedGrows
<1>7. mask'["ROUTECACHE_EXIST"] = EntryMask("ROUTECACHE_EXIST")'
  <2>1. MasksMatchEntries'
    BY ImportContents DEF TripInv, IInv
  <2>2. QED
    BY <1>2, <2>1, MasksNamed DEF MasksMatchEntries
<1>8. mask["ROUTECACHE_EXIST"] = EntryMask("ROUTECACHE_EXIST")
  BY <1>1, <1>2, MasksNamed DEF MasksMatchEntries
<1>9. \A m \in NodeId \ {n} :
        m \in EntryMask("ROUTECACHE_EXIST")' => m \in EntryMask("ROUTECACHE_EXIST")
  BY <1>1, <1>2, <1>7, <1>8, MasksNamed DEF TypeOK
<1>10. ~importError' => ~importError /\ infoOk
                        /\ (n \in mask'["ROUTECACHE_EXIST"] => routeOk)
  BY <1>3
<1> HIDE DEF n
<1>11. QED
  BY <1>1, <1>4, <1>5, <1>6, <1>7, <1>9, <1>10 DEF FilesPresent

LEMMA ExportStep ==
  ASSUME TripInv, ExportNode
  PROVE  ExportProgress'
<1>1. /\ TypeOK /\ FilesPresent /\ ExportProgress /\ MasksMatchEntries
      /\ stage = "export" /\ node_id \in mask["STORAGE_EXIST"]
      /\ node_id' = node_id + 1
  BY DEF TripInv, IInv, StorageOK, ExportNode
<1>2. UNCHANGED <<stage, mask, maskFile, maskKeys, infoFile, infoKeys,
                  routeFile, routeKeys, importError, json>>
  BY DEF ExportNode, nvmVars
<1>3. node_id \in NodeId
  BY <1>1, MasksNamed DEF TypeOK
<1>4. SUFFICES ASSUME ~importError
               PROVE  /\ ~exportError'
                      /\ \A n \in NodeId :
                           out'[n] = IF n < node_id' /\ n \in mask["STORAGE_EXIST"]
                                       THEN ExportedNode(n, InfoAt(n), RouteAt(n))'
                                       ELSE NoNode
  BY <1>1, <1>2 DEF ExportProgress
<1>5. mask["ROUTECACHE_EXIST"] = EntryMask("ROUTECACHE_EXIST")
  BY <1>1, <1>4, MasksNamed DEF ExportProgress, MasksMatchEntries
<1>6. node_id \in mask["ROUTECACHE_EXIST"] => RouteFile(node_id) \in routeKeys
  BY <1>1, <1>3, <1>4, <1>5 DEF FilesPresent
<1>7. ~exportError'
  BY <1>1, <1>4, <1>6 DEF ExportNode, ExportProgress
<1> DEFINE routes == route_cache_buf'[RouteSlot(node_id)]
<1>8. node_id \in mask["ROUTECACHE_EXIST"] => routes = RouteAt(node_id)
  BY <1>6 DEF ExportNode, ReadRoutes, RouteAt
<1>9. out' = [out EXCEPT ![node_id] = ExportedNode(node_id, InfoAt(node_id), routes)]
  BY DEF ExportNode, InfoAt
<1>10. ExportedNode(node_id, InfoAt(node_id), routes)
         = ExportedNode(node_id, InfoAt(node_id), RouteAt(node_id))
  BY <1>8 DEF ExportedNode
<1>11. \A n \in NodeId : ExportedNode(n, InfoAt(n), RouteAt(n))'
                           = ExportedNode(n, InfoAt(n), RouteAt(n))
  BY <1>2 DEF ExportedNode, InfoAt, RouteAt
<1>12. ASSUME NEW n \in NodeId
       PROVE  out'[n] = IF n < node_id' /\ n \in mask["STORAGE_EXIST"]
                          THEN ExportedNode(n, InfoAt(n), RouteAt(n))'
                          ELSE NoNode
  <2>1. out[n] = IF n < node_id /\ n \in mask["STORAGE_EXIST"]
                   THEN ExportedNode(n, InfoAt(n), RouteAt(n))
                   ELSE NoNode
    BY <1>1, <1>4 DEF ExportProgress
  <2>2. CASE n = node_id
    <3>1. n < node_id'
      BY <1>1, <1>3, <2>2 DEF NodeId
    <3>2. out'[n] = ExportedNode(n, InfoAt(n), RouteAt(n))
      BY <1>1, <1>3, <1>9, <1>10, <2>2 DEF TypeOK
    <3>3. QED
      BY <1>1, <1>11, <2>2, <3>1, <3>2
  <2>3. CASE n # node_id
    <3>1. (n < node_id') <=> (n < node_id)
      BY <1>1, <1>3, <2>3, SizesAssumption DEF NodeId
    <3>2. out'[n] = out[n]
      BY <1>1, <1>9, <2>3 DEF TypeOK
    <3>3. QED
      BY <1>11, <2>1, <3>1, <3>2
  <2>4. QED
    BY <2>2, <2>3
<1>13. QED
  BY <1>7, <1>12

LEMMA PassStep ==
  ASSUME TripInv, PassNode
  PROVE  ExportProgress'
<1>1. /\ TypeOK /\ FilesPresent /\ ExportProgress /\ MasksMatchEntries
      /\ stage = "export" /\ node_id \in NodeId
      /\ node_id' = node_id + 1
      /\ exportError' = (exportError \/ node_id \in mask["STORAGE_EXIST"])
  BY DEF TripInv, IInv, StorageOK, PassNode
<1>2. UNCHANGED <<stage, mask, maskFile, maskKeys, infoFile, infoKeys,
                  routeFile, routeKeys, importError, json, out>>
  BY DEF PassNode, nvmVars
<1>3. SUFFICES ASSUME ~importError
               PROVE  /\ ~exportError'
                      /\ \A n \in NodeId :
                           out[n] = IF n < node_id' /\ n \in mask["STORAGE_EXIST"]
                                      THEN ExportedNode(n, InfoAt(n), RouteAt(n))'
                                      ELSE NoNode
  BY <1>1, <1>2 DEF ExportProgress
<1>4. mask["STORAGE_EXIST"] = EntryMask("STORAGE_EXIST")
  BY <1>1, <1>3, MasksNamed DEF ExportProgress, MasksMatchEntries
<1>5. \A n \in EntryMask("STORAGE_EXIST") : InfoFile(n) \in infoKeys
  BY <1>1, <1>3 DEF FilesPresent, EntryMask
<1>6. node_id \notin mask["STORAGE_EXIST"]
  BY <1>4, <1>5 DEF PassNode
<1>7. \A n \in NodeId : ExportedNode(n, InfoAt(n), RouteAt(n))'
                          = ExportedNode(n, InfoAt(n), RouteAt(n))
  BY <1>2 DEF ExportedNode, InfoAt, RouteAt
<1>8. \A n \in NodeId : n # node_id => (n < node_id' <=> n < node_id)
  BY <1>1, SizesAssumption DEF NodeId
<1>9. QED
  BY <1>1, <1>3, <1>6, <1>7, <1>8 DEF ExportProgress

LEMMA InitTrip == Init => TripInv
<1> SUFFICES ASSUME Init PROVE TripInv
  OBVIOUS
<1>1. \A n : Named(n) = {}
  BY DEF Init, Named
<1>2. FilesPresent
  BY <1>1 DEF FilesPresent, EntryMask
<1>3. ExportProgress
  BY DEF Init, ExportProgress
<1>4. QED
  BY <1>2, <1>3, InitContents DEF TripInv

LEMMA NextTrip == TripInv /\ [Next]_vars => TripInv'
<1> SUFFICES ASSUME TripInv, [Next]_vars PROVE TripInv'
  OBVIOUS
<1>1. IInv'
  BY NextContents DEF TripInv
<1>2. CASE \E k \in Key, v \in Node : ImportEntry(k, v)
  <2>1. PICK k \in Key, v \in Node : ImportEntry(k, v)
    BY <1>2
  <2>2. FilesPresent'
    BY <2>1, ImportFiles
  <2>3. ExportProgress'
    BY <2>1 DEF ImportEntry, ExportProgress
  <2>4. QED
    BY <1>1, <2>2, <2>3 DEF TripInv
<1>3. CASE \E k \in Key, v \in Node : SkipEntry(k, v)
  <2>1. PICK k \in Key, v \in Node : SkipEntry(k, v)
    BY <1>3
  <2>2. /\ json' = [json EXCEPT ![k] = v]
        /\ NodeIdOf(k) \notin NodeId /\ json[k] = NoNode /\ stage' = "import"
        /\ UNCHANGED <<infoKeys, routeKeys, importError>>
    BY <2>1 DEF SkipEntry, nvmVars
  <2>3. \A n \in NodeId : Named(n)' = Named(n) /\ \A q \in Named(n) : json'[q] = json[q]
    BY <2>2 DEF TripInv, IInv, StorageOK, TypeOK, Named, NodeIdOf
  <2>4. EntryMask("ROUTECACHE_EXIST")' = EntryMask("ROUTECACHE_EXIST")
    BY <2>3 DEF EntryMask
  <2>5. FilesPresent'
    BY <2>2, <2>3, <2>4 DEF TripInv, FilesPresent
  <2>6. ExportProgress'
    BY <2>2 DEF ExportProgress
  <2>7. QED
    BY <1>1, <2>5, <2>6 DEF TripInv
<1>4. ASSUME UNCHANGED <<json, infoKeys, routeKeys>>, importError => importError'
      PROVE  FilesPresent'
  <2>1. /\ \A n : Named(n)' = Named(n)
        /\ EntryMask("ROUTECACHE_EXIST")' = EntryMask("ROUTECACHE_EXIST")
    BY <1>4 DEF Named, EntryMask
  <2>2. QED
    BY <1>4, <2>1 DEF TripInv, FilesPresent
<1>5. CASE StoreMasks
  <2>1. FilesPresent'
    BY <1>4, <1>5 DEF StoreMasks
  <2>2. ExportProgress'
    BY <1>5 DEF StoreMasks, ExportProgress
  <2>3. QED
    BY <1>1, <2>1, <2>2 DEF TripInv
<1>6. CASE LoadMasks
  <2>1. FilesPresent'
    BY <1>4, <1>6 DEF LoadMasks, nvmVars
  <2>2. /\ stage = "stored" /\ node_id' = 1
        /\ mask' = [m \in Mask |-> IF m \in maskKeys THEN maskFile[m] ELSE {}]
        /\ exportError' = (maskKeys # Mask)
        /\ out' = [n \in NodeId |-> NoNode]
        /\ UNCHANGED <<maskKeys, maskFile, importError>>
    BY <1>6 DEF LoadMasks, nvmVars
  <2>3. ~importError => maskKeys = Mask
    BY <2>2 DEF TripInv, IInv, MasksMatchEntries
  <2>4. \A n \in NodeId : ~(n < 1)
    BY SizesAssumption DEF NodeId
  <2>5. ExportProgress'
    BY <2>2, <2>3, <2>4 DEF ExportProgress
  <2>6. QED
    BY <1>1, <2>1, <2>5 DEF TripInv
<1>7. CASE ExportNode
  <2>1. FilesPresent'
    BY <1>4, <1>7 DEF ExportNode, nvmVars
  <2>2. QED
    BY <1>1, <1>7, <2>1, ExportStep DEF TripInv
<1>8. CASE PassNode
  <2>1. FilesPresent'
    BY <1>4, <1>8 DEF PassNode, nvmVars
  <2>2. QED
    BY <1>1, <1>8, <2>1, PassStep DEF TripInv
<1>9. CASE UNCHANGED vars
  <2>1. FilesPresent'
    BY <1>4, <1>9 DEF vars, nvmVars
  <2>2. ExportProgress'
    BY <1>9 DEF vars, nvmVars, exportVars, TripInv, ExportProgress,
                ExportedNode, InfoAt, RouteAt
  <2>3. QED
    BY <1>1, <2>1, <2>2 DEF TripInv
<1>10. QED
  BY <1>2, <1>3, <1>5, <1>6, <1>7, <1>8, <1>9 DEF Next

(* A node named by one entry comes out of the tables as Restored says.     *)
LEMMA ExportedIsRestored ==
  ASSUME NEW n \in NodeId, NEW v \in Node,
         \A m \in Mask : n \in mask[m] <=> m \in MasksOf(v)
  PROVE  ExportedNode(n, ParsedInfo(v), ParsedRoute(BlankRoute, v)) = Restored(v)
<1>1. v \in NodeRecord
  BY NodeIsRecord
<1>2. /\ n \in mask["BRIDGE_NODE"] <=> v.isVirtual
      /\ n \in mask["ROUTE_SLAVE_SUC"] <=> v.routeSlaveSuc
      /\ n \in mask["APP_ROUTE_LOCK"] <=> v.appRouteLock
      /\ n \in mask["ROUTECACHE_EXIST"] <=> HasRoute(v)
      /\ n \notin mask["SUC_PENDING_UPDATE"]
      /\ n \notin mask["PENDING_DISCOVERY"]
  BY MasksNamed DEF MasksOf
<1>3. /\ (n \in mask["BRIDGE_NODE"]) = v.isVirtual
      /\ (n \in mask["ROUTE_SLAVE_SUC"]) = v.routeSlaveSuc
      /\ (n \in mask["APP_ROUTE_LOCK"]) = v.appRouteLock
      /\ (n \in mask["SUC_PENDING_UPDATE"]) = FALSE
      /\ (n \in mask["PENDING_DISCOVERY"]) = FALSE
  BY <1>1, <1>2 DEF NodeRecord
<1>4. /\ ReportedWakeup(ParsedInfo(v).wakeup) = ParsedWakeup(v.wakeup)
       /\ ParsedInfo(v).device = v.device
  BY InputAssumption DEF ReportedWakeup, ParsedInfo, ParsedWakeup, Wakeup
<1>5. ExportedNode(n, ParsedInfo(v), ParsedRoute(BlankRoute, v)) =
        [wakeup |-> ParsedWakeup(v.wakeup), device |-> v.device,
         isVirtual |-> v.isVirtual, routeSlaveSuc |-> v.routeSlaveSuc,
         appRouteLock |-> v.appRouteLock,
         sucPendingUpdate |-> FALSE, pendingDiscovery |-> FALSE,
         lwr |-> IF HasRoute(v) /\ v.lwr = NoLine THEN Blank ELSE v.lwr,
         nlwr |-> IF HasRoute(v) /\ v.nlwr = NoLine THEN Blank ELSE v.nlwr]
  BY <1>2, <1>3, <1>4 DEF ExportedNode, ParsedRoute, BlankRoute, HasRoute
<1>6. QED
  BY <1>5 DEF Restored

(* The round trip, for every format, geometry and order of the entries: if *)
(* the importer met no write error, the exporter reports exactly the nodes *)
(* that entries name, each as its entry describes it up to Restored, and   *)
(* raises no error (parse_node_table_json then node_table_to_json).        *)
THEOREM RoundTripHolds == Spec => []RoundTrip
<1>1. Init => TripInv
  BY InitTrip
<1>2. TripInv /\ [Next]_vars => TripInv'
  BY NextTrip
<1>3. TripInv => RoundTrip
  <2> SUFFICES ASSUME TripInv, Exported, ~importError
               PROVE  /\ ~exportError
                      /\ \A n \in NodeId :
                           /\ (out[n] = NoNode) <=> (Named(n) = {})
                           /\ \A k \in Named(n) : Named(n) = {k} => out[n] = Restored(json[k])
    BY DEF RoundTrip
  <2>1. /\ TypeOK /\ UniqueEntriesStored /\ MasksMatchEntries /\ ExportProgress
        /\ SlotsHoldOwnNode
        /\ stage = "export" /\ node_id = MaxNode + 1
    BY DEF TripInv, IInv, StorageOK, Exported
  <2>2. /\ ~exportError
        /\ \A m \in Mask : mask[m] = EntryMask(m)
    BY <2>1 DEF ExportProgress, MasksMatchEntries
  <2>3. ASSUME NEW n \in NodeId
        PROVE  /\ (out[n] = NoNode) <=> (Named(n) = {})
               /\ \A k \in Named(n) : Named(n) = {k} => out[n] = Restored(json[k])
    <3>1. n < node_id
      BY <2>1, SizesAssumption DEF NodeId
    <3>2. out[n] = IF n \in mask["STORAGE_EXIST"]
                     THEN ExportedNode(n, InfoAt(n), RouteAt(n)) ELSE NoNode
      BY <2>1, <3>1 DEF ExportProgress
    <3>3. n \in mask["STORAGE_EXIST"] <=> Named(n) # {}
      <4>1. \A k \in Named(n) : "STORAGE_EXIST" \in MasksOf(json[k])
        BY DEF MasksOf
      <4>2. mask["STORAGE_EXIST"] = EntryMask("STORAGE_EXIST")
        BY <2>2, MasksNamed
      <4>3. QED
        BY <4>1, <4>2 DEF EntryMask
    <3>4. InfoAt(n) \in InfoRecord /\ RouteAt(n) \in RouteRecord
      BY <2>1, InfoPlace, RoutePlace DEF TypeOK, InfoAt, RouteAt
    <3>5. (out[n] = NoNode) <=> (Named(n) = {})
      BY <3>2, <3>3, <3>4, ExportedType, InputAssumption
    <3>6. ASSUME NEW k \in Named(n), Named(n) = {k}
          PROVE  out[n] = Restored(json[k])
      <4>1. json[k] \in Node
        BY <2>1 DEF TypeOK, Named
      <4>2. InfoAt(n) = ParsedInfo(json[k])
        BY <2>1, <3>6 DEF UniqueEntriesStored
      <4>3. \A m \in Mask : n \in mask[m] <=> m \in MasksOf(json[k])
        BY <2>2, <3>6 DEF EntryMask
      <4>4. RouteAt(n) = ParsedRoute(BlankRoute, json[k])
        <5>1. CASE HasRoute(json[k])
          BY <2>1, <3>6, <5>1 DEF UniqueEntriesStored
        <5>2. CASE ~HasRoute(json[k])
          <6>1. RouteAt(n).lwr \in {Blank, NoLine} /\ RouteAt(n).nlwr \in {Blank, NoLine}
            BY <2>1, <3>6, <5>2 DEF SlotsHoldOwnNode, HasRoute
          <6>2. RouteAt(n) = BlankRoute
            BY <3>4, <6>1, InputAssumption DEF RouteRecord, BlankRoute
          <6>3. QED
            BY <5>2, <6>2 DEF HasRoute, ParsedRoute, BlankRoute
        <5>3. QED
          BY <5>1, <5>2
      <4>5. QED
        BY <3>2, <3>3, <4>1, <4>2, <4>3, <4>4, ExportedIsRestored
    <3>7. QED
      BY <3>5, <3>6
  <2>4. QED
    BY <2>2, <2>3
<1>4. QED
  BY <1>1, <1>2, <1>3, PTL DEF Spec

(* ------------------------ what an export leaves out --------------------- *)

(* Why the turn for node n raises the exporter's error flag.               *)
Unreadable(n) ==
  \/ InfoFile(n) \notin infoKeys
  \/ /\ Format = 0
     /\ n \in mask["ROUTECACHE_EXIST"]
     /\ RouteFile(n) \notin routeKeys

(* The route buffer holds the last route file read below node_id, or what  *)
(* it was initialised with.  The file is named by the greatest node it was *)
(* read for, the one RouteSource chooses: that there is one is part of the *)
(* invariant.                                                              *)
BufferSource ==
  \/ /\ LastRouteFileRead(node_id) = {}
     /\ route_cache_buf = [s \in RouteSlots |-> BlankRoute]
  \/ \E p \in LastRouteFileRead(node_id) :
       /\ \A q \in LastRouteFileRead(node_id) : q <= p
       /\ route_cache_buf = routeFile[RouteFile(p)]

(* The exporter's pass, whatever failed before it: which of the numbers    *)
(* below node_id are in the JSON, why the error flag is up, where the      *)
(* buffer and the routes come from.                                        *)
ReportProgress ==
  stage = "export" =>
    /\ \A n \in NodeId :
         out[n] # NoNode <=> /\ n < node_id
                             /\ n \in mask["STORAGE_EXIST"]
                             /\ InfoFile(n) \in infoKeys
    /\ exportError <=>
         \/ maskKeys # Mask
         \/ \E n \in mask["STORAGE_EXIST"] : n < node_id /\ Unreadable(n)
    /\ BufferSource
    /\ ExportedRoutesHaveSource

ReportInv == StorageOK /\ ReportProgress

LEMMA InitReport == Init => ReportInv
BY InitTypes DEF Init, ReportInv, ReportProgress

(* At the start of the pass nothing is in the JSON, and only a mask that   *)
(* could not be read has raised the flag.                                  *)
LEMMA LoadReport ==
  ASSUME ReportInv, LoadMasks
  PROVE  ReportProgress'
<1>1. /\ stage' = "export" /\ node_id' = 1
      /\ exportError' = (maskKeys # Mask)
      /\ route_cache_buf' = [s \in RouteSlots |-> BlankRoute]
      /\ out' = [n \in NodeId |-> NoNode]
      /\ UNCHANGED maskKeys
  BY DEF LoadMasks, nvmVars
<1>2. mask' \in [Mask -> SUBSET NodeId]
  BY NextTypes DEF ReportInv, StorageOK, TypeOK, Next
<1>3. \A n \in NodeId : ~(n < 1)
  BY SizesAssumption DEF NodeId
<1>4. \A n \in NodeId : out'[n] = NoNode
  BY <1>1
<1>5. mask'["STORAGE_EXIST"] \subseteq NodeId
  BY <1>2, MasksNamed
<1>6. exportError' <=>
         \/ maskKeys' # Mask
         \/ \E n \in mask'["STORAGE_EXIST"] : n < node_id' /\ Unreadable(n)'
  BY <1>1, <1>3, <1>5
<1>7. BufferSource'
  BY <1>1 DEF BufferSource, LastRouteFileRead
<1>8. ExportedRoutesHaveSource'
  BY <1>4 DEF ExportedRoutesHaveSource
<1>9. QED
  BY <1>1, <1>3, <1>4, <1>6, <1>7, <1>8 DEF ReportProgress

(* The node whose file the buffer holds.                                   *)
Greatest(S) == CHOOSE p \in S : \A q \in S : q <= p

LEMMA SourceByGreatest ==
  \A n : RouteSource(n) =
    IF RouteFile(n) \in routeKeys THEN RouteAt(n)
    ELSE IF LastRouteFileRead(n) = {} THEN BlankRoute
    ELSE routeFile[RouteFile(Greatest(LastRouteFileRead(n)))][RouteSlot(n)]
BY DEF RouteSource, Greatest

(* A turn of the pass leaves the lower numbers alone, so that the files    *)
(* read for them stay what they were.                                      *)
LEMMA SourcesKept ==
  ASSUME ReportInv, stage = "export", node_id \in NodeId,
         UNCHANGED <<mask, routeFile, routeKeys>>,
         NEW x, \/ out' = out
                \/ out' = [out EXCEPT ![node_id] = x]
  PROVE  \A n \in 1 .. node_id :
           /\ LastRouteFileRead(n)' = LastRouteFileRead(n)
           /\ RouteSource(n)' = RouteSource(n)
<1>1. out \in [NodeId -> ExportedRecord \cup {NoNode}]
  BY DEF ReportInv, StorageOK, TypeOK
<1>2. ASSUME NEW n \in 1 .. node_id
      PROVE  LastRouteFileRead(n)' = LastRouteFileRead(n)
  <2>1. \A p \in 1 .. n - 1 : p \in NodeId /\ p # node_id
    BY SizesAssumption DEF NodeId
  <2>2. \A p \in 1 .. n - 1 : out'[p] = out[p]
    BY <1>1, <2>1
  <2>3. QED
    BY <2>2 DEF LastRouteFileRead
<1>3. ASSUME NEW n \in 1 .. node_id
      PROVE  RouteSource(n)' = RouteSource(n)
  <2>1. Greatest(LastRouteFileRead(n))' = Greatest(LastRouteFileRead(n))
    BY <1>2
  <2>2. RouteSource(n)' =
          IF RouteFile(n) \in routeKeys' THEN RouteAt(n)'
          ELSE IF LastRouteFileRead(n)' = {} THEN BlankRoute
          ELSE routeFile'[RouteFile(Greatest(LastRouteFileRead(n))')][RouteSlot(n)]
    BY DEF RouteSource, Greatest
  <2>3. QED
    BY <1>2, <2>1, <2>2, SourceByGreatest DEF RouteAt
<1>4. QED
  BY <1>2, <1>3

(* Where the route of the node of this turn comes from.                    *)
LEMMA TurnSource ==
  ASSUME ReportInv, stage = "export", node_id \in NodeId
  PROVE  ReadRoutes(node_id)[RouteSlot(node_id)] = RouteSource(node_id)
<1>1. RouteSlot(node_id) \in RouteSlots
  BY RoutePlace
<1>2. CASE RouteFile(node_id) \in routeKeys
  BY <1>2 DEF ReadRoutes, RouteSource, RouteAt
<1>3. CASE RouteFile(node_id) \notin routeKeys
  <2> DEFINE read == LastRouteFileRead(node_id)
             greatest == CHOOSE p \in read : \A q \in read : q <= p
  <2>1. BufferSource
    BY DEF ReportInv, ReportProgress
  <2>2. CASE read = {} /\ route_cache_buf = [s \in RouteSlots |-> BlankRoute]
    BY <1>1, <1>3, <2>2 DEF ReadRoutes, RouteSource
  <2>3. CASE \E p \in read : /\ \A q \in read : q <= p
                             /\ route_cache_buf = routeFile[RouteFile(p)]
    <3>1. PICK p \in read : /\ \A q \in read : q <= p
                           /\ route_cache_buf = routeFile[RouteFile(p)]
      BY <2>3
    <3>2. read \subseteq Int
      BY DEF LastRouteFileRead
    <3>3. greatest \in read /\ \A q \in read : q <= greatest
      BY <3>1
    <3>4. greatest = p
      <4> HIDE DEF read, greatest
      <4>1. QED
        BY <3>1, <3>2, <3>3
    <3>5. RouteSource(node_id) = routeFile[RouteFile(greatest)][RouteSlot(node_id)]
      BY <1>3, <3>1 DEF RouteSource
    <3>6. QED
      BY <1>3, <3>1, <3>4, <3>5 DEF ReadRoutes
  <2>4. QED
    BY <2>1, <2>2, <2>3 DEF BufferSource
<1>4. QED
  BY <1>2, <1>3

LEMMA ExportReport ==
  ASSUME ReportInv, ExportNode
  PROVE  ReportProgress'
<1> DEFINE n0 == node_id
           routes == route_cache_buf'[RouteSlot(n0)]
<1>1. /\ StorageOK /\ TypeOK /\ ReportProgress
      /\ stage = "export" /\ stage' = "export"
      /\ n0 \in mask["STORAGE_EXIST"] /\ InfoFile(n0) \in infoKeys
      /\ node_id' = node_id + 1
      /\ UNCHANGED <<mask, maskKeys, infoFile, infoKeys, routeFile, routeKeys>>
  BY DEF ReportInv, StorageOK, ExportNode, nvmVars
<1>2. n0 \in NodeId /\ mask["STORAGE_EXIST"] \subseteq NodeId
  BY <1>1, MasksNamed DEF TypeOK
<1>3. out' = [out EXCEPT ![n0] = ExportedNode(n0, InfoAt(n0), routes)]
  BY DEF ExportNode, InfoAt
<1>4. /\ out'[n0] = ExportedNode(n0, InfoAt(n0), routes)
      /\ \A n \in NodeId \ {n0} : out'[n] = out[n]
  BY <1>1, <1>2, <1>3 DEF TypeOK
<1>5. /\ InfoAt(n0) \in InfoRecord
      /\ routes \in RouteRecord
  <2>1. StorageOK'
    BY <1>1, NextTypes DEF Next
  <2>2. QED
    BY <1>1, <1>2, <2>1, InfoPlace, RoutePlace DEF StorageOK, TypeOK, InfoAt
<1>6. out'[n0] # NoNode
  BY <1>4, <1>5, ExportedType, InputAssumption
<1>7. \A n \in NodeId : n < node_id' <=> (n < n0 \/ n = n0)
  BY <1>1, <1>2, SizesAssumption DEF NodeId
<1>8. \A n \in 1 .. n0 : /\ LastRouteFileRead(n)' = LastRouteFileRead(n)
                         /\ RouteSource(n)' = RouteSource(n)
  BY <1>1, <1>2, <1>3, SourcesKept
<1>9. \A n \in NodeId :
        out'[n] # NoNode <=> /\ n < node_id'
                             /\ n \in mask'["STORAGE_EXIST"]
                             /\ InfoFile(n) \in infoKeys'
  <2>1. \A n \in NodeId : out[n] # NoNode <=> /\ n < n0
                                             /\ n \in mask["STORAGE_EXIST"]
                                             /\ InfoFile(n) \in infoKeys
    BY <1>1 DEF ReportProgress
  <2> HIDE DEF n0
  <2>2. QED
    BY <1>1, <1>2, <1>4, <1>6, <1>7, <2>1
<1>10. exportError' <=>
         \/ maskKeys' # Mask
         \/ \E n \in mask'["STORAGE_EXIST"] : n < node_id' /\ Unreadable(n)'
  <2>1. exportError <=>
         \/ maskKeys # Mask
         \/ \E n \in mask["STORAGE_EXIST"] : n < n0 /\ Unreadable(n)
    BY <1>1 DEF ReportProgress
  <2>2. exportError' <=> exportError \/ Unreadable(n0)
    BY <1>1 DEF ExportNode, Unreadable
  <2>3. \A n : Unreadable(n)' <=> Unreadable(n)
    BY <1>1 DEF Unreadable
  <2> HIDE DEF n0
  <2>4. QED
    BY <1>1, <1>2, <1>7, <2>1, <2>2, <2>3
<1>11. BufferSource'
  <2>1. BufferSource
    BY <1>1 DEF ReportProgress
  <2>2. CASE n0 \in mask["ROUTECACHE_EXIST"] /\ RouteFile(n0) \in routeKeys
    <3>1. route_cache_buf' = routeFile[RouteFile(n0)]
      BY <2>2 DEF ExportNode, ReadRoutes
    <3>2. n0 \in LastRouteFileRead(node_id)'
      BY <1>1, <1>2, <1>6, <2>2, SizesAssumption DEF LastRouteFileRead, NodeId
    <3>3. \A q \in LastRouteFileRead(node_id)' : q <= n0
      BY <1>1, <1>2, SizesAssumption DEF LastRouteFileRead, NodeId
    <3>4. QED
      BY <1>1, <3>1, <3>2, <3>3 DEF BufferSource
  <2>3. CASE ~(n0 \in mask["ROUTECACHE_EXIST"] /\ RouteFile(n0) \in routeKeys)
    <3>1. route_cache_buf' = route_cache_buf
      BY <2>3 DEF ExportNode, ReadRoutes
    <3>2. LastRouteFileRead(node_id)' = LastRouteFileRead(node_id)
      <4>1. 1 .. node_id' - 1 = (1 .. node_id - 1) \cup {n0}
        BY <1>1, <1>2, SizesAssumption DEF NodeId
      <4>2. \A p \in 1 .. node_id - 1 : out'[p] = out[p]
        BY <1>2, <1>4, SizesAssumption DEF NodeId
      <4>3. QED
        BY <1>1, <2>3, <4>1, <4>2 DEF LastRouteFileRead
    <3>3. QED
      BY <1>1, <2>1, <3>1, <3>2 DEF BufferSource
  <2>4. QED
    BY <2>2, <2>3
<1>12. ExportedRoutesHaveSource'
  <2> SUFFICES ASSUME NEW n \in NodeId, out'[n] # NoNode
               PROVE  [lwr |-> out'[n].lwr, nlwr |-> out'[n].nlwr] =
                        IF n \in mask["ROUTECACHE_EXIST"]
                          THEN RouteSource(n)'
                          ELSE [lwr |-> NoLine, nlwr |-> NoLine]
    BY <1>1 DEF ExportedRoutesHaveSource
  <2>1. n \in 1 .. n0
    BY <1>2, <1>7, <1>9, SizesAssumption DEF NodeId
  <2>2. RouteSource(n)' = RouteSource(n)
    BY <1>8, <2>1
  <2>3. CASE n # n0
    <3>1. out'[n] = out[n]
      BY <1>4, <2>3
    <3>2. [lwr |-> out[n].lwr, nlwr |-> out[n].nlwr] =
             IF n \in mask["ROUTECACHE_EXIST"]
               THEN RouteSource(n)
               ELSE [lwr |-> NoLine, nlwr |-> NoLine]
      BY <1>1, <3>1 DEF ReportProgress, ExportedRoutesHaveSource
    <3>3. QED
      BY <2>2, <3>1, <3>2
  <2>4. CASE n = n0
    <3>1. CASE n0 \in mask["ROUTECACHE_EXIST"]
      <4>1. routes = RouteSource(n0)
        BY <1>1, <1>2, <3>1, TurnSource DEF ExportNode
      <4>2. out'[n0].lwr = routes.lwr /\ out'[n0].nlwr = routes.nlwr
        BY <1>4, <3>1 DEF ExportedNode
      <4>3. routes = [lwr |-> routes.lwr, nlwr |-> routes.nlwr]
        BY <1>5 DEF RouteRecord
      <4>4. QED
        BY <2>2, <2>4, <3>1, <4>1, <4>2, <4>3
    <3>2. CASE n0 \notin mask["ROUTECACHE_EXIST"]
      <4>1. out'[n0].lwr = NoLine /\ out'[n0].nlwr = NoLine
        BY <1>4, <3>2 DEF ExportedNode
      <4>2. QED
        BY <2>4, <3>2, <4>1
    <3>3. QED
      BY <3>1, <3>2
  <2>5. QED
    BY <2>3, <2>4
<1>13. QED
  BY <1>1, <1>9, <1>10, <1>11, <1>12 DEF ReportProgress

LEMMA PassReport ==
  ASSUME ReportInv, PassNode
  PROVE  ReportProgress'
<1>1. /\ StorageOK /\ TypeOK /\ ReportProgress
      /\ stage = "export" /\ stage' = "export"
      /\ node_id \in NodeId
      /\ node_id \notin mask["STORAGE_EXIST"] \/ InfoFile(node_id) \notin infoKeys
      /\ exportError' = (exportError \/ node_id \in mask["STORAGE_EXIST"])
      /\ node_id' = node_id + 1
      /\ UNCHANGED <<mask, maskKeys, infoFile, infoKeys, routeFile, routeKeys>>
      /\ UNCHANGED <<out, route_cache_buf>>
  BY DEF ReportInv, StorageOK, PassNode, nvmVars
<1>2. mask["STORAGE_EXIST"] \subseteq NodeId
  BY <1>1, MasksNamed DEF TypeOK
<1>3. \A n \in NodeId : n < node_id' <=> (n < node_id \/ n = node_id)
  BY <1>1, SizesAssumption DEF NodeId
<1>4. \A n \in 1 .. node_id : /\ LastRouteFileRead(n)' = LastRouteFileRead(n)
                              /\ RouteSource(n)' = RouteSource(n)
  BY <1>1, SourcesKept
<1>5. \A n \in NodeId :
         out[n] # NoNode <=> /\ n < node_id
                             /\ n \in mask["STORAGE_EXIST"]
                             /\ InfoFile(n) \in infoKeys
  BY <1>1 DEF ReportProgress
<1>6. \A n \in NodeId :
         out'[n] # NoNode <=> /\ n < node_id'
                              /\ n \in mask'["STORAGE_EXIST"]
                              /\ InfoFile(n) \in infoKeys'
  BY <1>1, <1>3, <1>5
<1>7. exportError' <=>
         \/ maskKeys' # Mask
         \/ \E n \in mask'["STORAGE_EXIST"] : n < node_id' /\ Unreadable(n)'
  <2>1. exportError <=>
         \/ maskKeys # Mask
         \/ \E n \in mask["STORAGE_EXIST"] : n < node_id /\ Unreadable(n)
    BY <1>1 DEF ReportProgress
  <2>2. \A n : Unreadable(n)' <=> Unreadable(n)
    BY <1>1 DEF Unreadable
  <2>3. node_id \in mask["STORAGE_EXIST"] => Unreadable(node_id)
    BY <1>1 DEF Unreadable
  <2>4. QED
    BY <1>1, <1>2, <1>3, <2>1, <2>2, <2>3
<1>8. BufferSource'
  <2>1. LastRouteFileRead(node_id)' = LastRouteFileRead(node_id)
    <3>1. 1 .. node_id' - 1 = (1 .. node_id - 1) \cup {node_id}
      BY <1>1, SizesAssumption DEF NodeId
    <3>2. out[node_id] = NoNode
      BY <1>1, <1>5
    <3>3. QED
      BY <1>1, <3>1, <3>2 DEF LastRouteFileRead
  <2>2. QED
    BY <1>1, <2>1 DEF ReportProgress, BufferSource
<1>9. ExportedRoutesHaveSource'
  <2>1. \A n \in NodeId : out[n] # NoNode => n \in 1 .. node_id
    BY <1>1, <1>5, SizesAssumption DEF NodeId
  <2>2. QED
    BY <1>1, <1>4, <2>1 DEF ReportProgress, ExportedRoutesHaveSource
<1>10. QED
  BY <1>1, <1>6, <1>7, <1>8, <1>9 DEF ReportProgress

LEMMA NextReport == ReportInv /\ [Next]_vars => ReportInv'
<1> SUFFICES ASSUME ReportInv, [Next]_vars PROVE ReportProgress'
  BY NextTypes DEF ReportInv
<1>1. CASE \E k \in Key, v \in Node : ImportEntry(k, v) \/ SkipEntry(k, v)
  BY <1>1 DEF ImportEntry, SkipEntry, ReportProgress
<1>2. CASE StoreMasks
  BY <1>2 DEF StoreMasks, ReportProgress
<1>3. CASE LoadMasks
  BY <1>3, LoadReport
<1>4. CASE ExportNode
  BY <1>4, ExportReport
<1>5. CASE PassNode
  BY <1>5, PassReport
<1>6. CASE UNCHANGED vars
  <2>1. ReportProgress' <=> ReportProgress
    BY <1>6 DEF vars, nvmVars, exportVars, ReportProgress, Unreadable,
                BufferSource, LastRouteFileRead, ExportedRoutesHaveSource,
                RouteSource, RouteAt
  <2>2. QED
    BY <2>1 DEF ReportInv
<1>7. QED
  BY <1>1, <1>2, <1>3, <1>4, <1>5, <1>6 DEF Next

(* Whatever writes failed and whatever files are missing: when the pass is *)
(* over, the JSON has exactly the nodes of STORAGE_EXIST whose files       *)
(* exist, and the error flag is up exactly if a mask was unreadable, a     *)
(* node was dropped or, in format 0, its routes were                       *)
(* (node_table_to_json, controller_nvm.c:1208-1290).                       *)
THEOREM DropsReported == Spec => []DroppedNodesReported
<1>1. ReportInv => DroppedNodesReported
  <2> SUFFICES ASSUME ReportInv, Exported
               PROVE  /\ {n \in NodeId : out[n] # NoNode}
                           = {n \in mask["STORAGE_EXIST"] : InfoFile(n) \in infoKeys}
                      /\ exportError <=>
                           \/ maskKeys # Mask
                           \/ \E n \in mask["STORAGE_EXIST"] : Unreadable(n)
    BY DEF DroppedNodesReported, Unreadable
  <2>1. mask["STORAGE_EXIST"] \subseteq NodeId
    BY MasksNamed DEF ReportInv, StorageOK, TypeOK
  <2>2. \A n \in NodeId : n < node_id
    BY SizesAssumption DEF Exported, NodeId
  <2>3. QED
    BY <2>1, <2>2 DEF ReportInv, ReportProgress, Exported
<1>2. QED
  BY InitReport, NextReport, <1>1, PTL DEF Spec

(* An exported route is the node's own, or, when its route file is missing,*)
(* the same slot of the last route file the pass read before, or unwritten *)
(* bytes: the buffer is not cleared between nodes and the result of its    *)
(* read is not looked at (controller_nvm.c:1258-1262).                     *)
THEOREM RoutesHaveSource == Spec => []ExportedRoutesHaveSource
<1>1. ReportInv => ExportedRoutesHaveSource
  BY DEF ReportInv, ReportProgress, ExportedRoutesHaveSource
<1>2. QED
  BY InitReport, NextReport, <1>1, PTL DEF Spec

(* ----------------------- the map the table implements ------------------- *)

(* Two keys of the object name one node.  In format 0 the second entry     *)
(* starts from a blank record, and the map's merging does not describe it. *)
KeysApart ==
  \A p, q \in Key :
    NodeIdOf(p) = NodeIdOf(q) /\ NodeIdOf(p) \in NodeId => p = q

(* Without write errors a node that an entry names has a description, also *)
(* if several entries name it.                                             *)
Described ==
  ~importError => \A n \in NodeId : Named(n) # {} => InfoAt(n).wakeup # Blank

MapInv == TripInv /\ ~importError /\ Described

LEMMA InitMap == Init => MapInv
<1> SUFFICES ASSUME Init PROVE MapInv
  OBVIOUS
<1>1. \A n : Named(n) = {}
  BY DEF Init, Named
<1>2. QED
  BY <1>1, InitTrip DEF Init, MapInv, Described

LEMMA NextMap ==
  ASSUME ~WritesMayFail, MapInv, [Next]_vars
  PROVE  MapInv'
<1>1. TripInv'
  BY NextTrip DEF MapInv
<1>2. CASE \E k \in Key, v \in Node : ImportEntry(k, v)
  <2>1. PICK k \in Key, v \in Node : ImportEntry(k, v)
    BY <1>2
  <2> DEFINE n == NodeIdOf(k)
  <2>2. /\ TypeOK /\ AbsentFilesBlank /\ n \in NodeId
        /\ json[k] = NoNode
        /\ json' = [json EXCEPT ![k] = v]
    BY <2>1 DEF MapInv, TripInv, IInv, StorageOK, ImportEntry
  <2>3. WriteInfo(n, v, TRUE) /\ ~importError'
    BY <2>1 DEF ImportEntry, WriteResult, MapInv
  <2>4. /\ InfoAt(n)' = ParsedInfo(v)
        /\ \A m \in NodeId \ {n} : InfoAt(m)' = InfoAt(m)
    BY <2>2, <2>3, InfoWritten
  <2>5. \A m \in NodeId \ {n} : Named(m)' = Named(m)
    BY <2>2, NamedGrows
  <2>6. ParsedInfo(v).wakeup # Blank
    BY NodeIsRecord, InputAssumption
       DEF ParsedInfo, ParsedWakeup, NodeRecord, Wakeup
  <2> HIDE DEF n
  <2>7. Described'
    BY <2>2, <2>4, <2>5, <2>6 DEF MapInv, Described
  <2>8. QED
    BY <1>1, <2>3, <2>7 DEF MapInv
<1>3. CASE \E k \in Key, v \in Node : SkipEntry(k, v)
  <2>1. PICK k \in Key, v \in Node : SkipEntry(k, v)
    BY <1>3
  <2>2. /\ json' = [json EXCEPT ![k] = v]
        /\ json[k] = NoNode /\ NodeIdOf(k) \notin NodeId
        /\ UNCHANGED <<infoFile, importError>>
    BY <2>1 DEF SkipEntry, nvmVars
  <2>3. \A n \in NodeId : Named(n)' = Named(n)
    BY <2>2 DEF MapInv, TripInv, IInv, StorageOK, TypeOK, Named, NodeIdOf
  <2>4. QED
    BY <1>1, <2>2, <2>3 DEF MapInv, Described, InfoAt
<1>4. CASE UNCHANGED <<json, infoFile, importError>>
  BY <1>1, <1>4 DEF MapInv, Described, Named, InfoAt
<1>5. CASE StoreMasks
  <2>1. UNCHANGED <<json, infoFile, importError>>
    BY <1>5 DEF StoreMasks, MapInv, TripInv, IInv, StorageOK, TypeOK
  <2>2. QED
    BY <1>4, <2>1
<1>6. CASE LoadMasks \/ ExportNode \/ PassNode \/ UNCHANGED vars
  <2>1. UNCHANGED <<json, infoFile, importError>>
    BY <1>6 DEF LoadMasks, ExportNode, PassNode, vars, nvmVars
  <2>2. QED
    BY <1>4, <2>1
<1>7. QED
  BY <1>2, <1>3, <1>5, <1>6 DEF Next

(* Without write errors the masks, wherever they are, are the entries'.    *)
LEMMA HeldMasks ==
  ASSUME MapInv, NEW m \in Mask
  PROVE  HeldMask(m) = EntryMask(m)
BY DEF MapInv, TripInv, IInv, StorageOK, TypeOK, MasksMatchEntries, HeldMask

(* A node is in the map if and only if an entry names it.                  *)
LEMMA HeldIfNamed ==
  ASSUME MapInv, NEW n \in NodeId
  PROVE  /\ n \in HeldMask("STORAGE_EXIST") <=> Named(n) # {}
         /\ (HeldNode(n) = NoNode) <=> (Named(n) = {})
<1>1. n \in HeldMask("STORAGE_EXIST") <=> Named(n) # {}
  <2>1. \A k \in Named(n) : "STORAGE_EXIST" \in MasksOf(json[k])
    BY DEF MasksOf
  <2>2. HeldMask("STORAGE_EXIST") = EntryMask("STORAGE_EXIST")
    BY HeldMasks, MasksNamed
  <2>3. QED
    BY <2>1, <2>2 DEF EntryMask
<1>2. CASE Named(n) # {}
  <2>1. /\ InfoAt(n) \in InfoRecord /\ RouteAt(n) \in RouteRecord
        /\ InfoAt(n).wakeup # Blank
    BY <1>2, InfoPlace, RoutePlace
       DEF MapInv, Described, TripInv, IInv, StorageOK, TypeOK, InfoAt, RouteAt
  <2>2. HeldNode(n) \in ExportedRecord
    BY <1>1, <1>2, <2>1 DEF HeldNode, ExportedRecord, InfoRecord, RouteRecord
  <2>3. QED
    BY <1>1, <1>2, <2>2, InputAssumption
<1>3. QED
  BY <1>1, <1>2 DEF HeldNode

(* A step that leaves the entries, the tables and the masks of the entries *)
(* alone shows no change of the map.                                       *)
LEMMA MapKept ==
  ASSUME MapInv, MapInv', NEW n \in NodeId,
         \A m \in Mask : n \in EntryMask(m)' <=> n \in EntryMask(m),
         InfoAt(n)' = InfoAt(n), RouteAt(n)' = RouteAt(n)
  PROVE  HeldNode(n)' = HeldNode(n)
<1>1. ASSUME NEW m \in Mask
      PROVE  (n \in HeldMask(m))' = (n \in HeldMask(m))
  <2>1. HeldMask(m) = EntryMask(m)
    BY HeldMasks
  <2>2. HeldMask(m)' = EntryMask(m)'
    BY <1>1 DEF MapInv, TripInv, IInv, StorageOK, TypeOK, MasksMatchEntries, HeldMask
  <2>3. QED
    BY <2>1, <2>2
<1>2. QED
  BY <1>1, MasksNamed DEF HeldNode

(* What a named node is in the map, said of the entries and the tables.    *)
LEMMA HeldRecord ==
  ASSUME MapInv, NEW n \in NodeId, Named(n) # {}
  PROVE  HeldNode(n) =
    [wakeup |-> InfoAt(n).wakeup, device |-> InfoAt(n).device,
     isVirtual |-> n \in EntryMask("BRIDGE_NODE"),
     routeSlaveSuc |-> n \in EntryMask("ROUTE_SLAVE_SUC"),
     appRouteLock |-> n \in EntryMask("APP_ROUTE_LOCK"),
     sucPendingUpdate |-> FALSE, pendingDiscovery |-> FALSE,
     lwr |-> IF n \in EntryMask("ROUTECACHE_EXIST") THEN RouteAt(n).lwr ELSE NoLine,
     nlwr |-> IF n \in EntryMask("ROUTECACHE_EXIST") THEN RouteAt(n).nlwr ELSE NoLine]
<1>1. n \in HeldMask("STORAGE_EXIST")
  BY HeldIfNamed
<1>2. \A m \in Mask : HeldMask(m) = EntryMask(m)
  BY HeldMasks
<1>3. /\ (n \in HeldMask("SUC_PENDING_UPDATE")) = FALSE
      /\ (n \in HeldMask("PENDING_DISCOVERY")) = FALSE
  BY <1>2, MasksNamed DEF EntryMask, MasksOf
<1>4. /\ HeldMask("BRIDGE_NODE") = EntryMask("BRIDGE_NODE")
      /\ HeldMask("ROUTE_SLAVE_SUC") = EntryMask("ROUTE_SLAVE_SUC")
      /\ HeldMask("APP_ROUTE_LOCK") = EntryMask("APP_ROUTE_LOCK")
      /\ HeldMask("ROUTECACHE_EXIST") = EntryMask("ROUTECACHE_EXIST")
  BY <1>2, MasksNamed
<1>5. QED
  BY <1>1, <1>3, <1>4 DEF HeldNode

(* An entry takes effect as the map's Put does: Merged with what earlier   *)
(* entries left of its node.                                               *)
LEMMA ImportPuts ==
  ASSUME ~WritesMayFail, Format > 0 \/ KeysApart, MapInv, MapInv',
         NEW k \in Key, NEW v \in Node, ImportEntry(k, v)
  PROVE  /\ \A m \in NodeId \ {NodeIdOf(k)} : HeldNode(m)' = HeldNode(m)
         /\ HeldNode(NodeIdOf(k))' = Map!Merged(HeldNode(NodeIdOf(k)), v)
<1> DEFINE n == NodeIdOf(k)
           old == IF Format = 0 THEN BlankRoute ELSE RouteAt(n)
<1>1. /\ TypeOK /\ AbsentFilesBlank /\ SlotsHoldOwnNode /\ MasksMatchEntries
      /\ stage = "import" /\ stage' = "import"
      /\ n \in NodeId
      /\ json[k] = NoNode
      /\ json' = [json EXCEPT ![k] = v]
  BY DEF MapInv, TripInv, IInv, StorageOK, ImportEntry
<1>2. WriteInfo(n, v, TRUE) /\ WriteRoutes(n, v, TRUE)
  BY DEF ImportEntry, WriteResult
<1>3. /\ InfoAt(n)' = ParsedInfo(v)
      /\ \A m \in NodeId \ {n} : InfoAt(m)' = InfoAt(m)
  BY <1>1, <1>2, InfoWritten
<1>4. /\ n \in mask'["ROUTECACHE_EXIST"] => RouteAt(n)' = ParsedRoute(old, v)
      /\ \A m \in NodeId \ {n} : RouteAt(m)' = RouteAt(m)
  BY <1>1, <1>2, RoutesWritten
<1>5. /\ json'[k] = v
      /\ \A q \in Key \ {k} : json'[q] = json[q]
      /\ k \notin Named(n)
      /\ Named(n)' = Named(n) \cup {k}
      /\ \A m \in NodeId \ {n} : Named(m)' = Named(m)
  BY <1>1, NamedGrows
<1>6. \A m \in NodeId : Named(m) \subseteq Key \ {k}
  BY <1>1 DEF Named
<1>7. v \in NodeRecord
  BY NodeIsRecord
<1> HIDE DEF n
<1>8. \A m \in Mask : n \in EntryMask(m)' <=> (n \in EntryMask(m) \/ m \in MasksOf(v))
  BY <1>1, <1>5, <1>6 DEF EntryMask
<1>9. \A m \in NodeId \ {n} : HeldNode(m)' = HeldNode(m)
  <2> SUFFICES ASSUME NEW m \in NodeId \ {n} PROVE HeldNode(m)' = HeldNode(m)
    OBVIOUS
  <2>1. \A x \in Mask : m \in EntryMask(x)' <=> m \in EntryMask(x)
    BY <1>5, <1>6 DEF EntryMask
  <2>2. QED
    BY <1>3, <1>4, <2>1, MapKept
<1>10. HeldNode(n)' =
         [wakeup |-> ParsedWakeup(v.wakeup), device |-> v.device,
          isVirtual |-> n \in EntryMask("BRIDGE_NODE") \/ v.isVirtual,
          routeSlaveSuc |-> n \in EntryMask("ROUTE_SLAVE_SUC") \/ v.routeSlaveSuc,
          appRouteLock |-> n \in EntryMask("APP_ROUTE_LOCK") \/ v.appRouteLock,
          sucPendingUpdate |-> FALSE, pendingDiscovery |-> FALSE,
          lwr |-> IF n \in EntryMask("ROUTECACHE_EXIST") \/ HasRoute(v)
                    THEN ParsedRoute(old, v).lwr ELSE NoLine,
          nlwr |-> IF n \in EntryMask("ROUTECACHE_EXIST") \/ HasRoute(v)
                     THEN ParsedRoute(old, v).nlwr ELSE NoLine]
  <2>1. \A m \in Mask : HeldMask(m)' = mask'[m]
    BY <1>1 DEF HeldMask
  <2>2. ASSUME NEW m \in Mask
        PROVE  n \in mask'[m] <=> n \in EntryMask(m) \/ m \in MasksOf(v)
    BY <1>1 DEF ImportEntry, MasksMatchEntries, n
  <2>3. /\ "STORAGE_EXIST" \in MasksOf(v)
        /\ "BRIDGE_NODE" \in MasksOf(v) <=> v.isVirtual
        /\ "ROUTE_SLAVE_SUC" \in MasksOf(v) <=> v.routeSlaveSuc
        /\ "APP_ROUTE_LOCK" \in MasksOf(v) <=> v.appRouteLock
        /\ "ROUTECACHE_EXIST" \in MasksOf(v) <=> HasRoute(v)
        /\ "SUC_PENDING_UPDATE" \notin MasksOf(v)
        /\ "PENDING_DISCOVERY" \notin MasksOf(v)
    BY DEF MasksOf
  <2>4. /\ n \notin EntryMask("SUC_PENDING_UPDATE")
        /\ n \notin EntryMask("PENDING_DISCOVERY")
    BY DEF EntryMask, MasksOf
  <2>5. n \in HeldMask("STORAGE_EXIST")'
    BY <2>1, <2>2, <2>3, MasksNamed
  <2>6. /\ (n \in HeldMask("BRIDGE_NODE")')
             = (n \in EntryMask("BRIDGE_NODE") \/ v.isVirtual)
        /\ (n \in HeldMask("ROUTE_SLAVE_SUC")')
             = (n \in EntryMask("ROUTE_SLAVE_SUC") \/ v.routeSlaveSuc)
        /\ (n \in HeldMask("APP_ROUTE_LOCK")')
             = (n \in EntryMask("APP_ROUTE_LOCK") \/ v.appRouteLock)
        /\ (n \in HeldMask("ROUTECACHE_EXIST")')
             = (n \in EntryMask("ROUTECACHE_EXIST") \/ HasRoute(v))
        /\ (n \in HeldMask("SUC_PENDING_UPDATE")') = FALSE
        /\ (n \in HeldMask("PENDING_DISCOVERY")') = FALSE
    BY <2>1, <2>2, <2>3, <2>4, MasksNamed
  <2>7. /\ (n \in HeldMask("ROUTECACHE_EXIST")') => RouteAt(n)' = ParsedRoute(old, v)
        /\ InfoAt(n)'.wakeup = ParsedWakeup(v.wakeup)
        /\ InfoAt(n)'.device = v.device
    BY <1>3, <1>4, <2>1, MasksNamed DEF ParsedInfo
  <2> HIDE DEF old
  <2>8. QED
    BY <2>5, <2>6, <2>7 DEF HeldNode
<1>11. CASE Named(n) = {}
  <2>1. \A m \in Mask : n \notin EntryMask(m)
    BY <1>11 DEF EntryMask
  <2>2. HeldNode(n) = NoNode
    BY <1>1, <1>11, HeldIfNamed
  <2>3. RouteAt(n) = BlankRoute
    <3>1. RouteAt(n).lwr = Blank /\ RouteAt(n).nlwr = Blank
      BY <1>1, <1>11 DEF SlotsHoldOwnNode
    <3>2. RouteAt(n) \in RouteRecord
      BY <1>1, RoutePlace DEF TypeOK, RouteAt
    <3>3. QED
      BY <3>1, <3>2 DEF RouteRecord, BlankRoute
  <2>4. /\ (n \in EntryMask("BRIDGE_NODE") \/ v.isVirtual) = v.isVirtual
        /\ (n \in EntryMask("ROUTE_SLAVE_SUC") \/ v.routeSlaveSuc) = v.routeSlaveSuc
        /\ (n \in EntryMask("APP_ROUTE_LOCK") \/ v.appRouteLock) = v.appRouteLock
        /\ (n \in EntryMask("ROUTECACHE_EXIST") \/ HasRoute(v)) = HasRoute(v)
    BY <1>7, <2>1, MasksNamed DEF NodeRecord, HasRoute
  <2>5. /\ ParsedRoute(old, v).lwr = IF v.lwr = NoLine THEN Blank ELSE v.lwr
        /\ ParsedRoute(old, v).nlwr = IF v.nlwr = NoLine THEN Blank ELSE v.nlwr
    BY <2>3 DEF ParsedRoute, BlankRoute
  <2>6. /\ Map!Half(v.lwr, v) = IF HasRoute(v) THEN ParsedRoute(old, v).lwr ELSE NoLine
        /\ Map!Half(v.nlwr, v) = IF HasRoute(v) THEN ParsedRoute(old, v).nlwr ELSE NoLine
    BY <2>5 DEF Map!Half, Map!Routed, HasRoute
  <2>7. Map!Merged(HeldNode(n), v) =
         [wakeup |-> ParsedWakeup(v.wakeup), device |-> v.device,
          isVirtual |-> v.isVirtual,
          routeSlaveSuc |-> v.routeSlaveSuc,
          appRouteLock |-> v.appRouteLock,
          sucPendingUpdate |-> FALSE, pendingDiscovery |-> FALSE,
          lwr |-> Map!Half(v.lwr, v), nlwr |-> Map!Half(v.nlwr, v)]
    BY <2>2 DEF Map!Merged, Map!Remembered, ParsedWakeup
  <2> HIDE DEF old
  <2>8. QED
    BY <1>9, <1>10, <2>4, <2>6, <2>7 DEF n
<1>12. CASE Named(n) # {}
  <2> DEFINE held == HeldNode(n)
             routed == n \in EntryMask("ROUTECACHE_EXIST")
  <2>1. held # NoNode
    BY <1>1, <1>12, HeldIfNamed
  <2>2. held =
          [wakeup |-> InfoAt(n).wakeup, device |-> InfoAt(n).device,
           isVirtual |-> n \in EntryMask("BRIDGE_NODE"),
           routeSlaveSuc |-> n \in EntryMask("ROUTE_SLAVE_SUC"),
           appRouteLock |-> n \in EntryMask("APP_ROUTE_LOCK"),
           sucPendingUpdate |-> FALSE, pendingDiscovery |-> FALSE,
           lwr |-> IF routed THEN RouteAt(n).lwr ELSE NoLine,
           nlwr |-> IF routed THEN RouteAt(n).nlwr ELSE NoLine]
    BY <1>1, <1>12, HeldRecord
  <2>3. Format # 0 /\ old = RouteAt(n)
    <3>1. ~KeysApart
      BY <1>1, <1>5, <1>12 DEF KeysApart, Named, n
    <3>2. QED
      BY <3>1, SizesAssumption
  <2>4. RouteAt(n) \in RouteRecord
    BY <1>1, RoutePlace DEF TypeOK, RouteAt
  <2>5. ~routed => RouteAt(n).lwr = Blank /\ RouteAt(n).nlwr = Blank
    <3>1. SUFFICES ASSUME ~routed
                   PROVE  RouteAt(n).lwr = Blank /\ RouteAt(n).nlwr = Blank
      OBVIOUS
    <3>2. \A q \in Named(n) : ~HasRoute(json[q])
      BY <1>1, <3>1 DEF EntryMask, MasksOf
    <3>3. /\ RouteAt(n).lwr \in {Blank, NoLine}
          /\ RouteAt(n).nlwr \in {Blank, NoLine}
      BY <1>1, <3>2 DEF SlotsHoldOwnNode, HasRoute
    <3>4. QED
      BY <2>4, <3>3, InputAssumption DEF RouteRecord
  <2>6. /\ RouteAt(n).lwr # NoLine /\ RouteAt(n).nlwr # NoLine
        /\ ParsedRoute(old, v).lwr = IF v.lwr = NoLine THEN RouteAt(n).lwr ELSE v.lwr
        /\ ParsedRoute(old, v).nlwr = IF v.nlwr = NoLine THEN RouteAt(n).nlwr ELSE v.nlwr
    BY <2>3, <2>4, InputAssumption DEF ParsedRoute, RouteRecord
  <2>7. /\ Map!Kept(held.lwr, v.lwr, v) = IF routed \/ HasRoute(v)
                                            THEN ParsedRoute(old, v).lwr ELSE NoLine
        /\ Map!Kept(held.nlwr, v.nlwr, v) = IF routed \/ HasRoute(v)
                                              THEN ParsedRoute(old, v).nlwr ELSE NoLine
    BY <2>2, <2>5, <2>6 DEF Map!Kept, Map!Half, Map!Routed, HasRoute
  <2>8. Map!Merged(held, v) =
          [wakeup |-> ParsedWakeup(v.wakeup), device |-> v.device,
           isVirtual |-> v.isVirtual \/ held.isVirtual,
           routeSlaveSuc |-> v.routeSlaveSuc \/ held.routeSlaveSuc,
           appRouteLock |-> v.appRouteLock \/ held.appRouteLock,
           sucPendingUpdate |-> FALSE, pendingDiscovery |-> FALSE,
           lwr |-> Map!Kept(held.lwr, v.lwr, v), nlwr |-> Map!Kept(held.nlwr, v.nlwr, v)]
    BY <2>1 DEF Map!Merged, Map!Remembered, ParsedWakeup
  <2>9. /\ (v.isVirtual \/ held.isVirtual) = (n \in EntryMask("BRIDGE_NODE") \/ v.isVirtual)
        /\ (v.routeSlaveSuc \/ held.routeSlaveSuc)
              = (n \in EntryMask("ROUTE_SLAVE_SUC") \/ v.routeSlaveSuc)
        /\ (v.appRouteLock \/ held.appRouteLock)
              = (n \in EntryMask("APP_ROUTE_LOCK") \/ v.appRouteLock)
    <3>1. /\ held.isVirtual = (n \in EntryMask("BRIDGE_NODE"))
          /\ held.routeSlaveSuc = (n \in EntryMask("ROUTE_SLAVE_SUC"))
          /\ held.appRouteLock = (n \in EntryMask("APP_ROUTE_LOCK"))
      BY <2>2
    <3> HIDE DEF held
    <3>2. QED
      BY <3>1
  <2> HIDE DEF old, routed
  <2>10. HeldNode(n)' = Map!Merged(held, v)
    BY <1>10, <2>7, <2>8, <2>9 DEF routed
  <2>11. QED
    BY <1>9, <2>10 DEF n
<1>13. QED
  BY <1>11, <1>12

LEMMA InitImplements == Init => Map!Init
<1> SUFFICES ASSUME Init PROVE Map!Init
  OBVIOUS
<1>1. stage = "import" /\ ~Exported
  BY DEF Init, Exported
<1>2. ASSUME NEW n \in NodeId
      PROVE  HeldNode(n) = NoNode
  BY <1>1, MasksNamed DEF Init, HeldNode, HeldMask
<1>3. QED
  BY <1>1, <1>2 DEF Map!Init, Map!Empty

(* A step of the exporter shows nothing until the pass is over, and then   *)
(* what it reports is the map.                                             *)
LEMMA ExportImplements ==
  ASSUME MapInv, MapInv', LoadMasks \/ ExportNode \/ PassNode
  PROVE  Map!Report \/ UNCHANGED Map!vars
<1>1. /\ stage \in {"stored", "export"} /\ stage' = "export"
      /\ UNCHANGED <<json, maskFile, maskKeys, infoFile, routeFile>>
  BY DEF LoadMasks, ExportNode, PassNode, nvmVars
<1>2. \A n : HeldNode(n)' = HeldNode(n)
  BY <1>1 DEF HeldNode, HeldMask, InfoAt, RouteAt
<1>3. ~Exported
  <2>1. mask["STORAGE_EXIST"] \subseteq NodeId
    BY MasksNamed DEF MapInv, TripInv, IInv, StorageOK, TypeOK
  <2>2. stage = "stored" \/ node_id \in NodeId
    BY <2>1 DEF LoadMasks, ExportNode, PassNode
  <2>3. QED
    BY <2>2, SizesAssumption DEF Exported, NodeId
<1>4. [n \in NodeId |-> HeldNode(n)]' = [n \in NodeId |-> HeldNode(n)]
  BY <1>2
<1>5. CASE ~Exported'
  BY <1>1, <1>3, <1>4, <1>5 DEF Map!vars
<1>6. CASE Exported'
  <2>1. ASSUME NEW n \in NodeId
        PROVE  out'[n] = HeldNode(n)'
    <3>1. /\ TypeOK' /\ MasksMatchEntries' /\ ExportProgress' /\ Described'
          /\ ~importError' /\ stage' = "export"
      BY <1>1 DEF MapInv, TripInv, IInv, StorageOK
    <3>2. n < node_id'
      BY <1>6, SizesAssumption DEF Exported, NodeId
    <3>3. /\ mask' = [m \in Mask |-> IF m \in maskKeys' THEN maskFile'[m] ELSE {}]
          /\ out'[n] = IF n \in mask'["STORAGE_EXIST"]
                         THEN ExportedNode(n, InfoAt(n), RouteAt(n))' ELSE NoNode
      BY <3>1, <3>2 DEF ExportProgress
    <3>4. maskKeys' = Mask /\ \A m \in Mask : maskFile'[m] = EntryMask(m)'
      BY <3>1 DEF MasksMatchEntries
    <3>5. \A m \in Mask : mask'[m] = maskFile'[m]
      BY <3>3, <3>4
    <3>6. \A m \in Mask : HeldMask(m)' = mask'[m]
      BY <3>1, <3>5 DEF HeldMask
    <3>7. CASE n \notin mask'["STORAGE_EXIST"]
      BY <3>3, <3>6, <3>7, MasksNamed DEF HeldNode
    <3>8. CASE n \in mask'["STORAGE_EXIST"]
      <4>1. Named(n)' # {}
        BY <3>4, <3>5, <3>8, MasksNamed DEF EntryMask
      <4>2. ReportedWakeup(InfoAt(n)'.wakeup) = InfoAt(n)'.wakeup
        BY <3>1, <4>1 DEF Described, ReportedWakeup
      <4>3. out'[n] = ExportedNode(n, InfoAt(n), RouteAt(n))'
        BY <3>3, <3>8
      <4>4. /\ HeldMask("STORAGE_EXIST")' = mask'["STORAGE_EXIST"]
            /\ HeldMask("BRIDGE_NODE")' = mask'["BRIDGE_NODE"]
            /\ HeldMask("ROUTE_SLAVE_SUC")' = mask'["ROUTE_SLAVE_SUC"]
            /\ HeldMask("APP_ROUTE_LOCK")' = mask'["APP_ROUTE_LOCK"]
            /\ HeldMask("SUC_PENDING_UPDATE")' = mask'["SUC_PENDING_UPDATE"]
            /\ HeldMask("PENDING_DISCOVERY")' = mask'["PENDING_DISCOVERY"]
            /\ HeldMask("ROUTECACHE_EXIST")' = mask'["ROUTECACHE_EXIST"]
        BY <3>6, MasksNamed
      <4>5. QED
        BY <3>8, <4>2, <4>3, <4>4 DEF ExportedNode, HeldNode
    <3>9. QED
      BY <3>7, <3>8
  <2>2. out' = [n \in NodeId |-> HeldNode(n)']
    <3>1. out' \in [NodeId -> ExportedRecord \cup {NoNode}]
      BY DEF MapInv, TripInv, IInv, StorageOK, TypeOK
    <3>2. QED
      BY <2>1, <3>1
  <2>3. out' = [n \in NodeId |-> HeldNode(n)]
    BY <1>2, <2>2
  <2>4. QED
    BY <1>1, <1>3, <1>4, <1>6, <2>3 DEF Map!Report
<1>7. QED
  BY <1>5, <1>6

LEMMA NextImplements ==
  ASSUME ~WritesMayFail, Format > 0 \/ KeysApart, MapInv, MapInv', [Next]_vars
  PROVE  [Map!Next]_(Map!vars)
<1>1. stage # "export" => ~Exported
  BY DEF Exported
<1>2. CASE \E k \in Key, v \in Node : ImportEntry(k, v)
  <2>1. PICK k \in Key, v \in Node : ImportEntry(k, v)
    BY <1>2
  <2>2. /\ stage = "import" /\ stage' = "import"
        /\ NodeIdOf(k) \in NodeId
    BY <2>1 DEF ImportEntry
  <2>3. ~Exported /\ ~Exported'
    BY <2>2 DEF Exported
  <2>4. /\ \A m \in NodeId \ {NodeIdOf(k)} : HeldNode(m)' = HeldNode(m)
        /\ HeldNode(NodeIdOf(k))' = Map!Merged(HeldNode(NodeIdOf(k)), v)
    BY <2>1, ImportPuts
  <2>5. [n \in NodeId |-> HeldNode(n)]' =
          [[n \in NodeId |-> HeldNode(n)] EXCEPT ![NodeIdOf(k)] = Map!Merged(@, v)]
    BY <2>2, <2>4
  <2>6. Map!Put(NodeIdOf(k), v)
    BY <2>2, <2>3, <2>5 DEF Map!Put
  <2>7. QED
    BY <2>2, <2>6 DEF Map!Next
<1>3. CASE \E k \in Key, v \in Node : SkipEntry(k, v)
  <2>1. PICK k \in Key, v \in Node : SkipEntry(k, v)
    BY <1>3
  <2>2. /\ stage = "import" /\ stage' = "import"
        /\ UNCHANGED <<mask, infoFile, routeFile>>
    BY <2>1 DEF SkipEntry, nvmVars
  <2>3. \A n : HeldNode(n)' = HeldNode(n)
    BY <2>2 DEF HeldNode, HeldMask, InfoAt, RouteAt
  <2>4. QED
    BY <2>2, <2>3 DEF Map!vars, Exported
<1>4. CASE StoreMasks
  <2>1. /\ stage = "import" /\ stage' = "stored"
        /\ UNCHANGED <<mask, infoFile, routeFile, json>>
    BY <1>4 DEF StoreMasks
  <2>2. \A m \in Mask : maskFile'[m] = mask[m]
    BY <1>4 DEF StoreMasks
  <2>3. ASSUME NEW n \in NodeId
        PROVE  HeldNode(n)' = HeldNode(n)
    <3>1. \A m \in Mask : HeldMask(m)' = HeldMask(m)
      BY <2>1, <2>2 DEF HeldMask
    <3>2. /\ HeldMask("STORAGE_EXIST")' = HeldMask("STORAGE_EXIST")
          /\ HeldMask("BRIDGE_NODE")' = HeldMask("BRIDGE_NODE")
          /\ HeldMask("ROUTE_SLAVE_SUC")' = HeldMask("ROUTE_SLAVE_SUC")
          /\ HeldMask("APP_ROUTE_LOCK")' = HeldMask("APP_ROUTE_LOCK")
          /\ HeldMask("SUC_PENDING_UPDATE")' = HeldMask("SUC_PENDING_UPDATE")
          /\ HeldMask("PENDING_DISCOVERY")' = HeldMask("PENDING_DISCOVERY")
          /\ HeldMask("ROUTECACHE_EXIST")' = HeldMask("ROUTECACHE_EXIST")
      BY <3>1, MasksNamed
    <3>3. QED
      BY <2>1, <3>2 DEF HeldNode, InfoAt, RouteAt
  <2>4. Map!Seal
    BY <2>1, <2>3 DEF Map!Seal, Exported
  <2>5. QED
    BY <2>4 DEF Map!Next
<1>5. CASE LoadMasks \/ ExportNode \/ PassNode
  BY <1>5, ExportImplements DEF Map!Next
<1>6. CASE UNCHANGED vars
  <2>1. \A n : HeldNode(n)' = HeldNode(n)
    BY <1>6 DEF vars, nvmVars, HeldNode, HeldMask, InfoAt, RouteAt
  <2>2. QED
    BY <1>6, <2>1 DEF vars, exportVars, Map!vars, Exported
<1>7. QED
  BY <1>2, <1>3, <1>4, <1>5, <1>6 DEF Next

(* The safety part of ImplementsNetworkMap.  Without write errors the two  *)
(* functions are a network map for every geometry of the files and every   *)
(* order of the entries: an entry changes its own node and at once, and    *)
(* what is reported in the end is the map.  In format 0 this needs keys    *)
(* that name different nodes: there the importer does not read a node back *)
(* before it writes it, and a second entry loses the first one's routes    *)
(* (controller_nvm.c:1813-1855 and 1861-1912).                             *)
THEOREM TableIsMap ==
  ASSUME ~WritesMayFail, Format > 0 \/ KeysApart
  PROVE  Spec => Map!Init /\ [][Map!Next]_(Map!vars)
<1>1. MapInv /\ [Next]_vars => MapInv'
  BY NextMap
<1>2. MapInv /\ MapInv' /\ [Next]_vars => [Map!Next]_(Map!vars)
  BY NextImplements
<1>3. QED
  BY InitMap, InitImplements, <1>1, <1>2, PTL DEF Spec
==============================================================================
