------------------------------ MODULE NodeTable ------------------------------
(***************************************************************************)
(* The table of classic (non Long Range) nodes of a Z-Wave controller:     *)
(* "parse_node_table_json" writes the "nodes" object of a JSON backup into *)
(* the nvm3 objects of an empty protocol NVM, "node_table_to_json" reads   *)
(* them back into a JSON object.                                           *)
(*                                                                         *)
(* A node is spread over three kinds of objects.  Its description is one   *)
(* slot of a node-info file shared with its neighbours in number, its      *)
(* cached routes are one slot of a route-cache file shared with another    *)
(* group of nodes, and its flags are one bit in each of seven node masks.  *)
(* The importer builds the files entry by entry with read-modify-write and *)
(* the masks in local variables that it stores only after the last entry.  *)
(*                                                                         *)
(* The "device" field of a node stands for everything in SNodeInfo except  *)
(* the wake-up mode: neighbours, SUC update index, data rates, classes.    *)
(***************************************************************************)
EXTENDS Nvm3Files, FiniteSets

CONSTANTS
  Format,         \* target_protocol_version.format of importer and exporter
  MaxNode,        \* ZW_CLASSIC_MAX_NODES
  InfosPerFile,   \* NODEINFOS_PER_FILE
  RoutesPerFile,  \* NODEROUTECACHES_PER_FILE
  IdModulus,      \* 2^16: atoi(key) is assigned to a uint16_t
  Key,            \* the numbers spelled by the keys of the JSON object
  Device,         \* descriptions of a device
  Line,           \* route cache lines (ROUTECACHE_LINE)
  Node,           \* the JSON nodes the importer may meet
  NoNode,         \* "no entry"
  NoLine,         \* JSON null in place of "lwr" or "nlwr"
  Blank,          \* what unwritten bytes of a record read as
  WritesMayFail   \* whether nvm3_writeData may return an error

(* SENSOR_MODE bits of the security byte; "none" is JSON false.            *)
Wakeup == {"none", "250ms", "1000ms"}

NodeRecord ==
  [wakeup: Wakeup, device: Device,
   isVirtual: BOOLEAN, routeSlaveSuc: BOOLEAN, appRouteLock: BOOLEAN,
   sucPendingUpdate: BOOLEAN, pendingDiscovery: BOOLEAN,
   lwr: Line \cup {NoLine}, nlwr: Line \cup {NoLine}]

ASSUME SizesAssumption ==
  /\ Format \in Nat
  /\ MaxNode \in Nat \ {0}
  /\ InfosPerFile \in Nat \ {0}
  /\ RoutesPerFile \in Nat \ {0}
  /\ IdModulus \in Nat \ {0}
  /\ MaxNode < IdModulus

NodeId == 1 .. MaxNode

(* json_object_object_foreach hands the importer each key as text;         *)
(* "uint16_t node_id = atoi(key)" keeps the low 16 bits of its value.      *)
NodeIdOf(k) == k % IdModulus

(***************************************************************************)
(* File layout.  Format 0 has one file per node, formats 1 and up group    *)
(* them; the keys of formats 1..4 and of format 5 are the same numbers.    *)
(***************************************************************************)
InfosPer == IF Format = 0 THEN 1 ELSE InfosPerFile
RoutesPer == IF Format = 0 THEN 1 ELSE RoutesPerFile

InfoFile(n) == FileOf(n, InfosPer)
InfoSlot(n) == SlotOf(n, InfosPer)
RouteFile(n) == FileOf(n, RoutesPer)
RouteSlot(n) == SlotOf(n, RoutesPer)

InfoFiles == FileNumbers(MaxNode, InfosPer)
InfoSlots == 0 .. InfosPer - 1
RouteFiles == FileNumbers(MaxNode, RoutesPer)
RouteSlots == 0 .. RoutesPer - 1

(* SNodeInfo and SNodeRouteCache, and a slot nobody has written.           *)
InfoRecord == [wakeup: Wakeup \cup {Blank}, device: Device \cup {Blank}]
RouteRecord == [lwr: Line \cup {Blank}, nlwr: Line \cup {Blank}]
BlankInfo == [wakeup |-> Blank, device |-> Blank]
BlankRoute == [lwr |-> Blank, nlwr |-> Blank]

(* What the exporter can say of a node.                                    *)
ExportedRecord ==
  [wakeup: Wakeup, device: Device \cup {Blank},
   isVirtual: BOOLEAN, routeSlaveSuc: BOOLEAN, appRouteLock: BOOLEAN,
   sucPendingUpdate: BOOLEAN, pendingDiscovery: BOOLEAN,
   lwr: Line \cup {NoLine, Blank}, nlwr: Line \cup {NoLine, Blank}]

ASSUME InputAssumption ==
  /\ Key \subseteq Nat
  /\ Node \subseteq NodeRecord
  /\ NoNode \notin ExportedRecord
  /\ NoLine \notin Line
  /\ Blank \notin Line \cup Device \cup Wakeup \cup {NoLine}
  /\ WritesMayFail \in BOOLEAN

(* The node mask files.  The Long Range mask exists from format 2 on and   *)
(* is stored as zeros here; the Long Range importer overwrites it.         *)
Mask ==
  {"STORAGE_EXIST", "BRIDGE_NODE", "SUC_PENDING_UPDATE", "PENDING_DISCOVERY",
   "ROUTECACHE_EXIST", "APP_ROUTE_LOCK", "ROUTE_SLAVE_SUC"}
    \cup (IF Format >= 2 THEN {"LRANGE_NODE_EXIST"} ELSE {})

VARIABLES
  stage,            \* "import", "stored", "export"
  json,             \* [Key -> node of that key, NoNode before its visit]
  mask,             \* the node masks on the stack of the running function
  maskFile,         \* contents of the mask files
  maskKeys,         \* the mask files that exist
  infoFile,         \* contents of the node-info files
  infoKeys,         \* the node-info files that exist
  routeFile,        \* contents of the route-cache files
  routeKeys,        \* the route-cache files that exist
  importError,      \* nvm3_error_detected of the importing process
  exportError,      \* nvm3_error_detected of the exporting process
  node_id,          \* loop variable of node_table_to_json
  route_cache_buf,  \* its buffer, which is not cleared between nodes
  out               \* jo_node_list: [NodeId -> exported node or NoNode]

nvmVars == <<maskFile, maskKeys, infoFile, infoKeys, routeFile, routeKeys>>
exportVars == <<exportError, node_id, route_cache_buf, out>>
vars == <<stage, json, mask, nvmVars, importError, exportVars>>

Init ==
  /\ stage = "import"
  /\ json = [k \in Key |-> NoNode]
  /\ mask = [m \in Mask |-> {}]
  /\ maskFile = [m \in Mask |-> {}]
  /\ maskKeys = {}
  /\ infoFile = [f \in InfoFiles |-> [s \in InfoSlots |-> BlankInfo]]
  /\ infoKeys = {}
  /\ routeFile = [f \in RouteFiles |-> [s \in RouteSlots |-> BlankRoute]]
  /\ routeKeys = {}
  /\ importError = FALSE
  /\ exportError = FALSE
  /\ node_id = 1
  /\ route_cache_buf = [s \in RouteSlots |-> BlankRoute]
  /\ out = [n \in NodeId |-> NoNode]

------------------------------------------------------------------------------
(***************************************************************************)
(* Import                                                                  *)
(***************************************************************************)

(* parse_node_security compares the string "250ms" of the JSON object with *)
(* a literal by address, so every string selects the 1000 ms wake-up mode. *)
ParsedWakeup(w) == IF w = "none" THEN "none" ELSE "1000ms"

ParsedInfo(v) == [wakeup |-> ParsedWakeup(v.wakeup), device |-> v.device]

(* A fault: a null line erases the earlier one.                            *)
RouteNullErases(old, v) ==
  [lwr  |-> IF v.lwr = NoLine THEN Blank ELSE v.lwr,
   nlwr |-> IF v.nlwr = NoLine THEN Blank ELSE v.nlwr]

(* A null or absent "lwr"/"nlwr" leaves that half of the record as it was. *)
ParsedRoute(old, v) ==
  [lwr  |-> IF v.lwr = NoLine THEN old.lwr ELSE v.lwr,
   nlwr |-> IF v.nlwr = NoLine THEN old.nlwr ELSE v.nlwr]

HasRoute(v) == v.lwr # NoLine \/ v.nlwr # NoLine

(* The masks in which a node's entry sets its bit.  No statement sets a    *)
(* bit of suc_pending_update_flags or pending_discovery_flags.             *)
MasksOf(v) ==
  {"STORAGE_EXIST"}
    \cup (IF v.isVirtual THEN {"BRIDGE_NODE"} ELSE {})
    \cup (IF v.routeSlaveSuc THEN {"ROUTE_SLAVE_SUC"} ELSE {})
    \cup (IF v.appRouteLock THEN {"APP_ROUTE_LOCK"} ELSE {})
    \cup (IF HasRoute(v) THEN {"ROUTECACHE_EXIST"} ELSE {})

(* Faults: a shared file is not read back before it is written.            *)
InfoNotLoaded(n) == [s \in InfoSlots |-> BlankInfo]
RoutesNotLoaded(n) == [s \in RouteSlots |-> BlankRoute]

(* nvm3_getObjectInfo, then READ_PROT_NVM or memset(0xFF).  In format 0    *)
(* the buffer of a node is fresh and zeroed each time.                     *)
LoadedInfo(n) ==
  IF Format > 0 /\ InfoFile(n) \in infoKeys
    THEN infoFile[InfoFile(n)]
    ELSE [s \in InfoSlots |-> BlankInfo]

LoadedRoutes(n) ==
  IF Format > 0 /\ RouteFile(n) \in routeKeys
    THEN routeFile[RouteFile(n)]
    ELSE [s \in RouteSlots |-> BlankRoute]

WriteResult == IF WritesMayFail THEN BOOLEAN ELSE {TRUE}

WriteInfo(n, v, ok) ==
  /\ infoKeys' = IF ok THEN infoKeys \cup {InfoFile(n)} ELSE infoKeys
  /\ infoFile' =
       IF ok
         THEN [infoFile EXCEPT ![InfoFile(n)] =
                 [LoadedInfo(n) EXCEPT ![InfoSlot(n)] = ParsedInfo(v)]]
         ELSE infoFile

(* The route file is written when the node's bit is set in the mask, by    *)
(* this entry or by an earlier one with the same number.                   *)
WriteRoutes(n, v, ok) ==
  IF n \in mask'["ROUTECACHE_EXIST"] /\ ok
    THEN /\ routeKeys' = routeKeys \cup {RouteFile(n)}
         /\ routeFile' = [routeFile EXCEPT ![RouteFile(n)] =
              [LoadedRoutes(n) EXCEPT ![RouteSlot(n)] = ParsedRoute(@, v)]]
    ELSE UNCHANGED <<routeKeys, routeFile>>

(* One turn of the importer's loop for a key that names a classic node.    *)
ImportEntry(k, v) ==
  /\ stage = "import"
  /\ json[k] = NoNode
  /\ NodeIdOf(k) \in NodeId
  /\ json' = [json EXCEPT ![k] = v]
  /\ mask' = [m \in Mask |->
                IF m \in MasksOf(v) THEN mask[m] \cup {NodeIdOf(k)} ELSE mask[m]]
  /\ \E infoOk, routeOk \in WriteResult :
       /\ WriteInfo(NodeIdOf(k), v, infoOk)
       /\ WriteRoutes(NodeIdOf(k), v, routeOk)
       /\ importError' =
            \/ importError
            \/ ~infoOk
            \/ NodeIdOf(k) \in mask'["ROUTECACHE_EXIST"] /\ ~routeOk
  /\ UNCHANGED <<stage, maskFile, maskKeys, exportVars>>

(* A key outside 1..ZW_CLASSIC_MAX_NODES is passed over without a message. *)
SkipEntry(k, v) ==
  /\ stage = "import"
  /\ json[k] = NoNode
  /\ NodeIdOf(k) \notin NodeId
  /\ json' = [json EXCEPT ![k] = v]
  /\ UNCHANGED <<stage, mask, nvmVars, importError, exportVars>>

(* A fault: a mask is stored in place of another.                          *)
StoreMasksMixedUp ==
  /\ stage = "import"
  /\ stage' = "stored"
  /\ maskFile' = [mask EXCEPT !["APP_ROUTE_LOCK"] = mask["ROUTE_SLAVE_SUC"]]
  /\ maskKeys' = Mask
  /\ UNCHANGED <<json, mask, infoFile, infoKeys, routeFile, routeKeys, importError, exportVars>>
(* After the last entry every mask is written, each write on its own.      *)
StoreMasks ==
  /\ stage = "import"
  /\ stage' = "stored"
  /\ \E failed \in (IF WritesMayFail THEN SUBSET Mask ELSE {{}}) :
       /\ maskFile' = [m \in Mask |-> IF m \in failed THEN maskFile[m] ELSE mask[m]]
       /\ maskKeys' = maskKeys \cup (Mask \ failed)
       /\ importError' = (importError \/ failed # {})
  /\ UNCHANGED <<json, mask, infoFile, infoKeys, routeFile, routeKeys, exportVars>>

------------------------------------------------------------------------------
(***************************************************************************)
(* Export                                                                  *)
(***************************************************************************)

(* The locals of node_table_to_json are zeroed, then each mask file is     *)
(* read; a mask whose file is missing stays zero and raises the error flag.*)
LoadMasks ==
  /\ stage = "stored"
  /\ stage' = "export"
  /\ mask' = [m \in Mask |-> IF m \in maskKeys THEN maskFile[m] ELSE {}]
  /\ exportError' = (maskKeys # Mask)
  /\ node_id' = 1
  /\ route_cache_buf' = [s \in RouteSlots |-> BlankRoute]
  /\ out' = [n \in NodeId |-> NoNode]
  /\ UNCHANGED <<json, nvmVars, importError>>

(* A fault: the route file is computed with the size of the info files.    *)
ReadRoutesOfInfoFile(n) ==
  IF RouteFile(n) \in routeKeys THEN routeFile[InfoFile(n)] ELSE route_cache_buf

(* The route cache buffer after the read for node n: a missing file leaves *)
(* it as the previous read left it, and the result code is not looked at.  *)
ReadRoutes(n) ==
  IF RouteFile(n) \in routeKeys THEN routeFile[RouteFile(n)] ELSE route_cache_buf

(* Of the four values of the sensor mode bits two are wake-up modes; bytes  *)
(* nobody wrote hold neither, and the switch reports them as "false".      *)
ReportedWakeup(w) == IF w = Blank THEN "none" ELSE w

ExportedNode(n, info, routes) ==
  [wakeup |-> ReportedWakeup(info.wakeup), device |-> info.device,
   isVirtual |-> n \in mask["BRIDGE_NODE"],
   routeSlaveSuc |-> n \in mask["ROUTE_SLAVE_SUC"],
   appRouteLock |-> n \in mask["APP_ROUTE_LOCK"],
   sucPendingUpdate |-> n \in mask["SUC_PENDING_UPDATE"],
   pendingDiscovery |-> n \in mask["PENDING_DISCOVERY"],
   lwr |-> IF n \in mask["ROUTECACHE_EXIST"] THEN routes.lwr ELSE NoLine,
   nlwr |-> IF n \in mask["ROUTECACHE_EXIST"] THEN routes.nlwr ELSE NoLine]

(* A turn of the exporter's loop for a node of the mask whose file is read.*)
ExportNode ==
  /\ stage = "export"
  /\ node_id \in mask["STORAGE_EXIST"]
  /\ InfoFile(node_id) \in infoKeys
  /\ route_cache_buf' =
       IF node_id \in mask["ROUTECACHE_EXIST"] THEN ReadRoutes(node_id) ELSE route_cache_buf
  /\ out' = [out EXCEPT ![node_id] =
       ExportedNode(node_id, infoFile[InfoFile(node_id)][InfoSlot(node_id)],
                    route_cache_buf'[RouteSlot(node_id)])]
  \* only the route files of formats 1 and up are optional keys
  /\ exportError' =
       \/ exportError
       \/ /\ Format = 0
          /\ node_id \in mask["ROUTECACHE_EXIST"]
          /\ RouteFile(node_id) \notin routeKeys
  /\ node_id' = node_id + 1
  /\ UNCHANGED <<stage, json, mask, nvmVars, importError>>

(* A fault: a missing file is not noticed.                                 *)
PassNodeQuietly ==
  /\ stage = "export"
  /\ node_id \in NodeId
  /\ \/ node_id \notin mask["STORAGE_EXIST"]
     \/ InfoFile(node_id) \notin infoKeys
  /\ node_id' = node_id + 1
  /\ UNCHANGED <<stage, json, mask, nvmVars, importError, exportError, route_cache_buf, out>>

(* A turn for a number that is not in the mask, or whose file is missing.  *)
PassNode ==
  /\ stage = "export"
  /\ node_id \in NodeId
  /\ \/ node_id \notin mask["STORAGE_EXIST"]
     \/ InfoFile(node_id) \notin infoKeys
  /\ exportError' = (exportError \/ node_id \in mask["STORAGE_EXIST"])
  /\ node_id' = node_id + 1
  /\ UNCHANGED <<stage, json, mask, nvmVars, importError, route_cache_buf, out>>

------------------------------------------------------------------------------
Next ==
  \/ \E k \in Key, v \in Node : ImportEntry(k, v)
  \/ \E k \in Key, v \in Node : SkipEntry(k, v)
  \/ StoreMasks
  \/ LoadMasks
  \/ ExportNode
  \/ PassNode

Spec == Init /\ [][Next]_vars

(* The program is a sequential computation that runs to its end.           *)
FairSpec == Spec /\ WF_vars(StoreMasks \/ LoadMasks \/ ExportNode \/ PassNode)

------------------------------------------------------------------------------
(***************************************************************************)
(* Properties                                                              *)
(***************************************************************************)

TypeOK ==
  /\ stage \in {"import", "stored", "export"}
  /\ json \in [Key -> Node \cup {NoNode}]
  /\ mask \in [Mask -> SUBSET NodeId]
  /\ maskFile \in [Mask -> SUBSET NodeId]
  /\ maskKeys \subseteq Mask
  /\ infoFile \in [InfoFiles -> [InfoSlots -> InfoRecord]]
  /\ infoKeys \subseteq InfoFiles
  /\ routeFile \in [RouteFiles -> [RouteSlots -> RouteRecord]]
  /\ routeKeys \subseteq RouteFiles
  /\ importError \in BOOLEAN
  /\ exportError \in BOOLEAN
  /\ node_id \in 1 .. MaxNode + 1
  /\ route_cache_buf \in [RouteSlots -> RouteRecord]
  /\ out \in [NodeId -> ExportedRecord \cup {NoNode}]

InfoAt(n) == infoFile[InfoFile(n)][InfoSlot(n)]
RouteAt(n) == routeFile[RouteFile(n)][RouteSlot(n)]

(* The entries already visited whose key names node n.  More than one only *)
(* if the JSON spells one node number in two ways.                         *)
Named(n) == {k \in Key : json[k] # NoNode /\ NodeIdOf(k) = n}

(* The nodes whose entries ask for a bit in mask m.                        *)
EntryMask(m) == {n \in NodeId : \E k \in Named(n) : m \in MasksOf(json[k])}

(* A slot of a shared file only ever holds its own node: it is blank or    *)
(* says what an entry named after that node said, whatever the order of    *)
(* the entries and whichever writes failed                                 *)
(* (parse_node_table_json, controller_nvm.c:1813-1855 and 1861-1912).      *)
SlotsHoldOwnNode ==
  \A n \in NodeId :
    /\ \/ InfoAt(n) = BlankInfo
       \/ \E k \in Named(n) : InfoAt(n) = ParsedInfo(json[k])
    /\ RouteAt(n).lwr \in {Blank} \cup {json[k].lwr : k \in Named(n)}
    /\ RouteAt(n).nlwr \in {Blank} \cup {json[k].nlwr : k \in Named(n)}

(* As long as no write failed, an entry that is the only one for its node  *)
(* is stored in full, and stays stored while later entries rewrite the     *)
(* files it shares.                                                        *)
UniqueEntriesStored ==
  ~importError =>
    \A n \in NodeId : \A k \in Named(n) : Named(n) = {k} =>
      /\ InfoFile(n) \in infoKeys
      /\ InfoAt(n) = ParsedInfo(json[k])
      /\ HasRoute(json[k]) =>
           /\ RouteFile(n) \in routeKeys
           /\ RouteAt(n) = ParsedRoute(BlankRoute, json[k])

(* The masks, on the stack while importing and in their files afterwards,  *)
(* have exactly the bits the entries ask for: no file is written for a     *)
(* node outside STORAGE_EXIST or ROUTECACHE_EXIST and none is announced    *)
(* that no entry mentions (controller_nvm.c:1915-1929).                    *)
MasksMatchEntries ==
  /\ stage # "export" => \A m \in Mask : mask[m] = EntryMask(m)
  /\ stage # "import" /\ ~importError =>
       /\ maskKeys = Mask
       /\ \A m \in Mask : maskFile[m] = EntryMask(m)

(* A file that does not exist has no contents.                             *)
AbsentFilesBlank ==
  /\ \A f \in InfoFiles \ infoKeys : infoFile[f] = [s \in InfoSlots |-> BlankInfo]
  /\ \A f \in RouteFiles \ routeKeys : routeFile[f] = [s \in RouteSlots |-> BlankRoute]

Exported == stage = "export" /\ node_id = MaxNode + 1

(* What a node looks like after a trip through the NVM: every string wake- *)
(* up mode is "1000ms", the two pending flags are cleared, and the missing *)
(* half of a one-sided route reads as unwritten bytes.                     *)
Restored(v) ==
  LET half(line) == IF HasRoute(v) /\ line = NoLine THEN Blank ELSE line
  IN  [wakeup |-> ParsedWakeup(v.wakeup), device |-> v.device,
       isVirtual |-> v.isVirtual, routeSlaveSuc |-> v.routeSlaveSuc,
       appRouteLock |-> v.appRouteLock,
       sucPendingUpdate |-> FALSE, pendingDiscovery |-> FALSE,
       lwr |-> half(v.lwr), nlwr |-> half(v.nlwr)]

(* The round trip JSON -> NVM -> JSON.  When the importer met no write     *)
(* error, the exporter finds every node of the backup and no other, with   *)
(* the data of its entry, and raises no error either.                      *)
RoundTrip ==
  Exported /\ ~importError =>
    /\ ~exportError
    /\ \A n \in NodeId :
         /\ (out[n] = NoNode) <=> (Named(n) = {})
         /\ \A k \in Named(n) : Named(n) = {k} => out[n] = Restored(json[k])

(* Importing an entry changes no slot of another node, although it writes  *)
(* back whole files read from the NVM.                                     *)
OtherSlotsUntouched ==
  [][\A n \in NodeId :
       (\A k \in Key : NodeIdOf(k) = n => json'[k] = json[k]) =>
          InfoAt(n)' = InfoAt(n) /\ RouteAt(n)' = RouteAt(n)]_vars

(* A node that STORAGE_EXIST announces but whose file is missing drops out *)
(* of the exported JSON, and then the exporter's error flag is raised; the *)
(* flag is raised for nothing else but an unreadable mask or, in format 0, *)
(* an unreadable route cache (node_table_to_json).                         *)
DroppedNodesReported ==
  Exported =>
    /\ {n \in NodeId : out[n] # NoNode}
          = {n \in mask["STORAGE_EXIST"] : InfoFile(n) \in infoKeys}
    /\ exportError <=>
         \/ maskKeys # Mask
         \/ \E n \in mask["STORAGE_EXIST"] :
              \/ InfoFile(n) \notin infoKeys
              \/ /\ Format = 0
                 /\ n \in mask["ROUTECACHE_EXIST"]
                 /\ RouteFile(n) \notin routeKeys

(* Where an exported route comes from.  The node's own slot if its file    *)
(* exists.  If not, the buffer still holds the last file that was read for *)
(* a lower-numbered node, and the slot of that file which happens to have  *)
(* this node's index is exported as this node's route, without an error in *)
(* formats 1 and up (the result of READ_PROT_NVM is not tested,            *)
(* controller_nvm.c:1258-1262).                                            *)
LastRouteFileRead(n) ==
  {p \in 1 .. n - 1 : /\ out[p] # NoNode
                      /\ p \in mask["ROUTECACHE_EXIST"]
                      /\ RouteFile(p) \in routeKeys}

RouteSource(n) ==
  IF RouteFile(n) \in routeKeys THEN RouteAt(n)
  ELSE IF LastRouteFileRead(n) = {} THEN BlankRoute
  ELSE LET p == CHOOSE p \in LastRouteFileRead(n) :
                  \A q \in LastRouteFileRead(n) : q <= p
       IN  routeFile[RouteFile(p)][RouteSlot(n)]

ExportedRoutesHaveSource ==
  stage = "export" =>
    \A n \in NodeId :
      out[n] # NoNode =>
        [lwr |-> out[n].lwr, nlwr |-> out[n].nlwr] =
          IF n \in mask["ROUTECACHE_EXIST"]
            THEN RouteSource(n)
            ELSE [lwr |-> NoLine, nlwr |-> NoLine]
==============================================================================
