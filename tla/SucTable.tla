------------------------------ MODULE SucTable -------------------------------
(***************************************************************************)
(* The list of updates a SUC (static update controller) keeps for the      *)
(* other controllers: "suc_node_list_to_json" and                          *)
(* "suc_node_list_v5_to_json" export it as the array "sucUpdateEntries",   *)
(* "parse_suc_state_json" and "parse_suc_state_json_nvm719" store such an  *)
(* array in an empty NVM.                                                  *)
(*                                                                         *)
(* Up to format 4 the list is one file ("whole"), in format 5 a file for   *)
(* each eight updates ("split"); a migration reads one form and may write  *)
(* the other.  The exporter drops the empty entries, so the array has no   *)
(* holes, and the importer stores entry i of the array at place i.  Nodes  *)
(* refer to updates by place ("sucUpdateIndex"), and that number is copied *)
(* as it is.                                                               *)
(*                                                                         *)
(* A trip is an import and the export of what it stored.                   *)
(***************************************************************************)
EXTENDS Nvm3Files, Sequences, FiniteSets

CONSTANTS
  MaxUpdates,    \* SUC_MAX_UPDATES
  PerFile,       \* SUCNODES_PER_FILE
  ParmMax,       \* SUC_UPDATE_NODEPARM_MAX
  ByteModulus,   \* 2^8: numbers of the document become uint8_t
  Mark,          \* 0xEF, between supported and controlled classes
  Documents,     \* the arrays a run may start from
  Tables,        \* the lists of a device a run may start from
  MaxTrips,      \* bound on the number of imports
  WritesMayFail  \* whether nvm3_writeData may return an error

ASSUME SizesAssumption ==
  /\ MaxUpdates \in Nat \ {0}
  /\ PerFile \in Nat \ {0}
  /\ MaxUpdates % PerFile = 0
  /\ ParmMax \in Nat \ {0}
  /\ ByteModulus \in Nat \ {0, 1}
  /\ Mark \in 1 .. ByteModulus - 1
  /\ MaxTrips \in Nat \ {0}
  /\ WritesMayFail \in BOOLEAN

FileForm == {"whole", "split"}
Place == 1 .. MaxUpdates
Byte == 0 .. ByteModulus - 1

(* SUC_UPDATE_ENTRY_STRUCT, and an element of "sucUpdateEntries".          *)
Entry == [NodeID: Byte, changeType: Byte, nodeInfo: [1 .. ParmMax -> Byte]]
Update == [nodeId: Int, changeType: Int, supportedCCs: Seq(Int), controlledCCs: Seq(Int)]

ASSUME InputAssumption ==
  /\ \A t \in Tables : \A p \in Place : t[p] \in Entry
  /\ \A d \in Documents : d \in Seq(Update)

Filled(byte) ==
  [NodeID |-> byte, changeType |-> byte, nodeInfo |-> [k \in 1 .. ParmMax |-> byte]]

ZeroEntry == Filled(0)
UnusedEntry == Filled(ByteModulus - 1)

EmptyIds == {0, ByteModulus - 1}
InUse(e) == e.NodeID \notin EmptyIds

(* FILE_ID_SUCNODELIST, or FILE_ID_SUCNODELIST_BASE_V5 and its successors. *)
SlotsPerFile(g) == IF g = "whole" THEN MaxUpdates ELSE PerFile
Files(g) == FileNumbers(MaxUpdates, SlotsPerFile(g))

VARIABLES
  generation,   \* form of the list in the NVM at hand
  stage,        \* "import", "stored", "export", "exported"
  file,         \* contents of the files, [Files -> [0 .. -> Entry]]
  present,      \* the files that exist
  damaged,      \* the files that cannot be read
  at,           \* import: number of the next file; export: next place
  doc,          \* "sucUpdateEntries", as given or as far as it is written
  given,        \* the array of the last import
  importError,  \* nvm3_error_detected of the importing process
  exportError,  \* nvm3_error_detected of the exporting process
  trips         \* imports begun

nvmVars == <<generation, file, present, damaged>>
vars == <<nvmVars, stage, at, doc, given, importError, exportError, trips>>

SlotsOf(g) == 0 .. SlotsPerFile(g) - 1
BlankFiles(g) == [f \in Files(g) |-> [s \in SlotsOf(g) |-> ZeroEntry]]

------------------------------------------------------------------------------
(***************************************************************************)
(* An entry and its JSON object                                            *)
(***************************************************************************)

AsByte(n) == n % ByteModulus
AsBytes(ns) == [k \in 1 .. Len(ns) |-> AsByte(ns[k])]

(* A fault: the mark is left out when no class is controlled.              *)
PackedWithoutMark(u) ==
  LET bytes == IF u.controlledCCs = <<>>
                 THEN AsBytes(u.supportedCCs)
                 ELSE AsBytes(u.supportedCCs \o u.controlledCCs)
  IN  [NodeID |-> AsByte(u.nodeId), changeType |-> AsByte(u.changeType),
       nodeInfo |-> [k \in 1 .. ParmMax |-> IF k <= Len(bytes) THEN bytes[k] ELSE 0]]

(* Supported classes, the mark, controlled classes, each as far as there   *)
(* is room; zeros behind.                                                  *)
Packed(u) ==
  LET bytes == AsBytes(u.supportedCCs) \o <<Mark>> \o AsBytes(u.controlledCCs)
  IN  [NodeID |-> AsByte(u.nodeId), changeType |-> AsByte(u.changeType),
       nodeInfo |-> [k \in 1 .. ParmMax |-> IF k <= Len(bytes) THEN bytes[k] ELSE 0]]

(* Zeros are skipped wherever they are, and every mark after the first.    *)
AfterMark(info, k) == \E j \in 1 .. k - 1 : info[j] = Mark
Classes(info, controlled) ==
  LET taken == {k \in 1 .. ParmMax :
                  info[k] \notin {0, Mark} /\ AfterMark(info, k) = controlled}
      place(i) == CHOOSE k \in taken : Cardinality({j \in taken : j <= k}) = i
  IN  [i \in 1 .. Cardinality(taken) |-> info[place(i)]]

Listed(e) ==
  [nodeId |-> e.NodeID, changeType |-> e.changeType,
   supportedCCs |-> Classes(e.nodeInfo, FALSE),
   controlledCCs |-> Classes(e.nodeInfo, TRUE)]

------------------------------------------------------------------------------
(***************************************************************************)
(* The list in the NVM                                                     *)
(***************************************************************************)

FileAt(p) == FileOf(p, SlotsPerFile(generation))
SlotAt(p) == SlotOf(p, SlotsPerFile(generation))

(* What is at a place, and what the exporter's zeroed buffer has of it.    *)
Held(p) == IF FileAt(p) \in present THEN file[FileAt(p)][SlotAt(p)] ELSE ZeroEntry
Read(p) == IF FileAt(p) \in damaged THEN ZeroEntry ELSE Held(p)

(* A missing file is an error of the one-file form only; the files of      *)
(* format 5 are optional.                                                  *)
ReadFails(p) ==
  \/ FileAt(p) \in damaged
  \/ FileAt(p) \notin present /\ generation = "whole"

(* A run starts from a document, or from the NVM of a device, where any    *)
(* entry may be empty and files may be missing or unreadable.              *)
DocumentInit ==
  /\ stage = "import"
  /\ generation \in FileForm
  /\ file = BlankFiles(generation)
  /\ present = {} /\ damaged = {}
  /\ at = 0
  /\ doc \in Documents
  /\ given = doc
  /\ trips = 1

DeviceInit ==
  /\ stage = "stored"
  /\ generation \in FileForm
  /\ \E t \in Tables :
       file = [f \in Files(generation) |-> [s \in SlotsOf(generation) |->
                 t[RecordAt(f, s, SlotsPerFile(generation))]]]
  /\ present \in SUBSET Files(generation)
  /\ damaged \in SUBSET present
  /\ at = 0
  /\ doc = <<>>
  /\ given = <<>>
  /\ trips = 0

Init ==
  /\ DocumentInit \/ DeviceInit
  /\ importError = FALSE
  /\ exportError = FALSE

------------------------------------------------------------------------------
(***************************************************************************)
(* Import                                                                  *)
(***************************************************************************)

(* The one file is written in any case; of the others as many as have an   *)
(* entry of the array, up to MaxUpdates entries.                           *)
HasFile(f) ==
  /\ f \in Files(generation)
  /\ generation = "whole" \/ f * PerFile < Len(doc)

(* A fault: one entry too few.                                             *)
FileContentsShort(f) ==
  [s \in SlotsOf(generation) |->
     LET i == RecordAt(f, s, SlotsPerFile(generation))
     IN  IF i < Len(doc) THEN Packed(doc[i]) ELSE UnusedEntry]

FileContents(f) ==
  [s \in SlotsOf(generation) |->
     LET i == RecordAt(f, s, SlotsPerFile(generation))
     IN  IF i <= Len(doc) THEN Packed(doc[i]) ELSE UnusedEntry]

(* One turn of the importer's outer loop.                                  *)
StoreFile ==
  /\ stage = "import"
  /\ HasFile(at)
  /\ at' = at + 1
  /\ \E ok \in IF WritesMayFail THEN BOOLEAN ELSE {TRUE} :
       /\ importError' = (importError \/ ~ok)
       /\ IF ok
            THEN /\ file' = [file EXCEPT ![at] = FileContents(at)]
                 /\ present' = present \cup {at}
            ELSE UNCHANGED <<file, present>>
  /\ UNCHANGED <<generation, damaged, stage, doc, given, exportError, trips>>

EndImport ==
  /\ stage = "import"
  /\ ~HasFile(at)
  /\ stage' = "stored"
  /\ UNCHANGED <<nvmVars, at, doc, given, importError, exportError, trips>>

------------------------------------------------------------------------------
(***************************************************************************)
(* Export                                                                  *)
(***************************************************************************)

BeginExport ==
  /\ stage = "stored"
  /\ stage' = "export"
  /\ at' = 1
  /\ doc' = <<>>
  /\ exportError' = FALSE
  /\ UNCHANGED <<nvmVars, given, importError, trips>>

(* A fault: an empty place gets an element of its own.                     *)
ExportPlaceAsIs ==
  /\ stage = "export"
  /\ at \in Place
  /\ at' = at + 1
  /\ doc' = Append(doc, Listed(Read(at)))
  /\ exportError' = (exportError \/ (SlotAt(at) = 0 /\ ReadFails(at)))
  /\ UNCHANGED <<nvmVars, stage, given, importError, trips>>

(* One turn of the exporter's loop over the places; the file is read when  *)
(* its first place is reached.                                             *)
ExportPlace ==
  /\ stage = "export"
  /\ at \in Place
  /\ at' = at + 1
  /\ doc' = IF InUse(Read(at)) THEN Append(doc, Listed(Read(at))) ELSE doc
  /\ exportError' = (exportError \/ (SlotAt(at) = 0 /\ ReadFails(at)))
  /\ UNCHANGED <<nvmVars, stage, given, importError, trips>>

EndExport ==
  /\ stage = "export"
  /\ at \notin Place
  /\ stage' = "exported"
  /\ UNCHANGED <<nvmVars, at, doc, given, importError, exportError, trips>>

(* The exported array is imported into an empty NVM of the same version or *)
(* of a later one.                                                         *)
BeginImport ==
  /\ stage = "exported"
  /\ trips < MaxTrips
  /\ trips' = trips + 1
  /\ stage' = "import"
  /\ at' = 0
  /\ given' = doc
  /\ generation' \in {generation, "split"}
  /\ file' = BlankFiles(generation')
  /\ present' = {} /\ damaged' = {}
  /\ importError' = FALSE
  /\ UNCHANGED <<doc, exportError>>

Next ==
  \/ StoreFile \/ EndImport
  \/ BeginExport \/ ExportPlace \/ EndExport
  \/ BeginImport

Spec == Init /\ [][Next]_vars

------------------------------------------------------------------------------
(***************************************************************************)
(* Properties                                                              *)
(***************************************************************************)

TypeOK ==
  /\ generation \in FileForm
  /\ stage \in {"import", "stored", "export", "exported"}
  /\ file \in [Files(generation) -> [SlotsOf(generation) -> Entry]]
  /\ present \subseteq Files(generation)
  /\ damaged \subseteq present
  /\ at \in Nat
  /\ doc \in Seq(Update)
  /\ given \in Seq(Update)
  /\ importError \in BOOLEAN
  /\ exportError \in BOOLEAN
  /\ trips \in 0 .. MaxTrips

(* The importer stores entry i at place i, in either form of the table and *)
(* however the files are divided, and marks the places behind the array as *)
(* unused: no entry is in a second place, none is lost at the end of a     *)
(* file, and a file that could not be written is not there at all.         *)
StoredAtOwnPlace ==
  stage \in {"import", "stored"} /\ trips > 0 =>
    \A p \in Place :
      Held(p) = IF FileAt(p) \notin present THEN ZeroEntry
                ELSE IF p <= Len(doc) THEN Packed(doc[p]) ELSE UnusedEntry

(* The exporter closes the gaps: the array has one element for each place  *)
(* in use that could be read, and the element of a place is at the number  *)
(* of such places up to it.  An update keeps its index exactly if no place *)
(* before it is empty or unreadable (controller_nvm.c:1001, 1050), while   *)
(* the nodes keep theirs.                                                  *)
Used(p) == InUse(Read(p))
UsedUpTo(n) == {p \in 1 .. n : Used(p)}
Rank(p) == Cardinality(UsedUpTo(p))
DocumentListsTable ==
  stage = "exported" =>
    /\ Len(doc) = Rank(MaxUpdates)
    /\ \A p \in Place : Used(p) => doc[Rank(p)] = Listed(Read(p))

Elements(s) == {s[k] : k \in 1 .. Len(s)}

(* What the fields of an update must be for a table entry to hold it; the  *)
(* mark has a byte of its own unless the supported classes fill the entry. *)
IsByte(n) == n \in Byte
Fits(u) ==
  /\ IsByte(u.nodeId) /\ u.nodeId \notin EmptyIds
  /\ IsByte(u.changeType)
  /\ \A cc \in Elements(u.supportedCCs \o u.controlledCCs) : IsByte(cc) /\ cc \notin {0, Mark}
  /\ \/ Len(u.supportedCCs) + Len(u.controlledCCs) < ParmMax
     \/ Len(u.supportedCCs) = ParmMax /\ u.controlledCCs = <<>>

(* An array of updates that fit comes back as it was, up to the number of  *)
(* places of the table; a write that failed is in the error flag of the    *)
(* import, and a file of the first form that is missing for it is in that  *)
(* of the export.                                                          *)
RoundTrip ==
  stage = "exported" /\ trips > 0 /\ (\A i \in 1 .. Len(given) : Fits(given[i])) =>
    LET kept == IF Len(given) < MaxUpdates THEN Len(given) ELSE MaxUpdates
    IN  /\ doc = SubSeq(given, 1, kept) \/ importError
        /\ exportError <=> generation = "whole" /\ importError

(* Whatever the first document or the table of the device was, with        *)
(* classes out of place, too many of them or numbers wider than a byte, an *)
(* exported array is a fixed point of import and export.                   *)
TripsSettle ==
  stage = "exported" /\ ~importError /\ trips > 1 => doc = given
==============================================================================
