# A TLA+ development of the Z-Wave NVM migration tool

The tool converts the non-volatile memory of a Z-Wave controller (an *NVM image*) to JSON and
back, and upgrades it to another protocol version on the way. Nothing in it runs concurrently.
What is hard about it is order, sharing and repetition: files shared by several nodes and built by
read-modify-write in the order of JSON keys, buffers that outlive a loop turn, statics that outlive
a conversion, two tables of the same versions in different source files, files written at a place
chosen by one rule and looked for at a place chosen by another, errors that are recorded and not
acted on, and users who export, upgrade, import and migrate in any sequence.

This directory holds TLA+ modules for these parts, configurations for TLC, and theorems whose proofs
TLAPS checks: each safety and action property that the runs show on small instances is proved for
all values of the constants, except the one that a run refutes. Paths below are relative to `src/zw_nvm_converter/` unless
they name `zwave_nvm_tool.c` or the repository's `README.md`. "controller_nvm.c" is
`controllerlib_7.xx/controller_nvm.c`.

## 1. Inventory of the system

| Component | Source | State | Operations |
|---|---|---|---|
| Command line and modes | `zwave_nvm_tool.c` | the request | `main`, `parse_main_args`, `zw_nvm_migrate` |
| Output file names | `nvmconv_main.c:77-101, 164-196`, `json_upgrade.c:479-499` | a name of 256 characters | one derivation for each mode |
| Conversions | `nvmconv_main.c`, `controllerlib_7.xx/api_wrappers.c` | image buffer, JSON object, exit status | `zw_nvm_to_json`, `zw_json_to_nvm`, `nvmlib_*` |
| Controller NVM | `controller_nvm.c` | `nvm3_app_handle`, `nvm3_protocol_handle`, `hardware_info`, target versions | `open_`, `check_`, `close_controller_nvm`, `get_controller_nvm_image`, `controller_info_nvm_get_json`, `controller_parse_json` |
| Node table | `controller_nvm.c:1109-1277, 1795-1931` | node-info files, route-cache files, node masks | `parse_node_table_json`, `node_table_to_json` |
| Long Range node table | `controller_nvm.c:1280-1372, 1934-2025` | info files, power files, mask | `parse_lr_node_table_json`, `lr_node_table_to_json` |
| Controller information | `controller_nvm.c:1374-1680, 2344-2694` | one file per group of fields | three generations (7.11, 7.15, 7.19) of an exporter and of a parser |
| SUC update table | `controller_nvm.c:989-1080, 2027-2131` | list of updates in one or several files | two pairs of functions |
| Versions and layouts | `controller_nvm.c:335-592, 2697-2764`, `libs/json_upgrade/json_upgrade.c:231-327` | none (rules) | `set_target_version`, `json_get_nvm_layout`, `get_*_format_from_version` |
| Schema upgrade | `libs/json_upgrade/json_upgrade.c`, `schema-json/` | the JSON document | `upgrade_json_to_version` |
| NVM3 access | `controllerlib_7.xx/nvm3_helpers.c` | `nvm3_error_detected` | read, write, dump, names |
| JSON helpers | `libs/json_helpers/json_helpers.c` | `parse_error_detected`, the registered root | typed access to keys |
| Node masks | `controllerlib_7.xx/zwave/ZW_nodemask.c`, `json_helpers.c:44-76, 166-183, 312-333` | bits | set, clear, test, count, next node, to and from an array |
| Codecs | `libs/app_utils/base64.c`, `libs/bin2hex/bin2hex.c` | none | encode, decode |
| Messages | `libs/app_utils/user_message.c` | message level | print |

**How they interact.** `main` takes one request and calls one conversion, or in a migration three
of them in the same process. A conversion opens the NVM3 instances of a layout (one instance for
800 series images from 7.19 on, an application and a protocol instance otherwise), calls the
exporter or the parser, and closes them. Exporter and parser share the handles, `hardware_info`,
the target versions and the two error flags through file-level statics; the JSON document goes from
one to the next by pointer in a migration and through files otherwise. Exporter and parser pick a
*generation* of the controller information by protocol version, then call the two node tables,
which see only the protocol instance and the format number. The schema upgrade knows none of this:
it edits the document by the schema file alone.

**What makes each correct.**

- *Node tables*: the slot of a node holds that node and nothing of a neighbour; each mask bit
  belongs to an entry; import followed by export gives back the nodes of the document.
- *Controller information*: every value that fits its field comes back, in each of the three
  generations; of the keys it is known which ones are lost, and by what.
- *SUC table*: entry i of the document is at place i; the array lists the places in use in order.
- *Node masks*: they are sets of nodes, also while a caller changes the mask it walks over. (Only
  setting, testing and the conversions have callers in the tool; clearing one bit, counting and the
  search have none.)
- *Codecs, bit fields, command line, names*: what goes in comes out, within ranges that are known;
  it is known which names of outputs coincide with each other or with an input.
- *Versions and layouts*: the two tables agree; each file is looked for where it was written;
  the structure of a file is read as it was written; the series limit is the documented one; the
  version an image carries, cut to bytes, decides like the one that was asked for.
- *Schema upgrade*: no value is lost or overwritten by a default; the importer finds what it
  requires; two upgrades do what one does; upgrading again changes nothing.
- *Conversions*: no handle stays open; the image is for the part and version asked for; each part
  of the controller information survives every sequence of runs that can carry it; an image has all
  its instances; the exit status tells whether there is an output.

The hazards at which these are aimed are listed with their lines in `PROJECT.json`.

## 2. Modules

```
Nvm3Files ──┬── NodeTable ──┬── MCNodeTable
            │               └── NodeTableMap ─┬─ MCNodeTableMap       (implements NetworkMap)
            │                                 └─ NodeTableProofs
            ├── LrNodeTable ──┬── MCLrNodeTable
            │                 └── LrNodeTableProofs
            ├── SucTable ──┬── MCSucTable
            │              └── SucTableProofs
            └── NodeMask ──┬── MCNodeMask                             (implements NodeSet)
                           └── NodeMaskProofs

VersionRules ──┬── VersionChoice ── ValueRulesProofs                  (extends also ControllerInfo)
               ├── SchemaRules ──┬── SchemaUpgrade ──┬── MCSchemaUpgrade
               │                 │                   └── SchemaUpgradeProofs
               │                 └── MigrationTool ──┬── MCMigrationTool
               │                                     └── MigrationToolProofs
               └── ControllerInfo (with Base64) ── MCControllerInfo

Nvm3Files, VersionRules, Base64 ── StorageRulesProofs (lemmas that all modules of proofs extend)

NodeInfo, Base64, HexFile, Arguments, OutputNames ── Values ──┬── MCValues
                                                              └── ValueRulesProofs
```

**`Nvm3Files`** has the arithmetic of files that hold several records: record *n* is in file
`(n-1) \div perFile`, slot `(n-1) % perFile`.

**`NodeTable`** is the table of classic nodes. The importer's loop over the keys of `"nodes"` is
`ImportEntry` (a node number in 1..232) or `SkipEntry`; TLC chooses the order of keys and the node
of each key, so every order of every document is explored. One `ImportEntry` is a whole loop turn:
load the shared info file if it exists, change one slot, write the file; set the bits of the node
in the masks on the stack; load, change and write the route file. `StoreMasks` is the end of the
function, where each mask is written on its own. The exporter is `LoadMasks`, then one turn per node
number, `ExportNode` or `PassNode`. `route_cache_buf` is the exporter's buffer, which is not cleared
between nodes. Write errors are a nondeterministic result of each write (`WritesMayFail`), the
rejected node numbers come from keys outside the range and from keys congruent modulo `IdModulus`
(the assignment of `atoi` to a `uint16_t`). A node description is its wake-up mode and one value for
the rest; a route line is one value.

**`NetworkMap`** is what a backup promises: a map from node numbers to nodes that is filled, sealed
and reported in one piece. It has no files, masks or buffers. **`NodeTableMap`** gives the refinement
mapping: a node is in the map if its bit is in the mask (on the stack while importing, in the file
afterwards), and its value is put together from its two slots and its bits.

**`LrNodeTable`** is the table of Long Range nodes for formats 1 to 4, over several *trips* of
import and export, each trip importing what the previous one exported. The importer's power buffer
is a variable because it outlives the loop turn; a byte of format 2 is a record of two halves, each
a set of bits, so that `|=` is a union. The import is one step per entry as above, the export one
step, as its function keeps nothing from one node to the next.

**`SucTable`** is the list of SUC updates in its two forms: one file up to format 4, a file for each
eight entries in format 5. It starts from a document or from the table of a device (with gaps,
missing files and files that cannot be read) and does trips; a migration may read one form and write
the other, so each import chooses its form. The importer writes one file per step, each write may
fail, and the exporter visits one place per step, leaving out the empty ones. An entry holds the
supported command classes, a mark and the controlled ones, cut to the size of the entry
(`Packed`, `Listed`).

**`NodeMask`** has the functions of `ZW_nodemask.c` and the two conversions of `json_helpers.c` on
a mask of any length, one loop turn a step. Bytes are sets of bits. Between two calls the caller may
change the mask, which is how `walk` (history of a walk with `ZW_NodeMaskGetNextNode`) gets
interesting. **`NodeSet`** is the abstract specification: a set of nodes that is changed, searched,
listed and counted in one step each. Searching, listing and loading stop at 232 nodes whatever the
length of the mask, counting does not.

**`ControllerInfo`** is the object `"controller"` with every key, for the parsers and exporters of
7.11, 7.15 and 7.19: its width in the file, its default, the structures of the radio configuration,
the application data (Base64), and what a parser does when a key or a list is missing. `Begin`,
`Classes`, `Config`, `Updates`, `Data`, `WriteFiles` are the parser in its order with its early
returns; `Export` reads the files back and gives the document of the next trip. One file chosen by
TLC cannot be written.

**`NodeInfo`**, **`Base64`**, **`HexFile`**, **`Arguments`** and **`OutputNames`** have no variables.
They are the bytes of a node and of a route, the encoder and the decoder, the rows of a HEX file,
the option loop with `getopt` (the C library's, external: it moves operands behind options while the
tool reads fixed positions of `argv`), and the names of output files. **`Values`** stores and
fetches one value of one kind and, for nodes and routes, repeats it with what came back. What loops
over words or bytes is written as a function of the position, or as a fold, and functions are joined
with `++` and `Single` of `ControllerInfo` instead of `@@` and `:>`, which have no definition that a
proof could use.

**`VersionRules`** has no variables: the table of formats of the importer (`ImportFormat7`) and the
one of the upgrade (`UpgradeFormat7`), each translated from its own source, comparison of versions, layout and chip of a part number, sizes of images, instance and key of each file when
written (`WrittenAt`) and when read (`ReadAt`), the structure of the radio configuration on both
sides. Versions are triples of numbers; `Text` gives the text where the code compares text.
**`VersionChoice`** is a state machine whose states are the version and part number asked for, so
that TLC evaluates the rules over all of them and an action property can compare a version with a
later one.

**`SchemaRules`** has the keys of the schema file by section with `createdVersion`, `created`,
`removed` and defaults, and the functions that apply them to an object. **`SchemaUpgrade`** is a
document with one object for each section (controller, configuration, command classes, SUC entry,
node, Long Range node) under a sequence of upgrades. It starts as an exported document of some
version, whole or with one key or object removed or added.

**`MigrationTool`** is the tool as its user sees it: runs of the four modes, one after the other,
over the files *given*, *made*, *exported*, *upgraded*. Within a run, each call that may fail is a
step (open, check, export, upgrade, save, layout, open, parse, take image, write image). The
controller information is a set of *parts*: groups of keys that are stored in the same file and
exist in the same versions. An image maps places (instance, key) to contents. `lost` and `path`
record which objects could not be written and which versions the contents came through; they are
history and no action reads them.

Definitions whose comment begins with "A fault" are mutated forms of the definition they stand
next to (a buffer not loaded, a wrong index, a flag not raised). No behaviour uses them; they are
named in `PROJECT.json` to confirm that each property fails when the code has that fault.

The modules compose where the components share something: the two node tables and the SUC table
share the arithmetic of `Nvm3Files`; `ControllerInfo` and `MigrationTool` take formats and places
from `VersionRules`; `MigrationTool` takes existence of keys from `SchemaRules`; `ControllerInfo`
takes its texts from `Base64`. `MigrationTool` is the composition of conversion, upgrade and
migration; what it has as one part is taken apart in `ControllerInfo` and `SucTable`.

## 3. Runs

| Run | Question | Properties | Bounds |
|---|---|---|---|
| `NodeTable_grouped` | Does each node keep its own slot, bits and object when files are shared, in every order of entries? | `UniqueEntriesStored`, `MasksMatchEntries`, `RoundTrip`, `ImplementsNetworkMap` | format 2, 4 nodes, 2 infos and 3 routes per file, 6 keys of which one is 0 and two name node 1, 4 kinds of node |
| `NodeTable_write_errors` | What holds when any write fails? | `DroppedNodesReported` | format 0, 3 nodes, 4 keys, 2 kinds of node |
| `NodeTable_images` | Where do exported routes come from when files are missing? | `ExportedRoutesHaveSource` | 5 nodes, every subset of files and of two masks |
| `LrNodeTable_trips` | What do trips keep, and whose bits are in a power? | `RoundTrip`, `PowersFromOwnPlace`, `LaterTripsStable` | formats 1 to 4, 3 nodes in 2 info files and 2 power files, 5 keys, 2 trips, failing writes |
| `SucTable_trips` | Which place does an update go to and come from? | `DocumentListsTable`, `RoundTrip`, `TripsSettle` | 4 places in files of 2 and of 4, 3 classes to an entry, bytes of 3 bits, arrays of up to 5 updates, all tables of 5 kinds of entry, 2 trips, failing writes |
| `NodeMask` | Are masks sets of nodes in every sequence of calls? | `WalkFindsNodes`, `ListLoaded`, `ImplementsNodeSet` | 3 bytes of 2 bits, 2 of them for classic nodes, a counter modulo 4, 3 arrays |
| `ControllerInfo` | Which values and keys come back? | `ValuesComeBack`, `KeysComeBack`, `TripsSettle` | 9 targets of all generations, structures and layouts; values inside, at the edge of and outside of each field; missing keys; one of 7 files not writable |
| `Values` | Do bit fields, texts, HEX files, command lines and names come out as they went in? | `NodesComeBack`, `NodesSettle`, `TextsComeBack`, `HexReadsBack`, `FieldsAsTyped`, `OutputsApart` | below |
| `VersionChoice` | Do the two tables, the two directions and the version asked for and stored agree? | `UpgradeAgreesWithImport`, `StampTakenBack`, `SeriesLimit`, `FilesFoundAgain`, `ConfigurationShapeAgrees` | 6 x 23 x 9 versions around every boundary (also 10, 100, 210 for text order, 256 to 259 for width), 4 parts |
| `SchemaUpgrade_versions` | Does an upgrade keep, complete and settle a document? | `Settled`, `StepwiseAsDirect`, `ImporterServed`, `ExportedKeysKept`, `ValuesKept` | 4 source and 5 target versions, one for each interval in which the keys differ; 2 upgrades |
| `MigrationTool_runs` | What survives sequences of runs, and what do handles, flags and exit status say? | `HandlesFree`, `PartsKept`, `MadeAsAsked`, `CleanImageReadsClean`, `NoInstanceMissing`, `StatusTellsOutput` | 7 images (one with application data at its default), 5 targets (7.15.259 does not fit bytes), 3 parts, 3 runs, failing opens and outputs, a failing write of the version file |
| `MigrationTool_errors` | Does a recorded error fail the conversion? It does not (section 5). | `ErrorsFailTheConversion` | as above, 2 runs |

**Why the bounds are enough.** Files of 2 and 3 records give every situation that files of 4 and 8
have: first and last slot, two nodes that share one kind of file and not the other, a file that
exists and one that does not. Six keys include a number out of range and a pair that names one node.
For Long Range powers three nodes are two halves of one byte and the first half of another file.
Two trips show what a trip does to its own output; a third repeats it (the export of the second trip
has the form of the first). Routes need three (`NodesSettle`), and get them. Three runs of the tool
are export, upgrade, import, or a migration of a migrated image with one run between.

In `NodeMask` a byte of two bits has a first and a last one, the mask is longer than the classic
part, and six nodes exceed what a counter modulo 4 counts. In `SucTable` arrays may be longer than
the table, classes fill an entry or exceed it, and are equal to the mark or zero; numbers exceed a
byte. `Values` has: all combinations of node keys within capability and within security (no bit of
one is in the other), byte strings of every length to 28 with line limits 0, 1, 4, 5, 8, 10 and 76;
HEX rows of 4 bytes in segments of 8 addresses of paragraphs of 4, so that rows end before, at and
after a segment, with files that break off at several places; every line of up to 3 words from 7
and lines of 5 and 6; names on both sides of each limit of a buffer of 48 characters.

**What they show.**

- `UniqueEntriesStored`: read-modify-write of a shared file loses nothing and mixes nothing,
  whatever the order and with several keys that name one node. `MasksMatchEntries`: masks and files
  announce the same nodes.
- `RoundTrip` of `NodeTable`: without a write error, the export has the nodes of the document and no
  other. It also says what does *not* come back: both pending flags are false, a wake-up string is
  "1000ms", and the missing half of a route is unwritten bytes.
- `ImplementsNetworkMap`: the above as a refinement, with the liveness of the abstract specification.
- `DroppedNodesReported`: a node of the mask without a file is left out, and the error flag is raised
  for this and for unreadable masks only. `ExportedRoutesHaveSource`: if a route file is missing, the
  routes that come out are the ones of the last file read, at the index of this node; the property
  names the source exactly.
- `PowersFromOwnPlace`: in format 2 a stored power has all its own bits, and others only of nodes at
  the same place of another file; in format 3 it is exact. `LaterTripsStable`: later trips change no
  description; powers of format 3 become zero (section 5).
- `DocumentListsTable`, `RoundTrip`, `TripsSettle` of `SucTable`: an exported array has the places in
  use in order, so an update keeps its index exactly if no place before it is empty; arrays that fit
  come back; what was exported once is a fixed point.
- `ImplementsNodeSet`, `WalkFindsNodes`, `ListLoaded`: see `NodeSet`; the count is the number of
  nodes modulo the width of its counter.
- `ValuesComeBack`, `KeysComeBack`, `TripsSettle` of `ControllerInfo`: what fits a field comes back
  in every generation; the keys that do not come back are named with the reason.
- `NodesComeBack`, `NodesSettle`: flags do not spill into each other; outside the ranges a value may
  change once (a route twice) and then stays. `TextsComeBack`: the encoder stays within the memory it
  asked for. `HexReadsBack`, `FieldsAsTyped`, `OutputsApart`: what files can be read, which command
  lines mean what they say, and when two outputs are the same file.
- `UpgradeAgreesWithImport`, `SeriesLimit`, `FilesFoundAgain`, `ConfigurationShapeAgrees`: the
  duplicated rules agree, with the exception of the DC/DC file that `FilesFoundAgain` names. The
  tables of importer and upgrade are two operators; their rows
  of minor versions are divided differently, as they are in the two sources. The text
  comparison with "7.21" admits texts like "7.100" and "7.2", none of which is a supported version of
  7.22 or later.
- `StampTakenBack`: an image stores a version as three bytes, and layout, formats, generation and
  structure of the configuration are chosen once by the number asked for and again by the number
  stored. Only the patch of a 7.x version can be cut (the other numbers are checked against the
  tables); the choices are the same, except that the structure of 7.15 and of 7.18 depends on the
  patch, so that 7.15.256 is written as 7.15.3 and later are and read as 7.15.0 is.
- `Settled`, `StepwiseAsDirect`, `ValuesKept`, `ExportedKeysKept`, `ImporterServed`: the upgrade is
  idempotent, composes, keeps values and completes documents, up to the gaps of the schema that
  `Gaps` lists by key.
- `HandlesFree`, `NoInstanceMissing`, `MadeAsAsked`, `PartsKept`, `CleanImageReadsClean`,
  `StatusTellsOutput`: see section 1. `MadeAsAsked` has a chip for both layouts of the 800 series:
  before 7.19 every image is taken for an EFR32XG23, whatever part was asked for, and from 7.19 on
  the chip found is the part. Of the version, major and minor number are as asked, the patch modulo
  256. `NoInstanceMissing` is of interest because
  `nvmlib_json_to_nvm_common` does not look at the result of `open_controller_nvm`; it is
  `get_controller_nvm_image` that saves it.

**Deadlock.** A conversion ends, and so do bounded sequences of runs, trips and upgrades; the
configurations of these modules turn the deadlock check off. `VersionChoice` and `NodeMask` have no
end and are checked for deadlock.

**Fairness.** `FairSpec` of `NodeTable` has weak fairness of `StoreMasks`, `LoadMasks`,
`ExportNode` and `PassNode` together: the program is one thread whose loops are bounded by the number
of keys and of nodes, and it does not wait. No fairness is asked of `ImportEntry`: the document is
finite, and `StoreMasks` may happen after any number of entries, which stands for documents of any
size. The other modules need none.

## 4. Proofs

Each theorem holds for every value of the constants that satisfies the module's assumptions; the
one that needs more says so.

| Module | Theorem | Statement |
|---|---|---|
| `NodeTableProofs` | `TypeCorrect` | `Spec => [](TypeOK /\ AbsentFilesBlank)` |
| | `ContentsCorrect` | `SlotsHoldOwnNode`, `UniqueEntriesStored` and `MasksMatchEntries` always hold |
| | `EntriesStored`, `MasksCorrect` | `Spec => []UniqueEntriesStored`, `Spec => []MasksMatchEntries` |
| | `NeighboursKept` | `Spec => OtherSlotsUntouched` |
| | `RoundTripHolds`, `DropsReported`, `RoutesHaveSource` | `RoundTrip`, `DroppedNodesReported` and `ExportedRoutesHaveSource` always hold |
| | `TableIsMap` | the safety part of `ImplementsNetworkMap`, if no write fails and (in format 0) keys name different nodes |
| `LrNodeTableProofs` | `LrRoundTrip`, `LrPowersFromOwnPlace`, `LrLaterTripsStable` | `RoundTrip`, `PowersFromOwnPlace` and `LaterTripsStable` always hold |
| `SucTableProofs` | `TypeCorrect`, `PlacesCorrect` | `Spec => []TypeOK`, `Spec => []StoredAtOwnPlace` |
| | `ListingCorrect`, `ArraysComeBack`, `LaterTripsStable` | `DocumentListsTable`, `RoundTrip` and `TripsSettle` always hold |
| `NodeMaskProofs` | `TypeCorrect`, `ArraysLoad`, `WalksComplete` | `TypeOK`, `ListLoaded` and `WalkFindsNodes` always hold |
| | `MaskIsSet` | `Spec => ImplementsNodeSet`, a refinement |
| `ValueRulesProofs` | `UpgradeAgrees`, `StampReturns`, `SeriesLimitHolds`, `ConfigurationShape`, `FilesAreFound` | the five properties of the run of `VersionChoice`, for all version numbers |
| | `NodesReturn`, `NodesStable`, `OutputsStayApart` | `NodesComeBack`, `NodesSettle` and `OutputsApart` of `Values` always hold |
| | `TextsReturn`, `HexReturns`, `FieldsHold` | `TextsComeBack`, `HexReadsBack` and `FieldsAsTyped` of `Values` always hold |
| | `KeysReturn`, `ValuesReturn`, `TripsStable` | `KeysComeBack`, `ValuesComeBack` and `TripsSettle` of `ControllerInfo` |
| `SchemaUpgradeProofs` | `UpgradeSettles`, `UpgradeKeepsValues` | `Spec => []Settled`, `Spec => ValuesKept` |
| | `StepsAgree`, `ExportsKept`, `ImportsServed` | `StepwiseAsDirect`, `ExportedKeysKept` and `ImporterServed` always hold |
| `MigrationToolProofs` | `HandlesStayFree`, `StatusIsTrue`, `ImagesAreWhole` | `HandlesFree`, `StatusTellsOutput` and `NoInstanceMissing` always hold |
| | `NetworkKept`, `CleanIsReadClean` | `PartsKept` and `CleanImageReadsClean` always hold |
| | `MadeForTheAsked` | `MadeAsAsked` always holds, also for versions that do not fit bytes |

**Assumptions.** TLC evaluates each of them in the runs of its module.

- `SizesAssumption` and `InputAssumption` of `NodeTable`, `LrNodeTable` and `SucTable`: sizes are
  positive, the numbers of nodes fit their integers (232 < 2^16 in the code), files divide the SUC
  table evenly (8 divides 64), documents and tables have the fields they must have, special values
  are distinct.
- `ValuesAssumption`, `NamesAssumption`: a document's object has any of its keys, each with a value of
  its JSON type (integers of any size, also outside the ranges), a name is a stem with an extension,
  stems have lengths; files are sequences of bytes, the words of a command line are strings and none
  is NULL.
- `HexAssumption`: rows and paragraphs have bytes, and a segment has more addresses than either (16
  and 16 against 65536 in the code).
- `InfoAssumption`: a target has a version of bytes and the layout and chip that the rules give for
  some part and that version; documents have keys of the object `"controller"` with values of their
  JSON types; a word has at least twice the values of a byte; a name that is cut or too long is not
  the default one; what cannot be written is one of the files.
- `MaskAssumption`: the classic part is not longer than the mask, arrays name classic nodes.
- `ChoicesAssumption`, `UpgradeAssumption`, `ToolAssumption`: versions are triples of numbers (of
  those the upgrade accepts, in `SchemaUpgrade`), parts are part numbers.
- `ImagesAssumption`: an image given has one of the three layouts, and its version files hold bytes.
- `TableIsMap` asks for `~WritesMayFail`, as the run does, and for `Format > 0` or `KeysApart`. In
  format 0 the importer does not read a node back before it writes it. A second key of the same node
  then starts from a blank record and the first entry's routes are lost, which `NetworkMap` does not
  describe; TLC finds this with keys such as 1 and 1 + 2^16. Documents that the tool writes have one
  key for each node.

**`NodeTableProofs`.** The lemmas of `StorageRulesProofs` say that file and slot determine the record:
two nodes never share a place. `InfoWritten` and `RoutesWritten` derive from it what a
read-modify-write does to every slot, including the slots of files that did not exist. Types are
inductive with `AbsentFilesBlank`: the importer starts a missing file from unwritten bytes, so
without the fact that a missing file has none, a slot written earlier could vanish. `IInv` adds what
the tables hold relative to the entries visited; one step per action, and for `ImportEntry` one per
conjunct. `RoundTrip` is not inductive: `TripInv` adds `FilesPresent` (whatever a mask announces has
a file, also for a number with several entries) and `ExportProgress` (the exporter's masks are those
stored, and `out` has what the tables hold of the nodes below `node_id`). Without `FilesPresent` the
exporter could meet a node without a file and without an import error; without `ExportProgress`
nothing is known of `out` before the last node.

`ReportInv` is for exports of any image, where import errors and missing files are the subject: `out`
has the nodes below `node_id` that the mask announces and whose file is there, the flag is up exactly
for the unreadable ones below `node_id`, and `BufferSource` says of which file the exporter's buffer
is a copy. The last part is what makes `ExportedRoutesHaveSource` inductive, as the source of a
node's routes is decided by the nodes before it. `MapInv` carries the refinement: `TripInv` without
import errors, and `Described` (each node that an entry names has a description), without which the
map could hold a node that has no value. Each action is then one operation of the map
(`ImportPuts` for an entry, `StoreMasks` as the sealing, the last turn of the exporter as the report) or a
stutter.

**`LrNodeTableProofs`.** `TableInv` has one part for each thing that is shared: `Visits` (mask and
entries), `Infos` (each named node has the description of one of its entries), `PowersBounded` and
`PowersHeld` (from above and from below, which bits are in the power files *and in the importer's
buffer*, which outlives the loop turn), `Trips` (what a later trip imports is in the form of an
export) and `Stages` (stored mask, report, flag). The buffer is why `PowersFromOwnPlace` is not
inductive by itself: the bits of format 2 that a later file gets come from it. `InfoWritten`,
`PowerWritten` and `HalfBytes` are the lemmas on places and on the two halves of a byte.

**`SucTableProofs`.** `StoredFiles` says that each file there during an import holds its part of the
array; with the lemmas on places it gives `StoredAtOwnPlace`. For the export, `Listing(n)` says that
the array so far lists the places in use up to n; it is carried by `ExportProgress`. The step is that
the rank of a place in use is one more than the rank of the place before it, and of any other place
the same: a fact on cardinalities of `UsedUpTo`.

What comes back is decided by one entry and by the files. `PackedReadsBack`: an entry that fits is
listed as it was, since the first mark ends the supported classes and the first zero the controlled
ones; `ListedFits`: what the exporter lists of *any* entry fits, so the second trip starts from
entries that do. `TripInv` relates files to the array across trips (`FilesOfArray`: the files there
are those the array asks for, each with its part of it, and a missing one has raised the flag),
counts the export's errors (`ErrorsOfFiles`) and says that what is exported fits (`ExportedFits`).
Then the used places are exactly the first ones, and their listing is the array.

**`NodeMaskProofs`.** Setting a bit of a byte adds exactly one node to the set of the mask
(`StorageRulesProofs` again). Each loop has its part of `CallInv`: a search has passed no node, a
count is that of the nodes up to the position modulo the counter's width, a list is ascending and has
the nodes up to the position, a load has put in the elements up to the position. From these the last
turn of a loop is the one step of `NodeSet`, every other turn a stutter. `WalkInv` relates the walk's
history to the last result.

**`StorageRulesProofs`** has the lemmas about rules that several modules need: places of records,
versions and their texts, and for `Writes(lay, hw, prot)`, the combinations of layout, chip and
version the tool writes, that each file is looked for where it was written. It also has what is
proved of Base64, which is induction over lengths. The library's induction theorems have an operator
as parameter, which the provers cannot be given; instead, a set of numbers that has 0 and with each
number below n the next is 0..n (`CountingUp`), since the well-founded order of the naturals gives
its complement a least element (`LeastNatural`). A text joined from blocks is described by its
beginnings (`FlattenPrefixes`, `FlattenIs`); each block gives its bytes back (`BlockBack`), line
breaks are skipped (`Base64Back`), and the room asked for is enough since a line that is broken has
as many whole blocks as fill it (`RoomForBreaks`, `Base64Fits`).

**`ValueRulesProofs`** is about what is decided value by value, in `VersionChoice`, in `Values` and in
`ControllerInfo`.
The invariant `ChoiceInv` is only that version and part are of their types; the work is in the rules.
`TablesAgree` compares the two tables of formats: `ImportRows` and `UpgradeRows` give each of them as
rows of minor versions, and `SameRows` matches those. `StampReturns` needs that a supported minor
version of 7 is below 25 (`Releases7`), so that it fits a byte, and what a patch that is cut decides. `SeriesLimit` compares text with
numbers: `StorageRulesProofs` shows how the decimal texts of a version begin (`TextFront`,
`TextFirst`) and what `strcmp` over four characters says of it (`TextLimit`); the supported minor
versions are then few. For `FilesFoundAgain` the chip that the size of the image and the presence of
a key reveal is the one of the part (`ChipFound`), and places follow by series.

Of `Values`, `SecurityBits` and `CapabilityBits` say which bit is set by which key. The protocol
version is not cut to its three bits, so the second needs it to be below 8 (`ThreeBits`: it then has
no higher bit). `BackIsNode` is what makes `NodesSettle` hold for all integers: whatever the bits
were, what is exported of them is within the ranges, its rates are the list for a set of rates
(`ListFor`), and it is returned as it is (`BackAgain`). `ValuesInv` therefore says that what is given
on a later trip *is* the export of a node, or has the form of an exported route (`RouteOut`), with a
period from the second trip on (`RouteBackAgain`). For names, cutting changes only what is cut
(`ShortenedName`), so stem, count and extension of an output tell its input; on the way through three
runs a name that was cut, or replaced by the default, cannot become the migration's again
(`StepwiseNames`).

For HEX files `RowsTo` says what the rows are after the n-th data row (`RowsBuilt`, one row more at a
time), and `Found` what a reader has found by then (`BytesRead`): the bytes of the first segment are
at their addresses (`FoundLow`), and each byte after it is at a lower address than its own, as a
paragraph is shorter than a segment (`FoundHigh`); hence "exactly if". A file that breaks off has
fewer data rows than its bytes need (`RowsOfHex`).

For command lines, `Counted` gives the existence of a function that counts up, which makes the fields
after each word of a line what the loop says (`FieldsAre`). `ArgvIs`: when an option is found, argv has
as many words as the line, all from it, so a mode that was accepted has a word for each of its fields
(`LineNamesAll`). On a line of the usage text the parser never gives up; if the mode comes first argv
is the line itself (`ModeFirst`), and if -o comes first its argument is in the place of the input
(`OutputFirst`).

Of `ControllerInfo`, `InfoInv` says that at each point of an import the image has exactly the files
written so far, each with the content that the document asks for (`ImageIs`), the one that cannot be
written apart; what the parser has found in the document by then; and that from the second trip on the
document is `Normal`: one that an import would store without a change. An export makes such documents
(`ExportNormal`), for which it needs that each file is found where it was written (`PlacesRead`, by
`FileFound` of `StorageRulesProofs`) and that no two files share a place (`PlacesDiffer`). Texts come
back by the lemmas on Base64 (`TextOfData`, `DataOfText`), up to zeros at the end
(`SignificantAgain`). The attempt to prove `KeysComeBack` found it too strong: a `"dcdcConfig"` of
32768 or more becomes negative in the importer's `int16_t` (controller_nvm.c:2580) and is not written.
The property says so, and the run now has a number of that size.

**`SchemaUpgradeProofs`.** `Settled` needs to know that the document *is* an upgrade to the version:
that is the invariant. An upgraded object has all keys that are to be added and none that is to be
dropped (`SettledSection`), and such an object is left as it is; the two versions that are set
afterwards are keys of every version that is accepted (`VersionsStay`), so setting them adds none.
`ValuesKept` is a property of one step and needs no invariant. The other three are about all upgrades
so far. `StepInv` says that key by key the document is the direct upgrade of the original to the
present version, up to the keys that `Ahead` names; the step is that adding and dropping by two
ascending versions is adding and dropping by the later one. `KeptInv` says that what was exported is
there with its value. `ServedInv` says which sections are there and that each value is the exporter's
or the schema's default; the importer's requirements then follow by cases on sections.

**`MigrationToolProofs`.** `IInv` ties each place of a run to the modes that pass it, and says that
all handles are closed wherever an image is opened and that nothing is written before the end.
`ImagesAreWhole` has a second invariant, `WInv`: the layout fits the version of the document, the
handles are among the layout's instances, and once the parser is through, the image has objects in
all instances if all are open. That one failing write cannot empty an instance follows from two
objects that every instance is given, the argument of `ImportUses`.

What the contents become needs two more. `KInv`: of the parts the given image had, each file and each
document on the way keeps a content that came by steps that carry it. It is the property itself,
stated of *every* image and document and not of the last one only; a document also has the shape of
configuration of its versions, and images have version files of bytes, which a second export relies
on. `MInv`: from its layout on, a run is for the version and part asked for, and the image is what the
parser makes of the document, with the flags telling what it lacks. Each conversion has its lemma
(`ExportedKeeps` and those after it). `MadeForTheAsked` goes from the version asked for to the one stored
by `StoredCarried`: major and minor number of a version that is accepted are bytes. The attempt to prove `PartsKept` found that its first statement
was too strong: application data that is all zeros is not exported from images before 7.15
(controller_nvm.c:1438), so a default may come back as no key. `Same` says so, and one of the
images of the run now has such data.

**Only model-checked.** Liveness: the fairness of `NetworkMap` that `ImplementsNetworkMap` includes
(what was filled is sealed and reported), which is outside what the prover can do. `ErrorsFailTheConversion`
is refuted, not proved.

## 5. Where code and texts differ

Each is an entry of "findings" in `PROJECT.json` with its lines. One has a run that shows the
statement of the text to fail; for the others a property of a passing run states what the code does
instead, exception included.

1. *Recorded errors* (`MigrationTool_errors`, `ErrorsFailTheConversion`). Comments say the final
   status will be "failed"; it is a success.
2. *Wake-up mode* (`NodesComeBack`). `parse_node_security` and the Long Range importer compare the
   JSON string with a literal by address: "250ms" becomes 1000 ms. A test expects 250 ms and passes
   because its mock returns the literal.
3. *Pending flags* (`RoundTrip`). `"sucPendingUpdate"` and `"pendingDiscovery"` are exported and
   never imported.
4. *Powers of format 2* (`PowersFromOwnPlace`). The buffer keeps the bytes of the previous file when a
   new file begins, and bits are or-ed into it.
5. *Powers of format 3* (`LaterTripsStable`). Exported as `"txPower"`, imported as `"lrTxPower"`.
6. *Application files* (`ConfigurationShapeAgrees`). The structure, and with it the instance, of the
   configuration is chosen by application version on export.
7. *Missing arrays* (`ImporterServed`). A missing SUC list is not created.
8. *DC/DC configuration* (`PartsKept`). Written to one instance and looked for in the other on 700
   series images from 7.19 on.
9. *Index of SUC updates* (`DocumentListsTable`). The list is compacted on export,
   `"sucUpdateIndex"` of the nodes is not changed.
10. *Number of bits* (`ImplementsNodeSet`). The count of a mask wraps at 256.
11. *HEX addresses* (`HexReadsBack`). A record the comment calls Extended Linear Address has type 02.
12. *Option -o* (`FieldsAsTyped`). Before or among the arguments of a mode it shifts them.
13. *Negative configuration type* (`KeysComeBack`). The structure of 7.18.1 is written and not read.

## 6. What is not modelled

- The NVM3 library (pages, cache, repacking) and the controller's firmware are outside the
  repository; they appear as maps of objects whose operations may fail, and as the images given.
- `getopt` of the C library appears as it is called; words that hold several options or an option
  with its argument ("-ein"), and "--", are left out.
- Repeaters of a route line: a line is one value in `NodeTable`, its rate and beaming byte are in
  `NodeInfo`. `json_get_bytearray` clears the whole field first, so a short list leaves no old bytes.
- Key dumps and the look-up of file names; the path of a key that error messages print. Messages.
- An import of a file whose name has four characters: the check of the extension then compares from
  one byte before the name (`nvmconv_main.c:186`). Names in `OutputNames` are longer.
- The decoder of Base64 indexes its table with a `char`; bytes above 127 are outside of the alphabet
  that documents have here (`base64.c:127, 153`).
- `bin2hex`, and of `ZW_nodemask.c` the clearing of one bit, the count and the search, are modelled as functions of the
  library; no mode of the tool calls them.
- `"sucUpdateIndex"` of a node and the list it refers to are in no common module: finding 9 is what
  `DocumentListsTable` says of the list.
- Output files cut short by a failing write: the run fails (`OutputFails`), and the file that was
  there before is taken as still being there, which is so if the new one could not be created.
- Version texts that are not plain decimal numbers ("07.22.0").
- The order of keys after `rearrange_keys`, and `format` and `applicationFileFormat` in the root of
  an upgraded document apart from `MigrationTool`, which has the latter.
- An element of a JSON array outside of the mask it is loaded into: what the code does then is not
  defined, and no document the tool exports has one.

## 7. Plan

Done: the node table with its theorems and its refinement, Long Range nodes, SUC table, controller
information, masks, bit fields and codecs, versions, schema, command line and names, tool. The order
was that of what a user would lose: nodes first, then everything else an image holds, then what the
tool says about it.

What could follow, in this order:

1. Output files that are cut short, as inputs of the next run of `MigrationTool`.
2. The root of an upgraded document (`format`) and the order of its keys.
3. Repeaters of a route line, which are part of one value now.
