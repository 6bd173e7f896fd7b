-------------------------------- MODULE Values --------------------------------
(***************************************************************************)
(* The conversions of values, each on its own: the bit fields of a node    *)
(* and of a route between document and image, Base64 texts, Intel HEX      *)
(* files, the fields a command line is taken apart into, and the names of  *)
(* output files.                                                           *)
(*                                                                         *)
(* A value is stored and fetched back; nodes and routes go through several *)
(* trips, with what came back in place of what was given.                  *)
(***************************************************************************)
EXTENDS NodeInfo, Base64, HexFile, Arguments, OutputNames

CONSTANTS
  Nodes, Routes,   \* of documents
  ByteStrings,     \* the contents of files
  LineLengths,     \* limits of Base64 lines, 0 for none
  HexInputs,       \* records bytes, start, readable, ferror
  Lines,           \* other command lines
  Names,           \* of input files
  MaxTrips

(* What a document can say of a node and of a route line: any of the keys, *)
(* each with a value of its JSON type.                                     *)
FlagKey ==
  {"isListening", "isRouting", "optionalFunctionality", "supportsSecurity", "supportsBeaming"}
NumberKey == {"protocolVersion", "nodeType", "genericDeviceClass", "specificDeviceClass"}
Period == {"none", "250ms", "1000ms"}

NodeObject(node) ==
  /\ DOMAIN node \subseteq FlagKey \cup NumberKey \cup {"isFrequentListening", "supportedDataRates"}
  /\ \A key \in DOMAIN node :
       /\ key \in FlagKey => node[key] \in BOOLEAN
       /\ key \in NumberKey => node[key] \in Int
       /\ key = "isFrequentListening" => node[key] \in Period
       /\ key = "supportedDataRates" => node[key] \in Seq(Int)

RouteObject(line) ==
  /\ DOMAIN line \subseteq {"beaming", "protocolRate"}
  /\ "beaming" \in DOMAIN line => line.beaming \in Period
  /\ "protocolRate" \in DOMAIN line => line.protocolRate \in Int

ASSUME ValuesAssumption ==
  /\ MaxTrips \in Nat \ {0}
  /\ \A node \in Nodes : NodeObject(node)
  /\ \A line \in Routes : RouteObject(line)
  /\ ByteStrings \subseteq Seq(0 .. 255) /\ LineLengths \subseteq Nat
  /\ HexInputs \subseteq
       [bytes : Seq(0 .. 255), start : Nat, readable : Nat, ferror : BOOLEAN]
  /\ \A line \in Lines : line \in Seq(STRING) /\ \A k \in DOMAIN line : line[k] # Nothing
  /\ \A name \in Names : /\ name = Name(name.stem, name.upgraded, name.ext)
                         /\ name.stem \in Stem /\ name.upgraded \in Nat
                         /\ name.ext \in Extension

VARIABLES kind, given, stored, back, stage, rounds
valueVars == <<kind, given, stored, back, stage, rounds>>

------------------------------------------------------------------------------
(***************************************************************************)
(* Command lines as the usage text has them: a mode with its arguments,    *)
(* and an option -o at some place between these words, or none.            *)
(***************************************************************************)
UsageOf(mode) ==
  CASE mode = "-e" -> <<"-e", "in">>
    [] mode = "-i" -> <<"-i", "in", "part">>
    [] mode = "-u" -> <<"-u", "in", "version", "schema">>
    [] mode = "-m" -> <<"-m", "in", "version", "part", "schema">>

(* The mode with "-o out" before its word p, or without if p is 0.         *)
UsageLine(mode, p) ==
  LET words == UsageOf(mode)
  IN  IF p = 0 THEN words
      ELSE SubSeq(words, 1, p - 1) \o <<"-o", "out">> \o SubSeq(words, p, Len(words))

UsageLines ==
  UNION {{[mode |-> mode, before |-> p, line |-> UsageLine(mode, p)] :
            p \in 0 .. Len(UsageOf(mode)) + 1} : mode \in ModeOption}

Asked(u) ==
  [mode |-> u.mode,
   file_in |-> "in",
   file_out |-> IF u.before = 0 THEN Nothing ELSE "out",
   target_version |-> IF u.mode \in {"-u", "-m"} THEN "version" ELSE Nothing,
   device_info |-> IF u.mode \in {"-i", "-m"} THEN "part" ELSE Nothing,
   schema_file |-> IF u.mode \in {"-u", "-m"} THEN "schema" ELSE Nothing]

------------------------------------------------------------------------------
Given(k, values) ==
  /\ kind = k
  /\ given \in values

ValuesInit ==
  /\ \/ Given("node", Nodes)
     \/ Given("route", Routes)
     \/ Given("text", [bytes : ByteStrings, max_line_len : LineLengths])
     \/ Given("hex", HexInputs)
     \/ Given("usage", UsageLines)
     \/ Given("line", Lines)
     \/ Given("names", Names \X Names)
  /\ stored = <<>> /\ back = <<>>
  /\ stage = "given"
  /\ rounds = 0

Store(k, value) ==
  /\ kind = k /\ stage = "given"
  /\ stored' = value
  /\ stage' = "stored"
  /\ UNCHANGED <<kind, given, back, rounds>>

Fetch(k, value) ==
  /\ kind = k /\ stage = "stored"
  /\ back' = value
  /\ stage' = "back"
  /\ UNCHANGED <<kind, given, stored, rounds>>

ImportNode == Store("node", StoredNode(given))
ExportNode == Fetch("node", ExportedNode(stored))
ImportRoute == Store("route", StoredRoute(given))
ExportRoute == Fetch("route", ExportedRoute(stored))
Encode == Store("text", base64_encode(given.bytes, given.max_line_len))
Decode == Fetch("text", base64_decode(stored))
WriteHex == Store("hex", bin2hex(given.bytes, given.start, given.readable, given.ferror))
LoadHex == Fetch("hex", ReadHex(stored.rows))
ParseUsage == Store("usage", parse_main_args(given.line))
ParseLine == Store("line", parse_main_args(given))

(* Two files, each as the input of each mode; and the first of them        *)
(* exported, upgraded and imported in three runs.                          *)
NameOutputs ==
  Store("names",
        [of |-> [mode \in ModeOption |->
                   <<OutputName(mode, given[1]), OutputName(mode, given[2])>>],
         stepwise |-> OutputName("-i", OutputName("-u", OutputName("-e", given[1])))])

NextTrip ==
  /\ kind \in {"node", "route"} /\ stage = "back"
  /\ rounds < MaxTrips
  /\ given' = back
  /\ stage' = "given"
  /\ rounds' = rounds + 1
  /\ UNCHANGED <<kind, stored, back>>

ValuesNext ==
  \/ ImportNode \/ ExportNode
  \/ ImportRoute \/ ExportRoute
  \/ NextTrip
  \/ Encode \/ Decode
  \/ WriteHex \/ LoadHex
  \/ ParseUsage \/ ParseLine
  \/ NameOutputs

ValuesSpec == ValuesInit /\ [][ValuesNext]_valueVars

------------------------------------------------------------------------------
(***************************************************************************)
(* Properties                                                              *)
(***************************************************************************)
InNodeRange(node) ==
  \A key \in DOMAIN node :
    /\ key = "protocolVersion" => node[key] \in 0 .. 7
    /\ key = "nodeType" => node[key] \in 0 .. 1
    /\ key \in {"genericDeviceClass", "specificDeviceClass"} => node[key] \in 0 .. 255
    /\ key = "supportedDataRates" => Len(node[key]) <= 3

Known == {9600, 40000, 100000}

(* What a document says of a node within the ranges of its fields comes    *)
(* back from the bits of the image (controller_nvm.c:1717-1777, 1179-1221):*)
(* no flag spills into another, rates come back in order, each once. The   *)
(* exception is the wake-up period, which is 1000 ms whatever it was       *)
(* (1762). The same for a route, whose period is kept (1782-1793).         *)
NodesComeBack ==
  /\ kind = "node" /\ stage = "back" /\ InNodeRange(given) =>
       \A key \in DOMAIN given :
         CASE key = "supportedDataRates" ->
                /\ Range(back[key]) = Range(given[key]) \cap Known
                /\ \A i, j \in DOMAIN back[key] : i < j => back[key][i] < back[key][j]
           [] key = "isFrequentListening" ->
                back[key] = (IF given[key] = "none" THEN "none" ELSE "1000ms")
           [] OTHER -> back[key] = given[key]
  /\ kind = "route" /\ stage = "back" =>
       \/ "protocolRate" \in DOMAIN given /\ given.protocolRate \notin 0 .. 3
       \/ \A key \in DOMAIN given : key \in DOMAIN back /\ back[key] = given[key]

(* Whatever a document said, also outside the ranges: what is exported     *)
(* once comes back as it is from every later trip. A rate outside its bits *)
(* that makes both periods of a route unreadable (1087-1098) costs one     *)
(* trip more, after which the route has no period.                         *)
NodesSettle ==
  /\ kind = "node" /\ stage = "back" /\ rounds > 0 => back = given /\ InNodeRange(given)
  /\ kind = "route" /\ stage = "back" /\ (rounds > 1 \/ (rounds = 1 /\ "beaming" \in DOMAIN given))
       => back = given

(* A Base64 text fits the memory allocated for it, with and without line   *)
(* breaks, and decodes to the bytes it was made of (base64.c:16-86,        *)
(* 89-211). No bytes make an empty text, which the decoder refuses; the    *)
(* importer does not call it then.                                         *)
TextsComeBack ==
  /\ kind = "text" /\ stage = "stored" =>
       Len(stored) + 1 <= TextBufferSize(Len(given.bytes), given.max_line_len)
  /\ kind = "text" /\ stage = "back" =>
       back = (IF given.bytes = <<>> THEN NotBase64 ELSE given.bytes)

(* A reader finds in a HEX file the bytes of the binary file at their      *)
(* addresses exactly if these end within the first SegmentSize addresses,  *)
(* as those of the images do that start at 0: the rows for the upper half  *)
(* are of type 02, which counts in paragraphs, and not of type 04, as the  *)
(* comment beside them says (bin2hex.c:53-56, 90-96). A file that breaks   *)
(* off has no end row, and only part of the bytes.                         *)
HexReadsBack ==
  kind = "hex" /\ stage = "back" =>
    LET wanted == {<<given.start + i - 1, given.bytes[i]>> : i \in DOMAIN given.bytes}
        ends == \E r \in DOMAIN stored.rows : stored.rows[r].type = EndRow
        fits == given.start + Len(given.bytes) <= SegmentSize
    IN  IF given.readable >= Len(given.bytes)
          THEN ends /\ (back = wanted <=> fits \/ given.bytes = <<>>)
          ELSE ~ends /\ (fits => back \subseteq wanted /\ back # wanted)

(* A command line of the usage text gives the fields it was typed with     *)
(* exactly if -o comes after the arguments of the mode or not at all       *)
(* (zwave_nvm_tool.c:51-104); anywhere else some field is another word.    *)
(* On every line, a mode that is chosen has all its fields, so that main   *)
(* passes no NULL for a file it needs.                                     *)
Needed(mode) ==
  {"file_in"}
    \cup (IF mode \in {"-u", "-m"} THEN {"target_version", "schema_file"} ELSE {})
    \cup (IF mode \in {"-i", "-m"} THEN {"device_info"} ELSE {})

FieldsAsTyped ==
  /\ kind = "usage" /\ stage = "stored" =>
       (stored = Asked(given) <=> given.before \in {0, Len(UsageOf(given.mode)) + 1})
  /\ kind \in {"usage", "line"} /\ stage = "stored" /\ stored.mode # Usage =>
       \A field \in Needed(stored.mode) : stored[field] # Nothing

(* No run writes to its own input, and no two inputs of a mode go to one   *)
(* output, unless the name falls back to the default one                   *)
(* (nvmconv_main.c:77-101, 164-196, json_upgrade.c:479-499). An image that *)
(* is exported, upgraded and imported in three runs ends under the name of *)
(* its migration exactly if the names on the way fit their buffers; the    *)
(* import of a document under the name of its export replaces the image.   *)
OutputsApart ==
  kind = "names" /\ stage = "stored" =>
    /\ \A mode \in ModeOption :
         LET out == stored.of[mode]
         IN  /\ out[1] = given[1] => out[1] = DefaultName(mode)
             /\ out[1] = out[2] => given[1] = given[2] \/ out[1] = DefaultName(mode)
    /\ given[1].ext = ".bin" /\ given[1].stem # "output" /\ LengthOf(given[1]) \in 5 .. NameSize - 1 =>
         LET fits == LengthOf(given[1]) + 10 < NameSize
         IN  /\ stored.stepwise = stored.of["-m"][1] <=> fits
             /\ fits => OutputName("-i", stored.of["-e"][1]) = given[1]
==============================================================================
