---------------------------- MODULE ControllerInfo ----------------------------
(***************************************************************************)
(* The controller information: the object "controller" of a document and   *)
(* the files it is stored in, for the three generations of the parser and  *)
(* the exporter (7.11, 7.15, 7.19), with the values of the single keys.    *)
(*                                                                         *)
(* A document is imported into an empty image and, if the import was not   *)
(* given up, exported from it again in place of the first, and so on.  The *)
(* target was chosen before and the application has the version of the     *)
(* protocol, as the upgrade makes it.                                      *)
(***************************************************************************)
EXTENDS VersionRules, Base64

CONSTANTS
  Target,       \* records of a layout, a part family and a protocol version
  Document(_),  \* the documents imported first for a target
  ByteSize,     \* 2^8
  WordSize,     \* 2^16
  HomeIdMax,    \* 2^32 - 1
  ListSize,     \* APPL_NODEPARM_MAX
  DataSize,     \* APPL_DATA_FILE_SIZE
  LongName,     \* an application name that does not fit, and what fits of it
  CutName,
  SerialApiName, \* "serial_api_controller"
  Unwritable    \* the files of which one may not be written

(* What a document can say: values of the JSON types of the keys, and a    *)
(* text of characters.                                                     *)
Numbers ==
  {"homeId", "nodeId", "staticControllerNodeId", "lastNodeId", "lastNodeIdLR", "sucLastIndex",
   "maxNodeId", "maxNodeIdLR", "reservedId", "reservedIdLR", "systemState",
   "primaryLongRangeChannelId", "dcdcConfig", "genericDeviceClass", "specificDeviceClass"}
ConfigNumbers == {"rfRegion", "txPower", "measured0dBm", "maxTxPower", "nodeIdType"}

ControllerObject(object) ==
  /\ \A key \in Numbers \cap DOMAIN object : object[key] \in Int
  /\ "cmdClasses" \in DOMAIN object =>
       \A key \in DOMAIN object.cmdClasses : object.cmdClasses[key] \in Seq(Int)
  /\ "rfConfig" \in DOMAIN object =>
       \A key \in ConfigNumbers \cap DOMAIN object.rfConfig : object.rfConfig[key] \in Int
  /\ "applicationData" \in DOMAIN object => object.applicationData \in Seq(Character)

(* A target is what json_get_nvm_layout and the part number make of a      *)
(* version, whose components are bytes in the image.                       *)
ASSUME InfoAssumption ==
  /\ \A t \in Target :
       /\ t.prot \in Nat \X Nat \X Nat /\ t.prot = Stored(t.prot)
       /\ \E part \in PartNumber :
            /\ TargetLayout(part, t.prot) # Rejected
            /\ t.layout = TargetLayout(part, t.prot) /\ t.hw = TargetHardware(part)
       /\ \A object \in Document(t) : ControllerObject(object)
  /\ {ByteSize, WordSize, HomeIdMax, ListSize, DataSize} \subseteq Nat \ {0}
  /\ 2 * ByteSize <= WordSize
  /\ CutName # LongName /\ SerialApiName # LongName
  /\ Unwritable \subseteq File

VARIABLES
  target,
  doc,     \* the JSON object: a function on the keys it has
  files,   \* the image: a function on places <<instance, key>>
  pc,      \* where the parser is
  broken,  \* the file that cannot be written during this import, if any
  parse_error_detected,
  nvm3_error_detected,
  trips    \* exports so far, 0, 1, or 2 for more

vars == <<target, doc, files, pc, broken, parse_error_detected, nvm3_error_detected, trips>>

prot == target.prot
generation == Generation(prot)

------------------------------------------------------------------------------
(***************************************************************************)
(* Keys and widths                                                         *)
(***************************************************************************)
FlagKeys ==
  {"controllerIsSecondary", "controllerOnOtherNetwork", "controllerNodeIdServerPresent",
   "controllerIsRealPrimary", "controllerIsSuc", "noNodesIncluded"}
    \cup (IF generation = 719 THEN {"longRangeChannelAutoMode"} ELSE {})

NodeKeys == {"nodeId", "staticControllerNodeId"}

WordKeys ==
  IF generation = 711 THEN {}
  ELSE NodeKeys \cup {"lastNodeIdLR", "maxNodeIdLR", "reservedIdLR"}

ByteKeys ==
  {"lastNodeId", "sucLastIndex", "maxNodeId", "reservedId", "systemState"}
    \cup (IF generation = 711 THEN NodeKeys ELSE {"primaryLongRangeChannelId"})
    \cup (IF generation = 715 THEN {"dcdcConfig"} ELSE {})

InfoKeys == {"homeId"} \cup WordKeys \cup ByteKeys \cup FlagKeys
SettingKeys == {"isListening", "genericDeviceClass", "specificDeviceClass"}
ClassKeys == {"includedInsecurely", "includedSecurelyInsecureCCs", "includedSecurelySecureCCs"}

ConfigKeys(struct) ==
  {"rfRegion", "txPower", "measured0dBm"}
    \cup (IF struct = "prior_7_15_3" THEN {} ELSE {"enablePTI", "maxTxPower"})
    \cup (IF struct = "7_21_x" THEN {"nodeIdType"} ELSE {})

Get(object, key, default) == IF key \in DOMAIN object THEN object[key] ELSE default

AsUnsigned(value, size) == value % size
AsSigned(value, size) == ((value + size \div 2) % size) - size \div 2

FlagDefault(key) == key \in {"controllerIsRealPrimary", "noNodesIncluded", "isListening"}

(* json_get_home_id: 0 and the greatest value count as no home id.         *)
StoredHomeId(value) == IF 0 < value /\ value < HomeIdMax THEN value ELSE 0

(* A fault: node numbers are kept in a byte in every generation.           *)
StoredInfoOf711(object) ==
  [key \in InfoKeys |->
     CASE key = "homeId" -> StoredHomeId(Get(object, key, 0))
       [] key \in FlagKeys -> Get(object, key, FlagDefault(key))
       [] OTHER -> AsUnsigned(Get(object, key, 0), ByteSize)]

StoredInfo(object) ==
  [key \in InfoKeys |->
     CASE key = "homeId" -> StoredHomeId(Get(object, key, 0))
       [] key \in FlagKeys -> Get(object, key, FlagDefault(key))
       [] key \in WordKeys -> AsUnsigned(Get(object, key, 0), WordSize)
       [] key \in ByteKeys -> AsUnsigned(Get(object, key, 0), ByteSize)]

StoredSettings(object) ==
  [key \in SettingKeys |->
     IF key = "isListening" THEN Get(object, key, TRUE)
     ELSE AsUnsigned(Get(object, key, 0), ByteSize)]

(* json_get_bytearray, for each of the lists of command classes.           *)
StoredClasses(object) ==
  LET prefix(list) == SubSeq(list, 1, Min({Len(list), ListSize}))
      list(key) == prefix(Get(object.cmdClasses, key, <<>>))
  IN  [key \in ClassKeys |-> [i \in DOMAIN list(key) |-> AsUnsigned(list(key)[i], ByteSize)]]

(* A 7.21 structure is written without its last field if that is negative. *)
StructOf(config) ==
  IF WrittenStruct(prot) = "7_21_x" /\ Major(prot) < 8 /\ Get(config, "nodeIdType", 0) < 0
    THEN "7_18_1"
    ELSE WrittenStruct(prot)

StoredConfig(object) ==
  LET config == object.rfConfig
      struct == StructOf(config)
      power == IF struct \in {"prior_7_15_3", "prior_7_18_1"} THEN ByteSize ELSE WordSize
  IN  [struct |-> struct,
       values |->
         [key \in ConfigKeys(struct) |->
            CASE key \in {"txPower", "measured0dBm"} -> AsSigned(Get(config, key, 0), power)
              [] key = "maxTxPower" -> AsSigned(Get(config, key, 140), WordSize)
              [] key = "enablePTI" -> Get(config, key, FALSE)
              [] OTHER -> AsUnsigned(Get(config, key, 0), ByteSize)]]

DataText(object) == Get(object, "applicationData", <<>>)

(* What is too long is cut, the rest of the file is zero.                  *)
StoredData(object) ==
  LET bytes == IF DataText(object) = <<>> THEN <<>> ELSE base64_decode(DataText(object))
  IN  [i \in 1 .. DataSize |-> IF i <= Len(bytes) THEN bytes[i] ELSE 0]

StoredName(object) ==
  LET name == Get(object, "applicationName", SerialApiName)
  IN  IF name = LongName THEN CutName ELSE name

------------------------------------------------------------------------------
(***************************************************************************)
(* The parser                                                              *)
(***************************************************************************)
Init ==
  /\ target \in Target
  /\ doc \in Document(target)
  /\ files = <<>>
  /\ pc = "begin"
  /\ broken = "none"
  /\ parse_error_detected = FALSE
  /\ nvm3_error_detected = FALSE
  /\ trips = 0

Place(file) == WrittenAt(file, target.layout, target.hw, prot)

(* A write that fails only raises the flag.                                *)
Written(image, file, value) ==
  IF file = broken THEN image
  ELSE [place \in DOMAIN image \cup {Place(file)} |->
          IF place = Place(file) THEN value ELSE image[place]]

Missing(keys, object) == keys \ DOMAIN object # {}

(* Which file will fail is chosen first.  dcdcConfig may be absent.        *)
Begin ==
  /\ pc = "begin"
  /\ broken' \in {"none"} \cup Unwritable
  /\ files' = <<>>
  /\ parse_error_detected' = Missing((InfoKeys \ {"dcdcConfig"}) \cup SettingKeys, doc)
  /\ nvm3_error_detected' = FALSE
  /\ pc' = "classes"
  /\ UNCHANGED <<target, doc, trips>>

GiveUp ==
  /\ parse_error_detected' = TRUE
  /\ pc' = "given up"
  /\ UNCHANGED <<target, doc, files, broken, nvm3_error_detected, trips>>

Classes ==
  /\ pc = "classes"
  /\ IF "cmdClasses" \notin DOMAIN doc THEN GiveUp
     ELSE /\ pc' = "config"
          /\ parse_error_detected' =
               (parse_error_detected \/ Missing(ClassKeys, doc.cmdClasses))
          /\ UNCHANGED <<target, doc, files, broken, nvm3_error_detected, trips>>

(* parse_app_config_json writes its file before the others are parsed.     *)
Config ==
  /\ pc = "config"
  /\ IF "rfConfig" \notin DOMAIN doc THEN GiveUp
     ELSE /\ files' = Written(files, "APPLICATIONCONFIGURATION", StoredConfig(doc))
          /\ nvm3_error_detected' =
               (nvm3_error_detected \/ broken = "APPLICATIONCONFIGURATION")
          /\ pc' = "updates"
          /\ UNCHANGED <<target, doc, broken, parse_error_detected, trips>>

(* The list of SUC updates is one value here, SucTable has its entries.    *)
Updates ==
  /\ pc = "updates"
  /\ IF "sucUpdateEntries" \in DOMAIN doc
       THEN /\ files' = Written(files, "tables", doc.sucUpdateEntries)
            /\ nvm3_error_detected' = (nvm3_error_detected \/ broken = "tables")
            /\ UNCHANGED parse_error_detected
       ELSE /\ parse_error_detected' = TRUE
            /\ UNCHANGED <<files, nvm3_error_detected>>
  /\ pc' = "data"
  /\ UNCHANGED <<target, doc, broken, trips>>

Data ==
  /\ pc = "data"
  /\ parse_error_detected' = (parse_error_detected \/ "applicationData" \notin DOMAIN doc)
  /\ pc' = IF DataText(doc) # <<>> /\ base64_decode(DataText(doc)) = NotBase64
             THEN "given up" ELSE "files"
  /\ UNCHANGED <<target, doc, files, broken, nvm3_error_detected, trips>>

(* The remaining files, and what each gets.  Only 7.19 has dcdcConfig in a *)
(* file of its own, which is not written for a negative value.             *)
DcdcConfig(object) == Get(object, "dcdcConfig", 0)

(* A fault: the negative value is written too.                             *)
LastFilesAlways ==
  {"CONTROLLERINFO", "APPLICATIONSETTINGS", "APPLICATIONCMDINFO", "APPLICATIONDATA"}
    \cup (IF Is720OrNewer(prot) THEN {"APP_NAME"} ELSE {})
    \cup (IF generation = 719 THEN {"PROPRIETARY_1"} ELSE {})

LastFiles ==
  {"CONTROLLERINFO", "APPLICATIONSETTINGS", "APPLICATIONCMDINFO", "APPLICATIONDATA"}
    \cup (IF Is720OrNewer(prot) THEN {"APP_NAME"} ELSE {})
    \cup (IF generation = 719 /\ AsSigned(DcdcConfig(doc), WordSize) >= 0
            THEN {"PROPRIETARY_1"} ELSE {})

ContentOf(file) ==
  CASE file = "CONTROLLERINFO" -> StoredInfo(doc)
    [] file = "APPLICATIONSETTINGS" -> StoredSettings(doc)
    [] file = "APPLICATIONCMDINFO" -> StoredClasses(doc)
    [] file = "APPLICATIONDATA" -> StoredData(doc)
    [] file = "APP_NAME" -> StoredName(doc)
    [] file = "PROPRIETARY_1" ->
         AsUnsigned(AsSigned(DcdcConfig(doc), WordSize), ByteSize)

(* Nothing is parsed between these writes, and no two of them share a      *)
(* place: they are one step.                                               *)
WriteFiles ==
  /\ pc = "files"
  /\ LET written == LastFiles \ {broken}
         at(place) == CHOOSE file \in written : Place(file) = place
         places == {Place(file) : file \in written}
     IN  files' = [place \in DOMAIN files \cup places |->
                     IF place \in places THEN ContentOf(at(place)) ELSE files[place]]
  /\ nvm3_error_detected' = (nvm3_error_detected \/ broken \in LastFiles)
  /\ pc' = "imported"
  /\ UNCHANGED <<target, doc, broken, parse_error_detected, trips>>

------------------------------------------------------------------------------
(***************************************************************************)
(* The exporter                                                            *)
(***************************************************************************)
ReadPlace(file) == ReadAt(file, target.layout, target.hw, prot, prot)
IsThere(file) == ReadPlace(file) \in DOMAIN files
Object(file) == files[ReadPlace(file)]

(* An object with one key, and the keys of two objects in one.  (TLC's own *)
(* operators for this have no definition a proof could use.)               *)
Single(key, value) == [k \in {key} |-> value]
f ++ g == [k \in DOMAIN f \cup DOMAIN g |-> IF k \in DOMAIN f THEN f[k] ELSE g[k]]

(* Nothing is exported of a file that is not there.                        *)
Part(file, part) == IF IsThere(file) THEN part ELSE <<>>

(* A structure of another version cannot be read.                          *)
ConfigIsRead ==
  /\ IsThere("APPLICATIONCONFIGURATION")
  /\ Object("APPLICATIONCONFIGURATION").struct = ReadStruct(prot)

ExportedConfig ==
  IF ConfigIsRead THEN Object("APPLICATIONCONFIGURATION").values ELSE <<>>

(* A fault: the last byte that is not zero is left out.                    *)
ExportedDataShort(bytes) ==
  LET n == Max({0} \cup {i \in DOMAIN bytes : bytes[i] # 0})
  IN  IF n = 0 /\ generation = 711 THEN <<>>
      ELSE Single("applicationData", base64_encode(SubSeq(bytes, 1, n - 1), 0))

(* The bytes up to the last that is not zero; only 7.11 leaves out the key *)
(* if there is none.                                                       *)
ExportedData(bytes) ==
  LET n == Max({0} \cup {i \in DOMAIN bytes : bytes[i] # 0})
  IN  IF n = 0 /\ generation = 711 THEN <<>>
      ELSE Single("applicationData", base64_encode(SubSeq(bytes, 1, n), 0))

(* The list of SUC updates is exported from 7.15 on, empty if there is no  *)
(* file.                                                                   *)
ExportedUpdates ==
  IF generation = 711 THEN <<>>
  ELSE Single("sucUpdateEntries", IF IsThere("tables") THEN Object("tables") ELSE <<>>)

Exported ==
  Part("CONTROLLERINFO", Object("CONTROLLERINFO"))
    ++ Part("APPLICATIONSETTINGS", Object("APPLICATIONSETTINGS"))
    ++ Part("APPLICATIONCMDINFO", Single("cmdClasses", Object("APPLICATIONCMDINFO")))
    ++ Single("rfConfig", ExportedConfig)
    ++ Part("APPLICATIONDATA", ExportedData(Object("APPLICATIONDATA")))
    ++ (IF Is720OrNewer(prot)
          THEN Part("APP_NAME", Single("applicationName", Object("APP_NAME"))) ELSE <<>>)
    ++ (IF generation = 719
          THEN Part("PROPRIETARY_1", Single("dcdcConfig", Object("PROPRIETARY_1"))) ELSE <<>>)
    ++ ExportedUpdates

(* The files whose absence is an error; the others are optional.           *)
ReadFails ==
  \/ \E file \in {"CONTROLLERINFO", "APPLICATIONSETTINGS", "APPLICATIONCMDINFO",
                  "APPLICATIONDATA"} : ~IsThere(file)
  \/ ~ConfigIsRead
  \/ generation = 715 /\ ~IsThere("tables")

(* The export is a process of its own or a later part of a migration.      *)
Export ==
  /\ pc = "imported"
  /\ doc' = Exported
  /\ nvm3_error_detected' = ReadFails
  /\ trips' = IF trips = 2 THEN 2 ELSE trips + 1
  /\ pc' = "begin"
  /\ UNCHANGED <<target, files, broken, parse_error_detected>>

Next == Begin \/ Classes \/ Config \/ Updates \/ Data \/ WriteFiles \/ Export

Spec == Init /\ [][Next]_vars

------------------------------------------------------------------------------
(***************************************************************************)
(* Properties                                                              *)
(***************************************************************************)
(* The values the JSON type of a key allows and its place in the file      *)
(* holds.                                                                  *)
Bytes == 0 .. ByteSize - 1
SignedBytes == -(ByteSize \div 2) .. (ByteSize \div 2) - 1
SignedWords == -(WordSize \div 2) .. (WordSize \div 2) - 1

ConfigFits(key, value) ==
  CASE key \in {"txPower", "measured0dBm"} ->
         value \in (IF PreV7_18_1(prot) THEN SignedBytes ELSE SignedWords)
    [] key = "maxTxPower" -> value \in SignedWords
    [] key = "enablePTI" -> TRUE
    [] OTHER -> value \in Bytes

Fits(key, value) ==
  CASE key = "homeId" -> value \in 1 .. HomeIdMax - 1
    [] key \in WordKeys -> value \in 0 .. WordSize - 1
    [] key \in FlagKeys \cup {"isListening"} -> TRUE
    [] key = "applicationName" -> value # LongName
    [] OTHER -> value \in Bytes

ListFits(list) == Len(list) <= ListSize /\ \A i \in DOMAIN list : list[i] \in Bytes

Both(key) == key \in DOMAIN doc /\ key \in DOMAIN doc'

(* The application data without zeros at the end, as far as there is room. *)
Significant(bytes) ==
  LET kept == SubSeq(bytes, 1, Min({Len(bytes), DataSize}))
  IN  SubSeq(kept, 1, Max({0} \cup {i \in DOMAIN kept : kept[i] # 0}))

DataOf(text) == IF text = <<>> THEN <<>> ELSE base64_decode(text)

(* The values of the keys that the document and the new one both have.     *)
ValuesOfTrip ==
  /\ \A key \in InfoKeys \cup SettingKeys \cup {"applicationName", "dcdcConfig"} :
       Both(key) /\ Fits(key, doc[key]) => doc'[key] = doc[key]
  /\ Both("cmdClasses") => \A key \in ClassKeys \cap DOMAIN doc.cmdClasses :
       ListFits(doc.cmdClasses[key]) => doc'.cmdClasses[key] = doc.cmdClasses[key]
  /\ \A key \in DOMAIN doc.rfConfig \cap DOMAIN doc'.rfConfig :
       ConfigFits(key, doc.rfConfig[key]) => doc'.rfConfig[key] = doc.rfConfig[key]
  /\ Both("applicationData") =>
       DataOf(doc'.applicationData) = Significant(DataOf(doc.applicationData))
  /\ Both("sucUpdateEntries") /\ broken # "tables" =>
       doc'.sucUpdateEntries = doc.sucUpdateEntries

(* What an import and an export give back for a key is what the document   *)
(* said, in every generation and structure (controller_nvm.c:1374-1680,    *)
(* 2134-2244, 2344-2694), if it fits the field.                            *)
ValuesComeBack == [][Export => ValuesOfTrip]_vars

(* The object has the keys of every part but those that are lost.          *)
Lost(file) == broken = file

KeysOf(object) ==
  /\ DOMAIN object =
       {"rfConfig"}
         \cup (IF Lost("CONTROLLERINFO") THEN {} ELSE InfoKeys)
         \cup (IF Lost("APPLICATIONSETTINGS") THEN {} ELSE SettingKeys)
         \cup (IF Lost("APPLICATIONCMDINFO") THEN {} ELSE {"cmdClasses"})
         \cup (IF \/ Lost("APPLICATIONDATA")
                  \/ generation = 711 /\ Significant(DataOf(DataText(doc))) = <<>>
                 THEN {} ELSE {"applicationData"})
         \cup (IF Is720OrNewer(prot) /\ ~Lost("APP_NAME") THEN {"applicationName"} ELSE {})
         \cup (IF generation = 711 THEN {} ELSE {"sucUpdateEntries"})
         \cup (IF /\ generation = 719 /\ target.layout # "700s" /\ ~Lost("PROPRIETARY_1")
                  /\ AsSigned(DcdcConfig(doc), WordSize) >= 0
                 THEN {"dcdcConfig"} ELSE {})
  /\ DOMAIN object.rfConfig = {} <=>
       \/ Lost("APPLICATIONCONFIGURATION")
       \/ /\ Major(prot) = 7 /\ Minor(prot) >= 21
          /\ Get(doc.rfConfig, "nodeIdType", 0) < 0

(* After an import and an export the keys of a part are missing exactly if *)
(* its file could not be written, a generation does not export it (7.11:   *)
(* the SUC updates, application data without content), or it is not        *)
(* stored: dcdcConfig if it is negative as an int16_t or, on the 700       *)
(* series from 7.19 on, always (it is looked for in the other instance,    *)
(* controller_nvm.c:1577, 2580 and 2691); the configuration if nodeIdType  *)
(* is negative, for the exporter cannot read the older structure (2223).   *)
KeysComeBack == [][Export => KeysOf(doc')]_vars

(* A document that was exported, and is imported and exported again,       *)
(* comes out the same, if no file was lost on the way: a second trip loses *)
(* nothing more.                                                           *)
Complete(object) ==
  /\ InfoKeys \cup SettingKeys \cup {"cmdClasses"} \subseteq DOMAIN object
  /\ object.rfConfig # <<>>
  /\ generation # 711 => "applicationData" \in DOMAIN object
  /\ Is720OrNewer(prot) => "applicationName" \in DOMAIN object
  /\ generation = 719 /\ target.layout # "700s" => "dcdcConfig" \in DOMAIN object

TripsSettle ==
  [][Export /\ trips > 0 /\ broken = "none" /\ Complete(doc) => doc' = doc]_vars
==============================================================================
