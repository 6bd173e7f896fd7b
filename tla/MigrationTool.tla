--------------------------- MODULE MigrationTool ----------------------------
(***************************************************************************)
(* Runs of the tool, one after the other, over the files of a directory:   *)
(*   export    -e   NVM image  -> JSON file                                *)
(*   upgrade   -u   JSON file  -> JSON file for a target version           *)
(*   import    -i   JSON file  -> NVM image for a part number              *)
(*   migrate   -m   NVM image  -> NVM image, the three in one process      *)
(*                                                                         *)
(* The controller information is abstracted to its parts: groups of JSON   *)
(* keys that are stored in the same file and appear in the same version.   *)
(* NodeTable and LrNodeTable model the node tables.  The process keeps its *)
(* statics (hardware_info, the handles, the two error flags) from one      *)
(* conversion of a migration to the next.                                  *)
(***************************************************************************)
EXTENDS SchemaRules

CONSTANTS
  GivenImage,     \* the images a run may start from
  Target,         \* the versions asked for
  MaxRuns,        \* bound on the number of runs
  Parts,          \* the part numbers asked for
  OpensMayFail,   \* nvm3_open may fail, a file may not be created
  Unwritable      \* the keys of the objects of which one may not be written

ASSUME ToolAssumption ==
  /\ Target \subseteq Nat \X Nat \X Nat
  /\ MaxRuns \in Nat \ {0}
  /\ OpensMayFail \in BOOLEAN
  /\ Parts \subseteq PartNumber

NoFile == [none |-> TRUE]
NoVersionFile == <<0, 0, 0>>    \* the initial value of prot_version_le, app_version_le

Part ==
  {"info", "lrInfo", "autoMode", "settings", "cmdClasses", "rfConfig",
   "applicationData", "applicationName", "dcdcConfig", "sucUpdateEntries"}

(* A part in an object of an image is at its default, or has a value to be *)
(* kept, or is a value read in the shape of another version.  In a JSON    *)
(* document it may also be absent, or an object without keys.              *)
Content == {"default", "value", "garbled"}
JsonContent == Content \cup {"absent", "empty"}

------------------------------------------------------------------------------
(***************************************************************************)
(* Images                                                                  *)
(* An image is its layout and the parts held by the objects in it:         *)
(* held[<<place, part>>], place = <<instance, key>>; the version files are *)
(* entries of their own in versions[place].  lost and path are history:    *)
(* the objects that could not be written, and the steps <<layout or        *)
(* "json", version>> the contents came through.                            *)
(***************************************************************************)
FileOfPart(p, generation) ==
  CASE p \in {"info", "lrInfo", "autoMode"} -> "CONTROLLERINFO"
    [] p = "dcdcConfig" -> IF generation = 719 THEN "PROPRIETARY_1" ELSE "CONTROLLERINFO"
    [] p = "settings" -> "APPLICATIONSETTINGS"
    [] p = "cmdClasses" -> "APPLICATIONCMDINFO"
    [] p = "rfConfig" -> "APPLICATIONCONFIGURATION"
    [] p = "applicationData" -> "APPLICATIONDATA"
    [] p = "applicationName" -> "APP_NAME"
    [] p = "sucUpdateEntries" -> "tables"

(* A fault: the application files stay in the application instance.        *)
PlaceWrittenApp(p, layout, hw, prot) ==
  LET file == FileOfPart(p, Generation(prot))
  IN  <<IF file \in {"CONTROLLERINFO", "PROPRIETARY_1", "tables"}
          THEN <<"protocol", file>> ELSE <<"app", file>>, p>>

PlaceWritten(p, layout, hw, prot) ==
  <<WrittenAt(FileOfPart(p, Generation(prot)), layout, hw, prot), p>>

PlaceRead(p, layout, hw, prot, app) ==
  <<ReadAt(FileOfPart(p, Generation(prot)), layout, hw, prot, app), p>>

(* The parts the parsers store, and the parts the exporters look for.      *)
PartsWritten(prot) ==
  {"info", "settings", "cmdClasses", "rfConfig", "applicationData", "sucUpdateEntries"}
    \cup (IF Generation(prot) = 711 THEN {} ELSE {"lrInfo", "dcdcConfig"})
    \cup (IF Generation(prot) = 719 THEN {"autoMode"} ELSE {})
    \cup (IF Is720OrNewer(prot) THEN {"applicationName"} ELSE {})

PartsRead(prot) ==
  PartsWritten(prot) \ (IF Generation(prot) = 711 THEN {"sucUpdateEntries"} ELSE {})

(* The version files of an image, as the program reads them back.          *)
ProtocolMark(image) ==
  LET place == <<"protocol", "ZW_VERSION">>
  IN  IF place \in DOMAIN image.versions THEN image.versions[place]
      ELSE [format |-> 0, version |-> NoVersionFile]

(* The version files of an image to start from hold bytes.                 *)
ByteVersion == (0 .. 255) \X (0 .. 255) \X (0 .. 255)

ASSUME ImagesAssumption ==
  \A im \in GivenImage :
    /\ im.layout \in Layout
    /\ \A place \in DOMAIN im.versions : im.versions[place].version \in ByteVersion

HardwareOf(image) == DetectedHardware(image.layout, DOMAIN image.versions)

ApplicationMark(image, hw) ==
  LET prot == ProtocolMark(image).version
      place == ReadAt("APP_VERSION", image.layout, hw, prot, prot)
  IN  IF place \in DOMAIN image.versions THEN image.versions[place]
      ELSE [format |-> 0, version |-> NoVersionFile]

(* What the exporter puts in the document for a part.                      *)
ReadPart(image, hw, p) ==
  LET prot == ProtocolMark(image).version
      app == ApplicationMark(image, hw).version
      place == PlaceRead(p, image.layout, hw, prot, app)
      stored == place \in DOMAIN image.held
  IN  IF p \notin PartsRead(prot) THEN "absent"
      ELSE IF p = "rfConfig" /\ ~stored THEN "empty"
      ELSE IF p = "rfConfig" /\ ReadStruct(app) # WrittenStruct(prot) THEN "garbled"
      ELSE IF p = "applicationData" /\ Generation(prot) = 711 /\ stored
              /\ image.held[place] = "default" THEN "absent"
      ELSE IF stored THEN image.held[place]
      ELSE IF p = "sucUpdateEntries" THEN "default"
      ELSE "absent"

(* Reading an image raises the NVM3 error flag if a version file or a file *)
(* that is not optional is missing.                                        *)
OptionalFiles == {"PROPRIETARY_1", "APP_NAME", "tables"}

ReadFails(image, hw) ==
  LET prot == ProtocolMark(image).version
      app == ApplicationMark(image, hw).version
      file(p) == FileOfPart(p, Generation(prot))
  IN  \/ <<"protocol", "ZW_VERSION">> \notin DOMAIN image.versions
      \/ ReadAt("APP_VERSION", image.layout, hw, prot, prot) \notin DOMAIN image.versions
      \/ \E p \in PartsRead(prot) :
           /\ file(p) \notin OptionalFiles \/ (p = "sucUpdateEntries" /\ Generation(prot) = 715)
           /\ PlaceRead(p, image.layout, hw, prot, app) \notin DOMAIN image.held

------------------------------------------------------------------------------
(***************************************************************************)
(* Documents                                                               *)
(***************************************************************************)
Exported(image, hw) ==
  [format |-> ProtocolMark(image).format,
   appFormat |-> ApplicationMark(image, hw).format,
   prot |-> ProtocolMark(image).version,
   app |-> ApplicationMark(image, hw).version,
   parts |-> [p \in Part |-> ReadPart(image, hw, p)],
   path |-> image.path,
   lost |-> image.lost]

(* The schema has the keys of a part from the same format or version on;   *)
(* one of them stands for the part.  The SUC entries, an array of objects, *)
(* are neither added nor removed.                                          *)
Exists(p, target) ==
  LET key(k) == ShouldAdd("controller", k, target)
  IN  CASE p = "info" -> key("homeId")
        [] p = "lrInfo" -> key("lastNodeIdLR")
        [] p = "autoMode" -> key("longRangeChannelAutoMode")
        [] p = "settings" -> key("isListening")
        [] p = "cmdClasses" -> ShouldAdd("cmdClasses", "includedInsecurely", target)
        [] p = "rfConfig" -> ShouldAdd("rfConfig", "rfRegion", target)
        [] p = "sucUpdateEntries" -> TRUE
        [] OTHER -> key(p)

(* A fault: the upgrade fills in defaults over what is there.              *)
UpgradedPartReset(content, p, target) ==
  IF p = "sucUpdateEntries" THEN content
  ELSE IF Exists(p, target) THEN "default"
  ELSE "absent"

UpgradedPart(content, p, target) ==
  IF p = "sucUpdateEntries" THEN content
  ELSE IF ~Exists(p, target) THEN "absent"
  ELSE IF content \in {"absent", "empty"} THEN "default"
  ELSE content

Upgraded(doc, target) ==
  [format |-> UpgradeFormat(target),
   appFormat |-> AppFileFormat(target),
   prot |-> target,
   app |-> target,
   parts |-> [p \in Part |-> UpgradedPart(doc.parts[p], p, target)],
   path |-> doc.path \cup {<<"json", target>>},
   lost |-> doc.lost]

(* The parts without which a parser reports an error, and those without    *)
(* which it gives up.                                                      *)
Required(prot) == PartsWritten(prot) \ {"dcdcConfig", "applicationName"}
Indispensable == {"cmdClasses", "rfConfig"}

(* The objects an import writes while the instances in open are open and   *)
(* those in failing cannot be written.  The SUC files are written only if  *)
(* there is a list; the other parts that are absent get their defaults.    *)
Imported(doc, layout, hw, open, failing) ==
  LET prot == Stored(doc.prot)
      kept(place) == place[1] \in open /\ place \notin failing
      stored == {p \in PartsWritten(prot) :
                   /\ p = "sucUpdateEntries" => doc.parts[p] # "absent"
                   /\ kept(PlaceWritten(p, layout, hw, prot)[1])}
      partAt(entry) == doc.parts[entry[2]]
      marks == {place \in {<<"protocol", "ZW_VERSION">>,
                           WrittenAt("APP_VERSION", layout, hw, prot)} : kept(place)}
  IN  [layout |-> layout,
       versions |->
         [place \in marks |->
            IF place[2] = "ZW_VERSION"
              THEN [format |-> TargetFormat(doc.prot), version |-> prot]
              ELSE [format |-> doc.appFormat, version |-> Stored(doc.app)]],
       held |->
         [entry \in {PlaceWritten(p, layout, hw, prot) : p \in stored} |->
            IF partAt(entry) \in Content THEN partAt(entry) ELSE "default"],
       path |-> doc.path \cup {<<layout, prot>>},
       lost |-> doc.lost \cup failing]

PlacesWritten(layout, hw, prot) ==
  {PlaceWritten(p, layout, hw, prot)[1] : p \in PartsWritten(prot)}
    \cup {<<"protocol", "ZW_VERSION">>, WrittenAt("APP_VERSION", layout, hw, prot)}

------------------------------------------------------------------------------
(***************************************************************************)
(* The process                                                             *)
(***************************************************************************)
VARIABLES
  given,        \* the image to start from: never written
  made,         \* the image the last import or migration wrote
  exported,     \* the JSON file the last export wrote
  upgraded,     \* the JSON file the last upgrade wrote
  request,      \* the command line of the run
  pc,           \* where the run is
  status,       \* how it ended
  wrote,        \* whether it has written its output
  image,        \* the image in memory
  jo,           \* the JSON document in memory
  layout,       \* the layout of the image in the NVM3 storage
  handles,      \* the NVM3 instances that are open
  hardware_info,
  parse_error_detected,
  nvm3_error_detected,
  runs          \* the number of runs begun

files == <<given, made, exported, upgraded>>
statics == <<handles, hardware_info, parse_error_detected, nvm3_error_detected>>
vars == <<files, request, pc, status, wrote, image, jo, layout, statics, runs>>

Mode == {"export", "upgrade", "import", "migrate"}

(* A migration and an export read an image, the other modes a document;    *)
(* source says which of the two there are.                                 *)
Request ==
  [mode : {"export"}, source : {"given", "made"}]
    \cup [mode : {"migrate"}, source : {"given", "made"}, part : Parts, target : Target]
    \cup [mode : {"import"}, source : {"exported", "upgraded"}, part : Parts]
    \cup [mode : {"upgrade"}, source : {"exported", "upgraded"}, target : Target]

SourceFile ==
  CASE request.source = "given" -> given
    [] request.source = "made" -> made
    [] request.source = "exported" -> exported
    [] request.source = "upgraded" -> upgraded

NoRequest == [mode |-> "none"]

Init ==
  /\ given \in GivenImage
  /\ made = NoFile
  /\ exported = NoFile
  /\ upgraded = NoFile
  /\ request = NoRequest
  /\ pc = "idle"
  /\ status = "none"
  /\ wrote = FALSE
  /\ image = NoFile
  /\ jo = NoFile
  /\ layout = "700s"
  /\ handles = {}
  /\ hardware_info = "UNDEFINED_HARDWARE"
  /\ parse_error_detected = FALSE
  /\ nvm3_error_detected = FALSE
  /\ runs = 0

(* A new process: all its variables are at their initial values.           *)
Start ==
  /\ pc = "idle"
  /\ runs < MaxRuns
  /\ request' \in Request
  /\ pc' = "load"
  /\ runs' = runs + 1
  /\ UNCHANGED <<files, status, wrote, image, jo, layout, statics>>

(* exit(EXIT_FAILURE), and the return of main.                             *)
Ends(how) == pc' = "ended" /\ status' = how

(* A fault: an error ends the run as a success.                            *)
FailQuietly(from) ==
  /\ pc = from
  /\ Ends("success")
  /\ UNCHANGED <<files, request, wrote, image, jo, layout, statics, runs>>

Fail(from) ==
  /\ pc = from
  /\ Ends("failure")
  /\ UNCHANGED <<files, request, wrote, image, jo, layout, statics, runs>>

(* An export of a missing image ends without an output and without a       *)
(* failure; a migration goes on to the upgrade, without a document.        *)
LoadImage ==
  /\ pc = "load"
  /\ request.mode \in {"export", "migrate"}
  /\ IF SourceFile # NoFile
       THEN /\ image' = SourceFile
            /\ layout' = LayoutOfSize(ImageSize(SourceFile.layout))
            /\ pc' = "open to check"
            /\ status' = status
       ELSE /\ UNCHANGED <<image, layout>>
            /\ IF request.mode = "export" THEN Ends("success")
               ELSE pc' = "upgrade" /\ status' = status
  /\ UNCHANGED <<files, request, wrote, jo, statics, runs>>

LoadDocument ==
  /\ pc = "load"
  /\ request.mode \in {"import", "upgrade"}
  /\ jo' = SourceFile
  /\ pc' = IF request.mode = "import" THEN "layout" ELSE "upgrade"
  /\ UNCHANGED <<files, request, status, wrote, image, layout, statics, runs>>

(* open_controller_nvm: an image given to it is opened whole or the run    *)
(* fails; the result is not looked at when it opens an empty one.          *)
Open(from, to) ==
  /\ pc = from
  /\ handles' = Instances(layout)
  /\ pc' = to
  /\ UNCHANGED <<files, request, status, wrote, image, jo, layout, hardware_info,
                 parse_error_detected, nvm3_error_detected, runs>>

OpenFails(from) == OpensMayFail /\ Fail(from)

OpenEmptyFails ==
  /\ pc = "open empty"
  /\ OpensMayFail
  /\ \E opened \in SUBSET Instances(layout) : opened # Instances(layout) /\ handles' = opened
  /\ pc' = "parse"
  /\ UNCHANGED <<files, request, status, wrote, image, jo, layout, hardware_info,
                 parse_error_detected, nvm3_error_detected, runs>>

(* A fault: the instances are left open after the check.                   *)
CheckLeavesOpen ==
  /\ pc = "check"
  /\ hardware_info' = IF layout = "700s" THEN hardware_info ELSE HardwareOf(image)
  /\ nvm3_error_detected' =
       (nvm3_error_detected \/ <<"protocol", "ZW_VERSION">> \notin DOMAIN image.versions)
  /\ pc' = "open to export"
  /\ UNCHANGED <<files, request, status, wrote, image, jo, layout, handles,
                 parse_error_detected, runs>>

(* check_controller_nvm.                                                   *)
Check ==
  /\ pc = "check"
  /\ hardware_info' = IF layout = "700s" THEN hardware_info ELSE HardwareOf(image)
  /\ nvm3_error_detected' =
       (nvm3_error_detected \/ <<"protocol", "ZW_VERSION">> \notin DOMAIN image.versions)
  /\ handles' = {}
  /\ pc' = "open to export"
  /\ UNCHANGED <<files, request, status, wrote, image, jo, layout, parse_error_detected, runs>>

(* nvmlib_nvm_to_json.                                                     *)
Export ==
  /\ pc = "export"
  /\ jo' = Exported(image, hardware_info)
  /\ nvm3_error_detected' = (nvm3_error_detected \/ ReadFails(image, hardware_info))
  /\ handles' = {}
  /\ pc' = IF request.mode = "export" THEN "save" ELSE "upgrade"
  /\ UNCHANGED <<files, request, status, wrote, image, layout, hardware_info,
                 parse_error_detected, runs>>

(* upgrade_json_to_version.                                                *)
CanUpgrade == jo # NoFile /\ UpgradeAccepts(request.target)

Upgrade ==
  /\ pc = "upgrade"
  /\ CanUpgrade
  /\ jo' = Upgraded(jo, request.target)
  /\ pc' = IF request.mode = "migrate" THEN "layout" ELSE "save"
  /\ UNCHANGED <<files, request, status, wrote, image, layout, statics, runs>>

UpgradeFails ==
  /\ pc = "upgrade"
  /\ ~CanUpgrade
  /\ Fail("upgrade")

SaveDocument ==
  /\ pc = "save"
  /\ IF request.mode = "export"
       THEN exported' = jo /\ upgraded' = upgraded
       ELSE upgraded' = jo /\ exported' = exported
  /\ wrote' = TRUE
  /\ Ends("success")
  /\ UNCHANGED <<given, made, request, image, jo, layout, statics, runs>>

(* json_get_nvm_layout.                                                    *)
HasLayout == jo # NoFile /\ TargetLayout(request.part, jo.prot) # Rejected

ChooseLayout ==
  /\ pc = "layout"
  /\ HasLayout
  /\ layout' = TargetLayout(request.part, jo.prot)
  /\ hardware_info' = TargetHardware(request.part)
  /\ pc' = "open empty"
  /\ UNCHANGED <<files, request, status, wrote, image, jo, handles,
                 parse_error_detected, nvm3_error_detected, runs>>

LayoutFails ==
  /\ pc = "layout"
  /\ ~HasLayout
  /\ Fail("layout")

(* controller_parse_json: a write to a closed instance fails, and so may   *)
(* the write of one object.  Errors are recorded, and the parser goes on.  *)
Parse ==
  /\ pc = "parse"
  /\ \A p \in Indispensable : jo.parts[p] # "absent"
  /\ \E failing \in {{}} \cup
         {{place} : place \in {p \in PlacesWritten(layout, hardware_info, Stored(jo.prot)) :
                                p[2] \in Unwritable}} :
       /\ image' = Imported(jo, layout, hardware_info, handles, failing)
       /\ nvm3_error_detected' = (failing # {} \/ handles # Instances(layout))
  /\ parse_error_detected' = \E p \in Required(Stored(jo.prot)) : jo.parts[p] = "absent"
  /\ pc' = "take image"
  /\ UNCHANGED <<files, request, status, wrote, jo, layout, handles, hardware_info, runs>>

ParseFails ==
  /\ pc = "parse"
  /\ \E p \in Indispensable : jo.parts[p] = "absent"
  /\ parse_error_detected' = TRUE
  /\ nvm3_error_detected' = (handles # Instances(layout))
  /\ handles' = {}
  /\ Ends("failure")
  /\ UNCHANGED <<files, request, wrote, image, jo, layout, hardware_info, runs>>

(* A fault: the image is taken although an instance is closed.             *)
TakeImageUnchecked ==
  /\ pc = "take image"
  /\ handles' = {}
  /\ pc' = "write image"
  /\ UNCHANGED <<files, request, status, wrote, image, jo, layout, hardware_info,
                 parse_error_detected, nvm3_error_detected, runs>>

(* get_controller_nvm_image, which has an image only of open instances,    *)
(* and the closing of the instances.                                       *)
TakeImage ==
  /\ pc = "take image"
  /\ handles' = {}
  /\ IF Instances(layout) \subseteq handles
       THEN pc' = "write image" /\ status' = status
       ELSE Ends("failure")
  /\ UNCHANGED <<files, request, wrote, image, jo, layout, hardware_info,
                 parse_error_detected, nvm3_error_detected, runs>>

WriteImage ==
  /\ pc = "write image"
  /\ made' = image
  /\ wrote' = TRUE
  /\ Ends("success")
  /\ UNCHANGED <<given, exported, upgraded, request, image, jo, layout, statics, runs>>

OutputFails(from) == OpensMayFail /\ Fail(from)

(* The process is gone, and with it all but the files.                    *)
End ==
  /\ pc = "ended"
  /\ pc' = "idle"
  /\ request' = NoRequest
  /\ status' = "none"
  /\ wrote' = FALSE
  /\ image' = NoFile
  /\ jo' = NoFile
  /\ layout' = "700s"
  /\ handles' = {}
  /\ hardware_info' = "UNDEFINED_HARDWARE"
  /\ parse_error_detected' = FALSE
  /\ nvm3_error_detected' = FALSE
  /\ UNCHANGED <<files, runs>>

Next ==
  \/ Start
  \/ LoadImage
  \/ LoadDocument
  \/ Open("open to check", "check")
  \/ OpenFails("open to check")
  \/ Check
  \/ Open("open to export", "export")
  \/ OpenFails("open to export")
  \/ Export
  \/ Upgrade
  \/ UpgradeFails
  \/ SaveDocument
  \/ OutputFails("save")
  \/ ChooseLayout
  \/ LayoutFails
  \/ Open("open empty", "parse")
  \/ OpenEmptyFails
  \/ Parse
  \/ ParseFails
  \/ TakeImage
  \/ WriteImage
  \/ OutputFails("write image")
  \/ End

Spec == Init /\ [][Next]_vars

------------------------------------------------------------------------------
(***************************************************************************)
(* Properties                                                              *)
(***************************************************************************)
(* An instance is opened only while none is open, although an image is     *)
(* opened to be checked, again to be read, and a migration opens a third   *)
(* (open_controller_nvm uses the same two handles, 647-764): each          *)
(* conversion closes what it opened.                                       *)
HandlesFree ==
  pc \in {"load", "open to check", "open to export", "upgrade", "save", "layout", "open empty",
          "write image"} => handles = {}

Done(modes) == pc = "ended" /\ status = "success" /\ request.mode \in modes

(* An image made without a failed write holds every part that the given    *)
(* image had, if each version the contents came through can carry it,      *)
(* whatever the sequence of exports, upgrades, imports and migrations, of  *)
(* layouts and of part numbers (README.md:2, "while preserving Z-Wave     *)
(* network information").  The DC/DC configuration is the exception: in a  *)
(* 700 series image from 7.19 on it is written to the protocol instance    *)
(* and looked for in the application instance (controller_nvm.c:2691 and   *)
(* 1577), so the tool never finds what it stored.  Application data at its *)
(* default may also read as absent: the oldest images are exported without *)
(* it (1438), and the importer takes an absent one for the default.        *)
Carries(p, step) ==
  /\ p \in PartsWritten(step[2]) \cap PartsRead(step[2])
  /\ step[1] = "json" => Exists(p, step[2])

Same(p, before, after) ==
  after = before \/ (p = "applicationData" /\ before = "default" /\ after = "absent")

Kept(p) ==
  LET before == ReadPart(given, HardwareOf(given), p)
  IN  before \in {"default", "value"} /\ (\A step \in made.path : Carries(p, step))
        => Same(p, before, ReadPart(made, HardwareOf(made), p))

DcdcMisplaced(step) == step[1] = "700s" /\ Is719OrNewer(step[2])

PartsKept ==
  made # NoFile /\ made.lost = {} =>
    /\ \A p \in Part :
         Kept(p) \/ (p = "dcdcConfig" /\ \E step \in made.path : DcdcMisplaced(step))
    /\ DcdcMisplaced(<<made.layout, ProtocolMark(made).version>>) =>
         ReadPart(made, HardwareOf(made), "dcdcConfig") = "absent"

(* The image of a successful run is for the version and the part asked     *)
(* for: its size, the chip the next run detects in it, its protocol and    *)
(* application versions and their formats.  Before 7.19 an 800 series      *)
(* image does not tell its chip and is taken for an EFR32XG23.  A version  *)
(* file holds bytes: the version asked for is there if it fits; of a       *)
(* protocol version only the patch may be cut (controller_nvm.c:379-478).  *)
VersionAsked == IF request.mode = "migrate" THEN request.target ELSE SourceFile.prot
MarkAsked ==
  IF request.mode = "migrate"
    THEN [format |-> AppFileFormat(request.target), version |-> request.target]
    ELSE [format |-> SourceFile.appFormat, version |-> SourceFile.app]

CarriedFor(stamp, asked) ==
  /\ stamp \in ByteVersion
  /\ asked \in ByteVersion => stamp = asked
  /\ \A i \in 1 .. 3 : (asked[i] - stamp[i]) % 256 = 0

MadeAsAsked ==
  Done({"import", "migrate"}) /\ made.lost = {} =>
    /\ made.layout = TargetLayout(request.part, VersionAsked)
    /\ made.layout = "800s_FROM_719" => HardwareOf(made) = request.part
    /\ made.layout = "800s_PRIOR_719" => HardwareOf(made) = "EFR32XG23"
    /\ ProtocolMark(made).format = TargetFormat(VersionAsked)
    /\ CarriedFor(ProtocolMark(made).version, VersionAsked)
    /\ Major(ProtocolMark(made).version) = Major(VersionAsked)
    /\ Minor(ProtocolMark(made).version) = Minor(VersionAsked)
    /\ ApplicationMark(made, HardwareOf(made)).format = MarkAsked.format
    /\ CarriedFor(ApplicationMark(made, HardwareOf(made)).version, MarkAsked.version)

(* A run that raised no error made an image that is read without an error, *)
(* unless the application has a version of its own with another shape of   *)
(* the configuration than the protocol version.                            *)
CleanImageReadsClean ==
  Done({"import", "migrate"}) /\ ~parse_error_detected /\ ~nvm3_error_detected
  /\ ReadStruct(MarkAsked.version) = WrittenStruct(VersionAsked)
    => ~ReadFails(made, HardwareOf(made))

(* However the instances opened, an image that was written has objects in  *)
(* each instance of its layout: the unchecked open (api_wrappers.c:56) is  *)
(* caught by the taking of the image.                                      *)
NoInstanceMissing ==
  made # NoFile =>
    {entry[1][1] : entry \in DOMAIN made.held} \cup {place[1] : place \in DOMAIN made.versions}
      = Instances(made.layout)

(* The exit status tells whether there is an output, unless an export was  *)
(* asked of an image that cannot be loaded.                                *)
StatusTellsOutput ==
  pc = "ended" =>
    (status = "success" <=> wrote \/ (request.mode = "export" /\ SourceFile = NoFile))

------------------------------------------------------------------------------
(* What the texts of the repository say and the code does not do.          *)

(* "The final status will be "failed" due to this." (controller_nvm.c:     *)
(* 2825-2827 and 2837-2839): a recorded error fails the conversion.        *)
ErrorsFailTheConversion ==
  Done({"import", "migrate"}) => ~parse_error_detected
==============================================================================
