------------------------- MODULE MigrationToolProofs --------------------------
(***************************************************************************)
(* Proofs about runs of the tool, for every set of images to start from,   *)
(* of versions and of part numbers, and for any number of runs.            *)
(***************************************************************************)
EXTENDS MigrationTool, StorageRulesProofs

(***************************************************************************)
(* What is known of a run while it is at pc                                *)
(***************************************************************************)
Reading == {"open to check", "check", "open to export", "export"}
Writing == {"layout", "open empty", "parse", "take image", "write image"}
Place == {"idle", "load", "upgrade", "save", "ended"} \cup Reading \cup Writing

(* The conversions that get to a place.                                    *)
ModesAt(place) ==
  CASE place \in Reading -> {"export", "migrate"}
    [] place \in Writing -> {"import", "migrate"}
    [] place = "upgrade" -> {"upgrade", "migrate"}
    [] place = "save" -> {"export", "upgrade"}
    [] OTHER -> Mode

RequestFits ==
  /\ pc \in Place
  /\ pc # "idle" => request \in Request /\ request.mode \in ModesAt(pc)

(* A run has neither an output nor a status before its end.                *)
Unfinished == pc # "ended" => wrote = FALSE /\ status = "none"

(* An export goes on only with an image.                                   *)
ExportHasImage ==
  pc \in Reading \cup {"save"} /\ request.mode = "export" => SourceFile # NoFile

Shut ==
  pc \in {"idle", "load", "open to check", "open to export", "upgrade", "save", "layout",
          "open empty", "write image"} => handles = {}

IInv == RequestFits /\ Unfinished /\ ExportHasImage /\ Shut /\ StatusTellsOutput

------------------------------------------------------------------------------
LEMMA RequestModes ==
  ASSUME NEW r \in Request
  PROVE  /\ r.mode \in Mode
         /\ r.mode \in {"export", "migrate"} => r.source \in {"given", "made"}
BY DEF Request, Mode

LEMMA Initially == Init => IInv
BY DEF Init, IInv, RequestFits, Unfinished, ExportHasImage, Shut, StatusTellsOutput, Place, Reading

(* What a failing step leaves for the next process.                        *)
LEMMA FailKeeps ==
  ASSUME IInv, NEW from \in Place \ {"idle", "load", "ended"}, Fail(from)
  PROVE  IInv'
<1>1. pc = from /\ pc' = "ended" /\ status' = "failure" /\ request' = request /\ wrote' = wrote
  BY DEF Fail, Ends
<1>2. SourceFile' = SourceFile
  BY DEF Fail, SourceFile, files
<1>3. RequestFits'
  BY <1>1, RequestModes DEF IInv, RequestFits, Place, ModesAt, Reading, Writing
<1>4. wrote = FALSE
  BY <1>1 DEF IInv, Unfinished, Place, Reading, Writing
<1>5. ~(request.mode = "export" /\ SourceFile = NoFile)
  BY <1>1 DEF IInv, RequestFits, ExportHasImage, Place, ModesAt, Reading, Writing
<1>6. StatusTellsOutput'
  BY <1>1, <1>2, <1>4, <1>5 DEF StatusTellsOutput
<1>7. Unfinished' /\ ExportHasImage' /\ Shut'
  BY <1>1 DEF Unfinished, ExportHasImage, Shut, Reading
<1> QED
  BY <1>3, <1>6, <1>7 DEF IInv

(* A step that leaves the request and the files alone and goes on to a     *)
(* place that the mode of the run leads to.                                *)
LEMMA GoesOn ==
  ASSUME IInv, pc # "idle", pc # "ended",
         NEW to \in Place \ {"idle", "load", "ended"}, pc' = to,
         request.mode \in ModesAt(to),
         to \in Reading \cup {"save"} /\ request.mode = "export" => SourceFile # NoFile,
         to \in {"open to check", "open to export", "upgrade", "save", "layout",
                 "open empty", "write image"} => handles' = {},
         UNCHANGED <<files, request, status, wrote>>
  PROVE  IInv'
<1>1. SourceFile' = SourceFile
  BY DEF SourceFile, files
<1>2. RequestFits'
  BY DEF IInv, RequestFits
<1>3. ExportHasImage'
  BY <1>1 DEF ExportHasImage
<1>4. Unfinished'
  BY DEF IInv, Unfinished
<1>5. Shut' /\ StatusTellsOutput'
  BY DEF Shut, StatusTellsOutput
<1> QED
  BY <1>2, <1>3, <1>4, <1>5 DEF IInv

(* A step that writes the output: the last one of a run.                   *)
LEMMA WritesOutput ==
  ASSUME IInv, pc \in {"save", "write image"}, pc' = "ended", status' = "success",
         wrote' = TRUE, request' = request
  PROVE  IInv'
<1>1. RequestFits'
  BY RequestModes DEF IInv, RequestFits, Place, ModesAt, Reading, Writing
<1>2. Unfinished' /\ ExportHasImage' /\ Shut' /\ StatusTellsOutput'
  BY DEF Unfinished, ExportHasImage, Shut, StatusTellsOutput, Reading
<1> QED
  BY <1>1, <1>2 DEF IInv

(* The other ways in which a run ends without an output: a failure of an   *)
(* import or of a migration.                                               *)
LEMMA ImportEnds ==
  ASSUME IInv, pc \in Writing, Ends("failure"), request' = request, wrote' = wrote
  PROVE  IInv'
<1>1. RequestFits'
  BY RequestModes DEF IInv, RequestFits, Place, ModesAt, Reading, Writing, Ends
<1>2. request.mode # "export" /\ wrote = FALSE
  BY DEF IInv, RequestFits, Unfinished, ModesAt, Reading, Writing
<1>3. StatusTellsOutput'
  BY <1>2 DEF StatusTellsOutput, Ends
<1>4. Unfinished' /\ ExportHasImage' /\ Shut'
  BY DEF Unfinished, ExportHasImage, Shut, Reading, Ends
<1> QED
  BY <1>1, <1>3, <1>4 DEF IInv

LEMMA StartKeeps ==
  ASSUME IInv, Start
  PROVE  IInv'
<1>1. RequestFits'
  BY RequestModes DEF Start, RequestFits, Place, ModesAt, Reading, Writing
<1>2. Unfinished' /\ ExportHasImage' /\ Shut' /\ StatusTellsOutput'
  BY DEF IInv, Start, Unfinished, ExportHasImage, Shut, StatusTellsOutput, Reading, statics
<1> QED
  BY <1>1, <1>2 DEF IInv

LEMMA LoadImageKeeps ==
  ASSUME IInv, LoadImage
  PROVE  IInv'
<1>1. /\ pc = "load" /\ request \in Request /\ request.mode \in {"export", "migrate"}
      /\ wrote = FALSE /\ status = "none" /\ handles = {}
      /\ UNCHANGED <<files, request, wrote, handles>>
  BY DEF IInv, LoadImage, RequestFits, Unfinished, Shut, statics
<1>2. CASE SourceFile # NoFile
  <2>1. pc' = "open to check" /\ status' = status
    BY <1>2 DEF LoadImage
  <2>2. "open to check" \in Place \ {"idle", "load", "ended"}
        /\ request.mode \in ModesAt("open to check")
    BY <1>1 DEF Place, ModesAt, Reading, Writing
  <2>3. UNCHANGED <<files, request, status, wrote>> /\ handles' = {}
    BY <1>1, <2>1
  <2> QED
    BY <1>1, <1>2, <2>1, <2>2, <2>3, GoesOn
<1>3. CASE SourceFile = NoFile /\ request.mode # "export"
  <2>1. pc' = "upgrade" /\ status' = status
    BY <1>1, <1>3 DEF LoadImage
  <2>2. "upgrade" \in Place \ {"idle", "load", "ended"} /\ request.mode \in ModesAt("upgrade")
    BY <1>1, <1>3 DEF Place, ModesAt, Reading, Writing
  <2>3. UNCHANGED <<files, request, status, wrote>> /\ handles' = {}
    BY <1>1, <2>1
  <2> QED
    BY <1>1, <1>3, <2>1, <2>2, <2>3, GoesOn DEF Reading
<1>4. CASE SourceFile = NoFile /\ request.mode = "export"
  <2>1. pc' = "ended" /\ status' = "success"
    BY <1>1, <1>4 DEF LoadImage, Ends
  <2>2. SourceFile' = SourceFile
    BY <1>1 DEF SourceFile, files
  <2>3. StatusTellsOutput'
    BY <1>1, <1>4, <2>1, <2>2 DEF StatusTellsOutput
  <2>4. RequestFits' /\ Unfinished' /\ ExportHasImage' /\ Shut'
    BY <1>1, <2>1, RequestModes
       DEF RequestFits, Unfinished, ExportHasImage, Shut, Place, ModesAt, Reading, Writing
  <2> QED
    BY <2>3, <2>4 DEF IInv
<1> QED
  BY <1>2, <1>3, <1>4

LEMMA LoadDocumentKeeps ==
  ASSUME IInv, LoadDocument
  PROVE  IInv'
<1>1. /\ pc = "load" /\ request.mode \in {"import", "upgrade"}
      /\ handles' = {}
      /\ UNCHANGED <<files, request, status, wrote>>
  BY DEF IInv, LoadDocument, Shut, statics
<1>2. CASE request.mode = "import"
  <2>1. pc' = "layout"
    BY <1>2 DEF LoadDocument
  <2>2. "layout" \in Place \ {"idle", "load", "ended"} /\ request.mode \in ModesAt("layout")
    BY <1>2 DEF Place, ModesAt, Reading, Writing
  <2> QED
    BY <1>1, <2>1, <2>2, GoesOn DEF Reading
<1>3. CASE request.mode = "upgrade"
  <2>1. pc' = "upgrade"
    BY <1>1, <1>3 DEF LoadDocument
  <2>2. "upgrade" \in Place \ {"idle", "load", "ended"} /\ request.mode \in ModesAt("upgrade")
    BY <1>3 DEF Place, ModesAt, Reading, Writing
  <2> QED
    BY <1>1, <2>1, <2>2, GoesOn DEF Reading
<1> QED
  BY <1>1, <1>2, <1>3

(* The openings: both of the same image, and the one of an empty image.    *)
LEMMA OpenKeeps ==
  ASSUME IInv, NEW from \in {"open to check", "open to export", "open empty"},
         pc = from, UNCHANGED <<files, request, status, wrote>>,
         pc' = CASE from = "open to check" -> "check"
                 [] from = "open to export" -> "export"
                 [] from = "open empty" -> "parse"
  PROVE  IInv'
<1>1. CASE from = "open to check"
  <2>1. /\ "check" \in Place \ {"idle", "load", "ended"} /\ request.mode \in ModesAt("check")
        /\ request.mode = "export" => SourceFile # NoFile
    BY <1>1 DEF IInv, RequestFits, ExportHasImage, Place, ModesAt, Reading, Writing
  <2>2. pc' = "check"
    BY <1>1
  <2> QED
    BY <1>1, <2>1, <2>2, GoesOn
<1>2. CASE from = "open to export"
  <2>1. /\ "export" \in Place \ {"idle", "load", "ended"} /\ request.mode \in ModesAt("export")
        /\ request.mode = "export" => SourceFile # NoFile
    BY <1>2 DEF IInv, RequestFits, ExportHasImage, Place, ModesAt, Reading, Writing
  <2>2. pc' = "export"
    BY <1>2
  <2> QED
    BY <1>2, <2>1, <2>2, GoesOn
<1>3. CASE from = "open empty"
  <2>1. "parse" \in Place \ {"idle", "load", "ended"} /\ request.mode \in ModesAt("parse")
    BY <1>3 DEF IInv, RequestFits, Place, ModesAt, Reading, Writing
  <2>2. pc' = "parse"
    BY <1>3
  <2> QED
    BY <1>3, <2>1, <2>2, GoesOn DEF Reading
<1> QED
  BY <1>1, <1>2, <1>3

LEMMA CheckKeeps ==
  ASSUME IInv, Check
  PROVE  IInv'
<1>1. /\ pc = "check" /\ pc' = "open to export" /\ handles' = {}
      /\ UNCHANGED <<files, request, status, wrote>>
  BY DEF Check
<1>2. /\ "open to export" \in Place \ {"idle", "load", "ended"}
      /\ request.mode \in ModesAt("open to export")
      /\ request.mode = "export" => SourceFile # NoFile
  BY <1>1 DEF IInv, RequestFits, ExportHasImage, Place, ModesAt, Reading, Writing
<1> QED
  BY <1>1, <1>2, GoesOn

LEMMA ExportKeeps ==
  ASSUME IInv, Export
  PROVE  IInv'
<1>1. /\ pc = "export" /\ handles' = {}
      /\ UNCHANGED <<files, request, status, wrote>>
      /\ request.mode \in {"export", "migrate"}
      /\ request.mode = "export" => SourceFile # NoFile
  BY DEF IInv, RequestFits, ExportHasImage, ModesAt, Reading, Writing, Export
<1>2. CASE request.mode = "export"
  <2>1. pc' = "save"
    BY <1>2 DEF Export
  <2>2. "save" \in Place \ {"idle", "load", "ended"} /\ request.mode \in ModesAt("save")
    BY <1>2 DEF Place, ModesAt, Reading, Writing
  <2> QED
    BY <1>1, <2>1, <2>2, GoesOn
<1>3. CASE request.mode = "migrate"
  <2>1. pc' = "upgrade"
    BY <1>3 DEF Export
  <2>2. "upgrade" \in Place \ {"idle", "load", "ended"} /\ request.mode \in ModesAt("upgrade")
    BY <1>3 DEF Place, ModesAt, Reading, Writing
  <2> QED
    BY <1>1, <2>1, <2>2, GoesOn DEF Reading
<1> QED
  BY <1>1, <1>2, <1>3

LEMMA UpgradeKeeps ==
  ASSUME IInv, Upgrade
  PROVE  IInv'
<1>1. /\ pc = "upgrade" /\ handles' = {}
      /\ UNCHANGED <<files, request, status, wrote>>
      /\ request.mode \in {"upgrade", "migrate"}
  BY DEF IInv, RequestFits, Shut, ModesAt, Reading, Writing, Upgrade, statics
<1>2. CASE request.mode = "migrate"
  <2>1. pc' = "layout"
    BY <1>2 DEF Upgrade
  <2>2. "layout" \in Place \ {"idle", "load", "ended"} /\ request.mode \in ModesAt("layout")
    BY <1>2 DEF Place, ModesAt, Reading, Writing
  <2> QED
    BY <1>1, <2>1, <2>2, GoesOn DEF Reading
<1>3. CASE request.mode = "upgrade"
  <2>1. pc' = "save"
    BY <1>3 DEF Upgrade
  <2>2. "save" \in Place \ {"idle", "load", "ended"} /\ request.mode \in ModesAt("save")
    BY <1>3 DEF Place, ModesAt, Reading, Writing
  <2> QED
    BY <1>1, <1>3, <2>1, <2>2, GoesOn
<1> QED
  BY <1>1, <1>2, <1>3

LEMMA ChooseLayoutKeeps ==
  ASSUME IInv, ChooseLayout
  PROVE  IInv'
<1>1. /\ pc = "layout" /\ pc' = "open empty" /\ handles' = {}
      /\ UNCHANGED <<files, request, status, wrote>>
  BY DEF IInv, Shut, ChooseLayout
<1>2. /\ "open empty" \in Place \ {"idle", "load", "ended"}
      /\ request.mode \in ModesAt("open empty")
  BY <1>1 DEF IInv, RequestFits, Place, ModesAt, Reading, Writing
<1> QED
  BY <1>1, <1>2, GoesOn DEF Reading

LEMMA ParseKeeps ==
  ASSUME IInv, Parse
  PROVE  IInv'
<1>1. /\ pc = "parse" /\ pc' = "take image"
      /\ UNCHANGED <<files, request, status, wrote>>
  BY DEF Parse
<1>2. /\ "take image" \in Place \ {"idle", "load", "ended"}
      /\ request.mode \in ModesAt("take image")
  BY <1>1 DEF IInv, RequestFits, Place, ModesAt, Reading, Writing
<1> QED
  BY <1>1, <1>2, GoesOn DEF Reading

LEMMA TakeImageKeeps ==
  ASSUME IInv, TakeImage
  PROVE  IInv'
<1>1. /\ pc = "take image" /\ handles' = {}
      /\ UNCHANGED <<files, request, wrote>>
  BY DEF TakeImage
<1>2. CASE Instances(layout) \subseteq handles
  <2>1. pc' = "write image" /\ status' = status
    BY <1>2 DEF TakeImage
  <2>2. /\ "write image" \in Place \ {"idle", "load", "ended"}
        /\ request.mode \in ModesAt("write image")
    BY <1>1 DEF IInv, RequestFits, Place, ModesAt, Reading, Writing
  <2> QED
    BY <1>1, <2>1, <2>2, GoesOn DEF Reading
<1>3. CASE ~(Instances(layout) \subseteq handles)
  BY <1>1, <1>3, ImportEnds DEF TakeImage, Writing
<1> QED
  BY <1>2, <1>3

LEMMA EndKeeps ==
  ASSUME IInv, End
  PROVE  IInv'
BY DEF End, IInv, RequestFits, Unfinished, ExportHasImage, Shut, StatusTellsOutput, Place,
       Reading

------------------------------------------------------------------------------
LEMMA StepKeeps == IInv /\ [Next]_vars => IInv'
<1> SUFFICES ASSUME IInv, [Next]_vars
             PROVE  IInv'
  OBVIOUS
<1>1. CASE Start
  BY <1>1, StartKeeps
<1>2. CASE LoadImage \/ LoadDocument
  BY <1>2, LoadImageKeeps, LoadDocumentKeeps
<1>3. CASE Open("open to check", "check")
  BY <1>3, OpenKeeps DEF Open
<1>4. CASE Open("open to export", "export")
  BY <1>4, OpenKeeps DEF Open
<1>5. CASE Open("open empty", "parse") \/ OpenEmptyFails
  BY <1>5, OpenKeeps DEF Open, OpenEmptyFails
<1>6. CASE OpenFails("open to check") \/ OpenFails("open to export")
  <2>1. {"open to check", "open to export"} \subseteq Place \ {"idle", "load", "ended"}
    BY DEF Place, Reading
  <2> QED
    BY <1>6, <2>1, FailKeeps DEF OpenFails
<1>7. CASE OutputFails("save") \/ OutputFails("write image")
  <2>1. {"save", "write image"} \subseteq Place \ {"idle", "load", "ended"}
    BY DEF Place, Writing
  <2> QED
    BY <1>7, <2>1, FailKeeps DEF OutputFails
<1>8. CASE UpgradeFails \/ LayoutFails
  <2>1. {"upgrade", "layout"} \subseteq Place \ {"idle", "load", "ended"}
    BY DEF Place, Writing
  <2> QED
    BY <1>8, <2>1, FailKeeps DEF UpgradeFails, LayoutFails
<1>9. CASE Check \/ Export \/ Upgrade
  BY <1>9, CheckKeeps, ExportKeeps, UpgradeKeeps
<1>10. CASE SaveDocument \/ WriteImage
  BY <1>10, WritesOutput DEF SaveDocument, WriteImage, Ends
<1>11. CASE ChooseLayout \/ Parse \/ TakeImage
  BY <1>11, ChooseLayoutKeeps, ParseKeeps, TakeImageKeeps
<1>12. CASE ParseFails
  BY <1>12, ImportEnds DEF ParseFails, Writing
<1>13. CASE End
  BY <1>13, EndKeeps
<1>14. CASE UNCHANGED vars
  <2>1. UNCHANGED <<files, request, pc, status, wrote, handles>>
    BY <1>14 DEF vars, statics
  <2>2. SourceFile' = SourceFile
    BY <2>1 DEF SourceFile, files
  <2> QED
    BY <2>1, <2>2
       DEF IInv, RequestFits, Unfinished, ExportHasImage, Shut, StatusTellsOutput
<1> QED
  BY <1>1, <1>2, <1>3, <1>4, <1>5, <1>6, <1>7, <1>8, <1>9, <1>10, <1>11, <1>12, <1>13, <1>14
     DEF Next

LEMMA Inductive == Spec => []IInv
<1> QED
  BY Initially, StepKeeps, PTL DEF Spec

(* Each opening of an image finds both handles free, in every sequence of  *)
(* runs and whichever of their steps fail.                                 *)
THEOREM HandlesStayFree == Spec => []HandlesFree
<1>1. IInv => HandlesFree
  BY DEF IInv, Shut, HandlesFree
<1> QED
  BY <1>1, Inductive, PTL

(* A run ends as a success exactly if it wrote its output, an export of an *)
(* image that cannot be loaded apart.                                      *)
THEOREM StatusIsTrue == Spec => []StatusTellsOutput
<1>1. IInv => StatusTellsOutput
  BY DEF IInv
<1> QED
  BY <1>1, Inductive, PTL

------------------------------------------------------------------------------
(***************************************************************************)
(* The instances of the images written.  The layout of an image fits the   *)
(* version in the document; from this follows in which instances the parts *)
(* go, and there are two objects or more for each instance, so that one    *)
(* that cannot be written leaves none without objects.                     *)
(***************************************************************************)
InstancesUsed(im) ==
  {entry[1][1] : entry \in DOMAIN im.held} \cup {place[1] : place \in DOMAIN im.versions}

LEMMA TwoPlaces ==
  ASSUME NEW prot, NEW hw, NEW lay \in Layout,
         lay = "800s_PRIOR_719" => ~Is719OrNewer(prot)
  PROVE  /\ {"info", "settings", "cmdClasses"} \subseteq PartsWritten(prot)
         /\ PlaceWritten("info", lay, hw, prot) = <<<<"protocol", "CONTROLLERINFO">>, "info">>
         /\ lay # "800s_FROM_719" =>
              /\ PlaceWritten("settings", lay, hw, prot) =
                   <<<<"app", "APPLICATIONSETTINGS">>, "settings">>
              /\ PlaceWritten("cmdClasses", lay, hw, prot) =
                   <<<<"app", "APPLICATIONCMDINFO">>, "cmdClasses">>
<1>1. /\ FileOfPart("info", Generation(prot)) = "CONTROLLERINFO"
      /\ FileOfPart("settings", Generation(prot)) = "APPLICATIONSETTINGS"
      /\ FileOfPart("cmdClasses", Generation(prot)) = "APPLICATIONCMDINFO"
  BY DEF FileOfPart
<1>2. WrittenAt("CONTROLLERINFO", lay, hw, prot) = <<"protocol", "CONTROLLERINFO">>
  BY DEF WrittenAt
<1>3. ASSUME NEW f \in {"APPLICATIONSETTINGS", "APPLICATIONCMDINFO"}, lay # "800s_FROM_719"
      PROVE  WrittenAt(f, lay, hw, prot) = <<"app", f>>
  <2>1. Generation(prot) = 719 => lay = "700s"
    BY <1>3 DEF Generation, Layout
  <2>2. WrittenAt(f, lay, hw, prot) =
          IF Generation(prot) = 719
            THEN IF lay = "700s" THEN <<"app", f>> ELSE <<"protocol", f>>
            ELSE <<"app", f>>
    BY DEF WrittenAt
  <2> QED
    BY <2>1, <2>2
<1>4. {"info", "settings", "cmdClasses"} \subseteq PartsWritten(prot)
  BY DEF PartsWritten
<1> QED
  BY <1>1, <1>2, <1>3, <1>4 DEF PlaceWritten

(* An import into open instances leaves an object in each of them and none *)
(* elsewhere.                                                              *)
LEMMA ImportUses ==
  ASSUME NEW doc, doc.prot \in Version, NEW hw, NEW lay \in Layout,
         lay = "800s_PRIOR_719" => ~Is719OrNewer(Stored(doc.prot)),
         NEW open, NEW failing, \A y, z \in failing : y = z
  PROVE  /\ Imported(doc, lay, hw, open, failing).layout = lay
         /\ open = Instances(lay) =>
              InstancesUsed(Imported(doc, lay, hw, open, failing)) = Instances(lay)
<1> DEFINE prot == Stored(doc.prot)
           im == Imported(doc, lay, hw, open, failing)
           kept(place) == place[1] \in open /\ place \notin failing
           stored == {p \in PartsWritten(prot) :
                        /\ p = "sucUpdateEntries" => doc.parts[p] # "absent"
                        /\ kept(PlaceWritten(p, lay, hw, prot)[1])}
           marks == {place \in {<<"protocol", "ZW_VERSION">>,
                                WrittenAt("APP_VERSION", lay, hw, prot)} : kept(place)}
<1>1. /\ im.layout = lay
      /\ DOMAIN im.held = {PlaceWritten(p, lay, hw, prot) : p \in stored}
      /\ DOMAIN im.versions = marks
  BY DEF Imported
<1>2. InstancesUsed(im) \subseteq open
  BY <1>1 DEF InstancesUsed
<1>3. /\ {"info", "settings", "cmdClasses"} \subseteq PartsWritten(prot)
      /\ PlaceWritten("info", lay, hw, prot) = <<<<"protocol", "CONTROLLERINFO">>, "info">>
      /\ lay # "800s_FROM_719" =>
           /\ PlaceWritten("settings", lay, hw, prot) =
                <<<<"app", "APPLICATIONSETTINGS">>, "settings">>
           /\ PlaceWritten("cmdClasses", lay, hw, prot) =
                <<<<"app", "APPLICATIONCMDINFO">>, "cmdClasses">>
  BY TwoPlaces
<1>4. ASSUME open = Instances(lay)
      PROVE  "protocol" \in InstancesUsed(im)
  <2>1. "protocol" \in open
    BY <1>4 DEF Instances
  <2>2. CASE <<"protocol", "ZW_VERSION">> \notin failing
    <3>1. <<"protocol", "ZW_VERSION">> \in DOMAIN im.versions
      BY <1>1, <2>1, <2>2
    <3> QED
      BY <3>1 DEF InstancesUsed
  <2>3. CASE <<"protocol", "ZW_VERSION">> \in failing
    <3>1. <<"protocol", "CONTROLLERINFO">> \notin failing
      BY <2>3
    <3>2. "info" \in stored
      BY <1>3, <2>1, <3>1
    <3>3. <<<<"protocol", "CONTROLLERINFO">>, "info">> \in DOMAIN im.held
      BY <1>1, <1>3, <3>2
    <3> QED
      BY <3>3 DEF InstancesUsed
  <2> QED
    BY <2>2, <2>3
<1>5. ASSUME open = Instances(lay), lay # "800s_FROM_719"
      PROVE  "app" \in InstancesUsed(im)
  <2>1. "app" \in open
    BY <1>5 DEF Instances
  <2>2. CASE <<"app", "APPLICATIONSETTINGS">> \notin failing
    <3>1. "settings" \in stored
      BY <1>3, <1>5, <2>1, <2>2
    <3>2. <<<<"app", "APPLICATIONSETTINGS">>, "settings">> \in DOMAIN im.held
      BY <1>1, <1>3, <1>5, <3>1
    <3> QED
      BY <3>2 DEF InstancesUsed
  <2>3. CASE <<"app", "APPLICATIONSETTINGS">> \in failing
    <3>1. <<"app", "APPLICATIONCMDINFO">> \notin failing
      BY <2>3
    <3>2. "cmdClasses" \in stored
      BY <1>3, <1>5, <2>1, <3>1
    <3>3. <<<<"app", "APPLICATIONCMDINFO">>, "cmdClasses">> \in DOMAIN im.held
      BY <1>1, <1>3, <1>5, <3>2
    <3> QED
      BY <3>3 DEF InstancesUsed
  <2> QED
    BY <2>2, <2>3
<1>6. open = Instances(lay) => Instances(lay) \subseteq InstancesUsed(im)
  BY <1>4, <1>5 DEF Instances
<1> QED
  BY <1>1, <1>2, <1>6

(* The version an image tells of itself is one, and so is that of a        *)
(* document.                                                               *)
Versioned(im) == ProtocolMark(im).version \in Version

FilesWhole ==
  /\ Versioned(given)
  /\ made # NoFile => Versioned(made) /\ InstancesUsed(made) = Instances(made.layout)
  /\ exported # NoFile => exported.prot \in Version
  /\ upgraded # NoFile => upgraded.prot \in Version

(* What is in memory, and how the image that is made becomes whole.        *)
MemoryWhole ==
  /\ pc \in Reading => Versioned(image)
  /\ jo # NoFile => jo.prot \in Version
  /\ pc \in {"open empty", "parse", "take image"} =>
       /\ jo.prot \in Version
       /\ TargetLayout(request.part, jo.prot) # Rejected
       /\ layout = TargetLayout(request.part, jo.prot)
  /\ pc = "parse" => handles \subseteq Instances(layout)
  /\ pc = "take image" =>
       /\ handles \subseteq Instances(layout)
       /\ Versioned(image) /\ image.layout = layout
       /\ handles = Instances(layout) => InstancesUsed(image) = Instances(layout)
  /\ pc = "write image" =>
       Versioned(image) /\ InstancesUsed(image) = Instances(image.layout)

WInv == FilesWhole /\ MemoryWhole

LEMMA RequestFields ==
  ASSUME NEW r \in Request
  PROVE  /\ r.mode \in {"import", "migrate"} => r.part \in PartNumber
         /\ r.mode \in {"upgrade", "migrate"} => r.target \in Version
         /\ r.mode \in {"export", "migrate"} => r.source \in {"given", "made"}
         /\ r.mode \in {"import", "upgrade"} => r.source \in {"exported", "upgraded"}
BY ToolAssumption DEF Request, Version

LEMMA ImportedVersion ==
  ASSUME NEW doc, doc.prot \in Version, NEW lay, NEW hw, NEW open, NEW failing
  PROVE  Versioned(Imported(doc, lay, hw, open, failing))
<1> DEFINE im == Imported(doc, lay, hw, open, failing)
           place == <<"protocol", "ZW_VERSION">>
<1>1. CASE place \in DOMAIN im.versions
  <2>1. im.versions[place] = [format |-> TargetFormat(doc.prot), version |-> Stored(doc.prot)]
    BY <1>1 DEF Imported
  <2> QED
    BY <1>1, <2>1, StoredVersion DEF Versioned, ProtocolMark
<1>2. CASE place \notin DOMAIN im.versions
  BY <1>2 DEF Versioned, ProtocolMark, NoVersionFile, Version
<1> QED
  BY <1>1, <1>2

(* Versions whose numbers fit a byte are stored as they are.               *)
LEMMA Bytes ==
  ASSUME NEW v
  PROVE  /\ v \in ByteVersion => v \in Version /\ Stored(v) = v
         /\ v \in Version => Stored(v) \in ByteVersion
<1>1. ASSUME v \in ByteVersion
      PROVE  v \in Version /\ Stored(v) = v
  <2>1. /\ v[1] \in 0 .. 255 /\ v[2] \in 0 .. 255 /\ v[3] \in 0 .. 255
        /\ v = <<v[1], v[2], v[3]>>
    BY <1>1 DEF ByteVersion
  <2>2. v[1] % 256 = v[1] /\ v[2] % 256 = v[2] /\ v[3] % 256 = v[3]
    BY <2>1
  <2>3. v \in Version
    BY <2>1 DEF Version
  <2> QED
    BY <2>1, <2>2, <2>3 DEF Stored, Major, Minor, Patch
<1>2. ASSUME v \in Version
      PROVE  Stored(v) \in ByteVersion
  <2>1. Major(v) \in Nat /\ Minor(v) \in Nat /\ Patch(v) \in Nat
    BY <1>2, Components
  <2>2. Major(v) % 256 \in 0 .. 255 /\ Minor(v) % 256 \in 0 .. 255 /\ Patch(v) % 256 \in 0 .. 255
    BY <2>1
  <2> QED
    BY <2>2 DEF Stored, ByteVersion
<1> QED
  BY <1>1, <1>2

LEMMA ImageVersions ==
  ASSUME NEW im, NEW hw,
         \A place \in DOMAIN im.versions : im.versions[place].version \in ByteVersion
  PROVE  /\ ProtocolMark(im).version \in ByteVersion
         /\ ApplicationMark(im, hw).version \in ByteVersion
<1>1. NoVersionFile \in ByteVersion
  BY DEF NoVersionFile, ByteVersion
<1> QED
  BY <1>1 DEF ProtocolMark, ApplicationMark

LEMMA WholeInitially == Init => WInv
<1> SUFFICES ASSUME Init
             PROVE  WInv
  OBVIOUS
<1>1. Versioned(given)
  BY ImagesAssumption, ImageVersions, Bytes DEF Init, Versioned
<1> QED
  BY <1>1 DEF Init, WInv, FilesWhole, MemoryWhole, Reading

(* A step that changes no file and does not go to a place that says        *)
(* something of the image.                                                 *)
LEMMA WholeElsewhere ==
  ASSUME WInv, UNCHANGED files, jo' = jo \/ jo' = NoFile \/ jo'.prot \in Version,
         pc' \notin Reading \cup {"open empty", "parse", "take image", "write image"}
  PROVE  WInv'
<1>1. FilesWhole'
  BY DEF WInv, FilesWhole, files
<1>2. MemoryWhole'
  BY DEF WInv, MemoryWhole, Reading
<1> QED
  BY <1>1, <1>2 DEF WInv

LEMMA WholeLoaded ==
  ASSUME IInv, WInv, LoadImage \/ LoadDocument
  PROVE  WInv'
<1>1. pc = "load" /\ request \in Request /\ UNCHANGED files
  BY DEF IInv, RequestFits, LoadImage, LoadDocument
<1>2. CASE LoadDocument
  <2>1. jo' \in {exported, upgraded}
    BY <1>1, <1>2, RequestFields DEF LoadDocument, SourceFile
  <2>2. jo' = NoFile \/ jo'.prot \in Version
    BY <2>1 DEF WInv, FilesWhole
  <2>3. pc' \in {"layout", "upgrade"}
    BY <1>2 DEF LoadDocument
  <2> QED
    BY <1>1, <2>2, <2>3, WholeElsewhere DEF Reading
<1>3. CASE LoadImage /\ SourceFile # NoFile
  <2>1. SourceFile \in {given, made}
    BY <1>1, <1>3, RequestFields DEF LoadImage, SourceFile
  <2>2. Versioned(SourceFile)
    BY <1>3, <2>1 DEF WInv, FilesWhole
  <2>3. image' = SourceFile /\ pc' = "open to check" /\ jo' = jo
    BY <1>3 DEF LoadImage
  <2>4. Versioned(image)'
    BY <2>2, <2>3 DEF Versioned, ProtocolMark
  <2>5. MemoryWhole'
    BY <2>3, <2>4 DEF WInv, MemoryWhole
  <2> QED
    BY <1>1, <2>5 DEF WInv, FilesWhole, files
<1>4. CASE LoadImage /\ SourceFile = NoFile
  <2>1. pc' \in {"ended", "upgrade"} /\ jo' = jo
    BY <1>4 DEF LoadImage, Ends
  <2> QED
    BY <1>1, <2>1, WholeElsewhere DEF Reading
<1> QED
  BY <1>2, <1>3, <1>4

LEMMA WholeRead ==
  ASSUME WInv, \/ Open("open to check", "check") \/ Check
               \/ Open("open to export", "export") \/ Export
  PROVE  WInv'
<1>1. FilesWhole' /\ image' = image /\ Versioned(image)
  BY DEF WInv, FilesWhole, MemoryWhole, Open, Check, Export, files, Reading
<1>2. Versioned(image)'
  BY <1>1 DEF Versioned, ProtocolMark
<1>3. CASE ~Export
  <2>1. pc' \in {"check", "export", "open to export"} /\ jo' = jo
    BY <1>3 DEF Open, Check
  <2> QED
    BY <1>1, <1>2, <2>1 DEF WInv, MemoryWhole
<1>4. CASE Export
  <2>1. jo'.prot = ProtocolMark(image).version
    BY <1>4 DEF Export, Exported
  <2>2. pc' \in {"save", "upgrade"}
    BY <1>4 DEF Export
  <2> QED
    BY <1>1, <2>1, <2>2 DEF WInv, MemoryWhole, Versioned, Reading
<1> QED
  BY <1>3, <1>4

LEMMA WholeUpgraded ==
  ASSUME IInv, WInv, Upgrade
  PROVE  WInv'
<1>1. request \in Request /\ request.mode \in {"upgrade", "migrate"}
  BY DEF IInv, RequestFits, ModesAt, Reading, Writing, Upgrade
<1>2. request.target \in Version
  BY <1>1, RequestFields
<1>3. jo'.prot = request.target
  BY DEF Upgrade, Upgraded
<1>4. UNCHANGED files /\ pc' \in {"layout", "save"}
  BY DEF Upgrade
<1> QED
  BY <1>2, <1>3, <1>4, WholeElsewhere DEF Reading

LEMMA WholeSaved ==
  ASSUME IInv, WInv, SaveDocument
  PROVE  WInv'
<1>1. /\ UNCHANGED <<given, made, jo>> /\ pc' = "ended"
      /\ \/ exported' = jo /\ upgraded' = upgraded
         \/ upgraded' = jo /\ exported' = exported
  BY DEF SaveDocument, Ends
<1>2. FilesWhole'
  BY <1>1 DEF WInv, FilesWhole, MemoryWhole
<1> QED
  BY <1>1, <1>2 DEF WInv, MemoryWhole, Reading

LEMMA WholeLayout ==
  ASSUME IInv, WInv, ChooseLayout
  PROVE  WInv'
<1>1. /\ UNCHANGED <<files, jo, request>> /\ pc' = "open empty"
      /\ layout' = TargetLayout(request.part, jo.prot)
      /\ jo # NoFile /\ TargetLayout(request.part, jo.prot) # Rejected
  BY DEF ChooseLayout, HasLayout
<1>2. jo.prot \in Version
  BY <1>1 DEF WInv, MemoryWhole
<1>3. MemoryWhole'
  BY <1>1, <1>2 DEF MemoryWhole, Reading
<1>4. FilesWhole'
  BY <1>1 DEF WInv, FilesWhole, files
<1> QED
  BY <1>3, <1>4 DEF WInv

LEMMA WholeOpened ==
  ASSUME IInv, WInv, Open("open empty", "parse") \/ OpenEmptyFails
  PROVE  WInv'
<1>1. /\ pc = "open empty" /\ pc' = "parse"
      /\ handles' \subseteq Instances(layout)
      /\ UNCHANGED <<files, jo, request, layout>>
  BY DEF Open, OpenEmptyFails
<1>2. MemoryWhole'
  BY <1>1 DEF WInv, MemoryWhole, Reading
<1>3. FilesWhole'
  BY <1>1 DEF WInv, FilesWhole, files
<1> QED
  BY <1>2, <1>3 DEF WInv

LEMMA WholeParsed ==
  ASSUME IInv, WInv, Parse
  PROVE  WInv'
<1>1. /\ pc = "parse" /\ pc' = "take image"
      /\ UNCHANGED <<files, jo, request, layout, handles>>
  BY DEF Parse
<1>2. PICK failing \in {{}} \cup
         {{place} : place \in {p \in PlacesWritten(layout, hardware_info, Stored(jo.prot)) :
                                p[2] \in Unwritable}} :
         image' = Imported(jo, layout, hardware_info, handles, failing)
  BY DEF Parse
<1>3. \A y, z \in failing : y = z
  BY <1>2
<1>4. request \in Request /\ request.mode \in {"import", "migrate"}
  BY <1>1 DEF IInv, RequestFits, ModesAt, Reading, Writing
<1>5. request.part \in PartNumber
  BY <1>4, RequestFields
<1>6. /\ jo.prot \in Version
      /\ TargetLayout(request.part, jo.prot) # Rejected
      /\ layout = TargetLayout(request.part, jo.prot)
      /\ handles \subseteq Instances(layout)
  BY <1>1 DEF WInv, MemoryWhole
<1>7. layout \in Layout /\ (layout = "800s_PRIOR_719" => ~Is719OrNewer(Stored(jo.prot)))
  BY <1>5, <1>6, LayoutFits
<1>8. /\ image'.layout = layout
      /\ handles = Instances(layout) => InstancesUsed(image') = Instances(layout)
  <2>1. jo.prot \in Version /\ layout \in Layout
    BY <1>6, <1>7
  <2>2. layout = "800s_PRIOR_719" => ~Is719OrNewer(Stored(jo.prot))
    BY <1>7
  <2>3. /\ Imported(jo, layout, hardware_info, handles, failing).layout = layout
        /\ handles = Instances(layout) =>
             InstancesUsed(Imported(jo, layout, hardware_info, handles, failing)) =
               Instances(layout)
    BY <1>3, <2>1, <2>2, ImportUses
  <2> QED
    BY <1>2, <2>3
<1>9. Versioned(image')
  BY <1>2, <1>6, ImportedVersion
<1>10. Versioned(image)' /\ InstancesUsed(image)' = InstancesUsed(image')
  BY <1>9 DEF Versioned, ProtocolMark, InstancesUsed
<1>11. MemoryWhole'
  BY <1>1, <1>6, <1>8, <1>10 DEF WInv, MemoryWhole, Reading
<1>12. FilesWhole'
  BY <1>1 DEF WInv, FilesWhole, files
<1> QED
  BY <1>11, <1>12 DEF WInv

LEMMA WholeTaken ==
  ASSUME IInv, WInv, TakeImage
  PROVE  WInv'
<1>1. /\ pc = "take image" /\ UNCHANGED <<files, jo, image>>
      /\ handles \subseteq Instances(layout)
      /\ Versioned(image) /\ image.layout = layout
      /\ handles = Instances(layout) => InstancesUsed(image) = Instances(layout)
  BY DEF WInv, MemoryWhole, TakeImage
<1>2. CASE Instances(layout) \subseteq handles
  <2>1. pc' = "write image" /\ InstancesUsed(image) = Instances(image.layout)
    BY <1>1, <1>2 DEF TakeImage
  <2>2. Versioned(image)' /\ InstancesUsed(image)' = InstancesUsed(image)
    BY <1>1 DEF Versioned, ProtocolMark, InstancesUsed
  <2>3. MemoryWhole'
    BY <1>1, <2>1, <2>2 DEF WInv, MemoryWhole, Reading
  <2>4. FilesWhole'
    BY <1>1 DEF WInv, FilesWhole, files
  <2> QED
    BY <2>3, <2>4 DEF WInv
<1>3. CASE ~(Instances(layout) \subseteq handles)
  <2>1. pc' = "ended"
    BY <1>3 DEF TakeImage, Ends
  <2> QED
    BY <1>1, <2>1, WholeElsewhere DEF Reading
<1> QED
  BY <1>2, <1>3

LEMMA WholeWritten ==
  ASSUME WInv, WriteImage
  PROVE  WInv'
<1>1. /\ pc = "write image" /\ pc' = "ended" /\ made' = image
      /\ UNCHANGED <<given, exported, upgraded, jo>>
  BY DEF WriteImage, Ends
<1>2. Versioned(image) /\ InstancesUsed(image) = Instances(image.layout)
  BY <1>1 DEF WInv, MemoryWhole
<1>3. Versioned(made)' /\ InstancesUsed(made)' = Instances(made.layout)'
  BY <1>1, <1>2 DEF Versioned, ProtocolMark, InstancesUsed
<1>4. FilesWhole'
  BY <1>1, <1>3 DEF WInv, FilesWhole
<1>5. MemoryWhole'
  BY <1>1 DEF WInv, MemoryWhole, Reading
<1> QED
  BY <1>4, <1>5 DEF WInv

LEMMA WholeStep == IInv /\ WInv /\ [Next]_vars => WInv'
<1> SUFFICES ASSUME IInv, WInv, [Next]_vars
             PROVE  WInv'
  OBVIOUS
<1>1. CASE \/ Start
           \/ \E from : Fail(from)
           \/ ParseFails
  <2>1. UNCHANGED <<files, jo>> /\ pc' \in {"load", "ended"}
    BY <1>1 DEF Start, Fail, ParseFails, Ends
  <2> QED
    BY <2>1, WholeElsewhere DEF Reading
<1>2. CASE End
  <2>1. UNCHANGED files /\ pc' = "idle" /\ jo' = NoFile
    BY <1>2 DEF End
  <2> QED
    BY <2>1, WholeElsewhere DEF Reading
<1>3. CASE LoadImage \/ LoadDocument
  BY <1>3, WholeLoaded
<1>4. CASE \/ Open("open to check", "check") \/ Check
           \/ Open("open to export", "export") \/ Export
  BY <1>4, WholeRead
<1>5. CASE Upgrade \/ SaveDocument
  BY <1>5, WholeUpgraded, WholeSaved
<1>6. CASE ChooseLayout \/ Open("open empty", "parse") \/ OpenEmptyFails
  BY <1>6, WholeLayout, WholeOpened
<1>7. CASE Parse \/ TakeImage \/ WriteImage
  BY <1>7, WholeParsed, WholeTaken, WholeWritten
<1>8. CASE UNCHANGED vars
  <2>1. UNCHANGED <<files, pc, image, jo, layout, handles, request>>
    BY <1>8 DEF vars, statics
  <2>2. UNCHANGED <<given, made, exported, upgraded>>
    BY <2>1 DEF files
  <2>3. FilesWhole'
    BY <2>2 DEF WInv, FilesWhole, Versioned, ProtocolMark, InstancesUsed
  <2>4. Versioned(image)' = Versioned(image) /\ InstancesUsed(image)' = InstancesUsed(image)
    BY <2>1 DEF Versioned, ProtocolMark, InstancesUsed
  <2>5. MemoryWhole'
    BY <2>1, <2>4 DEF WInv, MemoryWhole
  <2> QED
    BY <2>3, <2>5 DEF WInv
<1> QED
  BY <1>1, <1>2, <1>3, <1>4, <1>5, <1>6, <1>7, <1>8
     DEF Next, OpenFails, OutputFails, UpgradeFails, LayoutFails

(* However the instances of an empty image opened, and whichever object    *)
(* could not be written, an image that gets into a file has objects in     *)
(* every instance of its layout and in no other.                           *)
THEOREM ImagesAreWhole == Spec => []NoInstanceMissing
<1>1. WInv => NoInstanceMissing
  BY DEF WInv, FilesWhole, NoInstanceMissing, InstancesUsed
<1>2. Spec => []WInv
  BY WholeInitially, Inductive, WholeStep, PTL DEF Spec
<1> QED
  BY <1>1, <1>2, PTL
------------------------------------------------------------------------------
(***************************************************************************)
(* What is in an image that was made                                       *)
(***************************************************************************)

(* A part is looked for where it was written, unless the DC/DC             *)
(* configuration is misplaced.                                             *)
LEMMA PlaceFound ==
  ASSUME NEW lay, NEW hw, NEW prot, Writes(lay, hw, prot), NEW readHw, NEW app,
         lay = "800s_FROM_719" => readHw = hw, NEW p \in PartsWritten(prot)
  PROVE  /\ PlaceWritten(p, lay, hw, prot)[1][1] \in Instances(lay)
         /\ p = "dcdcConfig" /\ DcdcMisplaced(<<lay, prot>>) =>
              PlaceRead(p, lay, readHw, prot, app)[1][1] # PlaceWritten(p, lay, hw, prot)[1][1]
         /\ (p = "dcdcConfig" => ~DcdcMisplaced(<<lay, prot>>))
              /\ (p = "rfConfig" => ReadStruct(app) = WrittenStruct(prot))
              => PlaceRead(p, lay, readHw, prot, app) = PlaceWritten(p, lay, hw, prot)
<1> DEFINE f == FileOfPart(p, Generation(prot))
<1>1. /\ f \in FilesWritten(prot)
      /\ f = "PROPRIETARY_1" <=> p = "dcdcConfig" /\ Is719OrNewer(prot)
      /\ f = "APPLICATIONCONFIGURATION" => p = "rfConfig"
  BY DEF PartsWritten, FileOfPart, FilesWritten, File, Generation
<1>2. /\ PlaceWritten(p, lay, hw, prot) = <<WrittenAt(f, lay, hw, prot), p>>
      /\ PlaceRead(p, lay, readHw, prot, app) = <<ReadAt(f, lay, readHw, prot, app), p>>
  BY DEF PlaceWritten, PlaceRead
<1>3. DcdcMisplaced(<<lay, prot>>) <=> lay = "700s" /\ Is719OrNewer(prot)
  BY DEF DcdcMisplaced
<1> HIDE DEF f
<1>4. /\ WrittenAt(f, lay, hw, prot)[1] \in Instances(lay)
      /\ f = "PROPRIETARY_1" => WrittenAt(f, lay, hw, prot) = <<"protocol", f>>
      /\ f = "PROPRIETARY_1" /\ lay = "700s" =>
           ReadAt(f, lay, readHw, prot, app) = <<"app", f>>
      /\ ~(f = "PROPRIETARY_1" /\ lay = "700s")
           /\ (f = "APPLICATIONCONFIGURATION" => ReadStruct(app) = WrittenStruct(prot))
           => ReadAt(f, lay, readHw, prot, app) = WrittenAt(f, lay, hw, prot)
  BY <1>1, FileFound
<1> QED
  BY <1>1, <1>2, <1>3, <1>4

(* The image that an import makes of a document in an NVM that is open as  *)
(* a whole, if no object could not be written.                             *)
Made(doc, lay, hw) == Imported(doc, lay, hw, Instances(lay), {})

LEMMA MadeVersions ==
  ASSUME NEW doc, NEW lay, NEW hw, Writes(lay, hw, Stored(doc.prot))
  PROVE  /\ lay = "800s_FROM_719" => HardwareOf(Made(doc, lay, hw)) = hw
         /\ lay = "800s_PRIOR_719" => HardwareOf(Made(doc, lay, hw)) = "EFR32XG23"
         /\ ProtocolMark(Made(doc, lay, hw)) =
              [format |-> TargetFormat(doc.prot), version |-> Stored(doc.prot)]
         /\ ApplicationMark(Made(doc, lay, hw), HardwareOf(Made(doc, lay, hw))) =
              [format |-> doc.appFormat, version |-> Stored(doc.app)]
         /\ {<<"protocol", "ZW_VERSION">>,
             ReadAt("APP_VERSION", lay, HardwareOf(Made(doc, lay, hw)),
                    Stored(doc.prot), Stored(doc.prot))}
              \subseteq DOMAIN Made(doc, lay, hw).versions
<1> DEFINE prot == Stored(doc.prot)
           im == Made(doc, lay, hw)
           mark == <<"protocol", "ZW_VERSION">>
           own == WrittenAt("APP_VERSION", lay, hw, prot)
<1>1. own = IF lay = "800s_FROM_719" THEN <<"protocol", AppVersionKey(hw)>>
                                     ELSE <<"app", "APP_VERSION">>
  BY VersionFile
<1>2. mark[1] \in Instances(lay) /\ own[1] \in Instances(lay) /\ own[2] # "ZW_VERSION"
  BY <1>1 DEF Instances, AppVersionKey
<1>3. im.versions = [place \in {mark, own} |->
                       IF place[2] = "ZW_VERSION"
                         THEN [format |-> TargetFormat(doc.prot), version |-> prot]
                         ELSE [format |-> doc.appFormat, version |-> Stored(doc.app)]]
  <2>1. {place \in {mark, own} : place[1] \in Instances(lay) /\ place \notin {}} = {mark, own}
    BY <1>2
  <2> QED
    BY <2>1, Zenon DEF Made, Imported
<1>4. im.layout = lay
  BY DEF Made, Imported
<1> HIDE DEF im, mark, own
<1>5. /\ DOMAIN im.versions = {mark, own}
      /\ im.versions[mark] = [format |-> TargetFormat(doc.prot), version |-> prot]
      /\ im.versions[own] = [format |-> doc.appFormat, version |-> Stored(doc.app)]
  BY <1>2, <1>3 DEF mark
<1>6. ASSUME lay = "800s_FROM_719"
      PROVE  HardwareOf(im) = hw
  <2>1. hw \in {"EFR32XG23", "EFR32XG28"}
    BY <1>6 DEF Writes
  <2>2. <<"protocol", AppVersionKey(hw)>> \in DOMAIN im.versions
    BY <1>1, <1>5, <1>6
  <2>3. hw = "EFR32XG23" => <<"protocol", "APP_VERSION_XG28">> \notin DOMAIN im.versions
    BY <1>1, <1>5, <1>6 DEF AppVersionKey, mark
  <2> QED
    BY <1>4, <1>6, <2>1, <2>2, <2>3, ChipFound DEF HardwareOf
<1>7. ProtocolMark(im) = [format |-> TargetFormat(doc.prot), version |-> prot]
  BY <1>5 DEF ProtocolMark, mark
<1>8. ReadAt("APP_VERSION", lay, HardwareOf(im), prot, prot) = own
  BY <1>6, VersionFile DEF own
<1>9. ApplicationMark(im, HardwareOf(im)) =
        [format |-> doc.appFormat, version |-> Stored(doc.app)]
  <2>1. ProtocolMark(im).version = prot
    BY <1>7
  <2> QED
    BY <1>4, <1>5, <1>8, <2>1 DEF ApplicationMark
<1>10. lay = "800s_PRIOR_719" => HardwareOf(im) = "EFR32XG23"
  <2>1. lay = "800s_PRIOR_719" => <<"protocol", "APP_VERSION_XG28">> \notin DOMAIN im.versions
    BY <1>1, <1>5 DEF mark
  <2> QED
    BY <1>4, <2>1 DEF HardwareOf, DetectedHardware
<1> QED
  BY <1>5, <1>6, <1>7, <1>8, <1>9, <1>10 DEF im, mark
(* What a part becomes of which the document has this content.             *)
Written(content) == IF content \in Content THEN content ELSE "default"

LEMMA MadeHolds ==
  ASSUME NEW doc, NEW lay, NEW hw, Writes(lay, hw, Stored(doc.prot)),
         NEW p \in PartsWritten(Stored(doc.prot)),
         p = "sucUpdateEntries" => doc.parts[p] # "absent"
  PROVE  LET entry == PlaceWritten(p, lay, hw, Stored(doc.prot))
             im == Made(doc, lay, hw)
         IN  entry \in DOMAIN im.held /\ im.held[entry] = Written(doc.parts[p])
<1> DEFINE prot == Stored(doc.prot)
           kept(place) == place[1] \in Instances(lay) /\ place \notin {}
           stored == {q \in PartsWritten(prot) :
                        /\ q = "sucUpdateEntries" => doc.parts[q] # "absent"
                        /\ kept(PlaceWritten(q, lay, hw, prot)[1])}
           entry == PlaceWritten(p, lay, hw, prot)
           held == [e \in {PlaceWritten(q, lay, hw, prot) : q \in stored} |->
                      IF doc.parts[e[2]] \in Content THEN doc.parts[e[2]] ELSE "default"]
<1>1. Made(doc, lay, hw).held = held
  BY DEF Made, Imported
<1>2. entry[1][1] \in Instances(lay)
  BY PlaceFound
<1>3. p \in stored
  BY <1>2
<1>4. entry[2] = p
  BY DEF PlaceWritten
<1> HIDE DEF stored, entry
<1>5. entry \in DOMAIN held
  BY <1>3 DEF entry
<1>6. held[entry] = IF doc.parts[entry[2]] \in Content THEN doc.parts[entry[2]] ELSE "default"
  BY <1>5
<1> HIDE DEF held
<1> QED
  BY <1>1, <1>4, <1>5, <1>6 DEF Written, entry

LEMMA MadeReads ==
  ASSUME NEW doc, NEW lay, NEW hw, Writes(lay, hw, Stored(doc.prot)),
         NEW p \in PartsWritten(Stored(doc.prot)) \cap PartsRead(Stored(doc.prot)),
         p = "sucUpdateEntries" => doc.parts[p] # "absent",
         p = "dcdcConfig" => ~DcdcMisplaced(<<lay, Stored(doc.prot)>>),
         p = "rfConfig" => ReadStruct(Stored(doc.app)) = WrittenStruct(Stored(doc.prot))
  PROVE  Same(p, Written(doc.parts[p]),
              ReadPart(Made(doc, lay, hw), HardwareOf(Made(doc, lay, hw)), p))
<1> DEFINE im == Made(doc, lay, hw)
           readHw == HardwareOf(im)
           prot == Stored(doc.prot)
           app == Stored(doc.app)
           place == PlaceRead(p, lay, readHw, prot, app)
<1>1. /\ ProtocolMark(im).version = prot /\ ApplicationMark(im, readHw).version = app
      /\ lay = "800s_FROM_719" => readHw = hw
  BY MadeVersions
<1>2. im.layout = lay
  BY DEF Made, Imported
<1>3. place = PlaceWritten(p, lay, hw, prot)
  BY <1>1, PlaceFound
<1>4. place \in DOMAIN im.held /\ im.held[place] = Written(doc.parts[p])
  BY <1>3, MadeHolds
<1> HIDE DEF im, readHw, place
<1>5. ReadPart(im, readHw, p) =
        IF p = "applicationData" /\ Generation(prot) = 711 /\ Written(doc.parts[p]) = "default"
          THEN "absent" ELSE Written(doc.parts[p])
  BY <1>1, <1>2, <1>4 DEF ReadPart, place
<1> QED
  BY <1>5 DEF Same, im, readHw

LEMMA MadeDcdc ==
  ASSUME NEW doc, NEW lay, NEW hw, Writes(lay, hw, Stored(doc.prot)),
         DcdcMisplaced(<<lay, Stored(doc.prot)>>)
  PROVE  ReadPart(Made(doc, lay, hw), HardwareOf(Made(doc, lay, hw)), "dcdcConfig") = "absent"
<1> DEFINE im == Made(doc, lay, hw)
           readHw == HardwareOf(im)
           prot == Stored(doc.prot)
           app == Stored(doc.app)
           place == PlaceRead("dcdcConfig", lay, readHw, prot, app)
<1>1. /\ ProtocolMark(im).version = prot /\ ApplicationMark(im, readHw).version = app
      /\ lay = "800s_FROM_719" => readHw = hw
  BY MadeVersions
<1>2. im.layout = lay
  BY DEF Made, Imported
<1>3. "dcdcConfig" \in PartsWritten(prot)
  BY DEF DcdcMisplaced, PartsWritten, Generation
<1>4. place[1][1] # PlaceWritten("dcdcConfig", lay, hw, prot)[1][1] /\ place[2] = "dcdcConfig"
  BY <1>1, <1>3, PlaceFound DEF PlaceRead
<1>5. ASSUME place \in DOMAIN im.held
      PROVE  FALSE
  <2>1. PICK q \in PartsWritten(prot) : place = PlaceWritten(q, lay, hw, prot)
    BY <1>5 DEF Made, Imported
  <2>2. q = "dcdcConfig"
    BY <1>4, <2>1 DEF PlaceWritten
  <2> QED
    BY <1>4, <2>1, <2>2
<1> HIDE DEF im, readHw, place
<1>6. ReadPart(im, readHw, "dcdcConfig") = "absent"
  BY <1>1, <1>2, <1>5 DEF ReadPart, place
<1> QED
  BY <1>6 DEF im, readHw

LEMMA MadeReadsClean ==
  ASSUME NEW doc, NEW lay, NEW hw, Writes(lay, hw, Stored(doc.prot)),
         doc.parts["sucUpdateEntries"] # "absent",
         ReadStruct(Stored(doc.app)) = WrittenStruct(Stored(doc.prot))
  PROVE  ~ReadFails(Made(doc, lay, hw), HardwareOf(Made(doc, lay, hw)))
<1> DEFINE im == Made(doc, lay, hw)
           readHw == HardwareOf(im)
           prot == Stored(doc.prot)
           app == Stored(doc.app)
<1>1. /\ ProtocolMark(im).version = prot /\ ApplicationMark(im, readHw).version = app
      /\ lay = "800s_FROM_719" => readHw = hw
      /\ <<"protocol", "ZW_VERSION">> \in DOMAIN im.versions
      /\ ReadAt("APP_VERSION", lay, readHw, prot, prot) \in DOMAIN im.versions
  BY MadeVersions
<1>2. im.layout = lay
  BY DEF Made, Imported
<1>3. ASSUME NEW p \in PartsRead(prot),
             \/ FileOfPart(p, Generation(prot)) \notin OptionalFiles
             \/ p = "sucUpdateEntries" /\ Generation(prot) = 715
      PROVE  PlaceRead(p, lay, readHw, prot, app) \in DOMAIN im.held
  <2>1. p \in PartsWritten(prot)
    BY DEF PartsRead
  <2>2. p = "dcdcConfig" => ~DcdcMisplaced(<<lay, prot>>)
    BY <1>3 DEF FileOfPart, OptionalFiles, DcdcMisplaced, Generation
  <2>3. PlaceRead(p, lay, readHw, prot, app) = PlaceWritten(p, lay, hw, prot)
    BY <1>1, <2>1, <2>2, PlaceFound
  <2>4. PlaceWritten(p, lay, hw, prot) \in DOMAIN im.held
    BY <2>1, MadeHolds
  <2> QED
    BY <2>3, <2>4
<1> HIDE DEF im, readHw
<1>4. ~ReadFails(im, readHw)
  BY <1>1, <1>2, <1>3 DEF ReadFails
<1> QED
  BY <1>4 DEF im, readHw
------------------------------------------------------------------------------
(***************************************************************************)
(* What the contents of an image become                                    *)
(***************************************************************************)

(* Of the parts that image g had, a content that came by the steps of path *)
(* without a failed write is what it was in g.                             *)
Before(g, p) == ReadPart(g, HardwareOf(g), p)
Carried(p, path) ==
  /\ \A step \in path : Carries(p, step)
  /\ p = "dcdcConfig" => \A step \in path : ~DcdcMisplaced(step)
PartKept(g, path, lost, p, content) ==
  lost = {} /\ Before(g, p) \in {"default", "value"} /\ Carried(p, path)
    => Same(p, Before(g, p), content)

ImageKeeps(g, im) ==
  /\ im.layout \in Layout
  /\ \A place \in DOMAIN im.versions : im.versions[place].version \in ByteVersion
  /\ \A p \in Part : PartKept(g, im.path, im.lost, p, ReadPart(im, HardwareOf(im), p))

DcdcAbsent(im) ==
  im.lost = {} /\ DcdcMisplaced(<<im.layout, ProtocolMark(im).version>>) =>
    ReadPart(im, HardwareOf(im), "dcdcConfig") = "absent"

(* A document has the versions of the image it was read from, or one       *)
(* version for both that was asked for; its configuration has the shape of *)
(* the protocol version, or is no configuration to be kept.                *)
DocumentKeeps(g, doc) ==
  /\ doc.prot \in Version /\ doc.app \in Version
  /\ \/ doc.prot = doc.app /\ doc.prot \in Target
     \/ doc.prot \in ByteVersion /\ doc.app \in ByteVersion
  /\ doc.parts["rfConfig"] \in {"default", "value"} =>
       ReadStruct(Stored(doc.app)) = WrittenStruct(Stored(doc.prot))
  /\ \A p \in Part : PartKept(g, doc.path, doc.lost, p, doc.parts[p])

FilesKept ==
  /\ ImageKeeps(given, given)
  /\ made # NoFile => ImageKeeps(given, made) /\ DcdcAbsent(made)
  /\ exported # NoFile => DocumentKeeps(given, exported)
  /\ upgraded # NoFile => DocumentKeeps(given, upgraded)

(* The image in memory is read with the layout and the chip it has.        *)
MemoryKept ==
  /\ jo # NoFile => DocumentKeeps(given, jo)
  /\ pc \in Reading => ImageKeeps(given, image) /\ layout = image.layout
  /\ pc \in {"idle", "load", "open to check", "check"} =>
       hardware_info = "UNDEFINED_HARDWARE"
  /\ pc \in {"open to export", "export"} => hardware_info = HardwareOf(image)

KInv == FilesKept /\ MemoryKept

(***************************************************************************)
(* What the image that is made was made of                                 *)
(***************************************************************************)
Finished == Done({"import", "migrate"})

AsAsked ==
  jo # NoFile => /\ jo.prot = VersionAsked
                 /\ [format |-> jo.appFormat, version |-> jo.app] = MarkAsked

Prepared ==
  /\ jo # NoFile
  /\ TargetLayout(request.part, jo.prot) # Rejected
  /\ layout = TargetLayout(request.part, jo.prot)
  /\ hardware_info = TargetHardware(request.part)

(* The image is that of the document, and the flags tell what is missing.  *)
ParsedInto(open, failing) ==
  /\ image = Imported(jo, layout, hardware_info, open, failing)
  /\ ~nvm3_error_detected => failing = {}
  /\ ~parse_error_detected => jo.parts["sucUpdateEntries"] # "absent"

MInv ==
  /\ pc \in Writing \/ Finished => AsAsked
  /\ pc \in Writing \ {"layout"} \/ Finished => Prepared
  /\ pc = "take image" => \E failing : ParsedInto(handles, failing)
  /\ pc = "write image" \/ Finished => \E failing : ParsedInto(Instances(layout), failing)
  /\ Finished => made = image

(* The conversions, one by one: what they make of a part.                  *)
LEMMA ExportedKeeps ==
  ASSUME NEW g, NEW im, ImageKeeps(g, im)
  PROVE  DocumentKeeps(g, Exported(im, HardwareOf(im)))
<1> DEFINE hw == HardwareOf(im)
           prot == ProtocolMark(im).version
           app == ApplicationMark(im, hw).version
           doc == Exported(im, hw)
<1>1. /\ doc.prot = prot /\ doc.app = app /\ doc.path = im.path /\ doc.lost = im.lost
      /\ \A p \in Part : doc.parts[p] = ReadPart(im, hw, p)
  BY DEF Exported
<1>2. prot \in ByteVersion /\ app \in ByteVersion
  BY ImageVersions DEF ImageKeeps
<1>3. prot \in Version /\ app \in Version /\ Stored(prot) = prot /\ Stored(app) = app
  BY <1>2, Bytes
<1>4. ASSUME doc.parts["rfConfig"] \in {"default", "value"}
      PROVE  ReadStruct(app) = WrittenStruct(prot)
  <2>1. ReadPart(im, hw, "rfConfig") \in {"default", "value"}
    BY <1>1, <1>4 DEF Part
  <2> HIDE DEF hw
  <2> QED
    BY <2>1 DEF ReadPart
<1>5. \A p \in Part : PartKept(g, doc.path, doc.lost, p, doc.parts[p])
  BY <1>1 DEF ImageKeeps
<1> HIDE DEF doc, prot, app
<1> QED
  BY <1>1, <1>2, <1>3, <1>4, <1>5 DEF DocumentKeeps, doc

LEMMA UpgradedKeeps ==
  ASSUME NEW g, NEW doc, DocumentKeeps(g, doc), NEW target \in Target
  PROVE  DocumentKeeps(g, Upgraded(doc, target))
<1> DEFINE new == Upgraded(doc, target)
<1>1. /\ new.prot = target /\ new.app = target /\ new.lost = doc.lost
      /\ new.path = doc.path \cup {<<"json", target>>}
      /\ \A p \in Part : new.parts[p] = UpgradedPart(doc.parts[p], p, target)
  BY DEF Upgraded
<1>2. target \in Version
  BY ToolAssumption DEF Version
<1>3. ReadStruct(Stored(target)) = WrittenStruct(Stored(target))
  BY <1>2, StoredVersion, Components, ShapesAgree
<1> HIDE DEF new
<1>4. ASSUME NEW p \in Part
      PROVE  PartKept(g, new.path, new.lost, p, new.parts[p])
  <2> SUFFICES ASSUME new.lost = {}, Before(g, p) \in {"default", "value"},
                      Carried(p, new.path)
               PROVE  Same(p, Before(g, p), new.parts[p])
    BY DEF PartKept
  <2>1. Carried(p, doc.path) /\ Carries(p, <<"json", target>>)
    BY <1>1 DEF Carried
  <2>2. Same(p, Before(g, p), doc.parts[p])
    BY <1>1, <2>1 DEF DocumentKeeps, PartKept
  <2>3. Exists(p, target)
    BY <2>1 DEF Carries
  <2> QED
    BY <1>1, <2>2, <2>3 DEF UpgradedPart, Same
<1> QED
  BY <1>1, <1>2, <1>3, <1>4 DEF DocumentKeeps, new

LEMMA ImportedKeeps ==
  ASSUME NEW g, NEW doc, DocumentKeeps(g, doc), NEW lay, NEW hw,
         Writes(lay, hw, Stored(doc.prot)), NEW failing
  PROVE  /\ ImageKeeps(g, Imported(doc, lay, hw, Instances(lay), failing))
         /\ DcdcAbsent(Imported(doc, lay, hw, Instances(lay), failing))
<1> DEFINE im == Imported(doc, lay, hw, Instances(lay), failing)
           prot == Stored(doc.prot)
<1>1. /\ im.layout = lay /\ im.lost = doc.lost \cup failing
      /\ im.path = doc.path \cup {<<lay, prot>>}
  BY DEF Imported
<1>2. im.lost = {} => im = Made(doc, lay, hw)
  BY <1>1 DEF Made
<1>3. prot \in ByteVersion /\ Stored(doc.app) \in ByteVersion
  BY Bytes DEF DocumentKeeps
<1>4. \A place \in DOMAIN im.versions : im.versions[place].version \in ByteVersion
  BY <1>3 DEF Imported
<1>5. lay \in Layout
  BY DEF Writes
<1> HIDE DEF im
<1>6. ASSUME NEW p \in Part
      PROVE  PartKept(g, im.path, im.lost, p, ReadPart(im, HardwareOf(im), p))
  <2> SUFFICES ASSUME im.lost = {}, Before(g, p) \in {"default", "value"},
                      Carried(p, im.path)
               PROVE  Same(p, Before(g, p), ReadPart(im, HardwareOf(im), p))
    BY DEF PartKept
  <2>1. /\ Carried(p, doc.path) /\ Carries(p, <<lay, prot>>) /\ doc.lost = {}
        /\ p = "dcdcConfig" => ~DcdcMisplaced(<<lay, prot>>)
    BY <1>1 DEF Carried
  <2>2. Same(p, Before(g, p), doc.parts[p])
    BY <2>1 DEF DocumentKeeps, PartKept
  <2>3. p \in PartsWritten(prot) \cap PartsRead(prot)
    BY <2>1 DEF Carries
  <2>4. Written(doc.parts[p]) = Before(g, p)
    BY <2>2 DEF Written, Same, Content
  <2>5. p = "sucUpdateEntries" => doc.parts[p] # "absent"
    BY <2>2 DEF Same
  <2>6. p = "rfConfig" => ReadStruct(Stored(doc.app)) = WrittenStruct(prot)
    BY <2>2 DEF Same, DocumentKeeps
  <2>7. Same(p, Written(doc.parts[p]),
             ReadPart(Made(doc, lay, hw), HardwareOf(Made(doc, lay, hw)), p))
    BY <2>1, <2>3, <2>5, <2>6, MadeReads
  <2> QED
    BY <1>2, <2>4, <2>7
<1>7. DcdcAbsent(im)
  <2> SUFFICES ASSUME im.lost = {}, DcdcMisplaced(<<im.layout, ProtocolMark(im).version>>)
               PROVE  ReadPart(im, HardwareOf(im), "dcdcConfig") = "absent"
    BY DEF DcdcAbsent
  <2>1. ProtocolMark(im).version = prot
    BY <1>2, MadeVersions
  <2> QED
    BY <1>1, <1>2, <2>1, MadeDcdc
<1> QED
  BY <1>1, <1>4, <1>5, <1>6, <1>7 DEF ImageKeeps, im
(* Runs: what is in the files and in memory keeps its contents.            *)
LEMMA KeptInitially == Init => KInv
<1> SUFFICES ASSUME Init
             PROVE  KInv
  OBVIOUS
<1>1. ImageKeeps(given, given)
  BY ImagesAssumption DEF Init, ImageKeeps, PartKept, Before, Same
<1> QED
  BY <1>1 DEF Init, KInv, FilesKept, MemoryKept, Reading

(* A step that changes no file and goes to a place without an image that   *)
(* is read.                                                                *)
LEMMA KeptElsewhere ==
  ASSUME KInv, UNCHANGED files,
         jo' = jo \/ jo' = NoFile \/ DocumentKeeps(given, jo'),
         pc' \notin Reading \cup {"idle", "load"}
  PROVE  KInv'
<1>1. FilesKept' /\ given' = given
  BY DEF KInv, FilesKept, files
<1>2. MemoryKept'
  BY <1>1 DEF KInv, MemoryKept, Reading
<1> QED
  BY <1>1, <1>2 DEF KInv

LEMMA KeptLoaded ==
  ASSUME IInv, KInv, LoadImage \/ LoadDocument
  PROVE  KInv'
<1>1. pc = "load" /\ request \in Request /\ UNCHANGED files
  BY DEF IInv, RequestFits, LoadImage, LoadDocument
<1>2. CASE LoadDocument
  <2>1. jo' \in {exported, upgraded}
    BY <1>1, <1>2, RequestFields DEF LoadDocument, SourceFile
  <2>2. jo' = NoFile \/ DocumentKeeps(given, jo')
    BY <2>1 DEF KInv, FilesKept
  <2>3. pc' \in {"layout", "upgrade"}
    BY <1>2 DEF LoadDocument
  <2> QED
    BY <1>1, <2>2, <2>3, KeptElsewhere DEF Reading
<1>3. CASE LoadImage /\ SourceFile # NoFile
  <2>1. SourceFile \in {given, made}
    BY <1>1, <1>3, RequestFields DEF LoadImage, SourceFile
  <2>2. ImageKeeps(given, SourceFile)
    BY <1>3, <2>1 DEF KInv, FilesKept
  <2>3. /\ image' = SourceFile /\ pc' = "open to check" /\ jo' = jo
        /\ layout' = LayoutOfSize(ImageSize(SourceFile.layout))
        /\ hardware_info' = hardware_info
    BY <1>3 DEF LoadImage, statics
  <2>4. LayoutOfSize(ImageSize(SourceFile.layout)) = SourceFile.layout
    BY <2>2 DEF ImageKeeps, Layout, LayoutOfSize, ImageSize
  <2>5. given' = given /\ hardware_info = "UNDEFINED_HARDWARE"
    BY <1>1 DEF KInv, MemoryKept, files
  <2>6. MemoryKept'
    BY <2>2, <2>3, <2>4, <2>5 DEF KInv, MemoryKept
  <2>7. FilesKept'
    BY <1>1 DEF KInv, FilesKept, files
  <2> QED
    BY <2>6, <2>7 DEF KInv
<1>4. CASE LoadImage /\ SourceFile = NoFile
  <2>1. pc' \in {"ended", "upgrade"} /\ jo' = jo
    BY <1>4 DEF LoadImage, Ends
  <2> QED
    BY <1>1, <2>1, KeptElsewhere DEF Reading
<1> QED
  BY <1>2, <1>3, <1>4

LEMMA KeptRead ==
  ASSUME KInv, \/ Open("open to check", "check") \/ Check
               \/ Open("open to export", "export")
  PROVE  KInv'
<1>1. /\ UNCHANGED <<files, jo, image, layout>> /\ pc \in Reading
      /\ ImageKeeps(given, image) /\ layout = image.layout
  BY DEF KInv, MemoryKept, Open, Check, Reading
<1>2. FilesKept' /\ given' = given
  BY <1>1 DEF KInv, FilesKept, files
<1>3. pc' \in {"check", "open to export", "export"}
  BY DEF Open, Check
<1>4. pc' = "check" => hardware_info' = "UNDEFINED_HARDWARE"
  BY DEF Open, Check, KInv, MemoryKept
<1>5. ASSUME pc' \in {"open to export", "export"}
      PROVE  hardware_info' = HardwareOf(image)
  <2>1. CASE Check
    <3>1. hardware_info' = IF layout = "700s" THEN hardware_info ELSE HardwareOf(image)
      BY <2>1 DEF Check
    <3>2. hardware_info = "UNDEFINED_HARDWARE"
      BY <2>1 DEF Check, KInv, MemoryKept
    <3>3. layout = "700s" => HardwareOf(image) = "UNDEFINED_HARDWARE"
      BY <1>1 DEF HardwareOf, DetectedHardware
    <3> QED
      BY <3>1, <3>2, <3>3
  <2>2. CASE ~Check
    BY <1>5, <2>2 DEF Open, KInv, MemoryKept
  <2> QED
    BY <2>1, <2>2
<1>6. HardwareOf(image)' = HardwareOf(image)
  BY <1>1 DEF HardwareOf
<1>7. MemoryKept'
  BY <1>1, <1>2, <1>3, <1>4, <1>5, <1>6 DEF KInv, MemoryKept
<1> QED
  BY <1>2, <1>7 DEF KInv

LEMMA KeptConverted ==
  ASSUME IInv, KInv, Export \/ Upgrade
  PROVE  KInv'
<1>1. UNCHANGED files /\ pc' \in {"save", "upgrade", "layout"}
  BY DEF Export, Upgrade
<1>2. CASE Export
  <2>1. ImageKeeps(given, image) /\ jo' = Exported(image, HardwareOf(image))
    BY <1>2 DEF Export, KInv, MemoryKept, Reading
  <2> QED
    BY <1>1, <2>1, ExportedKeeps, KeptElsewhere DEF Reading
<1>3. CASE Upgrade
  <2>1. request \in Request /\ request.mode \in {"upgrade", "migrate"}
    BY <1>3 DEF IInv, RequestFits, ModesAt, Reading, Writing, Upgrade
  <2>2. request.target \in Target
    BY <2>1 DEF Request
  <2>3. DocumentKeeps(given, jo) /\ jo' = Upgraded(jo, request.target)
    BY <1>3 DEF Upgrade, CanUpgrade, KInv, MemoryKept
  <2> QED
    BY <1>1, <2>2, <2>3, UpgradedKeeps, KeptElsewhere DEF Reading
<1> QED
  BY <1>2, <1>3

LEMMA KeptSaved ==
  ASSUME KInv, SaveDocument
  PROVE  KInv'
<1>1. /\ UNCHANGED <<given, made, jo>> /\ pc' = "ended"
      /\ \/ exported' = jo /\ upgraded' = upgraded
         \/ upgraded' = jo /\ exported' = exported
  BY DEF SaveDocument, Ends
<1>2. FilesKept'
  BY <1>1 DEF KInv, FilesKept, MemoryKept
<1>3. MemoryKept'
  BY <1>1 DEF KInv, MemoryKept, Reading
<1> QED
  BY <1>2, <1>3 DEF KInv

LEMMA KeptWritten ==
  ASSUME IInv, KInv, MInv, WriteImage
  PROVE  KInv'
<1>1. /\ pc = "write image" /\ pc' = "ended" /\ made' = image
      /\ UNCHANGED <<given, exported, upgraded, jo>>
  BY DEF WriteImage, Ends
<1>2. request.part \in PartNumber
  <2>1. request \in Request /\ request.mode \in {"import", "migrate"}
    BY <1>1 DEF IInv, RequestFits, ModesAt, Reading, Writing
  <2> QED
    BY <2>1, RequestFields
<1>3. Prepared /\ \E failing : ParsedInto(Instances(layout), failing)
  BY <1>1 DEF MInv, Writing
<1>4. DocumentKeeps(given, jo)
  BY <1>3 DEF Prepared, KInv, MemoryKept
<1>5. Writes(layout, hardware_info, Stored(jo.prot))
  BY <1>2, <1>3, <1>4, Accepted DEF Prepared, DocumentKeeps
<1>6. ImageKeeps(given, image) /\ DcdcAbsent(image)
  BY <1>3, <1>4, <1>5, ImportedKeeps DEF ParsedInto
<1>7. FilesKept'
  BY <1>1, <1>6 DEF KInv, FilesKept
<1>8. MemoryKept'
  BY <1>1 DEF KInv, MemoryKept, Reading
<1> QED
  BY <1>7, <1>8 DEF KInv

LEMMA KeptStep == IInv /\ KInv /\ MInv /\ [Next]_vars => KInv'
<1> SUFFICES ASSUME IInv, KInv, MInv, [Next]_vars
             PROVE  KInv'
  OBVIOUS
<1>1. CASE Start
  <2>1. /\ UNCHANGED <<files, jo, hardware_info>> /\ pc = "idle" /\ pc' = "load"
    BY <1>1 DEF Start, statics
  <2>2. FilesKept' /\ MemoryKept'
    BY <2>1 DEF KInv, FilesKept, MemoryKept, Reading, files
  <2> QED
    BY <2>2 DEF KInv
<1>2. CASE (\E from : Fail(from)) \/ ParseFails
  <2>1. UNCHANGED <<files, jo>> /\ pc' = "ended"
    BY <1>2 DEF Fail, ParseFails, Ends
  <2> QED
    BY <2>1, KeptElsewhere DEF Reading
<1>3. CASE LoadImage \/ LoadDocument
  BY <1>3, KeptLoaded
<1>4. CASE \/ Open("open to check", "check") \/ Check
           \/ Open("open to export", "export")
  BY <1>4, KeptRead
<1>5. CASE Export \/ Upgrade
  BY <1>5, KeptConverted
<1>6. CASE SaveDocument \/ WriteImage
  BY <1>6, KeptSaved, KeptWritten
<1>7. CASE ChooseLayout \/ Open("open empty", "parse") \/ OpenEmptyFails \/ Parse \/ TakeImage
  <2>1. /\ UNCHANGED <<files, jo>>
        /\ pc' \in {"open empty", "parse", "take image", "write image", "ended"}
    BY <1>7 DEF ChooseLayout, Open, OpenEmptyFails, Parse, TakeImage, Ends
  <2> QED
    BY <2>1, KeptElsewhere DEF Reading
<1>8. CASE End
  <2>1. UNCHANGED files /\ pc' = "idle" /\ jo' = NoFile /\ hardware_info' = "UNDEFINED_HARDWARE"
    BY <1>8 DEF End
  <2>2. FilesKept' /\ MemoryKept'
    BY <2>1 DEF KInv, FilesKept, MemoryKept, Reading, files
  <2> QED
    BY <2>2 DEF KInv
<1>9. CASE UNCHANGED vars
  <2>1. UNCHANGED <<files, pc, image, jo, layout, hardware_info>>
    BY <1>9 DEF vars, statics
  <2>2. FilesKept' /\ given' = given
    BY <2>1 DEF KInv, FilesKept, files
  <2>3. HardwareOf(image)' = HardwareOf(image)
    BY <2>1 DEF HardwareOf
  <2>4. MemoryKept'
    BY <2>1, <2>2, <2>3 DEF KInv, MemoryKept
  <2> QED
    BY <2>2, <2>4 DEF KInv
<1> QED
  BY <1>1, <1>2, <1>3, <1>4, <1>5, <1>6, <1>7, <1>8, <1>9
     DEF Next, OpenFails, OutputFails, UpgradeFails, LayoutFails
------------------------------------------------------------------------------
(***************************************************************************)
(* Runs: the image that is made is the one that was asked for              *)
(***************************************************************************)
Asking == request \in Request /\ request.mode \in {"import", "migrate"}

LEMMA WritingAsks == IInv /\ (pc \in Writing \/ Finished) => Asking
BY DEF IInv, RequestFits, ModesAt, Reading, Writing, Finished, Done, Asking

(* What was asked for does not change while the image is made: the         *)
(* documents in the files are not written by these runs.                   *)
LEMMA AskedStays ==
  ASSUME Asking, UNCHANGED <<request, exported, upgraded>>
  PROVE  VersionAsked' = VersionAsked /\ MarkAsked' = MarkAsked
<1>1. request.mode = "import" => request.source \in {"exported", "upgraded"}
  BY RequestFields DEF Asking
<1>2. request.mode = "import" => SourceFile' = SourceFile
  BY <1>1 DEF SourceFile
<1>3. request.mode \in {"import", "migrate"} /\ request' = request
  BY DEF Asking
<1>4. CASE request.mode = "migrate"
  BY <1>3, <1>4 DEF VersionAsked, MarkAsked
<1>5. CASE request.mode = "import"
  BY <1>2, <1>3, <1>5 DEF VersionAsked, MarkAsked
<1> QED
  BY <1>3, <1>4, <1>5

LEMMA AsAskedStays ==
  ASSUME IInv, MInv, pc \in Writing \/ Finished,
         UNCHANGED <<request, exported, upgraded, jo>>
  PROVE  AsAsked'
<1>1. AsAsked
  BY DEF MInv
<1>2. VersionAsked' = VersionAsked /\ MarkAsked' = MarkAsked
  BY WritingAsks, AskedStays
<1> QED
  BY <1>1, <1>2 DEF AsAsked

LEMMA PreparedStays ==
  ASSUME MInv, pc \in Writing \ {"layout"} \/ Finished,
         UNCHANGED <<request, jo, layout, hardware_info>>
  PROVE  Prepared'
BY DEF MInv, Prepared

(* A step to a place where no image is being made.                         *)
LEMMA MadeElsewhere ==
  ASSUME pc' \notin Writing,
         ~(pc' = "ended" /\ status' = "success" /\ request'.mode \in {"import", "migrate"})
  PROVE  MInv'
BY DEF MInv, Finished, Done, Writing

(* The documents an image is made of: the one in the file, and the one     *)
(* upgraded for the target.                                                *)
LEMMA MadeOfDocument ==
  ASSUME IInv, LoadDocument
  PROVE  MInv'
<1>1. /\ pc = "load" /\ request \in Request /\ request.mode \in {"import", "upgrade"}
      /\ UNCHANGED <<request, exported, upgraded>> /\ jo' = SourceFile
  BY DEF IInv, RequestFits, LoadDocument, files
<1>2. CASE request.mode = "import"
  <2>1. pc' = "layout"
    BY <1>2 DEF LoadDocument
  <2>2. VersionAsked' = VersionAsked /\ MarkAsked' = MarkAsked
    BY <1>1, <1>2, AskedStays DEF Asking
  <2>3. /\ VersionAsked = SourceFile.prot
        /\ MarkAsked = [format |-> SourceFile.appFormat, version |-> SourceFile.app]
    BY <1>2 DEF VersionAsked, MarkAsked
  <2>4. AsAsked'
    BY <1>1, <2>2, <2>3 DEF AsAsked
  <2> QED
    BY <2>1, <2>4 DEF MInv, Finished, Done
<1>3. CASE request.mode # "import"
  <2>1. pc' = "upgrade"
    BY <1>3 DEF LoadDocument
  <2> QED
    BY <2>1, MadeElsewhere DEF Writing
<1> QED
  BY <1>2, <1>3

LEMMA MadeOfUpgraded ==
  ASSUME IInv, Upgrade
  PROVE  MInv'
<1>1. request' = request /\ jo' = Upgraded(jo, request.target)
  BY DEF Upgrade
<1>2. CASE request.mode = "migrate"
  <2>1. pc' = "layout"
    BY <1>2 DEF Upgrade
  <2>2. /\ VersionAsked' = request.target
        /\ MarkAsked' = [format |-> AppFileFormat(request.target), version |-> request.target]
    BY <1>1, <1>2 DEF VersionAsked, MarkAsked
  <2>3. /\ jo'.prot = request.target /\ jo'.app = request.target
        /\ jo'.appFormat = AppFileFormat(request.target)
    BY <1>1 DEF Upgraded
  <2>4. AsAsked'
    BY <2>2, <2>3 DEF AsAsked
  <2> QED
    BY <2>1, <2>4 DEF MInv, Finished, Done
<1>3. CASE request.mode # "migrate"
  <2>1. pc' = "save"
    BY <1>3 DEF Upgrade
  <2> QED
    BY <2>1, MadeElsewhere DEF Writing
<1> QED
  BY <1>2, <1>3

(* The layout and the chip are chosen, and the NVM is opened with them.    *)
LEMMA MadeReady ==
  ASSUME IInv, MInv, ChooseLayout \/ Open("open empty", "parse") \/ OpenEmptyFails
  PROVE  MInv'
<1>1. /\ pc \in Writing /\ pc' \in {"open empty", "parse"}
      /\ UNCHANGED <<request, exported, upgraded, jo>>
  BY DEF ChooseLayout, Open, OpenEmptyFails, Writing, files
<1>2. AsAsked'
  BY <1>1, AsAskedStays
<1>3. CASE ChooseLayout
  <2>1. Prepared'
    BY <1>3 DEF ChooseLayout, HasLayout, Prepared
  <2> QED
    BY <1>1, <1>2, <2>1 DEF MInv, Finished, Done
<1>4. CASE ~ChooseLayout
  <2>1. pc = "open empty" /\ UNCHANGED <<layout, hardware_info>>
    BY <1>4 DEF Open, OpenEmptyFails
  <2>2. Prepared'
    BY <1>1, <2>1, PreparedStays DEF Writing
  <2> QED
    BY <1>1, <1>2, <2>2 DEF MInv, Finished, Done
<1> QED
  BY <1>3, <1>4

LEMMA MadeParsed ==
  ASSUME IInv, WInv, MInv, Parse
  PROVE  MInv'
<1>1. /\ pc = "parse" /\ pc' = "take image"
      /\ UNCHANGED <<request, exported, upgraded, jo, layout, hardware_info, handles>>
  BY DEF Parse, files
<1>2. AsAsked'
  BY <1>1, AsAskedStays DEF Writing
<1>3. Prepared'
  BY <1>1, PreparedStays DEF Writing
<1>4. PICK failing :
        /\ image' = Imported(jo, layout, hardware_info, handles, failing)
        /\ nvm3_error_detected' = (failing # {} \/ handles # Instances(layout))
  BY DEF Parse
<1>5. "sucUpdateEntries" \in Required(Stored(jo.prot))
  BY DEF Required, PartsWritten
<1>6. ~parse_error_detected' => jo.parts["sucUpdateEntries"] # "absent"
  BY <1>5 DEF Parse
<1>7. ParsedInto(handles, failing)'
  BY <1>1, <1>4, <1>6 DEF ParsedInto
<1> QED
  BY <1>1, <1>2, <1>3, <1>7 DEF MInv, Finished, Done

LEMMA MadeTaken ==
  ASSUME IInv, WInv, MInv, TakeImage
  PROVE  MInv'
<1>1. /\ pc = "take image"
      /\ UNCHANGED <<request, exported, upgraded, jo, image, layout, hardware_info,
                     parse_error_detected, nvm3_error_detected>>
  BY DEF TakeImage, files
<1>2. CASE Instances(layout) \subseteq handles
  <2>1. pc' = "write image" /\ handles = Instances(layout)
    BY <1>1, <1>2 DEF TakeImage, WInv, MemoryWhole
  <2>2. AsAsked' /\ Prepared'
    BY <1>1, AsAskedStays, PreparedStays DEF Writing
  <2>3. PICK failing : ParsedInto(Instances(layout), failing)
    BY <1>1, <2>1 DEF MInv
  <2>4. ParsedInto(Instances(layout), failing)'
    BY <1>1, <2>3 DEF ParsedInto
  <2> QED
    BY <2>1, <2>2, <2>4 DEF MInv, Finished, Done
<1>3. CASE ~(Instances(layout) \subseteq handles)
  <2>1. pc' = "ended" /\ status' = "failure"
    BY <1>3 DEF TakeImage, Ends
  <2> QED
    BY <2>1, MadeElsewhere DEF Writing
<1> QED
  BY <1>2, <1>3

LEMMA MadeWritten ==
  ASSUME IInv, MInv, WriteImage
  PROVE  MInv'
<1>1. /\ pc = "write image" /\ pc' = "ended" /\ made' = image
      /\ UNCHANGED <<request, exported, upgraded, jo, image, layout, hardware_info,
                     parse_error_detected, nvm3_error_detected>>
  BY DEF WriteImage, Ends, statics
<1>2. AsAsked' /\ Prepared'
  BY <1>1, AsAskedStays, PreparedStays DEF Writing
<1>3. PICK failing : ParsedInto(Instances(layout), failing)
  BY <1>1 DEF MInv
<1>4. ParsedInto(Instances(layout), failing)'
  BY <1>1, <1>3 DEF ParsedInto
<1> QED
  BY <1>1, <1>2, <1>4 DEF MInv, Writing

LEMMA MadeStutters ==
  ASSUME IInv, MInv, UNCHANGED vars
  PROVE  MInv'
<1>1. UNCHANGED <<made, exported, upgraded, request, pc, status, image, jo, layout, handles,
                  hardware_info, parse_error_detected, nvm3_error_detected>>
  BY DEF vars, files, statics
<1>2. CASE pc \in Writing \/ Finished
  <2>1. AsAsked'
    BY <1>1, <1>2, AsAskedStays
  <2>2. pc \in Writing \ {"layout"} \/ Finished => Prepared'
    BY <1>1, PreparedStays
  <2>3. \A open, failing : ParsedInto(open, failing) => ParsedInto(open, failing)'
    BY <1>1 DEF ParsedInto
  <2>4. Finished' = Finished /\ Instances(layout)' = Instances(layout)
    BY <1>1 DEF Finished, Done
  <2> QED
    BY <1>1, <2>1, <2>2, <2>3, <2>4 DEF MInv
<1>3. CASE ~(pc \in Writing \/ Finished)
  BY <1>1, <1>3, MadeElsewhere DEF Finished, Done
<1> QED
  BY <1>2, <1>3

LEMMA MadeInitially == Init => MInv
BY DEF Init, MInv, Finished, Done, Writing

LEMMA MadeStep == IInv /\ WInv /\ MInv /\ [Next]_vars => MInv'
<1> SUFFICES ASSUME IInv, WInv, MInv, [Next]_vars
             PROVE  MInv'
  OBVIOUS
<1>1. CASE \/ Start \/ LoadImage \/ Open("open to check", "check") \/ Check
           \/ Open("open to export", "export") \/ Export
           \/ SaveDocument \/ End
  <2>1. pc' \in {"idle", "load", "open to check", "check", "open to export", "export",
                 "upgrade", "save", "ended"}
    BY <1>1 DEF Start, LoadImage, Open, Check, Export, SaveDocument, End, Ends
  <2>2. pc' = "ended" => request'.mode \notin {"import", "migrate"}
    <3> SUFFICES ASSUME pc' = "ended"
                 PROVE  request'.mode \notin {"import", "migrate"}
      OBVIOUS
    <3>1. LoadImage \/ SaveDocument
      BY <1>1 DEF Start, Open, Check, Export, End
    <3>2. CASE LoadImage
      BY <3>2 DEF LoadImage
    <3>3. CASE SaveDocument
      BY <3>3 DEF SaveDocument, IInv, RequestFits, ModesAt, Reading, Writing
    <3> QED
      BY <3>1, <3>2, <3>3
  <2> QED
    BY <2>1, <2>2, MadeElsewhere DEF Writing
<1>2. CASE (\E from : Fail(from)) \/ ParseFails
  <2>1. pc' = "ended" /\ status' = "failure"
    BY <1>2 DEF Fail, ParseFails, Ends
  <2> QED
    BY <2>1, MadeElsewhere DEF Writing
<1>3. CASE LoadDocument \/ Upgrade
  BY <1>3, MadeOfDocument, MadeOfUpgraded
<1>4. CASE ChooseLayout \/ Open("open empty", "parse") \/ OpenEmptyFails
  BY <1>4, MadeReady
<1>5. CASE Parse \/ TakeImage \/ WriteImage
  BY <1>5, MadeParsed, MadeTaken, MadeWritten
<1>6. CASE UNCHANGED vars
  BY <1>6, MadeStutters
<1> QED
  BY <1>1, <1>2, <1>3, <1>4, <1>5, <1>6
     DEF Next, OpenFails, OutputFails, UpgradeFails, LayoutFails
LEMMA RunsInductive == Spec => [](IInv /\ WInv /\ KInv /\ MInv)
<1> QED
  BY Initially, StepKeeps, WholeInitially, WholeStep, KeptInitially, KeptStep,
     MadeInitially, MadeStep, PTL DEF Spec

(* Whatever the runs and their order, an image made without a failed write *)
(* has each part that the given image had and that every version on the    *)
(* way can carry; a DC/DC configuration that is misplaced is not found.    *)
THEOREM NetworkKept == Spec => []PartsKept
<1>1. KInv => PartsKept
  <2> SUFFICES ASSUME KInv, made # NoFile, made.lost = {}
               PROVE  /\ \A p \in Part :
                           \/ Kept(p)
                           \/ p = "dcdcConfig" /\ \E step \in made.path : DcdcMisplaced(step)
                      /\ DcdcMisplaced(<<made.layout, ProtocolMark(made).version>>) =>
                           ReadPart(made, HardwareOf(made), "dcdcConfig") = "absent"
    BY DEF PartsKept
  <2>1. ImageKeeps(given, made) /\ DcdcAbsent(made)
    BY DEF KInv, FilesKept
  <2>2. ASSUME NEW p \in Part, p = "dcdcConfig" => \A step \in made.path : ~DcdcMisplaced(step)
        PROVE  Kept(p)
    <3>1. PartKept(given, made.path, made.lost, p, ReadPart(made, HardwareOf(made), p))
      BY <2>1 DEF ImageKeeps
    <3> QED
      BY <2>2, <3>1 DEF PartKept, Carried, Before, Kept
  <2>3. DcdcMisplaced(<<made.layout, ProtocolMark(made).version>>) =>
          ReadPart(made, HardwareOf(made), "dcdcConfig") = "absent"
    BY <2>1 DEF DcdcAbsent
  <2> QED
    BY <2>2, <2>3
<1> QED
  BY <1>1, RunsInductive, PTL

(* What a run that made an image ends with.                                *)
LEMMA FinishedMade ==
  ASSUME IInv, KInv, MInv, Finished
  PROVE  /\ jo.prot = VersionAsked
         /\ jo.prot \in Version /\ jo.app \in Version
         /\ [format |-> jo.appFormat, version |-> jo.app] = MarkAsked
         /\ \/ jo.prot = jo.app /\ jo.prot \in Target
            \/ jo.prot \in ByteVersion /\ jo.app \in ByteVersion
         /\ request.part \in PartNumber
         /\ layout = TargetLayout(request.part, jo.prot)
         /\ hardware_info = TargetHardware(request.part)
         /\ Writes(layout, hardware_info, Stored(jo.prot))
         /\ (made.lost = {} \/ ~nvm3_error_detected) => made = Made(jo, layout, hardware_info)
         /\ ~parse_error_detected => jo.parts["sucUpdateEntries"] # "absent"
<1>1. AsAsked /\ Prepared /\ made = image
  BY DEF MInv
<1>2. PICK failing : ParsedInto(Instances(layout), failing)
  BY DEF MInv
<1>3. DocumentKeeps(given, jo)
  BY <1>1 DEF Prepared, KInv, MemoryKept
<1>4. request.part \in PartNumber
  BY WritingAsks, RequestFields DEF Asking
<1>5. Writes(layout, hardware_info, Stored(jo.prot))
  BY <1>1, <1>3, <1>4, Accepted DEF Prepared, DocumentKeeps
<1>6. ASSUME made.lost = {} \/ ~nvm3_error_detected
      PROVE  made = Made(jo, layout, hardware_info)
  <2>1. made = Imported(jo, layout, hardware_info, Instances(layout), failing)
    BY <1>1, <1>2 DEF ParsedInto
  <2>2. made.lost = jo.lost \cup failing
    BY <2>1 DEF Imported
  <2>3. failing = {}
    BY <1>2, <1>6, <2>2 DEF ParsedInto
  <2> QED
    BY <2>1, <2>3 DEF Made
<1>7. /\ jo.prot = VersionAsked
      /\ [format |-> jo.appFormat, version |-> jo.app] = MarkAsked
  BY <1>1 DEF AsAsked, Prepared
<1>8. /\ layout = TargetLayout(request.part, jo.prot)
      /\ hardware_info = TargetHardware(request.part)
  BY <1>1 DEF Prepared
<1>9. /\ jo.prot \in Version /\ jo.app \in Version
      /\ \/ jo.prot = jo.app /\ jo.prot \in Target
         \/ jo.prot \in ByteVersion /\ jo.app \in ByteVersion
  BY <1>3 DEF DocumentKeeps
<1>10. ~parse_error_detected => jo.parts["sucUpdateEntries"] # "absent"
  BY <1>2 DEF ParsedInto
<1> QED
  BY <1>4, <1>5, <1>6, <1>7, <1>8, <1>9, <1>10

(* What the byte of a number is: the number itself if it is a byte.        *)
LEMMA StoredCarried ==
  ASSUME NEW v \in Version
  PROVE  CarriedFor(Stored(v), v)
<1>1. Stored(v) \in ByteVersion /\ (v \in ByteVersion => Stored(v) = v)
  BY Bytes
<1>2. ASSUME NEW n \in Nat
      PROVE  (n - (n % 256)) % 256 = 0
  <2>1. n = 256 * (n \div 256) + (n % 256)
    OBVIOUS
  <2>2. n \div 256 \in Int /\ n % 256 \in Int
    OBVIOUS
  <2>3. n - (n % 256) = 256 * (n \div 256)
    BY <2>1, <2>2
  <2> QED
    BY <2>2, <2>3
<1>3. v[1] \in Nat /\ v[2] \in Nat /\ v[3] \in Nat
  BY DEF Version
<1>4. Stored(v)[1] = v[1] % 256 /\ Stored(v)[2] = v[2] % 256 /\ Stored(v)[3] = v[3] % 256
  BY DEF Stored, Major, Minor, Patch
<1>5. \A i \in 1 .. 3 : (v[i] - Stored(v)[i]) % 256 = 0
  BY <1>2, <1>3, <1>4
<1> QED
  BY <1>1, <1>5 DEF CarriedFor

(* The image of a successful run is for the part and the versions asked    *)
(* for, and the next run detects them in it; a number that does not fit    *)
(* its byte is there but for a multiple of 256, and only the patch of a    *)
(* protocol version is such a number.                                      *)
THEOREM MadeForTheAsked == Spec => []MadeAsAsked
<1>1. IInv /\ KInv /\ MInv => MadeAsAsked
  <2> SUFFICES ASSUME IInv, KInv, MInv, Finished, made.lost = {}
               PROVE  MadeAsAsked
    BY DEF MadeAsAsked, Finished
  <2>1. /\ jo.prot = VersionAsked /\ request.part \in PartNumber
        /\ [format |-> jo.appFormat, version |-> jo.app] = MarkAsked
        /\ layout = TargetLayout(request.part, jo.prot)
        /\ hardware_info = TargetHardware(request.part)
        /\ Writes(layout, hardware_info, Stored(jo.prot))
        /\ made = Made(jo, layout, hardware_info)
    BY FinishedMade
  <2>2. jo.prot \in Version /\ jo.app \in Version
    BY FinishedMade
  <2>3. made.layout = layout
    BY <2>1 DEF Made, Imported
  <2>4. /\ layout = "800s_FROM_719" => HardwareOf(made) = hardware_info
        /\ layout = "800s_PRIOR_719" => HardwareOf(made) = "EFR32XG23"
        /\ ProtocolMark(made) = [format |-> TargetFormat(jo.prot), version |-> Stored(jo.prot)]
        /\ ApplicationMark(made, HardwareOf(made)) =
             [format |-> jo.appFormat, version |-> Stored(jo.app)]
    BY <2>1, MadeVersions
  <2>5. layout = "800s_FROM_719" => hardware_info = request.part
    BY <2>1 DEF Writes, TargetHardware
  <2>6. CarriedFor(Stored(jo.prot), jo.prot) /\ CarriedFor(Stored(jo.app), jo.app)
    BY <2>2, StoredCarried
  <2>7. /\ Major(Stored(jo.prot)) = Major(jo.prot)
        /\ Minor(Stored(jo.prot)) = Minor(jo.prot)
    <3>1. TargetFormat(jo.prot) # Unsupported
      BY <2>1 DEF TargetLayout, Writes, Layout, Rejected
    <3> QED
      BY <2>2, <3>1, SupportedVersions
  <2>8. MarkAsked.format = jo.appFormat /\ MarkAsked.version = jo.app
    BY <2>1
  <2> QED
    BY <2>1, <2>3, <2>4, <2>5, <2>6, <2>7, <2>8 DEF MadeAsAsked
<1> QED
  BY <1>1, RunsInductive, PTL

(* An image made by a run that raised no error is read without one, if the *)
(* application configuration has the same shape in both versions.          *)
THEOREM CleanIsReadClean == Spec => []CleanImageReadsClean
<1>1. IInv /\ KInv /\ MInv => CleanImageReadsClean
  <2> SUFFICES ASSUME IInv, KInv, MInv, Finished,
                      ~parse_error_detected, ~nvm3_error_detected,
                      ReadStruct(MarkAsked.version) = WrittenStruct(VersionAsked)
               PROVE  ~ReadFails(made, HardwareOf(made))
    BY DEF CleanImageReadsClean, Finished
  <2>1. /\ made = Made(jo, layout, hardware_info)
        /\ jo.parts["sucUpdateEntries"] # "absent"
        /\ Writes(layout, hardware_info, Stored(jo.prot))
    BY FinishedMade
  <2>2. ReadStruct(jo.app) = WrittenStruct(jo.prot)
    BY FinishedMade
  <2>3. ReadStruct(Stored(jo.app)) = WrittenStruct(Stored(jo.prot))
    <3>1. CASE jo.prot = jo.app
      BY <3>1, FinishedMade, StoredVersion, Components, ShapesAgree
    <3>2. CASE jo.prot \in ByteVersion /\ jo.app \in ByteVersion
      BY <2>2, <3>2, Bytes
    <3> QED
      BY <3>1, <3>2, FinishedMade
  <2> QED
    BY <2>1, <2>3, MadeReadsClean
<1> QED
  BY <1>1, RunsInductive, PTL
==============================================================================
