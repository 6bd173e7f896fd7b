---------------------------- MODULE VersionChoice ----------------------------
(***************************************************************************)
(* The rules of VersionRules over all versions and part numbers a user may *)
(* ask for: version numbers whose components come from small sets, one     *)
(* component or the part changing at a time.                               *)
(***************************************************************************)
EXTENDS VersionRules

CONSTANTS Majors, Minors, Patches, Parts

ASSUME ChoicesAssumption ==
  /\ Majors \subseteq Nat
  /\ Minors \subseteq Nat
  /\ Patches \subseteq Nat
  /\ Parts \subseteq PartNumber

VARIABLES version, part
choiceVars == <<version, part>>

ChoiceInit ==
  /\ version \in Majors \X Minors \X Patches
  /\ part \in Parts

OtherMajor == \E m \in Majors : version' = <<m, Minor(version), Patch(version)>>
OtherMinor == \E m \in Minors : version' = <<Major(version), m, Patch(version)>>
OtherPatch == \E p \in Patches : version' = <<Major(version), Minor(version), p>>

ChoiceNext ==
  \/ (OtherMajor \/ OtherMinor \/ OtherPatch) /\ UNCHANGED part
  \/ part' \in Parts /\ UNCHANGED version

ChoiceSpec == ChoiceInit /\ [][ChoiceNext]_choiceVars

------------------------------------------------------------------------------
Layouted == TargetLayout(part, version)
Writable == Layouted # Rejected
Hw == TargetHardware(part)
Prot == Stored(version)
InRange == Minor(version) <= 255 /\ Patch(version) <= 255

(* The schema upgrade and the converter keep tables of the same versions   *)
(* in different files (json_upgrade.c:231-327, controller_nvm.c:362-484):  *)
(* up to major version 8 they support the same versions with the same      *)
(* format, so an upgraded JSON file can be imported with the format it was *)
(* upgraded to.  From 9 on only the upgrade accepts a version.             *)
UpgradeAgreesWithImport ==
  /\ TargetFormat(version) # Unsupported =>
       UpgradeAccepts(version) /\ UpgradeFormat(version) = TargetFormat(version)
  /\ UpgradeAccepts(version) /\ Major(version) <= 8 /\ InRange =>
       TargetFormat(version) # Unsupported

(* An image carries its version in bytes, and the patch of 7.x is cut to   *)
(* one without a check (controller_nvm.c:399-478).  Nothing is chosen      *)
(* otherwise for the version cut than for the one asked for: a document    *)
(* exported from the image is accepted with the same format, layout and    *)
(* generation, by the importer and by the upgrade.  Only the patches       *)
(* that 7.15 and 7.18 compare with (controller_nvm.c:486-509) can tell:    *)
(* 7.15.256 is stored with the shape of 7.15.0.                            *)
PatchCut == Patch(version) > 255
ShapeCut ==
  /\ PatchCut
  /\ \/ Minor(version) = 15 /\ Patch(Prot) < 3
     \/ Minor(version) = 18 /\ Patch(Prot) = 0

StampTakenBack ==
  Writable =>
    /\ TargetLayout(part, Prot) = Layouted
    /\ TargetFormat(Prot) = TargetFormat(version)
    /\ UpgradeAccepts(Prot)
    /\ UpgradeFormat(Prot) = UpgradeFormat(version)
    /\ AppFileFormat(Prot) = AppFileFormat(version)
    /\ Generation(Prot) = Generation(version)
    /\ Prot = version <=> ~PatchCut
    /\ PatchCut => Major(version) = 7
    /\ WrittenStruct(Prot) = WrittenStruct(version) <=> ~ShapeCut

(* "700 Series only supports protocol versions up to 7.21.x": the text     *)
(* comparison of json_get_nvm_layout and the supported versions together   *)
(* accept exactly the supported versions below 7.22 for the 700 series.    *)
SeriesLimit ==
  part \in {"EFR32XG14", "EFR32XG13"} =>
    (Writable <=> /\ TargetFormat(version) # Unsupported
                  /\ ~NotOlder(version, <<7, 22, 0>>))

(* An image of any accepted version and part is recognised by its size,    *)
(* and each file is written into an instance the image has and is looked   *)
(* for at the place where it was written, if the application version is    *)
(* the protocol version, as the upgrade makes it.  The one exception is    *)
(* the DC/DC configuration of a 700 series image from 7.19 on.             *)
WrittenObjects == {WrittenAt(f, Layouted, Hw, Prot) : f \in FilesWritten(Prot)}
ReadHw == DetectedHardware(LayoutOfSize(ImageSize(Layouted)), WrittenObjects)

FilesFoundAgain ==
  Writable =>
    /\ LayoutOfSize(ImageSize(Layouted)) = Layouted
    /\ \A f \in FilesWritten(Prot) :
         /\ WrittenAt(f, Layouted, Hw, Prot)[1] \in Instances(Layouted)
         /\ \/ ReadAt(f, Layouted, ReadHw, Prot, Prot) = WrittenAt(f, Layouted, Hw, Prot)
            \/ f = "PROPRIETARY_1" /\ Layouted = "700s"

(* The configuration structure is then read with the shape it was written  *)
(* with, although one side chooses by application and the other by         *)
(* protocol version.  For an application with a version of its own before  *)
(* 7.18.1 it is looked for in the application instance, which an 800       *)
(* series image from 7.19 on does not have (controller_nvm.c:893-986).     *)
OwnVersions == {<<1, 0, 0>>, <<7, 18, 0>>, <<7, 18, 1>>, <<7, 21, 0>>, <<9, 0, 0>>}

ConfigurationShapeAgrees ==
  Writable =>
    /\ ReadStruct(Prot) = WrittenStruct(Prot)
    /\ \A app \in OwnVersions :
         LET instance == ReadAt("APPLICATIONCONFIGURATION", Layouted, Hw, Prot, app)[1]
         IN  instance \in Instances(Layouted)
               <=> Layouted # "800s_FROM_719" \/ NotOlder(app, <<7, 18, 1>>)
==============================================================================
