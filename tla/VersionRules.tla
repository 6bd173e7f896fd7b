---------------------------- MODULE VersionRules -----------------------------
(***************************************************************************)
(* How the converter and the schema upgrade decide what to do from version *)
(* numbers: which versions can be written, with which file system format,  *)
(* in which NVM layout, and in which of the two NVM instances each file of *)
(* the controller is written and looked for.                               *)
(*                                                                         *)
(* A version is <<major, minor, patch>>, as sscanf("%d.%d.%d") reads it;   *)
(* NoVersion is a text from which sscanf does not read three numbers.      *)
(***************************************************************************)
EXTENDS Integers, Sequences

NoVersion == <<>>
Major(v) == v[1]
Minor(v) == v[2]
Patch(v) == v[3]

PartNumber == {"EFR32XG28", "EFR32XG23", "EFR32XG14", "EFR32XG13"}
Hardware == {"UNDEFINED_HARDWARE", "ZW_700s", "EFR32XG23", "EFR32XG28"}
Layout == {"700s", "800s_PRIOR_719", "800s_FROM_719"}
Rejected == "rejected"

(* The order of versions used by compare_versions and, for well-formed     *)
(* texts, by compare_semver_strings; NoVersion is older than any version.  *)
NotOlder(v, w) ==
  /\ v # NoVersion
  /\ \/ Major(v) > Major(w)
     \/ Major(v) = Major(w) /\ Minor(v) > Minor(w)
     \/ Major(v) = Major(w) /\ Minor(v) = Minor(w) /\ Patch(v) >= Patch(w)

------------------------------------------------------------------------------
(***************************************************************************)
(* Formats                                                                 *)
(***************************************************************************)
Unsupported == -1

(* The releases of 7.x that set_target_version can write, row by row.      *)
ImportFormat7(minor) ==
  CASE minor = 11 -> 0
    [] minor = 12 -> 1
    [] minor = 15 -> 2
    [] minor = 16 -> 3
    [] minor = 17 -> 4
    [] minor = 18 -> 4
    [] minor \in {19, 20} -> 5
    [] minor \in 21 .. 24 -> 5
    [] OTHER -> Unsupported

(* A fault: the components of an 8.x version are not checked either.       *)
TargetFormatUnchecked(v) ==
  CASE v = NoVersion -> Unsupported
    [] Major(v) = 8 -> 5
    [] Major(v) = 7 -> ImportFormat7(Minor(v))
    [] OTHER -> Unsupported

(* set_target_version: the format of an image for protocol version v.      *)
TargetFormat(v) ==
  CASE v = NoVersion -> Unsupported
    [] Major(v) = 8 -> IF Minor(v) <= 255 /\ Patch(v) <= 255 THEN 5 ELSE Unsupported
    [] Major(v) = 7 -> ImportFormat7(Minor(v))
    [] OTHER -> Unsupported

(* The components are stored as bytes; those of 7.x are not range-checked. *)
Stored(v) == <<Major(v) % 256, Minor(v) % 256, Patch(v) % 256>>

(* A fault: 7.24 was not added here when it was added to the importer.     *)
UpgradeFormat7Until723(minor) ==
  CASE minor = 11 -> 0
    [] minor = 12 -> 1
    [] minor = 15 -> 2
    [] minor = 16 -> 3
    [] minor = 17 \/ minor = 18 -> 4
    [] minor >= 19 /\ minor <= 23 -> 5
    [] OTHER -> Unsupported

(* A fault: the row of 7.17 is a copy of the row of 7.12.                  *)
UpgradeFormat7Copied717(minor) ==
  CASE minor = 11 -> 0
    [] minor = 12 \/ minor = 17 -> 1
    [] minor = 15 -> 2
    [] minor = 16 -> 3
    [] minor = 18 -> 4
    [] minor >= 19 /\ minor <= 24 -> 5
    [] OTHER -> Unsupported

(* The upgrade's own table of the releases of 7.x.                         *)
UpgradeFormat7(minor) ==
  CASE minor = 11 -> 0
    [] minor = 12 -> 1
    [] minor = 15 -> 2
    [] minor = 16 -> 3
    [] minor = 17 \/ minor = 18 -> 4
    [] minor >= 19 /\ minor <= 24 -> 5
    [] OTHER -> Unsupported

(* get_file_system_format_from_version, used by the upgrade.               *)
UpgradeFormat(v) ==
  CASE v = NoVersion -> Unsupported
    [] Major(v) >= 8 -> 5
    [] Major(v) = 7 -> UpgradeFormat7(Minor(v))
    [] OTHER -> Unsupported

(* get_app_file_format_from_version.                                       *)
AppFileFormat(v) ==
  CASE v = NoVersion -> Unsupported
    [] Major(v) >= 8 -> 1
    [] Major(v) = 7 /\ Minor(v) \in 11 .. 23 -> 0
    [] Major(v) = 7 /\ Minor(v) = 24 -> 1
    [] OTHER -> Unsupported

UpgradeAccepts(v) == UpgradeFormat(v) # Unsupported /\ AppFileFormat(v) # Unsupported

------------------------------------------------------------------------------
(***************************************************************************)
(* Layouts                                                                 *)
(***************************************************************************)

(* The text of a version, as numbers that order like its characters.       *)
Dot == -1
Digits(n) ==
  IF n < 10 THEN <<n>>
  ELSE IF n < 100 THEN <<n \div 10, n % 10>>
  ELSE <<(n \div 100) % 10, (n \div 10) % 10, n % 10>>
Text(v) == Digits(Major(v)) \o <<Dot>> \o Digits(Minor(v)) \o <<Dot>> \o Digits(Patch(v))

(* A fault: one character too few is compared.                             *)
TextUpTo72(v) ==
  LET text == Text(v)
      limit == <<7, Dot, 2>>
  IN  \/ \A i \in 1 .. 3 : text[i] = limit[i]
      \/ \E i \in 1 .. 3 : text[i] < limit[i] /\ \A j \in 1 .. i - 1 : text[j] = limit[j]

(* strncmp(protocol_version, "7.21", 4) <= 0, for the text of version v.   *)
TextUpTo721(v) ==
  LET text == Text(v)
      limit == <<7, Dot, 2, 1>>
  IN  \/ \A i \in 1 .. 4 : text[i] = limit[i]
      \/ \E i \in 1 .. 4 : text[i] < limit[i] /\ \A j \in 1 .. i - 1 : text[j] = limit[j]

(* json_get_nvm_layout: the layout of the image to write, or Rejected.     *)
SeriesLayout(part, v) ==
  CASE part \in {"EFR32XG28", "EFR32XG23"} ->
         IF NotOlder(v, <<7, 19, 0>>) THEN "800s_FROM_719" ELSE "800s_PRIOR_719"
    [] part \in {"EFR32XG14", "EFR32XG13"} ->
         IF v = NoVersion \/ TextUpTo721(v) THEN "700s" ELSE Rejected
    [] OTHER -> Rejected

TargetLayout(part, v) ==
  IF TargetFormat(v) = Unsupported THEN Rejected ELSE SeriesLayout(part, v)

(* A fault: every 800 series part is taken for the same family.            *)
TargetHardwareXG28(part) ==
  IF part \in {"EFR32XG28", "EFR32XG23"} THEN "EFR32XG28" ELSE "ZW_700s"

TargetHardware(part) ==
  IF part \in {"EFR32XG28", "EFR32XG23"} THEN part ELSE "ZW_700s"

(* The image sizes of the layouts, and read_layout_from_nvm_size, which    *)
(* takes every size it does not know for a 700 series image.               *)
ImageSize(layout) ==
  CASE layout = "700s" -> 49152             \* 0xC000
    [] layout = "800s_PRIOR_719" -> 65536   \* 0x10000
    [] layout = "800s_FROM_719" -> 40960    \* 0xA000

LayoutOfSize(size) ==
  CASE size = 40960 -> "800s_FROM_719"
    [] size = 65536 -> "800s_PRIOR_719"
    [] OTHER -> "700s"

(* open_controller_nvm: the instances an image has.                        *)
Instances(layout) ==
  IF layout = "800s_FROM_719" THEN {"protocol"} ELSE {"app", "protocol"}

------------------------------------------------------------------------------
(***************************************************************************)
(* Where the files are                                                     *)
(***************************************************************************)
Is719OrNewer(prot) == Major(prot) > 7 \/ (Major(prot) = 7 /\ Minor(prot) >= 19)
Is720OrNewer(prot) == Major(prot) > 7 \/ (Major(prot) = 7 /\ Minor(prot) >= 20)

(* The generation of the controller info file and of its parser.           *)
Generation(prot) ==
  IF Is719OrNewer(prot) THEN 719
  ELSE IF Major(prot) = 7 /\ Minor(prot) >= 15 THEN 715
  ELSE 711

(* The versions of the application configuration structure.                *)
PreV7_15_3(v) ==
  \/ Major(v) < 7
  \/ Major(v) = 7 /\ Minor(v) < 15
  \/ Major(v) = 7 /\ Minor(v) = 15 /\ Patch(v) < 3
PreV7_18_1(v) ==
  /\ ~(Major(v) >= 8 \/ (Major(v) = 7 /\ Minor(v) >= 19))
  /\ ~(Major(v) = 7 /\ Minor(v) = 18 /\ Patch(v) >= 1)
PreV7_21(v) == Major(v) = 7 /\ Minor(v) <= 20
PreV7_19(v) == Major(v) = 7 /\ Minor(v) <= 18

(* app_config_to_json chooses by the application version.                  *)
ReadStruct(app) ==
  IF Major(app) >= 8 THEN "7_21_x"
  ELSE IF PreV7_15_3(app) THEN "prior_7_15_3"
  ELSE IF PreV7_18_1(app) THEN "prior_7_18_1"
  ELSE IF PreV7_21(app) THEN "7_18_1"
  ELSE "7_21_x"

(* A fault: a structure is forgotten.                                      *)
WrittenStructWithout7_15_3(prot) ==
  IF PreV7_15_3(prot) THEN "prior_7_15_3"
  ELSE IF PreV7_21(prot) THEN "7_18_1"
  ELSE "7_21_x"

(* parse_app_config_json by the protocol version.                          *)
WrittenStruct(prot) ==
  IF PreV7_15_3(prot) THEN "prior_7_15_3"
  ELSE IF PreV7_18_1(prot) THEN "prior_7_18_1"
  ELSE IF PreV7_21(prot) THEN "7_18_1"
  ELSE "7_21_x"

(* A fault: the rule forgets the 800 series before 7.19.                   *)
AppFilesOnAny800(layout, prot) == layout # "700s"

AppFilesOnProtocol(layout, prot) == layout # "700s" /\ Is719OrNewer(prot)

(* The files of the controller.  "tables" stands for the node, route, Long *)
(* Range and SUC files, which are always in the protocol instance.         *)
File ==
  {"ZW_VERSION", "CONTROLLERINFO", "APP_VERSION", "APPLICATIONSETTINGS",
   "APPLICATIONCMDINFO", "APPLICATIONCONFIGURATION", "APPLICATIONDATA",
   "APP_NAME", "PROPRIETARY_1", "tables"}

AppVersionKey(hw) ==
  IF hw = "EFR32XG28" THEN "APP_VERSION_XG28" ELSE "APP_VERSION_XG23"
AppNameKey(hw) == IF hw = "EFR32XG23" THEN "APP_NAME_XG23" ELSE "APP_NAME_XG28"

(* Where the importer writes a file: instance and key.                     *)
WrittenAt(f, layout, hw, prot) ==
  LET bySeries(k700, k800) ==
        IF layout = "700s" THEN <<"app", k700>> ELSE <<"protocol", k800>>
      byGeneration == IF Generation(prot) = 719 THEN bySeries(f, f) ELSE <<"app", f>>
  IN  CASE f \in {"ZW_VERSION", "CONTROLLERINFO", "PROPRIETARY_1", "tables"} -> <<"protocol", f>>
        [] f \in {"APPLICATIONSETTINGS", "APPLICATIONCMDINFO", "APPLICATIONDATA"} -> byGeneration
        [] f = "APP_NAME" -> bySeries("APP_NAME", AppNameKey(hw))
        [] f = "APP_VERSION" ->
             IF ~Is719OrNewer(prot) \/ layout = "700s"
               THEN <<"app", "APP_VERSION">>
               ELSE <<"protocol", AppVersionKey(hw)>>
        [] f = "APPLICATIONCONFIGURATION" ->
             IF PreV7_15_3(prot) \/ PreV7_18_1(prot) \/ PreV7_19(prot) THEN <<"app", f>>
             ELSE IF Major(prot) >= 8 THEN <<"protocol", f>>
             ELSE bySeries(f, f)

(* Where the exporter looks for it.                                        *)
ReadAt(f, layout, hw, prot, app) ==
  LET bySeries(k700, k800) ==
        IF layout = "700s" THEN <<"app", k700>> ELSE <<"protocol", k800>>
      byGeneration == IF Generation(prot) = 719 THEN bySeries(f, f) ELSE <<"app", f>>
  IN  CASE f \in {"ZW_VERSION", "CONTROLLERINFO", "tables"} -> <<"protocol", f>>
        [] f \in {"APPLICATIONSETTINGS", "APPLICATIONCMDINFO", "APPLICATIONDATA",
                  "PROPRIETARY_1"} -> byGeneration
        [] f = "APP_NAME" -> bySeries("APP_NAME", AppNameKey(hw))
        [] f = "APP_VERSION" ->
             IF AppFilesOnProtocol(layout, prot)
               THEN <<"protocol", AppVersionKey(hw)>>
               ELSE <<"app", "APP_VERSION">>
        [] f = "APPLICATIONCONFIGURATION" ->
             IF ReadStruct(app) \in {"7_18_1", "7_21_x"} /\ AppFilesOnProtocol(layout, prot)
               THEN <<"protocol", f>>
               ELSE <<"app", f>>

(* check_controller_nvm: the hardware an 800 series image was made for, by *)
(* the objects (instance and key) it holds.                                *)
DetectedHardware(layout, objects) ==
  IF layout = "700s" THEN "UNDEFINED_HARDWARE"
  ELSE IF <<"protocol", "APP_VERSION_XG28">> \in objects THEN "EFR32XG28"
  ELSE "EFR32XG23"

(* The files the importer writes for a protocol version.                   *)
FilesWritten(prot) ==
  File \ ((IF Generation(prot) = 719 THEN {} ELSE {"PROPRIETARY_1"})
            \cup (IF Is720OrNewer(prot) THEN {} ELSE {"APP_NAME"}))
==============================================================================
