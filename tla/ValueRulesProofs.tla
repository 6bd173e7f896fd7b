--------------------------- MODULE ValueRulesProofs ---------------------------
(***************************************************************************)
(* Proofs about what is decided value by value: the rules for versions,    *)
(* layouts and files (VersionChoice), the bits of nodes and routes, texts, *)
(* command lines and the names of output files (Values), and the           *)
(* controller information key by key (ControllerInfo).  They hold for all  *)
(* values, not only those of the runs.                                     *)
(***************************************************************************)
EXTENDS VersionChoice, Values, ControllerInfo, StorageRulesProofs, FiniteSetTheorems

(***************************************************************************)
(* Versions and parts                                                      *)
(***************************************************************************)
ChoiceInv == version \in Version /\ part \in PartNumber

LEMMA ChoiceInductive == ChoiceSpec => []ChoiceInv
<1>1. ChoiceInit => ChoiceInv
  BY ChoicesAssumption DEF ChoiceInit, ChoiceInv, Version
<1>2. ChoiceInv /\ [ChoiceNext]_choiceVars => ChoiceInv'
  <2> SUFFICES ASSUME ChoiceInv, [ChoiceNext]_choiceVars
               PROVE  ChoiceInv'
    OBVIOUS
  <2>1. Major(version) \in Nat /\ Minor(version) \in Nat /\ Patch(version) \in Nat
    BY DEF ChoiceInv, Version, Major, Minor, Patch
  <2>2. CASE (OtherMajor \/ OtherMinor \/ OtherPatch) /\ UNCHANGED part
    BY <2>1, <2>2, ChoicesAssumption DEF ChoiceInv, Version, OtherMajor, OtherMinor, OtherPatch
  <2>3. CASE part' \in Parts /\ UNCHANGED version
    BY <2>3, ChoicesAssumption DEF ChoiceInv
  <2>4. CASE UNCHANGED choiceVars
    BY <2>4 DEF ChoiceInv, choiceVars
  <2> QED
    BY <2>2, <2>3, <2>4 DEF ChoiceNext
<1> QED
  BY <1>1, <1>2, PTL DEF ChoiceSpec

(* The two tables of 7.x, written at different places with different       *)
(* conditions, give each release the same format.                          *)
LEMMA SameRows ==
  ASSUME NEW m \in Releases7
  PROVE  UpgradeFormat7(m) = ImportFormat7(m)
<1>1. m \in {11, 12, 15, 16, 17, 18} \/ m \in 19 .. 24
  BY DEF Releases7
<1> QED
  BY <1>1, ImportRows, UpgradeRows

(* The tables of the importer and of the schema upgrade agree for every    *)
(* version number.                                                         *)
LEMMA TablesAgree ==
  ASSUME version \in Version
  PROVE  UpgradeAgreesWithImport
<1>1. /\ Major(version) \in Nat /\ Minor(version) \in Nat /\ Patch(version) \in Nat
      /\ version # NoVersion
  BY Components
<1>2. CASE Major(version) = 8
  <2>1. UpgradeFormat(version) = 5 /\ AppFileFormat(version) = 1
    BY <1>1, <1>2 DEF UpgradeFormat, AppFileFormat
  <2>2. TargetFormat(version) =
          IF Minor(version) <= 255 /\ Patch(version) <= 255 THEN 5 ELSE Unsupported
    BY <1>1, <1>2 DEF TargetFormat
  <2> QED
    BY <1>2, <2>1, <2>2 DEF UpgradeAgreesWithImport, UpgradeAccepts, Unsupported, InRange
<1>3. CASE Major(version) = 7
  <2>1. /\ UpgradeFormat(version) = UpgradeFormat7(Minor(version))
        /\ TargetFormat(version) = ImportFormat7(Minor(version))
    BY <1>1, <1>3 DEF UpgradeFormat, TargetFormat
  <2>2. CASE Minor(version) \in Releases7
    <3>1. UpgradeFormat(version) = TargetFormat(version)
      BY <1>1, <2>1, <2>2, SameRows
    <3>2. TargetFormat(version) # Unsupported
      BY <1>1, <2>1, <2>2, Minors7
    <3>3. Minor(version) \in 11 .. 23 \/ Minor(version) = 24
      BY <2>2 DEF Releases7
    <3>4. AppFileFormat(version) # Unsupported
      BY <1>1, <1>3, <3>3 DEF AppFileFormat, Unsupported
    <3> QED
      BY <3>1, <3>2, <3>4 DEF UpgradeAgreesWithImport, UpgradeAccepts
  <2>3. CASE Minor(version) \notin Releases7
    <3>1. TargetFormat(version) = Unsupported /\ UpgradeFormat(version) = Unsupported
      BY <1>1, <2>1, <2>3, Minors7
    <3> QED
      BY <3>1 DEF UpgradeAgreesWithImport, UpgradeAccepts
  <2> QED
    BY <2>2, <2>3
<1>4. CASE Major(version) \notin {7, 8}
  <2>1. TargetFormat(version) = Unsupported
    BY <1>1, <1>4 DEF TargetFormat
  <2>2. Major(version) <= 8 => UpgradeFormat(version) = Unsupported
    BY <1>1, <1>4 DEF UpgradeFormat
  <2> QED
    BY <2>1, <2>2 DEF UpgradeAgreesWithImport, UpgradeAccepts
<1> QED
  BY <1>2, <1>3, <1>4

(* UpgradeAgreesWithImport for all version numbers: the tables of the two  *)
(* source files agree outside of the versions of the runs, too.            *)
THEOREM UpgradeAgrees == ChoiceSpec => []UpgradeAgreesWithImport
<1>1. ChoiceInv => UpgradeAgreesWithImport
  BY TablesAgree DEF ChoiceInv
<1> QED
  BY <1>1, ChoiceInductive, PTL

(* StampTakenBack for all version numbers: the version an image carries    *)
(* decides as the one that was asked for, and which patches are told apart *)
(* wrongly is exact.                                                       *)
THEOREM StampReturns == ChoiceSpec => []StampTakenBack
<1>1. ASSUME version \in Version, part \in PartNumber, Writable
      PROVE  StampTakenBack
  <2>1. /\ Major(version) \in Nat /\ Minor(version) \in Nat /\ Patch(version) \in Nat
        /\ version # NoVersion
        /\ version = <<Major(version), Minor(version), Patch(version)>>
    BY <1>1, Components
  <2>2. TargetFormat(version) # Unsupported /\ Layouted = SeriesLayout(part, version)
    BY <1>1 DEF Writable, Layouted, TargetLayout
  <2>3. /\ Major(Prot) = Major(version) /\ Minor(Prot) = Minor(version)
        /\ Patch(Prot) = Patch(version) % 256
        /\ Major(version) \in {7, 8}
    BY <1>1, <2>2, SupportedVersions DEF Prot, Stored, Patch
  <2>4. /\ Prot \in Version /\ Prot # NoVersion
        /\ Prot = <<Major(Prot), Minor(Prot), Patch(Prot)>>
    BY <1>1, StoredVersion, Components DEF Prot
  <2>5. Major(version) = 8 => Minor(version) <= 255 /\ Patch(version) <= 255
    BY <1>1, <2>2, ImportAccepts
  <2>6. Patch(Prot) \in 0 .. 255 /\ (Patch(version) <= 255 <=> Patch(Prot) = Patch(version))
    BY <2>1, <2>3
  <2>7. /\ PatchCut <=> Patch(version) > 255
        /\ PatchCut => Major(version) = 7
    BY <2>1, <2>3, <2>5 DEF PatchCut
  <2>8. Prot = version <=> ~PatchCut
    BY <2>1, <2>3, <2>4, <2>6, <2>7
  <2>9. TargetFormat(Prot) = TargetFormat(version)
    <3>1. CASE Major(version) = 8
      BY <2>1, <2>3, <2>4, <2>5, <2>6, <3>1 DEF TargetFormat
    <3>2. CASE Major(version) = 7
      BY <2>1, <2>3, <2>4, <3>2 DEF TargetFormat
    <3> QED
      BY <2>3, <3>1, <3>2
  <2>10. UpgradeFormat(Prot) = UpgradeFormat(version)
    BY <2>1, <2>3, <2>4 DEF UpgradeFormat
  <2>11. AppFileFormat(Prot) = AppFileFormat(version)
    BY <2>1, <2>3, <2>4 DEF AppFileFormat
  <2>12. UpgradeAccepts(Prot)
    <3>1. UpgradeAgreesWithImport
      BY <1>1, TablesAgree
    <3> QED
      BY <2>2, <2>10, <2>11, <3>1 DEF UpgradeAgreesWithImport, UpgradeAccepts
  <2>13. Generation(Prot) = Generation(version)
    BY <2>3 DEF Generation, Is719OrNewer
  <2>14. TargetLayout(part, Prot) = Layouted
    <3>1. NotOlder(Prot, <<7, 19, 0>>) <=> NotOlder(version, <<7, 19, 0>>)
      <4>1. Major(<<7, 19, 0>>) = 7 /\ Minor(<<7, 19, 0>>) = 19 /\ Patch(<<7, 19, 0>>) = 0
        BY DEF Major, Minor, Patch
      <4> QED
        BY <2>1, <2>3, <2>4, <2>6, <4>1 DEF NotOlder
    <3>2. TextUpTo721(Prot) <=> TextUpTo721(version)
      BY <1>1, <2>2, <2>3, <2>4, <2>9, TextLimit
    <3>3. SeriesLayout(part, Prot) = SeriesLayout(part, version)
      BY <2>1, <2>4, <3>1, <3>2 DEF SeriesLayout
    <3> QED
      BY <2>2, <2>9, <3>3 DEF TargetLayout
  <2>15. WrittenStruct(Prot) = WrittenStruct(version) <=> ~ShapeCut
    <3>1. ShapeCut <=> /\ Patch(version) > 255
                       /\ \/ Minor(version) = 15 /\ Patch(Prot) < 3
                          \/ Minor(version) = 18 /\ Patch(Prot) = 0
      BY <2>7 DEF ShapeCut
    <3>2. PreV7_21(Prot) <=> PreV7_21(version)
      BY <2>3 DEF PreV7_21
    <3>3. CASE PreV7_15_3(Prot) = PreV7_15_3(version) /\ PreV7_18_1(Prot) = PreV7_18_1(version)
      BY <2>1, <2>3, <2>5, <2>6, <3>1, <3>2, <3>3 DEF PreV7_15_3, PreV7_18_1, WrittenStruct
    <3>4. CASE ~(PreV7_15_3(Prot) <=> PreV7_15_3(version))
      <4>1. /\ Major(version) = 7 /\ Minor(version) = 15
            /\ Patch(version) > 255 /\ Patch(Prot) < 3
        BY <2>1, <2>3, <2>6, <3>4 DEF PreV7_15_3
      <4>2. PreV7_15_3(Prot) /\ ~PreV7_15_3(version) /\ PreV7_18_1(version)
        BY <2>1, <2>3, <4>1 DEF PreV7_15_3, PreV7_18_1
      <4> QED
        BY <3>1, <4>1, <4>2 DEF WrittenStruct
    <3>5. CASE ~(PreV7_18_1(Prot) <=> PreV7_18_1(version))
      <4>1. /\ Major(version) = 7 /\ Minor(version) = 18
            /\ Patch(version) > 255 /\ Patch(Prot) = 0
        BY <2>1, <2>3, <2>6, <3>5 DEF PreV7_18_1
      <4>2. /\ ~PreV7_15_3(Prot) /\ ~PreV7_15_3(version)
            /\ PreV7_18_1(Prot) /\ ~PreV7_18_1(version) /\ PreV7_21(version)
        BY <2>1, <2>3, <4>1 DEF PreV7_15_3, PreV7_18_1, PreV7_21
      <4> QED
        BY <3>1, <4>1, <4>2 DEF WrittenStruct
    <3> QED
      BY <3>3, <3>4, <3>5 DEF PreV7_15_3, PreV7_18_1
  <2> QED
    BY <2>7, <2>8, <2>9, <2>10, <2>11, <2>12, <2>13, <2>14, <2>15 DEF StampTakenBack
<1>2. ChoiceInv => StampTakenBack
  BY <1>1 DEF ChoiceInv, StampTakenBack
<1> QED
  BY <1>2, ChoiceInductive, PTL

(* SeriesLimit for all version numbers: among the supported versions the   *)
(* comparison of texts is that of the numbers.                             *)
THEOREM SeriesLimitHolds == ChoiceSpec => []SeriesLimit
<1>1. ASSUME version \in Version, part \in {"EFR32XG14", "EFR32XG13"}
      PROVE  Writable <=> /\ TargetFormat(version) # Unsupported
                          /\ ~NotOlder(version, <<7, 22, 0>>)
  <2>1. /\ Major(version) \in Nat /\ Minor(version) \in Nat /\ Patch(version) \in Nat
        /\ version # NoVersion
    BY <1>1, Components
  <2>2. Writable <=> TargetFormat(version) # Unsupported /\ TextUpTo721(version)
    BY <1>1, <2>1 DEF Writable, Layouted, TargetLayout, SeriesLayout, Rejected
  <2>3. Major(<<7, 22, 0>>) = 7 /\ Minor(<<7, 22, 0>>) = 22 /\ Patch(<<7, 22, 0>>) = 0
    BY DEF Major, Minor, Patch
  <2>4. NotOlder(version, <<7, 22, 0>>) <=>
          Major(version) > 7 \/ (Major(version) = 7 /\ Minor(version) >= 22)
    BY <2>1, <2>3 DEF NotOlder
  <2>5. TargetFormat(version) # Unsupported => Major(version) \in {7, 8}
    BY <1>1, SupportedVersions
  <2>6. TargetFormat(version) # Unsupported =>
          (TextUpTo721(version) <=> Major(version) = 7 /\ Minor(version) <= 21)
    BY <1>1, TextLimit
  <2> QED
    BY <2>1, <2>2, <2>4, <2>5, <2>6
<1>2. ChoiceInv => SeriesLimit
  BY <1>1 DEF ChoiceInv, SeriesLimit
<1> QED
  BY <1>2, ChoiceInductive, PTL

------------------------------------------------------------------------------
(***************************************************************************)
(* Where the files are                                                     *)
(***************************************************************************)

(* What is known of a version, a part and a layout that are accepted.      *)
LEMMA Chosen ==
  ASSUME version \in Version, part \in PartNumber, Writable
  PROVE  Writes(Layouted, Hw, Prot)
BY Accepted DEF Writable, Layouted, Hw, Prot

LEMMA OwnShapes ==
  ASSUME NEW app \in OwnVersions
  PROVE  ReadStruct(app) \in {"7_18_1", "7_21_x"} <=> NotOlder(app, <<7, 18, 1>>)
<1>0. Major(<<7, 18, 1>>) = 7 /\ Minor(<<7, 18, 1>>) = 18 /\ Patch(<<7, 18, 1>>) = 1
  BY DEF Major, Minor, Patch
<1>1. CASE app = <<1, 0, 0>>
  <2>1. Major(app) = 1 /\ Minor(app) = 0 /\ Patch(app) = 0 /\ app # NoVersion
    BY <1>1 DEF Major, Minor, Patch, NoVersion
  <2>2. PreV7_15_3(app)
    BY <2>1 DEF PreV7_15_3, PreV7_18_1, PreV7_21
  <2>3. ReadStruct(app) = "prior_7_15_3"
    BY <2>1, <2>2 DEF ReadStruct
  <2> QED
    BY <1>0, <2>1, <2>3 DEF NotOlder
<1>2. CASE app = <<7, 18, 0>>
  <2>1. Major(app) = 7 /\ Minor(app) = 18 /\ Patch(app) = 0 /\ app # NoVersion
    BY <1>2 DEF Major, Minor, Patch, NoVersion
  <2>2. ~PreV7_15_3(app) /\ PreV7_18_1(app)
    BY <2>1 DEF PreV7_15_3, PreV7_18_1, PreV7_21
  <2>3. ReadStruct(app) = "prior_7_18_1"
    BY <2>1, <2>2 DEF ReadStruct
  <2> QED
    BY <1>0, <2>1, <2>3 DEF NotOlder
<1>3. CASE app = <<7, 18, 1>>
  <2>1. Major(app) = 7 /\ Minor(app) = 18 /\ Patch(app) = 1 /\ app # NoVersion
    BY <1>3 DEF Major, Minor, Patch, NoVersion
  <2>2. ~PreV7_15_3(app) /\ ~PreV7_18_1(app) /\ PreV7_21(app)
    BY <2>1 DEF PreV7_15_3, PreV7_18_1, PreV7_21
  <2>3. ReadStruct(app) = "7_18_1"
    BY <2>1, <2>2 DEF ReadStruct
  <2> QED
    BY <1>0, <2>1, <2>3 DEF NotOlder
<1>4. CASE app = <<7, 21, 0>>
  <2>1. Major(app) = 7 /\ Minor(app) = 21 /\ Patch(app) = 0 /\ app # NoVersion
    BY <1>4 DEF Major, Minor, Patch, NoVersion
  <2>2. ~PreV7_15_3(app) /\ ~PreV7_18_1(app) /\ ~PreV7_21(app)
    BY <2>1 DEF PreV7_15_3, PreV7_18_1, PreV7_21
  <2>3. ReadStruct(app) = "7_21_x"
    BY <2>1, <2>2 DEF ReadStruct
  <2> QED
    BY <1>0, <2>1, <2>3 DEF NotOlder
<1>5. CASE app = <<9, 0, 0>>
  <2>1. Major(app) = 9 /\ Minor(app) = 0 /\ Patch(app) = 0 /\ app # NoVersion
    BY <1>5 DEF Major, Minor, Patch, NoVersion
  <2>2. ~PreV7_15_3(app)
    BY <2>1 DEF PreV7_15_3, PreV7_18_1, PreV7_21
  <2>3. ReadStruct(app) = "7_21_x"
    BY <2>1, <2>2 DEF ReadStruct
  <2> QED
    BY <1>0, <2>1, <2>3 DEF NotOlder
<1> QED
  BY <1>1, <1>2, <1>3, <1>4, <1>5 DEF OwnVersions

(* ConfigurationShapeAgrees for all version numbers that can be written.   *)
THEOREM ConfigurationShape == ChoiceSpec => []ConfigurationShapeAgrees
<1>1. ASSUME version \in Version, part \in PartNumber, Writable, NEW app \in OwnVersions
      PROVE  ReadAt("APPLICATIONCONFIGURATION", Layouted, Hw, Prot, app)[1]
                 \in Instances(Layouted)
               <=> Layouted # "800s_FROM_719" \/ NotOlder(app, <<7, 18, 1>>)
  <2>1. ReadAt("APPLICATIONCONFIGURATION", Layouted, Hw, Prot, app) =
          IF ReadStruct(app) \in {"7_18_1", "7_21_x"} /\ AppFilesOnProtocol(Layouted, Prot)
            THEN <<"protocol", "APPLICATIONCONFIGURATION">>
            ELSE <<"app", "APPLICATIONCONFIGURATION">>
    BY DEF ReadAt
  <2>2. Layouted \in Layout
    BY <1>1, Chosen DEF Writes
  <2>3. AppFilesOnProtocol(Layouted, Prot) <=> Layouted = "800s_FROM_719"
    BY <1>1, Chosen, OnProtocol
  <2> QED
    BY <1>1, <2>1, <2>2, <2>3, OwnShapes DEF Instances, Layout
<1>2. ASSUME version \in Version, part \in PartNumber, Writable
      PROVE  ReadStruct(Prot) = WrittenStruct(Prot)
  <2>1. Major(Prot) \in Nat /\ Minor(Prot) \in Nat /\ Patch(Prot) \in Nat
    BY <1>2, Chosen DEF Writes
  <2> QED
    BY <2>1, ShapesAgree
<1>3. ChoiceInv => ConfigurationShapeAgrees
  BY <1>1, <1>2 DEF ChoiceInv, ConfigurationShapeAgrees
<1> QED
  BY <1>3, ChoiceInductive, PTL

------------------------------------------------------------------------------
(* The chip of an 800 series image from 7.19 on is told by its application *)
(* version file.                                                           *)
LEMMA ReadChip ==
  ASSUME version \in Version, part \in PartNumber, Writable, Layouted = "800s_FROM_719"
  PROVE  ReadHw = Hw
<1>1. Hw \in {"EFR32XG23", "EFR32XG28"} /\ Writes(Layouted, Hw, Prot)
  BY Chosen DEF Writes
<1>2. LayoutOfSize(ImageSize(Layouted)) = Layouted
  BY DEF LayoutOfSize, ImageSize
<1>3. WrittenAt("APP_VERSION", Layouted, Hw, Prot) = <<"protocol", AppVersionKey(Hw)>>
  BY <1>1, VersionFile
<1>4. <<"protocol", AppVersionKey(Hw)>> \in WrittenObjects
  BY <1>3 DEF WrittenObjects, FilesWritten, File
<1>5. ASSUME Hw = "EFR32XG23", NEW f \in File
      PROVE  WrittenAt(f, Layouted, Hw, Prot) # <<"protocol", "APP_VERSION_XG28">>
  <2>1. WrittenAt("APP_VERSION", Layouted, Hw, Prot) = <<"protocol", "APP_VERSION_XG23">>
    BY <1>3, <1>5 DEF AppVersionKey
  <2>2. WrittenAt("APP_NAME", Layouted, Hw, Prot) = <<"protocol", "APP_NAME_XG23">>
    BY <1>5 DEF WrittenAt, AppNameKey
  <2>3. ASSUME f \notin {"APP_VERSION", "APP_NAME"}
        PROVE  WrittenAt(f, Layouted, Hw, Prot)[2] = f
    BY <2>3 DEF WrittenAt, File
  <2> QED
    BY <2>1, <2>2, <2>3 DEF File
<1>6. Hw = "EFR32XG23" => <<"protocol", "APP_VERSION_XG28">> \notin WrittenObjects
  BY <1>5 DEF WrittenObjects, FilesWritten
<1> QED
  BY <1>1, <1>2, <1>4, <1>6, ChipFound DEF ReadHw

(* FilesFoundAgain for all version numbers and part numbers: what is       *)
(* written is looked for in the same place, the DC/DC configuration of 700 *)
(* series images apart.                                                    *)
THEOREM FilesAreFound == ChoiceSpec => []FilesFoundAgain
<1>1. ASSUME version \in Version, part \in PartNumber, Writable
      PROVE  LayoutOfSize(ImageSize(Layouted)) = Layouted
  BY <1>1, Chosen DEF Writes, LayoutOfSize, ImageSize, Layout
<1>2. ASSUME version \in Version, part \in PartNumber, Writable, NEW f \in FilesWritten(Prot)
      PROVE  /\ WrittenAt(f, Layouted, Hw, Prot)[1] \in Instances(Layouted)
             /\ \/ ReadAt(f, Layouted, ReadHw, Prot, Prot) = WrittenAt(f, Layouted, Hw, Prot)
                \/ f = "PROPRIETARY_1" /\ Layouted = "700s"
  <2>1. Writes(Layouted, Hw, Prot) /\ (Layouted = "800s_FROM_719" => ReadHw = Hw)
    BY <1>2, Chosen, ReadChip
  <2>2. ReadStruct(Prot) = WrittenStruct(Prot)
    BY <2>1, ShapesAgree DEF Writes
  <2> QED
    BY <1>2, <2>1, <2>2, FileFound
<1>3. ChoiceInv => FilesFoundAgain
  BY <1>1, <1>2 DEF ChoiceInv, FilesFoundAgain
<1> QED
  BY <1>3, ChoiceInductive, PTL

------------------------------------------------------------------------------
(***************************************************************************)
(* Bits of nodes and routes                                                *)
(***************************************************************************)
LEMMA Powers ==
  /\ PowerOf2[1] = 1 /\ PowerOf2[2] = 2 /\ PowerOf2[3] = 4 /\ PowerOf2[4] = 8
  /\ PowerOf2[5] = 16 /\ PowerOf2[6] = 32 /\ PowerOf2[7] = 64 /\ PowerOf2[8] = 128
BY DEF PowerOf2

(* A number below 8 has only the three lowest bits, and is their value.    *)
LEMMA ThreeBits ==
  ASSUME NEW value \in 0 .. 7
  PROVE  /\ Bits(value) \subseteq 0 .. 2
         /\ 0 \in Bits(value) <=> value % 2 = 1
         /\ 1 \in Bits(value) <=> (value \div 2) % 2 = 1
         /\ 2 \in Bits(value) <=> (value \div 4) % 2 = 1
<1>1. ASSUME NEW i \in 3 .. 7
      PROVE  value \div PowerOf2[i + 1] = 0
  <2>1. PowerOf2[i + 1] \in {8, 16, 32, 64, 128}
    BY Powers
  <2> QED
    BY <2>1
<1>2. ASSUME NEW i \in 3 .. 7
      PROVE  i \notin Bits(value)
  BY <1>1 DEF Bits
<1>3. Bits(value) \subseteq 0 .. 2
  BY <1>2 DEF Bits, Bit
<1>4. value \div 1 = value
  OBVIOUS
<1> QED
  BY <1>3, <1>4, Powers DEF Bits, Bit

LEMMA ThreeBitsValue ==
  ASSUME NEW value \in 0 .. 7, NEW bits,
         bits \cap 0 .. 2 = Bits(value)
  PROVE  LowValue(bits) = value
<1>1. \A i \in 0 .. 2 : i \in bits <=> i \in Bits(value)
  BY ThreeBits
<1>2. /\ 0 \in bits <=> value % 2 = 1
      /\ 1 \in bits <=> (value \div 2) % 2 = 1
      /\ 2 \in bits <=> (value \div 4) % 2 = 1
  BY <1>1, ThreeBits
<1> QED
  BY <1>2 DEF LowValue

LEMMA LowValueRange == \A bits : LowValue(bits) \in 0 .. 7
BY DEF LowValue

(* The list of rates that the exporter makes of a set of them.             *)
RateIn(S, r) == Rate(r \in S, r)
ListFor(S) == RateIn(S, 9600) \o RateIn(S, 40000) \o RateIn(S, 100000)

LEMMA RateIsThere ==
  ASSUME NEW S, NEW r \in Int
  PROVE  /\ RateIn(S, r) \in Seq(Int)
         /\ Len(RateIn(S, r)) = IF r \in S THEN 1 ELSE 0
         /\ r \in S => RateIn(S, r)[1] = r
<1>1. CASE r \in S
  BY <1>1 DEF RateIn, Rate
<1>2. CASE r \notin S
  BY <1>2 DEF RateIn, Rate
<1> QED
  BY <1>1, <1>2

LEMMA RatesListed ==
  ASSUME NEW S
  PROVE  /\ ListFor(S) \in Seq(Int)
         /\ Len(ListFor(S)) <= 3
         /\ \A i, j \in DOMAIN ListFor(S) : i < j => ListFor(S)[i] < ListFor(S)[j]
         /\ Range(ListFor(S)) = S \cap Known
<1> DEFINE a == 9600 \in S
           b == 40000 \in S
           c == 100000 \in S
           x == RateIn(S, 9600)
           y == RateIn(S, 40000)
           z == RateIn(S, 100000)
           xy == x \o y
           xyz == xy \o z
<1>1. x \in Seq(Int) /\ y \in Seq(Int) /\ z \in Seq(Int)
  BY RateIsThere
<1>2. /\ Len(x) = IF a THEN 1 ELSE 0
      /\ Len(y) = IF b THEN 1 ELSE 0
      /\ Len(z) = IF c THEN 1 ELSE 0
  BY RateIsThere
<1>3. (a => x[1] = 9600) /\ (b => y[1] = 40000) /\ (c => z[1] = 100000)
  BY RateIsThere
<1> HIDE DEF x, y, z
<1>4. /\ xy \in Seq(Int) /\ Len(xy) = Len(x) + Len(y)
      /\ \A i \in 1 .. Len(x) + Len(y) : xy[i] = IF i <= Len(x) THEN x[i] ELSE y[i - Len(x)]
  BY <1>1, ConcatProperties
<1>0. xy \in Seq(Int)
  BY <1>4
<1> HIDE DEF xy
<1>5. /\ xyz \in Seq(Int) /\ Len(xyz) = Len(xy) + Len(z)
      /\ \A i \in 1 .. Len(xy) + Len(z) :
           xyz[i] = IF i <= Len(xy) THEN xy[i] ELSE z[i - Len(xy)]
  BY <1>0, <1>1, ConcatProperties
<1> HIDE DEF xyz
<1>6. Len(xyz) = (IF a THEN 1 ELSE 0) + (IF b THEN 1 ELSE 0) + (IF c THEN 1 ELSE 0)
  BY <1>2, <1>4, <1>5
<1>7. DOMAIN xyz = 1 .. Len(xyz)
  BY <1>5, LenProperties
<1>8. ASSUME NEW i \in 1 .. Len(xyz)
      PROVE  xyz[i] = IF a /\ i = 1 THEN 9600
                      ELSE IF b /\ i = (IF a THEN 2 ELSE 1) THEN 40000
                      ELSE 100000
  <2>1. CASE a /\ i = 1
    <3>1. i \in 1 .. Len(x) + Len(y) /\ i \in 1 .. Len(xy) + Len(z)
      BY <1>2, <1>4, <1>5, <2>1
    <3> QED
      BY <1>2, <1>3, <1>4, <1>5, <2>1, <3>1
  <2>2. CASE ~(a /\ i = 1) /\ b /\ i = (IF a THEN 2 ELSE 1)
    <3>1. /\ i \in 1 .. Len(x) + Len(y) /\ i \in 1 .. Len(xy) + Len(z)
          /\ i > Len(x) /\ i - Len(x) = 1 /\ i <= Len(xy)
      BY <1>2, <1>4, <1>5, <2>2
    <3> QED
      BY <1>3, <1>4, <1>5, <2>2, <3>1
  <2>3. CASE ~(a /\ i = 1) /\ ~(b /\ i = (IF a THEN 2 ELSE 1))
    <3>1. /\ i \in 1 .. Len(xy) + Len(z) /\ ~(i <= Len(xy))
          /\ c /\ i - Len(xy) = 1
      BY <1>2, <1>4, <1>5, <1>6, <2>3
    <3> QED
      BY <1>3, <1>5, <2>3, <3>1
  <2> QED
    BY <2>1, <2>2, <2>3
<1>9. \A i, j \in DOMAIN xyz : i < j => xyz[i] < xyz[j]
  BY <1>6, <1>7, <1>8
<1>10. ASSUME NEW r
       PROVE  (\E i \in DOMAIN xyz : xyz[i] = r) <=>
                (a /\ r = 9600) \/ (b /\ r = 40000) \/ (c /\ r = 100000)
  <2>1. ASSUME NEW i \in DOMAIN xyz, xyz[i] = r
        PROVE  (a /\ r = 9600) \/ (b /\ r = 40000) \/ (c /\ r = 100000)
    BY <1>6, <1>7, <1>8, <2>1
  <2>2. ASSUME a, r = 9600
        PROVE  1 \in DOMAIN xyz /\ xyz[1] = r
    BY <1>6, <1>7, <1>8, <2>2
  <2>3. ASSUME b, r = 40000
        PROVE  \E i \in DOMAIN xyz : xyz[i] = r
    <3> DEFINE i == IF a THEN 2 ELSE 1
    <3>1. i \in 1 .. Len(xyz) /\ ~(a /\ i = 1)
      BY <1>6, <2>3
    <3> HIDE DEF i
    <3>2. xyz[i] = 40000
      BY <1>8, <2>3, <3>1 DEF i
    <3> QED
      BY <1>7, <2>3, <3>1, <3>2
  <2>4. ASSUME c, r = 100000
        PROVE  \E i \in DOMAIN xyz : xyz[i] = r
    <3> DEFINE i == Len(xyz)
    <3>1. /\ i \in 1 .. Len(xyz) /\ ~(a /\ i = 1)
          /\ ~(b /\ i = (IF a THEN 2 ELSE 1))
      BY <1>6, <2>4
    <3>2. xyz[i] = 100000
      <4> HIDE DEF i
      <4> QED
        BY <1>8, <3>1
    <3> QED
      BY <1>7, <2>4, <3>1, <3>2
  <2> QED
    BY <2>1, <2>2, <2>3, <2>4
<1>11. xyz = ListFor(S)
  BY DEF xyz, xy, x, y, z, ListFor
<1>12. Len(xyz) <= 3
  BY <1>6
<1>13. Range(xyz) = S \cap Known
  BY <1>10 DEF Range, Known
<1> QED
  BY <1>5, <1>9, <1>11, <1>12, <1>13

LEMMA SameList ==
  ASSUME NEW S, NEW T, S \cap Known = T \cap Known
  PROVE  ListFor(S) = ListFor(T)
<1>1. \A r \in Known : r \in S <=> r \in T
  OBVIOUS
<1>2. \A r \in Known : RateIn(S, r) = RateIn(T, r)
  BY <1>1 DEF RateIn, Rate
<1> QED
  BY <1>2 DEF ListFor, Known

(* ------------------------------- a node -------------------------------- *)

(* A flag of a document that is set; a name of its own, as the flags are   *)
(* values here and not formulas.                                           *)
Holds(b) == b = TRUE

LEMMA IfMember ==
  ASSUME NEW c \in BOOLEAN, NEW bit
  PROVE  \A x : x \in If(c, bit) <=> (Holds(c) /\ x = bit)
BY DEF If, Holds

(* Two truth values are the same if one is true exactly when the other is. *)
LEMMA Truth ==
  ASSUME NEW p, NEW S, NEW o \in BOOLEAN, p \in S <=> Holds(o)
  PROVE  (p \in S) = o
BY DEF Holds

Back(node) == ExportedNode(StoredNode(node))

LEMMA FlagField ==
  ASSUME NEW node, NodeObject(node), NEW key \in FlagKey, NEW b \in BOOLEAN
  PROVE  KeyOr(node, key, b) \in BOOLEAN
BY DEF NodeObject, KeyOr

LEMMA NumberField ==
  ASSUME NEW node, NodeObject(node), NEW key \in NumberKey, NEW n \in Int
  PROVE  KeyOr(node, key, n) \in Int
BY DEF NodeObject, KeyOr

(* The bits of security, and what the document says that decides them.     *)
LEMMA SecurityBits ==
  ASSUME NEW node, NodeObject(node)
  PROVE  /\ 0 \in Security(node) <=> Holds(KeyOr(node, "supportsSecurity", TRUE))
         /\ 1 \in Security(node) <=> KeyOr(node, "nodeType", 0) = 0
         /\ 3 \in Security(node) <=> KeyOr(node, "nodeType", 0) # 0
         /\ 4 \in Security(node) <=> Holds(KeyOr(node, "supportsBeaming", TRUE))
         /\ 5 \notin Security(node)
         /\ 6 \in Security(node) <=> KeyOr(node, "isFrequentListening", "none") # "none"
         /\ 7 \in Security(node) <=> Holds(KeyOr(node, "optionalFunctionality", FALSE))
<1> DEFINE wakes == KeyOr(node, "isFrequentListening", "none") # "none"
           functions == KeyOr(node, "optionalFunctionality", FALSE)
           slave == KeyOr(node, "nodeType", 0) # 0
           secure == KeyOr(node, "supportsSecurity", TRUE)
           beams == KeyOr(node, "supportsBeaming", TRUE)
           special == KeyOr(node, "specificDeviceClass", 0) % 256 # 0
<1>1. functions \in BOOLEAN /\ secure \in BOOLEAN /\ beams \in BOOLEAN
  BY FlagField DEF FlagKey
<1>2. wakes \in BOOLEAN /\ slave \in BOOLEAN /\ special \in BOOLEAN
  OBVIOUS
<1>3. Security(node) = If(wakes, 6) \cup If(functions, 7) \cup {IF slave THEN 3 ELSE 1}
                         \cup If(secure, 0) \cup If(beams, 4) \cup If(special, 2)
  BY DEF Security, Wakeup1000, OptionalFunc, SlaveRouting, ControllerNode, SecuritySupport,
         BeamCapability, SpecificDeviceType
<1>4. slave <=> KeyOr(node, "nodeType", 0) # 0
  OBVIOUS
<1>5. Holds(wakes) <=> KeyOr(node, "isFrequentListening", "none") # "none"
  BY DEF Holds
<1> HIDE DEF wakes, functions, slave, secure, beams, special
<1>6. /\ \A x : x \in If(wakes, 6) <=> (Holds(wakes) /\ x = 6)
      /\ \A x : x \in If(functions, 7) <=> (Holds(functions) /\ x = 7)
      /\ \A x : x \in If(secure, 0) <=> (Holds(secure) /\ x = 0)
      /\ \A x : x \in If(beams, 4) <=> (Holds(beams) /\ x = 4)
      /\ \A x : x \in If(special, 2) <=> (Holds(special) /\ x = 2)
  BY <1>1, <1>2, IfMember
<1>7. \A x : x \in {IF slave THEN 3 ELSE 1} <=> (slave /\ x = 3) \/ (~slave /\ x = 1)
  OBVIOUS
<1>8. \A x : x \in Security(node) <=>
        \/ Holds(wakes) /\ x = 6
        \/ Holds(functions) /\ x = 7
        \/ (slave /\ x = 3) \/ (~slave /\ x = 1)
        \/ Holds(secure) /\ x = 0
        \/ Holds(beams) /\ x = 4
        \/ Holds(special) /\ x = 2
  BY <1>3, <1>6, <1>7
<1>9. /\ 0 \in Security(node) <=> Holds(secure)
      /\ 1 \in Security(node) <=> ~slave
      /\ 3 \in Security(node) <=> slave
      /\ 4 \in Security(node) <=> Holds(beams)
      /\ 5 \notin Security(node)
      /\ 6 \in Security(node) <=> Holds(wakes)
      /\ 7 \in Security(node) <=> Holds(functions)
  BY <1>8
<1> QED
  BY <1>2, <1>4, <1>5, <1>9 DEF functions, secure, beams

(* What comes back from the bits, key by key.                              *)
LEMMA SecurityFlags ==
  ASSUME NEW node, NodeObject(node)
  PROVE  /\ Back(node).optionalFunctionality = KeyOr(node, "optionalFunctionality", FALSE)
         /\ Back(node).supportsSecurity = KeyOr(node, "supportsSecurity", TRUE)
         /\ Back(node).supportsBeaming = KeyOr(node, "supportsBeaming", TRUE)
<1> DEFINE info == StoredNode(node)
           bits == Security(node)
           functions == KeyOr(node, "optionalFunctionality", FALSE)
           secure == KeyOr(node, "supportsSecurity", TRUE)
           beams == KeyOr(node, "supportsBeaming", TRUE)
<1>1. info.security = bits
  BY DEF StoredNode
<1>2. functions \in BOOLEAN /\ secure \in BOOLEAN /\ beams \in BOOLEAN
  BY FlagField DEF FlagKey
<1>3. /\ 0 \in bits <=> Holds(secure)
      /\ 4 \in bits <=> Holds(beams)
      /\ 7 \in bits <=> Holds(functions)
  BY SecurityBits
<1>4. Back(node) = ExportedNode(info)
  BY DEF Back
<1> HIDE DEF bits, functions, secure, beams
<1>5. /\ (7 \in bits) = functions
      /\ (0 \in bits) = secure
      /\ (4 \in bits) = beams
  BY <1>2, <1>3, Truth
<1> HIDE DEF info
<1>6. /\ ExportedNode(info).optionalFunctionality = (7 \in info.security)
      /\ ExportedNode(info).supportsSecurity = (0 \in info.security)
      /\ ExportedNode(info).supportsBeaming = (4 \in info.security)
  BY DEF ExportedNode, OptionalFunc, SecuritySupport, BeamCapability
<1> QED
  BY <1>1, <1>4, <1>5, <1>6, Zenon DEF functions, secure, beams

LEMMA SecurityNumbers ==
  ASSUME NEW node, NodeObject(node)
  PROVE  /\ Back(node).nodeType = (IF KeyOr(node, "nodeType", 0) # 0 THEN 1 ELSE 0)
         /\ Back(node).genericDeviceClass = KeyOr(node, "genericDeviceClass", 0) % 256
         /\ Back(node).specificDeviceClass = KeyOr(node, "specificDeviceClass", 0) % 256
<1> DEFINE info == StoredNode(node)
           bits == Security(node)
           slave == KeyOr(node, "nodeType", 0) # 0
<1>1. info.security = bits /\ info.generic = KeyOr(node, "genericDeviceClass", 0) % 256
      /\ info.specific = KeyOr(node, "specificDeviceClass", 0) % 256
  BY DEF StoredNode
<1>2. (1 \in bits <=> ~slave) /\ (3 \in bits <=> slave)
  BY SecurityBits
<1>3. Back(node) = ExportedNode(info)
  BY DEF Back
<1> HIDE DEF info, bits, slave
<1>4. /\ ExportedNode(info).nodeType =
           (IF info.security \cap {ControllerNode, SlaveRouting} = {SlaveRouting} THEN 1 ELSE 0)
      /\ ExportedNode(info).genericDeviceClass = info.generic
      /\ ExportedNode(info).specificDeviceClass = info.specific
  BY DEF ExportedNode
<1>5. bits \cap {1, 3} = {3} <=> slave
  BY <1>2
<1>6. Back(node).nodeType = (IF slave THEN 1 ELSE 0)
  BY <1>1, <1>3, <1>4, <1>5 DEF ControllerNode, SlaveRouting
<1> QED
  BY <1>1, <1>3, <1>4, <1>6 DEF slave

LEMMA SecurityPeriod ==
  ASSUME NEW node, NodeObject(node)
  PROVE  Back(node).isFrequentListening =
           (IF KeyOr(node, "isFrequentListening", "none") = "none" THEN "none" ELSE "1000ms")
<1> DEFINE info == StoredNode(node)
           bits == Security(node)
           wakes == KeyOr(node, "isFrequentListening", "none") # "none"
<1>1. info.security = bits
  BY DEF StoredNode
<1>2. 5 \notin bits /\ (6 \in bits <=> wakes)
  BY SecurityBits
<1>3. Back(node) = ExportedNode(info)
  BY DEF Back
<1> HIDE DEF info, bits, wakes
<1>4. ExportedNode(info).isFrequentListening =
        (IF info.security \cap {Wakeup250, Wakeup1000} = {Wakeup250} THEN "250ms"
         ELSE IF info.security \cap {Wakeup250, Wakeup1000} = {Wakeup1000} THEN "1000ms"
         ELSE "none")
  BY DEF ExportedNode
<1>5. bits \cap {5, 6} # {5} /\ (bits \cap {5, 6} = {6} <=> wakes)
  BY <1>2
<1>6. Back(node).isFrequentListening = (IF wakes THEN "1000ms" ELSE "none")
  BY <1>1, <1>3, <1>4, <1>5 DEF Wakeup250, Wakeup1000
<1> QED
  BY <1>6 DEF wakes

(* The flags and rates, if the version is within its bits.                 *)
Listening(node) == KeyOr(node, "isListening", TRUE)
Routing(node) == KeyOr(node, "isRouting", FALSE)
SaidVersion(node) == KeyOr(node, "protocolVersion", 1)

LEMMA ListeningField ==
  ASSUME NEW node, NodeObject(node)
  PROVE  Listening(node) \in BOOLEAN /\ Routing(node) \in BOOLEAN
BY FlagField DEF FlagKey, Listening, Routing

LEMMA CapabilityBits ==
  ASSUME NEW node, NodeObject(node), SaidVersion(node) \in 0 .. 7
  PROVE  /\ 7 \in Capability(node) <=> Holds(Listening(node))
         /\ 6 \in Capability(node) <=> Holds(Routing(node))
         /\ 3 \in Capability(node) <=> 9600 \in Rates(node)
         /\ 4 \in Capability(node) <=> 40000 \in Rates(node)
         /\ Capability(node) \cap 0 .. 2 = Bits(SaidVersion(node))
<1> DEFINE version7 == SaidVersion(node)
           listens == Listening(node)
           routes == Routing(node)
           r1 == 9600 \in Rates(node)
           r2 == 40000 \in Rates(node)
<1>1. listens \in BOOLEAN /\ routes \in BOOLEAN
  BY ListeningField
<1>2. r1 \in BOOLEAN /\ r2 \in BOOLEAN
  OBVIOUS
<1>4. Capability(node) = If(listens, 7) \cup If(routes, 6) \cup If(r1, 3) \cup If(r2, 4)
                           \cup Bits(version7)
  BY DEF Capability, ListeningSupport, RoutingSupport, Baud9600, Baud40000, Listening, Routing,
         SaidVersion
<1>5. (Holds(r1) <=> 9600 \in Rates(node)) /\ (Holds(r2) <=> 40000 \in Rates(node))
  BY DEF Holds
<1>3. version7 \in 0 .. 7
  OBVIOUS
<1> HIDE DEF version7, listens, routes, r1, r2
<1>6. Bits(version7) \subseteq 0 .. 2
  BY <1>3, ThreeBits
<1>7. /\ \A x : x \in If(listens, 7) <=> (Holds(listens) /\ x = 7)
      /\ \A x : x \in If(routes, 6) <=> (Holds(routes) /\ x = 6)
      /\ \A x : x \in If(r1, 3) <=> (Holds(r1) /\ x = 3)
      /\ \A x : x \in If(r2, 4) <=> (Holds(r2) /\ x = 4)
  BY <1>1, <1>2, IfMember
<1>8. /\ 7 \in Capability(node) <=> Holds(listens)
      /\ 6 \in Capability(node) <=> Holds(routes)
      /\ 3 \in Capability(node) <=> Holds(r1)
      /\ 4 \in Capability(node) <=> Holds(r2)
      /\ Capability(node) \cap 0 .. 2 = Bits(version7)
  BY <1>4, <1>6, <1>7
<1> QED
  BY <1>5, <1>8 DEF version7, listens, routes

LEMMA CapabilityFlags ==
  ASSUME NEW node, NodeObject(node), SaidVersion(node) \in 0 .. 7
  PROVE  /\ Back(node).isListening = Listening(node)
         /\ Back(node).isRouting = Routing(node)
<1> DEFINE info == StoredNode(node)
           bits == Capability(node)
           listens == Listening(node)
           routes == Routing(node)
<1>1. info.capability = bits
  BY DEF StoredNode
<1>2. listens \in BOOLEAN /\ routes \in BOOLEAN
  BY ListeningField
<1>3. (7 \in bits <=> Holds(listens)) /\ (6 \in bits <=> Holds(routes))
  BY CapabilityBits
<1>4. Back(node) = ExportedNode(info)
  BY DEF Back
<1> HIDE DEF bits, listens, routes
<1>6. (7 \in bits) = listens /\ (6 \in bits) = routes
  BY <1>2, <1>3, Truth
<1> HIDE DEF info
<1>7. /\ ExportedNode(info).isListening = (7 \in info.capability)
      /\ ExportedNode(info).isRouting = (6 \in info.capability)
  BY DEF ExportedNode, ListeningSupport, RoutingSupport
<1> QED
  BY <1>1, <1>4, <1>6, <1>7, Zenon DEF listens, routes

LEMMA CapabilityVersion ==
  ASSUME NEW node, NodeObject(node), SaidVersion(node) \in 0 .. 7
  PROVE  Back(node).protocolVersion = SaidVersion(node)
<1> DEFINE info == StoredNode(node)
<1>1. info.capability = Capability(node)
  BY DEF StoredNode
<1>2. Capability(node) \cap 0 .. 2 = Bits(SaidVersion(node))
  BY CapabilityBits
<1>3. Back(node) = ExportedNode(info)
  BY DEF Back
<1> HIDE DEF info
<1>4. ExportedNode(info).protocolVersion = LowValue(info.capability)
  BY DEF ExportedNode
<1>5. LowValue(Capability(node)) = SaidVersion(node)
  BY <1>2, ThreeBitsValue
<1> QED
  BY <1>1, <1>3, <1>4, <1>5

LEMMA CapabilityRates ==
  ASSUME NEW node, NodeObject(node), SaidVersion(node) \in 0 .. 7
  PROVE  Back(node).supportedDataRates = ListFor(Rates(node))
<1> DEFINE info == StoredNode(node)
           x == Rate(3 \in info.capability, 9600)
           y == Rate(4 \in info.capability, 40000)
           z == Rate(0 \in info.reserved, 100000)
<1>1. /\ 3 \in info.capability <=> 9600 \in Rates(node)
      /\ 4 \in info.capability <=> 40000 \in Rates(node)
      /\ 0 \in info.reserved <=> 100000 \in Rates(node)
  <2>1. info.capability = Capability(node) /\ info.reserved = Reserved(node)
    BY DEF StoredNode
  <2>2. 0 \in Reserved(node) <=> 100000 \in Rates(node)
    BY DEF Reserved, If, Baud100K
  <2>3. 3 \in Capability(node) <=> 9600 \in Rates(node)
    BY CapabilityBits
  <2>4. 4 \in Capability(node) <=> 40000 \in Rates(node)
    BY CapabilityBits
  <2> HIDE DEF info
  <2> QED
    BY <2>1, <2>2, <2>3, <2>4
<1>2. Back(node) = ExportedNode(info)
  BY DEF Back
<1> HIDE DEF info
<1>3. /\ x = RateIn(Rates(node), 9600)
      /\ y = RateIn(Rates(node), 40000)
      /\ z = RateIn(Rates(node), 100000)
  BY <1>1 DEF Rate, RateIn
<1>4. ExportedNode(info).supportedDataRates = x \o y \o z
  BY DEF ExportedNode, Baud9600, Baud40000, Baud100K
<1> HIDE DEF x, y, z
<1> QED
  BY <1>2, <1>3, <1>4 DEF ListFor

NodeKey == FlagKey \cup NumberKey \cup {"isFrequentListening", "supportedDataRates"}

LEMMA BackFlags ==
  ASSUME NEW node
  PROVE  /\ Back(node).isListening \in BOOLEAN /\ Back(node).isRouting \in BOOLEAN
         /\ Back(node).optionalFunctionality \in BOOLEAN
         /\ Back(node).supportsSecurity \in BOOLEAN
         /\ Back(node).supportsBeaming \in BOOLEAN
<1> DEFINE info == StoredNode(node)
<1>1. Back(node) = ExportedNode(info)
  BY DEF Back
<1> HIDE DEF info
<1>2. /\ ExportedNode(info).isListening = (ListeningSupport \in info.capability)
      /\ ExportedNode(info).isRouting = (RoutingSupport \in info.capability)
      /\ ExportedNode(info).optionalFunctionality = (OptionalFunc \in info.security)
      /\ ExportedNode(info).supportsSecurity = (SecuritySupport \in info.security)
      /\ ExportedNode(info).supportsBeaming = (BeamCapability \in info.security)
  BY DEF ExportedNode
<1> QED
  BY <1>1, <1>2

LEMMA BackVersionAndRates ==
  ASSUME NEW node
  PROVE  /\ Back(node).protocolVersion \in 0 .. 7
         /\ \E S : Back(node).supportedDataRates = ListFor(S)
<1> DEFINE info == StoredNode(node)
           S == {r \in Known : \/ r = 9600 /\ 3 \in info.capability
                               \/ r = 40000 /\ 4 \in info.capability
                               \/ r = 100000 /\ 0 \in info.reserved}
           x == Rate(3 \in info.capability, 9600)
           y == Rate(4 \in info.capability, 40000)
           z == Rate(0 \in info.reserved, 100000)
<1>1. Back(node) = ExportedNode(info)
  BY DEF Back
<1> HIDE DEF info
<1>2. /\ ExportedNode(info).protocolVersion = LowValue(info.capability)
      /\ ExportedNode(info).supportedDataRates = x \o y \o z
  BY DEF ExportedNode, Baud9600, Baud40000, Baud100K
<1>3. /\ 3 \in info.capability <=> 9600 \in S
      /\ 4 \in info.capability <=> 40000 \in S
      /\ 0 \in info.reserved <=> 100000 \in S
  BY DEF Known
<1> HIDE DEF S
<1>4. x = RateIn(S, 9600) /\ y = RateIn(S, 40000) /\ z = RateIn(S, 100000)
  BY <1>3 DEF Rate, RateIn
<1> HIDE DEF x, y, z
<1>5. Back(node).supportedDataRates = ListFor(S)
  BY <1>1, <1>2, <1>4 DEF ListFor
<1> QED
  BY <1>1, <1>2, <1>5, LowValueRange

(* Whatever the node was, what comes back is a node within the ranges.     *)
LEMMA BackIsNode ==
  ASSUME NEW node, NodeObject(node)
  PROVE  /\ DOMAIN Back(node) = NodeKey
         /\ NodeObject(Back(node)) /\ InNodeRange(Back(node))
         /\ Back(node).isFrequentListening # "250ms"
         /\ \E S : Back(node).supportedDataRates = ListFor(S)
<1> DEFINE m == Back(node)
<1>1. DOMAIN m = NodeKey
  BY DEF Back, ExportedNode, NodeKey, FlagKey, NumberKey
<1>2. /\ m.isListening \in BOOLEAN /\ m.isRouting \in BOOLEAN
      /\ m.optionalFunctionality \in BOOLEAN /\ m.supportsSecurity \in BOOLEAN
      /\ m.supportsBeaming \in BOOLEAN
  BY BackFlags
<1>3. /\ m.protocolVersion \in 0 .. 7
      /\ \E S : m.supportedDataRates = ListFor(S)
  BY BackVersionAndRates
<1>4. m.isFrequentListening \in {"none", "1000ms"}
  BY SecurityPeriod
<1>5. /\ KeyOr(node, "genericDeviceClass", 0) \in Int
      /\ KeyOr(node, "specificDeviceClass", 0) \in Int
  BY NumberField DEF NumberKey
<1>6. /\ m.nodeType \in 0 .. 1
      /\ m.genericDeviceClass \in 0 .. 255 /\ m.specificDeviceClass \in 0 .. 255
  BY <1>5, SecurityNumbers
<1> HIDE DEF m
<1>7. m.supportedDataRates \in Seq(Int) /\ Len(m.supportedDataRates) <= 3
  BY <1>3, RatesListed
<1>8. /\ \A key \in FlagKey : m[key] \in BOOLEAN
      /\ \A key \in NumberKey : m[key] \in Int
      /\ m.isFrequentListening \in Period
  <2>1. \A key \in FlagKey : m[key] \in BOOLEAN
    BY <1>2 DEF FlagKey
  <2>2. \A key \in NumberKey : m[key] \in Int
    BY <1>3, <1>6 DEF NumberKey
  <2> QED
    BY <1>4, <2>1, <2>2 DEF Period
<1>9. NodeObject(m)
  BY <1>1, <1>7, <1>8 DEF NodeObject, NodeKey
<1>10. InNodeRange(m)
  BY <1>3, <1>6, <1>7 DEF InNodeRange
<1> QED
  BY <1>1, <1>3, <1>4, <1>9, <1>10 DEF m

LEMMA RatesOfList ==
  ASSUME NEW node, NodeObject(node), InNodeRange(node),
         "supportedDataRates" \in DOMAIN node
  PROVE  Rates(node) = Range(node.supportedDataRates)
<1> DEFINE list == node.supportedDataRates
<1>1. /\ list \in Seq(Int) /\ Len(list) <= 3
      /\ KeyOr(node, "supportedDataRates", <<>>) = list
  BY DEF NodeObject, InNodeRange, KeyOr
<1> HIDE DEF list
<1>2. DOMAIN list = 1 .. Len(list) /\ Len(list) \in Nat
  BY <1>1, LenProperties
<1>3. DOMAIN list \cap 1 .. 3 = DOMAIN list
  BY <1>1, <1>2
<1>4. Rates(node) = {list[i] : i \in DOMAIN list}
  BY <1>1, <1>3 DEF Rates
<1> QED
  BY <1>4 DEF Range, list

LEMMA ExportedIsFunction ==
  ASSUME NEW info
  PROVE  ExportedNode(info) = [key \in NodeKey |-> ExportedNode(info)[key]]
<1> DEFINE node == ExportedNode(info)
           listens == ListeningSupport \in info.capability
           period ==
             IF info.security \cap {Wakeup250, Wakeup1000} = {Wakeup250} THEN "250ms"
             ELSE IF info.security \cap {Wakeup250, Wakeup1000} = {Wakeup1000} THEN "1000ms"
             ELSE "none"
           routes == RoutingSupport \in info.capability
           rates ==
             Rate(Baud9600 \in info.capability, 9600)
               \o Rate(Baud40000 \in info.capability, 40000)
               \o Rate(Baud100K \in info.reserved, 100000)
           version7 == LowValue(info.capability)
           functions == OptionalFunc \in info.security
           type ==
             IF info.security \cap {ControllerNode, SlaveRouting} = {SlaveRouting} THEN 1 ELSE 0
           secure == SecuritySupport \in info.security
           beams == BeamCapability \in info.security
<1>1. node = [isListening |-> listens, isFrequentListening |-> period, isRouting |-> routes,
              supportedDataRates |-> rates, protocolVersion |-> version7,
              optionalFunctionality |-> functions, nodeType |-> type,
              supportsSecurity |-> secure, supportsBeaming |-> beams,
              genericDeviceClass |-> info.generic, specificDeviceClass |-> info.specific]
  BY DEF ExportedNode
<1> HIDE DEF node, listens, period, routes, rates, version7, functions, type, secure, beams
<1>2. node = [key \in NodeKey |-> node[key]]
  BY <1>1 DEF NodeKey, FlagKey, NumberKey
<1> QED
  BY <1>2 DEF node

(* What the exporter says of two images is the same if each key is.        *)
LEMMA SameNode ==
  ASSUME NEW x, NEW y,
         \A key \in NodeKey : ExportedNode(x)[key] = ExportedNode(y)[key]
  PROVE  ExportedNode(x) = ExportedNode(y)
<1>1. /\ ExportedNode(x) = [key \in NodeKey |-> ExportedNode(x)[key]]
      /\ ExportedNode(y) = [key \in NodeKey |-> ExportedNode(y)[key]]
  BY ExportedIsFunction
<1> QED
  BY <1>1

(* A second trip changes nothing.                                          *)
LEMMA BackAgain ==
  ASSUME NEW node, NodeObject(node)
  PROVE  Back(Back(node)) = Back(node)
<1> DEFINE m == Back(node)
<1>1. /\ DOMAIN m = NodeKey /\ NodeObject(m) /\ InNodeRange(m)
      /\ m.isFrequentListening # "250ms"
      /\ \E S : m.supportedDataRates = ListFor(S)
  BY BackIsNode
<1>2. Back(m) = ExportedNode(StoredNode(m)) /\ m = ExportedNode(StoredNode(node))
  BY DEF Back
<1> HIDE DEF m
<1>4. SaidVersion(m) \in 0 .. 7 /\ SaidVersion(m) = m.protocolVersion
  BY <1>1 DEF KeyOr, SaidVersion, InNodeRange, NodeKey, NumberKey
<1>5. Back(m).supportedDataRates = m.supportedDataRates
  <2> PICK S : m.supportedDataRates = ListFor(S)
    BY <1>1
  <2>1. "supportedDataRates" \in DOMAIN m
    BY <1>1 DEF NodeKey
  <2>2. Rates(m) = S \cap Known
    BY <1>1, <2>1, RatesOfList, RatesListed
  <2>3. ListFor(Rates(m)) = ListFor(S)
    <3>1. Rates(m) \cap Known = S \cap Known
      BY <2>2
    <3> QED
      BY <3>1, SameList
  <2>4. Back(m).supportedDataRates = ListFor(Rates(m))
    BY <1>1, <1>4, CapabilityRates
  <2> QED
    BY <2>3, <2>4
<1>6. /\ Back(m).isListening = m.isListening /\ Back(m).isRouting = m.isRouting
  <2>1. Listening(m) = m.isListening /\ Routing(m) = m.isRouting
    BY <1>1 DEF KeyOr, Listening, Routing, NodeKey, FlagKey
  <2> QED
    BY <1>1, <1>4, <2>1, CapabilityFlags, Zenon
<1>7. /\ Back(m).optionalFunctionality = m.optionalFunctionality
      /\ Back(m).supportsSecurity = m.supportsSecurity
      /\ Back(m).supportsBeaming = m.supportsBeaming
  <2>1. /\ KeyOr(m, "optionalFunctionality", FALSE) = m.optionalFunctionality
        /\ KeyOr(m, "supportsSecurity", TRUE) = m.supportsSecurity
        /\ KeyOr(m, "supportsBeaming", TRUE) = m.supportsBeaming
    BY <1>1 DEF KeyOr, NodeKey, FlagKey
  <2> QED
    BY <1>1, <2>1, SecurityFlags, Zenon
<1>8. /\ KeyOr(m, "nodeType", 0) = m.nodeType
      /\ KeyOr(m, "genericDeviceClass", 0) = m.genericDeviceClass
      /\ KeyOr(m, "specificDeviceClass", 0) = m.specificDeviceClass
  BY <1>1 DEF KeyOr, NodeKey, NumberKey
<1>9. /\ m.nodeType \in 0 .. 1
      /\ m.genericDeviceClass \in 0 .. 255 /\ m.specificDeviceClass \in 0 .. 255
  BY <1>1 DEF InNodeRange, NodeKey, NumberKey
<1>10. Back(m).protocolVersion = m.protocolVersion
  BY <1>1, <1>4, CapabilityVersion
<1>11. /\ Back(m).nodeType = m.nodeType
       /\ Back(m).genericDeviceClass = m.genericDeviceClass
       /\ Back(m).specificDeviceClass = m.specificDeviceClass
  BY <1>1, <1>8, <1>9, SecurityNumbers
<1>12. Back(m).isFrequentListening = m.isFrequentListening
  <2>1. KeyOr(m, "isFrequentListening", "none") = m.isFrequentListening
    BY <1>1 DEF KeyOr, NodeKey
  <2>2. m.isFrequentListening \in {"none", "1000ms"}
    BY <1>1 DEF NodeObject, NodeKey, Period
  <2> QED
    BY <1>1, <2>1, <2>2, SecurityPeriod
<1>13. \A key \in NodeKey : Back(m)[key] = m[key]
  BY <1>5, <1>6, <1>7, <1>10, <1>11, <1>12, Zenon DEF NodeKey, FlagKey, NumberKey
<1>14. \A key \in NodeKey : ExportedNode(StoredNode(m))[key] = ExportedNode(StoredNode(node))[key]
  BY <1>2, <1>13, Zenon
<1>15. ExportedNode(StoredNode(m)) = ExportedNode(StoredNode(node))
  BY <1>14, SameNode
<1> QED
  BY <1>2, <1>15, Zenon DEF m

(* What comes back of a node within the ranges is what was said of it.     *)
LEMMA NodeComesBack ==
  ASSUME NEW node, NodeObject(node), InNodeRange(node), NEW key \in DOMAIN node
  PROVE  CASE key = "supportedDataRates" ->
                /\ Range(Back(node)[key]) = Range(node[key]) \cap Known
                /\ \A i, j \in DOMAIN Back(node)[key] :
                     i < j => Back(node)[key][i] < Back(node)[key][j]
           [] key = "isFrequentListening" ->
                Back(node)[key] = (IF node[key] = "none" THEN "none" ELSE "1000ms")
           [] OTHER -> Back(node)[key] = node[key]
<1>1. SaidVersion(node) \in 0 .. 7
  BY DEF SaidVersion, InNodeRange, KeyOr
<1>2. CASE key = "supportedDataRates"
  <2> DEFINE list == Back(node).supportedDataRates
  <2>1. Rates(node) = Range(node[key])
    BY <1>2, RatesOfList
  <2>2. list = ListFor(Rates(node))
    BY <1>1, CapabilityRates
  <2> HIDE DEF list
  <2>3. /\ \A i, j \in DOMAIN list : i < j => list[i] < list[j]
        /\ Range(list) = Rates(node) \cap Known
    BY <2>2, RatesListed
  <2> QED
    BY <1>2, <2>1, <2>3 DEF list
<1>3. CASE key = "isFrequentListening"
  <2>1. KeyOr(node, "isFrequentListening", "none") = node[key]
    BY <1>3 DEF KeyOr
  <2>2. Back(node)[key] = (IF node[key] = "none" THEN "none" ELSE "1000ms")
    BY <1>3, <2>1, SecurityPeriod
  <2> QED
    BY <1>3, <2>2
<1>4. CASE key \in FlagKey
  <2>1. KeyOr(node, key, TRUE) = node[key] /\ KeyOr(node, key, FALSE) = node[key]
    BY DEF KeyOr
  <2>2. /\ key = "isListening" => Listening(node) = node[key]
        /\ key = "isRouting" => Routing(node) = node[key]
    BY DEF KeyOr, Listening, Routing
  <2>3. key \in {"isListening", "isRouting"} => Back(node)[key] = node[key]
    BY <1>1, <2>2, CapabilityFlags
  <2>4. key \notin {"isListening", "isRouting"} => Back(node)[key] = node[key]
    BY <1>4, <2>1, SecurityFlags DEF FlagKey
  <2>5. Back(node)[key] = node[key]
    BY <2>3, <2>4
  <2> QED
    BY <1>4, <2>5, Zenon DEF FlagKey
<1>5. CASE key \in NumberKey
  <2>1. \A default \in Int : KeyOr(node, key, default) = node[key]
    BY DEF KeyOr
  <2>2. /\ key = "nodeType" => node[key] \in 0 .. 1
        /\ key \in {"genericDeviceClass", "specificDeviceClass"} => node[key] \in 0 .. 255
    BY DEF InNodeRange
  <2>3. ASSUME key = "protocolVersion"
        PROVE  Back(node)[key] = node[key]
    BY <1>1, <2>3, CapabilityVersion DEF SaidVersion, KeyOr
  <2>4. ASSUME key # "protocolVersion"
        PROVE  Back(node)[key] = node[key]
    BY <1>5, <2>1, <2>2, <2>4, SecurityNumbers DEF NumberKey
  <2>5. Back(node)[key] = node[key]
    BY <2>3, <2>4
  <2> QED
    BY <1>5, <2>5, Zenon DEF NumberKey
<1>6. key \in FlagKey \cup NumberKey \cup {"isFrequentListening", "supportedDataRates"}
  BY DEF NodeObject
<1> QED
  BY <1>2, <1>3, <1>4, <1>5, <1>6, Zenon

(* ------------------------------- a route ------------------------------- *)

RouteBack(line) == ExportedRoute(StoredRoute(line))

SaidBeaming(line) == KeyOr(line, "beaming", "none")
SaidRate(line) == KeyOr(line, "protocolRate", 0)

LEMMA RouteFields ==
  ASSUME NEW line, RouteObject(line)
  PROVE  SaidBeaming(line) \in Period /\ SaidRate(line) \in Int
<1>1. SaidBeaming(line) \in Period
  BY DEF RouteObject, SaidBeaming, KeyOr, Period
<1>2. SaidRate(line) \in Int
  BY DEF RouteObject, SaidRate, KeyOr
<1> QED
  BY <1>1, <1>2

(* What is exported has a rate of two bits, and a period or none.          *)
RouteOut(line) ==
  \E rate \in 0 .. 3 :
    \/ line = [protocolRate |-> rate]
    \/ \E period \in Period : line = [beaming |-> period, protocolRate |-> rate]

LEMMA ExportedRouteIsOut == \A bits : RouteOut(ExportedRoute(bits))
<1> TAKE bits
<1> DEFINE beam == bits \cap {Beam250, Beam1000}
<1>1. RateValue(bits) \in 0 .. 3
  BY DEF RateValue
<1>2. CASE beam = {}
  BY <1>1, <1>2, Zenon DEF ExportedRoute, RouteOut, Period
<1>3. CASE beam = {Beam250}
  <2>1. beam # {} /\ beam # {Beam1000}
    BY <1>3 DEF Beam250, Beam1000
  <2>2. ExportedRoute(bits) = [beaming |-> "250ms", protocolRate |-> RateValue(bits)]
    BY <1>3, <2>1 DEF ExportedRoute
  <2> QED
    BY <1>1, <2>2 DEF RouteOut, Period
<1>4. CASE beam = {Beam1000}
  <2>1. beam # {} /\ beam # {Beam250}
    BY <1>4 DEF Beam250, Beam1000
  <2>2. ExportedRoute(bits) = [beaming |-> "1000ms", protocolRate |-> RateValue(bits)]
    BY <1>4, <2>1 DEF ExportedRoute
  <2> QED
    BY <1>1, <2>2 DEF RouteOut, Period
<1>5. CASE beam # {} /\ beam # {Beam250} /\ beam # {Beam1000}
  <2>1. ExportedRoute(bits) = [protocolRate |-> RateValue(bits)]
    BY <1>5 DEF ExportedRoute
  <2> QED
    BY <1>1, <2>1 DEF RouteOut
<1> QED
  BY <1>2, <1>3, <1>4, <1>5

LEMMA RouteOutIsRoute ==
  ASSUME NEW line, RouteOut(line)
  PROVE  RouteObject(line) /\ SaidRate(line) \in 0 .. 3 /\ "protocolRate" \in DOMAIN line
<1> PICK rate \in 0 .. 3 :
      \/ line = [protocolRate |-> rate]
      \/ \E period \in Period : line = [beaming |-> period, protocolRate |-> rate]
  BY DEF RouteOut
<1>1. CASE line = [protocolRate |-> rate]
  <2>1. DOMAIN line = {"protocolRate"} /\ line.protocolRate = rate
    BY <1>1
  <2> QED
    BY <2>1 DEF RouteObject, SaidRate, KeyOr
<1>2. ASSUME NEW period \in Period, line = [beaming |-> period, protocolRate |-> rate]
      PROVE  RouteObject(line) /\ SaidRate(line) \in 0 .. 3 /\ "protocolRate" \in DOMAIN line
  <2>1. DOMAIN line = {"beaming", "protocolRate"} /\ line.protocolRate = rate
        /\ line.beaming = period
    BY <1>2
  <2> QED
    BY <2>1 DEF RouteObject, SaidRate, KeyOr
<1> QED
  BY <1>1, <1>2

(* A rate within its bits comes back, and the period with it.              *)
LEMMA RouteComesBack ==
  ASSUME NEW line, RouteObject(line), SaidRate(line) \in 0 .. 3
  PROVE  RouteBack(line) = [beaming |-> SaidBeaming(line), protocolRate |-> SaidRate(line)]
<1> DEFINE rate == SaidRate(line)
           period == SaidBeaming(line)
           beams == CASE period = "none" -> {}
                      [] period = "250ms" -> {Beam250}
                      [] OTHER -> {Beam1000}
           bits == StoredRoute(line)
<1>1. bits = beams \cup Bits(rate)
  BY Zenon DEF StoredRoute, SaidBeaming, SaidRate
<1>2. period \in Period
  BY RouteFields
<1>3. rate \in 0 .. 3
  OBVIOUS
<1>4. RouteBack(line) = ExportedRoute(bits)
  BY DEF RouteBack
<1> HIDE DEF rate, period, bits
<1>5. /\ period = "none" => beams = {}
      /\ period = "250ms" => beams = {5}
      /\ period = "1000ms" => beams = {6}
  BY DEF Beam250, Beam1000
<1> HIDE DEF beams
<1>6. /\ Bits(rate) \subseteq 0 .. 2
      /\ 0 \in Bits(rate) <=> rate % 2 = 1
      /\ 1 \in Bits(rate) <=> (rate \div 2) % 2 = 1
  <2>1. rate \in 0 .. 7
    BY <1>3
  <2> QED
    BY <2>1, ThreeBits
<1>7. beams \subseteq {5, 6}
  BY <1>2, <1>5 DEF Period
<1>8. /\ 0 \in bits <=> rate % 2 = 1
      /\ 1 \in bits <=> (rate \div 2) % 2 = 1
  BY <1>1, <1>6, <1>7
<1>9. RateValue(bits) = rate
  BY <1>3, <1>8 DEF RateValue
<1>10. bits \cap {Beam250, Beam1000} = beams
  <2>1. 5 \notin Bits(rate) /\ 6 \notin Bits(rate)
    BY <1>6
  <2> QED
    BY <1>1, <1>7, <2>1 DEF Beam250, Beam1000
<1>11. CASE period = "none"
  <2>1. beams = {}
    BY <1>5, <1>11
  <2>2. ExportedRoute(bits) = [beaming |-> "none", protocolRate |-> RateValue(bits)]
    BY <1>10, <2>1, Zenon DEF ExportedRoute
  <2> QED
    BY <1>4, <1>9, <1>11, <2>2 DEF rate, period
<1>12. CASE period = "250ms"
  <2>1. beams = {Beam250} /\ beams # {} /\ beams # {Beam1000}
    BY <1>5, <1>12 DEF Beam250, Beam1000
  <2>2. ExportedRoute(bits) = [beaming |-> "250ms", protocolRate |-> RateValue(bits)]
    BY <1>10, <2>1 DEF ExportedRoute
  <2> QED
    BY <1>4, <1>9, <1>12, <2>2 DEF rate, period
<1>13. CASE period = "1000ms"
  <2>1. beams = {Beam1000} /\ beams # {} /\ beams # {Beam250}
    BY <1>5, <1>13 DEF Beam250, Beam1000
  <2>2. ExportedRoute(bits) = [beaming |-> "1000ms", protocolRate |-> RateValue(bits)]
    BY <1>10, <2>1 DEF ExportedRoute
  <2> QED
    BY <1>4, <1>9, <1>13, <2>2 DEF rate, period
<1> QED
  BY <1>2, <1>11, <1>12, <1>13 DEF Period

(* A line that was exported comes back with a period, and with its own if  *)
(* it has one.                                                             *)
LEMMA RouteBackAgain ==
  ASSUME NEW line, RouteOut(line)
  PROVE  /\ "beaming" \in DOMAIN RouteBack(line)
         /\ "beaming" \in DOMAIN line => RouteBack(line) = line
<1>1. RouteBack(line) = [beaming |-> SaidBeaming(line), protocolRate |-> SaidRate(line)]
  BY RouteOutIsRoute, RouteComesBack
<1>2. ASSUME "beaming" \in DOMAIN line
      PROVE  RouteBack(line) = line
  <2> PICK rate \in 0 .. 3 :
        \/ line = [protocolRate |-> rate]
        \/ \E period \in Period : line = [beaming |-> period, protocolRate |-> rate]
    BY DEF RouteOut
  <2>1. line # [protocolRate |-> rate]
    BY <1>2
  <2> PICK period \in Period : line = [beaming |-> period, protocolRate |-> rate]
    BY <2>1
  <2>2. SaidBeaming(line) = period /\ SaidRate(line) = rate
    BY DEF SaidBeaming, SaidRate, KeyOr
  <2> QED
    BY <1>1, <2>2
<1> QED
  BY <1>1, <1>2

(* --------------------------- names of outputs -------------------------- *)

InputName(name) ==
  /\ name = Name(name.stem, name.upgraded, name.ext)
  /\ name.stem \in Stem /\ name.upgraded \in Nat /\ name.ext \in Extension

LEMMA Modes ==
  ASSUME NEW mode \in ModeOption
  PROVE  /\ ReadExtension(mode) \in {".bin", ".json"}
         /\ WrittenExtension(mode) \in {".bin", ".json"}
         /\ AddsUpgraded(mode) <=> ReadExtension(mode) = WrittenExtension(mode)
BY DEF ModeOption, ReadExtension, WrittenExtension, AddsUpgraded

LEMMA LengthOfName ==
  ASSUME NEW stem \in Stem, NEW upgraded \in Nat
  PROVE  /\ StemLength[stem] \in Nat
         /\ LengthOf(Name(stem, upgraded, ".bin")) = StemLength[stem] + 9 * upgraded + 4
         /\ LengthOf(Name(stem, upgraded, ".json")) = StemLength[stem] + 9 * upgraded + 5
<1>1. StemLength[stem] \in Nat
  BY NamesAssumption
<1> QED
  BY <1>1 DEF LengthOf, Name

(* Cutting a name changes nothing but what is cut.                         *)
LEMMA ShortenedName ==
  ASSUME NEW stem, NEW upgraded, NEW ext
  PROVE  /\ Shortened(Name(stem, upgraded, ext)).stem = stem
         /\ Shortened(Name(stem, upgraded, ext)).upgraded = upgraded
         /\ Shortened(Name(stem, upgraded, ext)).ext = ext
         /\ LengthOf(Name(stem, upgraded, ext)) < NameSize =>
              Shortened(Name(stem, upgraded, ext)) = Name(stem, upgraded, ext)
BY DEF Shortened, Name

LEMMA LongNameIsCut ==
  ASSUME NEW stem \in Stem, NEW upgraded \in Nat, NEW ext \in {".bin", ".json"},
         ~(LengthOf(Name(stem, upgraded, ext)) < NameSize)
  PROVE  Shortened(Name(stem, upgraded, ext)).cut # 0
<1> DEFINE name == Name(stem, upgraded, ext)
<1>1. LengthOf(name) \in Int /\ NameSize \in Nat
  BY LengthOfName, NamesAssumption
<1>2. Shortened(name).cut = LengthOf(name) - (NameSize - 1)
  BY DEF Shortened, Name
<1> HIDE DEF name
<1> QED
  BY <1>1, <1>2 DEF name

LEMMA FoundName ==
  ASSUME NEW mode, NEW name, ExtensionFound(mode, name)
  PROVE  /\ OutputName(mode, name) =
              Shortened(Name(name.stem, name.upgraded + (IF AddsUpgraded(mode) THEN 1 ELSE 0),
                             WrittenExtension(mode)))
         /\ name.ext = ReadExtension(mode)
BY DEF OutputName, ExtensionFound

(* A name that is made from the input is another name.                     *)
LEMMA NotItsOwn ==
  ASSUME NEW mode \in ModeOption, NEW name, InputName(name), OutputName(mode, name) = name
  PROVE  name = DefaultName(mode)
<1>1. ASSUME ExtensionFound(mode, name)
      PROVE  FALSE
  <2> DEFINE more == name.upgraded + (IF AddsUpgraded(mode) THEN 1 ELSE 0)
  <2>1. name = Shortened(Name(name.stem, more, WrittenExtension(mode)))
        /\ name.ext = ReadExtension(mode)
    BY <1>1, FoundName
  <2>2. name.upgraded = more /\ name.ext = WrittenExtension(mode)
    <3> HIDE DEF more
    <3> QED
      BY <2>1, ShortenedName
  <2>3. AddsUpgraded(mode)
    BY <2>1, <2>2, Modes
  <2> QED
    BY <2>2, <2>3 DEF InputName
<1> QED
  BY <1>1 DEF OutputName

(* Names that are made from two inputs are two names.                      *)
LEMMA NotAnothers ==
  ASSUME NEW mode \in ModeOption, NEW one, InputName(one), NEW two, InputName(two),
         OutputName(mode, one) = OutputName(mode, two)
  PROVE  one = two \/ OutputName(mode, one) = DefaultName(mode)
<1>1. CASE ~ExtensionFound(mode, one)
  BY <1>1 DEF OutputName
<1>2. CASE ~ExtensionFound(mode, two)
  BY <1>2 DEF OutputName
<1>3. CASE ExtensionFound(mode, one) /\ ExtensionFound(mode, two)
  <2> DEFINE k == IF AddsUpgraded(mode) THEN 1 ELSE 0
             x == Name(one.stem, one.upgraded + k, WrittenExtension(mode))
             y == Name(two.stem, two.upgraded + k, WrittenExtension(mode))
  <2>1. /\ OutputName(mode, one) = Shortened(x) /\ one.ext = ReadExtension(mode)
        /\ OutputName(mode, two) = Shortened(y) /\ two.ext = ReadExtension(mode)
    BY <1>3, FoundName
  <2>2. k \in Int
    OBVIOUS
  <2> HIDE DEF k
  <2>3. /\ Shortened(x).stem = one.stem /\ Shortened(x).upgraded = one.upgraded + k
        /\ Shortened(y).stem = two.stem /\ Shortened(y).upgraded = two.upgraded + k
    BY ShortenedName
  <2> HIDE DEF x, y
  <2>4. one.stem = two.stem /\ one.upgraded + k = two.upgraded + k
    BY <2>1, <2>3
  <2>5. one.upgraded \in Int /\ two.upgraded \in Int
    BY DEF InputName
  <2>6. \A a, b, c \in Int : a + c = b + c => a = b
    OBVIOUS
  <2>7. one.upgraded = two.upgraded
    BY <2>2, <2>4, <2>5, <2>6
  <2> QED
    BY <2>1, <2>4, <2>7 DEF InputName
<1> QED
  BY <1>1, <1>2, <1>3

(* Exporting, upgrading and importing in turn, against the migration.      *)
LEMMA StepwiseNames ==
  ASSUME NEW name, InputName(name), name.ext = ".bin", name.stem # "output",
         LengthOf(name) \in 5 .. NameSize - 1
  PROVE  LET exported == OutputName("-e", name)
             upgraded == OutputName("-u", exported)
             fits == LengthOf(name) + 10 < NameSize
         IN  /\ OutputName("-i", upgraded) = OutputName("-m", name) <=> fits
             /\ fits => OutputName("-i", exported) = name
<1> DEFINE s == name.stem
           u == name.upgraded
           length == LengthOf(name)
           e == Name(s, u, ".json")
           up == Name(s, u + 1, ".json")
           m == Name(s, u + 1, ".bin")
           fits == length + 10 < NameSize
<1>1. /\ s \in Stem /\ u \in Nat /\ u + 1 \in Nat /\ name = Name(s, u, ".bin") /\ s # "output"
      /\ NameSize \in Nat
  BY NamesAssumption DEF InputName
<1>2. length = StemLength[s] + 9 * u + 4 /\ StemLength[s] \in Nat
  BY <1>1, LengthOfName
<1>3. /\ LengthOf(e) = length + 1 /\ LengthOf(up) = length + 10 /\ LengthOf(m) = length + 9
  <2>1. /\ LengthOf(e) = StemLength[s] + 9 * u + 5
        /\ LengthOf(up) = StemLength[s] + 9 * (u + 1) + 5
        /\ LengthOf(m) = StemLength[s] + 9 * (u + 1) + 4
    BY <1>1, LengthOfName
  <2> QED
    BY <1>1, <1>2, <2>1
<1>4. length \in 5 .. NameSize - 1
  OBVIOUS
<1>5. name.ext = ".bin" /\ name.cut = 0
  BY DEF InputName, Name
<1>6. /\ e.stem = s /\ e.upgraded = u /\ e.ext = ".json" /\ e.cut = 0
      /\ up.stem = s /\ up.upgraded = u + 1 /\ up.ext = ".json" /\ up.cut = 0
      /\ m.stem = s
  BY DEF Name
<1>7. OutputName("-e", name) = Shortened(e) /\ OutputName("-m", name) = Shortened(m)
  <2>1. ExtensionFound("-e", name) /\ ExtensionFound("-m", name)
    BY <1>1, <1>4, <1>5 DEF ExtensionFound, ReadExtension, Least
  <2>2. /\ OutputName("-e", name) = Shortened(Name(s, u + 0, ".json"))
        /\ OutputName("-m", name) = Shortened(m)
    BY <2>1, FoundName DEF AddsUpgraded, WrittenExtension
  <2>3. u + 0 = u
    BY <1>1
  <2> QED
    BY <2>2, <2>3
<1>8. Shortened(m).stem # "output"
  BY <1>1, ShortenedName
<1> HIDE DEF s, u, length, e, up, m
<1>9. ASSUME fits
      PROVE  /\ OutputName("-i", OutputName("-u", OutputName("-e", name))) = OutputName("-m", name)
             /\ OutputName("-i", OutputName("-e", name)) = name
  <2>1. Shortened(e) = e /\ Shortened(up) = up /\ Shortened(m) = m
    BY <1>1, <1>3, <1>4, <1>9, ShortenedName DEF e, up, m
  <2>2. ExtensionFound("-u", e) /\ ExtensionFound("-i", e) /\ ExtensionFound("-i", up)
    BY <1>1, <1>3, <1>4, <1>6, <1>9 DEF ExtensionFound, ReadExtension, Least
  <2>3. /\ OutputName("-u", e) = Shortened(Name(s, u + 1, ".json"))
        /\ OutputName("-i", e) = Shortened(Name(s, u + 0, ".bin"))
        /\ OutputName("-i", up) = Shortened(Name(s, u + 1 + 0, ".bin"))
    BY <1>6, <2>2, FoundName DEF AddsUpgraded, WrittenExtension
  <2>4. u + 0 = u /\ u + 1 + 0 = u + 1
    BY <1>1
  <2>5. Shortened(name) = name
    BY <1>1, <1>4, ShortenedName DEF length
  <2>6. /\ OutputName("-u", e) = Shortened(up)
        /\ OutputName("-i", e) = Shortened(name)
        /\ OutputName("-i", up) = Shortened(m)
    BY <1>1, <2>3, <2>4 DEF up, m
  <2> QED
    BY <1>7, <2>1, <2>5, <2>6
<1>10. ASSUME ~fits
       PROVE  OutputName("-i", OutputName("-u", OutputName("-e", name))).stem = "output"
  <2>1. DefaultName("-i").stem = "output" /\ DefaultName("-u").stem = "output"
    BY DEF DefaultName, Name
  <2>2. ASSUME NEW from, from.stem = "output"
        PROVE  OutputName("-i", from).stem = "output"
    <3>1. CASE ExtensionFound("-i", from)
      BY <2>2, <3>1, FoundName, ShortenedName
    <3>2. CASE ~ExtensionFound("-i", from)
      BY <2>1, <3>2 DEF OutputName
    <3> QED
      BY <3>1, <3>2
  <2>3. CASE length + 1 < NameSize
    <3>1. Shortened(e) = e
      BY <1>3, <2>3, ShortenedName DEF e
    <3>2. ExtensionFound("-u", e)
      BY <1>1, <1>3, <1>4, <1>6, <2>3 DEF ExtensionFound, ReadExtension, Least
    <3>3. OutputName("-u", e) = Shortened(up)
      BY <1>6, <3>2, FoundName DEF AddsUpgraded, WrittenExtension, up
    <3>4. Shortened(up).cut # 0
      BY <1>1, <1>3, <1>10, LongNameIsCut DEF up
    <3>5. ~ExtensionFound("-i", Shortened(up))
      BY <3>4 DEF ExtensionFound
    <3>6. OutputName("-i", Shortened(up)) = DefaultName("-i")
      BY <3>5 DEF OutputName
    <3> QED
      BY <1>7, <2>1, <3>1, <3>3, <3>6
  <2>4. CASE ~(length + 1 < NameSize)
    <3>1. Shortened(e).cut # 0
      BY <1>1, <1>3, <2>4, LongNameIsCut DEF e
    <3>2. ~ExtensionFound("-u", Shortened(e))
      BY <3>1 DEF ExtensionFound
    <3>3. OutputName("-u", Shortened(e)) = DefaultName("-u")
      BY <3>2 DEF OutputName
    <3> QED
      BY <1>7, <2>1, <2>2, <3>3
  <2> QED
    BY <2>3, <2>4
<1>11. ~fits => OutputName("-i", OutputName("-u", OutputName("-e", name))) # OutputName("-m", name)
  BY <1>7, <1>8, <1>10 DEF m
<1> QED
  BY <1>9, <1>11 DEF length

(***************************************************************************)
(* The machine of Values                                                   *)
(***************************************************************************)

(* What the properties need of a state: a node or a route that made a trip *)
(* is one that was exported, a route after two trips has a period, and     *)
(* what is stored and what is back was made of what was given.             *)
NodeInv ==
  kind = "node" =>
    /\ NodeObject(given)
    /\ rounds > 0 => \E node : NodeObject(node) /\ given = Back(node)
    /\ stage = "stored" => stored = StoredNode(given)
    /\ stage = "back" => back = Back(given)

RouteInv ==
  kind = "route" =>
    /\ RouteObject(given)
    /\ rounds > 0 => RouteOut(given)
    /\ rounds > 1 => "beaming" \in DOMAIN given
    /\ stage = "stored" => stored = StoredRoute(given)
    /\ stage = "back" => back = RouteBack(given)

NamesFor(pair) ==
  [of |-> [mode \in ModeOption |->
             <<OutputName(mode, pair[1]), OutputName(mode, pair[2])>>],
   stepwise |-> OutputName("-i", OutputName("-u", OutputName("-e", pair[1])))]

NamesInv ==
  kind = "names" =>
    /\ given \in Names \X Names
    /\ stage = "stored" => stored = NamesFor(given)

TextOf(value) == base64_encode(value.bytes, value.max_line_len)

TextInv ==
  kind = "text" =>
    /\ given \in [bytes : ByteStrings, max_line_len : LineLengths]
    /\ stage = "stored" => stored = TextOf(given)
    /\ stage = "back" => back = base64_decode(TextOf(given))

HexOf(input) == bin2hex(input.bytes, input.start, input.readable, input.ferror)

HexInv ==
  kind = "hex" =>
    /\ given \in HexInputs
    /\ stage \in {"stored", "back"} => stored = HexOf(given)
    /\ stage = "back" => back = ReadHex(HexOf(given).rows)

ArgumentsInv ==
  /\ kind = "usage" =>
       /\ given \in UsageLines
       /\ stage = "stored" => stored = parse_main_args(given.line)
  /\ kind = "line" =>
       /\ given \in Lines
       /\ stage = "stored" => stored = parse_main_args(given)

ValuesInv ==
  /\ rounds \in Nat
  /\ NodeInv /\ RouteInv /\ TextInv /\ HexInv /\ ArgumentsInv /\ NamesInv

LEMMA ValuesBegin == ValuesInit => ValuesInv
<1> SUFFICES ASSUME ValuesInit
             PROVE  ValuesInv
  OBVIOUS
<1>1. stage = "given" /\ rounds = 0
  BY DEF ValuesInit
<1>2. kind = "node" => given \in Nodes
  BY DEF ValuesInit, Given
<1>3. kind = "route" => given \in Routes
  BY DEF ValuesInit, Given
<1>4. kind = "names" => given \in Names \X Names
  BY DEF ValuesInit, Given
<1>5. NodeInv
  BY <1>1, <1>2, ValuesAssumption DEF NodeInv
<1>6. RouteInv
  BY <1>1, <1>3, ValuesAssumption DEF RouteInv
<1>7. NamesInv
  BY <1>1, <1>4 DEF NamesInv
<1>8. TextInv
  BY <1>1 DEF ValuesInit, Given, TextInv
<1>9. HexInv
  BY <1>1 DEF ValuesInit, Given, HexInv
<1>10. ArgumentsInv
  BY <1>1 DEF ValuesInit, Given, ArgumentsInv
<1> QED
  BY <1>1, <1>5, <1>6, <1>7, <1>8, <1>9, <1>10 DEF ValuesInv

(* A step of a kind leaves the other kinds alone.                          *)
LEMMA StoreKeeps ==
  ASSUME ValuesInv, NEW k, NEW value, Store(k, value),
         k = "node" => value = StoredNode(given),
         k = "route" => value = StoredRoute(given),
         k = "text" => value = TextOf(given),
         k = "hex" => value = HexOf(given),
         k = "usage" => value = parse_main_args(given.line),
         k = "line" => value = parse_main_args(given),
         k = "names" => value = NamesFor(given)
  PROVE  ValuesInv'
<1>1. /\ kind' = kind /\ given' = given /\ rounds' = rounds
      /\ kind = k /\ stored' = value /\ stage' = "stored"
  BY DEF Store
<1>2. NodeInv'
  BY <1>1 DEF ValuesInv, NodeInv
<1>3. RouteInv'
  BY <1>1 DEF ValuesInv, RouteInv
<1>4. NamesInv'
  BY <1>1 DEF ValuesInv, NamesInv
<1>5. TextInv'
  BY <1>1 DEF ValuesInv, TextInv
<1>6. HexInv'
  BY <1>1 DEF ValuesInv, HexInv
<1>7. ArgumentsInv'
  BY <1>1 DEF ValuesInv, ArgumentsInv
<1> QED
  BY <1>1, <1>2, <1>3, <1>4, <1>5, <1>6, <1>7 DEF ValuesInv

LEMMA FetchKeeps ==
  ASSUME ValuesInv, NEW k, NEW value, Fetch(k, value), k # "names",
         k = "node" => value = ExportedNode(stored),
         k = "route" => value = ExportedRoute(stored),
         k = "text" => value = base64_decode(stored),
         k = "hex" => value = ReadHex(stored.rows),
         k # "usage", k # "line"
  PROVE  ValuesInv'
<1>1. /\ kind' = kind /\ given' = given /\ rounds' = rounds
      /\ kind = k /\ stage = "stored" /\ back' = value /\ stage' = "back"
      /\ stored' = stored
  BY DEF Fetch
<1>2. NodeInv'
  BY <1>1 DEF ValuesInv, NodeInv, Back
<1>3. RouteInv'
  BY <1>1 DEF ValuesInv, RouteInv, RouteBack
<1>4. NamesInv'
  BY <1>1 DEF ValuesInv, NamesInv
<1>5. TextInv'
  BY <1>1 DEF ValuesInv, TextInv
<1>6. HexInv'
  BY <1>1 DEF ValuesInv, HexInv
<1>7. ArgumentsInv'
  BY <1>1 DEF ValuesInv, ArgumentsInv
<1> QED
  BY <1>1, <1>2, <1>3, <1>4, <1>5, <1>6, <1>7 DEF ValuesInv

LEMMA NextTripKeeps ==
  ASSUME ValuesInv, NextTrip
  PROVE  ValuesInv'
<1>1. /\ kind' = kind /\ given' = back /\ stage' = "given" /\ stage = "back"
      /\ rounds' = rounds + 1 /\ kind \in {"node", "route"}
  BY DEF NextTrip
<1>2. rounds \in Nat
  BY DEF ValuesInv
<1>3. NodeInv'
  <2> SUFFICES ASSUME kind = "node"
               PROVE  NodeInv'
    BY <1>1 DEF NodeInv
  <2>1. NodeObject(given) /\ back = Back(given)
    BY <1>1 DEF ValuesInv, NodeInv
  <2>2. NodeObject(back)
    BY <2>1, BackIsNode
  <2> QED
    BY <1>1, <2>1, <2>2 DEF NodeInv
<1>4. RouteInv'
  <2> SUFFICES ASSUME kind = "route"
               PROVE  RouteInv'
    BY <1>1 DEF RouteInv
  <2>1. back = RouteBack(given) /\ (rounds > 0 => RouteOut(given))
    BY <1>1 DEF ValuesInv, RouteInv
  <2>2. RouteOut(back)
    BY <2>1, ExportedRouteIsOut DEF RouteBack
  <2>3. RouteObject(back)
    BY <2>2, RouteOutIsRoute
  <2>4. rounds > 0 => "beaming" \in DOMAIN back
    BY <2>1, RouteBackAgain
  <2>5. rounds + 1 > 1 => rounds > 0
    BY <1>2
  <2> QED
    BY <1>1, <2>2, <2>3, <2>4, <2>5 DEF RouteInv
<1>5. NamesInv'
  BY <1>1 DEF NamesInv
<1>6. rounds' \in Nat
  BY <1>1, <1>2
<1>7. TextInv' /\ HexInv' /\ ArgumentsInv'
  BY <1>1 DEF TextInv, HexInv, ArgumentsInv
<1> QED
  BY <1>3, <1>4, <1>5, <1>6, <1>7 DEF ValuesInv

LEMMA ValuesInductive == ValuesInv /\ [ValuesNext]_valueVars => ValuesInv'
<1> SUFFICES ASSUME ValuesInv, [ValuesNext]_valueVars
             PROVE  ValuesInv'
  OBVIOUS
<1>1. CASE ImportNode
  BY <1>1, StoreKeeps DEF ImportNode
<1>2. CASE ExportNode
  BY <1>2, FetchKeeps DEF ExportNode
<1>3. CASE ImportRoute
  BY <1>3, StoreKeeps DEF ImportRoute
<1>4. CASE ExportRoute
  BY <1>4, FetchKeeps DEF ExportRoute
<1>5. CASE NextTrip
  BY <1>5, NextTripKeeps
<1>6. CASE Encode
  BY <1>6, StoreKeeps DEF Encode, TextOf
<1>7. CASE Decode
  BY <1>7, FetchKeeps DEF Decode
<1>8. CASE WriteHex
  BY <1>8, StoreKeeps DEF WriteHex, HexOf
<1>9. CASE LoadHex
  BY <1>9, FetchKeeps DEF LoadHex
<1>10. CASE ParseUsage
  BY <1>10, StoreKeeps DEF ParseUsage
<1>11. CASE ParseLine
  BY <1>11, StoreKeeps DEF ParseLine
<1>12. CASE NameOutputs
  BY <1>12, StoreKeeps DEF NameOutputs, NamesFor
<1>13. CASE UNCHANGED valueVars
  <2>1. /\ kind' = kind /\ given' = given /\ stored' = stored /\ back' = back
        /\ stage' = stage /\ rounds' = rounds
    BY <1>13 DEF valueVars
  <2> QED
    BY <2>1 DEF ValuesInv, NodeInv, RouteInv, TextInv, HexInv, ArgumentsInv, NamesInv
<1> QED
  BY <1>1, <1>2, <1>3, <1>4, <1>5, <1>6, <1>7, <1>8, <1>9, <1>10, <1>11, <1>12, <1>13 DEF ValuesNext

(* Whatever the values are, the machine keeps that invariant.              *)
THEOREM ValuesInvHolds == ValuesSpec => []ValuesInv
  BY ValuesBegin, ValuesInductive, PTL DEF ValuesSpec

(* For all nodes and routes: what a document says of a node within the     *)
(* ranges of its fields comes back from the bits of the image, and what it *)
(* says of a route whose rate fits its bits (controller_nvm.c:1717-1793,   *)
(* 1076-1221).                                                             *)
THEOREM NodesReturn == ValuesSpec => []NodesComeBack
<1>1. ASSUME ValuesInv
      PROVE  NodesComeBack
  <2>1. ASSUME kind = "node", stage = "back", InNodeRange(given), NEW key \in DOMAIN given
        PROVE  CASE key = "supportedDataRates" ->
                      /\ Range(back[key]) = Range(given[key]) \cap Known
                      /\ \A i, j \in DOMAIN back[key] : i < j => back[key][i] < back[key][j]
                 [] key = "isFrequentListening" ->
                      back[key] = (IF given[key] = "none" THEN "none" ELSE "1000ms")
                 [] OTHER -> back[key] = given[key]
    <3>1. NodeObject(given) /\ back = Back(given)
      BY <1>1, <2>1 DEF ValuesInv, NodeInv
    <3> QED
      BY <2>1, <3>1, NodeComesBack, Zenon
  <2>2. ASSUME kind = "route", stage = "back",
               "protocolRate" \in DOMAIN given => given.protocolRate \in 0 .. 3,
               NEW key \in DOMAIN given
        PROVE  key \in DOMAIN back /\ back[key] = given[key]
    <3>1. RouteObject(given) /\ back = RouteBack(given)
      BY <1>1, <2>2 DEF ValuesInv, RouteInv
    <3>2. SaidRate(given) \in 0 .. 3
      BY <2>2 DEF SaidRate, KeyOr
    <3>3. back = [beaming |-> SaidBeaming(given), protocolRate |-> SaidRate(given)]
      BY <3>1, <3>2, RouteComesBack
    <3>4. key \in {"beaming", "protocolRate"}
      BY <2>2, <3>1 DEF RouteObject
    <3>5. /\ key = "beaming" => SaidBeaming(given) = given[key]
          /\ key = "protocolRate" => SaidRate(given) = given[key]
      BY <2>2 DEF SaidBeaming, SaidRate, KeyOr
    <3> QED
      BY <3>3, <3>4, <3>5
  <2> QED
    BY <2>1, <2>2, Zenon DEF NodesComeBack
<1> QED
  BY <1>1, ValuesInvHolds, PTL

(* For all nodes and routes, also outside the ranges: what was exported    *)
(* once comes back as it is from every later trip, but for a route without *)
(* a period, which takes one trip more.                                    *)
THEOREM NodesStable == ValuesSpec => []NodesSettle
<1>1. ASSUME ValuesInv
      PROVE  NodesSettle
  <2>1. ASSUME kind = "node", stage = "back", rounds > 0
        PROVE  back = given /\ InNodeRange(given)
    <3>1. PICK node : NodeObject(node) /\ given = Back(node)
      BY <1>1, <2>1 DEF ValuesInv, NodeInv
    <3>2. back = Back(given)
      BY <1>1, <2>1 DEF ValuesInv, NodeInv
    <3> QED
      BY <3>1, <3>2, BackAgain, BackIsNode
  <2>2. ASSUME kind = "route", stage = "back",
               rounds > 1 \/ (rounds = 1 /\ "beaming" \in DOMAIN given)
        PROVE  back = given
    <3>1. rounds > 0
      BY <1>1, <2>2 DEF ValuesInv
    <3>2. RouteOut(given) /\ "beaming" \in DOMAIN given /\ back = RouteBack(given)
      BY <1>1, <2>2, <3>1 DEF ValuesInv, RouteInv
    <3> QED
      BY <3>2, RouteBackAgain
  <2> QED
    BY <2>1, <2>2 DEF NodesSettle
<1> QED
  BY <1>1, ValuesInvHolds, PTL

(* For all bytes and line lengths: a Base64 text and its end fit the       *)
(* memory that is allocated for them, and the text decodes to the bytes it *)
(* was made of, but for no bytes, whose text is refused (base64.c:16-211). *)
THEOREM TextsReturn == ValuesSpec => []TextsComeBack
<1>1. ASSUME ValuesInv
      PROVE  TextsComeBack
  <2> SUFFICES ASSUME kind = "text"
               PROVE  TextsComeBack
    BY DEF TextsComeBack
  <2> DEFINE bytes == given.bytes
             m == given.max_line_len
  <2>1. bytes \in Seq(Octet) /\ m \in Nat
    BY <1>1, ValuesAssumption DEF ValuesInv, TextInv, Octet
  <2>2. /\ stage = "stored" => stored = base64_encode(bytes, m)
        /\ stage = "back" => back = base64_decode(base64_encode(bytes, m))
    BY <1>1 DEF ValuesInv, TextInv, TextOf
  <2> HIDE DEF bytes, m
  <2>3. Len(base64_encode(bytes, m)) + 1 <= TextBufferSize(Len(bytes), m)
    BY <2>1, Base64Fits
  <2>4. base64_decode(base64_encode(bytes, m)) = IF bytes = <<>> THEN NotBase64 ELSE bytes
    BY <2>1, Base64Back
  <2> QED
    BY <2>2, <2>3, <2>4, Zenon DEF TextsComeBack, bytes, m
<1> QED
  BY <1>1, ValuesInvHolds, PTL

(***************************************************************************)
(* Rows of an Intel HEX file                                               *)
(*                                                                         *)
(* Rows are added one by one (OneRowMore, CountingUp); RowsTo says what    *)
(* the rows are after the n-th data row.  It is of the last row for an     *)
(* upper half no more than that its address is not above that of the data  *)
(* row: enough for the bytes of one segment, and for the loss of others.   *)
(***************************************************************************)
AnyRow == [type : {DataRow, EndRow, SegmentRow}, address : Nat, data : Seq(Nat)]

(* The bytes of the n-th data row, and the row.                            *)
FirstOf(n) == RowSize * (n - 1) + 1
LastOf(bytes, n) == Min({FirstOf(n) + RowSize - 1, Len(bytes)})
DataRowOf(bytes, start, n) ==
  Row(DataRow, start + FirstOf(n) - 1, SubSeq(bytes, FirstOf(n), LastOf(bytes, n)))

(* A row for the upper half of an address that is not above x.             *)
UpperUpTo(row, start, x) ==
  \E a \in Nat : start <= a /\ a <= x /\ row.data[1] = a \div SegmentSize

(* Row q is the r-th data row, behind rows for upper halves of addresses   *)
(* that are not above its own.                                             *)
IsDataRow(rows, bytes, start, q, r) ==
  /\ rows[q] = DataRowOf(bytes, start, r)
  /\ \A i \in 1 .. q : rows[i].type = SegmentRow =>
       UpperUpTo(rows[i], start, start + RowSize * (r - 1))

(* The rows hold the first n data rows, and one for an upper half before   *)
(* the first of them.                                                      *)
RowsTo(rows, bytes, start, n) ==
  /\ rows \in Seq(AnyRow) /\ Len(rows) >= 1
  /\ rows[1].type = SegmentRow
  /\ \A q \in 1 .. Len(rows) : rows[q].type = SegmentRow =>
       UpperUpTo(rows[q], start, start + RowSize * n)
  /\ \A q \in 1 .. Len(rows) : rows[q].type = DataRow =>
       \E r \in 1 .. n : IsDataRow(rows, bytes, start, q, r)
  /\ \A r \in 1 .. n : \E q \in 1 .. Len(rows) : IsDataRow(rows, bytes, start, q, r)

LEMMA RowType ==
  ASSUME NEW type \in {DataRow, EndRow, SegmentRow}, NEW address \in Nat, NEW data \in Seq(Nat)
  PROVE  /\ Row(type, address, data) \in AnyRow
         /\ Row(type, address, data).type = type /\ Row(type, address, data).data = data
         /\ Row(type, address, data).address = address % SegmentSize
<1>1. address % SegmentSize \in Nat
  BY HexAssumption
<1> QED
  BY <1>1 DEF Row, AnyRow

(* What happens to rows when one more is added.                            *)
LEMMA OneRowMore ==
  ASSUME NEW rows \in Seq(AnyRow), NEW row \in AnyRow
  PROVE  /\ rows \o <<row>> \in Seq(AnyRow)
         /\ Len(rows \o <<row>>) = Len(rows) + 1
         /\ \A q \in 1 .. Len(rows) : (rows \o <<row>>)[q] = rows[q]
         /\ (rows \o <<row>>)[Len(rows) + 1] = row
<1> DEFINE one == <<row>>
<1>1. one \in Seq(AnyRow) /\ Len(one) = 1 /\ one[1] = row
  OBVIOUS
<1>2. Len(rows) \in Nat
  OBVIOUS
<1> HIDE DEF one
<1>3. /\ rows \o one \in Seq(AnyRow)
      /\ Len(rows \o one) = Len(rows) + Len(one)
      /\ \A q \in 1 .. Len(rows) + Len(one) :
           (rows \o one)[q] = IF q <= Len(rows) THEN rows[q] ELSE one[q - Len(rows)]
  BY <1>1, ConcatProperties
<1>4. \A q \in 1 .. Len(rows) : (rows \o one)[q] = rows[q]
  BY <1>1, <1>2, <1>3
<1>5. (rows \o one)[Len(rows) + 1] = row
  <2>1. Len(rows) + 1 \in 1 .. Len(rows) + Len(one) /\ ~(Len(rows) + 1 <= Len(rows))
        /\ (Len(rows) + 1) - Len(rows) = 1
    BY <1>1, <1>2
  <2> QED
    BY <1>1, <1>3, <2>1
<1>6. rows \o one \in Seq(AnyRow) /\ Len(rows \o one) = Len(rows) + 1
  BY <1>1, <1>3
<1> QED
  BY <1>4, <1>5, <1>6 DEF one

LEMMA UpperFurther ==
  ASSUME NEW row, NEW start \in Nat, NEW x \in Nat, NEW y \in Nat, x <= y,
         UpperUpTo(row, start, x)
  PROVE  UpperUpTo(row, start, y)
BY DEF UpperUpTo

LEMMA Reach ==
  ASSUME NEW start \in Nat, NEW n \in Nat
  PROVE  /\ start + RowSize * n \in Nat
         /\ start + RowSize * (n + 1) = start + RowSize * n + RowSize
         /\ start + RowSize * n <= start + RowSize * (n + 1)
         /\ start + RowSize * ((n + 1) - 1) = start + RowSize * n
<1>1. RowSize \in Nat
  BY HexAssumption
<1>2. RowSize * n \in Nat /\ RowSize * (n + 1) = RowSize * n + RowSize
  BY <1>1
<1>3. (n + 1) - 1 = n
  OBVIOUS
<1> QED
  BY <1>1, <1>2, <1>3

(* One data row more.                                                      *)
LEMMA DataRowMore ==
  ASSUME NEW rows, NEW bytes, NEW start \in Nat, NEW n \in Nat,
         RowsTo(rows, bytes, start, n),
         DataRowOf(bytes, start, n + 1) \in AnyRow,
         DataRowOf(bytes, start, n + 1).type = DataRow
  PROVE  RowsTo(rows \o <<DataRowOf(bytes, start, n + 1)>>, bytes, start, n + 1)
<1> DEFINE row == DataRowOf(bytes, start, n + 1)
           more == rows \o <<row>>
           x == start + RowSize * n
           y == start + RowSize * (n + 1)
<1>1. rows \in Seq(AnyRow) /\ Len(rows) >= 1 /\ Len(rows) \in Nat /\ rows[1].type = SegmentRow
  BY DEF RowsTo
<1>2. row \in AnyRow /\ row.type = DataRow
  OBVIOUS
<1> HIDE DEF row
<1>3. /\ more \in Seq(AnyRow) /\ Len(more) = Len(rows) + 1
      /\ \A q \in 1 .. Len(rows) : more[q] = rows[q]
      /\ more[Len(rows) + 1] = row
  BY <1>1, <1>2, OneRowMore
<1> HIDE DEF more
<1>4. x \in Nat /\ y \in Nat /\ x <= y /\ start + RowSize * ((n + 1) - 1) = x
  BY Reach
<1>5. \A q \in 1 .. Len(rows) : rows[q].type = SegmentRow => UpperUpTo(rows[q], start, x)
  BY DEF RowsTo
<1>6. \A q \in 1 .. Len(rows) : rows[q].type = DataRow =>
        \E r \in 1 .. n : IsDataRow(rows, bytes, start, q, r)
  BY DEF RowsTo
<1>7. \A r \in 1 .. n : \E q \in 1 .. Len(rows) : IsDataRow(rows, bytes, start, q, r)
  BY DEF RowsTo
<1> HIDE DEF x, y
<1>8. \A q \in 1 .. Len(more) : q \in 1 .. Len(rows) \/ q = Len(rows) + 1
  BY <1>1, <1>3
<1>9. DataRow # SegmentRow
  BY DEF DataRow, SegmentRow
<1>10. Len(more) >= 1 /\ more[1].type = SegmentRow /\ Len(rows) + 1 \in 1 .. Len(more)
  BY <1>1, <1>3
<1>11. ASSUME NEW q \in 1 .. Len(more), more[q].type = SegmentRow
       PROVE  UpperUpTo(more[q], start, y)
  <2>1. q \in 1 .. Len(rows)
    BY <1>2, <1>3, <1>8, <1>9, <1>11
  <2>2. UpperUpTo(more[q], start, x)
    BY <1>3, <1>5, <1>11, <2>1
  <2> QED
    BY <1>4, <2>2, UpperFurther
<1>12. ASSUME NEW q \in 1 .. Len(rows), NEW r, IsDataRow(rows, bytes, start, q, r)
       PROVE  IsDataRow(more, bytes, start, q, r)
  <2>1. \A i \in 1 .. q : more[i] = rows[i]
    BY <1>1, <1>3
  <2>2. more[q] = rows[q]
    BY <1>3
  <2> QED
    BY <1>12, <2>1, <2>2 DEF IsDataRow
<1>13. IsDataRow(more, bytes, start, Len(rows) + 1, n + 1)
  <2>1. more[Len(rows) + 1] = DataRowOf(bytes, start, n + 1)
    BY <1>3 DEF row
  <2>2. ASSUME NEW i \in 1 .. Len(rows) + 1, more[i].type = SegmentRow
        PROVE  UpperUpTo(more[i], start, x)
    <3>1. i \in 1 .. Len(rows)
      <4>1. i \in 1 .. Len(rows) \/ i = Len(rows) + 1
        BY <1>1
      <4> QED
        BY <1>2, <1>3, <1>9, <2>2, <4>1
    <3> QED
      BY <1>3, <1>5, <2>2, <3>1
  <2> QED
    BY <1>4, <2>1, <2>2 DEF IsDataRow
<1>14. ASSUME NEW q \in 1 .. Len(more), more[q].type = DataRow
       PROVE  \E r \in 1 .. n + 1 : IsDataRow(more, bytes, start, q, r)
  <2>1. CASE q \in 1 .. Len(rows)
    <3>1. PICK r \in 1 .. n : IsDataRow(rows, bytes, start, q, r)
      BY <1>3, <1>6, <1>14, <2>1
    <3>2. r \in 1 .. n + 1 /\ IsDataRow(more, bytes, start, q, r)
      BY <1>12, <2>1, <3>1
    <3> QED
      BY <3>2
  <2>2. CASE q = Len(rows) + 1
    <3>1. n + 1 \in 1 .. n + 1
      OBVIOUS
    <3> QED
      BY <1>13, <2>2, <3>1
  <2> QED
    BY <1>8, <2>1, <2>2
<1>15. ASSUME NEW r \in 1 .. n + 1
       PROVE  \E q \in 1 .. Len(more) : IsDataRow(more, bytes, start, q, r)
  <2>1. CASE r \in 1 .. n
    <3>1. PICK q \in 1 .. Len(rows) : IsDataRow(rows, bytes, start, q, r)
      BY <1>7, <2>1
    <3>2. q \in 1 .. Len(more) /\ IsDataRow(more, bytes, start, q, r)
      BY <1>1, <1>3, <1>12, <3>1
    <3> QED
      BY <3>2
  <2>2. CASE r = n + 1
    BY <1>10, <1>13, <2>2
  <2> QED
    BY <2>1, <2>2
<1>16. RowsTo(more, bytes, start, n + 1)
  BY <1>3, <1>10, <1>11, <1>14, <1>15 DEF RowsTo, y
<1> QED
  BY <1>16 DEF more, row

(* One row of another type more.                                           *)
LEMMA OtherRowMore ==
  ASSUME NEW rows, NEW bytes, NEW start \in Nat, NEW n \in Nat,
         RowsTo(rows, bytes, start, n),
         NEW row \in AnyRow, row.type # DataRow,
         row.type = SegmentRow => UpperUpTo(row, start, start + RowSize * n)
  PROVE  RowsTo(rows \o <<row>>, bytes, start, n)
<1> DEFINE more == rows \o <<row>>
<1>1. rows \in Seq(AnyRow) /\ Len(rows) >= 1 /\ Len(rows) \in Nat /\ rows[1].type = SegmentRow
  BY DEF RowsTo
<1>3. /\ more \in Seq(AnyRow) /\ Len(more) = Len(rows) + 1
      /\ \A q \in 1 .. Len(rows) : more[q] = rows[q]
      /\ more[Len(rows) + 1] = row
  BY <1>1, OneRowMore
<1> HIDE DEF more
<1>5. \A q \in 1 .. Len(rows) : rows[q].type = SegmentRow =>
        UpperUpTo(rows[q], start, start + RowSize * n)
  BY DEF RowsTo
<1>6. \A q \in 1 .. Len(rows) : rows[q].type = DataRow =>
        \E r \in 1 .. n : IsDataRow(rows, bytes, start, q, r)
  BY DEF RowsTo
<1>7. \A r \in 1 .. n : \E q \in 1 .. Len(rows) : IsDataRow(rows, bytes, start, q, r)
  BY DEF RowsTo
<1>8. \A q \in 1 .. Len(more) : q \in 1 .. Len(rows) \/ q = Len(rows) + 1
  BY <1>1, <1>3
<1>10. Len(more) >= 1 /\ more[1].type = SegmentRow /\ Len(rows) + 1 \in 1 .. Len(more)
  BY <1>1, <1>3
<1>11. ASSUME NEW q \in 1 .. Len(more), more[q].type = SegmentRow
       PROVE  UpperUpTo(more[q], start, start + RowSize * n)
  BY <1>3, <1>5, <1>8, <1>11
<1>12. ASSUME NEW q \in 1 .. Len(rows), NEW r, IsDataRow(rows, bytes, start, q, r)
       PROVE  IsDataRow(more, bytes, start, q, r)
  <2>1. \A i \in 1 .. q : more[i] = rows[i]
    BY <1>1, <1>3
  <2>2. more[q] = rows[q]
    BY <1>3
  <2> QED
    BY <1>12, <2>1, <2>2 DEF IsDataRow
<1>13. ASSUME NEW q \in 1 .. Len(more), more[q].type = DataRow
       PROVE  \E r \in 1 .. n : IsDataRow(more, bytes, start, q, r)
  <2>1. q \in 1 .. Len(rows)
    BY <1>3, <1>8, <1>13
  <2> QED
    BY <1>3, <1>6, <1>12, <1>13, <2>1
<1>14. ASSUME NEW r \in 1 .. n
       PROVE  \E q \in 1 .. Len(more) : IsDataRow(more, bytes, start, q, r)
  <2>1. PICK q \in 1 .. Len(rows) : IsDataRow(rows, bytes, start, q, r)
    BY <1>7
  <2>2. q \in 1 .. Len(more) /\ IsDataRow(more, bytes, start, q, r)
    BY <1>1, <1>3, <1>12, <2>1
  <2> QED
    BY <2>2
<1>15. RowsTo(more, bytes, start, n)
  BY <1>3, <1>10, <1>11, <1>13, <1>14 DEF RowsTo
<1> QED
  BY <1>15 DEF more

(* The rows that come before the end row.                                  *)
OpenRow == [type : {DataRow, SegmentRow}, address : Nat, data : Seq(Nat)]

(* The first n data rows have a byte each.                                 *)
Filled(bytes, n) == \A r \in 1 .. n : FirstOf(r) <= Len(bytes)

LEMMA Regrouped ==
  ASSUME NEW a \in Seq(OpenRow), NEW b \in Seq(OpenRow), NEW c \in Seq(OpenRow)
  PROVE  a \o (b \o c) = (a \o b) \o c
BY ConcatAssociative

LEMMA DataRowIs ==
  ASSUME NEW bytes \in Seq(0 .. 255), NEW start \in Nat, NEW r \in Nat \ {0},
         FirstOf(r) <= Len(bytes)
  PROVE  /\ FirstOf(r) \in Nat \ {0} /\ LastOf(bytes, r) \in FirstOf(r) .. Len(bytes)
         /\ LastOf(bytes, r) <= RowSize * r
         /\ LastOf(bytes, r) = IF RowSize * r <= Len(bytes) THEN RowSize * r ELSE Len(bytes)
         /\ DataRowOf(bytes, start, r) \in AnyRow
         /\ DataRowOf(bytes, start, r).type = DataRow
         /\ DataRowOf(bytes, start, r).address = (start + FirstOf(r) - 1) % SegmentSize
         /\ Len(DataRowOf(bytes, start, r).data) = LastOf(bytes, r) - FirstOf(r) + 1
         /\ \A i \in 1 .. LastOf(bytes, r) - FirstOf(r) + 1 :
              DataRowOf(bytes, start, r).data[i] = bytes[FirstOf(r) + i - 1]
<1> DEFINE first == FirstOf(r)
           last == LastOf(bytes, r)
           data == SubSeq(bytes, first, last)
<1>1. Len(bytes) \in Nat
  OBVIOUS
<1>2. RowSize * (r - 1) \in Nat /\ RowSize * r \in Nat /\ RowSize * r = RowSize * (r - 1) + RowSize
      /\ RowSize >= 1 /\ RowSize \in Nat
  BY HexAssumption
<1>3. first \in Nat \ {0} /\ first + RowSize - 1 = RowSize * r /\ first <= RowSize * r
  BY <1>2 DEF FirstOf
<1>4. last = IF RowSize * r <= Len(bytes) THEN RowSize * r ELSE Len(bytes)
  BY <1>1, <1>2, <1>3, Lesser DEF LastOf
<1>5. last \in first .. Len(bytes) /\ last <= RowSize * r
  BY <1>1, <1>2, <1>3, <1>4
<1> HIDE DEF first, last
<1>6. \A i \in first .. last : bytes[i] \in Nat
  <2> TAKE i \in first .. last
  <2>1. i \in 1 .. Len(bytes)
    BY <1>1, <1>3, <1>5
  <2>2. bytes[i] \in 0 .. 255
    BY <2>1, ElementOfSeq
  <2>3. \A x \in 0 .. 255 : x \in Nat
    OBVIOUS
  <2> QED
    BY <2>2, <2>3, Zenon
<1>7. data \in Seq(Nat) /\ Len(data) = last - first + 1
      /\ \A i \in 1 .. last - first + 1 : data[i] = bytes[first + i - 1]
  BY <1>3, <1>5, <1>6, SubSeqProperties
<1> HIDE DEF data
<1>8. DataRow \in {DataRow, EndRow, SegmentRow} /\ start + first - 1 \in Nat
  BY <1>3
<1>9. /\ Row(DataRow, start + first - 1, data) \in AnyRow
      /\ Row(DataRow, start + first - 1, data).type = DataRow
      /\ Row(DataRow, start + first - 1, data).data = data
      /\ Row(DataRow, start + first - 1, data).address = (start + first - 1) % SegmentSize
  BY <1>7, <1>8, RowType
<1>10. DataRowOf(bytes, start, r) = Row(DataRow, start + first - 1, data)
  BY Zenon DEF DataRowOf, first, last, data
<1>11. /\ first \in Nat \ {0} /\ last \in first .. Len(bytes)
       /\ last <= RowSize * r
       /\ last = IF RowSize * r <= Len(bytes) THEN RowSize * r ELSE Len(bytes)
       /\ DataRowOf(bytes, start, r) \in AnyRow
       /\ DataRowOf(bytes, start, r).type = DataRow
       /\ DataRowOf(bytes, start, r).address = (start + first - 1) % SegmentSize
       /\ Len(DataRowOf(bytes, start, r).data) = last - first + 1
       /\ \A i \in 1 .. last - first + 1 :
            DataRowOf(bytes, start, r).data[i] = bytes[first + i - 1]
  BY <1>3, <1>4, <1>5, <1>7, <1>9, <1>10
<1> QED
  BY <1>11 DEF first, last

LEMMA UpperIs ==
  ASSUME NEW a \in Nat
  PROVE  \E row \in OpenRow :
           /\ UpperRow(a) = <<row>> /\ row.type = SegmentRow
           /\ row.data[1] = a \div SegmentSize
<1> DEFINE data == <<a \div SegmentSize>>
           row == Row(SegmentRow, 0, data)
<1>1. a \div SegmentSize \in Nat
  BY HexAssumption
<1>2. data \in Seq(Nat) /\ data[1] = a \div SegmentSize
  BY <1>1
<1> HIDE DEF data
<1>3. row \in AnyRow /\ row.type = SegmentRow /\ row.data = data
  BY <1>2, RowType
<1>4. UpperRow(a) = <<row>>
  BY Zenon DEF UpperRow, data
<1> HIDE DEF row
<1>5. row \in OpenRow
  BY <1>3 DEF OpenRow, AnyRow
<1> QED
  BY <1>2, <1>3, <1>4, <1>5

(* What follows the data row: a row for the upper half of the next address *)
(* or nothing.                                                             *)
Upper(bytes, start, r) ==
  IF /\ LastOf(bytes, r) - FirstOf(r) + 1 = RowSize
     /\ (start + LastOf(bytes, r)) % SegmentSize = 0
    THEN UpperRow(start + LastOf(bytes, r))
    ELSE <<>>

LEMMA RowsFromIs ==
  ASSUME NEW bytes, NEW start, NEW r
  PROVE  RowsFrom(bytes, start, RowSize * (r - 1) + 1)
           = <<DataRowOf(bytes, start, r)>> \o Upper(bytes, start, r)
BY Zenon DEF RowsFrom, DataRowOf, Upper, LastOf, FirstOf

(* All the rows before the end row.                                        *)
RowsBefore(bytes, start, n) ==
  UpperRow(start)
    \o FlattenSeq([r \in 1 .. n |-> RowsFrom(bytes, start, RowSize * (r - 1) + 1)])

LEMMA RowsTyped ==
  ASSUME NEW bytes \in Seq(0 .. 255), NEW start \in Nat, NEW n \in Nat, Filled(bytes, n)
  PROVE  /\ [r \in 1 .. n |-> RowsFrom(bytes, start, RowSize * (r - 1) + 1)] \in Seq(Seq(OpenRow))
         /\ \A r \in 1 .. n : /\ <<DataRowOf(bytes, start, r)>> \in Seq(OpenRow)
                              /\ Upper(bytes, start, r) \in Seq(OpenRow)
<1>1. ASSUME NEW r \in 1 .. n
      PROVE  /\ <<DataRowOf(bytes, start, r)>> \in Seq(OpenRow)
             /\ Upper(bytes, start, r) \in Seq(OpenRow)
             /\ RowsFrom(bytes, start, RowSize * (r - 1) + 1) \in Seq(OpenRow)
  <2>1. FirstOf(r) <= Len(bytes) /\ r \in Nat \ {0}
    BY DEF Filled
  <2>2. DataRowOf(bytes, start, r) \in AnyRow /\ DataRowOf(bytes, start, r).type = DataRow
        /\ FirstOf(r) \in Nat /\ LastOf(bytes, r) \in FirstOf(r) .. Len(bytes)
    BY <2>1, DataRowIs
  <2>3. DataRowOf(bytes, start, r) \in OpenRow
    BY <2>2 DEF OpenRow, AnyRow
  <2>4. <<DataRowOf(bytes, start, r)>> \in Seq(OpenRow)
    BY <2>3
  <2>5. start + LastOf(bytes, r) \in Nat
    BY <2>2
  <2>6. PICK row \in OpenRow : UpperRow(start + LastOf(bytes, r)) = <<row>>
    BY <2>5, UpperIs
  <2>7. Upper(bytes, start, r) \in Seq(OpenRow)
    <3>1. <<row>> \in Seq(OpenRow) /\ <<>> \in Seq(OpenRow)
      OBVIOUS
    <3> QED
      BY <2>6, <3>1, Zenon DEF Upper
  <2>8. <<DataRowOf(bytes, start, r)>> \o Upper(bytes, start, r) \in Seq(OpenRow)
    BY <2>4, <2>7, ConcatProperties
  <2> QED
    BY <2>4, <2>7, <2>8, RowsFromIs
<1> DEFINE piece(r) == RowsFrom(bytes, start, RowSize * (r - 1) + 1)
<1>2. \A r \in 1 .. n : piece(r) \in Seq(OpenRow)
  BY <1>1
<1> HIDE DEF piece
<1>3. [r \in 1 .. n |-> piece(r)] \in Seq(Seq(OpenRow))
  BY <1>2
<1> QED
  BY <1>1, <1>3 DEF piece

LEMMA RowsBuilt ==
  ASSUME NEW bytes \in Seq(0 .. 255), NEW start \in Nat, NEW n \in Nat, Filled(bytes, n)
  PROVE  /\ RowsTo(RowsBefore(bytes, start, n), bytes, start, n)
         /\ RowsBefore(bytes, start, n) \in Seq(OpenRow)
<1> DEFINE s == [r \in 1 .. n |-> RowsFrom(bytes, start, RowSize * (r - 1) + 1)]
<1>1. s \in Seq(Seq(OpenRow)) /\ Len(s) = n
  BY RowsTyped
<1>2. \A r \in 1 .. n : s[r] = <<DataRowOf(bytes, start, r)>> \o Upper(bytes, start, r)
  BY RowsFromIs
<1> HIDE DEF s
<1>3. PICK f \in [0 .. Len(s) -> Seq(OpenRow)] :
        /\ f[0] = <<>>
        /\ \A i \in 1 .. Len(s) : f[i] = f[i - 1] \o s[i]
        /\ FlattenSeq(s) = f[Len(s)]
  BY <1>1, FlattenPrefixes
<1>4. PICK top \in OpenRow :
        /\ UpperRow(start) = <<top>> /\ top.type = SegmentRow
        /\ top.data[1] = start \div SegmentSize
  BY UpperIs
<1> DEFINE front == <<top>>
<1>5. front \in Seq(OpenRow) /\ Len(front) = 1 /\ front[1] = top /\ front \in Seq(AnyRow)
  BY DEF OpenRow, AnyRow
<1>6. RowsBefore(bytes, start, n) = front \o f[n]
  BY <1>1, <1>3, <1>4, Zenon DEF RowsBefore, s
<1> HIDE DEF front
<1> DEFINE T == {k \in 0 .. n : RowsTo(front \o f[k], bytes, start, k)}
<1>7. 0 \in T
  <2>1. front \o f[0] = front
    BY <1>3, <1>5, ConcatEmptySeq
  <2>2. start + RowSize * 0 = start
    BY HexAssumption
  <2>3. UpperUpTo(top, start, start + RowSize * 0)
    BY <1>4, <2>2 DEF UpperUpTo
  <2>4. DataRow # SegmentRow
    BY DEF DataRow, SegmentRow
  <2>5. \A q \in 1 .. Len(front) : front[q] = top
    BY <1>5
  <2>6. RowsTo(front, bytes, start, 0)
    BY <1>4, <1>5, <2>3, <2>4, <2>5 DEF RowsTo
  <2>7. RowsTo(front \o f[0], bytes, start, 0) /\ 0 \in 0 .. n
    BY <2>1, <2>6
  <2> QED
    BY <2>7, Zenon
<1>8. ASSUME NEW k \in T, k < n
      PROVE  k + 1 \in T
  <2>1. k \in Nat /\ k + 1 \in 1 .. n /\ k + 1 \in 0 .. n /\ (k + 1) - 1 = k /\ k \in 0 .. n
    BY <1>8
  <2>2. RowsTo(front \o f[k], bytes, start, k)
    OBVIOUS
  <2> DEFINE d == DataRowOf(bytes, start, k + 1)
             one == <<d>>
             upper == Upper(bytes, start, k + 1)
             so == front \o f[k]
  <2>3. f[k + 1] = f[k] \o (one \o upper)
    BY <1>1, <1>2, <1>3, <2>1
  <2>4. FirstOf(k + 1) <= Len(bytes)
    BY <2>1 DEF Filled
  <2>5. d \in AnyRow /\ d.type = DataRow /\ LastOf(bytes, k + 1) <= RowSize * (k + 1)
        /\ FirstOf(k + 1) \in Nat /\ LastOf(bytes, k + 1) \in FirstOf(k + 1) .. Len(bytes)
    BY <2>1, <2>4, DataRowIs
  <2>6. one \in Seq(OpenRow) /\ upper \in Seq(OpenRow) /\ f[k] \in Seq(OpenRow)
    BY <1>1, <1>3, <2>1, RowsTyped
  <2>7. RowsTo(so \o one, bytes, start, k + 1)
    BY <2>1, <2>2, <2>5, DataRowMore
  <2> HIDE DEF d, one, upper
  <2>8. front \o f[k + 1] = (so \o one) \o upper
    <3> DEFINE piece == f[k]
               rest == one \o upper
    <3>1. piece \in Seq(OpenRow) /\ rest \in Seq(OpenRow) /\ so \in Seq(OpenRow)
      BY <1>5, <2>6, ConcatProperties
    <3>2. so \o (one \o upper) = (so \o one) \o upper
      <4> HIDE DEF so
      <4> QED
        BY <2>6, <3>1, Regrouped
    <3>3. front \o (piece \o rest) = (front \o piece) \o rest
      BY <1>5, <3>1, Regrouped
    <3> QED
      BY <2>3, <3>2, <3>3, Zenon
  <2> HIDE DEF so
  <2>9. RowsTo((so \o one) \o upper, bytes, start, k + 1)
    <3>1. CASE upper = <<>>
      <4>1. so \o one \in Seq(AnyRow)
        BY <2>7 DEF RowsTo
      <4>2. (so \o one) \o upper = so \o one
        BY <3>1, <4>1, ConcatEmptySeq
      <4> QED
        BY <2>7, <4>2
    <3>2. CASE upper # <<>>
      <4> DEFINE next == start + LastOf(bytes, k + 1)
      <4>1. next \in Nat /\ start <= next /\ next <= start + RowSize * (k + 1)
        <5>1. RowSize * (k + 1) \in Nat
          BY <2>1, HexAssumption
        <5> QED
          BY <2>5, <5>1
      <4>2. upper = UpperRow(next)
        BY <3>2, Zenon DEF upper, Upper
      <4> HIDE DEF next
      <4>3. PICK row \in OpenRow :
              /\ UpperRow(next) = <<row>> /\ row.type = SegmentRow
              /\ row.data[1] = next \div SegmentSize
        BY <4>1, UpperIs
      <4>4. UpperUpTo(row, start, start + RowSize * (k + 1))
        BY <4>1, <4>3 DEF UpperUpTo
      <4>5. row \in AnyRow /\ row.type # DataRow
        BY <4>3 DEF OpenRow, AnyRow, DataRow, SegmentRow
      <4>6. RowsTo((so \o one) \o <<row>>, bytes, start, k + 1)
        BY <2>1, <2>7, <4>4, <4>5, OtherRowMore
      <4> QED
        BY <4>2, <4>3, <4>6
    <3> QED
      BY <3>1, <3>2
  <2> QED
    BY <2>1, <2>8, <2>9
<1>9. n \in T
  <2>1. T \in SUBSET (0 .. n)
    OBVIOUS
  <2> HIDE DEF T
  <2>2. T = 0 .. n
    BY <1>7, <1>8, <2>1, CountingUp
  <2> QED
    BY <2>2
<1>10. f[n] \in Seq(OpenRow)
  BY <1>1, <1>3
<1>11. front \o f[n] \in Seq(OpenRow)
  BY <1>5, <1>10, ConcatProperties
<1> QED
  BY <1>6, <1>9, <1>11

(* Quotient and remainder are determined by what they are for.             *)
LEMMA DivisionUnique ==
  ASSUME NEW x \in Nat, NEW m \in Nat \ {0}, NEW q \in Nat, NEW r \in 0 .. m - 1,
         x = m * q + r
  PROVE  x \div m = q /\ x % m = r
<1> DEFINE u == x \div m
           v == x % m
<1>1. x = m * u + v /\ u \in Nat /\ v \in 0 .. m - 1
  OBVIOUS
<1> HIDE DEF u, v
<1>2. \A a \in Nat, b \in Nat : a < b => m * b >= m * a + m
  <2> TAKE a \in Nat, b \in Nat
  <2> HAVE a < b
  <2> DEFINE e == b - a - 1
  <2>1. e \in Nat /\ b = a + 1 + e
    OBVIOUS
  <2> HIDE DEF e
  <2>2. m * e \in Nat /\ m * (a + 1 + e) = m * a + m + m * e /\ m * a \in Nat
    BY <2>1
  <2> QED
    BY <2>1, <2>2
<1>3. m * q \in Nat /\ m * u \in Nat
  BY <1>1
<1>4. ~(u < q) /\ ~(q < u)
  BY <1>1, <1>2, <1>3
<1>5. u = q
  BY <1>1, <1>4
<1>6. v = r
  BY <1>1, <1>3, <1>5
<1> QED
  BY <1>5, <1>6 DEF u, v

LEMMA RemainderOfSum ==
  ASSUME NEW x \in Nat, NEW k \in Nat, NEW m \in Nat \ {0}
  PROVE  ((x % m) + k) % m = (x + k) % m
<1> DEFINE q == x \div m
           y == (x % m) + k
<1>1. x = m * q + (x % m) /\ q \in Nat /\ y \in Nat
  OBVIOUS
<1>2. y = m * (y \div m) + (y % m) /\ y \div m \in Nat /\ y % m \in 0 .. m - 1
  BY <1>1
<1>3. x + k = m * q + y
  BY <1>1
<1> HIDE DEF q, y
<1> DEFINE u == y \div m
           v == y % m
<1>4. y = m * u + v /\ u \in Nat /\ v \in 0 .. m - 1
  BY <1>2
<1> HIDE DEF u, v
<1>5. m * (q + u) = m * q + m * u
  BY <1>1, <1>4
<1>6. x + k = m * (q + u) + v
  BY <1>1, <1>3, <1>4, <1>5
<1>7. (x + k) % m = v
  <2> DEFINE c == x + k
             d == q + u
  <2>1. c \in Nat /\ d \in Nat /\ c = m * d + v
    BY <1>1, <1>4, <1>6
  <2> HIDE DEF c, d
  <2>2. c % m = v
    BY <1>4, <2>1, DivisionUnique
  <2> QED
    BY <2>2 DEF c
<1> QED
  BY <1>7 DEF v, y

(* Where a reader finds the byte of address x if the row for the upper     *)
(* half before it was for address a.                                       *)
Found(x, a) == (a \div SegmentSize) * Paragraph + (x % SegmentSize)

LEMMA FoundLow ==
  ASSUME NEW x \in Nat, NEW a \in Nat, a <= x, x < SegmentSize
  PROVE  Found(x, a) = x
<1>1. SegmentSize \in Nat \ {0} /\ Paragraph \in Nat
  BY HexAssumption
<1>2. a \in 0 .. SegmentSize - 1 /\ x \in 0 .. SegmentSize - 1 /\ 0 \in Nat
  BY <1>1
<1>3. a = SegmentSize * 0 + a /\ x = SegmentSize * 0 + x
  BY <1>1
<1>4. a \div SegmentSize = 0 /\ x % SegmentSize = x
  BY <1>1, <1>2, <1>3, DivisionUnique
<1>5. 0 * Paragraph = 0
  BY <1>1
<1> QED
  BY <1>4, <1>5 DEF Found

LEMMA FoundHigh ==
  ASSUME NEW x \in Nat, NEW a \in Nat, a <= x
  PROVE  /\ Found(x, a) \in Nat /\ Found(x, a) <= x
         /\ x >= SegmentSize => Found(x, a) < x
<1> DEFINE S == SegmentSize
           P == Paragraph
           w == a \div S
           u == x \div S
           v == x % S
<1>1. S \in Nat \ {0} /\ P \in Nat /\ P < S
  BY HexAssumption
<1>2. Found(x, a) = w * P + v
  BY Zenon DEF Found, S, P, w, v
<1> HIDE DEF S, P
<1>3. /\ a = S * w + (a % S) /\ w \in Nat /\ a % S \in 0 .. S - 1
      /\ x = S * u + v /\ u \in Nat /\ v \in 0 .. S - 1
  BY <1>1
<1> DEFINE z == a % S
<1>4. a = S * w + z /\ z \in 0 .. S - 1
  BY <1>3
<1> HIDE DEF w, u, v, z
<1>5. \A c \in Nat, b \in Nat : c < b => S * b >= S * c + S
  <2> TAKE c \in Nat, b \in Nat
  <2> HAVE c < b
  <2> DEFINE e == b - c - 1
  <2>1. e \in Nat /\ b = c + 1 + e
    OBVIOUS
  <2> HIDE DEF e
  <2>2. S * e \in Nat /\ S * (c + 1 + e) = S * c + S + S * e /\ S * c \in Nat
    BY <1>1, <2>1
  <2> QED
    BY <1>1, <2>1, <2>2
<1>6. S * u \in Nat /\ S * w \in Nat /\ w * P \in Nat
  BY <1>1, <1>3
<1>7. w <= u
  <2>1. ~(u < w)
    BY <1>1, <1>3, <1>4, <1>5, <1>6
  <2> QED
    BY <1>3, <2>1
<1>8. w * P <= S * u /\ (u >= 1 => w * P < S * u)
  <2> DEFINE e == u - w
             d == S - P
  <2>1. e \in Nat /\ u = w + e /\ d \in Nat \ {0} /\ S = P + d
    BY <1>1, <1>3, <1>7
  <2> HIDE DEF e, d
  <2>2. /\ S * u = S * w + S * e /\ S * w = w * P + w * d
        /\ S * e \in Nat /\ w * d \in Nat
    BY <1>1, <1>3, <2>1
  <2>3. w * P <= S * u
    BY <1>6, <2>2
  <2>4. ASSUME u >= 1
        PROVE  w * P < S * u
    <3>1. CASE w = 0
      <4>1. w * P = 0 /\ S * u >= S * 0 + S /\ S * 0 = 0
        BY <1>1, <1>3, <1>5, <2>4, <3>1
      <4> QED
        BY <1>1, <1>6, <4>1
    <3>2. CASE w # 0
      <4>1. w * d >= 1
        BY <1>3, <2>1, <3>2
      <4> QED
        BY <1>6, <2>2, <4>1
    <3> QED
      BY <3>1, <3>2
  <2> QED
    BY <2>3, <2>4
<1>9. x >= S => u >= 1
  <2>1. u = 0 => S * u = 0
    BY <1>1
  <2> QED
    BY <1>1, <1>3, <2>1
<1>10. /\ w * P + v \in Nat /\ w * P + v <= x
       /\ x >= S => w * P + v < x
  BY <1>1, <1>3, <1>6, <1>8, <1>9
<1> QED
  BY <1>2, <1>10 DEF S

(* The base of the r-th data row.                                          *)
LEMMA BaseIs ==
  ASSUME NEW rows, NEW bytes, NEW start \in Nat, NEW n \in Nat,
         RowsTo(rows, bytes, start, n),
         NEW q \in 1 .. Len(rows), NEW r \in 1 .. n, IsDataRow(rows, bytes, start, q, r)
  PROVE  \E a \in Nat : /\ start <= a /\ a <= start + RowSize * (r - 1)
                        /\ BaseOf(rows, q) = (a \div SegmentSize) * Paragraph
<1> DEFINE upper == {i \in 1 .. q : rows[i].type \in {SegmentRow, LinearRow}}
           i == Max(upper)
<1>1. rows \in Seq(AnyRow) /\ rows[1].type = SegmentRow /\ Len(rows) \in Nat /\ q \in Nat
  BY DEF RowsTo
<1>2. 1 \in upper /\ upper \in SUBSET (0 .. q)
  BY <1>1
<1>3. i \in upper
  <2> HIDE DEF upper
  <2> QED
    BY <1>1, <1>2, GreatestOf
<1>4. BaseOf(rows, q) =
        IF upper = {} THEN 0
        ELSE rows[i].data[1] * (IF rows[i].type = SegmentRow THEN Paragraph ELSE SegmentSize)
  BY Zenon DEF BaseOf
<1> HIDE DEF i
<1>5. i \in 1 .. q /\ i \in 1 .. Len(rows) /\ rows[i].type \in {SegmentRow, LinearRow}
  BY <1>1, <1>3
<1>6. rows[i] \in AnyRow
  BY <1>1, <1>5, ElementOfSeq
<1>7. rows[i].type = SegmentRow
  BY <1>5, <1>6 DEF AnyRow, DataRow, EndRow, SegmentRow, LinearRow
<1>8. PICK a \in Nat : /\ start <= a /\ a <= start + RowSize * (r - 1)
                       /\ rows[i].data[1] = a \div SegmentSize
  BY <1>5, <1>7 DEF IsDataRow, UpperUpTo
<1>9. upper # {}
  BY <1>2
<1> HIDE DEF upper
<1>10. BaseOf(rows, q) = (a \div SegmentSize) * Paragraph
  BY <1>4, <1>7, <1>8, <1>9
<1> QED
  BY <1>8, <1>10

(* Where the bytes of a row are found, if the row has those of the file    *)
(* from "first" to "last".                                                 *)
RowHas(row, bytes, start, first, last) ==
  /\ first \in Nat \ {0} /\ last \in first .. Len(bytes) /\ row \in AnyRow
  /\ row.address = (start + first - 1) % SegmentSize
  /\ Len(row.data) = last - first + 1
  /\ \A k \in 1 .. last - first + 1 : row.data[k] = bytes[first + k - 1]

ByteIsFound(row, bytes, start, i, j, a) ==
  /\ a <= start + i - 1
  /\ (a \div SegmentSize) * Paragraph + ((row.address + j - 1) % SegmentSize)
       = Found(start + i - 1, a)
  /\ row.data[j] = bytes[i]

LEMMA ByteFound ==
  ASSUME NEW bytes \in Seq(0 .. 255), NEW start \in Nat, NEW first, NEW last, NEW row,
         RowHas(row, bytes, start, first, last),
         NEW a \in Nat, a <= start + first - 1, NEW j \in DOMAIN row.data
  PROVE  /\ first + j - 1 \in 1 .. Len(bytes) /\ first + j - 1 <= last
         /\ ByteIsFound(row, bytes, start, first + j - 1, j, a)
<1> DEFINE i == first + j - 1
           x == start + first - 1
           k == j - 1
<1>0. /\ first \in Nat \ {0} /\ last \in first .. Len(bytes) /\ row \in AnyRow
      /\ row.address = (start + first - 1) % SegmentSize
      /\ Len(row.data) = last - first + 1
      /\ \A q \in 1 .. last - first + 1 : row.data[q] = bytes[first + q - 1]
  BY DEF RowHas
<1>1. j \in 1 .. last - first + 1
  <2>1. row.data \in Seq(Nat)
    BY <1>0 DEF AnyRow
  <2> QED
    BY <1>0, <2>1
<1>2. /\ Len(bytes) \in Nat /\ last \in Nat /\ first \in Nat \ {0} /\ last <= Len(bytes)
      /\ j \in Nat /\ j >= 1 /\ j <= last - first + 1
  BY <1>0, <1>1
<1>3. i \in 1 .. Len(bytes) /\ i <= last /\ a <= start + i - 1
  BY <1>2
<1>4. x \in Nat /\ k \in Nat /\ SegmentSize \in Nat \ {0} /\ x + k = start + i - 1
  BY <1>2, HexAssumption
<1>5. row.data[j] = bytes[i]
  BY <1>0, <1>1
<1>6. row.address = x % SegmentSize /\ row.address \in Nat
  BY <1>0 DEF AnyRow
<1>7. row.address + j - 1 = row.address + k
  BY <1>2, <1>6
<1> HIDE DEF i, x, k
<1>8. ((x % SegmentSize) + k) % SegmentSize = (x + k) % SegmentSize
  BY <1>4, RemainderOfSum
<1>9. (row.address + j - 1) % SegmentSize = (start + i - 1) % SegmentSize
  BY <1>4, <1>6, <1>7, <1>8, Zenon
<1>10. (a \div SegmentSize) * Paragraph + ((row.address + j - 1) % SegmentSize)
         = Found(start + i - 1, a)
  BY <1>9, Zenon DEF Found
<1> QED
  BY <1>3, <1>5, <1>10, Zenon DEF i, ByteIsFound

(* Where a byte of the r-th data row is found, and that it is one byte of  *)
(* the file.                                                               *)
LEMMA ByteOfRow ==
  ASSUME NEW bytes \in Seq(0 .. 255), NEW start \in Nat, NEW r \in Nat \ {0},
         FirstOf(r) <= Len(bytes), NEW a \in Nat, a <= start + RowSize * (r - 1),
         NEW j \in DOMAIN DataRowOf(bytes, start, r).data
  PROVE  /\ FirstOf(r) + j - 1 \in 1 .. Len(bytes) /\ FirstOf(r) + j - 1 <= RowSize * r
         /\ ByteIsFound(DataRowOf(bytes, start, r), bytes, start, FirstOf(r) + j - 1, j, a)
<1> DEFINE first == FirstOf(r)
           last == LastOf(bytes, r)
           row == DataRowOf(bytes, start, r)
<1>1. last \in first .. Len(bytes) /\ last <= RowSize * r /\ RowHas(row, bytes, start, first, last)
  BY DataRowIs DEF RowHas
<1>2. first = RowSize * (r - 1) + 1 /\ RowSize * (r - 1) \in Nat /\ RowSize * r \in Nat
  BY HexAssumption DEF FirstOf
<1>3. j \in DOMAIN row.data
  OBVIOUS
<1> HIDE DEF first, last, row
<1>4. a <= start + first - 1
  <2> DEFINE v == RowSize * (r - 1)
  <2>1. v \in Nat /\ first = v + 1 /\ a <= start + v
    BY <1>2
  <2> HIDE DEF v
  <2> QED
    BY <2>1
<1>5. /\ first + j - 1 \in 1 .. Len(bytes) /\ first + j - 1 <= last
      /\ ByteIsFound(row, bytes, start, first + j - 1, j, a)
  BY <1>1, <1>3, <1>4, ByteFound
<1>6. first + j - 1 <= RowSize * r
  <2>1. \A x \in 1 .. Len(bytes), y \in first .. Len(bytes), z \in Nat :
          x <= y /\ y <= z => x <= z
    OBVIOUS
  <2> QED
    BY <1>1, <1>2, <1>5, <2>1
<1> QED
  BY <1>5, <1>6, Zenon DEF first, row

(* What a reader finds in rows that hold the first n data rows: each byte  *)
(* of these rows, and nothing else.                                        *)
LEMMA BytesRead ==
  ASSUME NEW bytes \in Seq(0 .. 255), NEW start \in Nat, NEW n \in Nat, Filled(bytes, n),
         NEW rows, RowsTo(rows, bytes, start, n)
  PROVE  /\ \A p \in ReadHex(rows) : \E i \in 1 .. Len(bytes), a \in Nat :
              /\ i <= RowSize * n /\ a <= start + i - 1
              /\ p = <<Found(start + i - 1, a), bytes[i]>>
         /\ \A i \in 1 .. Len(bytes) : i <= RowSize * n =>
              \E a \in Nat : /\ a <= start + i - 1
                             /\ <<Found(start + i - 1, a), bytes[i]>> \in ReadHex(rows)
<1> DEFINE pair(q, j) ==
             <<BaseOf(rows, q) + ((rows[q].address + j - 1) % SegmentSize), rows[q].data[j]>>
<1>1. rows \in Seq(AnyRow)
  BY DEF RowsTo
<1>2. DOMAIN rows = 1 .. Len(rows)
  BY <1>1
<1>3. \A p : p \in ReadHex(rows) <=>
        \E q \in DOMAIN rows : rows[q].type = DataRow /\ \E j \in DOMAIN rows[q].data : p = pair(q, j)
  <2>1. ReadHex(rows) =
          UNION {{pair(q, j) : j \in DOMAIN rows[q].data} :
                   q \in {r \in DOMAIN rows : rows[r].type = DataRow}}
    BY Zenon DEF ReadHex
  <2> HIDE DEF pair
  <2> QED
    BY <2>1
<1>4. ASSUME NEW q \in 1 .. Len(rows), NEW r \in 1 .. n, IsDataRow(rows, bytes, start, q, r)
      PROVE  \E a \in Nat : \A j \in DOMAIN rows[q].data :
               /\ FirstOf(r) + j - 1 \in 1 .. Len(bytes) /\ FirstOf(r) + j - 1 <= RowSize * n
               /\ a <= start + (FirstOf(r) + j - 1) - 1
               /\ pair(q, j) = <<Found(start + (FirstOf(r) + j - 1) - 1, a),
                                 bytes[FirstOf(r) + j - 1]>>
  <2>1. PICK a \in Nat : /\ start <= a /\ a <= start + RowSize * (r - 1)
                         /\ BaseOf(rows, q) = (a \div SegmentSize) * Paragraph
    BY <1>4, BaseIs
  <2>2. rows[q] = DataRowOf(bytes, start, r)
    BY <1>4 DEF IsDataRow
  <2>3. r \in Nat \ {0} /\ FirstOf(r) <= Len(bytes)
    BY DEF Filled
  <2>4. ASSUME NEW j \in DOMAIN rows[q].data
        PROVE  /\ FirstOf(r) + j - 1 \in 1 .. Len(bytes) /\ FirstOf(r) + j - 1 <= RowSize * n
               /\ a <= start + (FirstOf(r) + j - 1) - 1
               /\ pair(q, j) = <<Found(start + (FirstOf(r) + j - 1) - 1, a),
                                 bytes[FirstOf(r) + j - 1]>>
    <3> DEFINE i == FirstOf(r) + j - 1
               row == DataRowOf(bytes, start, r)
    <3>1. j \in DOMAIN row.data
      BY <2>2
    <3>2. /\ i \in 1 .. Len(bytes) /\ i <= RowSize * r /\ a <= start + i - 1
          /\ (a \div SegmentSize) * Paragraph + ((row.address + j - 1) % SegmentSize)
               = Found(start + i - 1, a)
          /\ row.data[j] = bytes[i]
      <4>1. a <= start + RowSize * (r - 1)
        BY <2>1
      <4>2. /\ FirstOf(r) + j - 1 \in 1 .. Len(bytes) /\ FirstOf(r) + j - 1 <= RowSize * r
            /\ ByteIsFound(DataRowOf(bytes, start, r), bytes, start, FirstOf(r) + j - 1, j, a)
        BY <2>3, <3>1, <4>1, ByteOfRow
      <4> QED
        BY <4>2, Zenon DEF ByteIsFound
    <3>3. RowSize * r <= RowSize * n
      <4> DEFINE e == n - r
      <4>1. e \in Nat /\ n = r + e /\ RowSize \in Nat
        BY HexAssumption
      <4> HIDE DEF e
      <4>2. RowSize * (r + e) = RowSize * r + RowSize * e /\ RowSize * e \in Nat
            /\ RowSize * r \in Nat
        BY <2>3, <4>1
      <4> QED
        BY <4>1, <4>2
    <3>4. i <= RowSize * n
      <4> HIDE DEF i
      <4>1. i \in Int /\ RowSize * r \in Int /\ RowSize * n \in Int
        BY <2>3, <3>2, HexAssumption
      <4> QED
        BY <3>2, <3>3, <4>1
    <3>5. pair(q, j) = <<Found(start + i - 1, a), bytes[i]>>
      BY <2>1, <2>2, <3>2, Zenon
    <3> QED
      BY <3>2, <3>4, <3>5
  <2> HIDE DEF pair
  <2> QED
    BY <2>4
<1> HIDE DEF pair
<1>5. ASSUME NEW p \in ReadHex(rows)
      PROVE  \E i \in 1 .. Len(bytes), a \in Nat :
               /\ i <= RowSize * n /\ a <= start + i - 1
               /\ p = <<Found(start + i - 1, a), bytes[i]>>
  <2>1. PICK q \in DOMAIN rows :
          rows[q].type = DataRow /\ \E j \in DOMAIN rows[q].data : p = pair(q, j)
    BY <1>3
  <2>2. PICK j \in DOMAIN rows[q].data : p = pair(q, j)
    BY <2>1
  <2>3. PICK r \in 1 .. n : IsDataRow(rows, bytes, start, q, r)
    BY <1>2, <2>1 DEF RowsTo
  <2>4. PICK a \in Nat :
          /\ FirstOf(r) + j - 1 \in 1 .. Len(bytes) /\ FirstOf(r) + j - 1 <= RowSize * n
          /\ a <= start + (FirstOf(r) + j - 1) - 1
          /\ pair(q, j) = <<Found(start + (FirstOf(r) + j - 1) - 1, a), bytes[FirstOf(r) + j - 1]>>
    BY <1>2, <1>4, <2>2, <2>3
  <2> QED
    BY <2>2, <2>4, Zenon
<1>6. ASSUME NEW i \in 1 .. Len(bytes), i <= RowSize * n
      PROVE  \E a \in Nat : /\ a <= start + i - 1
                            /\ <<Found(start + i - 1, a), bytes[i]>> \in ReadHex(rows)
  <2> DEFINE k == (i - 1) \div RowSize
             r == k + 1
             j == i - RowSize * k
  <2>1. RowSize \in Nat \ {0} /\ i - 1 \in Nat /\ Len(bytes) \in Nat
    BY HexAssumption
  <2>2. i - 1 = RowSize * k + ((i - 1) % RowSize) /\ k \in Nat /\ (i - 1) % RowSize \in 0 .. RowSize - 1
    BY <2>1
  <2> HIDE DEF k
  <2>3. RowSize * k \in Nat /\ RowSize * r = RowSize * k + RowSize
    BY <2>1, <2>2
  <2>4. j \in 1 .. RowSize /\ FirstOf(r) = RowSize * k + 1 /\ FirstOf(r) + j - 1 = i
    BY <2>1, <2>2, <2>3 DEF FirstOf
  <2>5. r \in 1 .. n
    <3>1. ~(n <= k)
      <4> SUFFICES ASSUME n <= k PROVE FALSE
        OBVIOUS
      <4> DEFINE e == k - n
      <4>1. e \in Nat /\ k = n + e
        BY <2>2
      <4> HIDE DEF e
      <4>2. RowSize * (n + e) = RowSize * n + RowSize * e /\ RowSize * e \in Nat
            /\ RowSize * n \in Nat
        BY <2>1, <4>1
      <4>3. RowSize * k = RowSize * n + RowSize * e
        BY <4>1, <4>2
      <4>4. \A x, y, z, v \in Nat : ~(i <= x /\ v = x + y /\ i - 1 = v + z)
        BY <2>1
      <4> QED
        BY <1>6, <2>2, <2>3, <4>2, <4>3, <4>4
    <3> QED
      BY <2>2, <3>1
  <2> HIDE DEF r
  <2>6. PICK q \in 1 .. Len(rows) : IsDataRow(rows, bytes, start, q, r)
    BY <2>5 DEF RowsTo
  <2>7. rows[q] = DataRowOf(bytes, start, r)
    BY <2>6 DEF IsDataRow
  <2>8. FirstOf(r) <= Len(bytes) /\ r \in Nat \ {0}
    BY <2>5 DEF Filled
  <2>9. /\ DataRowOf(bytes, start, r) \in AnyRow /\ DataRowOf(bytes, start, r).type = DataRow
        /\ Len(DataRowOf(bytes, start, r).data) = LastOf(bytes, r) - FirstOf(r) + 1
        /\ LastOf(bytes, r) = IF RowSize * r <= Len(bytes) THEN RowSize * r ELSE Len(bytes)
    BY <2>8, DataRowIs
  <2>10. j \in 1 .. LastOf(bytes, r) - FirstOf(r) + 1
    BY <2>1, <2>3, <2>4, <2>9
  <2> HIDE DEF j
  <2>11. j \in DOMAIN rows[q].data /\ rows[q].type = DataRow
    <3>1. DataRowOf(bytes, start, r).data \in Seq(Nat)
      BY <2>9 DEF AnyRow
    <3> QED
      BY <2>7, <2>9, <2>10, <3>1
  <2>12. PICK a \in Nat :
           /\ a <= start + (FirstOf(r) + j - 1) - 1
           /\ pair(q, j) = <<Found(start + (FirstOf(r) + j - 1) - 1, a), bytes[FirstOf(r) + j - 1]>>
    BY <1>4, <2>5, <2>6, <2>11
  <2>13. pair(q, j) \in ReadHex(rows)
    BY <1>2, <1>3, <2>11
  <2> QED
    BY <2>4, <2>12, <2>13
<1> QED
  BY <1>5, <1>6

HexInput == [bytes : Seq(0 .. 255), start : Nat, readable : Nat, ferror : BOOLEAN]
ReadToEnd(input) == input.readable >= Len(input.bytes)
HasEnd(rows) == \E q \in DOMAIN rows : rows[q].type = EndRow

LEMMA FilledTo ==
  ASSUME NEW bytes \in Seq(0 .. 255), NEW n \in Nat, RowSize * n <= Len(bytes) + RowSize - 1
  PROVE  Filled(bytes, n)
<1> SUFFICES ASSUME NEW r \in 1 .. n
             PROVE  FirstOf(r) <= Len(bytes)
  BY DEF Filled
<1> DEFINE e == n - r
           w == r - 1
<1>1. e \in Nat /\ w \in Nat /\ n = (w + 1) + e /\ RowSize \in Nat /\ Len(bytes) \in Nat
  BY HexAssumption
<1>2. FirstOf(r) = RowSize * w + 1
  BY DEF FirstOf
<1> HIDE DEF e, w
<1>3. /\ RowSize * ((w + 1) + e) = RowSize * w + RowSize + RowSize * e
      /\ RowSize * w \in Nat /\ RowSize * e \in Nat
  BY <1>1
<1>4. RowSize * n = RowSize * w + RowSize + RowSize * e
  BY <1>1, <1>3
<1> QED
  BY <1>1, <1>2, <1>3, <1>4

(* The data rows of a file that was read to its end are those of all its   *)
(* bytes; otherwise they are the full rows of what could be read.          *)
LEMMA RowCount ==
  ASSUME NEW bytes \in Seq(0 .. 255), NEW readable \in Nat
  PROVE  /\ (Len(bytes) + RowSize - 1) \div RowSize \in Nat
         /\ Len(bytes) <= RowSize * ((Len(bytes) + RowSize - 1) \div RowSize)
         /\ Filled(bytes, (Len(bytes) + RowSize - 1) \div RowSize)
         /\ readable \div RowSize \in Nat
         /\ RowSize * (readable \div RowSize) <= readable
         /\ readable < Len(bytes) => Filled(bytes, readable \div RowSize)
<1> DEFINE x == Len(bytes) + RowSize - 1
           m == x \div RowSize
           u == x % RowSize
           n == readable \div RowSize
           v == readable % RowSize
<1>1. RowSize \in Nat \ {0} /\ Len(bytes) \in Nat /\ x \in Nat
  BY HexAssumption
<1>2. x = RowSize * m + u /\ m \in Nat /\ u \in 0 .. RowSize - 1
  <2> HIDE DEF x
  <2> QED
    BY <1>1
<1>3. readable = RowSize * n + v /\ n \in Nat /\ v \in 0 .. RowSize - 1
  BY <1>1
<1> HIDE DEF m, u, n, v
<1>4. RowSize * m \in Nat /\ RowSize * n \in Nat
  BY <1>1, <1>2, <1>3
<1>5. Len(bytes) <= RowSize * m /\ RowSize * m <= Len(bytes) + RowSize - 1
  BY <1>1, <1>2, <1>4
<1>6. RowSize * n <= readable
  BY <1>1, <1>3, <1>4
<1>7. Filled(bytes, m)
  BY <1>2, <1>5, FilledTo
<1>8. ASSUME readable < Len(bytes)
      PROVE  Filled(bytes, n)
  <2>1. RowSize * n <= Len(bytes) + RowSize - 1
    BY <1>1, <1>4, <1>6, <1>8
  <2> QED
    BY <1>3, <2>1, FilledTo
<1> QED
  BY <1>2, <1>3, <1>5, <1>6, <1>7, <1>8 DEF m, n

LEMMA RowsOfHex ==
  ASSUME NEW input \in HexInput
  PROVE  \E n \in Nat :
           /\ Filled(input.bytes, n)
           /\ RowsTo(HexOf(input).rows, input.bytes, input.start, n)
           /\ ReadToEnd(input) => Len(input.bytes) <= RowSize * n /\ HasEnd(HexOf(input).rows)
           /\ ~ReadToEnd(input) =>
                RowSize * n <= input.readable /\ ~HasEnd(HexOf(input).rows)
<1> DEFINE bytes == input.bytes
           start == input.start
           n == IF ReadToEnd(input) THEN (Len(bytes) + RowSize - 1) \div RowSize
                ELSE input.readable \div RowSize
           end == IF ReadToEnd(input) THEN <<Row(EndRow, 0, <<>>)>> ELSE <<>>
           rows == RowsBefore(bytes, start, n)
<1>1. /\ bytes \in Seq(0 .. 255) /\ start \in Nat /\ input.readable \in Nat
      /\ Len(bytes) \in Nat
  BY DEF HexInput
<1>2. HexOf(input).rows =
        UpperRow(start)
          \o FlattenSeq([r \in 1 .. n |-> RowsFrom(bytes, start, RowSize * (r - 1) + 1)]) \o end
  BY DEF HexOf, bin2hex, ReadToEnd
<1> HIDE DEF bytes, start
<1>3. n \in Nat /\ Filled(bytes, n)
  <2>1. CASE ReadToEnd(input)
    BY <1>1, <2>1, RowCount
  <2>2. CASE ~ReadToEnd(input)
    <3>1. input.readable < Len(bytes)
      BY <1>1, <2>2 DEF ReadToEnd, bytes
    <3> QED
      BY <1>1, <2>2, <3>1, RowCount
  <2> QED
    BY <2>1, <2>2
<1>4. ReadToEnd(input) => Len(bytes) <= RowSize * n
  BY <1>1, RowCount
<1>5. ~ReadToEnd(input) => RowSize * n <= input.readable
  BY <1>1, RowCount
<1>6. HexOf(input).rows = rows \o end
  BY <1>2, Zenon DEF RowsBefore
<1> HIDE DEF n
<1>7. RowsTo(rows, bytes, start, n) /\ rows \in Seq(OpenRow)
  BY <1>1, <1>3, RowsBuilt
<1> HIDE DEF rows
<1>8. CASE ReadToEnd(input)
  <2> DEFINE row == Row(EndRow, 0, <<>>)
  <2>1. row \in AnyRow /\ row.type = EndRow
    <3>1. EndRow \in {DataRow, EndRow, SegmentRow} /\ 0 \in Nat /\ <<>> \in Seq(Nat)
      OBVIOUS
    <3> QED
      BY <3>1, RowType
  <2>2. HexOf(input).rows = rows \o <<row>>
    BY <1>6, <1>8
  <2> HIDE DEF row
  <2>3. row.type # DataRow /\ row.type # SegmentRow
    BY <2>1 DEF EndRow, DataRow, SegmentRow
  <2>4. RowsTo(rows \o <<row>>, bytes, start, n)
    BY <1>1, <1>3, <1>7, <2>1, <2>3, OtherRowMore
  <2>5. HasEnd(rows \o <<row>>)
    <3>1. rows \in Seq(AnyRow) /\ Len(rows) \in Nat
      BY <1>7 DEF RowsTo
    <3>2. /\ rows \o <<row>> \in Seq(AnyRow) /\ Len(rows \o <<row>>) = Len(rows) + 1
          /\ (rows \o <<row>>)[Len(rows) + 1] = row
      BY <2>1, <3>1, OneRowMore
    <3> DEFINE more == rows \o <<row>>
    <3>3. more \in Seq(AnyRow) /\ Len(more) = Len(rows) + 1 /\ more[Len(rows) + 1] = row
      BY <3>2
    <3> HIDE DEF more
    <3>4. Len(rows) + 1 \in DOMAIN more
      BY <3>1, <3>3
    <3>5. HasEnd(more)
      BY <2>1, <3>3, <3>4 DEF HasEnd
    <3> QED
      BY <3>5 DEF more
  <2> QED
    BY <1>3, <1>4, <1>8, <2>2, <2>4, <2>5 DEF bytes, start
<1>9. CASE ~ReadToEnd(input)
  <2>1. HexOf(input).rows = rows
    <3>1. end = <<>>
      BY <1>9
    <3> QED
      BY <1>6, <1>7, <3>1, ConcatEmptySeq
  <2>2. ~HasEnd(rows)
    <3>1. \A q \in DOMAIN rows : rows[q] \in OpenRow
      BY <1>7, ElementOfSeq
    <3> QED
      BY <3>1 DEF HasEnd, OpenRow, EndRow, DataRow, SegmentRow
  <2> QED
    BY <1>3, <1>5, <1>7, <1>9, <2>1, <2>2 DEF bytes, start
<1> QED
  BY <1>8, <1>9

(* The content a reader should find.                                       *)
Wanted(input) == {<<input.start + i - 1, input.bytes[i]>> : i \in DOMAIN input.bytes}

LEMMA HexComesBack ==
  ASSUME NEW input \in HexInput
  PROVE  LET found == ReadHex(HexOf(input).rows)
             fits == input.start + Len(input.bytes) <= SegmentSize
         IN  IF ReadToEnd(input)
               THEN HasEnd(HexOf(input).rows)
                      /\ (found = Wanted(input) <=> fits \/ input.bytes = <<>>)
               ELSE ~HasEnd(HexOf(input).rows)
                      /\ (fits => found \subseteq Wanted(input) /\ found # Wanted(input))
<1> DEFINE bytes == input.bytes
           start == input.start
           found == ReadHex(HexOf(input).rows)
           wanted == Wanted(input)
           fits == start + Len(bytes) <= SegmentSize
<1>1. /\ bytes \in Seq(0 .. 255) /\ start \in Nat /\ input.readable \in Nat
      /\ Len(bytes) \in Nat /\ DOMAIN bytes = 1 .. Len(bytes)
  BY DEF HexInput
<1>2. PICK n \in Nat :
        /\ Filled(bytes, n)
        /\ RowsTo(HexOf(input).rows, bytes, start, n)
        /\ ReadToEnd(input) => Len(bytes) <= RowSize * n /\ HasEnd(HexOf(input).rows)
        /\ ~ReadToEnd(input) => RowSize * n <= input.readable /\ ~HasEnd(HexOf(input).rows)
  BY RowsOfHex
<1>3. wanted = {<<start + i - 1, bytes[i]>> : i \in 1 .. Len(bytes)}
  BY <1>1 DEF Wanted
<1>4. ~ReadToEnd(input) => input.readable < Len(bytes)
  BY <1>1 DEF ReadToEnd
<1> HIDE DEF bytes, start
<1>5. /\ \A p \in found : \E i \in 1 .. Len(bytes), a \in Nat :
           /\ i <= RowSize * n /\ a <= start + i - 1
           /\ p = <<Found(start + i - 1, a), bytes[i]>>
      /\ \A i \in 1 .. Len(bytes) : i <= RowSize * n =>
           \E a \in Nat : /\ a <= start + i - 1
                          /\ <<Found(start + i - 1, a), bytes[i]>> \in found
  BY <1>1, <1>2, BytesRead
<1> HIDE DEF found, wanted, fits
<1>6. \A i \in 1 .. Len(bytes), a \in Nat : fits /\ a <= start + i - 1 =>
        Found(start + i - 1, a) = start + i - 1
  <2> TAKE i \in 1 .. Len(bytes), a \in Nat
  <2> HAVE fits /\ a <= start + i - 1
  <2> DEFINE x == start + i - 1
  <2>1. x \in Nat /\ x < SegmentSize /\ a <= x
    BY <1>1, HexAssumption DEF fits
  <2> HIDE DEF x
  <2>2. Found(x, a) = x
    BY <2>1, FoundLow
  <2> QED
    BY <2>2 DEF x
<1>7. ASSUME fits
      PROVE  found \subseteq wanted
  <2> SUFFICES ASSUME NEW p \in found PROVE p \in wanted
    OBVIOUS
  <2>1. PICK i \in 1 .. Len(bytes), a \in Nat :
          a <= start + i - 1 /\ p = <<Found(start + i - 1, a), bytes[i]>>
    BY <1>5
  <2>2. p = <<start + i - 1, bytes[i]>>
    BY <1>6, <1>7, <2>1
  <2> QED
    BY <1>3, <2>2
<1>8. ASSUME fits, Len(bytes) <= RowSize * n
      PROVE  wanted \subseteq found
  <2> SUFFICES ASSUME NEW p \in wanted PROVE p \in found
    OBVIOUS
  <2>1. PICK i \in 1 .. Len(bytes) : p = <<start + i - 1, bytes[i]>>
    BY <1>3
  <2>2. i <= RowSize * n
    BY <1>1, <1>2, <1>8, HexAssumption
  <2>3. PICK a \in Nat :
          a <= start + i - 1 /\ <<Found(start + i - 1, a), bytes[i]>> \in found
    BY <1>5, <2>2
  <2>4. Found(start + i - 1, a) = start + i - 1
    BY <1>6, <1>8, <2>3
  <2> QED
    BY <2>1, <2>3, <2>4
<1>9. ASSUME bytes = <<>>
      PROVE  found = wanted
  <2>1. Len(bytes) = 0
    BY <1>9
  <2>2. 1 .. Len(bytes) = {}
    BY <2>1
  <2>3. found = {} /\ wanted = {}
    BY <1>3, <1>5, <2>2
  <2> QED
    BY <2>3
<1> DEFINE k == Len(bytes)
           x == start + k - 1
<1>10. bytes # <<>> => k \in 1 .. Len(bytes) /\ x \in Nat /\ <<x, bytes[k]>> \in wanted
  <2> SUFFICES ASSUME bytes # <<>>
               PROVE  k \in 1 .. Len(bytes) /\ x \in Nat /\ <<x, bytes[k]>> \in wanted
    OBVIOUS
  <2>1. k # 0
    BY <1>1
  <2>2. k \in 1 .. Len(bytes)
    BY <1>1, <2>1
  <2> QED
    BY <1>1, <1>3, <2>2
<1>11. \A i \in 1 .. Len(bytes) : i < k => start + i - 1 < x
  BY <1>1
<1>12. x \in Int /\ k \in Nat
  BY <1>1
<1> HIDE DEF k
<1>13. ASSUME ~fits, bytes # <<>>
       PROVE  found # wanted
  <2> SUFFICES ASSUME <<x, bytes[k]>> \in found
               PROVE  FALSE
    BY <1>10, <1>13
  <2>1. PICK i \in 1 .. Len(bytes), a \in Nat :
          a <= start + i - 1 /\ <<x, bytes[k]>> = <<Found(start + i - 1, a), bytes[i]>>
    BY <1>5
  <2> DEFINE y == start + i - 1
  <2>2. y \in Nat /\ a <= y /\ y <= x /\ (y = x \/ y < x) /\ x = Found(y, a) /\ x \in Nat
    BY <1>1, <2>1 DEF k
  <2>3. x >= SegmentSize
    BY <1>1, <1>13, HexAssumption DEF fits, k
  <2> HIDE DEF y, x
  <2>4. Found(y, a) \in Nat /\ Found(y, a) <= y /\ (y >= SegmentSize => Found(y, a) < y)
    BY <2>2, FoundHigh
  <2> QED
    BY <2>2, <2>3, <2>4, HexAssumption
<1>14. ASSUME ~ReadToEnd(input), fits
       PROVE  found # wanted
  <2>1. RowSize * n <= input.readable /\ input.readable < Len(bytes) /\ RowSize * n \in Nat
    BY <1>2, <1>4, <1>14, HexAssumption
  <2>2. bytes # <<>>
    BY <1>1, <2>1
  <2> SUFFICES ASSUME <<x, bytes[k]>> \in found
               PROVE  FALSE
    BY <1>10, <2>2
  <2>3. PICK i \in 1 .. Len(bytes), a \in Nat :
          /\ i <= RowSize * n /\ a <= start + i - 1
          /\ <<x, bytes[k]>> = <<Found(start + i - 1, a), bytes[i]>>
    BY <1>5
  <2>4. x = start + i - 1
    BY <1>6, <1>14, <2>3
  <2> HIDE DEF x
  <2>5. ~(i < k)
    BY <1>11, <1>12, <2>4
  <2>6. i < k
    <3>1. \A y \in Nat : i <= y /\ y <= input.readable => i < k
      BY <1>1, <2>1 DEF k
    <3> QED
      BY <2>1, <2>3, <3>1
  <2> QED
    BY <2>5, <2>6
<1>15. ReadToEnd(input) =>
         HasEnd(HexOf(input).rows) /\ (found = wanted <=> fits \/ bytes = <<>>)
  BY <1>2, <1>7, <1>8, <1>9, <1>13
<1>16. ~ReadToEnd(input) =>
         ~HasEnd(HexOf(input).rows) /\ (fits => found \subseteq wanted /\ found # wanted)
  BY <1>2, <1>7, <1>14
<1> QED
  BY <1>15, <1>16 DEF found, wanted, fits, bytes, start

(* For all files and start addresses: a reader finds the bytes that were   *)
(* converted at their addresses exactly if they end in the first segment   *)
(* or there are none, and a file that was not read to its end has lost     *)
(* bytes and has no end row, whatever the result is (bin2hex.c:20-110).    *)
THEOREM HexReturns == ValuesSpec => []HexReadsBack
<1>1. ASSUME ValuesInv
      PROVE  HexReadsBack
  <2> SUFFICES ASSUME kind = "hex", stage = "back"
               PROVE  HexReadsBack
    BY DEF HexReadsBack
  <2>1. given \in HexInput /\ stored = HexOf(given) /\ back = ReadHex(HexOf(given).rows)
    BY <1>1, ValuesAssumption DEF ValuesInv, HexInv, HexInput
  <2>2. IF ReadToEnd(given)
          THEN HasEnd(stored.rows)
                 /\ (back = Wanted(given)
                       <=> given.start + Len(given.bytes) <= SegmentSize \/ given.bytes = <<>>)
          ELSE ~HasEnd(stored.rows)
                 /\ (given.start + Len(given.bytes) <= SegmentSize
                       => back \subseteq Wanted(given) /\ back # Wanted(given))
    BY <2>1, HexComesBack, Zenon
  <2> QED
    BY <2>2, Zenon DEF HexReadsBack, ReadToEnd, HasEnd, Wanted
<1> QED
  BY <1>1, ValuesInvHolds, PTL

(***************************************************************************)
(* The words of a command line                                             *)
(*                                                                         *)
(* parse_main_args reads a line option by option (FieldsAre).  What argv   *)
(* holds at an option has the words of the line, reordered (ArgvIs); on a  *)
(* line of the usage text only the option -o can displace a word, and it   *)
(* does unless it comes last (ModeFirst, OutputFirst).                     *)
(***************************************************************************)
(* A function that is defined by counting up exists.  The step is a        *)
(* function too, so that the lemma has no operator for a parameter.        *)
CountsUp(f, N, base, next) ==
  f = [k \in 0 .. N |-> IF k = 0 THEN base ELSE next[<<k, f[k - 1]>>]]

LEMMA Counted ==
  ASSUME NEW N \in Nat, NEW X, NEW base \in X,
         NEW next, \A k \in 1 .. N, x \in X : next[<<k, x>>] \in X
  PROVE  \E f \in [0 .. N -> X] : CountsUp(f, N, base, next)
<1> DEFINE Upto(n, f) == /\ f \in [0 .. n -> X] /\ f[0] = base
                         /\ \A k \in 1 .. n : f[k] = next[<<k, f[k - 1]>>]
           T == {n \in 0 .. N : \E f : Upto(n, f)}
<1>1. 0 \in T
  <2> DEFINE g == [k \in 0 .. 0 |-> base]
  <2>1. g \in [0 .. 0 -> X] /\ g[0] = base
    OBVIOUS
  <2>2. \A k \in 1 .. 0 : FALSE
    OBVIOUS
  <2> HIDE DEF g
  <2>3. Upto(0, g)
    BY <2>1, <2>2
  <2>4. 0 \in 0 .. N
    OBVIOUS
  <2> HIDE DEF Upto
  <2> QED
    BY <2>3, <2>4
<1>2. ASSUME NEW n \in T, n < N
      PROVE  n + 1 \in T
  <2>1. PICK f : Upto(n, f)
    BY <1>2
  <2>2. n \in Nat /\ n + 1 \in 1 .. N /\ n + 1 \in 0 .. N
    BY <1>2
  <2> DEFINE g == [k \in 0 .. n + 1 |-> IF k <= n THEN f[k] ELSE next[<<n + 1, f[n]>>]]
  <2>3. f[n] \in X
    BY <2>1, <2>2
  <2>4. next[<<n + 1, f[n]>>] \in X
    BY <2>2, <2>3
  <2>5. g \in [0 .. n + 1 -> X] /\ g[0] = base
    BY <2>1, <2>2, <2>4
  <2>6. ASSUME NEW k \in 1 .. n + 1
        PROVE  g[k] = next[<<k, g[k - 1]>>]
    <3>1. CASE k <= n
      <4>1. k \in 1 .. n /\ k - 1 \in 0 .. n + 1 /\ k \in 0 .. n + 1 /\ k - 1 <= n
        BY <2>2, <3>1
      <4>2. g[k] = f[k] /\ g[k - 1] = f[k - 1]
        BY <3>1, <4>1
      <4> QED
        BY <2>1, <4>1, <4>2
    <3>2. CASE ~(k <= n)
      <4>1. k = n + 1 /\ k - 1 = n /\ n \in 0 .. n + 1 /\ n + 1 \in 0 .. n + 1 /\ ~(n + 1 <= n)
        BY <2>2, <3>2
      <4>2. g[n + 1] = next[<<n + 1, f[n]>>] /\ g[n] = f[n]
        BY <2>2, <4>1
      <4> QED
        BY <4>1, <4>2
    <3> QED
      BY <3>1, <3>2
  <2> HIDE DEF g
  <2>7. Upto(n + 1, g)
    BY <2>5, <2>6
  <2> QED
    BY <2>2, <2>7
<1> HIDE DEF Upto
<1>3. N \in T
  <2>1. T \in SUBSET (0 .. N)
    OBVIOUS
  <2> HIDE DEF T
  <2>2. T = 0 .. N
    BY <1>1, <1>2, <2>1, CountingUp
  <2> QED
    BY <2>2
<1>4. PICK f : Upto(N, f)
  BY <1>3
<1>5. f = [k \in 0 .. N |-> IF k = 0 THEN base ELSE next[<<k, f[k - 1]>>]]
  <2> DEFINE g == [k \in 0 .. N |-> IF k = 0 THEN base ELSE next[<<k, f[k - 1]>>]]
  <2>1. f \in [0 .. N -> X]
    BY <1>4 DEF Upto
  <2>2. \A k \in 0 .. N : f[k] = g[k]
    <3> TAKE k \in 0 .. N
    <3>1. CASE k = 0
      BY <1>4, <3>1 DEF Upto
    <3>2. CASE k # 0
      <4>1. k \in 1 .. N
        BY <3>2
      <4> QED
        BY <1>4, <3>2, <4>1 DEF Upto
    <3> QED
      BY <3>1, <3>2
  <2>3. DOMAIN g = 0 .. N /\ DOMAIN f = 0 .. N /\ g = [k \in 0 .. N |-> g[k]]
    BY <2>1
  <2>4. f = [k \in 0 .. N |-> f[k]]
    BY <2>1
  <2> HIDE DEF g
  <2>5. f = g
    BY <2>2, <2>3, <2>4
  <2> QED
    BY <2>5 DEF g
<1> QED
  BY <1>4, <1>5 DEF Upto, CountsUp

(* getopt, word by word: the word at k is an option if it looks like one   *)
(* and is not the argument of the option before it.                        *)
LEMMA OptionsAre ==
  ASSUME NEW W, NEW line \in Seq(W)
  PROVE  /\ IsOptionAt(line) \in [0 .. Len(line) -> BOOLEAN]
         /\ ~IsOptionAt(line)[0]
         /\ \A k \in 1 .. Len(line) :
              IsOptionAt(line)[k] <=>
                /\ line[k] \in OptionWord
                /\ ~(k > 1 /\ IsOptionAt(line)[k - 1] /\ line[k - 1] \in WithArgument)
<1> DEFINE N == Len(line)
           h(k, x) == /\ line[k] \in OptionWord
                      /\ ~(k > 1 /\ x /\ line[k - 1] \in WithArgument)
           next == [a \in (1 .. N) \X BOOLEAN |-> h(a[1], a[2])]
           Is(f) == f = [k \in 0 .. N |-> k > 0 /\ h(k, f[k - 1])]
<1>1. N \in Nat
  OBVIOUS
<1>2. IsOptionAt(line) = CHOOSE f : Is(f)
  BY Zenon DEF IsOptionAt
<1>3. \A k \in 1 .. N, x \in BOOLEAN : h(k, x) \in BOOLEAN
  OBVIOUS
<1> HIDE DEF h, N
<1>4. \A k \in 1 .. N, x \in BOOLEAN : next[<<k, x>>] = h(k, x)
  OBVIOUS
<1>5. \A k \in 1 .. N, x \in BOOLEAN : next[<<k, x>>] \in BOOLEAN
  BY <1>3, <1>4
<1> HIDE DEF next
<1>6. PICK g \in [0 .. N -> BOOLEAN] :
        g = [k \in 0 .. N |-> IF k = 0 THEN FALSE ELSE next[<<k, g[k - 1]>>]]
  <2> DEFINE X == BOOLEAN
             base == FALSE
  <2>1. base \in X /\ \A k \in 1 .. N, x \in X : next[<<k, x>>] \in X
    BY <1>5
  <2> HIDE DEF X, base
  <2>2. \E g \in [0 .. N -> X] : CountsUp(g, N, base, next)
    BY <1>1, <2>1, Counted
  <2> QED
    BY <2>2, Zenon DEF X, base, CountsUp
<1>7. \A k \in 0 .. N :
        (IF k = 0 THEN FALSE ELSE next[<<k, g[k - 1]>>]) = (k > 0 /\ h(k, g[k - 1]))
  <2> TAKE k \in 0 .. N
  <2>1. CASE k = 0
    <3>1. (k > 0 /\ h(k, g[k - 1])) = FALSE
      <4>1. ~(k > 0)
        BY <2>1
      <4> QED
        BY <4>1, Zenon
    <3>2. (IF k = 0 THEN FALSE ELSE next[<<k, g[k - 1]>>]) = FALSE
      BY <2>1, Zenon
    <3> QED
      BY <3>1, <3>2, Zenon
  <2>2. CASE k # 0
    <3>1. k \in 1 .. N /\ k - 1 \in 0 .. N /\ k > 0
      BY <1>1, <2>2
    <3>2. g[k - 1] \in BOOLEAN
      BY <3>1
    <3>3. next[<<k, g[k - 1]>>] = h(k, g[k - 1]) /\ h(k, g[k - 1]) \in BOOLEAN
      BY <1>3, <1>4, <3>1, <3>2
    <3> QED
      BY <2>2, <3>1, <3>3
  <2> QED
    BY <2>1, <2>2
<1>8. Is(g)
  BY <1>6, <1>7
<1> DEFINE f == IsOptionAt(line)
<1>9. Is(f)
  BY <1>2, <1>8, Zenon
<1> HIDE DEF f
<1>10. f = [k \in 0 .. N |-> k > 0 /\ h(k, f[k - 1])]
  BY <1>9
<1>11. f[0] = FALSE /\ \A k \in 1 .. N : f[k] = h(k, f[k - 1])
  BY <1>1, <1>10
<1>12. f \in [0 .. N -> BOOLEAN]
  BY <1>1, <1>10 DEF h
<1> QED
  BY <1>11, <1>12 DEF f, h, N

WordsUpTo(words, line, places) ==
  /\ words[0] = <<>>
  /\ \A k \in 1 .. Len(line) :
       words[k] = IF k \in places THEN Append(words[k - 1], line[k]) ELSE words[k - 1]

LEMMA WordsAre ==
  ASSUME NEW W, NEW line \in Seq(W), NEW places
  PROVE  \E words \in [0 .. Len(line) -> Seq(Range(line))] :
           WordsUpTo(words, line, places) /\ WordsAt(line, places) = words[Len(line)]
<1> DEFINE N == Len(line)
           X == Seq(Range(line))
           h(k, x) == IF k \in places THEN Append(x, line[k]) ELSE x
           next == [a \in (1 .. N) \X X |-> h(a[1], a[2])]
           Is(f) == f = [k \in 0 .. N |-> IF k = 0 THEN <<>>
                                          ELSE IF k \in places THEN Append(f[k - 1], line[k])
                                          ELSE f[k - 1]]
           f == CHOOSE f : Is(f)
<1>1. N \in Nat
  OBVIOUS
<1>2. WordsAt(line, places) = f[N]
  BY Zenon DEF WordsAt
<1>3. \A k \in 1 .. N, x \in X : h(k, x) \in X
  <2> TAKE k \in 1 .. N, x \in X
  <2>1. line[k] \in Range(line)
    BY DEF Range
  <2> QED
    BY <2>1
<1>4. \A k \in 1 .. N, x \in X : next[<<k, x>>] = h(k, x)
  <2> HIDE DEF h, X, N
  <2> QED
    OBVIOUS
<1>5. <<>> \in X
  OBVIOUS
<1> HIDE DEF N, X, f
<1>6. \A k \in 1 .. N, x \in X : next[<<k, x>>] \in X
  <2> HIDE DEF h, next
  <2> QED
    BY <1>3, <1>4
<1> HIDE DEF next
<1>7. PICK g \in [0 .. N -> X] : CountsUp(g, N, <<>>, next)
  <2> DEFINE base == <<>>
  <2>1. base \in X
    BY <1>5
  <2> HIDE DEF base
  <2>2. \E g \in [0 .. N -> X] : CountsUp(g, N, base, next)
    BY <1>1, <1>6, <2>1, Counted
  <2> QED
    BY <2>2, Zenon DEF base
<1>8. Is(g)
  <2>1. g = [k \in 0 .. N |-> IF k = 0 THEN <<>> ELSE next[<<k, g[k - 1]>>]]
    BY <1>7, Zenon DEF CountsUp
  <2>2. \A k \in 0 .. N :
          (IF k = 0 THEN <<>> ELSE next[<<k, g[k - 1]>>])
            = (IF k = 0 THEN <<>> ELSE h(k, g[k - 1]))
    <3> TAKE k \in 0 .. N
    <3>1. k # 0 => k \in 1 .. N /\ g[k - 1] \in X
      BY <1>1, <1>7
    <3> QED
      BY <1>4, <3>1, Zenon
  <2>3. g = [k \in 0 .. N |-> IF k = 0 THEN <<>> ELSE h(k, g[k - 1])]
    <3> HIDE DEF h
    <3> QED
      BY <2>1, <2>2
  <2> QED
    BY <2>3, Zenon
<1>9. Is(f)
  <2> HIDE DEF Is
  <2> QED
    BY <1>8, Zenon DEF f
<1>10. f = [k \in 0 .. N |-> IF k = 0 THEN <<>> ELSE h(k, f[k - 1])]
  BY <1>9, Zenon
<1> HIDE DEF h, Is
<1>11. f[0] = <<>> /\ (\A k \in 1 .. N : f[k] = h(k, f[k - 1])) /\ f = [k \in 0 .. N |-> f[k]]
  <2> DEFINE v(k) == IF k = 0 THEN <<>> ELSE h(k, f[k - 1])
  <2>1. f = [k \in 0 .. N |-> v(k)]
    BY <1>10, Zenon
  <2> HIDE DEF v
  <2>2. (\A k \in 0 .. N : f[k] = v(k)) /\ DOMAIN f = 0 .. N /\ f = [k \in DOMAIN f |-> f[k]]
    BY <2>1
  <2>3. v(0) = <<>> /\ \A k \in 1 .. N : v(k) = h(k, f[k - 1])
    BY <1>1 DEF v
  <2>4. 0 \in 0 .. N /\ \A k \in 1 .. N : k \in 0 .. N
    BY <1>1
  <2> QED
    BY <2>2, <2>3, <2>4
<1>12. f \in [0 .. N -> X]
  <2> DEFINE T == {k \in 0 .. N : f[k] \in X}
  <2>1. 0 \in T
    BY <1>1, <1>5, <1>11
  <2>2. ASSUME NEW k \in T, k < N
        PROVE  k + 1 \in T
    <3>1. k \in Nat /\ k + 1 \in 1 .. N /\ k + 1 \in 0 .. N /\ (k + 1) - 1 = k /\ f[k] \in X
      BY <1>1, <2>2
    <3>2. f[k + 1] = h(k + 1, f[k])
      BY <1>11, <3>1
    <3> QED
      BY <1>3, <3>1, <3>2
  <2>3. T \in SUBSET (0 .. N)
    OBVIOUS
  <2> HIDE DEF T
  <2>4. T = 0 .. N
    BY <1>1, <2>1, <2>2, <2>3, CountingUp
  <2> QED
    BY <1>11, <2>4 DEF T
<1>13. WordsUpTo(f, line, places)
  BY <1>11 DEF WordsUpTo, N, h
<1> QED
  BY <1>2, <1>12, <1>13 DEF N, X

(* There are as many words as places, and they are words of the line.      *)
LEMMA WordsType ==
  ASSUME NEW W, NEW line \in Seq(W), NEW places \in SUBSET (1 .. Len(line))
  PROVE  /\ WordsAt(line, places) \in Seq(Range(line))
         /\ Len(WordsAt(line, places)) = Cardinality(places)
<1> DEFINE N == Len(line)
           Upto(k) == {q \in places : q <= k}
<1>1. N \in Nat
  OBVIOUS
<1>2. PICK words \in [0 .. N -> Seq(Range(line))] :
        WordsUpTo(words, line, places) /\ WordsAt(line, places) = words[N]
  BY WordsAre
<1>3. words[0] = <<>> /\ \A k \in 1 .. N :
        words[k] = IF k \in places THEN Append(words[k - 1], line[k]) ELSE words[k - 1]
  BY <1>2 DEF WordsUpTo
<1>4. \A q \in places : q \in Nat /\ 1 <= q /\ q <= N
  <2>1. \A q \in 1 .. N : q \in Nat /\ 1 <= q /\ q <= N
    BY <1>1
  <2> QED
    BY <2>1
<1> HIDE DEF N
<1>5. IsFiniteSet(places)
  <2>1. places \in SUBSET Nat
    BY <1>4
  <2> QED
    BY <1>1, <1>4, <2>1, FS_BoundedSetOfNaturals
<1>6. \A k, q : q \in Upto(k) <=> q \in places /\ q <= k
  OBVIOUS
<1> HIDE DEF Upto
<1> DEFINE T == {k \in 0 .. N : Len(words[k]) = Cardinality(Upto(k))}
<1>7. 0 \in T
  <2>1. Upto(0) = {}
    <3>1. \A q : q \notin Upto(0)
      <4>1. \A q \in places : ~(q <= 0)
        BY <1>4
      <4> QED
        BY <1>6, <4>1, Zenon
    <3> QED
      BY <3>1, Zenon
  <2>2. Len(words[0]) = 0 /\ 0 \in 0 .. N
    BY <1>1, <1>3
  <2>3. Cardinality(Upto(0)) = 0
    BY <2>1, FS_EmptySet
  <2> QED
    BY <2>2, <2>3
<1>8. ASSUME NEW k \in T, k < N
      PROVE  k + 1 \in T
  <2>1. /\ k \in Nat /\ k + 1 \in 1 .. N /\ k + 1 \in 0 .. N /\ (k + 1) - 1 = k
        /\ words[k] \in Seq(Range(line))
    BY <1>1, <1>8
  <2>2. Len(words[k]) = Cardinality(Upto(k))
    OBVIOUS
  <2>3. words[k + 1] = IF k + 1 \in places THEN Append(words[k], line[k + 1]) ELSE words[k]
    BY <1>3, <2>1
  <2>4. CASE k + 1 \in places
    <3>1. line[k + 1] \in Range(line)
      BY <2>1 DEF Range, N
    <3>2. Len(words[k + 1]) = Len(words[k]) + 1
      BY <2>1, <2>3, <2>4, <3>1
    <3>3. Upto(k + 1) = Upto(k) \cup {k + 1} /\ k + 1 \notin Upto(k) /\ Upto(k) \subseteq places
      <4>1. k + 1 \in Upto(k + 1) /\ k + 1 \notin Upto(k)
        BY <1>6, <2>1, <2>4
      <4>2. \A q \in places : q <= k + 1 <=> q <= k \/ q = k + 1
        BY <1>4, <2>1
      <4>3. \A q : q \in Upto(k + 1) <=> q \in Upto(k) \/ q = k + 1
        BY <1>6, <2>4, <4>1, <4>2, Zenon
      <4>4. Upto(k + 1) = Upto(k) \cup {k + 1}
        BY <4>3, Zenon
      <4>5. Upto(k) \subseteq places
        BY <1>6, Zenon
      <4> QED
        BY <4>1, <4>4, <4>5
    <3>4. Cardinality(Upto(k + 1)) = Cardinality(Upto(k)) + 1
      BY <1>5, <3>3, FS_Subset, FS_AddElement
    <3> QED
      BY <2>1, <2>2, <3>2, <3>4
  <2>5. CASE k + 1 \notin places
    <3>1. Upto(k + 1) = Upto(k)
      <4>1. \A q \in places : q <= k + 1 <=> q <= k
        BY <1>4, <2>1, <2>5
      <4>2. \A q : q \in Upto(k + 1) <=> q \in Upto(k)
        BY <1>6, <4>1, Zenon
      <4> QED
        BY <4>2, Zenon
    <3> QED
      BY <2>1, <2>2, <2>3, <2>5, <3>1
  <2> QED
    BY <2>4, <2>5
<1>9. N \in T
  <2>1. T \in SUBSET (0 .. N)
    OBVIOUS
  <2> HIDE DEF T
  <2>2. T = 0 .. N
    BY <1>1, <1>7, <1>8, <2>1, CountingUp
  <2> QED
    BY <1>1, <2>2
<1>10. Upto(N) = places
  <2>1. \A q : q \in Upto(N) <=> q \in places
    BY <1>4, <1>6, Zenon
  <2> QED
    BY <2>1, Zenon
<1> QED
  BY <1>1, <1>2, <1>9, <1>10

(* argv stays a rearrangement of the line: it has as many words, and no    *)
(* others.                                                                 *)
LEMMA ArgvIs ==
  ASSUME NEW W, NEW line \in Seq(W), NEW k \in 1 .. Len(line)
  PROVE  ArgvAt(line, k) \in Seq(Range(line)) /\ Len(ArgvAt(line, k)) = Len(line)
<1> DEFINE earlier == {q \in OptionPlaces(line) : q < k}
           last == Max({0} \cup earlier)
           seen == Others(line, last)
           moved == Consumed(line, k)
           between == Others(line, k) \ seen
           rest == SubSeq(line, k, Len(line))
           one == WordsAt(line, moved)
           two == WordsAt(line, seen)
           three == WordsAt(line, between)
<1>1. ArgvAt(line, k) = one \o two \o three \o rest
  BY Zenon DEF ArgvAt
<1>2. Len(line) \in Nat /\ DOMAIN line = 1 .. Len(line)
  OBVIOUS
<1>3. last \in 0 .. k - 1
  <2> DEFINE T == {0} \cup earlier
  <2>1. T \in SUBSET (0 .. k - 1) /\ T # {} /\ k - 1 \in Nat
    BY <1>2 DEF OptionPlaces
  <2> HIDE DEF T
  <2>2. Max(T) \in T
    BY <2>1, GreatestOf
  <2> QED
    BY <2>1, <2>2 DEF T
<1> HIDE DEF last
<1>4. /\ moved \subseteq 1 .. k - 1
      /\ Others(line, k) = (1 .. k - 1) \ moved
      /\ seen \subseteq 1 .. k - 1 /\ seen \cap moved = {}
  <2>1. moved \subseteq 1 .. k - 1 /\ Others(line, k) = (1 .. k - 1) \ moved
    BY DEF Consumed, Others
  <2>2. \A q \in 1 .. last - 1 : q \in 1 .. k - 1
    BY <1>3
  <2>3. ASSUME NEW q \in seen
        PROVE  q \in 1 .. k - 1 /\ q \notin moved
    BY <2>2 DEF Others, Consumed
  <2> QED
    BY <2>1, <2>3
<1>5. /\ between \subseteq 1 .. k - 1
      /\ 1 .. k - 1 = (moved \cup seen) \cup between
      /\ moved \cap seen = {} /\ (moved \cup seen) \cap between = {}
  BY <1>4
<1> HIDE DEF moved, seen, between
<1>6. \A q \in 1 .. k - 1 : q \in 1 .. Len(line)
  BY <1>2
<1>7. /\ one \in Seq(Range(line)) /\ Len(one) = Cardinality(moved)
      /\ two \in Seq(Range(line)) /\ Len(two) = Cardinality(seen)
      /\ three \in Seq(Range(line)) /\ Len(three) = Cardinality(between)
  <2>1. moved \in SUBSET (1 .. Len(line)) /\ seen \in SUBSET (1 .. Len(line))
        /\ between \in SUBSET (1 .. Len(line))
    BY <1>4, <1>5, <1>6
  <2> QED
    BY <2>1, WordsType
<1>8. Cardinality(moved) + Cardinality(seen) + Cardinality(between) = k - 1
      /\ Cardinality(moved) \in Nat /\ Cardinality(seen) \in Nat /\ Cardinality(between) \in Nat
  <2>1. IsFiniteSet(1 .. k - 1) /\ Cardinality(1 .. k - 1) = k - 1
    BY FS_Interval
  <2>2. IsFiniteSet(moved) /\ IsFiniteSet(seen) /\ IsFiniteSet(between)
    BY <1>4, <1>5, <2>1, FS_Subset
  <2>3. IsFiniteSet(moved \cup seen)
    BY <2>2, FS_Union
  <2>4. Cardinality(moved \cup seen)
          = Cardinality(moved) + Cardinality(seen) - Cardinality(moved \cap seen)
    BY <2>2, FS_Union
  <2>5. Cardinality((moved \cup seen) \cup between)
          = Cardinality(moved \cup seen) + Cardinality(between)
              - Cardinality((moved \cup seen) \cap between)
    BY <2>2, <2>3, FS_Union
  <2>6. Cardinality({}) = 0
    BY FS_EmptySet
  <2>7. /\ Cardinality(moved) \in Nat /\ Cardinality(seen) \in Nat
        /\ Cardinality(between) \in Nat
    BY <2>2, FS_CardinalityType
  <2>8. /\ Cardinality(moved \cup seen) = Cardinality(moved) + Cardinality(seen)
        /\ Cardinality((moved \cup seen) \cup between)
             = Cardinality(moved \cup seen) + Cardinality(between)
    <3>1. /\ Cardinality(moved \cap seen) = 0
          /\ Cardinality((moved \cup seen) \cap between) = 0
      BY <1>5, <2>6, Zenon
    <3> QED
      BY <2>4, <2>5, <2>7, <3>1
  <2>9. Cardinality((moved \cup seen) \cup between) = k - 1
    BY <1>5, <2>1, Zenon
  <2> QED
    BY <2>7, <2>8, <2>9
<1>9. rest \in Seq(Range(line)) /\ Len(rest) = Len(line) - k + 1
  <2>1. \A q \in k .. Len(line) : line[q] \in Range(line)
    BY <1>2 DEF Range
  <2> QED
    BY <1>2, <2>1, SubSeqProperties
<1> HIDE DEF one, two, three, rest
<1>10. /\ one \o two \o three \o rest \in Seq(Range(line))
       /\ Len(one \o two \o three \o rest) = Len(one) + Len(two) + Len(three) + Len(rest)
  <2> DEFINE X == Range(line)
             a == one \o two
             b == a \o three
  <2>1. a \in Seq(X) /\ Len(a) = Len(one) + Len(two)
    BY <1>7, ConcatProperties
  <2> HIDE DEF a
  <2>2. b \in Seq(X) /\ Len(b) = Len(a) + Len(three)
    BY <1>7, <2>1, ConcatProperties
  <2> HIDE DEF b
  <2>3. b \o rest \in Seq(X) /\ Len(b \o rest) = Len(b) + Len(rest)
    BY <1>9, <2>2, ConcatProperties
  <2> QED
    BY <2>1, <2>2, <2>3 DEF a, b
<1> QED
  BY <1>1, <1>2, <1>7, <1>8, <1>9, <1>10

(* The words that can be in the fields: those of lines, and what the       *)
(* fields begin with.                                                      *)
WordSet(W) == ModeOption \cup {Usage, Nothing} \subseteq W
Fields(W) == [Field -> W]

(* Every file that main needs for the mode is named.                       *)
AllNamed(fields) ==
  fields.mode # Usage => \A field \in Needed(fields.mode) : fields[field] # Nothing

LEMMA ModeFields ==
  ASSUME NEW W, WordSet(W),
         NEW fields \in Fields(W), NEW mode \in ModeOption, NEW argv \in Seq(W),
         Len(argv) + 1 >= ArgcOf(mode)
  PROVE  /\ FieldsOfMode(fields, mode, argv) \in Fields(W)
         /\ (\A k \in DOMAIN argv : argv[k] # Nothing) => AllNamed(FieldsOfMode(fields, mode, argv))
<1> DEFINE made == FieldsOfMode(fields, mode, argv)
<1>0. Len(argv) \in Nat /\ DOMAIN argv = 1 .. Len(argv) /\ \A k \in 1 .. Len(argv) : argv[k] \in W
  BY ElementOfSeq
<1>1. CASE mode = "-e"
  <2>1. made = [fields EXCEPT !.mode = mode, !.file_in = argv[2]]
    BY <1>1 DEF FieldsOfMode
  <2>2. 2 \in 1 .. Len(argv)
    BY <1>0, <1>1 DEF ArgcOf
  <2>3. made \in Fields(W) /\ made.mode = mode /\ made.file_in = argv[2]
    BY <1>0, <1>1, <2>1, <2>2 DEF Fields, Field, WordSet
  <2>4. Needed(mode) = {"file_in"}
    BY <1>1 DEF Needed
  <2> QED
    BY <1>0, <2>2, <2>3, <2>4 DEF AllNamed
<1>2. CASE mode = "-i"
  <2>1. made = [fields EXCEPT !.mode = mode, !.file_in = argv[2], !.device_info = argv[3]]
    BY <1>2 DEF FieldsOfMode
  <2>2. 2 \in 1 .. Len(argv) /\ 3 \in 1 .. Len(argv)
    BY <1>0, <1>2 DEF ArgcOf
  <2>3. /\ made \in Fields(W) /\ made.mode = mode /\ made.file_in = argv[2]
        /\ made.device_info = argv[3]
    BY <1>0, <1>2, <2>1, <2>2 DEF Fields, Field, WordSet
  <2>4. Needed(mode) = {"file_in", "device_info"}
    BY <1>2 DEF Needed
  <2> QED
    BY <1>0, <2>2, <2>3, <2>4 DEF AllNamed
<1>3. CASE mode = "-u"
  <2>1. made = [fields EXCEPT !.mode = mode, !.file_in = argv[2],
                              !.target_version = argv[3], !.schema_file = argv[4]]
    BY <1>3 DEF FieldsOfMode
  <2>2. 2 \in 1 .. Len(argv) /\ 3 \in 1 .. Len(argv) /\ 4 \in 1 .. Len(argv)
    BY <1>0, <1>3 DEF ArgcOf
  <2>3. /\ made \in Fields(W) /\ made.mode = mode /\ made.file_in = argv[2]
        /\ made.target_version = argv[3] /\ made.schema_file = argv[4]
    BY <1>0, <1>3, <2>1, <2>2 DEF Fields, Field, WordSet
  <2>4. Needed(mode) = {"file_in", "target_version", "schema_file"}
    BY <1>3 DEF Needed
  <2> QED
    BY <1>0, <2>2, <2>3, <2>4 DEF AllNamed
<1>4. CASE mode = "-m"
  <2>1. made = [fields EXCEPT !.mode = mode, !.file_in = argv[2], !.target_version = argv[3],
                              !.device_info = argv[4], !.schema_file = argv[5]]
    BY <1>4 DEF FieldsOfMode
  <2>2. 2 \in 1 .. Len(argv) /\ 3 \in 1 .. Len(argv) /\ 4 \in 1 .. Len(argv) /\ 5 \in 1 .. Len(argv)
    BY <1>0, <1>4 DEF ArgcOf
  <2>3. /\ made \in Fields(W) /\ made.mode = mode /\ made.file_in = argv[2]
        /\ made.target_version = argv[3] /\ made.device_info = argv[4]
        /\ made.schema_file = argv[5]
    BY <1>0, <1>4, <2>1, <2>2 DEF Fields, Field, WordSet
  <2>4. Needed(mode) = {"file_in", "target_version", "schema_file", "device_info"}
    BY <1>4 DEF Needed
  <2> QED
    BY <1>0, <2>2, <2>3, <2>4 DEF AllNamed
<1> QED
  BY <1>1, <1>2, <1>3, <1>4 DEF ModeOption

(* One option that does not end the parser.                                *)
LEMMA TakenIs ==
  ASSUME NEW W, WordSet(W), NEW line \in Seq(W), NEW k \in OptionPlaces(line), ~GivesUp(line, k),
         NEW fields \in Fields(W)
  PROVE  /\ Taken(fields, line, k) \in Fields(W)
         /\ (\A q \in DOMAIN line : line[q] # Nothing) /\ AllNamed(fields)
              => AllNamed(Taken(fields, line, k))
<1>1. k \in 1 .. Len(line) /\ line[k] \in OptionWord /\ Len(line) \in Nat
      /\ DOMAIN line = 1 .. Len(line)
  BY OptionsAre DEF OptionPlaces
<1>2. line[k] \in WithArgument /\ k + 1 \in 1 .. Len(line)
  <2>1. line[k] \notin {"-h", "-x"} /\ (line[k] \in WithArgument => k # Len(line))
    BY Zenon DEF GivesUp
  <2>2. line[k] \in WithArgument
    BY <1>1, <2>1 DEF OptionWord
  <2>3. \A n \in Nat : \A q \in 1 .. n : q # n => q + 1 \in 1 .. n
    OBVIOUS
  <2>4. k # Len(line)
    BY <2>1, <2>2, Zenon
  <2> QED
    BY <1>1, <2>2, <2>3, <2>4
<1>3. CASE line[k] = "-o"
  <2>1. Taken(fields, line, k) = [fields EXCEPT !.file_out = line[k + 1]]
    BY <1>3 DEF Taken
  <2>2. line[k + 1] \in W
    BY <1>2, ElementOfSeq
  <2>3. /\ Taken(fields, line, k) \in Fields(W)
        /\ \A field \in Field \ {"file_out"} : Taken(fields, line, k)[field] = fields[field]
    BY <2>1, <2>2 DEF Fields
  <2>4. Needed(fields.mode) \subseteq Field \ {"file_out"} /\ "mode" \in Field \ {"file_out"}
    BY DEF Needed, Field
  <2>5. AllNamed(fields) => AllNamed(Taken(fields, line, k))
    BY <2>3, <2>4 DEF AllNamed
  <2> QED
    BY <2>3, <2>5
<1>4. CASE line[k] # "-o"
  <2> DEFINE argv == ArgvAt(line, k)
             mode == line[k]
  <2>1. mode \in ModeOption
    BY <1>2, <1>4 DEF WithArgument
  <2>2. argv \in Seq(Range(line)) /\ Len(argv) = Len(line)
    BY <1>1, ArgvIs
  <2>3. ~(Len(line) + 1 < ArgcOf(mode))
    BY <2>1 DEF GivesUp
  <2>4. Taken(fields, line, k) = FieldsOfMode(fields, mode, argv)
    BY <1>4 DEF Taken
  <2> HIDE DEF argv, mode
  <2>5. ArgcOf(mode) \in Nat
    BY <2>1 DEF ArgcOf, ModeOption
  <2>6. Len(argv) + 1 >= ArgcOf(mode)
    BY <1>1, <2>2, <2>3, <2>5
  <2>7. \A q \in DOMAIN argv : argv[q] \in Range(line)
    BY <2>2, ElementOfSeq
  <2>8. Range(line) \subseteq W
    <3>1. \A q \in 1 .. Len(line) : line[q] \in W
      BY ElementOfSeq
    <3> QED
      BY <1>1, <3>1 DEF Range
  <2>9. argv \in Seq(W)
    BY <2>2, <2>8
  <2>10. /\ FieldsOfMode(fields, mode, argv) \in Fields(W)
         /\ (\A q \in DOMAIN argv : argv[q] # Nothing)
              => AllNamed(FieldsOfMode(fields, mode, argv))
    BY <2>1, <2>6, <2>9, ModeFields
  <2>11. (\A q \in DOMAIN line : line[q] # Nothing) => \A q \in DOMAIN argv : argv[q] # Nothing
    BY <2>7 DEF Range
  <2> QED
    BY <2>4, <2>10, <2>11
<1> QED
  BY <1>3, <1>4

LEMMA NoFieldsType ==
  ASSUME NEW W, WordSet(W)
  PROVE  NoFields \in Fields(W) /\ AllNamed(NoFields)
<1>1. NoFields \in Fields(W)
  BY DEF NoFields, Fields, Field, WordSet
<1>2. NoFields.mode = Usage
  BY DEF NoFields, Field
<1> QED
  BY <1>1, <1>2 DEF AllNamed

(* The fields, option by option.                                           *)
LEMMA FieldsAre ==
  ASSUME NEW W, WordSet(W), NEW line \in Seq(W), \A k \in OptionPlaces(line) : ~GivesUp(line, k)
  PROVE  /\ FieldsAfter(line) \in [0 .. Len(line) -> Fields(W)]
         /\ FieldsAfter(line)[0] = NoFields
         /\ \A k \in 1 .. Len(line) :
              FieldsAfter(line)[k] = IF k \in OptionPlaces(line)
                                       THEN Taken(FieldsAfter(line)[k - 1], line, k)
                                       ELSE FieldsAfter(line)[k - 1]
<1> DEFINE N == Len(line)
           h(k, x) == IF k \in OptionPlaces(line) THEN Taken(x, line, k) ELSE x
           next == [a \in (1 .. N) \X Fields(W) |-> h(a[1], a[2])]
           Is(f) == f = [k \in 0 .. N |-> IF k = 0 THEN NoFields
                                          ELSE IF k \in OptionPlaces(line) THEN Taken(f[k - 1], line, k)
                                          ELSE f[k - 1]]
           f == FieldsAfter(line)
<1>1. N \in Nat
  OBVIOUS
<1>2. f = CHOOSE g : Is(g)
  BY Zenon DEF FieldsAfter
<1>3. \A k \in 1 .. N, x \in Fields(W) : h(k, x) \in Fields(W)
  BY TakenIs
<1>4. \A k \in 1 .. N, x \in Fields(W) : next[<<k, x>>] = h(k, x)
  <2> HIDE DEF h, N
  <2> QED
    OBVIOUS
<1> HIDE DEF N, f
<1>5. \A k \in 1 .. N, x \in Fields(W) : next[<<k, x>>] \in Fields(W)
  <2> HIDE DEF h, next
  <2> QED
    BY <1>3, <1>4
<1> HIDE DEF next
<1>6. PICK g \in [0 .. N -> Fields(W)] : CountsUp(g, N, NoFields, next)
  BY <1>1, <1>5, NoFieldsType, Counted
<1>7. Is(g)
  <2>1. g = [k \in 0 .. N |-> IF k = 0 THEN NoFields ELSE next[<<k, g[k - 1]>>]]
    BY <1>6, Zenon DEF CountsUp
  <2>2. \A k \in 0 .. N :
          (IF k = 0 THEN NoFields ELSE next[<<k, g[k - 1]>>])
            = (IF k = 0 THEN NoFields ELSE h(k, g[k - 1]))
    <3> TAKE k \in 0 .. N
    <3>1. k # 0 => k \in 1 .. N /\ g[k - 1] \in Fields(W)
      BY <1>1, <1>6
    <3> QED
      BY <1>4, <3>1, Zenon
  <2>3. g = [k \in 0 .. N |-> IF k = 0 THEN NoFields ELSE h(k, g[k - 1])]
    <3> HIDE DEF h
    <3> QED
      BY <2>1, <2>2
  <2> QED
    BY <2>3, Zenon
<1>8. Is(f)
  <2> HIDE DEF Is
  <2> QED
    BY <1>2, <1>7, Zenon
<1>9. f = [k \in 0 .. N |-> IF k = 0 THEN NoFields ELSE h(k, f[k - 1])]
  BY <1>8, Zenon
<1> HIDE DEF h, Is
<1>10. f[0] = NoFields /\ (\A k \in 1 .. N : f[k] = h(k, f[k - 1]))
       /\ f = [k \in DOMAIN f |-> f[k]] /\ DOMAIN f = 0 .. N
  <2> DEFINE v(k) == IF k = 0 THEN NoFields ELSE h(k, f[k - 1])
  <2>1. f = [k \in 0 .. N |-> v(k)]
    BY <1>9, Zenon
  <2> HIDE DEF v
  <2>2. (\A k \in 0 .. N : f[k] = v(k)) /\ DOMAIN f = 0 .. N /\ f = [k \in DOMAIN f |-> f[k]]
    BY <2>1
  <2>3. v(0) = NoFields /\ \A k \in 1 .. N : v(k) = h(k, f[k - 1])
    BY <1>1 DEF v
  <2>4. 0 \in 0 .. N /\ \A k \in 1 .. N : k \in 0 .. N
    BY <1>1
  <2> QED
    BY <2>2, <2>3, <2>4
<1>11. f \in [0 .. N -> Fields(W)]
  <2> DEFINE T == {k \in 0 .. N : f[k] \in Fields(W)}
  <2>1. 0 \in T
    BY <1>1, <1>10, NoFieldsType
  <2>2. ASSUME NEW k \in T, k < N
        PROVE  k + 1 \in T
    <3>1. k \in Nat /\ k + 1 \in 1 .. N /\ k + 1 \in 0 .. N /\ (k + 1) - 1 = k /\ f[k] \in Fields(W)
      BY <1>1, <2>2
    <3>2. f[k + 1] = h(k + 1, f[k])
      BY <1>10, <3>1
    <3> QED
      BY <1>3, <3>1, <3>2
  <2>3. T \in SUBSET (0 .. N)
    OBVIOUS
  <2> HIDE DEF T
  <2>4. T = 0 .. N
    BY <1>1, <2>1, <2>2, <2>3, CountingUp
  <2>5. \A k \in 0 .. N : f[k] \in Fields(W)
    BY <2>4 DEF T
  <2> QED
    BY <1>10, <2>5
<1>12. \A k \in 1 .. N : f[k] = IF k \in OptionPlaces(line) THEN Taken(f[k - 1], line, k)
                                ELSE f[k - 1]
  BY <1>10, Zenon DEF h
<1> QED
  BY <1>10, <1>11, <1>12 DEF N, f

(* On every line: the fields that the mode needs are there.                *)
LEMMA LineNamesAll ==
  ASSUME NEW W, WordSet(W), NEW line \in Seq(W), \A q \in DOMAIN line : line[q] # Nothing
  PROVE  AllNamed(parse_main_args(line))
<1>1. CASE \E k \in OptionPlaces(line) : GivesUp(line, k)
  <2>1. parse_main_args(line) = NoFields
    BY <1>1 DEF parse_main_args
  <2> QED
    BY <2>1, NoFieldsType
<1>2. CASE \A k \in OptionPlaces(line) : ~GivesUp(line, k)
  <2> DEFINE f == FieldsAfter(line)
             N == Len(line)
             T == {k \in 0 .. N : AllNamed(f[k])}
  <2>1. parse_main_args(line) = f[N]
    BY <1>2 DEF parse_main_args
  <2>2. /\ f \in [0 .. N -> Fields(W)] /\ f[0] = NoFields /\ N \in Nat
        /\ \A k \in 1 .. N : f[k] = IF k \in OptionPlaces(line) THEN Taken(f[k - 1], line, k)
                                    ELSE f[k - 1]
    BY <1>2, FieldsAre
  <2> HIDE DEF f, N
  <2>3. 0 \in T
    BY <2>2, NoFieldsType
  <2>4. ASSUME NEW k \in T, k < N
        PROVE  k + 1 \in T
    <3>1. /\ k \in Nat /\ k + 1 \in 1 .. N /\ k + 1 \in 0 .. N /\ (k + 1) - 1 = k
          /\ f[k] \in Fields(W) /\ AllNamed(f[k])
      BY <2>2, <2>4
    <3>2. f[k + 1] = IF k + 1 \in OptionPlaces(line) THEN Taken(f[k], line, k + 1) ELSE f[k]
      BY <2>2, <3>1
    <3>3. AllNamed(f[k + 1])
      <4>1. CASE k + 1 \in OptionPlaces(line)
        <5>1. AllNamed(Taken(f[k], line, k + 1))
          BY <1>2, <3>1, <4>1, TakenIs
        <5> QED
          BY <3>2, <4>1, <5>1
      <4>2. CASE k + 1 \notin OptionPlaces(line)
        BY <3>1, <3>2, <4>2
      <4> QED
        BY <4>1, <4>2
    <3> QED
      BY <3>1, <3>3
  <2>5. T \in SUBSET (0 .. N)
    OBVIOUS
  <2> HIDE DEF T
  <2>6. T = 0 .. N
    BY <2>2, <2>3, <2>4, <2>5, CountingUp
  <2>7. N \in T
    BY <2>2, <2>6
  <2> QED
    BY <2>1, <2>7 DEF T
<1> QED
  BY <1>1, <1>2

(* Nothing was exchanged before the first word.                            *)
LEMMA ArgvAtFirst ==
  ASSUME NEW W, NEW line \in Seq(W), Len(line) >= 1
  PROVE  ArgvAt(line, 1) = line
<1> DEFINE earlier == {q \in OptionPlaces(line) : q < 1}
           last == Max({0} \cup earlier)
           seen == Others(line, last)
           moved == Consumed(line, 1)
           between == Others(line, 1) \ seen
           rest == SubSeq(line, 1, Len(line))
           one == WordsAt(line, moved)
           two == WordsAt(line, seen)
           three == WordsAt(line, between)
<1>1. ArgvAt(line, 1) = one \o two \o three \o rest
  BY Zenon DEF ArgvAt
<1>2. Len(line) \in Nat /\ DOMAIN line = 1 .. Len(line)
  OBVIOUS
<1>3. earlier = {}
  BY <1>2 DEF OptionPlaces
<1>4. last = 0
  <2>1. {0} \in SUBSET (0 .. 0) /\ {0} # {}
    OBVIOUS
  <2>2. Max({0}) \in {0}
    BY <2>1, GreatestOf
  <2>3. {0} \cup earlier = {0}
    BY <1>3
  <2> QED
    BY <2>2, <2>3
<1> HIDE DEF last
<1>5. moved = {} /\ seen = {} /\ between = {}
  <2>1. \A n \in {0, 1} : 1 .. n - 1 = {}
    OBVIOUS
  <2>2. Others(line, 0) = {} /\ Others(line, 1) = {} /\ Consumed(line, 1) = {}
    BY <2>1 DEF Others, Consumed
  <2> QED
    BY <1>4, <2>2
<1> HIDE DEF moved, seen, between
<1>6. WordsAt(line, {}) = <<>>
  <2>1. {} \in SUBSET (1 .. Len(line))
    OBVIOUS
  <2>2. Cardinality({}) = 0
    BY FS_EmptySet
  <2> DEFINE none == WordsAt(line, {})
  <2>3. none \in Seq(Range(line)) /\ Len(none) = 0
    BY <2>1, <2>2, WordsType
  <2> HIDE DEF none
  <2>4. none = <<>>
    BY <2>3
  <2> QED
    BY <2>4 DEF none
<1>7. one = <<>> /\ two = <<>> /\ three = <<>>
  BY <1>5, <1>6
<1>8. rest = line
  BY <1>2
<1> HIDE DEF one, two, three, rest
<1>9. <<>> \o <<>> \o <<>> \o line = line
  BY ConcatEmptySeq
<1> QED
  BY <1>1, <1>7, <1>8, <1>9

(* A mode option that comes first, and no option after it but -o at p.     *)
OnlyOutput(line, p) ==
  \A k \in 2 .. Len(line) : line[k] \in OptionWord => k = p /\ line[k] = "-o"

LEMMA ModeFirst ==
  ASSUME NEW W, WordSet(W), NEW line \in Seq(W), Len(line) >= 1,
         line[1] \in ModeOption, NEW p, OnlyOutput(line, p),
         \A k \in OptionPlaces(line) : ~GivesUp(line, k)
  PROVE  /\ parse_main_args(line) \in Fields(W)
         /\ \A field \in Field \ {"file_out"} :
              parse_main_args(line)[field] = FieldsOfMode(NoFields, line[1], line)[field]
         /\ parse_main_args(line).file_out =
              IF p \in OptionPlaces(line) \ {1} THEN line[p + 1] ELSE Nothing
<1> DEFINE f == FieldsAfter(line)
           N == Len(line)
           made == FieldsOfMode(NoFields, line[1], line)
           Out(k) == IF p \in OptionPlaces(line) \ {1} /\ p <= k THEN line[p + 1] ELSE Nothing
           So(k) == /\ \A field \in Field \ {"file_out"} : f[k][field] = made[field]
                    /\ f[k].file_out = Out(k)
           T == {k \in 0 .. N : k >= 1 => So(k)}
<1>1. parse_main_args(line) = f[N]
  BY DEF parse_main_args
<1>2. /\ f \in [0 .. N -> Fields(W)] /\ f[0] = NoFields /\ N \in Nat
      /\ \A k \in 1 .. N : f[k] = IF k \in OptionPlaces(line) THEN Taken(f[k - 1], line, k)
                                  ELSE f[k - 1]
  BY FieldsAre
<1>3. OptionPlaces(line) \subseteq 1 .. N
  BY DEF OptionPlaces
<1>4. 1 \in OptionPlaces(line) /\ 1 \in 1 .. N
  <2>1. 1 \in 1 .. N
    BY <1>2
  <2>2. IsOptionAt(line)[1]
    BY <2>1, OptionsAre DEF OptionWord, WithArgument
  <2> QED
    BY <2>1, <2>2 DEF OptionPlaces
<1>5. \A k \in OptionPlaces(line) : k # 1 => k = p /\ line[k] = "-o" /\ k + 1 \in 1 .. N
  <2> TAKE k \in OptionPlaces(line)
  <2> HAVE k # 1
  <2>1. k \in 1 .. N /\ line[k] \in OptionWord
    BY <1>3, OptionsAre DEF OptionPlaces
  <2>2. k \in 2 .. N
    BY <1>2, <2>1
  <2>3. k = p /\ line[k] = "-o"
    BY <2>1, <2>2 DEF OnlyOutput
  <2>4. ~GivesUp(line, k)
    OBVIOUS
  <2>5. k # N
    BY <2>3, <2>4 DEF GivesUp, WithArgument
  <2> QED
    BY <1>2, <2>2, <2>3, <2>5
<1>6. f[1] = made
  <2>1. f[1] = Taken(NoFields, line, 1)
    BY <1>2, <1>4
  <2>2. ArgvAt(line, 1) = line
    BY ArgvAtFirst
  <2>3. line[1] # "-o"
    BY DEF ModeOption
  <2> QED
    BY <2>1, <2>2, <2>3 DEF Taken
<1>7. made.file_out = Nothing
  BY DEF FieldsOfMode, ModeOption, NoFields, Field, Usage, Nothing
<1> HIDE DEF f, N, made, Out
<1>8. 0 \in T
  BY <1>2
<1>9. ASSUME NEW k \in T, k < N
      PROVE  k + 1 \in T
  <2>1. /\ k \in Nat /\ k + 1 \in 1 .. N /\ k + 1 \in 0 .. N /\ (k + 1) - 1 = k
        /\ k \in 0 .. N /\ f[k] \in Fields(W)
    BY <1>2, <1>9
  <2>2. f[k + 1] = IF k + 1 \in OptionPlaces(line) THEN Taken(f[k], line, k + 1) ELSE f[k]
    BY <1>2, <2>1
  <2>3. CASE k = 0
    <3>1. f[k + 1] = made
      BY <1>6, <2>3
    <3>2. Out(k + 1) = Nothing
      <4>1. ~(p \in OptionPlaces(line) \ {1} /\ p <= 1)
        BY <1>2, <1>3
      <4> QED
        BY <2>3, <4>1 DEF Out
    <3>3. So(k + 1)
      BY <1>7, <3>1, <3>2
    <3> QED
      BY <2>1, <3>3
  <2>4. CASE k # 0
    <3>1. So(k)
      BY <2>1, <2>4
    <3>2. CASE k + 1 \in OptionPlaces(line)
      <4>1. k + 1 = p /\ line[k + 1] = "-o" /\ p + 1 \in 1 .. N /\ k + 1 # 1
        BY <1>5, <2>1, <2>4, <3>2
      <4>2. f[k + 1] = [f[k] EXCEPT !.file_out = line[p + 1]]
        BY <2>2, <3>2, <4>1 DEF Taken
      <4>3. /\ f[k + 1].file_out = line[p + 1]
            /\ \A field \in Field \ {"file_out"} : f[k + 1][field] = f[k][field]
        BY <2>1, <4>2 DEF Fields, Field
      <4>4. Out(k + 1) = line[p + 1]
        BY <2>1, <3>2, <4>1 DEF Out
      <4>5. So(k + 1)
        BY <3>1, <4>3, <4>4
      <4> QED
        BY <2>1, <4>5
    <3>3. CASE k + 1 \notin OptionPlaces(line)
      <4>1. Out(k + 1) = Out(k)
        <5>1. ASSUME p \in OptionPlaces(line)
              PROVE  p <= k + 1 <=> p <= k
          <6>1. p # k + 1 /\ p \in 1 .. N
            BY <1>3, <3>3, <5>1
          <6> QED
            BY <1>2, <2>1, <6>1
        <5> QED
          BY <5>1, Zenon DEF Out
      <4>2. So(k + 1)
        BY <2>2, <3>1, <3>3, <4>1
      <4> QED
        BY <2>1, <4>2
    <3> QED
      BY <3>2, <3>3
  <2> QED
    BY <2>3, <2>4
<1>10. N \in T /\ N >= 1
  <2>1. T \in SUBSET (0 .. N)
    OBVIOUS
  <2> HIDE DEF T
  <2>2. T = 0 .. N
    BY <1>2, <1>8, <1>9, <2>1, CountingUp
  <2> QED
    BY <1>2, <2>2 DEF N
<1>11. So(N)
  BY <1>10
<1>12. Out(N) = IF p \in OptionPlaces(line) \ {1} THEN line[p + 1] ELSE Nothing
  <2>1. p \in OptionPlaces(line) => p <= N
    BY <1>2, <1>3
  <2> QED
    BY <2>1, Zenon DEF Out
<1>13. f[N] \in Fields(W)
  BY <1>2
<1> QED
  BY <1>1, <1>11, <1>12, <1>13 DEF made

LEMMA TwoAppended ==
  ASSUME NEW W, NEW x \in W, NEW y \in W
  PROVE  Append(Append(<<>>, x), y) = <<x, y>>
<1> DEFINE one == Append(<<>>, x)
           two == Append(one, y)
           both == <<x, y>>
<1>1. one \in Seq(W) /\ Len(one) = 1 /\ one[1] = x
  <2>1. <<>> \in Seq(W) /\ Len(<<>>) = 0
    OBVIOUS
  <2> QED
    BY <2>1, AppendProperties
<1> HIDE DEF one
<1>2. two \in Seq(W) /\ Len(two) = 2 /\ two[1] = x /\ two[2] = y
  <2>1. /\ two \in Seq(W) /\ Len(two) = Len(one) + 1
        /\ \A i \in 1 .. Len(one) : two[i] = one[i]
        /\ two[Len(one) + 1] = y
    BY <1>1, AppendProperties
  <2>2. 1 \in 1 .. 1 /\ 1 + 1 = 2
    OBVIOUS
  <2> HIDE DEF two
  <2> QED
    BY <1>1, <2>1, <2>2
<1> HIDE DEF two
<1>3. both \in Seq(W) /\ Len(both) = 2 /\ both[1] = x /\ both[2] = y
  OBVIOUS
<1> HIDE DEF both
<1>4. \A i \in 1 .. Len(two) : i = 1 \/ i = 2
  BY <1>2
<1>5. two = both
  BY <1>2, <1>3, <1>4, SeqEqual
<1> QED
  BY <1>5 DEF one, two, both

LEMMA SecondOfJoined ==
  ASSUME NEW X, NEW s \in Seq(X), NEW t \in Seq(X), Len(s) >= 2
  PROVE  s \o t \in Seq(X) /\ Len(s \o t) >= 2 /\ (s \o t)[2] = s[2]
<1>1. Len(s) \in Nat /\ Len(t) \in Nat
  OBVIOUS
<1>2. /\ s \o t \in Seq(X) /\ Len(s \o t) = Len(s) + Len(t)
      /\ \A i \in 1 .. Len(s) + Len(t) :
           (s \o t)[i] = IF i <= Len(s) THEN s[i] ELSE t[i - Len(s)]
  BY ConcatProperties
<1>3. 2 \in 1 .. Len(s) + Len(t) /\ 2 <= Len(s)
  BY <1>1
<1> QED
  BY <1>1, <1>2, <1>3

(* -o and its argument first, then a mode option: argv has them in its     *)
(* second place, where the name of the input is taken from.                *)
LEMMA OutputFirst ==
  ASSUME NEW W, WordSet(W), NEW line \in Seq(W), Len(line) >= 3,
         line[1] = "-o", line[2] \notin OptionWord, line[3] \in ModeOption,
         \A k \in 4 .. Len(line) : line[k] \notin OptionWord,
         \A k \in OptionPlaces(line) : ~GivesUp(line, k)
  PROVE  parse_main_args(line).file_in = line[2]
<1> DEFINE f == FieldsAfter(line)
           N == Len(line)
           argv == ArgvAt(line, 3)
<1>1. parse_main_args(line) = f[N]
  BY DEF parse_main_args
<1>2. /\ f \in [0 .. N -> Fields(W)] /\ f[0] = NoFields /\ N \in Nat
      /\ \A k \in 1 .. N : f[k] = IF k \in OptionPlaces(line) THEN Taken(f[k - 1], line, k)
                                  ELSE f[k - 1]
  BY FieldsAre
<1>3. 1 \in 1 .. N /\ 2 \in 1 .. N /\ 3 \in 1 .. N
  BY <1>2
<1>4. IsOptionAt(line)[1] /\ ~IsOptionAt(line)[2] /\ IsOptionAt(line)[3]
  <2>1. IsOptionAt(line)[1] /\ ~IsOptionAt(line)[2]
    BY <1>3, OptionsAre DEF OptionWord, WithArgument
  <2>2. line[3] \in OptionWord /\ 3 - 1 = 2
    BY DEF OptionWord, WithArgument
  <2> QED
    BY <1>3, <2>1, <2>2, OptionsAre
<1>5. OptionPlaces(line) = {1, 3}
  <2>1. \A k \in 1 .. N : k \in {1, 2, 3} \/ k \in 4 .. N
    BY <1>2
  <2>2. \A k \in 4 .. N : k \in 1 .. N /\ ~IsOptionAt(line)[k]
    BY <1>2, OptionsAre
  <2> QED
    BY <1>3, <1>4, <2>1, <2>2 DEF OptionPlaces
<1>6. WordsAt(line, {1, 2})[2] = line[2] /\ Len(WordsAt(line, {1, 2})) = 2
  <2> DEFINE places == {1, 2}
             both == <<line[1], line[2]>>
  <2>1. PICK words \in [0 .. N -> Seq(Range(line))] :
          WordsUpTo(words, line, places) /\ WordsAt(line, places) = words[N]
    BY WordsAre
  <2>2. words[0] = <<>> /\ \A k \in 1 .. N :
          words[k] = IF k \in places THEN Append(words[k - 1], line[k]) ELSE words[k - 1]
    BY <2>1 DEF WordsUpTo
  <2>3. 1 - 1 = 0 /\ 2 - 1 = 1 /\ 1 \in places /\ 2 \in places
    OBVIOUS
  <2> HIDE DEF places
  <2>4. words[1] = Append(<<>>, line[1])
    BY <1>3, <2>2, <2>3, Zenon
  <2>5. words[2] = Append(words[1], line[2])
    BY <1>3, <2>2, <2>3, Zenon
  <2>6. words[2] = both
    <3>1. line[1] \in W /\ line[2] \in W
      BY <1>3, ElementOfSeq
    <3>2. Append(Append(<<>>, line[1]), line[2]) = both
      BY <3>1, TwoAppended
    <3> QED
      BY <2>4, <2>5, <3>2, Zenon
  <2> HIDE DEF both, N
  <2> DEFINE T == {k \in 0 .. N : k >= 2 => words[k] = both}
  <2>7. 0 \in T
    BY <1>2
  <2>8. ASSUME NEW k \in T, k < N
        PROVE  k + 1 \in T
    <3>1. k \in Nat /\ k + 1 \in 1 .. N /\ k + 1 \in 0 .. N /\ (k + 1) - 1 = k
      BY <1>2, <2>8
    <3>2. CASE k = 0
      BY <3>1, <3>2
    <3>3. CASE k = 1
      BY <2>6, <3>1, <3>3
    <3>4. CASE k >= 2
      <4>1. k + 1 \notin places /\ words[k] = both
        BY <3>1, <3>4 DEF places
      <4> QED
        BY <2>2, <3>1, <4>1
    <3> QED
      BY <3>1, <3>2, <3>3, <3>4
  <2>9. T \in SUBSET (0 .. N)
    OBVIOUS
  <2> HIDE DEF T
  <2>10. T = 0 .. N
    BY <1>2, <2>7, <2>8, <2>9, CountingUp
  <2>11. N \in T /\ N >= 2
    BY <1>2, <2>10 DEF N
  <2>12. words[N] = both
    BY <2>11 DEF T
  <2>13. both[2] = line[2] /\ Len(both) = 2
    BY DEF both
  <2> QED
    BY <2>1, <2>12, <2>13 DEF places
<1>7. argv[2] = line[2]
  <2> DEFINE earlier == {q \in OptionPlaces(line) : q < 3}
             last == Max({0} \cup earlier)
             seen == Others(line, last)
             moved == Consumed(line, 3)
             between == Others(line, 3) \ seen
             rest == SubSeq(line, 3, N)
             one == WordsAt(line, moved)
             two == WordsAt(line, seen)
             three == WordsAt(line, between)
  <2>1. argv = one \o two \o three \o rest
    BY Zenon DEF ArgvAt
  <2>2. moved = {1, 2}
    <3>1. \A q : q \in 1 .. 3 - 1 <=> q \in {1, 2}
      OBVIOUS
    <3>2. line[1] \in WithArgument
      BY DEF WithArgument
    <3>3. 1 \in moved /\ 2 \in moved
      BY <1>5, <3>1, <3>2 DEF Consumed
    <3>4. moved \subseteq {1, 2}
      BY <3>1 DEF Consumed
    <3> QED
      BY <3>3, <3>4
  <2>3. last = 1
    <3>1. {0} \cup earlier = {0, 1}
      BY <1>5
    <3>2. {0, 1} \in SUBSET (0 .. 1) /\ {0, 1} # {} /\ 1 \in Nat
      OBVIOUS
    <3>3. Max({0, 1}) \in {0, 1} /\ \A x \in {0, 1} : x <= Max({0, 1})
      BY <3>2, GreatestOf
    <3>4. Max({0, 1}) = 1
      BY <3>3
    <3> QED
      BY <3>1, <3>4
  <2> HIDE DEF last, moved
  <2>4. seen = {} /\ between = {}
    <3>1. Others(line, 1) = {}
      <4>1. 1 .. 1 - 1 = {}
        OBVIOUS
      <4> QED
        BY <4>1 DEF Others
    <3>2. Others(line, 3) = {}
      <4>1. Others(line, 3) = (1 .. 3 - 1) \ moved
        BY DEF Others, moved
      <4>2. \A q : q \in 1 .. 3 - 1 <=> q \in {1, 2}
        OBVIOUS
      <4> QED
        BY <2>2, <4>1, <4>2
    <3> QED
      BY <2>3, <3>1, <3>2
  <2> HIDE DEF seen, between
  <2>5. one \in Seq(Range(line)) /\ two \in Seq(Range(line)) /\ three \in Seq(Range(line))
    <3>1. {1, 2} \in SUBSET (1 .. Len(line)) /\ {} \in SUBSET (1 .. Len(line))
      BY <1>3
    <3> QED
      BY <2>2, <2>4, <3>1, WordsType
  <2>6. rest \in Seq(Range(line))
    <3>1. \A q \in 3 .. N : line[q] \in Range(line)
      BY DEF Range
    <3> QED
      BY <1>2, <3>1, SubSeqProperties
  <2>7. one[2] = line[2] /\ Len(one) = 2
    BY <1>6, <2>2
  <2> HIDE DEF one, two, three, rest, argv
  <2>8. (one \o two \o three \o rest)[2] = one[2]
    <3> DEFINE a == one \o two
               b == a \o three
    <3>0. Len(one) >= 2
      BY <2>7
    <3>1. a \in Seq(Range(line)) /\ Len(a) >= 2 /\ a[2] = one[2]
      BY <2>5, <3>0, SecondOfJoined
    <3> HIDE DEF a
    <3>2. b \in Seq(Range(line)) /\ Len(b) >= 2 /\ b[2] = a[2]
      BY <2>5, <3>1, SecondOfJoined
    <3> HIDE DEF b
    <3>3. (b \o rest)[2] = b[2]
      BY <2>6, <3>2, SecondOfJoined
    <3> QED
      BY <3>1, <3>2, <3>3 DEF a, b
  <2> QED
    BY <2>1, <2>7, <2>8
<1>8. f[3].file_in = line[2]
  <2>1. f[3] = Taken(f[2], line, 3) /\ f[2] \in Fields(W)
    <3>1. 3 - 1 = 2 /\ 2 \in 0 .. N /\ 3 \in OptionPlaces(line)
      BY <1>3, <1>5
    <3> QED
      BY <1>2, <1>3, <3>1
  <2>2. Taken(f[2], line, 3) = FieldsOfMode(f[2], line[3], argv)
    BY DEF Taken, ModeOption
  <2> DEFINE x == f[2]
             mode == line[3]
             y == FieldsOfMode(x, mode, argv)
  <2>3. x \in [Field -> W] /\ mode \in ModeOption
    BY <2>1 DEF Fields
  <2> HIDE DEF x, mode, argv
  <2>4. y.file_in = argv[2]
    <3>1. CASE mode = "-e"
      BY <2>3, <3>1 DEF FieldsOfMode, Field
    <3>2. CASE mode = "-i"
      BY <2>3, <3>2 DEF FieldsOfMode, Field
    <3>3. CASE mode = "-u"
      BY <2>3, <3>3 DEF FieldsOfMode, Field
    <3>4. CASE mode = "-m"
      BY <2>3, <3>4 DEF FieldsOfMode, Field
    <3> QED
      BY <2>3, <3>1, <3>2, <3>3, <3>4 DEF ModeOption
  <2> QED
    BY <1>7, <2>1, <2>2, <2>4 DEF x, mode
<1>9. f[N] = f[3]
  <2> DEFINE T == {k \in 0 .. N : k >= 3 => f[k] = f[3]}
  <2> HIDE DEF f, N
  <2>1. 0 \in T
    BY <1>2
  <2>2. ASSUME NEW k \in T, k < N
        PROVE  k + 1 \in T
    <3>1. k \in Nat /\ k + 1 \in 1 .. N /\ k + 1 \in 0 .. N /\ (k + 1) - 1 = k
      BY <1>2, <2>2
    <3>2. CASE k < 2
      BY <3>1, <3>2
    <3>3. CASE k = 2
      BY <3>1, <3>3
    <3>4. CASE k >= 3
      <4>1. k + 1 \notin OptionPlaces(line) /\ f[k] = f[3]
        BY <1>5, <3>1, <3>4
      <4> QED
        BY <1>2, <3>1, <4>1
    <3> QED
      BY <3>1, <3>2, <3>3, <3>4
  <2>3. T \in SUBSET (0 .. N)
    OBVIOUS
  <2> HIDE DEF T
  <2>4. T = 0 .. N
    BY <1>2, <2>1, <2>2, <2>3, CountingUp
  <2>5. N \in T /\ N >= 3
    BY <1>2, <2>4 DEF N
  <2> QED
    BY <2>5 DEF T
<1> QED
  BY <1>1, <1>8, <1>9

(* The words of the lines that the usage text has.                         *)
LineWord ==
  ModeOption \cup {"in", "part", "version", "schema"} \cup {"-o", "out"} \cup {Usage, Nothing}

IsUsage(words, mode) ==
  /\ words \in Seq(LineWord) /\ Len(words) \in 2 .. 5 /\ Len(words) + 1 = ArgcOf(mode)
  /\ words[1] = mode /\ words[2] = "in"
  /\ \A i \in 2 .. Len(words) : words[i] \notin OptionWord /\ words[i] # Nothing

LEMMA UsageIs ==
  ASSUME NEW mode \in ModeOption
  PROVE  IsUsage(UsageOf(mode), mode)
<1> DEFINE words == UsageOf(mode)
<1> SUFFICES /\ words \in Seq(LineWord) /\ Len(words) \in 2 .. 5 /\ Len(words) + 1 = ArgcOf(mode)
             /\ words[1] = mode /\ words[2] = "in"
             /\ \A i \in 2 .. Len(words) : words[i] \in {"in", "part", "version", "schema"}
  <2>1. \A w \in {"in", "part", "version", "schema"} :
          w \notin OptionWord /\ w # Nothing
    BY DEF OptionWord, WithArgument, ModeOption, Nothing
  <2> HIDE DEF words
  <2>2. words \in Seq(LineWord) /\ Len(words) \in 2 .. 5 /\ Len(words) + 1 = ArgcOf(mode)
        /\ words[1] = mode /\ words[2] = "in"
        /\ \A i \in 2 .. Len(words) : words[i] \in {"in", "part", "version", "schema"}
        => IsUsage(words, mode)
    BY <2>1, Zenon DEF IsUsage
  <2> QED
    BY <2>2 DEF words
<1>1. CASE mode = "-e"
  <2>1. words = <<"-e", "in">>
    BY <1>1 DEF UsageOf
  <2> HIDE DEF words
  <2>2. Len(words) = 2 /\ words[1] = "-e" /\ words[2] = "in" /\ ArgcOf(mode) = 3
    BY <1>1, <2>1 DEF ArgcOf
  <2>3. words \in Seq(LineWord)
    BY <2>1 DEF LineWord, ModeOption
  <2>4. \A i \in 2 .. 2 : i = 2
    OBVIOUS
  <2> QED
    BY <1>1, <2>2, <2>3, <2>4
<1>2. CASE mode = "-i"
  <2>1. words = <<"-i", "in", "part">>
    BY <1>2 DEF UsageOf
  <2> HIDE DEF words
  <2>2. /\ Len(words) = 3 /\ words[1] = "-i" /\ words[2] = "in" /\ words[3] = "part"
        /\ ArgcOf(mode) = 4
    BY <1>2, <2>1 DEF ArgcOf
  <2>3. words \in Seq(LineWord)
    BY <2>1 DEF LineWord, ModeOption
  <2>4. \A i \in 2 .. 3 : i = 2 \/ i = 3
    OBVIOUS
  <2> QED
    BY <1>2, <2>2, <2>3, <2>4
<1>3. CASE mode = "-u"
  <2>1. words = <<"-u", "in", "version", "schema">>
    BY <1>3 DEF UsageOf
  <2> HIDE DEF words
  <2>2. /\ Len(words) = 4 /\ words[1] = "-u" /\ words[2] = "in" /\ words[3] = "version"
        /\ words[4] = "schema" /\ ArgcOf(mode) = 5
    BY <1>3, <2>1 DEF ArgcOf
  <2>3. words \in Seq(LineWord)
    BY <2>1 DEF LineWord, ModeOption
  <2>4. \A i \in 2 .. 4 : i = 2 \/ i = 3 \/ i = 4
    OBVIOUS
  <2> QED
    BY <1>3, <2>2, <2>3, <2>4
<1>4. CASE mode = "-m"
  <2>1. words = <<"-m", "in", "version", "part", "schema">>
    BY <1>4 DEF UsageOf
  <2> HIDE DEF words
  <2>2. /\ Len(words) = 5 /\ words[1] = "-m" /\ words[2] = "in" /\ words[3] = "version"
        /\ words[4] = "part" /\ words[5] = "schema" /\ ArgcOf(mode) = 6
    BY <1>4, <2>1 DEF ArgcOf
  <2>3. words \in Seq(LineWord)
    BY <2>1 DEF LineWord, ModeOption
  <2>4. \A i \in 2 .. 5 : i = 2 \/ i = 3 \/ i = 4 \/ i = 5
    OBVIOUS
  <2> QED
    BY <1>4, <2>2, <2>3, <2>4
<1> QED
  BY <1>1, <1>2, <1>3, <1>4 DEF ModeOption

(* The words with "-o out" before word p.                                  *)
WithOutput(line, words, p) ==
  /\ line \in Seq(LineWord) /\ Len(line) = Len(words) + 2
  /\ \A i \in 1 .. p - 1 : line[i] = words[i]
  /\ line[p] = "-o" /\ line[p + 1] = "out"
  /\ \A i \in p + 2 .. Len(words) + 2 : line[i] = words[i - 2]

LEMMA LineIs ==
  ASSUME NEW mode \in ModeOption, NEW p \in 1 .. Len(UsageOf(mode)) + 1
  PROVE  WithOutput(UsageLine(mode, p), UsageOf(mode), p)
<1> DEFINE words == UsageOf(mode)
           N == Len(words)
           a == SubSeq(words, 1, p - 1)
           o == <<"-o", "out">>
           b == SubSeq(words, p, N)
           ao == a \o o
           line == ao \o b
<1>1. words \in Seq(LineWord) /\ N \in Nat /\ p \in Nat /\ p >= 1 /\ p <= N + 1
  BY UsageIs DEF IsUsage
<1>2. UsageLine(mode, p) = line
  <2>1. p # 0
    BY <1>1
  <2> QED
    BY <2>1, Zenon DEF UsageLine
<1>3. o \in Seq(LineWord) /\ Len(o) = 2 /\ o[1] = "-o" /\ o[2] = "out"
  BY DEF LineWord
<1>4. \A i \in 1 .. N : words[i] \in LineWord
  BY <1>1, ElementOfSeq
<1> HIDE DEF words, o
<1>5. a \in Seq(LineWord) /\ Len(a) = p - 1 /\ \A i \in 1 .. p - 1 : a[i] = words[i]
  <2>1. \A i \in 1 .. p - 1 : words[i] \in LineWord
    BY <1>1, <1>4
  <2>2. a \in Seq(LineWord) /\ Len(a) = (IF 1 <= p - 1 THEN (p - 1) - 1 + 1 ELSE 0)
        /\ \A i \in 1 .. (p - 1) - 1 + 1 : a[i] = words[1 + i - 1]
    BY <1>1, <2>1, SubSeqProperties
  <2> HIDE DEF a
  <2>3. (p - 1) - 1 + 1 = p - 1 /\ \A i \in 1 .. p - 1 : 1 + i - 1 = i
    BY <1>1
  <2>4. p = 1 => p - 1 = 0
    OBVIOUS
  <2>5. Len(a) = p - 1
    BY <1>1, <2>2, <2>3
  <2> QED
    BY <2>2, <2>3, <2>5
<1>6. /\ b \in Seq(LineWord) /\ Len(b) = N - p + 1
      /\ \A i \in 1 .. N - p + 1 : b[i] = words[p + i - 1]
  <2>1. \A i \in p .. N : words[i] \in LineWord
    BY <1>1, <1>4
  <2>2. b \in Seq(LineWord) /\ Len(b) = (IF p <= N THEN N - p + 1 ELSE 0)
        /\ \A i \in 1 .. N - p + 1 : b[i] = words[p + i - 1]
    BY <1>1, <2>1, SubSeqProperties
  <2> HIDE DEF b
  <2> QED
    BY <1>1, <2>2
<1> HIDE DEF a, b, N
<1>7. /\ ao \in Seq(LineWord) /\ Len(ao) = p + 1
      /\ \A i \in 1 .. p + 1 : ao[i] = IF i <= p - 1 THEN a[i] ELSE o[i - (p - 1)]
  <2>1. /\ ao \in Seq(LineWord) /\ Len(ao) = Len(a) + Len(o)
        /\ \A i \in 1 .. Len(a) + Len(o) :
             ao[i] = IF i <= Len(a) THEN a[i] ELSE o[i - Len(a)]
    BY <1>3, <1>5, ConcatProperties
  <2> HIDE DEF ao
  <2>2. Len(a) + Len(o) = p + 1 /\ Len(a) = p - 1
    BY <1>1, <1>3, <1>5
  <2> QED
    BY <2>1, <2>2
<1> HIDE DEF ao
<1>8. /\ line \in Seq(LineWord) /\ Len(line) = N + 2
      /\ \A i \in 1 .. N + 2 : line[i] = IF i <= p + 1 THEN ao[i] ELSE b[i - (p + 1)]
  <2>1. /\ line \in Seq(LineWord) /\ Len(line) = Len(ao) + Len(b)
        /\ \A i \in 1 .. Len(ao) + Len(b) :
             line[i] = IF i <= Len(ao) THEN ao[i] ELSE b[i - Len(ao)]
    BY <1>6, <1>7, ConcatProperties
  <2> HIDE DEF line
  <2>2. Len(ao) + Len(b) = N + 2 /\ Len(ao) = p + 1
    BY <1>1, <1>6, <1>7
  <2> QED
    BY <2>1, <2>2
<1> HIDE DEF line
<1>9. \A i \in 1 .. p - 1 : line[i] = words[i]
  <2> TAKE i \in 1 .. p - 1
  <2>1. i \in 1 .. N + 2 /\ i <= p + 1 /\ i \in 1 .. p + 1 /\ i <= p - 1
    BY <1>1
  <2> QED
    BY <1>5, <1>7, <1>8, <2>1
<1>10. line[p] = "-o" /\ line[p + 1] = "out"
  <2>1. /\ p \in 1 .. N + 2 /\ p <= p + 1 /\ p \in 1 .. p + 1 /\ ~(p <= p - 1)
        /\ p + 1 \in 1 .. N + 2 /\ p + 1 <= p + 1 /\ p + 1 \in 1 .. p + 1 /\ ~(p + 1 <= p - 1)
        /\ p - (p - 1) = 1 /\ (p + 1) - (p - 1) = 2
    BY <1>1
  <2>2. line[p] = o[1] /\ line[p + 1] = o[2]
    BY <1>7, <1>8, <2>1
  <2> QED
    BY <1>3, <2>2
<1>11. \A i \in p + 2 .. N + 2 : line[i] = words[i - 2]
  <2> TAKE i \in p + 2 .. N + 2
  <2>1. /\ i \in 1 .. N + 2 /\ ~(i <= p + 1) /\ i - (p + 1) \in 1 .. N - p + 1
        /\ p + (i - (p + 1)) - 1 = i - 2
    BY <1>1
  <2>2. line[i] = b[i - (p + 1)]
    BY <1>8, <2>1
  <2>3. b[i - (p + 1)] = words[p + (i - (p + 1)) - 1]
    BY <1>6, <2>1
  <2> QED
    BY <2>1, <2>2, <2>3
<1> QED
  BY <1>2, <1>8, <1>9, <1>10, <1>11 DEF WithOutput, words, N

LEMMA LineWords == WordSet(LineWord)
BY DEF WordSet, LineWord

(* What a line with -o is to the parser: if -o is not the first word, the  *)
(* mode is, and if it is, the mode is the third one.                       *)
LineBegins(line, p) ==
  /\ p # 1 => line[1] \in ModeOption /\ OnlyOutput(line, p)
  /\ p = 1 => /\ line[1] = "-o" /\ line[2] \notin OptionWord /\ line[3] \in ModeOption
              /\ \A k \in 4 .. Len(line) : line[k] \notin OptionWord

LEMMA OutputLine ==
  ASSUME NEW mode \in ModeOption, NEW p \in 1 .. Len(UsageOf(mode)) + 1, NEW line,
         line = UsageLine(mode, p)
  PROVE  /\ line \in Seq(LineWord) /\ Len(line) >= 3 /\ LineBegins(line, p)
         /\ \A k \in OptionPlaces(line) : ~GivesUp(line, k)
         /\ \A k \in DOMAIN line : line[k] # Nothing
<1> DEFINE words == UsageOf(mode)
           N == Len(words)
<1>1. IsUsage(words, mode) /\ WithOutput(line, words, p) /\ p \in 1 .. N + 1
  BY UsageIs, LineIs
<1> HIDE DEF words, N
<1>2. /\ words \in Seq(LineWord) /\ N \in 2 .. 5 /\ N + 1 = ArgcOf(mode) /\ words[1] = mode
      /\ \A i \in 2 .. N : words[i] \notin OptionWord /\ words[i] # Nothing
  BY <1>1 DEF IsUsage, N
<1>3. /\ line \in Seq(LineWord) /\ Len(line) = N + 2 /\ DOMAIN line = 1 .. N + 2
      /\ \A i \in 1 .. p - 1 : line[i] = words[i]
      /\ line[p] = "-o" /\ line[p + 1] = "out"
      /\ \A i \in p + 2 .. N + 2 : line[i] = words[i - 2]
  BY <1>1 DEF WithOutput, N
<1>4. p \in Nat /\ p >= 1 /\ p <= N + 1 /\ N \in Nat /\ N >= 2
  BY <1>1, <1>2
<1>5. "out" \notin OptionWord /\ "out" # Nothing /\ "-o" # Nothing /\ mode # Nothing
      /\ mode \in OptionWord
  BY DEF OptionWord, WithArgument, ModeOption, Nothing
<1> DEFINE at == IF p = 1 THEN 3 ELSE 1
<1>6. at \in 1 .. N + 2 /\ line[at] = mode
  <2>1. CASE p = 1
    <3>1. 3 \in p + 2 .. N + 2 /\ 3 - 2 = 1
      BY <1>4, <2>1
    <3> QED
      BY <1>2, <1>3, <1>4, <2>1, <3>1
  <2>2. CASE p # 1
    <3>1. 1 \in 1 .. p - 1
      BY <1>4, <2>2
    <3> QED
      BY <1>2, <1>3, <1>4, <2>2, <3>1
  <2> QED
    BY <2>1, <2>2
<1>7. \A k \in 1 .. N + 2 : k # at /\ k # p => line[k] \notin OptionWord /\ line[k] # Nothing
  <2> TAKE k \in 1 .. N + 2
  <2> HAVE k # at /\ k # p
  <2>1. k \in Nat /\ k >= 1 /\ k <= N + 2
    BY <1>4
  <2>2. CASE k <= p - 1
    <3>1. k \in 1 .. p - 1 /\ k \in 2 .. N
      BY <1>4, <2>1, <2>2
    <3> QED
      BY <1>2, <1>3, <3>1
  <2>3. CASE k = p + 1
    BY <1>3, <1>5, <2>3
  <2>4. CASE k >= p + 2
    <3>1. k \in p + 2 .. N + 2 /\ k - 2 \in 2 .. N
      BY <1>4, <2>1, <2>4
    <3> QED
      BY <1>2, <1>3, <3>1
  <2> QED
    BY <1>4, <2>1, <2>2, <2>3, <2>4
<1> HIDE DEF at
<1>8. \A k \in DOMAIN line : line[k] # Nothing
  BY <1>3, <1>5, <1>6, <1>7
<1>9. \A k \in OptionPlaces(line) : ~GivesUp(line, k)
  <2> TAKE k \in OptionPlaces(line)
  <2>1. k \in 1 .. N + 2 /\ line[k] \in OptionWord
    BY <1>3, OptionsAre DEF OptionPlaces
  <2>2. k = at \/ k = p
    BY <1>7, <2>1
  <2>3. CASE k = at
    <3>1. line[k] = mode /\ k # Len(line)
      BY <1>3, <1>4, <1>6, <2>3 DEF at
    <3>2. ~(Len(line) + 1 < ArgcOf(mode))
      BY <1>2, <1>3, <1>4
    <3> QED
      BY <3>1, <3>2 DEF GivesUp, ModeOption, WithArgument
  <2>4. CASE k = p
    <3>1. line[k] = "-o" /\ k # Len(line)
      BY <1>3, <1>4, <2>4
    <3> QED
      BY <3>1 DEF GivesUp, ModeOption, WithArgument
  <2> QED
    BY <2>2, <2>3, <2>4
<1>10. LineBegins(line, p)
  <2>1. ASSUME p # 1
        PROVE  line[1] \in ModeOption /\ OnlyOutput(line, p)
    <3>1. at = 1
      BY <2>1 DEF at
    <3>2. \A k \in 2 .. Len(line) : k \in 1 .. N + 2 /\ k # 1
      BY <1>3, <1>4
    <3> QED
      BY <1>3, <1>6, <1>7, <3>1, <3>2 DEF OnlyOutput
  <2>2. ASSUME p = 1
        PROVE  /\ line[1] = "-o" /\ line[2] \notin OptionWord /\ line[3] \in ModeOption
               /\ \A k \in 4 .. Len(line) : line[k] \notin OptionWord
    <3>1. at = 3 /\ line[1] = "-o"
      BY <1>3, <2>2 DEF at
    <3>2. \A k \in 4 .. Len(line) : k \in 1 .. N + 2 /\ k # 1 /\ k # 3
      BY <1>3, <1>4
    <3>3. 2 \in 1 .. N + 2
      BY <1>4
    <3> QED
      BY <1>6, <1>7, <2>2, <3>1, <3>2, <3>3
  <2> QED
    BY <2>1, <2>2, Zenon DEF LineBegins
<1>11. Len(line) >= 3
  BY <1>3, <1>4
<1> QED
  BY <1>3, <1>8, <1>9, <1>10, <1>11

(* The line without -o.                                                    *)
LEMMA PlainLine ==
  ASSUME NEW mode \in ModeOption, NEW line, line = UsageOf(mode)
  PROVE  /\ line \in Seq(LineWord) /\ Len(line) >= 1 /\ line[1] \in ModeOption
         /\ OnlyOutput(line, 0)
         /\ \A k \in OptionPlaces(line) : ~GivesUp(line, k)
         /\ \A k \in DOMAIN line : line[k] # Nothing
<1>1. /\ line \in Seq(LineWord) /\ Len(line) \in 2 .. 5 /\ Len(line) + 1 = ArgcOf(mode)
      /\ line[1] = mode /\ DOMAIN line = 1 .. Len(line)
      /\ \A i \in 2 .. Len(line) : line[i] \notin OptionWord /\ line[i] # Nothing
  BY UsageIs DEF IsUsage
<1>2. \A k \in 1 .. Len(line) : k = 1 \/ k \in 2 .. Len(line)
  BY <1>1
<1>3. \A k \in OptionPlaces(line) : ~GivesUp(line, k)
  <2> TAKE k \in OptionPlaces(line)
  <2>1. k \in 1 .. Len(line) /\ line[k] \in OptionWord
    BY <1>1, OptionsAre DEF OptionPlaces
  <2>2. k = 1 /\ line[k] = mode
    BY <1>1, <1>2, <2>1
  <2>3. k # Len(line) /\ ~(Len(line) + 1 < ArgcOf(mode))
    BY <1>1, <2>2
  <2> QED
    BY <2>2, <2>3 DEF GivesUp, ModeOption, WithArgument
<1>4. \A k \in DOMAIN line : line[k] # Nothing
  BY <1>1, <1>2 DEF ModeOption, Nothing
<1>5. OnlyOutput(line, 0) /\ Len(line) >= 1
  BY <1>1 DEF OnlyOutput
<1> QED
  BY <1>1, <1>3, <1>4, <1>5

(* The fields of a mode, from the words after the first.                   *)
MadeOf(made, mode, line) ==
  /\ made.mode = mode /\ made.file_in = line[2]
  /\ made.target_version = (IF mode \in {"-u", "-m"} THEN line[3] ELSE Nothing)
  /\ made.device_info = (IF mode = "-i" THEN line[3] ELSE IF mode = "-m" THEN line[4] ELSE Nothing)
  /\ made.schema_file = (IF mode = "-u" THEN line[4] ELSE IF mode = "-m" THEN line[5] ELSE Nothing)

LEMMA MadeIs ==
  ASSUME NEW mode \in ModeOption, NEW line
  PROVE  MadeOf(FieldsOfMode(NoFields, mode, line), mode, line)
<1>1. CASE mode = "-e"
  BY <1>1 DEF MadeOf, FieldsOfMode, NoFields, Field
<1>2. CASE mode = "-i"
  BY <1>2 DEF MadeOf, FieldsOfMode, NoFields, Field
<1>3. CASE mode = "-u"
  BY <1>3 DEF MadeOf, FieldsOfMode, NoFields, Field
<1>4. CASE mode = "-m"
  BY <1>4 DEF MadeOf, FieldsOfMode, NoFields, Field
<1> QED
  BY <1>1, <1>2, <1>3, <1>4 DEF ModeOption

(* The arguments of each mode, at their places.                            *)
Places(words, mode) ==
  /\ words[1] = mode /\ words[2] = "in"
  /\ mode = "-e" => Len(words) = 2
  /\ mode = "-i" => Len(words) = 3 /\ words[3] = "part"
  /\ mode = "-u" => Len(words) = 4 /\ words[3] = "version" /\ words[4] = "schema"
  /\ mode = "-m" => Len(words) = 5 /\ words[3] = "version" /\ words[4] = "part"
                      /\ words[5] = "schema"

LEMMA PlacesAre ==
  ASSUME NEW mode \in ModeOption
  PROVE  Places(UsageOf(mode), mode)
<1>1. CASE mode = "-e"
  BY <1>1 DEF UsageOf, Places
<1>2. CASE mode = "-i"
  BY <1>2 DEF UsageOf, Places
<1>3. CASE mode = "-u"
  BY <1>3 DEF UsageOf, Places
<1>4. CASE mode = "-m"
  BY <1>4 DEF UsageOf, Places
<1> QED
  BY <1>1, <1>2, <1>3, <1>4 DEF ModeOption

LEMMA GoodLine ==
  ASSUME NEW mode \in ModeOption, NEW p, p = 0 \/ p = Len(UsageOf(mode)) + 1,
         NEW u, u = [mode |-> mode, before |-> p, line |-> UsageLine(mode, p)]
  PROVE  parse_main_args(u.line) = Asked(u)
<1> DEFINE words == UsageOf(mode)
           N == Len(words)
           line == UsageLine(mode, p)
           got == parse_main_args(line)
           made == FieldsOfMode(NoFields, mode, line)
           asked == Asked(u)
<1>1. IsUsage(words, mode) /\ Places(words, mode) /\ N \in Nat /\ N >= 2
  BY UsageIs, PlacesAre DEF IsUsage
<1>2. \A i \in 1 .. N : line[i] = words[i]
  <2>1. CASE p = 0
    BY <2>1 DEF UsageLine
  <2>2. CASE p = N + 1
    <3>1. p \in 1 .. N + 1
      BY <1>1, <2>2
    <3>2. WithOutput(line, words, p) /\ p - 1 = N
      BY <1>1, <2>2, <3>1, LineIs
    <3> HIDE DEF line, words, N
    <3> QED
      BY <3>2 DEF WithOutput
  <2> QED
    BY <2>1, <2>2
<1>3. /\ line \in Seq(LineWord) /\ Len(line) >= 1 /\ line[1] \in ModeOption
      /\ OnlyOutput(line, p) /\ \A k \in OptionPlaces(line) : ~GivesUp(line, k)
  <2>1. CASE p = 0
    <3>1. line = words
      BY <2>1 DEF UsageLine
    <3> QED
      BY <2>1, <3>1, PlainLine
  <2>2. CASE p = N + 1
    <3>1. p \in 1 .. N + 1 /\ p # 1
      BY <1>1, <2>2
    <3>2. /\ line \in Seq(LineWord) /\ Len(line) >= 3 /\ LineBegins(line, p)
          /\ \A k \in OptionPlaces(line) : ~GivesUp(line, k)
      BY <3>1, OutputLine
    <3> QED
      BY <3>1, <3>2 DEF LineBegins
  <2> QED
    BY <2>1, <2>2
<1>4. line[1] = mode
  <2>1. 1 \in 1 .. N
    BY <1>1
  <2> QED
    BY <1>1, <1>2, <2>1 DEF Places
<1>5. /\ got \in Fields(LineWord)
      /\ \A field \in Field \ {"file_out"} : got[field] = made[field]
      /\ got.file_out = IF p \in OptionPlaces(line) \ {1} THEN line[p + 1] ELSE Nothing
  BY <1>3, <1>4, LineWords, ModeFirst
<1>6. got.file_out = (IF p = 0 THEN Nothing ELSE "out")
  <2>1. CASE p = 0
    <3>1. p \notin OptionPlaces(line)
      <4>1. DOMAIN line = 1 .. Len(line) /\ 0 \notin 1 .. Len(line)
        BY <1>3
      <4> QED
        BY <2>1, <4>1 DEF OptionPlaces
    <3> QED
      BY <1>5, <2>1, <3>1
  <2>2. CASE p = N + 1
    <3>1. p \in 1 .. N + 1 /\ p # 1 /\ p # 0 /\ p - 1 = N /\ N \in 2 .. N
      BY <1>1, <2>2
    <3>2. WithOutput(line, words, p)
      BY <3>1, LineIs
    <3>3. line[p] = "-o" /\ line[p + 1] = "out" /\ Len(line) = N + 2
      BY <3>2 DEF WithOutput
    <3>4. p \in 1 .. Len(line) /\ DOMAIN line = 1 .. Len(line)
      BY <1>1, <1>3, <3>1, <3>3
    <3>5. line[p - 1] \notin WithArgument
      <4>1. words[N] \notin OptionWord
        BY <1>1, <3>1 DEF IsUsage
      <4>2. line[N] = words[N]
        BY <1>1, <1>2
      <4> QED
        BY <3>1, <4>1, <4>2 DEF OptionWord
    <3>6. "-o" \in OptionWord
      BY DEF OptionWord, WithArgument
    <3> HIDE DEF line, N, words
    <3>7. IsOptionAt(line)[p]
      BY <1>3, <3>3, <3>4, <3>5, <3>6, OptionsAre
    <3>8. p \in OptionPlaces(line) \ {1}
      BY <3>1, <3>4, <3>7 DEF OptionPlaces
    <3> QED
      BY <1>5, <3>1, <3>3, <3>8
  <2> QED
    BY <2>1, <2>2
<1>7. MadeOf(made, mode, line)
  BY MadeIs
<1>8. u.mode = mode /\ u.before = p /\ u.line = line
  OBVIOUS
<1> HIDE DEF words, N, line, got, made
<1>9. /\ got["mode"] = mode /\ got["file_in"] = "in"
      /\ got["target_version"] = (IF mode \in {"-u", "-m"} THEN "version" ELSE Nothing)
      /\ got["device_info"] = (IF mode \in {"-i", "-m"} THEN "part" ELSE Nothing)
      /\ got["schema_file"] = (IF mode \in {"-u", "-m"} THEN "schema" ELSE Nothing)
  <2>1. /\ got["mode"] = made["mode"] /\ got["file_in"] = made["file_in"]
        /\ got["target_version"] = made["target_version"]
        /\ got["device_info"] = made["device_info"]
        /\ got["schema_file"] = made["schema_file"]
    BY <1>5 DEF Field
  <2>2. line[2] = words[2]
    BY <1>1, <1>2
  <2>3. N >= 3 => line[3] = words[3]
    BY <1>1, <1>2
  <2>4. N >= 4 => line[4] = words[4]
    BY <1>1, <1>2
  <2>5. N >= 5 => line[5] = words[5]
    BY <1>1, <1>2
  <2>6. /\ Places(words, mode) /\ N = Len(words)
    BY <1>1 DEF N
  <2>7. CASE mode = "-e"
    BY <1>7, <2>1, <2>2, <2>6, <2>7 DEF MadeOf, Places
  <2>8. CASE mode = "-i"
    BY <1>7, <2>1, <2>2, <2>3, <2>6, <2>8 DEF MadeOf, Places
  <2>9. CASE mode = "-u"
    BY <1>7, <2>1, <2>2, <2>3, <2>4, <2>6, <2>9 DEF MadeOf, Places
  <2>10. CASE mode = "-m"
    BY <1>7, <2>1, <2>2, <2>3, <2>4, <2>5, <2>6, <2>10 DEF MadeOf, Places
  <2> QED
    BY <2>7, <2>8, <2>9, <2>10 DEF ModeOption
<1>10. asked \in [Field -> {asked[field] : field \in Field}]
  BY DEF Asked, Field
<1>11. /\ asked["mode"] = mode /\ asked["file_in"] = "in"
       /\ asked["file_out"] = (IF p = 0 THEN Nothing ELSE "out")
       /\ asked["target_version"] = (IF mode \in {"-u", "-m"} THEN "version" ELSE Nothing)
       /\ asked["device_info"] = (IF mode \in {"-i", "-m"} THEN "part" ELSE Nothing)
       /\ asked["schema_file"] = (IF mode \in {"-u", "-m"} THEN "schema" ELSE Nothing)
  BY <1>8 DEF Asked
<1> HIDE DEF asked
<1>12. \A field \in Field : got[field] = asked[field]
  BY <1>6, <1>9, <1>11 DEF Field
<1>13. got = asked
  BY <1>5, <1>10, <1>12 DEF Fields
<1> QED
  BY <1>8, <1>13 DEF got, asked, line

LEMMA BadLine ==
  ASSUME NEW mode \in ModeOption, NEW p \in 1 .. Len(UsageOf(mode)),
         NEW u, u = [mode |-> mode, before |-> p, line |-> UsageLine(mode, p)]
  PROVE  parse_main_args(u.line) # Asked(u)
<1> DEFINE words == UsageOf(mode)
           N == Len(words)
           line == UsageLine(mode, p)
           got == parse_main_args(line)
           made == FieldsOfMode(NoFields, mode, line)
           asked == Asked(u)
<1>1. IsUsage(words, mode) /\ Places(words, mode) /\ N \in Nat /\ N >= 2 /\ p \in 1 .. N + 1
  BY UsageIs, PlacesAre DEF IsUsage
<1>2. /\ line \in Seq(LineWord) /\ Len(line) >= 3 /\ LineBegins(line, p)
      /\ \A k \in OptionPlaces(line) : ~GivesUp(line, k)
  BY <1>1, OutputLine
<1>3. WithOutput(line, words, p)
  BY <1>1, LineIs
<1>4. u.mode = mode /\ u.line = line
  OBVIOUS
<1>5. /\ asked["file_in"] = "in"
      /\ asked["target_version"] = (IF mode \in {"-u", "-m"} THEN "version" ELSE Nothing)
      /\ asked["device_info"] = (IF mode \in {"-i", "-m"} THEN "part" ELSE Nothing)
      /\ asked["schema_file"] = (IF mode \in {"-u", "-m"} THEN "schema" ELSE Nothing)
  BY <1>4 DEF Asked
<1>6. CASE p = 1
  <2>1. /\ line[1] = "-o" /\ line[2] \notin OptionWord /\ line[3] \in ModeOption
        /\ \A k \in 4 .. Len(line) : line[k] \notin OptionWord
    BY <1>2, <1>6 DEF LineBegins
  <2>2. got.file_in = line[2]
    BY <1>2, <2>1, LineWords, OutputFirst
  <2>3. line[2] = "out"
    BY <1>3, <1>6 DEF WithOutput
  <2> HIDE DEF got, asked, line
  <2>4. got # asked
    BY <1>5, <2>2, <2>3
  <2> QED
    BY <1>4, <2>4 DEF got, asked, line
<1>7. CASE p # 1
  <2>1. line[1] \in ModeOption /\ OnlyOutput(line, p) /\ line[p] = "-o"
    BY <1>2, <1>3, <1>7 DEF LineBegins, WithOutput
  <2>2. line[1] = mode
    <3>1. 1 \in 1 .. p - 1
      BY <1>1, <1>7
    <3> QED
      BY <1>1, <1>3, <3>1 DEF WithOutput, Places
  <2>3. \A field \in Field \ {"file_out"} : got[field] = made[field]
    <3>1. Len(line) >= 1
      BY <1>2
    <3> QED
      BY <1>2, <2>1, <2>2, <3>1, LineWords, ModeFirst
  <2>4. MadeOf(made, mode, line)
    BY MadeIs
  <2>5. p \in Nat /\ p >= 2 /\ p <= N
    BY <1>1, <1>7
  <2> HIDE DEF got, asked, line, made
  <2>6. /\ got["file_in"] = made["file_in"]
        /\ got["target_version"] = made["target_version"]
        /\ got["device_info"] = made["device_info"]
        /\ got["schema_file"] = made["schema_file"]
    BY <2>3 DEF Field
  <2>7. Places(words, mode) /\ N = Len(words)
    BY <1>1
  <2> HIDE DEF words, N
  <2>8. got # asked
    <3>1. CASE mode = "-e"
      <4>1. p = 2
        BY <2>5, <2>7, <3>1 DEF Places
      <4> QED
        BY <1>5, <2>1, <2>4, <2>6, <4>1 DEF MadeOf
    <3>2. CASE mode = "-i"
      <4>1. p = 2 \/ p = 3
        BY <2>5, <2>7, <3>2 DEF Places
      <4> QED
        BY <1>5, <2>1, <2>4, <2>6, <3>2, <4>1 DEF MadeOf
    <3>3. CASE mode = "-u"
      <4>1. p = 2 \/ p = 3 \/ p = 4
        BY <2>5, <2>7, <3>3 DEF Places
      <4> QED
        BY <1>5, <2>1, <2>4, <2>6, <3>3, <4>1 DEF MadeOf
    <3>4. CASE mode = "-m"
      <4>1. p = 2 \/ p = 3 \/ p = 4 \/ p = 5
        BY <2>5, <2>7, <3>4 DEF Places
      <4> QED
        BY <1>5, <2>1, <2>4, <2>6, <3>4, <4>1 DEF MadeOf
    <3> QED
      BY <3>1, <3>2, <3>3, <3>4 DEF ModeOption
  <2> QED
    BY <1>4, <2>8 DEF got, asked, line
<1> QED
  BY <1>6, <1>7

LEMMA UsageParsed ==
  ASSUME NEW u \in UsageLines
  PROVE  /\ parse_main_args(u.line) = Asked(u) <=> u.before \in {0, Len(UsageOf(u.mode)) + 1}
         /\ AllNamed(parse_main_args(u.line))
<1>1. PICK mode \in ModeOption : \E p \in 0 .. Len(UsageOf(mode)) + 1 :
        u = [mode |-> mode, before |-> p, line |-> UsageLine(mode, p)]
  BY Zenon DEF UsageLines
<1>2. PICK p \in 0 .. Len(UsageOf(mode)) + 1 :
        u = [mode |-> mode, before |-> p, line |-> UsageLine(mode, p)]
  BY <1>1
<1>3. u.mode = mode /\ u.before = p /\ u.line = UsageLine(mode, p)
  BY <1>2
<1>4. Len(UsageOf(mode)) \in Nat /\ p \in Nat
  BY UsageIs DEF IsUsage
<1>5. parse_main_args(u.line) = Asked(u) <=> p \in {0, Len(UsageOf(mode)) + 1}
  <2>1. CASE p = 0 \/ p = Len(UsageOf(mode)) + 1
    <3>1. parse_main_args(u.line) = Asked(u)
      BY <1>2, <2>1, GoodLine
    <3> QED
      BY <2>1, <3>1
  <2>2. CASE p # 0 /\ p # Len(UsageOf(mode)) + 1
    <3>1. p \in 1 .. Len(UsageOf(mode))
      BY <1>4, <2>2
    <3>2. parse_main_args(u.line) # Asked(u)
      BY <1>2, <3>1, BadLine
    <3> QED
      BY <2>2, <3>2
  <2> QED
    BY <2>1, <2>2
<1>6. u.line \in Seq(LineWord) /\ \A k \in DOMAIN u.line : u.line[k] # Nothing
  <2>1. CASE p = 0
    <3>1. u.line = UsageOf(mode)
      BY <1>3, <2>1 DEF UsageLine
    <3> QED
      BY <3>1, PlainLine
  <2>2. CASE p # 0
    <3>1. p \in 1 .. Len(UsageOf(mode)) + 1
      BY <1>4, <2>2
    <3> QED
      BY <1>3, <3>1, OutputLine
  <2> QED
    BY <2>1, <2>2
<1>7. AllNamed(parse_main_args(u.line))
  BY <1>6, LineWords, LineNamesAll
<1> QED
  BY <1>3, <1>5, <1>7

LEMMA LineParsed ==
  ASSUME NEW line \in Lines
  PROVE  AllNamed(parse_main_args(line))
<1> DEFINE W == STRING \cup ModeOption \cup {Usage, Nothing}
<1>1. line \in Seq(STRING) /\ \A k \in DOMAIN line : line[k] # Nothing
  BY ValuesAssumption
<1>2. STRING \subseteq W /\ WordSet(W)
  BY Zenon DEF WordSet
<1> HIDE DEF W
<1>3. line \in Seq(W)
  <2>1. \A A, B : A \subseteq B => Seq(A) \subseteq Seq(B)
    OBVIOUS
  <2>2. Seq(STRING) \subseteq Seq(W)
    BY <1>2, <2>1, Zenon
  <2> QED
    BY <1>1, <2>2, Zenon
<1> QED
  BY <1>1, <1>2, <1>3, LineNamesAll

(* For all lines: a line of the usage text gives the fields it was typed   *)
(* with exactly if -o is its last option or not there, and on any line a   *)
(* mode that is chosen has every file it needs (zwave_nvm_tool.c:26-109).  *)
THEOREM FieldsHold == ValuesSpec => []FieldsAsTyped
<1>1. ASSUME ValuesInv
      PROVE  FieldsAsTyped
  <2>1. ASSUME kind = "usage", stage = "stored"
        PROVE  /\ stored = Asked(given) <=> given.before \in {0, Len(UsageOf(given.mode)) + 1}
               /\ AllNamed(stored)
    <3>1. given \in UsageLines /\ stored = parse_main_args(given.line)
      BY <1>1, <2>1 DEF ValuesInv, ArgumentsInv
    <3> QED
      BY <3>1, UsageParsed
  <2>2. ASSUME kind = "line", stage = "stored"
        PROVE  AllNamed(stored)
    <3>1. given \in Lines /\ stored = parse_main_args(given)
      BY <1>1, <2>2 DEF ValuesInv, ArgumentsInv
    <3> QED
      BY <3>1, LineParsed
  <2> QED
    BY <2>1, <2>2, Zenon DEF FieldsAsTyped, AllNamed
<1> QED
  BY <1>1, ValuesInvHolds, PTL

(* For all names and lengths: no run writes to its own input and no two    *)
(* inputs go to one output, but for the default names; and the three runs  *)
(* end under the name of the migration exactly if the names on the way fit *)
(* (nvmconv_main.c:77-101, 164-196, json_upgrade.c:479-499).               *)
THEOREM OutputsStayApart == ValuesSpec => []OutputsApart
<1>1. ASSUME ValuesInv
      PROVE  OutputsApart
  <2> SUFFICES ASSUME kind = "names", stage = "stored"
               PROVE  OutputsApart
    BY DEF OutputsApart
  <2> DEFINE one == given[1]
             two == given[2]
  <2>1. given \in Names \X Names /\ stored = NamesFor(given)
    BY <1>1 DEF ValuesInv, NamesInv
  <2>2. one \in Names /\ two \in Names
    BY <2>1
  <2>3. InputName(one) /\ InputName(two)
    <3> HIDE DEF one, two
    <3> QED
      BY <2>2, ValuesAssumption DEF InputName
  <2>4. \A mode \in ModeOption : stored.of[mode] = <<OutputName(mode, one), OutputName(mode, two)>>
    BY <2>1 DEF NamesFor
  <2>5. stored.stepwise = OutputName("-i", OutputName("-u", OutputName("-e", one)))
    BY <2>1 DEF NamesFor
  <2> HIDE DEF one, two
  <2>6. \A mode \in ModeOption : /\ stored.of[mode][1] = OutputName(mode, one)
                                 /\ stored.of[mode][2] = OutputName(mode, two)
    BY <2>4
  <2>7. ASSUME NEW mode \in ModeOption
        PROVE  LET out == stored.of[mode]
               IN  /\ out[1] = one => out[1] = DefaultName(mode)
                   /\ out[1] = out[2] => one = two \/ out[1] = DefaultName(mode)
    BY <2>3, <2>6, NotItsOwn, NotAnothers
  <2>8. ASSUME one.ext = ".bin", one.stem # "output", LengthOf(one) \in 5 .. NameSize - 1
        PROVE  LET fits == LengthOf(one) + 10 < NameSize
               IN  /\ stored.stepwise = stored.of["-m"][1] <=> fits
                   /\ fits => OutputName("-i", stored.of["-e"][1]) = one
    <3>1. "-m" \in ModeOption /\ "-e" \in ModeOption
      BY DEF ModeOption
    <3> QED
      BY <2>3, <2>5, <2>6, <2>8, <3>1, StepwiseNames
  <2> QED
    BY <2>7, <2>8 DEF OutputsApart, one, two
<1> QED
  BY <1>1, ValuesInvHolds, PTL

------------------------------------------------------------------------------
(***************************************************************************)
(* The controller information                                              *)
(***************************************************************************)
LEMMA OneKey ==
  ASSUME NEW k, NEW v
  PROVE  DOMAIN Single(k, v) = {k} /\ Single(k, v)[k] = v
<1>1. Single(k, v) = [x \in {k} |-> v]
  BY Zenon DEF Single
<1> QED
  BY <1>1

LEMMA NoKeys == DOMAIN <<>> = {}
OBVIOUS

LEMMA JoinedKeys ==
  ASSUME NEW f, NEW g
  PROVE  /\ DOMAIN (f ++ g) = DOMAIN f \cup DOMAIN g
         /\ \A x \in DOMAIN f : (f ++ g)[x] = f[x]
         /\ \A x \in DOMAIN g : x \notin DOMAIN f => (f ++ g)[x] = g[x]
<1>1. (f ++ g) = [x \in DOMAIN f \cup DOMAIN g |-> IF x \in DOMAIN f THEN f[x] ELSE g[x]]
  BY Zenon DEF ++
<1> QED
  BY <1>1, Zenon

(* Numbers of some width.                                                  *)
LEMMA Unsigned ==
  ASSUME NEW size \in Nat \ {0}, NEW v \in Int
  PROVE  /\ AsUnsigned(v, size) \in 0 .. size - 1
         /\ v \in 0 .. size - 1 => AsUnsigned(v, size) = v
BY DEF AsUnsigned

LEMMA Signed ==
  ASSUME NEW size \in Nat \ {0}, NEW v \in Int
  PROVE  /\ AsSigned(v, size) \in -(size \div 2) .. size - 1 - (size \div 2)
         /\ v \in -(size \div 2) .. size - 1 - (size \div 2) => AsSigned(v, size) = v
         /\ AsSigned(AsSigned(v, size), size) = AsSigned(v, size)
<1> DEFINE h == size \div 2
<1>1. h \in Nat /\ 2 * h <= size
  OBVIOUS
<1> HIDE DEF h
<1>2. \A u \in Int : /\ ((u + h) % size) - h \in -h .. size - 1 - h
                     /\ u \in -h .. size - 1 - h => ((u + h) % size) - h = u
  <2> TAKE u \in Int
  <2>1. (u + h) % size \in 0 .. size - 1
    BY <1>1
  <2>2. u \in -h .. size - 1 - h => u + h \in 0 .. size - 1
    BY <1>1
  <2>3. \A w \in 0 .. size - 1 : w % size = w
    OBVIOUS
  <2> QED
    BY <1>1, <2>1, <2>2, <2>3
<1>3. \A u : AsSigned(u, size) = ((u + h) % size) - h
  BY Zenon DEF AsSigned, h
<1>4. AsSigned(v, size) \in Int
  <2>1. \A u \in -h .. size - 1 - h : u \in Int
    OBVIOUS
  <2> QED
    BY <1>2, <1>3, <2>1, Zenon
<1>5. /\ AsSigned(v, size) \in -h .. size - 1 - h
      /\ v \in -h .. size - 1 - h => AsSigned(v, size) = v
      /\ AsSigned(AsSigned(v, size), size) = AsSigned(v, size)
  BY <1>2, <1>3, <1>4, Zenon
<1> QED
  BY <1>5 DEF h

(* The place of the last byte that is not zero.                            *)
LastByte(bytes) == Max({0} \cup {i \in DOMAIN bytes : bytes[i] # 0})

Padded(bytes) == [i \in 1 .. DataSize |-> IF i <= Len(bytes) THEN bytes[i] ELSE 0]

LEMMA LastByteIs ==
  ASSUME NEW bytes \in Seq(Octet)
  PROVE  /\ LastByte(bytes) \in 0 .. Len(bytes)
         /\ LastByte(bytes) # 0 => bytes[LastByte(bytes)] # 0
         /\ \A i \in 1 .. Len(bytes) : bytes[i] # 0 => i <= LastByte(bytes)
<1> DEFINE T == {0} \cup {i \in DOMAIN bytes : bytes[i] # 0}
<1>1. Len(bytes) \in Nat /\ DOMAIN bytes = 1 .. Len(bytes)
  OBVIOUS
<1>2. T \in SUBSET (0 .. Len(bytes)) /\ T # {}
  BY <1>1
<1>3. Max(T) \in T /\ \A x \in T : x <= Max(T)
  <2> HIDE DEF T
  <2> QED
    BY <1>1, <1>2, GreatestOf
<1>4. LastByte(bytes) = Max(T)
  BY Zenon DEF LastByte
<1> HIDE DEF T
<1>5. LastByte(bytes) \in T /\ \A x \in T : x <= LastByte(bytes)
  BY <1>3, <1>4
<1> QED
  BY <1>1, <1>2, <1>5 DEF T

(* A number that has the properties of the last place is the last place.   *)
LEMMA LastByteUnique ==
  ASSUME NEW bytes \in Seq(Octet), NEW n \in 0 .. Len(bytes),
         n # 0 => bytes[n] # 0,
         \A i \in 1 .. Len(bytes) : bytes[i] # 0 => i <= n
  PROVE  LastByte(bytes) = n
<1>1. Len(bytes) \in Nat
  OBVIOUS
<1> DEFINE m == LastByte(bytes)
<1>2. /\ m \in 0 .. Len(bytes)
      /\ m # 0 => bytes[m] # 0
      /\ \A i \in 1 .. Len(bytes) : bytes[i] # 0 => i <= m
  BY LastByteIs
<1> HIDE DEF m
<1>3. m <= n
  BY <1>1, <1>2
<1>4. n <= m
  BY <1>1, <1>2
<1>5. m = n
  BY <1>1, <1>2, <1>3, <1>4
<1> QED
  BY <1>5 DEF m

LEMMA PaddedType ==
  ASSUME NEW bytes \in Seq(Octet)
  PROVE  /\ Padded(bytes) \in Seq(Octet) /\ Len(Padded(bytes)) = DataSize
         /\ \A i \in 1 .. DataSize : Padded(bytes)[i] = IF i <= Len(bytes) THEN bytes[i] ELSE 0
<1>1. DataSize \in Nat /\ Len(bytes) \in Nat
  BY InfoAssumption
<1>2. \A i \in 1 .. DataSize : (IF i <= Len(bytes) THEN bytes[i] ELSE 0) \in Octet
  <2> TAKE i \in 1 .. DataSize
  <2>1. 0 \in Octet
    BY DEF Octet
  <2>2. i <= Len(bytes) => i \in 1 .. Len(bytes)
    BY <1>1
  <2>3. i <= Len(bytes) => bytes[i] \in Octet
    BY <2>2, ElementOfSeq
  <2> QED
    BY <2>1, <2>3
<1> QED
  BY <1>1, <1>2 DEF Padded

(* What is exported of the file is the significant part of the bytes.      *)
LEMMA Trimmed ==
  ASSUME NEW bytes \in Seq(Octet)
  PROVE  /\ SubSeq(Padded(bytes), 1, LastByte(Padded(bytes))) = Significant(bytes)
         /\ Significant(bytes) \in Seq(Octet)
         /\ LastByte(Padded(bytes)) = Len(Significant(bytes))
         /\ Len(Significant(bytes)) <= DataSize
         /\ Len(Significant(bytes)) <= Len(bytes)
         /\ LastByte(Significant(bytes)) = Len(Significant(bytes))
<1>1. DataSize \in Nat /\ Len(bytes) \in Nat
  BY InfoAssumption
<1> DEFINE room == Min({Len(bytes), DataSize})
           kept == SubSeq(bytes, 1, room)
           file == Padded(bytes)
           n == LastByte(file)
<1>2. room = IF Len(bytes) <= DataSize THEN Len(bytes) ELSE DataSize
  BY <1>1, Lesser
<1>3. room \in 0 .. Len(bytes) /\ room \in 0 .. DataSize /\ (room < Len(bytes) => room = DataSize)
  BY <1>1, <1>2
<1> HIDE DEF room
<1>4. kept \in Seq(Octet) /\ Len(kept) = room /\ \A i \in 1 .. room : kept[i] = bytes[i]
  <2>1. \A i \in 1 .. room : bytes[i] \in Octet
    <3>1. \A i \in 1 .. room : i \in 1 .. Len(bytes)
      BY <1>1, <1>3
    <3> QED
      BY <3>1, ElementOfSeq
  <2>2. 1 \in Int /\ room \in Int
    BY <1>1, <1>3
  <2>3. /\ SubSeq(bytes, 1, room) \in Seq(Octet)
        /\ Len(SubSeq(bytes, 1, room)) = IF 1 <= room THEN room - 1 + 1 ELSE 0
        /\ \A i \in 1 .. room - 1 + 1 : SubSeq(bytes, 1, room)[i] = bytes[1 + i - 1]
    BY <2>1, <2>2, SubSeqProperties
  <2>4. (IF 1 <= room THEN room - 1 + 1 ELSE 0) = room
    BY <1>3
  <2>5. \A i \in 1 .. room : i \in 1 .. room - 1 + 1 /\ 1 + i - 1 = i
    BY <1>3
  <2> QED
    BY <2>3, <2>4, <2>5
<1>5. /\ file \in Seq(Octet) /\ Len(file) = DataSize
      /\ \A i \in 1 .. DataSize : file[i] = IF i <= Len(bytes) THEN bytes[i] ELSE 0
  BY PaddedType
<1>6. /\ n \in 0 .. DataSize
      /\ n # 0 => file[n] # 0
      /\ \A i \in 1 .. DataSize : file[i] # 0 => i <= n
  BY <1>5, LastByteIs
<1>7. Significant(bytes) = SubSeq(kept, 1, LastByte(kept))
  BY Zenon DEF Significant, LastByte, room
<1> HIDE DEF kept, file, n
<1>8. n <= room
  BY <1>1, <1>3, <1>5, <1>6
<1>9. LastByte(kept) = n
  <2>1. n \in 0 .. Len(kept)
    BY <1>3, <1>4, <1>6, <1>8
  <2>2. n # 0 => kept[n] # 0
    BY <1>1, <1>3, <1>4, <1>5, <1>6, <1>8
  <2>3. \A i \in 1 .. Len(kept) : kept[i] # 0 => i <= n
    BY <1>1, <1>3, <1>4, <1>5, <1>6
  <2> QED
    BY <1>4, <2>1, <2>2, <2>3, LastByteUnique
<1> DEFINE s == Significant(bytes)
<1>10. s = SubSeq(kept, 1, n)
  BY <1>7, <1>9
<1> HIDE DEF s
<1>11. s \in Seq(Octet) /\ Len(s) = n /\ \A i \in 1 .. n : s[i] = bytes[i] /\ s[i] = file[i]
  <2>1. \A i \in 1 .. n : i \in 1 .. room
    BY <1>3, <1>6, <1>8
  <2>2. \A i \in 1 .. n : kept[i] \in Octet /\ kept[i] = bytes[i] /\ kept[i] = file[i]
    <3> TAKE i \in 1 .. n
    <3>1. i \in 1 .. room /\ i \in 1 .. Len(kept) /\ i \in 1 .. DataSize /\ i <= Len(bytes)
      BY <1>1, <1>3, <1>4, <2>1
    <3>2. kept[i] \in Octet
      BY <1>4, <3>1, ElementOfSeq
    <3> QED
      BY <1>4, <1>5, <3>1, <3>2
  <2>3. 1 \in Int /\ n \in Int
    BY <1>1, <1>6
  <2>4. /\ SubSeq(kept, 1, n) \in Seq(Octet)
        /\ Len(SubSeq(kept, 1, n)) = IF 1 <= n THEN n - 1 + 1 ELSE 0
        /\ \A i \in 1 .. n - 1 + 1 : SubSeq(kept, 1, n)[i] = kept[1 + i - 1]
    BY <2>2, <2>3, SubSeqProperties
  <2>5. (IF 1 <= n THEN n - 1 + 1 ELSE 0) = n
    BY <1>6
  <2>6. \A i \in 1 .. n : i \in 1 .. n - 1 + 1 /\ 1 + i - 1 = i
    BY <1>6
  <2> QED
    BY <1>10, <2>2, <2>4, <2>5, <2>6
<1>12. SubSeq(file, 1, n) = s
  <2>1. \A i \in 1 .. n : file[i] \in Octet
    <3>1. \A i \in 1 .. n : i \in 1 .. Len(file)
      BY <1>1, <1>5, <1>6
    <3> QED
      BY <1>5, <3>1, ElementOfSeq
  <2>2. 1 \in Int /\ n \in Int
    BY <1>1, <1>6
  <2>3. /\ SubSeq(file, 1, n) \in Seq(Octet)
        /\ Len(SubSeq(file, 1, n)) = IF 1 <= n THEN n - 1 + 1 ELSE 0
        /\ \A i \in 1 .. n - 1 + 1 : SubSeq(file, 1, n)[i] = file[1 + i - 1]
    BY <2>1, <2>2, SubSeqProperties
  <2>4. (IF 1 <= n THEN n - 1 + 1 ELSE 0) = n
    BY <1>6
  <2>5. \A i \in 1 .. n : i \in 1 .. n - 1 + 1 /\ 1 + i - 1 = i
    BY <1>6
  <2> DEFINE t == SubSeq(file, 1, n)
  <2>6. t \in Seq(Octet) /\ Len(t) = n /\ \A i \in 1 .. n : t[i] = file[i]
    BY <2>3, <2>4, <2>5
  <2> HIDE DEF t
  <2>7. t = s
    BY <1>11, <2>6, SeqEqual
  <2> QED
    BY <2>7 DEF t
<1>13. LastByte(s) = Len(s)
  <2>1. Len(s) \in 0 .. Len(s)
    BY <1>6, <1>11
  <2>2. Len(s) # 0 => s[Len(s)] # 0
    <3>1. Len(s) # 0 => n \in 1 .. n
      BY <1>6, <1>11
    <3> QED
      BY <1>6, <1>11, <3>1
  <2>3. \A i \in 1 .. Len(s) : s[i] # 0 => i <= Len(s)
    BY <1>6, <1>11
  <2> QED
    BY <1>11, <2>1, <2>2, <2>3, LastByteUnique
<1>14. n <= Len(bytes) /\ n <= DataSize
  BY <1>1, <1>3, <1>6, <1>8
<1> QED
  BY <1>11, <1>12, <1>13, <1>14 DEF s, n, file

LEMMA SignificantAgain ==
  ASSUME NEW x \in Seq(Octet), Len(x) <= DataSize, LastByte(x) = Len(x)
  PROVE  Significant(x) = x
<1>1. DataSize \in Nat /\ Len(x) \in Nat
  BY InfoAssumption
<1>2. Min({Len(x), DataSize}) = Len(x)
  BY <1>1, Lesser
<1>3. SubSeq(x, 1, Len(x)) = x
  BY SubSeqFull
<1>4. Significant(x) = SubSeq(SubSeq(x, 1, Min({Len(x), DataSize})), 1,
                              LastByte(SubSeq(x, 1, Min({Len(x), DataSize}))))
  BY Zenon DEF Significant, LastByte
<1> QED
  BY <1>2, <1>3, <1>4

LEMMA NothingEncoded == base64_encode(<<>>, 0) = <<>> /\ base64_decode(<<>>) = NotBase64
<1>1. <<>> \in Seq(Octet) /\ Len(<<>>) = 0
  OBVIOUS
<1>2. BlocksOf(<<>>) = 0
  BY <1>1, BlockCount DEF BlocksOf
<1>3. base64_encode(<<>>, 0) = <<>>
  <2> DEFINE s == [n \in 1 .. BlocksOf(<<>>) |-> EncodedBlock(<<>>, n - 1)
                     \o (IF EndsLine(n - 1, 0) THEN <<Skipped>> ELSE <<>>)]
  <2>1. s = <<>>
    BY <1>2
  <2>2. base64_encode(<<>>, 0) = FlattenSeq(s)
    BY Zenon DEF base64_encode
  <2> HIDE DEF s
  <2>3. FlattenSeq(s) = s
    BY <2>1, <1>1, Zenon DEF FlattenSeq
  <2> QED
    BY <2>1, <2>2, <2>3
<1>4. base64_decode(base64_encode(<<>>, 0)) = NotBase64
  BY <1>1, Base64Back
<1> QED
  BY <1>3, <1>4

LEMMA DataOfText ==
  ASSUME NEW text \in Seq(Character), text = <<>> \/ base64_decode(text) # NotBase64
  PROVE  DataOf(text) \in Seq(Octet)
<1>1. CASE text = <<>>
  BY <1>1 DEF DataOf
<1>2. CASE text # <<>>
  <2>1. base64_decode(text) \in Seq(Octet)
    BY <1>2, Base64Bytes
  <2> QED
    BY <1>2, <2>1 DEF DataOf
<1> QED
  BY <1>1, <1>2

LEMMA TextOfData ==
  ASSUME NEW x \in Seq(Octet)
  PROVE  /\ base64_encode(x, 0) \in Seq(Character)
         /\ DataOf(base64_encode(x, 0)) = x
<1>1. base64_encode(x, 0) \in Seq(Character)
  BY TextWithoutBreaks
<1>2. CASE x = <<>>
  BY <1>1, <1>2, NothingEncoded DEF DataOf
<1>3. CASE x # <<>>
  <2>1. base64_decode(base64_encode(x, 0)) = x
    BY <1>3, Base64Back
  <2>2. x # NotBase64
    <3>1. NotBase64[1] = -1 /\ 1 \in 1 .. Len(NotBase64)
      BY DEF NotBase64
    <3>2. x = NotBase64 => x[1] \in Octet
      BY <3>1, ElementOfSeq
    <3>3. -1 \notin Octet
      BY DEF Octet
    <3> QED
      BY <3>1, <3>2, <3>3, Zenon
  <2>3. base64_encode(x, 0) # <<>>
    BY <2>1, <2>2, NothingEncoded
  <2> QED
    BY <1>1, <2>1, <2>3 DEF DataOf
<1> QED
  BY <1>2, <1>3

(* What is stored of the data of a document, and what is exported of it.   *)
LEMMA DataStored ==
  ASSUME NEW object
  PROVE  StoredData(object) = Padded(DataOf(DataText(object)))
BY Zenon DEF StoredData, Padded, DataOf

LEMMA DataExported ==
  ASSUME NEW bytes \in Seq(Octet)
  PROVE  ExportedData(Padded(bytes)) =
           IF Significant(bytes) = <<>> /\ generation = 711 THEN <<>>
           ELSE Single("applicationData", base64_encode(Significant(bytes), 0))
<1> DEFINE n == LastByte(Padded(bytes))
<1>1. ExportedData(Padded(bytes)) =
        IF n = 0 /\ generation = 711 THEN <<>>
        ELSE Single("applicationData", base64_encode(SubSeq(Padded(bytes), 1, n), 0))
  BY Zenon DEF ExportedData, LastByte
<1>2. SubSeq(Padded(bytes), 1, n) = Significant(bytes) /\ n = Len(Significant(bytes))
      /\ Significant(bytes) \in Seq(Octet)
  BY Trimmed
<1>3. n = 0 <=> Significant(bytes) = <<>>
  BY <1>2
<1> HIDE DEF n
<1> QED
  BY <1>1, <1>2, <1>3

(* The files of the controller information, and those an import writes or  *)
(* an export looks for.                                                    *)
InfoFile ==
  {"CONTROLLERINFO", "APPLICATIONSETTINGS", "APPLICATIONCMDINFO", "APPLICATIONDATA",
   "APP_NAME", "PROPRIETARY_1", "APPLICATIONCONFIGURATION", "tables"}

LEMMA TargetFits ==
  ASSUME target \in Target
  PROVE  /\ Writes(target.layout, target.hw, prot)
         /\ Major(prot) \in {7, 8} /\ Minor(prot) \in Nat /\ Patch(prot) \in Nat
         /\ prot \in Version /\ generation \in {711, 715, 719}
         /\ Is720OrNewer(prot) => generation = 719
<1>1. /\ prot \in Nat \X Nat \X Nat /\ prot = Stored(prot)
      /\ \E chip \in PartNumber :
            /\ TargetLayout(chip, prot) # Rejected
            /\ target.layout = TargetLayout(chip, prot) /\ target.hw = TargetHardware(chip)
  BY InfoAssumption, Zenon DEF prot
<1>2. prot \in Version
  BY <1>1 DEF Version
<1>3. Writes(target.layout, target.hw, prot)
  BY <1>1, <1>2, Accepted, Zenon
<1>4. generation \in {711, 715, 719}
  BY DEF generation, Generation
<1>5. Major(prot) \in {7, 8} /\ Minor(prot) \in Nat /\ Patch(prot) \in Nat
  BY <1>3, Zenon DEF Writes
<1>6. Is720OrNewer(prot) => generation = 719
  BY <1>5 DEF Is720OrNewer, generation, Generation, Is719OrNewer
<1> QED
  BY <1>2, <1>3, <1>4, <1>5, <1>6

(* No two files share a place, and all but one are looked for where they   *)
(* were written.                                                           *)
LEMMA PlaceKeys ==
  /\ \A f \in InfoFile \ {"APP_NAME"} : Place(f)[2] = f
  /\ Place("APP_NAME")[2] \in {"APP_NAME", "APP_NAME_XG23", "APP_NAME_XG28"}
<1>1. Place("APP_NAME")[2] \in {"APP_NAME", "APP_NAME_XG23", "APP_NAME_XG28"}
  <2>1. Place("APP_NAME") = IF target.layout = "700s" THEN <<"app", "APP_NAME">>
                            ELSE <<"protocol", AppNameKey(target.hw)>>
    BY DEF Place, WrittenAt
  <2>2. AppNameKey(target.hw) \in {"APP_NAME_XG23", "APP_NAME_XG28"}
    BY DEF AppNameKey
  <2> QED
    BY <2>1, <2>2
<1>2. \A f \in {"CONTROLLERINFO", "PROPRIETARY_1", "tables"} : Place(f)[2] = f
  BY DEF Place, WrittenAt
<1>3. \A f \in {"APPLICATIONSETTINGS", "APPLICATIONCMDINFO", "APPLICATIONDATA"} : Place(f)[2] = f
  BY DEF Place, WrittenAt
<1>4. Place("APPLICATIONCONFIGURATION")[2] = "APPLICATIONCONFIGURATION"
  BY DEF Place, WrittenAt
<1> QED
  BY <1>1, <1>2, <1>3, <1>4 DEF InfoFile

LEMMA PlacesDiffer ==
  ASSUME NEW f \in InfoFile, NEW g \in InfoFile, Place(f) = Place(g)
  PROVE  f = g
BY PlaceKeys DEF InfoFile

LEMMA PlacesRead ==
  ASSUME target \in Target
  PROVE  /\ \A f \in InfoFile :
              f # "PROPRIETARY_1" /\ (f = "APP_NAME" => Is720OrNewer(prot))
                => ReadPlace(f) = Place(f)
         /\ generation = 719 /\ target.layout # "700s" =>
              ReadPlace("PROPRIETARY_1") = Place("PROPRIETARY_1")
         /\ generation = 719 /\ target.layout = "700s" =>
              \A f \in InfoFile : ReadPlace("PROPRIETARY_1") # Place(f)
<1>1. /\ Writes(target.layout, target.hw, prot)
      /\ Major(prot) \in Nat /\ Minor(prot) \in Nat /\ Patch(prot) \in Nat
  BY TargetFits
<1>2. ReadStruct(prot) = WrittenStruct(prot)
  BY <1>1, ShapesAgree, Zenon
<1>3. ASSUME NEW f \in FilesWritten(prot)
      PROVE  /\ f = "PROPRIETARY_1" => Place(f) = <<"protocol", f>>
             /\ f = "PROPRIETARY_1" /\ target.layout = "700s" => ReadPlace(f) = <<"app", f>>
             /\ ~(f = "PROPRIETARY_1" /\ target.layout = "700s") => ReadPlace(f) = Place(f)
  <2> DEFINE lay == target.layout
             hw == target.hw
  <2>1. Writes(lay, hw, prot) /\ f \in FilesWritten(prot)
    BY <1>1, <1>3
  <2> HIDE DEF lay, hw
  <2>2. /\ f = "PROPRIETARY_1" => WrittenAt(f, lay, hw, prot) = <<"protocol", f>>
        /\ f = "PROPRIETARY_1" /\ lay = "700s" => ReadAt(f, lay, hw, prot, prot) = <<"app", f>>
        /\ ~(f = "PROPRIETARY_1" /\ lay = "700s")
              => ReadAt(f, lay, hw, prot, prot) = WrittenAt(f, lay, hw, prot)
    BY <2>1, <1>2, FileFound
  <2> QED
    BY <2>2, Zenon DEF Place, ReadPlace, lay, hw
<1>4. \A f \in InfoFile : f # "PROPRIETARY_1" /\ (f = "APP_NAME" => Is720OrNewer(prot))
        => f \in FilesWritten(prot)
  BY DEF InfoFile, FilesWritten, File
<1>5. generation = 719 => "PROPRIETARY_1" \in FilesWritten(prot)
  BY DEF FilesWritten, File, generation
<1>6. ASSUME generation = 719, target.layout = "700s", NEW f \in InfoFile
      PROVE  ReadPlace("PROPRIETARY_1") # Place(f)
  <2>1. /\ ReadPlace("PROPRIETARY_1") = <<"app", "PROPRIETARY_1">>
        /\ Place("PROPRIETARY_1") = <<"protocol", "PROPRIETARY_1">>
    BY <1>3, <1>5, <1>6, Zenon
  <2>2. CASE f = "PROPRIETARY_1"
    BY <2>1, <2>2
  <2>3. CASE f # "PROPRIETARY_1"
    BY <2>1, <2>3, PlaceKeys DEF InfoFile
  <2> QED
    BY <2>2, <2>3
<1>7. \A f \in InfoFile : f # "PROPRIETARY_1" /\ (f = "APP_NAME" => Is720OrNewer(prot))
        => ReadPlace(f) = Place(f)
  BY <1>3, <1>4, Zenon
<1>8. generation = 719 /\ target.layout # "700s" =>
        ReadPlace("PROPRIETARY_1") = Place("PROPRIETARY_1")
  <2> SUFFICES ASSUME generation = 719, target.layout # "700s"
               PROVE  ReadPlace("PROPRIETARY_1") = Place("PROPRIETARY_1")
    OBVIOUS
  <2>1. "PROPRIETARY_1" \in FilesWritten(prot)
    BY <1>5
  <2> QED
    BY <1>3, <2>1
<1> QED
  BY <1>6, <1>7, <1>8, Zenon

(* What a key of the first two files keeps of a value, and the value if    *)
(* the document has none.                                                  *)
Narrow(key, value) ==
  IF key = "homeId" THEN StoredHomeId(value)
  ELSE IF key \in FlagKeys \cup {"isListening"} THEN value
  ELSE IF key \in WordKeys THEN AsUnsigned(value, WordSize)
  ELSE AsUnsigned(value, ByteSize)

KeyDefault(key) == IF key \in FlagKeys \cup {"isListening"} THEN FlagDefault(key) ELSE 0

(* What is kept of a list of command classes and of a key of the           *)
(* configuration.                                                          *)
NarrowList(list) ==
  LET kept == SubSeq(list, 1, Min({Len(list), ListSize}))
  IN  [i \in DOMAIN kept |-> AsUnsigned(kept[i], ByteSize)]

PowerSize(struct) ==
  IF struct \in {"prior_7_15_3", "prior_7_18_1"} THEN ByteSize ELSE WordSize

NarrowConfig(struct, key, value) ==
  IF key \in {"txPower", "measured0dBm"} THEN AsSigned(value, PowerSize(struct))
  ELSE IF key = "maxTxPower" THEN AsSigned(value, WordSize)
  ELSE IF key = "enablePTI" THEN value
  ELSE AsUnsigned(value, ByteSize)

ConfigDefault(key) ==
  IF key = "maxTxPower" THEN 140 ELSE IF key = "enablePTI" THEN FALSE ELSE 0

(* The files an import writes first, and what each file holds.             *)
FirstFiles ==
  {"APPLICATIONCONFIGURATION"}
    \cup (IF "sucUpdateEntries" \in DOMAIN doc THEN {"tables"} ELSE {})

FileContent(file) ==
  IF file = "APPLICATIONCONFIGURATION" THEN StoredConfig(doc)
  ELSE IF file = "tables" THEN doc.sucUpdateEntries
  ELSE ContentOf(file)

ImageIs(image, written) ==
  /\ DOMAIN image = {Place(file) : file \in written}
  /\ \A file \in written : image[Place(file)] = FileContent(file)

(* What an export makes: the keys of the generation, with values that      *)
(* another import would not change.                                        *)
ExportKeys ==
  InfoKeys \cup SettingKeys \cup {"cmdClasses", "rfConfig", "applicationData"}
    \cup (IF Is720OrNewer(prot) THEN {"applicationName"} ELSE {})
    \cup (IF generation = 719 /\ target.layout # "700s" THEN {"dcdcConfig"} ELSE {})
    \cup (IF generation = 711 THEN {} ELSE {"sucUpdateEntries"})

NormalData(text) ==
  LET bytes == DataOf(text)
  IN  /\ bytes \in Seq(Octet) /\ text = base64_encode(bytes, 0)
      /\ Significant(bytes) = bytes
      /\ generation = 711 => bytes # <<>>

NormalObject(object) ==
  /\ object = [key \in DOMAIN object |-> object[key]]
  /\ DOMAIN object \subseteq ExportKeys /\ "rfConfig" \in DOMAIN object
  /\ generation # 711 => "sucUpdateEntries" \in DOMAIN object
  /\ \A key \in (InfoKeys \cup SettingKeys) \cap DOMAIN object :
       Narrow(key, object[key]) = object[key]
  /\ "cmdClasses" \in DOMAIN object => StoredClasses(object) = object.cmdClasses
  /\ object.rfConfig # <<>> =>
       StoredConfig(object) = [struct |-> ReadStruct(prot), values |-> object.rfConfig]
  /\ "applicationData" \in DOMAIN object => NormalData(object.applicationData)
  /\ "applicationName" \in DOMAIN object => object.applicationName # LongName
  /\ generation = 719 /\ "dcdcConfig" \in DOMAIN object =>
       object.dcdcConfig \in 0 .. ByteSize - 1

Normal == NormalObject(doc)

(* The inductive invariant: what is in the image at each point of an       *)
(* import, and what the parser has found of the document by then.          *)
InfoInv ==
  /\ target \in Target /\ trips \in 0 .. 2
  /\ ControllerObject(doc)
  /\ trips > 0 => Normal
  /\ pc \in {"classes", "config"} => ImageIs(files, {})
  /\ pc = "updates" => ImageIs(files, {"APPLICATIONCONFIGURATION"} \ {broken})
  /\ pc \in {"data", "files"} => ImageIs(files, FirstFiles \ {broken})
  /\ pc = "imported" => ImageIs(files, (FirstFiles \cup LastFiles) \ {broken})
  /\ pc \in {"config", "updates", "data", "files", "imported"} => "cmdClasses" \in DOMAIN doc
  /\ pc \in {"updates", "data", "files", "imported"} => "rfConfig" \in DOMAIN doc
  /\ pc \in {"files", "imported"} =>
       DataText(doc) = <<>> \/ base64_decode(DataText(doc)) # NotBase64

(* Nothing that is computed of the target and the document changes while   *)
(* they do not.                                                            *)
LEMMA KeysUnmoved ==
  ASSUME target' = target
  PROVE  /\ prot' = prot /\ generation' = generation
         /\ FlagKeys' = FlagKeys /\ WordKeys' = WordKeys /\ ByteKeys' = ByteKeys
         /\ InfoKeys' = InfoKeys /\ ExportKeys' = ExportKeys
         /\ \A file : Place(file)' = Place(file) /\ ReadPlace(file)' = ReadPlace(file)
<1>1. prot' = prot
  BY DEF prot
<1>2. generation' = generation
  BY <1>1, Zenon DEF generation
<1>3. FlagKeys' = FlagKeys /\ WordKeys' = WordKeys /\ ByteKeys' = ByteKeys
  BY <1>2, Zenon DEF FlagKeys, WordKeys, ByteKeys
<1>4. InfoKeys' = InfoKeys
  BY <1>3, Zenon DEF InfoKeys
<1>5. ExportKeys' = ExportKeys
  BY <1>1, <1>2, <1>4 DEF ExportKeys
<1>6. \A file : Place(file)' = Place(file) /\ ReadPlace(file)' = ReadPlace(file)
  BY <1>1, Zenon DEF Place, ReadPlace
<1> QED
  BY <1>1, <1>2, <1>3, <1>4, <1>5, <1>6

LEMMA NormalUnmoved ==
  ASSUME target' = target, NEW object
  PROVE  NormalObject(object)' <=> NormalObject(object)
<1>1. /\ prot' = prot /\ generation' = generation
      /\ FlagKeys' = FlagKeys /\ WordKeys' = WordKeys
      /\ InfoKeys' = InfoKeys /\ ExportKeys' = ExportKeys
  BY KeysUnmoved
<1>2. StoredConfig(object)' = StoredConfig(object)
  BY <1>1, Zenon DEF StoredConfig, StructOf
<1>3. \A key, value : Narrow(key, value)' = Narrow(key, value)
  BY <1>1, Zenon DEF Narrow
<1>4. \A text : NormalData(text)' <=> NormalData(text)
  BY <1>1, Zenon DEF NormalData
<1> QED
  BY <1>1, <1>2, <1>3, <1>4 DEF NormalObject

LEMMA ContentsUnmoved ==
  ASSUME target' = target, doc' = doc
  PROVE  /\ \A file : FileContent(file)' = FileContent(file)
         /\ FirstFiles' = FirstFiles /\ LastFiles' = LastFiles
         /\ Normal' <=> Normal
<1>1. /\ prot' = prot /\ generation' = generation
      /\ FlagKeys' = FlagKeys /\ WordKeys' = WordKeys /\ ByteKeys' = ByteKeys
      /\ InfoKeys' = InfoKeys /\ ExportKeys' = ExportKeys
  BY KeysUnmoved
<1>2. StoredInfo(doc)' = StoredInfo(doc)
  BY <1>1 DEF StoredInfo
<1>3. StoredSettings(doc)' = StoredSettings(doc)
  BY Zenon DEF StoredSettings
<1>4. StoredClasses(doc)' = StoredClasses(doc)
  BY Zenon DEF StoredClasses
<1>5. StoredConfig(doc)' = StoredConfig(doc)
  BY <1>1, Zenon DEF StoredConfig, StructOf
<1>6. StoredData(doc)' = StoredData(doc) /\ StoredName(doc)' = StoredName(doc)
  BY Zenon DEF StoredData, StoredName, DataText
<1>7. \A file : ContentOf(file)' = ContentOf(file)
  BY <1>2, <1>3, <1>4, <1>6, Zenon DEF ContentOf, DcdcConfig
<1>8. \A file : FileContent(file)' = FileContent(file)
  BY <1>5, <1>7, Zenon DEF FileContent
<1>9. FirstFiles' = FirstFiles /\ LastFiles' = LastFiles
  BY <1>1, Zenon DEF FirstFiles, LastFiles, DcdcConfig
<1>12. Normal' <=> Normal
  BY NormalUnmoved, Zenon DEF Normal
<1> QED
  BY <1>8, <1>9, <1>12

LEMMA NoFiles == ImageIs(<<>>, {})
BY DEF ImageIs

LEMMA ImageUnmoved ==
  ASSUME target' = target, doc' = doc, NEW S
  PROVE  /\ ImageIs(files, S) /\ files' = files => ImageIs(files, S)'
         /\ ImageIs(files', S) => ImageIs(files, S)'
<1>1. \A file : Place(file)' = Place(file) /\ FileContent(file)' = FileContent(file)
  BY KeysUnmoved, ContentsUnmoved
<1>2. ImageIs(files', S) => ImageIs(files, S)'
  BY <1>1, Zenon DEF ImageIs
<1> QED
  BY <1>2, Zenon

(* One more file is in the image, unless it cannot be written.             *)
LEMMA WrittenIs ==
  ASSUME NEW image, NEW S \in SUBSET InfoFile, ImageIs(image, S),
         NEW f \in InfoFile \ S
  PROVE  ImageIs(Written(image, f, FileContent(f)), S \cup ({f} \ {broken}))
<1>1. CASE f = broken
  <2>1. Written(image, f, FileContent(f)) = image
    BY <1>1, Zenon DEF Written
  <2>2. S \cup ({f} \ {broken}) = S
    BY <1>1
  <2> QED
    BY <2>1, <2>2
<1>2. CASE f # broken
  <2> DEFINE after == Written(image, f, FileContent(f))
             now == S \cup ({f} \ {broken})
  <2>1. after = [place \in DOMAIN image \cup {Place(f)} |->
                   IF place = Place(f) THEN FileContent(f) ELSE image[place]]
    BY <1>2, Zenon DEF Written
  <2> HIDE DEF after
  <2>2. now = S \cup {f}
    BY <1>2
  <2>3. DOMAIN after = {Place(file) : file \in now}
    BY <2>1, <2>2 DEF ImageIs
  <2>4. ASSUME NEW g \in now
        PROVE  after[Place(g)] = FileContent(g)
    <3>1. CASE g = f
      BY <2>1, <3>1
    <3>2. CASE g # f
      <4>1. g \in S /\ Place(g) # Place(f)
        BY <2>2, <3>2, PlacesDiffer
      <4>2. Place(g) \in DOMAIN image /\ image[Place(g)] = FileContent(g)
        BY <4>1 DEF ImageIs
      <4> QED
        BY <2>1, <4>1, <4>2
    <3> QED
      BY <3>1, <3>2
  <2>5. ImageIs(after, now)
    BY <2>3, <2>4, Zenon DEF ImageIs
  <2> QED
    BY <2>5 DEF after
<1> QED
  BY <1>1, <1>2

(* The last files join those that are there.                               *)
LEMMA WriteFilesIs ==
  ASSUME NEW S \in SUBSET {"APPLICATIONCONFIGURATION", "tables"}, ImageIs(files, S), WriteFiles
  PROVE  ImageIs(files', S \cup (LastFiles \ {broken}))
<1> DEFINE written == LastFiles \ {broken}
           at(place) == CHOOSE file \in written : Place(file) = place
           places == {Place(file) : file \in written}
<1>1. files' = [place \in DOMAIN files \cup places |->
                  IF place \in places THEN ContentOf(at(place)) ELSE files[place]]
  BY Zenon DEF WriteFiles
<1>2. /\ written \subseteq InfoFile
      /\ \A f \in written : f # "APPLICATIONCONFIGURATION" /\ f # "tables"
  BY DEF LastFiles, InfoFile
<1>3. S \subseteq InfoFile
  BY DEF InfoFile
<1> HIDE DEF written
<1>4. \A f \in written : at(Place(f)) = f
  <2> TAKE f \in written
  <2> DEFINE g == at(Place(f))
  <2>1. g \in written /\ Place(g) = Place(f)
    OBVIOUS
  <2> HIDE DEF g
  <2>2. g = f
    BY <1>2, <2>1, PlacesDiffer
  <2> QED
    BY <2>2 DEF g
<1>5. \A f \in written : Place(f) \in places
  OBVIOUS
<1>6. \A f \in S : Place(f) \notin places /\ Place(f) \in DOMAIN files
  <2> TAKE f \in S
  <2>1. \A g \in written : Place(g) # Place(f)
    BY <1>2, <1>3, PlacesDiffer
  <2>2. Place(f) \in DOMAIN files
    BY DEF ImageIs
  <2> QED
    BY <2>1, <2>2
<1>7. DOMAIN files = {Place(f) : f \in S} /\ \A f \in S : files[Place(f)] = FileContent(f)
  BY Zenon DEF ImageIs
<1> HIDE DEF at
<1>8. DOMAIN files' = {Place(f) : f \in S \cup written}
  <2>1. DOMAIN files' = DOMAIN files \cup places
    BY <1>1
  <2> QED
    BY <1>7, <2>1
<1> HIDE DEF places
<1>9. \A f \in written : files'[Place(f)] = FileContent(f)
  <2> TAKE f \in written
  <2>1. files'[Place(f)] = ContentOf(at(Place(f)))
    BY <1>1, <1>5, Zenon
  <2>2. FileContent(f) = ContentOf(f)
    BY <1>2, Zenon DEF FileContent
  <2> QED
    BY <1>4, <2>1, <2>2
<1>10. \A f \in S : files'[Place(f)] = FileContent(f)
  <2> TAKE f \in S
  <2>1. files'[Place(f)] = files[Place(f)]
    BY <1>1, <1>6, Zenon
  <2> QED
    BY <1>7, <2>1
<1>11. ImageIs(files', S \cup written)
  <2>1. \A f \in S \cup written : files'[Place(f)] = FileContent(f)
    BY <1>9, <1>10
  <2> QED
    BY <1>8, <2>1, Zenon DEF ImageIs
<1> QED
  BY <1>11 DEF written

(* The part of the invariant that does not change within an import.        *)
SameDocument ==
  /\ target \in Target /\ trips \in 0 .. 2
  /\ ControllerObject(doc)
  /\ trips > 0 => Normal

LEMMA SameDocumentStays ==
  ASSUME InfoInv, UNCHANGED <<target, doc, trips>>
  PROVE  SameDocument'
<1>1. SameDocument
  BY Zenon DEF InfoInv, SameDocument
<1>2. target' = target /\ doc' = doc /\ trips' = trips
  OBVIOUS
<1>3. Normal' <=> Normal
  BY <1>2, ContentsUnmoved
<1> QED
  BY <1>1, <1>2, <1>3 DEF SameDocument

LEMMA InfoStart == Init => InfoInv
<1> SUFFICES ASSUME Init PROVE InfoInv
  OBVIOUS
<1>1. /\ target \in Target /\ doc \in Document(target) /\ trips = 0 /\ pc = "begin"
  BY DEF Init
<1>2. ControllerObject(doc)
  BY <1>1, InfoAssumption, Zenon
<1> QED
  BY <1>1, <1>2 DEF InfoInv

LEMMA BeginStep == InfoInv /\ Begin => InfoInv'
<1> SUFFICES ASSUME InfoInv, Begin PROVE InfoInv'
  OBVIOUS
<1>1. target' = target /\ doc' = doc /\ trips' = trips /\ pc' = "classes" /\ files' = <<>>
  BY DEF Begin
<1>2. SameDocument'
  BY <1>1, SameDocumentStays
<1>3. ImageIs(files', {})
  BY <1>1, NoFiles
<1>4. ImageIs(files, {})'
  BY <1>1, <1>3, ImageUnmoved
<1> QED
  BY <1>1, <1>2, <1>4 DEF InfoInv, SameDocument

LEMMA ClassesStep == InfoInv /\ Classes => InfoInv'
<1> SUFFICES ASSUME InfoInv, Classes PROVE InfoInv'
  OBVIOUS
<1>1. /\ target' = target /\ doc' = doc /\ trips' = trips /\ files' = files
      /\ pc = "classes" /\ pc' \in {"given up", "config"}
      /\ pc' = "config" => "cmdClasses" \in DOMAIN doc
  BY DEF Classes, GiveUp
<1>2. SameDocument'
  BY <1>1, SameDocumentStays
<1>3. ImageIs(files, {})'
  BY <1>1, ImageUnmoved DEF InfoInv
<1> QED
  BY <1>1, <1>2, <1>3 DEF InfoInv, SameDocument

LEMMA ConfigStep == InfoInv /\ Config => InfoInv'
<1> SUFFICES ASSUME InfoInv, Config PROVE InfoInv'
  OBVIOUS
<1>1. /\ target' = target /\ doc' = doc /\ trips' = trips /\ pc = "config"
      /\ "cmdClasses" \in DOMAIN doc /\ ImageIs(files, {})
      /\ pc' \in {"given up", "updates"}
  BY DEF Config, GiveUp, InfoInv
<1>2. SameDocument'
  BY <1>1, SameDocumentStays
<1>3. CASE pc' = "given up"
  BY <1>1, <1>2, <1>3 DEF InfoInv, SameDocument
<1>4. CASE pc' = "updates"
  <2> DEFINE f == "APPLICATIONCONFIGURATION"
  <2>1. /\ "rfConfig" \in DOMAIN doc /\ broken' = broken
        /\ files' = Written(files, f, StoredConfig(doc))
    BY <1>4 DEF Config, GiveUp
  <2>2. FileContent(f) = StoredConfig(doc) /\ f \in InfoFile
    BY DEF FileContent, InfoFile
  <2>3. ImageIs(files', {} \cup ({f} \ {broken}))
    <3> HIDE DEF f
    <3> QED
      BY <1>1, <2>1, <2>2, WrittenIs
  <2>4. ImageIs(files', {f} \ {broken})
    <3>1. {} \cup ({f} \ {broken}) = {f} \ {broken}
      OBVIOUS
    <3> QED
      BY <2>3, <3>1
  <2> HIDE DEF f
  <2>5. \A S : S = {f} \ {broken} => ImageIs(files, S)'
    BY <1>1, <2>4, ImageUnmoved
  <2> QED
    BY <1>1, <1>2, <1>4, <2>1, <2>5 DEF InfoInv, SameDocument, f
<1> QED
  BY <1>1, <1>3, <1>4

LEMMA UpdatesStep == InfoInv /\ Updates => InfoInv'
<1> SUFFICES ASSUME InfoInv, Updates PROVE InfoInv'
  OBVIOUS
<1> DEFINE c == "APPLICATIONCONFIGURATION"
           S == {c} \ {broken}
<1>1. /\ target' = target /\ doc' = doc /\ trips' = trips /\ broken' = broken
      /\ "cmdClasses" \in DOMAIN doc /\ "rfConfig" \in DOMAIN doc /\ ImageIs(files, S)
      /\ pc' = "data"
  BY DEF Updates, InfoInv
<1>2. SameDocument'
  BY <1>1, SameDocumentStays
<1>3. S \in SUBSET InfoFile /\ "tables" \in InfoFile \ S
  BY DEF InfoFile
<1>4. ImageIs(files', FirstFiles \ {broken})
  <2>1. CASE "sucUpdateEntries" \in DOMAIN doc
    <3>1. files' = Written(files, "tables", doc.sucUpdateEntries)
      BY <2>1 DEF Updates
    <3>2. FileContent("tables") = doc.sucUpdateEntries
      BY DEF FileContent
    <3>3. FirstFiles \ {broken} = S \cup ({"tables"} \ {broken})
      BY <2>1 DEF FirstFiles
    <3> HIDE DEF S
    <3>4. ImageIs(files', S \cup ({"tables"} \ {broken}))
      BY <1>1, <1>3, <3>1, <3>2, WrittenIs
    <3> QED
      BY <3>3, <3>4
  <2>2. CASE "sucUpdateEntries" \notin DOMAIN doc
    <3>1. files' = files
      BY <2>2 DEF Updates
    <3>2. FirstFiles \ {broken} = S
      BY <2>2 DEF FirstFiles
    <3> QED
      BY <1>1, <3>1, <3>2
  <2> QED
    BY <2>1, <2>2
<1>5. \A T : T = FirstFiles \ {broken} => ImageIs(files, T)'
  BY <1>1, <1>4, ImageUnmoved
<1>6. FirstFiles' = FirstFiles
  BY <1>1, ContentsUnmoved
<1> QED
  BY <1>1, <1>2, <1>5, <1>6 DEF InfoInv, SameDocument

LEMMA DataStep == InfoInv /\ Data => InfoInv'
<1> SUFFICES ASSUME InfoInv, Data PROVE InfoInv'
  OBVIOUS
<1>1. /\ target' = target /\ doc' = doc /\ trips' = trips /\ broken' = broken /\ files' = files
      /\ "cmdClasses" \in DOMAIN doc /\ "rfConfig" \in DOMAIN doc
      /\ ImageIs(files, FirstFiles \ {broken})
  BY DEF Data, InfoInv
<1>2. SameDocument'
  BY <1>1, SameDocumentStays
<1>3. \A T : T = FirstFiles \ {broken} => ImageIs(files, T)'
  BY <1>1, ImageUnmoved
<1>4. FirstFiles' = FirstFiles
  BY <1>1, ContentsUnmoved
<1>5. /\ pc' \in {"given up", "files"}
      /\ pc' = "files" => DataText(doc) = <<>> \/ base64_decode(DataText(doc)) # NotBase64
  BY Zenon DEF Data
<1>6. pc' = "files" => DataText(doc') = <<>> \/ base64_decode(DataText(doc')) # NotBase64
  BY <1>1, <1>5
<1> QED
  BY <1>1, <1>2, <1>3, <1>4, <1>5, <1>6 DEF InfoInv, SameDocument

LEMMA WriteFilesStep == InfoInv /\ WriteFiles => InfoInv'
<1> SUFFICES ASSUME InfoInv, WriteFiles PROVE InfoInv'
  OBVIOUS
<1>1. /\ target' = target /\ doc' = doc /\ trips' = trips /\ broken' = broken
      /\ "cmdClasses" \in DOMAIN doc /\ "rfConfig" \in DOMAIN doc
      /\ ImageIs(files, FirstFiles \ {broken}) /\ pc' = "imported"
      /\ DataText(doc) = <<>> \/ base64_decode(DataText(doc)) # NotBase64
  BY Zenon DEF WriteFiles, InfoInv
<1>2. SameDocument'
  BY <1>1, SameDocumentStays
<1>3. FirstFiles \ {broken} \in SUBSET {"APPLICATIONCONFIGURATION", "tables"}
  BY DEF FirstFiles
<1>4. ImageIs(files', (FirstFiles \ {broken}) \cup (LastFiles \ {broken}))
  BY <1>1, <1>3, WriteFilesIs
<1>5. (FirstFiles \ {broken}) \cup (LastFiles \ {broken}) = (FirstFiles \cup LastFiles) \ {broken}
  OBVIOUS
<1>6. \A T : T = (FirstFiles \cup LastFiles) \ {broken} => ImageIs(files, T)'
  BY <1>1, <1>4, <1>5, ImageUnmoved
<1>7. FirstFiles' = FirstFiles /\ LastFiles' = LastFiles
  BY <1>1, ContentsUnmoved
<1>8. DataText(doc') = <<>> \/ base64_decode(DataText(doc')) # NotBase64
  BY <1>1
<1> QED
  BY <1>1, <1>2, <1>6, <1>7, <1>8 DEF InfoInv, SameDocument

(* The four kinds of keys.                                                 *)
LEMMA KeyKinds ==
  /\ "homeId" \notin FlagKeys \cup WordKeys \cup ByteKeys \cup SettingKeys
  /\ FlagKeys \cap (WordKeys \cup ByteKeys \cup SettingKeys) = {}
  /\ WordKeys \cap (ByteKeys \cup SettingKeys) = {}
  /\ WordKeys \cup ByteKeys \cup {"homeId", "genericDeviceClass", "specificDeviceClass"}
       \subseteq Numbers
  /\ FlagKeys \cap Numbers = {}
<1>1. FlagKeys \subseteq {"controllerIsSecondary", "controllerOnOtherNetwork",
        "controllerNodeIdServerPresent", "controllerIsRealPrimary", "controllerIsSuc",
        "noNodesIncluded", "longRangeChannelAutoMode"}
  BY DEF FlagKeys
<1>2. WordKeys \subseteq {"nodeId", "staticControllerNodeId", "lastNodeIdLR", "maxNodeIdLR",
        "reservedIdLR"}
  BY DEF WordKeys, NodeKeys
<1>3. ByteKeys \subseteq {"lastNodeId", "sucLastIndex", "maxNodeId", "reservedId",
        "systemState", "primaryLongRangeChannelId", "dcdcConfig"} \cup NodeKeys
  BY DEF ByteKeys, NodeKeys
<1>4. WordKeys \cap ByteKeys = {}
  BY DEF WordKeys, ByteKeys, NodeKeys
<1>5. "homeId" \notin FlagKeys \cup WordKeys \cup ByteKeys \cup SettingKeys
  BY <1>1, <1>2, <1>3 DEF NodeKeys, SettingKeys
<1>6. FlagKeys \cap (WordKeys \cup ByteKeys \cup SettingKeys) = {}
  BY <1>1, <1>2, <1>3 DEF NodeKeys, SettingKeys
<1>7. WordKeys \cap (ByteKeys \cup SettingKeys) = {}
  BY <1>2, <1>4 DEF SettingKeys
<1>8. WordKeys \cup ByteKeys \cup {"homeId", "genericDeviceClass", "specificDeviceClass"}
        \subseteq Numbers
  BY <1>2, <1>3 DEF NodeKeys, Numbers
<1>9. FlagKeys \cap Numbers = {}
  BY <1>1 DEF Numbers
<1> QED
  BY <1>5, <1>6, <1>7, <1>8, <1>9

LEMMA InfoStored ==
  ASSUME NEW object
  PROVE  /\ DOMAIN StoredInfo(object) = InfoKeys
         /\ \A key \in InfoKeys :
              StoredInfo(object)[key] = Narrow(key, Get(object, key, KeyDefault(key)))
<1> DEFINE of(key) ==
      CASE key = "homeId" -> StoredHomeId(Get(object, key, 0))
        [] key \in FlagKeys -> Get(object, key, FlagDefault(key))
        [] key \in WordKeys -> AsUnsigned(Get(object, key, 0), WordSize)
        [] key \in ByteKeys -> AsUnsigned(Get(object, key, 0), ByteSize)
<1>1. StoredInfo(object) = [key \in InfoKeys |-> of(key)]
  BY Zenon DEF StoredInfo
<1>2. ASSUME NEW key \in InfoKeys
      PROVE  of(key) = Narrow(key, Get(object, key, KeyDefault(key)))
  <2>1. CASE key = "homeId"
    <3>1. key \notin FlagKeys \cup WordKeys \cup ByteKeys /\ key # "isListening"
      BY <2>1, KeyKinds
    <3>2. KeyDefault(key) = 0
      BY <3>1 DEF KeyDefault
    <3> QED
      BY <2>1, <3>1, <3>2 DEF Narrow
  <2>2. CASE key \in FlagKeys
    <3>1. key \notin WordKeys \cup ByteKeys /\ key # "homeId"
      BY <2>2, KeyKinds
    <3>2. KeyDefault(key) = FlagDefault(key)
      BY <2>2 DEF KeyDefault
    <3>3. of(key) = Get(object, key, FlagDefault(key))
      BY <2>2, <3>1
    <3>4. \A v : Narrow(key, v) = v
      BY <2>2, <3>1 DEF Narrow
    <3> QED
      BY <3>2, <3>3, <3>4, Zenon
  <2>3. CASE key \in WordKeys
    <3>1. key \notin FlagKeys \cup ByteKeys /\ key # "homeId" /\ key # "isListening"
      BY <2>3, KeyKinds DEF SettingKeys
    <3>2. KeyDefault(key) = 0
      BY <3>1 DEF KeyDefault
    <3>3. of(key) = AsUnsigned(Get(object, key, 0), WordSize)
      BY <2>3, <3>1
    <3>4. \A v : Narrow(key, v) = AsUnsigned(v, WordSize)
      BY <2>3, <3>1 DEF Narrow
    <3> QED
      BY <3>2, <3>3, <3>4, Zenon
  <2>4. CASE key \in ByteKeys
    <3>1. key \notin FlagKeys \cup WordKeys /\ key # "homeId" /\ key # "isListening"
      <4>1. "isListening" \notin Numbers
        BY DEF Numbers
      <4> QED
        BY <2>4, <4>1, KeyKinds
    <3>2. KeyDefault(key) = 0
      BY <3>1 DEF KeyDefault
    <3>3. of(key) = AsUnsigned(Get(object, key, 0), ByteSize)
      BY <2>4, <3>1
    <3>4. \A v : Narrow(key, v) = AsUnsigned(v, ByteSize)
      BY <3>1 DEF Narrow
    <3> QED
      BY <3>2, <3>3, <3>4, Zenon
  <2> QED
    BY <2>1, <2>2, <2>3, <2>4 DEF InfoKeys
<1> HIDE DEF of
<1> QED
  BY <1>1, <1>2

LEMMA SettingsStored ==
  ASSUME NEW object
  PROVE  /\ DOMAIN StoredSettings(object) = SettingKeys
         /\ \A key \in SettingKeys :
              StoredSettings(object)[key] = Narrow(key, Get(object, key, KeyDefault(key)))
<1> DEFINE of(key) == IF key = "isListening" THEN Get(object, key, TRUE)
                      ELSE AsUnsigned(Get(object, key, 0), ByteSize)
<1>1. StoredSettings(object) = [key \in SettingKeys |-> of(key)]
  BY Zenon DEF StoredSettings
<1>2. ASSUME NEW key \in SettingKeys
      PROVE  of(key) = Narrow(key, Get(object, key, KeyDefault(key)))
  <2>1. key # "homeId" /\ key \notin FlagKeys /\ key \notin WordKeys
    BY KeyKinds
  <2>2. CASE key = "isListening"
    <3>1. KeyDefault(key) = TRUE
      BY <2>2 DEF KeyDefault, FlagDefault
    <3>2. \A v : Narrow(key, v) = v
      BY <2>2 DEF Narrow
    <3> QED
      BY <2>2, <3>1, <3>2
  <2>3. CASE key # "isListening"
    <3>1. KeyDefault(key) = 0
      BY <2>1, <2>3 DEF KeyDefault
    <3>2. \A v : Narrow(key, v) = AsUnsigned(v, ByteSize)
      BY <2>1, <2>3 DEF Narrow
    <3> QED
      BY <2>3, <3>1, <3>2
  <2> QED
    BY <2>2, <2>3
<1> HIDE DEF of
<1> QED
  BY <1>1, <1>2

(* A value that was narrowed stays, and so does one that fits.             *)
LEMMA Narrowed ==
  ASSUME NEW key \in InfoKeys \cup SettingKeys, NEW v, key \in Numbers => v \in Int
  PROVE  /\ Narrow(key, Narrow(key, v)) = Narrow(key, v)
         /\ Fits(key, v) => Narrow(key, v) = v
         /\ key \in Numbers => Narrow(key, v) \in Int
<1>0. ByteSize \in Nat \ {0} /\ WordSize \in Nat \ {0} /\ HomeIdMax \in Nat \ {0}
  BY InfoAssumption
<1>1. CASE key = "homeId"
  <2>1. v \in Int
    BY <1>1 DEF Numbers
  <2>2. \A u : Narrow(key, u) = StoredHomeId(u)
    BY <1>1 DEF Narrow
  <2>3. Fits(key, v) => v \in 1 .. HomeIdMax - 1
    <3>1. key \notin WordKeys /\ key \notin FlagKeys \cup {"isListening"}
      BY <1>1, KeyKinds
    <3> QED
      BY <1>1, <3>1 DEF Fits
  <2>4. StoredHomeId(v) \in Int /\ StoredHomeId(StoredHomeId(v)) = StoredHomeId(v)
    BY <1>0, <2>1 DEF StoredHomeId
  <2>5. v \in 1 .. HomeIdMax - 1 => StoredHomeId(v) = v
    BY <1>0, <2>1 DEF StoredHomeId
  <2> QED
    BY <2>2, <2>3, <2>4, <2>5
<1>2. CASE key \in FlagKeys \cup {"isListening"}
  <2>1. key # "homeId" /\ key \notin Numbers
    BY <1>2, KeyKinds DEF Numbers
  <2>2. \A u : Narrow(key, u) = u
    BY <1>2, <2>1 DEF Narrow
  <2> QED
    BY <2>1, <2>2
<1>3. CASE key \in WordKeys
  <2>1. key # "homeId" /\ key \notin FlagKeys \cup {"isListening"} /\ key \in Numbers
        /\ key # "applicationName"
    <3>1. "applicationName" \notin Numbers
      BY DEF Numbers
    <3> QED
      BY <1>3, <3>1, KeyKinds DEF SettingKeys
  <2>2. \A u : Narrow(key, u) = AsUnsigned(u, WordSize)
    BY <1>3, <2>1 DEF Narrow
  <2>3. Fits(key, v) => v \in 0 .. WordSize - 1
    BY <1>3, <2>1 DEF Fits
  <2>4. \A u \in Int : /\ AsUnsigned(u, WordSize) \in 0 .. WordSize - 1
                       /\ u \in 0 .. WordSize - 1 => AsUnsigned(u, WordSize) = u
    BY <1>0, Unsigned
  <2> QED
    BY <1>0, <2>1, <2>2, <2>3, <2>4
<1>4. CASE key \in ByteKeys \cup {"genericDeviceClass", "specificDeviceClass"}
  <2>1. key # "homeId" /\ key \notin FlagKeys \cup {"isListening"} /\ key \notin WordKeys
        /\ key \in Numbers /\ key # "applicationName"
    <3>1. "isListening" \notin Numbers /\ "applicationName" \notin Numbers
      BY DEF Numbers
    <3>2. {"genericDeviceClass", "specificDeviceClass"} \subseteq SettingKeys
      BY DEF SettingKeys
    <3> QED
      BY <1>4, <3>1, <3>2, KeyKinds
  <2>2. \A u : Narrow(key, u) = AsUnsigned(u, ByteSize)
    BY <2>1 DEF Narrow
  <2>3. Fits(key, v) => v \in 0 .. ByteSize - 1
    BY <2>1 DEF Fits, Bytes
  <2>4. \A u \in Int : /\ AsUnsigned(u, ByteSize) \in 0 .. ByteSize - 1
                       /\ u \in 0 .. ByteSize - 1 => AsUnsigned(u, ByteSize) = u
    BY <1>0, Unsigned
  <2> QED
    BY <1>0, <2>1, <2>2, <2>3, <2>4
<1> QED
  BY <1>1, <1>2, <1>3, <1>4 DEF InfoKeys, SettingKeys

LEMMA ListNarrowed ==
  ASSUME NEW list \in Seq(Int)
  PROVE  /\ NarrowList(list) \in Seq(Int) /\ ListFits(NarrowList(list))
         /\ ListFits(list) => NarrowList(list) = list
<1>1. ListSize \in Nat /\ ByteSize \in Nat \ {0} /\ Len(list) \in Nat
  BY InfoAssumption
<1> DEFINE room == Min({Len(list), ListSize})
           kept == SubSeq(list, 1, room)
           byte(i) == AsUnsigned(kept[i], ByteSize)
<1>2. room = IF Len(list) <= ListSize THEN Len(list) ELSE ListSize
  BY <1>1, Lesser
<1>3. room \in 0 .. Len(list) /\ room <= ListSize
  BY <1>1, <1>2
<1>4. NarrowList(list) = [i \in DOMAIN kept |-> byte(i)]
  BY Zenon DEF NarrowList
<1> HIDE DEF room
<1>5. kept \in Seq(Int) /\ Len(kept) = room /\ \A i \in 1 .. room : kept[i] = list[i]
  <2>1. \A i \in 1 .. room : list[i] \in Int
    <3>1. \A i \in 1 .. room : i \in 1 .. Len(list)
      BY <1>1, <1>3
    <3> QED
      BY <3>1, ElementOfSeq
  <2>2. 1 \in Int /\ room \in Int
    BY <1>1, <1>3
  <2>3. /\ SubSeq(list, 1, room) \in Seq(Int)
        /\ Len(SubSeq(list, 1, room)) = IF 1 <= room THEN room - 1 + 1 ELSE 0
        /\ \A i \in 1 .. room - 1 + 1 : SubSeq(list, 1, room)[i] = list[1 + i - 1]
    BY <2>1, <2>2, SubSeqProperties
  <2>4. (IF 1 <= room THEN room - 1 + 1 ELSE 0) = room
    BY <1>3
  <2>5. \A i \in 1 .. room : i \in 1 .. room - 1 + 1 /\ 1 + i - 1 = i
    BY <1>3
  <2> QED
    BY <2>3, <2>4, <2>5
<1> HIDE DEF kept
<1>6. \A i \in 1 .. room : byte(i) \in 0 .. ByteSize - 1
  <2> TAKE i \in 1 .. room
  <2>1. kept[i] \in Int
    BY <1>5, ElementOfSeq
  <2> QED
    BY <1>1, <2>1, Unsigned
<1> HIDE DEF byte
<1> DEFINE n == NarrowList(list)
<1>7. n = [i \in 1 .. room |-> byte(i)]
  BY <1>4, <1>5
<1> HIDE DEF n
<1>8. n \in Seq(Int) /\ Len(n) = room /\ \A i \in 1 .. room : n[i] = byte(i)
  <2>1. \A i \in 1 .. room : byte(i) \in Int
    BY <1>1, <1>6
  <2> QED
    BY <1>3, <1>7, <2>1
<1>9. ListFits(n)
  <2>1. DOMAIN n = 1 .. room
    BY <1>7
  <2>2. \A i \in DOMAIN n : n[i] \in Bytes
    BY <1>6, <1>8, <2>1 DEF Bytes
  <2> QED
    BY <1>3, <1>8, <2>2 DEF ListFits
<1>10. ASSUME ListFits(list)
       PROVE  n = list
  <2>1. Len(list) <= ListSize /\ \A i \in 1 .. Len(list) : list[i] \in 0 .. ByteSize - 1
    BY <1>10 DEF ListFits, Bytes
  <2>2. room = Len(list)
    BY <1>2, <2>1 DEF room
  <2>3. \A i \in 1 .. room : n[i] = list[i]
    <3> TAKE i \in 1 .. room
    <3>1. list[i] \in 0 .. ByteSize - 1 /\ list[i] \in Int /\ kept[i] = list[i]
      BY <1>1, <1>5, <2>1, <2>2
    <3>2. AsUnsigned(list[i], ByteSize) = list[i]
      BY <1>1, <3>1, Unsigned
    <3> QED
      BY <1>8, <3>1, <3>2 DEF byte
  <2> QED
    BY <1>8, <2>2, <2>3, SeqEqual
<1> QED
  BY <1>8, <1>9, <1>10 DEF n

LEMMA ClassesStored ==
  ASSUME NEW object
  PROVE  /\ StoredClasses(object) =
              [key \in ClassKeys |-> NarrowList(Get(object.cmdClasses, key, <<>>))]
         /\ DOMAIN StoredClasses(object) = ClassKeys
         /\ \A key \in ClassKeys :
              StoredClasses(object)[key] = NarrowList(Get(object.cmdClasses, key, <<>>))
<1>1. StoredClasses(object) =
        [key \in ClassKeys |-> NarrowList(Get(object.cmdClasses, key, <<>>))]
  BY Zenon DEF StoredClasses, NarrowList
<1> QED
  BY <1>1

(* The lists of a document that were stored once stay.                     *)
LEMMA ClassesStay ==
  ASSUME NEW object, ControllerObject(object), "cmdClasses" \in DOMAIN object
  PROVE  /\ \A key \in ClassKeys : StoredClasses(object)[key] \in Seq(Int)
         /\ \A next : next.cmdClasses = StoredClasses(object) =>
              StoredClasses(next) = next.cmdClasses
         /\ \A key \in ClassKeys \cap DOMAIN object.cmdClasses :
              ListFits(object.cmdClasses[key]) =>
                StoredClasses(object)[key] = object.cmdClasses[key]
<1> DEFINE list(key) == Get(object.cmdClasses, key, <<>>)
<1>1. \A key \in ClassKeys : list(key) \in Seq(Int)
  <2> TAKE key \in ClassKeys
  <2>1. CASE key \in DOMAIN object.cmdClasses
    BY <2>1 DEF ControllerObject, Get
  <2>2. CASE key \notin DOMAIN object.cmdClasses
    BY <2>2 DEF Get
  <2> QED
    BY <2>1, <2>2
<1>2. \A key \in ClassKeys : StoredClasses(object)[key] = NarrowList(list(key))
  BY ClassesStored
<1>3. \A key \in ClassKeys \cap DOMAIN object.cmdClasses : list(key) = object.cmdClasses[key]
  BY DEF Get
<1> HIDE DEF list
<1>4. \A key \in ClassKeys : /\ NarrowList(list(key)) \in Seq(Int)
                             /\ ListFits(NarrowList(list(key)))
                             /\ ListFits(list(key)) => NarrowList(list(key)) = list(key)
  BY <1>1, ListNarrowed
<1>5. \A key \in ClassKeys :
        NarrowList(NarrowList(list(key))) = NarrowList(list(key))
  BY <1>4, ListNarrowed
<1>6. ASSUME NEW next, next.cmdClasses = StoredClasses(object)
      PROVE  StoredClasses(next) = next.cmdClasses
  <2>1. \A key \in ClassKeys : Get(next.cmdClasses, key, <<>>) = NarrowList(list(key))
    BY <1>2, <1>6, ClassesStored DEF Get
  <2>2. \A key \in ClassKeys : StoredClasses(next)[key] = StoredClasses(object)[key]
    BY <1>2, <1>5, <2>1, ClassesStored
  <2>3. StoredClasses(next) = StoredClasses(object)
    <3>1. /\ StoredClasses(next) = [key \in ClassKeys |-> StoredClasses(next)[key]]
          /\ StoredClasses(object) = [key \in ClassKeys |-> StoredClasses(object)[key]]
      <4>1. \A o : StoredClasses(o) = [key \in ClassKeys |-> StoredClasses(o)[key]]
        <5> TAKE o
        <5> DEFINE l(key) == NarrowList(Get(o.cmdClasses, key, <<>>))
        <5>1. StoredClasses(o) = [key \in ClassKeys |-> l(key)]
          BY ClassesStored, Zenon
        <5> HIDE DEF l
        <5> QED
          BY <5>1
      <4> QED
        BY <4>1
    <3> QED
      BY <2>2, <3>1
  <2> QED
    BY <1>6, <2>3
<1> QED
  BY <1>2, <1>3, <1>4, <1>6

LEMMA ConfigStored ==
  ASSUME NEW object
  PROVE  LET config == object.rfConfig
             struct == StructOf(config)
         IN  StoredConfig(object) =
               [struct |-> struct,
                values |-> [key \in ConfigKeys(struct) |->
                              NarrowConfig(struct, key, Get(config, key, ConfigDefault(key)))]]
<1> DEFINE config == object.rfConfig
           struct == StructOf(config)
           power == IF struct \in {"prior_7_15_3", "prior_7_18_1"} THEN ByteSize ELSE WordSize
           of(key) ==
            CASE key \in {"txPower", "measured0dBm"} -> AsSigned(Get(config, key, 0), power)
              [] key = "maxTxPower" -> AsSigned(Get(config, key, 140), WordSize)
              [] key = "enablePTI" -> Get(config, key, FALSE)
              [] OTHER -> AsUnsigned(Get(config, key, 0), ByteSize)
           narrow(key) == NarrowConfig(struct, key, Get(config, key, ConfigDefault(key)))
<1>1. StoredConfig(object) =
        [struct |-> struct, values |-> [key \in ConfigKeys(struct) |-> of(key)]]
  BY Zenon DEF StoredConfig
<1>2. power = PowerSize(struct)
  BY Zenon DEF PowerSize
<1> HIDE DEF config, struct, power
<1>3. \A key : of(key) = narrow(key)
  <2> TAKE key
  <2>1. CASE key \in {"txPower", "measured0dBm"}
    <3>1. ConfigDefault(key) = 0 /\ key # "maxTxPower" /\ key # "enablePTI"
      BY <2>1 DEF ConfigDefault
    <3> QED
      BY <1>2, <2>1, <3>1 DEF NarrowConfig
  <2>2. CASE key = "maxTxPower"
    BY <2>2 DEF NarrowConfig, ConfigDefault
  <2>3. CASE key = "enablePTI"
    BY <2>3 DEF NarrowConfig, ConfigDefault
  <2>4. CASE key \notin {"txPower", "measured0dBm", "maxTxPower", "enablePTI"}
    <3>1. ConfigDefault(key) = 0
      BY <2>4 DEF ConfigDefault
    <3> QED
      BY <2>4, <3>1 DEF NarrowConfig
  <2> QED
    BY <2>1, <2>2, <2>3, <2>4
<1> HIDE DEF of, narrow
<1>4. StoredConfig(object) =
        [struct |-> struct, values |-> [key \in ConfigKeys(struct) |-> narrow(key)]]
  BY <1>1, <1>3
<1> QED
  BY <1>4, Zenon DEF config, struct, narrow

LEMMA ConfigNarrowed ==
  ASSUME target \in Target, NEW struct, NEW key, NEW v,
         key \in ConfigKeys(struct), key \in ConfigNumbers => v \in Int
  PROVE  /\ NarrowConfig(struct, key, NarrowConfig(struct, key, v)) = NarrowConfig(struct, key, v)
         /\ key \in ConfigNumbers => NarrowConfig(struct, key, v) \in Int
         /\ key = "nodeIdType" => NarrowConfig(struct, key, v) >= 0
         /\ struct = ReadStruct(prot) /\ ConfigFits(key, v) => NarrowConfig(struct, key, v) = v
<1>0. ByteSize \in Nat \ {0} /\ WordSize \in Nat \ {0}
  BY InfoAssumption
<1>1. key \in {"rfRegion", "txPower", "measured0dBm", "enablePTI", "maxTxPower", "nodeIdType"}
  BY DEF ConfigKeys
<1>2. CASE key \in {"txPower", "measured0dBm"}
  <2> DEFINE power == PowerSize(struct)
  <2>1. power \in Nat \ {0} /\ v \in Int
    BY <1>0, <1>2 DEF PowerSize, ConfigNumbers
  <2>2. \A u : NarrowConfig(struct, key, u) = AsSigned(u, power)
    BY <1>2 DEF NarrowConfig
  <2>3. ASSUME struct = ReadStruct(prot), ConfigFits(key, v)
        PROVE  v \in -(power \div 2) .. power - 1 - (power \div 2)
    <3>1. power = IF PreV7_18_1(prot) THEN ByteSize ELSE WordSize
      <4>1. Major(prot) \in {7, 8} /\ Minor(prot) \in Nat /\ Patch(prot) \in Nat
        BY TargetFits
      <4>2. struct \in {"prior_7_15_3", "prior_7_18_1"} <=> PreV7_18_1(prot)
        BY <2>3, <4>1 DEF ReadStruct, PreV7_15_3, PreV7_18_1
      <4> QED
        BY <4>2 DEF PowerSize
    <3>2. v \in (IF PreV7_18_1(prot) THEN SignedBytes ELSE SignedWords)
      BY <1>2, <2>3 DEF ConfigFits
    <3>3. v \in -(power \div 2) .. (power \div 2) - 1
      <4> HIDE DEF power
      <4>1. CASE PreV7_18_1(prot)
        BY <3>1, <3>2, <4>1 DEF SignedBytes
      <4>2. CASE ~PreV7_18_1(prot)
        BY <3>1, <3>2, <4>2 DEF SignedWords
      <4> QED
        BY <4>1, <4>2
    <3> HIDE DEF power
    <3> QED
      BY <2>1, <3>3
  <2> HIDE DEF power
  <2>4. /\ AsSigned(AsSigned(v, power), power) = AsSigned(v, power)
        /\ AsSigned(v, power) \in -(power \div 2) .. power - 1 - (power \div 2)
        /\ v \in -(power \div 2) .. power - 1 - (power \div 2) => AsSigned(v, power) = v
    BY <2>1, Signed
  <2>5. AsSigned(v, power) \in Int
    BY <2>1, <2>4
  <2> QED
    BY <1>2, <2>2, <2>3, <2>4, <2>5
<1>3. CASE key = "maxTxPower"
  <2>1. v \in Int
    BY <1>3 DEF ConfigNumbers
  <2>2. \A u : NarrowConfig(struct, key, u) = AsSigned(u, WordSize)
    BY <1>3 DEF NarrowConfig
  <2>3. ConfigFits(key, v) => v \in -(WordSize \div 2) .. WordSize - 1 - (WordSize \div 2)
    <3>1. ConfigFits(key, v) => v \in -(WordSize \div 2) .. (WordSize \div 2) - 1
      BY <1>3 DEF ConfigFits, SignedWords
    <3> QED
      BY <1>0, <3>1
  <2>4. /\ AsSigned(AsSigned(v, WordSize), WordSize) = AsSigned(v, WordSize)
        /\ AsSigned(v, WordSize) \in -(WordSize \div 2) .. WordSize - 1 - (WordSize \div 2)
        /\ v \in -(WordSize \div 2) .. WordSize - 1 - (WordSize \div 2)
             => AsSigned(v, WordSize) = v
    BY <1>0, <2>1, Signed
  <2>5. AsSigned(v, WordSize) \in Int
    BY <1>0, <2>4
  <2> QED
    BY <1>3, <2>2, <2>3, <2>4, <2>5
<1>4. CASE key = "enablePTI"
  <2>1. key \notin ConfigNumbers
    BY <1>4 DEF ConfigNumbers
  <2>2. \A u : NarrowConfig(struct, key, u) = u
    BY <1>4 DEF NarrowConfig
  <2> QED
    BY <1>4, <2>1, <2>2
<1>5. CASE key \in {"rfRegion", "nodeIdType"}
  <2>1. v \in Int
    BY <1>5 DEF ConfigNumbers
  <2>2. \A u : NarrowConfig(struct, key, u) = AsUnsigned(u, ByteSize)
    BY <1>5 DEF NarrowConfig
  <2>3. ConfigFits(key, v) => v \in 0 .. ByteSize - 1
    BY <1>5 DEF ConfigFits, Bytes
  <2>4. \A u \in Int : /\ AsUnsigned(u, ByteSize) \in 0 .. ByteSize - 1
                       /\ u \in 0 .. ByteSize - 1 => AsUnsigned(u, ByteSize) = u
    BY <1>0, Unsigned
  <2> QED
    BY <1>0, <2>1, <2>2, <2>3, <2>4
<1> QED
  BY <1>1, <1>2, <1>3, <1>4, <1>5

(* When the structure that is written can be read again.                   *)
LEMMA ConfigReadable ==
  ASSUME target \in Target, NEW config
  PROVE  StructOf(config) = ReadStruct(prot) <=>
           ~(Major(prot) = 7 /\ Minor(prot) >= 21 /\ Get(config, "nodeIdType", 0) < 0)
<1>1. Major(prot) \in {7, 8} /\ Minor(prot) \in Nat /\ Patch(prot) \in Nat
  BY TargetFits
<1>2. ReadStruct(prot) = WrittenStruct(prot)
  BY <1>1, ShapesAgree
<1>3. WrittenStruct(prot) = "7_21_x" /\ Major(prot) < 8 <=> Major(prot) = 7 /\ Minor(prot) >= 21
  BY <1>1 DEF WrittenStruct, PreV7_15_3, PreV7_18_1, PreV7_21
<1> DEFINE negative == Get(config, "nodeIdType", 0) < 0
<1> HIDE DEF negative
<1>4. StructOf(config) =
        IF WrittenStruct(prot) = "7_21_x" /\ Major(prot) < 8 /\ negative THEN "7_18_1"
        ELSE WrittenStruct(prot)
  BY Zenon DEF StructOf, negative
<1>5. StructOf(config) = ReadStruct(prot) <=>
        ~(Major(prot) = 7 /\ Minor(prot) >= 21 /\ negative)
  <2>1. CASE WrittenStruct(prot) = "7_21_x" /\ Major(prot) < 8 /\ negative
    BY <1>2, <1>3, <1>4, <2>1
  <2>2. CASE ~(WrittenStruct(prot) = "7_21_x" /\ Major(prot) < 8 /\ negative)
    BY <1>2, <1>3, <1>4, <2>2
  <2> QED
    BY <2>1, <2>2
<1> QED
  BY <1>5 DEF negative

LEMMA ConfigStays ==
  ASSUME target \in Target,
         NEW object, ControllerObject(object), "rfConfig" \in DOMAIN object,
         StructOf(object.rfConfig) = ReadStruct(prot)
  PROVE  LET values == StoredConfig(object).values
         IN  /\ DOMAIN values = ConfigKeys(ReadStruct(prot))
             /\ \A key \in ConfigNumbers \cap DOMAIN values : values[key] \in Int
             /\ \A key \in DOMAIN object.rfConfig \cap DOMAIN values :
                  ConfigFits(key, object.rfConfig[key]) => values[key] = object.rfConfig[key]
             /\ \A next : next.rfConfig = values =>
                  StoredConfig(next) = [struct |-> ReadStruct(prot), values |-> values]
<1> DEFINE config == object.rfConfig
           struct == ReadStruct(prot)
           said(key) == Get(config, key, ConfigDefault(key))
           values == StoredConfig(object).values
           value(key) == NarrowConfig(struct, key, said(key))
<1>1. StoredConfig(object) =
        [struct |-> struct, values |-> [key \in ConfigKeys(struct) |-> value(key)]]
  BY ConfigStored
<1>2. \A key \in ConfigNumbers : said(key) \in Int
  <2> TAKE key \in ConfigNumbers
  <2>1. CASE key \in DOMAIN config
    BY <2>1 DEF ControllerObject, Get
  <2>2. CASE key \notin DOMAIN config
    <3>1. key # "enablePTI"
      BY DEF ConfigNumbers
    <3>2. ConfigDefault(key) \in Int
      BY <3>1 DEF ConfigDefault
    <3>3. said(key) = ConfigDefault(key)
      BY <2>2 DEF Get
    <3> QED
      BY <3>2, <3>3
  <2> QED
    BY <2>1, <2>2
<1>3. \A key \in DOMAIN config : said(key) = config[key]
  BY DEF Get
<1> HIDE DEF struct, said, config
<1>4. values = [key \in ConfigKeys(struct) |-> value(key)]
  BY <1>1
<1> HIDE DEF values
<1>5. ASSUME NEW key \in ConfigKeys(struct)
      PROVE  /\ NarrowConfig(struct, key, value(key)) = value(key)
             /\ key \in ConfigNumbers => value(key) \in Int
             /\ key = "nodeIdType" => value(key) >= 0
             /\ ConfigFits(key, said(key)) => value(key) = said(key)
  <2>1. key \in ConfigNumbers => said(key) \in Int
    BY <1>2
  <2> HIDE DEF said
  <2>2. struct = ReadStruct(prot)
    BY DEF struct
  <2>3. \A v : (key \in ConfigNumbers => v \in Int) =>
          /\ NarrowConfig(struct, key, NarrowConfig(struct, key, v)) = NarrowConfig(struct, key, v)
          /\ key \in ConfigNumbers => NarrowConfig(struct, key, v) \in Int
          /\ key = "nodeIdType" => NarrowConfig(struct, key, v) >= 0
          /\ struct = ReadStruct(prot) /\ ConfigFits(key, v) => NarrowConfig(struct, key, v) = v
    BY ConfigNarrowed, Zenon
  <2> QED
    BY <2>1, <2>2, <2>3, Zenon
<1> HIDE DEF value
<1>6. DOMAIN values = ConfigKeys(struct) /\ \A key \in DOMAIN values : values[key] = value(key)
  BY <1>4
<1>7. ASSUME NEW next, next.rfConfig = values
      PROVE  StoredConfig(next) = [struct |-> struct, values |-> values]
  <2>1. \A key \in ConfigKeys(struct) : Get(values, key, ConfigDefault(key)) = value(key)
    BY <1>6 DEF Get
  <2>2. ~(Get(values, "nodeIdType", 0) < 0)
    <3>1. CASE "nodeIdType" \in DOMAIN values
      <4>1. Get(values, "nodeIdType", 0) = value("nodeIdType")
        BY <1>6, <3>1 DEF Get
      <4>2. value("nodeIdType") >= 0 /\ value("nodeIdType") \in Int
        BY <1>5, <1>6, <3>1 DEF ConfigNumbers
      <4> QED
        BY <4>1, <4>2
    <3>2. CASE "nodeIdType" \notin DOMAIN values
      BY <3>2 DEF Get
    <3> QED
      BY <3>1, <3>2
  <2>3. StructOf(values) = struct
    BY <2>2, ConfigReadable DEF struct
  <2> DEFINE again(key) == NarrowConfig(struct, key, Get(values, key, ConfigDefault(key)))
  <2>4. StoredConfig(next) =
          [struct |-> struct, values |-> [key \in ConfigKeys(struct) |-> again(key)]]
    <3>1. StoredConfig(next) =
            [struct |-> StructOf(next.rfConfig), values |->
               [key \in ConfigKeys(StructOf(next.rfConfig)) |->
                  NarrowConfig(StructOf(next.rfConfig), key,
                               Get(next.rfConfig, key, ConfigDefault(key)))]]
      BY ConfigStored, Zenon
    <3>2. StructOf(next.rfConfig) = struct /\ next.rfConfig = values
      BY <1>7, <2>3
    <3> QED
      BY <3>1, <3>2
  <2>5. \A key \in ConfigKeys(struct) : again(key) = value(key)
    BY <1>5, <2>1
  <2> HIDE DEF again
  <2>6. [key \in ConfigKeys(struct) |-> again(key)] = values
    BY <1>4, <2>5
  <2> QED
    BY <2>4, <2>6
<1>8. \A key \in ConfigNumbers \cap DOMAIN values : values[key] \in Int
  BY <1>5, <1>6
<1>9. \A key \in DOMAIN config \cap DOMAIN values :
        ConfigFits(key, config[key]) => values[key] = config[key]
  BY <1>3, <1>5, <1>6
<1> QED
  BY <1>6, <1>7, <1>8, <1>9, Zenon DEF values, struct, config

(* What the exporter finds of an image that was imported.                  *)
LEMMA FileIsThere ==
  ASSUME NEW S \in SUBSET InfoFile, ImageIs(files, S), NEW f \in InfoFile,
         ReadPlace(f) = Place(f)
  PROVE  /\ IsThere(f) <=> f \in S
         /\ f \in S => Object(f) = FileContent(f)
<1>1. DOMAIN files = {Place(g) : g \in S} /\ \A g \in S : files[Place(g)] = FileContent(g)
  BY Zenon DEF ImageIs
<1>2. Place(f) \in {Place(g) : g \in S} <=> f \in S
  <2>1. ASSUME NEW g \in S, Place(g) = Place(f) PROVE f \in S
    BY <2>1, PlacesDiffer
  <2> QED
    BY <2>1
<1> QED
  BY <1>1, <1>2 DEF IsThere, Object

LEMMA ImageRead ==
  ASSUME InfoInv, pc = "imported"
  PROVE  /\ \A f \in {"CONTROLLERINFO", "APPLICATIONSETTINGS", "APPLICATIONCMDINFO",
                      "APPLICATIONDATA"} :
              /\ IsThere(f) <=> broken # f
              /\ broken # f => Object(f) = ContentOf(f)
         /\ Is720OrNewer(prot) =>
              /\ IsThere("APP_NAME") <=> broken # "APP_NAME"
              /\ broken # "APP_NAME" => Object("APP_NAME") = ContentOf("APP_NAME")
         /\ generation = 719 =>
              /\ IsThere("PROPRIETARY_1") <=>
                   /\ target.layout # "700s" /\ broken # "PROPRIETARY_1"
                   /\ AsSigned(DcdcConfig(doc), WordSize) >= 0
              /\ IsThere("PROPRIETARY_1") => Object("PROPRIETARY_1") = ContentOf("PROPRIETARY_1")
         /\ /\ IsThere("APPLICATIONCONFIGURATION") <=> broken # "APPLICATIONCONFIGURATION"
            /\ broken # "APPLICATIONCONFIGURATION" =>
                 Object("APPLICATIONCONFIGURATION") = StoredConfig(doc)
         /\ /\ IsThere("tables") <=> broken # "tables" /\ "sucUpdateEntries" \in DOMAIN doc
            /\ IsThere("tables") => Object("tables") = doc.sucUpdateEntries
<1> DEFINE S == (FirstFiles \cup LastFiles) \ {broken}
           stores == generation = 719 /\ AsSigned(DcdcConfig(doc), WordSize) >= 0
<1>1. target \in Target /\ ImageIs(files, S)
  BY DEF InfoInv
<1>2. LastFiles = {"CONTROLLERINFO", "APPLICATIONSETTINGS", "APPLICATIONCMDINFO",
                   "APPLICATIONDATA"}
                    \cup (IF Is720OrNewer(prot) THEN {"APP_NAME"} ELSE {})
                    \cup (IF stores THEN {"PROPRIETARY_1"} ELSE {})
  BY Zenon DEF LastFiles
<1> HIDE DEF stores
<1>3. S \in SUBSET InfoFile
  BY <1>2 DEF FirstFiles, InfoFile
<1>4. \A f \in {"CONTROLLERINFO", "APPLICATIONSETTINGS", "APPLICATIONCMDINFO",
                "APPLICATIONDATA"} : f \in S <=> broken # f
  BY <1>2 DEF FirstFiles
<1>5. Is720OrNewer(prot) => ("APP_NAME" \in S <=> broken # "APP_NAME")
  BY <1>2 DEF FirstFiles
<1>6. "PROPRIETARY_1" \in S <=> stores /\ broken # "PROPRIETARY_1"
  BY <1>2 DEF FirstFiles
<1>7. "APPLICATIONCONFIGURATION" \in S <=> broken # "APPLICATIONCONFIGURATION"
  BY <1>2 DEF FirstFiles
<1>8. "tables" \in S <=> broken # "tables" /\ "sucUpdateEntries" \in DOMAIN doc
  BY <1>2 DEF FirstFiles
<1> HIDE DEF S
<1>9. \A f \in InfoFile : ReadPlace(f) = Place(f) =>
        /\ IsThere(f) <=> f \in S
        /\ f \in S => Object(f) = FileContent(f)
  BY <1>1, <1>3, FileIsThere
<1>10. \A f \in InfoFile : f # "PROPRIETARY_1" /\ (f = "APP_NAME" => Is720OrNewer(prot)) =>
         /\ IsThere(f) <=> f \in S
         /\ f \in S => Object(f) = FileContent(f)
  BY <1>1, <1>9, PlacesRead
<1>11. \A f \in {"CONTROLLERINFO", "APPLICATIONSETTINGS", "APPLICATIONCMDINFO",
                 "APPLICATIONDATA", "APP_NAME", "PROPRIETARY_1"} :
         f \in InfoFile /\ FileContent(f) = ContentOf(f)
  BY DEF FileContent, InfoFile
<1>12. \A f \in {"CONTROLLERINFO", "APPLICATIONSETTINGS", "APPLICATIONCMDINFO",
                 "APPLICATIONDATA"} :
         /\ IsThere(f) <=> broken # f
         /\ broken # f => Object(f) = ContentOf(f)
  BY <1>4, <1>10, <1>11
<1>13. ASSUME Is720OrNewer(prot)
       PROVE  /\ IsThere("APP_NAME") <=> broken # "APP_NAME"
              /\ broken # "APP_NAME" => Object("APP_NAME") = ContentOf("APP_NAME")
  BY <1>5, <1>10, <1>11, <1>13
<1>14. ASSUME generation = 719
       PROVE  /\ IsThere("PROPRIETARY_1") <=>
                   /\ target.layout # "700s" /\ broken # "PROPRIETARY_1"
                   /\ AsSigned(DcdcConfig(doc), WordSize) >= 0
              /\ IsThere("PROPRIETARY_1") =>
                   Object("PROPRIETARY_1") = ContentOf("PROPRIETARY_1")
  <2>1. stores <=> AsSigned(DcdcConfig(doc), WordSize) >= 0
    BY <1>14 DEF stores
  <2>2. CASE target.layout # "700s"
    <3>1. ReadPlace("PROPRIETARY_1") = Place("PROPRIETARY_1")
      BY <1>1, <1>14, <2>2, PlacesRead
    <3> QED
      BY <1>6, <1>9, <1>11, <2>1, <2>2, <3>1
  <2>3. CASE target.layout = "700s"
    <3>1. \A f \in InfoFile : ReadPlace("PROPRIETARY_1") # Place(f)
      BY <1>1, <1>14, <2>3, PlacesRead
    <3>2. ~IsThere("PROPRIETARY_1")
      BY <1>1, <1>3, <3>1 DEF IsThere, ImageIs
    <3> QED
      BY <2>3, <3>2
  <2> QED
    BY <2>2, <2>3
<1>15. /\ IsThere("APPLICATIONCONFIGURATION") <=> broken # "APPLICATIONCONFIGURATION"
       /\ broken # "APPLICATIONCONFIGURATION" =>
            Object("APPLICATIONCONFIGURATION") = StoredConfig(doc)
  <2>1. FileContent("APPLICATIONCONFIGURATION") = StoredConfig(doc)
    BY DEF FileContent
  <2> QED
    BY <1>7, <1>10, <2>1 DEF InfoFile
<1>16. /\ IsThere("tables") <=> broken # "tables" /\ "sucUpdateEntries" \in DOMAIN doc
       /\ IsThere("tables") => Object("tables") = doc.sucUpdateEntries
  <2>1. FileContent("tables") = doc.sucUpdateEntries
    BY DEF FileContent
  <2> QED
    BY <1>8, <1>10, <2>1 DEF InfoFile
<1> QED
  BY <1>12, <1>13, <1>14, <1>15, <1>16, Zenon

(* An object joined of eight parts.                                        *)
IsJoined(all, a, b, c, d, e, f, g, h) ==
  /\ DOMAIN all = DOMAIN a \cup DOMAIN b \cup DOMAIN c \cup DOMAIN d \cup DOMAIN e
                    \cup DOMAIN f \cup DOMAIN g \cup DOMAIN h
  /\ all = [x \in DOMAIN all |-> all[x]]
  /\ \A x \in DOMAIN all :
       all[x] = IF x \in DOMAIN a THEN a[x]
                ELSE IF x \in DOMAIN b THEN b[x]
                ELSE IF x \in DOMAIN c THEN c[x]
                ELSE IF x \in DOMAIN d THEN d[x]
                ELSE IF x \in DOMAIN e THEN e[x]
                ELSE IF x \in DOMAIN f THEN f[x]
                ELSE IF x \in DOMAIN g THEN g[x]
                ELSE h[x]

LEMMA JoinedParts ==
  ASSUME NEW a, NEW b, NEW c, NEW d, NEW e, NEW f, NEW g, NEW h
  PROVE  IsJoined(a ++ b ++ c ++ d ++ e ++ f ++ g ++ h, a, b, c, d, e, f, g, h)
<1> DEFINE j2 == a ++ b
           j3 == j2 ++ c
           j4 == j3 ++ d
           j5 == j4 ++ e
           j6 == j5 ++ f
           j7 == j6 ++ g
           j8 == j7 ++ h
<1>1. \A x, y : /\ DOMAIN (x ++ y) = DOMAIN x \cup DOMAIN y
                /\ \A z \in DOMAIN x \cup DOMAIN y :
                     (x ++ y)[z] = IF z \in DOMAIN x THEN x[z] ELSE y[z]
                /\ (x ++ y) = [z \in DOMAIN (x ++ y) |-> (x ++ y)[z]]
  <2> TAKE x, y
  <2> DEFINE of(z) == IF z \in DOMAIN x THEN x[z] ELSE y[z]
             both == x ++ y
  <2>1. both = [z \in DOMAIN x \cup DOMAIN y |-> of(z)]
    BY Zenon DEF ++
  <2> HIDE DEF both, of
  <2>2. DOMAIN both = DOMAIN x \cup DOMAIN y
        /\ \A z \in DOMAIN x \cup DOMAIN y : both[z] = of(z)
    BY <2>1
  <2>3. both = [z \in DOMAIN both |-> both[z]]
    BY <2>1
  <2> QED
    BY <2>2, <2>3, Zenon DEF both, of
<1>2. DOMAIN j2 = DOMAIN a \cup DOMAIN b /\ DOMAIN j3 = DOMAIN j2 \cup DOMAIN c
      /\ DOMAIN j4 = DOMAIN j3 \cup DOMAIN d /\ DOMAIN j5 = DOMAIN j4 \cup DOMAIN e
      /\ DOMAIN j6 = DOMAIN j5 \cup DOMAIN f /\ DOMAIN j7 = DOMAIN j6 \cup DOMAIN g
      /\ DOMAIN j8 = DOMAIN j7 \cup DOMAIN h
  BY <1>1, Zenon
<1>3. /\ \A x \in DOMAIN j2 : j2[x] = IF x \in DOMAIN a THEN a[x] ELSE b[x]
      /\ \A x \in DOMAIN j3 : j3[x] = IF x \in DOMAIN j2 THEN j2[x] ELSE c[x]
      /\ \A x \in DOMAIN j4 : j4[x] = IF x \in DOMAIN j3 THEN j3[x] ELSE d[x]
      /\ \A x \in DOMAIN j5 : j5[x] = IF x \in DOMAIN j4 THEN j4[x] ELSE e[x]
      /\ \A x \in DOMAIN j6 : j6[x] = IF x \in DOMAIN j5 THEN j5[x] ELSE f[x]
      /\ \A x \in DOMAIN j7 : j7[x] = IF x \in DOMAIN j6 THEN j6[x] ELSE g[x]
      /\ \A x \in DOMAIN j8 : j8[x] = IF x \in DOMAIN j7 THEN j7[x] ELSE h[x]
  BY <1>1, <1>2
<1>4. j8 = [x \in DOMAIN j8 |-> j8[x]]
  BY <1>1
<1> HIDE DEF j2, j3, j4, j5, j6, j7, j8
<1>5. \A x \in DOMAIN j8 :
        j8[x] = IF x \in DOMAIN a THEN a[x]
                ELSE IF x \in DOMAIN b THEN b[x]
                ELSE IF x \in DOMAIN c THEN c[x]
                ELSE IF x \in DOMAIN d THEN d[x]
                ELSE IF x \in DOMAIN e THEN e[x]
                ELSE IF x \in DOMAIN f THEN f[x]
                ELSE IF x \in DOMAIN g THEN g[x]
                ELSE h[x]
  BY <1>2, <1>3
<1>6. DOMAIN j8 = DOMAIN a \cup DOMAIN b \cup DOMAIN c \cup DOMAIN d \cup DOMAIN e
                    \cup DOMAIN f \cup DOMAIN g \cup DOMAIN h
  BY <1>2
<1> QED
  BY <1>4, <1>5, <1>6, Zenon DEF IsJoined, j2, j3, j4, j5, j6, j7, j8

LEMMA OtherKeys ==
  /\ \A key \in {"cmdClasses", "rfConfig", "applicationData", "applicationName",
                 "sucUpdateEntries"} : key \notin InfoKeys /\ key \notin SettingKeys
  /\ "dcdcConfig" \in InfoKeys <=> generation = 715
  /\ "dcdcConfig" \notin SettingKeys
  /\ InfoKeys \cap SettingKeys = {}
<1>1. \A key \in {"cmdClasses", "rfConfig", "applicationData", "applicationName",
                 "sucUpdateEntries"} : key \notin InfoKeys
  <2>1. InfoKeys \subseteq Numbers \cup FlagKeys
    BY KeyKinds DEF InfoKeys
  <2>2. \A key \in {"cmdClasses", "rfConfig", "applicationData", "applicationName",
                    "sucUpdateEntries"} : key \notin Numbers /\ key \notin FlagKeys
    BY DEF Numbers, FlagKeys
  <2> QED
    BY <2>1, <2>2
<1>2. "dcdcConfig" \in InfoKeys <=> generation = 715
  <2>1. "dcdcConfig" \notin FlagKeys /\ "dcdcConfig" \notin WordKeys
    BY DEF FlagKeys, WordKeys, NodeKeys
  <2>2. "dcdcConfig" \in ByteKeys <=> generation = 715
    BY DEF ByteKeys, NodeKeys
  <2> QED
    BY <2>1, <2>2 DEF InfoKeys
<1>3. InfoKeys \cap SettingKeys = {}
  <2>1. \A key \in SettingKeys : key # "homeId" /\ key \notin FlagKeys /\ key \notin WordKeys
    BY KeyKinds
  <2>2. \A key \in SettingKeys : key \notin ByteKeys
    BY DEF SettingKeys, ByteKeys, NodeKeys
  <2> QED
    BY <2>1, <2>2 DEF InfoKeys
<1>4. \A key \in {"cmdClasses", "rfConfig", "applicationData", "applicationName",
                 "sucUpdateEntries", "dcdcConfig"} : key \notin SettingKeys
  BY DEF SettingKeys
<1> QED
  BY <1>1, <1>2, <1>3, <1>4

(* What an export gives, key by key.                                       *)
InfoThere == broken # "CONTROLLERINFO"
SettingsThere == broken # "APPLICATIONSETTINGS"
ClassesThere == broken # "APPLICATIONCMDINFO"
DataThere ==
  /\ broken # "APPLICATIONDATA"
  /\ ~(generation = 711 /\ Significant(DataOf(DataText(doc))) = <<>>)
NameThere == Is720OrNewer(prot) /\ broken # "APP_NAME"
DcdcThere ==
  /\ generation = 719 /\ target.layout # "700s" /\ broken # "PROPRIETARY_1"
  /\ AsSigned(DcdcConfig(doc), WordSize) >= 0
KeysIf(there, keys) == IF there THEN keys ELSE {}

ExportedKeys ==
  {"rfConfig"} \cup KeysIf(InfoThere, InfoKeys) \cup KeysIf(SettingsThere, SettingKeys)
    \cup KeysIf(ClassesThere, {"cmdClasses"}) \cup KeysIf(DataThere, {"applicationData"})
    \cup KeysIf(NameThere, {"applicationName"}) \cup KeysIf(DcdcThere, {"dcdcConfig"})
    \cup KeysIf(generation # 711, {"sucUpdateEntries"})

LEMMA DataTyped ==
  ASSUME InfoInv, pc = "imported"
  PROVE  DataOf(DataText(doc)) \in Seq(Octet)
<1>1. /\ ControllerObject(doc)
      /\ DataText(doc) = <<>> \/ base64_decode(DataText(doc)) # NotBase64
  BY DEF InfoInv
<1>2. DataText(doc) \in Seq(Character)
  <2>1. CASE "applicationData" \in DOMAIN doc
    BY <1>1, <2>1 DEF ControllerObject, DataText, Get
  <2>2. CASE "applicationData" \notin DOMAIN doc
    BY <2>2 DEF DataText, Get
  <2> QED
    BY <2>1, <2>2
<1> QED
  BY <1>1, <1>2, DataOfText

LEMMA ExportedParts ==
  ASSUME InfoInv, pc = "imported"
  PROVE  LET info == Part("CONTROLLERINFO", Object("CONTROLLERINFO"))
             settings == Part("APPLICATIONSETTINGS", Object("APPLICATIONSETTINGS"))
             classes == Part("APPLICATIONCMDINFO",
                             Single("cmdClasses", Object("APPLICATIONCMDINFO")))
             data == Part("APPLICATIONDATA", ExportedData(Object("APPLICATIONDATA")))
             name == IF Is720OrNewer(prot)
                       THEN Part("APP_NAME", Single("applicationName", Object("APP_NAME")))
                       ELSE <<>>
             dcdc == IF generation = 719
                       THEN Part("PROPRIETARY_1", Single("dcdcConfig", Object("PROPRIETARY_1")))
                       ELSE <<>>
         IN  /\ info = IF InfoThere THEN StoredInfo(doc) ELSE <<>>
             /\ settings = IF SettingsThere THEN StoredSettings(doc) ELSE <<>>
             /\ classes = IF ClassesThere THEN Single("cmdClasses", StoredClasses(doc)) ELSE <<>>
             /\ data = IF DataThere
                         THEN Single("applicationData",
                                base64_encode(Significant(DataOf(DataText(doc))), 0))
                         ELSE <<>>
             /\ name = IF NameThere THEN Single("applicationName", StoredName(doc)) ELSE <<>>
             /\ dcdc = IF DcdcThere
                         THEN Single("dcdcConfig",
                                AsUnsigned(AsSigned(DcdcConfig(doc), WordSize), ByteSize))
                         ELSE <<>>
<1>1. \A f \in {"CONTROLLERINFO", "APPLICATIONSETTINGS", "APPLICATIONCMDINFO",
                "APPLICATIONDATA"} :
        /\ IsThere(f) <=> broken # f
        /\ broken # f => Object(f) = ContentOf(f)
  BY ImageRead, Zenon
<1>2. Is720OrNewer(prot) =>
        /\ IsThere("APP_NAME") <=> broken # "APP_NAME"
        /\ broken # "APP_NAME" => Object("APP_NAME") = ContentOf("APP_NAME")
  BY ImageRead, Zenon
<1>3. generation = 719 =>
        /\ IsThere("PROPRIETARY_1") <=>
             /\ target.layout # "700s" /\ broken # "PROPRIETARY_1"
             /\ AsSigned(DcdcConfig(doc), WordSize) >= 0
        /\ IsThere("PROPRIETARY_1") => Object("PROPRIETARY_1") = ContentOf("PROPRIETARY_1")
  BY ImageRead, Zenon
<1>4. /\ ContentOf("CONTROLLERINFO") = StoredInfo(doc)
      /\ ContentOf("APPLICATIONSETTINGS") = StoredSettings(doc)
      /\ ContentOf("APPLICATIONCMDINFO") = StoredClasses(doc)
      /\ ContentOf("APPLICATIONDATA") = StoredData(doc)
      /\ ContentOf("APP_NAME") = StoredName(doc)
      /\ ContentOf("PROPRIETARY_1") =
           AsUnsigned(AsSigned(DcdcConfig(doc), WordSize), ByteSize)
  BY DEF ContentOf
<1>5. Part("CONTROLLERINFO", Object("CONTROLLERINFO")) =
        IF InfoThere THEN StoredInfo(doc) ELSE <<>>
  BY <1>1, <1>4 DEF Part, InfoThere
<1>6. Part("APPLICATIONSETTINGS", Object("APPLICATIONSETTINGS")) =
        IF SettingsThere THEN StoredSettings(doc) ELSE <<>>
  BY <1>1, <1>4 DEF Part, SettingsThere
<1>7. Part("APPLICATIONCMDINFO", Single("cmdClasses", Object("APPLICATIONCMDINFO"))) =
        IF ClassesThere THEN Single("cmdClasses", StoredClasses(doc)) ELSE <<>>
  BY <1>1, <1>4 DEF Part, ClassesThere
<1> DEFINE bytes == DataOf(DataText(doc))
           text == Single("applicationData", base64_encode(Significant(bytes), 0))
<1>8. Part("APPLICATIONDATA", ExportedData(Object("APPLICATIONDATA"))) =
        IF DataThere THEN text ELSE <<>>
  <2>1. bytes \in Seq(Octet) /\ StoredData(doc) = Padded(bytes)
    BY DataTyped, DataStored
  <2>2. ExportedData(Padded(bytes)) =
          IF Significant(bytes) = <<>> /\ generation = 711 THEN <<>> ELSE text
    BY <2>1, DataExported
  <2>3. DataThere <=> broken # "APPLICATIONDATA"
                       /\ ~(generation = 711 /\ Significant(bytes) = <<>>)
    BY Zenon DEF DataThere
  <2> HIDE DEF bytes, text
  <2>4. CASE broken # "APPLICATIONDATA"
    <3>1. Object("APPLICATIONDATA") = Padded(bytes)
      BY <1>1, <1>4, <2>1, <2>4
    <3>2. Part("APPLICATIONDATA", ExportedData(Object("APPLICATIONDATA"))) =
            ExportedData(Padded(bytes))
      BY <1>1, <2>4, <3>1 DEF Part
    <3> QED
      BY <2>2, <2>3, <2>4, <3>2
  <2>5. CASE broken = "APPLICATIONDATA"
    BY <1>1, <2>3, <2>5 DEF Part
  <2> QED
    BY <2>4, <2>5
<1>9. (IF Is720OrNewer(prot)
        THEN Part("APP_NAME", Single("applicationName", Object("APP_NAME"))) ELSE <<>>)
        = IF NameThere THEN Single("applicationName", StoredName(doc)) ELSE <<>>
  BY <1>2, <1>4 DEF Part, NameThere
<1>10. (IF generation = 719
         THEN Part("PROPRIETARY_1", Single("dcdcConfig", Object("PROPRIETARY_1"))) ELSE <<>>)
         = IF DcdcThere
             THEN Single("dcdcConfig", AsUnsigned(AsSigned(DcdcConfig(doc), WordSize), ByteSize))
             ELSE <<>>
  <2>1. CASE DcdcThere
    <3>1. generation = 719 /\ IsThere("PROPRIETARY_1")
      BY <1>3, <2>1 DEF DcdcThere
    <3>2. Object("PROPRIETARY_1") = AsUnsigned(AsSigned(DcdcConfig(doc), WordSize), ByteSize)
      BY <1>3, <1>4, <3>1
    <3> QED
      BY <2>1, <3>1, <3>2 DEF Part
  <2>2. CASE ~DcdcThere
    <3>1. generation = 719 => ~IsThere("PROPRIETARY_1")
      BY <1>3, <2>2 DEF DcdcThere
    <3> QED
      BY <2>2, <3>1 DEF Part
  <2> QED
    BY <2>1, <2>2
<1> QED
  BY <1>5, <1>6, <1>7, <1>8, <1>9, <1>10, Zenon

LEMMA ExportedIs ==
  ASSUME InfoInv, pc = "imported"
  PROVE  /\ DOMAIN Exported = ExportedKeys
         /\ Exported = [key \in DOMAIN Exported |-> Exported[key]]
         /\ InfoThere => \A key \in InfoKeys :
              Exported[key] = Narrow(key, Get(doc, key, KeyDefault(key)))
         /\ SettingsThere => \A key \in SettingKeys :
              Exported[key] = Narrow(key, Get(doc, key, KeyDefault(key)))
         /\ ClassesThere => Exported["cmdClasses"] = StoredClasses(doc)
         /\ Exported["rfConfig"] = ExportedConfig
         /\ DataThere => Exported["applicationData"] =
                           base64_encode(Significant(DataOf(DataText(doc))), 0)
         /\ NameThere => Exported["applicationName"] = StoredName(doc)
         /\ DcdcThere => Exported["dcdcConfig"] =
                           AsUnsigned(AsSigned(DcdcConfig(doc), WordSize), ByteSize)
         /\ generation # 711 => Exported["sucUpdateEntries"] =
                           IF IsThere("tables") THEN Object("tables") ELSE <<>>
<1> DEFINE a == Part("CONTROLLERINFO", Object("CONTROLLERINFO"))
           b == Part("APPLICATIONSETTINGS", Object("APPLICATIONSETTINGS"))
           c == Part("APPLICATIONCMDINFO", Single("cmdClasses", Object("APPLICATIONCMDINFO")))
           d == Single("rfConfig", ExportedConfig)
           e == Part("APPLICATIONDATA", ExportedData(Object("APPLICATIONDATA")))
           f == IF Is720OrNewer(prot)
                  THEN Part("APP_NAME", Single("applicationName", Object("APP_NAME"))) ELSE <<>>
           g == IF generation = 719
                  THEN Part("PROPRIETARY_1", Single("dcdcConfig", Object("PROPRIETARY_1")))
                  ELSE <<>>
           h == ExportedUpdates
           x == Exported
           text == base64_encode(Significant(DataOf(DataText(doc))), 0)
           number == AsUnsigned(AsSigned(DcdcConfig(doc), WordSize), ByteSize)
           list == IF IsThere("tables") THEN Object("tables") ELSE <<>>
<1>1. x = a ++ b ++ c ++ d ++ e ++ f ++ g ++ h
  BY Zenon DEF Exported
<1>2. /\ a = IF InfoThere THEN StoredInfo(doc) ELSE <<>>
      /\ b = IF SettingsThere THEN StoredSettings(doc) ELSE <<>>
      /\ c = IF ClassesThere THEN Single("cmdClasses", StoredClasses(doc)) ELSE <<>>
      /\ e = IF DataThere THEN Single("applicationData", text) ELSE <<>>
      /\ f = IF NameThere THEN Single("applicationName", StoredName(doc)) ELSE <<>>
      /\ g = IF DcdcThere THEN Single("dcdcConfig", number) ELSE <<>>
  BY ExportedParts, Zenon
<1>3. h = IF generation # 711 THEN Single("sucUpdateEntries", list) ELSE <<>>
  <2>1. h = IF generation = 711 THEN <<>> ELSE Single("sucUpdateEntries", list)
    BY Zenon DEF ExportedUpdates
  <2> HIDE DEF h, list
  <2> QED
    BY <2>1
<1> HIDE DEF a, b, c, d, e, f, g, h, x, text, number, list
<1>4. /\ DOMAIN x = DOMAIN a \cup DOMAIN b \cup DOMAIN c \cup DOMAIN d \cup DOMAIN e
                      \cup DOMAIN f \cup DOMAIN g \cup DOMAIN h
      /\ x = [k \in DOMAIN x |-> x[k]]
      /\ \A k \in DOMAIN x :
           x[k] = IF k \in DOMAIN a THEN a[k]
                  ELSE IF k \in DOMAIN b THEN b[k]
                  ELSE IF k \in DOMAIN c THEN c[k]
                  ELSE IF k \in DOMAIN d THEN d[k]
                  ELSE IF k \in DOMAIN e THEN e[k]
                  ELSE IF k \in DOMAIN f THEN f[k]
                  ELSE IF k \in DOMAIN g THEN g[k]
                  ELSE h[k]
  <2>1. IsJoined(x, a, b, c, d, e, f, g, h)
    BY <1>1, JoinedParts, Zenon
  <2> QED
    BY <2>1, Zenon DEF IsJoined
<1>5. \A k, v : DOMAIN Single(k, v) = {k} /\ Single(k, v)[k] = v
  BY OneKey
<1>6. /\ DOMAIN a = KeysIf(InfoThere, InfoKeys)
      /\ DOMAIN b = KeysIf(SettingsThere, SettingKeys)
      /\ DOMAIN c = KeysIf(ClassesThere, {"cmdClasses"})
      /\ DOMAIN d = {"rfConfig"}
      /\ DOMAIN e = KeysIf(DataThere, {"applicationData"})
      /\ DOMAIN f = KeysIf(NameThere, {"applicationName"})
      /\ DOMAIN g = KeysIf(DcdcThere, {"dcdcConfig"})
      /\ DOMAIN h = KeysIf(generation # 711, {"sucUpdateEntries"})
  <2>1. DOMAIN a = KeysIf(InfoThere, InfoKeys) /\ DOMAIN b = KeysIf(SettingsThere, SettingKeys)
    BY <1>2, InfoStored, SettingsStored, NoKeys DEF KeysIf
  <2>2. /\ DOMAIN c = KeysIf(ClassesThere, {"cmdClasses"}) /\ DOMAIN d = {"rfConfig"}
        /\ DOMAIN e = KeysIf(DataThere, {"applicationData"})
    BY <1>2, <1>5, NoKeys DEF KeysIf, d
  <2>3. /\ DOMAIN f = KeysIf(NameThere, {"applicationName"})
        /\ DOMAIN g = KeysIf(DcdcThere, {"dcdcConfig"})
        /\ DOMAIN h = KeysIf(generation # 711, {"sucUpdateEntries"})
    BY <1>2, <1>3, <1>5, NoKeys DEF KeysIf
  <2> QED
    BY <2>1, <2>2, <2>3
<1>7. DOMAIN x = ExportedKeys
  BY <1>4, <1>6 DEF ExportedKeys
<1>8. ASSUME InfoThere, NEW key \in InfoKeys
      PROVE  x[key] = Narrow(key, Get(doc, key, KeyDefault(key)))
  <2>1. key \in DOMAIN a
    BY <1>6, <1>8 DEF KeysIf
  <2>2. x[key] = a[key]
    BY <1>4, <2>1
  <2> QED
    BY <1>2, <1>8, <2>2, InfoStored
<1>9. ASSUME SettingsThere, NEW key \in SettingKeys
      PROVE  x[key] = Narrow(key, Get(doc, key, KeyDefault(key)))
  <2>1. key \in DOMAIN b /\ key \notin DOMAIN a
    BY <1>6, <1>9, OtherKeys DEF KeysIf
  <2>2. x[key] = b[key]
    BY <1>4, <2>1
  <2> QED
    BY <1>2, <1>9, <2>2, SettingsStored
<1>10. \A key \in {"cmdClasses", "rfConfig", "applicationData", "applicationName",
                   "sucUpdateEntries"} : key \notin DOMAIN a /\ key \notin DOMAIN b
  BY <1>6, OtherKeys DEF KeysIf
<1>11. ClassesThere => x["cmdClasses"] = StoredClasses(doc)
  <2> SUFFICES ASSUME ClassesThere PROVE x["cmdClasses"] = StoredClasses(doc)
    OBVIOUS
  <2>1. "cmdClasses" \in DOMAIN c
    BY <1>6 DEF KeysIf
  <2>2. x["cmdClasses"] = c["cmdClasses"]
    BY <1>4, <1>10, <2>1
  <2> QED
    BY <1>2, <1>5, <2>2
<1>12. x["rfConfig"] = ExportedConfig
  <2>1. "rfConfig" \in DOMAIN d /\ "rfConfig" \notin DOMAIN c
    BY <1>6 DEF KeysIf
  <2>2. x["rfConfig"] = d["rfConfig"]
    BY <1>4, <1>10, <2>1
  <2> QED
    BY <1>5, <2>2 DEF d
<1>13. DataThere => x["applicationData"] = text
  <2> SUFFICES ASSUME DataThere PROVE x["applicationData"] = text
    OBVIOUS
  <2> DEFINE key == "applicationData"
  <2>1. key \in DOMAIN e /\ key \notin DOMAIN c /\ key \notin DOMAIN d
    BY <1>6 DEF KeysIf
  <2>2. x[key] = e[key]
    BY <1>4, <1>10, <2>1
  <2> QED
    BY <1>2, <1>5, <2>2
<1>14. NameThere => x["applicationName"] = StoredName(doc)
  <2> SUFFICES ASSUME NameThere PROVE x["applicationName"] = StoredName(doc)
    OBVIOUS
  <2> DEFINE key == "applicationName"
  <2>1. key \in DOMAIN f /\ key \notin DOMAIN c /\ key \notin DOMAIN d /\ key \notin DOMAIN e
    BY <1>6 DEF KeysIf
  <2>2. x[key] = f[key]
    BY <1>4, <1>10, <2>1
  <2> QED
    BY <1>2, <1>5, <2>2
<1>15. DcdcThere => x["dcdcConfig"] = number
  <2> SUFFICES ASSUME DcdcThere PROVE x["dcdcConfig"] = number
    OBVIOUS
  <2> DEFINE key == "dcdcConfig"
  <2>1. key \in DOMAIN g /\ key \notin DOMAIN c /\ key \notin DOMAIN d /\ key \notin DOMAIN e
        /\ key \notin DOMAIN f
    BY <1>6 DEF KeysIf
  <2>2. key \notin DOMAIN a /\ key \notin DOMAIN b
    BY <1>6, OtherKeys DEF KeysIf, DcdcThere
  <2>3. x[key] = g[key]
    BY <1>4, <2>1, <2>2
  <2> QED
    BY <1>2, <1>5, <2>3
<1>16. generation # 711 => x["sucUpdateEntries"] = list
  <2> SUFFICES ASSUME generation # 711 PROVE x["sucUpdateEntries"] = list
    OBVIOUS
  <2> DEFINE key == "sucUpdateEntries"
  <2>1. key \in DOMAIN h /\ key \notin DOMAIN c /\ key \notin DOMAIN d /\ key \notin DOMAIN e
        /\ key \notin DOMAIN f /\ key \notin DOMAIN g
    BY <1>6 DEF KeysIf
  <2>2. x[key] = h[key]
    BY <1>4, <1>10, <2>1
  <2> QED
    BY <1>3, <1>5, <2>2
<1>17. x = [k \in DOMAIN x |-> x[k]]
  BY <1>4, Zenon
<1> QED
  BY <1>7, <1>8, <1>9, <1>11, <1>12, <1>13, <1>14, <1>15, <1>16, <1>17, Zenon
     DEF x, text, number, list

LEMMA ConfigExported ==
  ASSUME InfoInv, pc = "imported"
  PROVE  LET readable == /\ broken # "APPLICATIONCONFIGURATION"
                         /\ StructOf(doc.rfConfig) = ReadStruct(prot)
         IN  ExportedConfig = IF readable THEN StoredConfig(doc).values ELSE <<>>
<1>1. /\ IsThere("APPLICATIONCONFIGURATION") <=> broken # "APPLICATIONCONFIGURATION"
      /\ broken # "APPLICATIONCONFIGURATION" =>
           Object("APPLICATIONCONFIGURATION") = StoredConfig(doc)
  BY ImageRead, Zenon
<1>2. StoredConfig(doc).struct = StructOf(doc.rfConfig)
  BY ConfigStored
<1>3. ConfigIsRead <=> /\ broken # "APPLICATIONCONFIGURATION"
                       /\ StructOf(doc.rfConfig) = ReadStruct(prot)
  BY <1>1, <1>2 DEF ConfigIsRead
<1> QED
  BY <1>1, <1>3 DEF ExportedConfig

LEMMA ExportHas == Export => pc = "imported" /\ doc' = Exported
BY DEF Export

(* KeysComeBack, of one export.                                            *)
LEMMA KeysOfExport ==
  ASSUME InfoInv, pc = "imported"
  PROVE  KeysOf(Exported)
<1> DEFINE old == /\ Major(prot) = 7 /\ Minor(prot) >= 21
                  /\ Get(doc.rfConfig, "nodeIdType", 0) < 0
           l1 == IF Lost("CONTROLLERINFO") THEN {} ELSE InfoKeys
           l2 == IF Lost("APPLICATIONSETTINGS") THEN {} ELSE SettingKeys
           l3 == IF Lost("APPLICATIONCMDINFO") THEN {} ELSE {"cmdClasses"}
           l4 == IF \/ Lost("APPLICATIONDATA")
                    \/ generation = 711 /\ Significant(DataOf(DataText(doc))) = <<>>
                   THEN {} ELSE {"applicationData"}
           l5 == IF Is720OrNewer(prot) /\ ~Lost("APP_NAME") THEN {"applicationName"} ELSE {}
           l6 == IF generation = 711 THEN {} ELSE {"sucUpdateEntries"}
           l7 == IF /\ generation = 719 /\ target.layout # "700s" /\ ~Lost("PROPRIETARY_1")
                    /\ AsSigned(DcdcConfig(doc), WordSize) >= 0
                   THEN {"dcdcConfig"} ELSE {}
<1>1. DOMAIN Exported = ExportedKeys /\ Exported.rfConfig = ExportedConfig
  BY ExportedIs, Zenon
<1>2. /\ l1 = KeysIf(InfoThere, InfoKeys)
      /\ l2 = KeysIf(SettingsThere, SettingKeys)
      /\ l3 = KeysIf(ClassesThere, {"cmdClasses"})
      /\ l4 = KeysIf(DataThere, {"applicationData"})
      /\ l5 = KeysIf(NameThere, {"applicationName"})
      /\ l6 = KeysIf(generation # 711, {"sucUpdateEntries"})
      /\ l7 = KeysIf(DcdcThere, {"dcdcConfig"})
  <2>1. l1 = KeysIf(InfoThere, InfoKeys) /\ l2 = KeysIf(SettingsThere, SettingKeys)
        /\ l3 = KeysIf(ClassesThere, {"cmdClasses"})
    BY DEF KeysIf, InfoThere, SettingsThere, ClassesThere, Lost
  <2>2. l4 = KeysIf(DataThere, {"applicationData"})
    <3> DEFINE nothing == generation = 711 /\ Significant(DataOf(DataText(doc))) = <<>>
    <3>1. DataThere <=> ~(Lost("APPLICATIONDATA") \/ nothing)
      BY Zenon DEF DataThere, Lost
    <3>2. l4 = IF Lost("APPLICATIONDATA") \/ nothing THEN {} ELSE {"applicationData"}
      BY Zenon
    <3> HIDE DEF nothing, l4
    <3> QED
      BY <3>1, <3>2 DEF KeysIf
  <2>3. l5 = KeysIf(NameThere, {"applicationName"})
        /\ l6 = KeysIf(generation # 711, {"sucUpdateEntries"})
    BY DEF KeysIf, NameThere, Lost
  <2>4. l7 = KeysIf(DcdcThere, {"dcdcConfig"})
    <3> DEFINE stores == AsSigned(DcdcConfig(doc), WordSize) >= 0
    <3> HIDE DEF stores
    <3>1. l7 = IF /\ generation = 719 /\ target.layout # "700s" /\ ~Lost("PROPRIETARY_1")
                  /\ stores
                 THEN {"dcdcConfig"} ELSE {}
      BY Zenon DEF stores
    <3>2. DcdcThere <=> /\ generation = 719 /\ target.layout # "700s"
                        /\ ~Lost("PROPRIETARY_1") /\ stores
      BY Zenon DEF DcdcThere, Lost, stores
    <3> HIDE DEF l7
    <3> QED
      BY <3>1, <3>2 DEF KeysIf
  <2> QED
    BY <2>1, <2>2, <2>3, <2>4, Zenon
<1> HIDE DEF l1, l2, l3, l4, l5, l6, l7, old
<1>3. DOMAIN Exported = {"rfConfig"} \cup l1 \cup l2 \cup l3 \cup l4 \cup l5 \cup l6 \cup l7
  BY <1>1, <1>2 DEF ExportedKeys
<1>4. DOMAIN ExportedConfig = {} <=> Lost("APPLICATIONCONFIGURATION") \/ old
  <2>1. target \in Target /\ ControllerObject(doc) /\ "rfConfig" \in DOMAIN doc
    BY DEF InfoInv
  <2>2. StructOf(doc.rfConfig) = ReadStruct(prot) <=> ~old
    BY <2>1, ConfigReadable, Zenon DEF old
  <2>3. CASE broken # "APPLICATIONCONFIGURATION" /\ StructOf(doc.rfConfig) = ReadStruct(prot)
    <3>1. ExportedConfig = StoredConfig(doc).values
      BY <2>3, ConfigExported
    <3>2. DOMAIN StoredConfig(doc).values = ConfigKeys(ReadStruct(prot))
      BY <2>1, <2>3, ConfigStays, Zenon
    <3>3. "rfRegion" \in ConfigKeys(ReadStruct(prot))
      BY DEF ConfigKeys
    <3> QED
      BY <2>2, <2>3, <3>1, <3>2, <3>3 DEF Lost
  <2>4. CASE ~(broken # "APPLICATIONCONFIGURATION" /\ StructOf(doc.rfConfig) = ReadStruct(prot))
    <3>1. ExportedConfig = <<>>
      BY <2>4, ConfigExported
    <3> QED
      BY <2>2, <2>4, <3>1, NoKeys DEF Lost
  <2> QED
    BY <2>3, <2>4
<1> QED
  <2>1. DOMAIN Exported.rfConfig = {} <=> Lost("APPLICATIONCONFIGURATION") \/ old
    BY <1>1, <1>4, Zenon
  <2> QED
    BY <1>3, <2>1, Zenon DEF KeysOf, l1, l2, l3, l4, l5, l6, l7, old

(* A key that is exported, and the file it comes from.                     *)
LEMMA ExportedFrom ==
  ASSUME InfoInv, pc = "imported"
  PROVE  /\ \A key \in InfoKeys : key \in DOMAIN Exported => InfoThere
         /\ \A key \in SettingKeys : key \in DOMAIN Exported => SettingsThere
         /\ "cmdClasses" \in DOMAIN Exported <=> ClassesThere
         /\ "applicationData" \in DOMAIN Exported <=> DataThere
         /\ "applicationName" \in DOMAIN Exported <=> NameThere
         /\ generation # 715 => ("dcdcConfig" \in DOMAIN Exported <=> DcdcThere)
         /\ "sucUpdateEntries" \in DOMAIN Exported <=> generation # 711
<1> DEFINE k1 == KeysIf(InfoThere, InfoKeys)
           k2 == KeysIf(SettingsThere, SettingKeys)
           k3 == KeysIf(ClassesThere, {"cmdClasses"})
           k4 == KeysIf(DataThere, {"applicationData"})
           k5 == KeysIf(NameThere, {"applicationName"})
           k6 == KeysIf(DcdcThere, {"dcdcConfig"})
           k7 == KeysIf(generation # 711, {"sucUpdateEntries"})
<1>1. DOMAIN Exported = {"rfConfig"} \cup k1 \cup k2 \cup k3 \cup k4 \cup k5 \cup k6 \cup k7
  BY ExportedIs, Zenon DEF ExportedKeys
<1>2. /\ \A key : key \in k1 <=> InfoThere /\ key \in InfoKeys
      /\ \A key : key \in k2 <=> SettingsThere /\ key \in SettingKeys
      /\ \A key : key \in k3 <=> ClassesThere /\ key = "cmdClasses"
      /\ \A key : key \in k4 <=> DataThere /\ key = "applicationData"
      /\ \A key : key \in k5 <=> NameThere /\ key = "applicationName"
      /\ \A key : key \in k6 <=> DcdcThere /\ key = "dcdcConfig"
      /\ \A key : key \in k7 <=> generation # 711 /\ key = "sucUpdateEntries"
  BY DEF KeysIf
<1>3. DcdcThere => generation = 719
  BY DEF DcdcThere
<1> HIDE DEF k1, k2, k3, k4, k5, k6, k7
<1> USE OtherKeys
<1>4. \A key \in InfoKeys : key \in DOMAIN Exported => InfoThere
  BY <1>1, <1>2, <1>3
<1>5. \A key \in SettingKeys : key \in DOMAIN Exported => SettingsThere
  BY <1>1, <1>2, <1>3
<1>6. /\ "cmdClasses" \in DOMAIN Exported <=> ClassesThere
      /\ "applicationData" \in DOMAIN Exported <=> DataThere
      /\ "applicationName" \in DOMAIN Exported <=> NameThere
  BY <1>1, <1>2
<1>7. /\ generation # 715 => ("dcdcConfig" \in DOMAIN Exported <=> DcdcThere)
      /\ "sucUpdateEntries" \in DOMAIN Exported <=> generation # 711
  BY <1>1, <1>2
<1> QED
  BY <1>4, <1>5, <1>6, <1>7

LEMMA SaidTyped ==
  ASSUME InfoInv, NEW key \in InfoKeys \cup SettingKeys
  PROVE  /\ key \in Numbers => Get(doc, key, KeyDefault(key)) \in Int
         /\ key \in DOMAIN doc => Get(doc, key, KeyDefault(key)) = doc[key]
<1>1. ControllerObject(doc)
  BY DEF InfoInv
<1>2. key \in Numbers => KeyDefault(key) = 0
  <2>1. key \in Numbers => key \notin FlagKeys /\ key # "isListening"
    BY KeyKinds DEF Numbers
  <2> QED
    BY <2>1 DEF KeyDefault
<1>3. key \in DOMAIN doc => Get(doc, key, KeyDefault(key)) = doc[key]
  BY DEF Get
<1>4. key \notin DOMAIN doc => Get(doc, key, KeyDefault(key)) = KeyDefault(key)
  BY DEF Get
<1>5. key \in Numbers /\ key \in DOMAIN doc => doc[key] \in Int
  BY <1>1 DEF ControllerObject
<1> QED
  BY <1>2, <1>3, <1>4, <1>5

LEMMA DcdcTyped ==
  ASSUME InfoInv
  PROVE  /\ DcdcConfig(doc) \in Int
         /\ "dcdcConfig" \in DOMAIN doc => DcdcConfig(doc) = doc["dcdcConfig"]
         /\ AsUnsigned(AsSigned(DcdcConfig(doc), WordSize), ByteSize) \in 0 .. ByteSize - 1
         /\ DcdcConfig(doc) \in 0 .. ByteSize - 1 =>
              /\ AsSigned(DcdcConfig(doc), WordSize) = DcdcConfig(doc)
              /\ AsUnsigned(AsSigned(DcdcConfig(doc), WordSize), ByteSize) = DcdcConfig(doc)
<1> DEFINE v == DcdcConfig(doc)
<1>1. ByteSize \in Nat \ {0} /\ WordSize \in Nat \ {0} /\ 2 * ByteSize <= WordSize
  BY InfoAssumption
<1>2. v \in Int /\ ("dcdcConfig" \in DOMAIN doc => v = doc["dcdcConfig"])
  <2>1. ControllerObject(doc) /\ "dcdcConfig" \in Numbers
    BY DEF InfoInv, Numbers
  <2>2. CASE "dcdcConfig" \in DOMAIN doc
    BY <2>1, <2>2 DEF DcdcConfig, Get, ControllerObject
  <2>3. CASE "dcdcConfig" \notin DOMAIN doc
    BY <2>3 DEF DcdcConfig, Get
  <2> QED
    BY <2>2, <2>3
<1> HIDE DEF v
<1>3. /\ AsSigned(v, WordSize) \in -(WordSize \div 2) .. WordSize - 1 - (WordSize \div 2)
      /\ v \in -(WordSize \div 2) .. WordSize - 1 - (WordSize \div 2) => AsSigned(v, WordSize) = v
  BY <1>1, <1>2, Signed
<1>4. AsSigned(v, WordSize) \in Int
  BY <1>1, <1>3
<1>5. AsUnsigned(AsSigned(v, WordSize), ByteSize) \in 0 .. ByteSize - 1
  BY <1>1, <1>4, Unsigned
<1>6. v \in 0 .. ByteSize - 1 => v \in -(WordSize \div 2) .. WordSize - 1 - (WordSize \div 2)
  BY <1>1
<1>7. v \in 0 .. ByteSize - 1 => AsUnsigned(v, ByteSize) = v
  BY <1>1, <1>2, Unsigned
<1>8. v \in 0 .. ByteSize - 1 =>
        /\ AsSigned(v, WordSize) = v
        /\ AsUnsigned(AsSigned(v, WordSize), ByteSize) = v
  BY <1>3, <1>6, <1>7
<1> QED
  BY <1>2, <1>5, <1>8 DEF v

(* ValuesComeBack, of one export.                                          *)
LEMMA ValueOfExport ==
  ASSUME InfoInv, pc = "imported",
         NEW key \in InfoKeys \cup SettingKeys \cup {"applicationName", "dcdcConfig"},
         key \in DOMAIN doc, key \in DOMAIN Exported, Fits(key, doc[key])
  PROVE  Exported[key] = doc[key]
<1>1. CASE key \in InfoKeys \cup SettingKeys
  <2> DEFINE said == Get(doc, key, KeyDefault(key))
  <2>1. /\ key \in Numbers => said \in Int
        /\ said = doc[key]
    BY <1>1, SaidTyped
  <2>2. Exported[key] = Narrow(key, said)
    <3>1. CASE key \in InfoKeys
      <4>1. InfoThere
        BY <3>1, ExportedFrom
      <4> QED
        BY <3>1, <4>1, ExportedIs, Zenon
    <3>2. CASE key \in SettingKeys
      <4>1. SettingsThere
        BY <3>2, ExportedFrom
      <4> QED
        BY <3>2, <4>1, ExportedIs, Zenon
    <3> QED
      BY <1>1, <3>1, <3>2
  <2> HIDE DEF said
  <2>3. Fits(key, said) => Narrow(key, said) = said
    BY <1>1, <2>1, Narrowed
  <2> QED
    BY <2>1, <2>2, <2>3
<1>2. CASE key = "applicationName"
  <2>1. NameThere
    BY <1>2, ExportedFrom
  <2>2. Exported["applicationName"] = StoredName(doc)
    BY <2>1, ExportedIs, Zenon
  <2>3. key \notin WordKeys /\ key \notin FlagKeys \cup {"isListening"} /\ key # "homeId"
    BY <1>2 DEF WordKeys, FlagKeys, NodeKeys
  <2>4. doc[key] # LongName
    BY <1>2, <2>3 DEF Fits
  <2> QED
    BY <1>2, <2>2, <2>4 DEF StoredName, Get
<1>3. CASE key = "dcdcConfig" /\ key \notin InfoKeys
  <2>1. generation # 715 /\ DcdcThere
    BY <1>3, OtherKeys, ExportedFrom
  <2>2. Exported["dcdcConfig"] = AsUnsigned(AsSigned(DcdcConfig(doc), WordSize), ByteSize)
    BY <2>1, ExportedIs, Zenon
  <2>3. key \notin WordKeys /\ key \notin FlagKeys \cup {"isListening"} /\ key # "homeId"
        /\ key # "applicationName"
    BY <1>3 DEF WordKeys, FlagKeys, NodeKeys
  <2>4. doc[key] \in 0 .. ByteSize - 1
    BY <2>3 DEF Fits, Bytes
  <2> QED
    BY <1>3, <2>2, <2>4, DcdcTyped
<1> QED
  BY <1>1, <1>2, <1>3

LEMMA RestOfExport ==
  ASSUME InfoInv, pc = "imported"
  PROVE  /\ "cmdClasses" \in DOMAIN doc /\ "cmdClasses" \in DOMAIN Exported =>
              \A key \in ClassKeys \cap DOMAIN doc.cmdClasses :
                ListFits(doc.cmdClasses[key]) =>
                  Exported.cmdClasses[key] = doc.cmdClasses[key]
         /\ \A key \in DOMAIN doc.rfConfig \cap DOMAIN Exported.rfConfig :
              ConfigFits(key, doc.rfConfig[key]) => Exported.rfConfig[key] = doc.rfConfig[key]
         /\ "applicationData" \in DOMAIN doc /\ "applicationData" \in DOMAIN Exported =>
              DataOf(Exported.applicationData) = Significant(DataOf(doc.applicationData))
         /\ "sucUpdateEntries" \in DOMAIN doc /\ "sucUpdateEntries" \in DOMAIN Exported
              /\ broken # "tables"
              => Exported.sucUpdateEntries = doc.sucUpdateEntries
<1>0. ControllerObject(doc) /\ "rfConfig" \in DOMAIN doc /\ target \in Target
  BY DEF InfoInv
<1>1. ASSUME "cmdClasses" \in DOMAIN doc, "cmdClasses" \in DOMAIN Exported,
             NEW key \in ClassKeys \cap DOMAIN doc.cmdClasses, ListFits(doc.cmdClasses[key])
      PROVE  Exported.cmdClasses[key] = doc.cmdClasses[key]
  <2>1. ClassesThere
    BY <1>1, ExportedFrom
  <2>2. Exported.cmdClasses = StoredClasses(doc)
    BY <2>1, ExportedIs, Zenon
  <2>3. StoredClasses(doc)[key] = doc.cmdClasses[key]
    BY <1>0, <1>1, ClassesStay
  <2> QED
    BY <2>2, <2>3
<1>2. ASSUME NEW key \in DOMAIN doc.rfConfig \cap DOMAIN Exported.rfConfig,
             ConfigFits(key, doc.rfConfig[key])
      PROVE  Exported.rfConfig[key] = doc.rfConfig[key]
  <2>1. Exported.rfConfig = ExportedConfig
    BY ExportedIs, Zenon
  <2>2. CASE broken # "APPLICATIONCONFIGURATION" /\ StructOf(doc.rfConfig) = ReadStruct(prot)
    <3> DEFINE values == StoredConfig(doc).values
    <3>1. ExportedConfig = values
      BY <2>2, ConfigExported
    <3>2. \A k \in DOMAIN doc.rfConfig \cap DOMAIN values :
            ConfigFits(k, doc.rfConfig[k]) => values[k] = doc.rfConfig[k]
      BY <1>0, <2>2, ConfigStays, Zenon
    <3> HIDE DEF values
    <3> QED
      BY <1>2, <2>1, <3>1, <3>2
  <2>3. CASE ~(broken # "APPLICATIONCONFIGURATION" /\ StructOf(doc.rfConfig) = ReadStruct(prot))
    <3>1. ExportedConfig = <<>>
      BY <2>3, ConfigExported
    <3> QED
      BY <1>2, <2>1, <3>1, NoKeys
  <2> QED
    BY <2>2, <2>3
<1>3. ASSUME "applicationData" \in DOMAIN doc, "applicationData" \in DOMAIN Exported
      PROVE  DataOf(Exported.applicationData) = Significant(DataOf(doc.applicationData))
  <2> DEFINE x == DataOf(DataText(doc))
  <2>1. DataThere
    BY <1>3, ExportedFrom
  <2>2. Exported.applicationData = base64_encode(Significant(x), 0)
    BY <2>1, ExportedIs, Zenon
  <2>3. x \in Seq(Octet)
    BY DataTyped
  <2>4. DataText(doc) = doc.applicationData
    BY <1>3 DEF DataText, Get
  <2> HIDE DEF x
  <2>5. Significant(x) \in Seq(Octet)
    BY <2>3, Trimmed
  <2>6. DataOf(base64_encode(Significant(x), 0)) = Significant(x)
    BY <2>5, TextOfData
  <2> QED
    BY <2>2, <2>4, <2>6 DEF x
<1>4. ASSUME "sucUpdateEntries" \in DOMAIN doc, "sucUpdateEntries" \in DOMAIN Exported,
             broken # "tables"
      PROVE  Exported.sucUpdateEntries = doc.sucUpdateEntries
  <2>1. generation # 711
    BY <1>4, ExportedFrom
  <2>2. Exported.sucUpdateEntries = IF IsThere("tables") THEN Object("tables") ELSE <<>>
    BY <2>1, ExportedIs, Zenon
  <2>3. IsThere("tables") /\ Object("tables") = doc.sucUpdateEntries
    BY <1>4, ImageRead
  <2> QED
    BY <2>2, <2>3
<1> QED
  BY <1>1, <1>2, <1>3, <1>4

LEMMA NarrowOfExport ==
  ASSUME InfoInv, pc = "imported", NEW key \in (InfoKeys \cup SettingKeys) \cap DOMAIN Exported
  PROVE  /\ Narrow(key, Exported[key]) = Exported[key]
         /\ key \in Numbers => Exported[key] \in Int
<1> DEFINE said == Get(doc, key, KeyDefault(key))
<1>1. key \in Numbers => said \in Int
  BY SaidTyped
<1>2. Exported[key] = Narrow(key, said)
  <2>1. CASE key \in InfoKeys
    <3>1. InfoThere
      BY <2>1, ExportedFrom
    <3> QED
      BY <2>1, <3>1, ExportedIs, Zenon
  <2>2. CASE key \in SettingKeys
    <3>1. SettingsThere
      BY <2>2, ExportedFrom
    <3> QED
      BY <2>2, <3>1, ExportedIs, Zenon
  <2> QED
    BY <2>1, <2>2
<1> HIDE DEF said
<1>3. /\ Narrow(key, Narrow(key, said)) = Narrow(key, said)
      /\ key \in Numbers => Narrow(key, said) \in Int
  BY <1>1, Narrowed
<1> QED
  BY <1>2, <1>3

LEMMA DcdcOfExport ==
  ASSUME InfoInv, pc = "imported", generation # 715, "dcdcConfig" \in DOMAIN Exported
  PROVE  Exported["dcdcConfig"] \in 0 .. ByteSize - 1
<1>1. DcdcThere
  BY ExportedFrom
<1>2. Exported["dcdcConfig"] = AsUnsigned(AsSigned(DcdcConfig(doc), WordSize), ByteSize)
  BY <1>1, ExportedIs, Zenon
<1> QED
  BY <1>2, DcdcTyped

LEMMA DataOfExport ==
  ASSUME InfoInv, pc = "imported", "applicationData" \in DOMAIN Exported
  PROVE  /\ Exported.applicationData \in Seq(Character)
         /\ NormalData(Exported.applicationData)
<1> DEFINE x == DataOf(DataText(doc))
           y == Significant(x)
           text == base64_encode(y, 0)
<1>1. DataThere
  BY ExportedFrom
<1>2. Exported.applicationData = text
  BY <1>1, ExportedIs, Zenon
<1>3. x \in Seq(Octet)
  BY DataTyped
<1>4. ~(generation = 711 /\ y = <<>>)
  BY <1>1, Zenon DEF DataThere
<1> HIDE DEF x
<1>5. y \in Seq(Octet) /\ Len(y) <= DataSize /\ LastByte(y) = Len(y)
  BY <1>3, Trimmed
<1> HIDE DEF y
<1>6. text \in Seq(Character) /\ DataOf(text) = y
  BY <1>5, TextOfData
<1>7. Significant(y) = y
  BY <1>5, SignificantAgain
<1>8. text = base64_encode(DataOf(text), 0)
  BY <1>6
<1> HIDE DEF text
<1>9. NormalData(text)
  BY <1>4, <1>5, <1>6, <1>7, <1>8 DEF NormalData
<1> QED
  BY <1>2, <1>6, <1>9

LEMMA ConfigOfExport ==
  ASSUME InfoInv, pc = "imported"
  PROVE  /\ \A key \in ConfigNumbers \cap DOMAIN Exported.rfConfig : Exported.rfConfig[key] \in Int
         /\ Exported.rfConfig # <<>> =>
              StoredConfig(Exported) = [struct |-> ReadStruct(prot), values |-> Exported.rfConfig]
<1>1. ControllerObject(doc) /\ "rfConfig" \in DOMAIN doc /\ target \in Target
  BY DEF InfoInv
<1>2. Exported.rfConfig = ExportedConfig
  BY ExportedIs, Zenon
<1>3. CASE broken # "APPLICATIONCONFIGURATION" /\ StructOf(doc.rfConfig) = ReadStruct(prot)
  <2> DEFINE values == StoredConfig(doc).values
  <2>1. ExportedConfig = values
    BY <1>3, ConfigExported
  <2>2. /\ \A key \in ConfigNumbers \cap DOMAIN values : values[key] \in Int
        /\ \A next : next.rfConfig = values =>
             StoredConfig(next) = [struct |-> ReadStruct(prot), values |-> values]
    BY <1>1, <1>3, ConfigStays, Zenon
  <2> HIDE DEF values
  <2>3. Exported.rfConfig = values
    BY <1>2, <2>1
  <2> QED
    BY <2>2, <2>3, Zenon
<1>4. CASE ~(broken # "APPLICATIONCONFIGURATION" /\ StructOf(doc.rfConfig) = ReadStruct(prot))
  <2>1. Exported.rfConfig = <<>>
    BY <1>2, <1>4, ConfigExported
  <2> QED
    BY <2>1, NoKeys
<1> QED
  BY <1>3, <1>4

LEMMA ClassesOfExport ==
  ASSUME InfoInv, pc = "imported", "cmdClasses" \in DOMAIN Exported
  PROVE  /\ \A key \in DOMAIN Exported.cmdClasses : Exported.cmdClasses[key] \in Seq(Int)
         /\ StoredClasses(Exported) = Exported.cmdClasses
<1>1. ControllerObject(doc) /\ "cmdClasses" \in DOMAIN doc
  BY DEF InfoInv
<1>2. ClassesThere
  BY ExportedFrom
<1>3. Exported.cmdClasses = StoredClasses(doc)
  BY <1>2, ExportedIs, Zenon
<1>4. /\ \A key \in ClassKeys : StoredClasses(doc)[key] \in Seq(Int)
      /\ \A next : next.cmdClasses = StoredClasses(doc) => StoredClasses(next) = next.cmdClasses
  BY <1>1, ClassesStay, Zenon
<1>5. DOMAIN StoredClasses(doc) = ClassKeys
  BY ClassesStored
<1> QED
  BY <1>3, <1>4, <1>5, Zenon

LEMMA ExportTyped ==
  ASSUME InfoInv, pc = "imported"
  PROVE  ControllerObject(Exported)
<1>1. ASSUME NEW key \in Numbers \cap DOMAIN Exported
      PROVE  Exported[key] \in Int
  <2>1. CASE key \in InfoKeys \cup SettingKeys
    BY <2>1, <1>1, NarrowOfExport
  <2>2. CASE key \notin InfoKeys \cup SettingKeys
    <3>1. DOMAIN Exported \subseteq InfoKeys \cup SettingKeys
            \cup {"rfConfig", "cmdClasses", "applicationData", "applicationName",
                  "dcdcConfig", "sucUpdateEntries"}
      <4>1. DOMAIN Exported = ExportedKeys
        BY ExportedIs, Zenon
      <4>2. \A there, keys : KeysIf(there, keys) \subseteq keys
        BY DEF KeysIf
      <4> QED
        BY <4>1, <4>2 DEF ExportedKeys
    <3>2. key = "dcdcConfig"
      BY <1>1, <2>2, <3>1 DEF Numbers
    <3>3. generation # 715
      BY <2>2, <3>2, OtherKeys
    <3> QED
      BY <1>1, <3>2, <3>3, DcdcOfExport, InfoAssumption
  <2> QED
    BY <2>1, <2>2
<1>2. "cmdClasses" \in DOMAIN Exported =>
        \A key \in DOMAIN Exported.cmdClasses : Exported.cmdClasses[key] \in Seq(Int)
  BY ClassesOfExport
<1>3. \A key \in ConfigNumbers \cap DOMAIN Exported.rfConfig : Exported.rfConfig[key] \in Int
  BY ConfigOfExport
<1>4. "applicationData" \in DOMAIN Exported => Exported.applicationData \in Seq(Character)
  BY DataOfExport
<1> QED
  BY <1>1, <1>2, <1>3, <1>4, Zenon DEF ControllerObject

LEMMA ExportNormal ==
  ASSUME InfoInv, pc = "imported"
  PROVE  NormalObject(Exported)
<1>1. Exported = [key \in DOMAIN Exported |-> Exported[key]]
  BY ExportedIs, Zenon
<1>2. /\ DOMAIN Exported \subseteq ExportKeys /\ "rfConfig" \in DOMAIN Exported
      /\ generation # 711 => "sucUpdateEntries" \in DOMAIN Exported
  <2>1. DOMAIN Exported = ExportedKeys
    BY ExportedIs, Zenon
  <2>2. /\ \A there, keys : KeysIf(there, keys) \subseteq keys
        /\ KeysIf(NameThere, {"applicationName"})
             \subseteq (IF Is720OrNewer(prot) THEN {"applicationName"} ELSE {})
        /\ KeysIf(DcdcThere, {"dcdcConfig"})
             \subseteq (IF generation = 719 /\ target.layout # "700s"
                          THEN {"dcdcConfig"} ELSE {})
        /\ KeysIf(generation # 711, {"sucUpdateEntries"})
             = (IF generation = 711 THEN {} ELSE {"sucUpdateEntries"})
    BY DEF KeysIf, NameThere, DcdcThere
  <2>3. ExportedKeys \subseteq ExportKeys
    BY <2>2 DEF ExportedKeys, ExportKeys
  <2>4. "rfConfig" \in ExportedKeys
    BY DEF ExportedKeys
  <2>5. generation # 711 => "sucUpdateEntries" \in DOMAIN Exported
    BY ExportedFrom
  <2> QED
    BY <2>1, <2>3, <2>4, <2>5
<1>3. \A key \in (InfoKeys \cup SettingKeys) \cap DOMAIN Exported :
        Narrow(key, Exported[key]) = Exported[key]
  BY NarrowOfExport
<1>4. "cmdClasses" \in DOMAIN Exported => StoredClasses(Exported) = Exported.cmdClasses
  BY ClassesOfExport
<1>5. Exported.rfConfig # <<>> =>
        StoredConfig(Exported) = [struct |-> ReadStruct(prot), values |-> Exported.rfConfig]
  BY ConfigOfExport
<1>6. "applicationData" \in DOMAIN Exported => NormalData(Exported.applicationData)
  BY DataOfExport
<1>7. "applicationName" \in DOMAIN Exported => Exported.applicationName # LongName
  <2> SUFFICES ASSUME "applicationName" \in DOMAIN Exported
               PROVE  Exported.applicationName # LongName
    OBVIOUS
  <2>1. NameThere
    BY ExportedFrom
  <2>2. Exported.applicationName = StoredName(doc)
    BY <2>1, ExportedIs, Zenon
  <2>3. StoredName(doc) # LongName
    BY InfoAssumption DEF StoredName
  <2> QED
    BY <2>2, <2>3
<1>8. generation = 719 /\ "dcdcConfig" \in DOMAIN Exported =>
        Exported.dcdcConfig \in 0 .. ByteSize - 1
  BY DcdcOfExport
<1> QED
  BY <1>1, <1>2, <1>3, <1>4, <1>5, <1>6, <1>7, <1>8, Zenon DEF NormalObject

LEMMA ExportStep == InfoInv /\ Export => InfoInv'
<1> SUFFICES ASSUME InfoInv, Export PROVE InfoInv'
  OBVIOUS
<1>1. /\ target' = target /\ doc' = Exported /\ pc = "imported" /\ pc' = "begin"
      /\ trips' = IF trips = 2 THEN 2 ELSE trips + 1
  BY DEF Export
<1>2. ControllerObject(Exported) /\ NormalObject(Exported)
  BY <1>1, ExportTyped, ExportNormal
<1>3. NormalObject(doc')
  BY <1>1, <1>2
<1>4. Normal'
  <2>1. \A object : NormalObject(object) => NormalObject(object)'
    BY <1>1, NormalUnmoved
  <2> QED
    BY <1>3, <2>1, Zenon DEF Normal
<1>5. target \in Target /\ trips \in 0 .. 2
  BY DEF InfoInv
<1> QED
  BY <1>1, <1>2, <1>4, <1>5 DEF InfoInv

(* TripsSettle, of one export.                                             *)
LEMMA SettledKeys ==
  ASSUME InfoInv, pc = "imported", trips > 0, broken = "none", Complete(doc)
  PROVE  DOMAIN Exported = DOMAIN doc
<1>1. NormalObject(doc)
  BY DEF InfoInv, Normal
<1>2. /\ DOMAIN doc \subseteq ExportKeys /\ "rfConfig" \in DOMAIN doc
      /\ generation # 711 => "sucUpdateEntries" \in DOMAIN doc
      /\ "applicationData" \in DOMAIN doc => NormalData(doc.applicationData)
      /\ generation = 719 /\ "dcdcConfig" \in DOMAIN doc => doc.dcdcConfig \in 0 .. ByteSize - 1
  BY <1>1, Zenon DEF NormalObject
<1>3. /\ InfoKeys \cup SettingKeys \cup {"cmdClasses"} \subseteq DOMAIN doc
      /\ generation # 711 => "applicationData" \in DOMAIN doc
      /\ Is720OrNewer(prot) => "applicationName" \in DOMAIN doc
      /\ generation = 719 /\ target.layout # "700s" => "dcdcConfig" \in DOMAIN doc
  BY Zenon DEF Complete
<1>4. InfoThere /\ SettingsThere /\ ClassesThere /\ (NameThere <=> Is720OrNewer(prot))
  BY DEF InfoThere, SettingsThere, ClassesThere, NameThere
<1>5. DataThere <=> "applicationData" \in DOMAIN doc
  <2> DEFINE x == DataOf(DataText(doc))
             y == Significant(x)
  <2>1. DataThere <=> ~(generation = 711 /\ y = <<>>)
    BY Zenon DEF DataThere
  <2>2. CASE "applicationData" \in DOMAIN doc
    <3>1. DataText(doc) = doc.applicationData
      BY <2>2 DEF DataText, Get
    <3>2. generation = 711 => x # <<>> /\ y = x
      BY <1>2, <2>2, <3>1 DEF NormalData
    <3> QED
      BY <2>1, <2>2, <3>2
  <2>3. CASE "applicationData" \notin DOMAIN doc
    <3>1. x = <<>>
      BY <2>3 DEF DataText, Get, DataOf
    <3>2. y \in Seq(Octet) /\ Len(y) <= Len(x)
      <4>1. x \in Seq(Octet)
        BY <3>1
      <4> HIDE DEF x
      <4> QED
        BY <4>1, Trimmed
    <3>3. y = <<>>
      BY <3>1, <3>2
    <3> QED
      BY <1>3, <2>1, <2>3, <3>3
  <2> QED
    BY <2>2, <2>3
<1>6. DcdcThere <=> generation = 719 /\ target.layout # "700s"
  <2>1. ASSUME generation = 719, target.layout # "700s"
        PROVE  AsSigned(DcdcConfig(doc), WordSize) >= 0
    <3>1. "dcdcConfig" \in DOMAIN doc /\ doc.dcdcConfig \in 0 .. ByteSize - 1
      BY <1>2, <1>3, <2>1
    <3>2. /\ DcdcConfig(doc) = doc["dcdcConfig"]
          /\ DcdcConfig(doc) \in 0 .. ByteSize - 1 =>
               AsSigned(DcdcConfig(doc), WordSize) = DcdcConfig(doc)
      BY <3>1, DcdcTyped
    <3>3. ByteSize \in Nat
      BY InfoAssumption
    <3> QED
      BY <3>1, <3>2, <3>3
  <2> QED
    BY <2>1 DEF DcdcThere
<1>7. DOMAIN Exported = ExportedKeys
  BY ExportedIs, Zenon
<1>8. ExportedKeys =
        {"rfConfig"} \cup InfoKeys \cup SettingKeys \cup {"cmdClasses"}
          \cup (IF "applicationData" \in DOMAIN doc THEN {"applicationData"} ELSE {})
          \cup (IF Is720OrNewer(prot) THEN {"applicationName"} ELSE {})
          \cup (IF generation = 719 /\ target.layout # "700s" THEN {"dcdcConfig"} ELSE {})
          \cup (IF generation # 711 THEN {"sucUpdateEntries"} ELSE {})
  BY <1>4, <1>5, <1>6 DEF ExportedKeys, KeysIf
<1>9. ExportedKeys \subseteq DOMAIN doc
  BY <1>2, <1>3, <1>8
<1>10. DOMAIN doc \subseteq ExportedKeys
  BY <1>2, <1>8 DEF ExportKeys
<1> QED
  BY <1>7, <1>9, <1>10

LEMMA SettledValues ==
  ASSUME InfoInv, pc = "imported", trips > 0, broken = "none", Complete(doc),
         NEW key \in DOMAIN Exported
  PROVE  Exported[key] = doc[key]
<1>0. key \in DOMAIN doc
  BY SettledKeys
<1>1. /\ \A k \in (InfoKeys \cup SettingKeys) \cap DOMAIN doc : Narrow(k, doc[k]) = doc[k]
      /\ "cmdClasses" \in DOMAIN doc => StoredClasses(doc) = doc.cmdClasses
      /\ doc.rfConfig # <<>> =>
           StoredConfig(doc) = [struct |-> ReadStruct(prot), values |-> doc.rfConfig]
      /\ "applicationData" \in DOMAIN doc => NormalData(doc.applicationData)
      /\ "applicationName" \in DOMAIN doc => doc.applicationName # LongName
      /\ generation = 719 /\ "dcdcConfig" \in DOMAIN doc => doc.dcdcConfig \in 0 .. ByteSize - 1
      /\ DOMAIN doc \subseteq ExportKeys
  BY Zenon DEF InfoInv, Normal, NormalObject
<1>2. CASE key \in InfoKeys \cup SettingKeys
  <2>1. Get(doc, key, KeyDefault(key)) = doc[key]
    BY <1>0, <1>2, SaidTyped
  <2>2. Exported[key] = Narrow(key, Get(doc, key, KeyDefault(key)))
    <3>1. CASE key \in InfoKeys
      <4>1. InfoThere
        BY <3>1, ExportedFrom
      <4> QED
        BY <3>1, <4>1, ExportedIs, Zenon
    <3>2. CASE key \in SettingKeys
      <4>1. SettingsThere
        BY <3>2, ExportedFrom
      <4> QED
        BY <3>2, <4>1, ExportedIs, Zenon
    <3> QED
      BY <1>2, <3>1, <3>2
  <2> QED
    BY <1>0, <1>1, <1>2, <2>1, <2>2
<1>3. CASE key = "cmdClasses"
  <2>1. ClassesThere
    BY <1>3, ExportedFrom
  <2>2. Exported["cmdClasses"] = StoredClasses(doc)
    BY <2>1, ExportedIs, Zenon
  <2> QED
    BY <1>0, <1>1, <1>3, <2>2
<1>4. CASE key = "rfConfig"
  <2>1. doc.rfConfig # <<>>
    BY Zenon DEF Complete
  <2>2. StoredConfig(doc) = [struct |-> ReadStruct(prot), values |-> doc.rfConfig]
    BY <1>1, <2>1
  <2>3. StoredConfig(doc).struct = ReadStruct(prot) /\ StoredConfig(doc).values = doc.rfConfig
    BY <2>2
  <2>4. StructOf(doc.rfConfig) = ReadStruct(prot)
    <3>1. StoredConfig(doc).struct = StructOf(doc.rfConfig)
      BY ConfigStored
    <3> QED
      BY <2>3, <3>1
  <2>5. ExportedConfig = StoredConfig(doc).values
    BY <2>4, ConfigExported
  <2>6. Exported["rfConfig"] = ExportedConfig
    BY ExportedIs, Zenon
  <2> QED
    BY <1>4, <2>3, <2>5, <2>6
<1>5. CASE key = "applicationData"
  <2>1. DataThere
    BY <1>5, ExportedFrom
  <2>2. Exported["applicationData"] = base64_encode(Significant(DataOf(DataText(doc))), 0)
    BY <2>1, ExportedIs, Zenon
  <2>3. DataText(doc) = doc.applicationData
    BY <1>0, <1>5 DEF DataText, Get
  <2>4. /\ doc.applicationData = base64_encode(DataOf(doc.applicationData), 0)
        /\ Significant(DataOf(doc.applicationData)) = DataOf(doc.applicationData)
    BY <1>0, <1>1, <1>5 DEF NormalData
  <2> QED
    BY <1>5, <2>2, <2>3, <2>4
<1>6. CASE key = "applicationName"
  <2>1. NameThere
    BY <1>6, ExportedFrom
  <2>2. Exported["applicationName"] = StoredName(doc)
    BY <2>1, ExportedIs, Zenon
  <2>3. StoredName(doc) = doc.applicationName
    BY <1>0, <1>1, <1>6 DEF StoredName, Get
  <2> QED
    BY <1>6, <2>2, <2>3
<1>7. CASE key = "dcdcConfig" /\ key \notin InfoKeys
  <2>1. generation # 715 /\ DcdcThere
    BY <1>7, OtherKeys, ExportedFrom
  <2>2. Exported["dcdcConfig"] = AsUnsigned(AsSigned(DcdcConfig(doc), WordSize), ByteSize)
    BY <2>1, ExportedIs, Zenon
  <2>3. generation = 719
    BY <2>1 DEF DcdcThere
  <2>4. doc["dcdcConfig"] \in 0 .. ByteSize - 1
    BY <1>0, <1>1, <1>7, <2>3
  <2>5. DcdcConfig(doc) = doc["dcdcConfig"]
    BY <1>0, <1>7, DcdcTyped
  <2>6. AsUnsigned(AsSigned(DcdcConfig(doc), WordSize), ByteSize) = DcdcConfig(doc)
    BY <2>4, <2>5, DcdcTyped
  <2> QED
    BY <1>7, <2>2, <2>5, <2>6
<1>8. CASE key = "sucUpdateEntries"
  <2>1. generation # 711
    BY <1>8, ExportedFrom
  <2>2. Exported["sucUpdateEntries"] = IF IsThere("tables") THEN Object("tables") ELSE <<>>
    BY <2>1, ExportedIs, Zenon
  <2>3. IsThere("tables") /\ Object("tables") = doc.sucUpdateEntries
    BY <1>0, <1>8, ImageRead
  <2> QED
    BY <1>8, <2>2, <2>3
<1>9. key \in InfoKeys \cup SettingKeys \cup {"cmdClasses", "rfConfig", "applicationData",
              "applicationName", "dcdcConfig", "sucUpdateEntries"}
  BY <1>0, <1>1 DEF ExportKeys
<1> QED
  BY <1>2, <1>3, <1>4, <1>5, <1>6, <1>7, <1>8, <1>9

LEMMA SettledExport ==
  ASSUME InfoInv, pc = "imported", trips > 0, broken = "none", Complete(doc)
  PROVE  Exported = doc
<1>1. doc = [key \in DOMAIN doc |-> doc[key]]
  BY Zenon DEF InfoInv, Normal, NormalObject
<1>2. Exported = [key \in DOMAIN Exported |-> Exported[key]]
  BY ExportedIs, Zenon
<1>3. DOMAIN Exported = DOMAIN doc
  BY SettledKeys
<1>4. \A key \in DOMAIN doc : Exported[key] = doc[key]
  BY <1>3, SettledValues
<1>5. [key \in DOMAIN Exported |-> Exported[key]] = [key \in DOMAIN doc |-> doc[key]]
  BY <1>3, <1>4
<1> QED
  BY <1>1, <1>2, <1>5

LEMMA InfoStep == InfoInv /\ [Next]_vars => InfoInv'
<1> SUFFICES ASSUME InfoInv, [Next]_vars PROVE InfoInv'
  OBVIOUS
<1>1. CASE UNCHANGED vars
  <2>1. /\ target' = target /\ doc' = doc /\ files' = files /\ pc' = pc /\ broken' = broken
        /\ trips' = trips
    BY <1>1 DEF vars
  <2>2. SameDocument'
    BY <2>1, SameDocumentStays
  <2>3. FirstFiles' = FirstFiles /\ LastFiles' = LastFiles
    BY <2>1, ContentsUnmoved
  <2>4. \A S : ImageIs(files, S) => ImageIs(files, S)'
    BY <2>1, ImageUnmoved
  <2>5. DataText(doc') = DataText(doc)
    BY <2>1
  <2> QED
    BY <2>1, <2>2, <2>3, <2>4, <2>5 DEF InfoInv, SameDocument
<1>2. CASE Next
  BY <1>2, BeginStep, ClassesStep, ConfigStep, UpdatesStep, DataStep, WriteFilesStep,
     ExportStep DEF Next
<1> QED
  BY <1>1, <1>2

LEMMA InfoInductive == Spec => []InfoInv
BY InfoStart, InfoStep, PTL DEF Spec

(* For every target, document and size: after an import and an export the  *)
(* keys of a part are missing exactly if its file could not be written,    *)
(* the generation does not export it, or it was not stored                 *)
(* (controller_nvm.c:1374-1680, 2344-2694).                                *)
THEOREM KeysReturn == Spec => KeysComeBack
<1>1. InfoInv /\ [Next]_vars => [Export => KeysOf(doc')]_vars
  <2> SUFFICES ASSUME InfoInv, Export PROVE KeysOf(doc')
    OBVIOUS
  <2>1. pc = "imported" /\ doc' = Exported
    BY ExportHas
  <2>2. KeysOf(Exported)
    BY <2>1, KeysOfExport
  <2> QED
    BY <2>1, <2>2
<1> QED
  BY <1>1, InfoInductive, PTL DEF Spec, KeysComeBack

(* For every target, document and size: a value that fits its field comes  *)
(* out of the image as it went in, where its key comes back at all         *)
(* (controller_nvm.c:1374-1680, 2344-2694).                                *)
THEOREM ValuesReturn == Spec => ValuesComeBack
<1>1. ASSUME InfoInv, Export
      PROVE  ValuesOfTrip
  <2>1. pc = "imported" /\ doc' = Exported
    BY <1>1, ExportHas
  <2>2. \A key : Both(key) <=> key \in DOMAIN doc /\ key \in DOMAIN Exported
    BY <2>1, Zenon DEF Both
  <2>3. \A key \in InfoKeys \cup SettingKeys \cup {"applicationName", "dcdcConfig"} :
          Both(key) /\ Fits(key, doc[key]) => Exported[key] = doc[key]
    BY <1>1, <2>1, <2>2, ValueOfExport
  <2>4. /\ Both("cmdClasses") => \A key \in ClassKeys \cap DOMAIN doc.cmdClasses :
             ListFits(doc.cmdClasses[key]) => Exported.cmdClasses[key] = doc.cmdClasses[key]
        /\ \A key \in DOMAIN doc.rfConfig \cap DOMAIN Exported.rfConfig :
             ConfigFits(key, doc.rfConfig[key]) => Exported.rfConfig[key] = doc.rfConfig[key]
        /\ Both("applicationData") =>
             DataOf(Exported.applicationData) = Significant(DataOf(doc.applicationData))
        /\ Both("sucUpdateEntries") /\ broken # "tables" =>
             Exported.sucUpdateEntries = doc.sucUpdateEntries
    BY <1>1, <2>1, <2>2, RestOfExport, Zenon
  <2> QED
    BY <2>1, <2>3, <2>4, Zenon DEF ValuesOfTrip
<1>2. InfoInv /\ [Next]_vars => [Export => ValuesOfTrip]_vars
  BY <1>1, Zenon
<1> QED
  BY <1>2, InfoInductive, PTL DEF Spec, ValuesComeBack

(* For every target, document and size: a document that was exported is    *)
(* exported the same after another import, if no file was lost on the way  *)
(* (controller_nvm.c:1374-1680, 2344-2694).                                *)
THEOREM TripsStable == Spec => TripsSettle
<1>1. InfoInv /\ [Next]_vars =>
        [Export /\ trips > 0 /\ broken = "none" /\ Complete(doc) => doc' = doc]_vars
  BY ExportHas, SettledExport
<1> QED
  BY <1>1, InfoInductive, PTL DEF Spec, TripsSettle
==============================================================================
