------------------------- MODULE StorageRulesProofs --------------------------

(***************************************************************************)
(* Lemmas about the rules that every component uses: the division of a     *)
(* table into files and slots, for every file size, the formats, layouts   *)
(* and texts of versions, for all version numbers, and Base64 texts, for   *)
(* all sequences of bytes.  The last need induction over the natural       *)
(* numbers (LeastNatural) and facts about sequences that are joined.       *)
(***************************************************************************)
EXTENDS Nvm3Files, VersionRules, Base64, SequenceTheorems, WellFoundedInduction, TLAPS

(***************************************************************************)
(* Files and slots                                                         *)
(***************************************************************************)
(* The file of a record of the table is one of the table's files, and its  *)
(* slot lies inside the file.                                              *)
LEMMA PlaceInTable ==
  ASSUME NEW perFile \in Nat \ {0}, NEW max \in Nat, NEW n \in 1 .. max
  PROVE  /\ FileOf(n, perFile) \in FileNumbers(max, perFile)
         /\ SlotOf(n, perFile) \in 0 .. perFile - 1
<1>1. /\ n - 1 \in Nat
      /\ max - 1 \in Nat
      /\ n - 1 <= max - 1
  OBVIOUS
<1>2. ASSUME NEW a \in Nat, NEW b \in Nat, a <= b
      PROVE  a \div perFile \in 0 .. (b \div perFile)
  <2>1. a = perFile * (a \div perFile) + (a % perFile)
    OBVIOUS
  <2>2. b = perFile * (b \div perFile) + (b % perFile)
    OBVIOUS
  <2>3. QED
    BY <1>2, <2>1, <2>2
<1>3. (n - 1) \div perFile \in 0 .. ((max - 1) \div perFile)
  BY <1>1, <1>2
<1>4. (n - 1) % perFile \in 0 .. perFile - 1
  BY <1>1
<1>5. QED
  BY <1>3, <1>4 DEF FileOf, SlotOf, FileNumbers

(* TwoJoined records in the same slot of the same file are the same record.      *)
LEMMA PlaceUnique ==
  ASSUME NEW perFile \in Nat \ {0}, NEW n \in Nat \ {0}, NEW m \in Nat \ {0},
         FileOf(n, perFile) = FileOf(m, perFile),
         SlotOf(n, perFile) = SlotOf(m, perFile)
  PROVE  n = m
<1>1. n - 1 = perFile * ((n - 1) \div perFile) + ((n - 1) % perFile)
  OBVIOUS
<1>2. m - 1 = perFile * ((m - 1) \div perFile) + ((m - 1) % perFile)
  OBVIOUS
<1>3. n - 1 = m - 1
  BY <1>1, <1>2 DEF FileOf, SlotOf
<1>4. QED
  BY <1>3

(* RecordAt finds the record of a slot again.                              *)
LEMMA PlaceInverse ==
  ASSUME NEW perFile \in Nat \ {0}, NEW n \in Nat \ {0}
  PROVE  RecordAt(FileOf(n, perFile), SlotOf(n, perFile), perFile) = n
<1>1. n - 1 = perFile * ((n - 1) \div perFile) + ((n - 1) % perFile)
  OBVIOUS
<1>2. QED
  BY <1>1 DEF FileOf, SlotOf, RecordAt

------------------------------------------------------------------------------

(***************************************************************************)
(* Versions                                                                *)
(***************************************************************************)
Version == Nat \X Nat \X Nat

LEMMA Components ==
  ASSUME NEW v \in Version
  PROVE  /\ Major(v) \in Nat /\ Minor(v) \in Nat /\ Patch(v) \in Nat
         /\ v # NoVersion
         /\ v = <<Major(v), Minor(v), Patch(v)>>
BY DEF Version, Major, Minor, Patch, NoVersion

(* The minor versions of 7.x and their formats, in the importer's table    *)
(* and in the upgrade's.                                                   *)
Releases7 == {11, 12, 15, 16, 17, 18} \cup 19 .. 24

LEMMA ImportRows ==
  /\ ImportFormat7(11) = 0 /\ ImportFormat7(12) = 1
  /\ ImportFormat7(15) = 2 /\ ImportFormat7(16) = 3
  /\ ImportFormat7(17) = 4 /\ ImportFormat7(18) = 4
  /\ \A m \in 19 .. 24 : ImportFormat7(m) = 5
  /\ \A m \in Nat \ Releases7 : ImportFormat7(m) = Unsupported
<1>1. ASSUME NEW m \in {19, 20}
      PROVE  ImportFormat7(m) = 5
  BY DEF ImportFormat7
<1>2. ASSUME NEW m \in 21 .. 24
      PROVE  ImportFormat7(m) = 5
  <2>1. m # 11 /\ m # 12 /\ m # 15 /\ m # 16 /\ m # 17 /\ m # 18 /\ m \notin {19, 20}
    OBVIOUS
  <2> QED
    BY <2>1, Zenon DEF ImportFormat7
<1>3. \A m \in 19 .. 24 : m \in {19, 20} \/ m \in 21 .. 24
  OBVIOUS
<1>4. ASSUME NEW m \in Nat \ Releases7
      PROVE  ImportFormat7(m) = Unsupported
  <2>1. /\ m # 11 /\ m # 12 /\ m # 15 /\ m # 16 /\ m # 17 /\ m # 18
        /\ m \notin {19, 20} /\ m \notin 21 .. 24
    BY DEF Releases7
  <2> QED
    BY <2>1, Zenon DEF ImportFormat7
<1>5. /\ ImportFormat7(11) = 0 /\ ImportFormat7(12) = 1
      /\ ImportFormat7(15) = 2 /\ ImportFormat7(16) = 3
      /\ ImportFormat7(17) = 4 /\ ImportFormat7(18) = 4
  BY DEF ImportFormat7
<1> QED
  BY <1>1, <1>2, <1>3, <1>4, <1>5

LEMMA UpgradeRows ==
  /\ UpgradeFormat7(11) = 0 /\ UpgradeFormat7(12) = 1
  /\ UpgradeFormat7(15) = 2 /\ UpgradeFormat7(16) = 3
  /\ UpgradeFormat7(17) = 4 /\ UpgradeFormat7(18) = 4
  /\ \A m \in 19 .. 24 : UpgradeFormat7(m) = 5
  /\ \A m \in Nat \ Releases7 : UpgradeFormat7(m) = Unsupported
<1>1. ASSUME NEW m \in 19 .. 24
      PROVE  UpgradeFormat7(m) = 5
  <2>1. /\ m # 11 /\ m # 12 /\ m # 15 /\ m # 16 /\ ~(m = 17 \/ m = 18)
        /\ m >= 19 /\ m <= 24
    OBVIOUS
  <2> QED
    BY <2>1, Zenon DEF UpgradeFormat7
<1>2. ASSUME NEW m \in Nat \ Releases7
      PROVE  UpgradeFormat7(m) = Unsupported
  <2>1. /\ m # 11 /\ m # 12 /\ m # 15 /\ m # 16 /\ ~(m = 17 \/ m = 18)
        /\ ~(m >= 19 /\ m <= 24)
    BY DEF Releases7
  <2> QED
    BY <2>1, Zenon DEF UpgradeFormat7
<1>3. /\ UpgradeFormat7(11) = 0 /\ UpgradeFormat7(12) = 1
      /\ UpgradeFormat7(15) = 2 /\ UpgradeFormat7(16) = 3
      /\ UpgradeFormat7(17) = 4 /\ UpgradeFormat7(18) = 4
  BY DEF UpgradeFormat7
<1> QED
  BY <1>1, <1>2, <1>3

LEMMA Minors7 ==
  ASSUME NEW m \in Nat
  PROVE  /\ ImportFormat7(m) # Unsupported <=> m \in Releases7
         /\ UpgradeFormat7(m) # Unsupported <=> m \in Releases7
<1>1. m \in Releases7 => m \in {11, 12, 15, 16, 17, 18} \/ m \in 19 .. 24
  BY DEF Releases7
<1>2. CASE m \in Releases7
  BY <1>1, <1>2, ImportRows, UpgradeRows DEF Unsupported
<1>3. CASE m \notin Releases7
  BY <1>3, ImportRows, UpgradeRows
<1> QED
  BY <1>2, <1>3

(* The importer's versions.                                                *)
LEMMA ImportAccepts ==
  ASSUME NEW v \in Version
  PROVE  TargetFormat(v) # Unsupported <=>
           \/ Major(v) = 8 /\ Minor(v) <= 255 /\ Patch(v) <= 255
           \/ Major(v) = 7 /\ Minor(v) \in {11, 12, 15, 16, 17, 18} \cup 19 .. 24
<1>1. CASE Major(v) = 8
  BY <1>1, Components DEF TargetFormat, Unsupported
<1>2. CASE Major(v) = 7
  <2>1. TargetFormat(v) = ImportFormat7(Minor(v))
    BY <1>2, Components DEF TargetFormat
  <2> QED
    BY <1>2, <2>1, Components, Minors7 DEF Releases7
<1>3. CASE Major(v) \notin {7, 8}
  BY <1>3, Components DEF TargetFormat
<1> QED
  BY <1>1, <1>2, <1>3

LEMMA StoredVersion ==
  ASSUME NEW v \in Version
  PROVE  Stored(v) \in Version
<1>1. Major(v) \in Nat /\ Minor(v) \in Nat /\ Patch(v) \in Nat
  BY DEF Version, Major, Minor, Patch
<1>2. Major(v) % 256 \in Nat /\ Minor(v) % 256 \in Nat /\ Patch(v) % 256 \in Nat
  BY <1>1
<1> QED
  BY <1>2 DEF Stored, Version

(* The versions that can be written keep their major and minor numbers     *)
(* when their components are stored in bytes.                              *)
LEMMA SupportedVersions ==
  ASSUME NEW v \in Version, TargetFormat(v) # Unsupported
  PROVE  /\ Minor(Stored(v)) = Minor(v) /\ Major(Stored(v)) = Major(v)
         /\ Major(v) \in {7, 8}
<1>1. \/ Major(v) = 8 /\ Minor(v) <= 255 /\ Patch(v) <= 255
      \/ Major(v) = 7 /\ Minor(v) \in {11, 12, 15, 16, 17, 18} \cup 19 .. 24
  BY ImportAccepts
<1>2. Major(v) \in {7, 8} /\ Minor(v) \in 0 .. 255
  BY <1>1, Components
<1> QED
  BY <1>1, <1>2 DEF Stored, Major, Minor

(* The layouts before 7.19 are those of older versions.                    *)
LEMMA LayoutFits ==
  ASSUME NEW v \in Version, NEW part \in PartNumber, TargetLayout(part, v) # Rejected
  PROVE  /\ TargetFormat(v) # Unsupported
         /\ TargetLayout(part, v) \in Layout
         /\ TargetLayout(part, v) = "800s_PRIOR_719" => ~Is719OrNewer(Stored(v))
         /\ TargetLayout(part, v) = "800s_FROM_719" => Is719OrNewer(Stored(v))
         /\ TargetLayout(part, v) = "700s" <=> part \in {"EFR32XG14", "EFR32XG13"}
<1>1. TargetFormat(v) # Unsupported /\ TargetLayout(part, v) = SeriesLayout(part, v)
  BY DEF TargetLayout
<1>2. SeriesLayout(part, v) \in Layout
  BY <1>1 DEF SeriesLayout, Layout, PartNumber
<1>3. SeriesLayout(part, v) = "700s" <=> part \in {"EFR32XG14", "EFR32XG13"}
  BY <1>1 DEF SeriesLayout, PartNumber, Rejected
<1>4. NotOlder(v, <<7, 19, 0>>) <=> Is719OrNewer(Stored(v))
  <2>1. Major(<<7, 19, 0>>) = 7 /\ Minor(<<7, 19, 0>>) = 19 /\ Patch(<<7, 19, 0>>) = 0
    BY DEF Major, Minor, Patch
  <2>2. NotOlder(v, <<7, 19, 0>>) <=> Major(v) > 7 \/ (Major(v) = 7 /\ Minor(v) >= 19)
    BY <2>1, Components DEF NotOlder
  <2> QED
    BY <1>1, <2>2, SupportedVersions DEF Is719OrNewer
<1>5. /\ SeriesLayout(part, v) = "800s_PRIOR_719" => ~NotOlder(v, <<7, 19, 0>>)
      /\ SeriesLayout(part, v) = "800s_FROM_719" => NotOlder(v, <<7, 19, 0>>)
  BY DEF SeriesLayout, PartNumber, Rejected
<1> QED
  BY <1>1, <1>2, <1>3, <1>4, <1>5

------------------------------------------------------------------------------

(***************************************************************************)
(* The text of a version                                                   *)
(***************************************************************************)
LEMMA DigitsAreNumbers ==
  ASSUME NEW n \in Nat
  PROVE  Digits(n) \in Seq(Int)
<1>1. n % 10 \in Int /\ n \div 10 \in Int
  BY Z3
<1>2. (n \div 10) % 10 \in Int /\ (n \div 100) % 10 \in Int
  BY Z3
<1> QED
  BY <1>1, <1>2 DEF Digits

LEMMA Joined ==
  ASSUME NEW s \in Seq(Int), NEW t \in Seq(Int)
  PROVE  /\ s \o t \in Seq(Int)
         /\ Len(s \o t) = Len(s) + Len(t)
         /\ \A i \in 1 .. Len(s) : (s \o t)[i] = s[i]
         /\ \A i \in 1 .. Len(t) : (s \o t)[Len(s) + i] = t[i]
<1>1. Len(s) \in Nat /\ Len(t) \in Nat
  BY LenProperties
<1> QED
  BY <1>1, ConcatProperties

(* The characters that are compared, of a version with one digit before    *)
(* the first dot and two after it.                                         *)
LEMMA TextFront ==
  ASSUME NEW v \in Version, Major(v) < 10, Minor(v) >= 10, Minor(v) < 100
  PROVE  /\ Text(v)[1] = Major(v) /\ Text(v)[2] = Dot
         /\ Text(v)[3] = Minor(v) \div 10 /\ Text(v)[4] = Minor(v) % 10
<1>1. Digits(Major(v)) = <<Major(v)>>
  BY Components DEF Digits
<1>2. Digits(Minor(v)) = <<Minor(v) \div 10, Minor(v) % 10>>
  BY Components DEF Digits
<1>3. Digits(Patch(v)) \in Seq(Int)
  BY Components, DigitsAreNumbers
<1>4. Major(v) \in Int /\ Minor(v) \div 10 \in Int /\ Minor(v) % 10 \in Int /\ Dot \in Int
  BY Components DEF Dot
<1> DEFINE major == <<Major(v)>>
           dot == <<Dot>>
           minor == <<Minor(v) \div 10, Minor(v) % 10>>
           patch == Digits(Patch(v))
<1>5. /\ major \in Seq(Int) /\ Len(major) = 1 /\ major[1] = Major(v)
      /\ dot \in Seq(Int) /\ Len(dot) = 1 /\ dot[1] = Dot
      /\ minor \in Seq(Int) /\ Len(minor) = 2
      /\ minor[1] = Minor(v) \div 10 /\ minor[2] = Minor(v) % 10
  BY <1>4
<1>6. Text(v) = major \o dot \o minor \o dot \o patch
  BY <1>1, <1>2 DEF Text
<1> HIDE DEF major, dot, minor, patch
<1> DEFINE front == major \o dot
           back == front \o minor
           whole == back \o dot
<1>7. /\ front \in Seq(Int) /\ Len(front) = 2
      /\ front[1] = Major(v) /\ front[2] = Dot
  <2>1. /\ front \in Seq(Int) /\ Len(front) = Len(major) + Len(dot)
        /\ \A i \in 1 .. Len(major) : front[i] = major[i]
        /\ \A i \in 1 .. Len(dot) : front[Len(major) + i] = dot[i]
    BY <1>5, Joined
  <2>2. front[1 + 1] = Dot
    BY <1>5, <2>1
  <2> QED
    BY <1>5, <2>1, <2>2
<1> HIDE DEF front
<1>8. /\ back \in Seq(Int) /\ Len(back) = 4
      /\ back[1] = Major(v) /\ back[2] = Dot
      /\ back[3] = Minor(v) \div 10 /\ back[4] = Minor(v) % 10
  <2>1. /\ back \in Seq(Int) /\ Len(back) = Len(front) + Len(minor)
        /\ \A i \in 1 .. Len(front) : back[i] = front[i]
        /\ \A i \in 1 .. Len(minor) : back[Len(front) + i] = minor[i]
    BY <1>5, <1>7, Joined
  <2>2. back[2 + 1] = Minor(v) \div 10 /\ back[2 + 2] = Minor(v) % 10
    BY <1>5, <1>7, <2>1
  <2> QED
    BY <1>5, <1>7, <2>1, <2>2
<1> HIDE DEF back
<1>9. /\ whole \in Seq(Int) /\ Len(whole) = 5
      /\ \A i \in 1 .. 4 : whole[i] = back[i]
  <2>1. /\ whole \in Seq(Int) /\ Len(whole) = Len(back) + Len(dot)
        /\ \A i \in 1 .. Len(back) : whole[i] = back[i]
    <3>1. back \in Seq(Int) /\ dot \in Seq(Int)
      BY <1>5, <1>8
    <3> QED
      BY <3>1, Joined
  <2> HIDE DEF whole
  <2>2. Len(back) = 4 /\ Len(dot) = 1
    BY <1>5, <1>8
  <2>3. Len(whole) = 5
    BY <2>1, <2>2
  <2> QED
    BY <2>1, <2>2, <2>3
<1> HIDE DEF whole
<1>10. Text(v) = whole \o patch
  BY <1>6 DEF front, back, whole
<1>11. \A i \in 1 .. Len(whole) : (whole \o patch)[i] = whole[i]
  BY <1>3, <1>9, Joined DEF patch
<1> QED
  <2>1. 1 .. 4 \subseteq 1 .. Len(whole)
    BY <1>9
  <2>2. \A i \in 1 .. 4 : Text(v)[i] = back[i]
    BY <1>9, <1>10, <1>11, <2>1
  <2> QED
    BY <1>8, <2>2

LEMMA TextFirst ==
  ASSUME NEW v \in Version, Major(v) < 10
  PROVE  Text(v)[1] = Major(v)
<1> DEFINE major == <<Major(v)>>
           dot == <<Dot>>
           minor == Digits(Minor(v))
           patch == Digits(Patch(v))
<1>1. /\ major \in Seq(Int) /\ Len(major) = 1 /\ major[1] = Major(v)
      /\ dot \in Seq(Int)
  BY Components DEF Dot
<1>2. minor \in Seq(Int) /\ patch \in Seq(Int)
  BY Components, DigitsAreNumbers
<1>3. Digits(Major(v)) = major
  BY Components DEF Digits
<1>4. Text(v) = major \o dot \o minor \o dot \o patch
  BY <1>3 DEF Text
<1> HIDE DEF major, dot, minor, patch
<1>5. ASSUME NEW s \in Seq(Int), NEW t \in Seq(Int), Len(s) >= 1, s[1] = Major(v)
      PROVE  s \o t \in Seq(Int) /\ Len(s \o t) >= 1 /\ (s \o t)[1] = Major(v)
  <2>1. Len(s) \in Nat /\ Len(t) \in Nat /\ 1 \in 1 .. Len(s)
    BY <1>5, LenProperties
  <2> QED
    BY <1>5, <2>1, Joined
<1> DEFINE Begins(s) == s \in Seq(Int) /\ Len(s) >= 1 /\ s[1] = Major(v)
<1>6. Begins(major)
  BY <1>1
<1>7. Begins(major \o dot)
  BY <1>1, <1>5, <1>6
<1>8. Begins(major \o dot \o minor)
  BY <1>2, <1>5, <1>7
<1>9. Begins(major \o dot \o minor \o dot)
  BY <1>1, <1>5, <1>8
<1>10. Begins(major \o dot \o minor \o dot \o patch)
  BY <1>2, <1>5, <1>9
<1> QED
  BY <1>4, <1>10

(* Among the versions that can be written the comparison of four           *)
(* characters is that of the numbers.                                      *)
LEMMA TextLimit ==
  ASSUME NEW v \in Version, TargetFormat(v) # Unsupported
  PROVE  TextUpTo721(v) <=> Major(v) = 7 /\ Minor(v) <= 21
<1> DEFINE text == Text(v)
           limit == <<7, Dot, 2, 1>>
<1>1. TextUpTo721(v) <=>
        \/ \A i \in 1 .. 4 : text[i] = limit[i]
        \/ \E i \in 1 .. 4 : text[i] < limit[i] /\ \A j \in 1 .. i - 1 : text[j] = limit[j]
  BY DEF TextUpTo721
<1>2. limit[1] = 7 /\ limit[2] = Dot /\ limit[3] = 2 /\ limit[4] = 1
  OBVIOUS
<1> HIDE DEF text, limit
<1>3. CASE Major(v) = 8
  <2>1. text[1] = 8
    BY <1>3, TextFirst DEF text
  <2>2. ASSUME NEW i \in 1 .. 4, text[i] < limit[i],
               \A j \in 1 .. i - 1 : text[j] = limit[j]
        PROVE  FALSE
    <3>1. i = 1 \/ 1 \in 1 .. i - 1
      OBVIOUS
    <3> QED
      BY <1>2, <2>1, <2>2, <3>1
  <2>3. ~ \A i \in 1 .. 4 : text[i] = limit[i]
    BY <1>2, <2>1
  <2> QED
    BY <1>1, <1>3, <2>2, <2>3
<1>4. CASE Major(v) = 7
  <2>1. Minor(v) \in {11, 12, 15, 16, 17, 18} \cup 19 .. 24
    BY <1>4, ImportAccepts
  <2>2. /\ text[1] = 7 /\ text[2] = Dot
        /\ text[3] = Minor(v) \div 10 /\ text[4] = Minor(v) % 10
    BY <1>4, <2>1, Components, TextFront DEF text
  <2>3. CASE Minor(v) < 20
    <3>1. text[3] < limit[3]
      BY <1>2, <2>1, <2>2, <2>3
    <3>2. \A j \in 1 .. 3 - 1 : text[j] = limit[j]
      BY <1>2, <2>2
    <3> QED
      BY <1>1, <1>4, <2>1, <2>3, <3>1, <3>2
  <2>4. CASE Minor(v) = 20
    <3>1. text[3] = limit[3] /\ text[4] < limit[4]
      BY <1>2, <2>2, <2>4
    <3>2. \A j \in 1 .. 4 - 1 : text[j] = limit[j]
      BY <1>2, <2>2, <3>1
    <3> QED
      BY <1>1, <1>4, <2>4, <3>1, <3>2
  <2>5. CASE Minor(v) = 21
    <3>1. \A i \in 1 .. 4 : text[i] = limit[i]
      BY <1>2, <2>2, <2>5
    <3> QED
      BY <1>1, <1>4, <2>5, <3>1
  <2>6. CASE Minor(v) > 21
    <3>1. text[1] = limit[1] /\ text[2] = limit[2] /\ text[3] = limit[3] /\ text[4] > limit[4]
      BY <1>2, <2>1, <2>2, <2>6
    <3>2. ~(text[1] < limit[1]) /\ ~(text[2] < limit[2]) /\ ~(text[3] < limit[3])
      BY <1>2, <3>1 DEF Dot
    <3>3. ~(text[4] < limit[4]) /\ text[4] # limit[4]
      BY <1>2, <2>1, <2>2, <3>1
    <3>4. \A i \in 1 .. 4 : i = 1 \/ i = 2 \/ i = 3 \/ i = 4
      OBVIOUS
    <3> QED
      BY <1>1, <2>1, <2>6, <3>2, <3>3, <3>4
  <2> QED
    BY <2>1, <2>3, <2>4, <2>5, <2>6
<1> QED
  BY <1>3, <1>4, SupportedVersions
------------------------------------------------------------------------------

(***************************************************************************)
(* Where an import writes the files, and where they are looked for         *)
(***************************************************************************)

(* What is known of layout, chip and version of an image that is written.  *)
Writes(lay, hw, prot) ==
  /\ lay \in Layout
  /\ Major(prot) \in {7, 8} /\ Minor(prot) \in Nat /\ Patch(prot) \in Nat
  /\ lay = "700s" => Major(prot) = 7
  /\ lay = "800s_PRIOR_719" => ~Is719OrNewer(prot)
  /\ lay = "800s_FROM_719" => Is719OrNewer(prot) /\ hw \in {"EFR32XG23", "EFR32XG28"}

LEMMA Accepted ==
  ASSUME NEW v \in Version, NEW part \in PartNumber, TargetLayout(part, v) # Rejected
  PROVE  Writes(TargetLayout(part, v), TargetHardware(part), Stored(v))
<1> DEFINE lay == TargetLayout(part, v)
<1>1. /\ TargetFormat(v) # Unsupported /\ lay \in Layout
      /\ lay = "800s_PRIOR_719" => ~Is719OrNewer(Stored(v))
      /\ lay = "800s_FROM_719" => Is719OrNewer(Stored(v))
      /\ lay = "700s" <=> part \in {"EFR32XG14", "EFR32XG13"}
  BY LayoutFits
<1>2. /\ Minor(Stored(v)) = Minor(v) /\ Major(Stored(v)) = Major(v)
      /\ Major(v) \in {7, 8}
  BY <1>1, SupportedVersions
<1>3. Minor(Stored(v)) \in Nat /\ Patch(Stored(v)) \in Nat
  BY StoredVersion, Components
<1>4. ASSUME lay = "700s"
      PROVE  Major(v) = 7
  <2>1. TextUpTo721(v)
    BY <1>1, <1>4, Components DEF TargetLayout, SeriesLayout, Rejected
  <2> QED
    BY <1>1, <2>1, TextLimit
<1>5. lay # "700s" => TargetHardware(part) \in {"EFR32XG23", "EFR32XG28"}
  BY <1>1 DEF TargetHardware, PartNumber
<1> HIDE DEF lay
<1>6. Writes(lay, TargetHardware(part), Stored(v))
  BY <1>1, <1>2, <1>3, <1>4, <1>5 DEF Writes
<1> QED
  BY <1>6 DEF lay

LEMMA ShapesAgree ==
  ASSUME NEW v, Major(v) \in Nat, Minor(v) \in Nat, Patch(v) \in Nat
  PROVE  /\ ReadStruct(v) = WrittenStruct(v)
         /\ ReadStruct(v) \in {"prior_7_15_3", "prior_7_18_1", "7_18_1", "7_21_x"}
<1>1. CASE Major(v) >= 8
  <2>1. ~PreV7_15_3(v) /\ ~PreV7_18_1(v) /\ ~PreV7_21(v)
    BY <1>1 DEF PreV7_15_3, PreV7_18_1, PreV7_21
  <2> QED
    BY <1>1, <2>1 DEF ReadStruct, WrittenStruct
<1>2. CASE ~(Major(v) >= 8)
  BY <1>2 DEF ReadStruct, WrittenStruct
<1> QED
  BY <1>1, <1>2

LEMMA OnProtocol ==
  ASSUME NEW lay, NEW hw, NEW prot, Writes(lay, hw, prot)
  PROVE  AppFilesOnProtocol(lay, prot) <=> lay = "800s_FROM_719"
BY DEF Writes, AppFilesOnProtocol, Layout

LEMMA SettingFiles ==
  ASSUME NEW lay, NEW hw, NEW prot, Writes(lay, hw, prot), NEW readHw, NEW app,
         NEW f \in {"APPLICATIONSETTINGS", "APPLICATIONCMDINFO", "APPLICATIONDATA"}
  PROVE  /\ WrittenAt(f, lay, hw, prot)[1] \in Instances(lay)
         /\ ReadAt(f, lay, readHw, prot, app) = WrittenAt(f, lay, hw, prot)
<1> DEFINE place == IF Generation(prot) = 719
                      THEN IF lay = "700s" THEN <<"app", f>> ELSE <<"protocol", f>>
                      ELSE <<"app", f>>
<1>1. WrittenAt(f, lay, hw, prot) = place
  BY DEF WrittenAt
<1>2. ReadAt(f, lay, readHw, prot, app) = place
  BY DEF ReadAt
<1>3. lay = "800s_FROM_719" => Generation(prot) = 719
  BY DEF Writes, Generation
<1>4. place[1] \in Instances(lay)
  BY <1>3 DEF Instances
<1> QED
  BY <1>1, <1>2, <1>4

LEMMA VersionFile ==
  ASSUME NEW lay, NEW hw, NEW prot, Writes(lay, hw, prot), NEW readHw, NEW app,
         lay = "800s_FROM_719" => readHw = hw
  PROVE  /\ WrittenAt("APP_VERSION", lay, hw, prot) =
              IF lay = "800s_FROM_719" THEN <<"protocol", AppVersionKey(hw)>>
                                       ELSE <<"app", "APP_VERSION">>
         /\ WrittenAt("APP_VERSION", lay, hw, prot)[1] \in Instances(lay)
         /\ ReadAt("APP_VERSION", lay, readHw, prot, app) =
              WrittenAt("APP_VERSION", lay, hw, prot)
<1>1. WrittenAt("APP_VERSION", lay, hw, prot) =
        IF ~Is719OrNewer(prot) \/ lay = "700s"
          THEN <<"app", "APP_VERSION">>
          ELSE <<"protocol", AppVersionKey(hw)>>
  BY DEF WrittenAt
<1>2. ReadAt("APP_VERSION", lay, readHw, prot, app) =
        IF AppFilesOnProtocol(lay, prot)
          THEN <<"protocol", AppVersionKey(readHw)>>
          ELSE <<"app", "APP_VERSION">>
  BY DEF ReadAt
<1>3. CASE lay = "800s_FROM_719"
  <2>1. Is719OrNewer(prot) /\ AppFilesOnProtocol(lay, prot) /\ readHw = hw
    BY <1>3, OnProtocol DEF Writes
  <2> QED
    BY <1>1, <1>2, <1>3, <2>1 DEF Instances
<1>4. CASE lay # "800s_FROM_719"
  <2>1. ~AppFilesOnProtocol(lay, prot)
    BY <1>4, OnProtocol
  <2>2. ~Is719OrNewer(prot) \/ lay = "700s"
    BY <1>4 DEF Writes, Layout
  <2> QED
    BY <1>1, <1>2, <1>4, <2>1, <2>2 DEF Instances
<1> QED
  BY <1>3, <1>4

(* The name is written from 7.20 on only, in no layout before 7.19.        *)
LEMMA NameFile ==
  ASSUME NEW lay, NEW hw, NEW prot, Writes(lay, hw, prot), NEW readHw, NEW app,
         lay = "800s_FROM_719" => readHw = hw, Is720OrNewer(prot)
  PROVE  /\ WrittenAt("APP_NAME", lay, hw, prot)[1] \in Instances(lay)
         /\ ReadAt("APP_NAME", lay, readHw, prot, app) = WrittenAt("APP_NAME", lay, hw, prot)
<1> DEFINE place(h) == IF lay = "700s" THEN <<"app", "APP_NAME">>
                       ELSE <<"protocol", AppNameKey(h)>>
<1>1. WrittenAt("APP_NAME", lay, hw, prot) = place(hw)
  BY DEF WrittenAt
<1>2. ReadAt("APP_NAME", lay, readHw, prot, app) = place(readHw)
  BY DEF ReadAt
<1>3. lay \in {"700s", "800s_FROM_719"}
  <2>1. Is719OrNewer(prot)
    BY DEF Writes, Is719OrNewer, Is720OrNewer
  <2> QED
    BY <2>1 DEF Writes, Layout
<1>4. place(hw)[1] \in Instances(lay)
  BY <1>3 DEF Instances
<1> QED
  BY <1>1, <1>2, <1>3, <1>4

(* The configuration is where it is looked for if the application version  *)
(* asks for the structure that was written.                                *)
LEMMA ConfigurationFile ==
  ASSUME NEW lay, NEW hw, NEW prot, Writes(lay, hw, prot), NEW readHw, NEW app
  PROVE  /\ WrittenAt("APPLICATIONCONFIGURATION", lay, hw, prot)[1] \in Instances(lay)
         /\ ReadStruct(app) = WrittenStruct(prot) =>
              ReadAt("APPLICATIONCONFIGURATION", lay, readHw, prot, app) =
                WrittenAt("APPLICATIONCONFIGURATION", lay, hw, prot)
<1> DEFINE f == "APPLICATIONCONFIGURATION"
           old == PreV7_15_3(prot) \/ PreV7_18_1(prot) \/ PreV7_19(prot)
<1>1. WrittenAt(f, lay, hw, prot) =
        IF old THEN <<"app", f>>
        ELSE IF Major(prot) >= 8 THEN <<"protocol", f>>
        ELSE IF lay = "700s" THEN <<"app", f>>
        ELSE <<"protocol", f>>
  BY DEF WrittenAt
<1>2. ReadAt(f, lay, readHw, prot, app) =
        IF ReadStruct(app) \in {"7_18_1", "7_21_x"} /\ AppFilesOnProtocol(lay, prot)
          THEN <<"protocol", f>> ELSE <<"app", f>>
  BY DEF ReadAt
<1>3. /\ Major(prot) \in {7, 8} /\ Minor(prot) \in Nat /\ Patch(prot) \in Nat
      /\ lay \in Layout
      /\ lay = "700s" => Major(prot) = 7
      /\ lay = "800s_PRIOR_719" => ~Is719OrNewer(prot)
      /\ lay = "800s_FROM_719" => Is719OrNewer(prot)
      /\ AppFilesOnProtocol(lay, prot) <=> lay = "800s_FROM_719"
  BY OnProtocol DEF Writes
<1>4. Is719OrNewer(prot) => ~old /\ WrittenStruct(prot) \in {"7_18_1", "7_21_x"}
  BY <1>3 DEF Is719OrNewer, PreV7_15_3, PreV7_18_1, PreV7_19, WrittenStruct
<1>5. ~Is719OrNewer(prot) => PreV7_19(prot)
  BY <1>3 DEF Is719OrNewer, PreV7_19
<1> HIDE DEF f
<1>6. CASE lay = "800s_FROM_719"
  <2>1. WrittenAt(f, lay, hw, prot) = <<"protocol", f>>
    BY <1>1, <1>3, <1>4, <1>6
  <2>2. ReadStruct(app) = WrittenStruct(prot) =>
          ReadAt(f, lay, readHw, prot, app) = <<"protocol", f>>
    BY <1>2, <1>3, <1>4, <1>6
  <2> QED
    BY <1>6, <2>1, <2>2 DEF Instances, f
<1>7. CASE lay # "800s_FROM_719"
  <2>1. WrittenAt(f, lay, hw, prot) = <<"app", f>>
    BY <1>1, <1>3, <1>5, <1>7 DEF Layout
  <2>2. ReadAt(f, lay, readHw, prot, app) = <<"app", f>>
    BY <1>2, <1>3, <1>7
  <2> QED
    BY <1>7, <2>1, <2>2 DEF Instances, f
<1> QED
  BY <1>6, <1>7

(* Each file goes into an instance that the image has and is found where   *)
(* it was written, the DC/DC configuration of a 700 series image apart.    *)
LEMMA FileFound ==
  ASSUME NEW lay, NEW hw, NEW prot, Writes(lay, hw, prot), NEW readHw, NEW app,
         lay = "800s_FROM_719" => readHw = hw, NEW f \in FilesWritten(prot)
  PROVE  /\ WrittenAt(f, lay, hw, prot)[1] \in Instances(lay)
         /\ f = "PROPRIETARY_1" => WrittenAt(f, lay, hw, prot) = <<"protocol", f>>
         /\ f = "PROPRIETARY_1" /\ lay = "700s" =>
              ReadAt(f, lay, readHw, prot, app) = <<"app", f>>
         /\ ~(f = "PROPRIETARY_1" /\ lay = "700s")
              /\ (f = "APPLICATIONCONFIGURATION" => ReadStruct(app) = WrittenStruct(prot))
              => ReadAt(f, lay, readHw, prot, app) = WrittenAt(f, lay, hw, prot)
<1>1. CASE f \in {"ZW_VERSION", "CONTROLLERINFO", "tables"}
  <2>1. WrittenAt(f, lay, hw, prot) = <<"protocol", f>>
    BY <1>1 DEF WrittenAt
  <2>2. ReadAt(f, lay, readHw, prot, app) = <<"protocol", f>>
    BY <1>1 DEF ReadAt
  <2> QED
    BY <1>1, <2>1, <2>2 DEF Instances
<1>2. CASE f \in {"APPLICATIONSETTINGS", "APPLICATIONCMDINFO", "APPLICATIONDATA"}
  BY <1>2, SettingFiles
<1>3. CASE f = "APP_VERSION"
  BY <1>3, VersionFile
<1>4. CASE f = "APP_NAME"
  BY <1>4, NameFile DEF FilesWritten
<1>5. CASE f = "APPLICATIONCONFIGURATION"
  BY <1>5, ConfigurationFile
<1>6. CASE f = "PROPRIETARY_1"
  <2>1. Generation(prot) = 719
    BY <1>6 DEF FilesWritten
  <2>2. WrittenAt(f, lay, hw, prot) = <<"protocol", f>>
    BY <1>6 DEF WrittenAt
  <2>3. ReadAt(f, lay, readHw, prot, app) =
          IF lay = "700s" THEN <<"app", f>> ELSE <<"protocol", f>>
    BY <1>6, <2>1 DEF ReadAt
  <2> QED
    BY <1>6, <2>2, <2>3 DEF Instances
<1> QED
  BY <1>1, <1>2, <1>3, <1>4, <1>5, <1>6 DEF FilesWritten, File

(* The chip of an 800 series image from 7.19 on is told by its application *)
(* version file.                                                           *)
LEMMA ChipFound ==
  ASSUME NEW lay, lay = "800s_FROM_719", NEW hw \in {"EFR32XG23", "EFR32XG28"},
         NEW objects, <<"protocol", AppVersionKey(hw)>> \in objects,
         hw = "EFR32XG23" => <<"protocol", "APP_VERSION_XG28">> \notin objects
  PROVE  DetectedHardware(lay, objects) = hw
BY DEF DetectedHardware, AppVersionKey

(***************************************************************************)
(* Counting up, and joined sequences                                       *)
(***************************************************************************)
(* A set of natural numbers without a least element has none. *)
LEMMA LeastNatural ==
  ASSUME NEW T \in SUBSET Nat, T # {}
  PROVE  \E x \in T : \A y \in T : x <= y
<1>1. \E x \in T : \A y \in T : ~ (<<y, x>> \in OpToRel(<, Nat))
  BY WFMin, NatLessThanWellFounded, Zenon
<1>2. \A x \in T, y \in T : <<y, x>> \in OpToRel(<, Nat) <=> y < x
  BY Zenon DEF OpToRel
<1>3. PICK x \in T : \A y \in T : ~ (y < x)
  BY <1>1, <1>2, Zenon
<1> QED
  BY <1>3

(* The greatest of some numbers, and the lesser of two.                    *)
LEMMA GreatestOf ==
  ASSUME NEW n \in Nat, NEW T \in SUBSET (0 .. n), T # {}
  PROVE  Max(T) \in T /\ \A x \in T : x <= Max(T)
<1> DEFINE R == {n - x : x \in T}
<1>1. R \in SUBSET Nat /\ R # {}
  <2>1. \A x \in T : n - x \in Nat
    OBVIOUS
  <2> QED
    BY <2>1
<1>2. PICK r \in R : \A y \in R : r <= y
  BY <1>1, LeastNatural
<1>3. PICK m \in T : r = n - m
  BY <1>2
<1>4. \A x \in T : m >= x
  <2> TAKE x \in T
  <2>1. n - x \in R
    OBVIOUS
  <2>2. r <= n - x /\ x \in 0 .. n /\ m \in 0 .. n
    BY <1>2, <2>1
  <2> QED
    BY <1>3, <2>2
<1>5. Max(T) \in T /\ \A y \in T : Max(T) >= y
  BY <1>4, Zenon DEF Max
<1> QED
  <2>1. \A x \in T : x \in Int
    OBVIOUS
  <2> QED
    BY <1>5, <2>1

LEMMA Lesser ==
  ASSUME NEW a \in Nat, NEW b \in Nat
  PROVE  Min({a, b}) = IF a <= b THEN a ELSE b
<1>1. \E x \in {a, b} : \A y \in {a, b} : x <= y
  <2>1. CASE a <= b
    BY <2>1
  <2>2. CASE ~(a <= b)
    BY <2>2
  <2> QED BY <2>1, <2>2
<1>2. Min({a, b}) \in {a, b} /\ \A y \in {a, b} : Min({a, b}) <= y
  BY <1>1, Zenon DEF Min
<1> QED
  BY <1>2

LEMMA CountingUp ==
  ASSUME NEW n \in Nat, NEW T \in SUBSET (0 .. n), 0 \in T,
         \A i \in T : i < n => i + 1 \in T
  PROVE  T = 0 .. n
<1> DEFINE Rest == (0 .. n) \ T
<1> SUFFICES ASSUME Rest # {} PROVE FALSE
  OBVIOUS
<1>0. Rest \in SUBSET Nat
  OBVIOUS
<1>1. PICK x \in Rest : \A y \in Rest : x <= y
  <2> HIDE DEF Rest
  <2> QED
    BY <1>0, LeastNatural
<1>2. x - 1 \in T
  BY <1>1
<1> QED
  BY <1>1, <1>2

(* The beginnings of a sequence of sequences, put together. *)
Beginnings(f, s, n) ==
  f = [i \in 1 .. n |-> IF i = 1 THEN s[i] ELSE f[i - 1] \o s[i]]

LEMMA BeginningAt ==
  ASSUME NEW s, NEW n \in Nat, NEW f, Beginnings(f, s, n), NEW i \in 1 .. n
  PROVE  f[i] = IF i = 1 THEN s[i] ELSE f[i - 1] \o s[i]
<1> DEFINE g == [j \in 1 .. n |-> IF j = 1 THEN s[j] ELSE f[j - 1] \o s[j]]
<1>1. g[i] = IF i = 1 THEN s[i] ELSE f[i - 1] \o s[i]
  OBVIOUS
<1>2. f = g
  BY Zenon DEF Beginnings
<1> QED
  BY <1>1, <1>2, Zenon

LEMMA BeginningsExist ==
  ASSUME NEW s, NEW length \in Nat
  PROVE  \E f : Beginnings(f, s, length)
<1> DEFINE T == {n \in 0 .. length : \E f : Beginnings(f, s, n)}
<1>1. 0 \in T
  <2>1. Beginnings(<<>>, s, 0)
    BY DEF Beginnings
  <2> QED
    BY <2>1
<1>2. ASSUME NEW n \in T, n < length
      PROVE  n + 1 \in T
  <2>0. n \in Nat /\ n + 1 \in 0 .. length
    BY <1>2
  <2>1. PICK f : Beginnings(f, s, n)
    OBVIOUS
  <2> DEFINE g == [i \in 1 .. n + 1 |-> IF i = 1 THEN s[i] ELSE f[i - 1] \o s[i]]
  <2>2. \A i \in 1 .. n : g[i] = f[i]
    BY <2>0, <2>1, BeginningAt
  <2>3. g = [i \in 1 .. n + 1 |-> IF i = 1 THEN s[i] ELSE g[i - 1] \o s[i]]
    <3>1. \A i \in 1 .. n + 1 : i # 1 => g[i - 1] = f[i - 1]
      <4> HIDE DEF g
      <4> QED
        BY <2>0, <2>2
    <3> QED
      BY <3>1, Zenon
  <2> HIDE DEF g
  <2>4. Beginnings(g, s, n + 1)
    BY <2>3, Zenon DEF Beginnings
  <2> QED
    BY <2>0, <2>4, Zenon
<1>3. T = 0 .. length
  <2>1. T \in SUBSET (0 .. length)
    OBVIOUS
  <2> HIDE DEF T
  <2> QED
    BY <1>1, <1>2, <2>1, CountingUp
<1>4. length \in T
  BY <1>3
<1> QED
  BY <1>4, Zenon

(* FlattenSeq by the beginnings of its argument. *)
LEMMA FlattenPrefixes ==
  ASSUME NEW S, NEW s \in Seq(Seq(S))
  PROVE  \E f \in [0 .. Len(s) -> Seq(S)] :
           /\ f[0] = <<>>
           /\ \A i \in 1 .. Len(s) : f[i] = f[i - 1] \o s[i]
           /\ FlattenSeq(s) = f[Len(s)]
<1>0. Len(s) \in Nat
  OBVIOUS
<1>1. CASE Len(s) = 0
  <2>1. s = <<>> /\ FlattenSeq(s) = s
    BY <1>1 DEF FlattenSeq
  <2> DEFINE f == [i \in 0 .. Len(s) |-> <<>>]
  <2>2. f \in [0 .. Len(s) -> Seq(S)]
    OBVIOUS
  <2>3. f[0] = <<>> /\ f[Len(s)] = FlattenSeq(s) /\ 1 .. Len(s) = {}
    BY <1>1, <2>1
  <2> HIDE DEF f
  <2> QED
    BY <2>2, <2>3, Zenon
<1>2. CASE Len(s) # 0
  <2> DEFINE g == CHOOSE f : Beginnings(f, s, Len(s))
  <2>1. Beginnings(g, s, Len(s))
    BY <1>0, BeginningsExist, Zenon
  <2>2. FlattenSeq(s) = g[Len(s)]
    BY <1>2, Zenon DEF FlattenSeq, Beginnings
  <2> HIDE DEF g
  <2>3. \A i \in 1 .. Len(s) : g[i] = IF i = 1 THEN s[i] ELSE g[i - 1] \o s[i]
    <3> DEFINE n == Len(s)
    <3>1. n \in Nat /\ Beginnings(g, s, n)
      BY <1>0, <2>1
    <3> HIDE DEF n
    <3>2. \A i \in 1 .. n : g[i] = IF i = 1 THEN s[i] ELSE g[i - 1] \o s[i]
      BY <3>1, BeginningAt
    <3> QED
      BY <3>2 DEF n
  <2> DEFINE f == [i \in 0 .. Len(s) |-> IF i = 0 THEN <<>> ELSE g[i]]
  <2>4. f[0] = <<>>
    BY <1>0
  <2>5. \A i \in 1 .. Len(s) : s[i] \in Seq(S)
    OBVIOUS
  <2>6. \A i \in 1 .. Len(s) : f[i] = f[i - 1] \o s[i]
    <3> TAKE i \in 1 .. Len(s)
    <3>1. f[i] = g[i] /\ (i # 1 => f[i - 1] = g[i - 1]) /\ (i = 1 => f[i - 1] = <<>>)
      BY <1>0
    <3> HIDE DEF f
    <3>2. s[i] = <<>> \o s[i]
      BY <2>5
    <3> QED
      BY <2>3, <3>1, <3>2
  <2>7. DOMAIN f = 0 .. Len(s) /\ f = [i \in 0 .. Len(s) |-> f[i]]
    OBVIOUS
  <2>8. f[Len(s)] = g[Len(s)]
    BY <1>0, <1>2
  <2> HIDE DEF f
  <2> DEFINE T == {n \in 0 .. Len(s) : f[n] \in Seq(S)}
  <2>9. T = 0 .. Len(s)
    <3>1. 0 \in T
      <4>1. <<>> \in Seq(S) /\ 0 \in 0 .. Len(s)
        BY <1>0
      <4> QED
        BY <2>4, <4>1, Zenon
    <3>2. ASSUME NEW n \in T, n < Len(s) PROVE n + 1 \in T
      <4>1. n + 1 \in 1 .. Len(s) /\ (n + 1) - 1 = n
        BY <3>2, <1>0
      <4>2. f[n + 1] = f[n] \o s[n + 1]
        BY <2>6, <4>1
      <4>3. f[n] \in Seq(S) /\ s[n + 1] \in Seq(S) /\ n + 1 \in 0 .. Len(s)
        BY <2>5, <4>1, <1>0
      <4>4. f[n] \o s[n + 1] \in Seq(S)
        BY <4>3, ConcatProperties
      <4> QED
        BY <4>2, <4>3, <4>4, Zenon
    <3>3. T \in SUBSET (0 .. Len(s))
      OBVIOUS
    <3> HIDE DEF T
    <3> QED
      BY <1>0, <3>1, <3>2, <3>3, CountingUp
  <2>10. f \in [0 .. Len(s) -> Seq(S)]
    BY <2>7, <2>9
  <2> QED
    BY <2>2, <2>4, <2>6, <2>8, <2>10
<1> QED
  BY <1>1, <1>2

(* A family of sequences that grows by the elements of s ends with          *)
(* FlattenSeq(s).                                                           *)
LEMMA FlattenIs ==
  ASSUME NEW S, NEW s \in Seq(Seq(S)), NEW h,
         h[0] = <<>>, \A i \in 1 .. Len(s) : h[i] = h[i - 1] \o s[i]
  PROVE  FlattenSeq(s) = h[Len(s)]
<1>0. Len(s) \in Nat
  OBVIOUS
<1>1. PICK f \in [0 .. Len(s) -> Seq(S)] :
        /\ f[0] = <<>>
        /\ \A i \in 1 .. Len(s) : f[i] = f[i - 1] \o s[i]
        /\ FlattenSeq(s) = f[Len(s)]
  BY FlattenPrefixes
<1> DEFINE T == {n \in 0 .. Len(s) : f[n] = h[n]}
<1>2. 0 \in T
  BY <1>0, <1>1
<1>3. ASSUME NEW n \in T, n < Len(s) PROVE n + 1 \in T
  <2>1. n + 1 \in 1 .. Len(s) /\ (n + 1) - 1 = n /\ n + 1 \in 0 .. Len(s)
    BY <1>0, <1>3
  <2>2. f[n + 1] = f[n] \o s[n + 1] /\ h[n + 1] = h[n] \o s[n + 1]
    BY <1>1, <2>1
  <2> QED
    BY <2>1, <2>2
<1>4. T = 0 .. Len(s)
  <2>1. T \in SUBSET (0 .. Len(s))
    OBVIOUS
  <2> HIDE DEF T
  <2> QED
    BY <1>0, <1>2, <1>3, <2>1, CountingUp
<1>5. Len(s) \in T
  BY <1>0, <1>4
<1> QED
  BY <1>1, <1>5

LEMMA FlattenType ==
  ASSUME NEW S, NEW s \in Seq(Seq(S))
  PROVE  FlattenSeq(s) \in Seq(S)
<1>1. PICK f \in [0 .. Len(s) -> Seq(S)] : FlattenSeq(s) = f[Len(s)]
  BY FlattenPrefixes
<1>2. Len(s) \in 0 .. Len(s)
  OBVIOUS
<1> QED
  BY <1>1, <1>2

LEMMA FlattenConcat ==
  ASSUME NEW S, NEW s \in Seq(Seq(S)), NEW t \in Seq(Seq(S))
  PROVE  FlattenSeq(s \o t) = FlattenSeq(s) \o FlattenSeq(t)
<1>1. PICK f \in [0 .. Len(s) -> Seq(S)] :
        /\ f[0] = <<>>
        /\ \A i \in 1 .. Len(s) : f[i] = f[i - 1] \o s[i]
        /\ FlattenSeq(s) = f[Len(s)]
  BY FlattenPrefixes
<1>2. PICK g \in [0 .. Len(t) -> Seq(S)] :
        /\ g[0] = <<>>
        /\ \A i \in 1 .. Len(t) : g[i] = g[i - 1] \o t[i]
        /\ FlattenSeq(t) = g[Len(t)]
  BY FlattenPrefixes
<1> DEFINE h == [i \in 0 .. Len(s) + Len(t) |->
                   IF i <= Len(s) THEN f[i] ELSE f[Len(s)] \o g[i - Len(s)]]
           st == s \o t
<1>3. /\ Len(s) \in Nat /\ Len(t) \in Nat
      /\ st \in Seq(Seq(S)) /\ Len(st) = Len(s) + Len(t)
      /\ \A i \in 1 .. Len(s) : st[i] = s[i]
      /\ \A i \in 1 .. Len(t) : st[Len(s) + i] = t[i]
      /\ \A i \in 1 .. Len(s) : s[i] \in Seq(S)
      /\ \A i \in 1 .. Len(t) : t[i] \in Seq(S)
  OBVIOUS
<1>4. /\ f[Len(s)] \in Seq(S)
      /\ \A i \in 0 .. Len(t) : g[i] \in Seq(S)
      /\ \A i \in 0 .. Len(s) : h[i] = f[i]
      /\ \A i \in 1 .. Len(t) : h[Len(s) + i] = f[Len(s)] \o g[i]
  <2>1. f[Len(s)] \in Seq(S) /\ \A i \in 0 .. Len(t) : g[i] \in Seq(S)
    <3>1. Len(s) \in 0 .. Len(s)
      BY <1>3
    <3> HIDE DEF h, st
    <3> QED
      BY <3>1
  <2>2. \A i \in 0 .. Len(s) : h[i] = f[i]
    BY <1>3
  <2>3. ASSUME NEW i \in 1 .. Len(t) PROVE h[Len(s) + i] = f[Len(s)] \o g[i]
    <3>1. /\ Len(s) + i \in 0 .. Len(s) + Len(t)
          /\ ~(Len(s) + i <= Len(s))
          /\ (Len(s) + i) - Len(s) = i
      BY <1>3
    <3> QED
      BY <3>1
  <2> QED
    BY <2>1, <2>2, <2>3
<1>5. h[Len(s) + 0] = f[Len(s)] \o g[0]
  BY <1>2, <1>3, <1>4
<1> HIDE DEF h, st
<1>6. ASSUME NEW i \in 1 .. Len(st) PROVE h[i] = h[i - 1] \o st[i]
  <2>1. CASE i <= Len(s)
    <3>1. i \in 1 .. Len(s) /\ i \in 0 .. Len(s) /\ i - 1 \in 0 .. Len(s)
      BY <1>3, <2>1
    <3> QED
      BY <1>1, <1>3, <1>4, <3>1
  <2>2. CASE i > Len(s)
    <3> DEFINE k == i - Len(s)
    <3>1. k \in 1 .. Len(t) /\ k \in 0 .. Len(t) /\ k - 1 \in 0 .. Len(t)
          /\ i = Len(s) + k /\ i - 1 = Len(s) + (k - 1)
      BY <1>3, <2>2
    <3> HIDE DEF k
    <3>2. h[i] = f[Len(s)] \o g[k] /\ st[i] = t[k]
      BY <1>3, <1>4, <3>1
    <3>3. h[i - 1] = f[Len(s)] \o g[k - 1]
      <4>1. CASE k = 1
        BY <1>5, <3>1, <4>1
      <4>2. CASE k # 1
        <5>1. k - 1 \in 1 .. Len(t)
          BY <1>3, <3>1, <4>2
        <5> QED
          BY <1>4, <3>1, <5>1
      <4> QED
        BY <4>1, <4>2
    <3>4. g[k] = g[k - 1] \o t[k] /\ g[k - 1] \in Seq(S) /\ t[k] \in Seq(S)
      BY <1>2, <1>3, <1>4, <3>1
    <3>5. f[Len(s)] \o (g[k - 1] \o t[k]) = (f[Len(s)] \o g[k - 1]) \o t[k]
      <4>1. \A a, b, c \in Seq(S) : a \o (b \o c) = (a \o b) \o c
        BY ConcatAssociative
      <4> QED
        BY <1>4, <3>4, <4>1
    <3> QED
      BY <3>2, <3>3, <3>4, <3>5
  <2> QED
    BY <1>3, <2>1, <2>2
<1>7. h[0] = <<>>
  BY <1>1, <1>3, <1>4
<1>8. FlattenSeq(st) = h[Len(st)]
  BY <1>3, <1>6, <1>7, FlattenIs
<1>9. h[Len(st)] = f[Len(s)] \o g[Len(t)]
  <2>1. CASE Len(t) = 0
    BY <1>3, <1>5, <2>1
  <2>2. CASE Len(t) # 0
    <3>1. Len(t) \in 1 .. Len(t)
      BY <1>3, <2>2
    <3> QED
      BY <1>3, <1>4, <3>1
  <2> QED
    BY <2>1, <2>2
<1> QED
  BY <1>1, <1>2, <1>8, <1>9 DEF st

(* The sequence of the one-element sequences of a sequence. *)
LEMMA FlattenSingles ==
  ASSUME NEW S, NEW s \in Seq(S)
  PROVE  FlattenSeq([i \in 1 .. Len(s) |-> <<s[i]>>]) = s
<1> DEFINE t == [i \in 1 .. Len(s) |-> <<s[i]>>]
           h == [i \in 0 .. Len(s) |-> SubSeq(s, 1, i)]
<1>0. Len(s) \in Nat
  OBVIOUS
<1>1. t \in Seq(Seq(S)) /\ Len(t) = Len(s)
  OBVIOUS
<1>2. \A i \in 1 .. Len(s) : t[i] = <<s[i]>>
  OBVIOUS
<1>3. h[0] = <<>> /\ h[Len(s)] = s
  BY <1>0, SubSeqFull, SubSeqEmpty
<1>4. \A i \in 1 .. Len(s) : h[i] = h[i - 1] \o <<s[i]>>
  <2> TAKE i \in 1 .. Len(s)
  <2>1. SubSeq(s, 1, i) = SubSeq(s, 1, i - 1) \o <<s[i]>>
    BY <1>0, SubSeqRecursiveSecond
  <2>2. h[i] = SubSeq(s, 1, i) /\ h[i - 1] = SubSeq(s, 1, i - 1)
    BY <1>0
  <2> QED
    BY <2>1, <2>2, Zenon
<1> HIDE DEF h, t
<1>5. FlattenSeq(t) = h[Len(t)]
  <2>1. \A i \in 1 .. Len(t) : h[i] = h[i - 1] \o t[i]
    BY <1>1, <1>2, <1>4
  <2> QED
    BY <1>1, <1>3, <2>1, FlattenIs
<1> QED
  BY <1>1, <1>3, <1>5 DEF t

(***************************************************************************)
(* Base64 texts (libs/app_utils/base64.c)                                  *)
(***************************************************************************)
LEMMA ValidType ==
  ASSUME NEW text \in Seq(Character)
  PROVE  Valid(text) \in Seq(Character)
<1> DEFINE pieces == [i \in DOMAIN text |-> IF text[i] = Skipped THEN <<>> ELSE <<text[i]>>]
<1>1. pieces \in Seq(Seq(Character))
  <2>1. DOMAIN text = 1 .. Len(text) /\ Len(text) \in Nat
    OBVIOUS
  <2>2. \A i \in DOMAIN text : (IF text[i] = Skipped THEN <<>> ELSE <<text[i]>>) \in Seq(Character)
    OBVIOUS
  <2> QED
    BY <2>1, <2>2
<1> HIDE DEF pieces
<1>2. FlattenSeq(pieces) \in Seq(Character)
  BY <1>1, FlattenType
<1> QED
  BY <1>2 DEF Valid, pieces

LEMMA ValidConcat ==
  ASSUME NEW a \in Seq(Character), NEW b \in Seq(Character)
  PROVE  Valid(a \o b) = Valid(a) \o Valid(b)
<1> DEFINE piece(c) == IF c = Skipped THEN <<>> ELSE <<c>>
           pieces(t) == [i \in DOMAIN t |-> piece(t[i])]
<1>1. \A c \in Character : piece(c) \in Seq(Character)
  OBVIOUS
<1>2. \A t \in Seq(Character) : Valid(t) = FlattenSeq(pieces(t))
  BY Zenon DEF Valid
<1> HIDE DEF piece
<1>3. \A t \in Seq(Character) :
        /\ pieces(t) \in Seq(Seq(Character)) /\ Len(pieces(t)) = Len(t)
        /\ \A i \in 1 .. Len(t) : pieces(t)[i] = piece(t[i])
  <2> TAKE t \in Seq(Character)
  <2>1. DOMAIN t = 1 .. Len(t) /\ Len(t) \in Nat /\ \A i \in 1 .. Len(t) : t[i] \in Character
    OBVIOUS
  <2> QED
    BY <1>1, <2>1
<1> HIDE DEF pieces
<1>4. a \o b \in Seq(Character)
  OBVIOUS
<1>5. pieces(a \o b) = pieces(a) \o pieces(b)
  <2>1. /\ Len(a) \in Nat /\ Len(b) \in Nat /\ Len(a \o b) = Len(a) + Len(b)
        /\ \A i \in 1 .. Len(a) + Len(b) : (a \o b)[i] = IF i <= Len(a) THEN a[i] ELSE b[i - Len(a)]
    BY ConcatProperties
  <2>2. /\ pieces(a) \o pieces(b) \in Seq(Seq(Character))
        /\ Len(pieces(a) \o pieces(b)) = Len(a) + Len(b)
        /\ \A i \in 1 .. Len(a) + Len(b) : (pieces(a) \o pieces(b))[i]
             = IF i <= Len(a) THEN pieces(a)[i] ELSE pieces(b)[i - Len(a)]
    <3>1. pieces(a) \in Seq(Seq(Character)) /\ pieces(b) \in Seq(Seq(Character))
          /\ Len(pieces(a)) = Len(a) /\ Len(pieces(b)) = Len(b)
      BY <1>3
    <3> DEFINE p == pieces(a)
               q == pieces(b)
    <3>3. p \in Seq(Seq(Character)) /\ q \in Seq(Seq(Character))
          /\ Len(p) = Len(a) /\ Len(q) = Len(b)
      BY <3>1
    <3> HIDE DEF p, q
    <3>4. /\ p \o q \in Seq(Seq(Character))
          /\ Len(p \o q) = Len(a) + Len(b)
          /\ \A i \in 1 .. Len(a) + Len(b) : (p \o q)[i] = IF i <= Len(a) THEN p[i] ELSE q[i - Len(a)]
      <4>1. /\ p \o q \in Seq(Seq(Character))
            /\ Len(p \o q) = Len(p) + Len(q)
            /\ \A i \in 1 .. Len(p) + Len(q) : (p \o q)[i] = IF i <= Len(p) THEN p[i] ELSE q[i - Len(p)]
        BY <3>3, ConcatProperties
      <4> QED
        BY <3>3, <4>1, Zenon
    <3> QED
      BY <3>4 DEF p, q
  <2>3. \A i \in 1 .. Len(a) + Len(b) : pieces(a \o b)[i] = (pieces(a) \o pieces(b))[i]
    <3> TAKE i \in 1 .. Len(a) + Len(b)
    <3>1. CASE i <= Len(a)
      <4>1. i \in 1 .. Len(a)
        BY <2>1, <3>1
      <4> QED
        BY <1>3, <1>4, <2>1, <2>2, <3>1, <4>1
    <3>2. CASE ~(i <= Len(a))
      <4>1. i - Len(a) \in 1 .. Len(b)
        BY <2>1, <3>2
      <4> QED
        BY <1>3, <1>4, <2>1, <2>2, <3>2, <4>1
    <3> QED
      BY <3>1, <3>2
  <2>4. pieces(a \o b) \in Seq(Seq(Character)) /\ Len(pieces(a \o b)) = Len(a) + Len(b)
    BY <1>3, <1>4, <2>1
  <2> QED
    BY <2>2, <2>3, <2>4, SeqEqual
<1>6. FlattenSeq(pieces(a) \o pieces(b)) = FlattenSeq(pieces(a)) \o FlattenSeq(pieces(b))
  BY <1>3, FlattenConcat
<1> QED
  BY <1>2, <1>4, <1>5, <1>6, Zenon

LEMMA ValidWhole ==
  ASSUME NEW a \in Seq(Character), \A i \in 1 .. Len(a) : a[i] # Skipped
  PROVE  Valid(a) = a
<1>1. DOMAIN a = 1 .. Len(a)
  OBVIOUS
<1>2. Valid(a) = FlattenSeq([i \in 1 .. Len(a) |-> <<a[i]>>])
  BY <1>1 DEF Valid
<1> QED
  BY <1>2, FlattenSingles

LEMMA ValidSkipped == Valid(<<Skipped>>) = <<>>
<1> DEFINE t == [i \in 1 .. 1 |-> <<>>]
           h == [i \in 0 .. 1 |-> <<>>]
<1>1. t \in Seq(Seq(Character)) /\ Len(t) = 1 /\ t[1] = <<>>
  OBVIOUS
<1>2. h[0] = <<>> /\ h[1] = <<>>
  OBVIOUS
<1>3. Valid(<<Skipped>>) = FlattenSeq(t)
  BY DEF Valid
<1> HIDE DEF t, h
<1>4. \A i \in 1 .. Len(t) : h[i] = h[i - 1] \o t[i]
  BY <1>1, <1>2
<1>5. FlattenSeq(t) = h[Len(t)]
  BY <1>1, <1>2, <1>4, FlattenIs
<1> QED
  BY <1>1, <1>2, <1>3, <1>5

LEMMA ValidOfFlatten ==
  ASSUME NEW s \in Seq(Seq(Character)), NEW t \in Seq(Seq(Character)), Len(s) = Len(t),
         \A i \in 1 .. Len(s) : Valid(s[i]) = t[i]
  PROVE  Valid(FlattenSeq(s)) = FlattenSeq(t)
<1>0. Len(s) \in Nat
  OBVIOUS
<1>1. PICK f \in [0 .. Len(s) -> Seq(Character)] :
        /\ f[0] = <<>>
        /\ \A i \in 1 .. Len(s) : f[i] = f[i - 1] \o s[i]
        /\ FlattenSeq(s) = f[Len(s)]
  BY FlattenPrefixes
<1> DEFINE h == [i \in 0 .. Len(s) |-> Valid(f[i])]
<1>2. h[0] = <<>>
  <2>1. <<>> \in Seq(Character) /\ Len(<<>>) = 0
    OBVIOUS
  <2>2. Valid(<<>>) = <<>>
    <3>1. [i \in DOMAIN <<>> |-> IF <<>>[i] = Skipped THEN <<>> ELSE <<<<>>[i]>>] = <<>>
      OBVIOUS
    <3> QED
      BY <2>1, <3>1, Zenon DEF Valid, FlattenSeq
  <2> QED
    BY <1>0, <1>1, <2>2
<1>3. \A i \in 1 .. Len(t) : h[i] = h[i - 1] \o t[i]
  <2> TAKE i \in 1 .. Len(t)
  <2>1. i \in 1 .. Len(s) /\ i \in 0 .. Len(s) /\ i - 1 \in 0 .. Len(s)
    BY <1>0
  <2>2. f[i] = f[i - 1] \o s[i] /\ f[i - 1] \in Seq(Character) /\ s[i] \in Seq(Character)
    <3>1. s[i] \in Seq(Character)
      BY <2>1
    <3> QED
      BY <1>1, <2>1, <3>1
  <2>3. Valid(f[i]) = Valid(f[i - 1]) \o Valid(s[i])
    BY <2>2, ValidConcat
  <2>4. h[i] = Valid(f[i]) /\ h[i - 1] = Valid(f[i - 1])
    BY <2>1
  <2> QED
    BY <2>1, <2>3, <2>4
<1>4. h[Len(t)] = Valid(FlattenSeq(s))
  BY <1>0, <1>1
<1> HIDE DEF h
<1>5. FlattenSeq(t) = h[Len(t)]
  BY <1>2, <1>3, FlattenIs
<1> QED
  BY <1>4, <1>5

(* Blocks of four *)
LEMMA FlattenFours ==
  ASSUME NEW S, NEW s \in Seq(Seq(S)), \A i \in 1 .. Len(s) : Len(s[i]) = 4
  PROVE  /\ Len(FlattenSeq(s)) = 4 * Len(s)
         /\ \A n \in 1 .. Len(s) : SubSeq(FlattenSeq(s), 4 * n - 3, 4 * n) = s[n]
<1>0. Len(s) \in Nat /\ \A i \in 1 .. Len(s) : s[i] \in Seq(S)
  OBVIOUS
<1>1. PICK f \in [0 .. Len(s) -> Seq(S)] :
        /\ f[0] = <<>>
        /\ \A i \in 1 .. Len(s) : f[i] = f[i - 1] \o s[i]
        /\ FlattenSeq(s) = f[Len(s)]
  BY FlattenPrefixes
<1> DEFINE Holds(i) ==
      /\ Len(f[i]) = 4 * i
      /\ \A n \in 1 .. i : \A c \in 1 .. 4 : f[i][4 * (n - 1) + c] = s[n][c]
    T == {n \in 0 .. Len(s) : Holds(n)}
<1>2. 0 \in T
  BY <1>0, <1>1
<1>3. ASSUME NEW n \in T, n < Len(s) PROVE n + 1 \in T
  <2> DEFINE m == n + 1
  <2>1. m \in 1 .. Len(s) /\ m - 1 = n /\ m \in 0 .. Len(s) /\ n \in 0 .. Len(s) /\ n \in Nat
    BY <1>0, <1>3
  <2>2. f[m] = f[n] \o s[m] /\ f[n] \in Seq(S) /\ s[m] \in Seq(S) /\ Len(s[m]) = 4 /\ Holds(n)
    BY <1>0, <1>1, <2>1
  <2> HIDE DEF m
  <2>3. /\ Len(f[m]) = 4 * n + 4
        /\ \A i \in 1 .. 4 * n + 4 : f[m][i] = IF i <= 4 * n THEN f[n][i] ELSE s[m][i - 4 * n]
    BY <2>2, ConcatProperties
  <2>4. ASSUME NEW k \in 1 .. m, NEW c \in 1 .. 4
        PROVE  f[m][4 * (k - 1) + c] = s[k][c]
    <3>1. CASE k = m
      BY <2>1, <2>3, <3>1
    <3>2. CASE k # m
      <4>1. k \in 1 .. n
        BY <2>1, <3>2
      <4> QED
        <5>1. f[n][4 * (k - 1) + c] = s[k][c]
          BY <2>2, <4>1
        <5> DEFINE i == 4 * (k - 1) + c
        <5>2. i \in 1 .. 4 * n + 4 /\ i <= 4 * n
          BY <2>1, <4>1
        <5> HIDE DEF i
        <5>3. f[m][i] = f[n][i]
          BY <2>3, <5>2
        <5> QED
          BY <5>1, <5>3 DEF i
    <3> QED
      BY <3>1, <3>2
  <2>5. Holds(m)
    BY <2>1, <2>3, <2>4
  <2> QED
    BY <2>1, <2>5 DEF m
<1>4. T = 0 .. Len(s)
  <2>1. T \in SUBSET (0 .. Len(s))
    OBVIOUS
  <2> HIDE DEF T
  <2> QED
    BY <1>0, <1>2, <1>3, <2>1, CountingUp
<1>5. Holds(Len(s)) /\ f[Len(s)] \in Seq(S)
  <2>1. Len(s) \in 0 .. Len(s)
    BY <1>0
  <2> QED
    BY <1>4, <2>1
<1>6. ASSUME NEW n \in 1 .. Len(s)
      PROVE  SubSeq(f[Len(s)], 4 * n - 3, 4 * n) = s[n]
  <2> DEFINE text == f[Len(s)]
             block == SubSeq(text, 4 * n - 3, 4 * n)
  <2>1. text \in Seq(S) /\ Len(text) = 4 * Len(s) /\ n \in Nat
        /\ \A c \in 1 .. 4 : text[4 * (n - 1) + c] = s[n][c]
    BY <1>0, <1>5
  <2> HIDE DEF text
  <2>2. 4 * n - 3 \in Int /\ 4 * n \in Int /\ \A i \in 4 * n - 3 .. 4 * n : text[i] \in S
    BY <1>0, <2>1
  <2>3. /\ block \in Seq(S) /\ Len(block) = 4
        /\ \A i \in 1 .. 4 : block[i] = text[4 * n - 3 + i - 1]
    BY <2>1, <2>2, SubSeqProperties
  <2>4. s[n] \in Seq(S) /\ Len(s[n]) = 4 /\ \A i \in 1 .. 4 : block[i] = s[n][i]
    BY <1>0, <2>1, <2>3
  <2> HIDE DEF block
  <2>5. block = s[n]
    BY <2>3, <2>4, SeqEqual
  <2> QED
    BY <2>5 DEF block, text
<1> QED
  BY <1>0, <1>1, <1>5, <1>6

Octet == 0 .. 255

LEMMA TwoJoined ==
  ASSUME NEW S, NEW a \in S, NEW b \in S PROVE <<a>> \o <<b>> = <<a, b>>
<1> DEFINE p == <<a>>
           q == <<b>>
           r == <<a, b>>
<1>1. p \in Seq(S) /\ q \in Seq(S) /\ Len(p) = 1 /\ Len(q) = 1 /\ r \in Seq(S) /\ Len(r) = 2
      /\ p[1] = a /\ q[1] = b /\ r[1] = a /\ r[2] = b
  OBVIOUS
<1> HIDE DEF p, q, r
<1>2. p \o q \in Seq(S) /\ Len(p \o q) = 2 /\ (p \o q)[1] = a /\ (p \o q)[2] = b
  BY <1>1, ConcatProperties
<1>3. p \o q = r
  BY <1>1, <1>2, SeqEqual
<1> QED BY <1>3 DEF p, q, r

LEMMA ThreeJoined ==
  ASSUME NEW S, NEW a \in S, NEW b \in S, NEW c \in S PROVE <<a>> \o <<b>> \o <<c>> = <<a, b, c>>
<1> DEFINE p == <<a, b>>
           q == <<c>>
           r == <<a, b, c>>
<1>1. p \in Seq(S) /\ q \in Seq(S) /\ Len(p) = 2 /\ Len(q) = 1 /\ r \in Seq(S) /\ Len(r) = 3
      /\ p[1] = a /\ p[2] = b /\ q[1] = c /\ r[1] = a /\ r[2] = b /\ r[3] = c
  OBVIOUS
<1> HIDE DEF p, q, r
<1>2. p \o q \in Seq(S) /\ Len(p \o q) = 3 /\ (p \o q)[1] = a /\ (p \o q)[2] = b /\ (p \o q)[3] = c
  <2>1. /\ p \o q \in Seq(S) /\ Len(p \o q) = Len(p) + Len(q)
        /\ \A i \in 1 .. Len(p) + Len(q) : (p \o q)[i] = IF i <= Len(p) THEN p[i] ELSE q[i - Len(p)]
    BY <1>1, ConcatProperties
  <2>2. \A i \in 1 .. 3 : (p \o q)[i] = IF i <= 2 THEN p[i] ELSE q[i - 2]
    BY <1>1, <2>1
  <2> QED
    BY <1>1, <2>1, <2>2
<1>3. p \o q = r
  BY <1>1, <1>2, SeqEqual
<1> QED BY <1>3, TwoJoined DEF p, q, r

(* Three bytes become four characters, from which they are read again, and *)
(* so are two bytes and one byte if the rest is padding.                   *)
LEMMA SextetsBack ==
  ASSUME NEW b1 \in Octet, NEW b2 \in Octet, NEW b3 \in Octet
  PROVE  \E c1, c2, c3, c4 \in 0 .. 63 :
           /\ Sextets(b1, b2, b3) = <<c1, c2, c3, c4>>
           /\ DecodedBlock(<<c1, c2, c3, c4>>) = <<b1, b2, b3>>
           /\ DecodedBlock(<<c1, c2, c3, Pad>>) = <<b1, b2>>
           /\ DecodedBlock(<<c1, c2, Pad, Pad>>) = <<b1>>
<1> DEFINE c1 == b1 \div 4
           c2 == (b1 % 4) * 16 + (b2 \div 16)
           c3 == (b2 % 16) * 4 + (b3 \div 64)
           c4 == b3 % 64
<1>1. b1 = 4 * (b1 \div 4) + (b1 % 4) /\ b1 % 4 \in 0 .. 3 /\ b1 \div 4 \in 0 .. 63
  BY DEF Octet
<1>2. b2 = 16 * (b2 \div 16) + (b2 % 16) /\ b2 % 16 \in 0 .. 15 /\ b2 \div 16 \in 0 .. 15
  BY DEF Octet
<1>3. b3 = 64 * (b3 \div 64) + (b3 % 64) /\ b3 % 64 \in 0 .. 63 /\ b3 \div 64 \in 0 .. 3
  BY DEF Octet
<1>4. ASSUME NEW q \in 0 .. 3, NEW r \in 0 .. 15
      PROVE  (q * 16 + r) \div 16 = q /\ (q * 16 + r) % 16 = r
  BY <1>4
<1>5. ASSUME NEW q \in 0 .. 15, NEW r \in 0 .. 3
      PROVE  (q * 4 + r) \div 4 = q /\ (q * 4 + r) % 4 = r
  BY <1>5
<1>6. Sextets(b1, b2, b3) = <<c1, c2, c3, c4>>
  BY DEF Sextets
<1>7. c1 \in 0 .. 63 /\ c2 \in 0 .. 63 /\ c3 \in 0 .. 63 /\ c4 \in 0 .. 63
  BY <1>1, <1>2, <1>3
<1>8. /\ c1 * 4 + (c2 \div 16) = b1
      /\ (c2 % 16) * 16 + (c3 \div 4) = b2
      /\ (c3 % 4) * 64 + c4 = b3
  BY <1>1, <1>2, <1>3, <1>4, <1>5
<1> HIDE DEF c1, c2, c3, c4
<1>9. c3 # Pad /\ c4 # Pad
  BY <1>7 DEF Pad
<1>10. DecodedBlock(<<c1, c2, c3, c4>>) = <<b1>> \o <<b2>> \o <<b3>>
  BY <1>8, <1>9 DEF DecodedBlock
<1>11. DecodedBlock(<<c1, c2, c3, Pad>>) = <<b1>> \o <<b2>> \o <<>>
  BY <1>8, <1>9 DEF DecodedBlock
<1>12. DecodedBlock(<<c1, c2, Pad, Pad>>) = <<b1>> \o <<>> \o <<>>
  BY <1>8, <1>9 DEF DecodedBlock
<1>13. /\ <<b1>> \o <<b2>> = <<b1, b2>>
       /\ <<b1>> \o <<b2>> \o <<b3>> = <<b1, b2, b3>>
  BY TwoJoined, ThreeJoined
<1>14. <<b1, b2>> \o <<>> = <<b1, b2>> /\ <<b1>> \o <<>> \o <<>> = <<b1>>
  <2>1. <<b1, b2>> \in Seq(Octet) /\ <<b1>> \in Seq(Octet)
    OBVIOUS
  <2> QED
    BY <2>1, ConcatEmptySeq
<1>15. /\ DecodedBlock(<<c1, c2, c3, c4>>) = <<b1, b2, b3>>
       /\ DecodedBlock(<<c1, c2, c3, Pad>>) = <<b1, b2>>
       /\ DecodedBlock(<<c1, c2, Pad, Pad>>) = <<b1>>
  BY <1>10, <1>11, <1>12, <1>13, <1>14, Zenon
<1> QED
  BY <1>6, <1>7, <1>15, Zenon

LEMMA BlockCount ==
  ASSUME NEW n \in Nat
  PROVE  LET blocks == (n + 2) \div 3
         IN  blocks \in Nat /\ 3 * blocks >= n /\ 3 * blocks < n + 3
  OBVIOUS

(* The number of bytes in the first blocks.                                 *)
BytesIn(bytes, blocks) == IF 3 * blocks <= Len(bytes) THEN 3 * blocks ELSE Len(bytes)

LEMMA BlockBack ==
  ASSUME NEW bytes \in Seq(Octet), NEW i \in 0 .. BlocksOf(bytes) - 1
  PROVE  LET block == EncodedBlock(bytes, i)
         IN  /\ block \in Seq(0 .. 64) /\ Len(block) = 4
             /\ BlockIsOk(block)
             /\ i < BlocksOf(bytes) - 1 => block[4] # Pad
             /\ DecodedBlock(block)
                  = SubSeq(bytes, BytesIn(bytes, i) + 1, BytesIn(bytes, i + 1))
<1> DEFINE byte(k) == IF 3 * i + k <= Len(bytes) THEN bytes[3 * i + k] ELSE 0
           n == Len(bytes)
           first == BytesIn(bytes, i) + 1
           last == BytesIn(bytes, i + 1)
           part == SubSeq(bytes, first, last)
<1>0. n \in Nat /\ \A k \in 1 .. n : bytes[k] \in Octet
  OBVIOUS
<1>1. /\ i \in Nat /\ 3 * i < n
      /\ i < BlocksOf(bytes) - 1 => 3 * i + 3 < n
      /\ i = BlocksOf(bytes) - 1 => 3 * i + 3 >= n
  BY <1>0, BlockCount DEF BlocksOf
<1>2. byte(1) \in Octet /\ byte(2) \in Octet /\ byte(3) \in Octet /\ byte(1) = bytes[3 * i + 1]
      /\ (n - 3 * i >= 2 => byte(2) = bytes[3 * i + 2])
      /\ (n - 3 * i >= 3 => byte(3) = bytes[3 * i + 3])
  BY <1>0, <1>1 DEF Octet
<1>3. PICK b1 \in Octet, b2 \in Octet, b3 \in Octet :
        /\ b1 = byte(1) /\ b2 = byte(2) /\ b3 = byte(3)
        /\ b1 = bytes[3 * i + 1]
        /\ n - 3 * i >= 2 => b2 = bytes[3 * i + 2]
        /\ n - 3 * i >= 3 => b3 = bytes[3 * i + 3]
  <2> HIDE DEF byte, n
  <2> QED
    BY <1>2
<1>4. PICK c1 \in 0 .. 63, c2 \in 0 .. 63, c3 \in 0 .. 63, c4 \in 0 .. 63 :
        /\ Sextets(b1, b2, b3) = <<c1, c2, c3, c4>>
        /\ DecodedBlock(<<c1, c2, c3, c4>>) = <<b1, b2, b3>>
        /\ DecodedBlock(<<c1, c2, c3, Pad>>) = <<b1, b2>>
        /\ DecodedBlock(<<c1, c2, Pad, Pad>>) = <<b1>>
  BY SextetsBack, Zenon
<1>5. EncodedBlock(bytes, i) = <<c1, c2, IF n - 3 * i >= 2 THEN c3 ELSE Pad,
                                 IF n - 3 * i >= 3 THEN c4 ELSE Pad>>
  <2> DEFINE s == Sextets(byte(1), byte(2), byte(3))
  <2>1. EncodedBlock(bytes, i) = <<s[1], s[2], IF n - 3 * i >= 2 THEN s[3] ELSE Pad,
                                   IF n - 3 * i >= 3 THEN s[4] ELSE Pad>>
    BY DEF EncodedBlock
  <2>2. s = <<c1, c2, c3, c4>>
    <3> HIDE DEF byte
    <3> QED
      BY <1>3, <1>4
  <2> HIDE DEF s, byte
  <2>3. s[1] = c1 /\ s[2] = c2 /\ s[3] = c3 /\ s[4] = c4
    BY <2>2
  <2> QED
    BY <2>1, <2>3
<1>6. first = 3 * i + 1 /\ last = (IF 3 * i + 3 <= n THEN 3 * i + 3 ELSE n)
  BY <1>0, <1>1 DEF BytesIn
<1> HIDE DEF byte, first, last
<1>7. /\ part \in Seq(Octet)
      /\ Len(part) = (IF 3 * i + 3 <= n THEN 3 ELSE n - 3 * i)
      /\ \A k \in 1 .. Len(part) : part[k] = bytes[3 * i + k]
  <2>1. first \in Int /\ last \in Int /\ \A k \in first .. last : bytes[k] \in Octet
    BY <1>0, <1>1, <1>6
  <2>2. /\ part \in Seq(Octet)
        /\ Len(part) = IF first <= last THEN last - first + 1 ELSE 0
        /\ \A k \in 1 .. last - first + 1 : part[k] = bytes[first + k - 1]
    BY <2>1, SubSeqProperties
  <2> HIDE DEF part
  <2>3. /\ Len(part) = last - first + 1
        /\ last - first + 1 = (IF 3 * i + 3 <= n THEN 3 ELSE n - 3 * i)
    <3>1. first <= last /\ last - first + 1 = (IF 3 * i + 3 <= n THEN 3 ELSE n - 3 * i)
      <4>1. CASE 3 * i + 3 <= n
        BY <1>0, <1>1, <1>6, <4>1
      <4>2. CASE ~(3 * i + 3 <= n)
        BY <1>0, <1>1, <1>6, <4>2
      <4> QED
        BY <4>1, <4>2
    <3> QED
      BY <2>2, <3>1
  <2>4. ASSUME NEW k \in 1 .. last - first + 1 PROVE part[k] = bytes[3 * i + k]
    <3>1. first + k - 1 = 3 * i + k
      <4>1. CASE 3 * i + 3 <= n
        BY <1>0, <1>1, <1>6, <4>1
      <4>2. CASE ~(3 * i + 3 <= n)
        BY <1>0, <1>1, <1>6, <4>2
      <4> QED
        BY <4>1, <4>2
    <3> QED
      BY <2>2, <3>1
  <2> QED
    BY <2>2, <2>3, <2>4
<1> HIDE DEF n, part
<1>8. c3 # Pad /\ c4 # Pad /\ c1 # Pad /\ c2 # Pad /\ Pad \in 0 .. 64
      /\ c1 \in 0 .. 64 /\ c2 \in 0 .. 64 /\ c3 \in 0 .. 64 /\ c4 \in 0 .. 64
  BY DEF Pad
<1>9. CASE 3 * i + 3 <= n
  <2>1. EncodedBlock(bytes, i) = <<c1, c2, c3, c4>>
    BY <1>0, <1>1, <1>5, <1>9
  <2>2. <<b1, b2, b3>> \in Seq(Octet) /\ Len(<<b1, b2, b3>>) = 3
    OBVIOUS
  <2>3. part = <<b1, b2, b3>>
    BY <1>0, <1>1, <1>3, <1>7, <1>9, <2>2, SeqEqual
  <2>4. DecodedBlock(<<c1, c2, c3, c4>>) = <<b1, b2, b3>>
    BY <1>4, Zenon
  <2>5. <<c1, c2, c3, c4>> \in Seq(0 .. 64) /\ Len(<<c1, c2, c3, c4>>) = 4
        /\ BlockIsOk(<<c1, c2, c3, c4>>) /\ <<c1, c2, c3, c4>>[4] # Pad
    BY <1>8 DEF BlockIsOk
  <2> QED
    BY <2>1, <2>3, <2>4, <2>5 DEF part, first, last
<1>10. CASE n = 3 * i + 2
  <2>1. EncodedBlock(bytes, i) = <<c1, c2, c3, Pad>>
    BY <1>0, <1>1, <1>5, <1>10
  <2>2. <<b1, b2>> \in Seq(Octet) /\ Len(<<b1, b2>>) = 2
    OBVIOUS
  <2>3. part = <<b1, b2>>
    BY <1>0, <1>1, <1>3, <1>7, <1>10, <2>2, SeqEqual
  <2>4. DecodedBlock(<<c1, c2, c3, Pad>>) = <<b1, b2>>
    BY <1>4, Zenon
  <2>5. <<c1, c2, c3, Pad>> \in Seq(0 .. 64) /\ Len(<<c1, c2, c3, Pad>>) = 4
        /\ BlockIsOk(<<c1, c2, c3, Pad>>)
    BY <1>8 DEF BlockIsOk
  <2>6. ~(i < BlocksOf(bytes) - 1)
    BY <1>0, <1>1, <1>10
  <2> QED
    BY <2>1, <2>3, <2>4, <2>5, <2>6 DEF part, first, last
<1>11. CASE n = 3 * i + 1
  <2>1. EncodedBlock(bytes, i) = <<c1, c2, Pad, Pad>>
    BY <1>0, <1>1, <1>5, <1>11
  <2>2. <<b1>> \in Seq(Octet) /\ Len(<<b1>>) = 1
    OBVIOUS
  <2>3. part = <<b1>>
    BY <1>0, <1>1, <1>3, <1>7, <1>11, <2>2, SeqEqual
  <2>4. DecodedBlock(<<c1, c2, Pad, Pad>>) = <<b1>>
    BY <1>4, Zenon
  <2>5. <<c1, c2, Pad, Pad>> \in Seq(0 .. 64) /\ Len(<<c1, c2, Pad, Pad>>) = 4
        /\ BlockIsOk(<<c1, c2, Pad, Pad>>)
    BY <1>8 DEF BlockIsOk
  <2>6. ~(i < BlocksOf(bytes) - 1)
    BY <1>0, <1>1, <1>11
  <2> QED
    BY <2>1, <2>3, <2>4, <2>5, <2>6 DEF part, first, last
<1> QED
  BY <1>0, <1>1, <1>9, <1>10, <1>11

(* The text of some bytes, without its line breaks.                         *)
Blocks(bytes) == [n \in 1 .. BlocksOf(bytes) |-> EncodedBlock(bytes, n - 1)]

LEMMA BlocksType ==
  ASSUME NEW bytes \in Seq(Octet)
  PROVE  /\ BlocksOf(bytes) \in Nat
         /\ Blocks(bytes) \in Seq(Seq(0 .. 64)) /\ Len(Blocks(bytes)) = BlocksOf(bytes)
         /\ \A n \in 1 .. BlocksOf(bytes) :
              /\ Blocks(bytes)[n] = EncodedBlock(bytes, n - 1)
              /\ n - 1 \in 0 .. BlocksOf(bytes) - 1
              /\ EncodedBlock(bytes, n - 1) \in Seq(0 .. 64)
              /\ Len(EncodedBlock(bytes, n - 1)) = 4
<1>1. Len(bytes) \in Nat
  OBVIOUS
<1>2. BlocksOf(bytes) \in Nat
  BY <1>1, BlockCount DEF BlocksOf
<1>3. \A n \in 1 .. BlocksOf(bytes) :
        /\ n - 1 \in 0 .. BlocksOf(bytes) - 1
        /\ EncodedBlock(bytes, n - 1) \in Seq(0 .. 64)
        /\ Len(EncodedBlock(bytes, n - 1)) = 4
  <2> TAKE n \in 1 .. BlocksOf(bytes)
  <2>1. n - 1 \in 0 .. BlocksOf(bytes) - 1
    BY <1>2
  <2> QED
    BY <2>1, BlockBack
<1> QED
  BY <1>2, <1>3 DEF Blocks

LEMMA TextWithoutBreaks ==
  ASSUME NEW bytes \in Seq(Octet), NEW max_line_len \in Nat
  PROVE  /\ Valid(base64_encode(bytes, max_line_len)) = FlattenSeq(Blocks(bytes))
         /\ base64_encode(bytes, max_line_len) \in Seq(Character)
<1> DEFINE N == BlocksOf(bytes)
           break(n) == IF EndsLine(n - 1, max_line_len) THEN <<Skipped>> ELSE <<>>
           lines == [n \in 1 .. N |-> EncodedBlock(bytes, n - 1) \o break(n)]
<1>1. base64_encode(bytes, max_line_len) = FlattenSeq(lines)
  BY DEF base64_encode
<1>2. N \in Nat
  BY BlocksType
<1>3. /\ <<Skipped>> \in Seq(Character) /\ <<>> \in Seq(Character)
      /\ 0 .. 64 \subseteq Character /\ \A c \in 0 .. 64 : c # Skipped
  BY DEF Skipped, Character
<1>4. Seq(0 .. 64) \subseteq Seq(Character)
  BY <1>3, SeqMonotonic
<1>5. Valid(<<>>) = <<>>
  <2>1. [i \in DOMAIN <<>> |-> IF <<>>[i] = Skipped THEN <<>> ELSE <<<<>>[i]>>] = <<>>
    OBVIOUS
  <2>2. Len(<<>>) = 0
    OBVIOUS
  <2> QED
    BY <2>1, <2>2, Zenon DEF Valid, FlattenSeq
<1>6. ASSUME NEW n \in 1 .. N
      PROVE  /\ EncodedBlock(bytes, n - 1) \o break(n) \in Seq(Character)
             /\ Valid(EncodedBlock(bytes, n - 1) \o break(n)) = EncodedBlock(bytes, n - 1)
  <2> DEFINE b == EncodedBlock(bytes, n - 1)
  <2>1. b \in Seq(0 .. 64) /\ Len(b) = 4
    BY BlocksType
  <2>2. b \in Seq(Character) /\ \A i \in 1 .. Len(b) : b[i] # Skipped
    <3> HIDE DEF b
    <3>1. b \in Seq(Character)
      BY <1>4, <2>1
    <3>2. \A i \in 1 .. Len(b) : b[i] \in 0 .. 64
      BY <2>1, ElementOfSeq
    <3> QED
      BY <1>3, <3>1, <3>2
  <2> HIDE DEF b
  <2>3. Valid(b) = b
    BY <2>2, ValidWhole
  <2>4. break(n) \in Seq(Character) /\ Valid(break(n)) = <<>>
    BY <1>3, <1>5, ValidSkipped
  <2> HIDE DEF break
  <2>5. b \o break(n) \in Seq(Character) /\ Valid(b \o break(n)) = Valid(b) \o Valid(break(n))
    BY <2>2, <2>4, ValidConcat, ConcatProperties
  <2>6. b \o <<>> = b
    BY <2>2, ConcatEmptySeq
  <2> QED
    BY <2>3, <2>4, <2>5, <2>6 DEF b
<1>7. lines \in Seq(Seq(Character)) /\ Len(lines) = N
      /\ \A n \in 1 .. N : lines[n] = EncodedBlock(bytes, n - 1) \o break(n)
  <2> HIDE DEF break
  <2>1. \A n \in 1 .. N : EncodedBlock(bytes, n - 1) \o break(n) \in Seq(Character)
    BY <1>6
  <2> DEFINE line(n) == EncodedBlock(bytes, n - 1) \o break(n)
  <2>2. \A n \in 1 .. N : line(n) \in Seq(Character)
    BY <2>1
  <2>3. lines = [n \in 1 .. N |-> line(n)]
    OBVIOUS
  <2> HIDE DEF line, lines
  <2>4. lines \in Seq(Seq(Character)) /\ Len(lines) = N
        /\ \A n \in 1 .. N : lines[n] = line(n)
    BY <1>2, <2>2, <2>3
  <2> QED
    BY <2>4 DEF line
<1> HIDE DEF lines, break
<1>8. Blocks(bytes) \in Seq(Seq(Character)) /\ Len(Blocks(bytes)) = N
      /\ \A n \in 1 .. N : Blocks(bytes)[n] = EncodedBlock(bytes, n - 1)
  <2>1. Seq(Seq(0 .. 64)) \subseteq Seq(Seq(Character))
    BY <1>4, SeqMonotonic
  <2> QED
    BY <2>1, BlocksType
<1>9. Valid(FlattenSeq(lines)) = FlattenSeq(Blocks(bytes))
  BY <1>6, <1>7, <1>8, ValidOfFlatten
<1>10. FlattenSeq(lines) \in Seq(Character)
  BY <1>7, FlattenType
<1> QED
  BY <1>1, <1>9, <1>10

LEMMA Base64Back ==
  ASSUME NEW bytes \in Seq(Octet), NEW max_line_len \in Nat
  PROVE  base64_decode(base64_encode(bytes, max_line_len))
           = IF bytes = <<>> THEN NotBase64 ELSE bytes
<1> DEFINE N == BlocksOf(bytes)
           text == base64_encode(bytes, max_line_len)
           valid == FlattenSeq(Blocks(bytes))
           block(n) == SubSeq(valid, 4 * n - 3, 4 * n)
           decoded == [n \in 1 .. N |-> DecodedBlock(block(n))]
           h == [i \in 0 .. N |-> SubSeq(bytes, 1, BytesIn(bytes, i))]
<1>0. Len(bytes) \in Nat /\ N \in Nat
  BY BlocksType
<1>1. Valid(text) = valid
  BY TextWithoutBreaks
<1>2. Len(valid) = 4 * N /\ \A n \in 1 .. N : block(n) = EncodedBlock(bytes, n - 1)
  <2>1. \A n \in 1 .. Len(Blocks(bytes)) : Len(Blocks(bytes)[n]) = 4
    BY BlocksType
  <2>2. Blocks(bytes) \in Seq(Seq(0 .. 64)) /\ Len(Blocks(bytes)) = N
    BY BlocksType
  <2>3. /\ Len(FlattenSeq(Blocks(bytes))) = 4 * Len(Blocks(bytes))
        /\ \A n \in 1 .. Len(Blocks(bytes)) :
             SubSeq(FlattenSeq(Blocks(bytes)), 4 * n - 3, 4 * n) = Blocks(bytes)[n]
    BY <2>1, <2>2, FlattenFours
  <2>4. \A n \in 1 .. N : Blocks(bytes)[n] = EncodedBlock(bytes, n - 1)
    BY BlocksType
  <2> QED
    BY <2>2, <2>3, <2>4, Zenon
<1> HIDE DEF text, valid, block
<1>3. Len(valid) % 4 = 0 /\ Len(valid) \div 4 = N
  BY <1>0, <1>2
<1>4. \A n \in 1 .. N : BlockIsOk(block(n))
  BY <1>2, BlocksType, BlockBack
<1>5. \A n \in 1 .. N - 1 : block(n)[4] # Pad
  <2> TAKE n \in 1 .. N - 1
  <2>1. n \in 1 .. N /\ n - 1 \in 0 .. N - 1 /\ n - 1 < N - 1
    BY <1>0
  <2>2. EncodedBlock(bytes, n - 1)[4] # Pad
    BY <2>1, BlockBack
  <2> QED
    BY <1>2, <2>1, <2>2
<1>6. base64_decode(text) = IF valid # <<>> THEN FlattenSeq(decoded) ELSE NotBase64
  <2>1. base64_decode(text)
          = IF /\ valid # <<>> /\ Len(valid) % 4 = 0
               /\ \A n \in 1 .. Len(valid) \div 4 : BlockIsOk(block(n))
               /\ \A n \in 1 .. Len(valid) \div 4 - 1 : block(n)[4] # Pad
              THEN FlattenSeq([n \in 1 .. Len(valid) \div 4 |-> DecodedBlock(block(n))])
              ELSE NotBase64
    BY <1>1, Zenon DEF base64_decode, block
  <2> QED
    BY <1>3, <1>4, <1>5, <2>1, Zenon
<1>7. valid = <<>> <=> bytes = <<>>
  <2>1. valid \in Seq(0 .. 64)
    BY BlocksType, FlattenType DEF valid
  <2>2. N = 0 <=> Len(bytes) = 0
    BY <1>0, BlockCount DEF BlocksOf
  <2>3. valid = <<>> <=> Len(valid) = 0
    BY <2>1
  <2>4. bytes = <<>> <=> Len(bytes) = 0
    OBVIOUS
  <2> QED
    BY <1>0, <1>2, <2>2, <2>3, <2>4
<1>8. \A n \in 1 .. N : DecodedBlock(block(n)) = SubSeq(bytes, BytesIn(bytes, n - 1) + 1, BytesIn(bytes, n))
  <2> TAKE n \in 1 .. N
  <2>1. n - 1 \in 0 .. N - 1 /\ (n - 1) + 1 = n
    BY <1>0
  <2> QED
    BY <1>2, <2>1, BlockBack
<1>9. \A n \in 0 .. N : BytesIn(bytes, n) \in 0 .. Len(bytes)
  BY <1>0 DEF BytesIn
<1>10. BytesIn(bytes, N) = Len(bytes) /\ BytesIn(bytes, 0) = 0
       /\ \A n \in 1 .. N : BytesIn(bytes, n - 1) <= BytesIn(bytes, n)
  <2>1. 3 * N >= Len(bytes)
    BY <1>0, BlockCount DEF BlocksOf
  <2> QED
    BY <1>0, <2>1 DEF BytesIn
<1>11. \A n \in 1 .. N : DecodedBlock(block(n)) \in Seq(Octet)
  <2> TAKE n \in 1 .. N
  <2> DEFINE a == BytesIn(bytes, n - 1) + 1
             b == BytesIn(bytes, n)
  <2>1. a \in Int /\ b \in Int /\ a >= 1 /\ b <= Len(bytes)
    BY <1>0, <1>9
  <2>2. DecodedBlock(block(n)) = SubSeq(bytes, a, b)
    BY <1>8
  <2> HIDE DEF a, b
  <2>3. \A k \in a .. b : bytes[k] \in Octet
    BY <1>0, <2>1
  <2>4. SubSeq(bytes, a, b) \in Seq(Octet)
    BY <2>1, <2>3, SubSeqProperties
  <2> QED
    BY <2>2, <2>4
<1>12. decoded \in Seq(Seq(Octet)) /\ Len(decoded) = N
       /\ \A n \in 1 .. N : decoded[n] = DecodedBlock(block(n))
  BY <1>0, <1>11
<1> HIDE DEF decoded
<1>13. ASSUME NEW n \in 1 .. N PROVE h[n] = h[n - 1] \o decoded[n]
  <2> DEFINE a == BytesIn(bytes, n - 1)
             b == BytesIn(bytes, n)
  <2>1. a \in 0 .. Len(bytes) /\ b \in a .. Len(bytes)
    BY <1>0, <1>9, <1>10
  <2>2. h[n] = SubSeq(bytes, 1, b) /\ h[n - 1] = SubSeq(bytes, 1, a)
    <3>1. n \in 0 .. N /\ n - 1 \in 0 .. N
      BY <1>0
    <3> QED
      BY <3>1, Zenon
  <2>3. decoded[n] = SubSeq(bytes, a + 1, b)
    BY <1>8, <1>12
  <2> HIDE DEF a, b, h
  <2>4. 1 \in 1 .. Len(bytes) + 1 /\ a \in 1 - 1 .. Len(bytes)
    BY <1>0, <2>1
  <2>5. SubSeq(bytes, 1, a) \o SubSeq(bytes, a + 1, b) = SubSeq(bytes, 1, b)
    BY <2>1, <2>4, ConcatAdjacentSubSeq
  <2> QED
    BY <2>2, <2>3, <2>5
<1>14. h[0] = <<>> /\ h[N] = bytes
  BY <1>0, <1>10, SubSeqEmpty, SubSeqFull
<1> HIDE DEF h
<1>15. FlattenSeq(decoded) = h[Len(decoded)]
  <2>1. \A n \in 1 .. Len(decoded) : h[n] = h[n - 1] \o decoded[n]
    BY <1>12, <1>13
  <2> QED
    BY <1>12, <1>14, <2>1, FlattenIs
<1> QED
  BY <1>6, <1>7, <1>12, <1>14, <1>15, Zenon DEF text

(* What is left of a text has no character that is skipped.                 *)
LEMMA ValidClean ==
  ASSUME NEW text \in Seq(Character)
  PROVE  Valid(text) \in Seq(0 .. 64)
<1> DEFINE pieces == [i \in DOMAIN text |-> IF text[i] = Skipped THEN <<>> ELSE <<text[i]>>]
<1>1. pieces \in Seq(Seq(0 .. 64))
  <2>1. DOMAIN text = 1 .. Len(text) /\ Len(text) \in Nat
    OBVIOUS
  <2>2. \A i \in DOMAIN text : text[i] \in Character
    BY <2>1, ElementOfSeq
  <2>3. \A i \in DOMAIN text : (IF text[i] = Skipped THEN <<>> ELSE <<text[i]>>) \in Seq(0 .. 64)
    <3> TAKE i \in DOMAIN text
    <3>1. text[i] = Skipped \/ text[i] \in 0 .. 64
      BY <2>2 DEF Character, Skipped
    <3>2. CASE text[i] = Skipped
      BY <3>2
    <3>3. CASE text[i] # Skipped
      BY <3>1, <3>3
    <3> QED
      BY <3>2, <3>3
  <2> QED
    BY <2>1, <2>3
<1> HIDE DEF pieces
<1>2. FlattenSeq(pieces) \in Seq(0 .. 64)
  BY <1>1, FlattenType
<1> QED
  BY <1>2 DEF Valid, pieces

LEMMA DecodedBytes ==
  ASSUME NEW c1 \in 0 .. 63, NEW c2 \in 0 .. 63, NEW c3 \in 0 .. 63, NEW c4 \in 0 .. 63
  PROVE  /\ c1 * 4 + (c2 \div 16) \in Octet
         /\ (c2 % 16) * 16 + (c3 \div 4) \in Octet
         /\ (c3 % 4) * 64 + c4 \in Octet
<1>1. c2 \div 16 \in 0 .. 3 /\ c2 % 16 \in 0 .. 15 /\ c3 \div 4 \in 0 .. 15 /\ c3 % 4 \in 0 .. 3
  OBVIOUS
<1> QED
  BY <1>1 DEF Octet

LEMMA DecodedBlockType ==
  ASSUME NEW c \in Seq(0 .. 64), Len(c) = 4, BlockIsOk(c)
  PROVE  DecodedBlock(c) \in Seq(Octet) /\ DecodedBlock(c) # <<>>
<1>0. \A i \in 1 .. 4 : c[i] \in 0 .. 64
  BY ElementOfSeq
<1>1. /\ c[1] \in 0 .. 63 /\ c[2] \in 0 .. 63 /\ c[3] \in 0 .. 64 /\ c[4] \in 0 .. 64
      /\ c[3] = Pad => c[4] = Pad
  BY <1>0 DEF BlockIsOk, Pad
<1> DEFINE a == <<c[1] * 4 + (c[2] \div 16)>>
           b == IF c[3] = Pad THEN <<>> ELSE <<(c[2] % 16) * 16 + (c[3] \div 4)>>
           d == IF c[4] = Pad THEN <<>> ELSE <<(c[3] % 4) * 64 + c[4]>>
<1>2. a \in Seq(Octet) /\ Len(a) = 1
  <2>1. c[1] * 4 + (c[2] \div 16) \in Octet
    BY <1>1, DecodedBytes, Zenon
  <2> QED
    BY <2>1
<1>3. b \in Seq(Octet)
  <2>1. CASE c[3] = Pad
    BY <2>1
  <2>2. CASE c[3] # Pad
    <3>1. c[3] \in 0 .. 63
      BY <1>1, <2>2 DEF Pad
    <3>2. (c[2] % 16) * 16 + (c[3] \div 4) \in Octet
      BY <1>1, <3>1, DecodedBytes, Zenon
    <3> QED
      BY <2>2, <3>2
  <2> QED
    BY <2>1, <2>2
<1>4. d \in Seq(Octet)
  <2>1. CASE c[4] = Pad
    BY <2>1
  <2>2. CASE c[4] # Pad
    <3>1. c[3] \in 0 .. 63 /\ c[4] \in 0 .. 63
      BY <1>1, <2>2 DEF Pad
    <3>2. (c[3] % 4) * 64 + c[4] \in Octet
      BY <1>1, <3>1, DecodedBytes, Zenon
    <3> QED
      BY <2>2, <3>2
  <2> QED
    BY <2>1, <2>2
<1>5. DecodedBlock(c) = a \o b \o d
  BY Zenon DEF DecodedBlock
<1> HIDE DEF a, b, d
<1>6. /\ a \o b \in Seq(Octet) /\ Len(a \o b) = 1 + Len(b)
      /\ a \o b \o d \in Seq(Octet) /\ Len(a \o b \o d) = 1 + Len(b) + Len(d)
  <2>1. \A p, q \in Seq(Octet) : p \o q \in Seq(Octet) /\ Len(p \o q) = Len(p) + Len(q)
    BY ConcatProperties
  <2>2. a \o b \in Seq(Octet) /\ Len(a \o b) = Len(a) + Len(b)
    BY <1>2, <1>3, <2>1
  <2>3. a \o b \o d \in Seq(Octet) /\ Len(a \o b \o d) = Len(a \o b) + Len(d)
    BY <1>4, <2>1, <2>2
  <2> QED
    BY <1>2, <2>2, <2>3
<1>7. Len(b) \in Nat /\ Len(d) \in Nat
  BY <1>3, <1>4
<1>8. a \o b \o d # <<>>
  <2>1. Len(a \o b \o d) # 0
    BY <1>6, <1>7
  <2> QED
    BY <2>1
<1> QED
  BY <1>5, <1>6, <1>8

(* A text that is decoded gives bytes, and not none.                       *)
LEMMA Base64Bytes ==
  ASSUME NEW text \in Seq(Character), base64_decode(text) # NotBase64
  PROVE  base64_decode(text) \in Seq(Octet)
<1> DEFINE valid == Valid(text)
           B == Len(valid) \div 4
           block(n) == SubSeq(valid, 4 * n - 3, 4 * n)
           decoded == [n \in 1 .. B |-> DecodedBlock(block(n))]
<1>1. valid \in Seq(0 .. 64)
  BY ValidClean
<1>2. /\ base64_decode(text) = FlattenSeq(decoded)
      /\ Len(valid) % 4 = 0 /\ \A n \in 1 .. B : BlockIsOk(block(n))
  <2>1. base64_decode(text)
          = IF /\ valid # <<>> /\ Len(valid) % 4 = 0
               /\ \A n \in 1 .. B : BlockIsOk(block(n))
               /\ \A n \in 1 .. B - 1 : block(n)[4] # Pad
              THEN FlattenSeq(decoded)
              ELSE NotBase64
    BY Zenon DEF base64_decode
  <2> QED
    BY <2>1, Zenon
<1> HIDE DEF valid
<1>3. Len(valid) \in Nat /\ B \in Nat /\ Len(valid) = 4 * B
  BY <1>1, <1>2
<1>4. ASSUME NEW n \in 1 .. B PROVE DecodedBlock(block(n)) \in Seq(Octet)
  <2>1. 4 * n - 3 \in Int /\ 4 * n \in Int /\ 4 * n - 3 >= 1 /\ 4 * n <= Len(valid)
        /\ 4 * n - (4 * n - 3) + 1 = 4
    BY <1>3
  <2> DEFINE p == 4 * n - 3
             q == 4 * n
  <2>2. p \in 1 .. Len(valid) /\ q \in p .. Len(valid) /\ q - p + 1 = 4
    BY <1>3
  <2> HIDE DEF p, q
  <2>3. \A i \in p .. q : valid[i] \in 0 .. 64
    <3>1. \A i \in p .. q : i \in 1 .. Len(valid)
      BY <1>3, <2>2
    <3> QED
      BY <1>1, <3>1, ElementOfSeq
  <2>4. SubSeq(valid, p, q) \in Seq(0 .. 64) /\ Len(SubSeq(valid, p, q)) = 4
    BY <1>3, <2>2, <2>3, SubSeqProperties
  <2>5. block(n) \in Seq(0 .. 64) /\ Len(block(n)) = 4
    BY <2>4 DEF p, q
  <2>6. BlockIsOk(block(n))
    BY <1>2
  <2> HIDE DEF block
  <2> QED
    BY <2>5, <2>6, DecodedBlockType
<1>5. decoded \in Seq(Seq(Octet))
  <2> DEFINE piece(n) == DecodedBlock(block(n))
  <2>1. \A n \in 1 .. B : piece(n) \in Seq(Octet)
    BY <1>4
  <2> HIDE DEF piece
  <2>2. [n \in 1 .. B |-> piece(n)] \in Seq(Seq(Octet))
    BY <1>3, <2>1
  <2> QED
    BY <2>2 DEF piece
<1> HIDE DEF decoded
<1>6. FlattenSeq(decoded) \in Seq(Octet)
  BY <1>5, FlattenType
<1> QED
  BY <1>2, <1>6

(* The length of a text: four characters for each block, and a break after *)
(* each line.                                                              *)
LEMMA NextRemainder ==
  ASSUME NEW n \in Nat, NEW d \in Nat \ {0}
  PROVE  (n + 1) % d = IF n % d = d - 1 THEN 0 ELSE (n % d) + 1
<1>1. n = d * (n \div d) + (n % d) /\ n % d \in 0 .. d - 1 /\ n \div d \in Nat
  OBVIOUS
<1> DEFINE q == n \div d
           r == n % d
<1> HIDE DEF q, r
<1>2. n = d * q + r /\ r \in 0 .. d - 1 /\ q \in Nat
  BY <1>1 DEF q, r
<1>3. n + 1 = d * ((n + 1) \div d) + ((n + 1) % d) /\ (n + 1) % d \in 0 .. d - 1
      /\ (n + 1) \div d \in Nat
  OBVIOUS
<1> DEFINE u == (n + 1) \div d
           v == (n + 1) % d
<1> HIDE DEF u, v
<1>4. n + 1 = d * u + v /\ v \in 0 .. d - 1 /\ u \in Nat
  BY <1>3 DEF u, v
<1>5. d * q + r + 1 = d * u + v
  BY <1>2, <1>4
<1>6. CASE r = d - 1
  <2>1. d * (q + 1) = d * u + v
    BY <1>2, <1>4, <1>5, <1>6
  <2>2. v = 0
    BY <1>2, <1>4, <2>1
  <2> QED
    BY <1>6, <2>2 DEF r, v
<1>7. CASE r # d - 1
  <2>1. v = r + 1
    BY <1>2, <1>4, <1>5, <1>7
  <2> QED
    BY <1>7, <2>1 DEF r, v
<1> QED
  BY <1>6, <1>7

LEMMA BreaksOfMore ==
  ASSUME NEW L \in Nat \ {0}, NEW i \in Nat, NEW k \in Nat, L * k = i - (i % L)
  PROVE  L * (IF (i + 1) % L = 0 THEN k + 1 ELSE k) = i + 1 - ((i + 1) % L)
<1>1. (i + 1) % L = IF i % L = L - 1 THEN 0 ELSE (i % L) + 1
  BY NextRemainder
<1> DEFINE r == i % L
           s == (i + 1) % L
<1>2. r \in 0 .. L - 1 /\ s = IF r = L - 1 THEN 0 ELSE r + 1
  BY <1>1
<1>3. L * k = i - r
  OBVIOUS
<1> HIDE DEF r, s
<1>4. CASE r = L - 1
  BY <1>2, <1>3, <1>4 DEF s
<1>5. CASE r # L - 1
  BY <1>2, <1>3, <1>5 DEF s
<1> QED
  BY <1>4, <1>5

LEMMA RoomForBreaks ==
  ASSUME NEW length \in Nat, NEW m \in Nat \ {0}, NEW blocks \in Nat, NEW breaks \in Nat,
         3 * blocks < length + 3,
         ((m + 3) \div 4) * breaks <= blocks
  PROVE  /\ 4 * blocks <= (length \div 3) * 4 + 4
         /\ breaks <= ((length \div 3) * 4 + 4) \div m
<1> DEFINE L == (m + 3) \div 4
           C == (length \div 3) * 4 + 4
<1>1. L \in Nat /\ 4 * L >= m
  OBVIOUS
<1>2. length = 3 * (length \div 3) + (length % 3) /\ length % 3 \in 0 .. 2 /\ length \div 3 \in Nat
  OBVIOUS
<1>3. C \in Nat /\ 4 * blocks <= C
  BY <1>2
<1>4. L * breaks <= blocks
  OBVIOUS
<1> HIDE DEF L, C
<1>5. m * breaks <= C
  <2>1. m * breaks <= (4 * L) * breaks
    BY <1>1
  <2>2. (4 * L) * breaks = 4 * (L * breaks) /\ L * breaks \in Nat /\ m * breaks \in Nat
    BY <1>1
  <2> QED
    BY <1>3, <1>4, <2>1, <2>2
<1>6. breaks <= C \div m
  <2>1. C = m * (C \div m) + (C % m) /\ C % m \in 0 .. m - 1 /\ C \div m \in Nat
    BY <1>3
  <2> DEFINE q == C \div m
             r == C % m
  <2>2. C = m * q + r /\ r \in 0 .. m - 1 /\ q \in Nat
    BY <2>1
  <2> HIDE DEF q, r
  <2>3. SUFFICES ASSUME breaks >= q + 1 PROVE FALSE
    BY <2>2 DEF q
  <2>4. m * breaks >= m * (q + 1)
    BY <2>2, <2>3
  <2>5. m * (q + 1) = m * q + m /\ m * q \in Nat
    BY <2>2
  <2> QED
    BY <1>3, <1>5, <2>2, <2>4, <2>5
<1> QED
  BY <1>3, <1>6 DEF L, C

(* A text and its end fit the memory that is allocated for it.             *)
LEMMA Base64Fits ==
  ASSUME NEW bytes \in Seq(Octet), NEW max_line_len \in Nat
  PROVE  Len(base64_encode(bytes, max_line_len)) + 1 <= TextBufferSize(Len(bytes), max_line_len)
<1> DEFINE m == max_line_len
           L == (m + 3) \div 4
           N == BlocksOf(bytes)
           break(n) == IF EndsLine(n - 1, m) THEN <<Skipped>> ELSE <<>>
           lines == [n \in 1 .. N |-> EncodedBlock(bytes, n - 1) \o break(n)]
<1>1. base64_encode(bytes, max_line_len) = FlattenSeq(lines)
  BY DEF base64_encode
<1>2. N \in Nat /\ Len(bytes) \in Nat /\ 3 * N < Len(bytes) + 3
  <2>1. Len(bytes) \in Nat
    OBVIOUS
  <2> QED
    BY <2>1, BlockCount DEF BlocksOf
<1>3. ASSUME NEW n \in 1 .. N
      PROVE  /\ EncodedBlock(bytes, n - 1) \o break(n) \in Seq(Character)
             /\ Len(EncodedBlock(bytes, n - 1) \o break(n)) = 4 + Len(break(n))
             /\ Len(break(n)) = IF EndsLine(n - 1, m) THEN 1 ELSE 0
  <2> DEFINE b == EncodedBlock(bytes, n - 1)
  <2>1. b \in Seq(0 .. 64) /\ Len(b) = 4
    BY BlocksType
  <2>2. <<Skipped>> \in Seq(Character) /\ <<>> \in Seq(Character) /\ 0 .. 64 \subseteq Character
    BY DEF Skipped, Character
  <2>3. Seq(0 .. 64) \subseteq Seq(Character)
    BY <2>2, SeqMonotonic
  <2>4. break(n) \in Seq(Character) /\ Len(break(n)) = IF EndsLine(n - 1, m) THEN 1 ELSE 0
    BY <2>2
  <2> HIDE DEF b, break
  <2>5. b \o break(n) \in Seq(Character) /\ Len(b \o break(n)) = Len(b) + Len(break(n))
    BY <2>1, <2>3, <2>4, ConcatProperties
  <2> QED
    BY <2>1, <2>4, <2>5 DEF b
<1>4. lines \in Seq(Seq(Character)) /\ Len(lines) = N
      /\ \A n \in 1 .. N : Len(lines[n]) = IF EndsLine(n - 1, m) THEN 5 ELSE 4
  <2> DEFINE line(n) == EncodedBlock(bytes, n - 1) \o break(n)
  <2>1. \A n \in 1 .. N : line(n) \in Seq(Character)
                          /\ Len(line(n)) = IF EndsLine(n - 1, m) THEN 5 ELSE 4
    BY <1>3
  <2>2. lines = [n \in 1 .. N |-> line(n)]
    OBVIOUS
  <2> HIDE DEF line, lines
  <2>3. lines \in Seq(Seq(Character)) /\ Len(lines) = N
        /\ \A n \in 1 .. N : lines[n] = line(n)
    BY <1>2, <2>1, <2>2
  <2> QED
    BY <2>1, <2>3
<1> HIDE DEF lines, break
<1>5. PICK f \in [0 .. Len(lines) -> Seq(Character)] :
        /\ f[0] = <<>>
        /\ \A i \in 1 .. Len(lines) : f[i] = f[i - 1] \o lines[i]
        /\ FlattenSeq(lines) = f[Len(lines)]
  BY <1>4, FlattenPrefixes
<1>6. \A i \in 1 .. N : f[i] \in Seq(Character) /\ f[i - 1] \in Seq(Character)
                        /\ Len(f[i]) = Len(f[i - 1]) + Len(lines[i])
  <2> TAKE i \in 1 .. N
  <2>1. i \in 0 .. N /\ i - 1 \in 0 .. N
    BY <1>2
  <2>2. f[i] \in Seq(Character) /\ f[i - 1] \in Seq(Character)
    BY <1>4, <1>5, <2>1
  <2>3. lines[i] \in Seq(Character)
    BY <1>4, ElementOfSeq
  <2>4. f[i] = f[i - 1] \o lines[i]
    BY <1>4, <1>5
  <2>5. Len(f[i - 1] \o lines[i]) = Len(f[i - 1]) + Len(lines[i])
    BY <2>2, <2>3, ConcatProperties
  <2> QED
    BY <2>2, <2>4, <2>5
<1> DEFINE Holds(i) ==
      \E breaks \in Nat :
        /\ Len(f[i]) = 4 * i + breaks
        /\ IF m = 0 THEN breaks = 0 ELSE L * breaks = i - (i % L)
<1>7. L \in Nat /\ (m # 0 => L # 0)
  OBVIOUS
<1> HIDE DEF L
<1>8. \A i \in 0 .. N : Holds(i)
  <2> DEFINE T == {i \in 0 .. N : Holds(i)}
  <2>1. 0 \in T
    <3>1. Len(f[0]) = 0
      BY <1>5
    <3>2. m # 0 => L * 0 = 0 - (0 % L)
      BY <1>7
    <3>3. Holds(0)
      BY <3>1, <3>2
    <3> QED
      BY <1>2, <3>3
  <2>2. ASSUME NEW i \in T, i < N PROVE i + 1 \in T
    <3>1. i \in Nat /\ i + 1 \in 1 .. N /\ (i + 1) - 1 = i
      BY <1>2, <2>2
    <3>2. PICK breaks \in Nat : /\ Len(f[i]) = 4 * i + breaks
                                /\ IF m = 0 THEN breaks = 0 ELSE L * breaks = i - (i % L)
      OBVIOUS
    <3>3. Len(f[i + 1]) = Len(f[i]) + (IF EndsLine(i, m) THEN 5 ELSE 4)
      BY <1>4, <1>6, <3>1
    <3>4. EndsLine(i, m) <=> m # 0 /\ (i + 1) % L = 0
      BY DEF EndsLine, L
    <3>5. CASE m = 0
      BY <3>1, <3>2, <3>3, <3>4, <3>5
    <3>6. CASE m # 0
      <4> DEFINE more == IF (i + 1) % L = 0 THEN breaks + 1 ELSE breaks
      <4>1. L * more = i + 1 - ((i + 1) % L)
        BY <1>7, <3>1, <3>2, <3>6, BreaksOfMore
      <4>2. more \in Nat /\ Len(f[i + 1]) = 4 * (i + 1) + more
        BY <3>1, <3>2, <3>3, <3>4, <3>6
      <4> HIDE DEF more
      <4>4. Holds(i + 1)
        <5>1. IF m = 0 THEN more = 0 ELSE L * more = (i + 1) - ((i + 1) % L)
          BY <3>6, <4>1
        <5> QED
          BY <4>2, <5>1, Zenon
      <4> QED
        BY <3>1, <4>4
    <3> QED
      BY <3>5, <3>6
  <2> HIDE DEF Holds
  <2>3. T = 0 .. N
    BY <1>2, <2>1, <2>2, CountingUp
  <2> QED
    BY <2>3
<1>9. PICK breaks \in Nat : /\ Len(f[N]) = 4 * N + breaks
                            /\ IF m = 0 THEN breaks = 0 ELSE L * breaks = N - (N % L)
  BY <1>2, <1>8
<1>10. Len(base64_encode(bytes, m)) = 4 * N + breaks
  BY <1>1, <1>4, <1>5, <1>9
<1>11. CASE m = 0
  <2>1. 4 * N <= (Len(bytes) \div 3) * 4 + 4
    BY <1>2
  <2> QED
    BY <1>2, <1>9, <1>10, <1>11, <2>1 DEF TextBufferSize
<1>12. CASE m # 0
  <2>1. N % L \in Nat /\ L * breaks <= N
    BY <1>2, <1>7, <1>9, <1>12
  <2>2. ((m + 3) \div 4) * breaks <= N
    BY <2>1 DEF L
  <2>3. /\ 4 * N <= (Len(bytes) \div 3) * 4 + 4
        /\ breaks <= ((Len(bytes) \div 3) * 4 + 4) \div m
    BY <1>2, <1>12, <2>2, RoomForBreaks
  <2> DEFINE C == (Len(bytes) \div 3) * 4 + 4
             q == C \div m
  <2>4. TextBufferSize(Len(bytes), m) = C + q + 1
    <3>1. m > 0
      BY <1>12
    <3> QED
      BY <3>1, Zenon DEF TextBufferSize
  <2>5. C \in Int /\ q \in Int /\ 4 * N <= C /\ breaks <= q
    BY <1>2, <1>12, <2>3
  <2> HIDE DEF C, q
  <2> QED
    BY <1>2, <1>10, <2>4, <2>5
<1> QED
  BY <1>11, <1>12
==============================================================================
