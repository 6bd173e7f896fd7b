------------------------------ MODULE OutputNames ------------------------------
(***************************************************************************)
(* The names of output files that are made from the name of the input file *)
(* when there is no option -o: in zw_nvm_to_json, zw_json_to_nvm and       *)
(* upgrade_json_to_version.                                                *)
(*                                                                         *)
(* A name is a stem, the number of times "_upgraded" follows it, and an    *)
(* extension; "cut" is the number of characters that were lost at the end. *)
(***************************************************************************)
EXTENDS Integers

CONSTANTS
  Stem,      \* the stems, "output" among them
  StemLength,
  NameSize   \* size of input_file_name and temp_output_file, 256

ASSUME NamesAssumption ==
  /\ "output" \in Stem
  /\ StemLength \in [Stem -> Nat]
  /\ NameSize \in Nat \ {0}

Extension == {".bin", ".json", ""}
Name(stem, upgraded, ext) == [stem |-> stem, upgraded |-> upgraded, ext |-> ext, cut |-> 0]

LengthOf(name) ==
  StemLength[name.stem] + 9 * name.upgraded
    + (CASE name.ext = ".bin" -> 4 [] name.ext = ".json" -> 5 [] name.ext = "" -> 0)
    - name.cut

(* What a mode reads and writes, the name it falls back to, and the length *)
(* a name must exceed for its end to be compared.                          *)
ReadExtension(mode) == IF mode \in {"-e", "-m"} THEN ".bin" ELSE ".json"
WrittenExtension(mode) == IF mode \in {"-e", "-u"} THEN ".json" ELSE ".bin"
AddsUpgraded(mode) == mode \in {"-u", "-m"}
Least(mode) == CASE mode = "-e" -> 4 [] mode = "-u" -> 5 [] OTHER -> 3

DefaultName(mode) ==
  Name("output", IF AddsUpgraded(mode) THEN 1 ELSE 0, WrittenExtension(mode))

(* strncpy and snprintf keep NameSize - 1 characters.                      *)
Shortened(name) ==
  IF LengthOf(name) < NameSize THEN name
  ELSE [name EXCEPT !.cut = LengthOf(name) - (NameSize - 1)]

(* The length is that of the copy, the end that of the name itself: a name *)
(* longer than the copy has no extension.                                  *)
ExtensionFound(mode, name) ==
  /\ name.ext = ReadExtension(mode) /\ name.cut = 0
  /\ LengthOf(name) < NameSize
  /\ LengthOf(name) > Least(mode)

(* A fault: the result of an upgrade gets the name of its input.           *)
OutputNamePlain(mode, name) ==
  IF ExtensionFound(mode, name)
    THEN Shortened(Name(name.stem, name.upgraded, WrittenExtension(mode)))
    ELSE DefaultName(mode)

OutputName(mode, name) ==
  IF ExtensionFound(mode, name)
    THEN Shortened(Name(name.stem,
                        name.upgraded + (IF AddsUpgraded(mode) THEN 1 ELSE 0),
                        WrittenExtension(mode)))
    ELSE DefaultName(mode)

==============================================================================
