------------------------------ MODULE Arguments ------------------------------
(***************************************************************************)
(* parse_main_args of zwave_nvm_tool.c: the mode and the fields that are   *)
(* taken from a command line, with getopt of the C library as it is called *)
(* there (options "e:i:u:m:o:h").                                          *)
(*                                                                         *)
(* A command line is the sequence of words after the name of the program.  *)
(* Words like "-ein" or "--" are left out.                                 *)
(***************************************************************************)
EXTENDS Integers, SequencesExt

ModeOption == {"-e", "-i", "-u", "-m"}
WithArgument == ModeOption \cup {"-o"}
OptionWord == WithArgument \cup {"-h", "-x"}   \* "-x": unknown to the tool

Usage == "usage"   \* UNDEFINE_GLOBAL_MODE
Nothing == "NULL"

Field == {"mode", "file_in", "file_out", "target_version", "device_info", "schema_file"}
NoFields == [field \in Field |-> IF field = "mode" THEN Usage ELSE Nothing]

------------------------------------------------------------------------------
(***************************************************************************)
(* getopt                                                                  *)
(***************************************************************************)

(* Whether word k of a line is an option: an option's argument is the next *)
(* word, whatever that is.                                                 *)
IsOptionAt(line) ==
  LET f[k \in 0 .. Len(line)] ==
        k > 0 /\ line[k] \in OptionWord
          /\ ~(k > 1 /\ f[k - 1] /\ line[k - 1] \in WithArgument)
  IN  f

OptionPlaces(line) == {k \in DOMAIN line : IsOptionAt(line)[k]}

(* The words that belong to options before k, and the words before k that  *)
(* do not.                                                                 *)
Consumed(line, k) ==
  {q \in 1 .. k - 1 : \/ q \in OptionPlaces(line)
                      \/ q - 1 \in OptionPlaces(line) /\ line[q - 1] \in WithArgument}
Others(line, k) == 1 .. k - 1 \ Consumed(line, k)

WordsAt(line, places) ==
  LET words[k \in 0 .. Len(line)] ==
        IF k = 0 THEN <<>>
        ELSE IF k \in places THEN Append(words[k - 1], line[k])
        ELSE words[k - 1]
  IN  words[Len(line)]

(* argv[1], argv[2], ... when getopt returns the option at k.  Words that  *)
(* are no options are exchanged with the options found after them, on the  *)
(* call after the one that found the option: those that come between the   *)
(* last option and this one are still before it.                           *)
ArgvAt(line, k) ==
  LET earlier == {q \in OptionPlaces(line) : q < k}
      last == Max({0} \cup earlier)
      seen == Others(line, last)
      moved == Consumed(line, k)
      between == Others(line, k) \ seen
  IN  WordsAt(line, moved) \o WordsAt(line, seen) \o WordsAt(line, between)
        \o SubSeq(line, k, Len(line))

------------------------------------------------------------------------------
(***************************************************************************)
(* parse_main_args                                                         *)
(***************************************************************************)
ArgcOf(mode) == CASE mode = "-e" -> 3 [] mode = "-i" -> 4 [] mode = "-u" -> 5 [] mode = "-m" -> 6

(* A fault: the words after the option are taken.                          *)
FieldsOfModeAfter(fields, mode, argv) ==
  LET at == CHOOSE k \in DOMAIN argv : argv[k] = mode
      word(n) == IF at + n - 1 <= Len(argv) THEN argv[at + n - 1] ELSE Nothing
  IN  CASE mode = "-e" -> [fields EXCEPT !.mode = mode, !.file_in = word(2)]
        [] mode = "-i" -> [fields EXCEPT !.mode = mode, !.file_in = word(2),
                                         !.device_info = word(3)]
        [] mode = "-u" -> [fields EXCEPT !.mode = mode, !.file_in = word(2),
                                         !.target_version = word(3), !.schema_file = word(4)]
        [] mode = "-m" -> [fields EXCEPT !.mode = mode, !.file_in = word(2),
                                         !.target_version = word(3), !.device_info = word(4),
                                         !.schema_file = word(5)]

(* A mode option takes the words 2 to 5 of argv, wherever it stands.       *)
FieldsOfMode(fields, mode, argv) ==
  CASE mode = "-e" -> [fields EXCEPT !.mode = mode, !.file_in = argv[2]]
    [] mode = "-i" -> [fields EXCEPT !.mode = mode, !.file_in = argv[2],
                                     !.device_info = argv[3]]
    [] mode = "-u" -> [fields EXCEPT !.mode = mode, !.file_in = argv[2],
                                     !.target_version = argv[3], !.schema_file = argv[4]]
    [] mode = "-m" -> [fields EXCEPT !.mode = mode, !.file_in = argv[2],
                                     !.target_version = argv[3], !.device_info = argv[4],
                                     !.schema_file = argv[5]]

(* The option that ends the parser: what follows is not looked at.  The    *)
(* count of argv has the name of the program in it.                        *)
GivesUp(line, k) ==
  \/ line[k] \in {"-h", "-x"}
  \/ line[k] \in WithArgument /\ k = Len(line)
  \/ line[k] \in ModeOption /\ Len(line) + 1 < ArgcOf(line[k])

Taken(fields, line, k) ==
  IF line[k] = "-o" THEN [fields EXCEPT !.file_out = line[k + 1]]
  ELSE FieldsOfMode(fields, line[k], ArgvAt(line, k))

(* The fields after the options among the first k words.                   *)
FieldsAfter(line) ==
  LET fields[k \in 0 .. Len(line)] ==
        IF k = 0 THEN NoFields
        ELSE IF k \in OptionPlaces(line) THEN Taken(fields[k - 1], line, k)
        ELSE fields[k - 1]
  IN  fields

parse_main_args(line) ==
  IF \E k \in OptionPlaces(line) : GivesUp(line, k) THEN NoFields
  ELSE FieldsAfter(line)[Len(line)]
==============================================================================
