------------------------------ MODULE Nvm3Files ------------------------------
(***************************************************************************)
(* Tables of the controller NVM that hold several records per nvm3 object  *)
(* ("file").  Record n of a table (n counts from 1) lives in the file with *)
(* key BASE + (n-1) / PER_FILE, at index (n-1) % PER_FILE of that file.    *)
(* The classic node table, the Long Range node table, the transmit-power   *)
(* table, the route cache and the SUC list of format 5 are all such tables.*)
(***************************************************************************)
EXTENDS Integers

FileOf(n, perFile) == (n - 1) \div perFile

SlotOf(n, perFile) == (n - 1) % perFile

(* The record a slot belongs to: the inverse of <<FileOf, SlotOf>>.        *)
RecordAt(f, s, perFile) == f * perFile + s + 1

(* File numbers a table of maxRecord records uses.                         *)
FileNumbers(maxRecord, perFile) == 0 .. FileOf(maxRecord, perFile)
==============================================================================
