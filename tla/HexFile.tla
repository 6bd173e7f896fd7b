------------------------------- MODULE HexFile -------------------------------
(***************************************************************************)
(* libs/bin2hex/bin2hex.c: a binary file as rows of an Intel HEX file.     *)
(*                                                                         *)
(* A row has a type, an address of 16 bits and data; check sums and digits *)
(* are left out.  Row and segment sizes are parameters.                    *)
(***************************************************************************)
EXTENDS Integers, SequencesExt

CONSTANTS
  RowSize,      \* bytes of a data row, 16
  SegmentSize,  \* addresses a row can name, 2^16
  Paragraph     \* 16, what a type 02 row is multiplied with by a reader

ASSUME HexAssumption ==
  /\ RowSize \in Nat \ {0} /\ Paragraph \in Nat \ {0}
  /\ SegmentSize \in Nat /\ SegmentSize > RowSize /\ SegmentSize > Paragraph

DataRow == "00"
EndRow == "01"
SegmentRow == "02"   \* iHex_ExtendedSegAddr
LinearRow == "04"    \* iHex_ExtLinearAddr

Row(type, address, data) ==
  [type |-> type, address |-> address % SegmentSize, data |-> data]

(* The row for the upper half of an address: of type 02, though the        *)
(* comment beside it calls it the "Extended Linear Address Record".        *)
UpperRow(address) == <<Row(SegmentRow, 0, <<address \div SegmentSize>>)>>

(* A fault: a row lacks the last of its bytes.                             *)
RowsFromShort(bytes, start, first) ==
  LET last == Min({first + RowSize - 1, Len(bytes)})
      next == start + last
  IN  <<Row(DataRow, start + first - 1, SubSeq(bytes, first, last - 1))>>
        \o (IF last - first + 1 = RowSize /\ next % SegmentSize = 0 THEN UpperRow(next) ELSE <<>>)

(* The row of the bytes from "first" on.  A row for the upper half follows *)
(* if the row is full and the next address is a multiple of SegmentSize.   *)
RowsFrom(bytes, start, first) ==
  LET last == Min({first + RowSize - 1, Len(bytes)})
      next == start + last
  IN  <<Row(DataRow, start + first - 1, SubSeq(bytes, first, last))>>
        \o (IF last - first + 1 = RowSize /\ next % SegmentSize = 0 THEN UpperRow(next) ELSE <<>>)

(* bin2hex, for a file of which "readable" bytes can be read before there  *)
(* is an error or the end comes early.  The rows of full length of these   *)
(* bytes are then there, and no end row; the result is that of ferror, so  *)
(* an error is reported as a success.                                      *)
bin2hex(bytes, start, readable, ferror) ==
  LET complete == readable >= Len(bytes)
      rows == IF complete THEN (Len(bytes) + RowSize - 1) \div RowSize
              ELSE readable \div RowSize
  IN  [rows |->
         UpperRow(start)
           \o FlattenSeq([r \in 1 .. rows |-> RowsFrom(bytes, start, RowSize * (r - 1) + 1)])
           \o (IF complete THEN <<Row(EndRow, 0, <<>>)>> ELSE <<>>),
       result |-> complete \/ ferror]

------------------------------------------------------------------------------
(***************************************************************************)
(* A reader of such files.                                                 *)
(***************************************************************************)

(* The base that is valid for row r: of the last row of type 02 or 04.     *)
BaseOf(rows, r) ==
  LET upper == {i \in 1 .. r : rows[i].type \in {SegmentRow, LinearRow}}
      i == Max(upper)
  IN  IF upper = {} THEN 0
      ELSE rows[i].data[1] * (IF rows[i].type = SegmentRow THEN Paragraph ELSE SegmentSize)

(* The content of the addresses that are named: a set of pairs.  In a      *)
(* segment addresses wrap around.                                          *)
ReadHex(rows) ==
  UNION {{<<BaseOf(rows, r) + ((rows[r].address + i - 1) % SegmentSize), rows[r].data[i]>> :
            i \in DOMAIN rows[r].data} :
           r \in {q \in DOMAIN rows : rows[q].type = DataRow}}
==============================================================================
