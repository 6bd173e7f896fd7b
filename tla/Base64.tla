-------------------------------- MODULE Base64 --------------------------------
(***************************************************************************)
(* libs/app_utils/base64.c.  A character of the alphabet is its position   *)
(* in b64_table; Pad is '='; Skipped stands for every other character, the *)
(* line break among them.                                                  *)
(***************************************************************************)
EXTENDS Integers, SequencesExt

Pad == 64
Skipped == 65
Character == 0 .. 65
NotBase64 == <<-1>>     \* base64_decode returns NULL

(* Three bytes as four characters.                                         *)
Sextets(b1, b2, b3) ==
  <<b1 \div 4,
    (b1 % 4) * 16 + (b2 \div 16),
    (b2 % 16) * 4 + (b3 \div 64),
    b3 % 64>>

BlocksOf(bytes) == (Len(bytes) + 2) \div 3

(* A fault: a block with two bytes is padded like one with one.            *)
EncodedBlockShort(bytes, i) ==
  LET byte(k) == IF 3 * i + k <= Len(bytes) THEN bytes[3 * i + k] ELSE 0
      s == Sextets(byte(1), byte(2), byte(3))
      remaining == Len(bytes) - 3 * i
  IN  <<s[1], s[2],
        IF remaining > 2 THEN s[3] ELSE Pad,
        IF remaining >= 3 THEN s[4] ELSE Pad>>

(* Block i, from 0.  What is missing of the last block is zero, and the    *)
(* characters that hold nothing of it are padding.                         *)
EncodedBlock(bytes, i) ==
  LET byte(k) == IF 3 * i + k <= Len(bytes) THEN bytes[3 * i + k] ELSE 0
      s == Sextets(byte(1), byte(2), byte(3))
      remaining == Len(bytes) - 3 * i
  IN  <<s[1], s[2],
        IF remaining >= 2 THEN s[3] ELSE Pad,
        IF remaining >= 3 THEN s[4] ELSE Pad>>

(* A line ends when it has max_line_len characters or more; 0 is no limit. *)
EndsLine(i, max_line_len) ==
  max_line_len > 0 /\ (i + 1) % ((max_line_len + 3) \div 4) = 0

base64_encode(bytes, max_line_len) ==
  FlattenSeq([n \in 1 .. BlocksOf(bytes) |->
                EncodedBlock(bytes, n - 1)
                  \o (IF EndsLine(n - 1, max_line_len) THEN <<Skipped>> ELSE <<>>)])

(* The bytes that are allocated for the text and its end.                  *)
TextBufferSize(length, max_line_len) ==
  LET blocks == (length \div 3) * 4 + 4
  IN  blocks + (IF max_line_len > 0 THEN blocks \div max_line_len ELSE 0) + 1

------------------------------------------------------------------------------
(* Padding is allowed for the last character or the last two.              *)
BlockIsOk(c) == c[1] # Pad /\ c[2] # Pad /\ (c[3] = Pad => c[4] = Pad)

DecodedBlock(c) ==
  <<c[1] * 4 + (c[2] \div 16)>>
    \o (IF c[3] = Pad THEN <<>> ELSE <<(c[2] % 16) * 16 + (c[3] \div 4)>>)
    \o (IF c[4] = Pad THEN <<>> ELSE <<(c[3] % 4) * 64 + c[4]>>)

(* The characters of the alphabet and the padding.                         *)
Valid(text) ==
  FlattenSeq([i \in DOMAIN text |-> IF text[i] = Skipped THEN <<>> ELSE <<text[i]>>])

base64_decode(text) ==
  LET valid == Valid(text)
      blocks == Len(valid) \div 4
      block(n) == SubSeq(valid, 4 * n - 3, 4 * n)
  IN  IF /\ valid # <<>> /\ Len(valid) % 4 = 0
         /\ \A n \in 1 .. blocks : BlockIsOk(block(n))
         /\ \A n \in 1 .. blocks - 1 : block(n)[4] # Pad
        THEN FlattenSeq([n \in 1 .. blocks |-> DecodedBlock(block(n))])
        ELSE NotBase64
==============================================================================
