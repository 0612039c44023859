---------------------------- MODULE BoatUtility ----------------------------
(***************************************************************************)
(* The conversions of boatutility.c between byte strings, hexadecimal text *)
(* and integers.                                                           *)
(*                                                                         *)
(* A byte string is a sequence of 0..255.  Hexadecimal text is whether it  *)
(* has the prefix 0x, and its digits, a sequence of 0..15 with NoDigit for *)
(* a character that is none.  A function that returns a length and fills a *)
(* buffer is an operator that returns what is in the buffer.               *)
(***************************************************************************)
EXTENDS Integers, Sequences, FiniteSets

NoDigit == 16

LeadingZeros(s) == Cardinality({i \in DOMAIN s : \A j \in 1..i : s[j] = 0})
Trimmed(s)      == SubSeq(s, LeadingZeros(s) + 1, Len(s))

\* What is left of a number that is zero.
ZeroAs(zero, zero_as_null) == IF zero_as_null THEN <<>> ELSE zero

UtilityTrimBin(from, trim_mode, zero_as_null) ==
  IF trim_mode = "TRIM_NO" THEN from
  ELSE IF Trimmed(from) = <<>> THEN ZeroAs(<<0>>, zero_as_null) ELSE Trimmed(from)

Digits(from) ==
  [i \in 1..2 * Len(from) |-> IF i % 2 = 1 THEN from[(i + 1) \div 2] \div 16 ELSE from[i \div 2] % 16]

UtilityBinToHex(from, trim_mode, prefix, zero_as_null) ==
  LET text == CASE trim_mode = "UNFMTDATA"      -> Digits(from)
                [] trim_mode = "QUANTITY"       -> Trimmed(Digits(from))
                [] trim_mode = "TWOHEXPERBYTE"  -> Digits(Trimmed(from))
      zero == IF trim_mode = "QUANTITY" THEN <<0>> ELSE <<0, 0>>
  IN  IF from = <<>> THEN [prefix |-> FALSE, digits |-> <<>>]
      ELSE IF text # <<>> THEN [prefix |-> prefix, digits |-> text]
      ELSE [prefix |-> prefix /\ ~zero_as_null, digits |-> ZeroAs(zero, zero_as_null)]

UpTo(s, n)   == SubSeq(s, 1, IF n < Len(s) THEN n ELSE Len(s))
Even(digits) == IF Len(digits) % 2 = 1 THEN <<0>> \o digits ELSE digits
Bytes(digits) == [i \in 1..Len(digits) \div 2 |-> 16 * digits[2 * i - 1] + digits[2 * i]]

\* Mutant: an odd number of digits is filled up on the right.
MutantUtilityHexToBin(to_size, from, trim_mode, zero_as_null) ==
  LET digits == IF Len(from.digits) % 2 = 1 THEN from.digits \o <<0>> ELSE from.digits
  IN  UtilityTrimBin(UpTo(Bytes(digits), to_size), trim_mode, zero_as_null)

\* Conversion stops at the first character that is no digit, with no bytes at
\* all, or when the buffer is full.  The text "0x" has the digit x.
UtilityHexToBin(to_size, from, trim_mode, zero_as_null) ==
  LET digits == Even(from.digits)
      skipped == IF trim_mode = "TRIM_NO" THEN 0 ELSE LeadingZeros(Bytes(digits))
      read == UpTo(digits, 2 * (skipped + to_size))
      out  == SubSeq(Bytes(read), skipped + 1, Len(read) \div 2)
  IN  IF (from.prefix /\ digits = <<>>) \/ (\E i \in DOMAIN read : read[i] = NoDigit) THEN <<>>
      ELSE IF out = <<>> THEN ZeroAs(<<0>>, zero_as_null) ELSE out

\* The bytes of an integer of n bytes, most significant first.
Bigend(n, number) == [i \in 1..n |-> (number \div 256 ^ (n - i)) % 256]

UtilityUint32ToBigend(number, trim_mode) == UtilityTrimBin(Bigend(4, number), trim_mode, FALSE)
=============================================================================
