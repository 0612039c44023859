---------------------------- MODULE PlatonBech32 ----------------------------
(***************************************************************************)
(* PlatON addresses (boatplatonbech32.c).  An address is its human-readable *)
(* part, a sequence of character codes, and the characters behind the      *)
(* separator, each given by its place in BECH32ALPHABET; a character that  *)
(* is not in the alphabet is NoChar, what -1 is as a BUINT8.               *)
(***************************************************************************)
EXTENDS Integers, Sequences
LOCAL INSTANCE Bitwise
LOCAL INSTANCE SequencesExt

NoChar == 255

\* Bit i of a sequence of groups of n bits.
BitOf(in, n, i) == (in[((i - 1) \div n) + 1] \div 2 ^ (n - 1 - ((i - 1) % n))) % 2

\* The bits of in, regrouped; the last group is filled up with zeros.
BoatConvertBits(in, fromBits, toBits) ==
  LET n == Len(in) * fromBits
      bit(i) == IF i <= n THEN BitOf(in, fromBits, i) ELSE 0
      group(k) == FoldLeft(LAMBDA acc, b : 2 * acc + bit((k - 1) * toBits + b), 0, [b \in 1..toBits |-> b])
  IN  [k \in 1..(n + toBits - 1) \div toBits |-> group(k)]

BoatExpandHrp(hrp) == [i \in DOMAIN hrp |-> (hrp[i] \div 32) % 4] \o <<0>> \o [i \in DOMAIN hrp |-> hrp[i] % 32]

\* 0x3b6a57b2, 0x26508e6d, 0x1ea119fa, 0x3d4233dd, 0x2a1462b3
Generator == <<996825010, 642813549, 513874426, 1027748829, 705979059>>

PolymodStep(chk, v) ==
  LET top == chk \div 2 ^ 25
      low == ((chk % 2 ^ 25) * 32) ^^ v
  IN  FoldLeft(LAMBDA acc, i : IF (top \div 2 ^ (i - 1)) % 2 = 1 THEN acc ^^ Generator[i] ELSE acc, low, <<1, 2, 3, 4, 5>>)

\* Mutant: the human-readable part is left out of the checksum.
MutantBoatBech32Polymod(hrp, data) ==
  LET chk == FoldLeft(PolymodStep, 1, data \o [i \in 1..6 |-> 0]) ^^ 1
  IN  [i \in 1..6 |-> (chk \div 2 ^ (5 * (6 - i))) % 32]

BoatBech32Polymod(hrp, data) ==
  LET chk == FoldLeft(PolymodStep, 1, hrp \o data \o [i \in 1..6 |-> 0]) ^^ 1
  IN  [i \in 1..6 |-> (chk \div 2 ^ (5 * (6 - i))) % 32]

BoatPlatONBech32Encode(in, hrp) ==
  LET data == BoatConvertBits(in, 8, 5)
  IN  [hrp |-> hrp, chars |-> data \o BoatBech32Polymod(BoatExpandHrp(hrp), data)]

\* The bytes, or none when the address is refused.
BoatPlatONBech32Decode(in) ==
  LET datalen == Len(in.chars) - 6
      data    == SubSeq(in.chars, 1, datalen)
  IN  IF Len(in.hrp) \notin 1..83 \/ datalen <= 0 THEN <<>>
      ELSE IF BoatBech32Polymod(BoatExpandHrp(in.hrp), data) # SubSeq(in.chars, datalen + 1, Len(in.chars)) THEN <<>>
      ELSE BoatConvertBits(data, 5, 8)
=============================================================================
