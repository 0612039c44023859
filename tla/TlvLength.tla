------------------------------ MODULE TlvLength ------------------------------
(***************************************************************************)
(* The length prefix of the LV fields the tables are made of, from         *)
(* sdk/utilities/boatutility.c, and the size of the records built of them. *)
(***************************************************************************)
EXTENDS Integers, Sequences

\* Number of bytes the length `len` is written in.
UtilityGetTLV_LL_from_len(len) ==
  IF len < 128 THEN 1 ELSE IF len \div 128 = 1 THEN 2 ELSE 3

\* The bytes add_L_withOffset puts in front of a field of nLen bytes; of an
\* empty field it writes none, though it counts one.
LengthBytes(nLen) ==
  IF nLen = 0 THEN <<>>
  ELSE IF nLen < 128 THEN <<nLen>>
  ELSE IF nLen \div 128 = 1 THEN <<129, nLen % 256>>
  ELSE <<130, (nLen \div 256) % 256, nLen % 256>>

\* The length three bytes announce, -1 when they announce none.
UtilityGetLVData_L(b) ==
  IF b[1] < 128 THEN b[1]
  ELSE IF b[1] = 129 THEN b[2]
  ELSE IF b[1] = 130 THEN b[2] * 256 + b[3]
  ELSE -1

\* Size of an LV field with a value of len bytes.
LvLen(len) == len + UtilityGetTLV_LL_from_len(len)

\* BoATKeypair_Get_DataCtx_Len: L followed by LV of index (1 byte), name,
\* format and type (4-byte enums) and public key (64 bytes).
BoATKeypair_Get_DataCtx_Len(nameLen) ==
  LvLen(LvLen(1) + LvLen(nameLen) + LvLen(4) + LvLen(4) + LvLen(64))
=============================================================================
