-------------------------- MODULE TlvLength_proofs --------------------------
(***************************************************************************)
(* The reader and the writer of a length prefix agree with each other and  *)
(* with the size the tables are laid out by, for every length two bytes    *)
(* can tell: the walk of a table lands on the records that were written.   *)
(***************************************************************************)
EXTENDS TlvLength, TLAPS

\* UtilityGetLVData_L reads back the length add_L_withOffset wrote, out of as
\* many bytes as UtilityGetTLV_LL_from_len reserves for it.
THEOREM LengthRoundTrip ==
  ASSUME NEW n \in Nat, 0 < n, n < 65536
  PROVE  /\ UtilityGetLVData_L(LengthBytes(n)) = n
         /\ Len(LengthBytes(n)) = UtilityGetTLV_LL_from_len(n)
<1>1. CASE n < 128
  BY <1>1 DEF UtilityGetLVData_L, LengthBytes, UtilityGetTLV_LL_from_len
<1>2. CASE n >= 128 /\ n < 256
  <2>1. n # 0 /\ ~(n < 128) /\ n \div 128 = 1 /\ n % 256 = n
    BY <1>2
  <2>2. LengthBytes(n) = <<129, n % 256>>
    BY <2>1 DEF LengthBytes
  <2>3. LengthBytes(n)[1] = 129 /\ LengthBytes(n)[2] = n /\ Len(LengthBytes(n)) = 2
    BY <2>1, <2>2
  <2>. QED
    BY <2>1, <2>3 DEF UtilityGetLVData_L, UtilityGetTLV_LL_from_len
<1>3. CASE n >= 256
  <2>1. n # 0 /\ ~(n < 128) /\ n \div 128 # 1
    BY <1>3
  <2>2. LengthBytes(n) = <<130, (n \div 256) % 256, n % 256>>
    BY <2>1 DEF LengthBytes
  <2>3. ((n \div 256) % 256) * 256 + (n % 256) = n
    BY <1>3
  <2>4. /\ LengthBytes(n)[1] = 130 /\ LengthBytes(n)[2] * 256 + LengthBytes(n)[3] = n
        /\ Len(LengthBytes(n)) = 3
    BY <2>2, <2>3
  <2>. QED
    BY <2>1, <2>4 DEF UtilityGetLVData_L, UtilityGetTLV_LL_from_len
<1>. QED
  BY <1>1, <1>2, <1>3
=============================================================================
