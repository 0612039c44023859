--------------------------- MODULE RawTransaction ---------------------------
(***************************************************************************)
(* The raw transaction each protocol file puts together: the order of the  *)
(* fields in the RLP list (for CITA: the fields of the protobuf message),  *)
(* the list that is hashed and signed, and the recovery value v.           *)
(*                                                                         *)
(* A field is a number, 0 when it is empty.  A raw transaction is the list *)
(* of its fields, v, and the signature: the key, the list it signs, and    *)
(* whether r and s are in their places.                                    *)
(***************************************************************************)
EXTENDS Integers, Sequences

CONSTANT UINT32      \* the number of values of a BUINT32, in which v is computed

ASSUME UintAssumption == UINT32 \in Nat \ {0}

\* "noncebuf" are the bytes of CITA's nonce, "longest" is a ghost: the longest
\* nonce set since the fields were cleared.
FieldNames == {"nonce", "gasprice", "gaslimit", "recipient", "recipientbech32", "value",
               "data", "txtype", "limit", "chainid", "groupid", "privatefor", "extra",
               "noncebuf", "longest"}

NoFields == [f \in FieldNames |-> 0]

\* The fields of f in the order of names.
List(f, names) == [i \in DOMAIN names |-> f[names[i]]]

----------------------------------------------------------------------------
(* CITA's nonce: 16 bytes, of which a set call writes the first few.  The  *)
(* buffer is a number whose lowest digit is its first byte; what lies      *)
(* behind the second byte is one digit.                                    *)

Byte == 3     \* the values told apart in a byte: 0, 1 and that of a random byte

NonceLen(n) == IF n < Byte THEN 1 ELSE IF n < Byte * Byte THEN 2 ELSE 16

\* The buffer after UtilityUint64ToBigend or BoatRandom wrote n at its start.
NonceBuf(buf, n) ==
  CASE NonceLen(n) = 1  -> n + Byte * (buf \div Byte)
    [] NonceLen(n) = 2  -> (n \div Byte) + Byte * (n % Byte) + Byte * Byte * (buf \div (Byte * Byte))
    [] NonceLen(n) = 16 -> n

CitaNonce(f, n) ==
  [f EXCEPT !["nonce"] = n, !["noncebuf"] = NonceBuf(@, n),
            !["longest"] = IF NonceLen(n) > @ THEN NonceLen(n) ELSE @]

----------------------------------------------------------------------------
(* STEP 1 of each SendRawtx: the fields.                                   *)

\* Mutant: recipient and value change places.
MutantEthTx(f) == List(f, <<"nonce", "gasprice", "gaslimit", "value", "recipient", "data">>)

EthTx(f)       == List(f, <<"nonce", "gasprice", "gaslimit", "recipient", "value", "data">>)
PlatONTx(f)    == List(f, <<"nonce", "gasprice", "gaslimit", "recipient", "value", "data">>)
VenachainTx(f) == List(f, <<"nonce", "gasprice", "gaslimit", "recipient", "value", "data">>)
PlatoneTx(f)   == List(f, <<"nonce", "gasprice", "gaslimit", "recipient", "value", "data", "txtype">>)
FiscobcosTx(f) == List(f, <<"nonce", "gasprice", "gaslimit", "limit", "recipient", "value", "data",
                            "chainid", "groupid", "extra">>)
\* The chain id is the network's, the nonce all bytes of the buffer.
CitaTx(w, f)   == List([f EXCEPT !["chainid"] = w.chain_id, !["nonce"] = f["noncebuf"]],
                       <<"nonce", "gaslimit", "limit", "data", "value", "recipient", "chainid">>)

\* In a private transaction the data is what eth_fillTransaction left in the
\* result buffer, and the application's transaction is changed with it.
QuorumData(f, private, buf) == IF private THEN [f EXCEPT !["data"] = buf] ELSE f
QuorumTx(f) == List(f, <<"nonce", "gasprice", "gaslimit", "recipient", "value", "data">>)

----------------------------------------------------------------------------
(* STEP 2 to 4: signature and v.                                           *)

\* A signature is a function of what is signed; so is its parity.
Parity(list) == list[1] % 2

\* r and s without their leading zeros are the same numbers in an RLP list.
Signed(key, list, tail, v) ==
  [list |-> list, v |-> v, sig |-> [key |-> key, over |-> list \o tail, whole |-> TRUE]]

Eip155V(chain_id, parity) == (chain_id * 2 + parity + 35) % UINT32

\* Mutant: the chain id is not part of what is signed.
MutantEip155(key, list, chain_id, eip155) ==
  Signed(key, list, <<>>, IF eip155 THEN Eip155V(chain_id, Parity(list)) ELSE Parity(list) + 27)

\* With EIP-155 the signed list ends in the chain id and two empty fields.
Eip155(key, list, chain_id, eip155) ==
  IF eip155 THEN Signed(key, list, <<chain_id, 0, 0>>, Eip155V(chain_id, Parity(list)))
  ELSE Signed(key, list, <<>>, Parity(list) + 27)

EthSigned(w, list)       == Eip155(w.key, list, w.chain_id, w.eip155)
PlatONSigned(w, list)    == Eip155(w.key, list, w.chain_id, w.eip155)
VenachainSigned(w, list) == Eip155(w.key, list, w.chain_id, w.eip155)
PlatoneSigned(w, list)   == Eip155(w.key, list, w.chain_id, w.eip155)
QuorumSigned(w, list, private) ==
  IF ~w.eip155 /\ private THEN Signed(w.key, list, <<>>, Parity(list) + 37)
  ELSE Eip155(w.key, list, w.chain_id, w.eip155)
FiscobcosSigned(w, list) == Signed(w.key, list, <<>>, Parity(list) + 27)
\* r and s are trimmed too, and copied to the left of their 32 bytes: they are
\* whole when neither begins with a zero.
CitaSigned(w, list, whole) ==
  [list |-> list, v |-> Parity(list), sig |-> [key |-> w.key, over |-> list, whole |-> whole]]

----------------------------------------------------------------------------
(* The other side: how a node reads a raw transaction (external).          *)

Layout(chain) ==
  CASE chain = "PLATONE"   -> <<"nonce", "gasprice", "gaslimit", "recipient", "value", "data", "txtype">>
    [] chain = "FISCOBCOS" -> <<"nonce", "gasprice", "gaslimit", "limit", "recipient", "value", "data",
                                "chainid", "groupid", "extra">>
    [] chain = "CITA"      -> <<"nonce", "gaslimit", "limit", "data", "value", "recipient", "chainid">>
    [] OTHER               -> <<"nonce", "gasprice", "gaslimit", "recipient", "value", "data">>

\* The field of a raw transaction, 0 when the protocol has no such field.
FieldOf(chain, raw, name) ==
  LET at == {i \in DOMAIN Layout(chain) : Layout(chain)[i] = name}
  IN  IF at = {} THEN 0 ELSE raw.list[CHOOSE i \in at : TRUE]

IsPrivate(chain, raw) == chain = "QUORUM" /\ raw.v \in {37, 38}

HasChainId(chain, raw) ==
  chain \notin {"FISCOBCOS", "CITA"} /\ ~IsPrivate(chain, raw) /\ raw.v >= 35

ChainIdOf(chain, raw) == IF HasChainId(chain, raw) THEN (raw.v - 35) \div 2
                         ELSE FieldOf(chain, raw, "chainid")

\* The list whose hash the node recovers the sender from.
SignedList(chain, raw) ==
  IF HasChainId(chain, raw) THEN raw.list \o <<ChainIdOf(chain, raw), 0, 0>> ELSE raw.list

Stranger == 0

Sender(chain, raw) ==
  IF raw.sig.whole /\ raw.sig.over = SignedList(chain, raw) THEN raw.sig.key ELSE Stranger
=============================================================================
