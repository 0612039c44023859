----------------------------- MODULE RlpEncoder -----------------------------
(***************************************************************************)
(* RLP objects (boatrlp.c) as the transactions use them: strings are       *)
(* filled from what the application wrote, put into lists, and the list    *)
(* that is the transaction is encoded, changed and encoded again.          *)
(*                                                                         *)
(* A list holds pointers: what is done to an object shows in every list it *)
(* is in.  Every list has two blocks of memory, its descriptors and the    *)
(* stream it was last encoded to.                                          *)
(***************************************************************************)
EXTENDS BoatUtility, PlatonBech32
LOCAL INSTANCE SequencesExt

CONSTANTS
  Fields, Payloads,       \* string objects: numbers and addresses; data
  Inner, Outer,           \* two lists; Inner may be put into Outer
  MAX_RLP_LIST_DESC_NUM,  \* entries of a list
  FIELD_SIZE,             \* bytes of a BoatFieldMax32B
  Quantities,             \* hexadecimal texts the application writes for numbers
  Datas,                  \* byte strings it passes as data
  Recipients, Hrp,        \* PlatON addresses it means, as bytes, and their human-readable part
  MaxFaults,              \* bound: how often memory is short
  MaxOver                 \* bound on over

VARIABLES
  heap,    \* the objects
  blocks,  \* ghost: blocks allocated and not freed
  over,    \* ghost: streams that were there when RlpEncode was called
  ret,     \* the last call and its result
  faults,  \* how often memory may still be short
  alive    \* FALSE: a pointer that was never set was freed

vars == <<heap, blocks, over, ret, faults, alive>>

Strings == Fields \cup Payloads
Lists   == {Inner, Outer}
Objects == Strings \cup Lists

ASSUME ObjectAssumption == Inner # Outer /\ Strings \cap Lists = {}
ASSUME SizeAssumption == MAX_RLP_LIST_DESC_NUM \in Nat \ {0} /\ FIELD_SIZE \in Nat \ {0} /\ {MaxFaults, MaxOver} \subseteq Nat

\* desc counts when alloc is TRUE; a stream is "null", "ok", or "torn": of
\* the right length, and not written to the end.
NoObject   == [type |-> "none", str |-> <<>>, alloc |-> FALSE, desc |-> <<>>, stream |-> "null"]
NewList    == [NoObject EXCEPT !.type = "LIST", !.alloc = TRUE]
Garbage    == [NoObject EXCEPT !.type = "GARBAGE"]
NewString(s) == [NoObject EXCEPT !.type = "STRING", !.str = s]

IsList(h, o) == h[o].type = "LIST" /\ h[o].alloc

----------------------------------------------------------------------------
(* Sizes and encoding.                                                     *)

Unknown == -1   \* RLP_STREAM_LEN_UNKNOWN

LenBytes(n) == UtilityUint32ToBigend(n, "LEFTTRIM")
HeadSize(n) == IF n <= 55 THEN 1 ELSE 1 + Len(LenBytes(n))
IsItself(s) == Len(s) = 1 /\ s[1] <= 127

Sum(sizes) == FoldLeft(LAMBDA a, b : a + b, 0, sizes)

RECURSIVE RlpRecursiveCalcEncodingSize(_, _)
RlpRecursiveCalcEncodingSize(h, o) ==
  IF h[o].type = "STRING"
  THEN IF IsItself(h[o].str) THEN 1 ELSE HeadSize(Len(h[o].str)) + Len(h[o].str)
  ELSE IF ~IsList(h, o) THEN Unknown
  ELSE LET sizes == [i \in DOMAIN h[o].desc |-> RlpRecursiveCalcEncodingSize(h, h[o].desc[i])]
       IN  IF \E i \in DOMAIN sizes : sizes[i] = Unknown THEN Unknown
           ELSE HeadSize(Sum(sizes)) + Sum(sizes)

\* Mutant: a length of 56 is written in the short form.
MutantHeadBytes(base, n) == IF n <= 56 THEN <<base + n>> ELSE <<base + Len(LenBytes(n)) + 55>> \o LenBytes(n)

HeadBytes(base, n) == IF n <= 55 THEN <<base + n>> ELSE <<base + Len(LenBytes(n)) + 55>> \o LenBytes(n)

\* The bytes RlpEncode writes for an object of known size.
RECURSIVE EncodedBytes(_, _)
EncodedBytes(h, o) ==
  IF h[o].type = "STRING"
  THEN IF IsItself(h[o].str) THEN h[o].str ELSE HeadBytes(128, Len(h[o].str)) \o h[o].str
  ELSE LET body == FlattenSeq([i \in DOMAIN h[o].desc |-> EncodedBytes(h, h[o].desc[i])])
       IN  HeadBytes(192, Len(body)) \o body

\* The lists that are reached from object o, o included.
RECURSIVE Reached(_, _)
Reached(h, o) ==
  IF o \notin Lists THEN {}
  ELSE {o} \cup (IF IsList(h, o) THEN UNION {Reached(h, h[o].desc[i]) : i \in DOMAIN h[o].desc} ELSE {})

Streams(h, ls) == {l \in ls : h[l].stream # "null"}

\* Streams are freed in every list that is reached.
RlpRecursiveDeleteEncodedStream(h, o) ==
  [l \in Objects |-> IF l \in Reached(h, o) THEN [h[l] EXCEPT !.stream = "null"] ELSE h[l]]

----------------------------------------------------------------------------

NoRet == [op |-> "none"]

Fault == faults > 0 /\ faults' = faults - 1

Init ==
  /\ heap = [o \in Objects |-> NoObject]
  /\ blocks = 0 /\ over = 0 /\ ret = NoRet /\ faults = MaxFaults /\ alive = TRUE

\* A string object is set up, or set to other bytes.
RlpInitStringObject(o, s) == alive /\ heap' = [heap EXCEPT ![o] = NewString(s)] /\ UNCHANGED <<blocks, over, faults, alive>>

\* A gas price, gas limit or value.
SetQuantity ==
  \E o \in Fields, text \in Quantities :
    LET s == UtilityHexToBin(FIELD_SIZE, text, "LEFTTRIM", TRUE)
    IN  RlpInitStringObject(o, s) /\ ret' = [op |-> "quantity", text |-> text.digits, str |-> s]

SetData == \E o \in Payloads, s \in Datas : RlpInitStringObject(o, s) /\ ret' = NoRet

\* What becomes of address a when it is written down wrong: one character is
\* another one, or two neighbours are swapped.
Swapped(s, i) == [s EXCEPT ![i] = s[i + 1], ![i + 1] = s[i]]
Miswritten(a) ==
  {[a EXCEPT !.chars[i] = c] : i \in DOMAIN a.chars, c \in 0..31 \cup {NoChar}}
    \cup {[a EXCEPT !.hrp[i] = c] : i \in DOMAIN a.hrp, c \in 97..122}
    \cup {[a EXCEPT !.chars = Swapped(a.chars, i)] : i \in 1..Len(a.chars) - 1}

\* The recipient is read before there is any list.
SetRecipient ==
  /\ heap = [o \in Objects |-> NoObject] /\ ret = NoRet
  /\ \E o \in Fields, r \in Recipients :
       LET a == BoatPlatONBech32Encode(r, Hrp)
       IN  \E text \in Miswritten(a) :
             LET s == BoatPlatONBech32Decode(text)
             IN  /\ IF s = <<>> THEN alive /\ UNCHANGED <<heap, blocks, over, faults, alive>> ELSE RlpInitStringObject(o, s)
                 /\ ret' = [op |-> "recipient", right |-> text = a, meant |-> r, str |-> s]

\* Without memory the object is left as it lay on the stack.
RlpInitListObject ==
  /\ alive
  /\ \E l \in Lists :
       /\ ~heap[l].alloc
       /\ \/ heap' = [heap EXCEPT ![l] = NewList] /\ blocks' = blocks + 1 /\ UNCHANGED faults
          \/ Fault /\ heap' = [heap EXCEPT ![l] = Garbage] /\ UNCHANGED blocks
  /\ ret' = NoRet /\ UNCHANGED <<over, alive>>

\* An object that can be an entry of list l.
Entry(l, o) == \/ o \in Strings /\ heap[o].type = "STRING"
               \/ o = Inner /\ l = Outer /\ IsList(heap, Inner)

RlpEncoderAppendObjectToList ==
  /\ alive
  /\ \E l \in Lists, o \in Objects :
       /\ IsList(heap, l) /\ Entry(l, o)
       /\ Len(heap[l].desc) < MAX_RLP_LIST_DESC_NUM
       /\ heap' = [heap EXCEPT ![l].desc = Append(@, o)]
  /\ ret' = NoRet /\ UNCHANGED <<blocks, over, faults, alive>>

RlpEncoderReplaceObjectInList ==
  /\ alive
  /\ \E l \in Lists, o \in Objects :
       /\ IsList(heap, l) /\ Entry(l, o)
       /\ \E i \in DOMAIN heap[l].desc : heap' = [heap EXCEPT ![l].desc[i] = o]
  /\ ret' = NoRet /\ UNCHANGED <<blocks, over, faults, alive>>

\* RlpEncode of list l in heap h, with b blocks allocated.  The lists in l get
\* a stream of their own, which is copied and freed; whatever they had for a
\* stream is forgotten.
Encodes(h, b, l) ==
  LET inner == Reached(h, l) \ {l}
      Put(st) == [x \in Objects |-> IF x \in inner THEN [h[x] EXCEPT !.stream = "null"]
                                    ELSE IF x = l THEN [h[x] EXCEPT !.stream = st] ELSE h[x]]
      Result(code) == ret' = [op |-> "encode", code |-> code, list |-> l,
                              stream |-> IF code = "SUCCESS" THEN EncodedBytes(h, l) ELSE <<>>]
  IN  IF RlpRecursiveCalcEncodingSize(h, l) = Unknown
      THEN heap' = h /\ blocks' = b /\ Result("RLP_ENCODER_FAIL") /\ UNCHANGED faults
      ELSE \/ heap' = Put("ok") /\ blocks' = b + 1 /\ Result("SUCCESS") /\ UNCHANGED faults
           \/ Fault /\ heap' = [h EXCEPT ![l].stream = "null"] /\ blocks' = b /\ Result("OUT_OF_MEMORY")
           \/ inner # {} /\ Fault /\ heap' = Put("torn") /\ blocks' = b + 1 /\ Result("RLP_ENCODER_FAIL")

\* A transaction is encoded with RlpEncode, and by Quorum once more for every
\* field; a stream that is there already is not freed.
RlpEncode ==
  /\ alive
  /\ \E l \in Lists :
       /\ heap[l].type = "LIST" /\ Encodes(heap, blocks, l)
       /\ over' = over + Cardinality(Streams(heap, Reached(heap, l)))
       /\ over' <= MaxOver
  /\ UNCHANGED alive

\* Mutant: the streams are not freed before.
MutantRlpReEncode ==
  /\ alive
  /\ \E l \in Lists : heap[l].type = "LIST" /\ Encodes(heap, blocks, l)
  /\ UNCHANGED <<over, alive>>

\* RlpReEncode frees it.
RlpReEncode ==
  /\ alive
  /\ \E l \in Lists :
       /\ heap[l].type = "LIST"
       /\ Encodes(RlpRecursiveDeleteEncodedStream(heap, l),
                  blocks - Cardinality(Streams(heap, Reached(heap, l))), l)
  /\ UNCHANGED <<over, alive>>

\* Both blocks of every list that is reached are freed, once.
RlpRecursiveDeleteObject ==
  /\ alive /\ ret' = NoRet /\ UNCHANGED <<over, faults>>
  /\ \E l \in Lists :
       \/ heap[l].type = "GARBAGE" /\ alive' = FALSE /\ UNCHANGED <<heap, blocks>>
       \/ /\ heap[l].type = "LIST" /\ UNCHANGED alive
          /\ LET gone == Reached(heap, l)
             IN  /\ heap' = [o \in Objects |-> IF o \in gone THEN [heap[o] EXCEPT !.alloc = FALSE, !.desc = <<>>, !.stream = "null"]
                                               ELSE heap[o]]
                 /\ blocks' = blocks - Cardinality(Streams(heap, gone)) - Cardinality({o \in gone : heap[o].alloc})

Next ==
  \/ SetQuantity \/ SetData \/ SetRecipient
  \/ RlpInitListObject \/ RlpEncoderAppendObjectToList \/ RlpEncoderReplaceObjectInList
  \/ RlpEncode \/ RlpReEncode \/ RlpRecursiveDeleteObject

Spec == Init /\ [][Next]_vars

----------------------------------------------------------------------------
(* The node's side: how it reads what it is sent (external).               *)

Malformed == [list |-> FALSE, str |-> <<>>, items |-> <<>>, bad |-> TRUE]
Str(s)    == [list |-> FALSE, str |-> s, items |-> <<>>, bad |-> FALSE]
Lst(is)   == [list |-> TRUE, str |-> <<>>, items |-> is, bad |-> \E i \in DOMAIN is : is[i].bad]

Number(s) == FoldLeft(LAMBDA acc, b : 256 * acc + b, 0, s)

\* The items of byte string s; only the shortest form of an item is accepted.
RECURSIVE Items(_)
Items(s) ==
  IF s = <<>> THEN <<>>
  ELSE LET p    == s[1]
           base == IF p >= 192 THEN 192 ELSE 128
           k    == IF p < 128 THEN 0 ELSE IF p - base > 55 THEN p - base - 55 ELSE 0    \* bytes of the length
           lens == Tail(UpTo(s, 1 + k))
           n    == IF p < 128 THEN 1 ELSE IF k = 0 THEN p - base ELSE Number(lens)
           from == IF p < 128 THEN 1 ELSE 2 + k
           body == SubSeq(UpTo(s, from + n - 1), from, Len(UpTo(s, from + n - 1)))
           rest == SubSeq(s, from + n, Len(s))
       IN  IF Len(body) # n \/ (k > 0 /\ (n <= 55 \/ lens[1] = 0)) \/ (p = 129 /\ body[1] < 128) THEN <<Malformed>>
           ELSE <<IF p >= 192 THEN Lst(Items(body)) ELSE Str(body)>> \o Items(rest)

\* Object o as the application put it together.
RECURSIVE Tree(_, _)
Tree(h, o) == IF h[o].type = "STRING" THEN Str(h[o].str) ELSE Lst([i \in DOMAIN h[o].desc |-> Tree(h, h[o].desc[i])])

----------------------------------------------------------------------------
(* Properties.                                                             *)

\* The text that is sent for a list which was encoded or encoded again is read
\* by the node as the list that was put together, with the bytes its objects
\* have now; and the encoding takes as many bytes as were allocated for it
\* (RlpRecursiveCalcEncodingSize, RlpEncode, UtilityBinToHex).
NodeReadsTheList ==
  ret.op = "encode" /\ ret.code = "SUCCESS" =>
    LET sent == UtilityBinToHex(ret.stream, "UNFMTDATA", TRUE, FALSE)
    IN  /\ Items(Bytes(sent.digits)) = <<Tree(heap, ret.list)>>
        /\ Len(ret.stream) = RlpRecursiveCalcEncodingSize(heap, ret.list)

\* No block of memory is freed while an object holds it, and the blocks that no
\* object holds any more are streams that were there when RlpEncode was called,
\* as QuorumSendRawtx does: RlpReEncode and RlpRecursiveDeleteObject lose none,
\* whatever is encoded or deleted in which order, lists in two places and
\* failed allocations included.
NoBlockLost ==
  alive => LET held == Cardinality({l \in Lists : heap[l].alloc}) + Cardinality(Streams(heap, Lists))
           IN  blocks - held \in 0..over

\* A number goes into the transaction as it was written, with or without a
\* prefix, leading zeros or an odd number of digits, and in the shortest form,
\* if it is a number and fits (UtilityHexToBin).
QuantityIsWhatWasWritten ==
  ret.op = "quantity" /\ (\A i \in DOMAIN ret.text : ret.text[i] # NoDigit) /\ Len(Trimmed(ret.text)) <= 2 * FIELD_SIZE =>
    Trimmed(Digits(ret.str)) = Trimmed(ret.text) /\ Trimmed(ret.str) = ret.str

\* An address is taken for the account it was made from, and refused when one
\* character is wrong or two neighbours are swapped (BoatPlatONBech32Decode).
AddressChecked ==
  ret.op = "recipient" => ret.str = IF ret.right THEN ret.meant ELSE <<>>
=============================================================================
