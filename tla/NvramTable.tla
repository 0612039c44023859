----------------------------- MODULE NvramTable -----------------------------
(***************************************************************************)
(* The layout shared by the keypair, private-key and network tables of the *)
(* SDK: a four-byte header (AA 55 num crc) followed by `num` records laid  *)
(* one behind the other.  A table is walked from its first record by the   *)
(* length of each record, so the model keeps the slot a record is found at *)
(* instead of its byte offset.  Bytes behind the last record, which the    *)
(* walk never reaches, are NoRec unless they are a complete record that an *)
(* earlier write left there.  Every operator is what one read or one write *)
(* of the table does.                                                      *)
(***************************************************************************)
EXTENDS Integers

CONSTANT NoRec          \* bytes that do not parse as a record

BadNum == -1            \* a header utility_check_NumBytes refuses

\* A slot array whose records come from Recs, with its header.
TableOf(max, Recs) ==
  [num : BadNum..max, slot : [1..max -> Recs \cup {NoRec}]]

\* Storage that holds nothing yet: file too short, or a zeroed buffer.
BlankTable(max) == [num |-> BadNum, slot |-> [p \in 1..max |-> NoRec]]

\* The number of records a reader works with: a refused header counts as 0.
Count(t) == IF t.num = BadNum THEN 0 ELSE t.num

\* The slots, within the first n, whose record carries index i.
Found(t, n, i) == {p \in 1..n : t.slot[p].index = i}

\* The walk stops at the first record that matches.
FirstOf(S) == CHOOSE p \in S : \A q \in S : p <= q

\* The indices the first n records carry.
Used(t, n) == {t.slot[p].index : p \in 1..n}

\* The smallest index of 1..max that is not in S.
LeastFree(S, max) == FirstOf((1..max) \ S)

\* Offset of the byte behind the first n records, header included.
AreaEnd(t, n) ==
  LET end[p \in 0..n] == IF p = 0 THEN 4 ELSE end[p-1] + t.slot[p].len
  IN  end[n]

WriteNum(t, n) == [num |-> n, slot |-> t.slot]

\* The records behind slot p stay in place only when what is written over
\* slot p is as long as what was there.
WriteRec(t, p, r) ==
  [num  |-> t.num,
   slot |-> [q \in DOMAIN t.slot |->
     IF q = p THEN r
     ELSE IF q < p \/ (t.slot[p] # NoRec /\ t.slot[p].len = r.len) THEN t.slot[q]
     ELSE NoRec]]

\* The first n records lose the one at slot p.  Of the last record the first
\* bytes are zeroed; otherwise the bytes of p+1..n are copied over p, and the
\* copy leaves the old last record readable behind them exactly when it is as
\* long as the one that went.
DropRec(t, p, n) ==
  [num  |-> t.num,
   slot |-> [q \in DOMAIN t.slot |->
     IF p <= q /\ q < n THEN t.slot[q+1]
     ELSE IF q < p \/ (p < n /\ t.slot[p].len = t.slot[n].len) THEN t.slot[q]
     ELSE NoRec]]
=============================================================================
