------------------------- MODULE NvramTable_proofs -------------------------
(***************************************************************************)
(* What a read or a write of a table does, for every table size and every  *)
(* set of records.  The stores' proofs use the tables only through these   *)
(* lemmas.                                                                 *)
(***************************************************************************)
EXTENDS NvramTable, WellFoundedInduction, TLAPS

\* The first matching record exists as soon as some record matches.
LEMMA FirstOfIsLeast ==
  ASSUME NEW S, S \subseteq Nat, S # {}
  PROVE  FirstOf(S) \in S /\ \A q \in S : FirstOf(S) <= q
<1>1. PICK p \in S : \A q \in S : ~ (<<q, p>> \in OpToRel(<, Nat))
  BY NatLessThanWellFounded, WFMin
<1>2. ASSUME NEW q \in S, q < p
      PROVE  FALSE
  <2>1. q \in Nat /\ p \in Nat
    OBVIOUS
  <2>2. <<q, p>> \in OpToRel(<, Nat)
    BY <2>1, <1>2 DEF OpToRel
  <2>. QED
    BY <1>1, <2>2
<1>3. \A q \in S : p <= q
  BY <1>2
<1>. QED
  BY <1>3 DEF FirstOf

\* The smallest free index is an index, and it is free.
LEMMA LeastFreeIsFree ==
  ASSUME NEW max \in Nat, NEW S, ~(1..max \subseteq S)
  PROVE  LeastFree(S, max) \in (1..max) \ S
BY FirstOfIsLeast DEF LeastFree

\* A search among the first n records that finds something returns one of
\* them, and it carries the index looked for.
LEMMA FoundFirst ==
  ASSUME NEW t, NEW n \in Nat, NEW i, Found(t, n, i) # {}
  PROVE  /\ FirstOf(Found(t, n, i)) \in 1..n
         /\ t.slot[FirstOf(Found(t, n, i))].index = i
         /\ n >= 1
<1>1. Found(t, n, i) \subseteq Nat
  BY DEF Found
<1>2. FirstOf(Found(t, n, i)) \in Found(t, n, i)
  BY <1>1, FirstOfIsLeast
<1>. QED
  BY <1>2 DEF Found

LEMMA CountRange ==
  ASSUME NEW max \in Nat, NEW Recs, NEW t \in TableOf(max, Recs)
  PROVE  Count(t) \in 0..max
BY DEF Count, TableOf, BadNum

LEMMA BlankIsTable ==
  ASSUME NEW max \in Nat, NEW Recs
  PROVE  BlankTable(max) \in TableOf(max, Recs) /\ Count(BlankTable(max)) = 0
BY DEF BlankTable, TableOf, BadNum, Count

LEMMA WriteNumEffect ==
  ASSUME NEW max \in Nat, NEW Recs, NEW t \in TableOf(max, Recs), NEW n \in BadNum..max
  PROVE  /\ WriteNum(t, n) \in TableOf(max, Recs)
         /\ WriteNum(t, n).num = n
         /\ WriteNum(t, n).slot = t.slot
BY DEF WriteNum, TableOf

\* A record is written; the records in front of it stay.
LEMMA WriteRecEffect ==
  ASSUME NEW max \in Nat, NEW Recs, NEW t \in TableOf(max, Recs),
         NEW p \in 1..max, NEW r \in Recs \cup {NoRec}
  PROVE  /\ WriteRec(t, p, r) \in TableOf(max, Recs)
         /\ WriteRec(t, p, r).num = t.num
         /\ WriteRec(t, p, r).slot[p] = r
         /\ \A q \in 1..(p-1) : WriteRec(t, p, r).slot[q] = t.slot[q]
<1>. DEFINE R == Recs \cup {NoRec}
            w == WriteRec(t, p, r).slot
<1>1. t.num \in BadNum..max /\ t.slot \in [1..max -> R]
  BY DEF TableOf
<1>2. WriteRec(t, p, r) = [num |-> t.num, slot |-> w]
  BY DEF WriteRec
<1>3. w = [q \in 1..max |->
             IF q = p THEN r
             ELSE IF q < p \/ (t.slot[p] # NoRec /\ t.slot[p].len = r.len) THEN t.slot[q]
             ELSE NoRec]
  BY <1>1 DEF WriteRec
<1>4. w \in [1..max -> R]
  <2>. SUFFICES ASSUME NEW q \in 1..max PROVE t.slot[q] \in R
    BY <1>3
  <2>. QED
    BY <1>1
<1>5. w[p] = r
  BY <1>3
<1>6. ASSUME NEW q \in 1..(p-1)
      PROVE  w[q] = t.slot[q]
  <2>1. q \in 1..max /\ q < p /\ q # p
    OBVIOUS
  <2>. QED
    BY <1>3, <2>1
<1>. QED
  BY <1>1, <1>2, <1>4, <1>5, <1>6 DEF TableOf

\* A record is removed; those behind it move down by one slot.
LEMMA DropRecEffect ==
  ASSUME NEW max \in Nat, NEW Recs, NEW t \in TableOf(max, Recs),
         NEW n \in 0..max, NEW p \in 0..max
  PROVE  /\ DropRec(t, p, n) \in TableOf(max, Recs)
         /\ DropRec(t, p, n).num = t.num
         /\ \A q \in 1..max : q < p /\ p <= n => DropRec(t, p, n).slot[q] = t.slot[q]
         /\ \A q \in 1..max : p <= q /\ q < n => DropRec(t, p, n).slot[q] = t.slot[q+1]
<1>. DEFINE R == Recs \cup {NoRec}
            w == DropRec(t, p, n).slot
<1>1. t.num \in BadNum..max /\ t.slot \in [1..max -> R]
  BY DEF TableOf
<1>2. DropRec(t, p, n) = [num |-> t.num, slot |-> w]
  BY DEF DropRec
<1>3. w = [q \in 1..max |->
             IF p <= q /\ q < n THEN t.slot[q+1]
             ELSE IF q < p \/ (p < n /\ t.slot[p].len = t.slot[n].len) THEN t.slot[q]
             ELSE NoRec]
  BY <1>1 DEF DropRec
<1>4. w \in [1..max -> R]
  <2>. SUFFICES ASSUME NEW q \in 1..max
                PROVE  t.slot[q] \in R /\ (q < n => t.slot[q+1] \in R)
    BY <1>3
  <2>. QED
    BY <1>1
<1>5. \A q \in 1..max : /\ q < p /\ p <= n => w[q] = t.slot[q]
                        /\ p <= q /\ q < n => w[q] = t.slot[q+1]
  BY <1>3
<1>. QED
  BY <1>1, <1>2, <1>4, <1>5 DEF TableOf

----------------------------------------------------------------------------
(* The byte a table ends at.  AreaEnd is a recursive function; what it     *)
(* computes is shown by induction, in the form "a set of numbers that      *)
(* holds 0 and with each number the next one holds every number".          *)

LEMMA Induct ==
  ASSUME NEW S, 0 \in S, \A n \in Nat : n \in S => n + 1 \in S
  PROVE  \A n \in Nat : n \in S
<1>. DEFINE B == Nat \ S
<1>1. ASSUME B # {} PROVE FALSE
  <2>1. FirstOf(B) \in B /\ \A q \in B : FirstOf(B) <= q
    BY <1>1, FirstOfIsLeast
  <2>. DEFINE m == FirstOf(B)
  <2>2. m \in Nat /\ m \notin S /\ m # 0
    BY <2>1
  <2>3. m - 1 \in Nat /\ m - 1 < m /\ (m - 1) + 1 = m
    BY <2>2
  <2>4. m - 1 \in S
    BY <2>1, <2>3
  <2>. QED
    BY <2>2, <2>3, <2>4
<1>. QED
  BY <1>1

\* f lists the ends of the first n records of t.
Ends(f, t, n) == f = [p \in 0..n |-> IF p = 0 THEN 4 ELSE f[p-1] + t.slot[p].len]

LEMMA EndsExist ==
  ASSUME NEW t, NEW n \in Nat
  PROVE  \E f : Ends(f, t, n)
<1>. DEFINE S == {k \in Nat : \E f : Ends(f, t, k)}
<1>1. 0 \in S
  <2>. DEFINE f == [p \in 0..0 |-> 4]
  <2>1. f = [p \in 0..0 |-> IF p = 0 THEN 4 ELSE f[p-1] + t.slot[p].len]
    OBVIOUS
  <2>. QED
    BY <2>1 DEF Ends
<1>2. ASSUME NEW k \in Nat, k \in S PROVE k + 1 \in S
  <2>1. PICK f : Ends(f, t, k)
    BY <1>2
  <2>. DEFINE g == [p \in 0..(k+1) |-> IF p = k + 1 THEN f[k] + t.slot[k+1].len ELSE f[p]]
  <2>2. \A p \in 0..k : f[p] = IF p = 0 THEN 4 ELSE f[p-1] + t.slot[p].len
    BY <2>1 DEF Ends
  <2>3. ASSUME NEW p \in 0..(k+1)
        PROVE  g[p] = IF p = 0 THEN 4 ELSE g[p-1] + t.slot[p].len
    <3>1. CASE p = k + 1
      BY <3>1
    <3>2. CASE p # k + 1 /\ p # 0
      <4>1. p \in 0..k /\ p - 1 \in 0..k /\ p - 1 \in 0..(k+1) /\ p - 1 # k + 1
        BY <3>2
      <4>. QED
        BY <2>2, <3>2, <4>1
    <3>3. CASE p # k + 1 /\ p = 0
      BY <2>2, <3>3
    <3>. QED
      BY <3>1, <3>2, <3>3
  <2>. HIDE DEF g
  <2>4. DOMAIN g = 0..(k+1) /\ g = [p \in DOMAIN g |-> g[p]]
    BY DEF g
  <2>5. Ends(g, t, k + 1)
    BY <2>3, <2>4 DEF Ends
  <2>. QED
    BY <2>5
<1>. HIDE DEF S
<1>3. n \in S
  BY <1>1, <1>2, Induct
<1>. QED
  BY <1>3 DEF S

LEMMA EndsUnique ==
  ASSUME NEW t, NEW u, NEW m \in Nat, NEW n \in Nat, NEW f, NEW g, Ends(f, t, m), Ends(g, u, n),
         NEW k \in Nat, k <= m, k <= n, \A p \in 1..k : t.slot[p].len = u.slot[p].len
  PROVE  f[k] = g[k]
<1>. DEFINE S == {j \in Nat : j <= k => f[j] = g[j]}
<1>0. /\ \A p \in 0..m : f[p] = IF p = 0 THEN 4 ELSE f[p-1] + t.slot[p].len
      /\ \A p \in 0..n : g[p] = IF p = 0 THEN 4 ELSE g[p-1] + u.slot[p].len
  BY DEF Ends
<1>1. 0 \in S
  <2>1. 0 \in 0..m /\ 0 \in 0..n
    OBVIOUS
  <2>. QED
    BY <1>0, <2>1
<1>2. ASSUME NEW j \in Nat, j \in S PROVE j + 1 \in S
  <2>. SUFFICES ASSUME j + 1 <= k PROVE f[j+1] = g[j+1]
    OBVIOUS
  <2>1. j + 1 \in 0..m /\ j + 1 \in 0..n /\ j + 1 # 0 /\ (j + 1) - 1 = j /\ j + 1 \in 1..k /\ j <= k
    OBVIOUS
  <2>2. f[j+1] = f[j] + t.slot[j+1].len /\ g[j+1] = g[j] + u.slot[j+1].len
    BY <1>0, <2>1
  <2>. QED
    BY <1>2, <2>1, <2>2
<1>. HIDE DEF S
<1>3. k \in S
  BY <1>1, <1>2, Induct
<1>. QED
  BY <1>3 DEF S

LEMMA AreaIsEnds ==
  ASSUME NEW t, NEW n \in Nat
  PROVE  \E f : Ends(f, t, n) /\ AreaEnd(t, n) = f[n]
<1>. DEFINE e == CHOOSE f : f = [p \in 0..n |-> IF p = 0 THEN 4 ELSE f[p-1] + t.slot[p].len]
<1>1. \E f : f = [p \in 0..n |-> IF p = 0 THEN 4 ELSE f[p-1] + t.slot[p].len]
  BY EndsExist DEF Ends
<1>2. e = [p \in 0..n |-> IF p = 0 THEN 4 ELSE e[p-1] + t.slot[p].len]
  BY <1>1
<1>3. AreaEnd(t, n) = e[n]
  BY DEF AreaEnd
<1>. QED
  BY <1>2, <1>3 DEF Ends

\* The area behind one more record.
LEMMA AreaStep ==
  ASSUME NEW t
  PROVE  /\ AreaEnd(t, 0) = 4
         /\ \A n \in Nat : AreaEnd(t, n + 1) = AreaEnd(t, n) + t.slot[n+1].len
<1>1. AreaEnd(t, 0) = 4
  <2>1. PICK f : Ends(f, t, 0) /\ AreaEnd(t, 0) = f[0]
    BY AreaIsEnds
  <2>2. 0 \in 0..0
    OBVIOUS
  <2>. QED
    BY <2>1, <2>2 DEF Ends
<1>2. ASSUME NEW n \in Nat PROVE AreaEnd(t, n + 1) = AreaEnd(t, n) + t.slot[n+1].len
  <2>1. PICK f : Ends(f, t, n) /\ AreaEnd(t, n) = f[n]
    BY AreaIsEnds
  <2>2. PICK g : Ends(g, t, n + 1) /\ AreaEnd(t, n + 1) = g[n+1]
    BY AreaIsEnds
  <2>3. f[n] = g[n]
    <3>. DEFINE m == n + 1
    <3>1. m \in Nat /\ n <= n /\ n <= m
      OBVIOUS
    <3>2. Ends(g, t, m)
      BY <2>2
    <3>. HIDE DEF m
    <3>. QED
      BY <2>1, <3>1, <3>2, EndsUnique
  <2>4. n + 1 \in 0..(n+1) /\ n + 1 # 0 /\ (n + 1) - 1 = n
    OBVIOUS
  <2>5. g[n+1] = g[n] + t.slot[n+1].len
    BY <2>2, <2>4 DEF Ends
  <2>. QED
    BY <2>1, <2>2, <2>3, <2>5
<1>. QED
  BY <1>1, <1>2

\* Tables that agree on the lengths of their first n records end at the same byte.
LEMMA AreaSame ==
  ASSUME NEW t, NEW u, NEW n \in Nat, \A p \in 1..n : t.slot[p].len = u.slot[p].len
  PROVE  AreaEnd(t, n) = AreaEnd(u, n)
<1>1. PICK f : Ends(f, t, n) /\ AreaEnd(t, n) = f[n]
  BY AreaIsEnds
<1>2. PICK g : Ends(g, u, n) /\ AreaEnd(u, n) = g[n]
  BY AreaIsEnds
<1>. QED
  BY <1>1, <1>2, EndsUnique

\* ... at most so many bytes each.
LEMMA AreaBound ==
  ASSUME NEW t, NEW n \in Nat, NEW c \in Nat, \A p \in 1..n : t.slot[p].len \in 0..c
  PROVE  AreaEnd(t, n) \in 4..(4 + n * c)
<1>. DEFINE S == {k \in Nat : k <= n => AreaEnd(t, k) \in 4..(4 + k * c)}
<1>1. 0 \in S
  BY AreaStep
<1>2. ASSUME NEW k \in Nat, k \in S PROVE k + 1 \in S
  <2>. SUFFICES ASSUME k + 1 <= n PROVE AreaEnd(t, k + 1) \in 4..(4 + (k + 1) * c)
    OBVIOUS
  <2>1. k \in Nat /\ k + 1 \in 1..n /\ k <= n
    OBVIOUS
  <2>2. AreaEnd(t, k + 1) = AreaEnd(t, k) + t.slot[k+1].len
    BY AreaStep
  <2>3. AreaEnd(t, k) \in 4..(4 + k * c) /\ t.slot[k+1].len \in 0..c
    BY <1>2, <2>1
  <2>4. (k + 1) * c = k * c + c /\ k * c \in Nat
    OBVIOUS
  <2>. QED
    BY <2>2, <2>3, <2>4
<1>. HIDE DEF S
<1>3. n \in S
  BY <1>1, <1>2, Induct
<1>. QED
  BY <1>3 DEF S

LEMMA AreaType ==
  ASSUME NEW t, NEW n \in Nat, \A p \in 1..n : t.slot[p].len \in Nat
  PROVE  AreaEnd(t, n) \in Nat
<1>. DEFINE S == {k \in Nat : k <= n => AreaEnd(t, k) \in Nat}
<1>1. 0 \in S
  BY AreaStep
<1>2. ASSUME NEW k \in Nat, k \in S PROVE k + 1 \in S
  <2>. SUFFICES ASSUME k + 1 <= n PROVE AreaEnd(t, k + 1) \in Nat
    OBVIOUS
  <2>1. k \in Nat /\ k + 1 \in 1..n /\ k <= n
    OBVIOUS
  <2>2. AreaEnd(t, k + 1) = AreaEnd(t, k) + t.slot[k+1].len
    BY AreaStep
  <2>. QED
    BY <1>2, <2>1, <2>2
<1>. HIDE DEF S
<1>3. n \in S
  BY <1>1, <1>2, Induct
<1>. QED
  BY <1>3 DEF S

\* A table w that lost the record at slot p ends that much earlier.
LEMMA AreaDrop ==
  ASSUME NEW t, NEW w, NEW n \in Nat, NEW p \in 1..n,
         \A q \in 1..n : t.slot[q].len \in Nat,
         \A q \in 1..(p-1) : w.slot[q] = t.slot[q],
         \A q \in p..(n-1) : w.slot[q] = t.slot[q+1]
  PROVE  AreaEnd(w, n - 1) + t.slot[p].len = AreaEnd(t, n)
<1>. DEFINE S == {d \in Nat : p + d <= n => AreaEnd(w, p + d - 1) + t.slot[p].len = AreaEnd(t, p + d)}
<1>0. /\ p - 1 \in Nat /\ (p - 1) + 1 = p /\ p + 0 - 1 = p - 1 /\ p + 0 = p
      /\ \A q \in 1..(p-1) : w.slot[q].len = t.slot[q].len
  OBVIOUS
<1>1. 0 \in S
  <2>1. AreaEnd(w, p - 1) = AreaEnd(t, p - 1)
    BY <1>0, AreaSame
  <2>2. AreaEnd(t, (p - 1) + 1) = AreaEnd(t, p - 1) + t.slot[(p-1)+1].len
    BY <1>0, AreaStep
  <2>. QED
    BY <1>0, <2>1, <2>2
<1>2. ASSUME NEW d \in Nat, d \in S PROVE d + 1 \in S
  <2>. SUFFICES ASSUME p + (d + 1) <= n
                PROVE  AreaEnd(w, p + (d + 1) - 1) + t.slot[p].len = AreaEnd(t, p + (d + 1))
    OBVIOUS
  <2>. DEFINE e == p + d
  <2>1. /\ e \in Nat /\ e - 1 \in Nat /\ (e - 1) + 1 = e /\ e <= n /\ e \in p..(n-1)
        /\ p + (d + 1) - 1 = e /\ p + (d + 1) = e + 1 /\ e + 1 \in 1..n
    OBVIOUS
  <2>2. AreaEnd(w, e - 1) + t.slot[p].len = AreaEnd(t, e)
    BY <1>2, <2>1
  <2>. HIDE DEF e
  <2>3. AreaEnd(w, (e - 1) + 1) = AreaEnd(w, e - 1) + w.slot[(e-1)+1].len
    BY <2>1, AreaStep
  <2>4. AreaEnd(t, e + 1) = AreaEnd(t, e) + t.slot[e+1].len
    BY <2>1, AreaStep
  <2>5. w.slot[e].len = t.slot[e+1].len /\ t.slot[e+1].len \in Nat /\ t.slot[p].len \in Nat
    BY <2>1
  <2>6. AreaEnd(w, e - 1) \in Nat
    <3>1. \A q \in 1..(e - 1) : w.slot[q].len \in Nat
      <4>. SUFFICES ASSUME NEW q \in 1..(e - 1) PROVE w.slot[q].len \in Nat
        OBVIOUS
      <4>1. CASE q < p
        <5>1. q \in 1..(p-1) /\ q \in 1..n
          BY <4>1
        <5>. QED
          BY <5>1
      <4>2. CASE q >= p
        <5>1. q \in p..(n-1) /\ q + 1 \in 1..n
          BY <4>2, <2>1
        <5>. QED
          BY <5>1
      <4>. QED
        BY <4>1, <4>2, <2>1
    <3>. QED
      BY <2>1, <3>1, AreaType
  <2>7. AreaEnd(w, e) = AreaEnd(w, e - 1) + t.slot[e+1].len
    BY <2>1, <2>3, <2>5
  <2>8. AreaEnd(w, e) + t.slot[p].len = AreaEnd(t, e + 1)
    BY <2>2, <2>4, <2>5, <2>6, <2>7
  <2>. QED
    BY <2>1, <2>8
<1>. HIDE DEF S
<1>3. n - p \in Nat /\ p + (n - p) = n
  OBVIOUS
<1>4. n - p \in S
  BY <1>1, <1>2, <1>3, Induct
<1>. QED
  BY <1>3, <1>4 DEF S
=============================================================================
