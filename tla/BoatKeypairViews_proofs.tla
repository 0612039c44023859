---------------------- MODULE BoatKeypairViews_proofs ----------------------
(***************************************************************************)
(* What the callers of the keypair store see, for every number of          *)
(* keypairs, every set of keys and names: a create that succeeds is usable,*)
(* a delete that fails has changed nothing, no call touches another index, *)
(* and no index ever signs for a public key that is not its own.           *)
(*                                                                         *)
(* The two tables are related through the ghost `pre`.  Between calls it   *)
(* is what the readers see; during a call PairState says, for each point   *)
(* the call can be at, what the tables would show once the writes of a     *)
(* running delete are undone (Pub, Pri) and how that differs from `pre`.   *)
(* PairState survives one fault of any kind; a second one can break it,    *)
(* as the properties say by their Only(...).                               *)
(***************************************************************************)
EXTENDS BoatKeypair_proofs, KeypairRefinement, FiniteSetTheorems

----------------------------------------------------------------------------
(* The inductive invariant.                                                *)

Faultless == faults.left = MaxFaults
AtMostOne == faults.left + 1 >= MaxFaults

KpT == kp["FLASH"]
PkT == pk["FLASH"]

\* The records of the flash tables that count: the header's number, or the
\* number the running store or delete works with.
KpN == IF ctx.index # 0 /\ pc \in {"kpNum", "kpTail", "kpRecover"} THEN ctx.num ELSE Count(KpT)
PkN == IF ctx.index # 0 /\ pc \in {"pkNum", "pkTail", "pkRecover"} THEN ctx.num ELSE Count(PkT)

Pub(j) == KeyAt(KpT, KpN, j)
Pri(j) == KeyAt(PkT, PkN, j)

\* The lengths records of the two tables have.
RecLens    == {BoATKeypair_Get_DataCtx_Len(n) : n \in NameLens}
PrikeyLens == {2 + 97}

FlashRec(L) == [index : Persistent, key : Keys, len : L]

\* The first n records of t are records of persistent keypairs, one of each.
Tidy(t, n, L) ==
  /\ \A p \in 1..n : t.slot[p] \in FlashRec(L)
  /\ \A p, q \in 1..n : t.slot[p].index = t.slot[q].index => p = q

\* A create was given an index in use, after the list of keypairs was misread.
Dup == ctx.api = "create" /\ ctx.index \in Persistent /\ pre[ctx.index].pub # NoKey

\* Its record stands behind the one that was there.
Twice(t, n, i) ==
  /\ n >= 2 /\ Tidy(t, n - 1, RecLens)
  /\ t.slot[n] \in FlashRec(RecLens) /\ t.slot[n].index = i
  /\ Found(t, n - 1, i) # {}

Agree(a, b) == a # NoKey /\ b # NoKey => a = b

PreOK ==
  /\ pre \in [Persistent -> [pub : Keys \cup {NoKey}, pri : Keys \cup {NoKey}]]
  /\ \A j \in Persistent : Agree(pre[j].pub, pre[j].pri)
  /\ Faultless => \A j \in Persistent : pre[j].pub = pre[j].pri

OthersOK ==
  \A j \in Persistent \ {ctx.index} :
    /\ Pub(j) \in {NoKey, pre[j].pub} /\ Pri(j) \in {NoKey, pre[j].pri}
    /\ "read" \notin faults.seen \/ pc = "idle" => Pub(j) = pre[j].pub /\ Pri(j) = pre[j].pri

TabsOK ==
  /\ IF Dup /\ pc \in {"pkRec", "kpDel", "kpTail"}
     THEN Twice(KpT, KpN, ctx.index) ELSE Tidy(KpT, KpN, RecLens)
  /\ Tidy(PkT, PkN, PrikeyLens)
  /\ AreaEnd(KpT, KpN) <= BOAT_STORAGE_KEYPAIR_MAXLEN

PkDeleting == {"pkDel", "pkTail", "pkRecover"}
Deleting   == {"kpTail", "kpRecover"} \cup PkDeleting

\* The keys the running call works with.
OwnKeys(i) ==
  /\ Pri(i) = pre[i].pri
  /\ pc # "kpDel" => ctx.rec \in FlashRec(RecLens) /\ ctx.rec.index = i
  /\ pc \in {"kpRec", "kpNum"} /\ ~ctx.restore => Pub(i) = pre[i].pub
  /\ ctx.api = "create" /\ ~Dup /\ pc \in {"pkRec", "pkNum", "kpDel"} =>
       Pub(i) = ctx.rec.key /\ ctx.rec \in FlashRec(RecLens)
  /\ pc = "pkNum" => pre[i].pri = NoKey
  /\ ctx.api = "delete" /\ pc = "kpDel" => Pub(i) = pre[i].pub
  /\ ~Dup /\ pc \in {"kpTail", "kpRecover"} => Pub(i) = ctx.rec.key
  /\ ~Dup /\ (pc \in PkDeleting \/ ctx.restore) => Pub(i) = NoKey
  /\ ctx.api = "delete" /\ (pc \in Deleting \/ ctx.restore) => pre[i].pub = ctx.rec.key

\* The records its next write relies on.
OwnRecords(i) ==
  /\ pc = "kpNum" => KpT.slot[ctx.num + 1] = ctx.rec
                     /\ ("read" \notin faults.seen => ctx.num = Count(KpT))
  /\ pc = "pkNum" => PkT.slot[ctx.num + 1] = PrikeyRec(ctx.rec)
                     /\ ("read" \notin faults.seen => ctx.num = Count(PkT))
  /\ pc \in {"kpTail", "kpRecover"} =>
       /\ KpT.num = ctx.num - 1 /\ ctx.pos \in 1..ctx.num /\ KpT.slot[ctx.pos] = ctx.rec
       /\ Dup => ctx.pos < ctx.num
  /\ pc \in {"pkTail", "pkRecover"} =>
       PkT.num = ctx.num - 1 /\ ctx.pos \in 1..ctx.num /\ PkT.slot[ctx.pos].index = i

\* There is room for the record it stores, or may have to put back.
OwnRoom(i) ==
  /\ pc = "kpRec" /\ ~ctx.restore /\ "read" \notin faults.seen => Count(KpT) < BOAT_MAX_KEYPAIR_NUM
  /\ pc = "kpNum" => AreaEnd(KpT, ctx.num + 1) <= BOAT_STORAGE_KEYPAIR_MAXLEN
  /\ pc \in PkDeleting \/ (ctx.restore /\ pc = "kpRec") =>
       /\ Count(KpT) < BOAT_MAX_KEYPAIR_NUM
       /\ AreaEnd(KpT, Count(KpT)) + ctx.rec.len <= BOAT_STORAGE_KEYPAIR_MAXLEN

\* How it got where it is.
OwnPast(i) ==
  /\ ctx.api \in {"create", "delete"}
  /\ pc \in {"pkRec", "pkNum"} \/ (pc \in {"kpRec", "kpNum"} /\ ~ctx.restore) => ctx.api = "create"
  /\ Dup => /\ "read" \in faults.seen /\ pre[i].pri # NoKey /\ ~ctx.restore
            /\ pc \in {"kpRec", "kpNum", "pkRec", "kpDel", "kpTail", "pkDel", "pkTail"}
  /\ ctx.restore => pc \in {"kpRec", "kpNum"} /\ ~Faultless
  /\ ctx.restore /\ ctx.api = "create" => pre[i].pri = NoKey /\ ~(faults.seen \subseteq {"crash"})
  /\ pc \in {"kpRecover", "pkRecover"} => ctx.api = "delete" /\ ~(faults.seen \subseteq {"crash"})
  /\ ctx.api = "create" /\ pc \in {"kpDel"} \cup Deleting =>
       ~Faultless /\ (faults.seen \subseteq {"crash"} => pre[i].pri # NoKey)

OwnOK(i) == OwnKeys(i) /\ OwnRecords(i) /\ OwnRoom(i) /\ OwnPast(i)

PairState == PreOK /\ OthersOK /\ TabsOK /\ (ctx.index \in Persistent => OwnOK(ctx.index))

\* A fault is counted and remembered together.
Counting == faults.seen = {} <=> Faultless

PairInv == Counting /\ (AtMostOne => PairState)
----------------------------------------------------------------------------
(* What a reader finds in a table.                                         *)

LEMMA KeyOfOne ==
  ASSUME NEW t, NEW n \in Nat, NEW p \in 1..n,
         \A q \in 1..n : t.slot[q].index = t.slot[p].index => q = p
  PROVE  KeyAt(t, n, t.slot[p].index) = t.slot[p].key
<1>1. Found(t, n, t.slot[p].index) = {p}
  BY DEF Found
<1>2. FirstOf({p}) = p
  BY DEF FirstOf
<1>. QED
  BY <1>1, <1>2 DEF KeyAt

LEMMA KeyOfNone ==
  ASSUME NEW t, NEW n \in Nat, NEW i, \A q \in 1..n : t.slot[q].index # i
  PROVE  KeyAt(t, n, i) = NoKey /\ Found(t, n, i) = {}
BY DEF KeyAt, Found

LEMMA KeyAtSame ==
  ASSUME NEW t, NEW w, NEW n \in Nat, \A q \in 1..n : w.slot[q] = t.slot[q]
  PROVE  /\ \A j : KeyAt(w, n, j) = KeyAt(t, n, j) /\ Found(w, n, j) = Found(t, n, j)
         /\ \A L : Tidy(t, n, L) => Tidy(w, n, L)
<1>1. ASSUME NEW j PROVE KeyAt(w, n, j) = KeyAt(t, n, j) /\ Found(w, n, j) = Found(t, n, j)
  <2>1. Found(w, n, j) = Found(t, n, j)
    BY DEF Found
  <2>2. CASE Found(t, n, j) = {}
    BY <2>1, <2>2 DEF KeyAt
  <2>3. CASE Found(t, n, j) # {}
    <3>1. FirstOf(Found(t, n, j)) \in 1..n
      BY <2>3, FoundFirst
    <3>. QED
      BY <2>1, <3>1 DEF KeyAt
  <2>. QED
    BY <2>1, <2>2, <2>3
<1>2. ASSUME NEW L, Tidy(t, n, L) PROVE Tidy(w, n, L)
  BY <1>2 DEF Tidy
<1>. QED
  BY <1>1, <1>2

\* In a tidy table a reader finds the one record there is, or none.
LEMMA TidyKeys ==
  ASSUME NEW t, NEW n \in Nat, NEW L, Tidy(t, n, L)
  PROVE  /\ \A p \in 1..n : KeyAt(t, n, t.slot[p].index) = t.slot[p].key
         /\ \A i : Found(t, n, i) # {} => KeyAt(t, n, i) \in Keys /\ KeyAt(t, n, i) # NoKey
         /\ \A i : Found(t, n, i) = {} <=> KeyAt(t, n, i) = NoKey
         /\ \A i : KeyAt(t, n, i) \in Keys \cup {NoKey}
         /\ \A i : KeyAt(t, n, i) = NoKey => \A q \in 1..n : t.slot[q].index # i
<1>1. ASSUME NEW p \in 1..n
      PROVE  KeyAt(t, n, t.slot[p].index) = t.slot[p].key
  <2>1. \A q \in 1..n : t.slot[q].index = t.slot[p].index => q = p
    BY DEF Tidy
  <2>. QED
    BY <2>1, KeyOfOne
<1>2. ASSUME NEW i, Found(t, n, i) # {}
      PROVE  KeyAt(t, n, i) \in Keys /\ KeyAt(t, n, i) # NoKey
  <2>1. FirstOf(Found(t, n, i)) \in 1..n
    BY <1>2, FoundFirst
  <2>2. t.slot[FirstOf(Found(t, n, i))].key \in Keys
    BY <2>1 DEF Tidy, FlashRec
  <2>. QED
    BY <1>2, <2>2, KeyAssumption DEF KeyAt
<1>3. ASSUME NEW i, Found(t, n, i) = {}
      PROVE  KeyAt(t, n, i) = NoKey /\ \A q \in 1..n : t.slot[q].index # i
  BY <1>3 DEF KeyAt, Found
<1>. QED
  BY <1>1, <1>2, <1>3

\* Fewer records show no other keys.
LEMMA TidyCut ==
  ASSUME NEW t, NEW n \in Nat, NEW L, Tidy(t, n, L), NEW k \in 0..n
  PROVE  Tidy(t, k, L) /\ \A j : KeyAt(t, k, j) \in {NoKey, KeyAt(t, n, j)}
<1>0. k \in Nat /\ \A p \in 1..k : p \in 1..n
  OBVIOUS
<1>1. Tidy(t, k, L)
  BY <1>0 DEF Tidy
<1>2. ASSUME NEW j PROVE KeyAt(t, k, j) \in {NoKey, KeyAt(t, n, j)}
  <2>1. CASE \E p \in 1..k : t.slot[p].index = j
    <3>1. PICK p \in 1..k : t.slot[p].index = j
      BY <2>1
    <3>2. KeyAt(t, k, j) = t.slot[p].key
      BY <1>0, <1>1, <3>1, TidyKeys
    <3>3. KeyAt(t, n, j) = t.slot[p].key
      BY <1>0, <3>1, TidyKeys
    <3>. QED
      BY <3>2, <3>3
  <2>2. CASE ~\E p \in 1..k : t.slot[p].index = j
    BY <1>0, <2>2, KeyOfNone
  <2>. QED
    BY <2>1, <2>2
<1>. QED
  BY <1>1, <1>2

\* A record is added behind the others.
LEMMA TidyAppend ==
  ASSUME NEW t, NEW w, NEW n \in Nat, NEW L, Tidy(t, n, L), NEW r \in FlashRec(L),
         \A q \in 1..n : w.slot[q] = t.slot[q], w.slot[n + 1] = r
  PROVE  /\ \A j : j # r.index => KeyAt(w, n + 1, j) = KeyAt(t, n, j)
         /\ KeyAt(t, n, r.index) = NoKey =>
              Tidy(w, n + 1, L) /\ KeyAt(w, n + 1, r.index) = r.key
<1>0. /\ n + 1 \in Nat /\ n + 1 \in 1..(n + 1) /\ \A p \in 1..n : p \in 1..(n + 1)
      /\ \A p \in 1..(n + 1) : p \in 1..n \/ p = n + 1
  OBVIOUS
<1>. DEFINE m == n + 1
<1>00. /\ m \in Nat /\ m \in 1..m /\ \A p \in 1..n : p \in 1..m
       /\ \A p \in 1..m : p \in 1..n \/ p = m
       /\ w.slot[m] = r
  BY <1>0
<1>. HIDE DEF m
<1>1. ASSUME NEW j, j # r.index PROVE KeyAt(w, m, j) = KeyAt(t, n, j)
  <2>1. CASE \E p \in 1..n : t.slot[p].index = j
    <3>1. PICK p \in 1..n : t.slot[p].index = j
      BY <2>1
    <3>2. p \in 1..m /\ w.slot[p].index = j /\ w.slot[p].key = t.slot[p].key
      BY <1>00, <3>1
    <3>3. \A q \in 1..m : w.slot[q].index = w.slot[p].index => q = p
      BY <1>00, <1>1, <3>1, <3>2 DEF Tidy
    <3>4. KeyAt(w, m, w.slot[p].index) = w.slot[p].key
      BY <1>00, <3>2, <3>3, KeyOfOne
    <3>5. KeyAt(t, n, j) = t.slot[p].key
      BY <3>1, TidyKeys
    <3>. QED
      BY <3>2, <3>4, <3>5
  <2>2. CASE \A p \in 1..n : t.slot[p].index # j
    <3>1. \A q \in 1..m : w.slot[q].index # j
      BY <1>00, <1>1, <2>2
    <3>. QED
      BY <1>00, <2>2, <3>1, KeyOfNone
  <2>. QED
    BY <2>1, <2>2
<1>2. ASSUME KeyAt(t, n, r.index) = NoKey
      PROVE  Tidy(w, m, L) /\ KeyAt(w, m, r.index) = r.key
  <2>1. \A q \in 1..n : t.slot[q].index # r.index
    BY <1>2, TidyKeys
  <2>2. \A p \in 1..m : w.slot[p] \in FlashRec(L)
    BY <1>00 DEF Tidy
  <2>3. \A p, q \in 1..m : w.slot[p].index = w.slot[q].index => p = q
    BY <1>00, <2>1 DEF Tidy
  <2>4. Tidy(w, m, L)
    BY <2>2, <2>3 DEF Tidy
  <2>5. KeyAt(w, m, w.slot[m].index) = w.slot[m].key
    BY <1>00, <2>4, TidyKeys
  <2>. QED
    BY <1>00, <2>4, <2>5
<1>. QED
  BY <1>1, <1>2 DEF m

\* The record at slot p goes, and those behind it move up: where the record
\* then at slot q was before.
Src(p, q) == IF q < p THEN q ELSE q + 1

DropsTo(t, w, n, p) == \A q \in 1..(n-1) : w.slot[q] = t.slot[Src(p, q)]

LEMMA SrcRange ==
  ASSUME NEW n \in Nat, NEW p \in 1..n
  PROVE  \A q \in 1..(n-1) : Src(p, q) \in 1..n /\ Src(p, q) # p
BY DEF Src

LEMMA SrcInjective ==
  ASSUME NEW n \in Nat, NEW p \in 1..n
  PROVE  \A q, r \in 1..(n-1) : Src(p, q) = Src(p, r) => q = r
BY DEF Src

LEMMA SrcOnto ==
  ASSUME NEW n \in Nat, NEW p \in 1..n, NEW r \in 1..n, r # p
  PROVE  \E q \in 1..(n-1) : Src(p, q) = r
<1>1. CASE r < p
  <2>1. r \in 1..(n-1) /\ Src(p, r) = r
    BY <1>1 DEF Src
  <2>. QED
    BY <2>1
<1>2. CASE r > p
  <2>1. r - 1 \in 1..(n-1) /\ Src(p, r - 1) = r
    BY <1>2 DEF Src
  <2>. QED
    BY <2>1
<1>. QED
  BY <1>1, <1>2

LEMMA TidyDrop ==
  ASSUME NEW t, NEW w, NEW n \in Nat, NEW p \in 1..n, NEW L, Tidy(t, n, L), DropsTo(t, w, n, p)
  PROVE  /\ Tidy(w, n - 1, L)
         /\ KeyAt(w, n - 1, t.slot[p].index) = NoKey
         /\ \A j : j # t.slot[p].index => KeyAt(w, n - 1, j) = KeyAt(t, n, j)
<1>0. PICK m \in Nat : m = n - 1
  OBVIOUS
<1>1. /\ \A q \in 1..m : Src(p, q) # p /\ w.slot[q] = t.slot[Src(p, q)]
      /\ \A q, r \in 1..m : Src(p, q) = Src(p, r) => q = r
      /\ \A r \in 1..n : r # p => \E q \in 1..m : Src(p, q) = r
  <2>1. \A q \in 1..m : w.slot[q] = t.slot[Src(p, q)]
    BY <1>0 DEF DropsTo
  <2>2. \A q \in 1..m : Src(p, q) # p
    BY <1>0, SrcRange
  <2>3. \A q, r \in 1..m : Src(p, q) = Src(p, r) => q = r
    BY <1>0, SrcInjective
  <2>4. \A r \in 1..n : r # p => \E q \in 1..m : Src(p, q) = r
    BY <1>0, SrcOnto
  <2>. QED
    BY <2>1, <2>2, <2>3, <2>4
<1>2. \A q \in 1..m : Src(p, q) \in 1..n
  BY <1>0, SrcRange
<1>3. Tidy(w, m, L)
  <2>1. \A q \in 1..m : w.slot[q] \in FlashRec(L)
    BY <1>1, <1>2 DEF Tidy
  <2>2. ASSUME NEW q \in 1..m, NEW r \in 1..m, w.slot[q].index = w.slot[r].index
        PROVE  q = r
    <3>1. t.slot[Src(p, q)].index = t.slot[Src(p, r)].index
      BY <1>1, <2>2, Zenon
    <3>2. Src(p, q) = Src(p, r)
      BY <1>2, <3>1 DEF Tidy
    <3>. QED
      BY <1>1, <3>2
  <2>. QED
    BY <2>1, <2>2 DEF Tidy
<1>4. ASSUME NEW q \in 1..m PROVE w.slot[q].index # t.slot[p].index
  <2>1. w.slot[q] = t.slot[Src(p, q)] /\ Src(p, q) \in 1..n /\ Src(p, q) # p
    BY <1>1, <1>2
  <2>. QED
    BY <2>1 DEF Tidy
<1>5. KeyAt(w, m, t.slot[p].index) = NoKey
  BY <1>0, <1>4, KeyOfNone
<1>6. ASSUME NEW j, j # t.slot[p].index PROVE KeyAt(w, m, j) = KeyAt(t, n, j)
  <2>1. CASE \E r \in 1..n : t.slot[r].index = j
    <3>1. PICK r \in 1..n : t.slot[r].index = j
      BY <2>1
    <3>2. PICK q \in 1..m : Src(p, q) = r
      BY <1>1, <1>6, <3>1
    <3>3. w.slot[q] = t.slot[r]
      BY <1>1, <3>2
    <3>4. KeyAt(w, m, w.slot[q].index) = w.slot[q].key
      BY <1>0, <1>3, TidyKeys
    <3>5. KeyAt(t, n, j) = t.slot[r].key
      BY <3>1, TidyKeys
    <3>. QED
      BY <3>1, <3>3, <3>4, <3>5
  <2>2. CASE \A r \in 1..n : t.slot[r].index # j
    <3>1. \A q \in 1..m : w.slot[q].index # j
      <4>. SUFFICES ASSUME NEW q \in 1..m PROVE w.slot[q].index # j
        OBVIOUS
      <4>1. w.slot[q] = t.slot[Src(p, q)] /\ Src(p, q) \in 1..n
        BY <1>1, <1>2
      <4>. QED
        BY <2>2, <4>1
    <3>2. KeyAt(w, m, j) = NoKey
      BY <1>0, <3>1, KeyOfNone
    <3>3. KeyAt(t, n, j) = NoKey
      BY <2>2, KeyOfNone
    <3>. QED
      BY <3>2, <3>3
  <2>. QED
    BY <2>1, <2>2
<1>. QED
  BY <1>0, <1>3, <1>5, <1>6
\* A record is added although its index is there already ...
LEMMA TwiceAppend ==
  ASSUME NEW t, NEW w, NEW n \in Nat, Tidy(t, n, RecLens), NEW r \in FlashRec(RecLens),
         \A q \in 1..n : w.slot[q] = t.slot[q], w.slot[n + 1] = r,
         KeyAt(t, n, r.index) # NoKey
  PROVE  Twice(w, n + 1, r.index)
<1>1. Found(t, n, r.index) # {}
  BY TidyKeys
<1>2. n >= 1 /\ (n + 1) - 1 = n
  BY <1>1 DEF Found
<1>3. Tidy(w, n, RecLens) /\ Found(w, n, r.index) # {}
  BY <1>1, KeyAtSame
<1>. QED
  BY <1>2, <1>3 DEF Twice

\* ... a delete then finds the one that was there first ...
LEMMA TwiceFirst ==
  ASSUME NEW t, NEW n \in Nat, NEW i, Twice(t, n, i)
  PROVE  /\ Found(t, n, i) # {} /\ FirstOf(Found(t, n, i)) \in 1..(n-1)
         /\ FirstOf(Found(t, n, i)) \in 1..n
         /\ t.slot[FirstOf(Found(t, n, i))] \in FlashRec(RecLens)
         /\ t.slot[FirstOf(Found(t, n, i))].index = i
<1>0. PICK m \in Nat : m = n - 1
  BY DEF Twice
<1>1. PICK p \in 1..m : t.slot[p].index = i
  BY <1>0 DEF Twice, Found
<1>2. p \in Found(t, n, i) /\ Found(t, n, i) \subseteq Nat
  BY <1>0, <1>1 DEF Found
<1>3. FirstOf(Found(t, n, i)) \in Found(t, n, i) /\ FirstOf(Found(t, n, i)) <= p
  BY <1>2, FirstOfIsLeast
<1>. DEFINE f == FirstOf(Found(t, n, i))
<1>4. f \in 1..n /\ t.slot[f].index = i /\ f <= p
  BY <1>3 DEF Found
<1>. HIDE DEF f
<1>5. f \in 1..m
  BY <1>1, <1>4
<1>6. t.slot[f] \in FlashRec(RecLens)
  BY <1>0, <1>5 DEF Twice, Tidy
<1>. QED
  BY <1>0, <1>2, <1>4, <1>5, <1>6 DEF f

\* ... and what remains is tidy.
LEMMA TwiceDrop ==
  ASSUME NEW t, NEW w, NEW n \in Nat, NEW p \in 1..n, NEW i, Twice(t, n, i),
         p < n, t.slot[p].index = i, DropsTo(t, w, n, p)
  PROVE  /\ Tidy(w, n - 1, RecLens)
         /\ \A j : j # i => KeyAt(w, n - 1, j) = KeyAt(t, n, j)
<1>0. PICK m \in Nat : m = n - 1
  OBVIOUS
<1>1. /\ \A q \in 1..m : w.slot[q] = t.slot[Src(p, q)]
      /\ \A q \in 1..m : Src(p, q) # p /\ Src(p, q) \in 1..n
      /\ \A q, r \in 1..m : Src(p, q) = Src(p, r) => q = r
      /\ \A r \in 1..n : r # p => \E q \in 1..m : Src(p, q) = r
  <2>1. \A q \in 1..m : w.slot[q] = t.slot[Src(p, q)]
    BY <1>0 DEF DropsTo
  <2>2. \A q \in 1..m : Src(p, q) # p /\ Src(p, q) \in 1..n
    BY <1>0, SrcRange
  <2>3. \A q, r \in 1..m : Src(p, q) = Src(p, r) => q = r
    BY <1>0, SrcInjective
  <2>4. \A r \in 1..n : r # p => \E q \in 1..m : Src(p, q) = r
    BY <1>0, SrcOnto
  <2>. QED
    BY <2>1, <2>2, <2>3, <2>4
<1>2. /\ \A q \in 1..n : q \in 1..m \/ q = n
      /\ \A q \in 1..m : t.slot[q] \in FlashRec(RecLens)
      /\ \A q, r \in 1..m : t.slot[q].index = t.slot[r].index => q = r
      /\ t.slot[n] \in FlashRec(RecLens) /\ t.slot[n].index = i
      /\ p \in 1..m
  BY <1>0 DEF Twice, Tidy
\* The records other than p carry different indices.
<1>3. ASSUME NEW q \in 1..n, NEW r \in 1..n, q # p, r # p, t.slot[q].index = t.slot[r].index
      PROVE  q = r
  BY <1>2, <1>3
<1>4. Tidy(w, m, RecLens)
  <2>1. ASSUME NEW q \in 1..m PROVE w.slot[q] \in FlashRec(RecLens)
    <3>1. w.slot[q] = t.slot[Src(p, q)] /\ Src(p, q) \in 1..n
      BY <1>1
    <3>. QED
      BY <1>2, <3>1
  <2>2. ASSUME NEW q \in 1..m, NEW r \in 1..m, w.slot[q].index = w.slot[r].index
        PROVE  q = r
    <3>1. /\ w.slot[q] = t.slot[Src(p, q)] /\ Src(p, q) \in 1..n /\ Src(p, q) # p
          /\ w.slot[r] = t.slot[Src(p, r)] /\ Src(p, r) \in 1..n /\ Src(p, r) # p
      BY <1>1
    <3>2. Src(p, q) = Src(p, r)
      BY <1>3, <2>2, <3>1
    <3>. QED
      BY <1>1, <3>2
  <2>. QED
    BY <2>1, <2>2 DEF Tidy
<1>5. ASSUME NEW j, j # i PROVE KeyAt(w, m, j) = KeyAt(t, n, j)
  <2>1. CASE \E r \in 1..n : t.slot[r].index = j
    <3>1. PICK r \in 1..n : t.slot[r].index = j
      BY <2>1
    <3>2. PICK q \in 1..m : Src(p, q) = r
      BY <1>1, <1>5, <3>1
    <3>3. w.slot[q] = t.slot[r]
      BY <1>1, <3>2
    <3>4. KeyAt(w, m, w.slot[q].index) = w.slot[q].key
      BY <1>0, <1>4, TidyKeys
    <3>5. \A s \in 1..n : t.slot[s].index = t.slot[r].index => s = r
      BY <1>3, <1>5, <3>1
    <3>6. KeyAt(t, n, t.slot[r].index) = t.slot[r].key
      BY <3>5, KeyOfOne
    <3>. QED
      BY <3>1, <3>3, <3>4, <3>6
  <2>2. CASE \A r \in 1..n : t.slot[r].index # j
    <3>1. \A q \in 1..m : w.slot[q].index # j
      <4>. SUFFICES ASSUME NEW q \in 1..m PROVE w.slot[q].index # j
        OBVIOUS
      <4>1. w.slot[q] = t.slot[Src(p, q)] /\ Src(p, q) \in 1..n
        BY <1>1
      <4>. QED
        BY <2>2, <4>1
    <3>2. KeyAt(w, m, j) = NoKey
      BY <1>0, <3>1, KeyOfNone
    <3>3. KeyAt(t, n, j) = NoKey
      BY <2>2, KeyOfNone
    <3>. QED
      BY <3>2, <3>3
  <2>. QED
    BY <2>1, <2>2
<1>. QED
  BY <1>0, <1>4, <1>5

\* A full table has a record of every index.
LEMMA FullTable ==
  ASSUME NEW t, NEW L, Tidy(t, BOAT_MAX_KEYPAIR_NUM, L), NEW i \in Persistent
  PROVE  KeyAt(t, BOAT_MAX_KEYPAIR_NUM, i) # NoKey
<1>. DEFINE f == [p \in Persistent |-> t.slot[p].index]
<1>0. BOAT_MAX_KEYPAIR_NUM \in Nat
  BY MaxAssumption
<1>1. f \in [Persistent -> Persistent]
  BY DEF Tidy, FlashRec, Persistent
<1>2. f \in Injection(Persistent, Persistent)
  <2>1. \A p, q \in Persistent : f[p] = f[q] => p = q
    BY DEF Tidy, Persistent
  <2>. QED
    BY <1>1, <2>1 DEF Injection, IsInjective
<1>3. IsFiniteSet(Persistent)
  BY <1>0, FS_Interval DEF Persistent
<1>4. f \in Surjection(Persistent, Persistent)
  BY <1>2, <1>3, FS_Injection
<1>5. PICK p \in Persistent : f[p] = i
  BY <1>4 DEF Surjection
<1>6. Found(t, BOAT_MAX_KEYPAIR_NUM, i) # {}
  BY <1>5 DEF Found, Persistent
<1>. QED
  BY <1>0, <1>6, TidyKeys
----------------------------------------------------------------------------
(* What the writes do to a table, and where it then ends.                  *)

LEMMA LensNat == RecLens \subseteq Nat /\ PrikeyLens \subseteq Nat
BY LenIsNat, NameAssumption DEF RecLens, PrikeyLens

LEMMA FlashRecType ==
  ASSUME NEW L, L \subseteq Nat, NEW r \in FlashRec(L)
  PROVE  /\ r \in KeypairRec /\ r.index \in Persistent /\ r.index # 0
         /\ r.key \in Keys /\ r.key # NoKey /\ r.len \in Nat /\ r.len \in L
<1>1. r.index \in KeypairIndex /\ r.index # 0
  BY MaxAssumption DEF FlashRec, Persistent, KeypairIndex
<1>. QED
  BY <1>1, KeyAssumption DEF FlashRec, KeypairRec

LEMMA PrikeyFlashRec ==
  ASSUME NEW r \in FlashRec(RecLens)
  PROVE  /\ PrikeyRec(r) \in FlashRec(PrikeyLens) /\ PrikeyRec(r).index = r.index
         /\ PrikeyRec(r).key = r.key /\ PrikeyRec(r).len = 2 + 97
BY DEF PrikeyRec, FlashRec, PrikeyLens

LEMMA TidyArea ==
  ASSUME NEW t, NEW n \in Nat, NEW L, L \subseteq Nat, Tidy(t, n, L)
  PROVE  AreaEnd(t, n) \in Nat /\ \A p \in 1..n : t.slot[p].len \in Nat
<1>1. \A p \in 1..n : t.slot[p].len \in Nat
  BY DEF Tidy, FlashRec
<1>. QED
  BY <1>1, AreaType

LEMMA TwiceArea ==
  ASSUME NEW t, NEW n \in Nat, NEW i, Twice(t, n, i)
  PROVE  AreaEnd(t, n) \in Nat /\ \A p \in 1..n : t.slot[p].len \in Nat
<1>1. \A p \in 1..n : p \in 1..(n-1) \/ p = n
  OBVIOUS
<1>2. \A p \in 1..n : t.slot[p].len \in RecLens
  BY <1>1 DEF Twice, Tidy, FlashRec
<1>3. \A p \in 1..n : t.slot[p].len \in Nat
  BY <1>2, LensNat
<1>. QED
  BY <1>3, AreaType

\* A private key always fits behind fewer than the most there can be.
LEMMA PrikeyArea ==
  ASSUME NEW t, NEW n \in 0..(BOAT_MAX_KEYPAIR_NUM - 1), Tidy(t, n, PrikeyLens)
  PROVE  AreaEnd(t, n) + (2 + 97) <= BOAT_STORAGE_PRIKEY_MAXLEN
<1>1. \A p \in 1..n : t.slot[p].len \in 0..99
  BY DEF Tidy, FlashRec, PrikeyLens
<1>2. n \in Nat /\ 99 \in Nat
  OBVIOUS
<1>3. AreaEnd(t, n) \in 4..(4 + n * 99)
  BY <1>1, <1>2, AreaBound
<1>. QED
  BY <1>3, MaxAssumption DEF BOAT_STORAGE_PRIKEY_MAXLEN

\* A record is written behind the first n.
LEMMA PutRec ==
  ASSUME NEW t \in Table, NEW n \in 0..(BOAT_MAX_KEYPAIR_NUM - 1), NEW r \in KeypairRec
  PROVE  /\ WriteRec(t, n + 1, r).num = t.num
         /\ Count(WriteRec(t, n + 1, r)) = Count(t)
         /\ WriteRec(t, n + 1, r).slot[n + 1] = r
         /\ \A q \in 1..n : WriteRec(t, n + 1, r).slot[q] = t.slot[q]
<1>1. PICK p \in 1..BOAT_MAX_KEYPAIR_NUM : p = n + 1
  BY MaxAssumption
<1>2. BOAT_MAX_KEYPAIR_NUM \in Nat /\ t \in TableOf(BOAT_MAX_KEYPAIR_NUM, KeypairRec)
  BY MaxAssumption DEF Table
<1>3. r \in KeypairRec \cup {NoRec}
  OBVIOUS
<1>4. /\ WriteRec(t, p, r).num = t.num
      /\ WriteRec(t, p, r).slot[p] = r
      /\ \A q \in 1..(p-1) : WriteRec(t, p, r).slot[q] = t.slot[q]
  BY <1>2, <1>3, WriteRecEffect
<1>5. Count(WriteRec(t, p, r)) = Count(t)
  BY <1>4 DEF Count
<1>6. p - 1 = n
  BY <1>1
<1>. QED
  BY <1>1, <1>4, <1>5, <1>6

LEMMA PutNum ==
  ASSUME NEW t \in Table, NEW n \in KeypairIndex
  PROVE  WriteNum(t, n).num = n /\ Count(WriteNum(t, n)) = n /\ WriteNum(t, n).slot = t.slot
<1>1. n \in BadNum..BOAT_MAX_KEYPAIR_NUM /\ n # BadNum
  BY MaxAssumption DEF KeypairIndex, BadNum
<1>2. WriteNum(t, n).num = n /\ WriteNum(t, n).slot = t.slot
  BY <1>1, WriteNumEffect, MaxAssumption DEF Table
<1>. QED
  BY <1>1, <1>2 DEF Count

LEMMA DropDrops ==
  ASSUME NEW t \in Table, NEW n \in KeypairIndex, NEW p \in 1..n
  PROVE  DropRec(t, p, n).num = t.num /\ DropsTo(t, DropRec(t, p, n), n, p)
<1>1. /\ BOAT_MAX_KEYPAIR_NUM \in Nat /\ t \in TableOf(BOAT_MAX_KEYPAIR_NUM, KeypairRec)
      /\ n \in 0..BOAT_MAX_KEYPAIR_NUM /\ p \in 0..BOAT_MAX_KEYPAIR_NUM
  BY MaxAssumption DEF Table, KeypairIndex
<1>. DEFINE w == DropRec(t, p, n)
<1>2. /\ w.num = t.num
      /\ \A q \in 1..BOAT_MAX_KEYPAIR_NUM : q < p /\ p <= n => w.slot[q] = t.slot[q]
      /\ \A q \in 1..BOAT_MAX_KEYPAIR_NUM : p <= q /\ q < n => w.slot[q] = t.slot[q+1]
  BY <1>1, DropRecEffect
<1>. HIDE DEF w
<1>3. ASSUME NEW q \in 1..(n-1) PROVE w.slot[q] = t.slot[Src(p, q)]
  <2>1. q \in 1..BOAT_MAX_KEYPAIR_NUM /\ p <= n /\ q < n
    BY <1>1
  <2>2. CASE q < p
    BY <1>2, <2>1, <2>2 DEF Src
  <2>3. CASE ~(q < p)
    BY <1>2, <2>1, <2>3 DEF Src
  <2>. QED
    BY <2>2, <2>3
<1>. QED
  BY <1>2, <1>3 DEF DropsTo, w

\* The record that went makes that much room.
LEMMA DropArea ==
  ASSUME NEW t, NEW w, NEW n \in Nat, NEW p \in 1..n, DropsTo(t, w, n, p),
         \A q \in 1..n : t.slot[q].len \in Nat
  PROVE  AreaEnd(w, n - 1) + t.slot[p].len = AreaEnd(t, n)
<1>1. ASSUME NEW q \in 1..(p-1) PROVE w.slot[q] = t.slot[q]
  <2>1. q \in 1..(n-1) /\ Src(p, q) = q
    BY DEF Src
  <2>. QED
    BY <2>1 DEF DropsTo
<1>2. ASSUME NEW q \in p..(n-1) PROVE w.slot[q] = t.slot[q+1]
  <2>1. q \in 1..(n-1) /\ Src(p, q) = q + 1
    BY DEF Src
  <2>. QED
    BY <2>1 DEF DropsTo
<1>. QED
  BY <1>1, <1>2, AreaDrop

----------------------------------------------------------------------------
(* Faults.                                                                 *)

\* A step meets at most one fault.
LEMMA FaultStep ==
  ASSUME [Next]_vars
  PROVE  UNCHANGED faults \/ \E kind : Fault(kind)
<1>. DEFINE F == UNCHANGED faults \/ \E kind : Fault(kind)
<1>1. \A m, kind : FlashFault(m, kind) => F
  BY DEF FlashFault
<1>2. \A m, t, n : StoreHeader(m, t, n) \/ StoreFault(m, t) \/ TailFault => F
  BY <1>1 DEF StoreHeader, StoreFault, TailFault
<1>. SUFFICES F
  OBVIOUS
<1>. HIDE DEF F
<1>3. UNCHANGED faults => F
  BY DEF F
<1>4. \A kind : Fault(kind) => F
  BY DEF F
<1>5. ASSUME NEW k, NEW n, NEW m, BoatKeypairCreate(k, n, m) PROVE F
  BY <1>3, <1>4, <1>5 DEF BoatKeypairCreate, BoATKeypair_GetKeypairList
<1>6. ASSUME NEW i, BoATIotKeypairDelete(i) PROVE F
  BY <1>3, <1>6 DEF BoATIotKeypairDelete
<1>7. CASE DataCtx_Store_Record \/ DataCtx_Store_Num \/ store_prikey_Record \/ store_prikey_Num
  BY <1>1, <1>2, <1>3, <1>7
     DEF DataCtx_Store_Record, DataCtx_Store_Num, store_prikey_Record, store_prikey_Num
<1>8. CASE Delete_Onetime \/ Delete_Num \/ Delete_Tail \/ Delete_Recover
  BY <1>2, <1>3, <1>4, <1>8 DEF Delete_Onetime, Delete_Num, Delete_Tail, Delete_Recover
<1>9. CASE DeletePirkey_Num \/ DeletePirkey_Tail \/ DeletePirkey_Recover
  BY <1>2, <1>3, <1>4, <1>9 DEF DeletePirkey_Num, DeletePirkey_Tail, DeletePirkey_Recover
<1>10. CASE PowerCycle \/ Crash
  BY <1>3, <1>4, <1>10 DEF PowerCycle, Crash
<1>11. CASE UNCHANGED vars
  BY <1>3, <1>11 DEF vars
<1>. QED
  BY <1>5, <1>6, <1>7, <1>8, <1>9, <1>10, <1>11 DEF Next

\* Of the one fault there may be.
LEMMA FirstFault ==
  ASSUME TypeInv, Counting, NEW kind, Fault(kind)
  PROVE  /\ ~Faultless' /\ Counting' /\ kind \in faults'.seen /\ faults.seen \subseteq faults'.seen
         /\ AtMostOne' => Faultless /\ faults.seen = {} /\ faults'.seen = {kind}
<1>1. /\ faults.left \in Nat /\ faults.left <= MaxFaults /\ MaxFaults \in Nat
  BY Types, FaultAssumption DEF FaultSet
<1>2. /\ faults'.left = faults.left - 1 /\ faults'.seen = faults.seen \cup {kind}
      /\ faults.left > 0
  BY DEF Fault
<1>3. ~Faultless'
  BY <1>1, <1>2 DEF Faultless
<1>4. AtMostOne' => Faultless
  BY <1>1, <1>2 DEF Faultless, AtMostOne
<1>5. Counting'
  BY <1>2, <1>3 DEF Counting
<1>. QED
  BY <1>2, <1>3, <1>4, <1>5 DEF Counting

\* Faults are not undone.
LEMMA FaultHistory ==
  ASSUME TypeInv, Counting, [Next]_vars
  PROVE  /\ Counting' /\ faults.seen \subseteq faults'.seen
         /\ AtMostOne' => AtMostOne
         /\ Faultless' => UNCHANGED faults
<1>1. CASE UNCHANGED faults
  BY <1>1 DEF Counting, AtMostOne, Faultless
<1>2. ASSUME NEW kind, Fault(kind)
      PROVE  /\ Counting' /\ faults.seen \subseteq faults'.seen
             /\ AtMostOne' => AtMostOne
             /\ ~Faultless'
  <2>1. Faultless => AtMostOne
    BY FaultAssumption DEF Faultless, AtMostOne
  <2>. QED
    BY <1>2, <2>1, FirstFault
<1>. QED
  BY <1>1, <1>2, FaultStep
----------------------------------------------------------------------------
(* How a step keeps PairState.                                             *)

\* Names no longer than the area of a record is made for.
NamesFit == \A L \in RecLens : L <= 2 + 65 + 5 + 5 + 65

LEMMA FittingLens == NamesFit => RecLens \subseteq 0..142
<1>1. \A L \in RecLens : L \in Nat
  BY LensNat
<1>. QED
  BY <1>1 DEF NamesFit

\* What a call that ends leaves of the keys of its own index.
OwnOutcome(i, pub, pri) ==
  /\ ret'.op = "delete" /\ ~ret'.ok /\ "crash" \notin faults'.seen =>
       pub = pre[i].pub /\ pri = pre[i].pri
  /\ ret'.op = "delete" /\ ret'.ok /\ faults'.seen \subseteq {"crash"} =>
       pub = NoKey /\ pri = NoKey
  /\ ret'.op = "create" /\ ret'.ok =>
       pre[i].pub = NoKey /\ pub = ctx.rec.key /\ pri = ctx.rec.key
  /\ ret'.op = "create" /\ ~ret'.ok /\ faults'.seen \subseteq {"crash"} /\ NamesFit =>
       faults'.seen # {} /\ pub = NoKey /\ pri = NoKey

\* What a call that ends leaves, by what the readers see from then on.
Outcomes ==
  pc # "idle" /\ pc' = "idle" =>
    /\ "crash" \notin faults'.seen /\ "read" \notin faults.seen =>
         \A j \in Persistent \ {ctx.index} : pre'[j] = pre[j]
    /\ ctx.index \in Persistent =>
         OwnOutcome(ctx.index, pre'[ctx.index].pub, pre'[ctx.index].pri)

Kept == PairState' /\ Outcomes

\* What is known of the faults when a step is taken.
History ==
  /\ Counting /\ AtMostOne' /\ faults.seen \subseteq faults'.seen
  /\ Faultless' => UNCHANGED faults

TableTypes ==
  /\ KpT \in Table /\ PkT \in Table
  /\ Count(KpT) \in KeypairIndex /\ Count(PkT) \in KeypairIndex
  /\ Count(KpT) \in Nat /\ Count(PkT) \in Nat
  /\ KpN \in KeypairIndex /\ PkN \in KeypairIndex /\ KpN \in Nat /\ PkN \in Nat

LEMMA FlashTables == TypeInv => TableTypes
<1>. SUFFICES ASSUME TypeInv PROVE TableTypes
  OBVIOUS
<1>1. KpT \in Table /\ PkT \in Table /\ ctx.num \in KeypairIndex
  BY Types DEF KpT, PkT, CtxSet
<1>2. Count(KpT) \in KeypairIndex /\ Count(PkT) \in KeypairIndex
  BY <1>1, CountRange, MaxAssumption DEF Table, KeypairIndex
<1>3. KpN \in KeypairIndex /\ PkN \in KeypairIndex
  BY <1>1, <1>2 DEF KpN, PkN
<1>4. KeypairIndex \subseteq Nat
  BY MaxAssumption DEF KeypairIndex
<1>. QED
  BY <1>1, <1>2, <1>3, <1>4 DEF TableTypes

LEMMA ViewOf ==
  ASSUME NEW j \in Persistent, NEW T, NEW U
  PROVE  View(T, U, j) = [pub |-> KeyAt(T["FLASH"], Count(T["FLASH"]), j),
                          pri |-> KeyAt(U["FLASH"], Count(U["FLASH"]), j)]
<1>1. Mem(j) = "FLASH"
  BY DEF Persistent, Mem
<1>. QED
  BY <1>1 DEF View, BoATKeypair_GetKeypairByIndex, BoAT_GetPirkeyByIndex

\* Between calls PairState speaks of the tables only.
IdleTables ==
  /\ pc = "idle" /\ ctx = NoCtx /\ pre = Views(kp, pk)
  /\ Tidy(KpT, Count(KpT), RecLens) /\ Tidy(PkT, Count(PkT), PrikeyLens)
  /\ AreaEnd(KpT, Count(KpT)) <= BOAT_STORAGE_KEYPAIR_MAXLEN
  /\ \A j \in Persistent :
       /\ Agree(KeyAt(KpT, Count(KpT), j), KeyAt(PkT, Count(PkT), j))
       /\ Faultless => KeyAt(KpT, Count(KpT), j) = KeyAt(PkT, Count(PkT), j)

LEMMA IdlePair == TypeInv /\ IdleTables => PairState
<1>. SUFFICES ASSUME TypeInv, IdleTables PROVE PairState
  OBVIOUS
<1>1. KpN = Count(KpT) /\ PkN = Count(PkT) /\ ctx.index = NoIndex /\ ctx.api = "none"
  BY DEF KpN, PkN, NoCtx, IdleTables
<1>2. NoIndex \notin Persistent
  BY DEF NoIndex, Persistent
<1>3. \A j \in Persistent : pre[j] = [pub |-> Pub(j), pri |-> Pri(j)]
  BY <1>1, ViewOf DEF Views, Pub, Pri, KpT, PkT, IdleTables
<1>4. ASSUME NEW j \in Persistent PROVE pre[j].pub = Pub(j) /\ pre[j].pri = Pri(j)
  <2>1. pre[j] = [pub |-> Pub(j), pri |-> Pri(j)]
    BY <1>3
  <2>. QED
    BY <2>1
<1>5. \A j \in Persistent : Pub(j) \in Keys \cup {NoKey} /\ Pri(j) \in Keys \cup {NoKey}
  BY <1>1, FlashTables, TidyKeys DEF Pub, Pri, IdleTables, TableTypes
<1>6. pre \in [Persistent -> [pub : Keys \cup {NoKey}, pri : Keys \cup {NoKey}]]
  <2>1. pre = [j \in Persistent |-> View(kp, pk, j)]
    BY DEF Views, IdleTables
  <2>2. \A j \in Persistent : View(kp, pk, j) \in [pub : Keys \cup {NoKey}, pri : Keys \cup {NoKey}]
    BY <1>1, <1>5, ViewOf DEF Pub, Pri, KpT, PkT
  <2>. QED
    BY <2>1, <2>2
<1>7. PreOK
  BY <1>1, <1>4, <1>6 DEF PreOK, Pub, Pri, IdleTables
<1>8. OthersOK
  BY <1>4 DEF OthersOK
<1>9. TabsOK
  BY <1>1 DEF TabsOK, Dup, IdleTables
<1>. QED
  BY <1>1, <1>2, <1>7, <1>8, <1>9 DEF PairState

\* A call ends: the other indices show what they showed, or less after a
\* fault, and its own two keys do not contradict each other.
LEMMA CallEnd ==
  ASSUME TypeInv, TypeInv', History, PairState, NEW i, i = ctx.index,
         pc' = "idle", ctx' = NoCtx, pre' = Views(kp', pk'),
         Tidy(KpT', Count(KpT'), RecLens), Tidy(PkT', Count(PkT'), PrikeyLens),
         AreaEnd(KpT', Count(KpT')) <= BOAT_STORAGE_KEYPAIR_MAXLEN,
         \A j \in Persistent \ {i} :
           /\ KeyAt(KpT', Count(KpT'), j) \in {NoKey, Pub(j)}
           /\ KeyAt(PkT', Count(PkT'), j) \in {NoKey, Pri(j)}
           /\ "crash" \notin faults'.seen => /\ KeyAt(KpT', Count(KpT'), j) = Pub(j)
                                             /\ KeyAt(PkT', Count(PkT'), j) = Pri(j),
         i \in Persistent =>
           /\ OwnOutcome(i, KeyAt(KpT', Count(KpT'), i), KeyAt(PkT', Count(PkT'), i))
           /\ Agree(KeyAt(KpT', Count(KpT'), i), KeyAt(PkT', Count(PkT'), i))
           /\ Faultless' => KeyAt(KpT', Count(KpT'), i) = KeyAt(PkT', Count(PkT'), i)
  PROVE  Kept
<1>0. Faultless' => Faultless /\ "read" \notin faults.seen /\ "crash" \notin faults'.seen
  BY DEF History, Faultless, Counting
<1>1. ASSUME NEW j \in Persistent
      PROVE  /\ Agree(KeyAt(KpT', Count(KpT'), j), KeyAt(PkT', Count(PkT'), j))
             /\ Faultless' => KeyAt(KpT', Count(KpT'), j) = KeyAt(PkT', Count(PkT'), j)
  <2>1. CASE j = i
    BY <2>1
  <2>2. CASE j # i
    <3>1. /\ Pub(j) \in {NoKey, pre[j].pub} /\ Pri(j) \in {NoKey, pre[j].pri}
          /\ "read" \notin faults.seen => Pub(j) = pre[j].pub /\ Pri(j) = pre[j].pri
      BY <2>2 DEF PairState, OthersOK
    <3>2. Agree(pre[j].pub, pre[j].pri) /\ (Faultless => pre[j].pub = pre[j].pri)
      BY DEF PairState, PreOK
    <3>. QED
      BY <1>0, <2>2, <3>1, <3>2 DEF Agree
  <2>. QED
    BY <2>1, <2>2
<1>2. IdleTables'
  BY <1>1 DEF IdleTables
<1>3. (TypeInv /\ IdleTables => PairState)'
  BY IdlePair, PTL
<1>4. \A j \in Persistent : pre'[j] = [pub |-> KeyAt(KpT', Count(KpT'), j),
                                      pri |-> KeyAt(PkT', Count(PkT'), j)]
  BY ViewOf DEF Views, KpT, PkT
<1>5. ASSUME NEW j \in Persistent \ {i}, "crash" \notin faults'.seen, "read" \notin faults.seen
      PROVE  pre'[j] = pre[j]
  <2>1. pre[j] \in [pub : Keys \cup {NoKey}, pri : Keys \cup {NoKey}]
    BY DEF PairState, PreOK
  <2>2. Pub(j) = pre[j].pub /\ Pri(j) = pre[j].pri
    BY <1>5 DEF PairState, OthersOK
  <2>3. pre'[j] = [pub |-> pre[j].pub, pri |-> pre[j].pri]
    BY <1>4, <1>5, <2>2
  <2>. QED
    BY <2>1, <2>3
<1>6. ASSUME i \in Persistent PROVE OwnOutcome(i, pre'[i].pub, pre'[i].pri)
  <2>1. pre'[i] = [pub |-> KeyAt(KpT', Count(KpT'), i), pri |-> KeyAt(PkT', Count(PkT'), i)]
    BY <1>4, <1>6
  <2>2. pre'[i].pub = KeyAt(KpT', Count(KpT'), i) /\ pre'[i].pri = KeyAt(PkT', Count(PkT'), i)
    BY <2>1
  <2>. QED
    BY <1>6, <2>2
<1>7. Outcomes
  BY <1>5, <1>6 DEF Outcomes
<1>. QED
  BY <1>2, <1>3, <1>7 DEF Kept

\* A call goes on.
LEMMA CallGoesOn ==
  ASSUME History, PairState, NEW i, i = ctx.index, ctx'.index = i, pc' # "idle", pre' = pre, TabsOK',
         \A j \in Persistent \ {i} :
           /\ Pub(j)' \in {NoKey, Pub(j)} /\ Pri(j)' \in {NoKey, Pri(j)}
           /\ "read" \notin faults'.seen => Pub(j)' = Pub(j) /\ Pri(j)' = Pri(j),
         i \in Persistent => OwnOK(i)'
  PROVE  Kept
<1>1. Faultless' => Faultless
  BY DEF History, Faultless
<1>2. PreOK'
  BY <1>1 DEF PairState, PreOK
<1>3. \A j \in Persistent \ {i} :
        /\ Pub(j) \in {NoKey, pre[j].pub} /\ Pri(j) \in {NoKey, pre[j].pri}
        /\ "read" \notin faults.seen => Pub(j) = pre[j].pub /\ Pri(j) = pre[j].pri
  BY DEF PairState, OthersOK
<1>4. OthersOK'
  <2>. SUFFICES ASSUME NEW j \in Persistent \ {i}
                PROVE  /\ Pub(j)' \in {NoKey, pre'[j].pub} /\ Pri(j)' \in {NoKey, pre'[j].pri}
                       /\ "read" \notin faults'.seen \/ pc' = "idle" =>
                            Pub(j)' = pre'[j].pub /\ Pri(j)' = pre'[j].pri
    BY DEF OthersOK
  <2>1. "read" \notin faults'.seen => "read" \notin faults.seen
    BY DEF History
  <2>. QED
    BY <1>3, <2>1
<1>. QED
  BY <1>2, <1>4 DEF PairState, Kept, Outcomes

\* A call on the one-time keypair leaves the flash alone.
LEMMA OnetimePair ==
  ASSUME TypeInv, TypeInv', History, PairState, ctx.index = 0, KpT' = KpT, PkT' = PkT,
         \/ pc' # "idle" /\ ctx'.index = 0 /\ pre' = pre
         \/ pc' = "idle" /\ ctx' = NoCtx /\ pre' = Views(kp', pk')
  PROVE  Kept
<1>0. 0 \notin Persistent /\ 0 # NoIndex
  BY DEF Persistent, NoIndex
<1>1. KpN = Count(KpT) /\ PkN = Count(PkT) /\ ~Dup
  BY <1>0 DEF KpN, PkN, Dup
<1>2. /\ Tidy(KpT, Count(KpT), RecLens) /\ Tidy(PkT, Count(PkT), PrikeyLens)
      /\ AreaEnd(KpT, Count(KpT)) <= BOAT_STORAGE_KEYPAIR_MAXLEN
  BY <1>1 DEF PairState, TabsOK
<1>3. CASE pc' # "idle" /\ ctx'.index = 0 /\ pre' = pre
  <2>1. KpN' = Count(KpT) /\ PkN' = Count(PkT) /\ ~Dup'
    BY <1>0, <1>3 DEF KpN, PkN, Dup
  <2>2. \A j : Pub(j)' = Pub(j) /\ Pri(j)' = Pri(j)
    BY <1>1, <2>1 DEF Pub, Pri
  <2>3. TabsOK'
    BY <1>2, <2>1 DEF TabsOK
  <2>. QED
    BY <1>0, <1>3, <2>2, <2>3, CallGoesOn
<1>4. CASE pc' = "idle" /\ ctx' = NoCtx /\ pre' = Views(kp', pk')
  <2>1. \A j : KeyAt(KpT', Count(KpT'), j) = Pub(j) /\ KeyAt(PkT', Count(PkT'), j) = Pri(j)
    BY <1>1 DEF Pub, Pri
  <2>. QED
    BY <1>0, <1>2, <1>4, <2>1, CallEnd
<1>. QED
  BY <1>3, <1>4
\* A call ends and nothing was written.
LEMMA EndSame ==
  ASSUME TypeInv, TypeInv', History, PairState, NEW i \in Persistent, i = ctx.index,
         pc' = "idle", ctx' = NoCtx, pre' = Views(kp', pk'),
         KpT' = KpT, PkT' = PkT, KpN = Count(KpT), PkN = Count(PkT),
         Tidy(KpT, KpN, RecLens),
         Agree(Pub(i), Pri(i)), Faultless' => Pub(i) = Pri(i), OwnOutcome(i, Pub(i), Pri(i))
  PROVE  Kept
<1>1. /\ Tidy(PkT, PkN, PrikeyLens)
      /\ AreaEnd(KpT, KpN) <= BOAT_STORAGE_KEYPAIR_MAXLEN
  BY DEF PairState, TabsOK
<1>2. \A j : KeyAt(KpT', Count(KpT'), j) = Pub(j) /\ KeyAt(PkT', Count(PkT'), j) = Pri(j)
  BY DEF Pub, Pri
<1>. QED
  BY <1>1, <1>2, CallEnd

LEMMA CallIndex ==
  ASSUME TypeInv, pc # "idle"
  PROVE  /\ ctx.index = 0 \/ ctx.index \in Persistent
         /\ ctx \in CtxSet /\ ctx.num \in Nat /\ ctx.num \in KeypairIndex
         /\ ctx.index \in Persistent => ctx.index # 0 /\ Mem(ctx.index) = "FLASH"
<1>1. ctx \in CtxSet /\ ctx.index \in KeypairIndex
  BY Types DEF CtxOK
<1>2. ctx.num \in KeypairIndex
  BY <1>1 DEF CtxSet
<1>. QED
  BY <1>1, <1>2, MaxAssumption DEF KeypairIndex, Persistent, Mem

\* DataCtx_Store_Num counts the new record in, or fails to.
LEMMA StoreNumPair ==
  ASSUME TypeInv, TypeInv', History, PairState, DataCtx_Store_Num
  PROVE  Kept
<1>0. pc = "kpNum" /\ pc # "idle" /\ pk' = pk /\ kp \in [BoatStoreType -> Table]
  BY Types DEF DataCtx_Store_Num
<1>1. CASE ctx.index = 0
  <2>1. KpT' = KpT /\ PkT' = PkT
    BY <1>0, <1>1 DEF DataCtx_Store_Num, KpT, PkT, Mem, BoatStoreType
  <2>2. \/ pc' # "idle" /\ ctx'.index = 0 /\ pre' = pre
        \/ pc' = "idle" /\ ctx' = NoCtx /\ pre' = Views(kp', pk')
    BY <1>1 DEF DataCtx_Store_Num, Return, Goto
  <2>. QED
    BY <1>1, <2>1, <2>2, OnetimePair
<1>2. CASE ctx.index \in Persistent
  <2>0. PICK i \in Persistent : i = ctx.index
    BY <1>2
  <2>1. PICK n \in Nat : n = ctx.num /\ n \in 0..(BOAT_MAX_KEYPAIR_NUM - 1)
    <3>1. ctx.num \in KeypairIndex /\ ctx.num < BOAT_MAX_KEYPAIR_NUM
      BY <1>0, CallIndex, Types DEF CtxOK
    <3>. QED
      BY <3>1, MaxAssumption DEF KeypairIndex
  <2>2. Mem(ctx.index) = "FLASH" /\ i # 0 /\ ctx \in CtxSet
    BY <1>0, <2>0, CallIndex
  <2>3. KpN = n /\ PkN = Count(PkT)
    BY <1>0, <2>0, <2>1, <2>2 DEF KpN, PkN
  <2>4. /\ Tidy(KpT, n, RecLens) /\ Tidy(PkT, Count(PkT), PrikeyLens)
    BY <1>0, <2>3 DEF PairState, TabsOK
  <2>5. OwnOK(i)
    BY <2>0 DEF PairState
  <2>. DEFINE r == ctx.rec
  <2>6. /\ r \in FlashRec(RecLens) /\ r.index = i /\ Pri(i) = pre[i].pri
        /\ ~ctx.restore => Pub(i) = pre[i].pub
        /\ ~Dup /\ ctx.restore => Pub(i) = NoKey
        /\ ctx.api = "delete" /\ ctx.restore => pre[i].pub = r.key
    BY <1>0, <2>5 DEF OwnOK, OwnKeys
  <2>7. /\ KpT.slot[n + 1] = r /\ ("read" \notin faults.seen => n = Count(KpT))
        /\ AreaEnd(KpT, n + 1) <= BOAT_STORAGE_KEYPAIR_MAXLEN
    BY <1>0, <2>1, <2>5 DEF OwnOK, OwnRecords, OwnRoom
  <2>8. /\ ctx.api \in {"create", "delete"} /\ (~ctx.restore => ctx.api = "create")
        /\ Dup => "read" \in faults.seen /\ pre[i].pri # NoKey /\ ~ctx.restore
        /\ ctx.restore => ~Faultless
        /\ ctx.restore /\ ctx.api = "create" => pre[i].pri = NoKey /\ ~(faults.seen \subseteq {"crash"})
    BY <1>0, <2>5 DEF OwnOK, OwnPast
  <2>9. /\ Agree(pre[i].pub, pre[i].pri) /\ (Faultless => pre[i].pub = pre[i].pri)
    BY DEF PairState, PreOK
  <2>. HIDE DEF r
  <2>10. ASSUME kp' = [kp EXCEPT !["FLASH"] = WriteNum(kp["FLASH"], ctx.num + 1)], UNCHANGED faults,
                IF ctx.restore THEN Return(FALSE) ELSE Goto("pkRec") /\ UNCHANGED ctx
         PROVE  Kept
    <3>1. KpT' = WriteNum(KpT, n + 1) /\ PkT' = PkT
      BY <1>0, <2>1, <2>10 DEF KpT, PkT, BoatStoreType
    <3>2. KpT \in Table /\ n + 1 \in KeypairIndex
      BY <2>1, FlashTables, MaxAssumption DEF TableTypes, KeypairIndex
    <3>3. Count(KpT') = n + 1 /\ KpT'.slot = KpT.slot
      BY <3>1, <3>2, PutNum
    <3>4. /\ \A j : j # i => KeyAt(KpT', n + 1, j) = KeyAt(KpT, n, j)
          /\ KeyAt(KpT, n, i) = NoKey => Tidy(KpT', n + 1, RecLens) /\ KeyAt(KpT', n + 1, i) = r.key
      <4>1. (\A q \in 1..n : KpT'.slot[q] = KpT.slot[q]) /\ KpT'.slot[n + 1] = r
        BY <2>7, <3>3
      <4>2. /\ \A j : j # r.index => KeyAt(KpT', n + 1, j) = KeyAt(KpT, n, j)
            /\ KeyAt(KpT, n, r.index) = NoKey =>
                 Tidy(KpT', n + 1, RecLens) /\ KeyAt(KpT', n + 1, r.index) = r.key
        BY <2>4, <2>6, <4>1, TidyAppend
      <4>. QED
        BY <2>6, <4>2
    <3>5. AreaEnd(KpT', n + 1) <= BOAT_STORAGE_KEYPAIR_MAXLEN
      BY <2>7, <3>3, AreaSame
    <3>6. \A j : Pri(j) = KeyAt(PkT, Count(PkT), j) /\ Pub(j) = KeyAt(KpT, n, j)
      BY <2>3 DEF Pri, Pub
    <3>7. CASE ctx.restore
      <4>1. pc' = "idle" /\ ctx' = NoCtx /\ pre' = Views(kp', pk')
        BY <2>10, <3>7 DEF Return
      <4>2. ~Dup /\ Pub(i) = NoKey /\ ~Faultless'
        BY <2>6, <2>8, <2>10, <3>7 DEF Faultless
      <4>3. Tidy(KpT', n + 1, RecLens) /\ KeyAt(KpT', n + 1, i) = r.key
        BY <3>4, <3>6, <4>2
      <4>4. Agree(r.key, pre[i].pri)
        BY <2>6, <2>8, <2>9, <3>7 DEF Agree
      <4>5. ret'.op = ctx.api /\ ~ret'.ok
        BY <2>10, <3>7 DEF Return
      <4>6. OwnOutcome(i, r.key, pre[i].pri)
        BY <2>6, <2>8, <2>10, <3>7, <4>5 DEF OwnOutcome
      <4>. QED
        BY <2>0, <2>4, <2>6, <3>1, <3>3, <3>4, <3>5, <3>6, <4>1, <4>2, <4>3, <4>4, <4>6, CallEnd
    <3>8. CASE ~ctx.restore
      <4>1. pc' = "pkRec" /\ ctx' = ctx /\ pre' = pre
        BY <2>10, <3>8 DEF Goto
      <4>2. KpN' = n + 1 /\ PkN' = Count(PkT) /\ (Dup' <=> Dup)
        BY <3>1, <3>3, <4>1 DEF KpN, PkN, Dup
      <4>3. \A j : j # i => Pub(j)' = Pub(j) /\ Pri(j)' = Pri(j)
        BY <3>1, <3>4, <3>6, <4>2 DEF Pub, Pri
      <4>4. Pri(i)' = pre[i].pri
        BY <2>6, <3>1, <3>6, <4>2 DEF Pri
      <4>5. ~Dup => Pub(i)' = r.key /\ Tidy(KpT', n + 1, RecLens)
        <5>1. ~Dup => Pub(i) = NoKey
          BY <2>0, <2>6, <2>8, <3>8 DEF Dup
        <5>. QED
          BY <3>4, <3>6, <4>2, <5>1 DEF Pub
      <4>6. Dup => Twice(KpT', n + 1, i)
        <5>1. Dup => KeyAt(KpT, n, i) # NoKey
          BY <2>0, <2>6, <3>6, <3>8 DEF Dup
        <5>. QED
          BY <2>4, <2>6, <2>7, <3>3, <5>1, TwiceAppend
      <4>7. TabsOK'
        BY <2>0, <2>4, <3>1, <3>5, <4>1, <4>2, <4>5, <4>6 DEF TabsOK
      <4>8. OwnOK(i)'
        BY <2>6, <2>8, <2>10, <3>8, <4>1, <4>2, <4>4, <4>5
           DEF OwnOK, OwnKeys, OwnRecords, OwnRoom, OwnPast, r, PkDeleting, Deleting
      <4>. QED
        BY <2>0, <4>1, <4>3, <4>7, <4>8, CallGoesOn
    <3>. QED
      BY <3>7, <3>8
  <2>11. ASSUME FlashFault(Mem(ctx.index), "write"), UNCHANGED kp, Return(FALSE)
         PROVE  Kept
    <3>1. Fault("write")
      BY <2>11 DEF FlashFault
    <3>2. Faultless /\ faults.seen = {} /\ ~Faultless'
      BY <3>1, FirstFault DEF History
    <3>3. pc' = "idle" /\ ctx' = NoCtx /\ pre' = Views(kp', pk')
      BY <2>11 DEF Return
    <3>4. n = Count(KpT) /\ ~ctx.restore /\ Pub(i) = pre[i].pub
      BY <2>6, <2>7, <2>8, <3>2
    <3>5. KpT' = KpT /\ PkT' = PkT
      BY <1>0, <2>11 DEF KpT, PkT
    <3>6. ret'.op = "create" /\ ~ret'.ok /\ "write" \in faults'.seen
      BY <2>8, <2>11, <3>1, <3>4, FirstFault DEF Return, History
    <3>7. OwnOutcome(i, Pub(i), Pri(i))
      BY <3>6 DEF OwnOutcome
    <3>. QED
      BY <2>0, <2>3, <2>4, <2>6, <2>9, <3>2, <3>3, <3>4, <3>5, <3>7, EndSame
  <2>. QED
    BY <2>2, <2>10, <2>11 DEF DataCtx_Store_Num
<1>. QED
  BY <1>0, <1>1, <1>2, CallIndex
\* The header a store works from, when at most one thing went wrong.
LEMMA HeaderCases ==
  ASSUME TypeInv, History, NEW t, NEW n, NEW m, StoreHeader(m, t, n)
  PROVE  \/ n = Count(t) /\ UNCHANGED faults
         \/ n = 0 /\ Faultless /\ faults.seen = {} /\ "read" \in faults'.seen /\ ~Faultless'
<1>1. CASE n = 0 /\ FlashFault(m, "read")
  BY <1>1, FirstFault DEF FlashFault, History
<1>. QED
  BY <1>1 DEF StoreHeader

\* DataCtx_Store_Record writes the record behind those it counted.
LEMMA StoreRecordPair ==
  ASSUME TypeInv, TypeInv', History, PairState, DataCtx_Store_Record
  PROVE  Kept
<1>0. pc = "kpRec" /\ pc # "idle" /\ pk' = pk /\ kp \in [BoatStoreType -> Table]
  BY Types DEF DataCtx_Store_Record
<1>1. CASE ctx.index = 0
  <2>1. KpT' = KpT /\ PkT' = PkT
    BY <1>0, <1>1 DEF DataCtx_Store_Record, KpT, PkT, Mem, BoatStoreType
  <2>2. \/ pc' # "idle" /\ ctx'.index = 0 /\ pre' = pre
        \/ pc' = "idle" /\ ctx' = NoCtx /\ pre' = Views(kp', pk')
    BY <1>0, <1>1, CallIndex DEF DataCtx_Store_Record, Return, Goto, CtxSet
  <2>. QED
    BY <1>1, <2>1, <2>2, OnetimePair
<1>2. CASE ctx.index \in Persistent
  <2>0. PICK i \in Persistent : i = ctx.index
    BY <1>2
  <2>2. Mem(ctx.index) = "FLASH" /\ i # 0 /\ ctx \in CtxSet
    BY <1>0, <2>0, CallIndex
  <2>3. KpN = Count(KpT) /\ PkN = Count(PkT) /\ Count(KpT) \in KeypairIndex /\ KpT \in Table
    BY <1>0, <2>0, <2>2, FlashTables DEF KpN, PkN, TableTypes
  <2>4. /\ Tidy(KpT, Count(KpT), RecLens) /\ Tidy(PkT, Count(PkT), PrikeyLens)
        /\ AreaEnd(KpT, Count(KpT)) <= BOAT_STORAGE_KEYPAIR_MAXLEN
    BY <1>0, <2>3 DEF PairState, TabsOK
  <2>5. OwnOK(i)
    BY <2>0 DEF PairState
  <2>. DEFINE r == ctx.rec
  <2>6. /\ r \in FlashRec(RecLens) /\ r.index = i /\ Pri(i) = pre[i].pri
        /\ ~ctx.restore => Pub(i) = pre[i].pub
        /\ ~Dup /\ ctx.restore => Pub(i) = NoKey
        /\ ctx.api = "delete" /\ ctx.restore => pre[i].pub = r.key
    BY <1>0, <2>5 DEF OwnOK, OwnKeys
  <2>7. r \in KeypairRec /\ r.len \in Nat
    BY <2>6, FlashRecType, LensNat
  <2>8. /\ ctx.api \in {"create", "delete"} /\ (~ctx.restore => ctx.api = "create")
        /\ Dup => "read" \in faults.seen /\ pre[i].pri # NoKey /\ ~ctx.restore
        /\ ctx.restore => ~Faultless
        /\ ctx.restore /\ ctx.api = "create" => pre[i].pri = NoKey /\ ~(faults.seen \subseteq {"crash"})
    BY <1>0, <2>5 DEF OwnOK, OwnPast
  <2>9. /\ Agree(pre[i].pub, pre[i].pri) /\ (Faultless => pre[i].pub = pre[i].pri)
    BY DEF PairState, PreOK
  <2>. HIDE DEF r
  <2>10. ASSUME NEW n \in {0, Count(KpT)}, StoreHeader("FLASH", KpT, n), n < BOAT_MAX_KEYPAIR_NUM,
                AreaEnd(KpT, n) + r.len <= BOAT_STORAGE_KEYPAIR_MAXLEN,
                kp' = [kp EXCEPT !["FLASH"] = WriteRec(KpT, n + 1, r)],
                ctx' = [ctx EXCEPT !.num = n], Goto("kpNum")
         PROVE  Kept
    <3>1. KpT' = WriteRec(KpT, n + 1, r) /\ PkT' = PkT
      BY <1>0, <2>10 DEF KpT, PkT, BoatStoreType
    <3>2. n \in Nat /\ n \in 0..(BOAT_MAX_KEYPAIR_NUM - 1)
      BY <2>3, <2>10, MaxAssumption DEF KeypairIndex
    <3>3. /\ Count(KpT') = Count(KpT) /\ KpT'.slot[n + 1] = r
          /\ \A q \in 1..n : KpT'.slot[q] = KpT.slot[q]
      BY <2>3, <2>7, <3>1, <3>2, PutRec
    <3>4. pc' = "kpNum" /\ pre' = pre /\ ctx'.num = n /\ ctx'.index = i /\ ctx'.rec = r
          /\ ctx'.api = ctx.api /\ ctx'.restore = ctx.restore
      BY <2>0, <2>2, <2>10 DEF Goto, CtxSet, r
    <3>5. KpN' = n /\ PkN' = Count(PkT) /\ (Dup' <=> Dup)
      BY <2>0, <2>2, <3>1, <3>4 DEF KpN, PkN, Dup
    <3>6. \/ n = Count(KpT) /\ UNCHANGED faults
          \/ n = 0 /\ Faultless /\ faults.seen = {} /\ "read" \in faults'.seen /\ ~Faultless'
      BY <2>10, HeaderCases
    <3>7. Tidy(KpT, n, RecLens) /\ \A j : KeyAt(KpT, n, j) \in {NoKey, KeyAt(KpT, Count(KpT), j)}
      <4>1. Count(KpT) \in Nat /\ n \in 0..Count(KpT)
        BY <2>3, <2>10, MaxAssumption DEF KeypairIndex
      <4>. QED
        BY <2>4, <4>1, TidyCut
    <3>8. Tidy(KpT', n, RecLens) /\ \A j : KeyAt(KpT', n, j) = KeyAt(KpT, n, j)
      <4>1. /\ \A j : KeyAt(KpT', n, j) = KeyAt(KpT, n, j) /\ Found(KpT', n, j) = Found(KpT, n, j)
            /\ \A L : Tidy(KpT, n, L) => Tidy(KpT', n, L)
        BY <3>2, <3>3, KeyAtSame
      <4>. QED
        BY <3>7, <4>1
    <3>9. /\ AreaEnd(KpT', n) <= BOAT_STORAGE_KEYPAIR_MAXLEN
          /\ AreaEnd(KpT', n + 1) <= BOAT_STORAGE_KEYPAIR_MAXLEN
      <4>1. AreaEnd(KpT', n) = AreaEnd(KpT, n)
        BY <3>2, <3>3, AreaSame
      <4>2. AreaEnd(KpT', n + 1) = AreaEnd(KpT', n) + r.len
        BY <3>2, <3>3, AreaStep
      <4>3. AreaEnd(KpT, n) \in Nat
        BY <3>2, <3>7, TidyArea, LensNat
      <4>4. BOAT_STORAGE_KEYPAIR_MAXLEN \in Int
        BY MaxAssumption DEF BOAT_STORAGE_KEYPAIR_MAXLEN
      <4>. QED
        BY <2>7, <2>10, <4>1, <4>2, <4>3, <4>4
    <3>10. \A j : Pub(j)' = KeyAt(KpT, n, j) /\ Pri(j)' = Pri(j) /\ Pub(j) = KeyAt(KpT, Count(KpT), j)
      BY <2>3, <3>1, <3>5, <3>8 DEF Pub, Pri
    <3>11. TabsOK'
      BY <2>4, <3>1, <3>4, <3>5, <3>8, <3>9 DEF TabsOK
    <3>12. /\ ~ctx.restore => Pub(i)' = pre[i].pub
           /\ ~Dup /\ ctx.restore => Pub(i)' = NoKey
      <4>1. CASE n = Count(KpT)
        BY <2>6, <3>10, <4>1
      <4>2. CASE n = 0 /\ Faultless /\ faults.seen = {}
        <5>1. ~Dup /\ ~ctx.restore /\ ctx.api = "create"
          BY <2>8, <4>2
        <5>2. pre[i].pub = NoKey
          BY <2>0, <5>1 DEF Dup
        <5>3. Found(KpT, 0, i) = {}
          BY DEF Found
        <5>4. Pub(i)' = NoKey
          BY <3>10, <4>2, <5>3 DEF KeyAt
        <5>. QED
          BY <5>1, <5>2, <5>4
      <4>. QED
        BY <3>6, <4>1, <4>2
    <3>13. Dup => "read" \in faults'.seen
      BY <2>8, <3>6
    <3>14. /\ ctx.restore => ~Faultless'
           /\ ctx.restore /\ ctx.api = "create" => ~(faults'.seen \subseteq {"crash"})
      BY <2>8, <3>6 DEF Faultless
    <3>15. "read" \notin faults'.seen => n = Count(KpT)
      BY <3>6
    <3>16. OwnKeys(i)'
      BY <2>6, <3>4, <3>5, <3>10, <3>12 DEF OwnKeys, PkDeleting, Deleting
    <3>17. OwnRecords(i)' /\ OwnRoom(i)'
      BY <3>3, <3>4, <3>9, <3>15 DEF OwnRecords, OwnRoom, PkDeleting
    <3>18. OwnPast(i)'
      BY <2>8, <3>4, <3>5, <3>13, <3>14 DEF OwnPast, PkDeleting, Deleting
    <3>19. \A j \in Persistent \ {i} :
             /\ Pub(j)' \in {NoKey, Pub(j)} /\ Pri(j)' \in {NoKey, Pri(j)}
             /\ "read" \notin faults'.seen => Pub(j)' = Pub(j) /\ Pri(j)' = Pri(j)
      BY <3>7, <3>10, <3>15
    <3>. QED
      BY <2>0, <3>4, <3>11, <3>16, <3>17, <3>18, <3>19, CallGoesOn DEF OwnOK
  <2>11. ASSUME UNCHANGED kp, Return(FALSE), ~ctx.restore,
                faults'.seen \subseteq {"crash"} => ~NamesFit
         PROVE  Kept
    <3>1. pc' = "idle" /\ ctx' = NoCtx /\ pre' = Views(kp', pk') /\ ret'.op = "create" /\ ~ret'.ok
      BY <2>8, <2>11 DEF Return
    <3>2. KpT' = KpT /\ PkT' = PkT
      BY <1>0, <2>11 DEF KpT, PkT
    <3>3. Agree(Pub(i), Pri(i)) /\ (Faultless' => Pub(i) = Pri(i))
      <4>1. Faultless' => Faultless
        BY DEF History, Faultless
      <4>. QED
        BY <2>6, <2>8, <2>9, <2>11, <4>1 DEF Agree
    <3>4. OwnOutcome(i, Pub(i), Pri(i))
      BY <2>11, <3>1 DEF OwnOutcome
    <3>. QED
      BY <2>0, <2>3, <2>4, <3>1, <3>2, <3>3, <3>4, EndSame
  \* A restore finds room; a create finds it as long as the names fit.
  <2>12. ASSUME NEW n \in {0, Count(KpT)}, StoreHeader("FLASH", KpT, n), UNCHANGED kp, Return(FALSE),
                ~(/\ n < BOAT_MAX_KEYPAIR_NUM
                  /\ AreaEnd(KpT, n) + r.len <= BOAT_STORAGE_KEYPAIR_MAXLEN)
         PROVE  Kept
    <3>1. CASE n = Count(KpT) /\ UNCHANGED faults
      <4>1. ~ctx.restore
        BY <1>0, <2>5, <2>12, <3>1 DEF OwnOK, OwnRoom, r
      <4>2. ASSUME faults'.seen \subseteq {"crash"}, NamesFit PROVE FALSE
        <5>1. Count(KpT) < BOAT_MAX_KEYPAIR_NUM
          BY <1>0, <2>5, <3>1, <4>1, <4>2 DEF OwnOK, OwnRoom
        <5>2. Count(KpT) \in 0..(BOAT_MAX_KEYPAIR_NUM - 1) /\ Count(KpT) \in Nat /\ 142 \in Nat
          BY <2>3, <5>1, MaxAssumption DEF KeypairIndex
        <5>3. \A q \in 1..Count(KpT) : KpT.slot[q].len \in 0..142
          BY <2>4, <4>2, FittingLens DEF Tidy, FlashRec
        <5>4. AreaEnd(KpT, Count(KpT)) \in 4..(4 + Count(KpT) * 142)
          BY <5>2, <5>3, AreaBound
        <5>5. r.len \in 0..142
          BY <2>6, <4>2, FittingLens DEF FlashRec
        <5>6. AreaEnd(KpT, n) + r.len <= 4 + (Count(KpT) + 1) * 142
          BY <3>1, <5>2, <5>4, <5>5
        <5>7. 4 + (Count(KpT) + 1) * 142 <= BOAT_STORAGE_KEYPAIR_MAXLEN
          BY <5>2, MaxAssumption DEF BOAT_STORAGE_KEYPAIR_MAXLEN
        <5>8. AreaEnd(KpT, n) + r.len \in Int /\ BOAT_STORAGE_KEYPAIR_MAXLEN \in Int
              /\ 4 + (Count(KpT) + 1) * 142 \in Int
          BY <3>1, <5>2, <5>4, <5>5, MaxAssumption DEF BOAT_STORAGE_KEYPAIR_MAXLEN
        <5>. HIDE DEF r
        <5>9. AreaEnd(KpT, n) + r.len <= BOAT_STORAGE_KEYPAIR_MAXLEN
          BY <5>6, <5>7, <5>8
        <5>. QED
          BY <2>12, <3>1, <5>1, <5>9
      <4>. QED
        BY <2>11, <2>12, <4>1, <4>2
    <3>2. CASE Faultless /\ "read" \in faults'.seen
      BY <2>8, <2>11, <2>12, <3>2
    <3>. QED
      BY <2>12, <3>1, <3>2, HeaderCases
  <2>13. ASSUME StoreFault("FLASH", KpT), UNCHANGED kp, Return(FALSE)
         PROVE  Kept
    <3>1. PICK kind \in {"internal", "write", "read"} : Fault(kind)
      BY <2>13 DEF StoreFault, FlashFault
    <3>2. Faultless /\ kind \in faults'.seen
      BY <3>1, FirstFault DEF History
    <3>. QED
      BY <2>8, <2>11, <2>13, <3>2
  <2>. QED
    BY <2>2, <2>10, <2>12, <2>13 DEF DataCtx_Store_Record, KpT, r
<1>. QED
  BY <1>0, <1>1, <1>2, CallIndex

\* The private key is not stored: the keypair is to be deleted again.
LEMMA RollbackPair ==
  ASSUME TypeInv, History, PairState, NEW i \in Persistent, i = ctx.index,
         pc \in {"pkRec", "pkNum"}, KpN = Count(KpT), PkN = Count(PkT), Rollback,
         ~Faultless', faults'.seen \subseteq {"crash"} => pre[i].pri # NoKey
  PROVE  Kept
<1>1. pc' = "kpDel" /\ pre' = pre /\ ctx' = ctx /\ KpT' = KpT /\ PkT' = PkT
  BY DEF Rollback, Goto, KpT, PkT
<1>2. KpN' = Count(KpT) /\ PkN' = Count(PkT) /\ (Dup' <=> Dup)
  BY <1>1 DEF KpN, PkN, Dup
<1>3. \A j : Pub(j)' = Pub(j) /\ Pri(j)' = Pri(j)
  BY <1>1, <1>2 DEF Pub, Pri
<1>4. OwnOK(i) /\ ~ctx.restore
  BY Types DEF PairState, CtxOK
<1>5. ctx.api = "create" /\ (Dup => "read" \in faults.seen /\ pre[i].pri # NoKey /\ pc = "pkRec")
  BY <1>4 DEF OwnOK, OwnPast
<1>6. TabsOK'
  <2>1. /\ IF Dup THEN Twice(KpT, KpN, ctx.index) ELSE Tidy(KpT, KpN, RecLens)
        /\ Tidy(PkT, PkN, PrikeyLens) /\ AreaEnd(KpT, KpN) <= BOAT_STORAGE_KEYPAIR_MAXLEN
    BY <1>5 DEF PairState, TabsOK
  <2>. QED
    BY <1>1, <1>2, <2>1 DEF TabsOK
<1>7. OwnKeys(i)'
  <2>1. /\ Pri(i) = pre[i].pri
        /\ ~Dup => Pub(i) = ctx.rec.key /\ ctx.rec \in FlashRec(RecLens)
    BY <1>4, <1>5 DEF OwnOK, OwnKeys
  <2>. QED
    BY <1>1, <1>2, <1>3, <1>4, <1>5, <2>1 DEF OwnKeys, PkDeleting, Deleting
<1>8. OwnRecords(i)' /\ OwnRoom(i)'
  BY <1>1 DEF OwnRecords, OwnRoom, PkDeleting
<1>9. OwnPast(i)'
  BY <1>1, <1>2, <1>4, <1>5 DEF OwnPast, PkDeleting, Deleting, History
<1>. QED
  BY <1>1, <1>3, <1>6, <1>7, <1>8, <1>9, CallGoesOn DEF OwnOK

\* BoAT_Keystore_store_prikey writes the private key behind those it counted.
LEMMA PrikeyRecordPair ==
  ASSUME TypeInv, TypeInv', History, PairState, store_prikey_Record
  PROVE  Kept
<1>0. pc = "pkRec" /\ pc # "idle" /\ pk \in [BoatStoreType -> Table] /\ kp' = kp
  BY Types DEF store_prikey_Record, Rollback
<1>1. CASE ctx.index = 0
  <2>1. KpT' = KpT /\ PkT' = PkT
    BY <1>0, <1>1 DEF store_prikey_Record, Rollback, KpT, PkT, Mem, BoatStoreType
  <2>2. pc' # "idle" /\ ctx'.index = 0 /\ pre' = pre
    BY <1>0, <1>1, CallIndex DEF store_prikey_Record, Rollback, Goto, CtxSet
  <2>. QED
    BY <1>1, <2>1, <2>2, OnetimePair
<1>2. CASE ctx.index \in Persistent
  <2>0. PICK i \in Persistent : i = ctx.index
    BY <1>2
  <2>2. Mem(ctx.index) = "FLASH" /\ i # 0 /\ ctx \in CtxSet /\ ~ctx.restore
    BY <1>0, <2>0, CallIndex, Types DEF CtxOK
  <2>3. /\ KpN = Count(KpT) /\ PkN = Count(PkT) /\ Count(PkT) \in KeypairIndex /\ PkT \in Table
        /\ Count(PkT) \in Nat
    BY <1>0, <2>0, <2>2, FlashTables DEF KpN, PkN, TableTypes
  <2>4. /\ ~Dup => Tidy(KpT, Count(KpT), RecLens)
        /\ Tidy(PkT, Count(PkT), PrikeyLens)
        /\ AreaEnd(KpT, Count(KpT)) <= BOAT_STORAGE_KEYPAIR_MAXLEN
    BY <1>0, <2>3 DEF PairState, TabsOK
  <2>5. OwnOK(i)
    BY <2>0 DEF PairState
  <2>6. /\ ctx.rec \in FlashRec(RecLens) /\ ctx.rec.index = i /\ Pri(i) = pre[i].pri
        /\ ~Dup /\ ctx.api = "create" => Pub(i) = ctx.rec.key
    BY <1>0, <2>5 DEF OwnOK, OwnKeys
  <2>. DEFINE r == PrikeyRec(ctx.rec)
  <2>7. /\ r \in FlashRec(PrikeyLens) /\ r.index = i /\ r.key = ctx.rec.key /\ r.len = 2 + 97
        /\ r \in KeypairRec
    <3>1. /\ r \in FlashRec(PrikeyLens) /\ r.index = i /\ r.key = ctx.rec.key /\ r.len = 2 + 97
      BY <2>6, PrikeyFlashRec
    <3>. HIDE DEF r
    <3>. QED
      BY <3>1, FlashRecType, LensNat
  <2>8. /\ ctx.api = "create"
        /\ Dup => "read" \in faults.seen /\ pre[i].pri # NoKey
    BY <1>0, <2>5 DEF OwnOK, OwnPast
  <2>9. /\ Faultless => pre[i].pub = pre[i].pri
        /\ ~Dup => pre[i].pub = NoKey
    BY <2>0, <2>8 DEF PairState, PreOK, Dup
  <2>. HIDE DEF r
  <2>10. ASSUME NEW n \in {0, Count(PkT)}, StoreHeader("FLASH", PkT, n), n < BOAT_MAX_KEYPAIR_NUM,
                Found(PkT, n, ctx.index) = {},
                pk' = [pk EXCEPT !["FLASH"] = WriteRec(PkT, n + 1, r)],
                ctx' = [ctx EXCEPT !.num = n], Goto("pkNum")
         PROVE  Kept
    <3>1. PkT' = WriteRec(PkT, n + 1, r) /\ KpT' = KpT
      BY <1>0, <2>10 DEF KpT, PkT, BoatStoreType
    <3>2. n \in Nat /\ n \in 0..(BOAT_MAX_KEYPAIR_NUM - 1)
      BY <2>3, <2>10, MaxAssumption DEF KeypairIndex
    <3>3. /\ Count(PkT') = Count(PkT) /\ PkT'.slot[n + 1] = r
          /\ \A q \in 1..n : PkT'.slot[q] = PkT.slot[q]
      BY <2>3, <2>7, <3>1, <3>2, PutRec
    <3>4. pc' = "pkNum" /\ pre' = pre /\ ctx'.num = n /\ ctx'.index = i /\ ctx'.rec = ctx.rec
          /\ ctx'.api = "create" /\ ~ctx'.restore
      BY <2>0, <2>2, <2>8, <2>10 DEF Goto, CtxSet
    <3>5. KpN' = Count(KpT) /\ PkN' = n /\ (Dup' <=> Dup)
      BY <2>0, <2>2, <2>8, <3>1, <3>4 DEF KpN, PkN, Dup
    <3>6. \/ n = Count(PkT) /\ UNCHANGED faults
          \/ n = 0 /\ Faultless /\ faults.seen = {} /\ "read" \in faults'.seen /\ ~Faultless'
      BY <2>10, HeaderCases
    <3>7. Tidy(PkT, n, PrikeyLens) /\ \A j : KeyAt(PkT, n, j) \in {NoKey, KeyAt(PkT, Count(PkT), j)}
      <4>1. n \in 0..Count(PkT)
        BY <2>3, <2>10
      <4>. QED
        BY <2>3, <2>4, <4>1, TidyCut
    <3>8. Tidy(PkT', n, PrikeyLens) /\ \A j : KeyAt(PkT', n, j) = KeyAt(PkT, n, j)
      <4>1. /\ \A j : KeyAt(PkT', n, j) = KeyAt(PkT, n, j) /\ Found(PkT', n, j) = Found(PkT, n, j)
            /\ \A L : Tidy(PkT, n, L) => Tidy(PkT', n, L)
        BY <3>2, <3>3, KeyAtSame
      <4>. QED
        BY <3>7, <4>1
    <3>9. \A j : Pri(j)' = KeyAt(PkT, n, j) /\ Pub(j)' = Pub(j) /\ Pri(j) = KeyAt(PkT, Count(PkT), j)
      BY <2>3, <3>1, <3>5, <3>8 DEF Pub, Pri
    <3>10. Pri(i)' = NoKey
      BY <2>0, <2>10, <3>9 DEF KeyAt
    <3>11. ~Dup /\ pre[i].pri = NoKey
      <4>1. CASE n = Count(PkT)
        BY <2>6, <2>8, <3>9, <3>10, <4>1
      <4>2. CASE Faultless /\ faults.seen = {}
        BY <2>8, <2>9, <4>2
      <4>. QED
        BY <3>6, <4>1, <4>2
    <3>12. TabsOK'
      BY <2>4, <3>1, <3>5, <3>8, <3>11 DEF TabsOK
    <3>13. "read" \notin faults'.seen => n = Count(PkT)
      BY <3>6
    <3>14. OwnKeys(i)'
      BY <2>6, <2>8, <3>4, <3>5, <3>9, <3>10, <3>11 DEF OwnKeys, PkDeleting, Deleting
    <3>15. OwnRecords(i)' /\ OwnRoom(i)'
      BY <3>3, <3>4, <3>13 DEF OwnRecords, OwnRoom, PkDeleting, r
    <3>16. OwnPast(i)'
      BY <3>4, <3>5, <3>11 DEF OwnPast, PkDeleting, Deleting
    <3>17. \A j \in Persistent \ {i} :
             /\ Pub(j)' \in {NoKey, Pub(j)} /\ Pri(j)' \in {NoKey, Pri(j)}
             /\ "read" \notin faults'.seen => Pub(j)' = Pub(j) /\ Pri(j)' = Pri(j)
      BY <3>7, <3>9, <3>13
    <3>. QED
      BY <2>0, <3>4, <3>12, <3>14, <3>15, <3>16, <3>17, CallGoesOn DEF OwnOK
  \* Without a fault only a private key that is there already stops it.
  <2>11. ASSUME NEW n \in {0, Count(PkT)}, StoreHeader("FLASH", PkT, n), Rollback,
                ~(/\ n < BOAT_MAX_KEYPAIR_NUM /\ Found(PkT, n, ctx.index) = {}
                  /\ AreaEnd(PkT, n) + r.len <= BOAT_STORAGE_PRIKEY_MAXLEN)
         PROVE  Kept
    <3>1. CASE n = Count(PkT) /\ UNCHANGED faults
      <4>1. Pri(i) = KeyAt(PkT, n, i)
        BY <2>3, <3>1 DEF Pri
      <4>2. Pri(i) # NoKey
        <5>1. CASE Found(PkT, n, ctx.index) # {}
          BY <2>0, <2>3, <2>4, <3>1, <4>1, <5>1, TidyKeys
        <5>2. CASE ~(n < BOAT_MAX_KEYPAIR_NUM)
          <6>1. n = BOAT_MAX_KEYPAIR_NUM
            BY <2>3, <3>1, <5>2, MaxAssumption DEF KeypairIndex
          <6>. QED
            BY <2>4, <3>1, <4>1, <6>1, FullTable
        <5>3. CASE n < BOAT_MAX_KEYPAIR_NUM /\ Found(PkT, n, ctx.index) = {}
          <6>1. n \in 0..(BOAT_MAX_KEYPAIR_NUM - 1)
            BY <2>3, <3>1, <5>3, MaxAssumption
          <6>2. AreaEnd(PkT, n) + (2 + 97) <= BOAT_STORAGE_PRIKEY_MAXLEN
            BY <2>4, <3>1, <6>1, PrikeyArea
          <6>. QED
            BY <2>7, <2>11, <5>3, <6>2
        <5>. QED
          BY <5>1, <5>2, <5>3
      <4>3. pre[i].pri # NoKey
        BY <2>6, <4>2
      <4>4. ~Faultless'
        <5>1. Faultless => ~Dup
          BY <2>8 DEF History, Counting
        <5>. QED
          BY <2>9, <3>1, <4>3, <5>1 DEF Faultless
      <4>. QED
        BY <1>0, <2>0, <2>3, <2>11, <4>3, <4>4, RollbackPair
    <3>2. CASE "read" \in faults'.seen /\ ~Faultless'
      BY <1>0, <2>0, <2>3, <2>11, <3>2, RollbackPair
    <3>. QED
      BY <2>11, <3>1, <3>2, HeaderCases
  <2>12. ASSUME StoreFault("FLASH", PkT), Rollback
         PROVE  Kept
    <3>1. PICK kind \in {"internal", "write", "read"} : Fault(kind)
      BY <2>12 DEF StoreFault, FlashFault
    <3>2. ~Faultless' /\ kind \in faults'.seen
      BY <3>1, FirstFault DEF History
    <3>. QED
      BY <1>0, <2>0, <2>3, <2>12, <3>2, RollbackPair
  <2>. QED
    BY <2>2, <2>10, <2>11, <2>12 DEF store_prikey_Record, PkT, r
<1>. QED
  BY <1>0, <1>1, <1>2, CallIndex
\* The number of private keys is written and the create is done, or it fails.
LEMMA PrikeyNumPair ==
  ASSUME TypeInv, TypeInv', History, PairState, store_prikey_Num
  PROVE  Kept
<1>0. pc = "pkNum" /\ pc # "idle" /\ pk \in [BoatStoreType -> Table] /\ kp' = kp
  BY Types DEF store_prikey_Num, Rollback
<1>1. CASE ctx.index = 0
  <2>1. KpT' = KpT /\ PkT' = PkT
    BY <1>0, <1>1 DEF store_prikey_Num, Rollback, KpT, PkT, Mem, BoatStoreType
  <2>2. \/ pc' # "idle" /\ ctx'.index = 0 /\ pre' = pre
        \/ pc' = "idle" /\ ctx' = NoCtx /\ pre' = Views(kp', pk')
    BY <1>0, <1>1 DEF store_prikey_Num, Rollback, Return, Goto
  <2>. QED
    BY <1>1, <2>1, <2>2, OnetimePair
<1>2. CASE ctx.index \in Persistent
  <2>0. PICK i \in Persistent : i = ctx.index
    BY <1>2
  <2>1. PICK n \in Nat : n = ctx.num /\ n \in 0..(BOAT_MAX_KEYPAIR_NUM - 1)
    <3>1. ctx.num \in KeypairIndex /\ ctx.num < BOAT_MAX_KEYPAIR_NUM
      BY <1>0, CallIndex, Types DEF CtxOK
    <3>. QED
      BY <3>1, MaxAssumption DEF KeypairIndex
  <2>2. Mem(ctx.index) = "FLASH" /\ i # 0 /\ ctx \in CtxSet
    BY <1>0, <2>0, CallIndex
  <2>3. KpN = Count(KpT) /\ PkN = n
    BY <1>0, <2>0, <2>1, <2>2 DEF KpN, PkN
  <2>4. /\ Tidy(KpT, Count(KpT), RecLens) /\ Tidy(PkT, n, PrikeyLens)
        /\ AreaEnd(KpT, Count(KpT)) <= BOAT_STORAGE_KEYPAIR_MAXLEN
    BY <1>0, <2>3 DEF PairState, TabsOK
  <2>5. OwnOK(i)
    BY <2>0 DEF PairState
  <2>6. ~Dup /\ ctx.api = "create"
    BY <1>0, <2>5 DEF OwnOK, OwnPast
  <2>7. /\ ctx.rec \in FlashRec(RecLens) /\ ctx.rec.index = i /\ Pri(i) = pre[i].pri
        /\ Pub(i) = ctx.rec.key /\ pre[i].pri = NoKey
    BY <1>0, <2>5, <2>6 DEF OwnOK, OwnKeys
  <2>. DEFINE r == PrikeyRec(ctx.rec)
  <2>8. r \in FlashRec(PrikeyLens) /\ r.index = i /\ r.key = ctx.rec.key
    BY <2>7, PrikeyFlashRec
  <2>9. PkT.slot[n + 1] = r /\ ("read" \notin faults.seen => n = Count(PkT))
    BY <1>0, <2>1, <2>5 DEF OwnOK, OwnRecords
  <2>. HIDE DEF r
  <2>10. ASSUME pk' = [pk EXCEPT !["FLASH"] = WriteNum(pk["FLASH"], ctx.num + 1)], Return(TRUE)
         PROVE  Kept
    <3>1. PkT' = WriteNum(PkT, n + 1) /\ KpT' = KpT
      BY <1>0, <2>1, <2>10 DEF KpT, PkT, BoatStoreType
    <3>2. PkT \in Table /\ n + 1 \in KeypairIndex
      BY <2>1, FlashTables, MaxAssumption DEF TableTypes, KeypairIndex
    <3>3. Count(PkT') = n + 1 /\ PkT'.slot = PkT.slot
      BY <3>1, <3>2, PutNum
    <3>4. (\A q \in 1..n : PkT'.slot[q] = PkT.slot[q]) /\ PkT'.slot[n + 1] = r
      BY <2>9, <3>3
    <3>5. /\ \A j : j # r.index => KeyAt(PkT', n + 1, j) = KeyAt(PkT, n, j)
          /\ KeyAt(PkT, n, r.index) = NoKey =>
               Tidy(PkT', n + 1, PrikeyLens) /\ KeyAt(PkT', n + 1, r.index) = r.key
      BY <2>4, <2>8, <3>4, TidyAppend
    <3>6. \A j : Pri(j) = KeyAt(PkT, n, j) /\ Pub(j) = KeyAt(KpT, Count(KpT), j)
      BY <2>3 DEF Pri, Pub
    <3>7. Tidy(PkT', n + 1, PrikeyLens) /\ KeyAt(PkT', n + 1, i) = ctx.rec.key
      BY <2>7, <2>8, <3>5, <3>6
    <3>8. pc' = "idle" /\ ctx' = NoCtx /\ pre' = Views(kp', pk')
      BY <2>10 DEF Return
    <3>9. \A j \in Persistent \ {i} : KeyAt(PkT', Count(PkT'), j) = Pri(j)
      BY <2>8, <3>3, <3>5, <3>6
    <3>10. Agree(KeyAt(KpT', Count(KpT'), i), KeyAt(PkT', Count(PkT'), i))
           /\ KeyAt(KpT', Count(KpT'), i) = KeyAt(PkT', Count(PkT'), i)
      BY <2>7, <3>1, <3>3, <3>6, <3>7 DEF Agree
    <3>11. ret'.op = "create" /\ ret'.ok /\ pre[i].pub = NoKey
      BY <2>0, <2>6, <2>10 DEF Return, Dup
    <3>12. OwnOutcome(i, KeyAt(KpT', Count(KpT'), i), KeyAt(PkT', Count(PkT'), i))
      BY <2>7, <3>1, <3>3, <3>6, <3>7, <3>11 DEF OwnOutcome
    <3>. QED
      BY <2>0, <2>4, <3>1, <3>3, <3>6, <3>7, <3>8, <3>9, <3>10, <3>12, CallEnd
  <2>11. ASSUME FlashFault(Mem(ctx.index), "write"), Rollback
         PROVE  Kept
    <3>1. Fault("write")
      BY <2>11 DEF FlashFault
    <3>2. faults.seen = {} /\ ~Faultless' /\ "write" \in faults'.seen
      BY <3>1, FirstFault DEF History
    <3>3. PkN = Count(PkT)
      BY <2>3, <2>9, <3>2
    <3>. QED
      BY <1>0, <2>0, <2>3, <2>11, <3>2, <3>3, RollbackPair
  <2>. QED
    BY <2>2, <2>10, <2>11 DEF store_prikey_Num
<1>. QED
  BY <1>0, <1>1, <1>2, CallIndex

\* The one-time keypair is deleted.
LEMMA OnetimeDeletePair ==
  ASSUME TypeInv, TypeInv', History, PairState, Delete_Onetime
  PROVE  Kept
<1>0. ctx.index = 0 /\ kp \in [BoatStoreType -> Table]
  BY Types DEF Delete_Onetime
<1>1. KpT' = KpT /\ PkT' = PkT
  BY <1>0 DEF Delete_Onetime, KpT, PkT, BoatStoreType
<1>2. pc' = "idle" /\ ctx' = NoCtx /\ pre' = Views(kp', pk')
  BY DEF Delete_Onetime, Deleted, Return
<1>. QED
  BY <1>0, <1>1, <1>2, OnetimePair

\* A number that is written leaves the records where they are.
LEMMA SlotSame ==
  ASSUME NEW t, NEW w, w.slot = t.slot
  PROVE  /\ \A n \in Nat : AreaEnd(w, n) = AreaEnd(t, n)
         /\ \A n, j : KeyAt(w, n, j) = KeyAt(t, n, j)
         /\ \A n, L : Tidy(w, n, L) <=> Tidy(t, n, L)
         /\ \A n, j : Twice(w, n, j) <=> Twice(t, n, j)
<1>1. ASSUME NEW n \in Nat PROVE AreaEnd(w, n) = AreaEnd(t, n)
  BY AreaSame
<1>2. \A n, L : Tidy(w, n, L) <=> Tidy(t, n, L)
  BY DEF Tidy
<1>3. \A n, j : KeyAt(w, n, j) = KeyAt(t, n, j)
  BY DEF KeyAt, Found
<1>4. \A n, j : Twice(w, n, j) <=> Twice(t, n, j)
  BY DEF Twice, Found, Tidy
<1>. QED
  BY <1>1, <1>2, <1>3, <1>4

\* BoATIotKeypairDelete finds the keypair and lowers the number of keypairs.
LEMMA DeleteNumPair ==
  ASSUME TypeInv, TypeInv', History, PairState, Delete_Num
  PROVE  Kept
<1>0. /\ pc = "kpDel" /\ pc # "idle" /\ kp \in [BoatStoreType -> Table] /\ pk' = pk
      /\ ctx.index # 0 /\ ctx \in CtxSet /\ ~ctx.restore
  BY Types DEF Delete_Num, CtxOK
<1>1. PICK i \in Persistent : i = ctx.index
  BY <1>0, CallIndex
<1>2. PICK n \in Nat : n = Count(KpT) /\ n \in KeypairIndex
  BY FlashTables DEF TableTypes
<1>3. KpN = n /\ PkN = Count(PkT)
  BY <1>0, <1>2 DEF KpN, PkN
<1>4. /\ IF Dup THEN Twice(KpT, n, i) ELSE Tidy(KpT, n, RecLens)
      /\ Tidy(PkT, Count(PkT), PrikeyLens)
      /\ AreaEnd(KpT, n) <= BOAT_STORAGE_KEYPAIR_MAXLEN
  BY <1>0, <1>1, <1>3 DEF PairState, TabsOK
<1>5. OwnOK(i)
  BY <1>1 DEF PairState
<1>6. /\ Pri(i) = pre[i].pri
      /\ ctx.api = "delete" => Pub(i) = pre[i].pub
  BY <1>0, <1>5 DEF OwnOK, OwnKeys
<1>7. /\ ctx.api \in {"create", "delete"}
      /\ Dup => "read" \in faults.seen /\ pre[i].pri # NoKey
      /\ ctx.api = "create" => ~Faultless /\ (faults.seen \subseteq {"crash"} => pre[i].pri # NoKey)
      /\ ctx.api = "delete" => ~Dup
  BY <1>0, <1>5 DEF OwnOK, OwnPast, Dup
<1>8. /\ Agree(pre[i].pub, pre[i].pri) /\ (Faultless => pre[i].pub = pre[i].pri)
  BY DEF PairState, PreOK
<1>. DEFINE S == Found(KpT, n, i)
            p == FirstOf(S)
<1>9. ASSUME S # {}, kp' = [kp EXCEPT !["FLASH"] = WriteNum(KpT, n - 1)],
             ctx' = [ctx EXCEPT !.num = n, !.pos = p, !.rec = KpT.slot[p]],
             Goto("kpTail"), UNCHANGED faults
      PROVE  Kept
  <2>1. p \in 1..n /\ KpT.slot[p].index = i /\ n >= 1
    BY <1>2, <1>9, FoundFirst
  <2>2. KpT.slot[p] \in FlashRec(RecLens) /\ (Dup => p < n)
    <3>1. CASE Dup
      <4>1. Twice(KpT, n, i)
        BY <1>4, <3>1
      <4>2. FirstOf(Found(KpT, n, i)) \in 1..(n-1) /\ KpT.slot[FirstOf(Found(KpT, n, i))] \in FlashRec(RecLens)
        BY <1>2, <4>1, TwiceFirst
      <4>. HIDE DEF p, S
      <4>3. p \in 1..(n-1) /\ KpT.slot[p] \in FlashRec(RecLens)
        BY <4>2 DEF p, S
      <4>. QED
        BY <4>3
    <3>2. CASE ~Dup
      BY <1>4, <2>1, <3>2 DEF Tidy
    <3>. QED
      BY <3>1, <3>2
  <2>3. ~Dup => KeyAt(KpT, n, i) = KpT.slot[p].key
    BY <1>2, <1>4, <2>1, TidyKeys
  <2>. HIDE DEF p, S
  <2>4. KpT' = WriteNum(KpT, n - 1) /\ PkT' = PkT
    BY <1>0, <1>9 DEF KpT, PkT, BoatStoreType
  <2>5. KpT \in Table /\ n - 1 \in KeypairIndex
    <3>1. n - 1 \in KeypairIndex
      BY <1>2, <2>1, MaxAssumption DEF KeypairIndex
    <3>. QED
      BY <3>1, FlashTables DEF TableTypes
  <2>6. KpT'.num = n - 1 /\ KpT'.slot = KpT.slot
    BY <2>4, <2>5, PutNum
  <2>7. /\ pc' = "kpTail" /\ pre' = pre /\ ctx'.num = n /\ ctx'.pos = p /\ ctx'.rec = KpT.slot[p]
        /\ ctx'.index = i /\ ctx'.api = ctx.api /\ ~ctx'.restore
    BY <1>0, <1>1, <1>9 DEF Goto, CtxSet
  <2>8. KpN' = n /\ PkN' = Count(PkT) /\ (Dup' <=> Dup)
    BY <1>0, <1>1, <2>4, <2>7 DEF KpN, PkN, Dup
  <2>9. /\ AreaEnd(KpT', n) = AreaEnd(KpT, n)
        /\ \A j : KeyAt(KpT', n, j) = KeyAt(KpT, n, j)
        /\ Tidy(KpT', n, RecLens) <=> Tidy(KpT, n, RecLens)
        /\ Twice(KpT', n, i) <=> Twice(KpT, n, i)
    BY <1>2, <2>6, SlotSame
  <2>10. \A j : Pub(j)' = Pub(j) /\ Pri(j)' = Pri(j) /\ Pub(j) = KeyAt(KpT, n, j)
    BY <1>3, <2>4, <2>8, <2>9 DEF Pub, Pri
  <2>11. TabsOK'
    BY <1>4, <2>4, <2>7, <2>8, <2>9 DEF TabsOK
  <2>12. OwnKeys(i)'
    BY <1>6, <1>7, <2>1, <2>2, <2>3, <2>7, <2>8, <2>10 DEF OwnKeys, PkDeleting, Deleting
  <2>13. OwnRecords(i)' /\ OwnRoom(i)'
    BY <2>1, <2>2, <2>6, <2>7, <2>8 DEF OwnRecords, OwnRoom, PkDeleting
  <2>14. OwnPast(i)'
    <3>1. Faultless' <=> Faultless
      BY <1>9 DEF Faultless
    <3>. QED
      BY <1>7, <1>9, <2>7, <2>8, <3>1 DEF OwnPast, PkDeleting, Deleting
  <2>. QED
    BY <1>1, <2>7, <2>10, <2>11, <2>12, <2>13, <2>14, CallGoesOn DEF OwnOK
<1>10. ASSUME UNCHANGED kp, Deleted(FALSE),
              (S = {} /\ UNCHANGED faults) \/ \E kind : Fault(kind)
       PROVE  Kept
  <2>1. pc' = "idle" /\ ctx' = NoCtx /\ pre' = Views(kp', pk')
    BY <1>10 DEF Deleted, Return
  <2>2. KpT' = KpT /\ PkT' = PkT
    BY <1>0, <1>10 DEF KpT, PkT
  <2>4. ret'.op = ctx.api /\ ret'.ok = FALSE
    BY <1>10 DEF Deleted, Return
  <2>3. /\ ~Dup /\ Agree(Pub(i), Pri(i)) /\ (Faultless' => Pub(i) = Pri(i))
        /\ OwnOutcome(i, Pub(i), Pri(i))
    <3>1. CASE S = {} /\ UNCHANGED faults
      <4>1. ~Dup
        BY <1>2, <1>4, <3>1, TwiceFirst
      <4>2. Pub(i) = NoKey
        BY <1>3, <3>1 DEF Pub, KeyAt
      <4>3. Faultless' => Pub(i) = Pri(i)
        BY <1>6, <1>7, <1>8, <3>1 DEF Faultless
      <4>4. ctx.api = "delete"
        <5>1. ctx.api = "create" => Pub(i) \in Keys
          BY <1>0, <1>5, <4>1 DEF OwnOK, OwnKeys, FlashRec
        <5>. QED
          BY <1>7, <4>2, <5>1, KeyAssumption
      <4>5. OwnOutcome(i, Pub(i), Pri(i))
        BY <1>6, <2>4, <4>4 DEF OwnOutcome
      <4>. QED
        BY <4>1, <4>2, <4>3, <4>5 DEF Agree
    <3>2. ASSUME NEW kind, Fault(kind)
          PROVE  ~Dup /\ Agree(Pub(i), Pri(i)) /\ ~Faultless' /\ OwnOutcome(i, Pub(i), Pri(i))
      <4>1. Faultless /\ ~Faultless'
        BY <3>2, FirstFault DEF History
      <4>2. ctx.api = "delete"
        BY <1>7, <4>1
      <4>3. OwnOutcome(i, Pub(i), Pri(i))
        BY <1>6, <2>4, <4>2 DEF OwnOutcome
      <4>. QED
        BY <1>6, <1>7, <1>8, <4>1, <4>3
    <3>. QED
      BY <1>10, <3>1, <3>2
  <2>. QED
    BY <1>1, <1>2, <1>3, <1>4, <2>1, <2>2, <2>3, EndSame
<1>. QED
  BY <1>1, <1>2, <1>9, <1>10 DEF Delete_Num, KpT
\* Reading or copying what is behind the deleted record is the first fault.
LEMMA TailFaultFirst ==
  ASSUME TypeInv, History, TailFault
  PROVE  Faultless /\ faults.seen = {} /\ ~Faultless' /\ ~(faults'.seen \subseteq {"crash"})
<1>1. PICK kind \in {"write", "read", "internal"} : Fault(kind)
  BY DEF TailFault
<1>. QED
  BY <1>1, FirstFault DEF History

\* The records behind the deleted one move up, or the number is put back.
LEMMA DeleteTailPair ==
  ASSUME TypeInv, TypeInv', History, PairState, Delete_Tail
  PROVE  Kept
<1>0. /\ pc = "kpTail" /\ pc # "idle" /\ kp \in [BoatStoreType -> Table] /\ pk' = pk /\ ctx' = ctx
      /\ ctx.index # 0 /\ ctx \in CtxSet /\ ~ctx.restore
  BY Types DEF Delete_Tail, CtxOK
<1>1. PICK i \in Persistent : i = ctx.index
  BY <1>0, CallIndex
<1>2. PICK n \in Nat : n = ctx.num /\ n \in KeypairIndex
  BY <1>0, CallIndex
<1>3. KpN = n /\ PkN = Count(PkT)
  BY <1>0, <1>2 DEF KpN, PkN
<1>4. /\ IF Dup THEN Twice(KpT, n, i) ELSE Tidy(KpT, n, RecLens)
      /\ Tidy(PkT, Count(PkT), PrikeyLens)
      /\ AreaEnd(KpT, n) <= BOAT_STORAGE_KEYPAIR_MAXLEN
  BY <1>0, <1>1, <1>3 DEF PairState, TabsOK
<1>5. OwnOK(i)
  BY <1>1 DEF PairState
<1>6. /\ Pri(i) = pre[i].pri
      /\ ctx.rec \in FlashRec(RecLens) /\ ctx.rec.index = i
      /\ ~Dup => Pub(i) = ctx.rec.key
      /\ ctx.api = "delete" => pre[i].pub = ctx.rec.key
  BY <1>0, <1>5 DEF OwnOK, OwnKeys, Deleting
<1>7. /\ ctx.api \in {"create", "delete"}
      /\ Dup => "read" \in faults.seen /\ pre[i].pri # NoKey
      /\ ctx.api = "create" => ~Faultless /\ (faults.seen \subseteq {"crash"} => pre[i].pri # NoKey)
      /\ ctx.api = "delete" => ~Dup
  BY <1>0, <1>5 DEF OwnOK, OwnPast, Dup, Deleting
<1>8. PICK p \in 1..n : p = ctx.pos
  BY <1>0, <1>2, <1>5 DEF OwnOK, OwnRecords
<1>9. KpT.num = n - 1 /\ KpT.slot[p] = ctx.rec /\ (Dup => p < n)
  BY <1>0, <1>2, <1>5, <1>8 DEF OwnOK, OwnRecords
<1>10. ctx.rec.len \in Nat
  BY <1>6, FlashRecType, LensNat
<1>11. ASSUME kp' = [kp EXCEPT !["FLASH"] = DropRec(KpT, p, n)], Goto("pkDel"), UNCHANGED faults
       PROVE  Kept
  <2>1. KpT' = DropRec(KpT, p, n) /\ PkT' = PkT
    BY <1>0, <1>11 DEF KpT, PkT, BoatStoreType
  <2>2. KpT \in Table
    BY FlashTables DEF TableTypes
  <2>3. KpT'.num = KpT.num /\ DropsTo(KpT, KpT', n, p)
    BY <1>2, <2>1, <2>2, DropDrops
  <2>4. Count(KpT') = n - 1 /\ n - 1 < BOAT_MAX_KEYPAIR_NUM
    BY <1>2, <1>8, <1>9, <2>3, MaxAssumption DEF Count, BadNum, KeypairIndex
  <2>5. pc' = "pkDel" /\ pre' = pre
    BY <1>11 DEF Goto
  <2>6. KpN' = n - 1 /\ PkN' = Count(PkT) /\ (Dup' <=> Dup)
    BY <1>0, <1>1, <2>1, <2>4, <2>5 DEF KpN, PkN, Dup
  <2>7. /\ Tidy(KpT', n - 1, RecLens)
        /\ \A j : j # i => KeyAt(KpT', n - 1, j) = KeyAt(KpT, n, j)
        /\ ~Dup => KeyAt(KpT', n - 1, i) = NoKey
    <3>1. CASE Dup
      <4>1. Twice(KpT, n, i) /\ p < n /\ KpT.slot[p].index = i
        BY <1>4, <1>6, <1>9, <3>1
      <4>. QED
        BY <2>3, <3>1, <4>1, TwiceDrop
    <3>2. CASE ~Dup
      <4>1. Tidy(KpT, n, RecLens) /\ KpT.slot[p].index = i
        BY <1>4, <1>6, <1>9, <3>2
      <4>2. /\ Tidy(KpT', n - 1, RecLens)
            /\ KeyAt(KpT', n - 1, KpT.slot[p].index) = NoKey
            /\ \A j : j # KpT.slot[p].index => KeyAt(KpT', n - 1, j) = KeyAt(KpT, n, j)
        BY <2>3, <4>1, TidyDrop
      <4>. QED
        BY <4>1, <4>2
    <3>. QED
      BY <3>1, <3>2
  <2>8. \A j : /\ j # i => Pub(j)' = Pub(j)
               /\ Pri(j)' = Pri(j)
               /\ Pub(j)' = KeyAt(KpT', n - 1, j)
    BY <1>3, <2>1, <2>6, <2>7 DEF Pub, Pri
  <2>9. AreaEnd(KpT', n - 1) + ctx.rec.len = AreaEnd(KpT, n) /\ AreaEnd(KpT', n - 1) \in Nat
    <3>1. \A q \in 1..n : KpT.slot[q].len \in Nat
      BY <1>4, TwiceArea, TidyArea, LensNat
    <3>2. AreaEnd(KpT', n - 1) + KpT.slot[p].len = AreaEnd(KpT, n)
      BY <2>3, <3>1, DropArea
    <3>3. n - 1 \in Nat
      BY <1>8
    <3>4. AreaEnd(KpT', n - 1) \in Nat
      BY <2>7, <3>3, TidyArea, LensNat
    <3>. QED
      BY <1>9, <3>2, <3>4
  <2>10. /\ AreaEnd(KpT', n - 1) <= BOAT_STORAGE_KEYPAIR_MAXLEN
         /\ AreaEnd(KpT', n - 1) + ctx.rec.len <= BOAT_STORAGE_KEYPAIR_MAXLEN
    <3>1. BOAT_STORAGE_KEYPAIR_MAXLEN \in Int
      BY MaxAssumption DEF BOAT_STORAGE_KEYPAIR_MAXLEN
    <3>. QED
      BY <1>4, <1>10, <2>9, <3>1
  <2>11. TabsOK'
    BY <1>4, <2>1, <2>5, <2>6, <2>7, <2>10 DEF TabsOK
  <2>12. OwnKeys(i)'
    BY <1>0, <1>6, <2>5, <2>6, <2>7, <2>8 DEF OwnKeys, PkDeleting, Deleting
  <2>13. OwnRecords(i)' /\ OwnRoom(i)'
    BY <1>0, <2>4, <2>5, <2>10 DEF OwnRecords, OwnRoom, PkDeleting
  <2>14. OwnPast(i)'
    <3>1. Faultless' <=> Faultless
      BY <1>11 DEF Faultless
    <3>. QED
      BY <1>0, <1>7, <1>11, <2>5, <2>6, <3>1 DEF OwnPast, PkDeleting, Deleting
  <2>. QED
    BY <1>0, <1>1, <2>5, <2>8, <2>11, <2>12, <2>13, <2>14, CallGoesOn DEF OwnOK
<1>12. ASSUME TailFault, UNCHANGED kp, Goto("kpRecover")
       PROVE  Kept
  <2>1. Faultless /\ faults.seen = {} /\ ~Faultless' /\ ~(faults'.seen \subseteq {"crash"})
    BY <1>12, TailFaultFirst
  <2>2. pc' = "kpRecover" /\ pre' = pre /\ KpT' = KpT /\ PkT' = PkT
    BY <1>0, <1>12 DEF Goto, KpT, PkT
  <2>3. KpN' = n /\ PkN' = Count(PkT) /\ ~Dup' /\ ~Dup /\ ctx.api = "delete"
    BY <1>0, <1>1, <1>2, <1>7, <2>1, <2>2 DEF KpN, PkN, Dup
  <2>4. \A j : Pub(j)' = Pub(j) /\ Pri(j)' = Pri(j)
    BY <1>3, <2>2, <2>3 DEF Pub, Pri
  <2>5. TabsOK'
    BY <1>4, <2>2, <2>3 DEF TabsOK
  <2>6. OwnKeys(i)'
    BY <1>0, <1>6, <2>2, <2>3, <2>4 DEF OwnKeys, PkDeleting, Deleting
  <2>7. OwnRecords(i)' /\ OwnRoom(i)'
    BY <1>0, <1>2, <1>8, <1>9, <2>2, <2>3 DEF OwnRecords, OwnRoom, PkDeleting
  <2>8. OwnPast(i)'
    BY <1>0, <2>1, <2>2, <2>3 DEF OwnPast, PkDeleting, Deleting
  <2>. QED
    BY <1>0, <1>1, <2>2, <2>4, <2>5, <2>6, <2>7, <2>8, CallGoesOn DEF OwnOK
<1>. QED
  BY <1>2, <1>8, <1>11, <1>12 DEF Delete_Tail, KpT

\* The number of keypairs is put back.
LEMMA DeleteRecoverPair ==
  ASSUME TypeInv, TypeInv', History, PairState, Delete_Recover
  PROVE  Kept
<1>0. /\ pc = "kpRecover" /\ pc # "idle" /\ kp \in [BoatStoreType -> Table] /\ pk' = pk
      /\ ctx.index # 0 /\ ctx \in CtxSet /\ ~ctx.restore
  BY Types DEF Delete_Recover, CtxOK
<1>1. PICK i \in Persistent : i = ctx.index
  BY <1>0, CallIndex
<1>2. PICK n \in Nat : n = ctx.num /\ n \in KeypairIndex
  BY <1>0, CallIndex
<1>3. KpN = n /\ PkN = Count(PkT)
  BY <1>0, <1>2 DEF KpN, PkN
<1>4. OwnOK(i)
  BY <1>1 DEF PairState
<1>5. ctx.api = "delete" /\ ~(faults.seen \subseteq {"crash"}) /\ ~Dup
  BY <1>0, <1>4 DEF OwnOK, OwnPast, Dup
<1>6. /\ Tidy(KpT, n, RecLens) /\ Tidy(PkT, Count(PkT), PrikeyLens)
      /\ AreaEnd(KpT, n) <= BOAT_STORAGE_KEYPAIR_MAXLEN
  BY <1>3, <1>5 DEF PairState, TabsOK
<1>7. Pri(i) = pre[i].pri /\ Pub(i) = pre[i].pub
  BY <1>0, <1>4, <1>5 DEF OwnOK, OwnKeys, Deleting
<1>8. Agree(pre[i].pub, pre[i].pri)
  BY DEF PairState, PreOK
<1>9. \A kind : ~Fault(kind)
  BY <1>5, FirstFault DEF History
<1>10. kp' = [kp EXCEPT !["FLASH"] = WriteNum(kp["FLASH"], ctx.num)] /\ UNCHANGED faults
  BY <1>9 DEF Delete_Recover
<1>11. KpT' = WriteNum(KpT, n) /\ PkT' = PkT
  BY <1>0, <1>2, <1>10 DEF KpT, PkT, BoatStoreType
<1>12. Count(KpT') = n /\ KpT'.slot = KpT.slot
  BY <1>2, <1>11, PutNum, FlashTables DEF TableTypes
<1>13. /\ AreaEnd(KpT', n) = AreaEnd(KpT, n)
       /\ \A j : KeyAt(KpT', n, j) = KeyAt(KpT, n, j)
       /\ Tidy(KpT', n, RecLens)
  BY <1>2, <1>6, <1>12, SlotSame
<1>14. pc' = "idle" /\ ctx' = NoCtx /\ pre' = Views(kp', pk')
  BY DEF Delete_Recover, Deleted, Return
<1>15. ~Faultless'
  BY <1>5, <1>10 DEF Faultless, History, Counting
<1>16. \A j : KeyAt(KpT', Count(KpT'), j) = Pub(j) /\ KeyAt(PkT', Count(PkT'), j) = Pri(j)
  BY <1>3, <1>11, <1>12, <1>13 DEF Pub, Pri
<1>17. ret'.op = "delete" /\ ~ret'.ok
  BY <1>5 DEF Delete_Recover, Deleted, Return
<1>18. OwnOutcome(i, Pub(i), Pri(i))
  BY <1>7, <1>17 DEF OwnOutcome
<1>. QED
  BY <1>1, <1>6, <1>7, <1>8, <1>11, <1>12, <1>13, <1>14, <1>15, <1>16, <1>18, CallEnd
\* The private key is not deleted: the keypair is to be stored again.
LEMMA RestorePair ==
  ASSUME TypeInv, History, PairState, NEW i \in Persistent, i = ctx.index,
         pc = "pkDel", ~Dup, Restore, ~Faultless',
         ctx.api = "create" => pre[i].pri = NoKey /\ ~(faults'.seen \subseteq {"crash"})
  PROVE  Kept
<1>0. ctx \in CtxSet /\ i # 0
  BY Types DEF Persistent
<1>1. /\ pc' = "kpRec" /\ pre' = pre /\ KpT' = KpT /\ PkT' = PkT
      /\ ctx'.index = i /\ ctx'.rec = ctx.rec /\ ctx'.api = ctx.api /\ ctx'.restore
  BY <1>0 DEF Restore, Goto, CtxSet, KpT, PkT
<1>2. KpN = Count(KpT) /\ PkN = Count(PkT)
  BY DEF KpN, PkN
<1>3. KpN' = Count(KpT) /\ PkN' = Count(PkT) /\ ~Dup'
  BY <1>1 DEF KpN, PkN, Dup
<1>4. \A j : Pub(j)' = Pub(j) /\ Pri(j)' = Pri(j)
  BY <1>1, <1>2, <1>3 DEF Pub, Pri
<1>5. TabsOK'
  BY <1>1, <1>2, <1>3 DEF PairState, TabsOK
<1>6. OwnOK(i)
  BY DEF PairState
<1>7. /\ Pri(i) = pre[i].pri
      /\ ctx.rec \in FlashRec(RecLens) /\ ctx.rec.index = i
      /\ Pub(i) = NoKey
      /\ ctx.api = "delete" => pre[i].pub = ctx.rec.key
      /\ ctx.api \in {"create", "delete"}
  BY <1>6 DEF OwnOK, OwnKeys, OwnPast, PkDeleting, Deleting
<1>8. /\ Count(KpT) < BOAT_MAX_KEYPAIR_NUM
      /\ AreaEnd(KpT, Count(KpT)) + ctx.rec.len <= BOAT_STORAGE_KEYPAIR_MAXLEN
  BY <1>6 DEF OwnOK, OwnRoom, PkDeleting
<1>9. OwnKeys(i)'
  BY <1>1, <1>3, <1>4, <1>7 DEF OwnKeys, PkDeleting, Deleting
<1>10. OwnRecords(i)' /\ OwnRoom(i)'
  BY <1>1, <1>8 DEF OwnRecords, OwnRoom, PkDeleting
<1>11. OwnPast(i)'
  BY <1>1, <1>3, <1>7 DEF OwnPast, PkDeleting, Deleting
<1>. QED
  BY <1>1, <1>4, <1>5, <1>9, <1>10, <1>11, CallGoesOn DEF OwnOK

\* BoAT_DeletePirkeyByIndex finds the private key and lowers their number.
LEMMA PirkeyNumPair ==
  ASSUME TypeInv, TypeInv', History, PairState, DeletePirkey_Num
  PROVE  Kept
<1>0. /\ pc = "pkDel" /\ pc # "idle" /\ pk \in [BoatStoreType -> Table] /\ kp' = kp
      /\ ctx.index # 0 /\ ctx \in CtxSet /\ ~ctx.restore
  BY Types DEF DeletePirkey_Num, CtxOK, Restore
<1>1. PICK i \in Persistent : i = ctx.index
  BY <1>0, CallIndex
<1>2. PICK n \in Nat : n = Count(PkT) /\ n \in KeypairIndex
  BY FlashTables DEF TableTypes
<1>3. KpN = Count(KpT) /\ PkN = n
  BY <1>0, <1>2 DEF KpN, PkN
<1>4. /\ Tidy(KpT, Count(KpT), RecLens) /\ Tidy(PkT, n, PrikeyLens)
      /\ AreaEnd(KpT, Count(KpT)) <= BOAT_STORAGE_KEYPAIR_MAXLEN
  BY <1>0, <1>3 DEF PairState, TabsOK
<1>5. OwnOK(i)
  BY <1>1 DEF PairState
<1>6. /\ Pri(i) = pre[i].pri
      /\ ctx.rec \in FlashRec(RecLens) /\ ctx.rec.index = i
      /\ ~Dup => Pub(i) = NoKey
      /\ ctx.api = "delete" => pre[i].pub = ctx.rec.key
  BY <1>0, <1>5 DEF OwnOK, OwnKeys, PkDeleting, Deleting
<1>7. /\ ctx.api \in {"create", "delete"}
      /\ Dup => "read" \in faults.seen /\ pre[i].pri # NoKey
      /\ ctx.api = "create" => ~Faultless /\ (faults.seen \subseteq {"crash"} => pre[i].pri # NoKey)
      /\ ctx.api = "delete" => ~Dup
  BY <1>0, <1>5 DEF OwnOK, OwnPast, Dup, PkDeleting, Deleting
<1>8. /\ Count(KpT) < BOAT_MAX_KEYPAIR_NUM
      /\ AreaEnd(KpT, Count(KpT)) + ctx.rec.len <= BOAT_STORAGE_KEYPAIR_MAXLEN
  BY <1>0, <1>5 DEF OwnOK, OwnRoom, PkDeleting
<1>9. Faultless => pre[i].pub = pre[i].pri
  BY DEF PairState, PreOK
<1>10. Pri(i) = KeyAt(PkT, n, i)
  BY <1>3 DEF Pri
<1>. DEFINE S == Found(PkT, n, i)
            p == FirstOf(S)
<1>11. ASSUME PkT.num = 0, UNCHANGED <<kp, pk, faults>>, Deleted(TRUE)
       PROVE  Kept
  <2>1. pc' = "idle" /\ ctx' = NoCtx /\ pre' = Views(kp', pk')
    BY <1>11 DEF Deleted, Return
  <2>2. KpT' = KpT /\ PkT' = PkT
    BY <1>11 DEF KpT, PkT
  <2>3. Pri(i) = NoKey
    <3>1. n = 0
      BY <1>2, <1>11 DEF Count, BadNum
    <3>2. Found(PkT, n, i) = {}
      BY <3>1 DEF Found
    <3>. QED
      BY <1>10, <3>2 DEF KeyAt
  <2>4. Faultless' => Pub(i) = Pri(i)
    <3>1. Faultless' => faults.seen = {}
      BY <1>11 DEF Faultless, History, Counting
    <3>. QED
      BY <1>6, <1>7, <2>3, <3>1
  <2>5. ret'.op = ctx.api /\ ret'.ok = (ctx.api = "delete")
    BY <1>11 DEF Deleted, Return
  <2>6. OwnOutcome(i, Pub(i), Pri(i))
    <3>1. faults'.seen \subseteq {"crash"} => Pub(i) = NoKey
      BY <1>6, <1>7, <1>11
    <3>2. ctx.api = "create" => faults'.seen # {}
      BY <1>7, <1>11 DEF History, Counting
    <3>. QED
      BY <1>7, <2>3, <2>5, <3>1, <3>2 DEF OwnOutcome
  <2>. QED
    BY <1>1, <1>2, <1>3, <1>4, <2>1, <2>2, <2>3, <2>4, <2>6, EndSame DEF Agree
<1>12. ASSUME S # {}, pk' = [pk EXCEPT !["FLASH"] = WriteNum(PkT, PkT.num - 1)],
              ctx' = [ctx EXCEPT !.num = PkT.num, !.pos = p],
              Goto("pkTail"), UNCHANGED <<kp, faults>>
       PROVE  Kept
  <2>1. p \in 1..n /\ PkT.slot[p].index = i /\ n >= 1
    BY <1>2, <1>12, FoundFirst
  <2>. HIDE DEF p, S
  <2>2. PkT.num = n
    BY <1>2, <2>1 DEF Count
  <2>3. PkT' = WriteNum(PkT, n - 1) /\ KpT' = KpT
    BY <1>0, <1>12, <2>2 DEF KpT, PkT, BoatStoreType
  <2>4. n - 1 \in KeypairIndex
    BY <1>2, <2>1, MaxAssumption DEF KeypairIndex
  <2>5. PkT'.num = n - 1 /\ PkT'.slot = PkT.slot
    BY <2>3, <2>4, PutNum, FlashTables DEF TableTypes
  <2>6. /\ pc' = "pkTail" /\ pre' = pre /\ ctx'.num = n /\ ctx'.pos = p /\ ctx'.rec = ctx.rec
        /\ ctx'.index = i /\ ctx'.api = ctx.api /\ ~ctx'.restore
    BY <1>0, <1>1, <1>12, <2>2 DEF Goto, CtxSet
  <2>7. KpN' = Count(KpT) /\ PkN' = n /\ (Dup' <=> Dup)
    BY <1>0, <1>1, <2>3, <2>6 DEF KpN, PkN, Dup
  <2>8. /\ \A j : KeyAt(PkT', n, j) = KeyAt(PkT, n, j)
        /\ Tidy(PkT', n, PrikeyLens)
    BY <1>4, <2>5, SlotSame
  <2>9. \A j : Pub(j)' = Pub(j) /\ Pri(j)' = Pri(j)
    BY <1>3, <2>3, <2>7, <2>8 DEF Pub, Pri
  <2>10. TabsOK'
    BY <1>4, <2>3, <2>6, <2>7, <2>8 DEF TabsOK
  <2>11. OwnKeys(i)'
    BY <1>6, <2>6, <2>7, <2>9 DEF OwnKeys, PkDeleting, Deleting
  <2>12. OwnRecords(i)' /\ OwnRoom(i)'
    BY <1>8, <2>1, <2>3, <2>5, <2>6 DEF OwnRecords, OwnRoom, PkDeleting
  <2>13. OwnPast(i)'
    <3>1. Faultless' <=> Faultless
      BY <1>12 DEF Faultless
    <3>. QED
      BY <1>7, <1>12, <2>6, <2>7, <3>1 DEF OwnPast, PkDeleting, Deleting
  <2>. QED
    BY <1>1, <2>6, <2>9, <2>10, <2>11, <2>12, <2>13, CallGoesOn DEF OwnOK
<1>13. ASSUME S = {}, UNCHANGED faults, Restore
       PROVE  Kept
  <2>1. Pri(i) = NoKey /\ pre[i].pri = NoKey
    BY <1>6, <1>10, <1>13 DEF KeyAt
  <2>2. ~Dup
    BY <1>7, <2>1
  <2>3. ~Faultless
    <3>1. ctx.rec.key # NoKey
      BY <1>6, FlashRecType, LensNat
    <3>. QED
      BY <1>6, <1>7, <1>9, <2>1, <3>1
  <2>4. ~Faultless'
    BY <1>13, <2>3 DEF Faultless
  <2>5. ctx.api = "create" => ~(faults'.seen \subseteq {"crash"})
    BY <1>7, <1>13, <2>1
  <2>. QED
    BY <1>0, <1>1, <1>13, <2>1, <2>2, <2>4, <2>5, RestorePair
<1>14. ASSUME NEW kind, Fault(kind), Restore
       PROVE  Kept
  <2>1. Faultless /\ ~Faultless'
    BY <1>14, FirstFault DEF History
  <2>2. ~Dup /\ ctx.api # "create"
    BY <1>7, <2>1
  <2>. QED
    BY <1>0, <1>1, <1>14, <2>1, <2>2, RestorePair
<1>. QED
  BY <1>1, <1>2, <1>11, <1>12, <1>13, <1>14 DEF DeletePirkey_Num, PkT

\* The private keys behind the deleted one move up.
LEMMA PirkeyTailPair ==
  ASSUME TypeInv, TypeInv', History, PairState, DeletePirkey_Tail
  PROVE  Kept
<1>0. /\ pc = "pkTail" /\ pc # "idle" /\ pk \in [BoatStoreType -> Table] /\ kp' = kp
      /\ ctx.index # 0 /\ ctx \in CtxSet /\ ~ctx.restore
  BY Types DEF DeletePirkey_Tail, CtxOK
<1>1. PICK i \in Persistent : i = ctx.index
  BY <1>0, CallIndex
<1>2. PICK n \in Nat : n = ctx.num /\ n \in KeypairIndex
  BY <1>0, CallIndex
<1>3. KpN = Count(KpT) /\ PkN = n
  BY <1>0, <1>2 DEF KpN, PkN
<1>4. /\ Tidy(KpT, Count(KpT), RecLens) /\ Tidy(PkT, n, PrikeyLens)
      /\ AreaEnd(KpT, Count(KpT)) <= BOAT_STORAGE_KEYPAIR_MAXLEN
  BY <1>0, <1>3 DEF PairState, TabsOK
<1>5. OwnOK(i)
  BY <1>1 DEF PairState
<1>6. /\ Pri(i) = pre[i].pri
      /\ ctx.rec \in FlashRec(RecLens) /\ ctx.rec.index = i
      /\ ~Dup => Pub(i) = NoKey
      /\ ctx.api = "delete" => pre[i].pub = ctx.rec.key
  BY <1>0, <1>5 DEF OwnOK, OwnKeys, PkDeleting, Deleting
<1>7. /\ ctx.api \in {"create", "delete"}
      /\ Dup => "read" \in faults.seen
      /\ ctx.api = "create" => ~Faultless
      /\ ctx.api = "delete" => ~Dup
  BY <1>0, <1>5 DEF OwnOK, OwnPast, Dup, PkDeleting, Deleting
<1>8. /\ Count(KpT) < BOAT_MAX_KEYPAIR_NUM
      /\ AreaEnd(KpT, Count(KpT)) + ctx.rec.len <= BOAT_STORAGE_KEYPAIR_MAXLEN
  BY <1>0, <1>5 DEF OwnOK, OwnRoom, PkDeleting
<1>9. PICK p \in 1..n : p = ctx.pos
  BY <1>0, <1>2, <1>5 DEF OwnOK, OwnRecords
<1>10. PkT.num = n - 1 /\ PkT.slot[p].index = i
  BY <1>0, <1>2, <1>5, <1>9 DEF OwnOK, OwnRecords
<1>11. ASSUME pk' = [pk EXCEPT !["FLASH"] = DropRec(PkT, p, n)], UNCHANGED <<kp, faults>>, Deleted(TRUE)
       PROVE  Kept
  <2>1. PkT' = DropRec(PkT, p, n) /\ KpT' = KpT
    BY <1>0, <1>11 DEF KpT, PkT, BoatStoreType
  <2>2. PkT'.num = PkT.num /\ DropsTo(PkT, PkT', n, p)
    BY <1>2, <2>1, DropDrops, FlashTables DEF TableTypes
  <2>3. Count(PkT') = n - 1
    BY <1>2, <1>9, <1>10, <2>2 DEF Count, BadNum
  <2>4. /\ Tidy(PkT', n - 1, PrikeyLens)
        /\ KeyAt(PkT', n - 1, PkT.slot[p].index) = NoKey
        /\ \A j : j # PkT.slot[p].index => KeyAt(PkT', n - 1, j) = KeyAt(PkT, n, j)
    BY <1>4, <2>2, TidyDrop
  <2>5. pc' = "idle" /\ ctx' = NoCtx /\ pre' = Views(kp', pk')
    BY <1>11 DEF Deleted, Return
  <2>6. \A j : /\ KeyAt(KpT', Count(KpT'), j) = Pub(j)
               /\ j # i => KeyAt(PkT', Count(PkT'), j) = Pri(j)
    BY <1>3, <1>10, <2>1, <2>3, <2>4 DEF Pub, Pri
  <2>7. KeyAt(PkT', Count(PkT'), i) = NoKey
    BY <1>10, <2>3, <2>4
  <2>8. Faultless' => Pub(i) = NoKey
    <3>1. Faultless' => faults.seen = {}
      BY <1>11 DEF Faultless, History, Counting
    <3>. QED
      BY <1>6, <1>7, <3>1
  <2>9. ret'.op = ctx.api /\ ret'.ok = (ctx.api = "delete")
    BY <1>11 DEF Deleted, Return
  <2>10. OwnOutcome(i, Pub(i), NoKey)
    <3>1. faults'.seen \subseteq {"crash"} => Pub(i) = NoKey
      BY <1>6, <1>7, <1>11
    <3>2. ctx.api = "create" => faults'.seen # {}
      BY <1>7, <1>11 DEF History, Counting
    <3>. QED
      BY <1>7, <2>9, <3>1, <3>2 DEF OwnOutcome
  <2>. QED
    BY <1>1, <1>4, <2>1, <2>3, <2>4, <2>5, <2>6, <2>7, <2>8, <2>10, CallEnd DEF Agree
<1>12. ASSUME TailFault, Goto("pkRecover"), UNCHANGED <<kp, pk, ctx>>
       PROVE  Kept
  <2>1. Faultless /\ faults.seen = {} /\ ~Faultless' /\ ~(faults'.seen \subseteq {"crash"})
    BY <1>12, TailFaultFirst
  <2>2. pc' = "pkRecover" /\ pre' = pre /\ KpT' = KpT /\ PkT' = PkT /\ ctx' = ctx
    BY <1>12 DEF Goto, KpT, PkT
  <2>3. KpN' = Count(KpT) /\ PkN' = n /\ ~Dup' /\ ~Dup /\ ctx.api = "delete"
    BY <1>0, <1>1, <1>2, <1>7, <2>1, <2>2 DEF KpN, PkN, Dup
  <2>4. \A j : Pub(j)' = Pub(j) /\ Pri(j)' = Pri(j)
    BY <1>3, <2>2, <2>3 DEF Pub, Pri
  <2>5. TabsOK'
    BY <1>4, <2>2, <2>3 DEF TabsOK
  <2>6. OwnKeys(i)'
    BY <1>0, <1>6, <2>2, <2>3, <2>4 DEF OwnKeys, PkDeleting, Deleting
  <2>7. OwnRecords(i)' /\ OwnRoom(i)'
    BY <1>0, <1>2, <1>8, <1>9, <1>10, <2>2, <2>3 DEF OwnRecords, OwnRoom, PkDeleting
  <2>8. OwnPast(i)'
    BY <1>0, <2>1, <2>2, <2>3 DEF OwnPast, PkDeleting, Deleting
  <2>. QED
    BY <1>0, <1>1, <2>2, <2>4, <2>5, <2>6, <2>7, <2>8, CallGoesOn DEF OwnOK
<1>. QED
  BY <1>2, <1>9, <1>11, <1>12 DEF DeletePirkey_Tail, PkT

\* The number of private keys is put back.
LEMMA PirkeyRecoverPair ==
  ASSUME TypeInv, TypeInv', History, PairState, DeletePirkey_Recover
  PROVE  Kept
<1>0. /\ pc = "pkRecover" /\ pc # "idle" /\ pk \in [BoatStoreType -> Table]
      /\ ctx.index # 0 /\ ctx \in CtxSet /\ ~ctx.restore
  BY Types DEF DeletePirkey_Recover, CtxOK
<1>1. PICK i \in Persistent : i = ctx.index
  BY <1>0, CallIndex
<1>2. PICK n \in Nat : n = ctx.num /\ n \in KeypairIndex
  BY <1>0, CallIndex
<1>3. KpN = Count(KpT) /\ PkN = n
  BY <1>0, <1>2 DEF KpN, PkN
<1>4. OwnOK(i)
  BY <1>1 DEF PairState
<1>5. ctx.api = "delete" /\ ~(faults.seen \subseteq {"crash"}) /\ ~Dup
  BY <1>0, <1>4 DEF OwnOK, OwnPast, Dup
<1>6. /\ Tidy(KpT, Count(KpT), RecLens) /\ Tidy(PkT, n, PrikeyLens)
      /\ AreaEnd(KpT, Count(KpT)) <= BOAT_STORAGE_KEYPAIR_MAXLEN
  BY <1>3, <1>5 DEF PairState, TabsOK
<1>7. Pub(i) = NoKey
  BY <1>0, <1>4, <1>5 DEF OwnOK, OwnKeys, PkDeleting
<1>8. \A kind : ~Fault(kind)
  BY <1>5, FirstFault DEF History
<1>9. /\ pk' = [pk EXCEPT !["FLASH"] = WriteNum(pk["FLASH"], ctx.num)] /\ UNCHANGED <<kp, faults>>
      /\ Deleted(TRUE)
  BY <1>8 DEF DeletePirkey_Recover
<1>10. PkT' = WriteNum(PkT, n) /\ KpT' = KpT
  BY <1>0, <1>2, <1>9 DEF KpT, PkT, BoatStoreType
<1>11. Count(PkT') = n /\ PkT'.slot = PkT.slot
  BY <1>2, <1>10, PutNum, FlashTables DEF TableTypes
<1>12. (\A j : KeyAt(PkT', n, j) = KeyAt(PkT, n, j)) /\ Tidy(PkT', n, PrikeyLens)
  BY <1>6, <1>11, SlotSame
<1>13. pc' = "idle" /\ ctx' = NoCtx /\ pre' = Views(kp', pk')
  BY <1>9 DEF Deleted, Return
<1>14. ~Faultless'
  BY <1>5, <1>9 DEF Faultless, History, Counting
<1>15. \A j : KeyAt(KpT', Count(KpT'), j) = Pub(j) /\ KeyAt(PkT', Count(PkT'), j) = Pri(j)
  BY <1>3, <1>10, <1>11, <1>12 DEF Pub, Pri
<1>16. ret'.op = "delete" /\ ret'.ok
  BY <1>5, <1>9 DEF Deleted, Return
<1>17. OwnOutcome(i, Pub(i), Pri(i))
  BY <1>5, <1>9, <1>16 DEF OwnOutcome
<1>. QED
  BY <1>1, <1>6, <1>7, <1>10, <1>11, <1>12, <1>13, <1>14, <1>15, <1>17, CallEnd DEF Agree
\* The header says what the running call works with, or one record less.
LEMMA HeaderLag ==
  ASSUME TypeInv, PairState, NEW i \in Persistent, i = ctx.index, pc # "idle", faults.seen = {}
  PROVE  /\ Count(KpT) = KpN \/ Count(KpT) + 1 = KpN
         /\ Count(PkT) = PkN \/ Count(PkT) + 1 = PkN
<1>0. OwnOK(i) /\ ctx.num \in Nat
  BY CallIndex DEF PairState
<1>1. CASE pc \in {"kpTail", "kpRecover"}
  <2>1. KpT.num = ctx.num - 1 /\ ctx.num >= 1 /\ KpN = ctx.num /\ PkN = Count(PkT)
    BY <1>0, <1>1 DEF OwnOK, OwnRecords, KpN, PkN, Persistent
  <2>. QED
    BY <1>0, <2>1 DEF Count, BadNum
<1>2. CASE pc \in {"pkTail", "pkRecover"}
  <2>1. PkT.num = ctx.num - 1 /\ ctx.num >= 1 /\ PkN = ctx.num /\ KpN = Count(KpT)
    BY <1>0, <1>2 DEF OwnOK, OwnRecords, KpN, PkN, Persistent
  <2>. QED
    BY <1>0, <2>1 DEF Count, BadNum
<1>3. CASE pc \in {"kpNum", "pkNum"}
  BY <1>0, <1>3 DEF OwnOK, OwnRecords, KpN, PkN
<1>4. CASE pc \notin {"kpNum", "pkNum", "kpTail", "kpRecover", "pkTail", "pkRecover"}
  BY <1>4 DEF KpN, PkN
<1>. QED
  BY <1>1, <1>2, <1>3, <1>4

\* At no point of a call that nothing went wrong in do the keys contradict.
LEMMA OwnAgree ==
  ASSUME TypeInv, PairState, NEW i \in Persistent, i = ctx.index, pc # "idle",
         faults.seen = {}, Faultless
  PROVE  ~Dup /\ Agree(Pub(i), Pri(i))
<1>1. OwnOK(i) /\ Agree(pre[i].pub, pre[i].pri) /\ pre[i].pub = pre[i].pri /\ pc \in Labels
  BY Types DEF PairState, PreOK
<1>2. ~Dup /\ ~ctx.restore /\ Pri(i) = pre[i].pri /\ ctx.api \in {"create", "delete"}
  BY <1>1 DEF OwnOK, OwnPast, OwnKeys
<1>3. CASE pc \in {"kpRec", "kpNum"}
  BY <1>1, <1>2, <1>3 DEF OwnOK, OwnKeys
<1>4. CASE pc \in {"pkRec", "pkNum"}
  <2>1. ctx.api = "create"
    BY <1>1, <1>4 DEF OwnOK, OwnPast
  <2>2. pre[i].pri = NoKey
    BY <1>1, <1>2, <2>1 DEF Dup
  <2>. QED
    BY <1>2, <2>2 DEF Agree
<1>5. CASE pc \in {"kpDel", "kpTail", "kpRecover"}
  <2>1. ctx.api = "delete"
    BY <1>1, <1>2, <1>5 DEF OwnOK, OwnPast, Deleting
  <2>. QED
    BY <1>1, <1>2, <1>5, <2>1 DEF OwnOK, OwnKeys, Deleting
<1>6. CASE pc \in PkDeleting
  <2>1. Pub(i) = NoKey
    BY <1>1, <1>2, <1>6 DEF OwnOK, OwnKeys
  <2>. QED
    BY <1>2, <2>1 DEF Agree
<1>. QED
  BY <1>1, <1>3, <1>4, <1>5, <1>6 DEF Labels, PkDeleting

LEMMA RebootTables ==
  ASSUME TypeInv, NEW op, NEW i, Reboot(op, i)
  PROVE  /\ KpT' = KpT /\ PkT' = PkT /\ pc' = "idle" /\ ctx' = NoCtx /\ pre' = Views(kp', pk')
         /\ ret'.op = op
BY Types DEF Reboot, KpT, PkT, BoatStoreType

\* Power is lost in a call.
LEMMA CrashPair ==
  ASSUME TypeInv, TypeInv', History, PairState, Crash
  PROVE  Kept
<1>0. /\ pc # "idle" /\ KpT' = KpT /\ PkT' = PkT
      /\ pc' = "idle" /\ ctx' = NoCtx /\ pre' = Views(kp', pk') /\ ret'.op = "crash"
  BY RebootTables DEF Crash
<1>1. Faultless /\ faults.seen = {} /\ ~Faultless' /\ "crash" \in faults'.seen
  BY FirstFault DEF Crash, History
<1>2. CASE ctx.index = 0
  BY <1>0, <1>2, OnetimePair
<1>3. CASE ctx.index \in Persistent
  <2>0. PICK i \in Persistent : i = ctx.index
    BY <1>3
  <2>1. /\ KpN \in Nat /\ PkN \in Nat /\ Count(KpT) \in Nat /\ Count(PkT) \in Nat
    BY FlashTables DEF TableTypes
  <2>2. /\ Count(KpT) = KpN \/ Count(KpT) + 1 = KpN
        /\ Count(PkT) = PkN \/ Count(PkT) + 1 = PkN
    BY <1>0, <1>1, <2>0, HeaderLag
  <2>3. ~Dup /\ Agree(Pub(i), Pri(i))
    BY <1>0, <1>1, <2>0, OwnAgree
  <2>4. /\ Tidy(KpT, KpN, RecLens) /\ Tidy(PkT, PkN, PrikeyLens)
        /\ AreaEnd(KpT, KpN) <= BOAT_STORAGE_KEYPAIR_MAXLEN
    BY <2>3 DEF PairState, TabsOK
  <2>5. Count(KpT) \in 0..KpN /\ Count(PkT) \in 0..PkN
    BY <2>1, <2>2
  <2>6. /\ Tidy(KpT, Count(KpT), RecLens)
        /\ \A j : KeyAt(KpT, Count(KpT), j) \in {NoKey, KeyAt(KpT, KpN, j)}
    BY <2>1, <2>4, <2>5, TidyCut
  <2>7. /\ Tidy(PkT, Count(PkT), PrikeyLens)
        /\ \A j : KeyAt(PkT, Count(PkT), j) \in {NoKey, KeyAt(PkT, PkN, j)}
    BY <2>1, <2>4, <2>5, TidyCut
  <2>8. \A j : /\ KeyAt(KpT', Count(KpT'), j) \in {NoKey, Pub(j)}
               /\ KeyAt(PkT', Count(PkT'), j) \in {NoKey, Pri(j)}
    BY <1>0, <2>6, <2>7 DEF Pub, Pri
  <2>9. AreaEnd(KpT, Count(KpT)) <= BOAT_STORAGE_KEYPAIR_MAXLEN
    <3>1. CASE Count(KpT) = KpN
      BY <2>4, <3>1
    <3>2. CASE Count(KpT) + 1 = KpN
      <4>1. AreaEnd(KpT, Count(KpT) + 1) = AreaEnd(KpT, Count(KpT)) + KpT.slot[Count(KpT) + 1].len
        BY <2>1, AreaStep
      <4>2. KpT.slot[Count(KpT) + 1].len \in Nat /\ AreaEnd(KpT, Count(KpT)) \in Nat
        <5>1. KpN \in 1..KpN
          BY <2>1, <3>2
        <5>2. KpT.slot[KpN].len \in Nat
          BY <2>1, <2>4, <5>1, TidyArea, LensNat
        <5>3. AreaEnd(KpT, Count(KpT)) \in Nat
          BY <2>1, <2>6, TidyArea, LensNat
        <5>. QED
          BY <3>2, <5>2, <5>3
      <4>3. BOAT_STORAGE_KEYPAIR_MAXLEN \in Int
        BY MaxAssumption DEF BOAT_STORAGE_KEYPAIR_MAXLEN
      <4>. QED
        BY <2>4, <3>2, <4>1, <4>2, <4>3
    <3>. QED
      BY <2>2, <3>1, <3>2
  <2>10. Agree(KeyAt(KpT', Count(KpT'), i), KeyAt(PkT', Count(PkT'), i))
    BY <2>3, <2>8 DEF Agree
  <2>11. \A pub, pri : OwnOutcome(i, pub, pri)
    BY <1>0 DEF OwnOutcome
  <2>. QED
    BY <1>0, <1>1, <2>0, <2>6, <2>7, <2>8, <2>9, <2>10, <2>11, CallEnd
<1>. QED
  BY <1>0, <1>2, <1>3, CallIndex

\* Between calls.
LEMMA IdleFacts ==
  ASSUME TypeInv, PairState, pc = "idle"
  PROVE  /\ ctx = NoCtx /\ ctx.index = NoIndex /\ NoIndex \notin Persistent
         /\ KpN = Count(KpT) /\ PkN = Count(PkT)
         /\ Tidy(KpT, Count(KpT), RecLens) /\ Tidy(PkT, Count(PkT), PrikeyLens)
         /\ AreaEnd(KpT, Count(KpT)) <= BOAT_STORAGE_KEYPAIR_MAXLEN
         /\ \A j \in Persistent : /\ Pub(j) = pre[j].pub /\ Pri(j) = pre[j].pri
                                  /\ Pub(j) = KeyAt(KpT, Count(KpT), j)
                                  /\ Pri(j) = KeyAt(PkT, Count(PkT), j)
<1>1. ctx = NoCtx /\ ctx.index = NoIndex /\ ctx.api = "none" /\ NoIndex \notin Persistent
  BY Types DEF CtxOK, NoCtx, NoIndex, Persistent
<1>2. KpN = Count(KpT) /\ PkN = Count(PkT)
  BY DEF KpN, PkN
<1>3. /\ Tidy(KpT, Count(KpT), RecLens) /\ Tidy(PkT, Count(PkT), PrikeyLens)
      /\ AreaEnd(KpT, Count(KpT)) <= BOAT_STORAGE_KEYPAIR_MAXLEN
  BY <1>1, <1>2 DEF PairState, TabsOK, Dup
<1>4. \A j \in Persistent : Pub(j) = pre[j].pub /\ Pri(j) = pre[j].pri
  BY <1>1 DEF PairState, OthersOK
<1>. QED
  BY <1>1, <1>2, <1>3, <1>4 DEF Pub, Pri

LEMMA PowerCyclePair ==
  ASSUME TypeInv, TypeInv', History, PairState, PowerCycle
  PROVE  Kept
<1>0. /\ pc = "idle" /\ KpT' = KpT /\ PkT' = PkT
      /\ pc' = "idle" /\ ctx' = NoCtx /\ pre' = Views(kp', pk')
  BY RebootTables DEF PowerCycle
<1>1. PICK i : i = ctx.index /\ i \notin Persistent
  BY <1>0, IdleFacts
<1>2. /\ Tidy(KpT, Count(KpT), RecLens) /\ Tidy(PkT, Count(PkT), PrikeyLens)
      /\ AreaEnd(KpT, Count(KpT)) <= BOAT_STORAGE_KEYPAIR_MAXLEN
      /\ \A j \in Persistent : /\ Pub(j) = KeyAt(KpT, Count(KpT), j)
                               /\ Pri(j) = KeyAt(PkT, Count(PkT), j)
  BY <1>0, IdleFacts
<1>. QED
  BY <1>0, <1>1, <1>2, CallEnd

\* A call that is refused, and a step that changes nothing but the faults.
LEMMA QuietPair ==
  ASSUME TypeInv, History, PairState, pc = "idle", UNCHANGED <<kp, pk, pc, ctx, pre>>
  PROVE  Kept
<1>0. KpT' = KpT /\ PkT' = PkT /\ KpN' = KpN /\ PkN' = PkN /\ (Dup' <=> Dup)
  BY DEF KpT, PkT, KpN, PkN, Dup
<1>1. \A j : Pub(j)' = Pub(j) /\ Pri(j)' = Pri(j)
  BY <1>0 DEF Pub, Pri
<1>2. Faultless' => Faultless
  BY DEF History, Faultless
<1>3. PreOK'
  BY <1>2 DEF PairState, PreOK
<1>4. OthersOK'
  BY <1>1 DEF PairState, OthersOK
<1>5. TabsOK'
  BY <1>0 DEF PairState, TabsOK
<1>6. ctx'.index \notin Persistent
  BY IdleFacts
<1>. QED
  BY <1>3, <1>4, <1>5, <1>6 DEF PairState, Kept, Outcomes

\* A call begins.
LEMMA CallStarts ==
  ASSUME TypeInv, History, PairState, pc = "idle", kp' = kp, pk' = pk, pre' = pre,
         \/ pc' = "kpRec"
         \/ pc' = "kpDel" /\ ctx'.api = "delete",
         NEW i, ctx'.index = i, i \in Persistent => OwnOK(i)'
  PROVE  Kept
<1>0. KpT' = KpT /\ PkT' = PkT
  BY DEF KpT, PkT
<1>1. KpN' = Count(KpT) /\ PkN' = Count(PkT) /\ (Dup' => pc' = "kpRec")
  BY <1>0 DEF KpN, PkN, Dup
<1>2. /\ Tidy(KpT, Count(KpT), RecLens) /\ Tidy(PkT, Count(PkT), PrikeyLens)
      /\ AreaEnd(KpT, Count(KpT)) <= BOAT_STORAGE_KEYPAIR_MAXLEN
      /\ \A j \in Persistent : /\ pre[j].pub = KeyAt(KpT, Count(KpT), j)
                               /\ pre[j].pri = KeyAt(PkT, Count(PkT), j)
  BY IdleFacts
<1>3. \A j \in Persistent : Pub(j)' = pre[j].pub /\ Pri(j)' = pre[j].pri
  BY <1>0, <1>1, <1>2 DEF Pub, Pri
<1>4. Faultless' => Faultless
  BY DEF History, Faultless
<1>5. PreOK'
  BY <1>4 DEF PairState, PreOK
<1>6. OthersOK'
  BY <1>3 DEF OthersOK
<1>7. TabsOK'
  BY <1>0, <1>1, <1>2 DEF TabsOK
<1>. QED
  BY <1>5, <1>6, <1>7 DEF PairState, Kept, Outcomes
\* BoatKeypairCreate gets an index for the new keypair.
LEMMA CreatePair ==
  ASSUME TypeInv, TypeInv', History, PairState,
         NEW k \in Keys, NEW nameLen \in NameLens, NEW m \in BoatStoreType,
         BoatKeypairCreate(k, nameLen, m)
  PROVE  Kept
<1>0. pc = "idle"
  BY DEF BoatKeypairCreate
<1>1. ASSUME Refuse("create", NoIndex) PROVE Kept
  BY <1>0, <1>1, QuietPair DEF Refuse
<1>2. ASSUME StartCreate(0, k, nameLen) PROVE Kept
  <2>1. /\ kp' = kp /\ pk' = pk /\ pre' = pre /\ pc' = "kpRec" /\ ctx'.index = 0 /\ 0 \notin Persistent
    BY <1>2 DEF StartCreate, Goto, NoCtx, Persistent
  <2>. QED
    BY <1>0, <2>1, CallStarts
<1>3. ASSUME NEW n \in KeypairIndex, NEW seen \in SUBSET KeypairIndex,
             BoATKeypair_GetKeypairList(n, seen), NEW i,
             i = BoATKeypair_GetFreeIndex_From_Persistent(n, seen), i # NoIndex,
             StartCreate(i, k, nameLen)
      PROVE  Kept
  <2>1. n # BOAT_MAX_KEYPAIR_NUM /\ i \in Persistent /\ i \notin seen
    <3>1. n # BOAT_MAX_KEYPAIR_NUM /\ ~(1..BOAT_MAX_KEYPAIR_NUM \subseteq seen)
          /\ i = LeastFree(seen, BOAT_MAX_KEYPAIR_NUM)
      BY <1>3 DEF BoATKeypair_GetFreeIndex_From_Persistent, Persistent
    <3>2. i \in (1..BOAT_MAX_KEYPAIR_NUM) \ seen
      BY <3>1, LeastFreeIsFree, MaxAssumption
    <3>. QED
      BY <3>1, <3>2 DEF Persistent
  <2>. DEFINE r == [index |-> i, key |-> k, len |-> BoATKeypair_Get_DataCtx_Len(nameLen)]
  <2>2. /\ kp' = kp /\ pk' = pk /\ pre' = pre /\ pc' = "kpRec" /\ ctx'.index = i /\ ctx'.rec = r
        /\ ctx'.api = "create" /\ ctx'.restore = FALSE
    BY <1>3 DEF StartCreate, Goto, NoCtx
  <2>3. r \in FlashRec(RecLens) /\ r.index = i
    BY <2>1 DEF FlashRec, RecLens
  <2>. HIDE DEF r
  <2>4. /\ pre[i].pub = KeyAt(KpT, Count(KpT), i) /\ pre[i].pri = KeyAt(PkT, Count(PkT), i)
        /\ Tidy(KpT, Count(KpT), RecLens)
    BY <1>0, <2>1, IdleFacts
  <2>5. KpT' = KpT /\ PkT' = PkT /\ KpN' = Count(KpT) /\ PkN' = Count(PkT)
        /\ (Dup' <=> pre[i].pub # NoKey)
    BY <2>1, <2>2 DEF KpN, PkN, KpT, PkT, Dup
  <2>6. Pub(i)' = pre[i].pub /\ Pri(i)' = pre[i].pri
    BY <2>4, <2>5 DEF Pub, Pri
  <2>7. Count(KpT) \in KeypairIndex
    BY FlashTables DEF TableTypes
  \* The list is the table, or it was misread.
  <2>8. \/ n = Count(KpT) /\ pre[i].pub = NoKey
        \/ "read" \in faults'.seen /\ Faultless
    <3>1. CASE n = Count(KpT) /\ seen = Used(KpT, n)
      <4>1. Found(KpT, Count(KpT), i) = {}
        BY <2>1, <3>1 DEF Used, Found
      <4>. QED
        BY <2>4, <3>1, <4>1 DEF KeyAt
    <3>2. CASE Fault("read")
      BY <3>2, FirstFault DEF History
    <3>. QED
      BY <1>3, <3>1, <3>2 DEF BoATKeypair_GetKeypairList, KpT
  <2>9. "read" \notin faults'.seen => Count(KpT) < BOAT_MAX_KEYPAIR_NUM
    BY <2>1, <2>7, <2>8, MaxAssumption DEF KeypairIndex
  <2>10. Dup' => "read" \in faults'.seen /\ pre[i].pri # NoKey
    <3>1. Faultless => pre[i].pub = pre[i].pri
      BY <2>1 DEF PairState, PreOK
    <3>. QED
      BY <2>5, <2>8, <3>1
  <2>11. OwnKeys(i)'
    BY <2>2, <2>3, <2>6 DEF OwnKeys, PkDeleting, Deleting
  <2>12. OwnRecords(i)' /\ OwnRoom(i)'
    BY <2>2, <2>5, <2>9 DEF OwnRecords, OwnRoom, PkDeleting
  <2>13. OwnPast(i)'
    BY <2>2, <2>10 DEF OwnPast, PkDeleting, Deleting
  <2>. QED
    BY <1>0, <2>2, <2>11, <2>12, <2>13, CallStarts DEF OwnOK
<1>4. ASSUME NEW n \in KeypairIndex, NEW seen \in SUBSET KeypairIndex,
             BoATKeypair_GetKeypairList(n, seen),
             LET i == BoATKeypair_GetFreeIndex_From_Persistent(n, seen)
             IN  IF i = NoIndex THEN Refuse("create", NoIndex) ELSE StartCreate(i, k, nameLen)
      PROVE  Kept
  BY <1>1, <1>3, <1>4
<1>. QED
  BY <1>1, <1>2, <1>4 DEF BoatKeypairCreate

\* BoATIotKeypairDelete is called.
LEMMA DeletePair ==
  ASSUME TypeInv, TypeInv', History, PairState, NEW i \in 0..(BOAT_MAX_KEYPAIR_NUM + 1),
         BoATIotKeypairDelete(i)
  PROVE  Kept
<1>0. pc = "idle"
  BY DEF BoATIotKeypairDelete
<1>1. ASSUME Refuse("delete", i) PROVE Kept
  BY <1>0, <1>1, QuietPair DEF Refuse
<1>2. ASSUME ctx' = [NoCtx EXCEPT !.api = "delete", !.index = i], Goto("kpDel"), UNCHANGED <<kp, pk>>
      PROVE  Kept
  <2>1. /\ kp' = kp /\ pk' = pk /\ pre' = pre /\ pc' = "kpDel" /\ ctx'.index = i
        /\ ctx'.api = "delete" /\ ctx'.restore = FALSE
    BY <1>2 DEF Goto, NoCtx
  <2>2. ASSUME i \in Persistent PROVE OwnOK(i)'
    <3>1. /\ pre[i].pub = KeyAt(KpT, Count(KpT), i) /\ pre[i].pri = KeyAt(PkT, Count(PkT), i)
      BY <1>0, <2>2, IdleFacts
    <3>2. KpT' = KpT /\ PkT' = PkT /\ KpN' = Count(KpT) /\ PkN' = Count(PkT) /\ ~Dup'
      BY <2>1 DEF KpN, PkN, KpT, PkT, Dup
    <3>3. Pub(i)' = pre[i].pub /\ Pri(i)' = pre[i].pri
      BY <3>1, <3>2 DEF Pub, Pri
    <3>. QED
      BY <2>1, <3>2, <3>3 DEF OwnOK, OwnKeys, OwnRecords, OwnRoom, OwnPast, PkDeleting, Deleting
  <2>. QED
    BY <1>0, <2>1, <2>2, CallStarts
<1>. QED
  BY <1>1, <1>2 DEF BoATIotKeypairDelete

\* Nothing happens.
LEMMA StutterPair ==
  ASSUME PairState, UNCHANGED vars
  PROVE  Kept
<1>0. UNCHANGED <<kp, pk, pc, ctx, faults, pre>>
  BY DEF vars
<1>1. KpT' = KpT /\ PkT' = PkT /\ KpN' = KpN /\ PkN' = PkN /\ (Dup' <=> Dup)
  BY <1>0 DEF KpT, PkT, KpN, PkN, Dup
<1>2. \A j : Pub(j)' = Pub(j) /\ Pri(j)' = Pri(j)
  BY <1>1 DEF Pub, Pri
<1>3. PreOK' /\ OthersOK' /\ TabsOK'
  BY <1>0, <1>1, <1>2 DEF PairState, PreOK, OthersOK, TabsOK, Faultless
<1>4. ASSUME NEW i, i = ctx.index, i \in Persistent PROVE OwnOK(i)'
  <2>1. OwnOK(i)
    BY <1>4 DEF PairState
  <2>2. OwnKeys(i)'
    BY <1>0, <1>1, <1>2, <2>1 DEF OwnOK, OwnKeys
  <2>3. OwnRecords(i)' /\ OwnRoom(i)'
    BY <1>0, <1>1, <1>2, <2>1 DEF OwnOK, OwnRecords, OwnRoom
  <2>4. OwnPast(i)'
    BY <1>0, <1>1, <1>2, <2>1 DEF OwnOK, OwnPast, Faultless
  <2>. QED
    BY <2>2, <2>3, <2>4 DEF OwnOK
<1>. QED
  BY <1>0, <1>3, <1>4 DEF PairState, Kept, Outcomes

----------------------------------------------------------------------------
(* PairInv is an invariant.                                                *)

LEMMA PairInit == Init => PairInv
<1>. SUFFICES ASSUME Init PROVE PairInv
  OBVIOUS
<1>1. TypeInv
  BY TypeInit
<1>2. Counting /\ Faultless
  BY DEF Init, Counting, Faultless
<1>3. KpT = BlankTable(BOAT_MAX_KEYPAIR_NUM) /\ PkT = BlankTable(BOAT_MAX_KEYPAIR_NUM)
  BY DEF Init, KpT, PkT, BoatStoreType
<1>4. Count(KpT) = 0 /\ Count(PkT) = 0
  BY <1>3 DEF BlankTable, Count
<1>5. \A t, L : Tidy(t, 0, L)
  BY DEF Tidy
<1>6. \A t, j : KeyAt(t, 0, j) = NoKey
  BY DEF KeyAt, Found
<1>7. AreaEnd(KpT, 0) <= BOAT_STORAGE_KEYPAIR_MAXLEN
  <2>1. AreaEnd(KpT, 0) = 4
    BY AreaStep
  <2>. QED
    BY <2>1, MaxAssumption DEF BOAT_STORAGE_KEYPAIR_MAXLEN
<1>8. pre = Views(kp, pk)
  <2>1. \A j \in Persistent : View(kp, pk, j) = [pub |-> NoKey, pri |-> NoKey]
    BY <1>4, <1>6, ViewOf DEF KpT, PkT
  <2>. QED
    BY <2>1 DEF Init, Views
<1>9. IdleTables
  BY <1>4, <1>5, <1>6, <1>7, <1>8 DEF IdleTables, Init, Agree
<1>. QED
  BY <1>1, <1>2, <1>9, IdlePair DEF PairInv

LEMMA PairKept ==
  ASSUME TypeInv, PairInv, [Next]_vars, AtMostOne'
  PROVE  Kept
<1>0. History /\ PairState
  BY FaultHistory DEF History, PairInv
<1>1. TypeInv'
  BY TypeStep
<1>2. ASSUME NEW k \in Keys, NEW n \in NameLens, NEW m \in BoatStoreType, BoatKeypairCreate(k, n, m)
      PROVE  Kept
  BY <1>1, <1>0, <1>2, CreatePair
<1>3. ASSUME NEW i \in 0..(BOAT_MAX_KEYPAIR_NUM + 1), BoATIotKeypairDelete(i)
      PROVE  Kept
  BY <1>1, <1>0, <1>3, DeletePair
<1>4. DataCtx_Store_Record => Kept
  BY <1>1, <1>0, StoreRecordPair
<1>5. DataCtx_Store_Num => Kept
  BY <1>1, <1>0, StoreNumPair
<1>6. store_prikey_Record => Kept
  BY <1>1, <1>0, PrikeyRecordPair
<1>7. store_prikey_Num => Kept
  BY <1>1, <1>0, PrikeyNumPair
<1>8. Delete_Onetime => Kept
  BY <1>1, <1>0, OnetimeDeletePair
<1>9. Delete_Num => Kept
  BY <1>1, <1>0, DeleteNumPair
<1>10. Delete_Tail => Kept
  BY <1>1, <1>0, DeleteTailPair
<1>11. Delete_Recover => Kept
  BY <1>1, <1>0, DeleteRecoverPair
<1>12. DeletePirkey_Num => Kept
  BY <1>1, <1>0, PirkeyNumPair
<1>13. DeletePirkey_Tail => Kept
  BY <1>1, <1>0, PirkeyTailPair
<1>14. DeletePirkey_Recover => Kept
  BY <1>1, <1>0, PirkeyRecoverPair
<1>15. PowerCycle => Kept
  BY <1>1, <1>0, PowerCyclePair
<1>16. Crash => Kept
  BY <1>1, <1>0, CrashPair
<1>17. UNCHANGED vars => Kept
  BY <1>0, StutterPair
<1>. QED
  BY <1>2, <1>3, <1>4, <1>5, <1>6, <1>7, <1>8, <1>9, <1>10, <1>11, <1>12, <1>13, <1>14,
     <1>15, <1>16, <1>17 DEF Next

LEMMA PairStep == TypeInv /\ PairInv /\ [Next]_vars => PairInv'
<1>. SUFFICES ASSUME TypeInv, PairInv, [Next]_vars PROVE PairInv'
  OBVIOUS
<1>1. Counting'
  BY FaultHistory DEF PairInv
<1>2. AtMostOne' => PairState'
  BY PairKept DEF Kept
<1>. QED
  BY <1>1, <1>2 DEF PairInv

LEMMA KeypairPairInv == Spec => [](TypeInv /\ PairInv)
<1>1. Init => TypeInv /\ PairInv
  BY TypeInit, PairInit
<1>2. TypeInv /\ PairInv /\ [Next]_vars => (TypeInv /\ PairInv)'
  BY TypeStep, PairStep
<1>. QED
  BY <1>1, <1>2, PTL DEF Spec
----------------------------------------------------------------------------
(* What the callers see.                                                   *)

\* Between calls `pre` is what the readers see.
Shown == pc = "idle" => \A j \in Persistent : /\ View(kp, pk, j) = pre[j]
                                              /\ pre[j] = [pub |-> pre[j].pub, pri |-> pre[j].pri]

LEMMA ShownIs == TypeInv /\ PairInv /\ AtMostOne => Shown
<1>. SUFFICES ASSUME TypeInv, PairInv, AtMostOne, pc = "idle", NEW j \in Persistent
              PROVE  /\ View(kp, pk, j) = pre[j]
                     /\ pre[j] = [pub |-> pre[j].pub, pri |-> pre[j].pri]
  BY DEF Shown
<1>1. PairState
  BY DEF PairInv
<1>2. pre[j].pub = KeyAt(KpT, Count(KpT), j) /\ pre[j].pri = KeyAt(PkT, Count(PkT), j)
  BY <1>1, IdleFacts
<1>3. pre[j] = [pub |-> pre[j].pub, pri |-> pre[j].pri]
  <2>1. pre[j] \in [pub : Keys \cup {NoKey}, pri : Keys \cup {NoKey}]
    BY <1>1 DEF PairState, PreOK
  <2>. QED
    BY <2>1
<1>4. View(kp, pk, j) = [pub |-> KeyAt(KpT, Count(KpT), j), pri |-> KeyAt(PkT, Count(PkT), j)]
  BY ViewOf DEF KpT, PkT
<1>. QED
  BY <1>2, <1>3, <1>4

\* Between calls no persistent index signs for a public key that is not its
\* own, whatever single fault of any kind occurred at whatever access.
THEOREM KeypairSignsForItself == Spec => []SignsForItself
<1>1. TypeInv /\ PairInv => SignsForItself
  <2>. SUFFICES ASSUME TypeInv, PairInv, pc = "idle", Only(AllFaultKinds), NEW i \in Persistent
                PROVE  View(kp, pk, i).pub # NoKey /\ View(kp, pk, i).pri # NoKey =>
                         View(kp, pk, i).pub = View(kp, pk, i).pri
    BY DEF SignsForItself
  <2>1. AtMostOne
    BY DEF Only, AtMostOne
  <2>2. View(kp, pk, i) = pre[i]
    BY <2>1, ShownIs DEF Shown
  <2>3. Agree(pre[i].pub, pre[i].pri)
    BY <2>1 DEF PairInv, PairState, PreOK
  <2>. QED
    BY <2>2, <2>3 DEF Agree
<1>. QED
  BY <1>1, KeypairPairInv, PTL

\* What a call leaves when it ends.
LEMMA EndFacts ==
  ASSUME TypeInv, PairInv, [Next]_vars, AtMostOne', Shown', pc # "idle", pc' = "idle"
  PROVE  /\ faults.seen \subseteq faults'.seen
         /\ "crash" \notin faults'.seen /\ "read" \notin faults.seen =>
              \A j \in Persistent \ {ctx.index} : View(kp', pk', j) = pre[j]
         /\ ctx.index \in Persistent =>
              /\ OwnOutcome(ctx.index, pre'[ctx.index].pub, pre'[ctx.index].pri)
              /\ View(kp', pk', ctx.index) =
                   [pub |-> pre'[ctx.index].pub, pri |-> pre'[ctx.index].pri]
<1>1. Outcomes
  BY PairKept DEF Kept
<1>2. faults.seen \subseteq faults'.seen
  BY FaultHistory DEF PairInv
<1>3. \A j \in Persistent : /\ View(kp', pk', j) = pre'[j]
                            /\ pre'[j] = [pub |-> pre'[j].pub, pri |-> pre'[j].pri]
  BY DEF Shown
<1>. QED
  BY <1>1, <1>2, <1>3 DEF Outcomes

\* A call on one index leaves what readers see of every other persistent index
\* as it was, even when one write, allocation or key generation in it fails.
THEOREM KeypairOthersUntouched == Spec => OthersUntouched
<1>1. TypeInv /\ PairInv /\ (AtMostOne => Shown)' /\ [Next]_vars =>
        [pc # "idle" /\ pc' = "idle" /\ Only({"write", "internal"})' =>
           \A j \in Persistent \ {ctx.index} : View(kp', pk', j) = pre[j]]_vars
  <2>. SUFFICES ASSUME TypeInv, PairInv, (AtMostOne => Shown)', [Next]_vars,
                       pc # "idle", pc' = "idle", Only({"write", "internal"})'
                PROVE  \A j \in Persistent \ {ctx.index} : View(kp', pk', j) = pre[j]
    OBVIOUS
  <2>1. AtMostOne' /\ faults'.seen \subseteq {"write", "internal"}
    BY DEF Only, AtMostOne
  <2>. QED
    BY <2>1, EndFacts
<1>2. TypeInv /\ PairInv => (AtMostOne => Shown)
  BY ShownIs
<1>. QED
  BY <1>1, <1>2, KeypairPairInv, PTL DEF Spec, OthersUntouched

\* A delete that reports failure leaves the keypair as it was.
THEOREM KeypairFailedDeleteKeeps == Spec => FailedDeleteKeeps
<1>1. TypeInv /\ PairInv /\ (AtMostOne => Shown)' /\ [Next]_vars =>
        [CallEnds("delete", FALSE) /\ Only({"read", "write", "internal"})' /\ ctx.index \in Persistent =>
           View(kp', pk', ctx.index) = pre[ctx.index]]_vars
  <2>. SUFFICES ASSUME TypeInv, PairInv, (AtMostOne => Shown)', [Next]_vars,
                       CallEnds("delete", FALSE), Only({"read", "write", "internal"})',
                       ctx.index \in Persistent
                PROVE  View(kp', pk', ctx.index) = pre[ctx.index]
    OBVIOUS
  <2>1. AtMostOne' /\ "crash" \notin faults'.seen
    BY DEF Only, AtMostOne
  <2>2. pc # "idle" /\ pc' = "idle" /\ ret'.op = "delete" /\ ~ret'.ok
    BY DEF CallEnds
  <2>3. PICK i \in Persistent : i = ctx.index
    OBVIOUS
  <2>4. /\ OwnOutcome(i, pre'[i].pub, pre'[i].pri)
        /\ View(kp', pk', i) = [pub |-> pre'[i].pub, pri |-> pre'[i].pri]
    BY <2>1, <2>2, <2>3, EndFacts
  <2>5. pre'[i].pub = pre[i].pub /\ pre'[i].pri = pre[i].pri
    BY <2>1, <2>2, <2>4 DEF OwnOutcome
  <2>6. pre[i] \in [pub : Keys \cup {NoKey}, pri : Keys \cup {NoKey}]
    <3>1. AtMostOne
      BY <2>1, FaultHistory DEF PairInv
    <3>. QED
      BY <3>1 DEF PairInv, PairState, PreOK
  <2>7. pre[i] = [pub |-> pre[i].pub, pri |-> pre[i].pri]
    BY <2>6
  <2>. QED
    BY <2>3, <2>4, <2>5, <2>7
<1>2. TypeInv /\ PairInv => (AtMostOne => Shown)
  BY ShownIs
<1>. QED
  BY <1>1, <1>2, KeypairPairInv, PTL DEF Spec, FailedDeleteKeeps

\* A delete that reports success leaves neither part of a persistent keypair,
\* a power cut in an earlier call included.
THEOREM KeypairDeleteErases == Spec => DeleteErases
<1>1. TypeInv /\ PairInv /\ (AtMostOne => Shown)' /\ [Next]_vars =>
        [CallEnds("delete", TRUE) /\ Only({"crash"})' /\ ctx.index \in Persistent =>
           View(kp', pk', ctx.index) = [pub |-> NoKey, pri |-> NoKey]]_vars
  <2>. SUFFICES ASSUME TypeInv, PairInv, (AtMostOne => Shown)', [Next]_vars,
                       CallEnds("delete", TRUE), Only({"crash"})', ctx.index \in Persistent
                PROVE  View(kp', pk', ctx.index) = [pub |-> NoKey, pri |-> NoKey]
    OBVIOUS
  <2>1. AtMostOne' /\ faults'.seen \subseteq {"crash"}
    BY DEF Only, AtMostOne
  <2>2. pc # "idle" /\ pc' = "idle" /\ ret'.op = "delete" /\ ret'.ok
    BY DEF CallEnds
  <2>3. PICK i \in Persistent : i = ctx.index
    OBVIOUS
  <2>4. /\ OwnOutcome(i, pre'[i].pub, pre'[i].pri)
        /\ View(kp', pk', i) = [pub |-> pre'[i].pub, pri |-> pre'[i].pri]
    BY <2>1, <2>2, <2>3, EndFacts
  <2>5. pre'[i].pub = NoKey /\ pre'[i].pri = NoKey
    BY <2>1, <2>2, <2>4 DEF OwnOutcome
  <2>. QED
    BY <2>3, <2>4, <2>5
<1>2. TypeInv /\ PairInv => (AtMostOne => Shown)
  BY ShownIs
<1>. QED
  BY <1>1, <1>2, KeypairPairInv, PTL DEF Spec, DeleteErases

\* A create that fails after a power cut has cleaned its index, the private key
\* the cut left included, as long as no name is longer than the area of a
\* record allows: a record that does not fit is refused before the rollback
\* that would clean the index.
THEOREM KeypairFailedCreateHeals ==
  ASSUME NamesFit
  PROVE  Spec => FailedCreateHeals
<1>1. TypeInv /\ PairInv /\ (AtMostOne => Shown)' /\ [Next]_vars =>
        [CallEnds("create", FALSE) /\ Only({"crash"})' /\ ctx.index \in Persistent =>
           View(kp', pk', ctx.index) = [pub |-> NoKey, pri |-> NoKey]]_vars
  <2>. SUFFICES ASSUME TypeInv, PairInv, (AtMostOne => Shown)', [Next]_vars,
                       CallEnds("create", FALSE), Only({"crash"})', ctx.index \in Persistent
                PROVE  View(kp', pk', ctx.index) = [pub |-> NoKey, pri |-> NoKey]
    OBVIOUS
  <2>1. AtMostOne' /\ faults'.seen \subseteq {"crash"}
    BY DEF Only, AtMostOne
  <2>2. pc # "idle" /\ pc' = "idle" /\ ret'.op = "create" /\ ~ret'.ok
    BY DEF CallEnds
  <2>3. PICK i \in Persistent : i = ctx.index
    OBVIOUS
  <2>4. /\ OwnOutcome(i, pre'[i].pub, pre'[i].pri)
        /\ View(kp', pk', i) = [pub |-> pre'[i].pub, pri |-> pre'[i].pri]
    BY <2>1, <2>2, <2>3, EndFacts
  <2>5. pre'[i].pub = NoKey /\ pre'[i].pri = NoKey
    BY <2>1, <2>2, <2>4 DEF OwnOutcome
  <2>. QED
    BY <2>3, <2>4, <2>5
<1>2. TypeInv /\ PairInv => (AtMostOne => Shown)
  BY ShownIs
<1>. QED
  BY <1>1, <1>2, KeypairPairInv, PTL DEF Spec, FailedCreateHeals
----------------------------------------------------------------------------
(* The one-time keypair.                                                   *)

StoreLabels == {"kpRec", "kpNum", "pkRec", "pkNum"}

\* A create of the one-time keypair writes the first record of both tables,
\* whatever they held.
RamInv ==
  ctx.index = 0 /\ pc \in StoreLabels =>
    /\ ctx.api = "create" /\ ctx.rec.index = 0 /\ ctx.rec.len \in RecLens
    /\ pc = "kpNum" => ctx.num = 0 /\ kp["RAM"].slot[1] = ctx.rec
    /\ pc \in {"pkRec", "pkNum"} => kp["RAM"].num = 1 /\ kp["RAM"].slot[1] = ctx.rec
    /\ pc = "pkNum" => ctx.num = 0 /\ pk["RAM"].slot[1] = PrikeyRec(ctx.rec)

\* The first record of a table is written.
LEMMA PutFirst ==
  ASSUME NEW t \in Table, NEW r \in KeypairRec
  PROVE  WriteRec(t, 1, r).slot[1] = r /\ WriteRec(t, 1, r).num = t.num
<1>1. PICK n \in 0..(BOAT_MAX_KEYPAIR_NUM - 1) : n = 0
  BY MaxAssumption
<1>2. WriteRec(t, n + 1, r).slot[n + 1] = r /\ WriteRec(t, n + 1, r).num = t.num
  BY PutRec
<1>3. n + 1 = 1
  BY <1>1
<1>. QED
  BY <1>2, <1>3

LEMMA StoreRecordRam ==
  ASSUME TypeInv, RamInv, DataCtx_Store_Record
  PROVE  RamInv'
<1>. SUFFICES ASSUME ctx'.index = 0, pc' \in StoreLabels PROVE RamInv'
  BY DEF RamInv
<1>0. pc = "kpRec" /\ ctx \in CtxSet /\ kp \in [BoatStoreType -> Table]
  BY Types DEF DataCtx_Store_Record
<1>. DEFINE m == Mem(ctx.index)
            t == kp[m]
<1>1. ASSUME NEW n, kp' = [kp EXCEPT ![m] = WriteRec(t, (IF m = "RAM" THEN 0 ELSE n) + 1, ctx.rec)],
             ctx' = [ctx EXCEPT !.num = IF m = "RAM" THEN 0 ELSE n], Goto("kpNum")
      PROVE  RamInv'
  <2>1. ctx'.index = ctx.index /\ ctx'.api = ctx.api /\ ctx'.rec = ctx.rec
        /\ ctx'.num = IF m = "RAM" THEN 0 ELSE n
    BY <1>0, <1>1 DEF CtxSet
  <2>2. ctx.index = 0 /\ m = "RAM" /\ "RAM" \in BoatStoreType /\ t \in Table
    BY <1>0, <2>1 DEF Mem, BoatStoreType
  <2>3. ctx.rec \in KeypairRec
    BY <1>0, <2>2, Types DEF CtxOK
  <2>4. kp'["RAM"] = WriteRec(t, 1, ctx.rec)
    BY <1>0, <1>1, <2>2
  <2>5. kp'["RAM"].slot[1] = ctx.rec
    BY <2>2, <2>3, <2>4, PutFirst
  <2>6. pc' = "kpNum"
    BY <1>1 DEF Goto
  <2>. QED
    BY <1>0, <2>1, <2>2, <2>5, <2>6 DEF RamInv, StoreLabels
<1>2. ASSUME Return(FALSE) PROVE RamInv'
  BY <1>2 DEF Return, StoreLabels
<1>. QED
  BY <1>1, <1>2 DEF DataCtx_Store_Record

LEMMA StoreNumRam ==
  ASSUME TypeInv, RamInv, DataCtx_Store_Num
  PROVE  RamInv'
<1>. SUFFICES ASSUME ctx'.index = 0, pc' \in StoreLabels PROVE RamInv'
  BY DEF RamInv
<1>0. pc = "kpNum" /\ kp \in [BoatStoreType -> Table]
  BY Types DEF DataCtx_Store_Num
<1>. DEFINE m == Mem(ctx.index)
<1>1. ASSUME kp' = [kp EXCEPT ![m] = WriteNum(kp[m], ctx.num + 1)], Goto("pkRec"), ctx' = ctx
      PROVE  RamInv'
  <2>1. ctx.index = 0 /\ m = "RAM" /\ "RAM" \in BoatStoreType
    BY <1>1 DEF Mem, BoatStoreType
  <2>2. ctx.num = 0 /\ kp["RAM"].slot[1] = ctx.rec /\ ctx.api = "create" /\ ctx.rec.index = 0
        /\ ctx.rec.len \in RecLens
    BY <1>0, <2>1 DEF RamInv, StoreLabels
  <2>3. kp'["RAM"] = WriteNum(kp["RAM"], 1)
    BY <1>0, <1>1, <2>1, <2>2
  <2>4. kp'["RAM"].num = 1 /\ kp'["RAM"].slot = kp["RAM"].slot
    BY <2>3 DEF WriteNum
  <2>5. pc' = "pkRec"
    BY <1>1 DEF Goto
  <2>. QED
    BY <1>1, <2>2, <2>4, <2>5 DEF RamInv
<1>2. ASSUME Return(FALSE) PROVE RamInv'
  BY <1>2 DEF Return, StoreLabels
<1>. QED
  BY <1>1, <1>2 DEF DataCtx_Store_Num

LEMMA PrikeyRecordRam ==
  ASSUME TypeInv, RamInv, store_prikey_Record
  PROVE  RamInv'
<1>. SUFFICES ASSUME ctx'.index = 0, pc' \in StoreLabels PROVE RamInv'
  BY DEF RamInv
<1>0. pc = "pkRec" /\ ctx \in CtxSet /\ pk \in [BoatStoreType -> Table]
  BY Types DEF store_prikey_Record
<1>. DEFINE m == Mem(ctx.index)
            t == pk[m]
            r == PrikeyRec(ctx.rec)
<1>1. ASSUME NEW n, pk' = [pk EXCEPT ![m] = WriteRec(t, (IF m = "RAM" THEN 0 ELSE n) + 1, r)],
             ctx' = [ctx EXCEPT !.num = IF m = "RAM" THEN 0 ELSE n], kp' = kp, Goto("pkNum")
      PROVE  RamInv'
  <2>1. ctx'.index = ctx.index /\ ctx'.api = ctx.api /\ ctx'.rec = ctx.rec
        /\ ctx'.num = IF m = "RAM" THEN 0 ELSE n
    BY <1>0, <1>1 DEF CtxSet
  <2>2. ctx.index = 0 /\ m = "RAM" /\ "RAM" \in BoatStoreType /\ t \in Table
    BY <1>0, <2>1 DEF Mem, BoatStoreType
  <2>3. r \in KeypairRec
    BY <1>0, PrikeyRecType, Types DEF CtxOK
  <2>4. pk'["RAM"] = WriteRec(t, 1, r)
    BY <1>0, <1>1, <2>2
  <2>5. pk'["RAM"].slot[1] = r
    BY <2>2, <2>3, <2>4, PutFirst
  <2>6. pc' = "pkNum"
    BY <1>1 DEF Goto
  <2>. QED
    BY <1>0, <1>1, <2>1, <2>2, <2>5, <2>6 DEF RamInv, StoreLabels
<1>2. ASSUME Rollback PROVE RamInv'
  BY <1>2 DEF Rollback, Goto, StoreLabels
<1>. QED
  BY <1>1, <1>2 DEF store_prikey_Record

LEMMA RamInit == Init => RamInv
BY DEF Init, RamInv, StoreLabels

LEMMA RamStep == TypeInv /\ RamInv /\ [Next]_vars => RamInv'
<1>. SUFFICES ASSUME TypeInv, RamInv, [Next]_vars PROVE RamInv'
  OBVIOUS
<1>0. (ctx'.index # 0 \/ pc' \notin StoreLabels) => RamInv'
  BY DEF RamInv
<1>1. ASSUME NEW k \in Keys, NEW n \in NameLens, NEW i, StartCreate(i, k, n) PROVE RamInv'
  <2>1. /\ ctx'.index = i /\ ctx'.api = "create" /\ pc' = "kpRec"
        /\ ctx'.rec = [index |-> i, key |-> k, len |-> BoATKeypair_Get_DataCtx_Len(n)]
    BY <1>1 DEF StartCreate, Goto, NoCtx
  <2>2. ctx'.rec.index = i /\ ctx'.rec.len = BoATKeypair_Get_DataCtx_Len(n)
    BY <2>1
  <2>3. BoATKeypair_Get_DataCtx_Len(n) \in RecLens
    BY DEF RecLens
  <2>. QED
    BY <2>1, <2>2, <2>3 DEF RamInv
<1>2. ASSUME pc' = pc, ctx' = ctx, kp' = kp, pk' = pk PROVE RamInv'
  BY <1>2 DEF RamInv
<1>3. \A op, i : Refuse(op, i) => RamInv'
  BY <1>2 DEF Refuse
<1>4. ASSUME NEW k \in Keys, NEW n \in NameLens, NEW m \in BoatStoreType, BoatKeypairCreate(k, n, m)
      PROVE  RamInv'
  BY <1>1, <1>3, <1>4 DEF BoatKeypairCreate
<1>5. ASSUME NEW i, BoATIotKeypairDelete(i) PROVE RamInv'
  <2>1. CASE Goto("kpDel")
    BY <1>0, <2>1 DEF Goto, StoreLabels
  <2>2. CASE Refuse("delete", i)
    BY <1>3, <2>2
  <2>. QED
    BY <1>5, <2>1, <2>2 DEF BoATIotKeypairDelete
<1>6. ASSUME pc' \in {"idle", "kpDel", "kpTail", "kpRecover", "pkDel", "pkTail", "pkRecover"}
      PROVE  RamInv'
  BY <1>0, <1>6 DEF StoreLabels
<1>7. \A ok : Return(ok) \/ Deleted(ok) => RamInv'
  BY <1>6 DEF Return, Deleted
<1>8. ASSUME Restore, pc \in {"pkDel", "pkTail", "pkRecover"} PROVE RamInv'
  <2>1. ctx.index # 0 /\ ctx \in CtxSet
    BY <1>8, Types DEF CtxOK
  <2>2. ctx'.index = ctx.index
    BY <1>8, <2>1 DEF Restore, CtxSet
  <2>. QED
    BY <1>0, <2>1, <2>2
<1>9. store_prikey_Num => RamInv'
  BY <1>6, <1>7 DEF store_prikey_Num, Rollback, Goto
<1>10. Delete_Onetime \/ Delete_Num \/ Delete_Tail \/ Delete_Recover => RamInv'
  BY <1>6, <1>7 DEF Delete_Onetime, Delete_Num, Delete_Tail, Delete_Recover, Goto
<1>11. DeletePirkey_Num \/ DeletePirkey_Tail \/ DeletePirkey_Recover => RamInv'
  BY <1>6, <1>7, <1>8 DEF DeletePirkey_Num, DeletePirkey_Tail, DeletePirkey_Recover, Goto
<1>12. PowerCycle \/ Crash => RamInv'
  BY <1>6 DEF PowerCycle, Crash, Reboot
<1>13. UNCHANGED vars => RamInv'
  BY <1>2 DEF vars
<1>. QED
  BY <1>4, <1>5, <1>9, <1>10, <1>11, <1>12, <1>13, StoreRecordRam, StoreNumRam, PrikeyRecordRam DEF Next
\* Only the last write of BoAT_Keystore_store_prikey ends a create well.
LEMMA CreateEnds ==
  ASSUME [Next]_vars, CallEnds("create", TRUE)
  PROVE  store_prikey_Num /\ Return(TRUE)
<1>0. pc # "idle" /\ pc' = "idle" /\ ret'.op = "create" /\ ret'.ok
  BY DEF CallEnds
<1>1. ~Return(FALSE) /\ ~Deleted(TRUE) /\ ~Deleted(FALSE)
  <2>1. ~Return(FALSE)
    BY <1>0 DEF Return
  <2>2. ASSUME NEW ok \in BOOLEAN, Deleted(ok) PROVE FALSE
    <3>1. ret' = [op |-> ctx.api, index |-> ctx.index, ok |-> (ok /\ ctx.api = "delete")]
      BY <2>2 DEF Deleted, Return
    <3>2. ctx.api = "create"
      BY <1>0, <3>1
    <3>3. (ok /\ ctx.api = "delete") = FALSE
      BY <3>2
    <3>4. ret'.ok = FALSE
      BY <3>1, <3>3
    <3>. QED
      BY <1>0, <3>4
  <2>. QED
    BY <2>1, <2>2
<1>2. ~\E op, i : Reboot(op, i) /\ op \in {"boot", "crash"}
  BY <1>0 DEF Reboot
<1>3. \A label : label # "idle" => ~Goto(label)
  BY <1>0 DEF Goto
<1>4. ~\E k, n, m : BoatKeypairCreate(k, n, m)
  BY <1>0 DEF BoatKeypairCreate
<1>5. ~\E i : BoATIotKeypairDelete(i)
  BY <1>0 DEF BoATIotKeypairDelete
<1>6. ~(DataCtx_Store_Record \/ DataCtx_Store_Num \/ store_prikey_Record)
  BY <1>1, <1>3 DEF DataCtx_Store_Record, DataCtx_Store_Num, store_prikey_Record, Rollback
<1>7. ~(Delete_Onetime \/ Delete_Num \/ Delete_Tail \/ Delete_Recover)
  BY <1>1, <1>3 DEF Delete_Onetime, Delete_Num, Delete_Tail, Delete_Recover
<1>8. ~(DeletePirkey_Num \/ DeletePirkey_Tail \/ DeletePirkey_Recover)
  BY <1>1, <1>3 DEF DeletePirkey_Num, DeletePirkey_Tail, DeletePirkey_Recover, Restore
<1>9. ~(PowerCycle \/ Crash)
  BY <1>2 DEF PowerCycle, Crash
<1>10. ~UNCHANGED vars
  BY <1>0 DEF vars
<1>11. store_prikey_Num
  BY <1>4, <1>5, <1>6, <1>7, <1>8, <1>9, <1>10 DEF Next
<1>. QED
  BY <1>3, <1>11 DEF store_prikey_Num, Rollback

\* The one-time keypair a create reports is the one it was asked for, however
\* many faults there were.
LEMMA OnetimeUsable ==
  ASSUME TypeInv, RamInv, [Next]_vars, CallEnds("create", TRUE), ctx.index = 0
  PROVE  View(kp', pk', 0) = [pub |-> ctx.rec.key, pri |-> ctx.rec.key]
<1>0. store_prikey_Num /\ Return(TRUE)
  BY CreateEnds
<1>1. /\ pc = "pkNum" /\ Mem(0) = "RAM" /\ "RAM" \in BoatStoreType
      /\ pk \in [BoatStoreType -> Table] /\ ctx.rec \in KeypairRec
  BY <1>0, Types DEF store_prikey_Num, Mem, BoatStoreType, CtxOK
<1>2. pc' = "idle"
  BY <1>0 DEF Return
<1>3. kp' = kp /\ pk' = [pk EXCEPT !["RAM"] = WriteNum(pk["RAM"], ctx.num + 1)]
  BY <1>0, <1>1, <1>2 DEF store_prikey_Num, Rollback, Goto
<1>4. /\ ctx.rec.index = 0 /\ kp["RAM"].num = 1 /\ kp["RAM"].slot[1] = ctx.rec
      /\ ctx.num = 0 /\ pk["RAM"].slot[1] = PrikeyRec(ctx.rec)
  BY <1>1 DEF RamInv, StoreLabels
<1>5. pk'["RAM"].num = 1 /\ pk'["RAM"].slot[1] = PrikeyRec(ctx.rec)
  BY <1>1, <1>3, <1>4 DEF WriteNum
<1>6. PrikeyRec(ctx.rec).index = 0 /\ PrikeyRec(ctx.rec).key = ctx.rec.key
  BY <1>1, <1>4 DEF PrikeyRec, KeypairRec
<1>7. ASSUME NEW t, t.num = 1, t.slot[1].index = 0
      PROVE  KeyAt(t, Count(t), 0) = t.slot[1].key
  <2>1. Count(t) = 1 /\ 1 \in Nat /\ 1 \in 1..1 /\ \A q \in 1..1 : q = 1
    BY <1>7 DEF Count, BadNum
  <2>2. KeyAt(t, 1, t.slot[1].index) = t.slot[1].key
    BY <2>1, KeyOfOne
  <2>. QED
    BY <1>7, <2>1, <2>2
<1>8. KeyAt(kp'["RAM"], Count(kp'["RAM"]), 0) = ctx.rec.key
  BY <1>3, <1>4, <1>7
<1>9. KeyAt(pk'["RAM"], Count(pk'["RAM"]), 0) = ctx.rec.key
  BY <1>5, <1>6, <1>7
<1>. QED
  BY <1>1, <1>8, <1>9 DEF View, BoATKeypair_GetKeypairByIndex, BoAT_GetPirkeyByIndex

\* A create that returns an index gave out one no keypair had, and the keypair
\* can be read and signed with from then on; of the persistent keypairs as long
\* as no more than one access fails (a second misread header loses records).
THEOREM KeypairCreateOkUsable ==
  ASSUME MaxFaults <= 1
  PROVE  Spec => CreateOkUsable
<1>0. TypeInv => AtMostOne
  <2>. SUFFICES ASSUME TypeInv PROVE AtMostOne
    OBVIOUS
  <2>1. faults.left \in Nat /\ MaxFaults \in Nat
    BY Types, FaultAssumption DEF FaultSet
  <2>. QED
    BY <2>1 DEF AtMostOne
<1>1. TypeInv /\ PairInv /\ RamInv /\ AtMostOne' /\ (AtMostOne => Shown)' /\ [Next]_vars =>
        [CallEnds("create", TRUE) =>
           /\ View(kp', pk', ctx.index) = [pub |-> ctx.rec.key, pri |-> ctx.rec.key]
           /\ ctx.index \in Persistent => pre[ctx.index].pub = NoKey]_vars
  <2>. SUFFICES ASSUME TypeInv, PairInv, RamInv, AtMostOne', (AtMostOne => Shown)', [Next]_vars,
                       CallEnds("create", TRUE)
                PROVE  /\ View(kp', pk', ctx.index) = [pub |-> ctx.rec.key, pri |-> ctx.rec.key]
                       /\ ctx.index \in Persistent => pre[ctx.index].pub = NoKey
    OBVIOUS
  <2>1. pc # "idle" /\ pc' = "idle" /\ ret'.op = "create" /\ ret'.ok
    BY DEF CallEnds
  <2>2. CASE ctx.index = 0
    BY <2>2, OnetimeUsable DEF Persistent
  <2>3. CASE ctx.index \in Persistent
    <3>1. PICK i \in Persistent : i = ctx.index
      BY <2>3
    <3>2. /\ OwnOutcome(i, pre'[i].pub, pre'[i].pri)
          /\ View(kp', pk', i) = [pub |-> pre'[i].pub, pri |-> pre'[i].pri]
      BY <2>1, <3>1, EndFacts
    <3>3. pre[i].pub = NoKey /\ pre'[i].pub = ctx.rec.key /\ pre'[i].pri = ctx.rec.key
      BY <2>1, <3>2 DEF OwnOutcome
    <3>. QED
      BY <3>1, <3>2, <3>3
  <2>. QED
    BY <2>1, <2>2, <2>3, CallIndex
<1>2. TypeInv /\ PairInv => (AtMostOne => Shown)
  BY ShownIs
<1>3. Spec => []RamInv
  BY RamInit, RamStep, KeypairPairInv, PTL DEF Spec
<1>. QED
  BY <1>0, <1>1, <1>2, <1>3, KeypairPairInv, PTL DEF Spec, CreateOkUsable
----------------------------------------------------------------------------
(* Why a create fails.                                                     *)

\* A create that failed without a fault found no index free, and none is
\* rolled back.
FullInv ==
  Faultless =>
    /\ pc = "idle" /\ ret.op = "create" /\ ~ret.ok => \A j \in Persistent : pre[j].pub # NoKey
    /\ ~(pc = "kpDel" /\ ctx.api = "create")

\* The one-time tables never hold more than the one record.
LEMMA OnetimeCount ==
  ASSUME TypeInv, PairInv, SoundInv, Faultless
  PROVE  Count(kp["RAM"]) \in {0, 1} /\ Count(pk["RAM"]) \in {0, 1}
<1>1. "read" \notin faults.seen
  BY DEF PairInv, Counting
<1>2. Count(kp["RAM"]) <= 1 /\ Count(pk["RAM"]) <= 1
  BY <1>1, GoodFacts DEF SoundInv, BoatStoreType
<1>3. Count(kp["RAM"]) \in Nat /\ Count(pk["RAM"]) \in Nat
  BY Types, CountRange, MaxAssumption DEF Table
<1>. QED
  BY <1>2, <1>3

\* BoatKeypairCreate is refused an index: each one has a keypair.
LEMMA RefusedFull ==
  ASSUME TypeInv, PairState, pc = "idle",
         NEW n \in KeypairIndex, n = Count(KpT),
         BoATKeypair_GetFreeIndex_From_Persistent(n, Used(KpT, n)) = NoIndex
  PROVE  \A j \in Persistent : pre[j].pub # NoKey
<1>. SUFFICES ASSUME NEW j \in Persistent PROVE pre[j].pub # NoKey
  OBVIOUS
<1>1. Tidy(KpT, n, RecLens) /\ pre[j].pub = KeyAt(KpT, n, j)
  BY IdleFacts
<1>2. CASE n = BOAT_MAX_KEYPAIR_NUM
  BY <1>1, <1>2, FullTable
<1>3. CASE Persistent \subseteq Used(KpT, n)
  <2>1. PICK p \in 1..n : KpT.slot[p].index = j
    BY <1>3 DEF Used
  <2>2. n \in Nat
    BY MaxAssumption DEF KeypairIndex
  <2>3. Found(KpT, n, j) # {}
    BY <2>1 DEF Found
  <2>. QED
    BY <1>1, <2>2, <2>3, TidyKeys
<1>4. CASE n # BOAT_MAX_KEYPAIR_NUM /\ ~(Persistent \subseteq Used(KpT, n))
  <2>1. LeastFree(Used(KpT, n), BOAT_MAX_KEYPAIR_NUM) \in Persistent
    BY <1>4, LeastFreeIsFree, MaxAssumption DEF Persistent
  <2>2. LeastFree(Used(KpT, n), BOAT_MAX_KEYPAIR_NUM) = NoIndex
    BY <1>4 DEF BoATKeypair_GetFreeIndex_From_Persistent
  <2>. QED
    BY <2>1, <2>2 DEF Persistent, NoIndex
<1>. QED
  BY <1>2, <1>3, <1>4

\* Without a fault, the store of the one-time keypair has the room it needs.
LEMMA OnetimeRoom ==
  ASSUME NamesFit, BOAT_MAX_KEYPAIR_NUM >= 2, TypeInv, PairInv, SoundInv, RamInv, Faultless,
         ctx.index = 0
  PROVE  /\ pc = "kpRec" =>
              /\ Count(kp["RAM"]) < BOAT_MAX_KEYPAIR_NUM
              /\ AreaEnd(kp["RAM"], 0) + ctx.rec.len <= BOAT_STORAGE_KEYPAIR_MAXLEN
         /\ pc = "pkRec" =>
              /\ Count(pk["RAM"]) < BOAT_MAX_KEYPAIR_NUM
              /\ Found(pk["RAM"], 0, 0) = {}
              /\ AreaEnd(pk["RAM"], 0) + PrikeyRec(ctx.rec).len <= BOAT_STORAGE_PRIKEY_MAXLEN
<1>0. AreaEnd(kp["RAM"], 0) = 4 /\ AreaEnd(pk["RAM"], 0) = 4
  BY AreaStep
<1>00. BOAT_MAX_KEYPAIR_NUM \in Nat
  BY MaxAssumption
<1>1. Count(kp["RAM"]) < BOAT_MAX_KEYPAIR_NUM /\ Count(pk["RAM"]) < BOAT_MAX_KEYPAIR_NUM
  BY <1>00, OnetimeCount
<1>2. ASSUME pc = "kpRec" PROVE AreaEnd(kp["RAM"], 0) + ctx.rec.len <= BOAT_STORAGE_KEYPAIR_MAXLEN
  <2>1. ctx.rec.len \in 0..142
    BY <1>2, FittingLens DEF RamInv, StoreLabels
  <2>. QED
    BY <1>0, <1>00, <2>1 DEF BOAT_STORAGE_KEYPAIR_MAXLEN
<1>3. ASSUME pc = "pkRec"
      PROVE  AreaEnd(pk["RAM"], 0) + PrikeyRec(ctx.rec).len <= BOAT_STORAGE_PRIKEY_MAXLEN
  <2>1. ctx.rec \in KeypairRec
    BY <1>3, Types DEF CtxOK
  <2>2. PrikeyRec(ctx.rec).len = 99
    BY <2>1 DEF PrikeyRec, KeypairRec
  <2>. QED
    BY <1>0, <1>00, <2>2 DEF BOAT_STORAGE_PRIKEY_MAXLEN
<1>4. Found(pk["RAM"], 0, 0) = {}
  BY DEF Found
<1>. QED
  BY <1>1, <1>2, <1>3, <1>4

\* A step without a fault.
LEMMA NoFault ==
  ASSUME TypeInv, PairInv, [Next]_vars, Faultless'
  PROVE  /\ UNCHANGED faults /\ Faultless /\ AtMostOne'
         /\ \A kind : ~Fault(kind)
         /\ \A m, kind : ~FlashFault(m, kind)
         /\ \A m, t : ~StoreFault(m, t)
         /\ ~TailFault
<1>1. UNCHANGED faults
  BY FaultHistory DEF PairInv
<1>2. \A kind : ~Fault(kind)
  BY FirstFault DEF PairInv
<1>3. Faultless
  BY <1>1 DEF Faultless
<1>4. AtMostOne'
  BY FaultAssumption DEF Faultless, AtMostOne
<1>5. \A m, kind : ~FlashFault(m, kind)
  BY <1>2 DEF FlashFault
<1>. QED
  BY <1>1, <1>2, <1>3, <1>4, <1>5 DEF StoreFault, TailFault

\* A create of the one-time keypair stores both records.
LEMMA OnetimeStored ==
  ASSUME NamesFit, BOAT_MAX_KEYPAIR_NUM >= 2, TypeInv, PairInv, SoundInv, RamInv, FullInv,
         [Next]_vars, Faultless', ctx.index = 0, ctx.api = "create", pc # "idle"
  PROVE  \/ pc' \in {"kpNum", "pkRec", "pkNum"} \/ UNCHANGED <<pc, ctx>>
         \/ pc' = "idle" /\ (ret'.op # "create" \/ ret'.ok)
<1>0. /\ UNCHANGED faults /\ Faultless
      /\ \A kind : ~Fault(kind)
      /\ \A m, kind : ~FlashFault(m, kind)
      /\ \A m, t : ~StoreFault(m, t)
  BY NoFault
<1>1. Mem(ctx.index) = "RAM" /\ 0 <= 1 /\ BOAT_MAX_KEYPAIR_NUM \in Nat
  BY MaxAssumption DEF Mem
<1>2. CtxOK
  BY Types
<1>3. pc \notin {"kpDel", "kpTail", "kpRecover", "pkDel", "pkTail", "pkRecover"} /\ ~ctx.restore
  BY <1>0, <1>2 DEF FullInv, CtxOK
<1>4. CASE DataCtx_Store_Record
  <2>1. ASSUME NEW n \in {0, Count(kp["RAM"])}
        PROVE  n < BOAT_MAX_KEYPAIR_NUM
               /\ AreaEnd(kp["RAM"], 0) + ctx.rec.len <= BOAT_STORAGE_KEYPAIR_MAXLEN
    BY <1>0, <1>1, <1>4, OnetimeRoom, OnetimeCount DEF DataCtx_Store_Record
  <2>. QED
    BY <1>0, <1>1, <1>4, <2>1 DEF DataCtx_Store_Record, Goto
<1>5. CASE DataCtx_Store_Num
  BY <1>0, <1>3, <1>5 DEF DataCtx_Store_Num, Goto
<1>6. CASE store_prikey_Record
  <2>1. ASSUME NEW n \in {0, Count(pk["RAM"])}
        PROVE  /\ n < BOAT_MAX_KEYPAIR_NUM /\ Found(pk["RAM"], 0, ctx.index) = {}
               /\ AreaEnd(pk["RAM"], 0) + PrikeyRec(ctx.rec).len <= BOAT_STORAGE_PRIKEY_MAXLEN
    BY <1>0, <1>1, <1>6, OnetimeRoom, OnetimeCount DEF store_prikey_Record
  <2>. QED
    BY <1>0, <1>1, <1>6, <2>1 DEF store_prikey_Record, Goto
<1>7. CASE store_prikey_Num
  BY <1>0, <1>7 DEF store_prikey_Num, Return
<1>8. CASE Delete_Onetime \/ Delete_Num \/ Delete_Tail \/ Delete_Recover
           \/ DeletePirkey_Num \/ DeletePirkey_Tail \/ DeletePirkey_Recover
  BY <1>3, <1>8 DEF Delete_Onetime, Delete_Num, Delete_Tail, Delete_Recover,
                    DeletePirkey_Num, DeletePirkey_Tail, DeletePirkey_Recover
<1>9. CASE Crash
  BY <1>0, <1>9 DEF Crash
<1>10. ~PowerCycle /\ (\A k, n, m : ~BoatKeypairCreate(k, n, m)) /\ \A i : ~BoATIotKeypairDelete(i)
  BY DEF PowerCycle, BoatKeypairCreate, BoATIotKeypairDelete
<1>11. CASE UNCHANGED vars
  BY <1>11 DEF vars
<1>. QED
  BY <1>4, <1>5, <1>6, <1>7, <1>8, <1>9, <1>10, <1>11 DEF Next
\* A call stays the same call until it ends.
LEMMA CallStep ==
  ASSUME TypeInv, [Next]_vars, pc # "idle"
  PROVE  \/ pc' # "idle" /\ ctx'.index = ctx.index /\ ctx'.api = ctx.api
         \/ pc' = "idle" /\ ctx' = NoCtx /\ ret'.op \in {ctx.api, "crash"}
<1>. DEFINE C == \/ pc' # "idle" /\ ctx'.index = ctx.index /\ ctx'.api = ctx.api
                 \/ pc' = "idle" /\ ctx' = NoCtx /\ ret'.op \in {ctx.api, "crash"}
<1>. SUFFICES C
  OBVIOUS
<1>0. ctx \in CtxSet
  BY Types
<1>1. \A ok : Return(ok) \/ Deleted(ok) => C
  BY DEF Return, Deleted
<1>2. ASSUME NEW label, Goto(label), label # "idle", NEW n, NEW p, NEW r,
             \/ ctx' = ctx
             \/ ctx' = [ctx EXCEPT !.num = n]
             \/ ctx' = [ctx EXCEPT !.num = n, !.pos = p]
             \/ ctx' = [ctx EXCEPT !.num = n, !.pos = p, !.rec = r]
             \/ ctx' = [ctx EXCEPT !.restore = TRUE]
      PROVE  C
  BY <1>0, <1>2 DEF Goto, CtxSet
<1>. HIDE DEF C
<1>3. DataCtx_Store_Record => C
  BY <1>1, <1>2 DEF DataCtx_Store_Record
<1>4. DataCtx_Store_Num => C
  BY <1>1, <1>2 DEF DataCtx_Store_Num
<1>5. Rollback => C
  BY <1>2 DEF Rollback
<1>6. store_prikey_Record => C
  BY <1>2, <1>5 DEF store_prikey_Record
<1>7. store_prikey_Num => C
  BY <1>1, <1>5 DEF store_prikey_Num
<1>8. Delete_Onetime => C
  BY <1>1 DEF Delete_Onetime
<1>9. Delete_Num => C
  <2>1. ASSUME NEW n, NEW p, NEW r, Goto("kpTail"),
               ctx' = [ctx EXCEPT !.num = n, !.pos = p, !.rec = r]
        PROVE  C
    BY <1>2, <2>1
  <2>2. Deleted(FALSE) => C
    BY <1>1
  <2>. DEFINE t == kp["FLASH"]
              S == Found(t, Count(t), ctx.index)
  <2>3. Delete_Num => \/ Deleted(FALSE)
                      \/ Goto("kpTail") /\ ctx' = [ctx EXCEPT !.num = Count(t), !.pos = FirstOf(S),
                                                              !.rec = t.slot[FirstOf(S)]]
    BY DEF Delete_Num
  <2>. QED
    BY <2>1, <2>2, <2>3
<1>10. Delete_Tail => C
  BY <1>2 DEF Delete_Tail
<1>11. Delete_Recover => C
  BY <1>1 DEF Delete_Recover
<1>12. Restore => C
  BY <1>2 DEF Restore
<1>13. DeletePirkey_Num => C
  BY <1>1, <1>2, <1>12 DEF DeletePirkey_Num
<1>14. DeletePirkey_Tail => C
  BY <1>1, <1>2 DEF DeletePirkey_Tail
<1>15. DeletePirkey_Recover => C
  BY <1>1, <1>12 DEF DeletePirkey_Recover
<1>16. Crash => C
  BY DEF Crash, Reboot, C
<1>17. ~PowerCycle /\ (\A k, n, m : ~BoatKeypairCreate(k, n, m)) /\ \A i : ~BoATIotKeypairDelete(i)
  BY DEF PowerCycle, BoatKeypairCreate, BoATIotKeypairDelete
<1>18. UNCHANGED vars => C
  BY DEF vars, C
<1>. QED
  BY <1>3, <1>4, <1>6, <1>7, <1>8, <1>9, <1>10, <1>11, <1>13, <1>14, <1>15, <1>16, <1>17, <1>18
     DEF Next

\* A create that runs without a fault is not rolled back and does not fail.
LEMMA FullCall ==
  ASSUME NamesFit, BOAT_MAX_KEYPAIR_NUM >= 2, TypeInv, PairInv, SoundInv, RamInv, FullInv,
         [Next]_vars, pc # "idle"
  PROVE  FullInv'
<1>. SUFFICES ASSUME Faultless'
              PROVE  /\ ~(pc' = "idle" /\ ret'.op = "create" /\ ~ret'.ok)
                     /\ ~(pc' = "kpDel" /\ ctx'.api = "create")
  BY DEF FullInv
<1>0. UNCHANGED faults /\ Faultless /\ AtMostOne'
  BY NoFault
<1>1. faults'.seen = {}
  BY <1>0 DEF PairInv, Counting
<1>2. Kept
  BY <1>0, PairKept
<1>3. \/ pc' # "idle" /\ ctx'.index = ctx.index /\ ctx'.api = ctx.api
      \/ pc' = "idle" /\ ctx' = NoCtx /\ ret'.op \in {ctx.api, "crash"}
  BY CallStep
<1>4. CASE ctx.index \in Persistent
  <2>1. PICK i \in Persistent : i = ctx.index
    BY <1>4
  <2>2. pc' = "idle" => OwnOutcome(i, pre'[i].pub, pre'[i].pri)
    BY <1>2, <2>1 DEF Kept, Outcomes
  <2>3. ~(pc' = "idle" /\ ret'.op = "create" /\ ~ret'.ok)
    BY <1>1, <2>2 DEF OwnOutcome
  <2>4. pc' # "idle" => OwnOK(i)'
    BY <1>2, <1>3, <2>1 DEF Kept, PairState
  <2>5. ~(pc' = "kpDel" /\ ctx'.api = "create")
    BY <2>4 DEF OwnOK, OwnPast
  <2>. QED
    BY <2>3, <2>5
<1>5. CASE ctx.index = 0 /\ ctx.api = "create"
  <2>1. \/ pc' \in {"kpNum", "pkRec", "pkNum"} \/ UNCHANGED <<pc, ctx>>
        \/ pc' = "idle" /\ (ret'.op # "create" \/ ret'.ok)
    BY <1>5, OnetimeStored
  <2>2. ~(pc = "kpDel" /\ ctx.api = "create")
    BY <1>0 DEF FullInv
  <2>3. ~(pc' = "idle" /\ ret'.op = "create" /\ ~ret'.ok)
    BY <2>1
  <2>. QED
    BY <2>1, <2>2, <2>3
<1>6. CASE ctx.api # "create"
  BY <1>3, <1>6
<1>. QED
  BY <1>4, <1>5, <1>6, CallIndex
LEMMA FullStep ==
  ASSUME NamesFit, BOAT_MAX_KEYPAIR_NUM >= 2
  PROVE  TypeInv /\ PairInv /\ SoundInv /\ RamInv /\ FullInv /\ [Next]_vars => FullInv'
<1>. SUFFICES ASSUME TypeInv, PairInv, SoundInv, RamInv, FullInv, [Next]_vars PROVE FullInv'
  OBVIOUS
<1>1. CASE pc # "idle"
  BY <1>1, FullCall
<1>2. CASE pc = "idle"
  <2>. SUFFICES ASSUME Faultless'
                PROVE  /\ pc' = "idle" /\ ret'.op = "create" /\ ~ret'.ok =>
                            \A j \in Persistent : pre'[j].pub # NoKey
                       /\ ~(pc' = "kpDel" /\ ctx'.api = "create")
    BY DEF FullInv
  <2>0. /\ Faultless /\ AtMostOne' /\ \A kind : ~Fault(kind)
    BY NoFault
  <2>1. PairState
    BY <2>0, FaultHistory DEF PairInv
  <2>2. ASSUME NEW k, NEW n, NEW m, BoatKeypairCreate(k, n, m)
        PROVE  \/ pc' = "kpRec"
               \/ pc' = "idle" /\ \A j \in Persistent : pre'[j].pub # NoKey
    <3>1. ASSUME NEW i, StartCreate(i, k, n) PROVE pc' = "kpRec"
      BY <3>1 DEF StartCreate, Goto
    <3>2. ASSUME NEW c \in KeypairIndex, NEW seen, BoATKeypair_GetKeypairList(c, seen),
                 BoATKeypair_GetFreeIndex_From_Persistent(c, seen) = NoIndex,
                 Refuse("create", NoIndex)
          PROVE  pc' = "idle" /\ \A j \in Persistent : pre'[j].pub # NoKey
      <4>1. c = Count(KpT) /\ seen = Used(KpT, c)
        BY <2>0, <3>2 DEF BoATKeypair_GetKeypairList, KpT
      <4>2. \A j \in Persistent : pre[j].pub # NoKey
        BY <1>2, <2>1, <3>2, <4>1, RefusedFull
      <4>3. pc' = pc /\ pre' = pre
        BY <3>2 DEF Refuse
      <4>. QED
        BY <1>2, <4>2, <4>3
    <3>. QED
      BY <2>0, <2>2, <3>1, <3>2 DEF BoatKeypairCreate
  <2>3. ASSUME NEW i, BoATIotKeypairDelete(i)
        PROVE  \/ pc' = "idle" /\ ret'.op = "delete"
               \/ pc' = "kpDel" /\ ctx'.api = "delete"
    <3>1. CASE Refuse("delete", i)
      BY <1>2, <3>1 DEF Refuse
    <3>2. CASE ctx' = [NoCtx EXCEPT !.api = "delete", !.index = i] /\ Goto("kpDel")
      BY <3>2 DEF Goto, NoCtx
    <3>. QED
      BY <2>3, <3>1, <3>2 DEF BoATIotKeypairDelete
  <2>4. PowerCycle => pc' = "idle" /\ ret'.op = "boot"
    BY DEF PowerCycle, Reboot
  <2>5. CASE UNCHANGED vars
    BY <1>2, <2>0, <2>5 DEF vars, FullInv
  <2>6. /\ ~DataCtx_Store_Record /\ ~DataCtx_Store_Num /\ ~store_prikey_Record /\ ~store_prikey_Num
        /\ ~Delete_Onetime /\ ~Delete_Num /\ ~Delete_Tail /\ ~Delete_Recover
        /\ ~DeletePirkey_Num /\ ~DeletePirkey_Tail /\ ~DeletePirkey_Recover /\ ~Crash
    BY <1>2 DEF DataCtx_Store_Record, DataCtx_Store_Num, store_prikey_Record, store_prikey_Num,
       Delete_Onetime, Delete_Num, Delete_Tail, Delete_Recover,
       DeletePirkey_Num, DeletePirkey_Tail, DeletePirkey_Recover, Crash
  <2>7. CASE \E k \in Keys, n \in NameLens, m \in BoatStoreType : BoatKeypairCreate(k, n, m)
    BY <2>2, <2>7
  <2>8. CASE \E i \in 0..(BOAT_MAX_KEYPAIR_NUM + 1) : BoATIotKeypairDelete(i)
    BY <2>3, <2>8
  <2>. QED
    BY <2>4, <2>5, <2>6, <2>7, <2>8 DEF Next
<1>. QED
  BY <1>1, <1>2

LEMMA KeypairFullInv ==
  ASSUME NamesFit, BOAT_MAX_KEYPAIR_NUM >= 2
  PROVE  Spec => []FullInv
<1>1. Init => SoundInv /\ RamInv /\ FullInv
  BY SoundInit, RamInit DEF Init, FullInv, NoRet
<1>2. TypeInv /\ PairInv /\ SoundInv /\ RamInv /\ FullInv /\ [Next]_vars =>
        (SoundInv /\ RamInv /\ FullInv)'
  BY SoundStep, RamStep, FullStep
<1>. QED
  BY <1>1, <1>2, KeypairPairInv, PTL DEF Spec

\* A create fails for no other reason than that every persistent index holds a
\* keypair that can be read and signed with.  Names have to fit the area of a
\* record, and with a table of one record the one-time keypair could be stored
\* only once.
THEOREM KeypairCreateFailsOnlyWhenFull ==
  ASSUME NamesFit, BOAT_MAX_KEYPAIR_NUM >= 2
  PROVE  Spec => []CreateFailsOnlyWhenFull
<1>1. TypeInv /\ PairInv /\ FullInv => CreateFailsOnlyWhenFull
  <2>. SUFFICES ASSUME TypeInv, PairInv, FullInv, pc = "idle", ret.op = "create", ~ret.ok,
                       faults.seen = {}, NEW i \in Persistent
                PROVE  View(kp, pk, i).pub # NoKey /\ View(kp, pk, i).pri # NoKey
    BY DEF CreateFailsOnlyWhenFull
  <2>1. Faultless /\ AtMostOne
    BY FaultAssumption DEF PairInv, Counting, Faultless, AtMostOne
  <2>2. View(kp, pk, i) = pre[i]
    BY <2>1, ShownIs DEF Shown
  <2>3. pre[i].pub # NoKey
    BY <2>1 DEF FullInv
  <2>4. pre[i].pub = pre[i].pri
    BY <2>1 DEF PairInv, PairState, PreOK
  <2>. QED
    BY <2>2, <2>3, <2>4
<1>. QED
  BY <1>1, KeypairFullInv, KeypairPairInv, PTL
----------------------------------------------------------------------------
(* The keypair store implements IndexDirectory.                            *)

\* What may go wrong: one write, allocation or key generation.
OneFailedWrite == FaultKinds \subseteq {"write", "internal"} /\ MaxFaults <= 1

\* An entry is a keypair whose two parts belong together.
Join(pub, pri) == IF pub = pri THEN pub ELSE NoKey

\* What the working call may do to its entry.
Changes(a, b) == b \in {a, NoKey} \/ (a = NoKey /\ b \in Keys)

LEMMA JoinChanges ==
  ASSUME NEW a \in Keys \cup {NoKey}, NEW b \in Keys \cup {NoKey},
         NEW c \in Keys \cup {NoKey}, NEW d \in Keys \cup {NoKey},
         a = c \/ b = d \/ c = NoKey \/ d = NoKey
  PROVE  Changes(Join(a, b), Join(c, d))
BY DEF Changes, Join

RamPub == KeyAt(kp["RAM"], Count(kp["RAM"]), 0)
RamPri == KeyAt(pk["RAM"], Count(pk["RAM"]), 0)

OwnPub(i) == IF Removed(i) THEN ctx.rec.key ELSE Pub(i)

EntryOK ==
  /\ faults.seen \subseteq {"write", "internal"} /\ AtMostOne
  /\ Entry(0) = Join(RamPub, RamPri)
  /\ RamPub \in Keys \cup {NoKey} /\ RamPri \in Keys \cup {NoKey}
  /\ \A i \in Persistent :
       /\ Entry(i) = Join(OwnPub(i), Pri(i))
       /\ OwnPub(i) \in Keys \cup {NoKey} /\ Pri(i) = pre[i].pri /\ Pri(i) \in Keys \cup {NoKey}
       /\ i # ctx.index \/ pc = "idle" => OwnPub(i) = pre[i].pub

\* A one-time table shows a key or none.
LEMMA RamKey ==
  ASSUME NEW t \in Table, Sound(t, Count(t))
  PROVE  KeyAt(t, Count(t), 0) \in Keys \cup {NoKey}
<1>0. Count(t) \in 0..BOAT_MAX_KEYPAIR_NUM
  BY CountRange, MaxAssumption DEF Table
<1>1. CASE Found(t, Count(t), 0) = {}
  BY <1>1 DEF KeyAt
<1>2. CASE Found(t, Count(t), 0) # {}
  <2>1. PICK p \in 1..Count(t) : p = FirstOf(Found(t, Count(t), 0))
    BY <1>0, <1>2, FoundFirst
  <2>2. t.slot[p] \in KeypairRec
    BY <1>0, <2>1 DEF Sound, Table, TableOf
  <2>3. t.slot[p].key \in Keys
    BY <2>2 DEF KeypairRec
  <2>. QED
    BY <1>2, <2>1, <2>3 DEF KeyAt
<1>. QED
  BY <1>1, <1>2

\* The header counts what PairState counts, except in a delete.
LEMMA NumIs ==
  ASSUME TypeInv, PairState, "read" \notin faults.seen, NEW i \in Persistent
  PROVE  /\ Num(KpT, i, {"kpTail", "kpRecover"}) = KpN
         /\ Num(PkT, i, {"pkTail", "pkRecover"}) = PkN
<1>0. i # 0 /\ CtxOK
  BY Types DEF Persistent
<1>1. pc \in {"kpTail", "kpRecover", "pkTail", "pkRecover"} => ctx.index # 0
  BY <1>0 DEF CtxOK
<1>2. ASSUME ctx.index # 0, pc \in {"kpNum", "pkNum"}
      PROVE  /\ pc = "kpNum" => ctx.num = Count(KpT)
             /\ pc = "pkNum" => ctx.num = Count(PkT)
  <2>1. PICK c \in Persistent : c = ctx.index
    BY <1>2, CallIndex
  <2>2. OwnRecords(c)
    BY <2>1 DEF PairState, OwnOK
  <2>. QED
    BY <2>2 DEF OwnRecords
<1>. QED
  BY <1>0, <1>1, <1>2 DEF Num, KpN, PkN

LEMMA EntryIs ==
  ASSUME OneFailedWrite
  PROVE  TypeInv /\ PairInv /\ SoundInv => EntryOK
<1>. SUFFICES ASSUME TypeInv, PairInv, SoundInv PROVE EntryOK
  OBVIOUS
<1>1. faults.seen \subseteq {"write", "internal"} /\ AtMostOne
  <2>1. faults.left \in Nat /\ MaxFaults \in Nat /\ faults.seen \subseteq FaultKinds
    BY Types, FaultAssumption DEF FaultSet
  <2>2. FaultKinds \subseteq {"write", "internal"} /\ MaxFaults <= 1
    BY DEF OneFailedWrite
  <2>3. faults.left + 1 >= MaxFaults
    BY <2>1, <2>2
  <2>4. faults.seen \subseteq {"write", "internal"}
    BY <2>1, <2>2
  <2>. QED
    BY <2>3, <2>4 DEF AtMostOne
<1>2. PairState /\ "read" \notin faults.seen
  BY <1>1 DEF PairInv
<1>3. RamPub \in Keys \cup {NoKey} /\ RamPri \in Keys \cup {NoKey}
  <2>1. /\ kp["RAM"] \in Table /\ Sound(kp["RAM"], Count(kp["RAM"]))
        /\ pk["RAM"] \in Table /\ Sound(pk["RAM"], Count(pk["RAM"]))
    BY <1>2, GoodFacts DEF SoundInv, BoatStoreType
  <2>. QED
    BY <2>1, RamKey DEF RamPub, RamPri
<1>4. CtxOK /\ (pc = "idle" => ctx.index = NoIndex /\ ~ctx.restore)
  BY Types, NoCtxType DEF CtxOK, NoCtx
<1>5. Entry(0) = Join(RamPub, RamPri)
  <2>1. ~Removed(0) /\ Mem(0) = "RAM"
    BY <1>4 DEF Removed, CtxOK, Mem
  <2>2. \A t, L : Num(t, 0, L) = Count(t)
    BY DEF Num
  <2>. QED
    BY <2>1, <2>2 DEF Entry, Join, RamPub, RamPri
<1>6. ASSUME NEW i \in Persistent
      PROVE  /\ Entry(i) = Join(OwnPub(i), Pri(i))
             /\ OwnPub(i) \in Keys \cup {NoKey} /\ Pri(i) = pre[i].pri /\ Pri(i) \in Keys \cup {NoKey}
             /\ i # ctx.index \/ pc = "idle" => OwnPub(i) = pre[i].pub
  <2>1. Mem(i) = "FLASH"
    BY DEF Persistent, Mem
  <2>2. Entry(i) = Join(OwnPub(i), Pri(i))
    BY <1>2, <2>1, NumIs DEF Entry, Join, OwnPub, Pub, Pri, KpT, PkT
  <2>3. pre[i].pub \in Keys \cup {NoKey} /\ pre[i].pri \in Keys \cup {NoKey}
    <3>1. pre[i] \in [pub : Keys \cup {NoKey}, pri : Keys \cup {NoKey}]
      BY <1>2 DEF PairState, PreOK
    <3>. QED
      BY <3>1
  <2>4. CASE pc = "idle"
    <3>1. ~Removed(i)
      BY <1>4, <2>4 DEF Removed
    <3>2. Pub(i) = pre[i].pub /\ Pri(i) = pre[i].pri
      BY <1>2, <2>4, IdleFacts
    <3>. QED
      BY <2>2, <2>3, <3>1, <3>2 DEF OwnPub
  <2>5. CASE i # ctx.index
    <3>1. ~Removed(i)
      BY <2>5 DEF Removed
    <3>2. Pub(i) = pre[i].pub /\ Pri(i) = pre[i].pri
      BY <1>2, <2>5 DEF PairState, OthersOK
    <3>. QED
      BY <2>2, <2>3, <3>1, <3>2 DEF OwnPub
  <2>6. CASE i = ctx.index /\ pc # "idle"
    <3>1. OwnKeys(i) /\ OwnPast(i)
      BY <1>2, <2>6 DEF PairState, OwnOK
    <3>2. Pri(i) = pre[i].pri
      BY <3>1 DEF OwnKeys
    <3>3. ASSUME Removed(i) PROVE ctx.rec.key \in Keys
      <4>1. ctx.restore \/ pc \in PkDeleting
        BY <3>3 DEF Removed, PkDeleting
      <4>2. pc # "kpDel"
        BY <3>1, <4>1 DEF OwnPast, PkDeleting
      <4>3. ctx.rec \in FlashRec(RecLens)
        BY <3>1, <4>2 DEF OwnKeys
      <4>. QED
        BY <4>3 DEF FlashRec
    <3>4. Pub(i) \in Keys \cup {NoKey}
      <4>1. Tidy(KpT, KpN, RecLens)
        <5>1. ~Dup
          BY <1>2, <3>1 DEF OwnPast
        <5>. QED
          BY <1>2, <5>1 DEF PairState, TabsOK
      <4>2. KpN \in Nat
        BY FlashTables DEF TableTypes
      <4>. QED
        BY <4>1, <4>2, TidyKeys DEF Pub
    <3>. QED
      BY <2>2, <2>3, <2>6, <3>2, <3>3, <3>4 DEF OwnPub
  <2>. QED
    BY <2>4, <2>5, <2>6
<1>. QED
  BY <1>1, <1>3, <1>5, <1>6 DEF EntryOK
\* The ghost is set when a call ends.
LEMMA PreStays ==
  ASSUME [Next]_vars, pc' # "idle"
  PROVE  pre' = pre
<1>1. (\A ok : ~Return(ok) /\ ~Deleted(ok)) /\ \A op, i : ~Reboot(op, i)
  BY DEF Return, Deleted, Reboot
<1>2. \A l : Goto(l) => pre' = pre
  BY DEF Goto
<1>3. (\A op, i : Refuse(op, i) => pre' = pre) /\ (Rollback \/ Restore => pre' = pre)
      /\ \A i, k, n : StartCreate(i, k, n) => pre' = pre
  BY <1>2 DEF Refuse, Rollback, Restore, StartCreate
<1>4. \A k, n, m : BoatKeypairCreate(k, n, m) => pre' = pre
  BY <1>3 DEF BoatKeypairCreate
<1>5. \A i : BoATIotKeypairDelete(i) => pre' = pre
  BY <1>2, <1>3 DEF BoATIotKeypairDelete
<1>6. DataCtx_Store_Record \/ DataCtx_Store_Num \/ store_prikey_Record \/ store_prikey_Num => pre' = pre
  BY <1>1, <1>2, <1>3
     DEF DataCtx_Store_Record, DataCtx_Store_Num, store_prikey_Record, store_prikey_Num
<1>7. Delete_Onetime \/ Delete_Num \/ Delete_Tail \/ Delete_Recover => pre' = pre
  BY <1>1, <1>2 DEF Delete_Onetime, Delete_Num, Delete_Tail, Delete_Recover
<1>8. DeletePirkey_Num \/ DeletePirkey_Tail \/ DeletePirkey_Recover => pre' = pre
  BY <1>1, <1>2, <1>3 DEF DeletePirkey_Num, DeletePirkey_Tail, DeletePirkey_Recover
<1>9. ~PowerCycle /\ ~Crash
  BY <1>1 DEF PowerCycle, Crash
<1>. QED
  BY <1>4, <1>5, <1>6, <1>7, <1>8, <1>9 DEF Next, vars
\* The facts a step of the store starts from and arrives at.
MapStep ==
  /\ OneFailedWrite /\ [Next]_vars
  /\ TypeInv /\ TypeInv' /\ PairInv /\ PairInv' /\ SoundInv
  /\ EntryOK /\ EntryOK'

LEMMA MapFacts ==
  ASSUME MapStep
  PROVE  /\ [Next]_vars /\ TypeInv /\ TypeInv' /\ PairInv /\ PairState /\ PairState' /\ Kept
         /\ "read" \notin faults.seen /\ "crash" \notin faults'.seen /\ "read" \notin faults'.seen
         /\ ~Fault("read") /\ ~Crash /\ \A m : ~FlashFault(m, "read")
<1>1. AtMostOne /\ AtMostOne' /\ faults.seen \subseteq {"write", "internal"}
      /\ faults'.seen \subseteq {"write", "internal"}
  BY DEF MapStep, EntryOK
<1>2. ~Fault("read") /\ ~Fault("crash")
  BY DEF MapStep, OneFailedWrite, Fault
<1>. QED
  BY <1>1, <1>2, PairKept DEF MapStep, PairInv, Crash, FlashFault

\* A call that ends leaves the private key of its index, has just stored it,
\* or has just removed it.
LEMMA PriEnd ==
  ASSUME MapStep, pc # "idle", pc' = "idle", NEW i \in Persistent, i = ctx.index
  PROVE  \/ Pri(i)' \in {Pri(i), NoKey}
         \/ Pri(i) = NoKey /\ OwnPub(i)' = OwnPub(i)
<1>0. /\ [Next]_vars /\ TypeInv /\ PairState /\ pk \in [BoatStoreType -> Table] /\ Mem(i) = "FLASH"
      /\ ~Crash /\ OwnOK(i) /\ ctx.index # 0 /\ CtxOK /\ "read" \notin faults.seen
  BY MapFacts, Types DEF PairState, Persistent, Mem
<1>1. PkN' = Count(PkT') /\ KpN' = Count(KpT') /\ ctx.num \in KeypairIndex /\ ctx.num \in Nat
  BY CallIndex, <1>0 DEF PkN, KpN
<1>2. ASSUME pk' = pk, pc \notin {"pkNum", "pkTail", "pkRecover"}
      PROVE  Pri(i)' = Pri(i)
  <2>1. PkT' = PkT /\ PkN = Count(PkT)
    BY <1>2 DEF PkT, PkN
  <2>. QED
    BY <1>1, <2>1 DEF Pri
<1>3. CASE store_prikey_Num
  <2>1. pc = "pkNum" /\ kp' = kp
    BY <1>3 DEF store_prikey_Num, Rollback
  <2>2. Pri(i) = NoKey /\ ~ctx.restore
    BY <1>0, <2>1 DEF OwnOK, OwnKeys, CtxOK
  <2>3. ~Removed(i) /\ ~Removed(i)'
    <3>1. ctx'.restore = FALSE
      BY Types, NoCtxType DEF MapStep, TypeInv, CtxOK
    <3>. QED
      BY <2>1, <2>2, <3>1 DEF Removed
  <2>4. KpT' = KpT /\ KpN = Count(KpT)
    BY <2>1 DEF KpT, KpN
  <2>5. OwnPub(i)' = OwnPub(i)
    BY <1>1, <2>3, <2>4 DEF OwnPub, Pub
  <2>. QED
    BY <2>2, <2>5
<1>4. CASE DeletePirkey_Tail
  <2>1. pc = "pkTail" /\ pk' = [pk EXCEPT !["FLASH"] = DropRec(PkT, ctx.pos, ctx.num)]
    BY <1>4 DEF DeletePirkey_Tail, Goto, PkT
  <2>2. PICK n \in Nat : n = ctx.num /\ n \in KeypairIndex
    BY <1>1
  <2>3. PICK p \in 1..n : p = ctx.pos
    BY <1>0, <2>1, <2>2 DEF OwnOK, OwnRecords
  <2>4. PkT.num = n - 1 /\ PkT.slot[p].index = i
    BY <1>0, <2>1, <2>2, <2>3 DEF OwnOK, OwnRecords
  <2>5. PkN = n /\ Tidy(PkT, n, PrikeyLens)
    BY <1>0, <2>1, <2>2 DEF PkN, PairState, TabsOK
  <2>6. PkT' = DropRec(PkT, p, n)
    BY <1>0, <2>1, <2>2, <2>3 DEF PkT, BoatStoreType
  <2>7. PkT'.num = PkT.num /\ DropsTo(PkT, PkT', n, p)
    BY <1>0, <2>2, <2>6, DropDrops, FlashTables DEF TableTypes
  <2>8. Count(PkT') = n - 1
    BY <2>2, <2>3, <2>4, <2>7 DEF Count, BadNum
  <2>9. KeyAt(PkT', n - 1, PkT.slot[p].index) = NoKey
    BY <2>5, <2>7, TidyDrop
  <2>. QED
    BY <1>1, <2>4, <2>8, <2>9 DEF Pri
<1>5. CASE DeletePirkey_Recover
  <2>1. pc = "pkRecover" /\ pk' = [pk EXCEPT !["FLASH"] = WriteNum(PkT, ctx.num)]
    BY <1>5 DEF DeletePirkey_Recover, Restore, Goto, PkT
  <2>2. PkT' = WriteNum(PkT, ctx.num)
    BY <1>0, <2>1 DEF PkT, BoatStoreType
  <2>3. Count(PkT') = ctx.num /\ PkT'.slot = PkT.slot
    BY <1>0, <1>1, <2>2, PutNum, FlashTables DEF TableTypes
  <2>4. PkN = ctx.num
    BY <1>0, <2>1 DEF PkN
  <2>5. KeyAt(PkT', ctx.num, i) = KeyAt(PkT, ctx.num, i)
    BY <2>3 DEF KeyAt, Found
  <2>. QED
    BY <1>1, <2>3, <2>4, <2>5 DEF Pri
<1>6. CASE DataCtx_Store_Record \/ DataCtx_Store_Num
  BY <1>2, <1>6 DEF DataCtx_Store_Record, DataCtx_Store_Num
<1>7. CASE Delete_Num \/ Delete_Tail \/ Delete_Recover
  BY <1>2, <1>7 DEF Delete_Num, Delete_Tail, Delete_Recover
<1>8. CASE DeletePirkey_Num
  <2>1. pc = "pkDel" /\ pk' = pk
    BY <1>8 DEF DeletePirkey_Num, Goto, Restore
  <2>. QED
    BY <1>2, <2>1
<1>9. ~store_prikey_Record /\ ~Delete_Onetime
  BY <1>0 DEF store_prikey_Record, Delete_Onetime, Rollback, Goto
<1>10. ~PowerCycle /\ (\A k, n, m : ~BoatKeypairCreate(k, n, m)) /\ (\A j : ~BoATIotKeypairDelete(j))
       /\ ~UNCHANGED vars
  BY DEF PowerCycle, BoatKeypairCreate, BoATIotKeypairDelete, vars
<1>. QED
  BY <1>0, <1>3, <1>4, <1>5, <1>6, <1>7, <1>8, <1>9, <1>10 DEF Next

\* The entry of the call itself, if it is a persistent one.
LEMMA PersistentWork ==
  ASSUME MapStep, pc # "idle", NEW i \in Persistent, i = ctx.index
  PROVE  Changes(Entry(i), Entry(i)')
<1>1. /\ Entry(i) = Join(OwnPub(i), Pri(i))
      /\ OwnPub(i) \in Keys \cup {NoKey} /\ Pri(i) \in Keys \cup {NoKey} /\ Pri(i) = pre[i].pri
  BY DEF MapStep, EntryOK
<1>2. /\ Entry(i)' = Join(OwnPub(i)', Pri(i)')
      /\ OwnPub(i)' \in Keys \cup {NoKey} /\ Pri(i)' \in Keys \cup {NoKey} /\ Pri(i)' = pre'[i].pri
  BY DEF MapStep, EntryOK
<1>3. CASE pc' = "idle"
  <2>1. \/ Pri(i)' \in {Pri(i), NoKey}
        \/ Pri(i) = NoKey /\ OwnPub(i)' = OwnPub(i)
    BY <1>3, PriEnd
  <2>2. OwnPub(i) = OwnPub(i)' \/ Pri(i) = Pri(i)' \/ OwnPub(i)' = NoKey \/ Pri(i)' = NoKey
    BY <2>1
  <2>3. Changes(Join(OwnPub(i), Pri(i)), Join(OwnPub(i)', Pri(i)'))
    BY <1>1, <1>2, <2>2, JoinChanges
  <2>. QED
    BY <1>1, <1>2, <2>3
<1>4. CASE pc' # "idle"
  <2>1. pre' = pre
    BY <1>4, PreStays DEF MapStep
  <2>. QED
    BY <1>1, <1>2, <2>1, JoinChanges
<1>. QED
  BY <1>3, <1>4
\* A call on a persistent index leaves the one-time tables alone.
LEMMA RamKept ==
  ASSUME MapStep, pc # "idle", ctx.index \in Persistent
  PROVE  kp'["RAM"] = kp["RAM"] /\ pk'["RAM"] = pk["RAM"]
<1>0. /\ [Next]_vars /\ ~Crash /\ Mem(ctx.index) = "FLASH" /\ ctx.index # 0
      /\ kp \in [BoatStoreType -> Table] /\ pk \in [BoatStoreType -> Table]
      /\ "RAM" \in BoatStoreType /\ "FLASH" \in BoatStoreType
  BY MapFacts, Types, CallIndex DEF BoatStoreType
<1>1. /\ \A t : kp' = [kp EXCEPT !["FLASH"] = t] => kp'["RAM"] = kp["RAM"]
      /\ \A t : pk' = [pk EXCEPT !["FLASH"] = t] => pk'["RAM"] = pk["RAM"]
  BY <1>0
<1>2. CASE DataCtx_Store_Record
  BY <1>0, <1>1, <1>2 DEF DataCtx_Store_Record
<1>3. CASE DataCtx_Store_Num
  BY <1>0, <1>1, <1>3 DEF DataCtx_Store_Num
<1>4. CASE store_prikey_Record
  BY <1>0, <1>1, <1>4 DEF store_prikey_Record, Rollback
<1>5. CASE store_prikey_Num
  BY <1>0, <1>1, <1>5 DEF store_prikey_Num, Rollback
<1>6. CASE Delete_Num \/ Delete_Tail \/ Delete_Recover
  BY <1>1, <1>6 DEF Delete_Num, Delete_Tail, Delete_Recover
<1>7. CASE DeletePirkey_Num \/ DeletePirkey_Tail \/ DeletePirkey_Recover
  BY <1>1, <1>7 DEF DeletePirkey_Num, DeletePirkey_Tail, DeletePirkey_Recover, Restore
<1>8. CASE UNCHANGED vars
  BY <1>8 DEF vars
<1>9. ~Delete_Onetime
  BY <1>0 DEF Delete_Onetime
<1>10. ~PowerCycle /\ (\A k, n, m : ~BoatKeypairCreate(k, n, m)) /\ \A j : ~BoATIotKeypairDelete(j)
  BY DEF PowerCycle, BoatKeypairCreate, BoATIotKeypairDelete
<1>. QED
  BY <1>0, <1>2, <1>3, <1>4, <1>5, <1>6, <1>7, <1>8, <1>9, <1>10 DEF Next

\* The entry of the call itself, if it is the one-time one: no step writes both
\* tables, so a key can only come or go.
LEMMA OnetimeWork ==
  ASSUME MapStep, pc # "idle", ctx.index = 0
  PROVE  Changes(Entry(0), Entry(0)')
<1>1. /\ Entry(0) = Join(RamPub, RamPri)
      /\ RamPub \in Keys \cup {NoKey} /\ RamPri \in Keys \cup {NoKey}
  BY DEF MapStep, EntryOK
<1>2. /\ Entry(0)' = Join(RamPub', RamPri')
      /\ RamPub' \in Keys \cup {NoKey} /\ RamPri' \in Keys \cup {NoKey}
  BY DEF MapStep, EntryOK
<1>3. kp' = kp \/ pk' = pk
  <2>0. [Next]_vars /\ ~Crash
    BY MapFacts
  <2>1. CASE DataCtx_Store_Record \/ DataCtx_Store_Num
    BY <2>1 DEF DataCtx_Store_Record, DataCtx_Store_Num
  <2>2. CASE store_prikey_Record \/ store_prikey_Num
    BY <2>2 DEF store_prikey_Record, store_prikey_Num, Rollback
  <2>3. CASE Delete_Onetime \/ Delete_Num \/ Delete_Tail \/ Delete_Recover
    BY <2>3 DEF Delete_Onetime, Delete_Num, Delete_Tail, Delete_Recover
  <2>4. CASE DeletePirkey_Num \/ DeletePirkey_Tail \/ DeletePirkey_Recover
    BY <2>4 DEF DeletePirkey_Num, DeletePirkey_Tail, DeletePirkey_Recover, Restore
  <2>5. CASE UNCHANGED vars
    BY <2>5 DEF vars
  <2>6. ~PowerCycle /\ (\A k, n, m : ~BoatKeypairCreate(k, n, m)) /\ \A j : ~BoATIotKeypairDelete(j)
    BY DEF PowerCycle, BoatKeypairCreate, BoATIotKeypairDelete
  <2>. QED
    BY <2>0, <2>1, <2>2, <2>3, <2>4, <2>5, <2>6 DEF Next
<1>4. RamPub' = RamPub \/ RamPri' = RamPri
  BY <1>3 DEF RamPub, RamPri
<1>5. Changes(Join(RamPub, RamPri), Join(RamPub', RamPri'))
  BY <1>1, <1>2, <1>4, JoinChanges
<1>. QED
  BY <1>1, <1>2, <1>5

\* A call that begins, or is refused, has written nothing.
LEMMA IdleStep ==
  ASSUME [Next]_vars, pc = "idle"
  PROVE  \/ kp' = kp /\ pk' = pk /\ pre' = pre
            /\ (pc' = "idle" \/ (pc' \in {"kpRec", "kpDel"} /\ ctx'.restore = FALSE))
         \/ PowerCycle
<1>. DEFINE Q == kp' = kp /\ pk' = pk /\ pre' = pre
                 /\ (pc' = "idle" \/ (pc' \in {"kpRec", "kpDel"} /\ ctx'.restore = FALSE))
<1>1. \A op, i : Refuse(op, i) => Q
  BY DEF Refuse
<1>2. \A i, k, n : StartCreate(i, k, n) => Q
  BY DEF StartCreate, Goto, NoCtx
<1>3. \A i : ctx' = [NoCtx EXCEPT !.api = "delete", !.index = i] /\ Goto("kpDel") /\ UNCHANGED <<kp, pk>> => Q
  BY DEF Goto, NoCtx
<1>4. UNCHANGED vars => Q
  BY DEF vars
<1>. HIDE DEF Q
<1>5. \A k, n, m : BoatKeypairCreate(k, n, m) => Q
  BY <1>1, <1>2 DEF BoatKeypairCreate
<1>6. \A i : BoATIotKeypairDelete(i) => Q
  BY <1>1, <1>3 DEF BoATIotKeypairDelete
<1>7. /\ ~DataCtx_Store_Record /\ ~DataCtx_Store_Num /\ ~store_prikey_Record /\ ~store_prikey_Num
      /\ ~Delete_Onetime /\ ~Delete_Num /\ ~Delete_Tail /\ ~Delete_Recover
      /\ ~DeletePirkey_Num /\ ~DeletePirkey_Tail /\ ~DeletePirkey_Recover /\ ~Crash
  BY DEF DataCtx_Store_Record, DataCtx_Store_Num, store_prikey_Record, store_prikey_Num,
     Delete_Onetime, Delete_Num, Delete_Tail, Delete_Recover,
     DeletePirkey_Num, DeletePirkey_Tail, DeletePirkey_Recover, Crash
<1>8. Q \/ PowerCycle
  BY <1>4, <1>5, <1>6, <1>7 DEF Next
<1>. QED
  BY <1>8 DEF Q
\* Every step of the store is a step of the directory, or leaves it alone.
LEMMA DirectoryStep ==
  ASSUME MapStep
  PROVE  [Directory!Next]_<<[i \in KeypairIndex |-> Entry(i)], IF pc = "idle" THEN NoIndex ELSE ctx.index>>
<1>. DEFINE dir == [i \in KeypairIndex |-> Entry(i)]
            call == IF pc = "idle" THEN NoIndex ELSE ctx.index
<1>0. /\ KeypairIndex = 0..BOAT_MAX_KEYPAIR_NUM /\ 0 \in KeypairIndex /\ 0 \notin Persistent
      /\ \A i \in KeypairIndex : i = 0 \/ i \in Persistent
      /\ NoIndex \notin KeypairIndex
  BY MaxAssumption DEF KeypairIndex, Persistent, NoIndex
<1>1. /\ Entry(0) = Join(RamPub, RamPri)
      /\ \A i \in Persistent :
           /\ Entry(i) = Join(OwnPub(i), Pri(i)) /\ Pri(i) = pre[i].pri
           /\ i # ctx.index \/ pc = "idle" => OwnPub(i) = pre[i].pub
  BY DEF MapStep, EntryOK
<1>2. /\ Entry(0)' = Join(RamPub', RamPri')
      /\ \A i \in Persistent :
           /\ Entry(i)' = Join(OwnPub(i)', Pri(i)') /\ Pri(i)' = pre'[i].pri
           /\ i # ctx'.index \/ pc' = "idle" => OwnPub(i)' = pre'[i].pub
  BY DEF MapStep, EntryOK
<1>3. /\ pc # "idle" => ctx.index \in KeypairIndex
      /\ pc' # "idle" => ctx'.index \in KeypairIndex
  BY DEF MapStep, TypeInv, CtxOK
<1>4. /\ DOMAIN dir' = KeypairIndex
      /\ \A i \in KeypairIndex : dir[i] = Entry(i) /\ dir'[i] = Entry(i)'
      /\ dir' = [i \in KeypairIndex |-> Entry(i)']
      /\ call' = IF pc' = "idle" THEN NoIndex ELSE ctx'.index
  OBVIOUS
<1>5. CASE pc = "idle"
  <2>0. call = NoIndex /\ ~ctx.restore
    BY <1>5, Types, NoCtxType DEF MapStep, CtxOK
  <2>1. CASE /\ kp' = kp /\ pk' = pk /\ pre' = pre
             /\ (pc' = "idle" \/ (pc' \in {"kpRec", "kpDel"} /\ ctx'.restore = FALSE))
    <3>0. ctx'.restore = FALSE
      <4>1. pc' = "idle" => ctx' = NoCtx
        BY DEF MapStep, TypeInv, CtxOK
      <4>. QED
        BY <2>1, <4>1, NoCtxType
    <3>1. \A i : ~Removed(i) /\ ~Removed(i)'
      BY <1>5, <2>0, <2>1, <3>0 DEF Removed
    <3>2. \A t, i : /\ Num(t, i, {"kpTail", "kpRecover"}) = Count(t)
                    /\ Num(t, i, {"pkTail", "pkRecover"}) = Count(t)
                    /\ (IF i # 0 /\ pc' \in {"kpTail", "kpRecover"} THEN ctx'.num ELSE Count(t)) = Count(t)
                    /\ (IF i # 0 /\ pc' \in {"pkTail", "pkRecover"} THEN ctx'.num ELSE Count(t)) = Count(t)
      BY <1>5, <2>1 DEF Num
    <3>3. \A i \in KeypairIndex : Entry(i)' = Entry(i)
      BY <2>1, <3>1, <3>2 DEF Entry, Num
    <3>4. CASE pc' = "idle"
      BY <1>4, <2>0, <3>3, <3>4
    <3>5. CASE pc' # "idle"
      <4>1. Directory!Begin
        BY <1>0, <1>3, <1>4, <2>0, <3>3, <3>5 DEF Directory!Begin, Directory!OnlyIn, Directory!Indices
      <4>. QED
        BY <4>1 DEF Directory!Next
    <3>. QED
      BY <3>4, <3>5
  <2>2. CASE PowerCycle
    <3>. DEFINE b == BlankTable(BOAT_MAX_KEYPAIR_NUM)
    <3>1. KeyAt(b, Count(b), 0) = NoKey
      <4>1. Count(b) = 0
        BY DEF BlankTable, Count
      <4>. QED
        BY <4>1 DEF KeyAt, Found
    <3>2. kp' = [kp EXCEPT !["RAM"] = b] /\ pk' = [pk EXCEPT !["RAM"] = b]
      BY <2>2 DEF PowerCycle, Reboot
    <3>. HIDE DEF b
    <3>3. kp'["RAM"] = b /\ pk'["RAM"] = b
      BY <3>2, Types DEF MapStep, BoatStoreType
    <3>4. KpT' = KpT /\ PkT' = PkT /\ pc' = "idle" /\ pre' = Views(kp', pk')
      BY <2>2, RebootTables DEF PowerCycle, MapStep
    <3>5. Entry(0)' = NoKey
      BY <1>2, <3>1, <3>3 DEF RamPub, RamPri, Join
    <3>6. ASSUME NEW i \in Persistent PROVE Entry(i)' = Entry(i)
      <4>1. ~Removed(i) /\ ~Removed(i)'
        <5>1. ctx' = NoCtx
          BY <2>2, RebootTables DEF PowerCycle, MapStep
        <5>. QED
          BY <1>5, <2>0, <3>4, <5>1, NoCtxType DEF Removed
      <4>2. KpN' = KpN /\ PkN' = PkN
        BY <1>5, <3>4 DEF KpN, PkN
      <4>3. OwnPub(i)' = OwnPub(i) /\ Pri(i)' = Pri(i)
        BY <3>4, <4>1, <4>2 DEF OwnPub, Pub, Pri
      <4>. QED
        BY <1>1, <1>2, <4>3
    <3>7. Directory!Restart
      BY <1>0, <1>4, <2>0, <3>4, <3>5, <3>6 DEF Directory!Restart, Directory!OnlyIn, Directory!Indices
    <3>. QED
      BY <3>7 DEF Directory!Next
  <2>. QED
    BY <1>5, <2>1, <2>2, IdleStep DEF MapStep
<1>6. CASE pc # "idle"
  <2>0. call = ctx.index /\ call \in KeypairIndex /\ call # NoIndex
    BY <1>0, <1>3, <1>6
  <2>1. \/ pc' # "idle" /\ ctx'.index = ctx.index
        \/ pc' = "idle"
    BY <1>6, CallStep DEF MapStep
  <2>2. call' \in {call, NoIndex}
    BY <1>4, <2>0, <2>1
  <2>3. PICK c \in KeypairIndex : c = ctx.index
    BY <2>0
  <2>4. ASSUME NEW i \in Persistent, i # c PROVE Entry(i)' = Entry(i)
    <3>1. pre'[i] = pre[i]
      <4>1. CASE pc' = "idle"
        BY <1>6, <2>3, <2>4, <4>1, MapFacts DEF Kept, Outcomes
      <4>2. CASE pc' # "idle"
        BY <4>2, PreStays DEF MapStep
      <4>. QED
        BY <4>1, <4>2
    <3>2. OwnPub(i)' = OwnPub(i) /\ Pri(i)' = Pri(i)
      BY <1>1, <1>2, <2>1, <2>3, <2>4, <3>1
    <3>. QED
      BY <1>1, <1>2, <3>2
  <2>5. Changes(Entry(c), Entry(c)') /\ (c # 0 => Entry(0)' = Entry(0))
    <3>1. CASE c = 0
      BY <1>6, <2>3, <3>1, OnetimeWork
    <3>2. CASE c # 0
      <4>1. c \in Persistent
        BY <1>0, <3>2
      <4>2. Changes(Entry(c), Entry(c)')
        BY <1>6, <2>3, <4>1, PersistentWork
      <4>3. RamPub' = RamPub /\ RamPri' = RamPri
        BY <1>6, <2>3, <4>1, RamKept DEF RamPub, RamPri
      <4>. QED
        BY <1>1, <1>2, <4>2, <4>3
    <3>. QED
      BY <3>1, <3>2
  <2>6. \A i \in KeypairIndex : i # c => Entry(i)' = Entry(i)
    BY <1>0, <2>4, <2>5
  <2>7. Directory!Work
    <3>1. Directory!OnlyIn({c})
      BY <1>0, <1>4, <2>6 DEF Directory!OnlyIn, Directory!Indices
    <3>2. dir'[c] \in {dir[c], NoKey} \/ (dir[c] = NoKey /\ dir'[c] \in Keys)
      BY <1>4, <2>5 DEF Changes
    <3>3. call = c
      BY <2>0, <2>3
    <3>. QED
      BY <2>0, <2>2, <3>1, <3>2, <3>3 DEF Directory!Work
  <2>. QED
    BY <2>7 DEF Directory!Next
<1>. QED
  BY <1>5, <1>6

LEMMA DirectoryInit == Init => Directory!Init
<1>. SUFFICES ASSUME Init PROVE Directory!Init
  OBVIOUS
<1>. DEFINE b == BlankTable(BOAT_MAX_KEYPAIR_NUM)
<1>1. Count(b) = 0
  BY DEF BlankTable, Count
<1>. HIDE DEF b
<1>2. pc = "idle" /\ kp = [m \in BoatStoreType |-> b] /\ pk = [m \in BoatStoreType |-> b] /\ ctx = NoCtx
  BY DEF Init, b
<1>3. \A i : Mem(i) \in BoatStoreType /\ kp[Mem(i)] = b /\ pk[Mem(i)] = b
  BY <1>2 DEF Mem, BoatStoreType
<1>4. \A i : ~Removed(i)
  BY <1>2, NoCtxType DEF Removed
<1>5. \A i : KeyAt(b, 0, i) = NoKey
  BY DEF KeyAt, Found
<1>6. \A i, L : (IF i # 0 /\ pc \in L THEN ctx.num ELSE Count(b)) = 0
  BY <1>1, <1>2 DEF NoCtx
<1>7. \A i : Entry(i) = NoKey
  BY <1>3, <1>4, <1>5, <1>6 DEF Entry, Num
<1>. QED
  BY <1>2, <1>7 DEF Directory!Init, Directory!Indices, KeypairIndex

\* However many keypairs it holds, the store is one directory from indices to
\* keypairs: a create fills an empty entry in one step, a delete empties one in
\* one step, a call touches no entry but its own, and only the one-time entry
\* is replaced or forgotten, as long as at most one write, allocation or key
\* generation fails and nothing else goes wrong.
THEOREM KeypairImplementsDirectory ==
  ASSUME FaultKinds \subseteq {"write", "internal"}, MaxFaults <= 1
  PROVE  Spec => ImplementsDirectory
<1>0. OneFailedWrite
  BY DEF OneFailedWrite
<1>1. TypeInv /\ PairInv /\ SoundInv => EntryOK
  BY <1>0, EntryIs
<1>2. TypeInv /\ TypeInv' /\ PairInv /\ PairInv' /\ SoundInv /\ EntryOK /\ EntryOK' /\ [Next]_vars
        => [Directory!Next]_<<[i \in KeypairIndex |-> Entry(i)], IF pc = "idle" THEN NoIndex ELSE ctx.index>>
  BY <1>0, DirectoryStep DEF MapStep
<1>. QED
  BY <1>1, <1>2, TypeInit, TypeStep, SoundInit, SoundStep, PairInit, PairStep,
     DirectoryInit, PTL DEF Spec, ImplementsDirectory, Directory!Spec
=============================================================================
