--------------------------- MODULE CodecPathsProofs ---------------------------
(***************************************************************************)
(* Proofs about the path search and the choice of paths, for every codec,  *)
(* depth limit and set of streams.                                         *)
(***************************************************************************)
EXTENDS CodecPaths, SequenceTheorems, FiniteSetTheorems, WellFoundedInduction, TLAPS

-----------------------------------------------------------------------------
(* Least and greatest elements *)

\* The least element that Min chooses is there.
LEMMA MinExists ==
    ASSUME NEW S \in SUBSET Nat, S # {}
    PROVE  Min(S) \in S /\ \A j \in S : Min(S) <= j
<1>1. PICK i \in S : \A j \in S : ~ (<<j, i>> \in OpToRel(<, Nat))
  BY NatLessThanWellFounded, WFMin
<1>2. \A j \in S : i <= j
  <2> TAKE j \in S
  <2>1. ~ (j < i)
    BY <1>1 DEF OpToRel
  <2> QED BY <2>1
<1> QED BY <1>2 DEF Min

\* The greatest element that Max chooses is there.
LEMMA MaxExists ==
    ASSUME NEW n \in Nat, NEW S \in SUBSET (1 .. n), S # {}
    PROVE  Max(S) \in S /\ \A j \in S : j <= Max(S)
<1> DEFINE T == {n - j : j \in S}
<1>0. PICK s \in S : TRUE
  OBVIOUS
<1>1. T \in SUBSET Nat /\ T # {}
  <2>1. n - s \in T
    BY <1>0
  <2>2. \A t \in T : t \in Nat
    OBVIOUS
  <2> QED BY <2>1, <2>2
<1>2. Min(T) \in T /\ \A j \in T : Min(T) <= j
  BY <1>1, MinExists
<1>3. PICK i \in S : Min(T) = n - i
  BY <1>2
<1>4. \A j \in S : j <= i
  <2> TAKE j \in S
  <2>1. n - i <= n - j
    BY <1>2, <1>3
  <2> QED BY <2>1
<1> QED BY <1>4 DEF Max
\* A sequence without its last element.
LEMMA ButLast ==
    ASSUME NEW S, NEW s \in Seq(S), s # <<>>
    PROVE  LET r == SubSeq(s, 1, Len(s) - 1) IN
           r \in Seq(S) /\ Len(r) = Len(s) - 1 /\ \A i \in 1 .. Len(r) : r[i] = s[i]
<1> DEFINE r == SubSeq(s, 1, Len(s) - 1)
<1>1. Len(s) \in Nat /\ Len(s) >= 1 /\ \A i \in 1 .. Len(s) - 1 : s[i] \in S
  OBVIOUS
<1>2. /\ r \in Seq(S) /\ Len(r) = IF 1 <= Len(s) - 1 THEN Len(s) - 1 - 1 + 1 ELSE 0
      /\ \A i \in 1 .. Len(s) - 1 - 1 + 1 : r[i] = s[1 + i - 1]
  BY <1>1, SubSeqProperties
<1> HIDE DEF r
<1>3. \A n, m : n \in Nat /\ n >= 1 /\ m = (IF 1 <= n - 1 THEN n - 1 - 1 + 1 ELSE 0) => m = n - 1
  OBVIOUS
<1>4. Len(r) = Len(s) - 1
  BY <1>1, <1>2, <1>3
<1>5. \A i \in 1 .. Len(r) : i \in 1 .. Len(s) - 1 - 1 + 1 /\ 1 + i - 1 = i
  BY <1>1, <1>4
<1> QED BY <1>2, <1>4, <1>5 DEF r

-----------------------------------------------------------------------------
(* Concatenations *)

\* The concatenation of the first i of seqs is f[i], as FlattenSeq builds it.
IsFlat(f, seqs, n) == f = [i \in 1 .. n |-> IF i = 1 THEN seqs[i] ELSE f[i - 1] \o seqs[i]]

\* The recursive function of FlattenSeq exists.
LEMMA FlatExists ==
    ASSUME NEW seqs, NEW n \in Nat
    PROVE  \E f : IsFlat(f, seqs, n)
<1> DEFINE S == {m \in Nat : ~ \E f : IsFlat(f, seqs, m)}
<1>1. SUFFICES ASSUME S # {} PROVE FALSE
  OBVIOUS
<1>2. PICK m \in S : \A j \in S : m <= j
  BY <1>1, MinExists
<1>3. CASE m = 0
  <2>1. IsFlat(<<>>, seqs, 0)
    BY DEF IsFlat
  <2> QED BY <1>3, <2>1
<1>4. CASE m > 0
  <2>1. m - 1 \in Nat /\ m - 1 \notin S
    BY <1>2, <1>4
  <2>2. PICK f : IsFlat(f, seqs, m - 1)
    BY <2>1
  <2> DEFINE g == [i \in 1 .. m |-> IF i = m THEN IF i = 1 THEN seqs[i] ELSE f[i - 1] \o seqs[i] ELSE f[i]]
  <2>a. \A i \in 1 .. m - 1 : f[i] = IF i = 1 THEN seqs[i] ELSE f[i - 1] \o seqs[i]
    BY <2>2 DEF IsFlat
  <2>3. ASSUME NEW i \in 1 .. m PROVE g[i] = IF i = 1 THEN seqs[i] ELSE g[i - 1] \o seqs[i]
    <3>1. CASE i = m
      <4>1. i # 1 => g[i - 1] = f[i - 1]
        BY <2>1, <3>1
      <4> QED BY <3>1, <4>1
    <3>2. CASE i # m
      <4>1. i \in 1 .. m - 1 /\ g[i] = f[i]
        BY <2>1, <3>2
      <4>2. i # 1 => i - 1 \in 1 .. m /\ i - 1 # m /\ g[i - 1] = f[i - 1]
        BY <2>1, <3>2
      <4> HIDE DEF g
      <4> QED BY <2>a, <4>1, <4>2
    <3> QED BY <3>1, <3>2
  <2>4. g = [i \in 1 .. m |-> g[i]]
    OBVIOUS
  <2> HIDE DEF g
  <2>5. IsFlat(g, seqs, m)
    BY <2>3, <2>4 DEF IsFlat
  <2> QED BY <2>5
<1> QED BY <1>2, <1>3, <1>4

\* What the concatenation of the first m of seqs consists of: the elements of each,
\* behind those of the ones before it, and nothing else.
FlatUpTo(f, S, seqs, m) ==
    /\ f[m] \in Seq(S)
    /\ \A i \in 1 .. m : \A j \in 1 .. Len(seqs[i]) :
         LET k == (IF i = 1 THEN 0 ELSE Len(f[i - 1])) + j
         IN k \in 1 .. Len(f[m]) /\ f[m][k] = seqs[i][j]
    /\ \A k \in 1 .. Len(f[m]) : \E i \in 1 .. m : \E j \in 1 .. Len(seqs[i]) :
         f[m][k] = seqs[i][j]

\* One more sequence is put behind.
LEMMA FlatMore ==
    ASSUME NEW S, NEW f, NEW seqs, NEW m \in Nat \ {0},
           FlatUpTo(f, S, seqs, m), seqs[m + 1] \in Seq(S),
           f[m + 1] = f[m] \o seqs[m + 1]
    PROVE  FlatUpTo(f, S, seqs, m + 1)
<1> DEFINE a == f[m]
           b == seqs[m + 1]
           c == f[m + 1]
<1>1. a \in Seq(S) /\ b \in Seq(S) /\ Len(a) \in Nat /\ Len(b) \in Nat /\ c = a \o b
  BY DEF FlatUpTo
<1>2. /\ c \in Seq(S) /\ Len(c) = Len(a) + Len(b)
      /\ \A k \in 1 .. Len(a) + Len(b) : c[k] = IF k <= Len(a) THEN a[k] ELSE b[k - Len(a)]
  <2> HIDE DEF a, b, c
  <2> QED BY <1>1, ConcatProperties
<1>3. /\ \A i \in 1 .. m : \A j \in 1 .. Len(seqs[i]) :
           LET k == (IF i = 1 THEN 0 ELSE Len(f[i - 1])) + j
           IN k \in 1 .. Len(a) /\ a[k] = seqs[i][j]
      /\ \A k \in 1 .. Len(a) : \E i \in 1 .. m : \E j \in 1 .. Len(seqs[i]) :
           a[k] = seqs[i][j]
  BY DEF FlatUpTo
<1>4. ASSUME NEW i \in 1 .. m + 1, NEW j \in 1 .. Len(seqs[i])
      PROVE  LET k == (IF i = 1 THEN 0 ELSE Len(f[i - 1])) + j
             IN k \in 1 .. Len(c) /\ c[k] = seqs[i][j]
  <2>1. CASE i <= m
    <3> DEFINE k == (IF i = 1 THEN 0 ELSE Len(f[i - 1])) + j
    <3>0. i \in 1 .. m
      BY <2>1
    <3>1. k \in 1 .. Len(a) /\ a[k] = seqs[i][j]
      <4> HIDE DEF a, b, c
      <4> QED BY <1>3, <3>0
    <3> HIDE DEF k
    <3>3. k \in 1 .. Len(c) /\ c[k] = seqs[i][j]
      <4> HIDE DEF a, b, c
      <4>1. k \in 1 .. Len(a) + Len(b) /\ k <= Len(a)
        BY <1>1, <3>1
      <4> QED BY <1>2, <3>1, <4>1
    <3> HIDE DEF c
    <3> QED BY <3>3 DEF k
  <2>2. CASE i = m + 1
    <3> DEFINE k == Len(a) + j
    <3>1. (IF i = 1 THEN 0 ELSE Len(f[i - 1])) + j = k
      <4>1. i # 1 /\ i - 1 = m
        BY <2>2
      <4> QED BY <4>1
    <3>2. j \in 1 .. Len(b) /\ seqs[i] = b
      BY <2>2
    <3> HIDE DEF k
    <3>a. k = Len(a) + j
      BY DEF k
    <3> HIDE DEF a, b, c
    <3>3. k \in 1 .. Len(a) + Len(b) /\ ~(k <= Len(a)) /\ k - Len(a) = j
      BY <1>1, <3>2, <3>a
    <3>4. k \in 1 .. Len(c) /\ c[k] = seqs[i][j]
      BY <1>2, <3>2, <3>3
    <3> QED BY <3>1, <3>4
  <2>3. i <= m \/ i = m + 1
    OBVIOUS
  <2> HIDE DEF a, b, c
  <2> QED BY <2>1, <2>2, <2>3
<1>5. ASSUME NEW k \in 1 .. Len(c)
      PROVE  \E i \in 1 .. m + 1 : \E j \in 1 .. Len(seqs[i]) : c[k] = seqs[i][j]
  <2>0. k \in 1 .. Len(a) + Len(b)
    BY <1>2
  <2>1. CASE k <= Len(a)
    <3>1. k \in 1 .. Len(a) /\ c[k] = a[k]
      BY <1>1, <1>2, <2>0, <2>1
    <3>2. PICK i \in 1 .. m : \E j \in 1 .. Len(seqs[i]) : a[k] = seqs[i][j]
      BY <1>3, <3>1
    <3>3. i \in 1 .. m + 1
      OBVIOUS
    <3> QED BY <3>1, <3>2, <3>3
  <2>2. CASE ~(k <= Len(a))
    <3>1. k - Len(a) \in 1 .. Len(b) /\ c[k] = b[k - Len(a)]
      <4> HIDE DEF a, b, c
      <4> QED BY <1>1, <1>2, <2>0, <2>2
    <3>2. m + 1 \in 1 .. m + 1
      OBVIOUS
    <3> QED BY <3>1, <3>2
  <2> QED BY <2>1, <2>2
<1> HIDE DEF a, b
<1> QED BY <1>2, <1>4, <1>5 DEF FlatUpTo

\* The same for each number of them, in turn.
LEMMA FlatFacts ==
    ASSUME NEW S, NEW seqs \in Seq(Seq(S)), NEW n \in Nat, n = Len(seqs), NEW f, IsFlat(f, seqs, n)
    PROVE  \A m \in 1 .. n : FlatUpTo(f, S, seqs, m)
<1> DEFINE T == {m \in 1 .. n : ~FlatUpTo(f, S, seqs, m)}
<1>0. \A i \in 1 .. n : seqs[i] \in Seq(S)
  OBVIOUS
<1>a. \A i \in 1 .. n : f[i] = IF i = 1 THEN seqs[i] ELSE f[i - 1] \o seqs[i]
  BY DEF IsFlat
<1>1. SUFFICES ASSUME T # {} PROVE FALSE
  OBVIOUS
<1>2. PICK m \in T : \A j \in T : m <= j
  <2>1. T \in SUBSET Nat
    OBVIOUS
  <2> HIDE DEF T
  <2> QED BY <1>1, <2>1, MinExists
<1>3. CASE m = 1
  <2>1. f[1] = seqs[1] /\ seqs[1] \in Seq(S)
    BY <1>0, <1>a, <1>3
  <2>2. FlatUpTo(f, S, seqs, 1)
    BY <2>1 DEF FlatUpTo
  <2> QED BY <1>3, <2>2
<1>4. CASE m # 1
  <2> DEFINE k == m - 1
  <2>1. k \in Nat \ {0} /\ k \in 1 .. n /\ m = k + 1 /\ k \notin T
    BY <1>2, <1>4
  <2>2. FlatUpTo(f, S, seqs, k)
    BY <2>1
  <2>3. seqs[k + 1] \in Seq(S) /\ f[k + 1] = f[k] \o seqs[k + 1]
    BY <1>0, <1>a, <1>4, <2>1
  <2> HIDE DEF k
  <2>4. FlatUpTo(f, S, seqs, k + 1)
    BY <2>1, <2>2, <2>3, FlatMore
  <2> QED BY <2>1, <2>4
<1> QED BY <1>2, <1>3, <1>4

\* The function FlattenSeq builds is there, so FlattenSeq is its last value.
LEMMA FlattenDef ==
    ASSUME NEW seqs, Len(seqs) \in Nat \ {0}
    PROVE  \E f : IsFlat(f, seqs, Len(seqs)) /\ FlattenSeq(seqs) = f[Len(seqs)]
<1>1. \E f : IsFlat(f, seqs, Len(seqs))
  BY FlatExists
<1> QED BY <1>1 DEF FlattenSeq, IsFlat

\* FlattenSeq gives a sequence of the elements of all, where each sequence begins
\* behind what comes of the ones before it.
LEMMA FlattenFacts ==
    ASSUME NEW S, NEW seqs \in Seq(Seq(S)), Len(seqs) > 0,
           NEW r, r = FlattenSeq(seqs)
    PROVE  \E f : /\ IsFlat(f, seqs, Len(seqs)) /\ r = f[Len(seqs)]
                  /\ \A m \in 1 .. Len(seqs) : FlatUpTo(f, S, seqs, m)
<1>1. Len(seqs) \in Nat
  OBVIOUS
<1>2. \E f : IsFlat(f, seqs, Len(seqs)) /\ FlattenSeq(seqs) = f[Len(seqs)]
  BY <1>1, FlattenDef
<1>3. PICK f : IsFlat(f, seqs, Len(seqs)) /\ FlattenSeq(seqs) = f[Len(seqs)]
  BY <1>2
<1>4. \A m \in 1 .. Len(seqs) : FlatUpTo(f, S, seqs, m)
  BY <1>1, <1>3, FlatFacts
<1> QED BY <1>3, <1>4

\* Its elements are the elements of the sequences.
Flat(S, seqs, r) ==
    /\ r \in Seq(S)
    /\ \A k \in 1 .. Len(r) : \E i \in 1 .. Len(seqs) : \E j \in 1 .. Len(seqs[i]) : r[k] = seqs[i][j]
    /\ \A i \in 1 .. Len(seqs) : \A j \in 1 .. Len(seqs[i]) : \E k \in 1 .. Len(r) : r[k] = seqs[i][j]
LEMMA FlattenElements ==
    ASSUME NEW S, NEW seqs \in Seq(Seq(S)), NEW r, r = FlattenSeq(seqs)
    PROVE  Flat(S, seqs, r)
<1>1. Len(seqs) \in Nat
  OBVIOUS
<1>2. CASE Len(seqs) = 0
  <2>1. r = seqs /\ seqs = <<>>
    BY <1>2 DEF FlattenSeq
  <2> QED BY <1>2, <2>1 DEF Flat
<1>3. CASE Len(seqs) > 0
  <2>1. PICK f : /\ IsFlat(f, seqs, Len(seqs)) /\ r = f[Len(seqs)]
                 /\ \A m \in 1 .. Len(seqs) : FlatUpTo(f, S, seqs, m)
    BY <1>3, FlattenFacts
  <2>2. FlatUpTo(f, S, seqs, Len(seqs))
    BY <1>1, <1>3, <2>1
  <2> DEFINE n == Len(seqs)
  <2>3. FlatUpTo(f, S, seqs, n) /\ r = f[n] /\ n \in 1 .. n
    BY <1>1, <1>3, <2>1, <2>2
  <2> HIDE DEF n
  <2>4. /\ r \in Seq(S)
        /\ \A k \in 1 .. Len(r) : \E i \in 1 .. n : \E j \in 1 .. Len(seqs[i]) : r[k] = seqs[i][j]
    BY <2>3 DEF FlatUpTo
  <2>5. ASSUME NEW i \in 1 .. n, NEW j \in 1 .. Len(seqs[i])
        PROVE  \E k \in 1 .. Len(r) : r[k] = seqs[i][j]
    <3> DEFINE k == (IF i = 1 THEN 0 ELSE Len(f[i - 1])) + j
    <3>1. k \in 1 .. Len(f[n]) /\ f[n][k] = seqs[i][j]
      BY <2>3 DEF FlatUpTo
    <3> HIDE DEF k
    <3> QED BY <2>3, <3>1
  <2> QED BY <2>4, <2>5 DEF n, Flat
<1> QED BY <1>1, <1>2, <1>3
-----------------------------------------------------------------------------
(* Connection lists *)

LastPlain(l, i) == {1} \cup {j \in 1 .. i - 1 : ~l[j].range}

\* The first entry of a list ends no range; a flagged entry after it ends one
\* unless the entry before does.
LEMMA FirstEntry == ASSUME NEW l PROVE ~EndsRange(l, 1)
<1>1. {1} \cup {j \in 1 .. 1 - 1 : ~l[j].range} = {1}
  OBVIOUS
<1>2. Max({1}) = 1
  BY DEF Max
<1> QED BY <1>1, <1>2 DEF EndsRange

\* Whether an entry ends a range follows from the entry before it.
LEMMA NextEntry ==
    ASSUME NEW l \in Seq(Connection), NEW i \in 2 .. Len(l)
    PROVE  EndsRange(l, i) <=> l[i].range /\ ~EndsRange(l, i - 1)
<1> DEFINE m(k) == Max(LastPlain(l, k))
<1>0. \A k \in 1 .. Len(l) : l[k].range \in BOOLEAN
  <2> TAKE k \in 1 .. Len(l)
  <2>1. l[k] \in Connection
    OBVIOUS
  <2> QED BY <2>1 DEF Connection
<1>1. \A k \in 1 .. Len(l) : EndsRange(l, k) <=> l[k].range /\ (k - m(k)) % 2 = 1
  BY DEF EndsRange, LastPlain
<1>2. LastPlain(l, i) \in SUBSET (1 .. i) /\ LastPlain(l, i) # {}
  BY DEF LastPlain
<1>3. m(i) \in LastPlain(l, i) /\ \A j \in LastPlain(l, i) : j <= m(i)
  <2>1. i \in Nat
    OBVIOUS
  <2>2. Max(LastPlain(l, i)) \in LastPlain(l, i) /\ \A j \in LastPlain(l, i) : j <= Max(LastPlain(l, i))
    BY <1>2, <2>1, MaxExists
  <2> QED BY <2>2
<1> HIDE DEF m
<1>4. CASE ~l[i - 1].range
  <2>1. i - 1 \in LastPlain(l, i) /\ \A j \in LastPlain(l, i) : j <= i - 1
    BY <1>4 DEF LastPlain
  <2>2. m(i) = i - 1
    BY <1>3, <2>1, <1>2
  <2>3. (i - m(i)) % 2 = 1
    BY <2>2
  <2>4. EndsRange(l, i) <=> l[i].range
    BY <1>1, <2>3
  <2>5. ~EndsRange(l, i - 1)
    BY <1>1, <1>4
  <2> QED BY <2>4, <2>5
<1>5. CASE l[i - 1].range /\ i = 2
  <2>1. LastPlain(l, i) = {1}
    BY <1>5 DEF LastPlain
  <2>2. m(i) = 1
    BY <1>3, <2>1
  <2>3. EndsRange(l, i) <=> l[i].range
    BY <1>1, <1>5, <2>2
  <2> QED BY <2>3, <1>5, FirstEntry
<1>6. CASE l[i - 1].range /\ i > 2
  <2>1. LastPlain(l, i) = LastPlain(l, i - 1)
    BY <1>6 DEF LastPlain
  <2>2. m(i) = m(i - 1)
    BY <2>1 DEF m
  <2>3. m(i) \in Int
    BY <1>2, <1>3
  <2>4. (i - m(i)) % 2 = 1 <=> ~((i - 1 - m(i)) % 2 = 1)
    BY <2>3
  <2>5. EndsRange(l, i - 1) <=> (i - 1 - m(i)) % 2 = 1
    BY <1>1, <1>6, <2>2
  <2> QED BY <1>1, <2>4, <2>5
<1> QED BY <1>4, <1>5, <1>6

\* What a list names, entry by entry.
LEMMA SingleNamed ==
    ASSUME NEW l \in Seq(Connection), NEW i \in 1 .. Len(l), ~EndsRange(l, i)
    PROVE  l[i].nid \in Named(l)
BY DEF Named

\* An entry that ends a range names the nodes from the entry before it.
LEMMA RangeNamed ==
    ASSUME NEW l \in Seq(Connection), NEW i \in 1 .. Len(l), EndsRange(l, i)
    PROVE  l[i - 1].nid .. l[i].nid \subseteq Named(l)
BY DEF Named

\* An entry of a list is a node of 7 bits and a flag.
LEMMA EntryType ==
    ASSUME NEW l \in Seq(Connection), NEW i \in 1 .. Len(l)
    PROVE  l[i].nid \in 0 .. 127 /\ l[i].range \in BOOLEAN
<1>1. l[i] \in Connection
  OBVIOUS
<1> QED BY <1>1 DEF Connection, Node
-----------------------------------------------------------------------------
(* The stack: each entry has read its list up to a boundary between entries, and *)
(* what is left of the current range is named by the list.                   *)

CodecTyped == /\ Widget \subseteq 0 .. 255
              /\ \A w \in Widget : Conns(w) \in Seq(Connection)
              /\ outputNids \in Seq(Widget)

StackEntry == [widget : Widget, con : Nat, cur : 0 .. 255, end : 0 .. 127]

EntryOK(e) == LET l == Conns(e.widget) IN
    /\ e \in StackEntry
    /\ e.con \in 0 .. Len(l)
    /\ e.con < Len(l) => ~EndsRange(l, e.con + 1)
    /\ e.cur .. e.end \subseteq Named(l)

\* A widget that is pushed has not read its list.
LEMMA FreshOK == ASSUME CodecTyped, NEW w \in Widget PROVE EntryOK(Fresh(w)) /\ Fresh(w).widget = w
<1>1. Fresh(w) \in StackEntry
  BY DEF Fresh, StackEntry
<1>2. Fresh(w).con = 0 /\ Fresh(w).widget = w /\ Fresh(w).cur .. Fresh(w).end = {}
  BY DEF Fresh
<1>3. Len(Conns(w)) \in Nat
  BY DEF CodecTyped
<1> QED BY <1>1, <1>2, <1>3, FirstEntry DEF EntryOK

\* One step along a list.
Advanced(e) == [Decode(e) EXCEPT !.cur = @ + 1]

\* What an entry of the stack that has not read its list out is made of.
LEMMA EntryParts ==
    ASSUME CodecTyped, NEW e, EntryOK(e), ~ReadOut(e)
    PROVE  /\ e \in StackEntry
           /\ Conns(e.widget) \in Seq(Connection) /\ Len(Conns(e.widget)) \in Nat
           /\ e.con \in Nat /\ e.con < Len(Conns(e.widget)) /\ e.con + 1 \in 1 .. Len(Conns(e.widget))
           /\ e.con \in 0 .. Len(Conns(e.widget))
           /\ e.cur \in 0 .. 255 /\ e.end \in 0 .. 127 /\ e.cur \in Int /\ e.end \in Int
           /\ ~EndsRange(Conns(e.widget), e.con + 1)
<1> DEFINE l == Conns(e.widget)
<1>1. e \in StackEntry
  BY DEF EntryOK
<1>2. e.widget \in Widget /\ e.con \in 0 .. Len(l) /\ e.con # Len(l)
      /\ e.cur \in 0 .. 255 /\ e.end \in 0 .. 127
  BY <1>1 DEF EntryOK, StackEntry, ReadOut
<1>3. l \in Seq(Connection)
  BY <1>2 DEF CodecTyped
<1>4. e.con < Len(l) /\ e.con + 1 \in 1 .. Len(l)
  BY <1>2, <1>3
<1>5. ~EndsRange(l, e.con + 1)
  BY <1>4 DEF EntryOK
<1>6. e.cur \in Int /\ e.end \in Int
  <2>1. \A i \in 0 .. 255 : i \in Int
    OBVIOUS
  <2>2. \A i \in 0 .. 127 : i \in Int
    OBVIOUS
  <2>3. e.cur \in 0 .. 255 /\ e.end \in 0 .. 127
    BY <1>1 DEF StackEntry
  <2>4. e.cur \in Int
    BY <2>1, <2>3, Zenon
  <2>5. e.end \in Int
    BY <2>2, <2>3, Zenon
  <2> QED BY <2>4, <2>5
<1> HIDE DEF l
<1>7. Len(l) \in Nat /\ e.con \in Nat
  BY <1>2, <1>3
<1> QED BY <1>1, <1>2, <1>3, <1>4, <1>5, <1>6, <1>7 DEF l

\* A step inside a range.
LEMMA AdvancedWithin ==
    ASSUME CodecTyped, NEW e, EntryOK(e), ~ReadOut(e), e.cur <= e.end
    PROVE  /\ Decode(e).cur = e.cur
           /\ Advanced(e) \in StackEntry
           /\ Advanced(e).widget = e.widget /\ Advanced(e).con = e.con
           /\ Advanced(e).cur = e.cur + 1 /\ Advanced(e).end = e.end
<1>1. e \in StackEntry /\ e.cur \in 0 .. 255 /\ e.end \in 0 .. 127
  BY EntryParts
<1>2. Decode(e) = e
  BY DEF Decode
<1> DEFINE following == e.cur + 1
<1>3. following \in 0 .. 255
  BY <1>1
<1>4. Advanced(e) = [e EXCEPT !.cur = following]
  BY <1>2 DEF Advanced
<1> HIDE DEF following
<1>5. Advanced(e) \in StackEntry /\ Advanced(e).con = e.con /\ Advanced(e).widget = e.widget
      /\ Advanced(e).cur = following /\ Advanced(e).end = e.end
  BY <1>1, <1>3, <1>4 DEF StackEntry
<1> QED BY <1>2, <1>5 DEF following

\* A step that reads an entry of the list, and one more if that ends a range:
\* how many it reads.
Reads(e) == IF e.con + 2 <= Len(Conns(e.widget)) /\ Conns(e.widget)[e.con + 2].range THEN 2 ELSE 1

\* A step that reads on takes the node of the next entry.
LEMMA AdvancedNext ==
    ASSUME CodecTyped, NEW e, EntryOK(e), ~ReadOut(e), ~(e.cur <= e.end)
    PROVE  LET l == Conns(e.widget) IN
           /\ Decode(e).cur = l[e.con + 1].nid
           /\ Advanced(e) \in StackEntry
           /\ Advanced(e).widget = e.widget /\ Advanced(e).con = e.con + Reads(e)
           /\ Advanced(e).cur = l[e.con + 1].nid + 1 /\ Advanced(e).end = l[e.con + Reads(e)].nid
           /\ e.con + Reads(e) \in 1 .. Len(l)
           /\ l[e.con + 1].nid \in 0 .. 127 /\ l[e.con + Reads(e)].nid \in 0 .. 127
<1> DEFINE l == Conns(e.widget)
           n == Reads(e)
           first == l[e.con + 1].nid
           final == l[e.con + n].nid
<1>1. /\ e \in StackEntry /\ l \in Seq(Connection) /\ Len(l) \in Nat
      /\ e.con \in Nat /\ e.con + 1 \in 1 .. Len(l)
  BY EntryParts
<1>2. Decode(e) = [e EXCEPT !.con = e.con + n, !.cur = first, !.end = final]
  BY DEF Decode, Reads
<1>3. n = 1 \/ (n = 2 /\ e.con + 2 <= Len(l))
  BY DEF Reads
<1> HIDE DEF n, l
<1>4. e.con + n \in 1 .. Len(l)
  BY <1>1, <1>3
<1>5. first \in 0 .. 127 /\ final \in 0 .. 127
  <2>1. l[e.con + 1].nid \in 0 .. 127
    BY <1>1, EntryType
  <2>2. l[e.con + n].nid \in 0 .. 127
    BY <1>1, <1>4, EntryType
  <2> QED BY <2>1, <2>2
<1> HIDE DEF first, final
<1> DEFINE g == [e EXCEPT !.con = e.con + n]
           h == [g EXCEPT !.end = final]
           following == first + 1
<1>6. Decode(e) = [h EXCEPT !.cur = first]
  BY <1>2
<1>7. Decode(e).cur = first /\ Advanced(e) = [h EXCEPT !.cur = following]
  <2>1. Decode(e).cur = first
    BY <1>1, <1>2 DEF StackEntry
  <2> QED BY <1>6, <2>1 DEF Advanced
<1>8. e.con + n \in Nat /\ following \in 0 .. 255
  BY <1>1, <1>3, <1>5
<1>a. e \in StackEntry
  BY <1>1
<1>b. e.con + n \in Nat
  BY <1>8
<1> HIDE DEF following
<1>9. g \in StackEntry /\ g.con = e.con + n /\ g.widget = e.widget
  BY <1>a, <1>b DEF StackEntry
<1> HIDE DEF g
<1>10. h \in StackEntry /\ h.con = e.con + n /\ h.widget = e.widget /\ h.end = final
  BY <1>9, <1>5 DEF StackEntry
<1> HIDE DEF h
<1>11. Advanced(e) \in StackEntry /\ Advanced(e).con = e.con + n /\ Advanced(e).widget = e.widget
       /\ Advanced(e).cur = following /\ Advanced(e).end = final
  BY <1>7, <1>8, <1>10 DEF StackEntry
<1> QED BY <1>4, <1>5, <1>7, <1>11 DEF first, final, following, n, l

\* Where that leaves the list: one entry on if the next ends no range, two if it
\* does, and at a boundary again.
LEMMA ReadsFacts ==
    ASSUME CodecTyped, NEW e, EntryOK(e), ~ReadOut(e)
    PROVE  LET l == Conns(e.widget) IN
           /\ \/ Reads(e) = 1
              \/ Reads(e) = 2 /\ e.con + 2 <= Len(l) /\ EndsRange(l, e.con + 2)
           /\ e.con + Reads(e) < Len(l) => ~EndsRange(l, e.con + Reads(e) + 1)
<1> DEFINE l == Conns(e.widget)
           n == Reads(e)
<1>1. /\ l \in Seq(Connection) /\ Len(l) \in Nat
      /\ e.con \in Nat /\ e.con < Len(l) /\ ~EndsRange(l, e.con + 1)
  BY EntryParts
<1>2. \/ n = 2 /\ e.con + 2 <= Len(l) /\ l[e.con + 2].range
      \/ n = 1 /\ ~(e.con + 2 <= Len(l) /\ l[e.con + 2].range)
  BY DEF Reads
<1> HIDE DEF n, l
<1>3. e.con + 2 <= Len(l) => (EndsRange(l, e.con + 2) <=> l[e.con + 2].range)
  <2> HAVE e.con + 2 <= Len(l)
  <2>1. e.con + 2 \in 2 .. Len(l) /\ e.con + 2 - 1 = e.con + 1
    BY <1>1
  <2> QED BY <1>1, <2>1, NextEntry
<1>4. CASE n = 1
  <2>1. e.con + n + 1 = e.con + 2 /\ (e.con + n < Len(l) => e.con + 2 <= Len(l))
    BY <1>1, <1>4
  <2> QED BY <1>2, <1>3, <1>4, <2>1 DEF n, l
<1>5. CASE n = 2
  <2>1. EndsRange(l, e.con + 2) /\ e.con + 2 <= Len(l)
    BY <1>2, <1>3, <1>5
  <2>2. e.con + 2 < Len(l) => ~EndsRange(l, e.con + 2 + 1)
    <3> HAVE e.con + 2 < Len(l)
    <3>1. e.con + 3 \in 2 .. Len(l) /\ e.con + 3 - 1 = e.con + 2 /\ e.con + 2 + 1 = e.con + 3
      BY <1>1
    <3> QED BY <1>1, <2>1, <3>1, NextEntry
  <2> QED BY <1>5, <2>1, <2>2 DEF n, l
<1> QED BY <1>2, <1>4, <1>5

\* The first of a range and the rest.
LEMMA FirstAndRest ==
    ASSUME NEW a \in Int, NEW b \in Int
    PROVE  /\ a <= b => a .. b = {a} \cup (a + 1 .. b) /\ a \in a .. b
           /\ ~(a <= b) => a .. b = {}
           /\ a + 1 .. b \subseteq a .. b
           /\ {a} \cup (a .. b) = {a} \cup (a + 1 .. b)
OBVIOUS

\* The node an entry is at is named by its list, and the next place is a boundary.
LEMMA DecodeFacts ==
    ASSUME CodecTyped, NEW e, EntryOK(e), ~ReadOut(e)
    PROVE  /\ Decode(e).cur \in Named(Conns(e.widget))
           /\ EntryOK(Advanced(e)) /\ Advanced(e).widget = e.widget
<1> DEFINE l == Conns(e.widget)
           n == Reads(e)
           a == Advanced(e)
<1>1. /\ l \in Seq(Connection) /\ Len(l) \in Nat
      /\ e.con \in Nat /\ e.con < Len(l) /\ e.con + 1 \in 1 .. Len(l)
      /\ e.cur \in 0 .. 255 /\ e.end \in 0 .. 127 /\ ~EndsRange(l, e.con + 1)
  BY EntryParts
<1>a. e.con \in 0 .. Len(l) /\ e.cur \in Int /\ e.end \in Int
  BY EntryParts
<1>2. e.cur .. e.end \subseteq Named(l)
  BY DEF EntryOK
<1>3. CASE e.cur <= e.end
  <2>1. /\ Decode(e).cur = e.cur /\ a \in StackEntry
        /\ a.widget = e.widget /\ a.con = e.con /\ a.cur = e.cur + 1 /\ a.end = e.end
    BY <1>3, AdvancedWithin
  <2> HIDE DEF l, a
  <2>2. e.cur \in e.cur .. e.end /\ e.cur + 1 .. e.end \subseteq e.cur .. e.end /\ e.con \in 0 .. Len(l)
    <3>1. e.cur \in e.cur .. e.end /\ e.cur + 1 .. e.end \subseteq e.cur .. e.end
      BY <1>a, <1>3, FirstAndRest
    <3> QED BY <1>a, <3>1
  <2> QED BY <1>1, <1>2, <2>1, <2>2 DEF EntryOK, l, a
<1>4. CASE ~(e.cur <= e.end)
  <2> DEFINE first == l[e.con + 1].nid
             final == l[e.con + n].nid
  <2>1. /\ Decode(e).cur = first /\ a \in StackEntry
        /\ a.widget = e.widget /\ a.con = e.con + n /\ a.cur = first + 1 /\ a.end = final
        /\ e.con + n \in 1 .. Len(l) /\ first \in 0 .. 127 /\ final \in 0 .. 127
    BY <1>4, AdvancedNext
  <2>2. /\ n = 1 \/ (n = 2 /\ e.con + 2 <= Len(l) /\ EndsRange(l, e.con + 2))
        /\ e.con + n < Len(l) => ~EndsRange(l, e.con + n + 1)
    BY ReadsFacts
  <2> HIDE DEF l, n, a
  <2>3. first \in Named(l)
    BY <1>1, SingleNamed
  <2>4. n = 2 => first .. final \subseteq Named(l)
    <3> HAVE n = 2
    <3>1. e.con + 2 \in 1 .. Len(l) /\ e.con + 2 - 1 = e.con + 1 /\ EndsRange(l, e.con + 2)
      BY <1>1, <2>2
    <3>2. l[e.con + 2 - 1].nid .. l[e.con + 2].nid \subseteq Named(l)
      BY <1>1, <3>1, RangeNamed
    <3> QED BY <3>1, <3>2
  <2>5. n = 1 => final = first
    OBVIOUS
  <2> HIDE DEF first, final
  <2>6. first + 1 .. final \subseteq Named(l)
    <3>1. first + 1 .. first = {} /\ first + 1 .. final \subseteq first .. final
      <4>1. first \in Int /\ final \in Int /\ ~(first + 1 <= first)
        BY <2>1
      <4> QED BY <4>1, FirstAndRest
    <3> QED BY <2>2, <2>4, <2>5, <3>1
  <2>7. e.con + n \in 0 .. Len(l)
    BY <1>1, <2>1
  <2> QED BY <2>1, <2>2, <2>3, <2>6, <2>7 DEF EntryOK, l, a
<1> QED BY <1>3, <1>4

-----------------------------------------------------------------------------
(* The invariant of the search *)

\* The widgets on the stack are a way that begins at a connected output pin.
ChainOK(s) ==
    /\ s \in Seq(StackEntry) /\ Len(s) <= MaxDepth
    /\ \A i \in 1 .. Len(s) : EntryOK(s[i]) /\ KindOf(s[i].widget) # "dac"
    /\ \A i \in 1 .. Len(s) : \A j \in 1 .. i - 1 : s[j].widget # s[i].widget
    /\ \A i \in 1 .. Len(s) - 1 : s[i + 1].widget \in Named(Conns(s[i].widget))
    /\ s # <<>> => s[1].widget \in OutPin

PathOK(p) ==
    /\ p \in Seq(Widget) /\ Len(p) >= 2
    /\ p[1] \in OutPin /\ KindOf(p[Len(p)]) = "dac"
    /\ \A i \in 1 .. Len(p) - 1 : /\ KindOf(p[i]) # "dac"
                                   /\ p[i + 1] \in Named(Conns(p[i]))
                                   /\ \A j \in 1 .. i - 1 : p[j] # p[i]

SearchInv == /\ CodecTyped
             /\ turn \in 0 .. Len(outputNids)
             /\ ChainOK(stack)
             /\ paths \in Seq(Seq(Widget))
             /\ \A k \in 1 .. Len(paths) : PathOK(paths[k])

\* An output pin starts a chain.
LEMMA ChainStart ==
    ASSUME CodecTyped, NEW w \in OutPin
    PROVE  ChainOK(<<Fresh(w)>>)
<1>1. w \in Widget /\ KindOf(w) # "dac"
  BY DEF OutPin
<1>2. EntryOK(Fresh(w)) /\ Fresh(w).widget = w /\ Fresh(w) \in StackEntry
  BY <1>1, FreshOK DEF EntryOK
<1> DEFINE f == Fresh(w)
<1> HIDE DEF f
<1>3. f \in StackEntry /\ EntryOK(f) /\ f.widget = w
  BY <1>2 DEF f
<1>4. <<f>> \in Seq(StackEntry) /\ Len(<<f>>) = 1 /\ <<f>>[1] = f /\ <<f>> # <<>>
  BY <1>3
<1>5. 1 <= MaxDepth
  BY DepthAssumption
<1>6. ChainOK(<<f>>)
  BY <1>1, <1>3, <1>4, <1>5 DEF ChainOK
<1> QED BY <1>6 DEF f

\* A chain without its top is a chain.
LEMMA ChainPop ==
    ASSUME NEW s, ChainOK(s), s # <<>>
    PROVE  ChainOK(SubSeq(s, 1, Len(s) - 1))
<1> DEFINE t == SubSeq(s, 1, Len(s) - 1)
<1>1. s \in Seq(StackEntry) /\ Len(s) \in Nat /\ Len(s) >= 1
  BY DEF ChainOK
<1>2. t \in Seq(StackEntry) /\ Len(t) = Len(s) - 1 /\ \A i \in 1 .. Len(t) : t[i] = s[i]
  BY <1>1, ButLast
<1>3. t # <<>> => 1 \in 1 .. Len(t)
  BY <1>1, <1>2
<1>4. Len(t) <= MaxDepth
  BY <1>1, <1>2, DepthAssumption DEF ChainOK
<1> HIDE DEF t
<1>5. \A i \in 1 .. Len(t) : i \in 1 .. Len(s)
  BY <1>1, <1>2
<1>6. \A i \in 1 .. Len(t) - 1 : i \in 1 .. Len(s) - 1 /\ i \in 1 .. Len(t) /\ i + 1 \in 1 .. Len(t)
  BY <1>1, <1>2
<1>7. \A i \in 1 .. Len(t) : \A j \in 1 .. i - 1 : j \in 1 .. Len(t)
  BY <1>1, <1>2
<1> QED BY <1>2, <1>3, <1>4, <1>5, <1>6, <1>7 DEF ChainOK, t

\* The top entry has moved on along its list.
LEMMA ChainStep ==
    ASSUME CodecTyped, NEW s, ChainOK(s), s # <<>>, ~ReadOut(s[Len(s)])
    PROVE  LET t == [s EXCEPT ![Len(s)] = Advanced(s[Len(s)])] IN
           /\ ChainOK(t) /\ Len(t) = Len(s)
           /\ \A i \in 1 .. Len(s) : t[i].widget = s[i].widget
<1> DEFINE e == Advanced(s[Len(s)])
           t == [s EXCEPT ![Len(s)] = e]
<1>1. s \in Seq(StackEntry) /\ Len(s) \in Nat /\ Len(s) \in 1 .. Len(s)
  BY DEF ChainOK
<1>2. EntryOK(e) /\ e.widget = s[Len(s)].widget /\ e \in StackEntry
  <2>1. EntryOK(s[Len(s)])
    BY <1>1 DEF ChainOK
  <2> QED BY <2>1, DecodeFacts DEF EntryOK
<1> HIDE DEF e
<1>3. t \in Seq(StackEntry) /\ Len(t) = Len(s) /\ t # <<>>
  BY <1>1, <1>2
<1>4. \A i \in 1 .. Len(s) : t[i] = IF i = Len(s) THEN e ELSE s[i]
  BY <1>1, <1>2
<1> HIDE DEF t
<1>5. \A i \in 1 .. Len(s) : t[i].widget = s[i].widget
  BY <1>2, <1>4
<1>6. \A i \in 1 .. Len(s) : EntryOK(t[i])
  BY <1>2, <1>4 DEF ChainOK
<1>7. ChainOK(t)
  <2>1. \A i \in 1 .. Len(s) : \A j \in 1 .. i - 1 : j \in 1 .. Len(s)
    BY <1>1
  <2>2. \A i \in 1 .. Len(s) - 1 : i \in 1 .. Len(s) /\ i + 1 \in 1 .. Len(s)
    BY <1>1
  <2>3. 1 \in 1 .. Len(s)
    BY <1>1
  <2> QED BY <1>3, <1>5, <1>6, <2>1, <2>2, <2>3 DEF ChainOK
<1> QED BY <1>3, <1>5, <1>7 DEF e, t

\* A widget that the top entry names, and that is not on the stack, goes on it.
LEMMA ChainPush ==
    ASSUME CodecTyped, NEW s, ChainOK(s), s # <<>>, Len(s) < MaxDepth,
           NEW w \in Widget, KindOf(w) # "dac",
           w \in Named(Conns(s[Len(s)].widget)),
           \A i \in 1 .. Len(s) : s[i].widget # w
    PROVE  ChainOK(Append(s, Fresh(w)))
<1> DEFINE f == Fresh(w)
           t == Append(s, f)
<1>1. s \in Seq(StackEntry) /\ Len(s) \in Nat /\ Len(s) >= 1
  BY DEF ChainOK
<1>2. EntryOK(f) /\ f.widget = w /\ f \in StackEntry
  BY FreshOK DEF EntryOK
<1> HIDE DEF f
<1>3. t \in Seq(StackEntry) /\ Len(t) = Len(s) + 1 /\ t[Len(s) + 1] = f
      /\ \A i \in 1 .. Len(s) : t[i] = s[i]
  BY <1>1, <1>2
<1> HIDE DEF t
<1>4. Len(t) <= MaxDepth
  BY <1>1, <1>3, DepthAssumption
<1>5. \A i \in 1 .. Len(t) : EntryOK(t[i]) /\ KindOf(t[i].widget) # "dac"
  <2> TAKE i \in 1 .. Len(t)
  <2>1. i \in 1 .. Len(s) \/ i = Len(s) + 1
    BY <1>1, <1>3
  <2> QED BY <1>2, <1>3, <2>1 DEF ChainOK
<1>6. \A i \in 1 .. Len(t) : \A j \in 1 .. i - 1 : t[j].widget # t[i].widget
  <2> TAKE i \in 1 .. Len(t)
  <2> TAKE j \in 1 .. i - 1
  <2>1. j \in 1 .. Len(s) /\ (i \in 1 .. Len(s) \/ i = Len(s) + 1)
    BY <1>1, <1>3
  <2> QED BY <1>2, <1>3, <2>1 DEF ChainOK
<1>7. \A i \in 1 .. Len(t) - 1 : t[i + 1].widget \in Named(Conns(t[i].widget))
  <2> TAKE i \in 1 .. Len(t) - 1
  <2>1. \/ i \in 1 .. Len(s) - 1 /\ i \in 1 .. Len(s) /\ i + 1 \in 1 .. Len(s)
        \/ i = Len(s) /\ i \in 1 .. Len(s)
    BY <1>1, <1>3
  <2>2. CASE i = Len(s) /\ i \in 1 .. Len(s)
    BY <1>2, <1>3, <2>2
  <2>3. CASE i \in 1 .. Len(s) - 1 /\ i \in 1 .. Len(s) /\ i + 1 \in 1 .. Len(s)
    BY <1>3, <2>3 DEF ChainOK
  <2> QED BY <2>1, <2>2, <2>3
<1>8. t[1].widget \in OutPin
  <2>1. 1 \in 1 .. Len(s)
    BY <1>1
  <2> QED BY <1>3, <2>1 DEF ChainOK
<1>9. ChainOK(t)
  BY <1>3, <1>4, <1>5, <1>6, <1>7, <1>8 DEF ChainOK
<1> QED BY <1>9 DEF t, f

\* A converter that the top entry names ends a path.
LEMMA PathFound ==
    ASSUME CodecTyped, NEW s, ChainOK(s), s # <<>>,
           NEW w \in Widget, KindOf(w) = "dac",
           w \in Named(Conns(s[Len(s)].widget))
    PROVE  PathOK(Append([i \in 1 .. Len(s) |-> s[i].widget], w))
<1> DEFINE q == [i \in 1 .. Len(s) |-> s[i].widget]
           p == Append(q, w)
<1>1. s \in Seq(StackEntry) /\ Len(s) \in Nat /\ Len(s) >= 1
  BY DEF ChainOK
<1>2. \A i \in 1 .. Len(s) : s[i].widget \in Widget
  <2> TAKE i \in 1 .. Len(s)
  <2>1. s[i] \in StackEntry
    BY <1>1
  <2> QED BY <2>1 DEF StackEntry
<1>3. q \in Seq(Widget) /\ Len(q) = Len(s) /\ \A i \in 1 .. Len(s) : q[i] = s[i].widget
  BY <1>1, <1>2
<1> HIDE DEF q
<1>4. p \in Seq(Widget) /\ Len(p) = Len(s) + 1 /\ p[Len(s) + 1] = w
      /\ \A i \in 1 .. Len(s) : p[i] = s[i].widget
  BY <1>1, <1>3
<1> HIDE DEF p
<1>5. p[1] \in OutPin
  <2>1. 1 \in 1 .. Len(s)
    BY <1>1
  <2> QED BY <1>4, <2>1 DEF ChainOK
<1>6. \A i \in 1 .. Len(p) - 1 : /\ KindOf(p[i]) # "dac"
                                 /\ p[i + 1] \in Named(Conns(p[i]))
                                 /\ \A j \in 1 .. i - 1 : p[j] # p[i]
  <2> TAKE i \in 1 .. Len(p) - 1
  <2>1. i \in 1 .. Len(s) /\ (i = Len(s) \/ (i \in 1 .. Len(s) - 1 /\ i + 1 \in 1 .. Len(s)))
    BY <1>1, <1>4
  <2>2. KindOf(p[i]) # "dac"
    BY <1>4, <2>1 DEF ChainOK
  <2>3. \A j \in 1 .. i - 1 : p[j] # p[i]
    <3> TAKE j \in 1 .. i - 1
    <3>1. j \in 1 .. Len(s)
      BY <1>1, <2>1
    <3> QED BY <1>4, <2>1, <3>1 DEF ChainOK
  <2>4. p[i + 1] \in Named(Conns(p[i]))
    <3>1. CASE i = Len(s)
      BY <1>4, <2>1, <3>1
    <3>2. CASE i \in 1 .. Len(s) - 1 /\ i + 1 \in 1 .. Len(s)
      BY <1>4, <2>1, <3>2 DEF ChainOK
    <3> QED BY <2>1, <3>1, <3>2
  <2> QED BY <2>2, <2>3, <2>4
<1>7. Len(p) >= 2 /\ KindOf(p[Len(p)]) = "dac"
  BY <1>1, <1>4
<1>8. PathOK(p)
  BY <1>4, <1>5, <1>6, <1>7 DEF PathOK
<1> QED BY <1>8 DEF p, q
-----------------------------------------------------------------------------
(* The steps of the search *)

\* The invariant is about the codec's widgets, which the search does not change.
LEMMA SameCodec ==
    ASSUME UNCHANGED codecVars
    PROVE  /\ CodecTyped' = CodecTyped
           /\ \A s : ChainOK(s)' = ChainOK(s)
           /\ \A p : PathOK(p)' = PathOK(p)
           /\ Widget' = Widget /\ outputNids' = outputNids
<1>1. widgets' = widgets /\ outputNids' = outputNids
  BY DEF codecVars
<1> QED BY <1>1 DEF CodecTyped, ChainOK, PathOK, EntryOK, StackEntry, OutPin, KindOf, Conns, Widget

\* The steps of find_output_paths keep the chain and the paths found.
LEMMA SearchStepInv ==
    ASSUME SearchInv, SearchStep
    PROVE  SearchInv' /\ UNCHANGED codecVars /\ UNCHANGED active /\ UNCHANGED pc /\ pc = "search"
<1>1. CodecTyped /\ turn \in 0 .. Len(outputNids) /\ ChainOK(stack)
      /\ paths \in Seq(Seq(Widget)) /\ \A k \in 1 .. Len(paths) : PathOK(paths[k])
  BY DEF SearchInv
<1>2. UNCHANGED codecVars /\ UNCHANGED active /\ UNCHANGED pc /\ pc = "search"
  BY DEF SearchStep, NextPin, Pop, Skip, Found, Descend, Looking
<1>3. SUFFICES /\ turn' \in 0 .. Len(outputNids) /\ ChainOK(stack')
               /\ paths' \in Seq(Seq(Widget)) /\ \A k \in 1 .. Len(paths') : PathOK(paths'[k])
  BY <1>1, <1>2, SameCodec DEF SearchInv
<1>4. Looking => /\ stack # <<>> /\ ~ReadOut(Top)
                 /\ Here \in Named(Conns(Top.widget))
                 /\ ChainOK(Taken) /\ Len(Taken) = Len(stack) /\ Taken # <<>>
                 /\ \A i \in 1 .. Len(stack) : Taken[i].widget = stack[i].widget
  <2> HAVE Looking
  <2>1. stack # <<>> /\ ~ReadOut(Top) /\ ~ReadOut(stack[Len(stack)])
    BY DEF Looking, Top
  <2>2. stack \in Seq(StackEntry) /\ Len(stack) \in 1 .. Len(stack)
    BY <1>1, <2>1 DEF ChainOK
  <2>3. EntryOK(Top)
    BY <1>1, <2>2 DEF ChainOK, Top
  <2>4. Here \in Named(Conns(Top.widget))
    BY <1>1, <2>1, <2>3, DecodeFacts DEF Here
  <2>5. Taken = [stack EXCEPT ![Len(stack)] = Advanced(stack[Len(stack)])]
    BY DEF Taken, Advanced, Top
  <2>6. /\ ChainOK(Taken) /\ Len(Taken) = Len(stack)
        /\ \A i \in 1 .. Len(stack) : Taken[i].widget = stack[i].widget
    BY <1>1, <2>1, <2>5, ChainStep
  <2>7. Taken # <<>>
    BY <2>2, <2>6
  <2> QED BY <2>1, <2>4, <2>6, <2>7
<1>5. CASE NextPin
  <2>1. turn \in 0 .. Len(outputNids) /\ turn < Len(outputNids) /\ outputNids \in Seq(Widget)
    BY <1>1, <1>5 DEF NextPin, TurnsLeft, CodecTyped
  <2>2. turn' = turn + 1 /\ turn + 1 \in 1 .. Len(outputNids)
    BY <1>5, <2>1 DEF NextPin
  <2>3. Turn \in Widget
    BY <2>1, <2>2 DEF Turn
  <2>4. CASE KindOf(Turn) = "outPin"
    <3>1. Turn \in OutPin
      BY <2>3, <2>4 DEF OutPin
    <3>2. stack' = <<Fresh(Turn)>>
      BY <1>5, <2>4 DEF NextPin
    <3>3. ChainOK(stack')
      BY <1>1, <3>1, <3>2, ChainStart
    <3> QED BY <1>1, <1>5, <2>1, <2>2, <3>3 DEF NextPin
  <2>5. CASE KindOf(Turn) # "outPin"
    <3>1. stack' = stack
      BY <1>5, <2>5 DEF NextPin
    <3> QED BY <1>1, <1>5, <2>1, <2>2, <3>1 DEF NextPin
  <2> QED BY <2>4, <2>5
<1>6. CASE Pop
  <2>1. stack # <<>> /\ stack' = SubSeq(stack, 1, Len(stack) - 1) /\ UNCHANGED <<turn, paths>>
    BY <1>6 DEF Pop
  <2>2. ChainOK(stack')
    BY <1>1, <2>1, ChainPop
  <2> QED BY <1>1, <2>1, <2>2
<1>7. CASE Skip
  BY <1>1, <1>4, <1>7 DEF Skip
<1>8. CASE Found
  <2>1. Looking /\ HereKind = "dac" /\ stack' = Taken /\ UNCHANGED turn
    BY <1>8 DEF Found
  <2>2. Here \in Widget /\ KindOf(Here) = "dac"
    BY <2>1 DEF HereKind
  <2>3. Here \in Named(Conns(stack[Len(stack)].widget)) /\ stack # <<>>
    BY <1>4, <2>1 DEF Top
  <2> DEFINE p == Append([i \in 1 .. Len(stack) |-> stack[i].widget], Here)
  <2>4. PathOK(p)
    BY <1>1, <2>2, <2>3, PathFound
  <2>5. paths' = Append(paths, p)
    BY <1>8 DEF Found
  <2> HIDE DEF p
  <2>6. p \in Seq(Widget)
    BY <2>4 DEF PathOK
  <2>7. paths' \in Seq(Seq(Widget)) /\ \A k \in 1 .. Len(paths') : PathOK(paths'[k])
    BY <1>1, <2>4, <2>5, <2>6
  <2> QED BY <1>1, <1>4, <2>1, <2>7
<1>9. CASE Descend
  <2>1. /\ Looking /\ HereKind # "none" /\ HereKind # "dac" /\ ~Blocked
        /\ stack' = Append(Taken, Fresh(Here)) /\ UNCHANGED <<turn, paths>>
    BY <1>9 DEF Descend
  <2>2. Here \in Widget /\ KindOf(Here) # "dac"
    BY <2>1 DEF HereKind
  <2>3. Len(Taken) < MaxDepth
    <3>1. Len(stack) \in Nat
      BY <1>1 DEF ChainOK
    <3> QED BY <1>4, <2>1, <3>1, DepthAssumption DEF Blocked
  <2>4. \A i \in 1 .. Len(Taken) : Taken[i].widget # Here
    BY <1>4, <2>1 DEF Blocked, Visited
  <2>5. Here \in Named(Conns(Taken[Len(Taken)].widget))
    <3>1. Len(stack) \in 1 .. Len(stack)
      BY <1>1, <1>4, <2>1 DEF ChainOK
    <3> QED BY <1>4, <2>1, <3>1 DEF Top
  <2>6. ChainOK(stack')
    BY <1>1, <1>4, <2>1, <2>2, <2>3, <2>4, <2>5, ChainPush
  <2> QED BY <1>1, <2>1, <2>6
<1> QED BY <1>5, <1>6, <1>7, <1>8, <1>9 DEF SearchStep

\* What the invariant is for.
LEMMA SoundPaths == ASSUME SearchInv PROVE PathsSound
<1> SUFFICES ASSUME NEW k \in DOMAIN paths
             PROVE LET p == paths[k] IN
                   /\ p[1] \in OutPin /\ KindOf(Last(p)) = "dac"
                   /\ \A i \in 1 .. Len(p) - 1 : /\ KindOf(p[i]) # "dac"
                                                  /\ p[i + 1] \in Named(Conns(p[i]))
                                                  /\ \A j \in 1 .. i - 1 : p[j] # p[i]
  BY DEF PathsSound
<1>1. paths \in Seq(Seq(Widget)) /\ \A i \in 1 .. Len(paths) : PathOK(paths[i])
  BY DEF SearchInv
<1>2. PathOK(paths[k])
  <2>1. k \in 1 .. Len(paths)
    BY <1>1
  <2> QED BY <1>1, <2>1
<1> QED BY <1>2 DEF PathOK, Last

\* A chain keeps the bounds of the stack.
LEMMA StackTyped == ASSUME SearchInv PROVE StackOK
<1>1. ChainOK(stack)
  BY DEF SearchInv
<1>2. Len(stack) <= MaxDepth
  BY <1>1 DEF ChainOK
<1>3. ASSUME NEW i \in 1 .. Len(stack)
      PROVE /\ stack[i].widget \in Widget
            /\ stack[i].con \in 0 .. Len(Conns(stack[i].widget))
            /\ stack[i].cur \in 0 .. 255 /\ stack[i].end \in 0 .. 127
            /\ \A j \in 1 .. i - 1 : stack[j].widget # stack[i].widget
  <2>1. EntryOK(stack[i]) /\ stack[i] \in StackEntry
    BY <1>1 DEF ChainOK, EntryOK
  <2>2. stack[i].widget \in Widget /\ stack[i].cur \in 0 .. 255 /\ stack[i].end \in 0 .. 127
    BY <2>1 DEF StackEntry
  <2>3. stack[i].con \in 0 .. Len(Conns(stack[i].widget))
    BY <2>1 DEF EntryOK
  <2> QED BY <1>1, <2>2, <2>3 DEF ChainOK
<1> QED BY <1>2, <1>3 DEF StackOK
-----------------------------------------------------------------------------
(* What is left of a connection list *)

\* The nodes that the entries behind the first c of a list name, with their
\* ranges but for one that ends the list.
FollowedFrom(l, c) ==
    {l[j].nid : j \in {i \in c + 1 .. Len(l) : ~EndsRange(l, i)}}
    \cup UNION {l[j - 1].nid .. l[j].nid : j \in {i \in c + 1 .. Len(l) - 1 : EndsRange(l, i)}}

\* A list without its last entry has the same ranges.
LEMMA FrontRanges ==
    ASSUME NEW l \in Seq(Connection), l # <<>>
    PROVE  /\ Len(Front(l)) = Len(l) - 1
           /\ \A i \in 1 .. Len(l) - 1 : /\ Front(l)[i] = l[i]
                                         /\ EndsRange(Front(l), i) <=> EndsRange(l, i)
<1> DEFINE f == Front(l)
<1>1. Len(l) \in Nat /\ Len(l) >= 1 /\ \A i \in 1 .. Len(l) - 1 : l[i] \in Connection
  OBVIOUS
<1>2. f \in Seq(Connection) /\ Len(f) = Len(l) - 1 /\ \A i \in 1 .. Len(f) : f[i] = l[i]
  BY ButLast DEF Front
<1> HIDE DEF f
<1>3. Len(f) = Len(l) - 1 /\ \A i \in 1 .. Len(l) - 1 : f[i] = l[i]
  BY <1>2
<1>4. ASSUME NEW i \in 1 .. Len(l) - 1 PROVE EndsRange(f, i) <=> EndsRange(l, i)
  <2>1. \A j \in 1 .. i - 1 : f[j].range = l[j].range
    <3> TAKE j \in 1 .. i - 1
    <3>1. j \in 1 .. Len(l) - 1
      BY <1>1
    <3> QED BY <1>3, <3>1
  <2>2. {j \in 1 .. i - 1 : ~f[j].range} = {j \in 1 .. i - 1 : ~l[j].range}
    BY <2>1
  <2>3. f[i].range = l[i].range
    BY <1>3
  <2> QED BY <2>2, <2>3 DEF EndsRange
<1> QED BY <1>3, <1>4 DEF f

\* The search follows a list from its start.
LEMMA FollowedAll ==
    ASSUME NEW l \in Seq(Connection)
    PROVE  Followed(l) = FollowedFrom(l, 0)
<1>a. \A n \in Nat : \A i \in 1 .. n : i # n => i \in 1 .. n - 1
  OBVIOUS
<1>1. Len(l) \in Nat /\ DOMAIN l = 1 .. Len(l)
  OBVIOUS
<1>2. CASE l # <<>> /\ EndsRange(l, Len(l))
  <2> DEFINE f == Front(l)
  <2>1. Len(f) = Len(l) - 1 /\ \A i \in 1 .. Len(l) - 1 : f[i] = l[i] /\ (EndsRange(f, i) <=> EndsRange(l, i))
    BY <1>2, FrontRanges
  <2>2. f \in Seq(Connection)
    BY <1>1, <1>2 DEF Front
  <2>3. DOMAIN f = 1 .. Len(l) - 1
    BY <2>1, <2>2
  <2>4. Followed(l) = Named(f)
    BY <1>2 DEF Followed
  <2> HIDE DEF f
  <2>5. {i \in 1 .. Len(l) - 1 : ~EndsRange(f, i)} = {i \in 0 + 1 .. Len(l) : ~EndsRange(l, i)}
    <3>1. Len(l) >= 1
      BY <1>1, <1>2
    <3>2. \A i \in 1 .. Len(l) : i # Len(l) => i \in 1 .. Len(l) - 1
      BY <1>a, <1>1
    <3>3. \A i \in 1 .. Len(l) - 1 : i \in 0 + 1 .. Len(l)
      BY <1>1
    <3>4. \A i \in 0 + 1 .. Len(l) : i \in 1 .. Len(l)
      BY <1>1
    <3> QED BY <1>2, <2>1, <3>2, <3>3, <3>4
  <2>6. {i \in 1 .. Len(l) - 1 : EndsRange(f, i)} = {i \in 0 + 1 .. Len(l) - 1 : EndsRange(l, i)}
    BY <2>1
  <2>7. \A i \in {k \in 1 .. Len(l) - 1 : ~EndsRange(f, k)} : f[i] = l[i]
    BY <2>1
  <2>8. \A i \in {k \in 1 .. Len(l) - 1 : EndsRange(f, k)} : f[i] = l[i] /\ f[i - 1] = l[i - 1]
    <3> TAKE i \in {k \in 1 .. Len(l) - 1 : EndsRange(f, k)}
    <3>1. i # 1
      BY FirstEntry
    <3>2. i - 1 \in 1 .. Len(l) - 1
      BY <1>1, <3>1
    <3> QED BY <2>1, <3>2
  <2>9. {f[i].nid : i \in {k \in 1 .. Len(l) - 1 : ~EndsRange(f, k)}}
        = {l[i].nid : i \in {k \in 1 .. Len(l) - 1 : ~EndsRange(f, k)}}
    BY <2>7
  <2>10. {f[i - 1].nid .. f[i].nid : i \in {k \in 1 .. Len(l) - 1 : EndsRange(f, k)}}
        = {l[i - 1].nid .. l[i].nid : i \in {k \in 1 .. Len(l) - 1 : EndsRange(f, k)}}
    BY <2>8
  <2> QED BY <2>3, <2>4, <2>5, <2>6, <2>9, <2>10 DEF Named, FollowedFrom
<1>3. CASE ~(l # <<>> /\ EndsRange(l, Len(l)))
  <2>1. Followed(l) = Named(l)
    BY <1>3 DEF Followed
  <2>2. {i \in 1 .. Len(l) : EndsRange(l, i)} = {i \in 0 + 1 .. Len(l) - 1 : EndsRange(l, i)}
    <3>1. \A i \in 1 .. Len(l) : i # Len(l) => i \in 1 .. Len(l) - 1
      BY <1>a, <1>1
    <3>2. \A i \in 0 + 1 .. Len(l) - 1 : i \in 1 .. Len(l)
      BY <1>1
    <3>3. \A i \in 1 .. Len(l) - 1 : i \in 0 + 1 .. Len(l) - 1
      OBVIOUS
    <3>4. \A i \in 1 .. Len(l) : l # <<>>
      OBVIOUS
    <3> QED BY <1>3, <3>1, <3>2, <3>3, <3>4
  <2>3. {i \in 1 .. Len(l) : ~EndsRange(l, i)} = {i \in 0 + 1 .. Len(l) : ~EndsRange(l, i)}
    OBVIOUS
  <2> QED BY <1>1, <2>1, <2>2, <2>3 DEF Named, FollowedFrom
<1> QED BY <1>2, <1>3

\* Membership, entry by entry.
LEMMA FollowedMember ==
    ASSUME NEW l, NEW c, NEW x
    PROVE  x \in FollowedFrom(l, c) <=>
             \/ \E j \in c + 1 .. Len(l) : ~EndsRange(l, j) /\ x = l[j].nid
             \/ \E j \in c + 1 .. Len(l) - 1 : EndsRange(l, j) /\ x \in l[j - 1].nid .. l[j].nid
BY DEF FollowedFrom

\* Nothing is behind the last entry.
LEMMA FollowedNone ==
    ASSUME NEW l \in Seq(Connection)
    PROVE  FollowedFrom(l, Len(l)) = {}
<1>1. \A i \in Len(l) + 1 .. Len(l) : FALSE
  OBVIOUS
<1>2. \A i \in Len(l) + 1 .. Len(l) - 1 : FALSE
  OBVIOUS
<1> QED BY <1>1, <1>2, FollowedMember

\* An entry that names a node by itself, and then one that ends a range.
LEMMA FollowedOne ==
    ASSUME NEW l \in Seq(Connection), NEW c \in Nat, c < Len(l), ~EndsRange(l, c + 1)
    PROVE  FollowedFrom(l, c) = {l[c + 1].nid} \cup FollowedFrom(l, c + 1)
<1>1. Len(l) \in Nat
  OBVIOUS
<1>2. \A i \in c + 1 .. Len(l) : i = c + 1 \/ i \in c + 1 + 1 .. Len(l)
  BY <1>1
<1>3. \A i \in c + 1 .. Len(l) - 1 : i = c + 1 \/ i \in c + 1 + 1 .. Len(l) - 1
  BY <1>1
<1>4. c + 1 \in c + 1 .. Len(l)
  BY <1>1
<1>5. \A i \in c + 1 + 1 .. Len(l) : i \in c + 1 .. Len(l)
  BY <1>1
<1>6. \A i \in c + 1 + 1 .. Len(l) - 1 : i \in c + 1 .. Len(l) - 1
  BY <1>1
<1>7. ASSUME NEW x PROVE x \in FollowedFrom(l, c) <=> x = l[c + 1].nid \/ x \in FollowedFrom(l, c + 1)
  <2>1. ASSUME x \in FollowedFrom(l, c) PROVE x = l[c + 1].nid \/ x \in FollowedFrom(l, c + 1)
    BY <1>2, <1>3, <2>1, FollowedMember
  <2>2. ASSUME x \in FollowedFrom(l, c + 1) PROVE x \in FollowedFrom(l, c)
    BY <1>5, <1>6, <2>2, FollowedMember
  <2>3. ASSUME x = l[c + 1].nid PROVE x \in FollowedFrom(l, c)
    BY <1>4, <2>3, FollowedMember
  <2> QED BY <2>1, <2>2, <2>3
<1> QED BY <1>7

\* Such an entry names the nodes of its range, unless the list ends there.
LEMMA FollowedRange ==
    ASSUME NEW l \in Seq(Connection), NEW c \in Nat, c + 1 <= Len(l), EndsRange(l, c + 1)
    PROVE  FollowedFrom(l, c) =
             (IF c + 1 < Len(l) THEN l[c].nid .. l[c + 1].nid ELSE {}) \cup FollowedFrom(l, c + 1)
<1>1. Len(l) \in Nat /\ c + 1 - 1 = c
  OBVIOUS
<1>2. \A i \in c + 1 .. Len(l) : i = c + 1 \/ i \in c + 1 + 1 .. Len(l)
  BY <1>1
<1>3. \A i \in c + 1 .. Len(l) - 1 : (i = c + 1 /\ c + 1 < Len(l)) \/ i \in c + 1 + 1 .. Len(l) - 1
  BY <1>1
<1>4. c + 1 < Len(l) => c + 1 \in c + 1 .. Len(l) - 1
  BY <1>1
<1>5. \A i \in c + 1 + 1 .. Len(l) : i \in c + 1 .. Len(l)
  BY <1>1
<1>6. \A i \in c + 1 + 1 .. Len(l) - 1 : i \in c + 1 .. Len(l) - 1
  BY <1>1
<1> DEFINE R == IF c + 1 < Len(l) THEN l[c].nid .. l[c + 1].nid ELSE {}
<1>7. ASSUME NEW x PROVE x \in FollowedFrom(l, c) <=> x \in R \/ x \in FollowedFrom(l, c + 1)
  <2>1. ASSUME x \in FollowedFrom(l, c), x \notin FollowedFrom(l, c + 1) PROVE x \in R
    <3>1. PICK j \in c + 1 .. Len(l) - 1 : EndsRange(l, j) /\ x \in l[j - 1].nid .. l[j].nid
      BY <1>2, <1>5, <2>1, FollowedMember
    <3>2. ~(j \in c + 1 + 1 .. Len(l) - 1)
      BY <2>1, <3>1, FollowedMember
    <3>3. j = c + 1 /\ c + 1 < Len(l)
      BY <1>3, <3>2
    <3> QED BY <1>1, <3>1, <3>3
  <2>2. ASSUME x \in FollowedFrom(l, c + 1) PROVE x \in FollowedFrom(l, c)
    BY <1>5, <1>6, <2>2, FollowedMember
  <2>3. ASSUME x \in R PROVE x \in FollowedFrom(l, c)
    <3>1. c + 1 < Len(l) /\ x \in l[c + 1 - 1].nid .. l[c + 1].nid
      BY <1>1, <2>3
    <3> QED BY <1>4, <3>1, FollowedMember
  <2> QED BY <2>1, <2>2, <2>3
<1> QED BY <1>7

\* The nodes that an entry of the stack has still to be at.
Remaining(e) == IF ReadOut(e) THEN {}
                ELSE (e.cur .. e.end) \cup FollowedFrom(Conns(e.widget), e.con)

\* A widget that is pushed has its whole list before it.
LEMMA RemainingFresh ==
    ASSUME CodecTyped, NEW w \in Widget
    PROVE  Remaining(Fresh(w)) = Followed(Conns(w))
<1> DEFINE l == Conns(w)
<1>1. l \in Seq(Connection)
  BY DEF CodecTyped
<1>2. Fresh(w).widget = w /\ Fresh(w).con = 0 /\ Fresh(w).cur .. Fresh(w).end = {}
  BY DEF Fresh
<1>3. Followed(l) = FollowedFrom(l, 0)
  BY <1>1, FollowedAll
<1>4. ReadOut(Fresh(w)) => FollowedFrom(l, 0) = {}
  BY <1>1, <1>2, FollowedNone DEF ReadOut
<1> QED BY <1>2, <1>3, <1>4 DEF Remaining

\* A step takes one of them.
LEMMA RemainingStep ==
    ASSUME CodecTyped, NEW e, EntryOK(e), ~ReadOut(e)
    PROVE  Remaining(e) = {Decode(e).cur} \cup Remaining(Advanced(e))
<1> DEFINE l == Conns(e.widget)
           n == Reads(e)
           a == Advanced(e)
<1>1. /\ l \in Seq(Connection) /\ Len(l) \in Nat
      /\ e.con \in Nat /\ e.con < Len(l) /\ e.con + 1 \in 1 .. Len(l)
      /\ e.cur \in 0 .. 255 /\ e.end \in 0 .. 127 /\ ~EndsRange(l, e.con + 1)
  BY EntryParts
<1>2. CASE e.cur <= e.end
  <2>1. /\ Decode(e).cur = e.cur
        /\ a.widget = e.widget /\ a.con = e.con /\ a.cur = e.cur + 1 /\ a.end = e.end
    BY <1>2, AdvancedWithin
  <2>2. ~ReadOut(a)
    BY <2>1 DEF ReadOut
  <2>3. e.cur .. e.end = {e.cur} \cup (e.cur + 1 .. e.end)
    <3>1. e.cur \in Int /\ e.end \in Int
      BY EntryParts
    <3> QED BY <1>2, <3>1, FirstAndRest
  <2> HIDE DEF a
  <2> QED BY <2>1, <2>2, <2>3 DEF Remaining, a
<1>3. CASE ~(e.cur <= e.end)
  <2> DEFINE first == l[e.con + 1].nid
             final == l[e.con + n].nid
  <2>1. /\ Decode(e).cur = first
        /\ a.widget = e.widget /\ a.con = e.con + n /\ a.cur = first + 1 /\ a.end = final
        /\ first \in 0 .. 127 /\ final \in 0 .. 127
    BY <1>3, AdvancedNext
  <2>2. n = 1 \/ (n = 2 /\ e.con + 2 <= Len(l) /\ EndsRange(l, e.con + 2))
    BY ReadsFacts
  <2>3. e.cur .. e.end = {}
    <3>1. e.cur \in Int /\ e.end \in Int
      BY EntryParts
    <3> QED BY <1>3, <3>1, FirstAndRest
  <2>4. ReadOut(a) <=> e.con + n = Len(l)
    BY <2>1 DEF ReadOut
  <2> HIDE DEF l, n, a
  <2>5. Remaining(e) = FollowedFrom(l, e.con)
    BY <2>3 DEF Remaining, l
  <2>6. Remaining(a) = IF e.con + n = Len(l) THEN {} ELSE (first + 1 .. final) \cup FollowedFrom(l, e.con + n)
    BY <2>1, <2>4 DEF Remaining, l
  <2>7. FollowedFrom(l, e.con) = {first} \cup FollowedFrom(l, e.con + 1)
    BY <1>1, FollowedOne
  <2>8. FollowedFrom(l, Len(l)) = {}
    BY <1>1, FollowedNone
  <2>9. CASE n = 1
    <3>1. final = first /\ e.con + n = e.con + 1
      BY <2>9
    <3> HIDE DEF first, final
    <3>2. first + 1 .. final = {}
      BY <2>1, <3>1
    <3> QED BY <2>1, <2>5, <2>6, <2>7, <2>8, <3>1, <3>2 DEF a
  <2>10. CASE n = 2 /\ e.con + 2 <= Len(l) /\ EndsRange(l, e.con + 2)
    <3> DEFINE c == e.con + 1
    <3>1. c \in Nat /\ c + 1 = e.con + 2 /\ c + 1 <= Len(l) /\ (c + 1 < Len(l) <=> e.con + 2 # Len(l))
          /\ EndsRange(l, c + 1) /\ first = l[c].nid /\ final = l[c + 1].nid
      BY <1>1, <2>10
    <3> HIDE DEF c
    <3>2. FollowedFrom(l, c) = (IF c + 1 < Len(l) THEN first .. final ELSE {}) \cup FollowedFrom(l, c + 1)
      BY <1>1, <3>1, FollowedRange
    <3>3. FollowedFrom(l, c) = (IF e.con + n # Len(l) THEN first .. final ELSE {}) \cup FollowedFrom(l, e.con + n)
      BY <2>10, <3>1, <3>2
    <3> HIDE DEF first, final
    <3>4. {first} \cup (first .. final) = {first} \cup (first + 1 .. final)
      BY <2>1, FirstAndRest
    <3> QED BY <2>1, <2>5, <2>6, <2>7, <2>8, <3>3, <3>4 DEF a, c
  <2> QED BY <2>2, <2>9, <2>10
<1> QED BY <1>2, <1>3

\* An entry's node is a number.
LEMMA EntryNumber ==
    ASSUME NEW l \in Seq(Connection), NEW i \in 1 .. Len(l)
    PROVE  l[i].nid \in Int
<1>1. l[i].nid \in 0 .. 127
  BY EntryType
<1>2. \A k \in 0 .. 127 : k \in Int
  OBVIOUS
<1> QED BY <1>1, <1>2, Zenon

\* What the entries behind a boundary name, the starts of their ranges by themselves.
LEMMA BehindBoundary ==
    ASSUME NEW l \in Seq(Connection), NEW c \in Nat, c <= Len(l),
           c < Len(l) => ~EndsRange(l, c + 1), NEW x \in FollowedFrom(l, c)
    PROVE  \E j \in c + 1 .. Len(l) :
              \/ x = l[j].nid
              \/ EndsRange(l, j) /\ j - 1 \in c + 1 .. Len(l) /\ x \in l[j - 1].nid + 1 .. l[j].nid
<1>1. Len(l) \in Nat
  OBVIOUS
<1>2. CASE \E j \in c + 1 .. Len(l) : ~EndsRange(l, j) /\ x = l[j].nid
  BY <1>2
<1>3. CASE \E j \in c + 1 .. Len(l) - 1 : EndsRange(l, j) /\ x \in l[j - 1].nid .. l[j].nid
  <2>1. PICK j \in c + 1 .. Len(l) - 1 : EndsRange(l, j) /\ x \in l[j - 1].nid .. l[j].nid
    BY <1>3
  <2>2. j # c + 1
    BY <1>1, <2>1
  <2>3. j - 1 \in c + 1 .. Len(l) /\ j \in c + 1 .. Len(l) /\ j - 1 \in 1 .. Len(l) /\ j \in 1 .. Len(l)
    BY <1>1, <2>2
  <2>4. l[j - 1].nid \in Int /\ l[j].nid \in Int
    BY <2>3, EntryNumber
  <2>5. x = l[j - 1].nid \/ x \in l[j - 1].nid + 1 .. l[j].nid
    BY <2>1, <2>4
  <2> QED BY <2>1, <2>3, <2>5
<1> QED BY <1>2, <1>3, FollowedMember

\* A list that names a node once: what is read is not named again.
LEMMA OnceBehind ==
    ASSUME NEW l \in Seq(Connection), NamesOnce(l), NEW c \in Nat, c <= Len(l),
           c < Len(l) => ~EndsRange(l, c + 1), NEW i \in 1 .. c
    PROVE  /\ l[i].nid \notin FollowedFrom(l, c)
           /\ EndsRange(l, i) => \A x \in l[i - 1].nid + 1 .. l[i].nid : x \notin FollowedFrom(l, c)
<1>1. Len(l) \in Nat /\ DOMAIN l = 1 .. Len(l)
  OBVIOUS
<1>2. /\ \A a, b \in 1 .. Len(l) : a # b => l[a].nid # l[b].nid
      /\ \A a, b \in 1 .. Len(l) :
           a # b /\ EndsRange(l, a) => l[b].nid \notin l[a - 1].nid + 1 .. l[a].nid
  BY <1>1 DEF NamesOnce
<1>3. \A x \in FollowedFrom(l, c) : \E j \in c + 1 .. Len(l) :
         \/ x = l[j].nid
         \/ EndsRange(l, j) /\ j - 1 \in c + 1 .. Len(l) /\ x \in l[j - 1].nid + 1 .. l[j].nid
  BY BehindBoundary
<1>4. i \in 1 .. Len(l) /\ \A j \in c + 1 .. Len(l) : j \in 1 .. Len(l) /\ i # j /\ i - 1 # j
  BY <1>1
<1>5. ASSUME l[i].nid \in FollowedFrom(l, c) PROVE FALSE
  <2>1. PICK j \in c + 1 .. Len(l) :
           \/ l[i].nid = l[j].nid
           \/ EndsRange(l, j) /\ l[i].nid \in l[j - 1].nid + 1 .. l[j].nid
    BY <1>3, <1>5
  <2> QED BY <1>2, <1>4, <2>1
<1>6. ASSUME EndsRange(l, i), NEW x \in l[i - 1].nid + 1 .. l[i].nid, x \in FollowedFrom(l, c)
      PROVE  FALSE
  <2>1. PICK j \in c + 1 .. Len(l) :
           \/ x = l[j].nid
           \/ EndsRange(l, j) /\ j - 1 \in c + 1 .. Len(l) /\ x \in l[j - 1].nid + 1 .. l[j].nid
    BY <1>3, <1>6
  <2>2. CASE x = l[j].nid
    BY <1>2, <1>4, <1>6, <2>2
  <2>3. CASE EndsRange(l, j) /\ j - 1 \in c + 1 .. Len(l) /\ x \in l[j - 1].nid + 1 .. l[j].nid
    <3>1. i # 1
      BY <1>6, FirstEntry
    <3>2. i - 1 \in 1 .. Len(l)
      BY <1>1, <1>4, <3>1
    <3>3. i # j - 1 /\ j # i - 1 /\ j \in 1 .. Len(l) /\ j - 1 \in 1 .. Len(l)
      BY <1>4, <2>3
    <3>a. i - 1 # j - 1
      BY <1>4
    <3> DEFINE a == l[i - 1].nid
               b == l[i].nid
               e == l[j - 1].nid
               f == l[j].nid
    <3>4. a \in Int /\ b \in Int /\ e \in Int /\ f \in Int
      BY <1>4, <3>2, <3>3, EntryNumber
    <3>5. a # e
      BY <1>2, <3>2, <3>3, <3>a
    <3>6. e \notin a + 1 .. b
      BY <1>2, <1>4, <1>6, <3>3
    <3>7. a \notin e + 1 .. f
      BY <1>2, <2>3, <3>2, <3>3
    <3>8. x \in a + 1 .. b /\ x \in e + 1 .. f
      BY <1>6, <2>3
    <3> HIDE DEF a, b, e, f
    <3> QED BY <3>4, <3>5, <3>6, <3>7, <3>8
  <2> QED BY <2>1, <2>2, <2>3
<1> QED BY <1>5, <1>6

\* The rest of an entry's current range is not named again.
RestOnce(e) == ~ReadOut(e) => \A x \in e.cur .. e.end : x \notin FollowedFrom(Conns(e.widget), e.con)

\* An entry that has no range yet has no rest of one.
LEMMA FreshOnce == ASSUME NEW w PROVE RestOnce(Fresh(w))
<1>1. Fresh(w).cur .. Fresh(w).end = {}
  BY DEF Fresh
<1> QED BY <1>1 DEF RestOnce

\* A step takes a node that is not named again.
LEMMA StepOnce ==
    ASSUME CodecTyped, NEW e, EntryOK(e), ~ReadOut(e), RestOnce(e), NamesOnce(Conns(e.widget))
    PROVE  RestOnce(Advanced(e)) /\ Decode(e).cur \notin Remaining(Advanced(e))
<1> DEFINE l == Conns(e.widget)
           n == Reads(e)
           a == Advanced(e)
<1>1. l \in Seq(Connection) /\ Len(l) \in Nat /\ e.con \in Nat /\ e.cur \in Int /\ e.end \in Int
  BY EntryParts
<1>2. CASE e.cur <= e.end
  <2>1. /\ Decode(e).cur = e.cur
        /\ a.widget = e.widget /\ a.con = e.con /\ a.cur = e.cur + 1 /\ a.end = e.end
    BY <1>2, AdvancedWithin
  <2>2. e.cur \in e.cur .. e.end /\ e.cur + 1 .. e.end \subseteq e.cur .. e.end
    BY <1>1, <1>2, FirstAndRest
  <2>3. \A x \in e.cur .. e.end : x \notin FollowedFrom(l, e.con)
    BY DEF RestOnce
  <2>4. e.cur \notin e.cur + 1 .. e.end
    <3>1. e.cur \in Int
      BY <1>1
    <3> QED BY <3>1
  <2> HIDE DEF a
  <2> QED BY <2>1, <2>2, <2>3, <2>4 DEF RestOnce, Remaining, a
<1>3. CASE ~(e.cur <= e.end)
  <2> DEFINE first == l[e.con + 1].nid
             final == l[e.con + n].nid
             c == e.con + n
  <2>1. /\ Decode(e).cur = first
        /\ a.widget = e.widget /\ a.con = c /\ a.cur = first + 1 /\ a.end = final
        /\ c \in 1 .. Len(l) /\ first \in 0 .. 127 /\ final \in 0 .. 127
    BY <1>3, AdvancedNext
  <2>2. /\ n = 1 \/ (n = 2 /\ e.con + 2 <= Len(l) /\ EndsRange(l, e.con + 2))
        /\ c < Len(l) => ~EndsRange(l, c + 1)
    BY ReadsFacts
  <2> HIDE DEF l, n, a, c
  <2>3. c \in Nat /\ c <= Len(l) /\ e.con + 1 \in 1 .. c /\ (n = 2 => e.con + 2 = c /\ c \in 1 .. c)
    BY <1>1, <2>1, <2>2 DEF c
  <2>4. first \notin FollowedFrom(l, c)
    BY <1>1, <2>2, <2>3, OnceBehind DEF l
  <2>5. n = 2 => \A x \in l[c - 1].nid + 1 .. l[c].nid : x \notin FollowedFrom(l, c)
    BY <1>1, <2>2, <2>3, OnceBehind DEF l
  <2>6. n = 2 => first = l[c - 1].nid /\ final = l[c].nid
    <3>1. n = 2 => c - 1 = e.con + 1
      BY <1>1, <2>3
    <3> QED BY <3>1 DEF c
  <2>7. n = 1 => final = first
    OBVIOUS
  <2> HIDE DEF first, final
  <2>8. first \notin first + 1 .. final /\ (n = 1 => first + 1 .. final = {})
    BY <2>1, <2>7
  <2>9. \A x \in first + 1 .. final : x \notin FollowedFrom(l, c)
    BY <2>2, <2>5, <2>6, <2>8
  <2> QED BY <2>1, <2>4, <2>8, <2>9 DEF RestOnce, Remaining, l, a
<1> QED BY <1>2, <1>3

-----------------------------------------------------------------------------
(* Ways *)

\* The ways of n widgets for each n up to m, as Way is defined.
Extended(S) == UNION {{Append(p, w) : w \in (Followed(Conns(Last(p))) \cap Widget) \ ToSet(p)} :
                         p \in {q \in S : KindOf(Last(q)) # "dac"}}
Pins == {<<w>> : w \in OutPin}
AreWays(f, m) == f = [n \in 1 .. m |-> IF n = 1 THEN Pins ELSE Extended(f[n - 1])]

\* The recursive function of Way exists.
LEMMA WaysExist ==
    ASSUME NEW n \in Nat
    PROVE  \E f : AreWays(f, n)
<1> DEFINE S == {m \in Nat : ~ \E f : AreWays(f, m)}
<1>1. SUFFICES ASSUME S # {} PROVE FALSE
  OBVIOUS
<1>2. PICK m \in S : \A j \in S : m <= j
  BY <1>1, MinExists
<1>3. CASE m = 0
  <2>1. AreWays(<<>>, 0)
    BY DEF AreWays
  <2> QED BY <1>3, <2>1
<1>4. CASE m > 0
  <2>1. m - 1 \in Nat /\ m - 1 \notin S
    BY <1>2, <1>4
  <2>2. PICK f : AreWays(f, m - 1)
    BY <2>1
  <2> DEFINE g == [i \in 1 .. m |-> IF i = m THEN IF i = 1 THEN Pins ELSE Extended(f[i - 1]) ELSE f[i]]
  <2>a. \A i \in 1 .. m - 1 : f[i] = IF i = 1 THEN Pins ELSE Extended(f[i - 1])
    BY <2>2 DEF AreWays
  <2>3. ASSUME NEW i \in 1 .. m PROVE g[i] = IF i = 1 THEN Pins ELSE Extended(g[i - 1])
    <3>1. CASE i = m
      <4>1. i # 1 => g[i - 1] = f[i - 1]
        BY <2>1, <3>1
      <4>2. g[i] = IF i = 1 THEN Pins ELSE Extended(f[i - 1])
        BY <3>1
      <4> HIDE DEF g
      <4> QED BY <4>1, <4>2
    <3>2. CASE i # m
      <4>1. i \in 1 .. m - 1 /\ g[i] = f[i]
        BY <2>1, <3>2
      <4>2. i # 1 => i - 1 \in 1 .. m /\ i - 1 # m /\ g[i - 1] = f[i - 1]
        BY <2>1, <3>2
      <4> HIDE DEF g
      <4> QED BY <2>a, <4>1, <4>2
    <3> QED BY <3>1, <3>2
  <2>4. g = [i \in 1 .. m |-> g[i]]
    OBVIOUS
  <2> HIDE DEF g
  <2>5. AreWays(g, m)
    BY <2>3, <2>4 DEF AreWays
  <2> QED BY <2>5
<1> QED BY <1>2, <1>3, <1>4

\* Way is that function.
LEMMA WayDef == AreWays(Way, MaxDepth + 1)
<1>1. MaxDepth + 1 \in Nat
  BY DepthAssumption
<1>2. \E f : AreWays(f, MaxDepth + 1)
  BY <1>1, WaysExist
<1> QED BY <1>2 DEF AreWays, Pins, Extended, Way

\* A sequence of widgets from an output pin along the lists.
Walk(p) ==
    /\ p \in Seq(Widget) /\ Len(p) >= 1 /\ p[1] \in OutPin
    /\ \A i \in 1 .. Len(p) - 1 : KindOf(p[i]) # "dac" /\ p[i + 1] \in Followed(Conns(p[i]))
    /\ \A i \in 1 .. Len(p) : \A j \in 1 .. i - 1 : p[j] # p[i]

\* One widget more.
LEMMA WalkMore ==
    ASSUME NEW q, Walk(q), KindOf(q[Len(q)]) # "dac",
           NEW w \in Widget, w \in Followed(Conns(q[Len(q)])), \A i \in 1 .. Len(q) : q[i] # w
    PROVE  Walk(Append(q, w)) /\ Len(Append(q, w)) = Len(q) + 1
<1> DEFINE p == Append(q, w)
<1>1. q \in Seq(Widget) /\ Len(q) \in Nat /\ Len(q) >= 1
  BY DEF Walk
<1>2. p \in Seq(Widget) /\ Len(p) = Len(q) + 1 /\ p[Len(q) + 1] = w
      /\ \A i \in 1 .. Len(q) : p[i] = q[i]
  BY <1>1
<1> HIDE DEF p
<1>3. p[1] \in OutPin
  <2>1. 1 \in 1 .. Len(q)
    BY <1>1
  <2> QED BY <1>2, <2>1 DEF Walk
<1>4. ASSUME NEW i \in 1 .. Len(p) - 1 PROVE KindOf(p[i]) # "dac" /\ p[i + 1] \in Followed(Conns(p[i]))
  <2>1. CASE i = Len(q)
    <3>1. p[i] = q[Len(q)] /\ p[i + 1] = w
      BY <1>1, <1>2, <2>1
    <3> QED BY <3>1
  <2>2. CASE i # Len(q)
    <3>1. i \in 1 .. Len(q) - 1 /\ i \in 1 .. Len(q) /\ i + 1 \in 1 .. Len(q)
      BY <1>1, <1>2, <2>2
    <3> QED BY <1>2, <3>1 DEF Walk
  <2> QED BY <2>1, <2>2
<1>5. ASSUME NEW i \in 1 .. Len(p), NEW j \in 1 .. i - 1 PROVE p[j] # p[i]
  <2>1. j \in 1 .. Len(q) /\ (i = Len(q) + 1 \/ i \in 1 .. Len(q))
    BY <1>1, <1>2
  <2> QED BY <1>2, <2>1 DEF Walk
<1>6. Len(p) >= 1
  BY <1>1, <1>2
<1> QED BY <1>2, <1>3, <1>4, <1>5, <1>6 DEF Walk, p

\* One widget less.
LEMMA WalkLess ==
    ASSUME NEW p, Walk(p), Len(p) > 1
    PROVE  \E q : /\ Walk(q) /\ Len(q) = Len(p) - 1 /\ KindOf(q[Len(q)]) # "dac"
                  /\ p[Len(p)] \in Followed(Conns(q[Len(q)])) /\ p[Len(p)] \in Widget
                  /\ (\A i \in 1 .. Len(q) : q[i] # p[Len(p)])
                  /\ p = Append(q, p[Len(p)])
<1> DEFINE n == Len(p)
           q == [i \in 1 .. n - 1 |-> p[i]]
<1>1. p \in Seq(Widget) /\ n \in Nat /\ n > 1 /\ \A i \in 1 .. n : p[i] \in Widget
  BY DEF Walk
<1>2. q \in Seq(Widget) /\ Len(q) = n - 1 /\ \A i \in 1 .. n - 1 : q[i] = p[i]
  BY <1>1
<1>3. p = Append(q, p[n])
  <2>1. Append(q, p[n]) \in Seq(Widget) /\ Len(Append(q, p[n])) = n
        /\ \A i \in 1 .. n : Append(q, p[n])[i] = p[i]
    BY <1>1, <1>2
  <2> HIDE DEF q
  <2> QED BY <1>1, <2>1, SeqEqual
<1> HIDE DEF q
<1>4. Walk(q)
  <2>1. 1 \in 1 .. n - 1 /\ Len(q) >= 1
    BY <1>1, <1>2
  <2>2. \A i \in 1 .. Len(q) - 1 : i \in 1 .. n - 1 /\ i + 1 \in 1 .. n - 1
    BY <1>1, <1>2
  <2>3. \A i \in 1 .. Len(q) : i \in 1 .. n /\ i \in 1 .. n - 1 /\ \A j \in 1 .. i - 1 : j \in 1 .. n - 1
    BY <1>1, <1>2
  <2> QED BY <1>2, <2>1, <2>2, <2>3 DEF Walk
<1>5. KindOf(q[Len(q)]) # "dac" /\ p[n] \in Followed(Conns(q[Len(q)]))
  <2>1. n - 1 \in 1 .. n - 1 /\ n - 1 + 1 = n
    BY <1>1
  <2> QED BY <1>2, <2>1 DEF Walk
<1>6. \A i \in 1 .. Len(q) : q[i] # p[n]
  <2>1. n \in 1 .. n
    BY <1>1
  <2> QED BY <1>2, <2>1 DEF Walk
<1>7. p[n] \in Widget
  BY <1>1
<1> QED BY <1>2, <1>3, <1>4, <1>5, <1>6, <1>7

\* Way[n] are those of n widgets.
LEMMA WayFacts ==
    ASSUME NEW n \in 1 .. MaxDepth + 1
    PROVE  \A p : p \in Way[n] <=> Walk(p) /\ Len(p) = n
<1> DEFINE S == {m \in 1 .. MaxDepth + 1 : ~ \A p : p \in Way[m] <=> Walk(p) /\ Len(p) = m}
<1>a. \A m \in 1 .. MaxDepth + 1 : Way[m] = IF m = 1 THEN Pins ELSE Extended(Way[m - 1])
  BY WayDef DEF AreWays
<1>1. SUFFICES ASSUME S # {} PROVE FALSE
  OBVIOUS
<1>2. PICK m \in S : \A j \in S : m <= j
  <2>1. S \in SUBSET Nat
    OBVIOUS
  <2> HIDE DEF S
  <2> QED BY <1>1, <2>1, MinExists
<1>3. CASE m = 1
  <2>1. Way[1] = Pins
    BY <1>a, <1>2, <1>3
  <2>2. ASSUME NEW p PROVE p \in Pins <=> Walk(p) /\ Len(p) = 1
    <3>1. ASSUME p \in Pins PROVE Walk(p) /\ Len(p) = 1
      <4>1. PICK w \in OutPin : p = <<w>>
        BY <3>1 DEF Pins
      <4>2. w \in Widget
        BY DEF OutPin
      <4>3. p \in Seq(Widget) /\ Len(p) = 1 /\ p[1] = w
        BY <4>1, <4>2
      <4> QED BY <4>3 DEF Walk
    <3>2. ASSUME Walk(p), Len(p) = 1 PROVE p \in Pins
      <4>1. p \in Seq(Widget) /\ p[1] \in OutPin
        BY <3>2 DEF Walk
      <4>2. p = <<p[1]>>
        BY <3>2, <4>1
      <4> QED BY <4>1, <4>2 DEF Pins
    <3> QED BY <3>1, <3>2
  <2> QED BY <1>2, <1>3, <2>1, <2>2
<1>4. CASE m # 1
  <2> DEFINE k == m - 1
  <2>1. MaxDepth \in Nat /\ m \in 1 .. MaxDepth + 1
    BY <1>2, DepthAssumption
  <2>2. k \in 1 .. MaxDepth + 1 /\ k \notin S /\ m = k + 1
    BY <1>2, <1>4, <2>1
  <2>3. \A p : p \in Way[k] <=> Walk(p) /\ Len(p) = k
    BY <2>2
  <2>4. Way[m] = Extended(Way[k])
    BY <1>a, <1>4, <2>1
  <2> HIDE DEF k
  <2>5. ASSUME NEW p PROVE p \in Way[m] <=> Walk(p) /\ Len(p) = m
    <3>1. ASSUME p \in Way[m] PROVE Walk(p) /\ Len(p) = m
      <4>1. PICK q \in Way[k] : KindOf(Last(q)) # "dac"
              /\ \E w \in (Followed(Conns(Last(q))) \cap Widget) \ ToSet(q) : p = Append(q, w)
        BY <2>4, <3>1 DEF Extended
      <4>2. PICK w \in (Followed(Conns(Last(q))) \cap Widget) \ ToSet(q) : p = Append(q, w)
        BY <4>1
      <4>3. Walk(q) /\ Len(q) = k /\ Last(q) = q[Len(q)]
        BY <2>3 DEF Last
      <4>4. \A i \in 1 .. Len(q) : q[i] # w
        <5>1. DOMAIN q = 1 .. Len(q)
          BY <4>3 DEF Walk
        <5> QED BY <5>1 DEF ToSet
      <4>5. Walk(Append(q, w)) /\ Len(Append(q, w)) = Len(q) + 1
        BY <4>1, <4>3, <4>4, WalkMore
      <4> QED BY <2>2, <4>2, <4>3, <4>5
    <3>2. ASSUME Walk(p), Len(p) = m PROVE p \in Way[m]
      <4>0. m > 1
        BY <1>4, <2>1
      <4>1. PICK q : /\ Walk(q) /\ Len(q) = Len(p) - 1 /\ KindOf(q[Len(q)]) # "dac"
                     /\ p[Len(p)] \in Followed(Conns(q[Len(q)])) /\ p[Len(p)] \in Widget
                     /\ (\A i \in 1 .. Len(q) : q[i] # p[Len(p)])
                     /\ p = Append(q, p[Len(p)])
        BY <3>2, <4>0, WalkLess
      <4>2. Len(q) = k
        BY <2>1, <2>2, <3>2, <4>1
      <4>3. q \in Way[k] /\ Last(q) = q[Len(q)]
        BY <2>3, <4>1, <4>2 DEF Last
      <4>4. p[Len(p)] \notin ToSet(q)
        <5>1. DOMAIN q = 1 .. Len(q)
          BY <4>1 DEF Walk
        <5> QED BY <4>1, <5>1 DEF ToSet
      <4>5. p \in Extended(Way[k])
        BY <4>1, <4>3, <4>4 DEF Extended
      <4> QED BY <2>4, <4>5
    <3> QED BY <3>1, <3>2
  <2> QED BY <1>2, <2>5
<1> QED BY <1>3, <1>4

\* The ways that the search is to find.
IsWay(p) == Walk(p) /\ Len(p) \in 2 .. MaxDepth + 1 /\ KindOf(p[Len(p)]) = "dac"

\* Ways is the set of them.
LEMMA WaysFacts == \A p : p \in Ways <=> IsWay(p)
<1>1. \A n \in 2 .. MaxDepth + 1 : n \in 1 .. MaxDepth + 1
  BY DepthAssumption
<1>2. \A n \in 2 .. MaxDepth + 1 : \A p : p \in Way[n] <=> Walk(p) /\ Len(p) = n
  BY <1>1, WayFacts
<1>3. ASSUME NEW p PROVE p \in Ways <=> IsWay(p)
  <2>1. p \in Ways <=> \E n \in 2 .. MaxDepth + 1 : p \in Way[n] /\ KindOf(p[Len(p)]) = "dac"
    BY DEF Ways, Last
  <2> QED BY <1>2, <2>1 DEF IsWay
<1> QED BY <1>3

\* It has a pin and a converter at least.
LEMMA WayLength == ASSUME NEW p, IsWay(p) PROVE Walk(p) /\ Len(p) \in Nat /\ Len(p) >= 2
<1>1. Walk(p) /\ Len(p) \in 2 .. MaxDepth + 1
  BY DEF IsWay
<1>2. MaxDepth \in Nat
  BY DepthAssumption
<1>3. \A n \in 2 .. MaxDepth + 1 : n \in Nat /\ n >= 2
  BY <1>2
<1> QED BY <1>1, <1>3

-----------------------------------------------------------------------------
(* What the search has found and what it will find *)

\* The first i widgets of p, not all of it, are those of the stack s.
Along(s, p, i) == i \in 1 .. Len(p) - 1 /\ \A j \in 1 .. i : p[j] = s[j].widget

\* A way whose pin has its turn to come, or that leaves the stack for a node that
\* a list has still to give.
Pending(t, s, p) ==
    \/ \E k \in t + 1 .. Len(outputNids) : p[1] = outputNids[k]
    \/ \E i \in 1 .. Len(s) : Along(s, p, i) /\ p[i + 1] \in Remaining(s[i])

FoundAll(t, s, ps) ==
    /\ \A i \in 1 .. Len(s) : Remaining(s[i]) \subseteq Followed(Conns(s[i].widget))
    /\ \A i \in 1 .. Len(s) - 1 : s[i + 1].widget \in Followed(Conns(s[i].widget))
    /\ \A k \in 1 .. Len(ps) : IsWay(ps[k])
    /\ \A p : IsWay(p) /\ ~Pending(t, s, p) => \E k \in 1 .. Len(ps) : ps[k] = p

FoundOnce(t, s, ps) ==
    /\ \A i \in 1 .. Len(s) : RestOnce(s[i])
    /\ \A i \in 1 .. Len(s) - 1 : s[i + 1].widget \notin Remaining(s[i])
    /\ s # <<>> => t \in 1 .. Len(outputNids) /\ s[1].widget = outputNids[t]
    /\ \A i, k \in 1 .. Len(ps) : i # k => ps[i] # ps[k]
    /\ \A k \in 1 .. Len(ps) : ~Pending(t, s, ps[k])

\* The pins are known, each once, and so are the nodes of a list.
PinsKnown == \A w \in OutPin : \E k \in 1 .. Len(outputNids) : outputNids[k] = w
PinsOnce == \A i, k \in 1 .. Len(outputNids) : i # k => outputNids[i] # outputNids[k]
ListsOnce == \A w \in Widget : NamesOnce(Conns(w))

\* Before the first turn every way is pending.
LEMMA NothingFound ==
    ASSUME CodecTyped, PinsKnown
    PROVE  FoundAll(0, <<>>, <<>>) /\ FoundOnce(0, <<>>, <<>>)
<1>1. Len(outputNids) \in Nat /\ \A i \in 1 .. 0 : FALSE
  BY DEF CodecTyped
<1>2. Len(<<>>) = 0
  OBVIOUS
<1>3. ASSUME NEW p, IsWay(p) PROVE Pending(0, <<>>, p)
  <2>1. p[1] \in OutPin
    BY <1>3 DEF IsWay, Walk
  <2>2. PICK k \in 1 .. Len(outputNids) : outputNids[k] = p[1]
    BY <2>1 DEF PinsKnown
  <2>3. k \in 0 + 1 .. Len(outputNids)
    BY <1>1
  <2> QED BY <2>2, <2>3 DEF Pending
<1>4. \A i \in 1 .. 0 - 1 : FALSE
  OBVIOUS
<1> QED BY <1>1, <1>2, <1>3, <1>4 DEF FoundAll, FoundOnce

\* A pin's turn.
LEMMA TurnFound ==
    ASSUME CodecTyped, NEW t \in 0 .. Len(outputNids), t < Len(outputNids), NEW ps,
           FoundAll(t, <<>>, ps),
           NEW s, s = IF KindOf(outputNids[t + 1]) = "outPin" THEN <<Fresh(outputNids[t + 1])>> ELSE <<>>
    PROVE  /\ FoundAll(t + 1, s, ps)
           /\ FoundOnce(t, <<>>, ps) => FoundOnce(t + 1, s, ps)
<1> DEFINE w == outputNids[t + 1]
<1>1. Len(outputNids) \in Nat /\ t \in Nat /\ t + 1 \in 1 .. Len(outputNids) /\ w \in Widget
  BY DEF CodecTyped
<1>2. /\ \A k \in 1 .. Len(ps) : IsWay(ps[k])
      /\ \A p : IsWay(p) /\ ~Pending(t, <<>>, p) => \E k \in 1 .. Len(ps) : ps[k] = p
  BY DEF FoundAll
<1>3. \A p : Pending(t, <<>>, p) <=> p[1] = w \/ \E k \in t + 1 + 1 .. Len(outputNids) : p[1] = outputNids[k]
  <2> TAKE p
  <2>1. \A i \in 1 .. Len(<<>>) : FALSE
    OBVIOUS
  <2>2. \A k \in t + 1 .. Len(outputNids) : k = t + 1 \/ k \in t + 1 + 1 .. Len(outputNids)
    BY <1>1
  <2>3. t + 1 \in t + 1 .. Len(outputNids) /\ \A k \in t + 1 + 1 .. Len(outputNids) : k \in t + 1 .. Len(outputNids)
    BY <1>1
  <2> QED BY <2>1, <2>2, <2>3 DEF Pending
<1> HIDE DEF w
<1>4. CASE KindOf(w) = "outPin"
  <2> DEFINE f == Fresh(w)
  <2>1. f.widget = w /\ Remaining(f) = Followed(Conns(w)) /\ RestOnce(f)
    BY <1>1, RemainingFresh, FreshOnce DEF Fresh
  <2> HIDE DEF f
  <2>2. s = <<f>> /\ Len(s) = 1 /\ s[1] = f
    BY <1>4 DEF f, w
  <2>3. \A i \in 1 .. Len(s) : i = 1 /\ s[i] = f
    BY <2>2
  <2>4. \A i \in 1 .. Len(s) - 1 : FALSE
    BY <2>2
  <2>5. ASSUME NEW p, Pending(t + 1, s, p) PROVE Pending(t, <<>>, p)
    <3>1. CASE \E k \in t + 1 + 1 .. Len(outputNids) : p[1] = outputNids[k]
      BY <1>3, <3>1
    <3>2. CASE \E i \in 1 .. Len(s) : Along(s, p, i)
      <4>1. Along(s, p, 1)
        BY <2>3, <3>2
      <4>2. p[1] = s[1].widget
        BY <4>1 DEF Along
      <4> QED BY <1>3, <2>1, <2>2, <4>2
    <3> QED BY <2>5, <3>1, <3>2 DEF Pending
  <2>6. ASSUME NEW p, IsWay(p), Pending(t, <<>>, p) PROVE Pending(t + 1, s, p)
    <3>1. CASE p[1] = w
      <4>1. Walk(p) /\ Len(p) \in Nat /\ Len(p) >= 2
        BY <2>6, WayLength
      <4>2. 1 \in 1 .. Len(p) - 1
        BY <4>1
      <4>3. p[1 + 1] \in Followed(Conns(p[1]))
        BY <4>1, <4>2 DEF Walk
      <4>4. Along(s, p, 1)
        BY <2>1, <2>2, <3>1, <4>2 DEF Along
      <4>5. p[1 + 1] \in Remaining(s[1]) /\ 1 \in 1 .. Len(s)
        BY <2>1, <2>2, <3>1, <4>3
      <4> QED BY <4>4, <4>5 DEF Pending
    <3>2. CASE \E k \in t + 1 + 1 .. Len(outputNids) : p[1] = outputNids[k]
      BY <3>2 DEF Pending
    <3> QED BY <1>3, <2>6, <3>1, <3>2
  <2>7. FoundAll(t + 1, s, ps)
    <3>1. \A p : IsWay(p) /\ ~Pending(t + 1, s, p) => ~Pending(t, <<>>, p)
      BY <2>6
    <3> QED BY <1>2, <2>1, <2>3, <2>4, <3>1 DEF FoundAll
  <2>8. ASSUME FoundOnce(t, <<>>, ps) PROVE FoundOnce(t + 1, s, ps)
    <3>1. s[1].widget = outputNids[t + 1]
      BY <2>1, <2>2 DEF w
    <3>2. \A k \in 1 .. Len(ps) : ~Pending(t + 1, s, ps[k])
      BY <2>5, <2>8 DEF FoundOnce
    <3> QED BY <1>1, <2>1, <2>3, <2>4, <2>8, <3>1, <3>2 DEF FoundOnce
  <2> QED BY <2>7, <2>8
<1>5. CASE KindOf(w) # "outPin"
  <2>1. s = <<>>
    BY <1>5 DEF w
  <2>2. ASSUME NEW p PROVE Pending(t + 1, s, p) <=> \E k \in t + 1 + 1 .. Len(outputNids) : p[1] = outputNids[k]
    <3>1. \A i \in 1 .. Len(<<>>) : FALSE
      OBVIOUS
    <3> QED BY <2>1, <3>1 DEF Pending
  <2>3. \A p : Pending(t + 1, s, p) => Pending(t, <<>>, p)
    BY <1>3, <2>2
  <2>4. \A p : IsWay(p) => p[1] # w
    BY <1>5 DEF IsWay, Walk, OutPin
  <2>5. \A p : IsWay(p) /\ Pending(t, <<>>, p) => Pending(t + 1, s, p)
    BY <1>3, <2>2, <2>4
  <2>6. FoundAll(t + 1, s, ps)
    BY <1>2, <2>1, <2>5 DEF FoundAll
  <2>7. FoundOnce(t, <<>>, ps) => FoundOnce(t + 1, s, ps)
    BY <2>1, <2>3 DEF FoundOnce
  <2> QED BY <2>6, <2>7
<1> QED BY <1>4, <1>5

\* A list that is read out has nothing to give.
LEMMA PopFound ==
    ASSUME CodecTyped, NEW t, NEW s \in Seq(StackEntry), s # <<>>, ReadOut(s[Len(s)]), NEW ps,
           FoundAll(t, s, ps), NEW r, r = SubSeq(s, 1, Len(s) - 1)
    PROVE  /\ FoundAll(t, r, ps)
           /\ FoundOnce(t, s, ps) => FoundOnce(t, r, ps)
<1>1. Len(s) \in Nat /\ Len(s) >= 1
  OBVIOUS
<1>2. Len(r) = Len(s) - 1 /\ \A i \in 1 .. Len(r) : r[i] = s[i]
  BY <1>1, ButLast
<1>3. /\ \A i \in 1 .. Len(r) : i \in 1 .. Len(s)
      /\ \A i \in 1 .. Len(r) - 1 : i \in 1 .. Len(s) - 1 /\ i \in 1 .. Len(r) /\ i + 1 \in 1 .. Len(r)
      /\ \A i \in 1 .. Len(s) : i = Len(s) \/ i \in 1 .. Len(r)
      /\ \A i \in 1 .. Len(r) : \A j \in 1 .. i : j \in 1 .. Len(r)
  BY <1>1, <1>2
<1>4. \A p : \A i \in 1 .. Len(r) : Along(s, p, i) <=> Along(r, p, i)
  BY <1>2, <1>3 DEF Along
<1>5. Remaining(s[Len(s)]) = {}
  BY DEF Remaining
<1>6. \A p : Pending(t, s, p) <=> Pending(t, r, p)
  <2> TAKE p
  <2>1. ASSUME NEW i \in 1 .. Len(s), Along(s, p, i), p[i + 1] \in Remaining(s[i])
        PROVE  i \in 1 .. Len(r) /\ Along(r, p, i) /\ p[i + 1] \in Remaining(r[i])
    BY <1>2, <1>3, <1>4, <1>5, <2>1
  <2>2. ASSUME NEW i \in 1 .. Len(r), Along(r, p, i), p[i + 1] \in Remaining(r[i])
        PROVE  i \in 1 .. Len(s) /\ Along(s, p, i) /\ p[i + 1] \in Remaining(s[i])
    BY <1>2, <1>3, <1>4, <2>2
  <2> QED BY <2>1, <2>2 DEF Pending
<1>7. FoundAll(t, r, ps)
  BY <1>2, <1>3, <1>6 DEF FoundAll
<1>8. ASSUME FoundOnce(t, s, ps) PROVE FoundOnce(t, r, ps)
  <2>1. r # <<>> => 1 \in 1 .. Len(r)
    BY <1>1, <1>2
  <2>2. r # <<>> => t \in 1 .. Len(outputNids) /\ r[1].widget = outputNids[t]
    BY <1>2, <1>8, <2>1 DEF FoundOnce
  <2> QED BY <1>2, <1>3, <1>6, <1>8, <2>2 DEF FoundOnce
<1> QED BY <1>7, <1>8

\* The ways from the stack through the node that the top is at.
Through(s, p, h) == Along(s, p, Len(s)) /\ p[Len(s) + 1] = h

\* Taking that node leaves the other ways pending.
Takes(t, s, h, r) ==
    /\ Len(r) = Len(s) /\ \A i \in 1 .. Len(s) : r[i].widget = s[i].widget
    /\ \A i \in 1 .. Len(s) : Remaining(r[i]) \subseteq Remaining(s[i])
    /\ \A p : Pending(t, s, p) <=> Pending(t, r, p) \/ Through(s, p, h)

\* A step of the top along its list takes the node it is at.
LEMMA TakenFound ==
    ASSUME CodecTyped, NEW t, NEW s \in Seq(StackEntry), s # <<>>,
           NEW e, e = s[Len(s)], EntryOK(e), ~ReadOut(e),
           NEW r, r = [s EXCEPT ![Len(s)] = Advanced(e)]
    PROVE  Takes(t, s, Decode(e).cur, r) /\ Decode(e).cur \in Remaining(e)
<1>1. Len(s) \in Nat /\ Len(s) \in 1 .. Len(s)
  OBVIOUS
<1> DEFINE a == Advanced(e)
           h == Decode(e).cur
<1>2. Remaining(e) = {h} \cup Remaining(a) /\ a.widget = e.widget
  BY RemainingStep, DecodeFacts
<1> HIDE DEF a, h
<1>3. Len(r) = Len(s) /\ \A i \in 1 .. Len(s) : r[i] = IF i = Len(s) THEN a ELSE s[i]
  BY <1>1 DEF a
<1>4. \A i \in 1 .. Len(s) : r[i].widget = s[i].widget
  BY <1>2, <1>3
<1>5. \A i \in 1 .. Len(s) : Remaining(r[i]) \subseteq Remaining(s[i])
  BY <1>2, <1>3
<1>6. \A i \in 1 .. Len(s) : \A j \in 1 .. i : j \in 1 .. Len(s)
  BY <1>1
<1>7. \A p : \A i \in 1 .. Len(s) : Along(s, p, i) <=> Along(r, p, i)
  BY <1>4, <1>6 DEF Along
<1>8. ASSUME NEW p PROVE Pending(t, s, p) <=> Pending(t, r, p) \/ Through(s, p, h)
  <2>1. ASSUME NEW i \in 1 .. Len(s), Along(s, p, i), p[i + 1] \in Remaining(s[i])
        PROVE  Through(s, p, h) \/ (Along(r, p, i) /\ p[i + 1] \in Remaining(r[i]))
    BY <1>2, <1>3, <1>7, <2>1 DEF Through
  <2>2. ASSUME NEW i \in 1 .. Len(s), Along(r, p, i), p[i + 1] \in Remaining(r[i])
        PROVE  Along(s, p, i) /\ p[i + 1] \in Remaining(s[i])
    BY <1>5, <1>7, <2>2
  <2>3. ASSUME Through(s, p, h) PROVE Along(s, p, Len(s)) /\ p[Len(s) + 1] \in Remaining(s[Len(s)])
    BY <1>2, <2>3 DEF Through
  <2> QED BY <1>1, <1>3, <2>1, <2>2, <2>3 DEF Pending
<1> QED BY <1>2, <1>3, <1>4, <1>5, <1>8 DEF Takes, a, h

\* The top has given a node that no way goes on with, or that ends a way found.
LEMMA TakenAll ==
    ASSUME CodecTyped, NEW t, NEW s \in Seq(StackEntry), s # <<>>,
           NEW e, e = s[Len(s)], EntryOK(e), ~ReadOut(e),
           NEW r, r = [s EXCEPT ![Len(s)] = Advanced(e)],
           NEW ps, NEW qs, FoundAll(t, s, ps),
           \A k \in 1 .. Len(ps) : \E i \in 1 .. Len(qs) : qs[i] = ps[k],
           \A i \in 1 .. Len(qs) : IsWay(qs[i]),
           \A p : IsWay(p) /\ Through(s, p, Decode(e).cur) => \E i \in 1 .. Len(qs) : qs[i] = p
    PROVE  FoundAll(t, r, qs)
<1>1. /\ Len(r) = Len(s) /\ \A i \in 1 .. Len(s) : r[i].widget = s[i].widget
      /\ \A i \in 1 .. Len(s) : Remaining(r[i]) \subseteq Remaining(s[i])
      /\ \A p : Pending(t, s, p) <=> Pending(t, r, p) \/ Through(s, p, Decode(e).cur)
  <2>1. Takes(t, s, Decode(e).cur, r)
    BY TakenFound
  <2> QED BY <2>1 DEF Takes
<1>2. \A i \in 1 .. Len(s) : Remaining(r[i]) \subseteq Followed(Conns(r[i].widget))
  BY <1>1 DEF FoundAll
<1>3. \A i \in 1 .. Len(s) - 1 : r[i + 1].widget \in Followed(Conns(r[i].widget))
  <2>1. \A i \in 1 .. Len(s) - 1 : i \in 1 .. Len(s) /\ i + 1 \in 1 .. Len(s)
    OBVIOUS
  <2> QED BY <1>1, <2>1 DEF FoundAll
<1>4. ASSUME NEW p, IsWay(p), ~Pending(t, r, p) PROVE \E i \in 1 .. Len(qs) : qs[i] = p
  <2>1. CASE Pending(t, s, p)
    BY <1>1, <1>4, <2>1
  <2>2. CASE ~Pending(t, s, p)
    <3>1. \E k \in 1 .. Len(ps) : ps[k] = p
      BY <1>4, <2>2 DEF FoundAll
    <3> QED BY <3>1
  <2> QED BY <2>1, <2>2
<1> QED BY <1>1, <1>2, <1>3, <1>4 DEF FoundAll

\* No way through that node is pending any more.
TakesOnce(t, s, h, r, ps) ==
    /\ FoundOnce(t, r, ps)
    /\ h \notin Remaining(r[Len(s)])
    /\ \A p : Through(s, p, h) => ~Pending(t, r, p)

\* In lists that name a node once, it takes it for good.
LEMMA TakenOnce ==
    ASSUME CodecTyped, ListsOnce, PinsOnce, NEW t, NEW s \in Seq(StackEntry), s # <<>>,
           NEW e, e = s[Len(s)], EntryOK(e), ~ReadOut(e),
           NEW r, r = [s EXCEPT ![Len(s)] = Advanced(e)],
           NEW ps, FoundOnce(t, s, ps)
    PROVE  TakesOnce(t, s, Decode(e).cur, r, ps)
<1> DEFINE h == Decode(e).cur
           a == Advanced(e)
<1>1. Len(s) \in Nat /\ Len(s) \in 1 .. Len(s) /\ 1 \in 1 .. Len(s)
  OBVIOUS
<1>2. /\ Len(r) = Len(s) /\ \A i \in 1 .. Len(s) : r[i].widget = s[i].widget
      /\ \A i \in 1 .. Len(s) : Remaining(r[i]) \subseteq Remaining(s[i])
      /\ \A p : Pending(t, s, p) <=> Pending(t, r, p) \/ Through(s, p, h)
  <2>1. Takes(t, s, h, r)
    BY TakenFound
  <2> QED BY <2>1 DEF Takes
<1>3. e.widget \in Widget
  BY DEF EntryOK, StackEntry
<1>4. RestOnce(a) /\ h \notin Remaining(a)
  <2>1. RestOnce(e) /\ NamesOnce(Conns(e.widget))
    BY <1>1, <1>3 DEF FoundOnce, ListsOnce
  <2> QED BY <2>1, StepOnce
<1>5. \A i \in 1 .. Len(s) : r[i] = IF i = Len(s) THEN a ELSE s[i]
  BY <1>1
<1> HIDE DEF a, h
<1>6. \A i \in 1 .. Len(s) : RestOnce(r[i])
  BY <1>4, <1>5 DEF FoundOnce
<1>7. \A i \in 1 .. Len(s) - 1 : i \in 1 .. Len(s) /\ i + 1 \in 1 .. Len(s)
  BY <1>1
<1>8. \A i \in 1 .. Len(s) - 1 : r[i + 1].widget \notin Remaining(r[i])
  BY <1>2, <1>7 DEF FoundOnce
<1>9. t \in 1 .. Len(outputNids) /\ s[1].widget = outputNids[t]
  BY DEF FoundOnce
<1>10. FoundOnce(t, r, ps)
  <2>1. r[1].widget = s[1].widget
    BY <1>1, <1>2
  <2> QED BY <1>2, <1>6, <1>8, <1>9, <2>1 DEF FoundOnce
<1>11. ASSUME NEW p, Through(s, p, h), Pending(t, r, p) PROVE FALSE
  <2>1. \A j \in 1 .. Len(s) : p[j] = s[j].widget
    BY <1>11 DEF Through, Along
  <2>2. CASE \E k \in t + 1 .. Len(outputNids) : p[1] = outputNids[k]
    <3>1. PICK k \in t + 1 .. Len(outputNids) : outputNids[t] = outputNids[k]
      BY <1>1, <1>9, <2>1, <2>2
    <3>2. k \in 1 .. Len(outputNids) /\ k # t
      BY <1>9
    <3> QED BY <1>9, <3>1, <3>2 DEF PinsOnce
  <2>3. CASE \E i \in 1 .. Len(r) : Along(r, p, i) /\ p[i + 1] \in Remaining(r[i])
    <3>1. PICK i \in 1 .. Len(s) : p[i + 1] \in Remaining(r[i])
      BY <1>2, <2>3
    <3>2. CASE i = Len(s)
      <4>1. p[i + 1] = h /\ r[i] = a
        BY <1>5, <1>11, <3>2 DEF Through
      <4> QED BY <1>4, <3>1, <4>1
    <3>3. CASE i # Len(s)
      <4>1. i \in 1 .. Len(s) - 1 /\ i + 1 \in 1 .. Len(s)
        BY <1>1, <3>3
      <4>2. p[i + 1] = s[i + 1].widget /\ r[i + 1].widget = s[i + 1].widget
        BY <1>2, <2>1, <4>1
      <4> QED BY <1>8, <3>1, <4>1, <4>2
    <3> QED BY <3>2, <3>3
  <2> QED BY <1>11, <2>2, <2>3 DEF Pending
<1>12. r[Len(s)] = a
  BY <1>1, <1>5
<1> QED BY <1>4, <1>10, <1>11, <1>12 DEF TakesOnce, a, h

\* The node goes on the stack: the ways through it are pending behind it.
LEMMA PushFound ==
    ASSUME CodecTyped, NEW t, NEW s \in Seq(StackEntry), s # <<>>,
           NEW e, e = s[Len(s)], EntryOK(e), ~ReadOut(e),
           NEW r, r = [s EXCEPT ![Len(s)] = Advanced(e)],
           NEW h \in Widget, h = Decode(e).cur, KindOf(h) # "dac",
           NEW z, z = Append(r, Fresh(h)), r \in Seq(StackEntry),
           NEW ps, FoundAll(t, s, ps)
    PROVE  /\ FoundAll(t, z, ps)
           /\ ListsOnce /\ PinsOnce /\ FoundOnce(t, s, ps) => FoundOnce(t, z, ps)
<1> DEFINE n == Len(s)
           f == Fresh(h)
<1>1. n \in Nat /\ n \in 1 .. n /\ 1 \in 1 .. n
  OBVIOUS
<1>a. Takes(t, s, h, r) /\ h \in Remaining(e)
  BY TakenFound
<1>2. /\ Len(r) = n /\ \A i \in 1 .. n : r[i].widget = s[i].widget
      /\ \A i \in 1 .. n : Remaining(r[i]) \subseteq Remaining(s[i])
      /\ \A p : Pending(t, s, p) <=> Pending(t, r, p) \/ Through(s, p, h)
      /\ h \in Remaining(e)
  BY <1>a DEF Takes
<1>3. f.widget = h /\ Remaining(f) = Followed(Conns(h)) /\ RestOnce(f)
  BY RemainingFresh, FreshOnce DEF Fresh
<1>b. Fresh(h) \in StackEntry
  BY FreshOK DEF EntryOK
<1>4. Len(z) = n + 1 /\ z[n + 1] = f /\ \A i \in 1 .. n : z[i] = r[i]
  <2>1. r \in Seq(StackEntry) /\ Fresh(h) \in StackEntry /\ Len(r) = n /\ z = Append(r, Fresh(h))
    BY <1>2, <1>b
  <2> HIDE DEF n
  <2> QED BY <1>1, <2>1
<1>c. e = s[n]
  OBVIOUS
<1> HIDE DEF n, f
<1>5. /\ \A i \in 1 .. Len(z) : i = n + 1 \/ i \in 1 .. n
      /\ \A i \in 1 .. Len(z) - 1 : i = n \/ (i \in 1 .. n - 1 /\ i \in 1 .. n /\ i + 1 \in 1 .. n)
      /\ \A i \in 1 .. n : i \in 1 .. Len(z) /\ \A j \in 1 .. i : j \in 1 .. n
      /\ n + 1 \in 1 .. Len(z)
  BY <1>1, <1>4
<1>6. \A p : \A i \in 1 .. n : Along(z, p, i) <=> Along(r, p, i)
  BY <1>4, <1>5 DEF Along
<1>7. ASSUME NEW p PROVE Pending(t, z, p) <=> \/ Pending(t, r, p)
                                              \/ Along(z, p, n + 1) /\ p[n + 1 + 1] \in Followed(Conns(h))
  <2>1. ASSUME NEW i \in 1 .. Len(z), Along(z, p, i), p[i + 1] \in Remaining(z[i])
        PROVE  \/ Along(z, p, n + 1) /\ p[n + 1 + 1] \in Followed(Conns(h))
               \/ i \in 1 .. Len(r) /\ Along(r, p, i) /\ p[i + 1] \in Remaining(r[i])
    BY <1>2, <1>3, <1>4, <1>5, <1>6, <2>1 DEF n
  <2>2. ASSUME NEW i \in 1 .. Len(r), Along(r, p, i), p[i + 1] \in Remaining(r[i])
        PROVE  i \in 1 .. Len(z) /\ Along(z, p, i) /\ p[i + 1] \in Remaining(z[i])
    <3>1. i \in 1 .. n
      BY <1>2
    <3> QED BY <1>4, <1>5, <1>6, <2>2, <3>1
  <2>3. ASSUME Along(z, p, n + 1), p[n + 1 + 1] \in Followed(Conns(h))
        PROVE  \E i \in 1 .. Len(z) : Along(z, p, i) /\ p[i + 1] \in Remaining(z[i])
    BY <1>3, <1>4, <1>5, <2>3
  <2> QED BY <2>1, <2>2, <2>3 DEF Pending
<1>8. ASSUME NEW p, Len(p) \in Nat, Along(z, p, n + 1) PROVE Through(s, p, h)
  <2>1. n + 1 \in 1 .. Len(p) - 1 /\ \A j \in 1 .. n + 1 : p[j] = z[j].widget
    BY <1>8 DEF Along
  <2>2. n + 1 \in 1 .. n + 1 /\ \A j \in 1 .. n : j \in 1 .. n + 1
    BY <1>1
  <2>3. p[n + 1] = h
    BY <1>3, <1>4, <2>1, <2>2
  <2>4. \A j \in 1 .. n : p[j] = s[j].widget
    BY <1>2, <1>4, <2>1, <2>2, ZenonT(40) DEF n
  <2>5. n \in 1 .. Len(p) - 1
    BY <1>1, <1>8, <2>1
  <2> QED BY <2>3, <2>4, <2>5 DEF Through, Along, n
<1>9. \A i \in 1 .. Len(z) : Remaining(z[i]) \subseteq Followed(Conns(z[i].widget))
  <2> TAKE i \in 1 .. Len(z)
  <2>1. CASE i = n + 1
    BY <1>3, <1>4, <2>1
  <2>2. CASE i \in 1 .. n
    <3>1. Remaining(s[i]) \subseteq Followed(Conns(s[i].widget))
      BY <2>2 DEF FoundAll, n
    <3> QED BY <1>2, <1>4, <2>2, <3>1 DEF n
  <2> QED BY <1>5, <2>1, <2>2
<1>10. \A i \in 1 .. Len(z) - 1 : z[i + 1].widget \in Followed(Conns(z[i].widget))
  <2> TAKE i \in 1 .. Len(z) - 1
  <2>1. CASE i = n
    <3>1. h \in Followed(Conns(e.widget))
      BY <1>1, <1>2, <1>c DEF FoundAll, n
    <3>2. z[i].widget = e.widget /\ z[i + 1].widget = h
      BY <1>1, <1>2, <1>3, <1>4, <1>c, <2>1 DEF n
    <3> QED BY <3>1, <3>2
  <2>2. CASE i \in 1 .. n - 1 /\ i \in 1 .. n /\ i + 1 \in 1 .. n
    <3>1. s[i + 1].widget \in Followed(Conns(s[i].widget))
      BY <2>2 DEF FoundAll, n
    <3> QED BY <1>2, <1>4, <2>2, <3>1 DEF n
  <2> QED BY <1>5, <2>1, <2>2
<1>11. ASSUME NEW p, IsWay(p), ~Pending(t, z, p) PROVE \E k \in 1 .. Len(ps) : ps[k] = p
  <2>1. ~Pending(t, r, p)
    BY <1>7, <1>11
  <2>2. ASSUME Through(s, p, h) PROVE FALSE
    <3>1. Walk(p) /\ Len(p) \in Nat /\ KindOf(p[Len(p)]) = "dac"
      BY <1>11, WayLength DEF IsWay
    <3>2. n \in 1 .. Len(p) - 1 /\ (\A j \in 1 .. n : p[j] = s[j].widget) /\ p[n + 1] = h
      BY <2>2 DEF Through, Along, n
    <3>3. n + 1 # Len(p)
      BY <3>1, <3>2
    <3>4. n + 1 \in 1 .. Len(p) - 1
      BY <1>1, <3>1, <3>2, <3>3
    <3>5. p[n + 1 + 1] \in Followed(Conns(h))
      BY <3>1, <3>2, <3>4 DEF Walk
    <3>6. Along(z, p, n + 1)
      <4>1. \A j \in 1 .. n + 1 : j = n + 1 \/ j \in 1 .. n
        BY <1>1
      <4> QED BY <1>2, <1>3, <1>4, <3>2, <3>4, <4>1 DEF Along, n
    <3> QED BY <1>7, <1>11, <3>5, <3>6
  <2>3. ~Pending(t, s, p)
    BY <1>2, <2>1, <2>2
  <2> QED BY <1>11, <2>3 DEF FoundAll
<1>12. \A k \in 1 .. Len(ps) : IsWay(ps[k])
  BY DEF FoundAll
<1>13. ASSUME ListsOnce, PinsOnce, FoundOnce(t, s, ps) PROVE FoundOnce(t, z, ps)
  <2>1. FoundOnce(t, r, ps) /\ h \notin Remaining(r[n])
    <3>1. TakesOnce(t, s, h, r, ps)
      BY <1>13, TakenOnce
    <3> QED BY <3>1 DEF TakesOnce, n
  <2>2. \A i \in 1 .. Len(z) : RestOnce(z[i])
    <3>1. \A i \in 1 .. n : RestOnce(r[i])
      BY <1>2, <2>1 DEF FoundOnce
    <3> QED BY <1>3, <1>4, <1>5, <3>1
  <2>3. \A i \in 1 .. Len(z) - 1 : z[i + 1].widget \notin Remaining(z[i])
    <3> TAKE i \in 1 .. Len(z) - 1
    <3>1. CASE i = n
      BY <1>1, <1>3, <1>4, <2>1, <3>1
    <3>2. CASE i \in 1 .. n - 1 /\ i \in 1 .. n /\ i + 1 \in 1 .. n
      <4>1. r[i + 1].widget \notin Remaining(r[i])
        BY <1>2, <2>1, <3>2 DEF FoundOnce
      <4> QED BY <1>4, <3>2, <4>1
    <3> QED BY <1>5, <3>1, <3>2
  <2>4. t \in 1 .. Len(outputNids) /\ z[1].widget = outputNids[t]
    <3>1. t \in 1 .. Len(outputNids) /\ s[1].widget = outputNids[t]
      BY <1>13 DEF FoundOnce
    <3> QED BY <1>1, <1>2, <1>4, <3>1 DEF n
  <2>5. \A k \in 1 .. Len(ps) : ~Pending(t, z, ps[k])
    <3>1. \A k \in 1 .. Len(ps) : Len(ps[k]) \in Nat
      BY <1>12, WayLength
    <3> QED BY <3>1, <1>2, <1>7, <1>8, <1>13 DEF FoundOnce
  <2> QED BY <1>13, <2>2, <2>3, <2>4, <2>5 DEF FoundOnce
<1> QED BY <1>9, <1>10, <1>11, <1>12, <1>13 DEF FoundAll

\* The size of an interval of numbers.
LEMMA Counted ==
    ASSUME NEW a \in 0 .. 1, NEW b \in Nat
    PROVE  IsFiniteSet(a .. b) /\ Cardinality(a .. b) = b - a + 1
<1>1. a \in Int /\ b \in Int /\ (a > b => b - a + 1 = 0)
  OBVIOUS
<1>2. IsFiniteSet(a .. b) /\ Cardinality(a .. b) = IF a > b THEN 0 ELSE b - a + 1
  BY <1>1, FS_Interval
<1> QED BY <1>1, <1>2

\* Distinct elements are as many as the sequence is long.
LEMMA DistinctCount ==
    ASSUME NEW S, NEW o \in Seq(S), \A i, k \in DOMAIN o : i # k => o[i] # o[k]
    PROVE  IsFiniteSet(ToSet(o)) /\ Cardinality(ToSet(o)) = Len(o)
<1>1. DOMAIN o = 1 .. Len(o) /\ Len(o) \in Nat
  OBVIOUS
<1>2. o \in [1 .. Len(o) -> ToSet(o)]
  BY <1>1 DEF ToSet
<1>3. o \in Injection(1 .. Len(o), ToSet(o))
  BY <1>1, <1>2 DEF Injection, IsInjective
<1>4. o \in Surjection(1 .. Len(o), ToSet(o))
  BY <1>1, <1>2 DEF Surjection, ToSet
<1>5. o \in Bijection(1 .. Len(o), ToSet(o))
  BY <1>3, <1>4 DEF Bijection
<1>6. IsFiniteSet(1 .. Len(o)) /\ Cardinality(1 .. Len(o)) = Len(o)
  <2>1. 1 \in 0 .. 1
    OBVIOUS
  <2> QED BY <1>1, <2>1, Counted
<1> QED BY <1>5, <1>6, FS_Bijection DEF ExistsBijection

\* A way through a node that is not a converter goes on behind it.
LEMMA ThroughFacts ==
    ASSUME CodecTyped, NEW s \in Seq(StackEntry), NEW h, NEW p, IsWay(p), Through(s, p, h)
    PROVE  /\ h \in Widget /\ \A i \in 1 .. Len(s) : p[i] = s[i].widget /\ p[i] # h
           /\ IF KindOf(h) = "dac" THEN Len(p) = Len(s) + 1 ELSE Len(s) + 1 < Len(p)
           /\ Len(p) <= MaxDepth + 1
<1> DEFINE n == Len(s)
<1>1. Walk(p) /\ Len(p) \in Nat /\ KindOf(p[Len(p)]) = "dac" /\ Len(p) \in 2 .. MaxDepth + 1 /\ MaxDepth \in Nat
  BY WayLength, DepthAssumption DEF IsWay
<1>2. n \in Nat /\ n \in 1 .. Len(p) - 1 /\ (\A j \in 1 .. n : p[j] = s[j].widget) /\ p[n + 1] = h
  BY DEF Through, Along
<1> HIDE DEF n
<1>3. n + 1 \in 1 .. Len(p) /\ \A j \in 1 .. n : j \in 1 .. n + 1 - 1
  BY <1>1, <1>2
<1>4. h \in Widget
  BY <1>1, <1>2, <1>3 DEF Walk
<1>5. \A j \in 1 .. n : p[j] # h
  BY <1>1, <1>2, <1>3 DEF Walk
<1>6. n + 1 # Len(p) => n + 1 \in 1 .. Len(p) - 1 /\ n + 1 < Len(p)
  BY <1>1, <1>2
<1>7. CASE KindOf(h) = "dac"
  <2>1. Len(p) = n + 1
    BY <1>1, <1>2, <1>6, <1>7 DEF Walk
  <2> QED BY <1>1, <1>2, <1>4, <1>5, <1>7, <2>1 DEF n
<1>8. CASE KindOf(h) # "dac"
  <2>1. Len(p) # n + 1
    BY <1>1, <1>2, <1>8
  <2> QED BY <1>1, <1>2, <1>4, <1>5, <1>6, <1>8, <2>1 DEF n
<1> QED BY <1>7, <1>8

\* The stack and a converter that its top is at are a way.
OnlyWay(s, h, q) == /\ IsWay(q) /\ Through(s, q, h)
                    /\ \A p : IsWay(p) /\ Through(s, p, h) => p = q

\* It is the only way through that converter.
LEMMA StackWay ==
    ASSUME CodecTyped, NEW t, NEW s, ChainOK(s), s # <<>>, NEW ps, FoundAll(t, s, ps),
           NEW h \in Widget, KindOf(h) = "dac", h \in Remaining(s[Len(s)]),
           NEW q, q = Append([i \in 1 .. Len(s) |-> s[i].widget], h)
    PROVE  OnlyWay(s, h, q)
<1> DEFINE n == Len(s)
           b == [i \in 1 .. n |-> s[i].widget]
<1>1. s \in Seq(StackEntry) /\ n \in Nat /\ n >= 1 /\ n <= MaxDepth /\ MaxDepth \in Nat
      /\ 1 \in 1 .. n /\ n \in 1 .. n
  BY DepthAssumption DEF ChainOK
<1>2. \A i \in 1 .. n : s[i].widget \in Widget
  <2> TAKE i \in 1 .. n
  <2>1. s[i] \in StackEntry
    BY <1>1
  <2> QED BY <2>1 DEF StackEntry
<1>3. b \in Seq(Widget) /\ Len(b) = n /\ \A i \in 1 .. n : b[i] = s[i].widget
  BY <1>1, <1>2
<1> HIDE DEF b
<1>4. Walk(b)
  <2>1. b[1] \in OutPin
    BY <1>1, <1>3 DEF ChainOK
  <2>2. \A i \in 1 .. n - 1 : i \in 1 .. n /\ i + 1 \in 1 .. n
    BY <1>1
  <2>3. \A i \in 1 .. n - 1 : KindOf(b[i]) # "dac" /\ b[i + 1] \in Followed(Conns(b[i]))
    BY <1>3, <2>2 DEF ChainOK, FoundAll
  <2>4. \A i \in 1 .. n : \A j \in 1 .. i - 1 : j \in 1 .. n
    BY <1>1
  <2>5. \A i \in 1 .. n : \A j \in 1 .. i - 1 : b[j] # b[i]
    BY <1>3, <2>4 DEF ChainOK
  <2> QED BY <1>1, <1>3, <2>1, <2>3, <2>5 DEF Walk
<1>5. \A i \in 1 .. n : KindOf(b[i]) # "dac" /\ b[i] # h
  BY <1>3 DEF ChainOK
<1>6. h \in Followed(Conns(b[n]))
  BY <1>1, <1>3 DEF FoundAll
<1>7. q = Append(b, h)
  BY DEF b
<1>8. Walk(q) /\ Len(q) = n + 1
  BY <1>1, <1>3, <1>4, <1>5, <1>6, <1>7, WalkMore
<1>9. q[n + 1] = h /\ \A i \in 1 .. n : q[i] = s[i].widget
  BY <1>1, <1>3, <1>7
<1> HIDE DEF n
<1>10. IsWay(q)
  <2>1. n + 1 \in 2 .. MaxDepth + 1
    BY <1>1
  <2> QED BY <1>8, <1>9, <2>1 DEF IsWay
<1>11. Through(s, q, h)
  <2>1. n \in 1 .. Len(q) - 1
    BY <1>1, <1>8
  <2> QED BY <1>9, <2>1 DEF Through, Along, n
<1>12. ASSUME NEW p, IsWay(p), Through(s, p, h) PROVE p = q
  <2>1. Len(p) = n + 1 /\ \A i \in 1 .. n : p[i] = s[i].widget
    BY <1>1, <1>12, ThroughFacts DEF n
  <2>2. p \in Seq(Widget) /\ q \in Seq(Widget)
    BY <1>8, <1>12 DEF IsWay, Walk
  <2>3. p[n + 1] = h
    BY <1>12 DEF Through, n
  <2>4. \A i \in 1 .. n + 1 : i = n + 1 \/ i \in 1 .. n
    BY <1>1
  <2>5. \A i \in 1 .. Len(p) : p[i] = q[i]
    BY <1>9, <2>1, <2>3, <2>4
  <2> QED BY <1>8, <2>1, <2>2, <2>5, SeqEqual
<1> QED BY <1>10, <1>11, <1>12 DEF OnlyWay

\* One path more.
LEMMA PathOnce ==
    ASSUME NEW t, NEW s, NEW ps \in Seq(Seq(Widget)), FoundOnce(t, s, ps),
           NEW q \in Seq(Widget), ~Pending(t, s, q), \A k \in 1 .. Len(ps) : ps[k] # q
    PROVE  FoundOnce(t, s, Append(ps, q))
<1> DEFINE r == Append(ps, q)
<1>1. Len(ps) \in Nat /\ Len(r) = Len(ps) + 1 /\ r[Len(ps) + 1] = q /\ \A k \in 1 .. Len(ps) : r[k] = ps[k]
  OBVIOUS
<1> HIDE DEF r
<1>2. \A k \in 1 .. Len(r) : k = Len(ps) + 1 \/ k \in 1 .. Len(ps)
  BY <1>1
<1>3. \A i, k \in 1 .. Len(r) : i # k => r[i] # r[k]
  BY <1>1, <1>2 DEF FoundOnce
<1>4. \A k \in 1 .. Len(r) : ~Pending(t, s, r[k])
  BY <1>1, <1>2 DEF FoundOnce
<1> QED BY <1>3, <1>4 DEF FoundOnce, r

\* A widget has one of the kinds of process_widget.
KindsKnown == \A w \in Widget : KindOf(w) \in Kind

\* The steps of find_output_paths lose no way and find none twice.
SearchFound(t, s, ps) == FoundAll(t, s, ps) /\ (ListsOnce /\ PinsOnce => FoundOnce(t, s, ps))

\* Every step of find_output_paths keeps what is found and what is pending apart.
LEMMA StepFound ==
    ASSUME SearchInv, KindsKnown, SearchStep, SearchFound(turn, stack, paths)
    PROVE  SearchFound(turn', stack', paths')
<1>1. CodecTyped /\ turn \in 0 .. Len(outputNids) /\ ChainOK(stack)
      /\ paths \in Seq(Seq(Widget)) /\ \A k \in 1 .. Len(paths) : PathOK(paths[k])
  BY DEF SearchInv
<1>2. FoundAll(turn, stack, paths) /\ (ListsOnce /\ PinsOnce => FoundOnce(turn, stack, paths))
  BY DEF SearchFound
<1>3. stack \in Seq(StackEntry) /\ Len(stack) \in Nat
  BY <1>1 DEF ChainOK
<1>4. CASE NextPin
  <2>1. /\ stack = <<>> /\ turn < Len(outputNids) /\ turn' = turn + 1 /\ paths' = paths
        /\ stack' = IF KindOf(outputNids[turn + 1]) = "outPin" THEN <<Fresh(outputNids[turn + 1])>> ELSE <<>>
    BY <1>4 DEF NextPin, TurnsLeft, Turn
  <2>2. FoundAll(turn, <<>>, paths)
    BY <1>2, <2>1
  <2>3. /\ FoundAll(turn + 1, stack', paths)
        /\ FoundOnce(turn, <<>>, paths) => FoundOnce(turn + 1, stack', paths)
    BY <1>1, <2>1, <2>2, TurnFound
  <2> QED BY <1>2, <2>1, <2>3 DEF SearchFound
<1>5. CASE Pop
  <2>1. stack # <<>> /\ ReadOut(stack[Len(stack)]) /\ stack' = SubSeq(stack, 1, Len(stack) - 1)
        /\ turn' = turn /\ paths' = paths
    BY <1>5 DEF Pop, Top
  <2>2. /\ FoundAll(turn, stack', paths)
        /\ FoundOnce(turn, stack, paths) => FoundOnce(turn, stack', paths)
    BY <1>1, <1>2, <1>3, <2>1, PopFound
  <2> QED BY <1>2, <2>1, <2>2 DEF SearchFound
<1>6. CASE Looking
  <2> DEFINE e == stack[Len(stack)]
             h == Decode(e).cur
             r == [stack EXCEPT ![Len(stack)] = Advanced(e)]
  <2>1. stack # <<>> /\ ~ReadOut(e) /\ Here = h /\ Taken = r
    BY <1>6 DEF Looking, Top, Here, Taken, Advanced
  <2>a. e = stack[Len(stack)] /\ h = Decode(e).cur /\ r = [stack EXCEPT ![Len(stack)] = Advanced(e)]
    OBVIOUS
  <2> HIDE DEF e, h, r
  <2>2. EntryOK(e)
    <3>1. Len(stack) \in 1 .. Len(stack)
      BY <1>3, <2>1
    <3> QED BY <1>1, <2>a, <3>1 DEF ChainOK
  <2>3. Takes(turn, stack, h, r) /\ h \in Remaining(e)
    BY <1>1, <1>3, <2>1, <2>a, <2>2, TakenFound
  <2>4. ListsOnce /\ PinsOnce => /\ FoundOnce(turn, r, paths)
                                 /\ \A p : Through(stack, p, h) => ~Pending(turn, r, p)
    <3> HAVE ListsOnce /\ PinsOnce
    <3>1. TakesOnce(turn, stack, h, r, paths)
      BY <1>1, <1>2, <1>3, <2>1, <2>a, <2>2, TakenOnce
    <3> QED BY <3>1 DEF TakesOnce
  <2>5. ChainOK(r) /\ r \in Seq(StackEntry)
    <3>1. ~ReadOut(stack[Len(stack)])
      BY <2>1, <2>a
    <3>2. ChainOK([stack EXCEPT ![Len(stack)] = Advanced(stack[Len(stack)])])
      BY <1>1, <2>1, <3>1, ChainStep
    <3>3. ChainOK(r)
      BY <2>a, <3>2
    <3> QED BY <3>3 DEF ChainOK
  <2>6. CASE Skip
    <3>1. stack' = r /\ turn' = turn /\ paths' = paths
          /\ (HereKind = "none" \/ (HereKind # "dac" /\ Blocked))
      BY <2>1, <2>6 DEF Skip
    <3>2. ASSUME NEW p, IsWay(p), Through(stack, p, h) PROVE FALSE
      <4>1. /\ h \in Widget /\ \A i \in 1 .. Len(stack) : p[i] = stack[i].widget /\ p[i] # h
            /\ IF KindOf(h) = "dac" THEN Len(p) = Len(stack) + 1 ELSE Len(stack) + 1 < Len(p)
            /\ Len(p) <= MaxDepth + 1
        BY <1>1, <1>3, <3>2, ThroughFacts
      <4>2. HereKind = KindOf(h)
        BY <2>1, <4>1 DEF HereKind
      <4>3. KindOf(h) # "none"
        <5>1. KindOf(h) \in Kind
          BY <4>1 DEF KindsKnown
        <5> QED BY <5>1 DEF Kind
      <4>4. KindOf(h) # "dac" /\ (h \in Visited \/ Len(stack) >= MaxDepth)
        BY <2>1, <3>1, <4>2, <4>3 DEF Blocked
      <4>5. h \notin Visited
        BY <4>1 DEF Visited
      <4>6. Len(p) \in Nat /\ MaxDepth \in Nat
        BY <3>2, WayLength, DepthAssumption
      <4> QED BY <1>3, <4>1, <4>4, <4>5, <4>6
    <3>3. FoundAll(turn, r, paths)
      <4>1. \A k \in 1 .. Len(paths) : IsWay(paths[k]) /\ \E i \in 1 .. Len(paths) : paths[i] = paths[k]
        BY <1>2 DEF FoundAll
      <4>2. \A p : IsWay(p) /\ Through(stack, p, h) => \E i \in 1 .. Len(paths) : paths[i] = p
        BY <3>2
      <4> QED BY <1>1, <1>2, <1>3, <2>1, <2>a, <2>2, <4>1, <4>2, TakenAll
    <3> QED BY <2>4, <3>1, <3>3 DEF SearchFound
  <2>7. CASE Found
    <3> DEFINE q == Append([i \in 1 .. Len(stack) |-> stack[i].widget], h)
    <3>1. HereKind = "dac" /\ stack' = r /\ turn' = turn /\ paths' = Append(paths, q)
      BY <2>1, <2>a, <2>7 DEF Found
    <3>2. h \in Widget /\ KindOf(h) = "dac"
      BY <2>1, <3>1 DEF HereKind
    <3>b. q = Append([i \in 1 .. Len(stack) |-> stack[i].widget], h)
      OBVIOUS
    <3> HIDE DEF q
    <3>3. IsWay(q) /\ Through(stack, q, h) /\ \A p : IsWay(p) /\ Through(stack, p, h) => p = q
      <4>1. h \in Remaining(stack[Len(stack)])
        BY <2>3, <2>a
      <4>2. OnlyWay(stack, h, q)
        BY <1>1, <1>2, <2>1, <3>2, <3>b, <4>1, StackWay
      <4> QED BY <4>2 DEF OnlyWay
    <3>4. q \in Seq(Widget)
      BY <3>3 DEF IsWay, Walk
    <3> DEFINE qs == Append(paths, q)
    <3>5. Len(paths) \in Nat /\ Len(qs) = Len(paths) + 1 /\ qs[Len(paths) + 1] = q
          /\ \A k \in 1 .. Len(paths) : qs[k] = paths[k]
      BY <1>1, <3>4
    <3> HIDE DEF qs
    <3>6. /\ Len(paths) + 1 \in 1 .. Len(qs) /\ \A k \in 1 .. Len(paths) : k \in 1 .. Len(qs)
          /\ \A k \in 1 .. Len(qs) : k = Len(paths) + 1 \/ k \in 1 .. Len(paths)
      BY <3>5
    <3>7. FoundAll(turn, r, qs)
      <4>1. \A k \in 1 .. Len(paths) : \E i \in 1 .. Len(qs) : qs[i] = paths[k]
        BY <3>5, <3>6
      <4>2. \A i \in 1 .. Len(qs) : IsWay(qs[i])
        BY <1>2, <3>3, <3>5, <3>6 DEF FoundAll
      <4>3. \A p : IsWay(p) /\ Through(stack, p, h) => \E i \in 1 .. Len(qs) : qs[i] = p
        BY <3>3, <3>5, <3>6
      <4> QED BY <1>1, <1>2, <1>3, <2>1, <2>a, <2>2, <4>1, <4>2, <4>3, TakenAll
    <3>8. ASSUME ListsOnce, PinsOnce PROVE FoundOnce(turn, r, qs)
      <4>1. FoundOnce(turn, r, paths) /\ ~Pending(turn, r, q)
        BY <2>4, <3>3, <3>8
      <4>2. Pending(turn, stack, q)
        BY <2>3, <3>3 DEF Takes
      <4>3. \A k \in 1 .. Len(paths) : paths[k] # q
        BY <1>2, <3>8, <4>2 DEF FoundOnce
      <4> QED BY <1>1, <3>4, <4>1, <4>3, PathOnce DEF qs
    <3> QED BY <3>1, <3>7, <3>8 DEF SearchFound, qs
  <2>8. CASE Descend
    <3>1. HereKind # "none" /\ HereKind # "dac" /\ stack' = Append(r, Fresh(h))
          /\ turn' = turn /\ paths' = paths
      BY <2>1, <2>8 DEF Descend
    <3>2. h \in Widget /\ KindOf(h) # "dac"
      BY <2>1, <3>1 DEF HereKind
    <3>3. /\ FoundAll(turn, stack', paths)
          /\ ListsOnce /\ PinsOnce /\ FoundOnce(turn, stack, paths) => FoundOnce(turn, stack', paths)
      BY <1>1, <1>2, <1>3, <2>1, <2>a, <2>2, <2>5, <3>1, <3>2, PushFound
    <3> QED BY <1>2, <3>1, <3>3 DEF SearchFound
  <2>9. Skip \/ Found \/ Descend
    <3>1. ~NextPin /\ ~Pop
      BY <1>6 DEF NextPin, Pop, Looking
    <3> QED BY <3>1 DEF SearchStep
  <2> QED BY <2>6, <2>7, <2>8, <2>9
<1>7. NextPin \/ Pop \/ Looking
  BY DEF SearchStep, Skip, Found, Descend
<1> QED BY <1>4, <1>5, <1>6, <1>7

\* At the end the paths are the ways, and as many.
LEMMA AllFound ==
    ASSUME SearchInv, turn = Len(outputNids), stack = <<>>, SearchFound(turn, stack, paths)
    PROVE  /\ ToSet(paths) = Ways
           /\ ListsOnce /\ PinsOnce => Len(paths) = Cardinality(Ways)
<1>1. CodecTyped /\ paths \in Seq(Seq(Widget))
  BY DEF SearchInv
<1>2. Len(paths) \in Nat /\ DOMAIN paths = 1 .. Len(paths) /\ Len(outputNids) \in Nat
  BY <1>1 DEF CodecTyped
<1>3. \A p : ~Pending(turn, stack, p)
  <2>1. \A i \in 1 .. Len(<<>>) : FALSE
    OBVIOUS
  <2>2. \A k \in Len(outputNids) + 1 .. Len(outputNids) : FALSE
    BY <1>2
  <2> QED BY <2>1, <2>2 DEF Pending
<1>4. \A p : IsWay(p) <=> \E k \in 1 .. Len(paths) : paths[k] = p
  BY <1>3 DEF SearchFound, FoundAll
<1>5. ToSet(paths) = Ways
  <2>1. \A p : p \in ToSet(paths) <=> \E k \in 1 .. Len(paths) : paths[k] = p
    BY <1>2 DEF ToSet
  <2> QED BY <1>4, <2>1, WaysFacts
<1>6. ASSUME ListsOnce, PinsOnce PROVE Len(paths) = Cardinality(Ways)
  <2>1. \A i, k \in DOMAIN paths : i # k => paths[i] # paths[k]
    BY <1>2, <1>6 DEF SearchFound, FoundOnce
  <2> QED BY <1>1, <1>5, <2>1, DistinctCount
<1> QED BY <1>5, <1>6

-----------------------------------------------------------------------------
(* The choice of paths *)

\* Two paths are compared both ways.
LEMMA UsablePair ==
    ASSUME NEW p, NEW q, NEW same \in BOOLEAN
    PROVE  Usable(<<p, q>>, same) <=> ~Clash(p, q, same) /\ ~Clash(q, p, same)
<1>1. DOMAIN <<p, q>> = {1, 2} /\ <<p, q>>[1] = p /\ <<p, q>>[2] = q
  OBVIOUS
<1> QED BY <1>1 DEF Usable

\* Two paths clash for one stream only if they clash for two.
LEMMA ClashWeaker == ASSUME NEW p, NEW q, Clash(p, q, TRUE) PROVE Clash(p, q, FALSE)
BY DEF Clash

\* Paths of two outputs that may play two streams share no widget: a shared one
\* that is not the first of both is compared, and a pin is no converter.
LEMMA DisjointStreams ==
    ASSUME NEW p, NEW q, PathOK(p), PathOK(q), p[1] # q[1], ~Clash(p, q, FALSE)
    PROVE  Disjoint(p, q)
<1>1. p \in Seq(Widget) /\ q \in Seq(Widget) /\ Len(p) \in Nat /\ Len(q) \in Nat /\ Len(p) >= 2 /\ Len(q) >= 2
  BY DEF PathOK
<1>2. SUFFICES ASSUME NEW a \in 1 .. Len(p), NEW b \in 1 .. Len(q), p[a] = q[b]
               PROVE FALSE
  BY <1>1 DEF Disjoint, ToSet
<1>3. \A i \in 2 .. Len(p), j \in 2 .. Len(q) : p[i - 1] # q[j - 1] /\ p[i] # q[j]
  BY DEF Clash
<1>4. CASE a >= 2 /\ b >= 2
  BY <1>1, <1>2, <1>3, <1>4
<1>5. CASE a < Len(p) /\ b < Len(q)
  <2>1. a + 1 \in 2 .. Len(p) /\ b + 1 \in 2 .. Len(q) /\ a + 1 - 1 = a /\ b + 1 - 1 = b
    BY <1>1, <1>5
  <2>2. p[a + 1 - 1] # q[b + 1 - 1]
    BY <1>3, <2>1
  <2> QED BY <1>2, <2>1, <2>2
<1>6. CASE a = 1 /\ b = Len(q)
  BY <1>2, <1>6 DEF PathOK, OutPin
<1>7. CASE a = Len(p) /\ b = 1
  BY <1>2, <1>7 DEF PathOK, OutPin
<1>8. (a >= 2 /\ b >= 2) \/ (a < Len(p) /\ b < Len(q)) \/ (a = 1 /\ b = Len(q)) \/ (a = Len(p) /\ b = 1)
  BY <1>1
<1> QED BY <1>4, <1>5, <1>6, <1>7, <1>8

\* Paths that may play one stream: the first widget of p that lies on q too is the
\* pin of one of them, or else the widgets before it are the same.
LEMMA DisjointStream ==
    ASSUME NEW p, NEW q, PathOK(p), PathOK(q), ~Clash(p, q, TRUE)
    PROVE  Disjoint(p, q) \/ p[1] \in ToSet(q) \/ q[1] \in ToSet(p)
<1>1. p \in Seq(Widget) /\ q \in Seq(Widget) /\ Len(p) \in Nat /\ Len(q) \in Nat /\ Len(p) >= 2 /\ Len(q) >= 2
  BY DEF PathOK
<1> DEFINE S == {a \in 1 .. Len(p) : p[a] \in ToSet(q)}
<1>2. SUFFICES ASSUME ~Disjoint(p, q), p[1] \notin ToSet(q), q[1] \notin ToSet(p)
               PROVE FALSE
  OBVIOUS
<1>3. S \in SUBSET Nat /\ S # {}
  <2>1. PICK a \in DOMAIN p : p[a] \in ToSet(q)
    BY <1>2 DEF Disjoint, ToSet
  <2>2. DOMAIN p = 1 .. Len(p)
    BY <1>1
  <2>3. a \in S
    BY <2>1, <2>2
  <2>4. \A i \in S : i \in Nat
    OBVIOUS
  <2> QED BY <2>3, <2>4
<1>4. PICK a \in S : \A i \in S : a <= i
  BY <1>3, MinExists
<1>5. PICK b \in 1 .. Len(q) : p[a] = q[b]
  <2>1. DOMAIN q = 1 .. Len(q)
    BY <1>1
  <2> QED BY <1>4, <2>1 DEF ToSet
<1>6. a # 1 /\ b # 1
  <2>1. a \in DOMAIN p
    BY <1>1, <1>4
  <2>2. p[a] \in ToSet(p)
    BY <2>1 DEF ToSet
  <2> QED BY <1>2, <1>4, <1>5, <2>2
<1>7. a \in 2 .. Len(p) /\ b \in 2 .. Len(q) /\ a - 1 \in 1 .. Len(p) /\ b - 1 \in DOMAIN q
  BY <1>1, <1>4, <1>5, <1>6
<1>8. p[a - 1] = q[b - 1]
  BY <1>5, <1>7 DEF Clash
<1>9. a - 1 \in S
  BY <1>7, <1>8 DEF ToSet
<1>10. ~(a <= a - 1)
  BY <1>4
<1> QED BY <1>4, <1>9, <1>10

ClientInv ==
    /\ InUse \subseteq ToSet(paths)
    /\ \A u, v \in active : u # v =>
         /\ u.path[1] # v.path[1]
         /\ ~Clash(u.path, v.path, TRUE)
         /\ u.stream = v.stream \/ ~Clash(u.path, v.path, FALSE)

\* uhda_find_path compares the new path with each of those in use, for the stream
\* that all of them play or for several.
LEMMA SelectInv ==
    ASSUME SearchInv, ClientInv, NEW dest, NEW stream, Select(dest, stream)
    PROVE  ClientInv' /\ UNCHANGED <<codecVars, pc, search>>
<1> DEFINE same == \A u \in active : u.stream = stream
           found == Candidates(dest, InUse, same)
           new == [path |-> paths[Min(found)], stream |-> stream]
<1>1. UNCHANGED <<codecVars, pc, search>> /\ paths' = paths
  BY DEF Select, search
<1>2. found # {} /\ active' = active \cup {new} /\ \A p \in InUse : p[1] # dest
  BY DEF Select
<1>3. Min(found) \in found
  <2>1. found \in SUBSET (DOMAIN paths)
    BY DEF Candidates
  <2>2. DOMAIN paths = 1 .. Len(paths)
    BY DEF SearchInv
  <2> HIDE DEF found
  <2>3. \A i \in 1 .. Len(paths) : i \in Nat
    OBVIOUS
  <2>4. found \in SUBSET Nat
    BY <2>1, <2>2, <2>3
  <2> QED BY <1>2, <2>4, MinExists
<1>4. same \in BOOLEAN
  OBVIOUS
<1>5. /\ new.path \in ToSet(paths) /\ new.path[1] = dest /\ new.stream = stream
      /\ \A q \in InUse : Usable(<<new.path, q>>, same)
  BY <1>3 DEF Candidates, ToSet
<1> HIDE DEF found, new
<1>6. \A u \in active : /\ new.path[1] # u.path[1]
                        /\ ~Clash(new.path, u.path, same) /\ ~Clash(u.path, new.path, same)
  <2> TAKE u \in active
  <2>1. u.path \in InUse
    BY DEF InUse
  <2>2. Usable(<<new.path, u.path>>, same)
    BY <1>5, <2>1
  <2> QED BY <1>2, <1>4, <1>5, <2>1, <2>2, UsablePair
<1>7. \A u \in active : /\ ~Clash(new.path, u.path, TRUE) /\ ~Clash(u.path, new.path, TRUE)
                        /\ \/ u.stream = new.stream
                           \/ ~Clash(new.path, u.path, FALSE) /\ ~Clash(u.path, new.path, FALSE)
  <2>1. CASE same
    BY <1>5, <1>6, <2>1
  <2>2. CASE ~same
    BY <1>6, <2>2, ClashWeaker
  <2> QED BY <2>1, <2>2
<1>8. \A u, v \in active' : u # v =>
         /\ u.path[1] # v.path[1]
         /\ ~Clash(u.path, v.path, TRUE)
         /\ u.stream = v.stream \/ ~Clash(u.path, v.path, FALSE)
  <2> HIDE DEF same
  <2> TAKE u, v \in active'
  <2>1. CASE u \in active /\ v \in active
    BY <2>1 DEF ClientInv
  <2>2. CASE u \in active /\ v = new
    BY <1>6, <1>7, <2>2
  <2>3. CASE u = new /\ v \in active
    BY <1>6, <1>7, <2>3
  <2>4. CASE u = new /\ v = new
    BY <2>4
  <2> QED BY <1>2, <2>1, <2>2, <2>3, <2>4
<1>9. InUse' \subseteq ToSet(paths')
  BY <1>1, <1>2, <1>5 DEF ClientInv, InUse
<1>10. ClientInv'
  BY <1>1, <1>8, <1>9 DEF ClientInv, Clash
<1> QED BY <1>1, <1>10

\* A client that releases a path keeps the others.
LEMMA ReleaseInv ==
    ASSUME ClientInv, NEW u, Release(u)
    PROVE  ClientInv' /\ UNCHANGED <<codecVars, pc, search>>
<1>1. UNCHANGED <<codecVars, pc, search>> /\ paths' = paths /\ active' = active \ {u}
  BY DEF Release, search
<1>2. active' \subseteq active
  BY <1>1
<1> QED BY <1>1, <1>2 DEF ClientInv, InUse, Clash

\* Paths in use that do not clash work together.
LEMMA TogetherFollows == ASSUME SearchInv, ClientInv PROVE ActiveTogether
<1> SUFFICES ASSUME NEW u \in active, NEW v \in active, u # v
             PROVE \/ Disjoint(u.path, v.path)
                   \/ u.stream = v.stream /\ (u.path[1] \in ToSet(v.path) \/ v.path[1] \in ToSet(u.path))
  BY DEF ActiveTogether
<1>1. \A w \in active : PathOK(w.path)
  <2> TAKE w \in active
  <2>1. w.path \in ToSet(paths)
    BY DEF ClientInv, InUse
  <2>2. DOMAIN paths = 1 .. Len(paths) /\ \A k \in 1 .. Len(paths) : PathOK(paths[k])
    BY DEF SearchInv
  <2> QED BY <2>1, <2>2 DEF ToSet
<1>2. /\ u.path[1] # v.path[1] /\ ~Clash(u.path, v.path, TRUE)
      /\ u.stream = v.stream \/ ~Clash(u.path, v.path, FALSE)
  BY DEF ClientInv
<1>3. CASE u.stream = v.stream
  BY <1>1, <1>2, <1>3, DisjointStream
<1>4. CASE ~Clash(u.path, v.path, FALSE)
  BY <1>1, <1>2, <1>4, DisjointStreams
<1> QED BY <1>2, <1>3, <1>4

\* Disjoint paths clash in no case.
LEMMA FindsFollows == ASSUME SearchInv, ClientInv PROVE FindsUsable
<1> SUFFICES ASSUME NEW w \in OutPin, NEW same \in BOOLEAN, NEW k \in DOMAIN paths,
                    paths[k][1] = w, \A q \in InUse : Disjoint(paths[k], q)
             PROVE Candidates(w, InUse, same) # {}
  BY DEF FindsUsable
<1>1. DOMAIN paths = 1 .. Len(paths) /\ \A i \in DOMAIN paths : paths[i] \in Seq(Widget)
  BY DEF SearchInv
<1>2. ASSUME NEW q \in InUse PROVE Usable(<<paths[k], q>>, same)
  <2> DEFINE p == paths[k]
  <2>1. q \in Seq(Widget) /\ p \in Seq(Widget)
    BY <1>1 DEF ClientInv, ToSet
  <2>2. Disjoint(p, q)
    OBVIOUS
  <2> HIDE DEF p
  <2>3. \A a \in 1 .. Len(p), b \in 1 .. Len(q) : p[a] # q[b]
    <3>1. DOMAIN p = 1 .. Len(p) /\ DOMAIN q = 1 .. Len(q)
      BY <2>1
    <3> QED BY <2>2, <3>1 DEF Disjoint, ToSet
  <2>4. \A a \in 2 .. Len(p), b \in 2 .. Len(q) : p[a - 1] # q[b - 1] /\ p[a] # q[b]
    <3> TAKE a \in 2 .. Len(p), b \in 2 .. Len(q)
    <3>1. Len(p) \in Nat /\ Len(q) \in Nat
      BY <2>1
    <3>2. a \in 1 .. Len(p) /\ b \in 1 .. Len(q) /\ a - 1 \in 1 .. Len(p) /\ b - 1 \in 1 .. Len(q)
      BY <3>1
    <3> QED BY <2>3, <3>2
  <2>5. ~Clash(p, q, same) /\ ~Clash(q, p, same)
    BY <2>4 DEF Clash
  <2> QED BY <2>5, UsablePair DEF p
<1>3. k \in Candidates(w, InUse, same)
  BY <1>2 DEF Candidates
<1> QED BY <1>3
=============================================================================
