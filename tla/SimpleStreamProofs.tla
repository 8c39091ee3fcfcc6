------------------------- MODULE SimpleStreamProofs -------------------------
(***************************************************************************)
(* Proofs about the simple stream, for every size of period, buffer and    *)
(* ring, every allowed ahead and every interrupt latency the margins cover,*)
(* under a client whose play() finds no interrupt outstanding.             *)
(***************************************************************************)
EXTENDS SimpleStream, SequenceTheorems, WellFoundedInduction, TLAPS

-----------------------------------------------------------------------------
(* What is heard of a sequence of cells *)

Unit == Token \cup {Silence, Stale}

\* The least of some numbers.
LEMMA LeastNumber ==
    ASSUME NEW S \in SUBSET Nat, S # {}
    PROVE  \E i \in S : \A j \in S : i <= j
<1>1. PICK i \in S : \A j \in S : ~ (<<j, i>> \in OpToRel(<, Nat))
  BY NatLessThanWellFounded, WFMin
<1>2. \A j \in S : i <= j
  <2> TAKE j \in S
  <2>1. ~ (j < i)
    BY <1>1 DEF OpToRel
  <2> QED BY <2>1
<1> QED BY <1>2

\* f[n] is what is heard of the first n of c, for each n up to m.
Hears(f, c, m) == f = [n \in 0 .. m |->
    IF n = 0 THEN <<>> ELSE IF c[n] \in Token THEN Append(f[n - 1], c[n]) ELSE f[n - 1]]

\* The recursive function of Heard exists.
LEMMA HearsExists ==
    ASSUME NEW c, NEW m \in Nat
    PROVE  \E f : Hears(f, c, m)
<1> DEFINE S == {k \in Nat : ~ \E f : Hears(f, c, k)}
<1>1. SUFFICES ASSUME S # {} PROVE FALSE
  OBVIOUS
<1>2. PICK k \in S : \A j \in S : k <= j
  <2>1. S \in SUBSET Nat
    OBVIOUS
  <2> HIDE DEF S
  <2> QED BY <1>1, <2>1, LeastNumber
<1>3. CASE k = 0
  <2> DEFINE f == [n \in 0 .. 0 |-> <<>>]
  <2>1. f = [n \in 0 .. 0 |->
              IF n = 0 THEN <<>> ELSE IF c[n] \in Token THEN Append(f[n - 1], c[n]) ELSE f[n - 1]]
    OBVIOUS
  <2> HIDE DEF f
  <2>2. Hears(f, c, 0)
    BY <2>1 DEF Hears
  <2> QED BY <1>3, <2>2
<1>4. CASE k > 0
  <2>1. k - 1 \in Nat /\ k - 1 \notin S /\ k \in Nat
    BY <1>2, <1>4
  <2>2. PICK f : Hears(f, c, k - 1)
    BY <2>1
  <2> DEFINE s(n, h) == IF n = 0 THEN <<>> ELSE IF c[n] \in Token THEN Append(h[n - 1], c[n]) ELSE h[n - 1]
             g == [n \in 0 .. k |-> IF n = k THEN s(n, f) ELSE f[n]]
  <2>3. \A n \in 0 .. k - 1 : f[n] = s(n, f)
    BY <2>2 DEF Hears
  <2>4. \A n \in 0 .. k : n # k => n \in 0 .. k - 1
    BY <2>1
  <2>5. \A n \in 0 .. k : n # 0 => n - 1 \in 0 .. k /\ n - 1 # k
    BY <2>1
  <2>6. \A n \in 0 .. k : n # 0 => g[n - 1] = f[n - 1]
    BY <2>5
  <2>7. \A n \in 0 .. k : g[n] = s(n, f)
    BY <2>3, <2>4
  <2>8. g = [n \in 0 .. k |-> g[n]]
    OBVIOUS
  <2> HIDE DEF g
  <2>9. \A n \in 0 .. k : g[n] = s(n, g)
    BY <2>6, <2>7
  <2>10. Hears(g, c, k)
    BY <2>8, <2>9 DEF Hears
  <2> QED BY <2>10
<1> QED BY <1>2, <1>3, <1>4

\* Heard is the last value of that function.
LEMMA HeardDef ==
    ASSUME NEW c, Len(c) \in Nat
    PROVE  \E f : Hears(f, c, Len(c)) /\ Heard(c) = f[Len(c)]
<1>1. \E f : Hears(f, c, Len(c))
  BY HearsExists
<1> QED BY <1>1 DEF Hears, Heard

\* Its parts.
LEMMA HearsParts ==
    ASSUME NEW f, NEW c, NEW m \in Nat, Hears(f, c, m)
    PROVE  /\ f[0] = <<>>
           /\ \A n \in 1 .. m : /\ c[n] \in Token => f[n] = Append(f[n - 1], c[n])
                                /\ c[n] \notin Token => f[n] = f[n - 1]
<1>1. \A n \in 0 .. m :
        f[n] = IF n = 0 THEN <<>> ELSE IF c[n] \in Token THEN Append(f[n - 1], c[n]) ELSE f[n - 1]
  BY DEF Hears
<1>2. 0 \in 0 .. m /\ \A n \in 1 .. m : n \in 0 .. m /\ n # 0
  OBVIOUS
<1>3. f[0] = <<>>
  BY <1>1, <1>2
<1>4. ASSUME NEW n \in 1 .. m
      PROVE  /\ c[n] \in Token => f[n] = Append(f[n - 1], c[n])
             /\ c[n] \notin Token => f[n] = f[n - 1]
  <2>1. f[n] = IF n = 0 THEN <<>> ELSE IF c[n] \in Token THEN Append(f[n - 1], c[n]) ELSE f[n - 1]
    BY <1>1, <1>2
  <2> QED BY <1>2, <2>1
<1> QED BY <1>3, <1>4

\* Its last value.
LEMMA HearsLast ==
    ASSUME NEW f, NEW c, NEW m \in Nat, m > 0, Hears(f, c, m)
    PROVE  /\ c[m] \in Token => f[m] = Append(f[m - 1], c[m])
           /\ c[m] \notin Token => f[m] = f[m - 1]
<1>1. m \in 1 .. m
  OBVIOUS
<1> QED BY <1>1, HearsParts

\* Sequences that begin alike are heard alike so far.
Alike(c, d, k) == \A n \in 1 .. k : c[n] = d[n]

\* ... and so long they are heard alike.
LEMMA HearsAlike ==
    ASSUME NEW c, NEW d, NEW k \in Nat, NEW m \in Nat, k <= m, NEW f, NEW g,
           Hears(f, c, k), Hears(g, d, m), Alike(c, d, k)
    PROVE  f[k] = g[k]
<1> DEFINE S == {n \in 0 .. k : f[n] # g[n]}
<1>1. ASSUME S # {} PROVE FALSE
  <2>1. PICK n \in S : \A j \in S : n <= j
    <3>1. S \in SUBSET Nat
      OBVIOUS
    <3> HIDE DEF S
    <3> QED BY <1>1, <3>1, LeastNumber
  <2>2. n \in 0 .. k /\ f[n] # g[n]
    BY <2>1
  <2>3. f[0] = g[0]
    BY HearsParts
  <2>4. n \in 1 .. k /\ n \in 1 .. m /\ n - 1 \in 0 .. k /\ ~(n <= n - 1)
    BY <2>2, <2>3
  <2>5. f[n - 1] = g[n - 1]
    BY <2>1, <2>4
  <2>6. c[n] = d[n]
    BY <2>4 DEF Alike
  <2>7. /\ c[n] \in Token => f[n] = Append(f[n - 1], c[n])
        /\ c[n] \notin Token => f[n] = f[n - 1]
    BY <2>4, HearsParts
  <2>8. /\ d[n] \in Token => g[n] = Append(g[n - 1], d[n])
        /\ d[n] \notin Token => g[n] = g[n - 1]
    BY <2>4, HearsParts
  <2> QED BY <2>2, <2>5, <2>6, <2>7, <2>8
<1>2. k \in 0 .. k
  OBVIOUS
<1> QED BY <1>1, <1>2

\* Nothing, and one cell more.
LEMMA HeardNothing == Heard(<<>>) = <<>>
<1>1. Len(<<>>) = 0
  OBVIOUS
<1>2. PICK f : Hears(f, <<>>, 0) /\ Heard(<<>>) = f[0]
  BY <1>1, HeardDef
<1> QED BY <1>2, HearsParts

\* One cell more.
LEMMA HeardMore ==
    ASSUME NEW c \in Seq(Unit), NEW x \in Unit
    PROVE  Heard(Append(c, x)) = IF x \in Token THEN Append(Heard(c), x) ELSE Heard(c)
<1> DEFINE d == Append(c, x)
           k == Len(c)
           m == Len(d)
<1>1. /\ k \in Nat /\ m = k + 1 /\ m \in Nat
      /\ d[k + 1] = x /\ \A n \in 1 .. k : c[n] = d[n]
  OBVIOUS
<1>2. PICK f : Hears(f, c, k) /\ Heard(c) = f[k]
  BY <1>1, HeardDef
<1>3. PICK g : Hears(g, d, m) /\ Heard(d) = g[m]
  BY <1>1, HeardDef
<1> HIDE DEF d, k, m
<1>4. f[k] = g[k]
  <2>1. Alike(c, d, k) /\ k <= m
    BY <1>1 DEF Alike
  <2> QED BY <1>1, <1>2, <1>3, <2>1, HearsAlike
<1>5. m \in 1 .. m /\ m - 1 = k
  BY <1>1
<1>6. /\ d[m] \in Token => g[m] = Append(g[m - 1], d[m])
      /\ d[m] \notin Token => g[m] = g[m - 1]
  BY <1>1, <1>3, <1>5, HearsLast
<1>7. d[m] = x /\ Heard(d) = g[m] /\ g[m - 1] = Heard(c)
  BY <1>1, <1>2, <1>3, <1>4, <1>5
<1> QED BY <1>6, <1>7 DEF d

\* A sequence that is not empty is one cell more than another.
LEMMA LastApart ==
    ASSUME NEW S, NEW s \in Seq(S), NEW n \in Nat, Len(s) = n + 1
    PROVE  \E r \in Seq(S) : \E x \in S :
              /\ s = Append(r, x) /\ Len(r) = n /\ x = s[n + 1]
              /\ \A i \in 1 .. n : r[i] = s[i]
<1> DEFINE r == [i \in 1 .. n |-> s[i]]
           x == s[n + 1]
<1>1. x \in S /\ \A i \in 1 .. n : s[i] \in S
  OBVIOUS
<1>2. r \in Seq(S) /\ Len(r) = n /\ \A i \in 1 .. n : r[i] = s[i]
  BY <1>1
<1> HIDE DEF r
<1>3. /\ Append(r, x) \in Seq(S) /\ Len(Append(r, x)) = n + 1
      /\ \A i \in 1 .. n + 1 : Append(r, x)[i] = s[i]
  BY <1>1, <1>2
<1>4. s = Append(r, x)
  BY <1>3, SeqEqual
<1> QED BY <1>1, <1>2, <1>4

\* What is heard are tokens.
LEMMA HeardType == ASSUME NEW c \in Seq(Unit) PROVE Heard(c) \in Seq(Token)
<1> DEFINE S == {m \in Nat : \E s \in Seq(Unit) : Len(s) = m /\ Heard(s) \notin Seq(Token)}
<1>1. ASSUME S # {} PROVE FALSE
  <2>1. PICK m \in S : \A j \in S : m <= j
    <3>1. S \in SUBSET Nat
      OBVIOUS
    <3> HIDE DEF S
    <3> QED BY <1>1, <3>1, LeastNumber
  <2>2. PICK s \in Seq(Unit) : Len(s) = m /\ Heard(s) \notin Seq(Token)
    BY <2>1
  <2>3. m \in Nat /\ m # 0
    <3>1. ASSUME m = 0 PROVE FALSE
      <4>1. s = <<>>
        BY <2>2, <3>1
      <4> QED BY <2>2, <4>1, HeardNothing
    <3> QED BY <2>1, <3>1
  <2>4. PICK k \in Nat : m = k + 1
    <3>1. m - 1 \in Nat /\ m = m - 1 + 1
      BY <2>3
    <3> QED BY <3>1
  <2>5. PICK r \in Seq(Unit) : \E x \in Unit : /\ s = Append(r, x) /\ Len(r) = k /\ x = s[k + 1]
                                               /\ \A i \in 1 .. k : r[i] = s[i]
    <3>1. Len(s) = k + 1
      BY <2>2, <2>4
    <3> QED BY <2>2, <3>1, LastApart, ZenonT(40)
  <2>6. PICK x \in Unit : s = Append(r, x)
    BY <2>5
  <2>7. Heard(r) \in Seq(Token)
    <3>1. k \notin S
      BY <2>1, <2>4
    <3> QED BY <2>5, <3>1
  <2>8. Heard(s) = IF x \in Token THEN Append(Heard(r), x) ELSE Heard(r)
    BY <2>5, <2>6, HeardMore
  <2> HIDE DEF S
  <2> QED BY <2>2, <2>7, <2>8
<1>2. Len(c) \in Nat
  OBVIOUS
<1> QED BY <1>1, <1>2

\* The parts of a sequence are heard one after the other.
LEMMA HeardConcat ==
    ASSUME NEW c \in Seq(Unit), NEW d \in Seq(Unit)
    PROVE  Heard(c \o d) = Heard(c) \o Heard(d)
<1> DEFINE S == {m \in Nat : \E s \in Seq(Unit) : Len(s) = m /\ Heard(c \o s) # Heard(c) \o Heard(s)}
<1>0. Heard(c) \in Seq(Token)
  BY HeardType
<1>1. ASSUME S # {} PROVE FALSE
  <2>1. PICK m \in S : \A j \in S : m <= j
    <3>1. S \in SUBSET Nat
      OBVIOUS
    <3> HIDE DEF S
    <3> QED BY <1>1, <3>1, LeastNumber
  <2>2. PICK s \in Seq(Unit) : Len(s) = m /\ Heard(c \o s) # Heard(c) \o Heard(s)
    BY <2>1
  <2>3. m \in Nat /\ m # 0
    <3>1. ASSUME m = 0 PROVE FALSE
      <4>1. s = <<>>
        BY <2>2, <3>1
      <4>2. c \o <<>> = c /\ Heard(c) \o <<>> = Heard(c)
        BY <1>0
      <4> QED BY <2>2, <4>1, <4>2, HeardNothing
    <3> QED BY <2>1, <3>1
  <2>4. PICK k \in Nat : m = k + 1
    <3>1. m - 1 \in Nat /\ m = m - 1 + 1
      BY <2>3
    <3> QED BY <3>1
  <2>5. PICK r \in Seq(Unit) : \E x \in Unit : /\ s = Append(r, x) /\ Len(r) = k /\ x = s[k + 1]
                                               /\ \A i \in 1 .. k : r[i] = s[i]
    <3>1. Len(s) = k + 1
      BY <2>2, <2>4
    <3> QED BY <2>2, <3>1, LastApart, ZenonT(40)
  <2>6. PICK x \in Unit : s = Append(r, x)
    BY <2>5
  <2>7. Heard(c \o r) = Heard(c) \o Heard(r)
    <3>1. k \notin S
      BY <2>1, <2>4
    <3> QED BY <2>5, <3>1
  <2>8. c \o s = Append(c \o r, x) /\ c \o r \in Seq(Unit)
    <3>1. s = r \o <<x>> /\ Append(c \o r, x) = (c \o r) \o <<x>> /\ <<x>> \in Seq(Unit)
          /\ c \o r \in Seq(Unit)
      BY <2>6, AppendIsConcat
    <3>2. c \o (r \o <<x>>) = (c \o r) \o <<x>>
      BY <3>1, ConcatAssociative, SMTT(30)
    <3> QED BY <3>1, <3>2
  <2>9. Heard(c \o s) = IF x \in Token THEN Append(Heard(c \o r), x) ELSE Heard(c \o r)
    BY <2>8, HeardMore
  <2>10. Heard(s) = IF x \in Token THEN Append(Heard(r), x) ELSE Heard(r)
    BY <2>6, HeardMore
  <2>11. ASSUME x \in Token PROVE Append(Heard(c) \o Heard(r), x) = Heard(c) \o Append(Heard(r), x)
    <3>1. Heard(r) \in Seq(Token)
      BY HeardType
    <3>2. Append(Heard(r), x) = Heard(r) \o <<x>> /\ <<x>> \in Seq(Token)
          /\ Append(Heard(c) \o Heard(r), x) = (Heard(c) \o Heard(r)) \o <<x>>
      BY <1>0, <2>11, <3>1, AppendIsConcat, SMTT(30)
    <3> QED BY <1>0, <3>1, <3>2, ConcatAssociative, SMTT(30)
  <2> HIDE DEF S
  <2> QED BY <2>2, <2>7, <2>9, <2>10, <2>11
<1>2. Len(d) \in Nat
  OBVIOUS
<1> QED BY <1>1, <1>2

\* Tokens are all heard, silence and stale cells are not.
LEMMA HeardTokens == ASSUME NEW c \in Seq(Token) PROVE Heard(c) = c
<1> DEFINE S == {m \in Nat : \E s \in Seq(Token) : Len(s) = m /\ Heard(s) # s}
<1>1. ASSUME S # {} PROVE FALSE
  <2>1. PICK m \in S : \A j \in S : m <= j
    <3>1. S \in SUBSET Nat
      OBVIOUS
    <3> HIDE DEF S
    <3> QED BY <1>1, <3>1, LeastNumber
  <2>2. PICK s \in Seq(Token) : Len(s) = m /\ Heard(s) # s
    BY <2>1
  <2>3. m \in Nat /\ m # 0
    <3>1. ASSUME m = 0 PROVE FALSE
      <4>1. s = <<>>
        BY <2>2, <3>1
      <4> QED BY <2>2, <4>1, HeardNothing
    <3> QED BY <2>1, <3>1
  <2>4. PICK k \in Nat : m = k + 1
    <3>1. m - 1 \in Nat /\ m = m - 1 + 1
      BY <2>3
    <3> QED BY <3>1
  <2>5. PICK r \in Seq(Token) : \E x \in Token : /\ s = Append(r, x) /\ Len(r) = k /\ x = s[k + 1]
                                               /\ \A i \in 1 .. k : r[i] = s[i]
    <3>1. Len(s) = k + 1
      BY <2>2, <2>4
    <3> QED BY <2>2, <3>1, LastApart, ZenonT(40)
  <2>6. PICK x \in Token : s = Append(r, x)
    BY <2>5
  <2>7. Heard(r) = r
    <3>1. k \notin S
      BY <2>1, <2>4
    <3> QED BY <2>5, <3>1
  <2>8. r \in Seq(Unit) /\ x \in Unit
    <3>1. Token \subseteq Unit
      BY DEF Unit
    <3> QED BY <3>1, SeqMonotonic
  <2>9. Heard(s) = Append(Heard(r), x)
    BY <2>6, <2>8, HeardMore
  <2> HIDE DEF S
  <2> QED BY <2>2, <2>6, <2>7, <2>9
<1>2. Len(c) \in Nat
  OBVIOUS
<1> QED BY <1>1, <1>2

\* Cells without tokens are silent.
LEMMA HeardNone ==
    ASSUME NEW c \in Seq(Unit), \A i \in 1 .. Len(c) : c[i] \notin Token
    PROVE  Heard(c) = <<>>
<1> DEFINE S == {m \in Nat : \E s \in Seq(Unit) : /\ Len(s) = m /\ Heard(s) # <<>>
                                                  /\ \A i \in 1 .. m : s[i] \notin Token}
<1>1. ASSUME S # {} PROVE FALSE
  <2>1. PICK m \in S : \A j \in S : m <= j
    <3>1. S \in SUBSET Nat
      OBVIOUS
    <3> HIDE DEF S
    <3> QED BY <1>1, <3>1, LeastNumber
  <2>2. PICK s \in Seq(Unit) : /\ Len(s) = m /\ Heard(s) # <<>>
                               /\ \A i \in 1 .. m : s[i] \notin Token
    BY <2>1
  <2>3. m \in Nat /\ m # 0
    <3>1. ASSUME m = 0 PROVE FALSE
      <4>1. s = <<>>
        BY <2>2, <3>1
      <4> QED BY <2>2, <4>1, HeardNothing
    <3> QED BY <2>1, <3>1
  <2>4. PICK k \in Nat : m = k + 1
    <3>1. m - 1 \in Nat /\ m = m - 1 + 1
      BY <2>3
    <3> QED BY <3>1
  <2>5. PICK r \in Seq(Unit) : \E x \in Unit : /\ s = Append(r, x) /\ Len(r) = k /\ x = s[k + 1]
                                               /\ \A i \in 1 .. k : r[i] = s[i]
    <3>1. Len(s) = k + 1
      BY <2>2, <2>4
    <3> QED BY <2>2, <3>1, LastApart, ZenonT(40)
  <2>6. PICK x \in Unit : s = Append(r, x) /\ x = s[k + 1]
    BY <2>5
  <2>7. Heard(r) = <<>>
    <3>1. k \notin S
      BY <2>1, <2>4
    <3>2. \A i \in 1 .. k : i \in 1 .. m
      BY <2>4
    <3>3. \A i \in 1 .. k : r[i] \notin Token
      BY <2>2, <2>5, <3>2
    <3> QED BY <2>5, <3>1, <3>3
  <2>8. x \notin Token
    <3>1. k + 1 \in 1 .. m
      BY <2>4
    <3> QED BY <2>2, <2>6, <3>1
  <2>9. Heard(s) = Heard(r)
    BY <2>6, <2>8, HeardMore
  <2> HIDE DEF S
  <2> QED BY <2>2, <2>7, <2>9
<1>2. Len(c) \in Nat
  OBVIOUS
<1> QED BY <1>1, <1>2
-----------------------------------------------------------------------------
USE SizesAssumption, MarginAssumption DEF Cell, Silence, Stale

LEMMA Nonzero == BufferSize \in Nat \ {0} /\ 0 \in Cell /\ 0 \in Token
  BY DEF Token

(* The cyclic arithmetic of the two buffers. *)
LEMMA MoveType ==
    ASSUME NEW n \in Nat \ {0}, NEW a \in 0 .. n - 1, NEW k \in 0 .. n
    PROVE  Move(a, k, n) \in 0 .. n - 1
  BY DEF Move

LEMMA GapType ==
    ASSUME NEW n \in Nat \ {0}, NEW a \in 0 .. n - 1, NEW b \in 0 .. n - 1
    PROVE  Gap(a, b, n) \in 0 .. n - 1 /\ (Gap(a, b, n) = 0 <=> a = b)
  BY DEF Gap

LEMMA CellGap ==
    ASSUME NEW a \in Cell, NEW b \in Cell
    PROVE  Gap(a, b, BufferSize) \in Nat /\ Gap(a, b, BufferSize) < BufferSize
  BY DEF Gap

LEMMA GapMoveEnd ==
    ASSUME NEW n \in Nat \ {0}, NEW a \in 0 .. n - 1, NEW b \in 0 .. n - 1, NEW k \in Nat,
           Gap(a, b, n) + k < n
    PROVE  Gap(a, Move(b, k, n), n) = Gap(a, b, n) + k
  BY DEF Gap, Move

LEMMA GapMoveStart ==
    ASSUME NEW n \in Nat \ {0}, NEW a \in 0 .. n - 1, NEW b \in 0 .. n - 1, NEW k \in Nat,
           k <= Gap(a, b, n)
    PROVE  Gap(Move(a, k, n), b, n) = Gap(a, b, n) - k
  BY DEF Gap, Move

LEMMA GapSum ==
    ASSUME NEW n \in Nat \ {0}, NEW a \in 0 .. n - 1, NEW b \in 0 .. n - 1,
           NEW c \in 0 .. n - 1
    PROVE  Gap(a, c, n) = IF Gap(a, b, n) <= Gap(a, c, n)
                          THEN Gap(a, b, n) + Gap(b, c, n)
                          ELSE Gap(a, b, n) + Gap(b, c, n) - n
  BY DEF Gap

Inv == TypeOK /\ RingConsistent /\ MarginInvariant

LEMMA InitInv == Init => Inv
<1> SUFFICES ASSUME Init PROVE Inv
  OBVIOUS
<1> USE DEF Init
<1>1. TypeOK
  <2>1. dma \in [Cell -> Token \cup {Silence, Stale}]
    BY DEF Unwritten
  <2>2. ring \in [0 .. Capacity - 1 -> Token]
    BY Nonzero DEF Blank
  <2>3. /\ pos \in Cell /\ fill \in Cell /\ prev \in Cell /\ irqPos \in Cell
        /\ into \in 0 .. Period - 1 /\ late \in 0 .. MaxLag
        /\ readPos \in 0 .. Capacity - 1 /\ writePos \in 0 .. Capacity - 1
        /\ size \in 0 .. Word - 1
        /\ count \in 0 .. Allowed /\ fromRing \in 0 .. Allowed
    BY Nonzero
  <2>4. open \in BOOLEAN /\ run \in BOOLEAN /\ bcis \in BOOLEAN /\ want \in BOOLEAN
    OBVIOUS
  <2>5. next \in Token
    BY Nonzero
  <2> QED BY <2>1, <2>2, <2>3, <2>4, <2>5 DEF TypeOK
<1>2. RingConsistent
  BY DEF RingConsistent, Move
<1>3. MarginInvariant
  BY DEF MarginInvariant
<1> QED BY <1>1, <1>2, <1>3 DEF Inv

LEMMA CopyType ==
    ASSUME TypeOK, RingConsistent, NEW n \in 0 .. BufferSize, NEW k \in 0 .. Capacity,
           k <= size, CopyFromRing(n, k)
    PROVE  /\ dma' \in [Cell -> Token \cup {Silence, Stale}]
           /\ fill' \in Cell
           /\ readPos' \in 0 .. Capacity - 1
           /\ size' = size - k
           /\ RingConsistent'
<1> USE DEF TypeOK, RingConsistent, CopyFromRing
<1>1. ASSUME NEW c \in Cell, NEW d, d = Gap(fill, c, BufferSize)
      PROVE  (IF d >= n THEN dma[c]
              ELSE IF d < k THEN ring[Move(readPos, d, Capacity)]
              ELSE Silence) \in Token \cup {Silence, Stale}
  <2>1. d \in Nat  BY <1>1, GapType, Nonzero
  <2>2. d < k => Move(readPos, d, Capacity) \in 0 .. Capacity - 1
    <3>1. d < k => d \in 0 .. Capacity  BY <2>1
    <3> QED BY <3>1, MoveType
  <2> QED BY <2>1, <2>2
<1>2. dma' \in [Cell -> Token \cup {Silence, Stale}]
  BY <1>1
<1>3. fill' \in Cell
  BY MoveType, Nonzero
<1>4. readPos' \in 0 .. Capacity - 1
  BY MoveType
<1>5. size' = size - k /\ size' <= Capacity
  OBVIOUS
<1>6. writePos' = Move(readPos', size', Capacity)
  BY <1>5 DEF Move
<1> QED BY <1>2, <1>3, <1>4, <1>5, <1>6

-----------------------------------------------------------------------------
(* The client's calls. *)

LEMMA OpenCloseStep ==
    ASSUME Inv, Open \/ Close
    PROVE  Inv'
<1> USE DEF Inv, TypeOK, RingConsistent
<1>1. CASE Open
  <2> USE <1>1 DEF Open, New, hw, buffer, player
  <2>1. TypeOK' /\ RingConsistent'
    BY Nonzero DEF Move
  <2>2. pos' = 0 /\ prev' = 0 /\ fill' = 0 /\ irq' = "idle" /\ bcis' = FALSE
        /\ run' = FALSE /\ play' = "out" /\ open'
    BY DEF MarginInvariant
  <2>3. Since' = 0 /\ Ahead' = 0 /\ Gap(pos, fill, BufferSize)' = 0
    BY <2>2 DEF Since, Ahead, Gap
  <2>4. SinceBounded'
    BY <2>1, <2>2, <2>3 DEF SinceBounded
  <2>5. Written'
    <3>1. \A c \in Cell : Gap(0, c, BufferSize) >= 0
      BY GapType, Nonzero
    <3>2. Gap(0, 0, BufferSize) = 0
      BY DEF Gap
    <3> QED BY <2>2, <3>1, <3>2 DEF Written, Gap
  <2>6. MarginInvariant'
    BY <2>2, <2>3, <2>4, <2>5 DEF MarginInvariant
  <2> QED BY <2>1, <2>6
<1>2. CASE Close
  <2> USE <1>2 DEF Close
  <2>1. TypeOK'
    <3>1. dma' \in [Cell -> Token \cup {Silence, Stale}]
      BY DEF Unwritten
    <3>2. ring' \in [0 .. Capacity - 1 -> Token]
      BY Nonzero DEF Blank
    <3>3. open' \in BOOLEAN /\ run' \in BOOLEAN /\ bcis' \in BOOLEAN
      OBVIOUS
    <3>4. /\ pos' \in Cell /\ into' \in 0 .. Period - 1 /\ late' \in 0 .. MaxLag
          /\ size' \in 0 .. Word - 1 /\ next' \in Token
          /\ readPos' \in 0 .. Capacity - 1 /\ writePos' \in 0 .. Capacity - 1
      BY Nonzero
    <3> QED BY <3>1, <3>2, <3>3, <3>4 DEF player
  <2>2. RingConsistent'
    BY DEF Move
  <2>3. ~open' /\ ~run' /\ irq' = "idle" /\ ~bcis' /\ play' = "out" /\ pos' = 0
    BY DEF player
  <2>4. MarginInvariant'
    BY <2>3 DEF MarginInvariant
  <2> QED BY <2>1, <2>2, <2>4
<1> QED BY <1>1, <1>2

(* Nothing but the ring changes, and play() is not inside its copy. *)
LEMMA RingOnly ==
    ASSUME Inv, play # "copy", UNCHANGED <<open, hw, dma, fill, prev, irq, irqPos, player>>
    PROVE  MarginInvariant'
<1> USE DEF Inv, hw, player
<1>1. Since' = Since /\ Ahead' = Ahead
      /\ Gap(pos, fill, BufferSize)' = Gap(pos, fill, BufferSize)
  BY DEF Since, Ahead, Gap
<1>2. SinceBounded' = SinceBounded
  BY <1>1 DEF SinceBounded, Gap
<1>3. Written' = Written
  BY DEF Written, Gap
<1> QED BY <1>1, <1>2, <1>3 DEF MarginInvariant

LEMMA QueueDataStep ==
    ASSUME Inv, NEW n \in 1 .. Capacity, QueueData(n)
    PROVE  Inv'
<1> DEFINE m == MinOf(n, Capacity - size)
<1> USE DEF TypeOK, RingConsistent
<1>1. m \in 0 .. Capacity /\ size + m <= Capacity
  BY DEF Inv, MinOf
<1>2. /\ ring' = [i \in 0 .. Capacity - 1 |->
                    IF Gap(writePos, i, Capacity) < m
                    THEN (next + Gap(writePos, i, Capacity)) % Tokens ELSE ring[i]]
      /\ writePos' = Move(writePos, m, Capacity) /\ size' = size + m
      /\ next' = (next + m) % Tokens /\ readPos' = readPos /\ play = "out"
      /\ UNCHANGED <<open, hw, dma, fill, prev, readPos, irq, irqPos, player>>
  BY DEF QueueData
<1> HIDE DEF m
<1>3. \A x \in Nat : x % Tokens \in Token
  BY DEF Token
<1>4. ring' \in [0 .. Capacity - 1 -> Token]
  <2>1. ASSUME NEW i \in 0 .. Capacity - 1
        PROVE  (next + Gap(writePos, i, Capacity)) % Tokens \in Token
    <3>1. Gap(writePos, i, Capacity) \in 0 .. Capacity - 1
      BY GapType DEF Inv
    <3>2. next \in Nat  BY DEF Inv, Token
    <3> QED BY <3>1, <3>2, <1>3
  <2> QED BY <1>2, <2>1 DEF Inv
<1>5. writePos' \in 0 .. Capacity - 1
  BY <1>1, <1>2, MoveType DEF Inv
<1>6. next' \in Token
  <2>1. next + m \in Nat  BY <1>1 DEF Inv, Token
  <2> QED BY <1>2, <1>3, <2>1
<1>7. TypeOK'
  BY <1>1, <1>2, <1>4, <1>5, <1>6 DEF Inv, hw, player
<1>8. RingConsistent'
  BY <1>1, <1>2 DEF Inv, Move
<1>9. MarginInvariant'
  BY <1>2, RingOnly DEF Inv
<1> QED BY <1>7, <1>8, <1>9 DEF Inv

LEMMA ClearQueueStep ==
    ASSUME Inv, ClearQueue
    PROVE  Inv'
<1>1. TypeOK' /\ RingConsistent'
  BY DEF Inv, TypeOK, RingConsistent, ClearQueue, hw, player, Move
<1>2. MarginInvariant'
  BY RingOnly DEF ClearQueue
<1> QED BY <1>1, <1>2 DEF Inv

-----------------------------------------------------------------------------
(* play(): with Quiet, nothing moves while it copies. *)

LEMMA PlayCallStep ==
    ASSUME Inv, Quiet, NEW b \in BOOLEAN, PlayRunning(b) \/ PlayPaused(b)
    PROVE  Inv'
<1> USE DEF Inv, TypeOK, RingConsistent
<1>1. /\ UNCHANGED <<open, hw, dma, fill, prev, buffer, irq, irqPos, fromRing, next>>
      /\ open /\ play = "out" /\ want' = b
  BY DEF PlayRunning, PlayPaused
<1>2. SoftwareAhead(pos) = Gap(pos, fill, BufferSize)
  BY DEF SoftwareAhead, Gap
<1>3. /\ Since' = Since /\ Ahead' = Ahead /\ (SinceBounded' <=> SinceBounded)
      /\ Gap(pos, fill, BufferSize)' = Gap(pos, fill, BufferSize)
      /\ (Written' <=> Written)
  BY <1>1 DEF Since, Ahead, Gap, SinceBounded, Written, hw
<1>4. /\ Since \in 0 .. BufferSize - 1 /\ Ahead \in 0 .. BufferSize - 1
      /\ Since <= Ahead /\ Gap(pos, fill, BufferSize) = Ahead - Since
  BY <1>1, GapType, Nonzero DEF Since, Ahead, MarginInvariant
<1>5. \/ play' = "apply" /\ Ahead >= Allowed /\ count' = count
      \/ /\ play' = "size" /\ ~run /\ irq = "idle" /\ ~bcis
         /\ count' = Allowed - (Ahead - Since) /\ Ahead - Since < Allowed
  <2>1. CASE PlayRunning(b)
    <3>1. run /\ play' = "apply" /\ count' = count
      BY <2>1 DEF PlayRunning
    <3> QED BY <1>1, <1>4, <3>1 DEF MarginInvariant
  <2>2. CASE PlayPaused(b)
    BY <1>2, <1>4, <2>2 DEF PlayPaused
  <2> QED BY <2>1, <2>2
<1>6. count' \in 0 .. Allowed
  BY <1>4, <1>5
<1>7. TypeOK' /\ RingConsistent'
  BY <1>1, <1>5, <1>6 DEF hw, buffer
<1>8. MarginInvariant'
  BY <1>1, <1>3, <1>4, <1>5 DEF MarginInvariant, hw
<1> QED BY <1>7, <1>8

LEMMA PlayReadSizeStep ==
    ASSUME Inv, PlayReadSize
    PROVE  Inv'
<1> USE DEF Inv, TypeOK, RingConsistent, PlayReadSize
<1>1. fromRing' <= count /\ fromRing' <= size /\ fromRing' \in 0 .. Allowed
  BY DEF MinOf
<1>2. TypeOK' /\ RingConsistent'
  BY <1>1 DEF hw, buffer
<1>3. /\ Since' = Since /\ Ahead' = Ahead /\ (SinceBounded' <=> SinceBounded)
      /\ Gap(pos, fill, BufferSize)' = Gap(pos, fill, BufferSize)
      /\ (Written' <=> Written)
  BY DEF Since, Ahead, Gap, SinceBounded, Written, hw
<1>4. MarginInvariant'
  BY <1>1, <1>3 DEF MarginInvariant, hw, buffer
<1> QED BY <1>2, <1>4

(* Copying n bytes from current_fill_pos on extends what has been written.  *)
LEMMA CopyWrites ==
    ASSUME TypeOK, RingConsistent, Written, NEW n \in 0 .. BufferSize,
           NEW k \in 0 .. Capacity, k <= size, CopyFromRing(n, k),
           pos' = pos, Gap(pos, fill, BufferSize) + n < BufferSize
    PROVE  /\ Gap(pos, fill, BufferSize)' = Gap(pos, fill, BufferSize) + n
           /\ Written'
<1>0. /\ pos \in Cell /\ fill \in Cell /\ n \in Nat
      /\ readPos \in 0 .. Capacity - 1 /\ size <= Capacity
      /\ ring \in [0 .. Capacity - 1 -> Token]
  BY Nonzero DEF TypeOK, RingConsistent
<1>1. Gap(pos, fill, BufferSize)' = Gap(pos, fill, BufferSize) + n
  <2>1. Gap(pos, Move(fill, n, BufferSize), BufferSize) = Gap(pos, fill, BufferSize) + n
    BY <1>0, GapMoveEnd, Nonzero
  <2>2. fill' = Move(fill, n, BufferSize)
    BY DEF CopyFromRing
  <2> QED BY <2>1, <2>2 DEF Gap
<1>2. ASSUME NEW c \in Cell, Gap(pos, c, BufferSize) < Gap(pos, fill, BufferSize) + n
      PROVE  dma'[c] # Stale
  <2>1. Gap(fill, c, BufferSize) \in Nat /\ Gap(pos, c, BufferSize) \in Nat
        /\ Gap(pos, fill, BufferSize) \in Nat
    BY <1>0, CellGap
  <2>0. dma'[c] = IF Gap(fill, c, BufferSize) >= n THEN dma[c]
                  ELSE IF Gap(fill, c, BufferSize) < k
                  THEN ring[Move(readPos, Gap(fill, c, BufferSize), Capacity)]
                  ELSE Silence
    BY DEF CopyFromRing
  <2>2. CASE Gap(fill, c, BufferSize) < n
    <3>1. CASE Gap(fill, c, BufferSize) < k
      <4>1. Move(readPos, Gap(fill, c, BufferSize), Capacity) \in 0 .. Capacity - 1
        <5>1. Gap(fill, c, BufferSize) \in 0 .. Capacity  BY <2>1, <3>1
        <5> QED BY <1>0, <5>1, MoveType
      <4>2. dma'[c] \in Token
        BY <1>0, <2>0, <2>1, <2>2, <3>1, <4>1
      <4> QED BY <4>2 DEF Token
    <3>2. CASE ~(Gap(fill, c, BufferSize) < k)
      <4>1. dma'[c] = Silence
        BY <1>0, <2>0, <2>1, <2>2, <3>2
      <4> QED BY <4>1
    <3> QED BY <3>1, <3>2
  <2>3. CASE Gap(fill, c, BufferSize) >= n
    <3>1. Gap(pos, c, BufferSize) < Gap(pos, fill, BufferSize)
      BY <1>0, <1>2, <2>1, <2>3, GapSum, Nonzero
    <3>2. dma'[c] = dma[c]
      BY <1>0, <2>0, <2>1, <2>3
    <3> QED BY <3>1, <3>2 DEF Written
  <2> QED BY <2>1, <2>2, <2>3
<1>3. \A c \in Cell : Gap(pos, c, BufferSize)' = Gap(pos, c, BufferSize)
  BY DEF Gap
<1> QED BY <1>1, <1>2, <1>3 DEF Written

LEMMA PlayCopyStep ==
    ASSUME Inv, PlayCopy
    PROVE  Inv'
<1> DEFINE k == fromRing
<1>1. /\ play = "copy" /\ play' = "apply" /\ CopyFromRing(count, fromRing)
      /\ UNCHANGED <<open, hw, prev, irq, irqPos, want, count, fromRing, next>>
  BY DEF PlayCopy
<1>2. /\ open /\ ~run /\ irq = "idle" /\ ~bcis
      /\ SinceBounded /\ Written
      /\ count + Ahead - Since = Allowed /\ Since <= Ahead
      /\ Gap(pos, fill, BufferSize) = Ahead - Since
      /\ fromRing <= count /\ fromRing <= size
  BY <1>1 DEF Inv, MarginInvariant, TypeOK
<1>3. /\ Since \in Nat /\ Ahead \in Nat /\ Since <= MaxLag + into
  BY <1>2, CellGap DEF Inv, TypeOK, Since, Ahead, SinceBounded
<1>4. /\ count \in 0 .. BufferSize /\ fromRing \in 0 .. Capacity
      /\ TypeOK /\ RingConsistent /\ Written /\ pos' = pos
      /\ Gap(pos, fill, BufferSize) + count = Allowed
  BY <1>1, <1>2, <1>3 DEF Inv, TypeOK, RingConsistent, hw
<1>5. /\ dma' \in [Cell -> Token \cup {Silence, Stale}]
      /\ fill' \in Cell /\ readPos' \in 0 .. Capacity - 1
      /\ size' = size - fromRing /\ RingConsistent'
  BY <1>1, <1>2, <1>4, CopyType
<1>6. Gap(pos, fill, BufferSize)' = Allowed /\ Written'
  BY <1>1, <1>2, <1>4, CopyWrites
<1>7. TypeOK'
  BY <1>1, <1>2, <1>4, <1>5 DEF TypeOK, RingConsistent, CopyFromRing, hw
<1>8. Ahead' = Since + Allowed
  <2>1. fill' = Move(fill, count, BufferSize)
    BY <1>1 DEF CopyFromRing
  <2>2. Ahead + count < BufferSize
    BY <1>2, <1>3, <1>4 DEF TypeOK
  <2>3. Gap(prev, Move(fill, count, BufferSize), BufferSize) = Ahead + count
    BY <1>4, <2>2, GapMoveEnd, Nonzero DEF TypeOK, Ahead
  <2> QED BY <1>1, <1>2, <1>3, <1>4, <2>1, <2>3, SMTT(30) DEF Ahead, TypeOK
<1>9. Since' = Since /\ (SinceBounded' <=> SinceBounded)
  BY <1>1 DEF Since, SinceBounded, Gap, hw
<1>10. MarginInvariant'
  BY <1>1, <1>2, <1>3, <1>4, <1>6, <1>8, <1>9 DEF MarginInvariant, TypeOK, hw
<1> QED BY <1>5, <1>7, <1>10 DEF Inv

LEMMA PlayApplyStep ==
    ASSUME Inv, PlayApply
    PROVE  Inv'
<1>1. /\ play = "apply" /\ play' = "out" /\ run' = want
      /\ want' = FALSE /\ count' = 0 /\ fromRing' = 0
      /\ UNCHANGED <<open, pos, bcis, into, late, dma, fill, prev, buffer, irq,
                     irqPos, next>>
  BY DEF PlayApply
<1>2. TypeOK' /\ RingConsistent'
  <2>1. run' \in BOOLEAN /\ want' \in BOOLEAN
    BY <1>1 DEF Inv, TypeOK
  <2>2. count' \in 0 .. Allowed /\ fromRing' \in 0 .. Allowed
    BY <1>1
  <2>3. RingConsistent'
    BY <1>1 DEF Inv, RingConsistent, buffer
  <2>4. play' \in {"out", "size", "copy", "apply"}
    BY <1>1
  <2> QED BY <1>1, <2>1, <2>2, <2>3, <2>4 DEF Inv, TypeOK, buffer
<1>3. open /\ Ahead # 0
  BY <1>1 DEF Inv, MarginInvariant
<1>4. /\ Since' = Since /\ Ahead' = Ahead /\ (SinceBounded' <=> SinceBounded)
      /\ Gap(pos, fill, BufferSize)' = Gap(pos, fill, BufferSize)
      /\ (Written' <=> Written)
  BY <1>1 DEF Since, Ahead, Gap, SinceBounded, Written
<1>5. MarginInvariant'
  BY <1>1, <1>3, <1>4 DEF Inv, MarginInvariant
<1> QED BY <1>2, <1>5 DEF Inv

-----------------------------------------------------------------------------
(* The interrupt handler. *)

LEMMA IrqSampleStep ==
    ASSUME Inv, IrqSample
    PROVE  Inv'
<1>1. /\ bcis /\ irq = "idle" /\ irq' = "sampled" /\ irqPos' = pos
      /\ UNCHANGED <<open, hw, dma, fill, prev, buffer, player, next>>
  BY DEF IrqSample
<1>2. TypeOK' /\ RingConsistent'
  BY <1>1 DEF Inv, TypeOK, RingConsistent, hw, buffer, player
<1>3. open /\ Ahead # 0 /\ play \notin {"size", "copy"}
  BY <1>1 DEF Inv, MarginInvariant
<1>4. /\ Since' = Since /\ Ahead' = Ahead
      /\ Gap(pos, fill, BufferSize)' = Gap(pos, fill, BufferSize)
      /\ (Written' <=> Written)
  BY <1>1 DEF Since, Ahead, Gap, Written, hw
<1>5. SinceBounded'
  <2>1. Since <= MaxLag + Period + late
    BY <1>1, <1>3 DEF Inv, MarginInvariant, SinceBounded
  <2>2. Gap(prev', irqPos', BufferSize) = Since /\ Gap(irqPos', pos', BufferSize) = 0
    BY <1>1 DEF Since, Gap, hw, Inv, TypeOK
  <2>3. Since \in Nat /\ late \in Nat
    BY CellGap DEF Inv, TypeOK, Since
  <2>4. Gap(prev, irqPos, BufferSize)' = Since /\ Gap(irqPos, pos, BufferSize)' = 0
    BY <2>2 DEF Gap
  <2> QED BY <1>1, <1>4, <2>1, <2>3, <2>4 DEF SinceBounded, hw
<1>6. MarginInvariant'
  BY <1>1, <1>3, <1>4, <1>5 DEF Inv, MarginInvariant, hw, player
<1> QED BY <1>2, <1>6 DEF Inv

LEMMA IrqCopyStep ==
    ASSUME Inv, IrqCopy
    PROVE  Inv'
<1> DEFINE q == Gap(prev, irqPos, BufferSize)
           rest == Gap(irqPos, pos, BufferSize)
           k == MinOf(q, size)
<1>1. /\ irq = "sampled" /\ irq' = "copied" /\ CopyFromRing(q, k) /\ prev' = irqPos
      /\ UNCHANGED <<open, hw, irqPos, player, next>>
  BY DEF IrqCopy, Played, Gap
<1>2. /\ open /\ bcis /\ SinceBounded /\ Written
      /\ Since <= Ahead /\ Gap(pos, fill, BufferSize) = Ahead - Since
      /\ Ahead \in Allowed .. Allowed + Period + MaxLag - 1
      /\ play \notin {"size", "copy"}
  BY <1>1 DEF Inv, MarginInvariant, SinceBounded
<1>3. Since = q + rest /\ rest <= late
  BY <1>1, <1>2 DEF SinceBounded
<1>4. /\ pos \in Cell /\ fill \in Cell /\ prev \in Cell /\ irqPos \in Cell
      /\ size \in Nat /\ size <= Capacity /\ late \in Nat
  BY DEF Inv, TypeOK, RingConsistent
<1>5. /\ Since \in Nat /\ Ahead \in Nat /\ Ahead < BufferSize
      /\ q \in Nat /\ q < BufferSize /\ rest \in Nat
      /\ Gap(pos, fill, BufferSize) \in Nat
  BY <1>4, CellGap DEF Since, Ahead
<1>6. Ahead' = Ahead
  <2>1. Gap(prev, fill, BufferSize) = Ahead
    BY DEF Ahead
  <2>2. q <= Ahead
    BY <1>2, <1>3, <1>5
  <2>3. Gap(irqPos, fill, BufferSize) = Ahead - q
    <3>1. Gap(prev, fill, BufferSize)
            = IF q <= Gap(prev, fill, BufferSize)
              THEN q + Gap(irqPos, fill, BufferSize)
              ELSE q + Gap(irqPos, fill, BufferSize) - BufferSize
      BY <1>4, GapSum, Nonzero
    <3>2. Gap(irqPos, fill, BufferSize) \in Nat
      BY <1>4, CellGap
    <3> HIDE DEF q
    <3> QED BY <1>5, <2>1, <2>2, <3>1, <3>2
  <2>4. Gap(irqPos, Move(fill, q, BufferSize), BufferSize) = Ahead
    <3> HIDE DEF q
    <3> QED BY <1>4, <1>5, <2>2, <2>3, GapMoveEnd, Nonzero
  <2>5. fill' = Move(fill, q, BufferSize)
    BY <1>1 DEF CopyFromRing
  <2> QED BY <1>1, <2>4, <2>5 DEF Ahead, Gap
<1>7. Since' = rest
  BY <1>1 DEF Since, Gap, hw
<1> HIDE DEF q, rest
<1>8. /\ q \in 0 .. BufferSize /\ k \in 0 .. Capacity /\ k <= size
      /\ Gap(pos, fill, BufferSize) + q < BufferSize
  BY <1>2, <1>3, <1>4, <1>5 DEF MinOf
<1> HIDE DEF k
<1>9. TypeOK /\ RingConsistent /\ Written /\ pos' = pos
  BY <1>1, <1>2 DEF Inv, hw
<1>10. /\ dma' \in [Cell -> Token \cup {Silence, Stale}]
       /\ fill' \in Cell /\ readPos' \in 0 .. Capacity - 1
       /\ size' = size - k /\ RingConsistent'
  BY <1>1, <1>8, <1>9, CopyType
<1>11. Gap(pos, fill, BufferSize)' = Gap(pos, fill, BufferSize) + q /\ Written'
  BY <1>1, <1>8, <1>9, CopyWrites
<1>12. TypeOK'
  <2>1. size' \in 0 .. Word - 1
    BY <1>4, <1>8, <1>10
  <2> QED BY <1>1, <1>9, <1>10, <2>1 DEF TypeOK, CopyFromRing, hw, player
<1>13. SinceBounded'
  BY <1>1, <1>2, <1>3, <1>7 DEF SinceBounded, hw
<1>14. Gap(pos, fill, BufferSize)' = Ahead' - Since' /\ Since' <= Ahead'
  BY <1>2, <1>3, <1>5, <1>6, <1>7, <1>11
<1>15. MarginInvariant'
  BY <1>1, <1>2, <1>6, <1>11, <1>13, <1>14 DEF MarginInvariant, hw, player
<1> QED BY <1>10, <1>12, <1>15 DEF Inv

LEMMA IrqClearStep ==
    ASSUME Inv, IrqClear
    PROVE  Inv'
<1>1. /\ irq = "copied" /\ irq' = "idle" /\ bcis' = FALSE /\ late' = 0 /\ irqPos' = 0
      /\ UNCHANGED <<open, run, pos, into, dma, fill, prev, buffer, player, next>>
  BY DEF IrqClear
<1>2. TypeOK' /\ RingConsistent'
  <2>1. irqPos' \in Cell /\ late' \in 0 .. MaxLag
    BY <1>1, Nonzero
  <2> QED BY <1>1, <2>1 DEF Inv, TypeOK, RingConsistent, buffer, player
<1>3. open /\ Ahead # 0 /\ Since <= late /\ play \notin {"size", "copy"}
  BY <1>1 DEF Inv, MarginInvariant, SinceBounded
<1>4. /\ Since' = Since /\ Ahead' = Ahead
      /\ Gap(pos, fill, BufferSize)' = Gap(pos, fill, BufferSize)
      /\ (Written' <=> Written)
  BY <1>1 DEF Since, Ahead, Gap, Written
<1>5. Since \in Nat /\ late \in 0 .. MaxLag /\ into \in Nat
  BY CellGap DEF Inv, TypeOK, Since
<1>6. SinceBounded'
  BY <1>1, <1>3, <1>4, <1>5 DEF SinceBounded
<1>7. MarginInvariant'
  BY <1>1, <1>3, <1>4, <1>6 DEF Inv, MarginInvariant, player
<1> QED BY <1>2, <1>7 DEF Inv

\* A running stream is never caught up with.
LEMMA StaysAhead ==
    ASSUME Inv, run
    PROVE  /\ open /\ SinceBounded /\ Written
           /\ Ahead \in Allowed .. Allowed + Period + MaxLag - 1
           /\ Gap(pos, fill, BufferSize) = Ahead - Since
           /\ Since \in Nat /\ Since < Ahead
<1>1. /\ open /\ SinceBounded /\ Written
      /\ Gap(pos, fill, BufferSize) = Ahead - Since
      /\ Ahead \in Allowed .. Allowed + Period + MaxLag - 1
  BY DEF Inv, MarginInvariant
<1>2. /\ pos \in Cell /\ into \in 0 .. Period - 1 /\ late \in 0 .. MaxLag
      /\ irq \in {"idle", "sampled", "copied"}
      /\ Since \in Nat
  BY CellGap DEF Inv, TypeOK, Since
<1>3. Since < Ahead
  <2>1. CASE irq = "idle" /\ ~bcis
    BY <1>1, <1>2, <2>1 DEF SinceBounded
  <2>2. CASE bcis /\ irq # "copied"
    BY <1>1, <1>2, <2>2 DEF SinceBounded
  <2>3. CASE irq = "copied"
    BY <1>1, <1>2, <2>3 DEF SinceBounded
  <2> QED BY <1>1, <2>1, <2>2, <2>3 DEF SinceBounded
<1> QED BY <1>1, <1>2, <1>3

-----------------------------------------------------------------------------
(* The hardware plays a unit. *)

LEMMA TickStep ==
    ASSUME Inv, Tick
    PROVE  Inv'
<1>1. /\ run /\ (bcis => late < MaxLag)
      /\ dma' = [dma EXCEPT ![pos] = Stale]
      /\ pos' = Move(pos, 1, BufferSize) /\ into' = Move(into, 1, Period)
      /\ bcis' = (bcis \/ into' = 0)
      /\ late' = IF bcis THEN late + 1 ELSE 0
      /\ UNCHANGED <<open, run, fill, prev, buffer, irq, irqPos, player, next>>
  BY DEF Tick
<1>2. /\ open /\ SinceBounded /\ Written
      /\ Since <= Ahead /\ Gap(pos, fill, BufferSize) = Ahead - Since
      /\ Ahead \in Allowed .. Allowed + Period + MaxLag - 1
      /\ play \notin {"size", "copy"}
  BY <1>1 DEF Inv, MarginInvariant
<1>3. /\ pos \in Cell /\ fill \in Cell /\ prev \in Cell /\ irqPos \in Cell
      /\ into \in 0 .. Period - 1 /\ late \in 0 .. MaxLag
      /\ irq \in {"idle", "sampled", "copied"}
  BY DEF Inv, TypeOK
<1>4. /\ Since \in Nat /\ Ahead \in Nat /\ Ahead < BufferSize
      /\ Gap(irqPos, pos, BufferSize) \in Nat
      /\ Gap(prev, irqPos, BufferSize) \in Nat
  BY <1>3, CellGap DEF Since, Ahead
<1>5. into' = IF into = Period - 1 THEN 0 ELSE into + 1
  BY <1>1, <1>3 DEF Move
<1>6. Since < Ahead
  BY <1>1, StaysAhead
<1>7. pos' \in Cell
  BY <1>1, <1>3 DEF Move
<1>8. Since' = Since + 1
  <2>1. Gap(prev, Move(pos, 1, BufferSize), BufferSize) = Since + 1
    BY <1>3, <1>4, <1>6, GapMoveEnd, Nonzero DEF Since
  <2> QED BY <1>1, <2>1 DEF Since, Gap
<1>9. Ahead' = Ahead /\ Gap(prev, irqPos, BufferSize)' = Gap(prev, irqPos, BufferSize)
  BY <1>1 DEF Ahead, Gap
<1>10. Gap(pos, fill, BufferSize)' = Ahead - Since - 1
  <2>1. Gap(Move(pos, 1, BufferSize), fill, BufferSize) = Gap(pos, fill, BufferSize) - 1
    BY <1>2, <1>3, <1>4, <1>6, GapMoveStart, Nonzero
  <2> QED BY <1>1, <1>2, <2>1 DEF Gap
<1>11. Written'
  <2>1. ASSUME NEW c \in Cell, Gap(pos', c, BufferSize) < Ahead - Since - 1
        PROVE  dma'[c] # Stale
    <3>1. Gap(pos', c, BufferSize) = IF c = pos THEN BufferSize - 1
                                     ELSE Gap(pos, c, BufferSize) - 1
      BY <1>1, <1>3 DEF Gap, Move
    <3>2. c # pos
      BY <1>4, <2>1, <3>1
    <3>3. Gap(pos, c, BufferSize) < Gap(pos, fill, BufferSize)
      BY <1>2, <1>3, <1>4, <2>1, <3>1, <3>2, CellGap
    <3>4. dma'[c] = dma[c]
      BY <1>1, <3>2 DEF Inv, TypeOK
    <3> QED BY <1>2, <3>3, <3>4 DEF Written
  <2>2. \A c \in Cell : Gap(pos, c, BufferSize)' = Gap(pos', c, BufferSize)
    BY DEF Gap
  <2> QED BY <1>10, <2>1, <2>2 DEF Written
<1>12. irq # "idle" =>
         Gap(irqPos, pos, BufferSize)' = Gap(irqPos, pos, BufferSize) + 1
  <2> SUFFICES ASSUME irq # "idle"
               PROVE  Gap(irqPos, pos, BufferSize)' = Gap(irqPos, pos, BufferSize) + 1
    OBVIOUS
  <2>1. Gap(irqPos, pos, BufferSize) <= Since
    <3>1. CASE irq = "sampled"
      BY <1>2, <1>4, <3>1 DEF SinceBounded
    <3>2. CASE irq = "copied"
      BY <1>2, <1>4, <3>2 DEF SinceBounded, Since
    <3> QED BY <1>3, <3>1, <3>2
  <2>2. Gap(irqPos, Move(pos, 1, BufferSize), BufferSize)
          = Gap(irqPos, pos, BufferSize) + 1
    BY <1>3, <1>4, <1>6, <2>1, GapMoveEnd, Nonzero
  <2> QED BY <1>1, <2>2 DEF Gap
<1>13. SinceBounded'
  <2>1. CASE irq = "idle" /\ ~bcis
    <3>1. Since' <= MaxLag + into + 1
      BY <1>2, <1>3, <1>4, <1>8, <2>1 DEF SinceBounded
    <3>2. irq' = "idle" /\ (bcis' <=> into = Period - 1) /\ late' = 0
      <4>1. bcis' <=> into' = 0
        BY <1>1, <2>1
      <4>2. into' = 0 <=> into = Period - 1
        BY <1>3, <1>5
      <4> QED BY <1>1, <2>1, <4>1, <4>2
    <3> QED BY <1>3, <1>4, <1>5, <1>8, <3>1, <3>2 DEF SinceBounded
  <2>2. CASE bcis /\ irq = "idle"
    <3>1. Since <= MaxLag + Period + late
      BY <1>2, <2>2 DEF SinceBounded
    <3>2. irq' = "idle" /\ bcis' /\ late' = late + 1
      BY <1>1, <2>2
    <3> QED BY <1>3, <1>4, <1>8, <3>1, <3>2 DEF SinceBounded
  <2>3. CASE irq = "sampled"
    <3>1. /\ bcis /\ Since <= MaxLag + Period + late
          /\ Since = Gap(prev, irqPos, BufferSize) + Gap(irqPos, pos, BufferSize)
          /\ Gap(irqPos, pos, BufferSize) <= late
      BY <1>2, <2>3 DEF SinceBounded
    <3>2. irq' = "sampled" /\ bcis' /\ late' = late + 1
      BY <1>1, <2>3, <3>1
    <3>3. Gap(irqPos, pos, BufferSize)' = Gap(irqPos, pos, BufferSize) + 1
      BY <1>12, <2>3
    <3> QED BY <1>3, <1>4, <1>8, <1>9, <3>1, <3>2, <3>3 DEF SinceBounded
  <2>4. CASE irq = "copied"
    <3>1. bcis /\ prev = irqPos /\ Since <= late
      BY <1>2, <2>4 DEF SinceBounded
    <3>2. irq' = "copied" /\ bcis' /\ late' = late + 1 /\ prev' = irqPos'
      BY <1>1, <2>4, <3>1
    <3> QED BY <1>3, <1>4, <1>8, <3>1, <3>2 DEF SinceBounded
  <2> QED BY <1>3, <2>1, <2>2, <2>3, <2>4
<1>14. TypeOK'
  <2>1. dma' \in [Cell -> Token \cup {Silence, Stale}]
    BY <1>1 DEF Inv, TypeOK
  <2>2. into' \in 0 .. Period - 1 /\ late' \in 0 .. MaxLag
    BY <1>1, <1>3, <1>5
  <2>3. bcis' \in BOOLEAN /\ run' \in BOOLEAN /\ open' \in BOOLEAN
    BY <1>1 DEF Inv, TypeOK
  <2> QED BY <1>1, <1>7, <2>1, <2>2, <2>3 DEF Inv, TypeOK, buffer, player
<1>15. RingConsistent'
  BY <1>1 DEF Inv, RingConsistent, buffer
<1>16. MarginInvariant'
  <2>1. open' /\ run' /\ play' \notin {"size", "copy"}
    BY <1>1, <1>2 DEF player
  <2>2. /\ Since' <= Ahead' /\ Gap(pos, fill, BufferSize)' = Ahead' - Since'
        /\ Ahead' # 0 /\ Ahead' \in Allowed .. Allowed + Period + MaxLag - 1
    BY <1>2, <1>4, <1>6, <1>8, <1>9, <1>10
  <2> QED BY <1>11, <1>13, <2>1, <2>2 DEF MarginInvariant
<1> QED BY <1>14, <1>15, <1>16 DEF Inv

LEMMA StutterStep ==
    ASSUME Inv, UNCHANGED vars
    PROVE  Inv'
<1> USE DEF vars, hw, buffer, player, Inv
<1>1. TypeOK' /\ RingConsistent'
  BY DEF TypeOK, RingConsistent
<1>2. /\ Since' = Since /\ Ahead' = Ahead /\ (SinceBounded' <=> SinceBounded)
      /\ Gap(pos, fill, BufferSize)' = Gap(pos, fill, BufferSize)
      /\ (Written' <=> Written)
  BY DEF Since, Ahead, Gap, SinceBounded, Written
<1>3. MarginInvariant'
  BY <1>2 DEF MarginInvariant
<1> QED BY <1>1, <1>3

LEMMA InvStep ==
    ASSUME Quiet, Inv, [Next]_vars
    PROVE  Inv'
<1>1. CASE Client
  <2>1. CASE Open \/ Close
    BY <2>1, OpenCloseStep
  <2>2. CASE \E n \in 1 .. Capacity : QueueData(n)
    BY <2>2, QueueDataStep
  <2>3. CASE ClearQueue
    BY <2>3, ClearQueueStep
  <2>4. CASE \E b \in BOOLEAN : PlayRunning(b) \/ PlayPaused(b)
    BY <2>4, PlayCallStep
  <2> QED BY <1>1, <2>1, <2>2, <2>3, <2>4 DEF Client
<1>2. CASE PlaySteps
  BY <1>2, PlayReadSizeStep, PlayCopyStep, PlayApplyStep DEF PlaySteps
<1>3. CASE Handler
  BY <1>3, IrqSampleStep, IrqCopyStep, IrqClearStep DEF Handler
<1>4. CASE Tick
  BY <1>4, TickStep
<1>5. CASE UNCHANGED vars
  BY <1>5, StutterStep
<1> QED BY <1>1, <1>2, <1>3, <1>4, <1>5 DEF Next

-----------------------------------------------------------------------------
(* The inductive invariant of the quiet client. *)
THEOREM InvHolds ==
    ASSUME Quiet
    PROVE  Spec => []Inv
<1>1. Init => Inv
  BY InitInv
<1>2. Inv /\ [Next]_vars => Inv'
  BY InvStep
<1> QED BY <1>1, <1>2, PTL DEF Spec

(* uhda_simple_stream_*: every position stays inside the buffer it indexes,  *)
(* and no amount of bytes to copy exceeds the allowed ahead.                 *)
THEOREM TypeCorrect ==
    ASSUME Quiet
    PROVE  Spec => []TypeOK
<1>1. Inv => TypeOK
  BY DEF Inv
<1> QED BY <1>1, InvHolds, PTL

(* uhda_simple_stream_get_remaining: what is reported is what lies between   *)
(* the read and the write position of the ring, and fits it.                 *)
THEOREM RingConsistentHolds ==
    ASSUME Quiet
    PROVE  Spec => []RingConsistent
<1>1. Inv => RingConsistent
  BY DEF Inv
<1> QED BY <1>1, InvHolds, PTL

(* simple_stream_period_callback: what is ahead, what was played since the   *)
(* last interrupt and what has been written stay within the margins.         *)
THEOREM MarginInvariantHolds ==
    ASSUME Quiet
    PROVE  Spec => []MarginInvariant
<1>1. Inv => MarginInvariant
  BY DEF Inv
<1> QED BY <1>1, InvHolds, PTL

(* Pausing and resuming leaves prev_irq_pos behind, yet the software stays   *)
(* at least the allowed ahead and at most a period and the lag further.      *)
THEOREM AheadBoundedHolds ==
    ASSUME Quiet
    PROVE  Spec => []AheadBounded
<1>1. Inv => AheadBounded
  <2> SUFFICES ASSUME Inv PROVE AheadBounded
    OBVIOUS
  <2>1. run => open /\ Ahead # 0
    BY DEF Inv, MarginInvariant
  <2>2. open /\ Ahead # 0 => Ahead \in Allowed .. Allowed + Period + MaxLag - 1
    BY DEF Inv, MarginInvariant
  <2>3. run => Ahead >= Allowed
    BY <2>1, <2>2
  <2> QED BY <2>2, <2>3 DEF AheadBounded
<1> QED BY <1>1, InvHolds, PTL

(* The hardware never plays a cell that was not filled since it last played  *)
(* it: margins of a period and twice the interrupt latency are enough.       *)
THEOREM NoUnderrunHolds ==
    ASSUME Quiet
    PROVE  Spec => []NoUnderrun
<1>1. Inv => NoUnderrun
  <2> SUFFICES ASSUME Inv, run PROVE dma[pos] # Stale
    BY DEF NoUnderrun
  <2>1. /\ Written /\ Gap(pos, fill, BufferSize) = Ahead - Since
        /\ Since \in Nat /\ Since < Ahead /\ Ahead \in Nat
    BY StaysAhead
  <2>2. pos \in Cell
    BY DEF Inv, TypeOK
  <2>3. Gap(pos, fill, BufferSize) > 0
    BY <2>1
  <2>4. Gap(pos, pos, BufferSize) = 0
    BY <2>2 DEF Gap
  <2> QED BY <2>1, <2>2, <2>3, <2>4 DEF Written
<1> QED BY <1>1, InvHolds, PTL

-----------------------------------------------------------------------------
(* What is queued and what is filled *)

\* Positions of a cyclic buffer, counted from one of them.
LEMMA GapMove ==
    ASSUME NEW n \in Nat \ {0}, NEW a \in 0 .. n - 1, NEW j \in 0 .. n - 1
    PROVE  Move(a, j, n) \in 0 .. n - 1 /\ Gap(a, Move(a, j, n), n) = j
  BY DEF Move, Gap

\* Two moves in one.
LEMMA MoveMove ==
    ASSUME NEW n \in Nat \ {0}, NEW a \in 0 .. n - 1, NEW k \in Nat, NEW j \in Nat, k + j < n
    PROVE  Move(Move(a, k, n), j, n) = Move(a, k + j, n)
  BY DEF Move

\* The two sequences of the refinement.
LEMMA SequenceTypes ==
    ASSUME TypeOK, RingConsistent
    PROVE  /\ Queued \in Seq(Token) /\ Len(Queued) = size /\ size \in Nat
           /\ Filled \in Seq(Unit) /\ Len(Filled) = Gap(pos, fill, BufferSize)
           /\ Heard(Filled) \in Seq(Token)
<1> DEFINE g == Gap(pos, fill, BufferSize)
<1>1. /\ size \in Nat /\ size <= Capacity /\ readPos \in 0 .. Capacity - 1
      /\ ring \in [0 .. Capacity - 1 -> Token]
      /\ pos \in Cell /\ fill \in Cell /\ dma \in [Cell -> Unit]
  BY DEF TypeOK, RingConsistent, Unit
<1>2. g \in Nat /\ g < BufferSize
  BY <1>1, CellGap
<1>3. \A i \in 1 .. size : ring[Move(readPos, i - 1, Capacity)] \in Token
  <2> TAKE i \in 1 .. size
  <2>1. i - 1 \in 0 .. Capacity
    BY <1>1
  <2>2. Move(readPos, i - 1, Capacity) \in 0 .. Capacity - 1
    BY <1>1, <2>1, MoveType
  <2> QED BY <1>1, <2>2
<1> HIDE DEF g
<1>4. \A i \in 1 .. g : dma[Move(pos, i - 1, BufferSize)] \in Unit
  <2> TAKE i \in 1 .. g
  <2>1. i - 1 \in 0 .. BufferSize
    BY <1>2
  <2>2. Move(pos, i - 1, BufferSize) \in Cell
    BY <1>1, <2>1, MoveType, Nonzero
  <2> QED BY <1>1, <2>2
<1>5. Queued \in Seq(Token) /\ Len(Queued) = size
  BY <1>1, <1>3 DEF Queued
<1>6. Filled \in Seq(Unit) /\ Len(Filled) = g
  BY <1>2, <1>4 DEF Filled, g
<1> QED BY <1>1, <1>5, <1>6, HeardType DEF g

\* What the buffers are after a step.
LEMMA Primed ==
    /\ Filled' = [i \in 1 .. Gap(pos', fill', BufferSize) |-> dma'[Move(pos', i - 1, BufferSize)]]
    /\ Queued' = [i \in 1 .. size' |-> ring'[Move(readPos', i - 1, Capacity)]]
    /\ Heard(Filled)' = Heard(Filled')
  BY DEF Filled, Queued, Gap, Move, Heard

\* Copying n bytes of which k are in the ring hands over those k.
HandsOver(k) == /\ k \in 0 .. Len(Queued)
                /\ Heard(Filled)' = Heard(Filled) \o SubSeq(Queued, 1, k)
                /\ Queued' = SubSeq(Queued, k + 1, Len(Queued))

\* What a copy leaves in the cells from the hardware's position on.
LEMMA CopiedCells ==
    ASSUME TypeOK, RingConsistent, NEW n \in 0 .. BufferSize,
           NEW k \in 0 .. Capacity, k <= size, k <= n, CopyFromRing(n, k),
           pos' = pos, Gap(pos, fill, BufferSize) + n < BufferSize,
           NEW i \in 1 .. Gap(pos, fill, BufferSize) + n
    PROVE  dma'[Move(pos, i - 1, BufferSize)] =
             IF i <= Gap(pos, fill, BufferSize) THEN dma[Move(pos, i - 1, BufferSize)]
             ELSE IF i <= Gap(pos, fill, BufferSize) + k
             THEN ring[Move(readPos, i - 1 - Gap(pos, fill, BufferSize), Capacity)]
             ELSE Silence
<1> DEFINE g == Gap(pos, fill, BufferSize)
           c == Move(pos, i - 1, BufferSize)
           d == Gap(fill, c, BufferSize)
<1>1. /\ pos \in Cell /\ fill \in Cell /\ n \in Nat /\ k \in Nat
      /\ g \in Nat /\ g + n < BufferSize /\ i \in 1 .. g + n /\ g < BufferSize
  BY CellGap DEF TypeOK
<1>2. i - 1 \in 0 .. BufferSize - 1
  <2> HIDE DEF g
  <2> QED BY <1>1
<1>3. c \in Cell /\ Gap(pos, c, BufferSize) = i - 1
  BY <1>1, <1>2, GapMove, Nonzero
<1>4. dma'[c] = IF d >= n THEN dma[c]
                ELSE IF d < k THEN ring[Move(readPos, d, Capacity)] ELSE Silence
  <2> HIDE DEF c
  <2> QED BY <1>3 DEF CopyFromRing
<1>5. d \in Nat /\ d < BufferSize
  <2> HIDE DEF c
  <2> QED BY <1>1, <1>3, CellGap
<1>6. i - 1 = IF g <= i - 1 THEN g + d ELSE g + d - BufferSize
  <2>1. Gap(pos, c, BufferSize) = IF g <= Gap(pos, c, BufferSize) THEN g + d ELSE g + d - BufferSize
    <3> HIDE DEF c
    <3> QED BY <1>1, <1>3, GapSum, Nonzero
  <2> QED BY <1>3, <2>1
<1>c. c = Move(pos, i - 1, BufferSize) /\ g = Gap(pos, fill, BufferSize)
  OBVIOUS
<1> HIDE DEF c, d, g
<1>7. CASE i <= g
  <2>1. d >= n
    BY <1>1, <1>5, <1>6, <1>7
  <2> QED BY <1>4, <1>7, <1>c, <2>1
<1>8. CASE ~(i <= g)
  <2>1. d = i - 1 - g /\ ~(d >= n) /\ (d < k <=> i <= g + k)
    BY <1>1, <1>5, <1>6, <1>8
  <2> QED BY <1>4, <1>8, <1>c, <2>1
<1> QED BY <1>7, <1>8

-----------------------------------------------------------------------------
(* Copying hands bytes over *)

\* What a copy leaves in the ring.
LEMMA CopiedRing ==
    ASSUME TypeOK, RingConsistent, NEW n \in 0 .. BufferSize,
           NEW k \in 0 .. Capacity, k <= size, CopyFromRing(n, k)
    PROVE  Queued' = SubSeq(Queued, k + 1, Len(Queued))
<1>1. /\ size \in Nat /\ size <= Capacity /\ readPos \in 0 .. Capacity - 1 /\ Capacity \in Nat \ {0}
      /\ k \in Nat
  BY DEF TypeOK, RingConsistent
<1>2. size' = size - k /\ ring' = ring /\ readPos' = Move(readPos, k, Capacity)
  BY <1>1 DEF CopyFromRing
<1>3. Queued \in Seq(Token) /\ Len(Queued) = size
      /\ \A i \in 1 .. size : Queued[i] = ring[Move(readPos, i - 1, Capacity)]
  BY SequenceTypes DEF Queued
<1> DEFINE rest == SubSeq(Queued, k + 1, size)
<1>4. rest \in Seq(Token) /\ Len(rest) = size - k /\ \A i \in 1 .. size - k : rest[i] = Queued[k + i]
  <2>1. \A i \in k + 1 .. size : Queued[i] \in Token
    <3>1. \A i \in k + 1 .. size : i \in 1 .. size
      BY <1>1
    <3> QED BY <1>3, <3>1, ElementOfSeq
  <2>2. /\ rest \in Seq(Token)
        /\ Len(rest) = IF k + 1 <= size THEN size - (k + 1) + 1 ELSE 0
        /\ \A i \in 1 .. size - (k + 1) + 1 : rest[i] = Queued[k + 1 + i - 1]
    BY <1>1, <2>1, SubSeqProperties
  <2> HIDE DEF rest
  <2>3. size - (k + 1) + 1 = size - k /\ \A i \in 1 .. size - k : k + 1 + i - 1 = k + i
    BY <1>1
  <2>4. Len(rest) = size - k
    BY <1>1, <2>2
  <2> QED BY <2>2, <2>3, <2>4
<1> HIDE DEF rest
<1>5. Queued' = [i \in 1 .. size - k |-> ring[Move(Move(readPos, k, Capacity), i - 1, Capacity)]]
  BY <1>2, Primed
<1>6. ASSUME NEW i \in 1 .. size - k
      PROVE  ring[Move(Move(readPos, k, Capacity), i - 1, Capacity)] = rest[i]
  <2>1. i - 1 \in Nat /\ k + (i - 1) < Capacity /\ k + i \in 1 .. size /\ k + i - 1 = k + (i - 1)
    BY <1>1
  <2>2. Move(Move(readPos, k, Capacity), i - 1, Capacity) = Move(readPos, k + (i - 1), Capacity)
    BY <1>1, <2>1, MoveMove
  <2>3. rest[i] = Queued[k + i]
    BY <1>4
  <2>4. Queued[k + i] = ring[Move(readPos, k + i - 1, Capacity)]
    BY <1>3, <2>1
  <2> QED BY <2>1, <2>2, <2>3, <2>4
<1>7. rest = [i \in 1 .. size - k |-> rest[i]]
  <2>1. DOMAIN rest = 1 .. size - k /\ rest = [i \in DOMAIN rest |-> rest[i]]
    BY <1>4
  <2> QED BY <2>1
<1>8. Queued' = [i \in 1 .. size - k |-> rest[i]]
  BY <1>5, <1>6
<1> QED BY <1>3, <1>7, <1>8 DEF rest

\* What a copy has filled.
LEMMA CopiedFilled ==
    ASSUME TypeOK, RingConsistent, NEW n \in 0 .. BufferSize,
           NEW k \in 0 .. Capacity, k <= size, k <= n, CopyFromRing(n, k),
           pos' = pos, Gap(pos, fill, BufferSize) + n < BufferSize
    PROVE  Heard(Filled)' = Heard(Filled) \o SubSeq(Queued, 1, k)
<1> DEFINE g == Gap(pos, fill, BufferSize)
           A == SubSeq(Queued, 1, k)
           B == [i \in 1 .. n - k |-> Silence]
<1>1. /\ size \in Nat /\ readPos \in 0 .. Capacity - 1 /\ pos \in Cell /\ fill \in Cell
      /\ k \in Nat /\ n \in Nat /\ g \in Nat /\ g + n < BufferSize
  BY CellGap DEF TypeOK
<1>2. /\ Queued \in Seq(Token) /\ Len(Queued) = size
      /\ Filled \in Seq(Unit) /\ Len(Filled) = g
      /\ \A i \in 1 .. size : Queued[i] = ring[Move(readPos, i - 1, Capacity)]
      /\ \A i \in 1 .. g : Filled[i] = dma[Move(pos, i - 1, BufferSize)]
  BY SequenceTypes DEF Queued, Filled
<1>3. Gap(pos', fill', BufferSize) = g + n
  <2>1. Gap(pos, Move(fill, n, BufferSize), BufferSize) = g + n
    BY <1>1, GapMoveEnd, Nonzero
  <2> QED BY <2>1 DEF CopyFromRing
<1>4. /\ A \in Seq(Token) /\ Len(A) = k
      /\ \A i \in 1 .. k : A[i] = ring[Move(readPos, i - 1, Capacity)]
  <2>1. \A i \in 1 .. k : i \in 1 .. size /\ Queued[i] \in Token
    <3>1. \A i \in 1 .. k : i \in 1 .. size
      BY <1>1
    <3> QED BY <1>2, <3>1, ElementOfSeq
  <2>2. /\ A \in Seq(Token) /\ Len(A) = IF 1 <= k THEN k - 1 + 1 ELSE 0
        /\ \A i \in 1 .. k - 1 + 1 : A[i] = Queued[1 + i - 1]
    BY <1>1, <2>1, SubSeqProperties
  <2> HIDE DEF A
  <2>3. Len(A) = k /\ k - 1 + 1 = k /\ \A i \in 1 .. k : 1 + i - 1 = i
    BY <1>1, <2>2
  <2> QED BY <1>2, <2>1, <2>2, <2>3
<1>5. /\ B \in Seq(Unit) /\ Len(B) = n - k /\ n - k \in Nat
      /\ \A i \in 1 .. n - k : B[i] = Silence
  <2>1. Silence \in Unit /\ n - k \in Nat
    BY <1>1 DEF Unit
  <2> QED BY <2>1
<1>6. ASSUME NEW i \in 1 .. g + n
      PROVE  dma'[Move(pos, i - 1, BufferSize)] =
               IF i <= g THEN dma[Move(pos, i - 1, BufferSize)]
               ELSE IF i <= g + k THEN ring[Move(readPos, i - 1 - g, Capacity)] ELSE Silence
  BY <1>6, CopiedCells
<1> HIDE DEF g, A, B
<1>7. Token \subseteq Unit /\ Silence \notin Token
  BY DEF Unit, Token
<1>8. A \in Seq(Unit)
  BY <1>4, <1>7
<1>9. Heard(A) = A /\ Heard(B) = <<>>
  <2>1. \A i \in 1 .. Len(B) : B[i] \notin Token
    BY <1>5, <1>7
  <2> QED BY <1>4, <1>5, <2>1, HeardTokens, HeardNone
<1> DEFINE AB == A \o B
           all == Filled \o AB
<1>10. /\ AB \in Seq(Unit) /\ Len(AB) = n
       /\ \A i \in 1 .. n : AB[i] = IF i <= k THEN A[i] ELSE B[i - k]
  <2>1. /\ AB \in Seq(Unit) /\ Len(AB) = k + (n - k)
        /\ \A i \in 1 .. k + (n - k) : AB[i] = IF i <= k THEN A[i] ELSE B[i - k]
    <3>1. /\ AB \in Seq(Unit) /\ Len(AB) = Len(A) + Len(B)
          /\ \A i \in 1 .. Len(A) + Len(B) : AB[i] = IF i <= Len(A) THEN A[i] ELSE B[i - Len(A)]
      BY <1>5, <1>8, ConcatProperties
    <3> HIDE DEF AB
    <3> QED BY <1>4, <1>5, <3>1
  <2>2. k + (n - k) = n
    BY <1>1
  <2> QED BY <2>1, <2>2
<1> HIDE DEF AB
<1>11. /\ all \in Seq(Unit) /\ Len(all) = g + n
       /\ \A i \in 1 .. g + n : all[i] = IF i <= g THEN Filled[i] ELSE AB[i - g]
  BY <1>2, <1>10, ConcatProperties, ZenonT(40)
<1>12. Filled' = [i \in 1 .. g + n |-> dma'[Move(pos, i - 1, BufferSize)]]
  BY <1>3, Primed
<1> HIDE DEF all
<1>13. ASSUME NEW i \in 1 .. g + n
       PROVE  all[i] = dma'[Move(pos, i - 1, BufferSize)]
  <2>1. CASE i <= g
    <3>1. i \in 1 .. g
      BY <1>1, <2>1
    <3> QED BY <1>2, <1>6, <1>11, <2>1, <3>1
  <2>2. CASE ~(i <= g) /\ i <= g + k
    <3>1. i - g \in 1 .. n /\ i - g <= k /\ i - g \in 1 .. k /\ i - g - 1 = i - 1 - g
      BY <1>1, <2>2
    <3>2. all[i] = A[i - g]
      BY <1>10, <1>11, <2>2, <3>1
    <3>3. A[i - g] = ring[Move(readPos, i - g - 1, Capacity)]
      BY <1>4, <3>1
    <3> QED BY <1>6, <2>2, <3>1, <3>2, <3>3
  <2>3. CASE ~(i <= g) /\ ~(i <= g + k)
    <3>1. i - g \in 1 .. n /\ ~(i - g <= k) /\ i - g - k \in 1 .. n - k
      BY <1>1, <2>3
    <3>2. all[i] = B[i - g - k]
      BY <1>10, <1>11, <2>3, <3>1
    <3>3. B[i - g - k] = Silence
      BY <1>5, <3>1
    <3> QED BY <1>6, <2>3, <3>2, <3>3
  <2> QED BY <2>1, <2>2, <2>3
<1>14. Filled' = all
  <2>1. g + n \in Nat
    BY <1>1
  <2>2. DOMAIN all = 1 .. g + n /\ all = [i \in DOMAIN all |-> all[i]]
    BY <1>11, <2>1
  <2>3. all = [i \in 1 .. g + n |-> all[i]]
    BY <2>2
  <2> QED BY <1>12, <1>13, <2>3
<1>15. Heard(all) = Heard(Filled) \o (Heard(A) \o Heard(B))
  BY <1>2, <1>5, <1>8, <1>10, HeardConcat, ZenonT(40) DEF all, AB
<1>16. Heard(A) \o Heard(B) = A
  BY <1>4, <1>9, ConcatEmptySeq
<1> QED BY <1>14, <1>15, <1>16, Primed DEF A

\* Copying n bytes of which k are in the ring hands over those k.
LEMMA CopyHandsOver ==
    ASSUME TypeOK, RingConsistent, NEW n \in 0 .. BufferSize,
           NEW k \in 0 .. Capacity, k <= size, k <= n, CopyFromRing(n, k),
           pos' = pos, Gap(pos, fill, BufferSize) + n < BufferSize
    PROVE  HandsOver(k)
<1>1. Len(Queued) = size /\ size \in Nat
  BY SequenceTypes
<1> QED BY <1>1, CopiedRing, CopiedFilled DEF HandsOver

FifoVars == <<Queued, Heard(Filled)>>
FifoStep == [Fifo!Next]_FifoVars

\* Handing over is a Commit, or nothing when no byte was queued.
LEMMA HandsOverStep ==
    ASSUME TypeOK, RingConsistent, NEW k, HandsOver(k)
    PROVE  FifoStep
<1>1. Queued \in Seq(Token) /\ Heard(Filled) \in Seq(Token) /\ Len(Queued) \in Nat
  BY SequenceTypes
<1>2. CASE k = 0
  <2>1. SubSeq(Queued, 1, 0) = <<>> /\ SubSeq(Queued, 1, Len(Queued)) = Queued
    BY <1>1, SubSeqEmpty
  <2>2. Heard(Filled)' = Heard(Filled)
    BY <1>1, <1>2, <2>1, ConcatEmptySeq DEF HandsOver
  <2>3. Queued' = Queued
    BY <1>2, <2>1 DEF HandsOver
  <2> QED BY <2>2, <2>3 DEF FifoStep, FifoVars
<1>3. CASE k # 0
  <2>1. k \in 1 .. Len(Queued)
    BY <1>1, <1>3 DEF HandsOver
  <2>2. Fifo!Commit
    BY <2>1 DEF HandsOver, Fifo!Commit
  <2> QED BY <2>2 DEF FifoStep, Fifo!Next
<1> QED BY <1>2, <1>3

-----------------------------------------------------------------------------
(* Every step is a step of AudioFifo *)

\* A closed stream has nothing filled and nothing queued.
ClosedInv == ~open => dma = Unwritten /\ size = 0
FifoInv == Inv /\ ClosedInv

\* It stays so.
LEMMA ClosedStep ==
    ASSUME Inv, ClosedInv, [Next]_vars
    PROVE  ClosedInv'
<1>1. ASSUME open' = open, dma' = dma, size' = size PROVE ClosedInv'
  BY <1>1 DEF ClosedInv
<1>2. ASSUME open, open' = open PROVE ClosedInv'
  BY <1>2 DEF ClosedInv
<1>3. CASE Open \/ Close
  BY <1>3 DEF Open, Close, ClosedInv
<1>4. CASE ClearQueue \/ (\E n \in 1 .. Capacity : QueueData(n))
  BY <1>2, <1>4 DEF ClearQueue, QueueData
<1>5. CASE \E b \in BOOLEAN : PlayRunning(b) \/ PlayPaused(b)
  BY <1>2, <1>5 DEF PlayRunning, PlayPaused
<1>6. CASE PlayReadSize
  BY <1>1, <1>6 DEF PlayReadSize, buffer
<1>7. CASE PlayCopy
  <2>1. open /\ open' = open
    BY <1>7 DEF PlayCopy, Inv, MarginInvariant
  <2> QED BY <1>2, <2>1
<1>8. CASE PlayApply
  BY <1>1, <1>8 DEF PlayApply, buffer
<1>9. CASE IrqSample \/ IrqClear
  BY <1>1, <1>9 DEF IrqSample, IrqClear, buffer
<1>10. CASE IrqCopy
  <2>1. open /\ open' = open
    BY <1>10 DEF IrqCopy, Inv, MarginInvariant
  <2> QED BY <1>2, <2>1
<1>11. CASE Tick
  <2>1. open /\ open' = open
    BY <1>11 DEF Tick, Inv, MarginInvariant
  <2> QED BY <1>2, <2>1
<1>12. CASE UNCHANGED vars
  BY <1>1, <1>12 DEF vars, buffer
<1> QED BY <1>3, <1>4, <1>5, <1>6, <1>7, <1>8, <1>9, <1>10, <1>11, <1>12
       DEF Next, Client, PlaySteps, Handler

\* A function on no index is the empty sequence.
LEMMA EmptyFun == ASSUME NEW f, f = [i \in 1 .. 0 |-> f[i]] PROVE f = <<>>
<1>1. f \in Seq({}) /\ Len(f) = 0
  OBVIOUS
<1> QED BY <1>1, EmptySeq

\* Nothing is queued in an empty ring.
LEMMA NoneQueued ==
    /\ size = 0 => Queued = <<>>
    /\ size' = 0 => Queued' = <<>>
<1> USE DEF Queued
<1>1. ASSUME size = 0 PROVE Queued = [i \in 1 .. 0 |-> Queued[i]]
  BY <1>1
<1>2. ASSUME size' = 0 PROVE Queued' = [i \in 1 .. 0 |-> Queued'[i]]
  BY <1>2
<1> HIDE DEF Queued
<1> QED BY <1>1, <1>2, EmptyFun

\* A function on 1 .. n is a sequence of n.
LEMMA FunSeq ==
    ASSUME NEW n \in Nat, NEW S, NEW s, s = [i \in 1 .. n |-> s[i]], \A i \in 1 .. n : s[i] \in S
    PROVE  s \in Seq(S) /\ Len(s) = n
  BY SMTT(30)

\* s is what the cells from p up to q hold.
CellsFrom(s, p, q, d) ==
    s = [i \in 1 .. Gap(p, q, BufferSize) |-> d[Move(p, i - 1, BufferSize)]]

\* Nothing is heard of cells that were never written.
LEMMA NoneHeard ==
    ASSUME NEW p \in Cell, NEW q \in Cell, NEW d, d = Unwritten,
           NEW s, CellsFrom(s, p, q, d)
    PROVE  Heard(s) = <<>>
<1> DEFINE g == Gap(p, q, BufferSize)
<1>1. g \in Nat /\ g < BufferSize
  BY CellGap
<1> HIDE DEF g
<1>2. ASSUME NEW i \in 1 .. g PROVE d[Move(p, i - 1, BufferSize)] = Stale
  <2>1. i - 1 \in 0 .. BufferSize
    BY <1>1
  <2>2. Move(p, i - 1, BufferSize) \in Cell
    BY <2>1, MoveType, Nonzero
  <2> QED BY <2>2 DEF Unwritten
<1>3. s = [i \in 1 .. g |-> s[i]] /\ \A i \in 1 .. g : s[i] = d[Move(p, i - 1, BufferSize)]
  BY DEF g, CellsFrom
<1>4. Stale \in Unit /\ Stale \notin Token
  BY DEF Unit, Token
<1>5. s \in Seq(Unit) /\ Len(s) = g /\ \A i \in 1 .. g : s[i] \notin Token
  <2>1. \A i \in 1 .. g : s[i] \in Unit /\ s[i] \notin Token
    BY <1>2, <1>3, <1>4
  <2>2. s = [i \in 1 .. g |-> s[i]] /\ g \in Nat /\ \A i \in 1 .. g : s[i] \in Unit
    BY <1>1, <1>3, <2>1
  <2>3. s \in Seq(Unit) /\ Len(s) = g
    BY <2>2, FunSeq, Zenon
  <2> QED BY <2>1, <2>3
<1> QED BY <1>5, HeardNone

\* Steps that leave one of the two buffers alone.
LEMMA SameCells == UNCHANGED <<dma, pos, fill>> => Heard(Filled)' = Heard(Filled)
<1> SUFFICES ASSUME UNCHANGED <<dma, pos, fill>> PROVE Heard(Filled)' = Heard(Filled)
  OBVIOUS
<1>1. Filled' = Filled
  BY Primed DEF Filled
<1> QED BY <1>1, Primed

LEMMA SameQueue == UNCHANGED <<ring, readPos, size>> => Queued' = Queued
  BY DEF Queued, Move

\* ... or both.
LEMMA SameBoth ==
    ASSUME UNCHANGED <<dma, pos, fill>>, UNCHANGED <<ring, readPos, size>>
    PROVE  FifoStep
  BY SameCells, SameQueue DEF FifoStep, FifoVars

\* Opening changes nothing that is queued or heard, closing drops it all.
LEMMA FifoOpenClose == ASSUME FifoInv, Open \/ Close PROVE FifoStep
<1>1. TypeOK /\ pos \in Cell /\ fill \in Cell
  BY DEF FifoInv, Inv, TypeOK
<1>2. CASE Open
  <2>1. /\ dma = Unwritten /\ dma' = Unwritten /\ size = 0 /\ pos' = pos /\ fill' = 0
        /\ UNCHANGED <<ring, readPos, size>>
    BY <1>2 DEF FifoInv, ClosedInv, Open, New, hw, buffer
  <2>2. Heard(Filled) = <<>>
    BY <1>1, <2>1, NoneHeard DEF Filled, CellsFrom
  <2>3. Heard(Filled') = <<>>
    <3>1. pos' \in Cell /\ fill' \in Cell
      BY <1>1, <2>1, Nonzero
    <3> QED BY <2>1, <3>1, Primed, NoneHeard DEF CellsFrom
  <2> QED BY <2>1, <2>2, <2>3, Primed, SameQueue DEF FifoStep, FifoVars
<1>3. CASE Close
  <2>1. dma' = Unwritten /\ pos' = 0 /\ fill' = fill /\ size' = 0
    BY <1>3 DEF Close
  <2>2. Heard(Filled') = <<>>
    <3>1. pos' \in Cell /\ fill' \in Cell
      BY <1>1, <2>1, Nonzero
    <3> QED BY <2>1, <3>1, Primed, NoneHeard DEF CellsFrom
  <2>3. Fifo!Close
    BY <2>1, <2>2, Primed, NoneQueued DEF Fifo!Close
  <2> QED BY <2>3 DEF FifoStep, Fifo!Next
<1> QED BY <1>2, <1>3

\* Clearing drops what is queued and nothing that is filled.
LEMMA FifoClear == ASSUME ClearQueue PROVE FifoStep
<1>1. Fifo!Clear
  BY NoneQueued, SameCells DEF ClearQueue, Fifo!Clear, hw
<1> QED BY <1>1 DEF FifoStep, Fifo!Next

\* The distance from the end of what is queued round to one of its bytes.
LEMMA GapBack ==
    ASSUME NEW n \in Nat \ {0}, NEW a \in 0 .. n - 1, NEW k \in 0 .. n, NEW j \in Nat, j < k
    PROVE  Gap(Move(a, k, n), Move(a, j, n), n) = n - k + j
  BY DEF Gap, Move

\* Queueing adds to the end of the queue, and overwrites none of it.
LEMMA FifoQueueData ==
    ASSUME Inv, NEW n \in 1 .. Capacity, QueueData(n)
    PROVE  FifoStep
<1> DEFINE m == MinOf(n, Capacity - size)
<1>1. /\ size \in Nat /\ size <= Capacity /\ Capacity \in Nat \ {0} /\ readPos \in 0 .. Capacity - 1
      /\ writePos = Move(readPos, size, Capacity) /\ m \in Nat /\ m <= Capacity - size
  BY DEF Inv, TypeOK, RingConsistent, MinOf
<1>2. /\ ring' = [i \in 0 .. Capacity - 1 |->
                    IF Gap(writePos, i, Capacity) < m
                    THEN (next + Gap(writePos, i, Capacity)) % Tokens ELSE ring[i]]
      /\ size' = size + m /\ readPos' = readPos
      /\ UNCHANGED <<dma, pos, fill>>
  BY DEF QueueData, hw
<1>3. ring' \in [0 .. Capacity - 1 -> Token]
  BY QueueDataStep DEF Inv, TypeOK
<1> HIDE DEF m
<1>4. Queued' = [i \in 1 .. size + m |-> ring'[Move(readPos, i - 1, Capacity)]]
  BY <1>2, Primed
<1>5. /\ Queued \in Seq(Token) /\ Len(Queued) = size
      /\ \A i \in 1 .. size : Queued[i] = ring[Move(readPos, i - 1, Capacity)]
  BY SequenceTypes DEF Queued, Inv
<1>6. ASSUME NEW i \in 1 .. size + m PROVE ring'[Move(readPos, i - 1, Capacity)] \in Token
  <2>1. i - 1 \in 0 .. Capacity
    BY <1>1
  <2>2. Move(readPos, i - 1, Capacity) \in 0 .. Capacity - 1
    BY <1>1, <2>1, MoveType
  <2> QED BY <1>3, <2>2
<1>7. ASSUME NEW i \in 1 .. size
      PROVE  ring'[Move(readPos, i - 1, Capacity)] = ring[Move(readPos, i - 1, Capacity)]
  <2>1. i - 1 \in 0 .. Capacity /\ i - 1 \in Nat /\ i - 1 < size /\ size \in 0 .. Capacity
    BY <1>1
  <2>2. Move(readPos, i - 1, Capacity) \in 0 .. Capacity - 1
    BY <1>1, <2>1, MoveType
  <2>3. Gap(writePos, Move(readPos, i - 1, Capacity), Capacity) = Capacity - size + (i - 1)
    BY <1>1, <2>1, GapBack
  <2>4. ~ (Gap(writePos, Move(readPos, i - 1, Capacity), Capacity) < m)
    BY <1>1, <2>1, <2>3
  <2> QED BY <1>2, <2>2, <2>4
<1> DEFINE q == Queued'
<1>8. /\ q = [i \in 1 .. size + m |-> q[i]] /\ size + m \in Nat
      /\ \A i \in 1 .. size + m : q[i] = ring'[Move(readPos, i - 1, Capacity)]
  BY <1>1, <1>4
<1> HIDE DEF q
<1>9. \A i \in 1 .. size + m : q[i] \in Token
  BY <1>6, <1>8
<1>10. q \in Seq(Token) /\ Len(q) = size + m
  BY <1>8, <1>9, FunSeq
<1>11. \A i \in 1 .. size : q[i] = Queued[i]
  <2> TAKE i \in 1 .. size
  <2>1. i \in 1 .. size + m
    BY <1>1
  <2> QED BY <1>5, <1>7, <1>8, <2>1
<1>12. Heard(Filled)' = Heard(Filled)
  BY <1>2, SameCells
<1>13. SubSeq(q, 1, size) = Queued
  <2> DEFINE s == SubSeq(q, 1, size)
  <2>1. \A i \in 1 .. size : q[i] \in Token
    BY <1>5, <1>11, ElementOfSeq
  <2>2. s \in Seq(Token) /\ Len(s) = (IF 1 <= size THEN size - 1 + 1 ELSE 0)
        /\ \A i \in 1 .. size - 1 + 1 : s[i] = q[1 + i - 1]
    BY <1>1, <2>1, SubSeqProperties
  <2> HIDE DEF s
  <2>3. Len(s) = size /\ size - 1 + 1 = size /\ \A i \in 1 .. size : 1 + i - 1 = i
    BY <1>1, <2>2
  <2>4. \A i \in 1 .. size : s[i] = Queued[i]
    BY <1>11, <2>2, <2>3
  <2>5. s = Queued
    BY <1>5, <2>2, <2>3, <2>4, SeqEqual
  <2> QED BY <2>5 DEF s
<1>14. CASE m = 0
  <2>1. q = Queued
    <3>1. Len(q) = Len(Queued) /\ \A i \in 1 .. Len(q) : q[i] = Queued[i]
      BY <1>1, <1>5, <1>10, <1>11, <1>14
    <3> QED BY <1>5, <1>10, <3>1, SeqEqual
  <2> QED BY <1>12, <2>1 DEF FifoStep, FifoVars, q
<1>15. CASE m # 0
  <2>1. Len(q) > Len(Queued)
    BY <1>1, <1>5, <1>10, <1>15
  <2>2. Fifo!Put
    BY <1>5, <1>9, <1>10, <1>12, <1>13, <2>1 DEF Fifo!Put, q
  <2> QED BY <2>2 DEF FifoStep, Fifo!Next
<1> QED BY <1>14, <1>15

\* The copy of play() hands over the front of the queue.
LEMMA FifoPlayCopy == ASSUME Inv, PlayCopy PROVE FifoStep
<1>1. /\ play = "copy" /\ CopyFromRing(count, fromRing) /\ pos' = pos
      /\ TypeOK /\ RingConsistent
  BY DEF Inv, PlayCopy, hw
<1>2. /\ count + Ahead - Since = Allowed /\ Gap(pos, fill, BufferSize) = Ahead - Since
      /\ fromRing <= count /\ fromRing <= size
  BY <1>1 DEF Inv, MarginInvariant, TypeOK
<1>3. Since \in Nat /\ Ahead \in Nat
  BY CellGap DEF Inv, TypeOK, Since, Ahead
<1>4. /\ count \in 0 .. BufferSize /\ fromRing \in 0 .. Capacity
      /\ Gap(pos, fill, BufferSize) + count < BufferSize
  BY <1>1, <1>2, <1>3 DEF TypeOK, RingConsistent
<1>5. HandsOver(fromRing)
  BY <1>1, <1>2, <1>4, CopyHandsOver
<1> QED BY <1>1, <1>5, HandsOverStep

\* So does the copy of the period callback.
LEMMA FifoIrqCopy == ASSUME Inv, IrqCopy PROVE FifoStep
<1> DEFINE q == Gap(prev, irqPos, BufferSize)
           k == MinOf(q, size)
<1>1. /\ irq = "sampled" /\ CopyFromRing(q, k) /\ pos' = pos /\ TypeOK /\ RingConsistent
  BY DEF Inv, IrqCopy, Played, Gap, hw
<1>2. /\ SinceBounded /\ Since <= Ahead /\ Gap(pos, fill, BufferSize) = Ahead - Since
  BY <1>1 DEF Inv, MarginInvariant, SinceBounded
<1>3. Since = q + Gap(irqPos, pos, BufferSize)
  BY <1>1, <1>2 DEF SinceBounded
<1>4. /\ Since \in Nat /\ Ahead \in Nat /\ Ahead < BufferSize
      /\ q \in Nat /\ q < BufferSize /\ Gap(irqPos, pos, BufferSize) \in Nat
      /\ size \in Nat /\ size <= Capacity
  <2>1. /\ pos \in Cell /\ fill \in Cell /\ prev \in Cell /\ irqPos \in Cell
        /\ size \in Nat /\ size <= Capacity
    BY <1>1 DEF TypeOK, RingConsistent
  <2> QED BY <2>1, CellGap DEF Since, Ahead
<1> HIDE DEF q
<1>5. /\ q \in 0 .. BufferSize /\ k \in 0 .. Capacity /\ k <= size /\ k <= q
      /\ Gap(pos, fill, BufferSize) + q < BufferSize
  BY <1>2, <1>3, <1>4 DEF MinOf
<1> HIDE DEF k
<1>6. HandsOver(k)
  BY <1>1, <1>5, CopyHandsOver
<1> QED BY <1>1, <1>6, HandsOverStep

\* A sequence that is not empty is its first element and the others.
LEMMA FirstApart ==
    ASSUME NEW S, NEW s \in Seq(S), s # <<>>
    PROVE  s = <<Head(s)>> \o Tail(s) /\ Head(s) = s[1] /\ Head(s) \in S /\ Tail(s) \in Seq(S)
  OBVIOUS

\* ... and taken off again.
LEMMA TailJoined ==
    ASSUME NEW S, NEW s \in Seq(S), NEW x \in S
    PROVE  <<x>> \o s # <<>> /\ Tail(<<x>> \o s) = s
  OBVIOUS

\* What is filled without its first cell.
LEMMA PlayedCell ==
    ASSUME Inv, Tick
    PROVE  Filled \in Seq(Unit) /\ Filled # <<>> /\ Filled' = Tail(Filled)
<1> DEFINE g == Gap(pos, fill, BufferSize)
<1>1. /\ run /\ dma' = [dma EXCEPT ![pos] = Stale] /\ pos' = Move(pos, 1, BufferSize)
      /\ fill' = fill /\ TypeOK /\ RingConsistent
  BY DEF Tick, Inv
<1>2. /\ pos \in Cell /\ fill \in Cell /\ dma \in [Cell -> Unit]
      /\ g \in Nat /\ g < BufferSize /\ g > 0
  <2>1. pos \in Cell /\ fill \in Cell /\ dma \in [Cell -> Unit]
    BY <1>1 DEF TypeOK, Unit
  <2>2. g \in Nat /\ g < BufferSize
    BY <2>1, CellGap
  <2>3. g = Ahead - Since /\ Since \in Nat /\ Since < Ahead /\ Ahead \in Nat
    BY <1>1, StaysAhead
  <2> HIDE DEF g
  <2> QED BY <2>1, <2>2, <2>3
<1>3. Gap(pos', fill', BufferSize) = g - 1
  <2>1. Gap(Move(pos, 1, BufferSize), fill, BufferSize) = g - 1
    BY <1>2, GapMoveStart, Nonzero
  <2> QED BY <1>1, <2>1
<1>4. Filled \in Seq(Unit) /\ Len(Filled) = g
      /\ \A i \in 1 .. g : Filled[i] = dma[Move(pos, i - 1, BufferSize)]
  BY <1>1, SequenceTypes DEF Filled
<1> HIDE DEF g
<1>5. Filled' = [i \in 1 .. g - 1 |-> dma'[Move(pos', i - 1, BufferSize)]]
  BY <1>3, Primed
<1>6. ASSUME NEW i \in 1 .. g - 1
      PROVE  dma'[Move(pos', i - 1, BufferSize)] = Filled[i + 1]
  <2>1. /\ i - 1 \in Nat /\ 1 + (i - 1) = i /\ i < BufferSize /\ i \in 0 .. BufferSize - 1
        /\ i + 1 \in 1 .. g /\ i + 1 - 1 = i /\ 1 + (i - 1) < BufferSize
    BY <1>2
  <2>2. Move(pos', i - 1, BufferSize) = Move(pos, i, BufferSize)
    BY <1>1, <1>2, <2>1, MoveMove, Nonzero
  <2>3. Move(pos, i, BufferSize) \in Cell /\ Move(pos, i, BufferSize) # pos
    BY <1>2, <2>1 DEF Move
  <2>4. dma'[Move(pos, i, BufferSize)] = dma[Move(pos, i, BufferSize)]
    BY <1>1, <1>2, <2>3
  <2> QED BY <1>4, <2>1, <2>2, <2>4
<1>7. Filled # <<>>
  BY <1>2, <1>4
<1> DEFINE t == Tail(Filled)
<1>8. t \in Seq(Unit) /\ Len(t) = g - 1 /\ \A i \in 1 .. g - 1 : t[i] = Filled[i + 1]
  BY <1>2, <1>4, <1>7, HeadTailProperties
<1> HIDE DEF t
<1>9. t = [i \in 1 .. g - 1 |-> t[i]]
  BY <1>2, <1>8
<1>10. Filled' = t
  BY <1>5, <1>6, <1>8, <1>9
<1> QED BY <1>4, <1>7, <1>10 DEF t

\* The hardware emits the first token filled, or plays silence.
LEMMA FifoTick == ASSUME Inv, Tick PROVE FifoStep
<1>1. PICK s : s = Filled
  OBVIOUS
<1>2. s \in Seq(Unit) /\ s # <<>> /\ Filled' = Tail(s)
  BY <1>1, PlayedCell
<1>3. /\ s = <<Head(s)>> \o Tail(s) /\ Head(s) \in Unit /\ Tail(s) \in Seq(Unit)
      /\ <<Head(s)>> \in Seq(Unit) /\ Len(<<Head(s)>>) = 1
  BY <1>2, FirstApart
<1>4. Heard(Filled)' = Heard(Tail(s)) /\ Heard(Tail(s)) \in Seq(Token)
  BY <1>2, <1>3, Primed, HeardType
<1>5. Heard(Filled) = Heard(<<Head(s)>>) \o Heard(Tail(s))
  BY <1>1, <1>3, HeardConcat
<1>6. Queued' = Queued
  BY SameQueue DEF Tick, buffer
<1>7. CASE Head(s) \in Token
  <2>1. Heard(<<Head(s)>>) = <<Head(s)>>
    <3>1. <<Head(s)>> \in Seq(Token)
      BY <1>7
    <3> QED BY <3>1, HeardTokens
  <2>2. Heard(Filled) # <<>> /\ Tail(Heard(Filled)) = Heard(Tail(s))
    <3>1. Heard(Filled) = <<Head(s)>> \o Heard(Tail(s))
      BY <1>5, <2>1
    <3> QED BY <1>4, <1>7, <3>1, TailJoined
  <2>3. Fifo!Emit
    BY <1>4, <1>6, <2>2 DEF Fifo!Emit
  <2> QED BY <2>3 DEF FifoStep, Fifo!Next
<1>8. CASE Head(s) \notin Token
  <2>1. Heard(<<Head(s)>>) = <<>>
    <3>1. \A i \in 1 .. Len(<<Head(s)>>) : <<Head(s)>>[i] \notin Token
      BY <1>8
    <3> QED BY <1>3, <3>1, HeardNone
  <2>2. Heard(Filled) = Heard(Tail(s))
    BY <1>4, <1>5, <2>1, ConcatEmptySeq
  <2> QED BY <1>4, <1>6, <2>2 DEF FifoStep, FifoVars
<1> QED BY <1>7, <1>8

\* Every step is a step of the queue or leaves it alone.
LEMMA NextFifo == ASSUME FifoInv, [Next]_vars PROVE FifoStep
<1>1. Inv
  BY DEF FifoInv
<1>2. CASE Open \/ Close
  BY <1>2, FifoOpenClose
<1>3. CASE \E n \in 1 .. Capacity : QueueData(n)
  BY <1>1, <1>3, FifoQueueData
<1>4. CASE ClearQueue
  BY <1>4, FifoClear
<1>5. CASE \E b \in BOOLEAN : PlayRunning(b) \/ PlayPaused(b)
  BY <1>5, SameBoth DEF PlayRunning, PlayPaused, hw, buffer
<1>6. CASE PlayReadSize
  BY <1>6, SameBoth DEF PlayReadSize, hw, buffer
<1>7. CASE PlayCopy
  BY <1>1, <1>7, FifoPlayCopy
<1>8. CASE PlayApply
  BY <1>8, SameBoth DEF PlayApply, buffer
<1>9. CASE IrqSample
  BY <1>9, SameBoth DEF IrqSample, hw, buffer
<1>10. CASE IrqCopy
  BY <1>1, <1>10, FifoIrqCopy
<1>11. CASE IrqClear
  BY <1>11, SameBoth DEF IrqClear, buffer
<1>12. CASE Tick
  BY <1>1, <1>12, FifoTick
<1>13. CASE UNCHANGED vars
  BY <1>13, SameBoth DEF vars, hw, buffer
<1> QED BY <1>2, <1>3, <1>4, <1>5, <1>6, <1>7, <1>8, <1>9, <1>10, <1>11, <1>12, <1>13
       DEF Next, Client, PlaySteps, Handler

\* Nothing is queued or heard at first.
LEMMA InitFifo == ASSUME Init PROVE Fifo!Init /\ ClosedInv
<1>1. dma = Unwritten /\ size = 0 /\ pos = 0 /\ fill = 0
  BY DEF Init
<1>2. Heard(Filled) = <<>>
  BY <1>1, Nonzero, NoneHeard DEF Filled, CellsFrom
<1> QED BY <1>1, <1>2, NoneQueued DEF Fifo!Init, ClosedInv

(* What is queued is played once and in order: the simple stream implements  *)
(* AudioFifo.                                                                *)
THEOREM FifoImplemented ==
    ASSUME Quiet
    PROVE  Spec => ImplementsAudioFifo
<1>1. Init => Fifo!Init /\ ClosedInv
  BY InitFifo
<1>2. Inv /\ ClosedInv /\ [Next]_vars => ClosedInv'
  BY ClosedStep
<1>3. Inv /\ ClosedInv /\ [Next]_vars => [Fifo!Next]_<<Queued, Heard(Filled)>>
  BY NextFifo DEF FifoInv, FifoStep, FifoVars
<1>4. Spec => []Inv
  BY InvHolds
<1> QED BY <1>1, <1>2, <1>3, <1>4, PTL DEF Spec, ImplementsAudioFifo, Fifo!Spec, Fifo!vars
=============================================================================
