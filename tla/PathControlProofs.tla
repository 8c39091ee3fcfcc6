-------------------------- MODULE PathControlProofs --------------------------
(***************************************************************************)
(* Proofs about the control of paths, for every layout, parameters,        *)
(* volumes, amplifiers and streams that the assumptions describe, and any  *)
(* number of verbs that time out.                                          *)
(***************************************************************************)
EXTENDS PathControl, CodecPathsProofs, StreamParamsProofs

-----------------------------------------------------------------------------
(* The index that setup selects *)

StartOf(l, j, stray) == IF j = 1 THEN stray ELSE Byte(l[j - 1])

\* What the loop over l adds to the index from entry j on, as f[j].
Added(f, l, next, stray, j) ==
    IF j > Len(l) THEN 0
    ELSE IF l[j].range
    THEN IF next \in StartOf(l, j, stray) .. l[j].nid THEN next - StartOf(l, j, stray)
         ELSE l[j].nid - StartOf(l, j, stray) + f[j + 1]
    ELSE IF l[j].nid = next THEN 0 ELSE 1 + f[j + 1]
IsIndex(f, l, next, stray, i) ==
    f = [j \in i .. Len(l) + 1 |-> Added(f, l, next, stray, j)]

\* The recursive function of SelectIndex exists: it is built from the end of the
\* list on.
LEMMA IndexExists ==
    ASSUME NEW l, Len(l) \in Nat, NEW next, NEW stray
    PROVE  \E f : IsIndex(f, l, next, stray, 1)
<1> DEFINE n == Len(l) + 1
           S == {m \in Nat : m <= n /\ ~ \E f : IsIndex(f, l, next, stray, n + 1 - m)}
<1>0. n \in Nat
  OBVIOUS
<1>1. SUFFICES ASSUME S # {} PROVE FALSE
  <2>1. n \notin S
    BY <1>1
  <2>2. \E f : IsIndex(f, l, next, stray, n + 1 - n)
    BY <1>0, <2>1
  <2> HIDE DEF n
  <2>3. n + 1 - n = 1
    BY <1>0
  <2> QED BY <2>2, <2>3
<1> HIDE DEF n
<1>2. PICK m \in S : \A j \in S : m <= j
  BY <1>1, MinExists
<1> DEFINE i == n + 1 - m
<1>3. m \in Nat /\ m <= n /\ i \in 1 .. n + 1
  BY <1>0, <1>2
<1>4. CASE m = 0
  <2>1. \A f : i .. n = {}
    BY <1>0, <1>4
  <2>2. <<>> = [j \in {} |-> Added(<<>>, l, next, stray, j)]
    OBVIOUS
  <2>3. IsIndex(<<>>, l, next, stray, i)
    BY <2>1, <2>2 DEF IsIndex, n
  <2> QED BY <1>2, <2>3
<1>5. CASE m > 0
  <2>1. m - 1 \in Nat /\ m - 1 <= n /\ n + 1 - (m - 1) = i + 1 /\ ~(m <= m - 1)
    BY <1>0, <1>3, <1>5
  <2>a. m - 1 \notin S
    <3> HIDE DEF S
    <3> QED BY <1>2, <2>1
  <2>2. PICK f : IsIndex(f, l, next, stray, i + 1)
    BY <2>1, <2>a
  <2>3. i \in 1 .. n /\ f = [j \in i + 1 .. n |-> Added(f, l, next, stray, j)]
    BY <1>0, <1>3, <1>5, <2>2, SMTT(30) DEF IsIndex, n
  <2> DEFINE g == [j \in i .. n |-> IF j = i THEN Added(f, l, next, stray, j) ELSE f[j]]
  <2> HIDE DEF i
  <2>4. ASSUME NEW j \in i .. n PROVE g[j] = Added(g, l, next, stray, j)
    <3>1. j <= Len(l) => j + 1 \in i .. n /\ j + 1 # i /\ g[j + 1] = f[j + 1]
      BY <1>0, <2>3 DEF n
    <3>2. Len(l) \in Nat /\ j \in Int
      BY <2>3
    <3>3. Added(g, l, next, stray, j) = Added(f, l, next, stray, j)
      <4> HIDE DEF g
      <4> QED BY <3>1, <3>2 DEF Added
    <3>4. CASE j = i
      BY <3>3, <3>4
    <3>5. CASE j # i
      <4>1. j \in i + 1 .. n
        BY <1>0, <2>3, <3>5
      <4>2. f[j] = Added(f, l, next, stray, j)
        <5> HIDE DEF g
        <5> QED BY <2>3, <4>1
      <4> QED BY <3>3, <3>5, <4>2
    <3> QED BY <3>4, <3>5
  <2>5. g = [j \in i .. n |-> g[j]]
    OBVIOUS
  <2> HIDE DEF g
  <2>6. IsIndex(g, l, next, stray, i)
    BY <2>4, <2>5 DEF IsIndex, n
  <2> QED BY <1>2, <2>6 DEF i
<1> QED BY <1>3, <1>4, <1>5

LEMMA IndexDef ==
    ASSUME NEW l, Len(l) \in Nat, NEW next, NEW stray
    PROVE  \E f : IsIndex(f, l, next, stray, 1) /\ SelectIndex(l, next, stray) = f[1] % 256
<1>1. \E f : IsIndex(f, l, next, stray, 1)
  BY IndexExists
<1> QED BY <1>1 DEF SelectIndex, IsIndex, Added, StartOf

\* An entry and its byte are numbers.
LEMMA EntryInt ==
    ASSUME NEW l \in Seq(Connection), NEW i \in 1 .. Len(l)
    PROVE  l[i].nid \in Int /\ Byte(l[i]) \in Int
<1> DEFINE x == l[i].nid
<1>1. x \in 0 .. 127
  BY EntryType
<1>2. Byte(l[i]) = x + (IF l[i].range THEN 128 ELSE 0)
  BY DEF Byte
<1> HIDE DEF x
<1>3. x \in Int /\ Byte(l[i]) \in Int
  BY <1>1, <1>2
<1> QED BY <1>3 DEF x

\* The index is a byte.
LEMMA IndexByte ==
    ASSUME NEW l \in Seq(Connection), NEW next \in Int, NEW stray \in Int
    PROVE  SelectIndex(l, next, stray) \in 0 .. 255
<1>1. PICK f : IsIndex(f, l, next, stray, 1) /\ SelectIndex(l, next, stray) = f[1] % 256
  BY IndexDef
<1> DEFINE n == Len(l) + 1
           S == {m \in Nat : m <= Len(l) /\ f[n - m] \notin Int}
<1>2. Len(l) \in Nat /\ n \in Nat
  OBVIOUS
<1>3. \A j \in 1 .. n : f[j] = Added(f, l, next, stray, j)
  BY <1>1 DEF IsIndex
<1>4. ASSUME NEW m \in S, \A j \in S : m <= j PROVE FALSE
  <2> DEFINE i == n - m
  <2>1. m \in Nat /\ m <= Len(l) /\ f[i] \notin Int /\ i \in 1 .. n
    BY <1>2, <1>4
  <2>2. f[i] = Added(f, l, next, stray, i)
    BY <1>3, <2>1
  <2>3. CASE m = 0
    <3>1. i > Len(l)
      BY <1>2, <2>3
    <3> QED BY <2>1, <2>2, <3>1 DEF Added
  <2>4. CASE m # 0
    <3>1. m - 1 \in Nat /\ m - 1 <= Len(l) /\ ~(m <= m - 1) /\ n - (m - 1) = i + 1
      BY <1>2, <2>1, <2>4
    <3>2. m - 1 \notin S
      <4> HIDE DEF S
      <4> QED BY <1>4, <3>1
    <3>3. f[i + 1] \in Int
      BY <3>1, <3>2
    <3>4. i \in 1 .. Len(l) /\ (i # 1 => i - 1 \in 1 .. Len(l))
      BY <1>2, <2>1, <2>4
    <3> HIDE DEF i
    <3>5. l[i].nid \in Int
      BY <3>4, EntryInt
    <3>6. StartOf(l, i, stray) \in Int
      <4>1. CASE i = 1
        BY <4>1 DEF StartOf
      <4>2. CASE i # 1
        <5>1. Byte(l[i - 1]) \in Int
          BY <3>4, <4>2, EntryInt
        <5> QED BY <4>2, <5>1 DEF StartOf
      <4> QED BY <4>1, <4>2
    <3> QED BY <2>1, <2>2, <3>3, <3>5, <3>6 DEF Added
  <2> QED BY <2>3, <2>4
<1>5. S = {}
  <2> SUFFICES ASSUME S # {} PROVE FALSE
    OBVIOUS
  <2>1. S \in SUBSET Nat
    OBVIOUS
  <2>2. PICK m \in S : \A j \in S : m <= j
    <3> HIDE DEF S
    <3> QED BY <2>1, MinExists
  <2> HIDE DEF S
  <2> QED BY <1>4, <2>2
<1>6. f[1] \in Int
  <2>1. CASE Len(l) = 0
    BY <1>2, <1>3, <2>1 DEF Added
  <2>2. CASE Len(l) > 0
    <3>1. Len(l) \in Nat /\ n - Len(l) = 1
      BY <1>2
    <3> QED BY <1>5, <3>1
  <2> QED BY <1>2, <2>1, <2>2
<1> DEFINE x == f[1]
<1> HIDE DEF n, S
<1>7. x \in Int /\ SelectIndex(l, next, stray) = x % 256
  BY <1>1, <1>6
<1> HIDE DEF x
<1> QED BY <1>7


\* A range of a well-formed list ends above the entry before it, which is a single
\* one.
LEMMA RangeEntry ==
    ASSUME NEW l \in Seq(Connection), WellFormed(l), NEW i \in 1 .. Len(l), l[i].range
    PROVE  /\ i \in 2 .. Len(l) /\ i - 1 \in 1 .. Len(l) /\ EndsRange(l, i)
           /\ ~l[i - 1].range /\ l[i - 1].nid < l[i].nid
<1>1. EndsRange(l, i) /\ l[i - 1].nid < l[i].nid
  BY DEF WellFormed
<1>2. i # 1
  BY <1>1, FirstEntry
<1>3. i \in 2 .. Len(l) /\ i - 1 \in 1 .. Len(l)
  BY <1>2
<1>4. ~EndsRange(l, i - 1)
  BY <1>1, <1>3, NextEntry
<1>5. l[i - 1].range => EndsRange(l, i - 1)
  BY <1>3 DEF WellFormed
<1> QED BY <1>1, <1>3, <1>4, <1>5

\* What each entry stands for.
LEMMA EntryFacts ==
    ASSUME NEW l \in Seq(Connection), WellFormed(l), NEW i \in 1 .. Len(l)
    PROVE  /\ Entry(l, i) \in Seq(Node)
           /\ l[i].range => Len(Entry(l, i)) = l[i].nid - l[i - 1].nid
           /\ ~l[i].range => Len(Entry(l, i)) = 1 /\ Entry(l, i)[1] = l[i].nid
<1>1. l[i].nid \in Node
  BY EntryType DEF Node
<1>2. CASE l[i].range
  <2>1. i - 1 \in 1 .. Len(l) /\ EndsRange(l, i) /\ l[i - 1].nid < l[i].nid
    BY <1>2, RangeEntry
  <2>2. l[i - 1].nid \in Node
    BY <2>1, EntryType DEF Node
  <2> DEFINE a == l[i - 1].nid
             b == l[i].nid
  <2>3. Entry(l, i) = [k \in 1 .. b - a |-> a + k]
    BY <2>1 DEF Entry
  <2>4. a \in 0 .. 127 /\ b \in 0 .. 127 /\ a < b
    BY <1>1, <2>1, <2>2 DEF Node
  <2> HIDE DEF a, b
  <2>5. b - a \in Nat /\ \A k \in 1 .. b - a : a + k \in Node
    BY <2>4 DEF Node
  <2>6. Entry(l, i) \in Seq(Node) /\ Len(Entry(l, i)) = b - a
    BY <2>3, <2>5
  <2> QED BY <1>2, <2>6 DEF a, b
<1>3. CASE ~l[i].range
  <2>1. Entry(l, i) = <<l[i].nid>>
    BY <1>3 DEF Entry, EndsRange
  <2> QED BY <1>1, <1>3, <2>1
<1> QED BY <1>2, <1>3


Entries(l) == [i \in 1 .. Len(l) |-> Entry(l, i)]

\* The index that setup selects is the place of the next widget in the list, when
\* the list is well-formed and names that widget outside of its ranges.
THEOREM SelectsNext ==
    ASSUME NEW l \in Seq(Connection), WellFormed(l), NEW next \in Named(l),
           ~InsideRange(l, next), NEW stray \in Int, NEW e, e = Expanded(l),
           NEW k, k = SelectIndex(l, next, stray)
    PROVE  k + 1 \in DOMAIN e /\ e[k + 1] = next
<1> DEFINE n == Len(l)
           hit(j) == ~l[j].range /\ l[j].nid = next
           S == {j \in 1 .. n : hit(j)}
<1>1. n \in Nat /\ DOMAIN l = 1 .. n
  OBVIOUS
<1>2. S # {}
  <2>1. CASE \E i \in DOMAIN l : ~EndsRange(l, i) /\ next = l[i].nid
    <3>1. PICK i \in 1 .. n : ~EndsRange(l, i) /\ next = l[i].nid
      BY <1>1, <2>1
    <3>2. ~l[i].range
      BY <1>1, <3>1 DEF WellFormed
    <3> QED BY <3>1, <3>2
  <2>2. CASE \E i \in DOMAIN l : EndsRange(l, i) /\ next \in l[i - 1].nid .. l[i].nid
    <3>1. PICK i \in 1 .. n : EndsRange(l, i) /\ next \in l[i - 1].nid .. l[i].nid
      BY <1>1, <2>2
    <3>2. l[i].range
      BY <3>1 DEF EndsRange
    <3>3. i - 1 \in 1 .. n /\ ~l[i - 1].range
      BY <3>2, RangeEntry
    <3>4. next \notin ToSet(Entry(l, i))
      BY <1>1, <3>1 DEF InsideRange
    <3>5. next = l[i - 1].nid
      <4> DEFINE a == l[i - 1].nid
                 b == l[i].nid
      <4>1. a \in Int /\ b \in Int
        BY <3>3, EntryInt
      <4>2. Entry(l, i) = [j \in 1 .. b - a |-> a + j]
        BY <3>1 DEF Entry
      <4>3. next \in a .. b
        BY <3>1
      <4> HIDE DEF a, b
      <4>4. next # a => next - a \in 1 .. b - a /\ a + (next - a) = next
        BY <4>1, <4>3
      <4>5. next # a => next \in ToSet(Entry(l, i))
        BY <4>2, <4>4 DEF ToSet
      <4> QED BY <3>4, <4>5 DEF a
    <3> QED BY <3>3, <3>5
  <2> QED BY <2>1, <2>2 DEF Named
<1>3. PICK z \in S : \A j \in S : z <= j
  <2>1. S \in SUBSET Nat
    OBVIOUS
  <2> HIDE DEF S
  <2> QED BY <1>2, <2>1, MinExists
<1>4. z \in 1 .. n /\ hit(z) /\ \A j \in 1 .. z - 1 : ~hit(j)
  <2>1. z \in 1 .. n /\ hit(z)
    BY <1>3
  <2>2. ASSUME NEW j \in 1 .. z - 1 PROVE ~hit(j)
    <3>1. j \in 1 .. n /\ ~(z <= j)
      BY <1>1, <2>1
    <3> QED BY <1>3, <3>1
  <2> QED BY <2>1, <2>2
<1> HIDE DEF S
<1>5. PICK f : IsIndex(f, l, next, stray, 1) /\ k = f[1] % 256
  BY <1>1, IndexDef
<1>6. \A j \in 1 .. n : f[j] = Added(f, l, next, stray, j)
  BY <1>1, <1>5 DEF IsIndex
<1>7. Entries(l) \in Seq(Seq(Node)) /\ Len(Entries(l)) = n /\ \A j \in 1 .. n : Entries(l)[j] = Entry(l, j)
  <2>1. \A j \in 1 .. n : Entry(l, j) \in Seq(Node)
    BY EntryFacts
  <2> QED BY <1>1, <2>1 DEF Entries
<1>8. n > 0 /\ e = FlattenSeq(Entries(l))
  BY <1>1, <1>4 DEF Expanded, Entries
<1>9. PICK g : /\ IsFlat(g, Entries(l), n) /\ e = g[n]
               /\ \A m \in 1 .. n : FlatUpTo(g, Node, Entries(l), m)
  BY <1>7, <1>8, FlattenFacts
<1> DEFINE off(j) == IF j = 1 THEN 0 ELSE Len(g[j - 1])
           T == {m \in Nat : m < z /\ ~(f[z - m] \in Int /\ f[z - m] + off(z - m) = off(z))}
<1>10. \A m \in 1 .. n : Len(g[m]) \in Nat
  BY <1>9 DEF FlatUpTo
<1>11. ASSUME NEW j \in 1 .. z - 1
       PROVE /\ off(j) \in Nat /\ off(j + 1) = off(j) + Len(Entry(l, j))
             /\ Len(Entry(l, j)) \in Nat
             /\ f[j] = Len(Entry(l, j)) + f[j + 1]
  <2>1. j \in 1 .. n /\ j + 1 \in 1 .. n /\ j + 1 - 1 = j /\ j + 1 # 1 /\ (j # 1 => j - 1 \in 1 .. n)
    BY <1>1, <1>4
  <2>2. off(j) \in Nat
    BY <1>10, <2>1
  <2>3. off(j + 1) = Len(g[j])
    BY <2>1
  <2>4. Entry(l, j) \in Seq(Node) /\ Len(Entry(l, j)) \in Nat
    BY <2>1, EntryFacts
  <2>5. Len(g[j]) = off(j) + Len(Entry(l, j))
    <3>1. g[j] = IF j = 1 THEN Entry(l, j) ELSE g[j - 1] \o Entry(l, j)
      BY <1>7, <1>9, <2>1 DEF IsFlat
    <3>2. CASE j = 1
      BY <2>4, <3>1, <3>2
    <3>3. CASE j # 1
      <4>1. g[j - 1] \in Seq(Node)
        BY <1>9, <2>1, <3>3 DEF FlatUpTo
      <4>2. g[j] = g[j - 1] \o Entry(l, j)
        BY <3>1, <3>3
      <4>3. Len(g[j]) = Len(g[j - 1]) + Len(Entry(l, j))
        BY <2>4, <4>1, <4>2, ConcatProperties
      <4> QED BY <3>3, <4>3
    <3> QED BY <3>2, <3>3
  <2>6. f[j] = Len(Entry(l, j)) + f[j + 1]
    <3>1. f[j] = Added(f, l, next, stray, j) /\ ~(j > Len(l))
      BY <1>1, <1>6, <2>1
    <3>2. CASE l[j].range
      <4>1. /\ j - 1 \in 1 .. n /\ EndsRange(l, j) /\ ~l[j - 1].range /\ l[j - 1].nid < l[j].nid /\ j # 1
        BY <2>1, <3>2, RangeEntry
      <4> DEFINE a == l[j - 1].nid
                 b == l[j].nid
      <4>2. a \in Int /\ b \in Int
        BY <2>1, <4>1, EntryInt
      <4>3. StartOf(l, j, stray) = a
        <5>1. Byte(l[j - 1]) = a + 0
          BY <4>1 DEF Byte
        <5> HIDE DEF a
        <5> QED BY <4>1, <4>2, <5>1 DEF StartOf
      <4>4. next \notin a .. b
        <5>1. next # a
          <6>1. j - 1 \in 1 .. z - 1
            <7>1. j \in 1 .. z - 1 /\ z \in Int /\ j - 1 >= 1
              BY <1>4, <4>1
            <7> QED BY <7>1
          <6>2. ~hit(j - 1)
            BY <1>4, <6>1
          <6> QED BY <4>1, <6>2
        <5>2. next \notin ToSet(Entry(l, j))
          BY <1>1, <2>1, <4>1 DEF InsideRange
        <5>3. Entry(l, j) = [i \in 1 .. b - a |-> a + i]
          BY <4>1 DEF Entry
        <5> HIDE DEF a, b
        <5>4. next \in a .. b => next - a \in 1 .. b - a /\ a + (next - a) = next
          BY <4>2, <5>1
        <5>5. next \in a .. b => next \in ToSet(Entry(l, j))
          BY <5>3, <5>4 DEF ToSet
        <5> QED BY <5>2, <5>5
      <4>5. f[j] = b - a + f[j + 1]
        BY <3>1, <3>2, <4>3, <4>4 DEF Added
      <4>6. Len(Entry(l, j)) = b - a
        BY <2>1, <3>2, EntryFacts
      <4> QED BY <4>5, <4>6
    <3>3. CASE ~l[j].range
      <4>1. l[j].nid # next
        BY <1>4, <3>3
      <4>2. f[j] = 1 + f[j + 1]
        BY <3>1, <3>3, <4>1 DEF Added
      <4>3. Len(Entry(l, j)) = 1
        BY <2>1, <3>3, EntryFacts
      <4> QED BY <4>2, <4>3
    <3> QED BY <3>2, <3>3
  <2> QED BY <2>2, <2>3, <2>4, <2>5, <2>6
<1>12. f[z] = 0
  BY <1>1, <1>4, <1>6 DEF Added
<1>13. off(z) \in Nat
  <2>1. z # 1 => z - 1 \in 1 .. n
    BY <1>1, <1>4
  <2> QED BY <1>10, <2>1
<1>14. ASSUME NEW m \in T, \A j \in T : m <= j PROVE FALSE
  <2> DEFINE i == z - m
  <2>1. m \in Nat /\ m < z /\ i \in 1 .. z /\ ~(f[i] \in Int /\ f[i] + off(i) = off(z))
    BY <1>4, <1>14
  <2>2. m # 0
    <3>1. CASE m = 0
      <4>1. i = z
        BY <1>4, <3>1
      <4> HIDE DEF i, off
      <4> QED BY <1>12, <1>13, <2>1, <4>1
    <3> QED BY <3>1
  <2>3. m - 1 \in Nat /\ m - 1 < z /\ ~(m <= m - 1) /\ z - (m - 1) = i + 1 /\ i \in 1 .. z - 1
    BY <1>4, <2>1, <2>2
  <2>4. m - 1 \notin T
    <3> HIDE DEF T
    <3> QED BY <1>14, <2>3
  <2>5. f[i + 1] \in Int /\ f[i + 1] + off(i + 1) = off(z)
    BY <2>3, <2>4
  <2>6. /\ off(i) \in Nat /\ off(i + 1) = off(i) + Len(Entry(l, i))
        /\ Len(Entry(l, i)) \in Nat /\ f[i] = Len(Entry(l, i)) + f[i + 1]
    BY <1>11, <2>3
  <2> HIDE DEF i, off
  <2> QED BY <1>13, <2>1, <2>5, <2>6
<1>15. f[1] = off(z)
  <2>1. z - 1 \in Nat /\ z - 1 < z /\ z - (z - 1) = 1
    BY <1>4
  <2>2. T = {}
    <3>1. T \in SUBSET Nat
      OBVIOUS
    <3>2. T # {} => \E m \in T : \A j \in T : m <= j
      <4> HIDE DEF T
      <4> QED BY <3>1, MinExists
    <3> HIDE DEF T
    <3> QED BY <1>14, <3>2
  <2>3. f[1] \in Int /\ f[1] + off(1) = off(z)
    BY <2>1, <2>2
  <2>4. off(1) = 0
    OBVIOUS
  <2> HIDE DEF off
  <2> QED BY <1>13, <2>3, <2>4
<1>16. off(z) + 1 \in 1 .. Len(e) /\ e[off(z) + 1] = next
  <2>1. Len(Entry(l, z)) = 1 /\ Entry(l, z)[1] = next
    BY <1>4, EntryFacts
  <2>2. n \in 1 .. n /\ 1 \in 1 .. Len(Entries(l)[z]) /\ Entries(l)[z][1] = next
    BY <1>1, <1>4, <1>7, <2>1
  <2>3. FlatUpTo(g, Node, Entries(l), n)
    BY <1>9, <2>2
  <2>4. off(z) + 1 \in 1 .. Len(g[n]) /\ g[n][off(z) + 1] = Entries(l)[z][1]
    BY <1>4, <2>2, <2>3 DEF FlatUpTo
  <2> QED BY <1>9, <2>2, <2>4
<1>17. e \in Seq(Node) /\ Len(e) <= 256
  <2>1. e \in Seq(Node)
    <3> DEFINE es == Entries(l)
    <3>1. es \in Seq(Seq(Node)) /\ e = FlattenSeq(es)
      BY <1>7, <1>8
    <3> HIDE DEF es
    <3>2. Flat(Node, es, e)
      BY <3>1, FlattenElements
    <3> QED BY <3>2 DEF Flat
  <2> QED BY <2>1 DEF WellFormed
<1> DEFINE x == off(z)
<1>18. x \in Nat /\ x + 1 \in 1 .. Len(e) /\ e[x + 1] = next /\ k = x % 256
  BY <1>5, <1>13, <1>15, <1>16
<1> HIDE DEF x
<1>19. x \in 0 .. 255
  BY <1>17, <1>18
<1>20. k = x
  BY <1>18, <1>19, SMTT(30)
<1> QED BY <1>17, <1>18, <1>20

-----------------------------------------------------------------------------
(* The invariant *)

Field == {"sel", "on", "amp", "out", "eapd", "tag", "fmt", "channels"}
Amplifier == [mute : BOOLEAN, gain : 0 .. 127]
Fits(field, value) ==
    \/ field = "sel" /\ value \in 0 .. 255
    \/ field \in {"on", "out", "eapd"} /\ value \in BOOLEAN
    \/ field = "amp" /\ value \in Amplifier
    \/ field = "tag" /\ value \in 0 .. 15
    \/ field = "fmt" /\ value = ParamsFormat
    \/ field = "channels" /\ value \in 0 .. 15
Value == 0 .. 255 \cup BOOLEAN \cup Amplifier \cup {ParamsFormat}
VerbType == {v \in [nid : Widget, field : Field, value : Value, stores : BOOLEAN] :
                Fits(v.field, v.value)}

\* A setting of a node that a verb still to be sent changes.
Pends(todo, n, field) == \E k \in 1 .. Len(todo) : todo[k].nid = n /\ todo[k].field = field

Playing == {"up", "volume", "mute", "unmute"}
InProgress == {"setup", "volume", "mute", "unmute", "down"}
CallState == {"off", "broken", "setup", "down"} \cup Playing

\* What setup sets of the ith widget of a path, and to what.
Needs(p, i, field) ==
    \/ field = "sel" /\ i < Len(p) /\ Len(Conns(p[i])) > 1
    \/ field = "on"
    \/ field = "eapd" /\ IsPin(widgets[p[i]]) /\ widgets[p[i]].nid \in HasEapd
    \/ field = "amp" /\ KindOf(p[i]) # "selector"
    \/ field = "out" /\ IsPin(widgets[p[i]])
    \/ field = "tag" /\ i = Len(p)
    \/ field \in {"fmt", "channels"} /\ i = Len(p)
SetupGain(p, i) == IF i = Len(p) THEN StepOf(p[i]) \div 2 ELSE StepOf(p[i])
Goal(p, i, stream, stray, field) ==
    CASE field = "sel" -> SelectIndex(Conns(p[i]), widgets[p[i + 1]].nid, stray)
      [] field \in {"on", "eapd", "out"} -> TRUE
      [] field = "amp" -> [mute |-> FALSE, gain |-> SetupGain(p, i)]
      [] field = "tag" -> stream + 1
      [] field = "fmt" -> ParamsFormat
      [] field = "channels" -> ParamsFormat.chan

Sets(v, p, i, stream, stray) ==
    /\ v.nid = widgets[p[i]].nid /\ Needs(p, i, v.field)
    /\ v.value = Goal(p, i, stream, stray, v.field)
    /\ v.stores <=> i = Len(p) /\ v.field = "amp"

\* What shutdown sets of a widget, and to what.
Quiets(w, field) == \/ field = "amp" /\ (IsPin(widgets[w]) \/ KindOf(w) = "mixer")
                    \/ field = "out" /\ IsPin(widgets[w])
                    \/ field = "tag" /\ KindOf(w) = "dac"
Quiet(field) == CASE field = "amp" -> [mute |-> TRUE, gain |-> 0]
                  [] field = "out" -> FALSE
                  [] field = "tag" -> 0

\* The verbs of a call go to the widgets of its path; only the gain of the
\* converter is stored.
CallTyped(w) == LET c == calls[w] IN
    /\ c \in [state : CallState, todo : Seq(VerbType), muted : BOOLEAN, volume : BOOLEAN]
    /\ c.todo # <<>> <=> c.state \in InProgress
    /\ c.state # "off" => w \in Used /\ pc = "ready"
    /\ \A k \in 1 .. Len(c.todo) :
         /\ \E i \in 1 .. Len(PathOf(w)) : c.todo[k].nid = widgets[PathOf(w)[i]].nid
         /\ c.todo[k].stores => c.todo[k].field = "amp"

\* A setup sets each widget of its path to its goal, or is still going to, and
\* nothing else.
SetupOn(p, todo, stream) == \E stray \in Strays :
    /\ \A k \in 1 .. Len(todo) : \E i \in 1 .. Len(p) : Sets(todo[k], p, i, stream, stray)
    /\ Apart(p) => \A i \in 1 .. Len(p), field \in Field : Needs(p, i, field) =>
         \/ Pends(todo, p[i], field)
         \/ /\ hw[p[i]][field] = Goal(p, i, stream, stray, field)
            /\ i = Len(p) /\ field = "amp" => GainOf(p) = SetupGain(p, i)

\* A path that has been set up keeps its settings but for the amplifiers, of which
\* volume and mute change two.
PlayOn(p, c, stream) ==
    /\ \E stray \in Strays : \A i \in 1 .. Len(p), field \in Field \ {"amp"} :
         Needs(p, i, field) => hw[p[i]][field] = Goal(p, i, stream, stray, field)
    /\ \A i \in 1 .. Len(p) : KindOf(p[i]) # "selector" /\ p[i] # MuteWidget(p) => ~hw[p[i]].amp.mute
    /\ hw[Last(p)].amp.gain = GainOf(p) /\ GainOf(p) \in 0 .. StepOf(Last(p))
    /\ hw[MuteWidget(p)].amp.mute <=> c.muted /\ (c.volume => p[1] \in CanMute)

\* The one verb of a volume or mute call.
OneVerb(p, c) ==
    /\ c.state = "volume" =>
         /\ Len(c.todo) = 1 /\ c.todo[1].nid = widgets[Last(p)].nid /\ c.todo[1].field = "amp"
         /\ ~c.todo[1].value.mute /\ c.todo[1].value.gain \in 0 .. StepOf(Last(p))
         /\ c.todo[1].stores
    /\ c.state \in {"mute", "unmute"} =>
         /\ Len(c.todo) = 1 /\ c.todo[1].nid = widgets[MuteWidget(p)].nid /\ c.todo[1].field = "amp"
         /\ c.todo[1].value = [mute |-> c.state = "mute", gain |-> GainOf(p)]
         /\ ~c.todo[1].stores

PathInv(w) == LET c == calls[w]
                  p == PathOf(w) IN
    /\ c.state \in Playing \cup {"setup"} => CheckStreamParams(params) /\ StreamOf(w) \in Outputs
    /\ c.state = "setup" => SetupOn(p, c.todo, StreamOf(w))
    /\ c.state \in Playing => OneVerb(p, c) /\ (Apart(p) => PlayOn(p, c, StreamOf(w)))
    /\ c.state = "down" => \A k \in 1 .. Len(c.todo) :
         /\ ~c.todo[k].stores
         /\ c.todo[k].field \in {"amp", "out", "tag"} /\ c.todo[k].value = Quiet(c.todo[k].field)

\* A widget gives no sound, or it is on a path whose call is not over or has failed;
\* a shutdown is still going to silence it.
QuietOn(w, field) ==
    \/ hw[w][field] = Quiet(field)
    \/ \E x \in OutPin :
         /\ calls[x].state # "off" /\ w \in ToSet(PathOf(x))
         /\ calls[x].state = "down" => Pends(calls[x].todo, w, field)

LayoutInv == /\ CodecTyped /\ 0 \in Widget
             /\ \A w \in Widget : /\ widgets[w] = Hole \/ (widgets[w].nid = w /\ w # 0)
                                  /\ KindOf(w) \in Kind
             /\ params.rate \in Nat /\ params.channels \in Nat /\ params.fmt \in SampleFormat

ControlInv ==
    /\ LayoutInv
    /\ pc \in {"search", "ready"} /\ (pc = "search" => active = {})
    /\ timeouts \in Nat /\ volumes \subseteq Int
    /\ hw \in [Widget -> Setting]
    /\ \A q \in DOMAIN gains : gains[q] \in 0 .. 127
    /\ calls \in [OutPin -> [state : CallState, todo : Seq(VerbType), muted : BOOLEAN, volume : BOOLEAN]]
    /\ \A w \in OutPin : CallTyped(w) /\ PathInv(w)
    /\ \A w \in Widget, field \in Field : Quiets(w, field) /\ widgets[w] # Hole => QuietOn(w, field)

Inv == SearchInv /\ ClientInv /\ ControlInv

-----------------------------------------------------------------------------
(* The verbs of the calls *)

\* A concatenation of verbs has those of both.
Joined(S, a, b, c) ==
    /\ c \in Seq(S)
    /\ \A k \in 1 .. Len(c) : \/ \E j \in 1 .. Len(a) : c[k] = a[j]
                              \/ \E j \in 1 .. Len(b) : c[k] = b[j]
    /\ \A j \in 1 .. Len(a) : \E k \in 1 .. Len(c) : c[k] = a[j]
    /\ \A j \in 1 .. Len(b) : \E k \in 1 .. Len(c) : c[k] = b[j]
LEMMA ConcatVerbs ==
    ASSUME NEW S, NEW a \in Seq(S), NEW b \in Seq(S), NEW c, c = a \o b
    PROVE  Joined(S, a, b, c)
<1>1. /\ c \in Seq(S) /\ Len(c) = Len(a) + Len(b) /\ Len(a) \in Nat /\ Len(b) \in Nat
      /\ \A k \in 1 .. Len(a) + Len(b) : c[k] = IF k <= Len(a) THEN a[k] ELSE b[k - Len(a)]
  BY ConcatProperties
<1>2. ASSUME NEW k \in 1 .. Len(c)
      PROVE  \/ \E j \in 1 .. Len(a) : c[k] = a[j]
             \/ \E j \in 1 .. Len(b) : c[k] = b[j]
  <2>1. CASE k <= Len(a)
    <3>1. k \in 1 .. Len(a) /\ c[k] = a[k]
      BY <1>1, <2>1
    <3> QED BY <3>1
  <2>2. CASE ~(k <= Len(a))
    <3>1. k - Len(a) \in 1 .. Len(b) /\ c[k] = b[k - Len(a)]
      BY <1>1, <2>2
    <3> QED BY <3>1
  <2> QED BY <2>1, <2>2
<1>3. ASSUME NEW j \in 1 .. Len(a) PROVE \E k \in 1 .. Len(c) : c[k] = a[j]
  <2>1. j \in 1 .. Len(c) /\ c[j] = a[j]
    BY <1>1
  <2> QED BY <2>1
<1>4. ASSUME NEW j \in 1 .. Len(b) PROVE \E k \in 1 .. Len(c) : c[k] = b[j]
  <2> DEFINE k == Len(a) + j
  <2>1. k \in 1 .. Len(c) /\ ~(k <= Len(a)) /\ k - Len(a) = j
    BY <1>1
  <2> HIDE DEF k
  <2>2. c[k] = b[j]
    BY <1>1, <2>1
  <2> QED BY <2>1, <2>2
<1> QED BY <1>1, <1>2, <1>3, <1>4 DEF Joined

\* A widget's node id is that of a widget, and its own unless it is a hole.
LEMMA NodeFacts ==
    ASSUME LayoutInv, NEW w \in Widget
    PROVE  /\ widgets[w].nid \in Widget /\ widgets[w].nid \in 0 .. 255
           /\ widgets[w] # Hole => widgets[w].nid = w /\ w # 0
<1>1. widgets[w].nid \in Widget /\ (widgets[w] # Hole => widgets[w].nid = w /\ w # 0)
  BY DEF LayoutInv, Hole
<1>2. CodecTyped
  BY DEF LayoutInv
<1>3. Widget \subseteq 0 .. 255
  BY <1>2 DEF CodecTyped
<1> QED BY <1>1, <1>3

\* Bytes are numbers; an amplifier has at most 127 steps, and half of them are some.
LEMMA ByteInt == ASSUME NEW x, x \in 0 .. 255 PROVE x \in Int
OBVIOUS
LEMMA HalfSteps == ASSUME NEW s, s \in 0 .. 127 PROVE s \div 2 \in 0 .. s /\ s \div 2 \in 0 .. 127
OBVIOUS
LEMMA StepsOf == ASSUME NEW n, n \in 0 .. 255 PROVE Step[n] \in 0 .. 127
<1>1. Step \in [0 .. 255 -> 0 .. 127]
  BY AmpAssumption
<1>2. \A f \in [0 .. 255 -> 0 .. 127] : \A m \in 0 .. 255 : f[m] \in 0 .. 127
  OBVIOUS
<1> QED BY <1>1, <1>2, Zenon

\* The steps of an amplifier, half of them, and the channels fit their settings.
LEMMA StepFits == ASSUME LayoutInv, NEW w \in Widget PROVE StepOf(w) \in 0 .. 127 /\ StepOf(w) \div 2 \in 0 .. StepOf(w)
<1> DEFINE n == widgets[w].nid
<1>0. n \in 0 .. 255
  BY NodeFacts
<1>1. StepOf(w) \in 0 .. 127
  <2>1. StepOf(w) = Step[n]
    BY DEF StepOf
  <2> HIDE DEF n
  <2>2. Step[n] \in 0 .. 127
    BY <1>0, StepsOf
  <2> QED BY <2>1, <2>2, Zenon
<1> QED BY <1>1, HalfSteps

LEMMA FormatFits == ASSUME LayoutInv PROVE ParamsFormat.chan \in 0 .. 15
<1>1. ParamsFormat.chan = SetChannels(params.channels) - 1
  BY DEF ParamsFormat, PcmFormatFromParams
<1>2. SetChannels(params.channels) \in 1 .. 16
  BY DEF SetChannels, LayoutInv
<1> QED BY <1>1, <1>2

\* The goals of setup fit their settings.
LEMMA GoalFits ==
    ASSUME LayoutInv, NEW p, PathOK(p), NEW i \in 1 .. Len(p), NEW stream \in 0 .. 14,
           NEW stray \in Strays, NEW field \in Field, Needs(p, i, field)
    PROVE  Fits(field, Goal(p, i, stream, stray, field))
<1>1. p[i] \in Widget /\ p \in Seq(Widget)
  BY DEF PathOK
<1>2. CASE field = "sel"
  <2>1. i + 1 \in 1 .. Len(p) /\ p[i + 1] \in Widget
    BY <1>1, <1>2 DEF Needs
  <2> DEFINE x == p[i + 1]
  <2>a. x \in Widget
    BY <2>1
  <2>2. widgets[p[i + 1]].nid \in Int
    <3> HIDE DEF x
    <3>1. widgets[x].nid \in 0 .. 255
      BY <2>a, NodeFacts
    <3>2. widgets[x].nid \in Int
      BY <3>1, ByteInt
    <3> QED BY <3>2, Zenon DEF x
  <2>3. Conns(p[i]) \in Seq(Connection)
    BY <1>1 DEF LayoutInv, CodecTyped
  <2>4. stray \in Int
    BY ClientAssumption
  <2>5. SelectIndex(Conns(p[i]), widgets[p[i + 1]].nid, stray) \in 0 .. 255
    BY <2>2, <2>3, <2>4, IndexByte
  <2> QED BY <1>2, <2>5 DEF Fits, Goal
<1>3. CASE field \in {"on", "eapd", "out"}
  BY <1>3 DEF Fits, Goal
<1>4. CASE field = "amp"
  <2>1. StepOf(p[i]) \in 0 .. 127 /\ StepOf(p[i]) \div 2 \in 0 .. StepOf(p[i])
    BY <1>1, StepFits
  <2> DEFINE g == SetupGain(p, i)
  <2>2. g \in 0 .. 127
    <3> DEFINE s == StepOf(p[i])
    <3>1. s \in 0 .. 127 /\ (g = s \/ g = s \div 2)
      BY <2>1 DEF SetupGain
    <3> HIDE DEF s, g
    <3>2. s \div 2 \in 0 .. 127
      BY <3>1, HalfSteps
    <3> QED BY <3>1, <3>2, Zenon
  <2>3. Goal(p, i, stream, stray, field) = [mute |-> FALSE, gain |-> g]
    BY <1>4 DEF Goal
  <2> HIDE DEF g
  <2>4. [mute |-> FALSE, gain |-> g] \in Amplifier
    BY <2>2 DEF Amplifier
  <2> DEFINE value == Goal(p, i, stream, stray, field)
  <2>5. value \in Amplifier
    BY <2>3, <2>4
  <2> HIDE DEF value
  <2>6. Fits(field, value)
    BY <1>4, <2>5 DEF Fits
  <2> QED BY <2>6 DEF value
<1>5. CASE field = "tag"
  <2>1. stream + 1 \in 0 .. 15
    OBVIOUS
  <2> QED BY <1>5, <2>1 DEF Fits, Goal
<1>6. CASE field \in {"fmt", "channels"}
  BY <1>6, FormatFits DEF Fits, Goal
<1> QED BY <1>2, <1>3, <1>4, <1>5, <1>6 DEF Field

\* The verbs s set the ith widget of p, and the fields F of it, all of them.
Does(s, p, i, stream, stray, F) ==
    /\ s \in Seq(VerbType)
    /\ \A k \in 1 .. Len(s) : s[k].field \in F /\ Sets(s[k], p, i, stream, stray)
    /\ \A field \in F : \E k \in 1 .. Len(s) : s[k].field = field

LEMMA DoesConcat ==
    ASSUME NEW a, NEW b, NEW p, NEW i, NEW stream, NEW stray, NEW F, NEW G,
           Does(a, p, i, stream, stray, F), Does(b, p, i, stream, stray, G)
    PROVE  Does(a \o b, p, i, stream, stray, F \cup G)
<1> DEFINE c == a \o b
<1>1. a \in Seq(VerbType) /\ b \in Seq(VerbType) /\ c = a \o b
  BY DEF Does
<1> HIDE DEF c
<1>2. /\ c \in Seq(VerbType)
      /\ \A k \in 1 .. Len(c) : \/ \E j \in 1 .. Len(a) : c[k] = a[j]
                                \/ \E j \in 1 .. Len(b) : c[k] = b[j]
      /\ \A j \in 1 .. Len(a) : \E k \in 1 .. Len(c) : c[k] = a[j]
      /\ \A j \in 1 .. Len(b) : \E k \in 1 .. Len(c) : c[k] = b[j]
  <2>1. Joined(VerbType, a, b, c)
    BY <1>1, ConcatVerbs
  <2> QED BY <2>1 DEF Joined
<1>a. /\ \A j \in 1 .. Len(a) : a[j].field \in F /\ Sets(a[j], p, i, stream, stray)
      /\ \A j \in 1 .. Len(b) : b[j].field \in G /\ Sets(b[j], p, i, stream, stray)
      /\ \A field \in F : \E j \in 1 .. Len(a) : a[j].field = field
      /\ \A field \in G : \E j \in 1 .. Len(b) : b[j].field = field
  BY DEF Does
<1>3. ASSUME NEW k \in 1 .. Len(c) PROVE c[k].field \in F \cup G /\ Sets(c[k], p, i, stream, stray)
  <2>1. CASE \E j \in 1 .. Len(a) : c[k] = a[j]
    BY <1>a, <2>1, Zenon
  <2>2. CASE \E j \in 1 .. Len(b) : c[k] = b[j]
    BY <1>a, <2>2, Zenon
  <2> QED BY <1>2, <2>1, <2>2
<1>4. ASSUME NEW field \in F \cup G PROVE \E k \in 1 .. Len(c) : c[k].field = field
  <2>1. CASE field \in F
    <3>1. PICK j \in 1 .. Len(a) : a[j].field = field
      BY <1>a, <2>1
    <3>2. PICK k \in 1 .. Len(c) : c[k] = a[j]
      BY <1>2
    <3> QED BY <3>1, <3>2
  <2>2. CASE field \in G
    <3>1. PICK j \in 1 .. Len(b) : b[j].field = field
      BY <1>a, <2>2
    <3>2. PICK k \in 1 .. Len(c) : c[k] = b[j]
      BY <1>2
    <3> QED BY <3>1, <3>2
  <2> QED BY <2>1, <2>2
<1>5. Does(c, p, i, stream, stray, F \cup G)
  BY <1>2, <1>3, <1>4 DEF Does
<1> QED BY <1>5 DEF c

LEMMA DoesNothing == ASSUME NEW p, NEW i, NEW stream, NEW stray PROVE Does(<<>>, p, i, stream, stray, {})
BY DEF Does

LEMMA DoesVerb ==
    ASSUME LayoutInv, NEW p, PathOK(p), NEW i \in 1 .. Len(p), NEW stream \in 0 .. 14,
           NEW stray \in Strays, NEW field \in Field, Needs(p, i, field),
           NEW value, value = Goal(p, i, stream, stray, field),
           NEW stores \in BOOLEAN, stores <=> i = Len(p) /\ field = "amp",
           NEW s, s = <<[nid |-> widgets[p[i]].nid, field |-> field, value |-> value, stores |-> stores]>>
    PROVE  Does(s, p, i, stream, stray, {field})
<1> DEFINE v == [nid |-> widgets[p[i]].nid, field |-> field, value |-> value, stores |-> stores]
<1>1. p[i] \in Widget
  BY DEF PathOK
<1>2. widgets[p[i]].nid \in Widget
  BY <1>1, NodeFacts
<1>3. Fits(field, value)
  BY GoalFits
<1>4. value \in Value
  BY <1>3 DEF Fits, Value
<1>5. v \in VerbType
  BY <1>2, <1>3, <1>4 DEF VerbType
<1>6. Sets(v, p, i, stream, stray) /\ v.field = field
  BY DEF Sets
<1>7. s = <<v>>
  OBVIOUS
<1> HIDE DEF v
<1>8. Len(s) = 1 /\ s[1] = v /\ s \in Seq(VerbType)
  BY <1>5, <1>7
<1> QED BY <1>6, <1>8 DEF Does

LEMMA DoesIf ==
    ASSUME NEW condition \in BOOLEAN, NEW s, NEW p, NEW i, NEW stream, NEW stray, NEW F,
           condition => Does(s, p, i, stream, stray, F)
    PROVE  Does(If(condition, s), p, i, stream, stray, IF condition THEN F ELSE {})
<1>1. CASE condition
  BY <1>1 DEF If
<1>2. CASE ~condition
  <2>1. If(condition, s) = <<>>
    BY <1>2 DEF If
  <2> QED BY <1>2, <2>1, DoesNothing
<1> QED BY <1>1, <1>2

\* The verbs of setup for one widget set all that the widget needs.
LEMMA SetupOfDoes ==
    ASSUME LayoutInv, NEW p, PathOK(p), NEW i \in 1 .. Len(p), NEW stream \in 0 .. 14,
           NEW stray \in Strays
    PROVE  Does(SetupOf(p, i, stream, stray), p, i, stream, stray,
                {f \in Field \ {"fmt", "channels"} : Needs(p, i, f)})
<1> DEFINE w == p[i]
           does(s, F) == Does(s, p, i, stream, stray, F)
           last == i = Len(p)
           sel == i < Len(p) /\ Len(Conns(w)) > 1
           eapd == widgets[w].nid \in HasEapd
           a == If(sel, Verb(w, "sel", SelectIndex(Conns(w), widgets[p[i + 1]].nid, stray)))
           b == Verb(w, "on", TRUE)
           amp == Amp(w, FALSE, StepOf(w))
           Needed == {f \in Field \ {"fmt", "channels"} : Needs(p, i, f)}
<1>1. /\ w \in Widget /\ KindOf(w) \in Kind /\ (last <=> KindOf(w) = "dac")
      /\ i \in 1 .. Len(p) /\ Len(p) \in Nat
  <2>1. p \in Seq(Widget) /\ w \in Widget
    BY DEF PathOK
  <2>2. last => KindOf(w) = "dac"
    BY DEF PathOK
  <2>3. ~last => i \in 1 .. Len(p) - 1
    BY <2>1
  <2>4. ~last => KindOf(w) # "dac"
    BY <2>3 DEF PathOK
  <2> QED BY <2>1, <2>2, <2>4 DEF LayoutInv
<1>2. ASSUME NEW field \in Field, Needs(p, i, field), ~(last /\ field = "amp"),
             NEW value, value = Goal(p, i, stream, stray, field)
      PROVE  does(Verb(w, field, value), {field})
  <2>1. Verb(w, field, value) = <<[nid |-> widgets[p[i]].nid, field |-> field, value |-> value, stores |-> FALSE]>>
    BY DEF Verb
  <2> QED BY <1>2, <2>1, DoesVerb
<1>3. does(a, IF sel THEN {"sel"} ELSE {})
  <2>1. ASSUME sel
        PROVE  does(Verb(w, "sel", SelectIndex(Conns(w), widgets[p[i + 1]].nid, stray)), {"sel"})
    <3>1. Needs(p, i, "sel") /\ "sel" \in Field
      BY <2>1 DEF Needs, Field
    <3>2. SelectIndex(Conns(w), widgets[p[i + 1]].nid, stray) = Goal(p, i, stream, stray, "sel")
      BY DEF Goal
    <3> HIDE DEF w, does
    <3> QED BY <1>2, <3>1, <3>2
  <2> QED BY <2>1, DoesIf
<1>4. does(b, {"on"})
  <2>1. Needs(p, i, "on") /\ "on" \in Field /\ TRUE = Goal(p, i, stream, stray, "on")
    BY DEF Needs, Field, Goal
  <2> HIDE DEF does
  <2> QED BY <1>2, <2>1
<1>5. does(a \o b, (IF sel THEN {"sel"} ELSE {}) \cup {"on"})
  <2> HIDE DEF a, b, sel
  <2> QED BY <1>3, <1>4, DoesConcat
<1>6. ASSUME KindOf(w) # "selector", ~last PROVE does(amp, {"amp"})
  <2>1. Needs(p, i, "amp") /\ "amp" \in Field
    BY <1>6 DEF Needs, Field
  <2>2. [mute |-> FALSE, gain |-> StepOf(w)] = Goal(p, i, stream, stray, "amp")
    BY <1>6 DEF Goal, SetupGain
  <2>3. amp = Verb(w, "amp", [mute |-> FALSE, gain |-> StepOf(w)])
    BY DEF Amp
  <2> HIDE DEF does, amp
  <2> QED BY <1>2, <1>6, <2>1, <2>2, <2>3
<1>7. CASE IsPin(widgets[w])
  <2> DEFINE c == If(eapd, Verb(w, "eapd", TRUE))
             d == Verb(w, "out", TRUE)
  <2>1. ~last /\ KindOf(w) # "selector"
    BY <1>1, <1>7 DEF IsPin, KindOf
  <2>2. SetupOf(p, i, stream, stray) = (a \o b) \o ((c \o amp) \o d)
    <3>1. SetupOf(p, i, stream, stray) = a \o b \o (c \o amp \o d)
      <4>1. KindOf(w) # "mixer" /\ KindOf(w) # "dac"
        BY <1>7 DEF IsPin, KindOf
      <4>2. SetupOf(p, i, stream, stray) = a \o b \o
              (CASE IsPin(widgets[w]) -> c \o amp \o d
                 [] KindOf(w) = "mixer" -> amp
                 [] KindOf(w) = "dac" -> Verb(w, "tag", stream + 1) \o AmpStored(w, StepOf(w) \div 2)
                 [] OTHER -> <<>>)
        BY DEF SetupOf
      <4> HIDE DEF a, b, c, d, amp, w
      <4> QED BY <1>7, <4>1, <4>2
    <3> QED BY <3>1
  <2>3. does(c, IF eapd THEN {"eapd"} ELSE {})
    <3>1. ASSUME eapd PROVE does(Verb(w, "eapd", TRUE), {"eapd"})
      <4>1. Needs(p, i, "eapd") /\ "eapd" \in Field /\ TRUE = Goal(p, i, stream, stray, "eapd")
        BY <1>7, <3>1 DEF Needs, Field, Goal
      <4> HIDE DEF does
      <4> QED BY <1>2, <4>1
    <3>2. eapd \in BOOLEAN
      OBVIOUS
    <3> HIDE DEF eapd
    <3> QED BY <3>1, <3>2, DoesIf
  <2>4. does(d, {"out"})
    <3>1. Needs(p, i, "out") /\ "out" \in Field /\ TRUE = Goal(p, i, stream, stray, "out")
      BY <1>7 DEF Needs, Field, Goal
    <3> HIDE DEF does
    <3> QED BY <1>2, <3>1
  <2>5. does((a \o b) \o ((c \o amp) \o d),
             ((IF sel THEN {"sel"} ELSE {}) \cup {"on"}) \cup
             (((IF eapd THEN {"eapd"} ELSE {}) \cup {"amp"}) \cup {"out"}))
    <3> HIDE DEF a, b, c, amp, d, sel, eapd
    <3>1. does(c \o amp, (IF eapd THEN {"eapd"} ELSE {}) \cup {"amp"})
      BY <1>6, <2>1, <2>3, DoesConcat
    <3>2. does((c \o amp) \o d, ((IF eapd THEN {"eapd"} ELSE {}) \cup {"amp"}) \cup {"out"})
      BY <2>4, <3>1, DoesConcat
    <3> QED BY <1>5, <3>2, DoesConcat
  <2>6. Needed = ((IF sel THEN {"sel"} ELSE {}) \cup {"on"}) \cup
                 (((IF eapd THEN {"eapd"} ELSE {}) \cup {"amp"}) \cup {"out"})
    BY <1>7, <2>1 DEF Needs, Field
  <2> HIDE DEF a, b, c, amp, d, sel, eapd, does, Needed
  <2>7. does(SetupOf(p, i, stream, stray), Needed)
    BY <2>2, <2>5, <2>6
  <2> QED BY <2>7 DEF does, Needed
<1>8. CASE KindOf(w) = "mixer"
  <2>1. ~last /\ KindOf(w) # "selector" /\ ~IsPin(widgets[w])
    BY <1>1, <1>8 DEF IsPin, KindOf
  <2>2. SetupOf(p, i, stream, stray) = (a \o b) \o amp
    BY <1>8, <2>1 DEF SetupOf
  <2>3. does((a \o b) \o amp, ((IF sel THEN {"sel"} ELSE {}) \cup {"on"}) \cup {"amp"})
    <3> HIDE DEF a, b, amp, sel, eapd
    <3> QED BY <1>5, <1>6, <2>1, DoesConcat
  <2>4. Needed = ((IF sel THEN {"sel"} ELSE {}) \cup {"on"}) \cup {"amp"}
    BY <1>8, <2>1 DEF Needs, Field
  <2> HIDE DEF a, b, amp, sel, eapd, does, Needed
  <2>5. does(SetupOf(p, i, stream, stray), Needed)
    BY <2>2, <2>3, <2>4
  <2> QED BY <2>5 DEF does, Needed
<1>9. CASE KindOf(w) = "dac"
  <2> DEFINE c == Verb(w, "tag", stream + 1)
             d == AmpStored(w, StepOf(w) \div 2)
  <2>1. last /\ ~IsPin(widgets[w]) /\ KindOf(w) # "mixer" /\ ~sel
    BY <1>1, <1>9 DEF IsPin, KindOf
  <2>2. SetupOf(p, i, stream, stray) = (a \o b) \o (c \o d)
    BY <1>9, <2>1 DEF SetupOf
  <2>3. does(c, {"tag"})
    <3>1. Needs(p, i, "tag") /\ "tag" \in Field /\ stream + 1 = Goal(p, i, stream, stray, "tag")
      BY <2>1 DEF Needs, Field, Goal
    <3> HIDE DEF does
    <3> QED BY <1>2, <3>1
  <2>4. does(d, {"amp"})
    <3>1. Needs(p, i, "amp") /\ "amp" \in Field
      BY <1>9 DEF Needs, Field
    <3>2. [mute |-> FALSE, gain |-> StepOf(w) \div 2] = Goal(p, i, stream, stray, "amp")
      BY <2>1 DEF Goal, SetupGain
    <3>3. d = <<[nid |-> widgets[p[i]].nid, field |-> "amp",
                 value |-> [mute |-> FALSE, gain |-> StepOf(w) \div 2], stores |-> TRUE]>>
      BY DEF AmpStored
    <3> QED BY <2>1, <3>1, <3>2, <3>3, DoesVerb
  <2>5. does((a \o b) \o (c \o d), ((IF sel THEN {"sel"} ELSE {}) \cup {"on"}) \cup ({"tag"} \cup {"amp"}))
    <3> HIDE DEF a, b, c, d, sel
    <3>1. does(c \o d, {"tag"} \cup {"amp"})
      BY <2>3, <2>4, DoesConcat
    <3> QED BY <1>5, <3>1, DoesConcat
  <2>6. Needed = ((IF sel THEN {"sel"} ELSE {}) \cup {"on"}) \cup ({"tag"} \cup {"amp"})
    BY <1>9, <2>1 DEF Needs, Field
  <2> HIDE DEF a, b, c, d, sel, does, Needed
  <2>7. does(SetupOf(p, i, stream, stray), Needed)
    BY <2>2, <2>5, <2>6
  <2> QED BY <2>7 DEF does, Needed
<1>10. CASE KindOf(w) = "selector"
  <2>1. ~last /\ ~IsPin(widgets[w])
    BY <1>1, <1>10 DEF IsPin, KindOf
  <2>2. SetupOf(p, i, stream, stray) = (a \o b) \o <<>>
    BY <1>10, <2>1 DEF SetupOf
  <2>3. does((a \o b) \o <<>>, ((IF sel THEN {"sel"} ELSE {}) \cup {"on"}) \cup {})
    <3> HIDE DEF a, b, sel, eapd
    <3> QED BY <1>5, DoesNothing, DoesConcat
  <2>4. Needed = ((IF sel THEN {"sel"} ELSE {}) \cup {"on"}) \cup {}
    BY <1>10, <2>1 DEF Needs, Field
  <2> HIDE DEF a, b, sel, eapd, does, Needed
  <2>5. does(SetupOf(p, i, stream, stray), Needed)
    BY <2>2, <2>3, <2>4
  <2> QED BY <2>5 DEF does, Needed
<1> QED BY <1>1, <1>7, <1>8, <1>9, <1>10 DEF Kind, IsPin, KindOf

\* A path that uhda_setup_path sends its verbs along: setup sets all that its
\* widgets need and nothing else.
SetsUp(s, p, stream, stray) ==
    /\ s \in Seq(VerbType) /\ s # <<>>
    /\ \A k \in 1 .. Len(s) : \E i \in 1 .. Len(p) : Sets(s[k], p, i, stream, stray)
    /\ \A i \in 1 .. Len(p), field \in Field : Needs(p, i, field) =>
         \E k \in 1 .. Len(s) : s[k].nid = widgets[p[i]].nid /\ s[k].field = field
LEMMA SetupDoes ==
    ASSUME LayoutInv, NEW p, PathOK(p), NEW stream \in 0 .. 14, NEW stray \in Strays,
           NEW s, s = SetupVerbs(p, stream, stray)
    PROVE  SetsUp(s, p, stream, stray)
<1> DEFINE n == Len(p)
           a == Verb(Last(p), "fmt", ParamsFormat)
           b == Verb(Last(p), "channels", ParamsFormat.chan)
           each == [i \in 1 .. n |-> SetupOf(p, i, stream, stray)]
           c == FlattenSeq(each)
           F(i) == {f \in Field \ {"fmt", "channels"} : Needs(p, i, f)}
<1>1. n \in 1 .. n /\ n \in Nat /\ p \in Seq(Widget) /\ Last(p) = p[n]
  BY DEF PathOK, Last
<1>2. ASSUME NEW field \in {"fmt", "channels"}, NEW value, value = Goal(p, n, stream, stray, field)
      PROVE  Does(Verb(Last(p), field, value), p, n, stream, stray, {field})
  <2>1. Needs(p, n, field) /\ field \in Field
    BY DEF Needs, Field
  <2>2. Verb(Last(p), field, value)
          = <<[nid |-> widgets[p[n]].nid, field |-> field, value |-> value, stores |-> FALSE]>>
    BY <1>1 DEF Verb
  <2> HIDE DEF n
  <2>3. FALSE <=> n = Len(p) /\ field = "amp"
    OBVIOUS
  <2> QED BY <1>1, <1>2, <2>1, <2>2, <2>3, DoesVerb DEF n
<1>3. Does(a, p, n, stream, stray, {"fmt"})
  <2>1. ParamsFormat = Goal(p, n, stream, stray, "fmt")
    BY DEF Goal
  <2> QED BY <1>2, <2>1
<1>4. Does(b, p, n, stream, stray, {"channels"})
  <2>1. ParamsFormat.chan = Goal(p, n, stream, stray, "channels")
    BY DEF Goal
  <2> HIDE DEF n
  <2> QED BY <1>2, <2>1
<1>5. Does(a \o b, p, n, stream, stray, {"fmt"} \cup {"channels"})
  <2> HIDE DEF n, a, b
  <2> QED BY <1>3, <1>4, DoesConcat
<1>6. ASSUME NEW i \in 1 .. n PROVE Does(each[i], p, i, stream, stray, F(i))
  BY SetupOfDoes
<1> HIDE DEF F
<1>7. each \in Seq(Seq(VerbType)) /\ Len(each) = n
  <2>1. \A i \in 1 .. n : SetupOf(p, i, stream, stray) \in Seq(VerbType)
    BY <1>6 DEF Does
  <2> HIDE DEF n
  <2> QED BY <1>1, <2>1
<1>8. Flat(VerbType, each, c)
  <2> HIDE DEF each
  <2> QED BY <1>7, FlattenElements
<1>9. s = (a \o b) \o c
  <2>1. s = a \o b \o c
    BY DEF SetupVerbs
  <2> QED BY <2>1
<1> DEFINE ab == a \o b
<1>10. Joined(VerbType, ab, c, s)
  <2>1. ab \in Seq(VerbType) /\ c \in Seq(VerbType)
    BY <1>5, <1>8 DEF Does, Flat
  <2> HIDE DEF a, b, c
  <2>2. s = ab \o c
    BY <1>9
  <2> HIDE DEF ab
  <2> QED BY <2>1, <2>2, ConcatVerbs
<1>11. Does(ab, p, n, stream, stray, {"fmt"} \cup {"channels"})
  BY <1>5
<1> HIDE DEF ab, a, b, c, each
<1>12. s \in Seq(VerbType)
  BY <1>10 DEF Joined
<1>13. ASSUME NEW k \in 1 .. Len(s) PROVE \E i \in 1 .. n : Sets(s[k], p, i, stream, stray)
  <2>1. CASE \E j \in 1 .. Len(ab) : s[k] = ab[j]
    <3>1. PICK j \in 1 .. Len(ab) : s[k] = ab[j]
      BY <2>1
    <3>2. Sets(ab[j], p, n, stream, stray)
      BY <1>11 DEF Does
    <3> QED BY <1>1, <3>1, <3>2
  <2>2. CASE \E j \in 1 .. Len(c) : s[k] = c[j]
    <3>1. PICK j \in 1 .. Len(c) : s[k] = c[j]
      BY <2>2
    <3>2. PICK i \in 1 .. Len(each) : \E m \in 1 .. Len(each[i]) : c[j] = each[i][m]
      BY <1>8 DEF Flat
    <3>3. PICK m \in 1 .. Len(each[i]) : c[j] = each[i][m]
      BY <3>2
    <3>4. i \in 1 .. n
      BY <1>7
    <3>5. Sets(each[i][m], p, i, stream, stray)
      BY <1>6, <3>4 DEF Does
    <3> QED BY <3>1, <3>3, <3>4, <3>5
  <2> QED BY <1>10, <2>1, <2>2 DEF Joined
<1>14. ASSUME NEW i \in 1 .. n, NEW field \in Field, Needs(p, i, field)
       PROVE  \E k \in 1 .. Len(s) : s[k].nid = widgets[p[i]].nid /\ s[k].field = field
  <2>1. CASE field \in {"fmt", "channels"}
    <3>1. i = n
      BY <1>14, <2>1 DEF Needs, n
    <3>2. PICK j \in 1 .. Len(ab) : ab[j].field = field
      BY <1>11, <2>1 DEF Does
    <3>3. ab[j].nid = widgets[p[n]].nid
      BY <1>11 DEF Does, Sets
    <3>4. PICK k \in 1 .. Len(s) : s[k] = ab[j]
      BY <1>10 DEF Joined
    <3> QED BY <3>1, <3>2, <3>3, <3>4
  <2>2. CASE field \notin {"fmt", "channels"}
    <3>1. field \in F(i)
      BY <1>14, <2>2 DEF F
    <3>2. PICK m \in 1 .. Len(each[i]) : each[i][m].field = field
      BY <1>6, <3>1 DEF Does
    <3>3. each[i][m].nid = widgets[p[i]].nid
      BY <1>6 DEF Does, Sets
    <3>4. i \in 1 .. Len(each)
      BY <1>7
    <3>5. PICK j \in 1 .. Len(c) : c[j] = each[i][m]
      BY <1>8, <3>4 DEF Flat
    <3>6. PICK k \in 1 .. Len(s) : s[k] = c[j]
      BY <1>10 DEF Joined
    <3> QED BY <3>2, <3>3, <3>5, <3>6
  <2> QED BY <2>1, <2>2
<1>15. s # <<>>
  <2>1. PICK j \in 1 .. Len(ab) : ab[j].field = "fmt"
    BY <1>11 DEF Does
  <2>2. PICK k \in 1 .. Len(s) : s[k] = ab[j]
    BY <1>10 DEF Joined
  <2> QED BY <1>12, <2>2
<1> QED BY <1>12, <1>13, <1>14, <1>15 DEF n, SetsUp

\* The verbs s of shutdown for widget w silence the fields F of it.
Silences(s, w, F) ==
    /\ s \in Seq(VerbType)
    /\ \A k \in 1 .. Len(s) : /\ s[k].nid = widgets[w].nid /\ ~s[k].stores
                              /\ s[k].field \in {"amp", "out", "tag"} /\ s[k].value = Quiet(s[k].field)
    /\ \A field \in F : \E k \in 1 .. Len(s) : s[k].field = field

LEMMA SilencesConcat ==
    ASSUME NEW a, NEW b, NEW w, NEW F, NEW G, Silences(a, w, F), Silences(b, w, G)
    PROVE  Silences(a \o b, w, F \cup G)
<1> DEFINE c == a \o b
           ok(v) == /\ v.nid = widgets[w].nid /\ ~v.stores
                    /\ v.field \in {"amp", "out", "tag"} /\ v.value = Quiet(v.field)
<1>1. a \in Seq(VerbType) /\ b \in Seq(VerbType) /\ c = a \o b
  BY DEF Silences
<1> HIDE DEF c
<1>2. Joined(VerbType, a, b, c)
  BY <1>1, ConcatVerbs
<1>3. /\ \A j \in 1 .. Len(a) : ok(a[j])
      /\ \A j \in 1 .. Len(b) : ok(b[j])
      /\ \A field \in F : \E j \in 1 .. Len(a) : a[j].field = field
      /\ \A field \in G : \E j \in 1 .. Len(b) : b[j].field = field
  BY DEF Silences
<1> HIDE DEF ok
<1>4. ASSUME NEW k \in 1 .. Len(c) PROVE ok(c[k])
  <2>1. CASE \E j \in 1 .. Len(a) : c[k] = a[j]
    BY <1>3, <2>1, Zenon
  <2>2. CASE \E j \in 1 .. Len(b) : c[k] = b[j]
    BY <1>3, <2>2, Zenon
  <2> QED BY <1>2, <2>1, <2>2 DEF Joined
<1>5. ASSUME NEW field \in F \cup G PROVE \E k \in 1 .. Len(c) : c[k].field = field
  <2>1. CASE field \in F
    <3>1. PICK j \in 1 .. Len(a) : a[j].field = field
      BY <1>3, <2>1
    <3>2. PICK k \in 1 .. Len(c) : c[k] = a[j]
      BY <1>2 DEF Joined
    <3> QED BY <3>1, <3>2
  <2>2. CASE field \in G
    <3>1. PICK j \in 1 .. Len(b) : b[j].field = field
      BY <1>3, <2>2
    <3>2. PICK k \in 1 .. Len(c) : c[k] = b[j]
      BY <1>2 DEF Joined
    <3> QED BY <3>1, <3>2
  <2> QED BY <2>1, <2>2
<1>6. Silences(c, w, F \cup G)
  BY <1>2, <1>4, <1>5 DEF Silences, Joined, ok
<1> QED BY <1>6 DEF c

\* One verb of shutdown.
LEMMA SilencesVerb ==
    ASSUME LayoutInv, NEW w \in Widget, NEW field \in {"amp", "out", "tag"},
           NEW s, s = Verb(w, field, Quiet(field))
    PROVE  Silences(s, w, {field})
<1> DEFINE v == [nid |-> widgets[w].nid, field |-> field, value |-> Quiet(field), stores |-> FALSE]
<1>1. widgets[w].nid \in Widget
  BY NodeFacts
<1>2. Fits(field, Quiet(field)) /\ field \in Field
  <2>1. [mute |-> TRUE, gain |-> 0] \in Amplifier
    BY DEF Amplifier
  <2>2. CASE field = "amp"
    BY <2>1, <2>2 DEF Fits, Quiet, Field
  <2>3. CASE field = "out"
    BY <2>3 DEF Fits, Quiet, Field
  <2>4. CASE field = "tag"
    BY <2>4 DEF Fits, Quiet, Field
  <2> QED BY <2>2, <2>3, <2>4
<1>3. Quiet(field) \in Value
  BY DEF Value, Quiet, Amplifier
<1>4. v \in VerbType
  BY <1>1, <1>2, <1>3 DEF VerbType
<1>5. s = <<v>>
  BY DEF Verb
<1>6. v.nid = widgets[w].nid /\ ~v.stores /\ v.field = field /\ v.value = Quiet(field)
  OBVIOUS
<1> HIDE DEF v
<1>7. Len(s) = 1 /\ s[1] = v /\ s \in Seq(VerbType)
  BY <1>4, <1>5
<1> QED BY <1>6, <1>7 DEF Silences

\* The verbs of shutdown for one widget silence all of it that gives sound.
LEMMA ShutdownOfSilences ==
    ASSUME LayoutInv, NEW w \in Widget
    PROVE  Silences(ShutdownOf(w), w, {f \in Field : Quiets(w, f)})
<1> DEFINE amp == Amp(w, TRUE, 0)
           out == Verb(w, "out", FALSE)
           tag == Verb(w, "tag", 0)
           Q == {f \in Field : Quiets(w, f)}
<1>1. Silences(amp, w, {"amp"})
  <2>1. amp = Verb(w, "amp", Quiet("amp"))
    BY DEF Amp, Quiet
  <2> QED BY <2>1, SilencesVerb
<1>2. Silences(out, w, {"out"})
  <2>1. out = Verb(w, "out", Quiet("out"))
    BY DEF Quiet
  <2> QED BY <2>1, SilencesVerb
<1>3. Silences(tag, w, {"tag"})
  <2>1. tag = Verb(w, "tag", Quiet("tag"))
    BY DEF Quiet
  <2> QED BY <2>1, SilencesVerb
<1>4. CASE IsPin(widgets[w])
  <2>1. KindOf(w) # "mixer" /\ KindOf(w) # "dac"
    BY <1>4 DEF IsPin, KindOf
  <2>2. Q = {"amp"} \cup {"out"}
    BY <1>4, <2>1 DEF Quiets, Field
  <2>3. ShutdownOf(w) = amp \o out
    BY <1>4, <2>1 DEF ShutdownOf
  <2> HIDE DEF amp, out, Q
  <2>4. Silences(ShutdownOf(w), w, Q)
    BY <1>1, <1>2, <2>2, <2>3, SilencesConcat
  <2> QED BY <2>4 DEF Q
<1>5. CASE KindOf(w) = "mixer"
  <2>1. ~IsPin(widgets[w])
    BY <1>5 DEF IsPin, KindOf
  <2>2. Q = {"amp"} /\ ShutdownOf(w) = amp
    BY <1>5, <2>1 DEF Quiets, Field, ShutdownOf
  <2> QED BY <1>1, <2>2
<1>6. CASE KindOf(w) = "dac"
  <2>1. ~IsPin(widgets[w])
    BY <1>6 DEF IsPin, KindOf
  <2>2. Q = {"tag"} /\ ShutdownOf(w) = tag
    BY <1>6, <2>1 DEF Quiets, Field, ShutdownOf
  <2> QED BY <1>3, <2>2
<1>7. CASE ~IsPin(widgets[w]) /\ KindOf(w) # "mixer" /\ KindOf(w) # "dac"
  <2>1. Q = {} /\ ShutdownOf(w) = <<>>
    BY <1>7 DEF Quiets, Field, ShutdownOf
  <2>2. Silences(<<>>, w, {})
    BY DEF Silences
  <2> QED BY <2>1, <2>2
<1> QED BY <1>4, <1>5, <1>6, <1>7

\* The verbs of shutdown silence every widget of the path.
SilencesPath(s, p) ==
    \A i \in 1 .. Len(p), field \in Field : Quiets(p[i], field) =>
      \E k \in 1 .. Len(s) : s[k].nid = widgets[p[i]].nid /\ s[k].field = field
ShutsDown(s, p) ==
    /\ s \in Seq(VerbType) /\ s # <<>>
    /\ \A k \in 1 .. Len(s) :
         /\ \E i \in 1 .. Len(p) : s[k].nid = widgets[p[i]].nid
         /\ ~s[k].stores /\ s[k].field \in {"amp", "out", "tag"} /\ s[k].value = Quiet(s[k].field)
    /\ SilencesPath(s, p)
LEMMA ShutdownSilences ==
    ASSUME LayoutInv, NEW p, PathOK(p), NEW s, s = ShutdownVerbs(p)
    PROVE  ShutsDown(s, p)
<1> DEFINE n == Len(p)
           each == [i \in 1 .. n |-> ShutdownOf(p[i])]
<1>1. n \in Nat /\ 1 \in 1 .. n /\ p \in Seq(Widget)
  BY DEF PathOK
<1>2. ASSUME NEW i \in 1 .. n PROVE Silences(each[i], p[i], {f \in Field : Quiets(p[i], f)})
  <2>1. p[i] \in Widget
    BY <1>1
  <2>2. each[i] = ShutdownOf(p[i])
    OBVIOUS
  <2> HIDE DEF each
  <2> QED BY <2>1, <2>2, ShutdownOfSilences
<1>3. each \in Seq(Seq(VerbType)) /\ Len(each) = n
  <2>1. \A i \in 1 .. n : ShutdownOf(p[i]) \in Seq(VerbType)
    BY <1>2 DEF Silences
  <2> HIDE DEF n
  <2> QED BY <1>1, <2>1
<1>4. Flat(VerbType, each, s)
  <2>1. s = FlattenSeq(each)
    BY DEF ShutdownVerbs
  <2> HIDE DEF each
  <2> QED BY <1>3, <2>1, FlattenElements
<1> HIDE DEF each
<1>5. ASSUME NEW k \in 1 .. Len(s)
      PROVE  /\ \E i \in 1 .. n : s[k].nid = widgets[p[i]].nid
             /\ ~s[k].stores /\ s[k].field \in {"amp", "out", "tag"} /\ s[k].value = Quiet(s[k].field)
  <2>1. PICK i \in 1 .. Len(each) : \E m \in 1 .. Len(each[i]) : s[k] = each[i][m]
    BY <1>4 DEF Flat
  <2>2. PICK m \in 1 .. Len(each[i]) : s[k] = each[i][m]
    BY <2>1
  <2>3. i \in 1 .. n
    BY <1>3
  <2> QED BY <1>2, <2>2, <2>3 DEF Silences
<1>6. ASSUME NEW i \in 1 .. n, NEW field \in Field, Quiets(p[i], field)
      PROVE  \E k \in 1 .. Len(s) : s[k].nid = widgets[p[i]].nid /\ s[k].field = field
  <2>1. PICK m \in 1 .. Len(each[i]) : each[i][m].field = field
    BY <1>2, <1>6 DEF Silences
  <2>2. each[i][m].nid = widgets[p[i]].nid
    BY <1>2 DEF Silences
  <2>3. i \in 1 .. Len(each)
    BY <1>3
  <2>4. PICK k \in 1 .. Len(s) : s[k] = each[i][m]
    BY <1>4, <2>3 DEF Flat
  <2> QED BY <2>1, <2>2, <2>4
<1>7. s \in Seq(VerbType)
  BY <1>4 DEF Flat
<1>8. s # <<>>
  <2>1. Quiets(p[1], "out") /\ "out" \in Field
    BY DEF PathOK, OutPin, KindOf, IsPin, Quiets, Field
  <2>2. PICK k \in 1 .. Len(s) : s[k].field = "out"
    BY <1>1, <1>6, <2>1
  <2> QED BY <1>7, <2>2
<1> QED BY <1>5, <1>6, <1>7, <1>8 DEF n, ShutsDown, SilencesPath

\* A gain of volume is one of the amplifier.
LEMMA VolumeFits ==
    ASSUME NEW volume \in Int, NEW max \in 0 .. 127
    PROVE  VolumeValue(volume, max) \in 0 .. max
<1> DEFINE v == IF volume < 0 THEN 0 ELSE IF volume > 100 THEN 100 ELSE volume
<1>1. v \in 0 .. 100
  OBVIOUS
<1>2. VolumeValue(volume, max) = IF v = 100 THEN max ELSE (655 * v * max) \div 65536
  BY DEF VolumeValue, OnePercentage
<1> HIDE DEF v
<1>3. CASE v # 100
  <2> DEFINE x == v * max
             y == 655 * x
  <2>1. x \in Nat /\ x <= 99 * max
    BY <1>1, <1>3
  <2>2. VolumeValue(volume, max) = y \div 65536
    <3>1. 655 * v * max = y
      BY <1>1
    <3> HIDE DEF y
    <3> QED BY <1>2, <1>3, <3>1
  <2> HIDE DEF x
  <2>3. y \in Nat /\ y <= 64845 * max
    BY <2>1
  <2> HIDE DEF y
  <2>4. y \div 65536 \in 0 .. max
    BY <2>3
  <2> QED BY <2>2, <2>4
<1> QED BY <1>1, <1>2, <1>3

-----------------------------------------------------------------------------
(* The path of a call *)

\* The client uses one path to an output, which is the one a call is for.
LEMMA ChosenUse ==
    ASSUME NEW A, \A u, v \in A : u # v => u.path[1] # v.path[1], NEW u \in A, NEW w, w = u.path[1]
    PROVE  (CHOOSE v \in A : v.path[1] = w) = u
<1>1. \A v \in A : v.path[1] = w => v = u
  OBVIOUS
<1>2. (CHOOSE v \in A : v.path[1] = w) \in A /\ (CHOOSE v \in A : v.path[1] = w).path[1] = w
  OBVIOUS
<1> QED BY <1>1, <1>2

LEMMA ActivePath ==
    ASSUME ClientInv, NEW u \in active
    PROVE  /\ u.path[1] \in Used /\ PathOf(u.path[1]) = u.path /\ StreamOf(u.path[1]) = u.stream
<1> DEFINE w == u.path[1]
<1>1. (CHOOSE v \in active : v.path[1] = w) = u
  <2>1. \A a, b \in active : a # b => a.path[1] # b.path[1]
    BY DEF ClientInv
  <2> HIDE DEF w
  <2>2. w = u.path[1]
    BY DEF w
  <2> QED BY <2>1, <2>2, ChosenUse
<1>2. w \in Used
  BY DEF Used, InUse
<1> HIDE DEF w
<1>3. PathOf(w) = u.path /\ StreamOf(w) = u.stream
  BY <1>1 DEF PathOf, StreamOf
<1> QED BY <1>2, <1>3 DEF w

LEMMA UsedPath ==
    ASSUME SearchInv, ClientInv, NEW w \in Used
    PROVE  \E u \in active : /\ u.path = PathOf(w) /\ u.stream = StreamOf(w)
                             /\ PathOf(w)[1] = w /\ PathOK(PathOf(w))
                             /\ PathOf(w) \in ToSet(paths) /\ w \in OutPin
<1>1. PICK u \in active : u.path[1] = w
  BY DEF Used, InUse
<1>2. PathOf(w) = u.path /\ StreamOf(w) = u.stream
  BY <1>1, ActivePath
<1>3. u.path \in ToSet(paths)
  BY DEF ClientInv, InUse
<1>4. DOMAIN paths = 1 .. Len(paths) /\ \A k \in 1 .. Len(paths) : PathOK(paths[k])
  BY DEF SearchInv
<1>5. PathOK(u.path)
  BY <1>3, <1>4 DEF ToSet
<1>6. u.path[1] \in OutPin
  BY <1>5 DEF PathOK
<1> QED BY <1>1, <1>2, <1>3, <1>5, <1>6

\* A path has distinct widgets, which are those of its verbs if none is a hole.
LEMMA PathNodes ==
    ASSUME LayoutInv, NEW p, PathOK(p)
    PROVE  /\ p \in Seq(Widget) /\ Len(p) \in Nat /\ Len(p) >= 2 /\ DOMAIN p = 1 .. Len(p)
           /\ 1 \in 1 .. Len(p) /\ Len(p) \in 1 .. Len(p) /\ Last(p) = p[Len(p)]
           /\ \A i \in 1 .. Len(p) : p[i] \in Widget /\ (KindOf(p[i]) = "dac" <=> i = Len(p))
           /\ \A i, j \in 1 .. Len(p) : p[i] = p[j] => i = j
           /\ Apart(p) => \A i \in 1 .. Len(p) : widgets[p[i]].nid = p[i] /\ widgets[p[i]] # Hole /\ p[i] # 0
<1> DEFINE n == Len(p)
<1>0. n \in Nat /\ n >= 2
  BY DEF PathOK
<1>a. \A i \in 1 .. n : i # n => i \in 1 .. n - 1
  <2> HIDE DEF n
  <2> QED BY <1>0
<1>1. /\ p \in Seq(Widget) /\ Len(p) \in Nat /\ Len(p) >= 2 /\ DOMAIN p = 1 .. Len(p)
      /\ 1 \in 1 .. Len(p) /\ Len(p) \in 1 .. Len(p) /\ Last(p) = p[Len(p)]
  BY DEF PathOK, Last
<1>b. /\ KindOf(p[n]) = "dac"
      /\ \A i \in 1 .. n - 1 : KindOf(p[i]) # "dac" /\ \A j \in 1 .. i - 1 : p[j] # p[i]
  BY DEF PathOK
<1>2. ASSUME NEW i \in 1 .. Len(p) PROVE p[i] \in Widget /\ (KindOf(p[i]) = "dac" <=> i = Len(p))
  <2>1. p[i] \in Widget
    BY <1>1
  <2>2. i \in 1 .. n
    OBVIOUS
  <2> HIDE DEF n
  <2>3. KindOf(p[i]) = "dac" <=> i = n
    BY <1>a, <1>b, <2>2
  <2> QED BY <2>1, <2>3 DEF n
<1>3. ASSUME NEW i \in 1 .. n, NEW j \in 1 .. n, j < i PROVE p[i] # p[j]
  <2>1. CASE i = n
    <3>1. j # n
      <4> HIDE DEF n
      <4> QED BY <1>0, <1>3, <2>1
    <3>2. KindOf(p[i]) = "dac" /\ KindOf(p[j]) # "dac"
      BY <1>2, <2>1, <3>1
    <3> QED BY <3>2
  <2>2. CASE i # n
    <3> HIDE DEF n
    <3>1. i \in 1 .. n - 1 /\ j \in 1 .. i - 1
      BY <1>0, <1>3, <2>2
    <3> QED BY <1>b, <3>1
  <2> QED BY <2>1, <2>2
<1>4. ASSUME NEW i \in 1 .. n, NEW j \in 1 .. n, p[i] = p[j] PROVE i = j
  <2> HIDE DEF n
  <2>1. i < j \/ j < i \/ i = j
    BY <1>0
  <2> QED BY <1>3, <1>4, <2>1
<1>5. ASSUME Apart(p), NEW i \in 1 .. Len(p)
      PROVE  widgets[p[i]].nid = p[i] /\ widgets[p[i]] # Hole /\ p[i] # 0
  <2>1. widgets[p[i]] # Hole /\ p[i] \in Widget
    BY <1>1, <1>2, <1>5 DEF Apart
  <2> QED BY <2>1, NodeFacts
<1> QED BY <1>1, <1>2, <1>4, <1>5

\* The verbs along another path in use touch no widget of a path that is apart.
LEMMA ApartOthers ==
    ASSUME SearchInv, ClientInv, LayoutInv, NEW w \in Used, NEW x \in Used, w # x, Apart(PathOf(x))
    PROVE  /\ ToSet(PathOf(w)) \cap ToSet(PathOf(x)) = {}
           /\ \A k \in 1 .. Len(PathOf(w)), i \in 1 .. Len(PathOf(x)) :
                widgets[PathOf(w)[k]].nid # PathOf(x)[i]
<1> DEFINE p == PathOf(w)
           q == PathOf(x)
<1>1. PICK u \in active : u.path = p /\ p[1] = w /\ PathOK(p) /\ p \in ToSet(paths)
  BY UsedPath
<1>2. PICK v \in active : v.path = q /\ q[1] = x /\ PathOK(q) /\ q \in ToSet(paths)
  BY UsedPath
<1>3. ToSet(p) \cap ToSet(q) = {}
  <2>1. p[1] # q[1] /\ u # v
    BY <1>1, <1>2
  <2>2. Disjoint(u.path, v.path) \/ u.path[1] \in ToSet(v.path) \/ v.path[1] \in ToSet(u.path)
    BY <2>1, TogetherFollows DEF ActiveTogether
  <2>3. q[1] \notin ToSet(p) /\ p[1] \notin ToSet(q)
    BY <1>1, <2>1 DEF Apart
  <2> QED BY <1>1, <1>2, <2>2, <2>3 DEF Disjoint
<1>4. ASSUME NEW k \in 1 .. Len(p), NEW i \in 1 .. Len(q) PROVE widgets[p[k]].nid # q[i]
  <2>1. p[k] \in Widget /\ q[i] # 0 /\ DOMAIN p = 1 .. Len(p) /\ DOMAIN q = 1 .. Len(q)
    BY <1>1, <1>2, PathNodes
  <2>2. p[k] \in ToSet(p) /\ q[i] \in ToSet(q)
    BY <2>1 DEF ToSet
  <2>3. p[k] # q[i]
    BY <1>3, <2>2
  <2>4. widgets[p[k]] = Hole => widgets[p[k]].nid = 0
    BY DEF Hole
  <2> QED BY <2>1, <2>3, <2>4, NodeFacts
<1> QED BY <1>3, <1>4

-----------------------------------------------------------------------------
(* What a step leaves as it was *)

\* The layout and the parameters of the client do not change; all that is defined
\* from them is the same.
LEMMA SameWidgets ==
    ASSUME UNCHANGED <<widgets, outputNids, params>>
    PROVE  /\ Widget' = Widget /\ OutPin' = OutPin /\ LayoutInv' = LayoutInv /\ ParamsFormat' = ParamsFormat
           /\ VerbType' = VerbType /\ Setting' = Setting
           /\ \A w : KindOf(w)' = KindOf(w) /\ StepOf(w)' = StepOf(w) /\ Conns(w)' = Conns(w)
           /\ \A w, field : Quiets(w, field)' = Quiets(w, field)
           /\ \A p : MuteWidget(p)' = MuteWidget(p) /\ PathOK(p)' = PathOK(p)
           /\ \A p, i : SetupGain(p, i)' = SetupGain(p, i)
<1>1. Widget' = Widget /\ OutPin' = OutPin /\ ParamsFormat' = ParamsFormat
  BY DEF Widget, OutPin, KindOf, ParamsFormat
<1>2. \A w : KindOf(w)' = KindOf(w) /\ StepOf(w)' = StepOf(w) /\ Conns(w)' = Conns(w)
  BY DEF KindOf, StepOf, Conns
<1>3. \A field, value : Fits(field, value)' = Fits(field, value)
  BY <1>1 DEF Fits
<1>4. VerbType' = VerbType /\ Setting' = Setting
  BY <1>1, <1>3 DEF VerbType, Value, Setting
<1>5. CodecTyped' = CodecTyped
  BY <1>1, <1>2 DEF CodecTyped
<1>6. LayoutInv' = LayoutInv
  BY <1>1, <1>2, <1>5 DEF LayoutInv
<1>7. \A w, field : Quiets(w, field)' = Quiets(w, field)
  BY <1>2 DEF Quiets
<1>8. \A p : MuteWidget(p)' = MuteWidget(p) /\ PathOK(p)' = PathOK(p)
  BY <1>1, <1>2 DEF MuteWidget, PathOK
<1>9. \A p, i : SetupGain(p, i)' = SetupGain(p, i)
  BY <1>2 DEF SetupGain
<1> QED BY <1>1, <1>2, <1>4, <1>6, <1>7, <1>8, <1>9

LEMMA SameGoals ==
    ASSUME UNCHANGED <<widgets, outputNids, params>>
    PROVE  /\ \A p, i, field : Needs(p, i, field)' = Needs(p, i, field)
           /\ \A p, i, stream, stray, field :
                Goal(p, i, stream, stray, field)' = Goal(p, i, stream, stray, field)
           /\ \A v, p, i, stream, stray : Sets(v, p, i, stream, stray)' = Sets(v, p, i, stream, stray)
<1>1. \A p, i, field : Needs(p, i, field)' = Needs(p, i, field)
  BY DEF Needs, KindOf, Conns
<1>2. ASSUME NEW p, NEW i, NEW stream, NEW stray, NEW field
      PROVE  Goal(p, i, stream, stray, field)' = Goal(p, i, stream, stray, field)
  <2>1. /\ Conns(p[i])' = Conns(p[i]) /\ widgets' = widgets
        /\ ParamsFormat' = ParamsFormat /\ SetupGain(p, i)' = SetupGain(p, i)
    BY SameWidgets
  <2> QED BY <2>1 DEF Goal
<1>3. \A v, p, i, stream, stray : Sets(v, p, i, stream, stray)' = Sets(v, p, i, stream, stray)
  BY <1>1, <1>2 DEF Sets
<1> QED BY <1>1, <1>2, <1>3

LEMMA SameApart ==
    ASSUME UNCHANGED <<widgets, paths>>
    PROVE  \A p : Apart(p)' = Apart(p)
BY DEF Apart

\* A path that plays, and whose settings and gain stay, still does.
LEMMA PlayKept ==
    ASSUME LayoutInv, UNCHANGED <<widgets, outputNids, params>>, NEW p, PathOK(p), NEW s, NEW c, NEW d,
           GainOf(p)' = GainOf(p), \A i \in 1 .. Len(p) : hw'[p[i]] = hw[p[i]],
           d.muted = c.muted, d.volume = c.volume, PlayOn(p, c, s)
    PROVE  PlayOn(p, d, s)'
<1>1. /\ 1 \in 1 .. Len(p) /\ Len(p) \in 1 .. Len(p) /\ Last(p) = p[Len(p)]
  BY PathNodes
<1>2. MuteWidget(p) \in {p[1], p[Len(p)]}
  BY <1>1 DEF MuteWidget
<1>3. hw'[MuteWidget(p)] = hw[MuteWidget(p)] /\ hw'[Last(p)] = hw[Last(p)]
  BY <1>1, <1>2
<1>4. (\E stray \in Strays : \A i \in 1 .. Len(p), field \in Field \ {"amp"} :
         Needs(p, i, field) => hw[p[i]][field] = Goal(p, i, s, stray, field))'
  BY SameGoals DEF PlayOn
<1>5. (\A i \in 1 .. Len(p) : KindOf(p[i]) # "selector" /\ p[i] # MuteWidget(p) => ~hw[p[i]].amp.mute)'
  BY SameWidgets DEF PlayOn
<1>6. (/\ hw[Last(p)].amp.gain = GainOf(p) /\ GainOf(p) \in 0 .. StepOf(Last(p))
       /\ (hw[MuteWidget(p)].amp.mute <=> d.muted /\ (d.volume => p[1] \in CanMute)))'
  BY <1>3, SameWidgets DEF PlayOn
<1> QED BY <1>4, <1>5, <1>6 DEF PlayOn

\* What is known of a call whose path keeps its settings and its gain is still so.
LEMMA CallKept ==
    ASSUME LayoutInv, UNCHANGED <<widgets, outputNids, params, paths>>, NEW w, NEW p, PathOK(p), NEW c,
           PathOf(w) = p, PathOf(w)' = p, StreamOf(w)' = StreamOf(w),
           calls[w] = c, calls'[w] = c, GainOf(p)' = GainOf(p),
           Apart(p) => \A i \in 1 .. Len(p) : hw'[p[i]] = hw[p[i]],
           PathInv(w)
    PROVE  PathInv(w)'
<1> DEFINE s == StreamOf(w)
<1>3. Apart(p)' = Apart(p)
  BY SameApart
<1>4. c.state \in Playing \cup {"setup"} => CheckStreamParams(params) /\ s \in Outputs
  BY DEF PathInv
<1>5. c.state = "setup" => SetupOn(p, c.todo, s)'
  <2> SUFFICES ASSUME SetupOn(p, c.todo, s) PROVE SetupOn(p, c.todo, s)'
    BY DEF PathInv
  <2>1. PICK stray \in Strays :
        /\ \A k \in 1 .. Len(c.todo) : \E i \in 1 .. Len(p) : Sets(c.todo[k], p, i, s, stray)
        /\ Apart(p) => \A i \in 1 .. Len(p), field \in Field : Needs(p, i, field) =>
             \/ Pends(c.todo, p[i], field)
             \/ /\ hw[p[i]][field] = Goal(p, i, s, stray, field)
                /\ i = Len(p) /\ field = "amp" => GainOf(p) = SetupGain(p, i)
    BY DEF SetupOn
  <2> DEFINE todo == c.todo
  <2>2. s' = s
    OBVIOUS
  <2> HIDE DEF s, todo
  <2>3. \A k \in 1 .. Len(todo) : \E i \in 1 .. Len(p) : Sets(todo[k], p, i, s, stray)'
    <3> TAKE k \in 1 .. Len(todo)
    <3>1. PICK i \in 1 .. Len(p) : Sets(todo[k], p, i, s, stray)
      BY <2>1 DEF todo
    <3>2. Sets(todo[k], p, i, s, stray)' = Sets(todo[k], p, i, s, stray)
      BY <2>2, SameGoals
    <3> QED BY <3>1, <3>2
  <2>4. ASSUME Apart(p), NEW i \in 1 .. Len(p), NEW field \in Field, Needs(p, i, field)'
        PROVE  \/ Pends(todo, p[i], field)
               \/ /\ hw'[p[i]][field] = Goal(p, i, s, stray, field)'
                  /\ i = Len(p) /\ field = "amp" => GainOf(p)' = SetupGain(p, i)'
    <3>1. Needs(p, i, field) /\ Goal(p, i, s, stray, field)' = Goal(p, i, s, stray, field)
          /\ SetupGain(p, i)' = SetupGain(p, i)
      BY <2>2, <2>4, SameGoals, SameWidgets
    <3>2. hw'[p[i]] = hw[p[i]]
      BY <2>4
    <3> QED BY <2>1, <2>4, <3>1, <3>2 DEF todo
  <2>5. SetupOn(p, todo, s)'
    BY <1>3, <2>2, <2>3, <2>4 DEF SetupOn, Pends
  <2> QED BY <2>5 DEF todo, s
<1>6. c.state \in Playing => OneVerb(p, c)'
  BY SameWidgets DEF PathInv, OneVerb
<1>7. c.state \in Playing /\ Apart(p) => PlayOn(p, c, s)'
  <2> SUFFICES ASSUME PlayOn(p, c, s), Apart(p) PROVE PlayOn(p, c, s)'
    BY DEF PathInv
  <2>1. \A i \in 1 .. Len(p) : hw'[p[i]] = hw[p[i]]
    OBVIOUS
  <2>2. s' = s
    OBVIOUS
  <2> HIDE DEF s
  <2> QED BY <2>1, <2>2, PlayKept
<1>8. c.state = "down" => \A k \in 1 .. Len(c.todo) :
         /\ ~c.todo[k].stores
         /\ c.todo[k].field \in {"amp", "out", "tag"} /\ c.todo[k].value = Quiet(c.todo[k].field)
  BY DEF PathInv
<1>9. calls[w]' = c /\ PathOf(w)' = p /\ s' = s /\ UNCHANGED params
  OBVIOUS
<1> QED BY <1>3, <1>4, <1>5, <1>6, <1>7, <1>8, <1>9 DEF PathInv

LEMMA SameUse ==
    ASSUME UNCHANGED active
    PROVE  Used' = Used /\ \A w : PathOf(w)' = PathOf(w) /\ StreamOf(w)' = StreamOf(w)
BY DEF Used, InUse, PathOf, StreamOf

LEMMA SamePaths == ASSUME UNCHANGED pathVars PROVE SearchInv' = SearchInv /\ ClientInv' = ClientInv
<1>1. UNCHANGED codecVars /\ UNCHANGED <<turn, stack, paths, active>>
  BY DEF pathVars, search
<1>2. SearchInv' = SearchInv
  BY <1>1, SameCodec DEF SearchInv
<1>3. ClientInv' = ClientInv
  BY <1>1 DEF ClientInv, InUse
<1> QED BY <1>2, <1>3

\* A step of the call for w leaves what is known of the other calls.
LEMMA OthersKept ==
    ASSUME Inv, UNCHANGED <<pathVars, client>>, NEW w \in Used, NEW c, calls' = [calls EXCEPT ![w] = c],
           \A n \in Widget : \/ hw'[n] = hw[n]
                             \/ \E k \in 1 .. Len(PathOf(w)) : n = widgets[PathOf(w)[k]].nid,
           \A q : q # PathOf(w) => GainOf(q)' = GainOf(q),
           NEW x \in OutPin, x # w
    PROVE  CallTyped(x)' /\ PathInv(x)'
<1>1. UNCHANGED <<widgets, outputNids, params, paths, active, pc>>
  BY DEF pathVars, codecVars, search, client
<1>2. SearchInv /\ ClientInv /\ LayoutInv /\ CallTyped(x) /\ PathInv(x) /\ calls'[x] = calls[x]
  <2>1. DOMAIN calls = OutPin
    BY DEF Inv, ControlInv
  <2> QED BY <2>1 DEF Inv, ControlInv
<1>3. Used' = Used /\ PathOf(x)' = PathOf(x) /\ StreamOf(x)' = StreamOf(x)
  BY <1>1, SameUse
<1>4. VerbType' = VerbType
  BY <1>1, SameWidgets
<1>5. CallTyped(x)'
  BY <1>1, <1>2, <1>3, <1>4 DEF CallTyped
<1>6. CASE x \in Used
  <2> DEFINE p == PathOf(x)
  <2>1. PathOK(p) /\ p[1] = x
    BY <1>2, <1>6, UsedPath
  <2>2. p # PathOf(w)
    BY <1>2, <1>6, <2>1, UsedPath
  <2>3. ASSUME Apart(p), NEW i \in 1 .. Len(p) PROVE hw'[p[i]] = hw[p[i]]
    <3>1. \A k \in 1 .. Len(PathOf(w)) : widgets[PathOf(w)[k]].nid # p[i]
      BY <1>2, <1>6, <2>3, ApartOthers
    <3>2. p[i] \in Widget
      BY <1>2, <2>1, PathNodes
    <3> QED BY <3>1, <3>2
  <2>4. GainOf(p)' = GainOf(p)
    BY <1>3, <2>2
  <2> QED BY <1>1, <1>2, <1>3, <1>5, <2>1, <2>3, <2>4, CallKept
<1>7. CASE x \notin Used
  <2>1. calls'[x].state = "off"
    BY <1>2, <1>7 DEF CallTyped
  <2> QED BY <1>5, <2>1 DEF PathInv, Playing
<1> QED BY <1>6, <1>7

\* A call that starts has verbs to send, each to a widget of its path; what is
\* known of the path, of the verbs and of what a shutdown silences is the rest.
SentAlong(verbs, p) == \A k \in 1 .. Len(verbs) :
    /\ \E i \in 1 .. Len(p) : verbs[k].nid = widgets[p[i]].nid
    /\ verbs[k].stores => verbs[k].field = "amp"
LEMMA CallStarts ==
    ASSUME Inv, NEW w \in Used, NEW state \in InProgress, NEW verbs \in Seq(VerbType), verbs # <<>>,
           Call(w, state, verbs), SentAlong(verbs, PathOf(w)),
           state = "down" => SilencesPath(verbs, PathOf(w)),
           PathInv(w)'
    PROVE  Inv'
<1> DEFINE c == [calls[w] EXCEPT !.state = state, !.todo = verbs]
           p == PathOf(w)
           Record == [state : CallState, todo : Seq(VerbType), muted : BOOLEAN, volume : BOOLEAN]
<1>1. UNCHANGED <<pathVars, client, hw, gains, timeouts>> /\ calls' = [calls EXCEPT ![w] = c]
  <2>1. UNCHANGED <<pathVars, client, hw, gains, timeouts>>
        /\ calls' = [calls EXCEPT ![w].state = state, ![w].todo = verbs]
    BY DEF Call
  <2>2. calls' = [calls EXCEPT ![w] = c]
    BY <2>1
  <2> QED BY <2>1, <2>2
<1>2. UNCHANGED <<widgets, outputNids, params, paths, active, pc, volumes>>
  BY <1>1 DEF pathVars, codecVars, search, client
<1>3. SearchInv /\ ClientInv /\ LayoutInv /\ ControlInv /\ w \in OutPin /\ calls \in [OutPin -> Record] /\ pc = "ready"
  <2>1. SearchInv /\ ClientInv /\ LayoutInv /\ ControlInv /\ calls \in [OutPin -> Record]
    BY DEF Inv, ControlInv
  <2>2. w \in OutPin /\ \E u \in active : TRUE
    BY <2>1, UsedPath
  <2> QED BY <2>1, <2>2 DEF ControlInv
<1>4. c \in Record /\ c.state = state /\ c.todo = verbs
  <2>1. calls[w] \in Record /\ state \in CallState
    BY <1>3 DEF CallState, InProgress, Playing
  <2> QED BY <2>1
<1>5. calls' \in [OutPin -> Record] /\ calls'[w] = c /\ \A x \in OutPin : x # w => calls'[x] = calls[x]
  BY <1>1, <1>3, <1>4
<1>6. Widget' = Widget /\ OutPin' = OutPin /\ VerbType' = VerbType /\ Setting' = Setting /\ LayoutInv'
      /\ \A n, field : Quiets(n, field)' = Quiets(n, field)
  BY <1>2, <1>3, SameWidgets
<1>7. Used' = Used /\ \A x : PathOf(x)' = PathOf(x)
  BY <1>2, SameUse
<1> HIDE DEF c
<1>8. CallTyped(w)'
  <2>1. verbs # <<>> <=> state \in InProgress
    OBVIOUS
  <2>2. calls'[w] = c /\ w \in Used' /\ pc' = "ready" /\ PathOf(w)' = p /\ widgets' = widgets
    BY <1>2, <1>3, <1>5, <1>7
  <2>3. c \in [state : CallState, todo : Seq(VerbType'), muted : BOOLEAN, volume : BOOLEAN]
    BY <1>4, <1>6
  <2>4. \A k \in 1 .. Len(c.todo) :
          /\ \E i \in 1 .. Len(p) : c.todo[k].nid = widgets[p[i]].nid
          /\ c.todo[k].stores => c.todo[k].field = "amp"
    BY <1>4 DEF SentAlong
  <2>5. c.todo # <<>> <=> c.state \in InProgress
    BY <1>4
  <2> HIDE DEF p
  <2> QED BY <2>2, <2>3, <2>4, <2>5 DEF CallTyped
<1>9. ASSUME NEW x \in OutPin PROVE (CallTyped(x) /\ PathInv(x))'
  <2>1. CASE x = w
    BY <1>8, <2>1
  <2>2. CASE x # w
    <3>1. \A q : GainOf(q)' = GainOf(q)
      BY <1>1 DEF GainOf
    <3> QED BY <1>1, <2>2, <3>1, OthersKept
  <2> QED BY <2>1, <2>2
<1>10. ASSUME NEW n \in Widget, NEW field \in Field, Quiets(n, field), widgets[n] # Hole
       PROVE  QuietOn(n, field)'
  <2>1. QuietOn(n, field)
    BY <1>3, <1>10 DEF ControlInv
  <2>2. CASE hw[n][field] = Quiet(field)
    BY <1>1, <2>2 DEF QuietOn
  <2>3. CASE hw[n][field] # Quiet(field)
    <3>1. PICK x \in OutPin : /\ calls[x].state # "off" /\ n \in ToSet(PathOf(x))
                              /\ calls[x].state = "down" => Pends(calls[x].todo, n, field)
      BY <2>1, <2>3 DEF QuietOn
    <3>2. calls'[x].state # "off" /\ (calls'[x].state = "down" => Pends(calls'[x].todo, n, field))
      <4>1. CASE x # w
        BY <1>5, <3>1, <4>1
      <4>2. CASE x = w
        <5>1. PathOK(p)
          BY <1>3, UsedPath
        <5>2. PICK i \in 1 .. Len(p) : n = p[i]
          BY <1>3, <3>1, <4>2, <5>1, PathNodes DEF ToSet
        <5>3. widgets[n].nid = n
          BY <1>3, <1>10, NodeFacts
        <5>4. state = "down" => Pends(verbs, n, field)
          BY <1>10, <5>2, <5>3 DEF Pends, SilencesPath
        <5> QED BY <1>4, <1>5, <4>2, <5>4 DEF InProgress
      <4> QED BY <4>1, <4>2
    <3> QED BY <1>6, <1>7, <3>1, <3>2 DEF QuietOn
  <2> QED BY <2>2, <2>3
<1>11. SearchInv' /\ ClientInv'
  BY <1>1, <1>3, SamePaths
<1>12. ControlInv'
  <2>1. hw' \in [Widget -> Setting] /\ (\A q \in DOMAIN gains' : gains'[q] \in 0 .. 127)
        /\ timeouts' \in Nat /\ volumes' \subseteq Int
        /\ pc' \in {"search", "ready"} /\ (pc' = "search" => active' = {})
    BY <1>1, <1>2, <1>3 DEF ControlInv
  <2> QED BY <1>2, <1>5, <1>6, <1>9, <1>10, <2>1 DEF ControlInv
<1> QED BY <1>11, <1>12 DEF Inv

-----------------------------------------------------------------------------
(* The calls that start *)

\* The call for w, its path and its stream.
LEMMA CallIs ==
    ASSUME Inv, NEW w \in Used, NEW state, NEW verbs, Call(w, state, verbs)
    PROVE  /\ calls'[w].state = state /\ calls'[w].todo = verbs
           /\ calls'[w].muted = calls[w].muted /\ calls'[w].volume = calls[w].volume
           /\ PathOf(w)' = PathOf(w) /\ StreamOf(w)' = StreamOf(w)
           /\ UNCHANGED <<widgets, outputNids, params, paths, hw, gains>>
           /\ LayoutInv /\ PathOK(PathOf(w)) /\ PathOf(w)[1] = w /\ w \in OutPin
           /\ CallTyped(w) /\ PathInv(w) /\ GainOf(PathOf(w))' = GainOf(PathOf(w))
<1>1. /\ UNCHANGED <<pathVars, client, hw, gains, timeouts>>
      /\ calls' = [calls EXCEPT ![w].state = state, ![w].todo = verbs]
  BY DEF Call
<1>2. UNCHANGED <<widgets, outputNids, params, paths, active, hw, gains>>
  BY <1>1 DEF pathVars, codecVars, search, client
<1>3. PathOf(w)' = PathOf(w) /\ StreamOf(w)' = StreamOf(w)
  BY <1>2, SameUse
<1>4. SearchInv /\ ClientInv /\ ControlInv
  BY DEF Inv
<1>5. PathOK(PathOf(w)) /\ PathOf(w)[1] = w /\ w \in OutPin
  BY <1>4, UsedPath
<1>6. CallTyped(w) /\ PathInv(w) /\ LayoutInv
      /\ calls \in [OutPin -> [state : CallState, todo : Seq(VerbType), muted : BOOLEAN, volume : BOOLEAN]]
  BY <1>4, <1>5 DEF ControlInv
<1>7. /\ calls'[w].state = state /\ calls'[w].todo = verbs
      /\ calls'[w].muted = calls[w].muted /\ calls'[w].volume = calls[w].volume
  <2>1. calls'[w] = [calls[w] EXCEPT !.state = state, !.todo = verbs]
    BY <1>1, <1>5, <1>6
  <2>2. calls[w] \in [state : CallState, todo : Seq(VerbType), muted : BOOLEAN, volume : BOOLEAN]
    BY <1>5, <1>6
  <2> QED BY <2>1, <2>2
<1>8. GainOf(PathOf(w))' = GainOf(PathOf(w))
  BY <1>2, <1>3 DEF GainOf
<1> QED BY <1>2, <1>3, <1>5, <1>6, <1>7, <1>8

LEMMA SetupStep == ASSUME Inv, NEW w \in OutPin, Setup(w) PROVE Inv'
<1>1. PICK stray \in Strays :
        /\ w \in Used /\ StreamOf(w) \in Outputs /\ CheckStreamParams(params)
        /\ Call(w, "setup", SetupVerbs(PathOf(w), StreamOf(w), stray))
  BY DEF Setup
<1>2. SUFFICES ASSUME NEW p, p = PathOf(w), NEW s, s = StreamOf(w),
                      NEW verbs, verbs = SetupVerbs(p, s, stray)
               PROVE  Inv'
  OBVIOUS
<1>3. Call(w, "setup", verbs)
  BY <1>1, <1>2
<1>4. /\ calls'[w].state = "setup" /\ calls'[w].todo = verbs
      /\ PathOf(w)' = p /\ StreamOf(w)' = s
      /\ UNCHANGED <<widgets, outputNids, params, paths, hw, gains>>
      /\ LayoutInv /\ PathOK(p)
  BY <1>1, <1>2, <1>3, CallIs
<1>5. s \in 0 .. 14
  BY <1>1, <1>2, ClientAssumption
<1>6. SetsUp(verbs, p, s, stray)
  BY <1>2, <1>4, <1>5, SetupDoes
<1>7. verbs \in Seq(VerbType) /\ verbs # <<>> /\ SentAlong(verbs, p)
  BY <1>6 DEF Sets, SetsUp, SentAlong
<1>8. SetupOn(p, verbs, s)'
  <2>1. \A k \in 1 .. Len(verbs) : \E i \in 1 .. Len(p) : Sets(verbs[k], p, i, s, stray)'
    <3> TAKE k \in 1 .. Len(verbs)
    <3>1. PICK i \in 1 .. Len(p) : Sets(verbs[k], p, i, s, stray)
      BY <1>6 DEF SetsUp
    <3>2. Sets(verbs[k], p, i, s, stray)' = Sets(verbs[k], p, i, s, stray)
      BY <1>4, SameGoals
    <3> QED BY <3>1, <3>2
  <2>2. ASSUME Apart(p)', NEW i \in 1 .. Len(p), NEW field \in Field, Needs(p, i, field)'
        PROVE  Pends(verbs, p[i], field)
    <3>1. Needs(p, i, field)
      BY <1>4, <2>2, SameGoals
    <3>2. Apart(p)
      BY <1>4, <2>2, SameApart
    <3>3. widgets[p[i]].nid = p[i]
      BY <1>4, <3>2, PathNodes
    <3> QED BY <1>6, <3>1, <3>3 DEF Pends, SetsUp
  <2> QED BY <2>1, <2>2 DEF SetupOn
<1>9. PathInv(w)'
  BY <1>1, <1>2, <1>4, <1>8 DEF PathInv, Playing
<1>10. "setup" \in InProgress
  BY DEF InProgress
<1> QED BY <1>1, <1>2, <1>3, <1>7, <1>9, <1>10, CallStarts

LEMMA VolumeStep == ASSUME Inv, NEW w \in OutPin, SetVolume(w) PROVE Inv'
<1>1. PICK volume \in volumes :
        /\ w \in Used /\ calls[w].state = "up"
        /\ Call(w, "volume", VolumeVerbs(PathOf(w), volume))
  BY DEF SetVolume
<1>2. SUFFICES ASSUME NEW p, p = PathOf(w), NEW s, s = StreamOf(w),
                      NEW verbs, verbs = VolumeVerbs(p, volume), NEW c, c = calls'[w]
               PROVE  Inv'
  OBVIOUS
<1>3. Call(w, "volume", verbs)
  BY <1>1, <1>2
<1>4. /\ c.state = "volume" /\ c.todo = verbs
      /\ c.muted = calls[w].muted /\ c.volume = calls[w].volume
      /\ PathOf(w)' = p /\ StreamOf(w)' = s
      /\ UNCHANGED <<widgets, outputNids, params, paths, hw, gains>>
      /\ LayoutInv /\ PathOK(p) /\ PathInv(w) /\ GainOf(p)' = GainOf(p)
  BY <1>1, <1>2, <1>3, CallIs
<1>5. Last(p) = p[Len(p)] /\ Len(p) \in 1 .. Len(p) /\ Last(p) \in Widget
  BY <1>4, PathNodes
<1> DEFINE gain == VolumeValue(volume, StepOf(Last(p)))
           v == [nid |-> widgets[Last(p)].nid, field |-> "amp",
                 value |-> [mute |-> FALSE, gain |-> gain], stores |-> TRUE]
<1>6. StepOf(Last(p)) \in 0 .. 127 /\ gain \in 0 .. StepOf(Last(p))
  <2>1. volume \in Int
    BY <1>1 DEF Inv, ControlInv
  <2>2. StepOf(Last(p)) \in 0 .. 127
    BY <1>4, <1>5, StepFits
  <2> QED BY <2>1, <2>2, VolumeFits
<1>7. verbs = <<v>>
  BY <1>2 DEF VolumeVerbs, AmpStored
<1> HIDE DEF gain
<1>8. v \in VerbType
  <2> DEFINE max == StepOf(Last(p))
  <2>1. max \in 0 .. 127 /\ gain \in 0 .. max
    BY <1>6
  <2> HIDE DEF max
  <2>2. gain \in 0 .. 127
    BY <2>1
  <2>3. [mute |-> FALSE, gain |-> gain] \in Amplifier
    BY <2>2 DEF Amplifier
  <2>4. widgets[Last(p)].nid \in Widget
    BY <1>4, <1>5, NodeFacts
  <2> DEFINE a == [mute |-> FALSE, gain |-> gain]
  <2>5. a \in Amplifier /\ "amp" \in Field
    BY <2>3 DEF Field
  <2> HIDE DEF a
  <2>6. [nid |-> widgets[Last(p)].nid, field |-> "amp", value |-> a, stores |-> TRUE] \in VerbType
    BY <2>4, <2>5 DEF VerbType, Value, Fits
  <2> QED BY <2>6 DEF a
<1>9. v.nid = widgets[Last(p)].nid /\ v.field = "amp" /\ ~v.value.mute /\ v.value.gain = gain /\ v.stores
  OBVIOUS
<1> HIDE DEF v
<1>10. verbs \in Seq(VerbType) /\ verbs # <<>> /\ Len(verbs) = 1 /\ verbs[1] = v
  BY <1>7, <1>8
<1>11. SentAlong(verbs, p)
  BY <1>5, <1>9, <1>10 DEF SentAlong
<1>12. calls[w].state \in Playing /\ c.state \in Playing
  BY <1>1, <1>4 DEF Playing
<1>13. OneVerb(p, c)'
  <2>1. StepOf(Last(p))' = StepOf(Last(p))
    BY <1>4, SameWidgets
  <2> QED BY <1>4, <1>6, <1>9, <1>10, <2>1 DEF OneVerb
<1>14. Apart(p)' => PlayOn(p, c, s)'
  <2> SUFFICES ASSUME Apart(p)' PROVE PlayOn(p, c, s)'
    OBVIOUS
  <2>1. Apart(p)
    BY <1>4, SameApart
  <2>2. PlayOn(p, calls[w], s)
    BY <1>2, <1>4, <1>12, <2>1 DEF PathInv
  <2>3. SUFFICES ASSUME NEW b, b = calls[w] PROVE PlayOn(p, c, s)'
    OBVIOUS
  <2>4. PlayOn(p, b, s) /\ c.muted = b.muted /\ c.volume = b.volume
    BY <1>4, <2>2, <2>3
  <2> QED BY <1>4, <2>4, PlayKept
<1>15. PathInv(w)'
  <2>1. CheckStreamParams(params)' /\ s \in Outputs
    BY <1>2, <1>4, <1>12 DEF PathInv
  <2> QED BY <1>2, <1>4, <1>12, <1>13, <1>14, <2>1 DEF PathInv, Playing
<1>16. "volume" \in InProgress
  BY DEF InProgress
<1> QED BY <1>1, <1>2, <1>3, <1>10, <1>11, <1>15, <1>16, CallStarts

LEMMA MuteStep == ASSUME Inv, NEW w \in OutPin, Mute(w) PROVE Inv'
<1>1. PICK mute \in BOOLEAN :
        /\ w \in Used /\ calls[w].state = "up"
        /\ Call(w, IF mute THEN "mute" ELSE "unmute", MuteVerbs(PathOf(w), mute))
  BY DEF Mute
<1>2. SUFFICES ASSUME NEW p, p = PathOf(w), NEW s, s = StreamOf(w),
                      NEW verbs, verbs = MuteVerbs(p, mute), NEW c, c = calls'[w],
                      NEW state, state = IF mute THEN "mute" ELSE "unmute"
               PROVE  Inv'
  OBVIOUS
<1>3. Call(w, state, verbs)
  BY <1>1, <1>2
<1>4. /\ c.state = state /\ c.todo = verbs
      /\ c.muted = calls[w].muted /\ c.volume = calls[w].volume
      /\ PathOf(w)' = p /\ StreamOf(w)' = s
      /\ UNCHANGED <<widgets, outputNids, params, paths, hw, gains>>
      /\ LayoutInv /\ PathOK(p) /\ PathInv(w) /\ GainOf(p)' = GainOf(p)
  BY <1>1, <1>2, <1>3, CallIs
<1>5. \E i \in 1 .. Len(p) : MuteWidget(p) = p[i] /\ p[i] \in Widget
  <2>1. Last(p) = p[Len(p)] /\ Len(p) \in 1 .. Len(p) /\ 1 \in 1 .. Len(p)
        /\ \A i \in 1 .. Len(p) : p[i] \in Widget
    BY <1>4, PathNodes
  <2> QED BY <2>1 DEF MuteWidget
<1> DEFINE gain == GainOf(p)
           m == MuteWidget(p)
           v == [nid |-> widgets[m].nid, field |-> "amp",
                 value |-> [mute |-> mute, gain |-> gain], stores |-> FALSE]
<1>6. gain \in 0 .. 127
  <2>1. \A q \in DOMAIN gains : gains[q] \in 0 .. 127
    BY DEF Inv, ControlInv
  <2> QED BY <2>1 DEF GainOf
<1>7. verbs = <<v>>
  BY <1>2 DEF MuteVerbs, Amp, Verb
<1> HIDE DEF gain
<1>8. v \in VerbType
  <2> DEFINE a == [mute |-> mute, gain |-> gain]
             n == widgets[m].nid
  <2>1. a \in Amplifier /\ "amp" \in Field
    BY <1>6 DEF Amplifier, Field
  <2>2. n \in Widget
    BY <1>4, <1>5, NodeFacts
  <2> HIDE DEF a, n
  <2>3. [nid |-> n, field |-> "amp", value |-> a, stores |-> FALSE] \in VerbType
    BY <2>1, <2>2 DEF VerbType, Value, Fits
  <2> QED BY <2>3 DEF a, n
<1>9. v.nid = widgets[m].nid /\ v.field = "amp" /\ v.value = [mute |-> mute, gain |-> gain] /\ ~v.stores
  OBVIOUS
<1> HIDE DEF v, m
<1>10. verbs \in Seq(VerbType) /\ verbs # <<>> /\ Len(verbs) = 1 /\ verbs[1] = v
  BY <1>7, <1>8
<1>11. SentAlong(verbs, p)
  BY <1>5, <1>9, <1>10 DEF SentAlong, m
<1>12. /\ calls[w].state \in Playing /\ c.state \in Playing /\ state \in InProgress
       /\ c.state \notin {"volume", "setup", "down"} /\ (c.state = "mute" <=> mute)
  BY <1>1, <1>2, <1>4 DEF Playing, InProgress
<1>13. OneVerb(p, c)'
  <2>1. GainOf(p)' = gain /\ MuteWidget(p)' = m /\ widgets' = widgets
    BY <1>4, SameWidgets DEF gain, m
  <2>2. c.todo[1].value = [mute |-> c.state = "mute", gain |-> gain]
    BY <1>4, <1>9, <1>10, <1>12
  <2> QED BY <1>4, <1>9, <1>10, <1>12, <2>1, <2>2 DEF OneVerb
<1>14. Apart(p)' => PlayOn(p, c, s)'
  <2> SUFFICES ASSUME Apart(p)' PROVE PlayOn(p, c, s)'
    OBVIOUS
  <2>1. Apart(p)
    BY <1>4, SameApart
  <2>2. PlayOn(p, calls[w], s)
    BY <1>2, <1>4, <1>12, <2>1 DEF PathInv
  <2>3. SUFFICES ASSUME NEW b, b = calls[w] PROVE PlayOn(p, c, s)'
    OBVIOUS
  <2>4. PlayOn(p, b, s) /\ c.muted = b.muted /\ c.volume = b.volume
    BY <1>4, <2>2, <2>3
  <2> QED BY <1>4, <2>4, PlayKept
<1>15. PathInv(w)'
  <2>1. CheckStreamParams(params)' /\ s \in Outputs
    BY <1>2, <1>4, <1>12 DEF PathInv
  <2> QED BY <1>2, <1>4, <1>12, <1>13, <1>14, <2>1 DEF PathInv
<1> QED BY <1>1, <1>2, <1>3, <1>10, <1>11, <1>12, <1>15, CallStarts

LEMMA ShutdownStep == ASSUME Inv, NEW w \in OutPin, Shutdown(w) PROVE Inv'
<1>1. w \in Used /\ Call(w, "down", ShutdownVerbs(PathOf(w)))
  BY DEF Shutdown
<1>2. SUFFICES ASSUME NEW p, p = PathOf(w), NEW verbs, verbs = ShutdownVerbs(p), NEW c, c = calls'[w]
               PROVE  Inv'
  OBVIOUS
<1>3. Call(w, "down", verbs)
  BY <1>1, <1>2
<1>4. c.state = "down" /\ c.todo = verbs /\ LayoutInv /\ PathOK(p)
  BY <1>1, <1>2, <1>3, CallIs
<1>5. ShutsDown(verbs, p)
  BY <1>2, <1>4, ShutdownSilences
<1>6. verbs \in Seq(VerbType) /\ verbs # <<>> /\ SentAlong(verbs, p) /\ SilencesPath(verbs, p)
  BY <1>5 DEF ShutsDown, SentAlong
<1>7. PathInv(w)'
  BY <1>2, <1>4, <1>5 DEF ShutsDown, PathInv, Playing
<1>8. "down" \in InProgress
  BY DEF InProgress
<1> QED BY <1>1, <1>2, <1>3, <1>6, <1>7, <1>8, CallStarts

-----------------------------------------------------------------------------
(* The verbs that are sent *)

\* A setting of a widget.
Changed(r, f, x) == [r EXCEPT ![f] = x]
Replaces(S, r, f, x) ==
    /\ Changed(r, f, x) \in S /\ Changed(r, f, x)[f] = x
    /\ \A g \in Field : g # f => Changed(r, f, x)[g] = r[g]
LEMMA RecordChanged ==
    ASSUME NEW A, NEW B, NEW C, NEW D, NEW E, NEW F, NEW G, NEW H, NEW S,
           S = [sel : A, on : B, amp : C, out : D, eapd : E, tag : F, fmt : G, channels : H],
           NEW r \in S, NEW f \in Field, NEW x,
           f = "sel" => x \in A, f = "on" => x \in B, f = "amp" => x \in C, f = "out" => x \in D,
           f = "eapd" => x \in E, f = "tag" => x \in F, f = "fmt" => x \in G, f = "channels" => x \in H
    PROVE  Replaces(S, r, f, x)
<1>1. DOMAIN r = Field
  BY DEF Field
<1>2. Changed(r, f, x)[f] = x /\ \A g \in Field : g # f => Changed(r, f, x)[g] = r[g]
  BY <1>1 DEF Changed
<1>3. Changed(r, f, x) \in S
  <2>1. CASE f = "sel"
    BY <2>1 DEF Changed
  <2>2. CASE f = "on"
    BY <2>2 DEF Changed
  <2>3. CASE f = "amp"
    BY <2>3 DEF Changed
  <2>4. CASE f = "out"
    BY <2>4 DEF Changed
  <2>5. CASE f = "eapd"
    BY <2>5 DEF Changed
  <2>6. CASE f = "tag"
    BY <2>6 DEF Changed
  <2>7. CASE f = "fmt"
    BY <2>7 DEF Changed
  <2>8. CASE f = "channels"
    BY <2>8 DEF Changed
  <2> QED BY <2>1, <2>2, <2>3, <2>4, <2>5, <2>6, <2>7, <2>8 DEF Field
<1> QED BY <1>2, <1>3 DEF Replaces

LEMMA SettingChanged ==
    ASSUME NEW r \in Setting, NEW f \in Field, NEW x, Fits(f, x)
    PROVE  Replaces(Setting, r, f, x)
<1> DEFINE A == 0 .. 255
           C == Amplifier
           F == 0 .. 15
           G == {<<>>, ParamsFormat}
<1>1. /\ f = "sel" => x \in A
      /\ f \in {"on", "out", "eapd"} => x \in BOOLEAN
      /\ f = "amp" => x \in C
      /\ f \in {"tag", "channels"} => x \in F
      /\ f = "fmt" => x \in G
  BY DEF Fits
<1>2. Setting = [sel : A, on : BOOLEAN, amp : C, out : BOOLEAN, eapd : BOOLEAN, tag : F, fmt : G, channels : F]
  BY DEF Setting, Amplifier
<1> HIDE DEF A, C, F, G
<1>3. /\ f = "on" => x \in BOOLEAN
      /\ f = "out" => x \in BOOLEAN
      /\ f = "eapd" => x \in BOOLEAN
      /\ f = "tag" => x \in F
      /\ f = "channels" => x \in F
  BY <1>1
<1> QED BY <1>1, <1>2, <1>3, RecordChanged

\* What a verb v changes that is sent for the path p, and that the codec has taken
\* or not.
Effect(v, p, taken) ==
    /\ hw' \in [Widget -> Setting]
    /\ \A q \in DOMAIN gains' : gains'[q] \in 0 .. 127
    /\ taken => hw'[v.nid][v.field] = v.value
    /\ \A n \in Widget, f \in Field : n # v.nid \/ f # v.field => hw'[n][f] = hw[n][f]
    /\ \A n \in Widget : n # v.nid => hw'[n] = hw[n]
    /\ \A q : q # p => GainOf(q)' = GainOf(q)
    /\ GainOf(p)' = IF v.stores THEN v.value.gain ELSE GainOf(p)

\* The verb that the call for w sends next.
Sent(w, p, v) ==
    /\ w \in Used /\ p = PathOf(w) /\ PathOK(p) /\ p[1] = w
    /\ calls[w].todo \in Seq(VerbType) /\ calls[w].todo # <<>> /\ v \in VerbType /\ v = Head(calls[w].todo)
    /\ calls[w].state \in InProgress
    /\ \E k \in 1 .. Len(p) : v.nid = widgets[p[k]].nid
    /\ v.stores => v.field = "amp"

LEMMA VerbSent ==
    ASSUME Inv, NEW w \in OutPin, calls[w].todo # <<>>
    PROVE  Sent(w, PathOf(w), NextVerb(w))
<1>1. SearchInv /\ ClientInv /\ ControlInv /\ CallTyped(w)
  BY DEF Inv, ControlInv
<1> DEFINE todo == calls[w].todo
           p == PathOf(w)
<1>2. todo \in Seq(VerbType) /\ calls[w].state \in InProgress
  BY <1>1 DEF CallTyped
<1>3. w \in Used
  BY <1>1, <1>2 DEF CallTyped, InProgress
<1>4. PathOK(p) /\ p[1] = w
  BY <1>1, <1>3, UsedPath
<1>5. todo # <<>> /\ NextVerb(w) = todo[1]
  BY DEF NextVerb
<1>6. \A k \in 1 .. Len(todo) :
         /\ \E i \in 1 .. Len(p) : todo[k].nid = widgets[p[i]].nid
         /\ todo[k].stores => todo[k].field = "amp"
  BY <1>1 DEF CallTyped
<1> HIDE DEF todo, p
<1>7. NextVerb(w) \in VerbType /\ NextVerb(w) = Head(todo) /\ 1 \in 1 .. Len(todo)
  BY <1>2, <1>5
<1>8. /\ \E i \in 1 .. Len(p) : NextVerb(w).nid = widgets[p[i]].nid
      /\ NextVerb(w).stores => NextVerb(w).field = "amp"
  BY <1>5, <1>6, <1>7
<1> QED BY <1>2, <1>3, <1>4, <1>7, <1>8 DEF Sent, todo, p

LEMMA VerbEffect ==
    ASSUME Inv, NEW w, NEW v, NEW p, Sent(w, p, v), NextVerb(w) = v, NEW taken \in BOOLEAN,
           hw' = IF taken THEN Set(v) ELSE hw, StoredGain(w)
    PROVE  Effect(v, p, taken)
<1>1. /\ v.nid \in Widget /\ v.field \in Field /\ Fits(v.field, v.value) /\ v.stores \in BOOLEAN
      /\ hw \in [Widget -> Setting] /\ \A q \in DOMAIN gains : gains[q] \in 0 .. 127
  BY DEF Sent, VerbType, Inv, ControlInv
<1>2. v.stores => v.value.gain \in 0 .. 127
  <2>1. v.stores => v.value \in Amplifier
    BY <1>1 DEF Sent, Fits
  <2> QED BY <2>1 DEF Amplifier
<1>3. gains' = IF ~v.stores THEN gains
               ELSE [q \in DOMAIN gains \cup {p} |-> IF q = p THEN v.value.gain ELSE gains[q]]
  BY DEF StoredGain, Sent
<1>4. (\A q \in DOMAIN gains' : gains'[q] \in 0 .. 127)
  BY <1>1, <1>2, <1>3
<1>5. /\ \A q : q # p => GainOf(q)' = GainOf(q)
      /\ GainOf(p)' = IF v.stores THEN v.value.gain ELSE GainOf(p)
  BY <1>1, <1>3 DEF GainOf
<1> DEFINE n == v.nid
           r == hw[n]
           s == Changed(r, v.field, v.value)
<1>6. Set(v) = [hw EXCEPT ![n] = s]
  BY <1>1 DEF Set, Changed
<1>7. r \in Setting
  BY <1>1
<1>8. s \in Setting /\ s[v.field] = v.value /\ \A g \in Field : g # v.field => s[g] = r[g]
  <2> HIDE DEF r
  <2> QED BY <1>1, <1>7, SettingChanged DEF Replaces
<1> HIDE DEF s
<1>9. /\ hw' \in [Widget -> Setting]
      /\ taken => hw'[v.nid][v.field] = v.value
      /\ \A m \in Widget : m # v.nid => hw'[m] = hw[m]
      /\ \A f \in Field : f # v.field => hw'[n][f] = hw[n][f]
  <2>1. CASE taken
    <3>1. hw' = [hw EXCEPT ![n] = s] /\ n \in Widget
      BY <1>1, <1>6, <2>1
    <3>2. hw'[n] = s /\ hw' \in [Widget -> Setting] /\ \A m \in Widget : m # n => hw'[m] = hw[m]
      <4> HIDE DEF n
      <4> QED BY <1>1, <1>8, <3>1
    <3> QED BY <1>8, <3>2
  <2>2. CASE ~taken
    BY <1>1, <2>2
  <2> QED BY <2>1, <2>2
<1>10. ASSUME NEW m \in Widget, NEW f \in Field, m # v.nid \/ f # v.field PROVE hw'[m][f] = hw[m][f]
  BY <1>9, <1>10
<1> QED BY <1>4, <1>5, <1>9, <1>10 DEF Effect

\* The rest of a sequence.
LEMMA TailFacts ==
    ASSUME NEW S, NEW todo \in Seq(S), todo # <<>>
    PROVE  /\ \A k \in 1 .. Len(Tail(todo)) : k + 1 \in 1 .. Len(todo) /\ Tail(todo)[k] = todo[k + 1]
           /\ \A k \in 1 .. Len(todo) : k # 1 => /\ k - 1 \in 1 .. Len(Tail(todo))
                                                 /\ Tail(todo)[k - 1] = todo[k]
<1> DEFINE rest == Tail(todo)
<1>1. Len(rest) = Len(todo) - 1 /\ Len(todo) \in Nat /\ \A k \in 1 .. Len(rest) : rest[k] = todo[k + 1]
  OBVIOUS
<1> HIDE DEF rest
<1>2. \A k \in 1 .. Len(rest) : k + 1 \in 1 .. Len(todo)
  BY <1>1
<1>3. ASSUME NEW k \in 1 .. Len(todo), k # 1 PROVE k - 1 \in 1 .. Len(rest) /\ rest[k - 1] = todo[k]
  <2>1. k - 1 \in 1 .. Len(rest) /\ k - 1 + 1 = k
    BY <1>1, <1>3
  <2> QED BY <1>1, <2>1
<1> QED BY <1>1, <1>2, <1>3 DEF rest

\* The next verb of a setup brings its setting to the goal.
LEMMA SetupTaken ==
    ASSUME LayoutInv, UNCHANGED <<widgets, outputNids, params, paths>>,
           NEW w, NEW p, NEW v, Sent(w, p, v), Effect(v, p, TRUE),
           NEW todo, todo = calls[w].todo, NEW s, SetupOn(p, todo, s)
    PROVE  SetupOn(p, Tail(todo), s)'
<1>1. /\ PathOK(p) /\ todo \in Seq(VerbType) /\ todo # <<>> /\ v = todo[1] /\ v \in VerbType
      /\ 1 \in 1 .. Len(todo)
  BY DEF Sent, InProgress
<1> DEFINE rest == Tail(todo)
<1>2. /\ \A k \in 1 .. Len(rest) : k + 1 \in 1 .. Len(todo) /\ rest[k] = todo[k + 1]
      /\ \A k \in 1 .. Len(todo) : k # 1 => k - 1 \in 1 .. Len(rest) /\ rest[k - 1] = todo[k]
  BY <1>1, TailFacts
<1> HIDE DEF rest
<1>3. PICK stray \in Strays :
        /\ \A k \in 1 .. Len(todo) : \E i \in 1 .. Len(p) : Sets(todo[k], p, i, s, stray)
        /\ Apart(p) => \A i \in 1 .. Len(p), field \in Field : Needs(p, i, field) =>
             \/ Pends(todo, p[i], field)
             \/ /\ hw[p[i]][field] = Goal(p, i, s, stray, field)
                /\ i = Len(p) /\ field = "amp" => GainOf(p) = SetupGain(p, i)
  BY DEF SetupOn
<1>4. \A k \in 1 .. Len(rest) : \E i \in 1 .. Len(p) : Sets(rest[k], p, i, s, stray)'
  <2> TAKE k \in 1 .. Len(rest)
  <2>1. PICK i \in 1 .. Len(p) : Sets(rest[k], p, i, s, stray)
    BY <1>2, <1>3
  <2>2. Sets(rest[k], p, i, s, stray)' = Sets(rest[k], p, i, s, stray)
    BY SameGoals DEF rest
  <2> QED BY <2>1, <2>2
<1>5. ASSUME Apart(p)', NEW i \in 1 .. Len(p), NEW field \in Field, Needs(p, i, field)'
      PROVE  \/ Pends(rest, p[i], field)
             \/ /\ hw'[p[i]][field] = Goal(p, i, s, stray, field)'
                /\ i = Len(p) /\ field = "amp" => GainOf(p)' = SetupGain(p, i)'
  <2>1. Apart(p) /\ Needs(p, i, field) /\ Goal(p, i, s, stray, field)' = Goal(p, i, s, stray, field)
        /\ SetupGain(p, i)' = SetupGain(p, i)
    BY <1>5, SameApart, SameGoals, SameWidgets
  <2>2. PICK z \in 1 .. Len(p) : Sets(v, p, z, s, stray)
    BY <1>1, <1>3
  <2>3. v.nid = p[z] /\ p[i] \in Widget /\ v.field \in Field /\ (p[i] = p[z] => i = z)
    <3>1. widgets[p[z]].nid = p[z] /\ p[i] \in Widget /\ (p[i] = p[z] => i = z)
      BY <1>1, <2>1, PathNodes
    <3>2. v.field \in Field
      BY <1>1 DEF VerbType
    <3> QED BY <2>2, <3>1, <3>2 DEF Sets
  <2>4. CASE z = i /\ v.field = field
    <3>1. hw'[p[i]][field] = v.value
      BY <2>3, <2>4 DEF Effect
    <3>2. v.value = Goal(p, i, s, stray, field)
      BY <2>2, <2>4 DEF Sets
    <3>3. i = Len(p) /\ field = "amp" => GainOf(p)' = SetupGain(p, i)
      <4> SUFFICES ASSUME i = Len(p), field = "amp" PROVE GainOf(p)' = SetupGain(p, i)
        OBVIOUS
      <4>1. v.stores
        BY <2>2, <2>4 DEF Sets
      <4>2. v.value = [mute |-> FALSE, gain |-> SetupGain(p, i)]
        BY <3>2 DEF Goal
      <4>3. GainOf(p)' = v.value.gain
        BY <4>1 DEF Effect
      <4> QED BY <4>2, <4>3
    <3> QED BY <2>1, <3>1, <3>2, <3>3
  <2>5. CASE ~(z = i /\ v.field = field)
    <3>1. hw'[p[i]][field] = hw[p[i]][field]
      BY <2>3, <2>5 DEF Effect
    <3>2. CASE Pends(todo, p[i], field)
      <4>1. PICK k \in 1 .. Len(todo) : todo[k].nid = p[i] /\ todo[k].field = field
        BY <3>2 DEF Pends
      <4>2. k # 1
        BY <1>1, <2>3, <2>5, <4>1
      <4>3. k - 1 \in 1 .. Len(rest) /\ rest[k - 1] = todo[k]
        BY <1>2, <4>2
      <4>4. rest[k - 1].nid = p[i] /\ rest[k - 1].field = field
        BY <4>1, <4>3
      <4> QED BY <4>3, <4>4, Zenon DEF Pends
    <3>3. CASE ~Pends(todo, p[i], field)
      <4>1. /\ hw[p[i]][field] = Goal(p, i, s, stray, field)
            /\ i = Len(p) /\ field = "amp" => GainOf(p) = SetupGain(p, i)
        BY <1>3, <2>1, <3>3
      <4>2. i = Len(p) /\ field = "amp" => ~v.stores
        BY <2>2, <2>5 DEF Sets
      <4>3. ~v.stores => GainOf(p)' = GainOf(p)
        BY DEF Effect
      <4> QED BY <2>1, <3>1, <4>1, <4>2, <4>3
    <3> QED BY <3>2, <3>3
  <2> QED BY <2>4, <2>5
<1>6. SetupOn(p, rest, s)'
  BY <1>4, <1>5 DEF SetupOn, Pends, rest
<1> QED BY <1>6 DEF rest

\* A path all of whose settings are at the goals of setup plays.
LEMMA SetupDone ==
    ASSUME LayoutInv, UNCHANGED <<widgets, outputNids, params, paths>>,
           NEW p, PathOK(p), NEW s, SetupOn(p, <<>>, s)', Apart(p), NEW c, ~c.muted, ~c.volume
    PROVE  PlayOn(p, c, s)'
<1> DEFINE goal(i, stray, field) == Goal(p, i, s, stray, field)
<1>1. PICK stray \in Strays : \A i \in 1 .. Len(p), field \in Field : Needs(p, i, field) =>
        /\ hw'[p[i]][field] = goal(i, stray, field)
        /\ i = Len(p) /\ field = "amp" => GainOf(p)' = SetupGain(p, i)
  <2>1. PICK stray \in Strays : (Apart(p)' => \A i \in 1 .. Len(p), field \in Field : Needs(p, i, field)' =>
             \/ Pends(<<>>, p[i], field)
             \/ /\ hw'[p[i]][field] = Goal(p, i, s, stray, field)'
                /\ i = Len(p) /\ field = "amp" => GainOf(p)' = SetupGain(p, i)')
    BY DEF SetupOn, Pends
  <2>2. ASSUME NEW i \in 1 .. Len(p), NEW field \in Field, Needs(p, i, field)
        PROVE  /\ hw'[p[i]][field] = goal(i, stray, field)
               /\ i = Len(p) /\ field = "amp" => GainOf(p)' = SetupGain(p, i)
    <3>1. Apart(p)' /\ Needs(p, i, field)' /\ Goal(p, i, s, stray, field)' = Goal(p, i, s, stray, field)
          /\ SetupGain(p, i)' = SetupGain(p, i)
      BY <2>2, SameApart, SameGoals, SameWidgets
    <3>2. ~Pends(<<>>, p[i], field)
      BY DEF Pends
    <3> QED BY <2>1, <3>1, <3>2
  <2> QED BY <2>2
<1>2. /\ 1 \in 1 .. Len(p) /\ Len(p) \in 1 .. Len(p) /\ Last(p) = p[Len(p)] /\ Last(p) \in Widget
      /\ KindOf(p[1]) # "selector" /\ KindOf(Last(p)) = "dac"
  <2>1. 1 \in 1 .. Len(p) /\ Len(p) \in 1 .. Len(p) /\ Last(p) = p[Len(p)] /\ Last(p) \in Widget
        /\ KindOf(Last(p)) = "dac"
    BY PathNodes
  <2>2. KindOf(p[1]) # "selector"
    BY DEF PathOK, OutPin
  <2> QED BY <2>1, <2>2
<1>3. ASSUME NEW i \in 1 .. Len(p), KindOf(p[i]) # "selector"
      PROVE  /\ ~hw'[p[i]].amp.mute /\ hw'[p[i]].amp.gain = SetupGain(p, i)
             /\ i = Len(p) => GainOf(p)' = SetupGain(p, i)
  <2>1. Needs(p, i, "amp") /\ "amp" \in Field
    BY <1>3 DEF Needs, Field
  <2>2. goal(i, stray, "amp") = [mute |-> FALSE, gain |-> SetupGain(p, i)]
    BY DEF Goal
  <2>3. hw'[p[i]]["amp"] = [mute |-> FALSE, gain |-> SetupGain(p, i)]
    BY <1>1, <2>1, <2>2
  <2>4. hw'[p[i]].amp = hw'[p[i]]["amp"]
    OBVIOUS
  <2>5. i = Len(p) => GainOf(p)' = SetupGain(p, i)
    BY <1>1, <2>1
  <2> QED BY <2>3, <2>4, <2>5
<1>4. \E z \in Strays : \A i \in 1 .. Len(p), field \in Field \ {"amp"} :
        Needs(p, i, field)' => hw'[p[i]][field] = Goal(p, i, s, z, field)'
  BY <1>1, SameGoals
<1>5. \A i \in 1 .. Len(p) : KindOf(p[i])' # "selector" => ~hw'[p[i]].amp.mute
  BY <1>3, SameWidgets
<1>6. ~hw'[MuteWidget(p)'].amp.mute
  <2>1. MuteWidget(p)' = MuteWidget(p) /\ MuteWidget(p) \in {p[1], p[Len(p)]}
    BY <1>2, SameWidgets DEF MuteWidget
  <2>2. ~hw'[p[1]].amp.mute /\ ~hw'[p[Len(p)]].amp.mute
    BY <1>2, <1>3
  <2> QED BY <2>1, <2>2
<1>7. hw'[Last(p)].amp.gain = GainOf(p)' /\ GainOf(p)' \in 0 .. StepOf(Last(p))'
  <2>1. hw'[Last(p)].amp.gain = SetupGain(p, Len(p)) /\ GainOf(p)' = SetupGain(p, Len(p))
    BY <1>2, <1>3
  <2>2. SetupGain(p, Len(p)) = StepOf(Last(p)) \div 2
    BY <1>2 DEF SetupGain
  <2>3. StepOf(Last(p)) \div 2 \in 0 .. StepOf(Last(p)) /\ StepOf(Last(p))' = StepOf(Last(p))
    BY <1>2, StepFits, SameWidgets
  <2> QED BY <2>1, <2>2, <2>3, Zenon
<1> QED BY <1>4, <1>5, <1>6, <1>7 DEF PlayOn

AmpChanged(v, p, z, s) ==
    /\ v.nid = p[z] /\ hw'[p[z]].amp = v.value
    /\ \A i \in 1 .. Len(p) : p[i] # p[z] => hw'[p[i]] = hw[p[i]]
    /\ (\E stray \in Strays : \A i \in 1 .. Len(p), field \in Field \ {"amp"} :
          Needs(p, i, field) => hw[p[i]][field] = Goal(p, i, s, stray, field))'

\* A verb to an amplifier leaves the other settings of a path.
LEMMA AmpSent ==
    ASSUME LayoutInv, UNCHANGED <<widgets, outputNids, params, paths>>,
           NEW w, NEW p, NEW v, Sent(w, p, v), Effect(v, p, TRUE), Apart(p),
           NEW z \in 1 .. Len(p), v.nid = widgets[p[z]].nid, v.field = "amp",
           NEW s, NEW c, PlayOn(p, c, s)
    PROVE  AmpChanged(v, p, z, s)
<1>1. PathOK(p) /\ v \in VerbType
  BY DEF Sent
<1>2. v.nid = p[z] /\ \A i \in 1 .. Len(p) : p[i] \in Widget
  BY <1>1, PathNodes
<1>3. hw'[p[z]].amp = v.value
  <2>1. hw'[p[z]]["amp"] = v.value
    BY <1>2 DEF Effect
  <2> QED BY <2>1
<1>4. \A i \in 1 .. Len(p) : p[i] # p[z] => hw'[p[i]] = hw[p[i]]
  BY <1>2 DEF Effect
<1>5. PICK stray \in Strays : \A i \in 1 .. Len(p), field \in Field \ {"amp"} :
        Needs(p, i, field) => hw[p[i]][field] = Goal(p, i, s, stray, field)
  BY DEF PlayOn
<1>6. ASSUME NEW i \in 1 .. Len(p), NEW field \in Field \ {"amp"}, Needs(p, i, field)'
      PROVE  hw'[p[i]][field] = Goal(p, i, s, stray, field)'
  <2>1. Needs(p, i, field) /\ Goal(p, i, s, stray, field)' = Goal(p, i, s, stray, field)
    BY <1>6, SameGoals
  <2>2. hw'[p[i]][field] = hw[p[i]][field]
    BY <1>2 DEF Effect
  <2> QED BY <1>5, <2>1, <2>2
<1> QED BY <1>2, <1>3, <1>4, <1>6 DEF AmpChanged

\* A volume unmutes the converter, with a gain of its amplifier that is remembered.
LEMMA VolumeTaken ==
    ASSUME LayoutInv, UNCHANGED <<widgets, outputNids, params, paths>>,
           NEW w, NEW p, NEW v, Sent(w, p, v), Effect(v, p, TRUE), Apart(p),
           v.nid = widgets[Last(p)].nid, v.field = "amp", ~v.value.mute,
           v.value.gain \in 0 .. StepOf(Last(p)), v.stores,
           NEW s, NEW c, PlayOn(p, c, s), NEW d, d.muted = c.muted, d.volume
    PROVE  PlayOn(p, d, s)'
<1> DEFINE n == Len(p)
           m == MuteWidget(p)
<1>1. /\ PathOK(p) /\ n \in 1 .. n /\ 1 \in 1 .. n /\ Last(p) = p[n]
      /\ \A i \in 1 .. n : widgets[p[i]].nid = p[i]
      /\ \A i, j \in 1 .. n : p[i] = p[j] => i = j
  <2>1. PathOK(p)
    BY DEF Sent
  <2> QED BY <2>1, PathNodes
<1>2. /\ v.nid = p[n] /\ hw'[p[n]].amp = v.value
      /\ \A i \in 1 .. n : p[i] # p[n] => hw'[p[i]] = hw[p[i]]
      /\ (\E stray \in Strays : \A i \in 1 .. Len(p), field \in Field \ {"amp"} :
            Needs(p, i, field) => hw[p[i]][field] = Goal(p, i, s, stray, field))'
  <2>1. AmpChanged(v, p, n, s)
    BY <1>1, AmpSent
  <2> QED BY <2>1 DEF AmpChanged
<1>3. m' = m /\ StepOf(Last(p))' = StepOf(Last(p)) /\ \A i : KindOf(p[i])' = KindOf(p[i])
  BY SameWidgets
<1>4. m = (IF p[1] \in CanMute THEN p[1] ELSE p[n])
  BY <1>1 DEF MuteWidget
<1>5. /\ \A i \in 1 .. n : KindOf(p[i]) # "selector" /\ p[i] # m => ~hw[p[i]].amp.mute
      /\ hw[m].amp.mute <=> c.muted /\ (c.volume => p[1] \in CanMute)
  BY DEF PlayOn
<1> HIDE DEF n, m
<1>6. (\A i \in 1 .. Len(p) : KindOf(p[i]) # "selector" /\ p[i] # MuteWidget(p) => ~hw[p[i]].amp.mute)'
  <2>1. ASSUME NEW i \in 1 .. n, KindOf(p[i]) # "selector", p[i] # m PROVE ~hw'[p[i]].amp.mute
    BY <1>1, <1>2, <1>5, <2>1
  <2> QED BY <1>3, <2>1 DEF n, m
<1>7. hw'[Last(p)].amp.gain = GainOf(p)' /\ GainOf(p)' \in 0 .. StepOf(Last(p))'
  <2>1. GainOf(p)' = v.value.gain
    BY DEF Effect
  <2> QED BY <1>1, <1>2, <1>3, <2>1
<1>8. hw'[m].amp.mute <=> d.muted /\ (d.volume => p[1] \in CanMute)
  <2>1. CASE m = p[n]
    <3>1. p[1] \in CanMute => p[1] = p[n]
      BY <1>4, <2>1
    <3>2. 1 # n
      BY <1>1 DEF PathOK, n
    <3>3. p[1] \notin CanMute
      BY <1>1, <3>1, <3>2
    <3> QED BY <1>2, <2>1, <3>3
  <2>2. CASE m # p[n]
    <3>1. m = p[1] /\ p[1] \in CanMute
      BY <1>4, <2>2
    <3>2. hw'[m] = hw[m]
      BY <1>1, <1>2, <2>2, <3>1
    <3> QED BY <1>5, <3>1, <3>2
  <2> QED BY <2>1, <2>2
<1> QED BY <1>2, <1>3, <1>6, <1>7, <1>8 DEF PlayOn, m

\* A mute keeps the gain and sets the amplifier that it was meant for.
LEMMA MuteTaken ==
    ASSUME LayoutInv, UNCHANGED <<widgets, outputNids, params, paths>>,
           NEW w, NEW p, NEW v, Sent(w, p, v), Effect(v, p, TRUE), Apart(p),
           NEW mute \in BOOLEAN, v.nid = widgets[MuteWidget(p)].nid, v.field = "amp",
           v.value = [mute |-> mute, gain |-> GainOf(p)], ~v.stores,
           NEW s, NEW c, PlayOn(p, c, s), NEW d, d.muted = mute, mute => ~d.volume
    PROVE  PlayOn(p, d, s)'
<1> DEFINE n == Len(p)
           m == MuteWidget(p)
<1>1. /\ PathOK(p) /\ n \in 1 .. n /\ 1 \in 1 .. n /\ Last(p) = p[n]
  <2>1. PathOK(p)
    BY DEF Sent
  <2> QED BY <2>1, PathNodes
<1>2. PICK z \in 1 .. n : m = p[z]
  BY <1>1 DEF MuteWidget
<1>3. /\ v.nid = p[z] /\ hw'[p[z]].amp = v.value
      /\ \A i \in 1 .. n : p[i] # p[z] => hw'[p[i]] = hw[p[i]]
      /\ (\E stray \in Strays : \A i \in 1 .. Len(p), field \in Field \ {"amp"} :
            Needs(p, i, field) => hw[p[i]][field] = Goal(p, i, s, stray, field))'
  <2>1. v.nid = widgets[p[z]].nid
    BY <1>2
  <2>2. AmpChanged(v, p, z, s)
    BY <2>1, AmpSent
  <2> QED BY <2>2 DEF AmpChanged
<1>4. m' = m /\ StepOf(Last(p))' = StepOf(Last(p)) /\ \A i : KindOf(p[i])' = KindOf(p[i])
  BY SameWidgets
<1>5. /\ \A i \in 1 .. n : KindOf(p[i]) # "selector" /\ p[i] # m => ~hw[p[i]].amp.mute
      /\ hw[Last(p)].amp.gain = GainOf(p) /\ GainOf(p) \in 0 .. StepOf(Last(p))
  BY DEF PlayOn
<1>6. GainOf(p)' = GainOf(p)
  BY DEF Effect
<1> HIDE DEF n, m
<1>7. (\A i \in 1 .. Len(p) : KindOf(p[i]) # "selector" /\ p[i] # MuteWidget(p) => ~hw[p[i]].amp.mute)'
  <2>1. ASSUME NEW i \in 1 .. n, KindOf(p[i]) # "selector", p[i] # m PROVE ~hw'[p[i]].amp.mute
    BY <1>2, <1>3, <1>5, <2>1
  <2> QED BY <1>4, <2>1 DEF n, m
<1>8. hw'[Last(p)].amp.gain = GainOf(p)' /\ GainOf(p)' \in 0 .. StepOf(Last(p))'
  <2>1. CASE Last(p) = m
    <3>1. hw'[Last(p)].amp.gain = GainOf(p)
      BY <1>2, <1>3, <2>1
    <3> QED BY <1>4, <1>5, <1>6, <3>1
  <2>2. CASE Last(p) # m
    <3>1. hw'[Last(p)] = hw[Last(p)]
      BY <1>1, <1>2, <1>3, <2>2
    <3> QED BY <1>4, <1>5, <1>6, <3>1
  <2> QED BY <2>1, <2>2
<1>9. hw'[m].amp.mute <=> mute
  BY <1>2, <1>3
<1> QED BY <1>3, <1>4, <1>7, <1>8, <1>9 DEF PlayOn, m

\* How the call b for a path goes on as c, its first verb being taken or not: a
\* shutdown ends with its last verb, and only if all were taken, or has failed.
Continues(b, c, taken) ==
    /\ c \in [state : CallState, todo : Seq(VerbType), muted : BOOLEAN, volume : BOOLEAN]
    /\ c.todo # <<>> <=> c.state \in InProgress
    /\ c.todo \in {<<>>, Tail(b.todo)}
    /\ b.state # "down" => c.state \notin {"off", "down"}
    /\ b.state = "down" => \/ c.state = "broken"
                           \/ taken /\ c.todo = Tail(b.todo) /\ c.state \in {"off", "down"}

\* The verb that the call for w sends keeps the invariant if what is then known of
\* its path is so.
LEMMA VerbStep ==
    ASSUME Inv, UNCHANGED <<pathVars, client>>, timeouts' \in Nat, NEW w \in OutPin, NEW p, NEW v,
           Sent(w, p, v), NEW taken \in BOOLEAN, Effect(v, p, taken),
           NEW b, b = calls[w], NEW c, calls' = [calls EXCEPT ![w] = c], Continues(b, c, taken),
           PathInv(w)'
    PROVE  Inv'
<1> DEFINE Record == [state : CallState, todo : Seq(VerbType), muted : BOOLEAN, volume : BOOLEAN]
<1>1. UNCHANGED <<widgets, outputNids, params, paths, active, pc, volumes>>
  BY DEF pathVars, codecVars, search, client
<1>2. SearchInv /\ ClientInv /\ LayoutInv /\ ControlInv /\ calls \in [OutPin -> Record]
      /\ CallTyped(w) /\ PathInv(w)
  BY DEF Inv, ControlInv
<1>3. calls' \in [OutPin -> Record] /\ calls'[w] = c /\ \A x \in OutPin : x # w => calls'[x] = calls[x]
  BY <1>2 DEF Continues
<1>4. Widget' = Widget /\ OutPin' = OutPin /\ VerbType' = VerbType /\ Setting' = Setting /\ LayoutInv'
      /\ \A n, field : Quiets(n, field)' = Quiets(n, field)
  BY <1>1, <1>2, SameWidgets
<1>5. Used' = Used /\ \A x : PathOf(x)' = PathOf(x)
  BY <1>1, SameUse
<1>6. /\ w \in Used /\ p = PathOf(w) /\ PathOK(p) /\ v.nid \in Widget /\ v.field \in Field
      /\ b.todo \in Seq(VerbType) /\ b.todo # <<>> /\ v = b.todo[1] /\ 1 \in 1 .. Len(b.todo)
      /\ b.state \in InProgress /\ pc = "ready"
  BY <1>2 DEF Sent, VerbType, CallTyped, InProgress
<1>7. /\ \A k \in 1 .. Len(Tail(b.todo)) : k + 1 \in 1 .. Len(b.todo) /\ Tail(b.todo)[k] = b.todo[k + 1]
      /\ \A k \in 1 .. Len(b.todo) : k # 1 => /\ k - 1 \in 1 .. Len(Tail(b.todo))
                                              /\ Tail(b.todo)[k - 1] = b.todo[k]
  BY <1>6, TailFacts
<1>8. CallTyped(w)'
  <2>1. \A k \in 1 .. Len(b.todo) :
          /\ \E i \in 1 .. Len(p) : b.todo[k].nid = widgets[p[i]].nid
          /\ b.todo[k].stores => b.todo[k].field = "amp"
    BY <1>2, <1>6 DEF CallTyped
  <2>2. ASSUME NEW k \in 1 .. Len(c.todo)
        PROVE  /\ \E i \in 1 .. Len(p) : c.todo[k].nid = widgets[p[i]].nid
               /\ c.todo[k].stores => c.todo[k].field = "amp"
    <3>1. c.todo = <<>> => 1 .. Len(c.todo) = {}
      OBVIOUS
    <3>2. c.todo = Tail(b.todo)
      BY <3>1 DEF Continues
    <3> QED BY <1>7, <2>1, <3>2
  <2>3. calls'[w] = c /\ w \in Used' /\ pc' = "ready" /\ PathOf(w)' = p /\ widgets' = widgets
    BY <1>1, <1>3, <1>5, <1>6
  <2>4. c \in [state : CallState, todo : Seq(VerbType'), muted : BOOLEAN, volume : BOOLEAN]
        /\ (c.todo # <<>> <=> c.state \in InProgress)
    BY <1>4 DEF Continues
  <2> QED BY <2>2, <2>3, <2>4 DEF CallTyped
<1>9. ASSUME NEW x \in OutPin PROVE (CallTyped(x) /\ PathInv(x))'
  <2>1. CASE x = w
    BY <1>8, <2>1
  <2>2. CASE x # w
    <3>1. \A n \in Widget : hw'[n] = hw[n] \/ \E k \in 1 .. Len(PathOf(w)) : n = widgets[PathOf(w)[k]].nid
      BY <1>6 DEF Effect, Sent
    <3>2. \A q : q # PathOf(w) => GainOf(q)' = GainOf(q)
      BY <1>6 DEF Effect
    <3> QED BY <1>6, <2>2, <3>1, <3>2, OthersKept
  <2> QED BY <2>1, <2>2
<1>10. ASSUME NEW n \in Widget, NEW field \in Field, Quiets(n, field), widgets[n] # Hole
       PROVE  QuietOn(n, field)'
  <2>1. QuietOn(n, field)
    BY <1>2, <1>10 DEF ControlInv
  <2>2. ASSUME n \in ToSet(p), c.state # "off", c.state = "down" => Pends(c.todo, n, field)
        PROVE  QuietOn(n, field)'
    BY <1>3, <1>4, <1>5, <1>6, <2>2 DEF QuietOn
  <2>3. CASE v.nid = n /\ v.field = field
    <3>1. n \in ToSet(p)
      <4>1. PICK k \in 1 .. Len(p) : n = widgets[p[k]].nid
        BY <2>3 DEF Sent
      <4>2. p[k] \in Widget /\ DOMAIN p = 1 .. Len(p)
        BY <1>2, <1>6, PathNodes
      <4>3. n # 0 /\ Hole.nid = 0
        BY <1>2, <1>10, NodeFacts DEF Hole
      <4>4. p[k] = n
        BY <1>2, <4>1, <4>2, <4>3, NodeFacts
      <4> QED BY <4>2, <4>4 DEF ToSet
    <3>2. CASE c.state \in {"off", "down"}
      <4>1. b.state = "down" /\ taken
        BY <3>2 DEF Continues
      <4>2. v.value = Quiet(field)
        BY <1>2, <1>6, <2>3, <4>1 DEF PathInv
      <4>3. hw'[n][field] = Quiet(field)
        BY <2>3, <4>1, <4>2 DEF Effect
      <4> QED BY <4>3 DEF QuietOn
    <3>3. CASE c.state \notin {"off", "down"}
      BY <2>2, <3>1, <3>3
    <3> QED BY <3>2, <3>3
  <2>4. CASE ~(v.nid = n /\ v.field = field)
    <3>1. hw'[n][field] = hw[n][field]
      BY <2>4 DEF Effect
    <3>2. CASE hw[n][field] = Quiet(field)
      BY <3>1, <3>2 DEF QuietOn
    <3>3. CASE hw[n][field] # Quiet(field)
      <4>1. PICK x \in OutPin : /\ calls[x].state # "off" /\ n \in ToSet(PathOf(x))
                                /\ calls[x].state = "down" => Pends(calls[x].todo, n, field)
        BY <2>1, <3>3 DEF QuietOn
      <4>2. CASE x # w
        BY <1>3, <1>4, <1>5, <4>1, <4>2 DEF QuietOn
      <4>3. CASE x = w
        <5>1. CASE c.state \notin {"off", "down"}
          BY <1>6, <2>2, <4>1, <4>3, <5>1
        <5>2. CASE c.state \in {"off", "down"}
          <6>1. b.state = "down" /\ c.todo = Tail(b.todo)
            BY <5>2 DEF Continues
          <6>2. PICK k \in 1 .. Len(b.todo) : b.todo[k].nid = n /\ b.todo[k].field = field
            BY <4>1, <4>3, <6>1 DEF Pends
          <6>3. k # 1
            BY <1>6, <2>4, <6>2
          <6>a. SUFFICES ASSUME NEW rest, rest = Tail(b.todo) PROVE QuietOn(n, field)'
            OBVIOUS
          <6>b. k - 1 \in 1 .. Len(rest) /\ rest[k - 1] = b.todo[k]
            BY <1>7, <6>2, <6>3, <6>a
          <6>4. Pends(c.todo, n, field) /\ c.todo # <<>>
            <7>1. Pends(rest, n, field)
              BY <6>2, <6>b DEF Pends
            <7>2. rest # <<>>
              BY <6>b
            <7> QED BY <6>1, <6>a, <7>1, <7>2
          <6>5. c.state # "off"
            BY <6>4 DEF Continues, InProgress
          <6> QED BY <1>6, <2>2, <4>1, <4>3, <6>4, <6>5
        <5> QED BY <5>1, <5>2
      <4> QED BY <4>2, <4>3
    <3> QED BY <3>2, <3>3
  <2> QED BY <2>3, <2>4
<1>11. SearchInv' /\ ClientInv'
  BY <1>2, SamePaths
<1>12. ControlInv'
  <2>1. hw' \in [Widget -> Setting] /\ (\A q \in DOMAIN gains' : gains'[q] \in 0 .. 127)
        /\ timeouts' \in Nat /\ volumes' \subseteq Int
        /\ pc' \in {"search", "ready"} /\ (pc' = "search" => active' = {})
    BY <1>1, <1>2 DEF ControlInv, Effect
  <2> QED BY <1>1, <1>3, <1>4, <1>9, <1>10, <2>1 DEF ControlInv
<1> QED BY <1>11, <1>12 DEF Inv

\* What is the same of a call that sends a verb.
LEMMA SentFrom ==
    ASSUME Inv, UNCHANGED <<pathVars, client>>, NEW w \in OutPin, NEW p, NEW v, Sent(w, p, v)
    PROVE  /\ UNCHANGED <<widgets, outputNids, params, paths>>
           /\ LayoutInv /\ PathInv(w) /\ p = PathOf(w) /\ PathOf(w)' = p /\ StreamOf(w)' = StreamOf(w)
           /\ \A q : Apart(q)' = Apart(q)
           /\ \A c : calls' = [calls EXCEPT ![w] = c] => calls'[w] = c
           /\ calls[w] \in [state : CallState, todo : Seq(VerbType), muted : BOOLEAN, volume : BOOLEAN]
           /\ calls[w].todo \in Seq(VerbType) /\ calls[w].todo # <<>> /\ v = calls[w].todo[1]
           /\ calls[w].state \in InProgress
<1>1. UNCHANGED <<widgets, outputNids, params, paths, active>>
  BY DEF pathVars, codecVars, search, client
<1>2. PathOf(w)' = PathOf(w) /\ StreamOf(w)' = StreamOf(w) /\ \A q : Apart(q)' = Apart(q)
  BY <1>1, SameUse, SameApart
<1>3. LayoutInv /\ PathInv(w)
      /\ calls \in [OutPin -> [state : CallState, todo : Seq(VerbType), muted : BOOLEAN, volume : BOOLEAN]]
  BY DEF Inv, ControlInv
<1>4. /\ calls[w].todo \in Seq(VerbType) /\ calls[w].todo # <<>> /\ v = calls[w].todo[1]
      /\ calls[w].state \in InProgress /\ p = PathOf(w)
  BY DEF Sent
<1> QED BY <1>1, <1>2, <1>3, <1>4

\* A verb that times out ends its call.
LEMMA TimedOutStep == ASSUME Inv, NEW w \in OutPin, TimedOut(w) PROVE Inv'
<1>1. SUFFICES ASSUME NEW p, p = PathOf(w), NEW v, v = NextVerb(w), NEW b, b = calls[w],
                      NEW taken, taken = (hw' # hw)
               PROVE  Inv'
  OBVIOUS
<1>2. /\ b.todo # <<>> /\ UNCHANGED <<pathVars, client>> /\ hw' \in {hw, Set(v)} /\ StoredGain(w)
      /\ calls' = [calls EXCEPT ![w].state = "broken", ![w].todo = <<>>]
      /\ timeouts > 0 /\ timeouts' = timeouts - 1 /\ timeouts \in Nat
  BY <1>1 DEF TimedOut, Inv, ControlInv
<1>3. timeouts' \in Nat
  BY <1>2
<1>4. Sent(w, p, v)
  BY <1>1, <1>2, VerbSent
<1>5. taken \in BOOLEAN /\ hw' = IF taken THEN Set(v) ELSE hw
  BY <1>1, <1>2
<1>6. Effect(v, p, taken)
  BY <1>1, <1>2, <1>4, <1>5, VerbEffect
<1>7. SUFFICES ASSUME NEW c, c = [b EXCEPT !.state = "broken", !.todo = <<>>] PROVE Inv'
  OBVIOUS
<1>8. calls' = [calls EXCEPT ![w] = c]
  BY <1>1, <1>2, <1>7
<1>9. b \in [state : CallState, todo : Seq(VerbType), muted : BOOLEAN, volume : BOOLEAN] /\ calls'[w] = c
  BY <1>1, <1>2, <1>4, <1>8, SentFrom
<1>10. /\ c \in [state : CallState, todo : Seq(VerbType), muted : BOOLEAN, volume : BOOLEAN]
       /\ c.state = "broken" /\ c.todo = <<>>
  <2> DEFINE S == CallState
             T == Seq(VerbType)
  <2>1. "broken" \in S /\ <<>> \in T
    BY DEF CallState
  <2>2. b \in [state : S, todo : T, muted : BOOLEAN, volume : BOOLEAN]
    BY <1>9
  <2> HIDE DEF S, T
  <2>3. c \in [state : S, todo : T, muted : BOOLEAN, volume : BOOLEAN]
        /\ c.state = "broken" /\ c.todo = <<>>
    BY <1>7, <2>1, <2>2
  <2> QED BY <2>3 DEF S, T
<1>11. Continues(b, c, taken)
  BY <1>10 DEF Continues, InProgress
<1>12. PathInv(w)'
  BY <1>9, <1>10 DEF PathInv, Playing
<1> QED BY <1>1, <1>2, <1>3, <1>4, <1>5, <1>6, <1>8, <1>11, <1>12, VerbStep

\* What is known of a path once its setup has gone a verb further.
LEMMA SetupGoesOn ==
    ASSUME Inv, UNCHANGED <<pathVars, client>>, NEW w \in OutPin, NEW p, NEW v, Sent(w, p, v),
           Effect(v, p, TRUE), NEW b, b = calls[w], NEW c, calls' = [calls EXCEPT ![w] = c],
           b.state = "setup", NEW rest, rest = Tail(b.todo),
           rest # <<>> => c.state = "setup" /\ c.todo = rest,
           rest = <<>> => c.state = "up" /\ c.todo = <<>> /\ ~c.muted /\ ~c.volume
    PROVE  PathInv(w)'
<1>1. SUFFICES ASSUME NEW s, s = StreamOf(w) PROVE PathInv(w)'
  OBVIOUS
<1>2. /\ UNCHANGED <<widgets, outputNids, params, paths>>
      /\ LayoutInv /\ PathInv(w) /\ PathOf(w) = p /\ PathOf(w)' = p /\ StreamOf(w)' = s
      /\ Apart(p)' = Apart(p) /\ calls'[w] = c /\ PathOK(p)
  BY <1>1, SentFrom, ZenonT(40) DEF Sent
<1>3. CheckStreamParams(params) /\ s \in Outputs /\ SetupOn(p, b.todo, s)
  BY <1>1, <1>2 DEF PathInv
<1>4. SetupOn(p, rest, s)'
  <2>1. SUFFICES ASSUME NEW todo, todo = calls[w].todo PROVE SetupOn(p, rest, s)'
    OBVIOUS
  <2>2. SetupOn(p, todo, s) /\ rest = Tail(todo)
    BY <1>3, <2>1
  <2> QED BY <1>2, <2>1, <2>2, SetupTaken
<1>5. CheckStreamParams(params)'
  BY <1>2, <1>3
<1>6. CASE rest # <<>>
  BY <1>2, <1>3, <1>4, <1>5, <1>6 DEF PathInv, Playing
<1>7. CASE rest = <<>>
  <2>1. Apart(p) => PlayOn(p, c, s)'
    <3>1. SetupOn(p, <<>>, s)'
      BY <1>4, <1>7
    <3> QED BY <1>2, <1>7, <3>1, SetupDone
  <2>2. OneVerb(p, c)'
    BY <1>7 DEF OneVerb
  <2> QED BY <1>2, <1>3, <1>5, <1>7, <2>1, <2>2 DEF PathInv, Playing
<1> QED BY <1>6, <1>7

\* What is known of a path once the verb of a volume has been taken.
LEMMA VolumeGoesOn ==
    ASSUME Inv, UNCHANGED <<pathVars, client>>, NEW w \in OutPin, NEW p, NEW v, Sent(w, p, v),
           Effect(v, p, TRUE), NEW b, b = calls[w], NEW c, calls' = [calls EXCEPT ![w] = c],
           b.state = "volume", c.state = "up", c.muted = b.muted, c.volume
    PROVE  PathInv(w)'
<1>1. SUFFICES ASSUME NEW s, s = StreamOf(w) PROVE PathInv(w)'
  OBVIOUS
<1>2. /\ UNCHANGED <<widgets, outputNids, params, paths>> /\ v = b.todo[1]
      /\ LayoutInv /\ PathInv(w) /\ PathOf(w) = p /\ PathOf(w)' = p /\ StreamOf(w)' = s
      /\ Apart(p)' = Apart(p) /\ calls'[w] = c
  BY <1>1, SentFrom, ZenonT(40)
<1>3. /\ CheckStreamParams(params) /\ s \in Outputs
      /\ OneVerb(p, b) /\ (Apart(p) => PlayOn(p, b, s))
  BY <1>1, <1>2 DEF PathInv, Playing
<1>4. Apart(p) => PlayOn(p, c, s)'
  <2>1. /\ v.nid = widgets[Last(p)].nid /\ v.field = "amp" /\ ~v.value.mute
        /\ v.value.gain \in 0 .. StepOf(Last(p)) /\ v.stores
    BY <1>2, <1>3 DEF OneVerb
  <2> QED BY <1>2, <1>3, <2>1, VolumeTaken
<1>5. CheckStreamParams(params)' /\ OneVerb(p, c)'
  BY <1>2, <1>3 DEF OneVerb
<1> QED BY <1>2, <1>3, <1>4, <1>5 DEF PathInv, Playing

\* What is known of a path once the verb of a mute or unmute has been taken.
LEMMA MuteGoesOn ==
    ASSUME Inv, UNCHANGED <<pathVars, client>>, NEW w \in OutPin, NEW p, NEW v, Sent(w, p, v),
           Effect(v, p, TRUE), NEW b, b = calls[w], NEW c, calls' = [calls EXCEPT ![w] = c],
           b.state \in {"mute", "unmute"}, c.state = "up", c.muted = (b.state = "mute"),
           b.state = "mute" => ~c.volume
    PROVE  PathInv(w)'
<1>1. SUFFICES ASSUME NEW s, s = StreamOf(w) PROVE PathInv(w)'
  OBVIOUS
<1>2. /\ UNCHANGED <<widgets, outputNids, params, paths>> /\ v = b.todo[1]
      /\ LayoutInv /\ PathInv(w) /\ PathOf(w) = p /\ PathOf(w)' = p /\ StreamOf(w)' = s
      /\ Apart(p)' = Apart(p) /\ calls'[w] = c
  BY <1>1, SentFrom, ZenonT(40)
<1>3. /\ CheckStreamParams(params) /\ s \in Outputs
      /\ OneVerb(p, b) /\ (Apart(p) => PlayOn(p, b, s))
  BY <1>1, <1>2 DEF PathInv, Playing
<1>4. Apart(p) => PlayOn(p, c, s)'
  <2>1. SUFFICES ASSUME NEW mute \in BOOLEAN, mute = (b.state = "mute")
                 PROVE  Apart(p) => PlayOn(p, c, s)'
    OBVIOUS
  <2>2. /\ v.nid = widgets[MuteWidget(p)].nid /\ v.field = "amp" /\ ~v.stores
        /\ v.value = [mute |-> mute, gain |-> GainOf(p)]
        /\ c.muted = mute /\ (mute => ~c.volume)
    BY <1>2, <1>3, <2>1 DEF OneVerb
  <2> QED BY <1>2, <1>3, <2>2, MuteTaken
<1>5. CheckStreamParams(params)' /\ OneVerb(p, c)'
  BY <1>2, <1>3 DEF OneVerb
<1> QED BY <1>2, <1>3, <1>4, <1>5 DEF PathInv, Playing

\* What is known of a path once a verb of its shutdown has been taken.
LEMMA ShutdownGoesOn ==
    ASSUME Inv, UNCHANGED <<pathVars, client>>, NEW w \in OutPin, NEW p, NEW v, Sent(w, p, v),
           NEW b, b = calls[w], NEW c, calls' = [calls EXCEPT ![w] = c], b.state = "down",
           c.state = "off" \/ (c.state = "down" /\ c.todo = Tail(b.todo))
    PROVE  PathInv(w)'
<1>1. PathInv(w) /\ calls'[w] = c /\ b.todo \in Seq(VerbType) /\ b.todo # <<>>
  BY SentFrom
<1>2. \A k \in 1 .. Len(Tail(b.todo)) : k + 1 \in 1 .. Len(b.todo) /\ Tail(b.todo)[k] = b.todo[k + 1]
  BY <1>1, TailFacts
<1>3. \A k \in 1 .. Len(b.todo) :
         /\ ~b.todo[k].stores
         /\ b.todo[k].field \in {"amp", "out", "tag"} /\ b.todo[k].value = Quiet(b.todo[k].field)
  BY <1>1 DEF PathInv
<1>4. CASE c.state = "off"
  BY <1>1, <1>4 DEF PathInv, Playing
<1>5. CASE c.state = "down" /\ c.todo = Tail(b.todo)
  <2>1. \A k \in 1 .. Len(c.todo) :
         /\ ~c.todo[k].stores
         /\ c.todo[k].field \in {"amp", "out", "tag"} /\ c.todo[k].value = Quiet(c.todo[k].field)
    BY <1>2, <1>3, <1>5
  <2> QED BY <1>1, <1>5, <2>1 DEF PathInv, Playing
<1> QED BY <1>4, <1>5

\* A verb that is answered, the last of its call or not.
LEMMA AnsweredStep == ASSUME Inv, NEW w \in OutPin, Answered(w) PROVE Inv'
<1>1. SUFFICES ASSUME NEW p, p = PathOf(w), NEW v, v = NextVerb(w), NEW b, b = calls[w],
                      NEW rest, rest = Tail(b.todo), NEW d, d = [b EXCEPT !.todo = rest],
                      NEW c, c = IF rest = <<>> THEN Returned(d) ELSE d
               PROVE  Inv'
  OBVIOUS
<1>2. /\ b.todo # <<>> /\ UNCHANGED <<pathVars, client, timeouts>> /\ hw' = Set(v) /\ StoredGain(w)
      /\ timeouts' \in Nat
  BY <1>1 DEF Answered, Inv, ControlInv
<1>3. Sent(w, p, v)
  BY <1>1, <1>2, VerbSent
<1> DEFINE Record == [state : CallState, todo : Seq(VerbType), muted : BOOLEAN, volume : BOOLEAN]
<1>4. b \in Record /\ b.todo \in Seq(VerbType) /\ b.state \in InProgress
  BY <1>1, <1>2, <1>3, SentFrom
<1>5. /\ d \in Record /\ d.state = b.state /\ d.todo = rest /\ d.muted = b.muted /\ d.volume = b.volume
  <2> DEFINE S == CallState
             T == Seq(VerbType)
  <2>1. rest \in T
    BY <1>1, <1>2, <1>4
  <2>2. b \in [state : S, todo : T, muted : BOOLEAN, volume : BOOLEAN]
    BY <1>4
  <2> HIDE DEF S, T
  <2>3. d \in [state : S, todo : T, muted : BOOLEAN, volume : BOOLEAN]
        /\ d.state = b.state /\ d.todo = rest /\ d.muted = b.muted /\ d.volume = b.volume
    BY <1>1, <2>1, <2>2
  <2> QED BY <2>3 DEF S, T
<1>6. calls' = [calls EXCEPT ![w] = c]
  BY <1>1, <1>2, <1>5 DEF Answered
<1>7. Effect(v, p, TRUE)
  BY <1>1, <1>2, <1>3, VerbEffect
<1>8. /\ b.state = "setup" /\ rest = <<>> => c = [d EXCEPT !.state = "up", !.muted = FALSE, !.volume = FALSE]
      /\ b.state = "volume" /\ rest = <<>> => c = [d EXCEPT !.state = "up", !.volume = TRUE]
      /\ b.state = "mute" /\ rest = <<>> => c = [d EXCEPT !.state = "up", !.muted = TRUE, !.volume = FALSE]
      /\ b.state = "unmute" /\ rest = <<>> => c = [d EXCEPT !.state = "up", !.muted = FALSE]
      /\ b.state = "down" /\ rest = <<>> => c = Off
      /\ rest # <<>> => c = d
  BY <1>1, <1>5 DEF Returned
<1>9. /\ c \in Record /\ c.todo = rest
      /\ b.state = "setup" /\ rest = <<>> => c.state = "up" /\ ~c.muted /\ ~c.volume
      /\ b.state = "volume" /\ rest = <<>> => c.state = "up" /\ c.muted = b.muted /\ c.volume
      /\ b.state = "mute" /\ rest = <<>> => c.state = "up" /\ c.muted /\ ~c.volume
      /\ b.state = "unmute" /\ rest = <<>> => c.state = "up" /\ ~c.muted
      /\ b.state = "down" /\ rest = <<>> => c.state = "off"
      /\ rest # <<>> => c.state = b.state
  <2> DEFINE S == CallState
             T == Seq(VerbType)
  <2>1. "up" \in S /\ "off" \in S /\ <<>> \in T
    BY DEF CallState, Playing
  <2>2. d \in [state : S, todo : T, muted : BOOLEAN, volume : BOOLEAN]
    BY <1>5
  <2> HIDE DEF S, T
  <2> DEFINE D == [state : S, todo : T, muted : BOOLEAN, volume : BOOLEAN]
  <2>3. CASE rest # <<>>
    BY <1>5, <1>8, <2>3 DEF S, T
  <2>4. CASE rest = <<>> /\ b.state = "setup"
    <3>1. c = [d EXCEPT !.state = "up", !.muted = FALSE, !.volume = FALSE]
      BY <1>8, <2>4
    <3>2. c \in D /\ c.todo = d.todo /\ c.state = "up" /\ c.muted = FALSE /\ c.volume = FALSE
      BY <2>1, <2>2, <3>1
    <3> QED BY <1>5, <2>4, <3>2 DEF S, T
  <2>5. CASE rest = <<>> /\ b.state = "volume"
    <3>1. c = [d EXCEPT !.state = "up", !.volume = TRUE]
      BY <1>8, <2>5
    <3>2. c \in D /\ c.todo = d.todo /\ c.state = "up" /\ c.muted = d.muted /\ c.volume = TRUE
      BY <2>1, <2>2, <3>1
    <3> QED BY <1>5, <2>5, <3>2 DEF S, T
  <2>6. CASE rest = <<>> /\ b.state = "mute"
    <3>1. c = [d EXCEPT !.state = "up", !.muted = TRUE, !.volume = FALSE]
      BY <1>8, <2>6
    <3>2. c \in D /\ c.todo = d.todo /\ c.state = "up" /\ c.muted = TRUE /\ c.volume = FALSE
      BY <2>1, <2>2, <3>1
    <3> QED BY <1>5, <2>6, <3>2 DEF S, T
  <2>7. CASE rest = <<>> /\ b.state = "unmute"
    <3>1. c = [d EXCEPT !.state = "up", !.muted = FALSE]
      BY <1>8, <2>7
    <3>2. c \in D /\ c.todo = d.todo /\ c.state = "up" /\ c.muted = FALSE
      BY <2>1, <2>2, <3>1
    <3> QED BY <1>5, <2>7, <3>2 DEF S, T
  <2>8. CASE rest = <<>> /\ b.state = "down"
    <3>1. c = Off
      BY <1>8, <2>8
    <3>2. c \in D /\ c.todo = <<>> /\ c.state = "off"
      BY <2>1, <3>1 DEF Off
    <3> QED BY <2>8, <3>2 DEF S, T
  <2> QED BY <1>4, <2>3, <2>4, <2>5, <2>6, <2>7, <2>8 DEF InProgress
<1>10. (b.state # "setup" /\ b.state # "down") => rest = <<>>
  <2> SUFFICES ASSUME b.state # "setup" /\ b.state # "down" PROVE rest = <<>>
    OBVIOUS
  <2>1. PathInv(w) /\ b.state \in Playing /\ b.state # "up"
    BY <1>4 DEF Inv, ControlInv, InProgress, Playing
  <2>2. OneVerb(p, b) /\ b.state \in {"volume", "mute", "unmute"}
    BY <1>1, <2>1 DEF PathInv, Playing
  <2>3. Len(b.todo) = 1
    BY <2>2 DEF OneVerb
  <2> QED BY <1>1, <1>4, <2>3
<1>11. Continues(b, c, TRUE)
  BY <1>1, <1>4, <1>9, <1>10 DEF Continues, InProgress
<1>12. PathInv(w)'
  <2>1. CASE b.state = "setup"
    <3>1. rest # <<>> => c.state = "setup" /\ c.todo = rest
      BY <1>9, <2>1
    <3>2. rest = <<>> => c.state = "up" /\ c.todo = <<>> /\ ~c.muted /\ ~c.volume
      BY <1>9, <2>1
    <3> QED BY <1>1, <1>2, <1>3, <1>6, <1>7, <2>1, <3>1, <3>2, SetupGoesOn
  <2>2. CASE b.state = "volume"
    BY <1>1, <1>2, <1>3, <1>6, <1>7, <1>9, <1>10, <2>2, VolumeGoesOn
  <2>3. CASE b.state \in {"mute", "unmute"}
    <3>1. c.state = "up" /\ c.muted = (b.state = "mute") /\ (b.state = "mute" => ~c.volume)
      BY <1>5, <1>9, <1>10, <2>3
    <3> QED BY <1>1, <1>2, <1>3, <1>6, <1>7, <2>3, <3>1, MuteGoesOn
  <2>4. CASE b.state = "down"
    <3>1. c.state = "off" \/ (c.state = "down" /\ c.todo = Tail(b.todo))
      BY <1>1, <1>9, <2>4
    <3> QED BY <1>1, <1>2, <1>3, <1>6, <2>4, <3>1, ShutdownGoesOn
  <2> QED BY <1>4, <2>1, <2>2, <2>3, <2>4 DEF InProgress
<1> QED BY <1>1, <1>2, <1>3, <1>6, <1>7, <1>11, <1>12, VerbStep

-----------------------------------------------------------------------------
(* The search and the choice of paths *)

\* What the step leaves to a call that is not off: its path.
Stays(w) == /\ w \in Used' /\ pc' = "ready" /\ UNCHANGED paths
            /\ PathOf(w)' = PathOf(w) /\ StreamOf(w)' = StreamOf(w)

LEMMA ChoiceStep ==
    ASSUME Inv, SearchInv', ClientInv', UNCHANGED <<codecVars, control>>,
           pc' \in {"search", "ready"}, pc' = "search" => active' = {},
           \A w \in OutPin : calls[w].state # "off" => Stays(w)
    PROVE  Inv'
<1>1. UNCHANGED <<widgets, outputNids, params, volumes, hw, gains, calls, timeouts>>
  BY DEF codecVars, control, client
<1>2. SearchInv /\ ClientInv /\ LayoutInv /\ ControlInv
  BY DEF Inv, ControlInv
<1>3. Widget' = Widget /\ OutPin' = OutPin /\ VerbType' = VerbType /\ Setting' = Setting /\ LayoutInv'
      /\ \A n, field : Quiets(n, field)' = Quiets(n, field)
  BY <1>1, <1>2, SameWidgets
<1>4. ASSUME NEW w \in OutPin PROVE CallTyped(w)' /\ PathInv(w)'
  <2>1. CallTyped(w) /\ PathInv(w) /\ calls'[w] = calls[w]
    BY <1>1, <1>2 DEF ControlInv
  <2>2. CASE calls[w].state = "off"
    <3>1. calls[w].todo = <<>>
      BY <2>1, <2>2 DEF CallTyped, InProgress
    <3>2. CallTyped(w)'
      BY <1>3, <2>1, <2>2, <3>1 DEF CallTyped
    <3> QED BY <2>1, <2>2, <3>2 DEF PathInv, Playing
  <2>3. CASE calls[w].state # "off"
    <3>1. /\ w \in Used' /\ pc' = "ready" /\ paths' = paths
          /\ PathOf(w)' = PathOf(w) /\ StreamOf(w)' = StreamOf(w)
      BY <2>3 DEF Stays
    <3>2. CallTyped(w)'
      BY <1>1, <1>3, <2>1, <3>1 DEF CallTyped
    <3>3. PathOK(PathOf(w))
      BY <1>2, <2>1, <2>3, UsedPath DEF CallTyped
    <3>4. GainOf(PathOf(w))' = GainOf(PathOf(w))
      BY <1>1, <3>1 DEF GainOf
    <3> QED BY <1>1, <1>2, <2>1, <3>1, <3>2, <3>3, <3>4, CallKept
  <2> QED BY <2>2, <2>3
<1>5. ASSUME NEW n \in Widget, NEW field \in Field, Quiets(n, field), widgets[n] # Hole
      PROVE  QuietOn(n, field)'
  <2>1. QuietOn(n, field)
    BY <1>2, <1>5 DEF ControlInv
  <2>2. CASE hw[n][field] = Quiet(field)
    BY <1>1, <2>2 DEF QuietOn
  <2>3. CASE hw[n][field] # Quiet(field)
    <3>1. PICK x \in OutPin : /\ calls[x].state # "off" /\ n \in ToSet(PathOf(x))
                              /\ calls[x].state = "down" => Pends(calls[x].todo, n, field)
      BY <2>1, <2>3 DEF QuietOn
    <3>2. PathOf(x)' = PathOf(x)
      BY <3>1 DEF Stays
    <3> QED BY <1>1, <1>3, <3>1, <3>2 DEF QuietOn
  <2> QED BY <2>2, <2>3
<1>6. calls' \in [OutPin' -> [state : CallState, todo : Seq(VerbType'), muted : BOOLEAN, volume : BOOLEAN]]
  BY <1>1, <1>2, <1>3 DEF ControlInv
<1>7. hw' \in [Widget -> Setting] /\ (\A q \in DOMAIN gains' : gains'[q] \in 0 .. 127)
      /\ timeouts' \in Nat /\ volumes' \subseteq Int
  BY <1>1, <1>2 DEF ControlInv
<1>8. ControlInv'
  BY <1>1, <1>3, <1>4, <1>5, <1>6, <1>7 DEF ControlInv
<1> QED BY <1>8 DEF Inv

\* A path that stays in use is the one to its output.
LEMMA UseStays ==
    ASSUME ClientInv, ClientInv', NEW u \in active, u \in active', NEW w, w = u.path[1]
    PROVE  w \in Used' /\ PathOf(w)' = PathOf(w) /\ StreamOf(w)' = StreamOf(w)
<1>1. (CHOOSE v \in active : v.path[1] = w) = u
  <2>1. \A a, b \in active : a # b => a.path[1] # b.path[1]
    BY DEF ClientInv
  <2> QED BY <2>1, ChosenUse
<1>2. (CHOOSE v \in active' : v.path[1] = w) = u
  <2>1. SUFFICES ASSUME NEW A, A = active' PROVE (CHOOSE v \in A : v.path[1] = w) = u
    OBVIOUS
  <2>2. \A a, b \in A : a # b => a.path[1] # b.path[1]
    BY <2>1 DEF ClientInv
  <2> QED BY <2>1, <2>2, ChosenUse
<1>3. w \in Used'
  BY DEF Used, InUse
<1> QED BY <1>1, <1>2, <1>3 DEF PathOf, StreamOf

LEMMA SearchKeeps == ASSUME Inv, Search PROVE Inv'
<1>1. SearchInv /\ ClientInv /\ ControlInv /\ UNCHANGED control
  BY DEF Inv, Search
<1>2. SearchInv' /\ UNCHANGED <<codecVars, active>> /\ pc = "search" /\ pc' \in {"search", "ready"}
  <2>1. CASE SearchStep
    BY <1>1, <2>1, SearchStepInv
  <2>2. CASE SearchEnd
    <3>1. UNCHANGED <<codecVars, search, active>> /\ pc = "search" /\ pc' = "ready"
      BY <2>2 DEF SearchEnd, Searched
    <3>2. UNCHANGED codecVars /\ UNCHANGED <<turn, stack, paths>>
      BY <3>1 DEF search
    <3>3. SearchInv'
      BY <1>1, <3>2, SameCodec DEF SearchInv
    <3> QED BY <3>1, <3>3
  <2> QED BY <2>1, <2>2 DEF Search
<1>3. active = {} /\ active' = {}
  BY <1>1, <1>2 DEF ControlInv
<1>4. ClientInv'
  BY <1>3 DEF ClientInv, InUse
<1>5. \A w \in OutPin : calls[w].state = "off"
  BY <1>1, <1>2 DEF ControlInv, CallTyped
<1> QED BY <1>1, <1>2, <1>3, <1>4, <1>5, ChoiceStep

LEMMA ChooseKeeps == ASSUME Inv, Choose PROVE Inv'
<1>1. SearchInv /\ ClientInv /\ ControlInv /\ UNCHANGED control
  BY DEF Inv, Choose
<1>2. /\ ClientInv' /\ UNCHANGED <<codecVars, pc, search>>
      /\ pc = "ready" \/ active' \subseteq active
      /\ \A v \in active : calls[v.path[1]].state # "off" => v \in active'
  <2>1. CASE SelectStep
    <3>1. PICK dest, stream : Select(dest, stream)
      BY <2>1 DEF SelectStep
    <3> QED BY <1>1, <3>1, SelectInv DEF Select
  <2>2. CASE \E u \in active : calls[u.path[1]].state = "off" /\ Release(u)
    <3>1. PICK u \in active : calls[u.path[1]].state = "off" /\ Release(u)
      BY <2>2
    <3> QED BY <1>1, <3>1, ReleaseInv DEF Release, ControlInv
  <2> QED BY <2>1, <2>2 DEF Choose
<1>3. SearchInv'
  <2>1. UNCHANGED codecVars /\ UNCHANGED <<turn, stack, paths>>
    BY <1>2 DEF search
  <2> QED BY <1>1, <2>1, SameCodec DEF SearchInv
<1>4. pc' \in {"search", "ready"} /\ (pc' = "search" => active' = {})
  <2>1. pc' = pc /\ pc \in {"search", "ready"} /\ (pc = "search" => active = {})
    BY <1>1, <1>2 DEF ControlInv
  <2> QED BY <1>2, <2>1
<1>5. ASSUME NEW w \in OutPin, calls[w].state # "off" PROVE Stays(w)
  <2>1. w \in Used /\ pc = "ready"
    BY <1>1, <1>5 DEF ControlInv, CallTyped
  <2>2. PICK u \in active : u.path[1] = w
    BY <2>1 DEF Used, InUse
  <2>3. u \in active'
    BY <1>2, <1>5, <2>2
  <2>4. w \in Used' /\ PathOf(w)' = PathOf(w) /\ StreamOf(w)' = StreamOf(w)
    BY <1>1, <1>2, <2>2, <2>3, UseStays
  <2> QED BY <1>2, <2>1, <2>4 DEF Stays, search
<1> QED BY <1>1, <1>2, <1>3, <1>4, <1>5, ChoiceStep

-----------------------------------------------------------------------------
(* The invariant holds *)

\* A layout is the codec's widgets, and the holes between and below them.
LEMMA KnownWidgets ==
    ASSUME NEW l, IsLayout(l), Known(l)
    PROVE  /\ Widget \subseteq 0 .. 255 /\ 0 \in Widget /\ DOMAIN l \subseteq Widget
           /\ \A w \in Widget : widgets[w] = IF w \in DOMAIN l THEN l[w] ELSE Hole
           /\ \A w \in DOMAIN l : l[w] \in WidgetRecord /\ l[w].nid = w /\ w # 0
           /\ CodecTyped /\ Widget = 0 .. Max(DOMAIN l)
<1> DEFINE n == Max(DOMAIN l)
<1>1. n \in 1 .. 255 /\ \A w \in DOMAIN l : w \in 1 .. n
  <2>1. SUFFICES ASSUME NEW S, S = DOMAIN l PROVE Max(S) \in 1 .. 255 /\ \A w \in S : w \in 1 .. Max(S)
    OBVIOUS
  <2>2. S \in SUBSET (1 .. 255) /\ S # {}
    BY <2>1 DEF IsLayout
  <2>3. Max(S) \in S /\ \A w \in S : w <= Max(S)
    <3>1. \A b \in Nat : S \in SUBSET (1 .. b) => Max(S) \in S /\ \A w \in S : w <= Max(S)
      BY <2>2, MaxExists
    <3>2. 255 \in Nat
      OBVIOUS
    <3> QED BY <2>2, <3>1, <3>2
  <2>4. SUFFICES ASSUME NEW m, m = Max(S) PROVE m \in 1 .. 255 /\ \A w \in S : w \in 1 .. m
    OBVIOUS
  <2>5. \A w \in S : w \in 1 .. 255 /\ w <= m
    BY <2>2, <2>3, <2>4
  <2>6. m \in S
    BY <2>3, <2>4
  <2> QED BY <2>5, <2>6
<1>2. widgets = [w \in 0 .. n |-> IF w \in DOMAIN l THEN l[w] ELSE Hole]
  BY DEF Known
<1>3. outputNids = FlattenSeq([w \in 1 .. n |-> IF w \in DOMAIN l /\ IsPin(l[w]) THEN <<w>> ELSE <<>>])
  BY DEF Known
<1>4. Widget = 0 .. n
  BY <1>2 DEF Widget
<1> HIDE DEF n
<1>5. Widget \subseteq 0 .. 255 /\ 0 \in Widget /\ DOMAIN l \subseteq Widget
  BY <1>1, <1>4
<1>6. \A w \in Widget : widgets[w] = IF w \in DOMAIN l THEN l[w] ELSE Hole
  BY <1>2, <1>4
<1>7. \A w \in DOMAIN l : l[w] \in WidgetRecord /\ l[w].nid = w /\ w # 0
  BY <1>1 DEF IsLayout
<1>8. \A w \in Widget : Conns(w) \in Seq(Connection)
  <2> TAKE w \in Widget
  <2>1. CASE w \in DOMAIN l
    <3>1. widgets[w] \in WidgetRecord
      BY <1>6, <1>7, <2>1
    <3> QED BY <3>1 DEF WidgetRecord, Conns
  <2>2. CASE w \notin DOMAIN l
    <3>1. widgets[w].conns = <<>>
      BY <1>6, <2>2 DEF Hole
    <3> QED BY <3>1 DEF Conns
  <2> QED BY <2>1, <2>2
<1>9. outputNids \in Seq(Widget)
  <2> DEFINE seqs == [w \in 1 .. n |-> IF w \in DOMAIN l /\ IsPin(l[w]) THEN <<w>> ELSE <<>>]
  <2>1. ASSUME NEW w \in 1 .. n PROVE seqs[w] \in Seq(Widget)
    <3>1. w \in Widget
      BY <1>1, <1>4
    <3> QED BY <3>1
  <2>2. seqs \in Seq(Seq(Widget))
    <3>1. n \in Nat /\ seqs = [w \in 1 .. n |-> seqs[w]]
      BY <1>1
    <3> HIDE DEF seqs
    <3> QED BY <2>1, <3>1
  <2>3. outputNids = FlattenSeq(seqs)
    BY <1>3
  <2> HIDE DEF seqs
  <2>4. Flat(Widget, seqs, outputNids)
    BY <2>2, <2>3, FlattenElements
  <2> QED BY <2>4 DEF Flat
<1>10. CodecTyped
  BY <1>5, <1>8, <1>9 DEF CodecTyped
<1> QED BY <1>4, <1>5, <1>6, <1>7, <1>10 DEF n

\* A codec that has been enumerated has no paths yet.
LEMMA KnownSearch == ASSUME NEW l, IsLayout(l), Known(l) PROVE SearchInv /\ ClientInv
<1>1. CodecTyped
  BY KnownWidgets
<1>2. turn = 0 /\ stack = <<>> /\ paths = <<>> /\ active = {}
  BY DEF Known
<1>3. Len(outputNids) \in Nat
  BY <1>1 DEF CodecTyped
<1>4. turn \in 0 .. Len(outputNids)
  BY <1>2, <1>3
<1>5. 0 <= MaxDepth
  BY DepthAssumption
<1>6. ChainOK(stack)
  BY <1>2, <1>5 DEF ChainOK
<1>7. paths \in Seq(Seq(Widget)) /\ \A k \in 1 .. Len(paths) : PathOK(paths[k])
  BY <1>2
<1>8. ClientInv
  BY <1>2 DEF ClientInv, InUse
<1> QED BY <1>1, <1>4, <1>6, <1>7, <1>8 DEF SearchInv

LEMMA InitInv == ASSUME Init PROVE Inv
<1>1. PICK o \in Offers :
        /\ Known(o.layout) /\ params = o.params /\ volumes = o.volumes
        /\ hw = [n \in 0 .. Max(DOMAIN o.layout) |-> Muted]
        /\ gains = <<>> /\ timeouts = o.timeouts
        /\ calls = [w \in {v \in DOMAIN o.layout : o.layout[v].kind = "outPin"} |-> Off]
  BY DEF Init
<1>2. SUFFICES ASSUME NEW l, l = o.layout PROVE Inv
  OBVIOUS
<1>3. /\ IsLayout(l) /\ volumes \subseteq Int /\ timeouts \in Nat
      /\ params.rate \in Nat /\ params.channels \in Nat /\ params.fmt \in SampleFormat
  BY <1>1, <1>2, OffersAssumption
<1>4. /\ 0 \in Widget /\ DOMAIN l \subseteq Widget /\ CodecTyped /\ Widget = 0 .. Max(DOMAIN l)
      /\ \A w \in Widget : widgets[w] = IF w \in DOMAIN l THEN l[w] ELSE Hole
      /\ \A w \in DOMAIN l : l[w] \in WidgetRecord /\ l[w].nid = w /\ w # 0
  BY <1>1, <1>2, <1>3, KnownWidgets
<1>5. SearchInv /\ ClientInv
  BY <1>1, <1>2, <1>3, KnownSearch
<1>6. LayoutInv
  <2>1. ASSUME NEW w \in Widget
        PROVE  (widgets[w] = Hole \/ (widgets[w].nid = w /\ w # 0)) /\ KindOf(w) \in Kind
    <3>1. CASE w \in DOMAIN l
      <4>1. widgets[w] = l[w] /\ l[w] \in WidgetRecord /\ l[w].nid = w /\ w # 0
        BY <1>4, <3>1
      <4> QED BY <4>1 DEF WidgetRecord, KindOf
    <3>2. CASE w \notin DOMAIN l
      <4>1. widgets[w] = Hole
        BY <1>4, <3>2
      <4> QED BY <4>1 DEF Hole, KindOf, Kind
    <3> QED BY <3>1, <3>2
  <2> QED BY <1>3, <1>4, <2>1 DEF LayoutInv
<1>7. OutPin = {v \in DOMAIN l : l[v].kind = "outPin"}
  <2>1. \A w \in Widget : KindOf(w) = IF w \in DOMAIN l THEN l[w].kind ELSE "dac"
    BY <1>4 DEF KindOf, Hole
  <2> QED BY <1>4, <2>1 DEF OutPin
<1>8. calls = [w \in OutPin |-> Off]
  BY <1>1, <1>2, <1>7
<1>9. Off \in [state : CallState, todo : Seq(VerbType), muted : BOOLEAN, volume : BOOLEAN]
      /\ Off.state = "off" /\ Off.todo = <<>>
  BY DEF Off, CallState
<1>10. ASSUME NEW w \in OutPin PROVE CallTyped(w) /\ PathInv(w)
  <2>1. calls[w] = Off
    BY <1>8
  <2> HIDE DEF Off
  <2>2. CallTyped(w)
    BY <1>9, <2>1 DEF CallTyped, InProgress
  <2> QED BY <1>9, <2>1, <2>2 DEF PathInv, Playing
<1>11. calls \in [OutPin -> [state : CallState, todo : Seq(VerbType), muted : BOOLEAN, volume : BOOLEAN]]
  BY <1>8, <1>9
<1>12. hw = [n \in Widget |-> Muted]
  BY <1>1, <1>2, <1>4
<1>13. Muted \in Setting
  BY DEF Muted, Setting
<1>14. ASSUME NEW w \in Widget, NEW field \in Field, Quiets(w, field) PROVE QuietOn(w, field)
  <2>1. Muted[field] = Quiet(field)
    <3>1. field \in {"amp", "out", "tag"}
      BY <1>14 DEF Quiets
    <3>2. Muted["amp"] = [mute |-> TRUE, gain |-> 0] /\ Muted["out"] = FALSE /\ Muted["tag"] = 0
      BY DEF Muted
    <3>3. Quiet("amp") = [mute |-> TRUE, gain |-> 0] /\ Quiet("out") = FALSE /\ Quiet("tag") = 0
      BY DEF Quiet
    <3> QED BY <3>1, <3>2, <3>3
  <2> QED BY <1>12, <2>1 DEF QuietOn
<1>15. pc = "search" /\ active = {} /\ gains = <<>>
  BY <1>1 DEF Known
<1>16. hw \in [Widget -> Setting] /\ \A q \in DOMAIN gains : gains[q] \in 0 .. 127
  BY <1>12, <1>13, <1>15
<1>17. ControlInv
  BY <1>3, <1>6, <1>10, <1>11, <1>14, <1>15, <1>16 DEF ControlInv
<1> QED BY <1>5, <1>17 DEF Inv

\* Every step keeps the invariant.
LEMMA NextInv == ASSUME Inv, [Next]_vars PROVE Inv'
<1>1. CASE Search
  BY <1>1, SearchKeeps
<1>2. CASE Choose
  BY <1>2, ChooseKeeps
<1>3. CASE Operate
  <2>1. PICK w \in OutPin : Setup(w) \/ SetVolume(w) \/ Mute(w) \/ Shutdown(w) \/ Answered(w) \/ TimedOut(w)
    BY <1>3 DEF Operate
  <2> QED BY <2>1, SetupStep, VolumeStep, MuteStep, ShutdownStep, AnsweredStep, TimedOutStep
<1>4. CASE UNCHANGED vars
  <2>1. UNCHANGED pathVars /\ UNCHANGED <<codecVars, control>> /\ UNCHANGED <<pc, active, paths>>
    BY <1>4 DEF vars, pathVars, search
  <2>2. SearchInv /\ ClientInv /\ ControlInv
    BY DEF Inv
  <2>3. SearchInv' /\ ClientInv'
    BY <2>1, <2>2, SamePaths
  <2>4. \A w \in OutPin : calls[w].state # "off" => Stays(w)
    <3>1. Used' = Used /\ \A w : PathOf(w)' = PathOf(w) /\ StreamOf(w)' = StreamOf(w)
      BY <2>1, SameUse
    <3>2. \A w \in OutPin : calls[w].state # "off" => w \in Used /\ pc = "ready"
      BY <2>2 DEF ControlInv, CallTyped
    <3> QED BY <2>1, <3>1, <3>2 DEF Stays
  <2>5. pc' \in {"search", "ready"} /\ (pc' = "search" => active' = {})
    BY <2>1, <2>2 DEF ControlInv
  <2> QED BY <2>1, <2>3, <2>4, <2>5, ChoiceStep
<1> QED BY <1>1, <1>2, <1>3, <1>4 DEF Next

\* In every state the settings, the calls in progress and the paths in use fit:
\* what setup has set, what it is still going to set, and what a shutdown leaves.
THEOREM InvHolds == Spec => []Inv
BY InitInv, NextInv, PTL DEF Spec

-----------------------------------------------------------------------------
(* What the invariant is for *)

\* The path of an output in use, and what is known of its call.
LEMMA UsedCall ==
    ASSUME Inv, NEW w \in Used, NEW p, p = PathOf(w)
    PROVE  /\ SearchInv /\ ClientInv /\ LayoutInv /\ PathOK(p) /\ p[1] = w /\ w \in OutPin
           /\ CallTyped(w) /\ PathInv(w)
<1>1. SearchInv /\ ClientInv /\ ControlInv
  BY DEF Inv
<1>2. PathOK(p) /\ p[1] = w /\ w \in OutPin
  BY <1>1, UsedPath
<1> QED BY <1>1, <1>2 DEF ControlInv

\* Settings, gains and indices fit the bits of their verbs, and a call in progress
\* has a verb to send.
LEMMA TypeFollows == ASSUME Inv PROVE TypeOK
<1>1. SearchInv /\ ClientInv /\ ControlInv
  BY DEF Inv
<1>2. StackOK
  BY <1>1, StackTyped
<1>3. pc \in {"search", "ready"} /\ timeouts \in Nat /\ hw \in [Widget -> Setting] /\ DOMAIN calls = OutPin
  BY <1>1 DEF ControlInv
<1>4. ASSUME NEW w \in OutPin
      PROVE  /\ calls[w].todo = <<>> <=> calls[w].state \in {"off", "up", "broken"}
             /\ calls[w].state # "off" => w \in Used
  <2>1. CallTyped(w) /\ calls[w].state \in CallState
    BY <1>1 DEF ControlInv, CallTyped
  <2>2. calls[w].state \in InProgress <=> calls[w].state \notin {"off", "up", "broken"}
    BY <2>1 DEF CallState, InProgress, Playing
  <2> QED BY <2>1, <2>2 DEF CallTyped
<1> QED BY <1>2, <1>3, <1>4 DEF TypeOK

\* The parameters of a setup are those that the converter plays.
LEMMA ParamsPlayed ==
    ASSUME LayoutInv, CheckStreamParams(params)
    PROVE  Plays(ParamsFormat, params) /\ ParamsFormat.chan = params.channels - 1
<1>1. Plays(ParamsFormat, params)
  <2>1. SUFFICES ASSUME NEW r, r = params, r.rate \in Nat, r.channels \in Nat, r.fmt \in SampleFormat,
                        CheckStreamParams(r)
                 PROVE  Plays(PcmFormatFromParams(r.rate, r.channels, r.fmt), r)
    BY DEF ParamsFormat, LayoutInv
  <2> QED BY <2>1, AcceptedPlays
<1>2. SetChannels(params.channels) = params.channels
  BY DEF CheckStreamParams
<1>3. ParamsFormat.chan = SetChannels(params.channels) - 1
  BY DEF ParamsFormat, PcmFormatFromParams
<1> QED BY <1>1, <1>2, <1>3

\* A selected index leads to the next widget of a path.
LEMMA PathRouted ==
    ASSUME LayoutInv, NEW p, PathOK(p), Apart(p), NEW i \in 1 .. Len(p) - 1,
           WellFormed(Conns(p[i])), ~InsideRange(Conns(p[i]), p[i + 1]), NEW stray \in Strays,
           Len(Conns(p[i])) > 1 => hw[p[i]].sel = SelectIndex(Conns(p[i]), widgets[p[i + 1]].nid, stray)
    PROVE  Routed(p[i], p[i + 1])
<1>1. SUFFICES ASSUME NEW l, l = Conns(p[i]), NEW next, next = p[i + 1], Len(l) > 1,
                      NEW e, e = Expanded(l), NEW k, k = hw[p[i]].sel
               PROVE  k + 1 \in DOMAIN e /\ e[k + 1] = next
  BY DEF Routed
<1>2. i \in 1 .. Len(p) /\ i + 1 \in 1 .. Len(p)
  BY DEF PathOK
<1>3. p[i] \in Widget /\ widgets[next].nid = next
  BY <1>1, <1>2, PathNodes
<1>4. l \in Seq(Connection)
  BY <1>1, <1>3 DEF LayoutInv, CodecTyped
<1>5. next \in Named(l)
  BY <1>1 DEF PathOK
<1>6. stray \in Int
  BY ClientAssumption
<1>7. k = SelectIndex(l, next, stray)
  BY <1>1, <1>3
<1> QED BY <1>1, <1>4, <1>5, <1>6, <1>7, SelectsNext

\* A path that is up has every setting that its setup is for.
LEMMA PlaysFollows == ASSUME Inv PROVE PathPlays
<1> SUFFICES ASSUME NEW w \in Used, calls[w].state = "up", NEW p, p = PathOf(w), Apart(p)
             PROVE
    LET dac == hw[Last(p)] IN
    /\ dac.tag = StreamOf(p[1]) + 1 /\ Plays(dac.fmt, params)
    /\ dac.channels = params.channels - 1
    /\ dac.amp.gain = GainOf(p) /\ dac.amp.gain <= StepOf(Last(p))
    /\ hw[p[1]].out /\ (p[1] \in HasEapd => hw[p[1]].eapd)
    /\ \A i \in DOMAIN p : hw[p[i]].on
    /\ \A i \in 1 .. Len(p) - 1 :
         WellFormed(Conns(p[i])) /\ ~InsideRange(Conns(p[i]), p[i + 1]) => Routed(p[i], p[i + 1])
    /\ ~calls[p[1]].muted =>
         \A i \in DOMAIN p : KindOf(p[i]) # "selector" => ~hw[p[i]].amp.mute
  BY DEF PathPlays, UpPaths
<1>1. LayoutInv /\ PathOK(p) /\ p[1] = w /\ w \in OutPin /\ PathInv(w)
  BY UsedCall
<1>2. SUFFICES ASSUME NEW s, s = StreamOf(w), NEW c, c = calls[w], CheckStreamParams(params), PlayOn(p, c, s)
               PROVE
    LET dac == hw[Last(p)] IN
    /\ dac.tag = s + 1 /\ Plays(dac.fmt, params)
    /\ dac.channels = params.channels - 1
    /\ dac.amp.gain = GainOf(p) /\ dac.amp.gain <= StepOf(Last(p))
    /\ hw[p[1]].out /\ (p[1] \in HasEapd => hw[p[1]].eapd)
    /\ \A i \in DOMAIN p : hw[p[i]].on
    /\ \A i \in 1 .. Len(p) - 1 :
         WellFormed(Conns(p[i])) /\ ~InsideRange(Conns(p[i]), p[i + 1]) => Routed(p[i], p[i + 1])
    /\ ~c.muted => \A i \in DOMAIN p : KindOf(p[i]) # "selector" => ~hw[p[i]].amp.mute
  BY <1>1 DEF PathInv, Playing
<1>3. /\ 1 \in 1 .. Len(p) /\ Len(p) \in 1 .. Len(p) /\ Last(p) = p[Len(p)] /\ DOMAIN p = 1 .. Len(p)
      /\ \A i \in 1 .. Len(p) : widgets[p[i]].nid = p[i] /\ p[i] \in Widget
      /\ Len(p) \in Nat
  BY <1>1, PathNodes
<1>4. PICK stray \in Strays : \A i \in 1 .. Len(p), field \in Field \ {"amp"} :
        Needs(p, i, field) => hw[p[i]][field] = Goal(p, i, s, stray, field)
  BY <1>2 DEF PlayOn
<1>5. /\ Needs(p, Len(p), "tag") /\ Needs(p, Len(p), "fmt") /\ Needs(p, Len(p), "channels")
      /\ Needs(p, 1, "out") /\ (p[1] \in HasEapd => Needs(p, 1, "eapd"))
      /\ \A i \in 1 .. Len(p) : Needs(p, i, "on")
  <2>1. KindOf(p[1]) = "outPin"
    BY <1>1 DEF OutPin
  <2> QED BY <1>3, <2>1 DEF Needs, IsPin, KindOf
<1>6. \A i : /\ Goal(p, i, s, stray, "tag") = s + 1 /\ Goal(p, i, s, stray, "fmt") = ParamsFormat
             /\ Goal(p, i, s, stray, "channels") = ParamsFormat.chan
             /\ Goal(p, i, s, stray, "out") = TRUE /\ Goal(p, i, s, stray, "eapd") = TRUE
             /\ Goal(p, i, s, stray, "on") = TRUE
             /\ Goal(p, i, s, stray, "sel") = SelectIndex(Conns(p[i]), widgets[p[i + 1]].nid, stray)
  BY DEF Goal
<1>7. {"tag", "fmt", "channels", "out", "eapd", "on", "sel"} \subseteq Field \ {"amp"}
  BY DEF Field
<1>8. /\ hw[Last(p)].tag = s + 1 /\ hw[Last(p)].fmt = ParamsFormat /\ hw[Last(p)].channels = ParamsFormat.chan
      /\ hw[p[1]].out /\ (p[1] \in HasEapd => hw[p[1]].eapd)
      /\ \A i \in 1 .. Len(p) : hw[p[i]].on
  <2>1. /\ hw[p[Len(p)]]["tag"] = s + 1 /\ hw[p[Len(p)]]["fmt"] = ParamsFormat
        /\ hw[p[Len(p)]]["channels"] = ParamsFormat.chan
        /\ hw[p[1]]["out"] = TRUE /\ (p[1] \in HasEapd => hw[p[1]]["eapd"] = TRUE)
        /\ \A i \in 1 .. Len(p) : hw[p[i]]["on"] = TRUE
    BY <1>3, <1>4, <1>5, <1>6, <1>7
  <2> QED BY <1>3, <2>1
<1>9. Plays(ParamsFormat, params) /\ ParamsFormat.chan = params.channels - 1
  BY <1>1, <1>2, ParamsPlayed
<1>10. hw[Last(p)].amp.gain = GainOf(p) /\ hw[Last(p)].amp.gain <= StepOf(Last(p))
  BY <1>2 DEF PlayOn
<1>11. ASSUME NEW i \in 1 .. Len(p) - 1, WellFormed(Conns(p[i])), ~InsideRange(Conns(p[i]), p[i + 1])
       PROVE  Routed(p[i], p[i + 1])
  <2>1. i \in 1 .. Len(p) /\ i < Len(p)
    BY <1>3
  <2>2. Len(Conns(p[i])) > 1 => hw[p[i]]["sel"] = SelectIndex(Conns(p[i]), widgets[p[i + 1]].nid, stray)
    BY <1>4, <1>6, <1>7, <2>1 DEF Needs
  <2> QED BY <1>1, <1>11, <2>2, PathRouted
<1>12. ASSUME ~c.muted, NEW i \in 1 .. Len(p), KindOf(p[i]) # "selector" PROVE ~hw[p[i]].amp.mute
  BY <1>2, <1>12 DEF PlayOn
<1> QED BY <1>3, <1>8, <1>9, <1>10, <1>11, <1>12

\* A path in use that is off gives no sound: no other path goes through it.
LEMMA SilentFollows == ASSUME Inv PROVE PathSilent
<1> SUFFICES ASSUME NEW w \in Used, calls[w].state = "off", NEW p, p = PathOf(w), Apart(p)
             PROVE  /\ hw[p[1]].amp.mute /\ ~hw[p[1]].out /\ hw[Last(p)].tag = 0
                    /\ \A i \in DOMAIN p : KindOf(p[i]) = "mixer" => hw[p[i]].amp.mute
  BY DEF PathSilent, OffPaths
<1>1. SearchInv /\ ClientInv /\ LayoutInv /\ PathOK(p) /\ p[1] = w /\ w \in OutPin
  BY UsedCall
<1>2. /\ 1 \in 1 .. Len(p) /\ Len(p) \in 1 .. Len(p) /\ Last(p) = p[Len(p)] /\ DOMAIN p = 1 .. Len(p)
      /\ \A i \in 1 .. Len(p) : p[i] \in Widget /\ widgets[p[i]] # Hole
      /\ KindOf(p[Len(p)]) = "dac"
  BY <1>1, PathNodes
<1>3. ASSUME NEW i \in 1 .. Len(p), NEW field \in Field, Quiets(p[i], field)
      PROVE  hw[p[i]][field] = Quiet(field)
  <2>1. QuietOn(p[i], field)
    BY <1>2, <1>3 DEF Inv, ControlInv
  <2>2. ASSUME NEW x \in OutPin, calls[x].state # "off", p[i] \in ToSet(PathOf(x)) PROVE FALSE
    <3>1. x \in Used /\ x # w
      BY <2>2 DEF Inv, ControlInv, CallTyped
    <3>2. ToSet(PathOf(x)) \cap ToSet(PathOf(w)) = {}
      BY <1>1, <3>1, ApartOthers
    <3>3. p[i] \in ToSet(p)
      BY <1>2 DEF ToSet
    <3> QED BY <2>2, <3>2, <3>3
  <2> QED BY <2>1, <2>2 DEF QuietOn
<1>4. Quiet("amp") = [mute |-> TRUE, gain |-> 0] /\ Quiet("out") = FALSE /\ Quiet("tag") = 0
  BY DEF Quiet
<1>5. /\ Quiets(p[1], "amp") /\ Quiets(p[1], "out") /\ Quiets(p[Len(p)], "tag")
      /\ \A i \in 1 .. Len(p) : KindOf(p[i]) = "mixer" => Quiets(p[i], "amp")
  BY <1>1, <1>2 DEF Quiets, IsPin, OutPin, KindOf
<1>6. {"amp", "out", "tag"} \subseteq Field
  BY DEF Field
<1>7. /\ hw[p[1]]["amp"] = [mute |-> TRUE, gain |-> 0] /\ hw[p[1]]["out"] = FALSE /\ hw[p[Len(p)]]["tag"] = 0
      /\ \A i \in 1 .. Len(p) : KindOf(p[i]) = "mixer" => hw[p[i]]["amp"] = [mute |-> TRUE, gain |-> 0]
  BY <1>2, <1>3, <1>4, <1>5, <1>6
<1> QED BY <1>2, <1>7

\* Of the two ends of a path that is up, only the one that mute acts on can be
\* muted, and it is as the client has asked.
LEMMA MuteFollows == ASSUME Inv PROVE MuteHolds
<1> SUFFICES ASSUME NEW w \in Used, calls[w].state = "up", NEW p, p = PathOf(w), Apart(p),
                    NEW c, c = calls[w]
             PROVE  hw[p[1]].amp.mute \/ hw[Last(p)].amp.mute
                      <=> c.muted /\ ~(c.volume /\ p[1] \notin CanMute)
  <2>1. \A w \in Used : PathOf(w)[1] = w
    BY UsedCall
  <2> QED BY <2>1 DEF MuteHolds, UpPaths
<1>1. PathOK(p) /\ p[1] = w /\ w \in OutPin /\ PathInv(w) /\ LayoutInv
  BY UsedCall
<1>2. PlayOn(p, c, StreamOf(w))
  BY <1>1 DEF PathInv, Playing
<1>3. /\ 1 \in 1 .. Len(p) /\ Len(p) \in 1 .. Len(p) /\ Last(p) = p[Len(p)]
      /\ KindOf(p[1]) = "outPin" /\ KindOf(Last(p)) = "dac"
  BY <1>1, PathNodes DEF OutPin
<1>4. p[1] # Last(p)
  BY <1>3
<1>5. \A x \in {p[1], Last(p)} : x # MuteWidget(p) => ~hw[x].amp.mute
  BY <1>2, <1>3 DEF PlayOn
<1>6. hw[MuteWidget(p)].amp.mute <=> c.muted /\ (c.volume => p[1] \in CanMute)
  BY <1>2 DEF PlayOn
<1>7. MuteWidget(p) \in {p[1], Last(p)}
  BY DEF MuteWidget
<1>8. CASE MuteWidget(p) = p[1]
  BY <1>4, <1>5, <1>6, <1>8
<1>9. CASE MuteWidget(p) = Last(p)
  BY <1>4, <1>5, <1>6, <1>9
<1> QED BY <1>7, <1>8, <1>9

\* TypeOK: the values of all settings fit the bits of their verbs, for amplifiers
\* of any size and any volume.
THEOREM TypeCorrect == Spec => []TypeOK
BY InvHolds, TypeFollows, PTL

\* PathPlays: a path whose setup has succeeded plays the client's stream, with any
\* number of verbs of this and of other calls that time out in between.
THEOREM PathPlaysHolds == Spec => []PathPlays
BY InvHolds, PlaysFollows, PTL

\* PathSilent: a path that is shut down gives no sound.
THEOREM PathSilentHolds == Spec => []PathSilent
BY InvHolds, SilentFollows, PTL

\* MuteHolds: a path is muted exactly as its client has last asked, but that a
\* volume unmutes one that is muted at its converter.
THEOREM MuteHoldsHolds == Spec => []MuteHolds
BY InvHolds, MuteFollows, PTL

=============================================================================
