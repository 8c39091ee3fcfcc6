--------------------------- MODULE CodecInitProofs ---------------------------
(***************************************************************************)
(* Proofs about the enumeration of a codec, its output groups and the      *)
(* paths, for every codec that CodecAssumption describes.                  *)
(***************************************************************************)
EXTENDS CodecInit, CodecPathsProofs

-----------------------------------------------------------------------------
(* Connection lists *)

\* The answers of four entries, the last of them cut short, give the list itself.
THEOREM ReadListExact ==
    ASSUME NEW l \in Seq(Connection)
    PROVE  ReadList(l) = l
<1>1. Len(l) \in Nat /\ DOMAIN l = 1 .. Len(l) /\ l = [j \in 1 .. Len(l) |-> l[j]]
  OBVIOUS
<1>2. ASSUME NEW j \in 1 .. Len(l) PROVE EntryOf(l, j) = l[j]
  <2> DEFINE i == 4 * ((j - 1) \div 4)
             k == ((j - 1) % 4) + 1
  <2>1. i \in Nat /\ k \in 1 .. 4 /\ i + k = j
    BY <1>1, SMTT(30)
  <2> HIDE DEF i, k
  <2>2. Answer(l, i)[k] = l[j]
    BY <1>1, <2>1 DEF Answer
  <2> QED BY <2>2 DEF EntryOf, i, k
<1> QED BY <1>1, <1>2 DEF ReadList
-----------------------------------------------------------------------------
(* Sorted vectors *)

\* What insert() leaves where.
LEMMA InsertAtFacts ==
    ASSUME NEW S, NEW v \in Seq(S), NEW e \in S, NEW k \in 1 .. Len(v),
           NEW r, r = InsertAt(v, k, e)
    PROVE  /\ r \in Seq(S) /\ Len(r) = Len(v) + 1 /\ r[k] = e
           /\ \A i \in 1 .. k - 1 : r[i] = v[i]
           /\ \A i \in k + 1 .. Len(v) + 1 : r[i] = v[i - 1]
<1> DEFINE a == SubSeq(v, 1, k - 1)
           m == <<e>>
           b == SubSeq(v, k, Len(v))
<1>1. Len(v) \in Nat /\ k \in Int /\ k >= 1 /\ k <= Len(v)
  OBVIOUS
<1>2. a \in Seq(S) /\ Len(a) = k - 1 /\ \A i \in 1 .. k - 1 : a[i] = v[i]
  <2>1. \A i \in 1 .. k - 1 : v[i] \in S
    BY <1>1
  <2>2. 1 \in Int /\ k - 1 \in Int
    BY <1>1
  <2>3. /\ a \in Seq(S) /\ Len(a) = IF 1 <= k - 1 THEN k - 1 - 1 + 1 ELSE 0
        /\ \A i \in 1 .. k - 1 - 1 + 1 : a[i] = v[1 + i - 1]
    BY <2>1, <2>2, SubSeqProperties
  <2> HIDE DEF a
  <2>4. k - 1 - 1 + 1 = k - 1 /\ (~(1 <= k - 1) => k - 1 = 0)
    BY <1>1
  <2>5. Len(a) = k - 1
    BY <2>3, <2>4
  <2>6. \A i \in 1 .. k - 1 : 1 + i - 1 = i
    BY <1>1
  <2> QED BY <2>3, <2>4, <2>5, <2>6
<1>3. b \in Seq(S) /\ Len(b) = Len(v) - k + 1 /\ \A i \in 1 .. Len(v) - k + 1 : b[i] = v[k + i - 1]
  <2>1. \A i \in k .. Len(v) : v[i] \in S
    BY <1>1
  <2>2. /\ b \in Seq(S) /\ Len(b) = IF k <= Len(v) THEN Len(v) - k + 1 ELSE 0
        /\ \A i \in 1 .. Len(v) - k + 1 : b[i] = v[k + i - 1]
    BY <1>1, <2>1, SubSeqProperties
  <2> QED BY <1>1, <2>2
<1>4. m \in Seq(S) /\ Len(m) = 1 /\ m[1] = e
  OBVIOUS
<1>5. r = (a \o m) \o b
  BY DEF InsertAt
<1> HIDE DEF a, m, b
<1>6. /\ a \o m \in Seq(S) /\ Len(a \o m) = k
      /\ \A i \in 1 .. k : (a \o m)[i] = IF i <= k - 1 THEN a[i] ELSE m[i - (k - 1)]
  <2>1. /\ a \o m \in Seq(S) /\ Len(a \o m) = Len(a) + Len(m)
        /\ \A i \in 1 .. Len(a) + Len(m) : (a \o m)[i] = IF i <= Len(a) THEN a[i] ELSE m[i - Len(a)]
    BY <1>2, <1>4, ConcatProperties
  <2>2. Len(a) + Len(m) = k
    BY <1>1, <1>2, <1>4
  <2> QED BY <1>2, <2>1, <2>2
<1> DEFINE c == a \o m
<1>7. c \in Seq(S) /\ Len(c) = k /\ c[k] = e /\ \A i \in 1 .. k - 1 : c[i] = v[i]
  <2>1. c[k] = m[1]
    <3>1. k \in 1 .. k /\ ~(k <= k - 1) /\ k - (k - 1) = 1
      BY <1>1
    <3> QED BY <1>6, <3>1
  <2>2. \A i \in 1 .. k - 1 : i \in 1 .. k /\ i <= k - 1
    BY <1>1
  <2> QED BY <1>2, <1>4, <1>6, <2>1, <2>2
<1>8. r = c \o b
  BY <1>5
<1> HIDE DEF c
<1>9. /\ r \in Seq(S) /\ Len(r) = Len(v) + 1
      /\ \A i \in 1 .. Len(v) + 1 : r[i] = IF i <= k THEN c[i] ELSE b[i - k]
  <2>1. /\ r \in Seq(S) /\ Len(r) = Len(c) + Len(b)
        /\ \A i \in 1 .. Len(c) + Len(b) : r[i] = IF i <= Len(c) THEN c[i] ELSE b[i - Len(c)]
    BY <1>3, <1>7, <1>8, ConcatProperties
  <2>2. Len(c) + Len(b) = Len(v) + 1
    BY <1>1, <1>3, <1>7
  <2> QED BY <1>7, <2>1, <2>2
<1>10. r[k] = e
  <2>1. k \in 1 .. Len(v) + 1 /\ k <= k
    BY <1>1
  <2> QED BY <1>7, <1>9, <2>1
<1>11. \A i \in 1 .. k - 1 : r[i] = v[i]
  <2>1. \A i \in 1 .. k - 1 : i \in 1 .. Len(v) + 1 /\ i <= k
    BY <1>1
  <2> QED BY <1>7, <1>9, <2>1
<1>12. \A i \in k + 1 .. Len(v) + 1 : r[i] = v[i - 1]
  <2> TAKE i \in k + 1 .. Len(v) + 1
  <2>1. i \in 1 .. Len(v) + 1 /\ ~(i <= k) /\ i - k \in 1 .. Len(v) - k + 1 /\ k + (i - k) - 1 = i - 1
    BY <1>1
  <2>2. r[i] = b[i - k] /\ b[i - k] = v[k + (i - k) - 1]
    BY <1>3, <1>9, <2>1
  <2> QED BY <2>1, <2>2
<1> QED BY <1>9, <1>10, <1>11, <1>12

RisingKeys(v, keys) == /\ keys \in Seq(Int) /\ Len(keys) = Len(v)
                       /\ \A i, j \in 1 .. Len(v) : i < j => keys[i] <= keys[j]

Inserted(S, v, e, keys, key, r) ==
    /\ r \in Seq(S) /\ Len(r) = Len(v) + 1
    /\ \E k \in 1 .. Len(v) + 1 :
         /\ r[k] = e
         /\ \A i \in 1 .. k - 1 : r[i] = v[i] /\ keys[i] <= key
         /\ \A i \in k + 1 .. Len(v) + 1 : r[i] = v[i - 1] /\ keys[i - 1] > key

\* A new element comes behind those whose key is not above its own, before the
\* others.
LEMMA InOrderFacts ==
    ASSUME NEW S, NEW v \in Seq(S), NEW e \in S, NEW key \in Int,
           NEW keys, RisingKeys(v, keys)
    PROVE  Inserted(S, v, e, keys, key, InOrder(v, e, keys, key))
<1> DEFINE r == InOrder(v, e, keys, key)
           greater == {i \in DOMAIN v : keys[i] > key}
<1>1. Len(v) \in Nat /\ DOMAIN v = 1 .. Len(v) /\ \A i \in 1 .. Len(v) : keys[i] \in Int
  BY DEF RisingKeys
<1>0. Len(keys) = Len(v) /\ \A i, j \in 1 .. Len(v) : i < j => keys[i] <= keys[j]
  BY DEF RisingKeys
<1>2. CASE v = <<>> \/ Last(keys) <= key
  <2>1. r = Append(v, e)
    BY <1>2 DEF InOrder
  <2>2. r \in Seq(S) /\ Len(r) = Len(v) + 1 /\ r[Len(v) + 1] = e /\ \A i \in 1 .. Len(v) : r[i] = v[i]
    BY <1>1, <2>1
  <2> HIDE DEF r
  <2>3. \A i \in 1 .. Len(v) : keys[i] <= key
    <3> TAKE i \in 1 .. Len(v)
    <3>0. Len(v) \in Nat
      OBVIOUS
    <3>1. v # <<>> /\ Len(v) \in 1 .. Len(v) /\ (i = Len(v) \/ i < Len(v))
      BY <3>0
    <3>2. keys[Len(v)] <= key
      BY <1>0, <1>2, <3>1 DEF Last
    <3>3. keys[i] <= keys[Len(v)]
      BY <1>0, <1>1, <3>1
    <3>4. keys[i] \in Int /\ keys[Len(v)] \in Int
      BY <1>1, <3>1
    <3> HIDE DEF greater
    <3> QED BY <3>1, <3>2, <3>3, <3>4
  <2>4. Len(v) + 1 \in 1 .. Len(v) + 1 /\ Len(v) + 1 - 1 = Len(v) /\ Len(v) + 1 + 1 .. Len(v) + 1 = {}
    BY <1>1
  <2> QED BY <2>2, <2>3, <2>4 DEF r, Inserted
<1>3. CASE ~(v = <<>> \/ Last(keys) <= key)
  <2>2. Len(v) \in greater
    <3>1. Len(v) \in 1 .. Len(v)
      BY <1>1, <1>3
    <3> QED BY <1>0, <1>1, <1>3, <3>1 DEF Last
  <2>3. greater \in SUBSET Nat
    <3>1. \A i \in 1 .. Len(v) : i \in Nat
      OBVIOUS
    <3> QED BY <1>1, <3>1
  <2>4. PICK k \in greater : k = Min(greater) /\ \A i \in greater : k <= i
    <3> HIDE DEF greater
    <3> QED BY <2>2, <2>3, MinExists
  <2>1. r = InsertAt(v, k, e)
    BY <1>3, <2>4 DEF InOrder
  <2>5. k \in 1 .. Len(v) /\ keys[k] > key
    BY <1>1, <2>4
  <2>6. /\ r \in Seq(S) /\ Len(r) = Len(v) + 1 /\ r[k] = e
        /\ \A i \in 1 .. k - 1 : r[i] = v[i]
        /\ \A i \in k + 1 .. Len(v) + 1 : r[i] = v[i - 1]
    <3>1. k \in 1 .. Len(v)
      BY <2>5
    <3> HIDE DEF r, greater
    <3>2. r \in Seq(S)
      BY <2>1, <3>1, InsertAtFacts
    <3>3. Len(r) = Len(v) + 1 /\ r[k] = e
      BY <2>1, <3>1, InsertAtFacts
    <3>4. \A i \in 1 .. k - 1 : r[i] = v[i]
      BY <2>1, <3>1, InsertAtFacts
    <3>5. \A i \in k + 1 .. Len(v) + 1 : r[i] = v[i - 1]
      BY <2>1, <3>1, InsertAtFacts
    <3> QED BY <3>2, <3>3, <3>4, <3>5
  <2> HIDE DEF r
  <2>7. \A i \in 1 .. k - 1 : keys[i] <= key
    <3> TAKE i \in 1 .. k - 1
    <3>1. i \in 1 .. Len(v) /\ ~(k <= i)
      BY <1>1, <2>5
    <3>2. i \notin greater
      BY <2>4, <3>1
    <3> QED BY <1>1, <3>1, <3>2
  <2>8. \A i \in k + 1 .. Len(v) + 1 : keys[i - 1] > key
    <3> TAKE i \in k + 1 .. Len(v) + 1
    <3>1. i - 1 \in 1 .. Len(v) /\ (k = i - 1 \/ k < i - 1)
      BY <1>1, <2>5
    <3>2. k = i - 1 \/ keys[k] <= keys[i - 1]
      BY <1>0, <2>5, <3>1
    <3> QED BY <1>1, <2>5, <3>1, <3>2
  <2>9. k \in 1 .. Len(v) + 1
    BY <1>1, <2>5
  <2> QED BY <2>6, <2>7, <2>8, <2>9 DEF r, Inserted
<1> QED BY <1>2, <1>3
-----------------------------------------------------------------------------
(* The invariant *)

Output == [assoc : 0 .. 15, outputs : Seq(Widget), cap : Nat]

WidgetsTyped == \A w \in Widget : widgets[w] \in WidgetRecord

\* The counters are inside the codec's function groups and their widgets.
Counters ==
    /\ group \in 0 .. 255 /\ item \in 0 .. 255
    /\ pc \in {"group", "widget"} => group \in codec.first .. codec.first + Len(codec.groups)
    /\ pc = "widget" => /\ GroupsLeft
                        /\ item \in Group.start .. Group.start + Len(Group.widgets)

\* What is empty until it is its turn.
Order ==
    /\ pc \in {"codec", "group", "widget", "search", "outputs", "ready", "failed"}
    /\ pc \in {"codec", "group", "widget", "failed"} => turn = 0 /\ stack = <<>> /\ paths = <<>>
    /\ pc \in {"codec", "group", "widget", "search", "failed"} => placed = 0 /\ outputGroups = <<>>
    /\ pc # "ready" => active = {}

GroupsInv == outputGroups \in Seq(Output) /\ GroupsSorted

Data == /\ WidgetsTyped /\ SearchInv /\ ClientInv
        /\ placed \in 0 .. Len(outputNids)
        /\ GroupsInv

Inv == codec \in Codecs /\ Order /\ Counters /\ Data

\* What CodecAssumption says of the codec.
LEMMA CodecFacts ==
    ASSUME codec \in Codecs
    PROVE  /\ codec.first \in 1 .. 255 /\ codec.groups \in Seq(FunctionGroup)
           /\ codec.first + Len(codec.groups) <= 255
           /\ \A i \in 1 .. Len(codec.groups) :
                /\ codec.groups[i].start \in 1 .. 255
                /\ codec.groups[i].widgets \in Seq(WidgetAnswers)
                /\ codec.groups[i].start + Len(codec.groups[i].widgets) <= 255
<1>1. CodecAssumption(codec)
  BY CodecsAssumption
<1>2. codec.first \in 1 .. 255 /\ codec.groups \in Seq(FunctionGroup)
      /\ codec.first + Len(codec.groups) <= 255
  BY <1>1 DEF CodecAssumption
<1>3. DOMAIN codec.groups = 1 .. Len(codec.groups)
  BY <1>2
<1>4. \A i \in 1 .. Len(codec.groups) : codec.groups[i] \in FunctionGroup
  BY <1>2
<1>5. \A i \in 1 .. Len(codec.groups) : codec.groups[i].start \in 1 .. 255
                                        /\ codec.groups[i].widgets \in Seq(WidgetAnswers)
  BY <1>4 DEF FunctionGroup
<1> QED BY <1>1, <1>2, <1>3, <1>5 DEF CodecAssumption

\* The function group at the counter.
LEMMA GroupFacts ==
    ASSUME codec \in Codecs, GroupsLeft, group \in codec.first .. codec.first + Len(codec.groups)
    PROVE  /\ group \in 1 .. 254 /\ NextByte(group) = group + 1
           /\ group + 1 \in codec.first .. codec.first + Len(codec.groups)
           /\ Group.start \in 1 .. 255 /\ Group.widgets \in Seq(WidgetAnswers)
           /\ Group.start + Len(Group.widgets) <= 255
<1>1. /\ codec.first \in 1 .. 255 /\ Len(codec.groups) \in Nat
      /\ codec.first + Len(codec.groups) <= 255
      /\ group < codec.first + Len(codec.groups)
  BY CodecFacts DEF GroupsLeft
<1>2. group \in 1 .. 254 /\ group + 1 \in codec.first .. codec.first + Len(codec.groups)
      /\ group - codec.first + 1 \in 1 .. Len(codec.groups)
  <2> DEFINE f == codec.first
             n == Len(codec.groups)
  <2>1. f \in 1 .. 255 /\ n \in Nat /\ f + n <= 255 /\ group \in f .. f + n /\ group < f + n
    BY <1>1
  <2> HIDE DEF f, n
  <2>2. group \in 1 .. 254 /\ group + 1 \in f .. f + n /\ group - f + 1 \in 1 .. n
    BY <2>1
  <2> QED BY <2>2 DEF f, n
<1>3. NextByte(group) = group + 1
  BY <1>2 DEF NextByte
<1> QED BY <1>2, <1>3, CodecFacts DEF Group

\* Nothing is known of a codec before it is enumerated, and after a failure.
Blank == /\ widgets = <<>> /\ outputNids = <<>>
         /\ turn = 0 /\ stack = <<>> /\ paths = <<>> /\ active = {}
         /\ placed = 0 /\ outputGroups = <<>>

\* A codec of which nothing is known meets the invariant.
LEMMA BlankData == Blank => Data
<1> SUFFICES ASSUME Blank PROVE Data
  OBVIOUS
<1>0. /\ widgets = <<>> /\ outputNids = <<>>
      /\ turn = 0 /\ stack = <<>> /\ paths = <<>> /\ active = {}
      /\ placed = 0 /\ outputGroups = <<>>
  BY DEF Blank
<1>1. Widget = {}
  BY <1>0 DEF Widget
<1>2. CodecTyped
  BY <1>0, <1>1 DEF CodecTyped
<1>3. ChainOK(stack)
  BY <1>0, DepthAssumption DEF ChainOK
<1>4. SearchInv
  BY <1>0, <1>2, <1>3 DEF SearchInv
<1>5. ClientInv
  BY <1>0 DEF ClientInv, InUse
<1>6. GroupsInv
  BY <1>0 DEF GroupsInv, GroupsSorted
<1>7. WidgetsTyped
  BY <1>1 DEF WidgetsTyped
<1> QED BY <1>0, <1>4, <1>5, <1>6, <1>7 DEF Data

\* init() starts with such a codec.
LEMMA InitInv == ASSUME Init PROVE Inv
<1>1. /\ codec \in Codecs /\ pc = "codec" /\ group = 0 /\ item = 0
      /\ widgets = <<>> /\ outputNids = <<>> /\ turn = 0 /\ stack = <<>> /\ paths = <<>> /\ active = {}
      /\ placed = 0 /\ outputGroups = <<>>
  BY DEF Init
<1>2. Order /\ Counters
  BY <1>1 DEF Order, Counters
<1> QED BY <1>1, <1>2, BlankData DEF Inv, Blank
-----------------------------------------------------------------------------
(* Groups and outputs in order *)

AssocSorted(gs) == \A i \in DOMAIN gs : \A j \in 1 .. i - 1 :
    /\ gs[j].assoc <= gs[i].assoc
    /\ gs[j].assoc = gs[i].assoc => gs[i].assoc = 15

OutputsSorted(o) == \A a, b \in DOMAIN o : a < b => SequenceOf(o[a]) <= SequenceOf(o[b])

Among(r, gs, e) == \A i \in DOMAIN r : r[i] = e \/ \E j \in DOMAIN gs : r[i] = gs[j]

\* GroupsSorted in its two parts.
LEMMA SortedParts ==
    GroupsSorted <=> /\ AssocSorted(outputGroups)
                     /\ \A i \in DOMAIN outputGroups : OutputsSorted(outputGroups[i].outputs)
BY DEF GroupsSorted, AssocSorted, OutputsSorted

\* Sequence and association are of 4 bits.
LEMMA SequenceType == ASSUME WidgetsTyped, NEW w \in Widget
                      PROVE SequenceOf(w) \in 0 .. 15 /\ widgets[w].assoc \in 0 .. 15
<1>1. widgets[w] \in WidgetRecord
  BY DEF WidgetsTyped
<1> QED BY <1>1 DEF WidgetRecord, SequenceOf

\* Their keys are in the order of sorted groups and outputs.
LEMMA SequencesRising ==
    ASSUME WidgetsTyped, NEW o \in Seq(Widget), OutputsSorted(o)
    PROVE  /\ RisingKeys(o, Sequences(o))
           /\ \A i \in 1 .. Len(o) : Sequences(o)[i] = SequenceOf(o[i])
<1> DEFINE keys == Sequences(o)
<1>1. Len(o) \in Nat /\ DOMAIN o = 1 .. Len(o) /\ \A i \in 1 .. Len(o) : o[i] \in Widget
  OBVIOUS
<1>2. \A i \in 1 .. Len(o) : SequenceOf(o[i]) \in Int
  BY <1>1, SequenceType
<1>3. keys = [i \in 1 .. Len(o) |-> SequenceOf(o[i])]
  BY <1>1 DEF Sequences
<1> HIDE DEF keys
<1>4. keys \in Seq(Int) /\ Len(keys) = Len(o) /\ \A i \in 1 .. Len(o) : keys[i] = SequenceOf(o[i])
  BY <1>1, <1>2, <1>3
<1>5. RisingKeys(o, keys)
  BY <1>1, <1>4 DEF RisingKeys, OutputsSorted
<1> QED BY <1>4, <1>5 DEF keys

LEMMA AssocsRising ==
    ASSUME NEW gs \in Seq(Output), AssocSorted(gs),
           NEW keys, keys = [i \in DOMAIN gs |-> gs[i].assoc]
    PROVE  /\ RisingKeys(gs, keys)
           /\ \A i \in 1 .. Len(gs) : keys[i] = gs[i].assoc /\ gs[i].assoc \in Int
<1>1. Len(gs) \in Nat /\ DOMAIN gs = 1 .. Len(gs)
  OBVIOUS
<1>2. \A i \in 1 .. Len(gs) : gs[i].assoc \in Int
  <2>1. \A x \in Output : x.assoc \in Int
    BY DEF Output
  <2> QED BY <2>1
<1>3. keys \in Seq(Int) /\ Len(keys) = Len(gs) /\ \A i \in 1 .. Len(gs) : keys[i] = gs[i].assoc
  BY <1>1, <1>2
<1>4. ASSUME NEW i \in 1 .. Len(gs), NEW j \in 1 .. Len(gs), i < j
      PROVE  keys[i] <= keys[j]
  <2>1. i \in 1 .. j - 1
    BY <1>4
  <2> QED BY <1>1, <1>3, <2>1 DEF AssocSorted
<1> QED BY <1>2, <1>3, <1>4 DEF RisingKeys

\* An output joins a group behind those of its sequence.
LEMMA JoinSorted ==
    ASSUME WidgetsTyped, NEW o \in Seq(Widget), OutputsSorted(o), NEW w \in Widget,
           NEW r, r = InOrder(o, w, Sequences(o), SequenceOf(w))
    PROVE  r \in Seq(Widget) /\ OutputsSorted(r)
<1> DEFINE keys == Sequences(o)
           key == SequenceOf(w)
<1>1. Len(o) \in Nat /\ DOMAIN o = 1 .. Len(o) /\ \A i \in 1 .. Len(o) : o[i] \in Widget
  OBVIOUS
<1>2. \A i \in 1 .. Len(o) : SequenceOf(o[i]) \in Int
  BY <1>1, SequenceType
<1>4. key \in Int
  BY SequenceType
<1>5. /\ \A i \in 1 .. Len(o) : keys[i] = SequenceOf(o[i])
      /\ RisingKeys(o, keys)
  BY SequencesRising
<1>6. RisingKeys(o, keys)
  BY <1>5
<1> HIDE DEF keys, key
<1>7. r = InOrder(o, w, keys, key)
  BY DEF keys, key
<1>8. /\ r \in Seq(Widget) /\ Len(r) = Len(o) + 1
      /\ \E k \in 1 .. Len(o) + 1 :
           /\ r[k] = w
           /\ \A i \in 1 .. k - 1 : r[i] = o[i] /\ keys[i] <= key
           /\ \A i \in k + 1 .. Len(o) + 1 : r[i] = o[i - 1] /\ keys[i - 1] > key
  <2>1. Inserted(Widget, o, w, keys, key, r)
    BY <1>4, <1>6, <1>7, InOrderFacts
  <2> QED BY <2>1 DEF Inserted
<1>9. PICK k \in 1 .. Len(o) + 1 :
           /\ r[k] = w
           /\ \A i \in 1 .. k - 1 : r[i] = o[i] /\ keys[i] <= key
           /\ \A i \in k + 1 .. Len(o) + 1 : r[i] = o[i - 1] /\ keys[i - 1] > key
  BY <1>8
<1>10. ASSUME NEW a \in 1 .. Len(o) + 1, NEW b \in 1 .. Len(o) + 1, a < b
       PROVE  SequenceOf(r[a]) <= SequenceOf(r[b])
  <2>1. CASE b < k
    <3>1. a \in 1 .. k - 1 /\ b \in 1 .. k - 1 /\ a \in 1 .. Len(o) /\ b \in 1 .. Len(o)
      BY <1>1, <1>10, <2>1
    <3> QED BY <1>1, <1>9, <1>10, <3>1 DEF OutputsSorted
  <2>2. CASE b = k
    <3>1. a \in 1 .. k - 1 /\ a \in 1 .. Len(o)
      BY <1>1, <1>10, <2>2
    <3> QED BY <1>5, <1>9, <2>2, <3>1 DEF key
  <2>3. CASE a = k
    <3>1. b \in k + 1 .. Len(o) + 1 /\ b - 1 \in 1 .. Len(o)
      BY <1>1, <1>10, <2>3
    <3>2. r[b] = o[b - 1] /\ keys[b - 1] > key /\ keys[b - 1] = SequenceOf(o[b - 1]) /\ keys[b - 1] \in Int
      BY <1>2, <1>5, <1>9, <3>1
    <3>3. key <= keys[b - 1]
      BY <1>4, <3>2
    <3> QED BY <1>9, <2>3, <3>2, <3>3 DEF key
  <2>4. CASE a < k /\ k < b
    <3>1. a \in 1 .. k - 1 /\ a \in 1 .. Len(o) /\ b \in k + 1 .. Len(o) + 1 /\ b - 1 \in 1 .. Len(o)
          /\ (a = b - 1 \/ a < b - 1)
      BY <1>1, <1>10, <2>4
    <3>2. r[a] = o[a] /\ r[b] = o[b - 1]
      BY <1>9, <3>1
    <3>3. SequenceOf(o[a]) <= SequenceOf(o[b - 1])
      BY <1>1, <1>2, <3>1 DEF OutputsSorted
    <3> QED BY <3>2, <3>3
  <2>5. CASE k < a
    <3>1. a \in k + 1 .. Len(o) + 1 /\ b \in k + 1 .. Len(o) + 1
          /\ a - 1 \in 1 .. Len(o) /\ b - 1 \in 1 .. Len(o) /\ a - 1 < b - 1
      BY <1>1, <1>10, <2>5
    <3>2. r[a] = o[a - 1] /\ r[b] = o[b - 1]
      BY <1>9, <3>1
    <3> QED BY <1>1, <3>1, <3>2 DEF OutputsSorted
  <2>6. b < k \/ b = k \/ a = k \/ (a < k /\ k < b) \/ k < a
    BY <1>1, <1>9, <1>10
  <2> QED BY <2>1, <2>2, <2>3, <2>4, <2>5, <2>6
<1>11. DOMAIN r = 1 .. Len(o) + 1
  BY <1>8
<1> QED BY <1>8, <1>10, <1>11 DEF OutputsSorted

\* A group of a new association comes before the first of a greater one.
LEMMA NewSorted ==
    ASSUME NEW gs \in Seq(Output), AssocSorted(gs), NEW e \in Output,
           \A i \in DOMAIN gs : gs[i].assoc # e.assoc,
           NEW keys, keys = [i \in DOMAIN gs |-> gs[i].assoc],
           NEW r, r = InOrder(gs, e, keys, e.assoc)
    PROVE  r \in Seq(Output) /\ AssocSorted(r) /\ Among(r, gs, e)
<1> DEFINE key == e.assoc
<1>1. Len(gs) \in Nat /\ DOMAIN gs = 1 .. Len(gs)
  OBVIOUS
<1>2. key \in Int /\ \A i \in 1 .. Len(gs) : gs[i].assoc \in Int
  <2>1. \A x \in Output : x.assoc \in Int
    BY DEF Output
  <2> QED BY <2>1
<1> HIDE DEF key
<1>3. \A i \in 1 .. Len(gs) : keys[i] = gs[i].assoc
  BY AssocsRising
<1>4. RisingKeys(gs, keys)
  BY AssocsRising
<1>5. r = InOrder(gs, e, keys, key)
  BY DEF key
<1>6. /\ r \in Seq(Output) /\ Len(r) = Len(gs) + 1
      /\ \E k \in 1 .. Len(gs) + 1 :
           /\ r[k] = e
           /\ \A i \in 1 .. k - 1 : r[i] = gs[i] /\ keys[i] <= key
           /\ \A i \in k + 1 .. Len(gs) + 1 : r[i] = gs[i - 1] /\ keys[i - 1] > key
  <2>1. Inserted(Output, gs, e, keys, key, r)
    BY <1>2, <1>4, <1>5, InOrderFacts
  <2> QED BY <2>1 DEF Inserted
<1>7. PICK k \in 1 .. Len(gs) + 1 :
           /\ r[k] = e
           /\ \A i \in 1 .. k - 1 : r[i] = gs[i] /\ keys[i] <= key
           /\ \A i \in k + 1 .. Len(gs) + 1 : r[i] = gs[i - 1] /\ keys[i - 1] > key
  BY <1>6
<1>8. DOMAIN r = 1 .. Len(gs) + 1
  BY <1>6
<1>9. \A i \in DOMAIN r : r[i] = e \/ \E j \in DOMAIN gs : r[i] = gs[j]
  <2> TAKE i \in DOMAIN r
  <2>1. i = k \/ (i \in 1 .. k - 1 /\ i \in 1 .. Len(gs)) \/ (i \in k + 1 .. Len(gs) + 1 /\ i - 1 \in 1 .. Len(gs))
    BY <1>1, <1>8
  <2> QED BY <1>1, <1>7, <2>1
<1>10. ASSUME NEW b \in 1 .. Len(gs) + 1, NEW a \in 1 .. b - 1
       PROVE  /\ r[a].assoc <= r[b].assoc
              /\ r[a].assoc = r[b].assoc => r[b].assoc = 15
  <2>1. CASE b < k
    <3>1. a \in 1 .. k - 1 /\ b \in 1 .. k - 1 /\ b \in 1 .. Len(gs)
      BY <1>1, <1>10, <2>1
    <3> QED BY <1>1, <1>7, <1>10, <3>1 DEF AssocSorted
  <2>2. CASE b = k
    <3>1. a \in 1 .. k - 1 /\ a \in 1 .. Len(gs)
      BY <1>1, <1>10, <2>2
    <3>2. r[a] = gs[a] /\ gs[a].assoc <= key /\ gs[a].assoc # key
      BY <1>1, <1>3, <1>7, <3>1 DEF key
    <3> QED BY <1>7, <2>2, <3>2 DEF key
  <2>3. CASE a = k
    <3>1. b \in k + 1 .. Len(gs) + 1 /\ b - 1 \in 1 .. Len(gs)
      BY <1>1, <1>10, <2>3
    <3>2. r[b] = gs[b - 1] /\ gs[b - 1].assoc > key /\ gs[b - 1].assoc \in Int
      BY <1>2, <1>3, <1>7, <3>1
    <3>3. key <= gs[b - 1].assoc /\ key # gs[b - 1].assoc
      BY <1>2, <3>2
    <3> QED BY <1>7, <2>3, <3>2, <3>3 DEF key
  <2>4. CASE a < k /\ k < b
    <3>1. a \in 1 .. k - 1 /\ a \in 1 .. Len(gs) /\ b \in k + 1 .. Len(gs) + 1 /\ b - 1 \in 1 .. Len(gs)
      BY <1>1, <1>10, <2>4
    <3>2. /\ r[a] = gs[a] /\ gs[a].assoc <= key /\ gs[a].assoc # key
          /\ r[b] = gs[b - 1] /\ gs[b - 1].assoc > key
          /\ gs[a].assoc \in Int /\ gs[b - 1].assoc \in Int
      BY <1>1, <1>2, <1>3, <1>7, <3>1 DEF key
    <3>3. gs[a].assoc <= gs[b - 1].assoc /\ gs[a].assoc # gs[b - 1].assoc
      BY <1>2, <3>2
    <3> QED BY <3>2, <3>3
  <2>5. CASE k < a
    <3>1. a \in k + 1 .. Len(gs) + 1 /\ b \in k + 1 .. Len(gs) + 1
          /\ b - 1 \in 1 .. Len(gs) /\ a - 1 \in 1 .. b - 1 - 1
      BY <1>1, <1>10, <2>5
    <3>2. r[a] = gs[a - 1] /\ r[b] = gs[b - 1]
      BY <1>7, <3>1
    <3> QED BY <1>1, <3>1, <3>2 DEF AssocSorted
  <2>6. b < k \/ b = k \/ a = k \/ (a < k /\ k < b) \/ k < a
    BY <1>1, <1>7, <1>10
  <2> QED BY <2>1, <2>2, <2>3, <2>4, <2>5, <2>6
<1>11. AssocSorted(r)
  BY <1>8, <1>10 DEF AssocSorted
<1> QED BY <1>6, <1>9, <1>11 DEF Among
-----------------------------------------------------------------------------
(* The steps of init() *)

\* The invariant of the data does not depend on the counters.
LEMMA DataFrame ==
    ASSUME Data, UNCHANGED <<codecVars, search, active, placed, outputGroups>>
    PROVE  Data'
<1>1. /\ UNCHANGED codecVars /\ widgets' = widgets /\ outputNids' = outputNids
      /\ turn' = turn /\ stack' = stack /\ paths' = paths /\ active' = active
      /\ placed' = placed /\ outputGroups' = outputGroups
  BY DEF codecVars, search
<1>2. WidgetsTyped'
  BY <1>1 DEF Data, WidgetsTyped, Widget
<1>3. SearchInv'
  BY <1>1, SameCodec DEF Data, SearchInv
<1>4. ClientInv'
  BY <1>1 DEF Data, ClientInv, InUse, Clash
<1>5. GroupsInv'
  BY <1>1 DEF Data, GroupsInv, Output, Widget, GroupsSorted, SequenceOf
<1> QED BY <1>1, <1>2, <1>3, <1>4, <1>5 DEF Data

\* Steps that change the counters, and what pc says of the rest.
LEMMA ReadingInv ==
    ASSUME Inv, ReadRoot \/ SkipGroup \/ EnterGroup \/ LeaveGroup \/ GroupsRead
    PROVE  Inv'
<1>1. UNCHANGED codec /\ UNCHANGED <<codecVars, search, active, placed, outputGroups>>
  BY DEF ReadRoot, SkipGroup, EnterGroup, LeaveGroup, GroupsRead, loops, grouping
<1>2. Data'
  BY <1>1, DataFrame DEF Inv
<1>3. turn' = turn /\ stack' = stack /\ paths' = paths /\ active' = active
      /\ placed' = placed /\ outputGroups' = outputGroups /\ codec' = codec /\ codec \in Codecs
  BY <1>1 DEF search, Inv
<1>4. Order /\ Counters
  BY DEF Inv
<1>5. CASE ReadRoot
  <2>1. pc = "codec" /\ pc' = "group" /\ group' = codec.first /\ item' = item
    BY <1>5 DEF ReadRoot
  <2>2. codec.first \in 1 .. 255 /\ codec.first \in codec.first .. codec.first + Len(codec.groups)
    <3> DEFINE f == codec.first
               n == Len(codec.groups)
    <3>1. codec.first \in 1 .. 255 /\ codec.groups \in Seq(FunctionGroup)
      BY <1>3, CodecFacts
    <3>2. f \in 1 .. 255 /\ n \in Nat
      BY <3>1
    <3> HIDE DEF f, n
    <3>3. f \in 1 .. 255 /\ f \in f .. f + n
      BY <3>2
    <3> QED BY <3>3 DEF f, n
  <2>3. Counters'
    BY <1>3, <1>4, <2>1, <2>2 DEF Counters
  <2> QED BY <1>2, <1>3, <1>4, <2>1, <2>3 DEF Inv, Order
<1>6. CASE SkipGroup
  <2>1. pc = "group" /\ pc' = "group" /\ group' = NextByte(group) /\ item' = item /\ GroupsLeft
    BY <1>6 DEF SkipGroup
  <2>2. group + 1 \in 0 .. 255 /\ NextByte(group) = group + 1
        /\ group + 1 \in codec.first .. codec.first + Len(codec.groups)
    BY <1>3, <1>4, <2>1, GroupFacts DEF Counters
  <2>3. Counters'
    BY <1>3, <1>4, <2>1, <2>2 DEF Counters
  <2> QED BY <1>2, <1>3, <1>4, <2>1, <2>3 DEF Inv, Order
<1>7. CASE EnterGroup
  <2>1. pc = "group" /\ pc' = "widget" /\ group' = group /\ item' = Group.start /\ GroupsLeft
    BY <1>7 DEF EnterGroup
  <2>2. Group.start \in 1 .. 255 /\ Group.start \in Group.start .. Group.start + Len(Group.widgets)
    <3> DEFINE f == Group.start
               n == Len(Group.widgets)
    <3>0. group \in codec.first .. codec.first + Len(codec.groups)
      BY <1>4, <2>1 DEF Counters
    <3>1. Group.start \in 1 .. 255 /\ Group.widgets \in Seq(WidgetAnswers)
      BY <1>3, <2>1, <3>0, GroupFacts
    <3>2. f \in 1 .. 255 /\ n \in Nat
      BY <3>1
    <3> HIDE DEF f, n
    <3>3. f \in 1 .. 255 /\ f \in f .. f + n
      BY <3>2
    <3> QED BY <3>3 DEF f, n
  <2>3. Group' = Group /\ GroupsLeft' = GroupsLeft
    BY <1>3, <2>1 DEF Group, GroupsLeft
  <2>4. Counters'
    BY <1>3, <1>4, <2>1, <2>2, <2>3 DEF Counters
  <2> QED BY <1>2, <1>3, <1>4, <2>1, <2>4 DEF Inv, Order
<1>8. CASE LeaveGroup
  <2>1. pc = "widget" /\ pc' = "group" /\ group' = NextByte(group) /\ item' = item
    BY <1>8 DEF LeaveGroup
  <2>2. group + 1 \in 0 .. 255 /\ NextByte(group) = group + 1
        /\ group + 1 \in codec.first .. codec.first + Len(codec.groups)
    BY <1>3, <1>4, <2>1, GroupFacts DEF Counters
  <2>3. Counters'
    BY <1>3, <1>4, <2>1, <2>2 DEF Counters
  <2> QED BY <1>2, <1>3, <1>4, <2>1, <2>3 DEF Inv, Order
<1>9. CASE GroupsRead
  <2>1. pc = "group" /\ pc' = "search" /\ group' = group /\ item' = item
    BY <1>9 DEF GroupsRead, loops
  <2>2. Counters'
    BY <1>3, <1>4, <2>1 DEF Counters
  <2> QED BY <1>2, <1>3, <1>4, <2>1, <2>2 DEF Inv, Order
<1> QED BY <1>5, <1>6, <1>7, <1>8, <1>9

\* A widget is stored, with holes before it if there is no group in between.
LEMMA ReadWidgetInv == ASSUME Inv, ReadWidget PROVE Inv'
<1>1. /\ codec \in Codecs /\ Order /\ Counters /\ Data
      /\ pc = "widget" /\ pc' = "widget" /\ WidgetsLeft /\ codec' = codec /\ group' = group
      /\ widgets' = Stored(item, Fields(Read, item))
      /\ outputNids' = IF IsPin(Read) THEN Append(outputNids, item) ELSE outputNids
      /\ item' = NextByte(item)
      /\ turn' = turn /\ stack' = stack /\ paths' = paths /\ active' = active
      /\ placed' = placed /\ outputGroups' = outputGroups
  BY DEF Inv, ReadWidget, search, grouping
<1>2. turn = 0 /\ stack = <<>> /\ paths = <<>> /\ active = {} /\ placed = 0 /\ outputGroups = <<>>
  BY <1>1 DEF Order
<1>3. /\ GroupsLeft /\ group \in codec.first .. codec.first + Len(codec.groups)
      /\ item \in Group.start .. Group.start + Len(Group.widgets)
  BY <1>1 DEF Counters
<1>4. Group.start \in 1 .. 255 /\ Group.widgets \in Seq(WidgetAnswers)
      /\ Group.start + Len(Group.widgets) <= 255
  BY <1>1, <1>3, GroupFacts
<1>5. /\ item \in 1 .. 254 /\ item + 1 \in Group.start .. Group.start + Len(Group.widgets)
      /\ item - Group.start + 1 \in 1 .. Len(Group.widgets)
  <2> DEFINE f == Group.start
             n == Len(Group.widgets)
  <2>1. f \in 1 .. 255 /\ n \in Nat /\ f + n <= 255 /\ item \in f .. f + n /\ item < f + n
    BY <1>1, <1>3, <1>4 DEF WidgetsLeft
  <2> HIDE DEF f, n
  <2>2. item \in 1 .. 254 /\ item + 1 \in f .. f + n /\ item - f + 1 \in 1 .. n
    BY <2>1
  <2> QED BY <2>2 DEF f, n
<1>6. NextByte(item) = item + 1
  BY <1>5 DEF NextByte
<1>7. Fields(Read, item) \in WidgetRecord
  <2>1. Read \in WidgetAnswers
    BY <1>4, <1>5 DEF Read
  <2>2. Read.kind \in Kind /\ Read.conns \in Seq(Connection) /\ Read.assoc \in 0 .. 15 /\ Read.seq \in 0 .. 15
    BY <2>1 DEF WidgetAnswers
  <2>3. ReadList(Read.conns) \in Seq(Connection)
    BY <2>2, ReadListExact
  <2>4. item \in 0 .. 255
    BY <1>5
  <2> QED BY <2>2, <2>3, <2>4 DEF Fields, WidgetRecord
<1>8. Hole \in WidgetRecord
  BY DEF Hole, WidgetRecord, Kind
<1>9. Widget' = Widget \cup 0 .. item /\ Widget \subseteq 0 .. 255 /\ outputNids \in Seq(Widget)
      /\ \A w \in Widget : widgets[w] \in WidgetRecord
  BY <1>1 DEF Stored, Widget, Data, WidgetsTyped, SearchInv, CodecTyped
<1>10. \A w \in Widget' : widgets'[w] \in WidgetRecord
  <2> TAKE w \in Widget'
  <2>1. widgets'[w] = IF w = item THEN Fields(Read, item) ELSE IF w \in Widget THEN widgets[w] ELSE Hole
    BY <1>1, <1>9 DEF Stored
  <2> QED BY <1>7, <1>8, <1>9, <2>1
<1>11. WidgetsTyped'
  BY <1>10 DEF WidgetsTyped
<1>12. CodecTyped'
  <2>1. Widget' \subseteq 0 .. 255 /\ item \in Widget'
    BY <1>5, <1>9
  <2>2. outputNids \in Seq(Widget')
    BY <1>9
  <2>3. outputNids' \in Seq(Widget')
    BY <1>1, <2>1, <2>2
  <2>4. \A w \in Widget' : Conns(w)' \in Seq(Connection)
    BY <1>10 DEF Conns, WidgetRecord
  <2> QED BY <2>1, <2>3, <2>4 DEF CodecTyped
<1>13. SearchInv'
  <2>1. ChainOK(stack)'
    BY <1>1, <1>2, DepthAssumption DEF ChainOK
  <2>2. Len(outputNids') \in Nat
    BY <1>12 DEF CodecTyped
  <2> QED BY <1>1, <1>2, <1>12, <2>1, <2>2 DEF SearchInv
<1>14. ClientInv'
  BY <1>1, <1>2 DEF ClientInv, InUse
<1>15. GroupsInv'
  BY <1>1, <1>2 DEF GroupsInv, GroupsSorted
<1>16. placed' \in 0 .. Len(outputNids')
  <2>1. Len(outputNids') \in Nat
    BY <1>12 DEF CodecTyped
  <2> QED BY <1>1, <1>2, <2>1
<1>17. Counters'
  <2>1. Group' = Group /\ GroupsLeft' = GroupsLeft
    BY <1>1 DEF Group, GroupsLeft
  <2>2. group \in 0 .. 255 /\ item + 1 \in 0 .. 255
    BY <1>1, <1>5 DEF Counters
  <2> QED BY <1>1, <1>3, <1>5, <1>6, <2>1, <2>2 DEF Counters
<1> QED BY <1>1, <1>2, <1>11, <1>13, <1>14, <1>15, <1>16, <1>17 DEF Inv, Data, Order

\* A codec that fails is gone with all that it held.
LEMMA FailInv == ASSUME Inv, Fail PROVE Inv'
<1>1. pc # "ready"
  BY DEF Fail, ReadFails, SearchFails, Grows, Looking, OutputFails, GroupFails, JoinFails, Eligible,
         Inv, Order
<1>2. active = {} /\ codec \in Codecs
  BY <1>1 DEF Inv, Order
<1>3. Discarded /\ outputGroups' = <<>> /\ placed' = 0 /\ group' = 0 /\ item' = 0 /\ codec' = codec
  BY DEF Fail, ReadFails, SearchFails, OutputFails, GroupFails, JoinFails, Abandon
<1>4. pc' = "failed" /\ Blank'
  BY <1>2, <1>3 DEF Discarded, Blank
<1>5. Data'
  BY <1>4, BlankData, PTL
<1>6. Order' /\ Counters'
  BY <1>3, <1>4 DEF Order, Counters, Blank
<1> QED BY <1>2, <1>3, <1>5, <1>6 DEF Inv

\* The steps of the search inside init().
LEMMA SearchingInv == ASSUME Inv, Searching PROVE Inv'
<1>1. codec' = codec /\ group' = group /\ item' = item /\ placed' = placed /\ outputGroups' = outputGroups
      /\ pc = "search" /\ active' = active
  BY DEF Searching, Searched, SearchStep, NextPin, Pop, Skip, Found, Descend, Looking, loops, grouping
<1>2. codec \in Codecs /\ Order /\ Counters /\ Data
  BY DEF Inv
<1>3. active = {} /\ placed = 0 /\ outputGroups = <<>>
  BY <1>1, <1>2 DEF Order
<1>4. SUFFICES /\ pc' \in {"search", "outputs"} /\ widgets' = widgets /\ outputNids' = outputNids
               /\ SearchInv'
  <2> SUFFICES ASSUME pc' \in {"search", "outputs"}, widgets' = widgets, outputNids' = outputNids, SearchInv'
               PROVE Inv'
    OBVIOUS
  <2>1. Order' /\ Counters'
    BY <1>1, <1>2, <1>3 DEF Order, Counters
  <2>2. WidgetsTyped' /\ GroupsInv'
    BY <1>1, <1>2, <1>3 DEF Data, WidgetsTyped, Widget, GroupsInv, GroupsSorted
  <2>3. ClientInv'
    BY <1>1, <1>3 DEF ClientInv, InUse
  <2> QED BY <1>1, <1>2, <2>1, <2>2, <2>3 DEF Inv, Data
<1>5. CASE SearchStep
  BY <1>2, <1>5, SearchStepInv DEF Data, codecVars
<1>6. CASE Searched /\ pc' = "outputs" /\ UNCHANGED <<codecVars, search, active, loops, grouping>>
  BY <1>2, <1>6, DataFrame DEF Data, codecVars, grouping
<1> QED BY <1>5, <1>6 DEF Searching

\* The output that is next: a pin, in a group of its association.
LEMMA OutFacts ==
    ASSUME Data, Eligible
    PROVE  /\ Out \in Widget /\ Assoc \in 0 .. 15 /\ New \in Output /\ New.assoc = Assoc
           /\ New.outputs = <<Out>> /\ placed + 1 \in 0 .. Len(outputNids)
<1>1. outputNids \in Seq(Widget) /\ placed \in 0 .. Len(outputNids) /\ placed < Len(outputNids)
  BY DEF Data, SearchInv, CodecTyped, Eligible, OutsLeft
<1>2. placed + 1 \in 1 .. Len(outputNids)
  BY <1>1
<1>3. Out \in Widget
  BY <1>1, <1>2 DEF Out
<1>4. Assoc \in 0 .. 15
  BY <1>3, SequenceType DEF Data, Assoc
<1>5. New \in Output /\ New.assoc = Assoc /\ New.outputs = <<Out>>
  BY <1>3, <1>4, CapAssumption DEF New, Output
<1> QED BY <1>1, <1>2, <1>3, <1>4, <1>5

\* A group of one output is sorted.
LEMMA OneSorted == ASSUME NEW w PROVE OutputsSorted(<<w>>)
<1>1. DOMAIN <<w>> = {1}
  OBVIOUS
<1> QED BY <1>1 DEF OutputsSorted

\* A step of the last loop keeps the invariant if the groups it leaves are sorted.
LEMMA GroupingFrame ==
    ASSUME Inv, UNCHANGED <<loops, codecVars, search, active>>,
           pc = "outputs", pc' \in {"outputs", "ready"},
           placed' \in 0 .. Len(outputNids), GroupsInv'
    PROVE  Inv'
<1>1. /\ codec' = codec /\ group' = group /\ item' = item /\ UNCHANGED codecVars
      /\ widgets' = widgets /\ outputNids' = outputNids
      /\ turn' = turn /\ stack' = stack /\ paths' = paths /\ active' = active
  BY DEF loops, codecVars, search
<1>2. codec \in Codecs /\ Order /\ Counters /\ Data
  BY DEF Inv
<1>3. Order' /\ Counters'
  BY <1>1, <1>2 DEF Order, Counters
<1>4. WidgetsTyped'
  BY <1>1, <1>2 DEF Data, WidgetsTyped, Widget
<1>5. SearchInv'
  BY <1>1, <1>2, SameCodec DEF Data, SearchInv
<1>6. ClientInv'
  BY <1>1, <1>2 DEF Data, ClientInv, InUse, Clash
<1> QED BY <1>1, <1>2, <1>3, <1>4, <1>5, <1>6 DEF Inv, Data

\* What GroupsInv' is, since the widgets do not change.
LEMMA GroupsKept ==
    ASSUME widgets' = widgets, outputGroups' \in Seq(Output), AssocSorted(outputGroups'),
           \A i \in DOMAIN outputGroups' : OutputsSorted(outputGroups'[i].outputs)
    PROVE  GroupsInv'
BY DEF GroupsInv, Output, Widget, GroupsSorted, AssocSorted, OutputsSorted, SequenceOf

\* An independent output is appended: no association is above 15.
LEMMA IndependentInv == ASSUME Inv, Independent PROVE Inv'
<1>1. /\ Data /\ Eligible /\ Assoc = 15 /\ outputGroups' = Append(outputGroups, New)
      /\ UNCHANGED <<loops, codecVars, search, active>> /\ pc' = pc /\ placed' = placed + 1
      /\ pc = "outputs" /\ widgets' = widgets
  BY DEF Inv, Independent, Placed, Eligible, codecVars
<1>2. New \in Output /\ New.assoc = 15 /\ New.outputs = <<Out>> /\ placed + 1 \in 0 .. Len(outputNids)
  BY <1>1, OutFacts
<1>3. outputGroups \in Seq(Output) /\ GroupsSorted
  BY <1>1 DEF Data, GroupsInv
<1>4. AssocSorted(outputGroups) /\ \A i \in DOMAIN outputGroups : OutputsSorted(outputGroups[i].outputs)
  BY <1>3, SortedParts
<1> DEFINE gs == outputGroups
           r == Append(gs, New)
<1>5. Len(gs) \in Nat /\ DOMAIN gs = 1 .. Len(gs) /\ r \in Seq(Output) /\ DOMAIN r = 1 .. Len(gs) + 1
      /\ r[Len(gs) + 1] = New /\ \A i \in 1 .. Len(gs) : r[i] = gs[i]
  BY <1>2, <1>3
<1>6. \A i \in 1 .. Len(gs) : gs[i].assoc \in 0 .. 15
  <2>1. \A x \in Output : x.assoc \in 0 .. 15
    BY DEF Output
  <2> QED BY <1>3, <2>1
<1>7. r = outputGroups'
  BY <1>1
<1> HIDE DEF r
<1>8. AssocSorted(r)
  <2>1. ASSUME NEW i \in 1 .. Len(gs) + 1, NEW j \in 1 .. i - 1
        PROVE  /\ r[j].assoc <= r[i].assoc
               /\ r[j].assoc = r[i].assoc => r[i].assoc = 15
    <3>1. CASE i = Len(gs) + 1
      <4>1. j \in 1 .. Len(gs)
        BY <1>5, <2>1, <3>1
      <4>2. r[j] = gs[j] /\ gs[j].assoc \in 0 .. 15
        BY <1>5, <1>6, <4>1
      <4>3. r[i] = New
        BY <1>5, <3>1
      <4>4. r[i].assoc = 15
        BY <1>2, <4>3
      <4>5. r[j].assoc \in 0 .. 15
        BY <4>2
      <4> QED BY <4>4, <4>5, SMTT(30)
    <3>2. CASE i # Len(gs) + 1
      <4>1. i \in 1 .. Len(gs) /\ j \in 1 .. Len(gs)
        BY <1>5, <2>1, <3>2
      <4> QED BY <1>4, <1>5, <2>1, <4>1 DEF AssocSorted
    <3> QED BY <3>1, <3>2
  <2> QED BY <1>5, <2>1 DEF AssocSorted
<1>9. ASSUME NEW i \in DOMAIN r PROVE OutputsSorted(r[i].outputs)
  <2>1. i = Len(gs) + 1 \/ i \in 1 .. Len(gs)
    BY <1>5, <1>9
  <2> QED BY <1>2, <1>4, <1>5, <2>1, OneSorted
<1>10. GroupsInv'
  BY <1>1, <1>5, <1>7, <1>8, <1>9, GroupsKept
<1> QED BY <1>1, <1>2, <1>10, GroupingFrame

\* A group of a new association is put in its place.
LEMMA NewGroupInv == ASSUME Inv, NewGroup PROVE Inv'
<1>1. /\ Data /\ Eligible /\ Matching = {}
      /\ outputGroups' = InOrder(outputGroups, New, Assocs, Assoc)
      /\ UNCHANGED <<loops, codecVars, search, active>> /\ pc' = pc /\ placed' = placed + 1
      /\ pc = "outputs" /\ widgets' = widgets
  BY DEF Inv, NewGroup, Placed, Eligible, codecVars
<1>2. New \in Output /\ New.assoc = Assoc /\ New.outputs = <<Out>> /\ placed + 1 \in 0 .. Len(outputNids)
  BY <1>1, OutFacts
<1>3. outputGroups \in Seq(Output) /\ GroupsSorted
  BY <1>1 DEF Data, GroupsInv
<1>4. AssocSorted(outputGroups) /\ \A i \in DOMAIN outputGroups : OutputsSorted(outputGroups[i].outputs)
  BY <1>3, SortedParts
<1>5. \A i \in DOMAIN outputGroups : outputGroups[i].assoc # New.assoc
  BY <1>1, <1>2 DEF Matching
<1>6. outputGroups' = InOrder(outputGroups, New, Assocs, New.assoc)
  BY <1>1, <1>2
<1>7. /\ outputGroups' \in Seq(Output) /\ AssocSorted(outputGroups')
      /\ \A i \in DOMAIN outputGroups' : \/ outputGroups'[i] = New
                                        \/ \E j \in DOMAIN outputGroups : outputGroups'[i] = outputGroups[j]
  <2> DEFINE keys == Assocs
             r == InOrder(outputGroups, New, keys, New.assoc)
  <2>1. keys = [i \in DOMAIN outputGroups |-> outputGroups[i].assoc]
    BY DEF Assocs
  <2>2. r = InOrder(outputGroups, New, keys, New.assoc)
    OBVIOUS
  <2>3. outputGroups' = r
    BY <1>6
  <2> HIDE DEF keys, r
  <2>4. r \in Seq(Output) /\ AssocSorted(r)
    BY <1>2, <1>3, <1>4, <1>5, <2>1, <2>2, NewSorted
  <2>5. Among(r, outputGroups, New)
    BY <1>2, <1>3, <1>4, <1>5, <2>1, <2>2, NewSorted
  <2> QED BY <2>3, <2>4, <2>5 DEF Among
<1>8. \A i \in DOMAIN outputGroups' : OutputsSorted(outputGroups'[i].outputs)
  <2> TAKE i \in DOMAIN outputGroups'
  <2>1. CASE outputGroups'[i] = New
    BY <1>2, <2>1, OneSorted
  <2>2. CASE \E j \in DOMAIN outputGroups : outputGroups'[i] = outputGroups[j]
    BY <1>4, <2>2
  <2> QED BY <1>7, <2>1, <2>2
<1>9. GroupsInv'
  BY <1>1, <1>7, <1>8, GroupsKept
<1> QED BY <1>1, <1>2, <1>9, GroupingFrame

\* What joining changes in a group: the outputs, and the capacity if it was full.
LEMMA JoinedFacts ==
    ASSUME NEW g \in Output,
           InOrder(g.outputs, Out, Sequences(g.outputs), SequenceOf(Out)) \in Seq(Widget)
    PROVE  /\ Joined(g) \in Output /\ Joined(g).assoc = g.assoc
           /\ Joined(g).outputs = InOrder(g.outputs, Out, Sequences(g.outputs), SequenceOf(Out))
           /\ Joined(g).cap = CapAfter(g)
<1> DEFINE r == InOrder(g.outputs, Out, Sequences(g.outputs), SequenceOf(Out))
<1>1. Joined(g) = [g EXCEPT !.outputs = r, !.cap = CapAfter(g)]
  BY DEF Joined
<1>2. g.cap \in Nat
  BY DEF Output
<1>3. CapAfter(g) \in Nat
  BY <1>2 DEF CapAfter
<1> HIDE DEF r
<1>4. Joined(g) \in Output /\ Joined(g).assoc = g.assoc /\ Joined(g).outputs = r
      /\ Joined(g).cap = CapAfter(g)
  <2>1. r \in Seq(Widget)
    BY DEF r
  <2> QED BY <1>1, <1>3, <2>1 DEF Output
<1> QED BY <1>4 DEF r

\* An output joins the group of its association.
LEMMA JoinInv == ASSUME Inv, Join PROVE Inv'
<1> DEFINE m == Min(Matching)
           o == outputGroups[m].outputs
           r == InOrder(o, Out, Sequences(o), SequenceOf(Out))
           gs == [outputGroups EXCEPT ![m] = Joined(@)]
<1>1. /\ Data /\ Eligible /\ Matching # {} /\ outputGroups' = gs
      /\ UNCHANGED <<loops, codecVars, search, active>> /\ pc' = pc /\ placed' = placed + 1
      /\ pc = "outputs" /\ widgets' = widgets
  BY DEF Inv, Join, Placed, Eligible, codecVars
<1>2. Out \in Widget /\ placed + 1 \in 0 .. Len(outputNids)
  BY <1>1, OutFacts
<1>3. outputGroups \in Seq(Output) /\ GroupsSorted /\ WidgetsTyped
  BY <1>1 DEF Data, GroupsInv
<1>4. AssocSorted(outputGroups) /\ \A i \in DOMAIN outputGroups : OutputsSorted(outputGroups[i].outputs)
  BY <1>3, SortedParts
<1>5. m \in DOMAIN outputGroups
  <2>1. Matching \in SUBSET Nat
    <3>1. DOMAIN outputGroups = 1 .. Len(outputGroups) /\ \A i \in 1 .. Len(outputGroups) : i \in Nat
      BY <1>3
    <3> QED BY <3>1 DEF Matching
  <2>2. Min(Matching) \in Matching
    BY <1>1, <2>1, MinExists
  <2> QED BY <2>2 DEF Matching
<1> HIDE DEF m
<1>6. outputGroups[m] \in Output
  BY <1>3, <1>5
<1>7. o \in Seq(Widget) /\ OutputsSorted(o)
  BY <1>4, <1>5, <1>6 DEF Output
<1>8. r \in Seq(Widget) /\ OutputsSorted(r)
  <2>1. r = InOrder(o, Out, Sequences(o), SequenceOf(Out))
    OBVIOUS
  <2> HIDE DEF r, o
  <2> QED BY <1>2, <1>3, <1>7, <2>1, JoinSorted
<1> HIDE DEF r
<1>9. gs[m] = Joined(outputGroups[m]) /\ \A i \in DOMAIN outputGroups : i # m => gs[i] = outputGroups[i]
  BY <1>5
<1>10. gs[m] \in Output /\ gs[m].outputs = r /\ gs[m].assoc = outputGroups[m].assoc
  BY <1>6, <1>8, <1>9, JoinedFacts DEF r
<1>11. DOMAIN gs = DOMAIN outputGroups /\ DOMAIN gs = 1 .. Len(outputGroups) /\ Len(outputGroups) \in Nat
  BY <1>3
<1>12. \A i \in DOMAIN gs : gs[i] \in Output
  BY <1>3, <1>9, <1>10, <1>11
<1>13. gs = [i \in 1 .. Len(outputGroups) |-> gs[i]]
  BY <1>11
<1>18. outputGroups' = gs
  BY <1>1
<1> HIDE DEF gs
<1>14. gs \in Seq(Output)
  BY <1>11, <1>12, <1>13
<1>15. AssocSorted(gs)
  <2>1. \A i \in DOMAIN gs : gs[i].assoc = outputGroups[i].assoc
    BY <1>9, <1>10, <1>11
  <2>2. ASSUME NEW i \in DOMAIN gs, NEW j \in 1 .. i - 1 PROVE j \in DOMAIN gs
    BY <1>11
  <2> QED BY <1>4, <1>11, <2>1, <2>2 DEF AssocSorted
<1>16. \A i \in DOMAIN gs : OutputsSorted(gs[i].outputs)
  BY <1>4, <1>8, <1>9, <1>10, <1>11
<1>17. GroupsInv'
  BY <1>1, <1>14, <1>15, <1>16, <1>18, GroupsKept
<1> QED BY <1>1, <1>2, <1>17, GroupingFrame

\* The last loop of init(), output by output.
LEMMA GroupingInv == ASSUME Inv, Grouping PROVE Inv'
<1>1. CASE SkipOutput
  <2>1. /\ UNCHANGED <<loops, codecVars, search, active>> /\ pc = "outputs" /\ pc' = pc
        /\ placed' = placed + 1 /\ placed < Len(outputNids) /\ outputGroups' = outputGroups
        /\ widgets' = widgets
    BY <1>1 DEF SkipOutput, OutsLeft, codecVars
  <2>2. GroupsInv'
    BY <2>1 DEF Inv, Data, GroupsInv, Output, Widget, GroupsSorted, SequenceOf
  <2>3. placed \in 0 .. Len(outputNids) /\ Len(outputNids) \in Nat
    BY DEF Inv, Data, SearchInv, CodecTyped
  <2>4. placed' \in 0 .. Len(outputNids)
    BY <2>1, <2>3
  <2> QED BY <2>1, <2>2, <2>4, GroupingFrame
<1>2. CASE OutputsDone
  <2>1. /\ UNCHANGED <<loops, codecVars, search, active>> /\ pc = "outputs" /\ pc' = "ready"
        /\ placed' = placed /\ outputGroups' = outputGroups /\ widgets' = widgets
    BY <1>2 DEF OutputsDone, codecVars, grouping
  <2>2. GroupsInv'
    BY <2>1 DEF Inv, Data, GroupsInv, Output, Widget, GroupsSorted, SequenceOf
  <2>3. placed \in 0 .. Len(outputNids)
    BY DEF Inv, Data
  <2> QED BY <2>1, <2>2, <2>3, GroupingFrame
<1> QED BY <1>1, <1>2, IndependentInv, NewGroupInv, JoinInv DEF Grouping

\* The client changes nothing but its own paths.
LEMMA ClientStepInv == ASSUME Inv, Client PROVE Inv'
<1>1. SearchInv /\ ClientInv /\ Order
  BY DEF Inv, Data
<1>2. ClientInv' /\ UNCHANGED <<codecVars, pc, search>> /\ pc = "ready" /\ UNCHANGED <<loops, grouping>>
  <2>1. CASE \E u \in active : Release(u) /\ UNCHANGED <<loops, grouping>>
    BY <1>1, <2>1, ReleaseInv DEF Order
  <2>2. CASE SelectStep /\ UNCHANGED <<loops, grouping>>
    <3>1. PICK w \in OutPin, s \in Streams : Select(w, s)
      BY <2>2 DEF SelectStep
    <3> QED BY <1>1, <2>2, <3>1, SelectInv DEF Select
  <2> QED BY <2>1, <2>2 DEF Client
<1>3. /\ UNCHANGED codecVars /\ codec' = codec /\ group' = group /\ item' = item /\ pc' = pc
      /\ widgets' = widgets /\ outputNids' = outputNids
      /\ turn' = turn /\ stack' = stack /\ paths' = paths
      /\ placed' = placed /\ outputGroups' = outputGroups
  BY <1>2 DEF codecVars, search, loops, grouping
<1>4. codec \in Codecs /\ Counters /\ Data
  BY DEF Inv
<1>5. Order' /\ Counters'
  BY <1>1, <1>2, <1>3, <1>4 DEF Order, Counters
<1>6. WidgetsTyped'
  BY <1>3, <1>4 DEF Data, WidgetsTyped, Widget
<1>7. SearchInv'
  BY <1>1, <1>3, SameCodec DEF SearchInv
<1>8. GroupsInv'
  BY <1>3, <1>4 DEF Data, GroupsInv, Output, Widget, GroupsSorted, SequenceOf
<1> QED BY <1>2, <1>3, <1>4, <1>5, <1>6, <1>7, <1>8 DEF Inv, Data

\* A step that changes nothing.
LEMMA StutterInv == ASSUME Inv, UNCHANGED vars PROVE Inv'
<1>1. /\ UNCHANGED <<codecVars, search, active, placed, outputGroups>>
      /\ codec' = codec /\ group' = group /\ item' = item /\ pc' = pc
      /\ turn' = turn /\ stack' = stack /\ paths' = paths /\ active' = active
      /\ placed' = placed /\ outputGroups' = outputGroups
  BY DEF vars, pathVars, loops, grouping, search
<1>2. Data'
  BY <1>1, DataFrame DEF Inv
<1>3. Order' /\ Counters'
  <2>1. Order'
    BY <1>1 DEF Inv, Order
  <2>2. Counters'
    BY <1>1 DEF Inv, Counters, Group, GroupsLeft
  <2> QED BY <2>1, <2>2
<1> QED BY <1>1, <1>2, <1>3 DEF Inv
-----------------------------------------------------------------------------
(* What the loops over node ids have read *)

\* The function group at the counter, as a place in the codec's list.
GroupNumber == group - codec.first + 1

\* The widgets that the counters have passed.
Passed(w) == \/ pc \in {"search", "outputs", "ready"}
             \/ pc \in {"group", "widget"} /\ GroupOf(w) < GroupNumber
             \/ pc = "widget" /\ GroupOf(w) = GroupNumber /\ w < item
Seen == {w \in Nodes : Passed(w)}

\* A codec of which the widgets S are known, and no others.
KnownAre(S) ==
    /\ muted = S /\ S \subseteq Widget
    /\ \A w \in Widget : widgets[w] = IF w \in S THEN Described(w) ELSE Hole
    /\ ToSet(outputNids) = {w \in S : IsPin(Described(w))}
    /\ \A a, b \in DOMAIN outputNids : a < b => Before(outputNids[a], outputNids[b])

\* What is known of a codec at each moment of its enumeration.
ReadInv == /\ pc = "widget" => Group.audio
           /\ pc # "failed" => KnownAre(Seen)

\* Every node is of one function group.
LEMMA NodeFacts ==
    ASSUME codec \in Codecs
    PROVE  /\ \A i \in 1 .. Len(codec.groups) : \A w \in NodesOf(codec.groups[i]) :
                w \in Nodes /\ GroupOf(w) = i
           /\ \A w \in Nodes : /\ GroupOf(w) \in 1 .. Len(codec.groups)
                               /\ w \in NodesOf(codec.groups[GroupOf(w)])
                               /\ w \in 1 .. 254
<1> DEFINE gs == codec.groups
<1>1. DOMAIN gs = 1 .. Len(gs)
  BY CodecFacts
<1>2. ASSUME NEW w \in Nodes
      PROVE  GroupOf(w) \in DOMAIN gs /\ w \in NodesOf(gs[GroupOf(w)])
  <2>1. \E i \in DOMAIN gs : w \in NodesOf(gs[i])
    BY <1>2 DEF Nodes
  <2> QED BY <2>1 DEF GroupOf
<1>3. ASSUME NEW i \in DOMAIN gs, NEW w \in NodesOf(gs[i])
      PROVE  w \in Nodes /\ GroupOf(w) = i
  <2>1. w \in Nodes
    BY <1>3 DEF Nodes
  <2>2. GroupOf(w) \in DOMAIN gs /\ w \in NodesOf(gs[GroupOf(w)])
    BY <1>2, <2>1
  <2>3. GroupOf(w) # i => NodesOf(gs[GroupOf(w)]) \cap NodesOf(gs[i]) = {}
    BY <1>3, <2>2, NodesAssumption
  <2> QED BY <1>3, <2>1, <2>2, <2>3
<1>4. ASSUME NEW w \in Nodes PROVE w \in 1 .. 254
  <2> DEFINE g == gs[GroupOf(w)]
             f == g.start
             n == Len(g.widgets)
  <2>1. GroupOf(w) \in 1 .. Len(gs) /\ w \in NodesOf(g)
    BY <1>1, <1>2, <1>4
  <2>2. f \in 1 .. 255 /\ g.widgets \in Seq(WidgetAnswers) /\ f + n <= 255
    BY <2>1, CodecFacts
  <2>3. w \in f .. f + n - 1 /\ n \in Nat
    BY <2>1, <2>2 DEF NodesOf
  <2> HIDE DEF f, n
  <2> QED BY <2>2, <2>3
<1> QED BY <1>1, <1>2, <1>3, <1>4

\* The codec does not change, nor what it describes.
LEMMA SameNodes ==
    ASSUME codec' = codec
    PROVE  /\ Nodes' = Nodes
           /\ \A w : GroupOf(w)' = GroupOf(w) /\ Described(w)' = Described(w)
           /\ \A v, w : Before(v, w)' = Before(v, w)
BY DEF Nodes, GroupOf, Described, Before, NodesOf

\* What is known stays known while nothing of it is changed.
LEMMA KnownKept ==
    ASSUME codec' = codec, widgets' = widgets, outputNids' = outputNids, muted' = muted,
           NEW S, KnownAre(S)
    PROVE  KnownAre(S)'
<1>1. Widget' = Widget
  BY DEF Widget
<1> QED BY <1>1, SameNodes DEF KnownAre, ToSet

\* A step that passes nothing and reads nothing.
LEMMA ReadFrame ==
    ASSUME ReadInv, codec' = codec, widgets' = widgets, outputNids' = outputNids, muted' = muted,
           pc # "failed", pc' = "widget" => Group'.audio, Seen' = Seen
    PROVE  ReadInv'
<1> SUFFICES ASSUME NEW S, S = Seen PROVE ReadInv'
  OBVIOUS
<1>1. KnownAre(S)
  BY DEF ReadInv
<1>2. KnownAre(S)'
  BY <1>1, KnownKept
<1>3. S = Seen'
  OBVIOUS
<1> HIDE DEF Seen
<1>4. KnownAre(Seen)'
  BY <1>2, <1>3 DEF KnownAre
<1> QED BY <1>4 DEF ReadInv

\* The function group at the counter is the one of its number.
LEMMA NumberFacts ==
    ASSUME codec \in Codecs, Counters, pc \in {"group", "widget"}
    PROVE  /\ GroupNumber \in 1 .. Len(codec.groups) + 1
           /\ GroupsLeft <=> GroupNumber # Len(codec.groups) + 1
           /\ GroupsLeft => Group = codec.groups[GroupNumber]
           /\ GroupsLeft => NextByte(group) - codec.first + 1 = GroupNumber + 1
<1> DEFINE f == codec.first
           n == Len(codec.groups)
<1>1. f \in 1 .. 255 /\ n \in Nat /\ f + n <= 255 /\ group \in f .. f + n
  BY CodecFacts DEF Counters
<1>2. GroupsLeft <=> group < f + n
  BY DEF GroupsLeft
<1>3. GroupNumber = group - f + 1 /\ Group = codec.groups[GroupNumber]
  BY DEF GroupNumber, Group
<1> HIDE DEF f, n
<1>4. GroupNumber \in 1 .. n + 1 /\ (GroupsLeft <=> GroupNumber # n + 1)
      /\ (GroupsLeft => NextByte(group) - f + 1 = GroupNumber + 1)
  BY <1>1, <1>2, <1>3 DEF NextByte
<1> QED BY <1>3, <1>4 DEF f, n

\* The steps that only count.
LEMMA CountingKnows ==
    ASSUME Inv, ReadInv, ReadRoot \/ SkipGroup \/ EnterGroup \/ LeaveGroup \/ GroupsRead
    PROVE  ReadInv'
<1>1. /\ codec' = codec /\ widgets' = widgets /\ outputNids' = outputNids /\ muted' = muted
      /\ pc \in {"codec", "group", "widget"} /\ codec \in Codecs /\ Counters
  BY DEF Inv, ReadRoot, SkipGroup, EnterGroup, LeaveGroup, GroupsRead, loops, codecVars
<1> DEFINE gs == codec.groups
<1>2. /\ Nodes' = Nodes /\ \A w : GroupOf(w)' = GroupOf(w)
      /\ \A w \in Nodes : GroupOf(w) \in 1 .. Len(gs) /\ w \in NodesOf(gs[GroupOf(w)]) /\ w \in 1 .. 254
      /\ Len(gs) \in Nat
  BY <1>1, SameNodes, NodeFacts, CodecFacts
<1>3. ASSUME pc' = "widget" => Group'.audio,
             \A w \in Nodes : Passed(w)' <=> Passed(w)
      PROVE  ReadInv'
  <2>1. Seen' = Seen
    BY <1>2, <1>3 DEF Seen
  <2>2. pc # "failed"
    BY <1>1
  <2> QED BY <1>1, <1>3, <2>1, <2>2, ReadFrame
<1>4. CASE ReadRoot
  <2>1. pc = "codec" /\ pc' = "group" /\ group' = codec.first
    BY <1>4 DEF ReadRoot
  <2>2. GroupNumber' = 1
    <3>1. codec.first \in 1 .. 255
      BY <1>1, CodecFacts
    <3> QED BY <1>1, <2>1, <3>1 DEF GroupNumber
  <2>3. \A w \in Nodes : Passed(w)' <=> Passed(w)
    BY <1>2, <2>1, <2>2 DEF Passed
  <2> QED BY <1>3, <2>1, <2>3
<1>5. CASE SkipGroup
  <2>1. pc = "group" /\ pc' = "group" /\ GroupsLeft /\ ~Group.audio /\ group' = NextByte(group)
    BY <1>5 DEF SkipGroup
  <2>2. GroupNumber \in 1 .. Len(gs) /\ Group = gs[GroupNumber] /\ GroupNumber' = GroupNumber + 1
    BY <1>1, <1>2, <2>1, NumberFacts DEF GroupNumber
  <2>3. \A w \in Nodes : GroupOf(w) # GroupNumber
    BY <1>2, <2>1, <2>2 DEF NodesOf
  <2>4. \A w \in Nodes : GroupOf(w) < GroupNumber + 1 <=> GroupOf(w) < GroupNumber
    BY <1>2, <2>2, <2>3
  <2>5. \A w \in Nodes : Passed(w)' <=> Passed(w)
    BY <1>2, <2>1, <2>2, <2>4 DEF Passed
  <2> QED BY <1>3, <2>1, <2>5
<1>6. CASE EnterGroup
  <2>1. pc = "group" /\ pc' = "widget" /\ GroupsLeft /\ Group.audio /\ item' = Group.start
        /\ group' = group
    BY <1>6 DEF EnterGroup
  <2>2. GroupNumber \in 1 .. Len(gs) /\ Group = gs[GroupNumber] /\ GroupNumber' = GroupNumber
        /\ Group' = Group
    BY <1>1, <1>2, <2>1, NumberFacts DEF GroupNumber, Group
  <2>3. \A w \in Nodes : GroupOf(w) = GroupNumber => ~(w < item')
    <3> DEFINE f == Group.start
               n == Len(Group.widgets)
    <3>0. Group.start \in 1 .. 255 /\ Group.widgets \in Seq(WidgetAnswers)
      BY <1>1, <2>2, CodecFacts
    <3>1. f \in 1 .. 255 /\ n \in Nat
      BY <3>0
    <3>2. \A w \in Nodes : GroupOf(w) = GroupNumber => w \in f .. f + n - 1
      BY <1>2, <2>1, <2>2 DEF NodesOf
    <3>3. item' = f
      BY <2>1
    <3> HIDE DEF f, n
    <3> QED BY <3>1, <3>2, <3>3
  <2>4. \A w \in Nodes : Passed(w)' <=> Passed(w)
    BY <1>2, <2>1, <2>2, <2>3 DEF Passed
  <2> QED BY <1>3, <2>1, <2>2, <2>4
<1>7. CASE LeaveGroup
  <2>1. pc = "widget" /\ pc' = "group" /\ ~WidgetsLeft /\ group' = NextByte(group)
        /\ GroupsLeft /\ item \in Group.start .. Group.start + Len(Group.widgets)
    BY <1>1, <1>7 DEF LeaveGroup, Counters
  <2>2. GroupNumber \in 1 .. Len(gs) /\ Group = gs[GroupNumber] /\ GroupNumber' = GroupNumber + 1
    BY <1>1, <1>2, <2>1, NumberFacts DEF GroupNumber
  <2>3. \A w \in Nodes : GroupOf(w) = GroupNumber => w < item
    <3> DEFINE f == Group.start
               n == Len(Group.widgets)
    <3>0. Group.start \in 1 .. 255 /\ Group.widgets \in Seq(WidgetAnswers)
      BY <1>1, <2>2, CodecFacts
    <3>1. f \in 1 .. 255 /\ n \in Nat
      BY <3>0
    <3>2. \A w \in Nodes : GroupOf(w) = GroupNumber => w \in f .. f + n - 1
      BY <1>2, <2>1, <2>2 DEF NodesOf
    <3>3. item \in f .. f + n /\ ~(item < f + n)
      BY <2>1 DEF WidgetsLeft
    <3> HIDE DEF f, n
    <3> QED BY <3>1, <3>2, <3>3
  <2>4. \A w \in Nodes : GroupOf(w) < GroupNumber + 1 <=> GroupOf(w) < GroupNumber \/ GroupOf(w) = GroupNumber
    BY <1>2, <2>2
  <2>5. \A w \in Nodes : Passed(w)' <=> Passed(w)
    BY <1>2, <2>1, <2>2, <2>3, <2>4 DEF Passed
  <2> QED BY <1>3, <2>1, <2>5
<1>8. CASE GroupsRead
  <2>1. pc = "group" /\ pc' = "search" /\ ~GroupsLeft
    BY <1>8 DEF GroupsRead
  <2>2. GroupNumber = Len(gs) + 1
    BY <1>1, <2>1, NumberFacts
  <2>3. \A w \in Nodes : GroupOf(w) < GroupNumber
    BY <1>2, <2>2
  <2>4. \A w \in Nodes : Passed(w)' <=> Passed(w)
    BY <2>1, <2>3 DEF Passed
  <2> QED BY <1>3, <2>1, <2>4
<1> QED BY <1>4, <1>5, <1>6, <1>7, <1>8

\* The widget at the counter.
LEMMA ItemFacts ==
    ASSUME codec \in Codecs, Counters, ReadInv, pc = "widget", WidgetsLeft
    PROVE  /\ item \in Nodes /\ GroupOf(item) = GroupNumber /\ item \in 1 .. 254
           /\ NextByte(item) = item + 1
           /\ Described(item) = Fields(Read, item)
<1>1. GroupsLeft /\ item \in Group.start .. Group.start + Len(Group.widgets) /\ Group.audio
  BY DEF Counters, ReadInv
<1>2. GroupNumber \in 1 .. Len(codec.groups) /\ Group = codec.groups[GroupNumber]
  <2>1. Len(codec.groups) \in Nat
    BY CodecFacts
  <2> QED BY <1>1, <2>1, NumberFacts
<1>3. /\ Group.start \in 1 .. 255 /\ Group.widgets \in Seq(WidgetAnswers)
      /\ Group.start + Len(Group.widgets) <= 255
  BY <1>2, CodecFacts
<1>4. /\ item \in Group.start .. Group.start + Len(Group.widgets) - 1 /\ item \in 1 .. 254
      /\ item - Group.start + 1 \in 1 .. Len(Group.widgets)
  <2> DEFINE f == Group.start
             n == Len(Group.widgets)
  <2>1. f \in 1 .. 255 /\ n \in Nat /\ f + n <= 255 /\ item \in f .. f + n /\ item < f + n
    BY <1>1, <1>3 DEF WidgetsLeft
  <2> HIDE DEF f, n
  <2>2. item \in f .. f + n - 1 /\ item \in 1 .. 254 /\ item - f + 1 \in 1 .. n
    BY <2>1
  <2> QED BY <2>2 DEF f, n
<1>5. item \in NodesOf(codec.groups[GroupNumber])
  BY <1>1, <1>2, <1>4 DEF NodesOf
<1>6. item \in Nodes /\ GroupOf(item) = GroupNumber
  BY <1>2, <1>5, NodeFacts
<1>7. Described(item) = Fields(Read, item)
  <2>1. Read = Group.widgets[item - Group.start + 1] /\ Read \in WidgetAnswers
    BY <1>3, <1>4 DEF Read
  <2>2. Read.conns \in Seq(Connection)
    BY <2>1 DEF WidgetAnswers
  <2>3. ReadList(Read.conns) = Read.conns
    BY <2>2, ReadListExact
  <2> QED BY <1>2, <1>6, <2>1, <2>3 DEF Described, Fields
<1> QED BY <1>4, <1>6, <1>7 DEF NextByte

\* The widget at the counter becomes known, the last of those that are.
LEMMA ItemKnown ==
    ASSUME Inv, ReadInv, ReadWidget
    PROVE  ReadInv'
<1>1. /\ codec \in Codecs /\ Counters /\ pc = "widget" /\ pc' = "widget" /\ WidgetsLeft
      /\ codec' = codec /\ group' = group
      /\ widgets' = Stored(item, Fields(Read, item))
      /\ outputNids' = IF IsPin(Read) THEN Append(outputNids, item) ELSE outputNids
      /\ item' = NextByte(item) /\ muted' = muted \cup {item}
      /\ outputNids \in Seq(Widget)
  BY DEF Inv, ReadWidget, Data, SearchInv, CodecTyped
<1>2. /\ item \in Nodes /\ GroupOf(item) = GroupNumber /\ item \in 1 .. 254 /\ item' = item + 1
      /\ Described(item) = Fields(Read, item)
  BY <1>1, ItemFacts
<1>3. /\ Nodes' = Nodes /\ \A w : GroupOf(w)' = GroupOf(w) /\ Described(w)' = Described(w)
      /\ \A v, w : Before(v, w)' = Before(v, w)
  BY <1>1, SameNodes
<1>4. \A w \in Nodes : w \in 1 .. 254
  BY <1>1, NodeFacts
<1>5. PICK S : S = Seen
  OBVIOUS
<1>6. KnownAre(S)
  BY <1>1, <1>5 DEF ReadInv
<1>7. Seen' = S \cup {item} /\ item \notin S
  <2>1. GroupNumber' = GroupNumber
    BY <1>1 DEF GroupNumber
  <2>2. \A w \in Nodes : w < item + 1 <=> w < item \/ w = item
    BY <1>2, <1>4
  <2>3. \A w \in Nodes : Passed(w)' <=> Passed(w) \/ w = item
    BY <1>1, <1>2, <1>3, <2>1, <2>2 DEF Passed
  <2>4. ~Passed(item)
    <3>1. GroupNumber \in Int
      BY <1>1, NumberFacts, CodecFacts
    <3> QED BY <1>1, <1>2, <3>1 DEF Passed
  <2> QED BY <1>2, <1>3, <1>5, <2>3, <2>4 DEF Seen
<1>8. Widget' = Widget \cup 0 .. item
  BY <1>1 DEF Stored, Widget
<1>9. \A w \in Widget' : widgets'[w] = IF w \in S \cup {item} THEN Described(w) ELSE Hole
  <2> TAKE w \in Widget'
  <2>1. widgets'[w] = IF w = item THEN Fields(Read, item) ELSE IF w \in Widget THEN widgets[w] ELSE Hole
    BY <1>1, <1>8 DEF Stored
  <2>2. w \in Widget => widgets[w] = IF w \in S THEN Described(w) ELSE Hole
    BY <1>6 DEF KnownAre
  <2>3. w \notin Widget => w \notin S
    BY <1>6 DEF KnownAre
  <2> QED BY <1>2, <2>1, <2>2, <2>3
<1>10. IsPin(Described(item)) <=> IsPin(Read)
  BY <1>2 DEF IsPin, Fields
<1>11. ASSUME NEW v \in S PROVE Before(v, item)
  <2>1. GroupOf(v) < GroupNumber \/ (GroupOf(v) = GroupNumber /\ v < item)
    BY <1>1, <1>5, <1>11 DEF Seen, Passed
  <2> QED BY <1>1, <1>2, <2>1 DEF Before
<1>12. /\ ToSet(outputNids') = {w \in S \cup {item} : IsPin(Described(w))}
       /\ \A a, b \in DOMAIN outputNids' : a < b => Before(outputNids'[a], outputNids'[b])
  <2>1. /\ ToSet(outputNids) = {w \in S : IsPin(Described(w))}
        /\ \A a, b \in DOMAIN outputNids : a < b => Before(outputNids[a], outputNids[b])
    BY <1>6 DEF KnownAre
  <2>2. CASE ~IsPin(Read)
    BY <1>1, <1>10, <2>1, <2>2
  <2>3. CASE IsPin(Read)
    <3>1. /\ DOMAIN outputNids = 1 .. Len(outputNids) /\ DOMAIN outputNids' = 1 .. Len(outputNids) + 1
          /\ outputNids'[Len(outputNids) + 1] = item /\ Len(outputNids) \in Nat
          /\ \A i \in 1 .. Len(outputNids) : outputNids'[i] = outputNids[i]
      BY <1>1, <1>8, <2>3
    <3>2. ToSet(outputNids') = ToSet(outputNids) \cup {item}
      BY <3>1 DEF ToSet
    <3>3. ASSUME NEW a \in DOMAIN outputNids', NEW b \in DOMAIN outputNids', a < b
          PROVE  Before(outputNids'[a], outputNids'[b])
      <4>1. a \in 1 .. Len(outputNids) /\ (b \in 1 .. Len(outputNids) \/ b = Len(outputNids) + 1)
        BY <3>1, <3>3
      <4>2. outputNids[a] \in S
        BY <2>1, <3>1, <4>1 DEF ToSet
      <4>3. CASE b = Len(outputNids) + 1
        BY <1>11, <3>1, <4>1, <4>2, <4>3
      <4>4. CASE b \in 1 .. Len(outputNids)
        BY <2>1, <3>1, <3>3, <4>1, <4>4
      <4> QED BY <4>1, <4>3, <4>4
    <3> QED BY <1>10, <2>1, <2>3, <3>2, <3>3
  <2> QED BY <2>2, <2>3
<1>13. muted' = S \cup {item} /\ S \cup {item} \subseteq Widget'
  BY <1>1, <1>2, <1>6, <1>8 DEF KnownAre
<1>14. Group' = Group /\ Group.audio
  BY <1>1 DEF Group, ReadInv
<1>15. KnownAre(Seen)'
  BY <1>3, <1>7, <1>9, <1>12, <1>13 DEF KnownAre
<1> QED BY <1>1, <1>14, <1>15 DEF ReadInv

\* The search, the groups and the client read no widget, a failure forgets all.
LEMMA OthersKnow ==
    ASSUME Inv, ReadInv, Searching \/ Grouping \/ Fail \/ Client \/ UNCHANGED vars
    PROVE  ReadInv'
<1>1. CASE Fail
  <2>1. pc' = "failed"
    BY <1>1 DEF Fail, ReadFails, SearchFails, OutputFails, GroupFails, JoinFails, Abandon, Discarded
  <2> QED BY <2>1 DEF ReadInv
<1>2. CASE ~Fail
  <2>1. UNCHANGED <<loops, codecVars>>
    BY <1>2 DEF Searching, SearchStep, NextPin, Pop, Skip, Found, Descend, Grouping, SkipOutput,
                Independent, NewGroup, Join, Placed, OutputsDone, Client, SelectStep, Select, Release,
                vars, pathVars
  <2>2. /\ codec' = codec /\ group' = group /\ item' = item /\ muted' = muted
        /\ widgets' = widgets /\ outputNids' = outputNids
    BY <2>1 DEF loops, codecVars
  <2>3. \/ pc' = pc
        \/ pc \in {"search", "outputs", "ready"} /\ pc' \in {"search", "outputs", "ready"}
    BY <1>2 DEF Searching, SearchStep, NextPin, Pop, Skip, Found, Descend, Searched, Grouping, SkipOutput,
                Independent, NewGroup, Join, Placed, OutputsDone, Client, SelectStep, Select, Release,
                vars, pathVars
  <2>4. GroupNumber' = GroupNumber /\ Group' = Group
    BY <2>2 DEF GroupNumber, Group
  <2>5. \A w : Passed(w)' <=> Passed(w)
    BY <2>2, <2>3, <2>4, SameNodes DEF Passed
  <2>6. Seen' = Seen
    BY <2>2, <2>5, SameNodes DEF Seen
  <2>7. pc' = "widget" => Group'.audio
    BY <2>3, <2>4 DEF ReadInv
  <2>8. CASE pc = "failed"
    BY <2>3, <2>8 DEF ReadInv
  <2> QED BY <2>2, <2>6, <2>7, <2>8, ReadFrame
<1> QED BY <1>1, <1>2

\* Nothing is known before the enumeration.
LEMMA InitKnows == ASSUME Init PROVE ReadInv
<1>1. pc = "codec" /\ muted = {} /\ widgets = <<>> /\ outputNids = <<>>
  BY DEF Init
<1>2. Seen = {}
  BY <1>1 DEF Seen, Passed
<1>3. KnownAre({})
  BY <1>1 DEF KnownAre, Widget, ToSet
<1> QED BY <1>1, <1>2, <1>3 DEF ReadInv
-----------------------------------------------------------------------------
(* The places of outputs in groups *)

\* The groups gs hold each element of D in one place, and nothing else.
Holding(gs, D) ==
    /\ \A i \in 1 .. Len(gs) : \A j \in 1 .. Len(gs[i].outputs) : gs[i].outputs[j] \in D
    /\ \A w \in D : \E i \in 1 .. Len(gs) : \E j \in 1 .. Len(gs[i].outputs) : gs[i].outputs[j] = w
    /\ \A a, b \in 1 .. Len(gs) : \A i \in 1 .. Len(gs[a].outputs), j \in 1 .. Len(gs[b].outputs) :
         gs[a].outputs[i] = gs[b].outputs[j] => a = b /\ i = j

\* r is v with e put in at k.
PutIn(v, e, k, r) ==
    /\ k \in 1 .. Len(v) + 1 /\ Len(r) = Len(v) + 1 /\ r[k] = e
    /\ \A i \in 1 .. k - 1 : r[i] = v[i]
    /\ \A i \in k + 1 .. Len(v) + 1 : r[i] = v[i - 1]

\* Where each element of r comes from, and where each of v has gone.
From(i, k) == IF i < k THEN i ELSE i - 1
Gone(i, k) == IF i < k THEN i ELSE i + 1

LEMMA PutInFacts ==
    ASSUME NEW v, NEW e, NEW k, NEW r, Len(v) \in Nat, PutIn(v, e, k, r)
    PROVE  /\ \A i \in 1 .. Len(r) : i # k => From(i, k) \in 1 .. Len(v) /\ r[i] = v[From(i, k)]
           /\ \A i \in 1 .. Len(v) : /\ Gone(i, k) \in 1 .. Len(r) /\ Gone(i, k) # k
                                     /\ r[Gone(i, k)] = v[i]
           /\ \A i, j \in 1 .. Len(r) : i # k /\ j # k /\ From(i, k) = From(j, k) => i = j
<1> DEFINE n == Len(v)
<1>1. /\ n \in Nat /\ k \in 1 .. n + 1 /\ Len(r) = n + 1
      /\ \A i \in 1 .. k - 1 : r[i] = v[i]
      /\ \A i \in k + 1 .. n + 1 : r[i] = v[i - 1]
  BY DEF PutIn
<1> HIDE DEF n
<1>2. ASSUME NEW i \in 1 .. n + 1, i # k
      PROVE  From(i, k) \in 1 .. n /\ r[i] = v[From(i, k)]
  <2>1. i \in 1 .. k - 1 \/ i \in k + 1 .. n + 1
    BY <1>1, <1>2
  <2> QED BY <1>1, <1>2, <2>1 DEF From
<1>3. ASSUME NEW i \in 1 .. n
      PROVE  Gone(i, k) \in 1 .. n + 1 /\ Gone(i, k) # k /\ r[Gone(i, k)] = v[i]
  <2>1. CASE i < k
    <3>1. i \in 1 .. k - 1
      BY <1>1, <2>1
    <3> QED BY <1>1, <2>1, <3>1 DEF Gone
  <2>2. CASE ~(i < k)
    <3>1. i + 1 \in k + 1 .. n + 1 /\ i + 1 - 1 = i
      BY <1>1, <2>2
    <3> QED BY <1>1, <2>2, <3>1 DEF Gone
  <2> QED BY <2>1, <2>2
<1>4. ASSUME NEW i \in 1 .. n + 1, NEW j \in 1 .. n + 1, i # k, j # k, From(i, k) = From(j, k)
      PROVE  i = j
  BY <1>1, <1>4 DEF From
<1> QED BY <1>1, <1>2, <1>3, <1>4 DEF n

\* InOrder puts its element in.
LEMMA InsertedPutIn ==
    ASSUME NEW S, NEW v, NEW e, NEW keys, NEW key, NEW r, Inserted(S, v, e, keys, key, r)
    PROVE  r \in Seq(S) /\ \E k : PutIn(v, e, k, r)
BY DEF Inserted, PutIn

\* A group of one output more.
LEMMA HoldsNewGroup ==
    ASSUME NEW gs, Len(gs) \in Nat, NEW D, Holding(gs, D), NEW w, w \notin D,
           NEW e, e.outputs = <<w>>, NEW k, NEW r, PutIn(gs, e, k, r)
    PROVE  Holding(r, D \cup {w})
<1>1. /\ \A i \in 1 .. Len(r) : i # k => From(i, k) \in 1 .. Len(gs) /\ r[i] = gs[From(i, k)]
      /\ \A i \in 1 .. Len(gs) : Gone(i, k) \in 1 .. Len(r) /\ r[Gone(i, k)] = gs[i]
      /\ \A i, j \in 1 .. Len(r) : i # k /\ j # k /\ From(i, k) = From(j, k) => i = j
  BY PutInFacts
<1>2. k \in 1 .. Len(r) /\ r[k] = e
  BY DEF PutIn
<1>3. e.outputs[1] = w /\ 1 .. Len(e.outputs) = {1}
  OBVIOUS
<1>4. ASSUME NEW i \in 1 .. Len(r), NEW j \in 1 .. Len(r[i].outputs)
      PROVE  IF i = k THEN r[i].outputs[j] = w /\ j = 1 ELSE r[i].outputs[j] \in D
  <2>1. CASE i = k
    BY <1>2, <1>3, <1>4, <2>1
  <2>2. CASE i # k
    BY <1>1, <1>4, <2>2, SMTT(30) DEF Holding
  <2> QED BY <2>1, <2>2
<1>5. ASSUME NEW x \in D \cup {w}
      PROVE  \E i \in 1 .. Len(r) : \E j \in 1 .. Len(r[i].outputs) : r[i].outputs[j] = x
  <2>1. CASE x = w
    <3>1. 1 \in 1 .. Len(r[k].outputs) /\ r[k].outputs[1] = x
      BY <1>2, <1>3, <2>1
    <3> QED BY <1>2, <3>1
  <2>2. CASE x \in D
    <3>1. PICK i \in 1 .. Len(gs) : \E j \in 1 .. Len(gs[i].outputs) : gs[i].outputs[j] = x
      BY <2>2 DEF Holding
    <3> QED BY <1>1, <3>1
  <2> QED BY <2>1, <2>2
<1>6. ASSUME NEW a \in 1 .. Len(r), NEW b \in 1 .. Len(r),
             NEW i \in 1 .. Len(r[a].outputs), NEW j \in 1 .. Len(r[b].outputs),
             r[a].outputs[i] = r[b].outputs[j]
      PROVE  a = b /\ i = j
  <2>1. CASE a = k \/ b = k
    BY <1>4, <1>6, <2>1
  <2>2. CASE a # k /\ b # k
    <3>1. /\ From(a, k) \in 1 .. Len(gs) /\ From(b, k) \in 1 .. Len(gs)
          /\ r[a] = gs[From(a, k)] /\ r[b] = gs[From(b, k)]
      BY <1>1, <2>2
    <3>2. From(a, k) = From(b, k) /\ i = j
      BY <1>6, <3>1, SMTT(30) DEF Holding
    <3> QED BY <1>1, <2>2, <3>2
  <2> QED BY <2>1, <2>2
<1>7. \A i \in 1 .. Len(r) : \A j \in 1 .. Len(r[i].outputs) : r[i].outputs[j] \in D \cup {w}
  BY <1>4
<1> QED BY <1>5, <1>6, <1>7 DEF Holding

\* A group that one output more joins.
LEMMA HoldsJoined ==
    ASSUME NEW gs, Len(gs) \in Nat, NEW D, Holding(gs, D), NEW w, w \notin D,
           NEW m \in 1 .. Len(gs), Len(gs[m].outputs) \in Nat,
           NEW k, NEW r, Len(r) = Len(gs), PutIn(gs[m].outputs, w, k, r[m].outputs),
           \A i \in 1 .. Len(gs) : i # m => r[i] = gs[i]
    PROVE  Holding(r, D \cup {w})
<1> DEFINE o == gs[m].outputs
           q == r[m].outputs
<1>1. /\ \A i \in 1 .. Len(q) : i # k => From(i, k) \in 1 .. Len(o) /\ q[i] = o[From(i, k)]
      /\ \A i \in 1 .. Len(o) : Gone(i, k) \in 1 .. Len(q) /\ q[Gone(i, k)] = o[i]
      /\ \A i, j \in 1 .. Len(q) : i # k /\ j # k /\ From(i, k) = From(j, k) => i = j
  <2> HIDE DEF o, q
  <2>1. PutIn(o, w, k, q) /\ Len(o) \in Nat
    BY DEF o, q
  <2> QED BY <2>1, PutInFacts
<1>2. k \in 1 .. Len(q) /\ q[k] = w
  BY DEF PutIn
<1>3. /\ \A i \in 1 .. Len(gs) : \A j \in 1 .. Len(gs[i].outputs) : gs[i].outputs[j] \in D
      /\ \A x \in D : \E i \in 1 .. Len(gs) : \E j \in 1 .. Len(gs[i].outputs) : gs[i].outputs[j] = x
      /\ \A a, b \in 1 .. Len(gs) : \A i \in 1 .. Len(gs[a].outputs), j \in 1 .. Len(gs[b].outputs) :
           gs[a].outputs[i] = gs[b].outputs[j] => a = b /\ i = j
  BY DEF Holding
<1>4. ASSUME NEW i \in 1 .. Len(gs), NEW j \in 1 .. Len(r[i].outputs)
      PROVE  IF i = m /\ j = k THEN r[i].outputs[j] = w ELSE r[i].outputs[j] \in D
  <2>1. CASE i = m
    <3>1. j \in 1 .. Len(q) /\ r[i].outputs[j] = q[j]
      BY <1>4, <2>1
    <3>2. \A x \in 1 .. Len(o) : o[x] \in D
      BY <1>3
    <3>3. j # k => q[j] \in D
      <4> HIDE DEF o, q
      <4> QED BY <1>1, <3>1, <3>2
    <3> QED BY <1>2, <2>1, <3>1, <3>3
  <2>2. CASE i # m
    BY <1>3, <1>4, <2>2
  <2> QED BY <2>1, <2>2
<1>5. ASSUME NEW x \in D \cup {w}
      PROVE  \E i \in 1 .. Len(gs) : \E j \in 1 .. Len(r[i].outputs) : r[i].outputs[j] = x
  <2>1. CASE x = w
    BY <1>2, <2>1
  <2>2. CASE x \in D
    <3>1. PICK i \in 1 .. Len(gs) : \E j \in 1 .. Len(gs[i].outputs) : gs[i].outputs[j] = x
      BY <1>3, <2>2
    <3>2. PICK j \in 1 .. Len(gs[i].outputs) : gs[i].outputs[j] = x
      BY <3>1
    <3>3. CASE i = m
      <4>1. j \in 1 .. Len(o) /\ o[j] = x
        BY <3>2, <3>3
      <4>2. Gone(j, k) \in 1 .. Len(q) /\ q[Gone(j, k)] = x
        <5> HIDE DEF o, q
        <5> QED BY <1>1, <4>1
      <4> QED BY <4>2
    <3>4. CASE i # m
      BY <3>2, <3>4
    <3> QED BY <3>3, <3>4
  <2> QED BY <2>1, <2>2
<1>6. ASSUME NEW a \in 1 .. Len(gs), NEW b \in 1 .. Len(gs),
             NEW i \in 1 .. Len(r[a].outputs), NEW j \in 1 .. Len(r[b].outputs),
             r[a].outputs[i] = r[b].outputs[j]
      PROVE  a = b /\ i = j
  <2>1. CASE (a = m /\ i = k) \/ (b = m /\ j = k)
    BY <1>4, <1>6, <2>1
  <2>2. CASE ~(a = m /\ i = k) /\ ~(b = m /\ j = k)
    <3> DEFINE i0 == IF a = m THEN From(i, k) ELSE i
               j0 == IF b = m THEN From(j, k) ELSE j
    <3>1. i0 \in 1 .. Len(gs[a].outputs) /\ r[a].outputs[i] = gs[a].outputs[i0]
      <4>1. CASE a = m
        BY <1>1, <1>6, <2>2, <4>1
      <4>2. CASE a # m
        BY <1>6, <4>2
      <4> QED BY <4>1, <4>2
    <3>2. j0 \in 1 .. Len(gs[b].outputs) /\ r[b].outputs[j] = gs[b].outputs[j0]
      <4>1. CASE b = m
        BY <1>1, <1>6, <2>2, <4>1
      <4>2. CASE b # m
        BY <1>6, <4>2
      <4> QED BY <4>1, <4>2
    <3>3. a = b /\ i0 = j0
      <4> HIDE DEF i0, j0
      <4>1. gs[a].outputs[i0] = gs[b].outputs[j0]
        BY <1>6, <3>1, <3>2
      <4> QED BY <1>3, <3>1, <3>2, <4>1
    <3>4. CASE a = m
      <4>1. b = m /\ i \in 1 .. Len(q) /\ j \in 1 .. Len(q) /\ i # k /\ j # k
        BY <1>6, <2>2, <3>3, <3>4
      <4>2. From(i, k) = From(j, k)
        BY <3>3, <3>4, <4>1
      <4> HIDE DEF o, q
      <4> QED BY <1>1, <3>3, <4>1, <4>2
    <3>5. CASE a # m
      BY <3>3, <3>5
    <3> QED BY <3>3, <3>4, <3>5
  <2> QED BY <2>1, <2>2
<1>7. \A i \in 1 .. Len(r) : \A j \in 1 .. Len(r[i].outputs) : r[i].outputs[j] \in D \cup {w}
  BY <1>4
<1> HIDE DEF o, q
<1>8. /\ \A x \in D \cup {w} : \E i \in 1 .. Len(r) : \E j \in 1 .. Len(r[i].outputs) : r[i].outputs[j] = x
      /\ \A a, b \in 1 .. Len(r) : \A i \in 1 .. Len(r[a].outputs), j \in 1 .. Len(r[b].outputs) :
           r[a].outputs[i] = r[b].outputs[j] => a = b /\ i = j
  BY <1>5, <1>6
<1> QED BY <1>7, <1>8 DEF Holding

\* The places of groups that hold D, and their number.
LEMMA HeldPlaces ==
    ASSUME NEW S, NEW gs \in Seq(S), \A i \in 1 .. Len(gs) : DOMAIN gs[i].outputs = 1 .. Len(gs[i].outputs),
           NEW D, Holding(gs, D)
    PROVE  /\ \A p \in Places(gs) : /\ p[1] \in 1 .. Len(gs) /\ p[2] \in 1 .. Len(gs[p[1]].outputs)
                                    /\ OutputAt(gs, p) \in D
           /\ \A w \in D : \E p \in Places(gs) : OutputAt(gs, p) = w
           /\ \A p, q \in Places(gs) : OutputAt(gs, p) = OutputAt(gs, q) => p = q
           /\ IsFiniteSet(D) => IsFiniteSet(Places(gs)) /\ Cardinality(Places(gs)) = Cardinality(D)
<1>1. DOMAIN gs = 1 .. Len(gs)
  OBVIOUS
<1>2. ASSUME NEW p \in Places(gs)
      PROVE  \E i \in 1 .. Len(gs) : \E j \in 1 .. Len(gs[i].outputs) : p = <<i, j>>
  BY <1>1 DEF Places
<1>3. ASSUME NEW i \in 1 .. Len(gs), NEW j \in 1 .. Len(gs[i].outputs)
      PROVE  <<i, j>> \in Places(gs) /\ OutputAt(gs, <<i, j>>) = gs[i].outputs[j]
  BY <1>1 DEF Places, OutputAt
<1>4. \A p \in Places(gs) : /\ p[1] \in 1 .. Len(gs) /\ p[2] \in 1 .. Len(gs[p[1]].outputs)
                            /\ OutputAt(gs, p) \in D
  <2> TAKE p \in Places(gs)
  <2>1. PICK i \in 1 .. Len(gs) : \E j \in 1 .. Len(gs[i].outputs) : p = <<i, j>>
    BY <1>2
  <2>2. PICK j \in 1 .. Len(gs[i].outputs) : p = <<i, j>>
    BY <2>1
  <2>3. gs[i].outputs[j] \in D
    BY DEF Holding
  <2>4. p[1] = i /\ p[2] = j /\ OutputAt(gs, p) = gs[i].outputs[j]
    BY <1>3, <2>2
  <2> QED BY <2>3, <2>4
<1>5. \A w \in D : \E p \in Places(gs) : OutputAt(gs, p) = w
  <2> TAKE w \in D
  <2>1. PICK i \in 1 .. Len(gs) : \E j \in 1 .. Len(gs[i].outputs) : gs[i].outputs[j] = w
    BY DEF Holding
  <2>2. PICK j \in 1 .. Len(gs[i].outputs) : gs[i].outputs[j] = w
    BY <2>1
  <2> QED BY <1>3, <2>2
<1>6. ASSUME NEW p \in Places(gs), NEW q \in Places(gs), OutputAt(gs, p) = OutputAt(gs, q)
      PROVE  p = q
  <2>1. PICK a \in 1 .. Len(gs) : \E i \in 1 .. Len(gs[a].outputs) : p = <<a, i>>
    BY <1>2
  <2>2. PICK i \in 1 .. Len(gs[a].outputs) : p = <<a, i>>
    BY <2>1
  <2>3. PICK b \in 1 .. Len(gs) : \E j \in 1 .. Len(gs[b].outputs) : q = <<b, j>>
    BY <1>2
  <2>4. PICK j \in 1 .. Len(gs[b].outputs) : q = <<b, j>>
    BY <2>3
  <2>5. gs[a].outputs[i] = gs[b].outputs[j]
    BY <1>3, <1>6, <2>2, <2>4
  <2> QED BY <2>2, <2>4, <2>5 DEF Holding
<1>7. ASSUME IsFiniteSet(D)
      PROVE  IsFiniteSet(Places(gs)) /\ Cardinality(Places(gs)) = Cardinality(D)
  <2> DEFINE f == [p \in Places(gs) |-> OutputAt(gs, p)]
  <2>1. f \in [Places(gs) -> D]
    BY <1>4
  <2>2. f \in Injection(Places(gs), D)
    BY <1>6, <2>1 DEF Injection, IsInjective
  <2>3. f \in Surjection(Places(gs), D)
    BY <1>5, <2>1 DEF Surjection
  <2> HIDE DEF f
  <2> QED BY <1>7, <2>2, <2>3, FS_Injection
<1> QED BY <1>4, <1>5, <1>6, <1>7
-----------------------------------------------------------------------------
(* Which outputs are in groups, and which objects exist *)

\* The outputs that the last loop has put into groups so far.
Due == {w \in OutPin : widgets[w].assoc # 0 /\ \E k \in 1 .. placed : outputNids[k] = w}

\* A group has its own association's outputs, one at least, and room for them.
GroupOK(g) == /\ g.cap >= FirstCap /\ Len(g.outputs) \in 1 .. g.cap
              /\ \A j \in 1 .. Len(g.outputs) : widgets[g.outputs[j]].assoc = g.assoc

PlacedInv == /\ Holding(outputGroups, Due)
             /\ \A i \in 1 .. Len(outputGroups) : GroupOK(outputGroups[i])
             /\ pc = "ready" => placed = Len(outputNids)

\* No pin is read twice.
LEMMA PinsDistinct ==
    ASSUME codec \in Codecs, ReadInv, pc # "failed"
    PROVE  /\ \A a \in DOMAIN outputNids : outputNids[a] \in Nodes
           /\ \A a, b \in DOMAIN outputNids : a < b => outputNids[a] # outputNids[b]
<1>1. KnownAre(Seen)
  BY DEF ReadInv
<1>2. /\ ToSet(outputNids) \subseteq Nodes
      /\ \A a, b \in DOMAIN outputNids : a < b => Before(outputNids[a], outputNids[b])
  BY <1>1 DEF KnownAre, Seen
<1>3. \A a \in DOMAIN outputNids : outputNids[a] \in Nodes
  BY <1>2 DEF ToSet
<1>4. \A w \in Nodes : GroupOf(w) \in Int /\ w \in Int
  <2>1. \A i \in 1 .. Len(codec.groups) : i \in Int
    BY CodecFacts
  <2>2. \A w \in 1 .. 254 : w \in Int
    OBVIOUS
  <2> QED BY <2>1, <2>2, NodeFacts
<1>5. ASSUME NEW w \in Nodes PROVE ~Before(w, w)
  <2>1. \A i \in Int : ~(i < i)
    OBVIOUS
  <2> QED BY <1>4, <2>1 DEF Before
<1> QED BY <1>2, <1>3, <1>5

\* The output that is placed was not due before it.
LEMMA OneMoreDue ==
    ASSUME Inv, ReadInv, Eligible, widgets' = widgets, outputNids' = outputNids, placed' = placed + 1
    PROVE  Out \notin Due /\ Due' = Due \cup {Out}
<1>1. outputNids \in Seq(Widget) /\ placed \in 0 .. Len(outputNids) /\ placed < Len(outputNids)
      /\ pc = "outputs" /\ codec \in Codecs
  BY DEF Inv, Data, SearchInv, CodecTyped, Eligible, OutsLeft
<1>2. placed \in Nat /\ placed + 1 \in DOMAIN outputNids /\ \A k \in 1 .. placed : k \in DOMAIN outputNids /\ k < placed + 1
  BY <1>1
<1>3. \A k \in 1 .. placed : outputNids[k] # Out
  BY <1>1, <1>2, PinsDistinct DEF Out
<1>4. Out \in OutPin /\ widgets[Out].assoc # 0
  BY <1>1, <1>2 DEF OutPin, Eligible, Out
<1>5. OutPin' = OutPin
  BY DEF OutPin, KindOf, Widget
<1>6. \A k : k \in 1 .. placed + 1 <=> k \in 1 .. placed \/ k = placed + 1
  BY <1>2
<1> QED BY <1>2, <1>3, <1>4, <1>5, <1>6 DEF Due, Out

\* Nothing is placed before the last loop.
LEMMA NonePlaced == placed = 0 /\ outputGroups = <<>> /\ pc # "ready" => PlacedInv
<1> SUFFICES ASSUME placed = 0, outputGroups = <<>>, pc # "ready" PROVE PlacedInv
  OBVIOUS
<1>1. Due = {}
  BY DEF Due
<1>2. Len(outputGroups) = 0
  OBVIOUS
<1> QED BY <1>1, <1>2 DEF PlacedInv, Holding

\* A step that places nothing.
LEMMA PlacedFrame ==
    ASSUME PlacedInv, widgets' = widgets, outputNids' = outputNids, outputGroups' = outputGroups,
           Due' = Due, pc' = "ready" => placed' = Len(outputNids)
    PROVE  PlacedInv'
BY DEF PlacedInv, Holding, GroupOK

\* A step that places the next output.
LEMMA PlacedMore ==
    ASSUME Inv, ReadInv, Eligible, PlacedInv, UNCHANGED codecVars, placed' = placed + 1, pc' = pc,
           Holding(outputGroups', Due \cup {Out}),
           \A i \in 1 .. Len(outputGroups') : GroupOK(outputGroups'[i])
    PROVE  PlacedInv'
<1>1. widgets' = widgets /\ outputNids' = outputNids /\ pc' = "outputs"
  BY DEF codecVars, Eligible
<1>2. Due' = Due \cup {Out}
  BY <1>1, OneMoreDue
<1>3. \A i \in 1 .. Len(outputGroups') : GroupOK(outputGroups[i])'
  BY <1>1 DEF GroupOK
<1> QED BY <1>1, <1>2, <1>3 DEF PlacedInv, Holding

\* A new group is of the next output only.
LEMMA NewPlaced ==
    ASSUME Inv, ReadInv, PlacedInv, Independent \/ NewGroup
    PROVE  PlacedInv' /\ Len(outputGroups') = Len(outputGroups) + 1
<1>1. /\ Data /\ Eligible /\ UNCHANGED codecVars /\ placed' = placed + 1 /\ pc' = pc
  BY DEF Inv, Independent, NewGroup, Placed
<1>2. /\ Out \in Widget /\ Assoc \in 0 .. 15 /\ New \in Output /\ New.assoc = Assoc
      /\ New.outputs = <<Out>>
  BY <1>1, OutFacts
<1>3. outputGroups \in Seq(Output) /\ GroupsSorted
  BY <1>1 DEF Data, GroupsInv
<1>4. \E k : PutIn(outputGroups, New, k, outputGroups')
  <2>1. CASE Independent
    <3>1. outputGroups' = Append(outputGroups, New)
      BY <2>1 DEF Independent, Placed
    <3>2. PutIn(outputGroups, New, Len(outputGroups) + 1, outputGroups')
      BY <1>2, <1>3, <3>1 DEF PutIn
    <3> QED BY <3>2
  <2>2. CASE NewGroup
    <3>1. outputGroups' = InOrder(outputGroups, New, Assocs, Assoc) /\ Matching = {}
      BY <2>2 DEF NewGroup, Placed
    <3>2. AssocSorted(outputGroups)
      BY <1>3, SortedParts
    <3>3. RisingKeys(outputGroups, Assocs)
      <4>1. Assocs = [i \in DOMAIN outputGroups |-> outputGroups[i].assoc]
        BY DEF Assocs
      <4> QED BY <1>3, <3>2, <4>1, AssocsRising
    <3>4. Inserted(Output, outputGroups, New, Assocs, Assoc, outputGroups')
      BY <1>2, <1>3, <3>1, <3>3, InOrderFacts
    <3> QED BY <3>4, InsertedPutIn
  <2> QED BY <2>1, <2>2
<1>5. PICK k : PutIn(outputGroups, New, k, outputGroups')
  BY <1>4
<1>6. Holding(outputGroups', Due \cup {Out})
  <2>1. Holding(outputGroups, Due) /\ Len(outputGroups) \in Nat
    BY <1>3 DEF PlacedInv
  <2>2. Out \notin Due
    BY <1>1, OneMoreDue DEF codecVars
  <2> QED BY <1>2, <1>5, <2>1, <2>2, HoldsNewGroup
<1>7. GroupOK(New)
  <2>1. widgets[Out].assoc = Assoc /\ FirstCap \in Nat \ {0, 1}
    BY CapAssumption DEF Assoc
  <2>2. New.cap = FirstCap /\ Len(New.outputs) = 1 /\ New.outputs[1] = Out
    BY <1>2 DEF New
  <2> QED BY <1>2, <2>1, <2>2 DEF GroupOK
<1>8. \A i \in 1 .. Len(outputGroups') : GroupOK(outputGroups'[i])
  <2> TAKE i \in 1 .. Len(outputGroups')
  <2>1. CASE i = k
    BY <1>5, <1>7, <2>1 DEF PutIn
  <2>2. CASE i # k
    <3>1. Len(outputGroups) \in Nat
      BY <1>3
    <3>2. From(i, k) \in 1 .. Len(outputGroups) /\ outputGroups'[i] = outputGroups[From(i, k)]
      BY <1>5, <2>2, <3>1, PutInFacts
    <3> QED BY <3>2 DEF PlacedInv
  <2> QED BY <2>1, <2>2
<1>9. PlacedInv'
  BY <1>1, <1>6, <1>8, PlacedMore
<1> QED BY <1>5, <1>9 DEF PutIn

\* The group that Join finds.
LEMMA MatchingFacts ==
    ASSUME Data, Matching # {}
    PROVE  Min(Matching) \in 1 .. Len(outputGroups) /\ outputGroups[Min(Matching)].assoc = Assoc
           /\ outputGroups[Min(Matching)] \in Output
<1>1. outputGroups \in Seq(Output)
  BY DEF Data, GroupsInv
<1>2. Matching \in SUBSET Nat /\ DOMAIN outputGroups = 1 .. Len(outputGroups)
  <2>1. DOMAIN outputGroups = 1 .. Len(outputGroups) /\ \A i \in 1 .. Len(outputGroups) : i \in Nat
    BY <1>1
  <2> QED BY <2>1 DEF Matching
<1>3. Min(Matching) \in Matching
  BY <1>2, MinExists
<1> QED BY <1>1, <1>2, <1>3 DEF Matching

\* The next output joins the group of its association, which grows if it is full.
LEMMA JoinPlaced ==
    ASSUME Inv, ReadInv, PlacedInv, Join
    PROVE  PlacedInv' /\ Len(outputGroups') = Len(outputGroups)
<1> DEFINE m == Min(Matching)
           g == outputGroups[m]
           o == g.outputs
           r == outputGroups'
<1>1. /\ Data /\ Eligible /\ UNCHANGED codecVars /\ placed' = placed + 1 /\ pc' = pc
      /\ Matching # {} /\ r = [outputGroups EXCEPT ![m] = Joined(@)]
  BY DEF Inv, Join, Placed
<1>2. Out \in Widget /\ WidgetsTyped
  BY <1>1, OutFacts DEF Data
<1>3. /\ outputGroups \in Seq(Output) /\ GroupsSorted
      /\ m \in 1 .. Len(outputGroups) /\ g.assoc = Assoc /\ g \in Output
      /\ GroupOK(g)
  BY <1>1, MatchingFacts DEF Data, GroupsInv, PlacedInv
<1>4. /\ DOMAIN outputGroups = 1 .. Len(outputGroups) /\ Len(r) = Len(outputGroups)
      /\ r[m] = Joined(g) /\ \A i \in 1 .. Len(outputGroups) : i # m => r[i] = outputGroups[i]
  BY <1>1, <1>3
<1> HIDE DEF m, r
<1>5. o \in Seq(Widget) /\ OutputsSorted(o)
  BY <1>3, SortedParts DEF Output
<1>6. PICK k : PutIn(o, Out, k, InOrder(o, Out, Sequences(o), SequenceOf(Out)))
  <2> HIDE DEF o
  <2>1. RisingKeys(o, Sequences(o)) /\ SequenceOf(Out) \in Int
    BY <1>2, <1>5, SequencesRising, SequenceType
  <2>2. Inserted(Widget, o, Out, Sequences(o), SequenceOf(Out), InOrder(o, Out, Sequences(o), SequenceOf(Out)))
    BY <1>2, <1>5, <2>1, InOrderFacts
  <2> QED BY <2>2, InsertedPutIn
<1>7. /\ PutIn(o, Out, k, r[m].outputs) /\ r[m].assoc = Assoc /\ r[m].cap = CapAfter(g)
  <2>1. InOrder(o, Out, Sequences(o), SequenceOf(Out)) \in Seq(Widget)
    <3> DEFINE q == InOrder(o, Out, Sequences(o), SequenceOf(Out))
    <3>1. q = InOrder(o, Out, Sequences(o), SequenceOf(Out))
      OBVIOUS
    <3> HIDE DEF q, o
    <3>2. q \in Seq(Widget)
      BY <1>2, <1>5, <3>1, JoinSorted
    <3> QED BY <3>2 DEF q
  <2>2. r[m].outputs = InOrder(o, Out, Sequences(o), SequenceOf(Out))
        /\ r[m].assoc = g.assoc /\ r[m].cap = CapAfter(g)
    BY <1>3, <1>4, <2>1, JoinedFacts
  <2> QED BY <1>3, <1>6, <2>2
<1>8. Holding(r, Due \cup {Out})
  <2>1. Holding(outputGroups, Due) /\ Len(outputGroups) \in Nat /\ Len(o) \in Nat
    BY <1>3, <1>5 DEF PlacedInv
  <2>2. Out \notin Due
    BY <1>1, OneMoreDue DEF codecVars
  <2>3. PutIn(outputGroups[m].outputs, Out, k, r[m].outputs) /\ Len(outputGroups[m].outputs) \in Nat
    BY <1>7, <2>1
  <2> QED BY <1>3, <1>4, <2>1, <2>2, <2>3, HoldsJoined
<1>9. GroupOK(r[m])
  <2>1. FirstCap \in Nat \ {0, 1} /\ g.cap \in Nat /\ g.cap >= FirstCap /\ Len(o) \in 1 .. g.cap
    BY <1>3, CapAssumption DEF GroupOK, Output
  <2>2. CapAfter(g) \in Nat /\ CapAfter(g) >= FirstCap /\ Len(o) + 1 \in 1 .. CapAfter(g)
    <3> DEFINE c == g.cap
               n == Len(o)
    <3>1. CapAfter(g) = IF n = c THEN c + c \div 2 ELSE c
      BY DEF CapAfter, Full
    <3>2. c \in Nat /\ c >= FirstCap /\ n \in 1 .. c
      BY <2>1
    <3> HIDE DEF c, n
    <3>3. c \div 2 \in Nat /\ c \div 2 >= 1
      BY <2>1, <3>2
    <3>4. CapAfter(g) \in Nat /\ CapAfter(g) >= FirstCap /\ n + 1 \in 1 .. CapAfter(g)
      BY <2>1, <3>1, <3>2, <3>3
    <3> QED BY <3>4 DEF n
  <2>3. Len(r[m].outputs) = Len(o) + 1
    BY <1>7 DEF PutIn
  <2>4. \A j \in 1 .. Len(r[m].outputs) : widgets[r[m].outputs[j]].assoc = Assoc
    <3> TAKE j \in 1 .. Len(r[m].outputs)
    <3>1. CASE j = k
      BY <1>7, <3>1 DEF PutIn, Assoc
    <3>2. CASE j # k
      <4> DEFINE q == r[m].outputs
      <4>1. From(j, k) \in 1 .. Len(o) /\ q[j] = o[From(j, k)]
        <5>1. PutIn(o, Out, k, q) /\ Len(o) \in Nat /\ j \in 1 .. Len(q)
          BY <1>5, <1>7
        <5> HIDE DEF o, q
        <5> QED BY <3>2, <5>1, PutInFacts
      <4> QED BY <1>3, <4>1 DEF GroupOK
    <3> QED BY <3>1, <3>2
  <2> QED BY <1>7, <2>2, <2>3, <2>4 DEF GroupOK
<1>10. \A i \in 1 .. Len(r) : GroupOK(r[i])
  BY <1>4, <1>9 DEF PlacedInv
<1>11. PlacedInv'
  <2>1. /\ Holding(outputGroups', Due \cup {Out})
        /\ \A i \in 1 .. Len(outputGroups') : GroupOK(outputGroups'[i])
    BY <1>8, <1>10 DEF r
  <2> QED BY <1>1, <2>1, PlacedMore
<1> QED BY <1>4, <1>11 DEF r

\* A pin that is not an output, or has no association, is passed over.
LEMMA SkipPlaced ==
    ASSUME Inv, ReadInv, PlacedInv, SkipOutput \/ OutputsDone
    PROVE  PlacedInv' /\ outputGroups' = outputGroups
<1>1. /\ outputNids \in Seq(Widget) /\ placed \in 0 .. Len(outputNids) /\ pc = "outputs"
      /\ widgets' = widgets /\ outputNids' = outputNids /\ outputGroups' = outputGroups
  BY DEF Inv, Data, SearchInv, CodecTyped, SkipOutput, OutputsDone, codecVars, grouping
<1>2. OutPin' = OutPin
  BY <1>1 DEF OutPin, KindOf, Widget
<1>3. CASE SkipOutput
  <2>1. placed' = placed + 1 /\ placed < Len(outputNids) /\ ~Eligible /\ pc' = "outputs"
    BY <1>1, <1>3 DEF SkipOutput, OutsLeft
  <2>2. \A k : k \in 1 .. placed + 1 <=> k \in 1 .. placed \/ k = placed + 1
    BY <1>1
  <2>3. Out \in OutPin => widgets[Out].assoc = 0
    BY <1>1, <2>1 DEF Eligible, OutsLeft, OutPin
  <2>4. Due' = Due
    BY <1>1, <1>2, <2>1, <2>2, <2>3 DEF Due, Out
  <2> QED BY <1>1, <2>1, <2>4, PlacedFrame
<1>4. CASE OutputsDone
  <2>1. placed' = placed /\ ~(placed < Len(outputNids)) /\ pc' = "ready"
    BY <1>4 DEF OutputsDone, OutsLeft, grouping
  <2>2. placed = Len(outputNids)
    BY <1>1, <2>1
  <2>3. Due' = Due
    BY <1>1, <1>2, <2>1 DEF Due
  <2> QED BY <1>1, <2>1, <2>2, <2>3, PlacedFrame
<1> QED BY <1>1, <1>3, <1>4

\* Every step keeps what is in groups in step with the last loop.
LEMMA PlacedStep == ASSUME Inv, ReadInv, PlacedInv, [Next]_vars, Inv' PROVE PlacedInv'
<1>1. CASE Grouping
  BY <1>1, NewPlaced, JoinPlaced, SkipPlaced DEF Grouping
<1>2. CASE Fail
  <2>1. placed' = 0 /\ outputGroups' = <<>> /\ pc' = "failed"
    BY <1>2 DEF Fail, ReadFails, SearchFails, OutputFails, GroupFails, JoinFails, Abandon, Discarded
  <2>2. (placed = 0 /\ outputGroups = <<>> /\ pc # "ready")'
    BY <2>1
  <2> QED BY <2>2, NonePlaced, PTL
<1>3. CASE Reading \/ Searching
  <2>1. pc \in {"codec", "group", "widget", "search"} /\ UNCHANGED grouping
        /\ pc' \in {"group", "widget", "search", "outputs"}
    BY <1>3 DEF Reading, ReadRoot, SkipGroup, EnterGroup, LeaveGroup, ReadWidget, GroupsRead,
                Searching, SearchStep, NextPin, Pop, Skip, Found, Descend, Looking, Searched
  <2>2. placed' = 0 /\ outputGroups' = <<>> /\ pc' # "ready"
    BY <2>1 DEF Inv, Order, grouping
  <2>3. (placed = 0 /\ outputGroups = <<>> /\ pc # "ready")'
    BY <2>2
  <2> QED BY <2>3, NonePlaced, PTL
<1>4. CASE Client \/ UNCHANGED vars
  <2>1. UNCHANGED <<codecVars, grouping>> /\ pc' = pc
    BY <1>4 DEF Client, SelectStep, Select, Release, vars, pathVars
  <2>2. /\ widgets' = widgets /\ outputNids' = outputNids /\ outputGroups' = outputGroups
        /\ placed' = placed
    BY <2>1 DEF codecVars, grouping
  <2>3. Due' = Due
    BY <2>2 DEF Due, OutPin, KindOf, Widget
  <2> QED BY <2>1, <2>2, <2>3, PlacedFrame DEF PlacedInv
<1> QED BY <1>1, <1>2, <1>3, <1>4 DEF Next, InitStep

\* Bytes are finitely many.
LEMMA Bytes == ASSUME NEW S \in SUBSET (0 .. 255) PROVE IsFiniteSet(S)
<1>1. PICK n \in Nat : n = 255
  OBVIOUS
<1>2. 0 \in 0 .. 1
  OBVIOUS
<1>3. IsFiniteSet(0 .. n)
  BY <1>2, Counted
<1>4. S \in SUBSET (0 .. n)
  BY <1>1
<1> QED BY <1>3, <1>4, FS_Subset

\* What is in groups can be counted by what is due.
LEMMA GroupedCount ==
    Inv /\ PlacedInv => IsFiniteSet(Due) /\ InGroups = Cardinality(Due) /\ Cardinality(Due) \in Nat
<1> SUFFICES ASSUME Inv, PlacedInv
             PROVE  IsFiniteSet(Due) /\ InGroups = Cardinality(Due) /\ Cardinality(Due) \in Nat
  OBVIOUS
<1>1. Due \subseteq 0 .. 255 /\ outputGroups \in Seq(Output)
  BY DEF Inv, Data, SearchInv, CodecTyped, GroupsInv, Due, OutPin
<1>2. IsFiniteSet(Due)
  BY <1>1, Bytes
<1>3. \A i \in 1 .. Len(outputGroups) : DOMAIN outputGroups[i].outputs = 1 .. Len(outputGroups[i].outputs)
  <2>1. \A g \in Output : DOMAIN g.outputs = 1 .. Len(g.outputs)
    BY DEF Output
  <2> QED BY <1>1, <2>1
<1>4. Cardinality(Places(outputGroups)) = Cardinality(Due)
  BY <1>1, <1>2, <1>3, HeldPlaces DEF PlacedInv
<1> QED BY <1>2, <1>4, FS_CardinalityType DEF InGroups

\* A group that is full up to the first capacity leaves another of its pins out.
LEMMA FullGroup ==
    ASSUME Inv, ReadInv, PlacedInv, JoinFails
    PROVE  \E a \in 1 .. 14 : Cardinality(PinsOf(a)) > FirstCap
<1> DEFINE g == outputGroups[Min(Matching)]
           o == g.outputs
           T == ToSet(o) \cup {Out}
<1>1. Data /\ Eligible /\ Assoc # 15 /\ Matching # {} /\ Full(g) /\ codec \in Codecs /\ pc = "outputs"
  BY DEF Inv, JoinFails, Eligible
<1>2. /\ Min(Matching) \in 1 .. Len(outputGroups) /\ g.assoc = Assoc /\ g \in Output
      /\ GroupOK(g)
  BY <1>1, MatchingFacts DEF PlacedInv
<1>3. Assoc \in 1 .. 14
  <2>1. Assoc \in 0 .. 15
    BY <1>1, OutFacts
  <2>2. Assoc # 0
    BY <1>1 DEF Eligible, Assoc
  <2> QED BY <1>1, <2>1, <2>2
<1>4. o \in Seq(Widget) /\ Len(o) \in Nat /\ Len(o) >= FirstCap /\ FirstCap \in Nat
  BY <1>1, <1>2, CapAssumption DEF Output, GroupOK, Full
<1>5. /\ \A i \in 1 .. Len(o) : o[i] \in Due
      /\ \A i, j \in 1 .. Len(o) : o[i] = o[j] => i = j
  BY <1>2 DEF PlacedInv, Holding
<1>6. \A w \in Due \cup {Out} : w \in OutPin
  <2>1. Out \in Widget
    BY <1>1, OutFacts
  <2>2. Out \in OutPin
    BY <1>1, <2>1 DEF OutPin, Eligible
  <2> QED BY <2>2 DEF Due
<1>7. \A w \in OutPin : w \in Nodes /\ widgets[w] = Described(w)
  <2>1. KnownAre(Seen)
    BY <1>1 DEF ReadInv
  <2>2. \A w \in OutPin : w \in Widget /\ widgets[w].kind = "outPin"
    BY DEF OutPin, KindOf
  <2>3. \A w \in OutPin : widgets[w] # Hole
    BY <2>2 DEF Hole
  <2> QED BY <2>1, <2>2, <2>3 DEF KnownAre, Seen
<1>8. Out \notin Due
  <2>1. outputNids \in Seq(Widget) /\ placed \in 0 .. Len(outputNids) /\ placed < Len(outputNids)
    BY <1>1 DEF Data, SearchInv, CodecTyped, Eligible, OutsLeft
  <2>2. placed + 1 \in DOMAIN outputNids /\ \A k \in 1 .. placed : k \in DOMAIN outputNids /\ k < placed + 1
    BY <2>1
  <2> QED BY <1>1, <2>2, PinsDistinct DEF Due, Out
<1>9. T \subseteq PinsOf(Assoc)
  <2>1. \A w \in OutPin : widgets[w].assoc = Assoc => w \in PinsOf(Assoc)
    BY <1>7 DEF PinsOf, OutPin, KindOf
  <2>2. Out \in PinsOf(Assoc)
    BY <1>6, <2>1 DEF Assoc
  <2>3. \A i \in 1 .. Len(o) : o[i] \in PinsOf(Assoc)
    BY <1>2, <1>5, <1>6, <2>1 DEF GroupOK
  <2> QED BY <1>4, <2>2, <2>3 DEF ToSet
<1>10. IsFiniteSet(PinsOf(Assoc))
  <2>1. PinsOf(Assoc) \subseteq 1 .. 254
    BY <1>1, NodeFacts DEF PinsOf
  <2>2. PinsOf(Assoc) \subseteq 0 .. 255
    BY <2>1
  <2> QED BY <2>2, Bytes
<1>11. IsFiniteSet(ToSet(o)) /\ Cardinality(ToSet(o)) = Len(o)
  <2> HIDE DEF o
  <2>1. \A i, j \in DOMAIN o : i # j => o[i] # o[j]
    BY <1>4, <1>5
  <2> QED BY <1>4, <2>1, DistinctCount
<1>12. Cardinality(T) = Len(o) + 1 /\ IsFiniteSet(T)
  <2>1. Out \notin ToSet(o)
    BY <1>4, <1>5, <1>8 DEF ToSet
  <2> HIDE DEF o
  <2> QED BY <1>11, <2>1, FS_AddElement
<1>13. Cardinality(T) <= Cardinality(PinsOf(Assoc)) /\ Cardinality(PinsOf(Assoc)) \in Nat
  <2> HIDE DEF T
  <2> QED BY <1>9, <1>10, FS_Subset, FS_CardinalityType
<1> HIDE DEF T, o
<1>14. Cardinality(PinsOf(Assoc)) > FirstCap
  BY <1>4, <1>12, <1>13
<1> QED BY <1>3, <1>14

\* Every object is accounted for, placed or freed.
LEMMA LostStep ==
    ASSUME Inv, ReadInv, PlacedInv, NothingLost, [Next]_vars, Inv', PlacedInv'
    PROVE  NothingLost'
<1>1. InGroups = Cardinality(Due) /\ Cardinality(Due) \in Nat /\ IsFiniteSet(Due)
  BY GroupedCount
<1>2. (InGroups = Cardinality(Due))'
  BY GroupedCount, PTL
<1>3. outputGroups \in Seq(Output) /\ Len(outputGroups) \in Nat
  BY DEF Inv, Data, GroupsInv
<1>4. CASE Independent \/ NewGroup \/ Join
  <2>1. /\ Eligible /\ UNCHANGED codecVars /\ placed' = placed + 1 /\ pc' = pc /\ pc = "outputs"
    BY <1>4 DEF Independent, NewGroup, Join, Placed, Eligible
  <2>2. InGroups' = InGroups + 1
    <3>1. Out \notin Due /\ Due' = Due \cup {Out}
      BY <2>1, OneMoreDue DEF codecVars
    <3>2. Cardinality(Due \cup {Out}) = Cardinality(Due) + 1
      BY <1>1, <3>1, FS_AddElement
    <3> QED BY <1>1, <1>2, <3>1, <3>2
  <2>3. live = [outputs |-> InGroups, groups |-> Len(outputGroups)]
    BY <2>1 DEF NothingLost
  <2>4. live' = [outputs |-> InGroups', groups |-> Len(outputGroups')]
    <3>1. CASE Independent \/ NewGroup
      <4>1. live' = [outputs |-> live.outputs + 1, groups |-> live.groups + 1]
        BY <3>1 DEF Independent, NewGroup, Placed
      <4> QED BY <2>2, <2>3, <3>1, <4>1, NewPlaced
    <3>2. CASE Join
      <4>1. live' = [outputs |-> live.outputs + 1, groups |-> live.groups + 0]
        BY <3>2 DEF Join, Placed
      <4> QED BY <1>3, <2>2, <2>3, <3>2, <4>1, JoinPlaced
    <3> QED BY <1>4, <3>1, <3>2
  <2> QED BY <2>1, <2>4 DEF NothingLost
<1>5. CASE Fail
  <2>1. pc' = "failed" /\ pc # "failed" /\ codec' = codec
    BY <1>5 DEF Fail, ReadFails, SearchFails, Grows, Looking, OutputFails, GroupFails, JoinFails,
                Eligible, Abandon, Discarded, Inv, Order
  <2>2. live = [outputs |-> InGroups, groups |-> Len(outputGroups)]
    BY <2>1 DEF NothingLost
  <2>3. ASSUME NEW n \in 0 .. 1, Abandon(n, 0) PROVE live'.outputs = n /\ live'.groups = 0
    BY <1>1, <1>3, <2>2, <2>3 DEF Abandon
  <2>4. CASE JoinFails
    <3>1. live'.outputs = 1 /\ live'.groups = 0
      BY <2>3, <2>4 DEF JoinFails
    <3>2. \E a \in 1 .. 14 : Cardinality(PinsOf(a)) > FirstCap
      BY <2>4, FullGroup
    <3>3. \A a : PinsOf(a)' = PinsOf(a)
      BY <2>1, SameNodes DEF PinsOf
    <3> QED BY <2>1, <3>1, <3>2, <3>3 DEF NothingLost
  <2>5. CASE ~JoinFails
    <3>1. Abandon(0, 0)
      BY <1>5, <2>5 DEF Fail, ReadFails, SearchFails, OutputFails, GroupFails
    <3>2. live'.outputs = 0 /\ live'.groups = 0
      BY <2>3, <3>1
    <3> QED BY <2>1, <3>2 DEF NothingLost
  <2> QED BY <2>4, <2>5
<1>6. CASE SkipOutput \/ OutputsDone \/ Reading \/ Searching \/ Client \/ UNCHANGED vars
  <2>1. live' = live /\ outputGroups' = outputGroups /\ codec' = codec
    BY <1>6 DEF SkipOutput, OutputsDone, Reading, ReadRoot, SkipGroup, EnterGroup, LeaveGroup, ReadWidget,
                GroupsRead, Searching, Client, vars, grouping, loops
  <2>2. pc' # "failed" <=> pc # "failed"
    BY <1>6 DEF SkipOutput, OutputsDone, Reading, ReadRoot, SkipGroup, EnterGroup, LeaveGroup, ReadWidget,
                GroupsRead, Searching, SearchStep, NextPin, Pop, Skip, Found, Descend, Looking, Searched,
                Client, SelectStep, Select, Release, vars, pathVars
  <2>3. InGroups' = InGroups
    BY <2>1 DEF InGroups, Places
  <2>4. \A a : PinsOf(a)' = PinsOf(a)
    BY <2>1, SameNodes DEF PinsOf
  <2> QED BY <2>1, <2>2, <2>3, <2>4 DEF NothingLost
<1> QED BY <1>4, <1>5, <1>6 DEF Next, InitStep, Grouping

\* Nothing exists before the enumeration.
LEMMA InitPlaced == ASSUME Init PROVE PlacedInv /\ NothingLost
<1>1. placed = 0 /\ outputGroups = <<>> /\ pc = "codec" /\ live = [outputs |-> 0, groups |-> 0]
  BY DEF Init
<1>2. PlacedInv
  BY <1>1, NonePlaced
<1>3. Places(outputGroups) = {}
  BY <1>1 DEF Places
<1>4. InGroups = 0
  BY <1>3, FS_EmptySet DEF InGroups
<1> QED BY <1>1, <1>2, <1>4 DEF NothingLost

-----------------------------------------------------------------------------
(* What the search finds in the codec that is enumerated *)

\* The pins whose turns come, and the kinds, are those of the codec.
LEMMA CodecRead ==
    ASSUME Inv, ReadInv, pc \in {"search", "outputs", "ready"}
    PROVE  CodecTyped /\ KindsKnown /\ PinsKnown /\ PinsOnce
<1>1. CodecTyped /\ outputNids \in Seq(Widget)
  BY DEF Inv, Data, SearchInv, CodecTyped
<1>2. KindsKnown
  BY DEF Inv, Data, WidgetsTyped, WidgetRecord, KindsKnown, KindOf
<1>3. DOMAIN outputNids = 1 .. Len(outputNids)
  BY <1>1
<1>4. PinsKnown
  <2>1. KnownAre(Nodes)
    <3>1. Seen = Nodes
      BY DEF Seen, Passed
    <3> QED BY <3>1 DEF ReadInv
  <2>2. ASSUME NEW w \in OutPin PROVE w \in ToSet(outputNids)
    <3>1. w \in Widget /\ widgets[w].kind = "outPin"
      BY DEF OutPin, KindOf
    <3>2. w \in Nodes /\ Described(w).kind = "outPin"
      BY <2>1, <3>1 DEF KnownAre, Hole
    <3> QED BY <2>1, <3>2 DEF KnownAre, IsPin
  <2> QED BY <1>3, <2>2 DEF PinsKnown, ToSet
<1>5. PinsOnce
  <2>1. \A a, b \in 1 .. Len(outputNids) : a < b => outputNids[a] # outputNids[b]
    BY <1>3, PinsDistinct DEF Inv
  <2>2. \A a, b \in 1 .. Len(outputNids) : a # b => a < b \/ b < a
    OBVIOUS
  <2> QED BY <2>1, <2>2 DEF PinsOnce
<1> QED BY <1>1, <1>2, <1>4, <1>5

\* Once the search has begun, every way is found or pending; then it has had all
\* its turns.
FoundInv == /\ pc \in {"search", "outputs", "ready"} =>
                 (turn = 0 /\ stack = <<>> /\ paths = <<>>) \/ SearchFound(turn, stack, paths)
            /\ pc \in {"outputs", "ready"} => turn = Len(outputNids) /\ stack = <<>>

LEMMA FoundSoFar ==
    ASSUME Inv, ReadInv, FoundInv, pc \in {"search", "outputs", "ready"}
    PROVE  SearchFound(turn, stack, paths)
<1>1. CASE turn = 0 /\ stack = <<>> /\ paths = <<>>
  <2>1. SearchFound(0, <<>>, <<>>)
    BY CodecRead, NothingFound DEF SearchFound
  <2> QED BY <1>1, <2>1
<1>2. CASE SearchFound(turn, stack, paths)
  BY <1>2
<1> QED BY <1>1, <1>2 DEF FoundInv

\* What is found and what is pending is said of the codec's widgets.
LEMMA SameFound ==
    ASSUME UNCHANGED codecVars, SearchFound(turn', stack', paths')
    PROVE  SearchFound(turn, stack, paths)'
<1>1. widgets' = widgets /\ outputNids' = outputNids
  BY DEF codecVars
<1>2. /\ Widget' = Widget /\ OutPin' = OutPin
      /\ \A w : Conns(w)' = Conns(w) /\ KindOf(w)' = KindOf(w)
  BY <1>1 DEF Widget, OutPin, KindOf, Conns
<1>3. /\ \A e : Remaining(e)' = Remaining(e) /\ (RestOnce(e)' <=> RestOnce(e))
      /\ \A p : (IsWay(p)' <=> IsWay(p)) /\ (Walk(p)' <=> Walk(p))
      /\ (ListsOnce' <=> ListsOnce) /\ (PinsOnce' <=> PinsOnce)
  BY <1>1, <1>2 DEF Remaining, RestOnce, ReadOut, IsWay, Walk, ListsOnce, PinsOnce
<1> QED BY <1>1, <1>2, <1>3 DEF SearchFound, FoundAll, FoundOnce, Pending, Along

\* No step loses a way.
LEMMA FoundStep ==
    ASSUME Inv, ReadInv, FoundInv, [Next]_vars, Inv'
    PROVE  FoundInv'
<1>1. CASE Searching
  <2>1. CASE SearchStep
    <3>1. SearchInv /\ KindsKnown /\ UNCHANGED codecVars /\ pc' = pc /\ pc = "search"
      BY <2>1, SearchStepInv, CodecRead DEF Inv, Data
    <3>2. SearchFound(turn', stack', paths')
      BY <2>1, <3>1, FoundSoFar, StepFound
    <3> QED BY <3>1, <3>2, SameFound DEF FoundInv
  <2>2. CASE ~SearchStep
    <3>1. Searched /\ pc' = "outputs" /\ UNCHANGED <<codecVars, search>>
      BY <1>1, <2>2 DEF Searching
    <3>2. turn' = turn /\ stack' = stack /\ paths' = paths /\ outputNids' = outputNids
          /\ UNCHANGED codecVars /\ pc = "search"
      BY <3>1 DEF search, codecVars, Searched
    <3>3. SearchFound(turn, stack, paths)'
      BY <3>2, FoundSoFar, SameFound
    <3>4. turn = Len(outputNids) /\ stack = <<>>
      <4>1. turn \in 0 .. Len(outputNids) /\ outputNids \in Seq(Widget)
        BY DEF Inv, Data, SearchInv, CodecTyped
      <4>2. Len(outputNids) \in Nat /\ ~(turn < Len(outputNids)) /\ stack = <<>>
        BY <3>1, <4>1 DEF Searched, TurnsLeft
      <4> QED BY <4>1, <4>2
    <3> QED BY <3>1, <3>2, <3>3, <3>4 DEF FoundInv
  <2> QED BY <2>1, <2>2
<1>2. CASE Grouping \/ Client \/ UNCHANGED vars
  <2>1. /\ turn' = turn /\ stack' = stack /\ paths' = paths /\ UNCHANGED codecVars
        /\ pc' = pc \/ (pc = "outputs" /\ pc' = "ready")
    BY <1>2 DEF Grouping, SkipOutput, Independent, NewGroup, Join, Placed, OutputsDone,
                Client, SelectStep, Select, Release, vars, pathVars, codecVars, search
  <2>2. outputNids' = outputNids
    BY <2>1 DEF codecVars
  <2>3. pc \in {"search", "outputs", "ready"} => SearchFound(turn, stack, paths)'
    BY <2>1, FoundSoFar, SameFound
  <2> QED BY <2>1, <2>2, <2>3 DEF FoundInv
<1>3. CASE Reading
  <2>1. /\ pc' \in {"group", "widget", "search"} /\ turn' = turn /\ stack' = stack /\ paths' = paths
        /\ pc \in {"codec", "group", "widget"}
    BY <1>3 DEF Reading, ReadRoot, SkipGroup, EnterGroup, LeaveGroup, ReadWidget, GroupsRead, search
  <2>2. turn = 0 /\ stack = <<>> /\ paths = <<>>
    BY <2>1 DEF Inv, Order
  <2> QED BY <2>1, <2>2 DEF FoundInv
<1>4. CASE Fail
  <2>1. pc' = "failed"
    BY <1>4 DEF Fail, ReadFails, SearchFails, OutputFails, GroupFails, JoinFails, Abandon, Discarded
  <2> QED BY <2>1 DEF FoundInv
<1> QED BY <1>1, <1>2, <1>3, <1>4 DEF Next, InitStep

-----------------------------------------------------------------------------
(* Theorems *)

\* Through every step of init(), every failure and every choice of paths: the
\* counters stay inside the codec, the stack is a chain from an output pin along
\* the connection lists, the paths in use are usable together, the groups sorted.
THEOREM InvHolds == Spec => []Inv
<1>1. ASSUME Inv, [Next]_vars PROVE Inv'
  <2>1. ASSUME InitStep PROVE Inv'
    BY <1>1, <2>1, ReadingInv, ReadWidgetInv, SearchingInv, GroupingInv, FailInv DEF InitStep, Reading
  <2> QED BY <1>1, <2>1, ClientStepInv, StutterInv DEF Next
<1> QED BY <1>1, InitInv, PTL DEF Spec

\* The 8-bit counters of the loops over function groups and widgets, the search's
\* stack and places in the lists, and the client's paths are in their ranges.
THEOREM TypeCorrect == Spec => []TypeOK
<1>1. ASSUME Inv PROVE TypeOK
  <2>1. Order /\ Counters /\ SearchInv /\ ClientInv /\ placed \in 0 .. Len(outputNids)
    BY <1>1 DEF Inv, Data
  <2>2. InUse \subseteq ToSet(paths)
    BY <2>1 DEF ClientInv
  <2> QED BY <2>1, <2>2, StackTyped DEF TypeOK, Order, Counters
<1> QED BY <1>1, InvHolds, PTL

\* find_output_paths offers only paths that the connection lists make.
THEOREM PathsSoundHolds == Spec => []PathsSound
<1>1. ASSUME Inv PROVE PathsSound
  BY <1>1, SoundPaths DEF Inv, Data
<1> QED BY <1>1, InvHolds, PTL

\* The paths that uhda_find_path gives to the client work together.
THEOREM ActiveTogetherHolds == Spec => []ActiveTogether
<1>1. ASSUME Inv PROVE ActiveTogether
  BY <1>1, TogetherFollows DEF Inv, Data
<1> QED BY <1>1, InvHolds, PTL

\* uhda_find_path refuses no output that has a path of its own.
THEOREM FindsUsableHolds == Spec => []FindsUsable
<1>1. ASSUME Inv PROVE FindsUsable
  BY <1>1, FindsFollows DEF Inv, Data
<1> QED BY <1>1, InvHolds, PTL

\* The last loop of init() sorts groups by association, outputs by sequence.
THEOREM GroupsSortedHolds == Spec => []GroupsSorted
<1>1. ASSUME Inv PROVE GroupsSorted
  BY <1>1 DEF Inv, Data, GroupsInv
<1> QED BY <1>1, InvHolds, PTL

\* Through every step of init() and every failure: what is known of the codec is
\* what its counters have passed, the places in groups are those of the outputs
\* the last loop has dealt with, and the objects that exist are the ones placed.
THEOREM WholeHolds == Spec => [](ReadInv /\ PlacedInv /\ NothingLost)
<1> DEFINE Whole == ReadInv /\ PlacedInv /\ NothingLost
<1>1. ASSUME Init PROVE Whole
  BY <1>1, InitKnows, InitPlaced
<1>2. ASSUME Whole, Inv, Inv', [Next]_vars PROVE Whole'
  <2>1. ReadInv'
    BY <1>2, CountingKnows, ItemKnown, OthersKnow DEF Next, InitStep, Reading
  <2>2. PlacedInv'
    BY <1>2, PlacedStep
  <2> QED BY <1>2, <2>1, <2>2, LostStep
<1> QED BY <1>1, <1>2, InvHolds, PTL DEF Spec

\* The loops over node ids end with every widget of the audio function groups in
\* its place as the codec describes it, muted, and the pins in the codec's order.
THEOREM EnumeratedHolds == Spec => []Enumerated
<1>1. ASSUME ReadInv PROVE Enumerated
  <2> SUFFICES ASSUME pc \in {"search", "outputs", "ready"}
               PROVE  KnownAre(Nodes)
    BY DEF Enumerated, KnownAre
  <2>1. Seen = Nodes
    BY DEF Seen, Passed
  <2> QED BY <1>1, <2>1 DEF ReadInv
<1> QED BY <1>1, WholeHolds, PTL

\* When init() succeeds, every connected output pin that has an association is in
\* one place, in a group of its association, and nothing else is in a group.
THEOREM GroupsCompleteHolds == Spec => []GroupsComplete
<1>1. ASSUME Inv, ReadInv, PlacedInv PROVE GroupsComplete
  <2> SUFFICES ASSUME pc = "ready" PROVE GroupsComplete
    BY DEF GroupsComplete
  <2>1. outputGroups \in Seq(Output) /\ outputNids \in Seq(Widget)
    BY <1>1 DEF Inv, Data, GroupsInv, SearchInv, CodecTyped
  <2>2. KnownAre(Nodes)
    <3>1. Seen = Nodes
      BY DEF Seen, Passed
    <3> QED BY <1>1, <3>1 DEF ReadInv
  <2>3. \A w \in OutPin : \E k \in 1 .. placed : outputNids[k] = w
    <3> TAKE w \in OutPin
    <3>1. w \in Widget /\ widgets[w].kind = "outPin"
      BY DEF OutPin, KindOf
    <3>2. w \in Nodes /\ Described(w).kind = "outPin"
      BY <2>2, <3>1 DEF KnownAre, Hole
    <3>3. w \in ToSet(outputNids)
      BY <2>2, <3>2 DEF KnownAre, IsPin
    <3>4. placed = Len(outputNids) /\ DOMAIN outputNids = 1 .. Len(outputNids)
      BY <1>1, <2>1 DEF PlacedInv
    <3> QED BY <3>3, <3>4 DEF ToSet
  <2>4. Due = {w \in OutPin : widgets[w].assoc # 0}
    BY <2>3 DEF Due
  <2>5. \A i \in 1 .. Len(outputGroups) : DOMAIN outputGroups[i].outputs = 1 .. Len(outputGroups[i].outputs)
    <3>1. \A g \in Output : DOMAIN g.outputs = 1 .. Len(g.outputs)
      BY DEF Output
    <3> QED BY <2>1, <3>1
  <2> DEFINE gs == outputGroups
  <2>6. \A p \in Places(gs) : /\ p[1] \in 1 .. Len(gs) /\ p[2] \in 1 .. Len(gs[p[1]].outputs)
                              /\ OutputAt(gs, p) \in Due
    BY <1>1, <2>1, <2>5, HeldPlaces DEF PlacedInv
  <2>7. \A w \in Due : \E p \in Places(gs) : OutputAt(gs, p) = w
    BY <1>1, <2>1, <2>5, HeldPlaces DEF PlacedInv
  <2>8. \A p, q \in Places(gs) : OutputAt(gs, p) = OutputAt(gs, q) => p = q
    BY <1>1, <2>1, <2>5, HeldPlaces DEF PlacedInv
  <2>9. \A p \in Places(gs) : widgets[OutputAt(gs, p)].assoc = gs[p[1]].assoc
    BY <1>1, <2>6 DEF PlacedInv, GroupOK, OutputAt
  <2> QED BY <2>4, <2>6, <2>7, <2>8, <2>9 DEF GroupsComplete
<1> QED BY <1>1, InvHolds, WholeHolds, PTL

\* Whatever fails, every UhdaOutput and UhdaOutputGroup is freed once, but for one
\* output of an association that has more pins than a vector's first capacity.
THEOREM NothingLostHolds == Spec => []NothingLost
BY WholeHolds, PTL

\* When init() returns, the paths found are all the ways there are along the
\* connection lists, up to the depth limit, and none is found twice in lists that
\* name a node once.
THEOREM PathsCompleteHolds == Spec => []PathsComplete
<1>1. ASSUME Init PROVE FoundInv
  BY <1>1 DEF Init, FoundInv
<1>2. ASSUME Inv, ReadInv, FoundInv PROVE PathsComplete
  <2> SUFFICES ASSUME pc = "ready" PROVE PathsComplete
    BY DEF PathsComplete
  <2>1. /\ ToSet(paths) = Ways
        /\ ListsOnce /\ PinsOnce => Len(paths) = Cardinality(Ways)
    BY <1>2, FoundSoFar, AllFound DEF FoundInv, Inv, Data
  <2>2. PinsOnce
    BY <1>2, CodecRead
  <2> QED BY <2>1, <2>2 DEF PathsComplete, ListsOnce
<1> QED BY <1>1, <1>2, FoundStep, InvHolds, WholeHolds, PTL DEF Spec
=============================================================================
