------------------------------ MODULE CodecInit ------------------------------
(***************************************************************************)
(* UhdaCodec::init (codec.cpp): the enumeration of a codec's function      *)
(* groups and widgets by verbs, the path search of CodecPaths, and the     *)
(* grouping of its output pins by association, with a failure at each verb *)
(* and each allocation; then the client's choice of paths.                 *)
(*                                                                         *)
(* The calls of one init() are sequential and the codec they read does not *)
(* change: a function group, a widget and an output are a step each.       *)
(***************************************************************************)
EXTENDS CodecPaths

CONSTANTS Codecs,    \* what the hardware may answer
          FirstCap   \* the capacity of a vector's first allocation: 8

\* A widget, whose nid is its place; a function group, its widgets from node id
\* start on; a codec, its function groups from node id first on.  A connection
\* list of the long form has long set.
WidgetAnswers == [kind : Kind, conns : Seq(Connection), assoc : 0 .. 15, seq : 0 .. 15,
                  long : BOOLEAN]
FunctionGroup == [audio : BOOLEAN, start : 1 .. 255, widgets : Seq(WidgetAnswers)]
CodecAssumption(c) ==
    /\ c \in [first : 1 .. 255, groups : Seq(FunctionGroup)]
    /\ c.first + Len(c.groups) <= 255
    /\ \A i \in DOMAIN c.groups : c.groups[i].start + Len(c.groups[i].widgets) <= 255
\* A count of nodes that reaches 256 would keep the 8-bit counters below it.
ASSUME CodecsAssumption == \A c \in Codecs : CodecAssumption(c)

\* The nodes that init() reads of a function group.  A node is of one group.
NodesOf(g) == IF g.audio THEN g.start .. g.start + Len(g.widgets) - 1 ELSE {}
ASSUME NodesAssumption ==
    \A c \in Codecs : \A i, j \in DOMAIN c.groups :
        i # j => NodesOf(c.groups[i]) \cap NodesOf(c.groups[j]) = {}
ASSUME CapAssumption == FirstCap \in Nat \ {0, 1}

VARIABLES codec,         \* the codec
          group, item,   \* func_group_i, widget_i
          muted,         \* the widgets whose amplifier has been muted
          placed,        \* how many of the pins the last loop has dealt with
          outputGroups,  \* output_groups: association, outputs as widgets and
                         \* the capacity of their vector
          live           \* how many UhdaOutput and UhdaOutputGroup objects exist

loops == <<codec, group, item, muted>>
grouping == <<placed, outputGroups, live>>
vars == <<pathVars, loops, grouping>>

Init == /\ codec \in Codecs
        /\ pc = "codec" /\ group = 0 /\ item = 0 /\ muted = {}
        /\ widgets = <<>> /\ outputNids = <<>>
        /\ turn = 0 /\ stack = <<>> /\ paths = <<>> /\ active = {}
        /\ placed = 0 /\ outputGroups = <<>> /\ live = [outputs |-> 0, groups |-> 0]
-----------------------------------------------------------------------------
(* Function groups and widgets *)

NextByte(i) == (i + 1) % 256

\* The function group and the widget the counters are at.
GroupsLeft == group < codec.first + Len(codec.groups)
Group == codec.groups[group - codec.first + 1]
WidgetsLeft == item < Group.start + Len(Group.widgets)
Read == Group.widgets[item - Group.start + 1]

ReadRoot == /\ pc = "codec"
            /\ pc' = "group" /\ group' = codec.first
            /\ UNCHANGED <<codec, item, muted, codecVars, search, active, grouping>>

SkipGroup == /\ pc = "group" /\ GroupsLeft /\ ~Group.audio
             /\ group' = NextByte(group)
             /\ UNCHANGED <<pc, codec, item, muted, codecVars, search, active, grouping>>

EnterGroup == /\ pc = "group" /\ GroupsLeft /\ Group.audio
              /\ pc' = "widget" /\ item' = Group.start
              /\ UNCHANGED <<codec, group, muted, codecVars, search, active, grouping>>

LeaveGroup == /\ pc = "widget" /\ ~WidgetsLeft
              /\ pc' = "group" /\ group' = NextByte(group)
              /\ UNCHANGED <<codec, item, muted, codecVars, search, active, grouping>>

\* A connection list comes in answers of four entries from a given one on.
Padding == [nid |-> 0, range |-> FALSE]
Answer(l, i) == [j \in 1 .. 4 |-> IF i + j <= Len(l) THEN l[i + j] ELSE Padding]
EntryOf(l, j) == Answer(l, 4 * ((j - 1) \div 4))[((j - 1) % 4) + 1]
ReadListWhole(l) == [j \in 1 .. 4 * ((Len(l) + 3) \div 4) |-> EntryOf(l, j)]
ReadList(l) == [j \in 1 .. Len(l) |-> EntryOf(l, j)]

Fields(r, nid) == [nid |-> nid, kind |-> r.kind, conns |-> ReadList(r.conns),
                   assoc |-> r.assoc, seq |-> r.seq]

\* widgets[w] = r, after a resize() that leaves holes.
Stored(w, r) == [i \in Widget \cup 0 .. w |->
                    IF i = w THEN r ELSE IF i \in Widget THEN widgets[i] ELSE Hole]

ReadWidget == /\ pc = "widget" /\ WidgetsLeft /\ ~Read.long
              /\ widgets' = Stored(item, Fields(Read, item))
              /\ outputNids' = IF IsPin(Read) THEN Append(outputNids, item) ELSE outputNids
              /\ muted' = muted \cup {item}
              /\ item' = NextByte(item)
              /\ UNCHANGED <<pc, codec, group, search, active, grouping>>

GroupsRead == /\ pc = "group" /\ ~GroupsLeft
              /\ pc' = "search"
              /\ UNCHANGED <<loops, codecVars, search, active, grouping>>
-----------------------------------------------------------------------------
(* Output groups *)

Out == outputNids[placed + 1]
OutsLeft == placed < Len(outputNids)
Eligible == pc = "outputs" /\ OutsLeft /\ KindOf(Out) = "outPin" /\ widgets[Out].assoc # 0
Assoc == widgets[Out].assoc
SequenceOf(w) == widgets[w].seq

\* A vector that is full takes a capacity of half as much again.
Full(g) == Len(g.outputs) = g.cap
CapAfter(g) == IF Full(g) THEN g.cap + g.cap \div 2 ELSE g.cap

\* Pushed if its key is not below the last one's, else inserted before the first
\* greater one; keys are those of v's elements.
InOrderStrict(v, e, keys, key) ==
    LET greater == {i \in DOMAIN v : keys[i] > key}
    IN IF v = <<>> \/ Last(keys) < key THEN Append(v, e)
       ELSE IF greater = {} THEN v ELSE InsertAt(v, Min(greater), e)
InOrderBehind(v, e, keys, key) ==
    LET greater == {i \in DOMAIN v : keys[i] > key}
    IN IF v = <<>> \/ Last(keys) <= key THEN Append(v, e)
       ELSE InsertAt(v, Min(greater) + 1, e)
InOrder(v, e, keys, key) ==
    LET greater == {i \in DOMAIN v : keys[i] > key}
    IN IF v = <<>> \/ Last(keys) <= key THEN Append(v, e)
       ELSE InsertAt(v, Min(greater), e)

Assocs == [i \in DOMAIN outputGroups |-> outputGroups[i].assoc]
Sequences(outputs) == [i \in DOMAIN outputs |-> SequenceOf(outputs[i])]
Matching == {i \in DOMAIN outputGroups : outputGroups[i].assoc = Assoc}
New == [assoc |-> Assoc, outputs |-> <<Out>>, cap |-> FirstCap]

SkipOutput == /\ pc = "outputs" /\ OutsLeft /\ ~Eligible
              /\ placed' = placed + 1
              /\ UNCHANGED <<pc, loops, codecVars, search, active, outputGroups, live>>

Placed(groups, newGroups) ==
    /\ outputGroups' = groups
    /\ live' = [outputs |-> live.outputs + 1, groups |-> live.groups + newGroups]
    /\ placed' = placed + 1
    /\ UNCHANGED <<pc, loops, codecVars, search, active>>

Joined(g) == [g EXCEPT !.outputs = InOrder(@, Out, Sequences(@), SequenceOf(Out)),
                       !.cap = CapAfter(g)]

\* An output of association 15 is a group of its own.
Independent == Eligible /\ Assoc = 15 /\ Placed(Append(outputGroups, New), 1)
NewGroup == /\ Eligible /\ Assoc # 15 /\ Matching = {}
            /\ Placed(InOrder(outputGroups, New, Assocs, Assoc), 1)
Join == /\ Eligible /\ Assoc # 15 /\ Matching # {}
        /\ Placed([outputGroups EXCEPT ![Min(Matching)] = Joined(@)], 0)

OutputsDone == /\ pc = "outputs" /\ ~OutsLeft
               /\ pc' = "ready"
               /\ UNCHANGED <<loops, codecVars, search, active, grouping>>
-----------------------------------------------------------------------------
(* Failures *)

\* The places of the outputs in groups gs, and the output in one.
Places(gs) == UNION {{<<i, j>> : j \in DOMAIN gs[i].outputs} : i \in DOMAIN gs}
OutputAt(gs, p) == gs[p[1]].outputs[p[2]]
InGroups == Cardinality(Places(outputGroups))

\* init() returns an error after it has allocated, and not freed, so many objects
\* that are in no group; the codec is destroyed, its groups free their outputs.
Abandon(outputs, groups) ==
    /\ Discarded
    /\ live' = [outputs |-> live.outputs + outputs - InGroups,
                groups |-> live.groups + groups - Len(outputGroups)]
    /\ outputGroups' = <<>> /\ placed' = 0
    /\ group' = 0 /\ item' = 0
    /\ UNCHANGED <<codec, muted>>

\* A verb times out, a list is of the long form, or a vector cannot grow.
ReadFails == /\ \/ pc = "codec"
                \/ pc = "group" /\ GroupsLeft
                \/ pc = "widget" /\ WidgetsLeft
             /\ Abandon(0, 0)

SearchFails == pc = "search" /\ Grows /\ Abandon(0, 0)

\* A malloc fails, or the push of an output or of a group: what has been
\* allocated is freed.
OutputFails == Eligible /\ Abandon(0, 0)
GroupFailsKeepOutput == Eligible /\ (Assoc = 15 \/ Matching = {}) /\ Abandon(1, 0)
GroupFails == Eligible /\ (Assoc = 15 \/ Matching = {}) /\ Abandon(0, 0)

\* An output that cannot be added to its group is forgotten.
JoinFails == /\ Eligible /\ Assoc # 15 /\ Matching # {}
             /\ Full(outputGroups[Min(Matching)])
             /\ Abandon(1, 0)
-----------------------------------------------------------------------------
Reading == ReadRoot \/ SkipGroup \/ EnterGroup \/ LeaveGroup \/ ReadWidget \/ GroupsRead

Searching == \/ SearchStep /\ UNCHANGED <<loops, grouping>>
             \/ /\ Searched
                /\ pc' = "outputs"
                /\ UNCHANGED <<codecVars, search, active, loops, grouping>>

Grouping == SkipOutput \/ Independent \/ NewGroup \/ Join \/ OutputsDone

Fail == ReadFails \/ SearchFails \/ OutputFails \/ GroupFails \/ JoinFails

InitStep == Reading \/ Searching \/ Grouping \/ Fail

Client == /\ SelectStep \/ \E u \in active : Release(u)
          /\ UNCHANGED <<loops, grouping>>

Next == InitStep \/ Client

Spec == Init /\ [][Next]_vars

\* init() is one call, and every verb of it ends (VerbRing).
FairSpec == Spec /\ WF_vars(InitStep)
-----------------------------------------------------------------------------
(* Properties *)

TypeOK == /\ pc \in {"codec", "group", "widget", "search", "outputs", "ready", "failed"}
          /\ group \in 0 .. 255 /\ item \in 0 .. 255
          /\ StackOK
          /\ InUse \subseteq ToSet(paths)
          /\ placed \in 0 .. Len(outputNids)

\* The widgets of the audio function groups, the group each is of, what init() is
\* to know of it, and their order.
Nodes == UNION {NodesOf(codec.groups[i]) : i \in DOMAIN codec.groups}
GroupOf(w) == CHOOSE i \in DOMAIN codec.groups : w \in NodesOf(codec.groups[i])
Described(w) == LET g == codec.groups[GroupOf(w)]
                    r == g.widgets[w - g.start + 1]
                IN [nid |-> w, kind |-> r.kind, conns |-> r.conns, assoc |-> r.assoc, seq |-> r.seq]
Before(v, w) == GroupOf(v) < GroupOf(w) \/ (GroupOf(v) = GroupOf(w) /\ v < w)

\* After the loops over node ids, which skip function groups and may leave holes,
\* every widget of the audio groups is in its place as the codec describes it,
\* all of them are muted, and the pins are known in their order.
Enumerated == pc \in {"search", "outputs", "ready"} =>
    /\ muted = Nodes /\ Nodes \subseteq Widget
    /\ \A w \in Widget : widgets[w] = IF w \in Nodes THEN Described(w) ELSE Hole
    /\ ToSet(outputNids) = {w \in Nodes : IsPin(Described(w))}
    /\ \A a, b \in DOMAIN outputNids : a < b => Before(outputNids[a], outputNids[b])

\* The groups are sorted by association, the outputs of a group by sequence, and
\* only the association of independent outputs has more than one group.
GroupsSorted == \A i \in DOMAIN outputGroups :
    LET g == outputGroups[i] IN
    /\ \A j \in 1 .. i - 1 : /\ outputGroups[j].assoc <= g.assoc
                             /\ outputGroups[j].assoc = g.assoc => g.assoc = 15
    /\ \A a, b \in DOMAIN g.outputs : a < b => SequenceOf(g.outputs[a]) <= SequenceOf(g.outputs[b])

\* Every connected output pin that has an association is in exactly one place, in
\* a group of its association, and nothing else is in a group.
GroupsComplete == pc = "ready" =>
    /\ \A p \in Places(outputGroups) : LET w == OutputAt(outputGroups, p) IN
         /\ w \in OutPin /\ widgets[w].assoc # 0
         /\ outputGroups[p[1]].assoc = widgets[w].assoc
    /\ \A w \in OutPin : widgets[w].assoc # 0 =>
         \E p \in Places(outputGroups) : OutputAt(outputGroups, p) = w
    /\ \A p, q \in Places(outputGroups) :
         OutputAt(outputGroups, p) = OutputAt(outputGroups, q) => p = q

PinsOf(a) == {w \in Nodes : Described(w).kind = "outPin" /\ Described(w).assoc = a}

\* Objects are freed once, whatever fails, and none is lost but for one output
\* whose group could not grow past the vector's first capacity.
NothingLost ==
    IF pc # "failed" THEN live = [outputs |-> InGroups, groups |-> Len(outputGroups)]
    ELSE /\ live.groups = 0 /\ live.outputs \in 0 .. 1
         /\ live.outputs = 1 => \E a \in 1 .. 14 : Cardinality(PinsOf(a)) > FirstCap

\* init() returns, whatever the codec's connections are.
InitEnds == pc = "codec" ~> pc \in {"ready", "failed"}
=============================================================================
