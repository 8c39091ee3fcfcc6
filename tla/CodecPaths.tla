------------------------------ MODULE CodecPaths ------------------------------
(***************************************************************************)
(* The output paths of a codec (codec.cpp, uhda.cpp): the search from each *)
(* output pin along the connection lists of the widgets to the converters  *)
(* (DACs), with an explicit stack; then the choice of paths by the client, *)
(* which uhda_find_path confines to those usable beside the ones in use.   *)
(*                                                                         *)
(* A widget is known by its node id, the index into UhdaCodec::widgets.  An*)
(* entry of a connection list is a node id with a range flag (bit 7): the  *)
(* widgets from the previous entry up to this one.                         *)
(*                                                                         *)
(* CodecInit builds the widgets and runs the search inside UhdaCodec::init;*)
(* PathControl operates the paths that the client uses.                    *)
(***************************************************************************)
EXTENDS Integers, Sequences, FiniteSets, FiniteSetsExt, SequencesExt

CONSTANTS Streams,   \* the indices of the output streams the client plays
          MaxDepth   \* the limit on the stack: 20

\* The types of widgets; an output pin is one that is output capable and
\* connected, a selector stands for every other type that is passed through.
Kind == {"dac", "outPin", "otherPin", "mixer", "selector"}
Node == 0 .. 127
Connection == [nid : Node, range : BOOLEAN]

\* The fields of a UhdaWidget: nid, type, connections, and the association and
\* sequence of default_config.
WidgetRecord == [nid : 0 .. 255, kind : Kind, conns : Seq(Connection),
                 assoc : 0 .. 15, seq : 0 .. 15]

\* A codec's widgets by node id: bytes above the root's 0, in connection lists at
\* most 127 of 7 bits.
IsLayout(l) == /\ DOMAIN l \subseteq 1 .. 255 /\ DOMAIN l # {}
               /\ \A w \in DOMAIN l : /\ l[w] \in WidgetRecord /\ l[w].nid = w
                                      /\ Len(l[w].conns) <= 127
ASSUME DepthAssumption == MaxDepth \in Nat \ {0} /\ Streams \subseteq 0 .. 29

\* An element of UhdaCodec::widgets that was never written: type 0, a converter.
Hole == [nid |-> 0, kind |-> "dac", conns |-> <<>>, assoc |-> 0, seq |-> 0]

VARIABLES widgets,     \* UhdaCodec::widgets
          outputNids,  \* UhdaCodec::output_nids: the pins
          pc,          \* "search", then "ready", or "failed"
          turn,        \* how many of the pins have been searched from
          stack,       \* widgets, and where each list has been read to
          paths,       \* output_paths, each a sequence of widgets
          active       \* the client: the paths it uses, each with its stream

codecVars == <<widgets, outputNids>>
search == <<turn, stack, paths>>
pathVars == <<codecVars, pc, search, active>>

Widget == DOMAIN widgets
KindOf(w) == widgets[w].kind
Conns(w) == widgets[w].conns
IsPin(r) == r.kind \in {"outPin", "otherPin"}
OutPin == {w \in Widget : KindOf(w) = "outPin"}

\* A codec that has been enumerated (CodecInit).
Known(l) == /\ widgets = [w \in 0 .. Max(DOMAIN l) |-> IF w \in DOMAIN l THEN l[w] ELSE Hole]
            /\ outputNids = FlattenSeq([w \in 1 .. Max(DOMAIN l) |->
                   IF w \in DOMAIN l /\ IsPin(l[w]) THEN <<w>> ELSE <<>>])
            /\ pc = "search" /\ turn = 0
            /\ stack = <<>> /\ paths = <<>> /\ active = {}
-----------------------------------------------------------------------------
(* find_output_paths *)

\* A stack entry: con_index, con_range_index, con_range_end.
Fresh(w) == [widget |-> w, con |-> 0, cur |-> 255, end |-> 0]
Top == stack[Len(stack)]
ReadOut(e) == e.con = Len(Conns(e.widget))

\* The entry with con_range_index at the next node: past the end of a range the
\* next list entry is read, with the one after it if that is a range's end.
Decode(e) ==
    LET l == Conns(e.widget)
        n == IF e.con + 2 <= Len(l) /\ l[e.con + 2].range THEN 2 ELSE 1
    IN IF e.cur <= e.end THEN e
       ELSE [e EXCEPT !.con = @ + n, !.cur = l[e.con + 1].nid, !.end = l[e.con + n].nid]

Turn == outputNids[turn + 1]
TurnsLeft == turn < Len(outputNids)

NextPin == /\ pc = "search" /\ stack = <<>> /\ TurnsLeft
           /\ turn' = turn + 1
           /\ stack' = IF KindOf(Turn) = "outPin" THEN <<Fresh(Turn)>> ELSE <<>>
           /\ UNCHANGED <<codecVars, pc, paths, active>>

Pop == /\ pc = "search" /\ stack # <<>> /\ ReadOut(Top)
       /\ stack' = SubSeq(stack, 1, Len(stack) - 1)
       /\ UNCHANGED <<codecVars, pc, turn, paths, active>>

\* The node the current entry is at, and the stack once it has been taken.
Looking == pc = "search" /\ stack # <<>> /\ ~ReadOut(Top)
Here == Decode(Top).cur
Taken == [stack EXCEPT ![Len(stack)] = [Decode(Top) EXCEPT !.cur = @ + 1]]
HereKind == IF Here \in Widget THEN KindOf(Here) ELSE "none"
Visited == {stack[i].widget : i \in 1 .. Len(stack)}
BlockedEarly == Here \in Visited \/ Len(stack) >= MaxDepth - 1
Blocked == Here \in Visited \/ Len(stack) >= MaxDepth

\* The node is not a widget, is on the stack already, or is too deep.
SkipStay == /\ Looking
            /\ HereKind = "none" \/ (HereKind # "dac" /\ Blocked)
            /\ stack' = [stack EXCEPT ![Len(stack)] = Decode(Top)]
            /\ UNCHANGED <<codecVars, pc, turn, paths, active>>
Skip == /\ Looking
        /\ HereKind = "none" \/ (HereKind # "dac" /\ Blocked)
        /\ stack' = Taken
        /\ UNCHANGED <<codecVars, pc, turn, paths, active>>

\* A converter ends a path.
Found == /\ Looking /\ HereKind = "dac"
         /\ stack' = Taken
         /\ paths' = Append(paths, Append([i \in 1 .. Len(stack) |-> stack[i].widget], Here))
         /\ UNCHANGED <<codecVars, pc, turn, active>>

DescendCircular == /\ Looking /\ HereKind \notin {"none", "dac"}
                   /\ Len(stack) < MaxDepth
                   /\ stack' = Append(Taken, Fresh(Here))
                   /\ UNCHANGED <<codecVars, pc, turn, paths, active>>
DescendDeep == /\ Looking /\ HereKind \notin {"none", "dac"}
               /\ Here \notin Visited
               /\ stack' = Append(Taken, Fresh(Here))
               /\ UNCHANGED <<codecVars, pc, turn, paths, active>>
Descend == /\ Looking /\ HereKind \notin {"none", "dac"} /\ ~Blocked
           /\ stack' = Append(Taken, Fresh(Here))
           /\ UNCHANGED <<codecVars, pc, turn, paths, active>>

\* The codec object is destroyed with all it holds when its init() fails.
Discarded == /\ pc' = "failed"
             /\ widgets' = <<>> /\ outputNids' = <<>>
             /\ turn' = 0 /\ stack' = <<>> /\ paths' = <<>>
             /\ UNCHANGED active

\* The stack or the paths cannot grow.
Grows == \/ stack = <<>> /\ TurnsLeft /\ KindOf(Turn) = "outPin"
         \/ Looking /\ (HereKind = "dac" \/ (HereKind # "none" /\ ~Blocked))

Searched == pc = "search" /\ ~TurnsLeft /\ stack = <<>>
SearchEnd == /\ Searched
             /\ pc' = "ready"
             /\ UNCHANGED <<codecVars, search, active>>

SearchStep == NextPin \/ Pop \/ Skip \/ Found \/ Descend
-----------------------------------------------------------------------------
(* uhda_paths_usable_simultaneously, uhda_find_path *)

\* A shared widget other than the last clashes unless one stream is played; one
\* that is reached from two different widgets clashes in any case.
ClashInner(p, q, same) == \E a \in 2 .. Len(p), b \in 2 .. Len(q) :
    ~same /\ p[a - 1] = q[b - 1]
Clash(p, q, same) == \E a \in 2 .. Len(p), b \in 2 .. Len(q) :
    IF p[a - 1] = q[b - 1] THEN ~same ELSE p[a] = q[b]

Usable(ps, same) == \A i, j \in DOMAIN ps : i # j => ~Clash(ps[i], ps[j], same)

\* The paths to dest, by index, that uhda_find_path accepts; it takes the first.
CandidatesFirst(dest, others, same) ==
    {k \in DOMAIN paths : /\ paths[k][1] = dest
                          /\ \A j \in 1 .. k - 1 : paths[j][1] # dest
                          /\ \A q \in others : Usable(<<paths[k], q>>, same)}
Candidates(dest, others, same) ==
    {k \in DOMAIN paths : /\ paths[k][1] = dest
                          /\ \A q \in others : Usable(<<paths[k], q>>, same)}

\* The client looks for a path to an output it does not use yet, for a stream,
\* beside those it uses: same_stream if they all play that stream.
InUse == {u.path : u \in active}
Select(dest, stream) ==
    LET same == \A u \in active : u.stream = stream
        found == Candidates(dest, InUse, same)
    IN /\ pc = "ready" /\ found # {}
       /\ \A p \in InUse : p[1] # dest
       /\ active' = active \cup {[path |-> paths[Min(found)], stream |-> stream]}
       /\ UNCHANGED <<codecVars, pc, search>>

Release(u) == /\ u \in active
              /\ active' = active \ {u}
              /\ UNCHANGED <<codecVars, pc, search>>

SelectStep == \E w \in OutPin, s \in Streams : Select(w, s)
-----------------------------------------------------------------------------
(* Properties *)

\* The stack has distinct widgets and keeps its limit, the place in each list is
\* inside it.
StackOK ==
    /\ Len(stack) <= MaxDepth
    /\ \A i \in 1 .. Len(stack) :
         /\ stack[i].widget \in Widget
         /\ stack[i].con \in 0 .. Len(Conns(stack[i].widget))
         /\ stack[i].cur \in 0 .. 255 /\ stack[i].end \in 0 .. 127
         /\ \A j \in 1 .. i - 1 : stack[j].widget # stack[i].widget

\* The nodes a connection list names: its entries, and those of each range; a
\* range flag on an entry that cannot end a range is ignored.
EndsRange(l, i) == LET last == Max({1} \cup {j \in 1 .. i - 1 : ~l[j].range})
                   IN l[i].range /\ (i - last) % 2 = 1
Named(l) == {l[i].nid : i \in {j \in DOMAIN l : ~EndsRange(l, j)}}
            \cup UNION {l[i - 1].nid .. l[i].nid : i \in {j \in DOMAIN l : EndsRange(l, j)}}

\* The ones that the search follows: a range that ends the list is left after
\* its first node, because the list counts as read out.
Followed(l) == IF l # <<>> /\ EndsRange(l, Len(l)) THEN Named(Front(l)) ELSE Named(l)

\* Every path that is offered to the client exists in the codec: it leads from a
\* connected output pin along the connection lists to a converter, and visits no
\* widget twice.
PathsSound == \A k \in DOMAIN paths : LET p == paths[k] IN
    /\ p[1] \in OutPin /\ KindOf(Last(p)) = "dac"
    /\ \A i \in 1 .. Len(p) - 1 : /\ KindOf(p[i]) # "dac"
                                   /\ p[i + 1] \in Named(Conns(p[i]))
                                   /\ \A j \in 1 .. i - 1 : p[j] # p[i]

\* The ways of n widgets from an output pin that follow the connections, pass
\* through no converter and visit no widget twice.
Way[n \in 1 .. MaxDepth + 1] ==
    IF n = 1 THEN {<<w>> : w \in OutPin}
    ELSE UNION {{Append(p, w) : w \in (Followed(Conns(Last(p))) \cap Widget) \ ToSet(p)} :
                   p \in {q \in Way[n - 1] : KindOf(Last(q)) # "dac"}}
Ways == UNION {{p \in Way[n] : KindOf(Last(p)) = "dac"} : n \in 2 .. MaxDepth + 1}

NamesOnce(l) == \A i, j \in DOMAIN l : i # j =>
    /\ l[i].nid # l[j].nid
    /\ EndsRange(l, i) => l[j].nid \notin l[i - 1].nid + 1 .. l[i].nid

\* The search, with its stack, circle check and depth limit, finds every way
\* there is along the connections it follows, and no way twice unless a list
\* names a node twice.
PathsComplete == pc = "ready" /\ active = {} =>
    /\ ToSet(paths) = Ways
    /\ (\A w \in Widget : NamesOnce(Conns(w))) => Len(paths) = Cardinality(Ways)

Disjoint(p, q) == ToSet(p) \cap ToSet(q) = {}

\* The paths that uhda_find_path has given to the client work together: no two
\* streams meet in a widget, and one stream takes two ways out of a widget, or
\* comes to it by two, only if the path of an output passes through another's pin.
ActiveTogether == \A u, v \in active : u # v =>
    \/ Disjoint(u.path, v.path)
    \/ u.stream = v.stream /\ (u.path[1] \in ToSet(v.path) \/ v.path[1] \in ToSet(u.path))

\* If an output has a path that shares no widget with those in use,
\* uhda_find_path finds one for any stream.
FindsUsable == pc = "ready" => \A w \in OutPin, same \in BOOLEAN :
    (\E k \in DOMAIN paths : paths[k][1] = w /\ \A q \in InUse : Disjoint(paths[k], q))
    => Candidates(w, InUse, same) # {}
=============================================================================
