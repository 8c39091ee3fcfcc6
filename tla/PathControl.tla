----------------------------- MODULE PathControl -----------------------------
(***************************************************************************)
(* The control of output paths (uhda.cpp): setup, shutdown, volume and     *)
(* mute of the paths a client has chosen, each a sequence of verbs to the  *)
(* widgets of the path.  Calls for different paths run in different        *)
(* threads and interleave, verb by verb (the lock of the verb engine is    *)
(* held for one verb); a verb may time out, and the codec then has taken   *)
(* it or not (VerbRing), and the call stops there.                         *)
(*                                                                         *)
(* The amplifiers of a layout are a function of the node id.               *)
(***************************************************************************)
EXTENDS CodecPaths, StreamParams

CONSTANTS Offers,        \* layouts, each with the stream parameters and the volumes
                         \* that its client sets, and how many verbs may time out
          Step,          \* out_amp_caps & 0x7F of each node
          CanMute,       \* the nodes with bit 31 of out_amp_caps
          HasEapd,       \* the nodes with bit 16 of pin_caps
          Outputs,       \* the streams that are output streams
          Strays         \* what the byte before a connection list may be

ASSUME OffersAssumption == \A o \in Offers :
    /\ IsLayout(o.layout) /\ o.volumes \subseteq Int /\ o.timeouts \in Nat
    /\ o.params.rate \in Nat /\ o.params.channels \in Nat /\ o.params.fmt \in SampleFormat
ASSUME AmpAssumption == /\ Step \in [0 .. 255 -> 0 .. 127]
                        /\ CanMute \subseteq 0 .. 255 /\ HasEapd \subseteq 0 .. 255
ASSUME ClientAssumption == Outputs \subseteq Streams \cap 0 .. 14 /\ Strays \subseteq 0 .. 255

VARIABLES params,     \* the UhdaStreamParams of the client
          volumes,    \* the volumes it sets
          hw,         \* what the codec's widgets are set to, by node id
          gains,      \* UhdaPath::gain, of the paths that have one
          calls,      \* by output: the client's call, or what it knows of the path
          timeouts    \* bound: the verbs that may still time out

client == <<params, volumes>>
control == <<client, hw, gains, calls, timeouts>>
vars == <<pathVars, control>>

\* A widget after UhdaCodec::init: its amplifier is muted.
Muted == [sel |-> 0, on |-> FALSE, amp |-> [mute |-> TRUE, gain |-> 0], out |-> FALSE,
          eapd |-> FALSE, tag |-> 0, fmt |-> <<>>, channels |-> 0]

\* muted, volume: the client has muted the path, has set its volume afterwards.
Off == [state |-> "off", todo |-> <<>>, muted |-> FALSE, volume |-> FALSE]

Init == \E o \in Offers :
    /\ Known(o.layout) /\ params = o.params /\ volumes = o.volumes
    /\ hw = [n \in 0 .. Max(DOMAIN o.layout) |-> Muted]
    /\ gains = <<>> /\ timeouts = o.timeouts
    /\ calls = [w \in {v \in DOMAIN o.layout : o.layout[v].kind = "outPin"} |-> Off]

StepOf(w) == Step[widgets[w].nid]
PathOf(w) == (CHOOSE u \in active : u.path[1] = w).path
StreamOf(w) == (CHOOSE u \in active : u.path[1] = w).stream
Used == {p[1] : p \in InUse}
-----------------------------------------------------------------------------
(* The verbs of each call: to a node, the setting it changes, and whether the  *)
(* gain it sends is also stored in path->gain.                               *)

Verb(w, field, value) ==
    <<[nid |-> widgets[w].nid, field |-> field, value |-> value, stores |-> FALSE]>>
Amp(w, mute, gain) == Verb(w, "amp", [mute |-> mute, gain |-> gain])
AmpStored(w, gain) == <<[nid |-> widgets[w].nid, field |-> "amp",
                         value |-> [mute |-> FALSE, gain |-> gain], stores |-> TRUE]>>
If(condition, verbs) == IF condition THEN verbs ELSE <<>>

\* The index of the connection to next: every entry counts one, a range what lies
\* between its ends; the entry before the first is a stray byte.
Byte(c) == c.nid + (IF c.range THEN 128 ELSE 0)
SelectIndex(l, next, stray) ==
    LET start(j) == IF j = 1 THEN stray ELSE Byte(l[j - 1])
        index[j \in 1 .. Len(l) + 1] ==
            IF j > Len(l) THEN 0
            ELSE IF l[j].range
            THEN IF next \in start(j) .. l[j].nid THEN next - start(j)
                 ELSE l[j].nid - start(j) + index[j + 1]
            ELSE IF l[j].nid = next THEN 0 ELSE 1 + index[j + 1]
    IN index[1] % 256

SetupOf(p, i, stream, stray) == LET w == p[i] IN
    If(i < Len(p) /\ Len(Conns(w)) > 1,
       Verb(w, "sel", SelectIndex(Conns(w), widgets[p[i + 1]].nid, stray)))
    \o Verb(w, "on", TRUE)
    \o (CASE IsPin(widgets[w]) -> If(widgets[w].nid \in HasEapd, Verb(w, "eapd", TRUE))
                                  \o Amp(w, FALSE, StepOf(w)) \o Verb(w, "out", TRUE)
          [] KindOf(w) = "mixer" -> Amp(w, FALSE, StepOf(w))
          [] KindOf(w) = "dac" -> Verb(w, "tag", stream + 1) \o AmpStored(w, StepOf(w) \div 2)
          [] OTHER -> <<>>)

ParamsFormat == PcmFormatFromParams(params.rate, params.channels, params.fmt)
SetupVerbs(p, stream, stray) ==
    Verb(Last(p), "fmt", ParamsFormat) \o Verb(Last(p), "channels", ParamsFormat.chan)
    \o FlattenSeq([i \in 1 .. Len(p) |-> SetupOf(p, i, stream, stray)])

ShutdownOf(w) == CASE IsPin(widgets[w]) -> Amp(w, TRUE, 0) \o Verb(w, "out", FALSE)
                   [] KindOf(w) = "mixer" -> Amp(w, TRUE, 0)
                   [] KindOf(w) = "dac" -> Verb(w, "tag", 0)
                   [] OTHER -> <<>>
ShutdownVerbs(p) == FlattenSeq([i \in 1 .. Len(p) |-> ShutdownOf(p[i])])

\* 16.16 fixed point: a percent is 655, all of it the largest value.
OnePercentage == 655
VolumeUnclamped(volume, max) == (OnePercentage * volume * max) \div 65536
VolumeValue(volume, max) ==
    LET v == IF volume < 0 THEN 0 ELSE IF volume > 100 THEN 100 ELSE volume
    IN IF v = 100 THEN max ELSE (OnePercentage * v * max) \div 65536

VolumeVerbs(p, volume) == AmpStored(Last(p), VolumeValue(volume, StepOf(Last(p))))

GainOf(p) == IF p \in DOMAIN gains THEN gains[p] ELSE 0
MuteWidgetDac(p) == Last(p)
MuteWidget(p) == IF widgets[p[1]].nid \in CanMute THEN p[1] ELSE Last(p)
MuteVerbs(p, mute) == Amp(MuteWidget(p), mute, GainOf(p))
-----------------------------------------------------------------------------
(* The client's calls *)

Call(w, state, verbs) ==
    /\ calls' = [calls EXCEPT ![w].state = state, ![w].todo = verbs]
    /\ UNCHANGED <<pathVars, client, hw, gains, timeouts>>

SetupUnchecked(w) == \E stray \in Strays :
    /\ w \in Used /\ calls[w].state \in {"off", "broken"} /\ StreamOf(w) \in Outputs
    /\ Call(w, "setup", SetupVerbs(PathOf(w), StreamOf(w), stray))
\* A call that is refused changes nothing.
Setup(w) == \E stray \in Strays :
    /\ w \in Used /\ calls[w].state \in {"off", "broken"}
    /\ StreamOf(w) \in Outputs /\ CheckStreamParams(params)
    /\ Call(w, "setup", SetupVerbs(PathOf(w), StreamOf(w), stray))

SetVolume(w) == \E volume \in volumes :
    /\ w \in Used /\ calls[w].state = "up"
    /\ Call(w, "volume", VolumeVerbs(PathOf(w), volume))

Mute(w) == \E mute \in BOOLEAN :
    /\ w \in Used /\ calls[w].state = "up"
    /\ Call(w, IF mute THEN "mute" ELSE "unmute", MuteVerbs(PathOf(w), mute))

Shutdown(w) == /\ w \in Used /\ calls[w].state \in {"up", "broken"}
               /\ Call(w, "down", ShutdownVerbs(PathOf(w)))

\* The last verb of a call returns SUCCESS: what the client then knows.
Returned(c) ==
    CASE c.state = "setup"  -> [c EXCEPT !.state = "up", !.muted = FALSE, !.volume = FALSE]
      [] c.state = "volume" -> [c EXCEPT !.state = "up", !.volume = TRUE]
      [] c.state = "mute"   -> [c EXCEPT !.state = "up", !.muted = TRUE, !.volume = FALSE]
      [] c.state = "unmute" -> [c EXCEPT !.state = "up", !.muted = FALSE]
      [] c.state = "down"   -> Off

NextVerb(w) == calls[w].todo[1]
Set(v) == [hw EXCEPT ![v.nid][v.field] = v.value]
StoredGain(w) == LET p == PathOf(w) IN
    gains' = IF ~NextVerb(w).stores THEN gains
             ELSE [q \in DOMAIN gains \cup {p} |-> IF q = p THEN NextVerb(w).value.gain ELSE gains[q]]

\* The next verb of the call for w.
Answered(w) ==
    /\ calls[w].todo # <<>>
    /\ hw' = Set(NextVerb(w)) /\ StoredGain(w)
    /\ LET c == [calls[w] EXCEPT !.todo = Tail(@)]
       IN calls' = [calls EXCEPT ![w] = IF c.todo = <<>> THEN Returned(c) ELSE c]
    /\ UNCHANGED <<pathVars, client, timeouts>>

TimedOutUnseen(w) ==
    /\ calls[w].todo # <<>> /\ timeouts > 0
    /\ hw' \in {hw, Set(NextVerb(w))} /\ StoredGain(w)
    /\ LET c == [calls[w] EXCEPT !.todo = Tail(@)]
       IN calls' = [calls EXCEPT ![w] = IF c.todo = <<>> THEN Returned(c) ELSE c]
    /\ timeouts' = timeouts - 1
    /\ UNCHANGED <<pathVars, client>>
TimedOut(w) ==
    /\ calls[w].todo # <<>> /\ timeouts > 0
    /\ hw' \in {hw, Set(NextVerb(w))} /\ StoredGain(w)
    /\ calls' = [calls EXCEPT ![w].state = "broken", ![w].todo = <<>>]
    /\ timeouts' = timeouts - 1
    /\ UNCHANGED <<pathVars, client>>

Operate == \E w \in OutPin : Setup(w) \/ SetVolume(w) \/ Mute(w) \/ Shutdown(w)
                             \/ Answered(w) \/ TimedOut(w)

\* The client gives up a path that it has shut down.
Choose == /\ SelectStep \/ \E u \in active : calls[u.path[1]].state = "off" /\ Release(u)
          /\ UNCHANGED control

Search == (SearchStep \/ SearchEnd) /\ UNCHANGED control

Next == Search \/ Choose \/ Operate

Spec == Init /\ [][Next]_vars
-----------------------------------------------------------------------------
(* Properties *)

Setting == [sel : 0 .. 255, on : BOOLEAN, amp : [mute : BOOLEAN, gain : 0 .. 127], out : BOOLEAN,
            eapd : BOOLEAN, tag : 0 .. 15, fmt : {<<>>, ParamsFormat}, channels : 0 .. 15]

\* Settings, gains and indices stay within the bits of their verbs, and a call in
\* progress has a verb to send.
TypeOK ==
    /\ pc \in {"search", "ready"} /\ StackOK
    /\ timeouts \in Nat
    /\ hw \in [Widget -> Setting]
    /\ DOMAIN calls = OutPin
    /\ \A w \in OutPin :
         /\ calls[w].todo = <<>> <=> calls[w].state \in {"off", "up", "broken"}
         /\ calls[w].state # "off" => w \in Used

\* Each widget of the path is one of the codec's, none is a hole, and the paths of
\* no other output pass through this one's pin, nor this one through
\* another output's pin: uhda_find_path would let both be used for one stream.
Apart(p) ==
    /\ \A i \in DOMAIN p : widgets[p[i]] # Hole
    /\ \A q \in ToSet(paths) : q[1] # p[1] => p[1] \notin ToSet(q) /\ q[1] \notin ToSet(p)

UpPaths == {PathOf(w) : w \in {v \in Used : calls[v].state = "up"}}
OffPaths == {PathOf(w) : w \in {v \in Used : calls[v].state = "off"}}

\* What a connection index selects.
Entry(l, i) == IF EndsRange(l, i) THEN [k \in 1 .. l[i].nid - l[i - 1].nid |-> l[i - 1].nid + k]
               ELSE <<l[i].nid>>
Expanded(l) == FlattenSeq([i \in 1 .. Len(l) |-> Entry(l, i)])
InsideRange(l, n) == \E i \in DOMAIN l : EndsRange(l, i) /\ n \in ToSet(Entry(l, i))
WellFormed(l) == /\ \A i \in DOMAIN l : l[i].range => EndsRange(l, i) /\ l[i - 1].nid < l[i].nid
                 /\ Len(Expanded(l)) <= 256
Routed(w, next) == LET l == Expanded(Conns(w)) IN
    Len(Conns(w)) > 1 => hw[w].sel + 1 \in DOMAIN l /\ l[hw[w].sel + 1] = next

\* A path whose setup has succeeded plays the client's stream as the client asked,
\* whatever other threads do and whatever failed before: the converter takes the
\* stream in its rate, channels and sample size at the gain the path remembers,
\* every widget on the way is powered, unmuted and connected to the next, the
\* output is enabled.  Except: a widget inside a range, or named by a list with a
\* misplaced range flag or more nodes than an index counts, is not what is selected (EveryRouted), and the amplifiers
\* of selectors are left muted by the code.
PathPlays == \A p \in UpPaths : Apart(p) =>
    LET dac == hw[Last(p)] IN
    /\ dac.tag = StreamOf(p[1]) + 1 /\ Plays(dac.fmt, params)
    /\ dac.channels = params.channels - 1
    /\ dac.amp.gain = GainOf(p) /\ dac.amp.gain <= StepOf(Last(p))
    /\ hw[p[1]].out /\ (p[1] \in HasEapd => hw[p[1]].eapd)
    /\ \A i \in DOMAIN p : hw[p[i]].on
    /\ \A i \in 1 .. Len(p) - 1 :
         WellFormed(Conns(p[i])) /\ ~InsideRange(Conns(p[i]), p[i + 1]) => Routed(p[i], p[i + 1])
    /\ ~calls[p[1]].muted =>
         \A i \in DOMAIN p : KindOf(p[i]) # "selector" => ~hw[p[i]].amp.mute

\* A path that is shut down, also one whose setup or whose first shutdown failed
\* half-way, gives no sound: its pin is muted and disabled, its converter takes
\* no stream.
PathSilent == \A p \in OffPaths : Apart(p) =>
    /\ hw[p[1]].amp.mute /\ ~hw[p[1]].out /\ hw[Last(p)].tag = 0
    /\ \A i \in DOMAIN p : KindOf(p[i]) = "mixer" => hw[p[i]].amp.mute

\* A path is muted, at its pin or at its converter, exactly as its client has
\* last asked, whatever volumes it sets and whatever other threads do; but a volume
\* set on a muted path unmutes it where the mute is at the converter, and until the
\* client mutes it again.
MuteHolds == \A p \in UpPaths : Apart(p) =>
    LET c == calls[p[1]]
        unmuted == c.volume /\ p[1] \notin CanMute
    IN hw[p[1]].amp.mute \/ hw[Last(p)].amp.mute <=> c.muted /\ ~unmuted

\* uhda.h:170, "Sets up a path for playback.": every widget is connected to the
\* next one of the path, inside a range too.
EveryRouted == \A p \in UpPaths : \A i \in 1 .. Len(p) - 1 :
    WellFormed(Conns(p[i])) => Routed(p[i], p[i + 1])
=============================================================================
