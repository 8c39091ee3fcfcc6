# uHDA: a verification development

uHDA is a portable driver for Intel High Definition Audio controllers, a library that a kernel
links and calls. This directory holds TLA+ models of its parts, TLC configurations that check
them on small instances, and proofs, checked by TLAPS, of the properties that matter most for
every value of the parameters. Line numbers refer to `src/src/` and `src/include/uhda/`.

## The system

| Part | State it keeps | Operations | What makes it correct |
|---|---|---|---|
| Controller lifecycle (`controller.cpp`, `uhda.cpp:35-68`) | irq, BAR mapping, CORB/RIRB/position pages and mappings, spinlock, codec list; GCTL.CRST, engines in hardware | `uhda_init`, `uhda_suspend`, `uhda_resume`, `uhda_destroy` | nothing leaks however a call fails; engines never outlive their memory while in use; every call returns |
| Verb engine (`controller.cpp:397-454`, wrappers `codec.cpp:448-558`) | CORB, RIRB, their pointers, the spinlock | one verb per wrapper call, from any thread | a caller gets the answer to its own verb, or TIMEOUT |
| Output stream (`stream.cpp`, `uhda.cpp:549-583`) | descriptor list page and mapping, chunks, callback; SDnCTL/STS/BDPL | setup, shutdown, play, the period interrupt | no leak, no DMA into freed memory, no callback before setup or after shutdown but by a handler already entered |
| Simple stream (`simple.cpp`) | producer ring, fill position, position at the last interrupt, spinlock | new, setup, queue_data, clear_queue, play, destroy; the period callback | what is queued is played once, in order, without underrun |
| Codec enumeration and output groups (`codec.cpp:8-333`) | widgets by node id, pins, output groups | `UhdaCodec::init` | what is enumerated is what the codec has; every output in one group, in order; nothing lost however it fails |
| Path search (`codec.cpp:335-446`, `uhda.cpp:226-288`) | search stack, output paths | find_output_paths, usable_simultaneously, find_path | paths are the ways there are; paths given out work together |
| Path control (`uhda.cpp:303-515`) | path gain; connection selection, amplifiers, power, converter in the codec | path_setup, path_shutdown, set_volume, mute | a path that is up plays, one that is down is silent, a mute lasts |
| Stream parameters, PCM format (`uhda.cpp:517-547`, `spec.hpp`) | none | check_stream_params, pcm_format_from_params | the format encodes the parameters |
| Vector, guards, register access, tables | - | - | - |

They interact as follows. The client's kernel calls the API from its threads and implements
`kernel_api.h` (memory, mappings, irq, spinlocks, delays). Controller bring-up resets the hardware,
starts the rings and enumerates the codecs, each by some hundred verbs through the verb engine;
path control sends verbs through it too, so it is the one part entered from several threads, under
`UhdaController::lock`. `hda_irq`, in interrupt context, calls `output_irq` of each stream in INTSTS,
which calls the client's period callback (for a simple stream `uhda_simple_period_callback`, under the
stream's own lock) and then clears the stream's status. The DMA engines of the hardware read CORB,
the descriptor lists and the chunks and write RIRB and the position page on their own.

What is hard here: the hardware runs concurrently with everything and need not answer; a response is
tied to its verb by its ring index only; period interrupts are late, and merge; resets lose the
hardware's state but not the driver's; every acquisition can fail, halfway through a call.
`PROJECT.json` lists the hazards, each at its line with the properties that would catch it.

## Modules

| Module | Models | Checked through | Proved in |
|---|---|---|---|
| `VerbCall` | abstract: a codec verb is a remote call | | |
| `VerbRing` | the verb engine; implements `VerbCall` | itself | `VerbRingProofs` |
| `AudioFifo` | abstract: queued samples are played once, in order | | |
| `SimpleStream` | the simple stream with the base stream's interrupt; implements `AudioFifo` | itself | `SimpleStreamProofs` |
| `Stream` | one output stream of the controller | itself | `StreamProofs` |
| `Controller` | the life of a controller instance | itself | `ControllerProofs` |
| `CodecPaths` | the search for output paths, and the choice of paths | the two below | `CodecPathsProofs` |
| `CodecInit`, extends `CodecPaths` | a codec's enumeration, the search in it, its output groups | `MCCodecInit` | `CodecInitProofs` |
| `StreamParams` | stream parameters and the PCM format word (operators) | `MCPathControl` | `StreamParamsProofs` |
| `PathControl`, extends `CodecPaths`, `StreamParams` | setup, volume, mute and shutdown of the paths in use | `MCPathControl` | `PathControlProofs` |

**VerbRing.** `Lock`, `WriteVerb`, `Doorbell`, `SeeAnswer`/`GiveUp`, `ReadAnswer`, `Unlock` are the steps of a
verb wrapper: LockGuard, submit_verb up to the store into `corb[index]`, its store of CORBWP, the poll
of RIRBWP, the read of `rirb[index]`, the end of the guard. The first loop of wait_for_verb reads back
CORBWP, which only the holder of the lock writes, so it is part of `Doorbell`. Verbs are numbers, a response is the
number of the verb it answers. The hardware (external) fetches in order (`Fetch`), answers in order
(`Answer`), or the codec never answers (`Ignore`). `Reset` is the controller reset of suspend and
resume; the client keeps its threads outside meanwhile. The response interrupt counter (RINTCNT, RIRBSTS) is not
modelled: the driver polls and RINTCNT is set to 255, and the model assumes the response engine does not stall on it.

**SimpleStream.** Positions count units of the DMA buffer. A cell holds a sample (`Token`), `Silence`, or `Stale`
once the hardware has played it: staleness is an abstraction, the bytes do not change, but playing them again is the underrun.
`IrqSample`, `IrqCopy`, `IrqClear` are the interrupt: the callback's lock and read of the position, the rest of
the callback, the clearing of BCIS. `PlayPaused` to `PlayApply` are uhda_simple_stream_play, whose copy from the ring
takes no lock: the size of the ring is read in one step and used in the next. `Tick` (external) plays one unit. The client
calls from one thread, and makes a new object for each setup. The position the hardware reports (`*dma_pos`) is taken
to be current. A setup that fails is modelled in `Stream`. In the mapping to `AudioFifo` the queue is what lies in the ring (`Queued`), and what is
committed is the audio in the cells between the hardware and the fill position (`Filled`), without the silence between (`Heard`).

**Stream.** The resources of a stream are tokens the kernel hands out; `Get` acquires them in the code's order, `GetFails` and
`FillMisaligned` fail at each step and run destroy(), `Put` gives back what is there, `EnterReset` to `LeaveReset` are the reset
handshake. `Program` writes the registers. `IrqBegin` to `IrqClear` are hda_irq and output_irq, interleaved freely with the calls: nothing in the code
or its documentation makes a shutdown wait for a handler.
`Suspend` is what the controller reset does to the stream. Fields of the registers that no property reads are left out.

**Controller.** `step` runs through the acquisitions of init(); `pc` is the step of the call. `Suspend`, `ResetSeen`, `ResetTimeout`
are suspend(), also as called by resume() and destroy(); `ResumePci` to `CodecsDone` are resume(). Enumeration is modelled by
outcome: after a verb that was not answered every later one times out until the next reset (`desync`; this is what
`VerbRing` shows). `irqOn` is the state of the device's irq: one that is given back enabled stays so, and nobody can disable it any more, until another init() allocates
a new one; the destructor's disabling (`controller.cpp:34`) comes after that and does nothing. `DestructMembers` is the destruction of the 32 stream members after the destructor's body: accesses through
unmapped or null pointers, modelled as going unnoticed or stopping the system (`fault`). `freed` says that an engine still
runs with an address that has been given back.

**CodecPaths.** One action per way through the body of the loop of find_output_paths; a stack entry has the four fields of
`StackEntry`. A connection list is a sequence of node ids with a range flag (bit 7). `Select` is uhda_find_path followed by
the client's use of the path for a stream: it passes the paths in use as `other_paths`, and `same_stream` if all of them play the stream of the new one.
A pin is an `outPin` if it is output capable and connected; `selector` stands for every type that the search passes through and
path_setup only powers and connects. A list has at most 127 entries (the length field has 7 bits). The module has no `Init`: `CodecInit` gives it the widgets that enumeration has found and runs the search
inside its own steps, `PathControl` the widgets of a finished codec (`Known`).

**CodecInit.** UhdaCodec::init is one sequential call on a codec that does not change, so a function group (`SkipGroup`, `EnterGroup`, `LeaveGroup`),
a widget with all its verbs (`ReadWidget`) and an output (`SkipOutput`, `Independent`, `NewGroup`, `Join`) are a step each. The loop counters are bytes
(`NextByte`). `ReadList` reads a connection list in answers of four (`Answer`, external) and cuts the last one short. `Stored` is the assignment to
`widgets[nid]` after a resize that leaves default elements, which read as converters (`Hole`). `InOrder` is the push or insert at the
place the two search loops find. The codec is a constant, one of `Codecs`: what the hardware answers. `CodecAssumption` keeps the node counts below 256, where the
comparison of a byte with an int sum would never end. `ReadFails`, `SearchFails`, `OutputFails`, `GroupFails` and `JoinFails` are the
failures (a verb, a list of the long form, an allocation); the codec object is then destroyed with what it owns (`Abandon`), and `live` counts the output and group objects.
An allocation by push can only fail where the vector is full, which matters in `JoinFails`, so a group carries the capacity of its vector of outputs
(`cap`, with `Full` and `CapAfter` from `ensure_space`). Two facts are assumed of the constants: a node belongs to one function group
(`NodesAssumption`; the standard numbers nodes uniquely within a codec, and code that reads a node twice would overwrite its widget), which the theorems about the whole
enumeration use and the others do not; and the first capacity is at least 2 (`CapAssumption`; 8 in the code), since the code grows a vector by half. Left out are
the fields only getters read: rates, formats, `default_dev`, `dac_nids`.

**PathControl.** A call is the list of its verbs (`SetupVerbs`, `ShutdownVerbs`, `VolumeVerbs`, `MuteVerbs`), sent one by one: the lock is held for a
verb, so calls of different threads interleave between any two (`Answered`). A verb that times out (`TimedOut`) ends its call and leaves it `broken`; the
codec has taken it or not, for both happen in `VerbRing`. A verb taken only after a later call has begun is left out. The client sets up a path it has chosen, again
after a failure, sets volumes and mutes it while it is up, shuts it down and gives it up; it keeps calls for one path apart. `SelectIndex` is the loop over the connection list (`uhda.cpp:328-350`); with a range bit in the first entry it
reads `connections[-1]`, one of `Strays`. `hw` is what the codec holds by node id, amplifiers reduced to mute and gain;
`gains` is `UhdaPath::gain`. The volume is in 16.16 fixed point. A verb sets one setting of one node. The properties speak of paths with `Apart`: none of their widgets is a hole,
and their pins are not on each other's ways, which uhda_find_path lets happen for one stream. A connection index is a byte, so `Routed` is promised
for lists that are `WellFormed`: each range flag ends a rising range, and they name at most 256 nodes.

**StreamParams.** `RateTable` is SAMPLE_RATES with the fields of the format word, `SetSampleRate` and `SetChannels` what the setters make of a value,
`CheckStreamParams` uhda_check_stream_params. `RateOf`, `ChannelsOf`, `SampleBits` read the word as the hardware does; `Plays` compares.

## Runs

| Run | Module | Bounds | Shows |
|---|---|---|---|
| `verb_calls` | VerbRing | 2 callers, 4 slots, 6 verbs | the ring wraps once and is shared, with late answers, dead codecs and resets; own response, order, contract, lock given back |
| `simple_play` | SimpleStream | period 1, buffer 8, ahead 4, ring 2, lag 1, 2 tokens | both rings wrap, interrupts merge, pauses at any point; no underrun, bounded ahead, FIFO; queued data leaves the ring |
| `simple_race` | SimpleStream | as play, `Quiet = FALSE` | **violation**: `size` wraps (finding 1) |
| `stream_life` | Stream | 2 addresses | setup, failure, playback, shutdown, again, with a handler at any time; ledger, DMA, when the handler is entered, clean start, calls return |
| `stream_resume` | Stream | 1 address, `SuspendSetUp = TRUE` | **violation**: RUN with no descriptor list (finding 2) |
| `controller_life` | Controller | codecs 0, 1 (dead), 2; at most 6 listed, 1 lost | every failure and timeout; no leak, memory held, irq enabled only in use but for finding 3, quiet after destroy, codecs listed, calls return |
| `controller_irq` | Controller | codecs 0, 1 | **violation**: irq deallocated while enabled (finding 3) |
| `controller_resume` | Controller | codecs 0, 1 | **violation**: codecs listed twice (finding 4) |
| `controller_destroy` | Controller | codecs 0, 1 | **violation**: stream members touch unmapped registers (finding 5) |
| `codec_init` | MCCodecInit | 4630 codecs, depth 3, vectors of 2, 2 streams | enumeration exact, groups sorted and complete, nothing lost; search sound, complete for what it follows, and ends; paths given out work together |
| `path_control` | MCPathControl | 87 offers of layout, parameters, volumes; at most 2 timeouts | a path that is up plays as asked, one shut down is silent, a mute is what the client asked for, through every interleaving of two paths |
| `path_select` | MCPathControl | as above | **violation**: wrong connection inside a range (finding 6) |

Why the bounds are enough. The verb index is compared modulo the ring and `Slots - 1` timeouts are the first to make an old
answer look like a new one, so 4 slots with 6 verbs reach the wrap, the limit and what is past it; the theorems
remove the bounds. In SimpleStream both inequalities of `MarginAssumption` are met with
nothing to spare, where the code's sizes (0x1000, 256 * 0x1000 and 4 * 0x1000) leave room. Period 1 makes a period end at every unit, so that
merged interrupts are frequent. `MaxLag` bounds how far the hardware plays between the end
of a period and the end of its handler; the code has no defence against a handler later than that. In Stream two addresses let a resource be handed
out again at a new place while a stale register names the old one. In Controller a dead codec between two live ones is
the case where the order of enumeration matters; `MaxCodecs` lets resume repeat, `MaxLost` bounds the leak of one codec per failed push.

In MCCodecInit, `Mazes` are all ways to give three of six widgets one of ten lists and a fourth one of four, which between them hold each form of entry: single, circular, a leading range bit,
a final and an inner range, a node that is no widget; depth 3 is reached with widgets to spare. `Boards` are all ways to label four of five output pins with five pairs of association and
sequence, so that groups and outputs are appended, inserted in front, between, and equal; a vector starts with a capacity of 2 (`FirstCap`, 8 in the code), so that it grows. `Odd` has function groups that are
not audio, a gap between the nodes of two groups, holes, lists of more than four entries, a list of the long form and node ids that end at 254.
In MCPathControl two outputs share a mixer and a converter with a way around them; one output has each of four lists with its converter at each place; a chain passes an input pin and a selector;
a single path is offered every rate of the table, extreme channel counts, and parameters that are refused. Two timeouts let the setup and the shutdown after it both fail.
The violations use the smallest instances, and need no fairness.

Deadlock is checked except in Controller (a `fault` ends the system, and `MaxCodecs` the resumes), CodecInit (a codec that failed, or has no paths, leaves nothing to do) and PathControl
(a layout without paths, or parameters that are refused, leave the client nothing to do).

Each property of a passing run comes with a mutant in `PROJECT.json`: a definition, placed just before the one it changes in the same
module (`LockUnguarded` before `Lock`), that differs as a plausible bug would and makes the run fail. No specification uses these definitions.

### Fairness

`VerbRing`: a caller that is inside the driver takes its steps; nothing is assumed of the hardware, nor of who wins the spinlock, so
`LockReleased` rests on the limit of the poll alone. `Controller`: calls take their steps; the hardware need never acknowledge a reset.
`Stream`: destroy() waits for the reset without a limit (`stream.cpp:95` says so), so `CallsReturn` needs the hardware to
acknowledge it. `SimpleStream`: a running stream plays, its interrupts are handled, play() returns: what the kernel and the
hardware provide while the system is alive. `CodecInit`: the one call of init() goes on, because each of its verbs returns (`LockReleased`). `PathControl` states no fairness and no liveness: each call is a finite list of verbs.

### Findings

1. `simple.cpp:228`: play() copies without the lock. Paused with a period interrupt outstanding, it and the callback subtract the same bytes from `size`, which wraps.
2. `controller.cpp:351`: streams are rebound, not reprogrammed, at resume; one that was set up says PAUSED and plays with BDPL, CBL and LVI cleared.
3. `controller.cpp:179`: after a codec error the irq is deallocated while enabled, against `kernel_api.h:37`.
4. `controller.cpp:388`: each resume adds the codecs again.
5. `stream.cpp:94`: `~UhdaStream` of the members runs after the BAR is unmapped.
6. `uhda.cpp:340`: the connection index of a widget inside a range is one too large, because the first node of the range has been counted as an entry of its own.

A seventh disagreement has no run of its own. After a codec that does not answer, resume() goes on to the next one (the `continue` at `controller.cpp:381`), and `uhda.h:101` says that the list is that of the "codecs
attached to the controller". But the verb without an answer has left RIRBWP behind CORBWP for good, so every verb of the later codecs times out as well and none of them is listed, though uhda_init succeeds.
VerbRing shows the cause (`AnswerVisible` promises an answer only if all earlier verbs got one), and Controller builds on it (`desync`). `ListedAnswer` promises only the codecs before the first silent one; asked also for those after it, `controller_life` would fail.

Not findings, but visible in the models:

- A handler that was entered before a shutdown, or while destroy() gives the memory back (`stream.cpp:73-92`), calls the period callback while the stream is being shut down, or after that. `uhda.h:204` asks the
  client to stop the stream first, not to wait for a handler; no line forbids the late call. `CallbackSafe` says when a handler can be entered, which is all the code ensures.
- The irq that a failed init() leaves enabled (finding 3) can still call hda_irq after the registers are unmapped (`EnumerationFailed`, the exception of `HandlerSafe`).
- The search follows only the first node of a range that ends a connection list (`codec.cpp:373`; the definition `Followed` against `Named`).
- With `same_stream`, two paths that reach a shared widget from different widgets are refused as without it (`uhda.cpp:247`), so one stream never fans out to two outputs
  through a common converter; on the other hand two paths are accepted of which one passes through the other's pin, and their setups then disagree about it (the last case of `ActiveTogether`; `Apart` excepts it in `PathControl`).
- path_setup leaves the amplifiers of selectors as init() muted them. Unmuting a path writes the gain of the converter to the pin (`uhda.cpp:513`); setting a volume unmutes
  a path that was muted at its converter, and not one that was muted at its pin (`MuteHolds` states both).
- Holes between function groups read as converters (`Hole`), and a list that names one yields a path that ends at it.
- The byte before a connection list is read if its first entry has the range bit (`uhda.cpp:337`).
- An output whose group cannot grow past its first allocation is leaked (`NothingLost` says when), and so is a codec whose push fails (`lost`).
- An instance whose initialisation failed late, or whose suspend timed out in destroy, leaves engines running with
  freed pages until the next reset (`freed`, which is why `QuietWhenDestroyed` asks for SUCCESS).

## Proofs

The proofs hold for every value of the constants that satisfies the assumptions named in the modules; TLC evaluates those in the runs.

**VerbRingProofs** (any number of callers, slots, verbs). `OwnResponse` is not inductive: that RIRBWP equals the index says nothing by
itself. The invariant `RingInvariant` counts: with `submitted`, `fetched` and `answered` verbs since the last reset, the distances from
the hardware's read pointer and RIRBWP to CORBWP are the verbs not yet fetched and not yet answered (`Lockstep`), and the latter are at
most the timeouts plus the verb in progress. While fewer than `Slots - 1` calls have timed out (`Sound`) a distance of 0 can only mean that
everything has been answered, so the slot holds the caller's own response (`Contents`, `Progress`). The lemmas `SuccFacts` and
`DistInjective` carry the arithmetic modulo the ring. `ContractHolds` maps every step to a step or a stutter of `VerbCall`. `AnswerVisible` is proved
under `Sound`.

**SimpleStreamProofs** (any period, buffer, ring and lag with `MarginAssumption`, and a client with `Quiet`). `NoUnderrun` is about one cell; the invariant
`MarginInvariant` relates three positions on a circle: what was played since the position of the last interrupt is at most a period and
twice the lag (`SinceBounded`), what is written ahead of it is between `Allowed` and `Allowed + Period + MaxLag - 1`, and everything between the
hardware and the fill position is written. play() refills relative to the current position and leaves `prev_irq_pos` behind; that the ahead does
not creep up over many pauses is the step of `PlayCopy`. The lemmas `MoveType` to `GapSum` state the arithmetic of the circle.

`FifoImplemented` maps every step to a step of `AudioFifo` or a stutter, under the same two assumptions. `Queued` and `Filled` are functions of positions on circles and `Heard` a recursive function of a sequence; that it
exists and what it makes of a concatenation, of audio alone and of silence alone (`HeardMore`, `HeardConcat`, `HeardTokens`, `HeardNone`) is proved first. Then the copy of callback and play() is
`Commit` (`CopyHandsOver`: what is filled grows by the front of the queue and by silence; with nothing in the ring it is a stutter), queue_data is `Put` (what it writes overwrites nothing queued), and a unit that is played
is `Emit` or silence: `Filled` loses its first cell, which is not stale because of the margin invariant. The invariant is
that one with `ClosedInv`: a closed stream has nothing queued or filled.

**StreamProofs** (any addresses, any client, and a handler that runs at any time). The invariant is `StepInvariant` (which resources there are at
each step of setup and destroy) and `RegisterInvariant` (what the registers hold, in particular that IOCE is set only between the end of a setup and the reset of the shutdown). `Ledger`, `CallbackSafe` (an action property) and `CleanStart` follow without an assumption;
`DmaSafe` needs a client that shuts its streams down before a suspend, and fails without (run `stream_resume`).

**ControllerProofs** (any codecs, dead ones among them). What an instance holds cannot be read off its step alone, since suspend() is entered from four places and
left in two ways. The invariant has five parts: which call each step belongs to (`CallInvariant`), what is held then (`HeldInvariant`, with `Before` the order of
acquisition), where the irq is enabled (`IrqInvariant`: outside of its use only after an init() that failed with the rings running, which is how
`HandlerSafe` is proved to have no other exception), what runs between the entry of a reset and its end (`ResetInvariant`), and which codecs have been listed at each point of enumeration
(`EnumerationInvariant`). `NoLeak`, `DmaHeld`, `HandlerSafe`, `QuietWhenDestroyed` and `ListedAnswer` follow.

**CodecPathsProofs, CodecInitProofs** (any codecs that `CodecAssumption` describes, any depth limit, streams and capacity). `CodecPathsProofs` has the lemmas, `CodecInitProofs` the
theorems of the specification. That a path follows the lists rests on a place in a list being always a boundary: whether a flagged entry ends a
range depends on the parity of the flags before it, so the invariant of a stack entry (`EntryOK`) says that its next entry ends no range and that what is left of the current range is
named; `DecodeFacts` is the step. The stack is a chain (`ChainOK`): each widget is named by the list of the one below and none occurs twice, so a found path is one too (`PathFound`).
`ClientInv` says that the paths in use are pairwise free of clashes, without `same_stream` unless they play one stream; `DisjointStreams` and `DisjointStream` show what that means for the
widgets they share. Two clashes are told apart by the predecessors, so the second takes the first widget that both paths have. For the groups, `InsertAtFacts` and `InOrderFacts`
say where an insertion leaves what, and `JoinSorted` and `NewSorted` that order survives; a group of association 15 is only ever appended, which is right because no association is greater.
`ReadListExact` is about the arithmetic of answers of four.

`WholeHolds` is the invariant behind `Enumerated`, `GroupsComplete` and `NothingLost`. `ReadInv`: at each moment the widgets known are those of the nodes the counters have
passed, as the codec describes them, and the pins are in the order of the counters; the counters are bytes, so that they pass each node once rests on `CodecAssumption`. `PlacedInv`: the outputs dealt with that
have an association (`Due`) and the places in the groups correspond one to one (`Holding`), and each group has a capacity that fits (`GroupOK`). The objects
that exist are those the groups own, by counting over that correspondence (`GroupedCount`); when the push into an existing group fails, the vector is full, so the group has at least `FirstCap` outputs (`FullGroup`), and one
output is lost, which is what `NothingLost` grants.

`PathsComplete` says that the search finds every way, so the invariant must say where a way is that has not been found yet: `FoundInv` says each is among the paths or `Pending`, that is, the turn of its pin is to come,
or it follows the stack up to some widget and leaves it for a node that this widget's entry has still to give (`Remaining`). An entry taken from a list loses just that
node from `Remaining` (`RemainingStep`), a skipped node is on the stack or no widget, a push turns the ways through it into ways that follow the longer stack, and the depth limit cuts off no
way of the length counted. For the count, what is found is not pending any more (`FoundOnce`). `WaysFacts` shows that the recursive function `Way` is exactly the walks of n widgets.

**PathControlProofs** (any codec, amplifiers, streams, volumes and any number of timeouts). `PathPlays`, `PathSilent` and `MuteHolds` speak of the moments between calls, so none is inductive. The invariant adds to that of the search and
of the choice (`SearchInv`, `ClientInv`) a `ControlInv`, which says of each call what it has done and what it has still to do. During a setup (`SetupOn`) each setting that the path needs has the value it should get or a verb for it
is still in the list (`Pends`), and every verb in the list sends the value its setting should get. While a path is up (`PlayOn`) all its settings but the amplifiers' stay, the one amplifier that mute acts on is muted as the client has asked and the others are not, and a volume or mute call has one verb, for one amplifier (`OneVerb`). A shutdown has only quieting verbs left.
For silence the roles change: each widget that could sound is quiet, or some path in use that is not off contains it and answers for it (`QuietOn`), with a
verb still to be sent if that path is being shut down. A call that timed out leaves its path `broken`, which still answers for its widgets; so a setup and a shutdown that both failed half-way
leave no widget that the next shutdown would not silence. That the verbs of one path disturb none of another's settings is the frame argument `ApartOthers`: two paths in use share no widget whose setting one needs and the other changes.
`SelectsNext` is about `SelectIndex` alone: in a well-formed list, a node that is named outside of the ranges is what the computed index selects. The proofs needed two
limits that the runs had not met: the 256 nodes of `WellFormed`, and that `Apart` excepts holes, whose verbs go to node 0.

**StreamParamsProofs** (any parameters). `AcceptedPlays` and `RatesAccepted`, row by row of the table.

Facts about recursive functions are proved without an induction principle: the least number for which such a fact fails exists (`LeastNumber` and its like, from the
well-foundedness of the naturals) and is refuted. The same way the functions themselves are shown to exist (`IndexExists`, `WaysExist`, `HearsExists`, `FlatExists`).

Every invariant that a passing run checks is a theorem, and so is every refinement and every action property. Only model-checked are the liveness properties (`LockReleased`, `QueueDrains`, `CallsReturn`, `InitEnds`), which need fairness and so are
out of the prover's reach. `AnswerVisible` is proved while the rings are `Sound`, the simple stream's theorems for a client with `Quiet`, `DmaSafe` for a client that suspends no stream that is set up:
`simple_race` and `stream_resume` show what happens without `Quiet` and with a suspend of a stream that is set up. The properties of the violating runs are refuted, not proved.

## What is assumed of the client and of the hardware

The API documents little of this; each is needed by some property. Threads are outside the driver during suspend, resume and destroy. A
stream is set up once before it is shut down, stopped before shutdown (`uhda.h`: "must be stopped prior to shutting it down"), and played only when set up.
A simple stream is used from one thread, freed only when no callback can run, set up once per
object. A client that suspends shuts its streams down first (`SuspendSetUp = FALSE`). Calls to the kernel with a null or deallocated irq
(`controller.cpp:34`) are taken to do nothing, and an irq is disabled when it is allocated. A path in use comes from uhda_find_path, with all others in use passed to it, and calls for one path do not overlap.
A codec's nodes end at 254 (`CodecAssumption`), and the amplifier capabilities of a node do not change.

## Not modelled

The `uint8_t` index with CORB sizes other than 256 (the model has one size for both rings); the number of streams and the scan of INTSTS; sizes of
allocations, among them the size 0 that destroy() passes to uhda_kernel_free (`stream.cpp:80`) and the product of periods and period size in CBL (`stream.cpp:54`);
input streams, which the driver never sets up; the read-back delay of RUN; memory ordering between the rings and the registers; a verb that the codec takes after a later call has begun. The moves and destructors
of the vector's elements, register access, device tables, strings and information queries have no state that a property could be about.

## Plan

1. A composition of `Stream` and `Controller`, with several streams, in which the members' destructors and suspend act on the streams' own state.
2. The CORB sizes 16 and 2, with an index that wraps at 256.
3. The callback of a handler that is already entered, with the memory it uses: which client (one that waits for its own callbacks) is safe from it.
