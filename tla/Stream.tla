------------------------------- MODULE Stream -------------------------------
(***************************************************************************)
(* An output stream of the controller (stream.cpp and the stream part of   *)
(* uhda.cpp): what setup acquires from the kernel, step by step with a     *)
(* failure at each step, what destroy gives back, the registers the two    *)
(* program and reset, playback, and the interrupt of a completed period.   *)
(*                                                                         *)
(* The client calls the API from one thread, shuts a stream down only when *)
(* it is stopped, and plays only a stream that is set up.  With            *)
(* SuspendSetUp it may suspend the controller while the stream is set up.  *)
(* The interrupt handler runs whenever it runs: neither shutdown nor       *)
(* suspend waits for it.                                                   *)
(***************************************************************************)
EXTENDS FiniteSets

CONSTANTS Addr,          \* the addresses at which the kernel places resources
          Null,
          SuspendSetUp

ASSUME NullAssumption == Null \notin Addr
ASSUME ClientAssumption == SuspendSetUp \in BOOLEAN

\* The resources of a stream, in the order setup acquires them: the page of the
\* buffer descriptor list, its mapping, the array bdl_chunks, the chunks in it.
Kind == {"phys", "map", "array", "chunks"}
After == [phys |-> "map", map |-> "array", array |-> "chunks"]
Before == [chunks |-> "array", array |-> "map", map |-> "phys"]

VARIABLES held,      \* kernel: the resources handed out and not given back
          ptr,       \* bdl_phys, bdl, bdl_chunks, the chunks if bdl_chunk_count # 0
          entries,   \* memory: the chunks that the list in a page names
          callback,  \* period_callback is set
          pc, at,    \* the step of the API call, the resource it is about
          run, ioce, bcis, bdpl,   \* CTL0.RUN, CTL0.IOCE, STS.BCIS, BDPL and BDPU
          rst, rstReq,   \* CTL0.RST: as the hardware reports it, as written
          irq,       \* the step of output_irq
          up         \* the controller is not suspended

memory == <<held, ptr, entries>>
ctl == <<run, ioce, bdpl>>
vars == <<memory, callback, pc, at, ctl, bcis, rst, rstReq, irq, up>>

Init == /\ held = [k \in Kind |-> {}] /\ ptr = [k \in Kind |-> Null]
        /\ entries = [a \in Addr |-> Null]
        /\ callback = FALSE
        /\ pc = "idle" /\ at = "phys"
        /\ run = FALSE /\ ioce = FALSE /\ bcis = FALSE /\ bdpl = Null
        /\ rst = FALSE /\ rstReq = FALSE
        /\ irq = "idle" /\ up = TRUE
-----------------------------------------------------------------------------
\* uhda_stream_get_status # UNINITIALIZED
SetUp == ptr["array"] # Null

Idle == pc = "idle" /\ up

\* The steps of destroy(), which also ends a failed setup.
Destroying == {"put", "enterReset", "inReset", "leaveReset"}

(* uhda_stream_setup *)

Setup == /\ Idle /\ ~SetUp
         /\ pc' = "get" /\ at' = "phys"
         /\ UNCHANGED <<memory, callback, ctl, bcis, rst, rstReq, irq, up>>

\* The kernel hands out the next resource ...
Get(a) == /\ pc = "get" /\ a \notin held[at]
          /\ held' = [held EXCEPT ![at] = @ \cup {a}]
          /\ ptr' = [ptr EXCEPT ![at] = a]
          /\ \/ at = "chunks" /\ pc' = "fill" /\ UNCHANGED at
             \/ at # "chunks" /\ at' = After[at] /\ UNCHANGED pc
          /\ UNCHANGED <<entries, callback, ctl, bcis, rst, rstReq, irq, up>>

\* ... or does not: the guard declared after the first one runs destroy().
GetFailsUnguarded == /\ pc = "get" /\ pc' = "idle"
                     /\ UNCHANGED <<memory, callback, at, ctl, bcis, rst, rstReq, irq, up>>
GetFails == /\ pc = "get"
            /\ \/ at = "phys" /\ pc' = "idle" /\ UNCHANGED at
               \/ at # "phys" /\ pc' = "put" /\ at' = "chunks"
            /\ UNCHANGED <<memory, callback, ctl, bcis, rst, rstReq, irq, up>>

\* The list in the page is written, the callback stored, the guard disarmed ...
Fill == /\ pc = "fill" /\ pc' = "program"
        /\ entries' = [entries EXCEPT ![ptr["phys"]] = ptr["chunks"]]
        /\ callback' = TRUE
        /\ UNCHANGED <<held, ptr, at, ctl, bcis, rst, rstReq, irq, up>>

\* ... unless a chunk is not aligned to 128 bytes.
FillMisaligned == /\ pc = "fill" /\ pc' = "put" /\ at' = "chunks"
                  /\ UNCHANGED <<memory, callback, ctl, bcis, rst, rstReq, irq, up>>

\* The registers: BDPL and BDPU, CBL, LVI, the stream number, IOCE.
ProgramKeepBdpl == /\ pc = "program" /\ pc' = "idle"
                   /\ ioce' = TRUE
                   /\ UNCHANGED <<memory, callback, at, run, bdpl, bcis, rst, rstReq, irq, up>>
Program == /\ pc = "program" /\ pc' = "idle"
           /\ bdpl' = ptr["phys"] /\ ioce' = TRUE
           /\ UNCHANGED <<memory, callback, at, run, bcis, rst, rstReq, irq, up>>
-----------------------------------------------------------------------------
(* uhda_stream_shutdown *)

Shutdown == /\ Idle /\ SetUp /\ ~run
            /\ pc' = "put" /\ at' = "chunks"
            /\ UNCHANGED <<memory, callback, ctl, bcis, rst, rstReq, irq, up>>

\* destroy() gives back, last acquired first, what is there ...
PutNoReset == /\ pc = "put"
       /\ held' = [held EXCEPT ![at] = @ \ {ptr[at]}]
       /\ ptr' = [ptr EXCEPT ![at] = Null]
       /\ \/ at = "phys" /\ pc' = "idle" /\ UNCHANGED at
          \/ at # "phys" /\ at' = Before[at] /\ UNCHANGED pc
       /\ UNCHANGED <<entries, callback, ctl, bcis, rst, rstReq, irq, up>>
Put == /\ pc = "put"
       /\ held' = [held EXCEPT ![at] = @ \ {ptr[at]}]
       /\ ptr' = [ptr EXCEPT ![at] = Null]
       /\ \/ at = "phys" /\ pc' = "enterReset" /\ UNCHANGED at
          \/ at # "phys" /\ at' = Before[at] /\ UNCHANGED pc
       /\ UNCHANGED <<entries, callback, ctl, bcis, rst, rstReq, irq, up>>

\* ... and then resets the stream: CTL0 becomes RST, every other bit 0 ...
EnterNoReset == /\ pc = "enterReset" /\ pc' = "inReset"
                /\ run' = FALSE /\ ioce' = FALSE
                /\ UNCHANGED <<memory, callback, at, bdpl, bcis, rst, rstReq, irq, up>>
EnterReset == /\ pc = "enterReset" /\ pc' = "inReset"
              /\ rstReq' = TRUE /\ run' = FALSE /\ ioce' = FALSE
              /\ UNCHANGED <<memory, callback, at, bdpl, bcis, rst, irq, up>>

\* ... until the hardware reports RST, then 0 until it no longer does.
InReset == /\ pc = "inReset" /\ rst
           /\ pc' = "leaveReset" /\ rstReq' = FALSE
           /\ UNCHANGED <<memory, callback, at, ctl, bcis, rst, irq, up>>

LeaveResetEarly == /\ pc = "leaveReset" /\ pc' = "idle"
              /\ UNCHANGED <<memory, callback, at, ctl, bcis, rst, rstReq, irq, up>>
LeaveReset == /\ pc = "leaveReset" /\ ~rst
              /\ pc' = "idle"
              /\ UNCHANGED <<memory, callback, at, ctl, bcis, rst, rstReq, irq, up>>
-----------------------------------------------------------------------------
\* uhda_stream_play
Play(b) == /\ Idle /\ SetUp
           /\ run # b /\ run' = b
           /\ UNCHANGED <<memory, callback, pc, at, ioce, bcis, bdpl, rst, rstReq, irq, up>>

\* uhda_suspend stops the stream, and the reset of the controller clears the
\* stream's registers; uhda_resume programs none of them.
Suspend == /\ Idle /\ (SetUp => SuspendSetUp)
           /\ up' = FALSE
           /\ run' = FALSE /\ ioce' = FALSE /\ bcis' = FALSE /\ bdpl' = Null
           /\ UNCHANGED <<memory, callback, pc, at, rst, rstReq, irq>>

Resume == /\ ~up /\ up' = TRUE
          /\ UNCHANGED <<memory, callback, pc, at, ctl, bcis, rst, rstReq, irq>>
-----------------------------------------------------------------------------
(* The interrupt: hda_irq finds the stream in INTSTS and calls output_irq *)

IrqBegin == /\ irq = "idle" /\ bcis /\ ioce /\ up
            /\ irq' = "callback"
            /\ UNCHANGED <<memory, callback, pc, at, ctl, bcis, rst, rstReq, up>>

\* output_irq: the callback returns, then BCIS is cleared.
IrqCallback == /\ irq = "callback" /\ irq' = "clear"
               /\ UNCHANGED <<memory, callback, pc, at, ctl, bcis, rst, rstReq, up>>

IrqClear == /\ irq = "clear" /\ irq' = "idle"
            /\ bcis' = FALSE
            /\ UNCHANGED <<memory, callback, pc, at, ctl, rst, rstReq, up>>
-----------------------------------------------------------------------------
(* The hardware (external) *)

\* A buffer with IOC set is completed.
Complete == /\ run /\ ~rst /\ ~bcis
            /\ bcis' = TRUE
            /\ UNCHANGED <<memory, callback, pc, at, ctl, rst, rstReq, irq, up>>

\* Reset is entered, which clears the registers, or left.
Reset == /\ rst # rstReq /\ rst' = rstReq
         /\ \/ rstReq /\ bcis' = FALSE /\ bdpl' = Null
            \/ ~rstReq /\ UNCHANGED <<bcis, bdpl>>
         /\ UNCHANGED <<memory, callback, pc, at, run, ioce, rstReq, irq, up>>
-----------------------------------------------------------------------------
SetupSteps == (\E a \in Addr : Get(a)) \/ GetFails \/ Fill \/ FillMisaligned \/ Program
DestroySteps == Put \/ EnterReset \/ InReset \/ LeaveReset
Calls == Setup \/ Shutdown \/ (\E b \in BOOLEAN : Play(b)) \/ Suspend \/ Resume
Handler == IrqBegin \/ IrqCallback \/ IrqClear
Hardware == Complete \/ Reset

Next == Calls \/ SetupSteps \/ DestroySteps \/ Handler \/ Hardware

Spec == Init /\ [][Next]_vars

\* Calls go on, the hardware acknowledges a reset.
FairSpec == Spec /\ WF_vars(SetupSteps) /\ WF_vars(DestroySteps) /\ WF_vars(Reset)
-----------------------------------------------------------------------------
(* Properties *)

\* The steps are the ones of the code, pointers are addresses.
TypeOK == /\ held \in [Kind -> SUBSET Addr]
          /\ ptr \in [Kind -> Addr \cup {Null}]
          /\ entries \in [Addr -> Addr \cup {Null}]
          /\ callback \in BOOLEAN
          /\ pc \in {"idle", "get", "fill", "program"} \cup Destroying
          /\ at \in Kind
          /\ run \in BOOLEAN /\ ioce \in BOOLEAN /\ bcis \in BOOLEAN
          /\ bdpl \in Addr \cup {Null}
          /\ rst \in BOOLEAN /\ rstReq \in BOOLEAN
          /\ irq \in {"idle", "callback", "clear"}
          /\ up \in BOOLEAN

\* Whichever step of setup failed, what the kernel has handed out is what the
\* stream points to (no leak, no second free), and between calls that is either
\* all of a stream's resources or none of them.
Ledger == /\ \A k \in Kind : held[k] = {ptr[k]} \ {Null}
          /\ pc = "idle" => \/ \A k \in Kind : ptr[k] = Null
                            \/ \A k \in Kind : ptr[k] # Null

\* A running stream reads only memory it has: its descriptor list, and through
\* that the chunks it plays.
DmaSafe == run => /\ bdpl \in held["phys"]
                  /\ entries[bdpl] \in held["chunks"]

\* The interrupt of a stream is handled only from the end of its setup until its
\* shutdown has begun the reset, and then there is a callback; so no stream that
\* is shut down, or is being set up, is called back for what it played before,
\* but by a handler that was already entered.
CallbackSafe == [][irq = "idle" /\ irq' = "callback" =>
    callback /\ ((pc = "idle" /\ SetUp) \/ pc \in {"put", "enterReset"})]_vars

\* A setup starts from a stream at rest: whatever the stream did before, however
\* an earlier setup failed, and though a handler may still run, nothing of it is
\* left in the hardware.
CleanStart == pc \in {"get", "fill", "program"} =>
    ~run /\ ~ioce /\ ~bcis /\ bdpl = Null /\ ~rst /\ ~rstReq

\* The inductive invariant behind these: which resources the stream has at each
\* step, and what its registers hold (the list it has, unless a suspend while it
\* was set up has cleared that).
Has(S) == \A k \in Kind : ptr[k] # Null <=> k \in S
StepInvariant ==
    /\ pc = "idle" => Has({}) \/ Has(Kind)
    /\ pc = "get" => CASE at = "phys" -> Has({})
                      [] at = "map" -> Has({"phys"})
                      [] at = "array" -> Has({"phys", "map"})
                      [] at = "chunks" -> Has({"phys", "map", "array"})
    /\ pc \in {"fill", "program"} => Has(Kind)
    /\ pc = "program" => callback /\ entries[ptr["phys"]] = ptr["chunks"]
    /\ pc = "put" => CASE at = "phys" -> ptr["map"] = Null /\ ptr["array"] = Null
                                          /\ ptr["chunks"] = Null
                      [] at = "map" -> ptr["array"] = Null /\ ptr["chunks"] = Null
                      [] at = "array" -> ptr["chunks"] = Null
                      [] at = "chunks" -> TRUE
    /\ pc \in {"enterReset", "inReset", "leaveReset"} => Has({})
AtRest == ~run /\ ~ioce /\ ~bcis /\ bdpl = Null /\ ~rst /\ ~rstReq
RegisterInvariant ==
    /\ ioce => callback
    /\ pc \in {"get", "fill", "program"} \/ (pc = "idle" /\ ~SetUp) => AtRest
    /\ pc = "idle" /\ SetUp => /\ callback /\ ~rst /\ ~rstReq
                               /\ \/ SuspendSetUp
                                  \/ bdpl = ptr["phys"] /\ entries[bdpl] = ptr["chunks"]
    /\ pc \in Destroying => ~run
    /\ pc \in {"put", "enterReset"} => ~rst /\ ~rstReq
    /\ pc = "inReset" => rstReq /\ ~ioce /\ (rst => ~bcis /\ bdpl = Null)
    /\ pc = "leaveReset" => ~rstReq /\ ~ioce /\ ~bcis /\ bdpl = Null
    /\ ~up => pc = "idle" /\ (SetUp => SuspendSetUp)

\* setup and destroy return, though destroy waits for the hardware without a
\* limit.
CallsReturn == pc # "idle" ~> pc = "idle"
=============================================================================
