---------------------------- MODULE StreamProofs ----------------------------
(***************************************************************************)
(* Proofs about the stream, for every set of addresses, however the        *)
(* interrupt handler is interleaved with the calls, and for every client:  *)
(* only DmaSafe needs one that shuts the stream down before it suspends    *)
(* the controller.                                                         *)
(***************************************************************************)
EXTENDS Stream, TLAPS

USE NullAssumption DEF Kind, Destroying

Paired == \A k \in Kind : held[k] = {ptr[k]} \ {Null}

Inv == TypeOK /\ Paired /\ StepInvariant /\ RegisterInvariant

LEMMA InitInv == Init => Inv
<1> SUFFICES ASSUME Init PROVE Inv
  OBVIOUS
<1> USE DEF Init
<1>1. TypeOK
  BY DEF TypeOK
<1>2. Paired
  BY DEF Paired
<1>3. StepInvariant
  BY DEF StepInvariant, Has
<1>4. RegisterInvariant
  BY DEF RegisterInvariant, AtRest, SetUp
<1> QED BY <1>1, <1>2, <1>3, <1>4 DEF Inv

(* Steps that touch neither the memory nor the call. *)
LEMMA MemorySame ==
    ASSUME Inv, UNCHANGED <<memory, callback, pc, at>>
    PROVE  Paired' /\ StepInvariant'
  BY DEF Inv, Paired, StepInvariant, Has, memory

-----------------------------------------------------------------------------
(* uhda_stream_setup *)

LEMMA SetupStep ==
    ASSUME Inv, Setup
    PROVE  Inv'
<1> USE DEF Inv, Setup, Idle, memory, ctl
<1>1. TypeOK'
  BY DEF TypeOK
<1>2. Paired'
  BY DEF Paired
<1>3. StepInvariant'
  BY DEF StepInvariant, Has, SetUp
<1>4. RegisterInvariant'
  BY DEF RegisterInvariant, AtRest, SetUp
<1> QED BY <1>1, <1>2, <1>3, <1>4

LEMMA GetStep ==
    ASSUME Inv, NEW a \in Addr, Get(a)
    PROVE  Inv'
<1> USE DEF Inv, Get, ctl
<1>0. at \in Kind /\ ptr \in [Kind -> Addr \cup {Null}] /\ held \in [Kind -> SUBSET Addr]
  BY DEF TypeOK
<1>1. TypeOK'
  BY DEF TypeOK, After
<1>2. Paired'
  <2>1. ptr[at] = Null
    BY <1>0 DEF StepInvariant, Has
  <2>2. held[at] = {}
    BY <1>0, <2>1 DEF Paired
  <2>3. \A k \in Kind : k # at => held'[k] = held[k] /\ ptr'[k] = ptr[k]
    BY <1>0
  <2>4. held'[at] = {a} /\ ptr'[at] = a
    BY <1>0, <2>2
  <2> QED BY <2>3, <2>4 DEF Paired
<1>3. StepInvariant'
  <2>1. a # Null
    OBVIOUS
  <2>2. \A k \in Kind : ptr'[k] = IF k = at THEN a ELSE ptr[k]
    BY <1>0
  <2>3. CASE at = "phys"
    BY <2>1, <2>2, <2>3 DEF StepInvariant, Has, After
  <2>4. CASE at = "map"
    BY <2>1, <2>2, <2>4 DEF StepInvariant, Has, After
  <2>5. CASE at = "array"
    BY <2>1, <2>2, <2>5 DEF StepInvariant, Has, After
  <2>6. CASE at = "chunks"
    BY <2>1, <2>2, <2>6 DEF StepInvariant, Has, After
  <2> QED BY <1>0, <2>3, <2>4, <2>5, <2>6
<1>4. RegisterInvariant'
  BY DEF RegisterInvariant, AtRest
<1> QED BY <1>1, <1>2, <1>3, <1>4

LEMMA GetFailsStep ==
    ASSUME Inv, GetFails
    PROVE  Inv'
<1> USE DEF Inv, GetFails, memory, ctl
<1>1. TypeOK'
  BY DEF TypeOK
<1>2. Paired'
  BY DEF Paired
<1>3. StepInvariant'
  BY DEF StepInvariant, Has
<1>4. RegisterInvariant'
  BY DEF RegisterInvariant, AtRest, SetUp, StepInvariant, Has
<1> QED BY <1>1, <1>2, <1>3, <1>4

LEMMA FillStep ==
    ASSUME Inv, Fill \/ FillMisaligned
    PROVE  Inv'
<1> USE DEF Inv, Fill, FillMisaligned, memory, ctl
<1>1. ptr["phys"] \in Addr
  BY DEF StepInvariant, Has, TypeOK
<1>2. TypeOK'
  BY <1>1, ZenonT(40) DEF TypeOK
<1>3. Paired'
  BY DEF Paired
<1>4. StepInvariant'
  <2>1. CASE Fill
    <3>1. entries'[ptr["phys"]] = ptr["chunks"]
      BY <1>1, <2>1 DEF TypeOK
    <3> QED BY <2>1, <3>1 DEF StepInvariant, Has
  <2>2. CASE FillMisaligned
    BY <2>2 DEF StepInvariant, Has
  <2> QED BY <2>1, <2>2
<1>5. RegisterInvariant'
  BY DEF RegisterInvariant, AtRest
<1> QED BY <1>2, <1>3, <1>4, <1>5

LEMMA ProgramStep ==
    ASSUME Inv, Program
    PROVE  Inv'
<1> USE DEF Inv, Program, memory
<1>1. TypeOK'
  BY DEF TypeOK
<1>2. Paired'
  BY DEF Paired
<1>3. StepInvariant'
  BY DEF StepInvariant, Has
<1>4. RegisterInvariant'
  BY DEF RegisterInvariant, AtRest, StepInvariant, Has, SetUp
<1> QED BY <1>1, <1>2, <1>3, <1>4

-----------------------------------------------------------------------------
(* uhda_stream_shutdown *)

LEMMA ShutdownStep ==
    ASSUME Inv, Shutdown
    PROVE  Inv'
<1> USE DEF Inv, Shutdown, Idle, memory, ctl
<1>1. TypeOK'
  BY DEF TypeOK
<1>2. Paired'
  BY DEF Paired
<1>3. StepInvariant'
  BY DEF StepInvariant
<1>4. RegisterInvariant'
  BY DEF RegisterInvariant
<1> QED BY <1>1, <1>2, <1>3, <1>4

LEMMA PutStep ==
    ASSUME Inv, Put
    PROVE  Inv'
<1> USE DEF Inv, Put, ctl
<1>0. at \in Kind /\ ptr \in [Kind -> Addr \cup {Null}] /\ held \in [Kind -> SUBSET Addr]
  BY DEF TypeOK
<1>1. TypeOK'
  BY DEF TypeOK, Before
<1>2. Paired'
  <2>1. \A k \in Kind : k # at => held'[k] = held[k] /\ ptr'[k] = ptr[k]
    BY <1>0
  <2>2. held'[at] = {} /\ ptr'[at] = Null
    BY <1>0 DEF Paired
  <2> QED BY <2>1, <2>2 DEF Paired
<1>3. StepInvariant'
  <2>1. \A k \in Kind : ptr'[k] = IF k = at THEN Null ELSE ptr[k]
    BY <1>0
  <2>2. CASE at = "phys"
    BY <2>1, <2>2 DEF StepInvariant, Has, Before
  <2>3. CASE at = "map"
    BY <2>1, <2>3 DEF StepInvariant, Has, Before
  <2>4. CASE at = "array"
    BY <2>1, <2>4 DEF StepInvariant, Has, Before
  <2>5. CASE at = "chunks"
    BY <2>1, <2>5 DEF StepInvariant, Has, Before
  <2> QED BY <1>0, <2>2, <2>3, <2>4, <2>5
<1>4. RegisterInvariant'
  BY DEF RegisterInvariant
<1> QED BY <1>1, <1>2, <1>3, <1>4

LEMMA ResetCallStep ==
    ASSUME Inv, EnterReset \/ InReset \/ LeaveReset
    PROVE  Inv'
<1> USE DEF Inv, EnterReset, InReset, LeaveReset, memory, ctl
<1>1. TypeOK'
  BY ZenonT(40) DEF TypeOK
<1>2. Paired'
  BY DEF Paired
<1>3. StepInvariant'
  BY DEF StepInvariant, Has
<1>4. RegisterInvariant'
  BY DEF RegisterInvariant, AtRest, SetUp, StepInvariant, Has
<1> QED BY <1>1, <1>2, <1>3, <1>4

-----------------------------------------------------------------------------
(* The other calls, the interrupt and the hardware. *)

LEMMA CallStep ==
    ASSUME Inv, (\E b \in BOOLEAN : Play(b)) \/ Suspend \/ Resume
    PROVE  Inv'
<1> USE DEF Inv, Play, Suspend, Resume, Idle, memory, ctl
<1>1. TypeOK'
  <2>1. CASE \E b \in BOOLEAN : Play(b)
    BY <2>1 DEF TypeOK
  <2>2. CASE Suspend
    BY <2>2 DEF TypeOK
  <2>3. CASE Resume
    BY <2>3 DEF TypeOK
  <2> QED BY <2>1, <2>2, <2>3
<1>2. Paired' /\ StepInvariant'
  BY MemorySame
<1>3. RegisterInvariant'
  BY DEF RegisterInvariant, AtRest, SetUp
<1> QED BY <1>1, <1>2, <1>3

LEMMA HandlerStep ==
    ASSUME Inv, Handler
    PROVE  Inv'
<1> USE DEF Inv, Handler, IrqBegin, IrqCallback, IrqClear, memory, ctl
<1>1. TypeOK'
  <2>1. CASE IrqBegin
    BY <2>1 DEF TypeOK
  <2>2. CASE IrqCallback
    BY <2>2 DEF TypeOK
  <2>3. CASE IrqClear
    <3>1. bcis' \in BOOLEAN /\ irq' \in {"idle", "callback", "clear"}
      BY <2>3
    <3>2. UNCHANGED <<memory, callback, pc, at, ctl, rst, rstReq, up>>
      BY <2>3
    <3> HIDE DEF Handler, IrqBegin, IrqCallback, IrqClear
    <3> QED BY <3>1, <3>2 DEF TypeOK
  <2> QED BY <2>1, <2>2, <2>3
<1>2. Paired' /\ StepInvariant'
  BY MemorySame
<1>3. RegisterInvariant'
  BY DEF RegisterInvariant, AtRest, SetUp, TypeOK
<1> QED BY <1>1, <1>2, <1>3

LEMMA HardwareStep ==
    ASSUME Inv, Hardware
    PROVE  Inv'
<1> USE DEF Inv, Hardware, Complete, Reset, memory, ctl
<1>1. TypeOK'
  <2>1. CASE Complete
    BY <2>1 DEF TypeOK
  <2>2. CASE Reset
    <3>1. rst' \in BOOLEAN /\ bcis' \in BOOLEAN
      BY <2>2 DEF TypeOK
    <3>2. bdpl' \in Addr \cup {Null}
      BY <2>2 DEF TypeOK
    <3>3. UNCHANGED <<memory, callback, pc, at, run, ioce, rstReq, irq, up>>
      BY <2>2
    <3> HIDE DEF Hardware, Complete, Reset
    <3> QED BY <3>1, <3>2, <3>3 DEF TypeOK
  <2> QED BY <2>1, <2>2
<1>2. Paired' /\ StepInvariant'
  BY MemorySame
<1>3. RegisterInvariant'
  BY DEF RegisterInvariant, AtRest, SetUp, TypeOK
<1> QED BY <1>1, <1>2, <1>3

LEMMA StutterStep ==
    ASSUME Inv, UNCHANGED vars
    PROVE  Inv'
<1> USE DEF Inv, vars, memory, ctl
<1>1. TypeOK'
  BY DEF TypeOK
<1>2. Paired' /\ StepInvariant'
  BY MemorySame
<1>3. RegisterInvariant'
  BY DEF RegisterInvariant, AtRest, SetUp
<1> QED BY <1>1, <1>2, <1>3

(* The inductive invariant. *)
LEMMA StepInv == Inv /\ [Next]_vars => Inv'
<1> SUFFICES ASSUME Inv, [Next]_vars PROVE Inv'
  OBVIOUS
<1>1. CASE Calls
  BY <1>1, SetupStep, ShutdownStep, CallStep DEF Calls
<1>2. CASE SetupSteps
  BY <1>2, GetStep, GetFailsStep, FillStep, ProgramStep DEF SetupSteps
<1>3. CASE DestroySteps
  BY <1>3, PutStep, ResetCallStep DEF DestroySteps
<1>4. CASE Handler
  BY <1>4, HandlerStep
<1>5. CASE Hardware
  BY <1>5, HardwareStep
<1>6. CASE UNCHANGED vars
  BY <1>6, StutterStep
<1> QED BY <1>1, <1>2, <1>3, <1>4, <1>5, <1>6 DEF Next

(* Every state of the stream satisfies its inductive invariant.              *)
THEOREM InvHolds == Spec => []Inv
  BY InitInv, StepInv, PTL DEF Spec

(* Whichever step of UhdaStream::setup fails, the kernel gets everything     *)
(* back, once.                                                               *)
THEOREM LedgerHolds == Spec => []Ledger
<1>1. Inv => Ledger
  BY DEF Inv, Paired, StepInvariant, Has, Ledger
<1> QED BY <1>1, InvHolds, PTL

(* A running stream reads only memory that is allocated, if its client shuts *)
(* it down before a suspend.                                                 *)
THEOREM DmaSafeHolds ==
    ASSUME ~SuspendSetUp
    PROVE  Spec => []DmaSafe
<1>1. Inv => DmaSafe
  <2> SUFFICES ASSUME Inv, run PROVE bdpl \in held["phys"] /\ entries[bdpl] \in held["chunks"]
    BY DEF DmaSafe
  <2> USE DEF Inv
  <2>1. pc = "idle" /\ SetUp
    BY DEF RegisterInvariant, AtRest, TypeOK
  <2>2. bdpl = ptr["phys"] /\ entries[bdpl] = ptr["chunks"]
    BY <2>1 DEF RegisterInvariant
  <2>3. ptr["phys"] # Null /\ ptr["chunks"] # Null
    BY <2>1 DEF StepInvariant, Has, SetUp
  <2> QED BY <2>2, <2>3 DEF Paired
<1> QED BY <1>1, InvHolds, PTL

(* hda_irq calls output_irq, which calls the callback, only from the end of  *)
(* a stream's setup until its shutdown resets it, and the callback is set.   *)
THEOREM CallbackSafeHolds == Spec => CallbackSafe
<1>1. Inv /\ [Next]_vars =>
        (irq = "idle" /\ irq' = "callback" =>
           callback /\ ((pc = "idle" /\ SetUp) \/ pc \in {"put", "enterReset"}))
  <2> SUFFICES ASSUME Inv, [Next]_vars, irq = "idle", irq' = "callback"
               PROVE  callback /\ ((pc = "idle" /\ SetUp) \/ pc \in {"put", "enterReset"})
    OBVIOUS
  <2>1. IrqBegin
    BY DEF Next, Calls, SetupSteps, DestroySteps, Handler, Hardware, Setup, Shutdown, Play,
           Suspend, Resume, Get, GetFails, Fill, FillMisaligned, Program, Put, EnterReset,
           InReset, LeaveReset, IrqCallback, IrqClear, Complete, Reset, vars
  <2>2. ioce
    BY <2>1 DEF IrqBegin
  <2>3. pc \in {"idle", "get", "fill", "program"} \cup Destroying
    BY DEF Inv, TypeOK
  <2> QED BY <2>2, <2>3 DEF Inv, RegisterInvariant, AtRest
<1> QED BY <1>1, InvHolds, PTL DEF Spec, CallbackSafe

(* UhdaStream::setup finds the stream as destroy leaves it: nothing of an    *)
(* earlier use is left in the hardware.                                      *)
THEOREM CleanStartHolds == Spec => []CleanStart
<1>1. Inv => CleanStart
  BY DEF Inv, RegisterInvariant, AtRest, CleanStart
<1> QED BY <1>1, InvHolds, PTL
=============================================================================
