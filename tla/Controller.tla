----------------------------- MODULE Controller -----------------------------
(***************************************************************************)
(* The life of a controller instance (controller.cpp and the first part of *)
(* uhda.cpp): what uhda_init acquires from the kernel, with a failure at   *)
(* each step; suspend and resume, which reset the hardware and wait for it *)
(* with a limit; the bring-up of the rings and the enumeration of the      *)
(* codecs; uhda_destroy and the destructor, which give everything back.    *)
(*                                                                         *)
(* The client calls from one thread, and after a failed or successful      *)
(* suspend only resumes or destroys the instance.                          *)
(***************************************************************************)
EXTENDS Integers, Sequences, FiniteSets

CONSTANTS Codecs,      \* the codecs on the link, by their address in STATESTS
          Dead,        \* those of them that do not answer verbs
          MaxCodecs,   \* bound on the length of UhdaController::codecs
          MaxLost      \* bound on the number of failed codecs.push()

ASSUME CodecsAssumption == Codecs \subseteq 0 .. 14 /\ Dead \subseteq Codecs
ASSUME BoundsAssumption == MaxCodecs \in Nat /\ MaxLost \in Nat

\* What init() goes through before resume(). The first three come before the
\* irq is allocated, the others after it; "pci" and "vendor" acquire nothing.
Early == {"pci", "bar", "vendor", "irq"}
Late == {"corb", "rirb", "dpl", "mapCorb", "mapRirb", "mapDpl", "lock"}
Resource == (Early \cup Late) \ {"pci", "vendor"}
After == [pci |-> "bar", bar |-> "vendor", vendor |-> "irq", irq |-> "corb",
          corb |-> "rirb", rirb |-> "dpl", dpl |-> "mapCorb",
          mapCorb |-> "mapRirb", mapRirb |-> "mapDpl", mapDpl |-> "lock"]

\* What accesses memory on its own: the rings, the position buffer, streams.
Engine == {"corb", "rirb", "dpl", "stream"}

VARIABLES pc,         \* the step of the API call, or the state between calls
          call,       \* the API call: "init", "suspend", "resume", "destroy"
          step,       \* init(): the resource to acquire next
          status,     \* the status of the call, as far as it has got
          held,       \* the resources the instance has
          irqOn,      \* the device's irq is enabled: the one the instance has,
                      \* or one that was given back without being disabled
          crst, crstReq,  \* GCTL.CRST: as the hardware reports it, as written
          engines,    \* the engines that run
          freed,      \* ... with addresses of memory that has been given back
          todo,       \* resume(): the bits of STATESTS still to be looked at
          desync,     \* a verb was not answered since the last reset (VerbRing)
          codecs,     \* UhdaController::codecs, by address
          objects,    \* the number of UhdaCodec objects not freed
          lost        \* the number of those that were never pushed

hw == <<irqOn, crst, crstReq, engines, freed, desync>>
list == <<codecs, objects, lost>>
vars == <<pc, call, step, status, held, hw, todo, list>>

Init == /\ pc = "none" /\ call = "none" /\ step = "pci" /\ status = "SUCCESS"
        /\ held = {} /\ irqOn = FALSE
        /\ crst = FALSE /\ crstReq = FALSE /\ engines = {} /\ freed = FALSE
        /\ todo = {} /\ desync = FALSE
        /\ codecs = <<>> /\ objects = 0 /\ lost = 0
-----------------------------------------------------------------------------
(* uhda_init and UhdaController::init *)

\* Without memory for the controller object the call changes nothing.
UhdaInit == /\ pc = "none"
            /\ pc' = "init" /\ call' = "init" /\ step' = "pci" /\ status' = "SUCCESS"
            /\ UNCHANGED <<held, hw, todo, list>>

InitStep == /\ pc = "init"
            /\ held' = held \cup ({step} \cap Resource)
            /\ \/ step # "lock" /\ step' = After[step] /\ UNCHANGED pc
               \/ step = "lock" /\ pc' = "resume" /\ UNCHANGED step
            /\ irqOn' = (irqOn /\ step # "irq")   \* a new irq is not enabled
            /\ UNCHANGED <<call, status, crst, crstReq, engines, freed, desync, todo, list>>

InitStepFails == /\ pc = "init" /\ status' = "ERROR"
                 /\ \/ step \in Early /\ pc' = "destruct"
                    \/ step \in Late /\ pc' = "initFail"
                 /\ UNCHANGED <<call, step, held, hw, todo, list>>

\* fail: the irq is given back; uhda_init runs the destructor.
InitFail == /\ pc = "initFail" /\ pc' = "destruct"
            /\ held' = held \ {"irq"}
            /\ UNCHANGED <<call, step, status, hw, todo, list>>
-----------------------------------------------------------------------------
(* UhdaController::suspend *)

\* Where suspend() and resume() return to.
Return(st) ==
    /\ status' = st
    /\ pc' = CASE call = "init" -> IF st = "SUCCESS" THEN "up" ELSE "initFail"
               [] call = "resume" -> IF st = "SUCCESS" THEN "up" ELSE "down"
               [] call = "suspend" -> "down"
               [] call = "destroy" -> "deallocate"

\* The irq is disabled. Out of reset, the rings and the streams are stopped and
\* reset is requested.
Suspend ==
    /\ pc = "suspend" /\ crst
    /\ irqOn' = FALSE
    /\ engines' = engines \ {"corb", "rirb", "stream"}
    /\ crstReq' = FALSE
    /\ pc' = "waitReset"
    /\ UNCHANGED <<call, step, status, held, crst, todo, freed, desync, list>>

\* What follows suspend(): its caller's return, or the rest of resume().
AfterSuspend == IF call \in {"init", "resume"}
                THEN pc' = "start" /\ UNCHANGED status
                ELSE Return("SUCCESS")

SuspendInReset == /\ pc = "suspend" /\ ~crst
                  /\ irqOn' = FALSE
                  /\ AfterSuspend
                  /\ UNCHANGED <<call, step, held, crst, crstReq, engines, todo, freed, desync, list>>

ResetUnseen == /\ pc = "waitReset"
               /\ AfterSuspend
               /\ UNCHANGED <<call, step, held, hw, todo, list>>
ResetSeen == /\ pc = "waitReset" /\ ~crst
             /\ AfterSuspend
             /\ UNCHANGED <<call, step, held, hw, todo, list>>

\* 10000 polls with 200 us between them run out.
ResetTimeoutUnreported ==
                /\ pc = "waitReset" /\ crst
                /\ irqOn' = FALSE
                /\ Return("SUCCESS")
                /\ UNCHANGED <<call, step, held, crst, crstReq, engines, todo, freed, desync, list>>
ResetNoTimeout == pc = "waitReset" /\ FALSE
ResetTimeout == /\ pc = "waitReset" /\ crst
                /\ irqOn' = FALSE
                /\ Return("TIMEOUT")
                /\ UNCHANGED <<call, step, held, crst, crstReq, engines, todo, freed, desync, list>>
-----------------------------------------------------------------------------
(* UhdaController::resume *)

\* pci_setup, which may fail, then suspend().
ResumePci == /\ pc = "resume"
             /\ \/ pc' = "suspend" /\ UNCHANGED status
                \/ Return("ERROR")
             /\ UNCHANGED <<call, step, held, hw, todo, list>>

\* The irq is enabled and the end of reset requested.
Start == /\ pc = "start" /\ pc' = "waitUp"
         /\ irqOn' = TRUE /\ crstReq' = TRUE
         /\ UNCHANGED <<call, step, status, held, crst, engines, todo, freed, desync, list>>

StartTimeoutKeepIrq ==
                /\ pc = "waitUp" /\ ~crst
                /\ Return("TIMEOUT")
                /\ UNCHANGED <<call, step, held, hw, todo, list>>
StartTimeout == /\ pc = "waitUp" /\ ~crst
                /\ irqOn' = FALSE
                /\ Return("TIMEOUT")
                /\ UNCHANGED <<call, step, held, crst, crstReq, engines, todo, freed, desync, list>>

\* GCAP may say that the controller lacks 64-bit addresses.
Unsupported == /\ pc = "waitUp" /\ crst
               /\ irqOn' = FALSE
               /\ Return("UNSUPPORTED")
               /\ UNCHANGED <<call, step, held, crst, crstReq, engines, todo, freed, desync, list>>

\* The sizes and bases of the rings are written, their engines started, the
\* position buffer enabled, the streams bound, interrupts enabled and STATESTS
\* read.
BringUpFromOne == /\ pc = "waitUp" /\ crst
           /\ engines' = engines \cup {"corb", "rirb", "dpl"}
           /\ todo' = Codecs \ {0}
           /\ pc' = "codecs"
           /\ UNCHANGED <<call, step, status, held, irqOn, crst, crstReq, freed, desync, list>>
BringUp == /\ pc = "waitUp" /\ crst
           /\ engines' = engines \cup {"corb", "rirb", "dpl"}
           /\ todo' = Codecs
           /\ pc' = "codecs"
           /\ UNCHANGED <<call, step, status, held, irqOn, crst, crstReq, freed, desync, list>>

\* The codecs are looked at in the order of their addresses.
Turn == CHOOSE c \in todo : \A d \in todo : c <= d

\* The lowest codec does not answer, or an earlier one never did: TIMEOUT.
CodecTimeoutFreesTwice ==
                /\ pc = "codecs" /\ todo # {}
                /\ (Turn \in Dead \/ desync)
                /\ desync' = TRUE
                /\ todo' = todo \ {Turn}
                /\ objects' = objects - 1
                /\ UNCHANGED <<pc, call, step, status, held, irqOn, crst, crstReq, engines,
                               freed, codecs, lost>>
CodecTimeout == /\ pc = "codecs" /\ todo # {}
                /\ (Turn \in Dead \/ desync)
                /\ desync' = TRUE
                /\ todo' = todo \ {Turn}
                /\ UNCHANGED <<pc, call, step, status, held, irqOn, crst, crstReq, engines, freed, list>>

\* No memory for the codec, or its init() fails otherwise and it is freed.
CodecError == /\ pc = "codecs" /\ todo # {}
              /\ todo' = {}
              /\ Return("ERROR")
              /\ UNCHANGED <<call, step, held, hw, list>>

CodecFound == /\ pc = "codecs" /\ todo # {}
              /\ Turn \notin Dead /\ ~desync
              /\ codecs' = Append(codecs, Turn) /\ objects' = objects + 1
              /\ todo' = todo \ {Turn}
              /\ UNCHANGED <<pc, call, step, status, held, hw, lost>>

\* codecs.push finds no memory: the codec is neither listed nor freed.
PushFails == /\ pc = "codecs" /\ todo # {} /\ lost < MaxLost
             /\ Turn \notin Dead /\ ~desync
             /\ objects' = objects + 1 /\ lost' = lost + 1
             /\ todo' = {}
             /\ Return("ERROR")
             /\ UNCHANGED <<call, step, held, hw, codecs>>

CodecsDone == /\ pc = "codecs" /\ todo = {}
              /\ Return("SUCCESS")
              /\ UNCHANGED <<call, step, held, hw, todo, list>>
-----------------------------------------------------------------------------
(* The other calls of the client *)

UhdaSuspend == /\ pc = "up"
               /\ pc' = "suspend" /\ call' = "suspend" /\ status' = "SUCCESS"
               /\ UNCHANGED <<step, held, hw, todo, list>>

\* MaxCodecs bounds the codecs that repeated resumes add.
UhdaResume == /\ pc = "down" /\ Len(codecs) + Cardinality(Codecs) <= MaxCodecs
              /\ pc' = "resume" /\ call' = "resume" /\ status' = "SUCCESS"
              /\ UNCHANGED <<step, held, hw, todo, list>>

UhdaDestroy == /\ pc \in {"up", "down"}
               /\ pc' = "suspend" /\ call' = "destroy" /\ status' = "SUCCESS"
               /\ UNCHANGED <<step, held, hw, todo, list>>

\* uhda_stream_play on a stream that is set up.
Play(b) == /\ pc = "up"
           /\ engines' = IF b THEN engines \cup {"stream"} ELSE engines \ {"stream"}
           /\ UNCHANGED <<pc, call, step, status, held, irqOn, crst, crstReq, todo, freed, desync, list>>

\* UhdaController::destroy, whatever suspend() returned.
Deallocate == /\ pc = "deallocate" /\ pc' = "destruct"
              /\ held' = held \ {"irq"}
              /\ UNCHANGED <<call, step, status, hw, todo, list>>
-----------------------------------------------------------------------------
(* UhdaController::~UhdaController, and uhda_kernel_free of the object *)

\* The listed codecs are freed, then every resource. The irq that the destructor
\* first disables has been given back by then, or there never was one: the call
\* does nothing.
DestructKeepCodecs ==
            /\ pc = "destruct" /\ pc' = "members"
            /\ codecs' = <<>> /\ UNCHANGED objects
            /\ held' = held \cap {"irq"} /\ freed' = (freed \/ engines # {})
            /\ UNCHANGED <<call, step, status, irqOn, crst, crstReq, engines, todo, desync, lost>>
Destruct == /\ pc = "destruct" /\ pc' = "members"
            /\ codecs' = <<>> /\ objects' = objects - Len(codecs)
            /\ held' = held \cap {"irq"} /\ freed' = (freed \/ engines # {})
            /\ UNCHANGED <<call, step, status, irqOn, crst, crstReq, engines, todo, desync, lost>>

\* The destructors of the members reset all the streams through registers that
\* are no longer mapped, or never were, and write to null dma_pos pointers.
\* That is undefined: the accesses go unnoticed, or the system stops.
DestructMembers == /\ pc = "members" /\ pc' \in {"none", "fault"}
                   /\ UNCHANGED <<call, step, status, held, hw, todo, list>>
-----------------------------------------------------------------------------
(* The hardware (external) *)

\* Reset is entered, which stops everything and empties the rings, or left.
EnterReset == /\ crst /\ ~crstReq /\ crst' = FALSE
              /\ engines' = {} /\ freed' = FALSE /\ desync' = FALSE
              /\ UNCHANGED <<pc, call, step, status, held, irqOn, crstReq, todo, list>>

LeaveReset == /\ ~crst /\ crstReq /\ crst' = TRUE
              /\ UNCHANGED <<pc, call, step, status, held, irqOn, crstReq, engines, todo, freed, desync, list>>
\* The system sleeps after uhda_suspend, whatever that returned.
PowerLost == /\ pc = "down"
             /\ crst' = FALSE /\ crstReq' = FALSE /\ engines' = {} /\ freed' = FALSE /\ desync' = FALSE
             /\ UNCHANGED <<pc, call, step, status, held, irqOn, todo, list>>
-----------------------------------------------------------------------------
Bringing == InitStep \/ InitStepFails \/ InitFail \/ ResumePci \/ Start \/ StartTimeout
            \/ Unsupported \/ BringUp \/ CodecTimeout \/ CodecError \/ CodecFound
            \/ PushFails \/ CodecsDone
Stopping == Suspend \/ SuspendInReset \/ ResetSeen \/ ResetTimeout \/ Deallocate
            \/ Destruct \/ DestructMembers
Client == UhdaInit \/ UhdaSuspend \/ UhdaResume \/ UhdaDestroy \/ \E b \in BOOLEAN : Play(b)
Hardware == EnterReset \/ LeaveReset \/ PowerLost

Next == Client \/ Bringing \/ Stopping \/ Hardware

Spec == Init /\ [][Next]_vars

\* Calls go on; the hardware need not ever acknowledge a reset.
FairSpec == Spec /\ WF_vars(Bringing) /\ WF_vars(Stopping)
-----------------------------------------------------------------------------
(* Properties *)

\* The steps are the ones of the code; what the instance counts as its codec
\* objects is never negative: none is freed twice.
TypeOK ==
    /\ pc \in {"none", "init", "initFail", "suspend", "waitReset", "resume", "start",
              "waitUp", "codecs", "up", "down", "deallocate", "destruct", "members",
              "fault"}
    /\ call \in {"none", "init", "suspend", "resume", "destroy"}
    /\ step \in Early \cup Late
    /\ status \in {"SUCCESS", "ERROR", "TIMEOUT", "UNSUPPORTED"}
    /\ held \subseteq Resource /\ irqOn \in BOOLEAN
    /\ crst \in BOOLEAN /\ crstReq \in BOOLEAN /\ desync \in BOOLEAN
    /\ engines \subseteq Engine /\ freed \in BOOLEAN
    /\ todo \subseteq Codecs
    /\ codecs \in Seq(Codecs) /\ objects \in Nat /\ lost \in 0 .. MaxLost

\* Whatever failed and whenever, an instance that is gone holds nothing of the
\* kernel's but the codec objects that were never listed.
NoLeak == pc = "none" => held = {} /\ codecs = <<>> /\ objects = lost

\* When the controller is brought up, nothing runs with addresses of memory of
\* an earlier instance, however that one ended; and as long as the instance can
\* be used, the rings and the position buffer that are in use are there: across
\* suspends that time out and resumes that fail.
DmaHeld == pc \in {"start", "waitUp", "codecs", "up", "down"} =>
    ~freed /\ engines \ {"stream"} \subseteq held

\* hda_irq can only be called while the instance has the irq and the registers
\* are mapped. The exception is an init() that failed among the codecs, with the
\* rings running: it leaves the irq enabled (IrqDisabledFirst). A reset or a start
\* that times out, an unsupported controller, a failed resume, a destruction
\* never do.
Rings == {"corb", "rirb", "dpl"}
EnumerationFailed == call = "init" /\ "irq" \notin held /\ Rings \subseteq engines
HandlerSafe == irqOn => {"irq", "bar"} \subseteq held \/ EnumerationFailed

\* Once uhda_destroy has returned success the hardware is at rest and will not
\* touch the memory given back, nor interrupt.
QuietWhenDestroyed == pc = "none" /\ call = "destroy" /\ status = "SUCCESS" =>
    engines = {} /\ ~freed /\ ~irqOn

Listed == {codecs[i] : i \in 1 .. Len(codecs)}

\* A controller that came up lists only codecs that answer, and all those whose
\* turn comes before the first one that does not; also after any suspends and
\* resumes, and failures of these. Nothing is said of the codecs after that one:
\* resume() goes on to them, but the verb without an answer has left the rings out
\* of step (VerbRing), so that none of them is found.
ListedAnswer == pc = "up" =>
    /\ Listed \cap Dead = {}
    /\ \A c \in Codecs : (\A d \in Dead : c < d) => c \in Listed

\* Every call returns, though the hardware may never acknowledge a reset.
CallsReturn == pc \notin {"none", "up", "down", "fault"} ~> pc \in {"none", "up", "down", "fault"}

\* kernel_api.h: the irq is deallocated only after it has been disabled.
IrqDisabledFirst == [][ "irq" \in held /\ "irq" \notin held' => ~irqOn ]_vars

\* uhda.h: resume may be called again; the codecs are those attached.
CodecsOnce == \A i, j \in 1 .. Len(codecs) : codecs[i] = codecs[j] => i = j

\* uhda.h: an instance can be destroyed, and initialized again.
DestroyReturns == call = "destroy" => pc # "fault"
=============================================================================
