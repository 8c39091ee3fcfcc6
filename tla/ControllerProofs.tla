-------------------------- MODULE ControllerProofs --------------------------
(***************************************************************************)
(* Proofs about the life of a controller instance, for every set of codecs *)
(* and every bound: what an instance holds at each step of its calls, that *)
(* nothing leaks, and what the engines of the hardware may still do.       *)
(***************************************************************************)
EXTENDS Controller, SequenceTheorems, WellFoundedInduction, TLAPS

\* What init() has acquired when it comes to a step.
Before == [pci |-> {}, bar |-> {}, vendor |-> {"bar"}, irq |-> {"bar"},
           corb |-> {"bar", "irq"}, rirb |-> {"bar", "irq", "corb"},
           dpl |-> {"bar", "irq", "corb", "rirb"},
           mapCorb |-> {"bar", "irq", "corb", "rirb", "dpl"},
           mapRirb |-> {"bar", "irq", "corb", "rirb", "dpl", "mapCorb"},
           mapDpl |-> {"bar", "irq", "corb", "rirb", "dpl", "mapCorb", "mapRirb"},
           lock |-> {"bar", "irq", "corb", "rirb", "dpl", "mapCorb", "mapRirb", "mapDpl"}]

\* The call that each step belongs to.
CallInvariant ==
    /\ pc \in {"init", "initFail"} => call = "init"
    /\ pc \in {"resume", "start", "waitUp", "codecs"} => call \in {"init", "resume"}
    /\ pc \in {"suspend", "waitReset"} => call # "none"
    /\ pc = "deallocate" => call = "destroy"

\* What is held at each step, and the codec objects.
HeldInvariant ==
    /\ pc = "init" => held = Before[step]
    /\ pc \in {"suspend", "waitReset", "resume", "start", "waitUp", "codecs", "up", "down",
               "deallocate"} => held = Resource
    /\ pc = "destruct" => "irq" \notin held
    /\ pc \in {"none", "members", "fault"} => held = {} /\ codecs = <<>>
    /\ "irq" \in held => "bar" \in held
    /\ objects = Len(codecs) + lost

\* The irq is disabled outside of a controller's use, except where an init() has
\* failed among the codecs and left it enabled.
IrqInvariant ==
    /\ pc \in {"init", "resume"} /\ call = "init" /\ "irq" \in held => ~irqOn
    /\ pc \in {"waitReset", "start", "deallocate"} => ~irqOn
    /\ pc = "codecs" => Rings \subseteq engines
    /\ irqOn /\ (pc = "initFail" \/ "irq" \notin held) =>
         call = "init" /\ crst /\ crstReq /\ Rings \subseteq engines

\* In reset nothing runs; a controller that is used has come out of it, and no
\* engine of an instance before has outlived the reset.
ResetInvariant ==
    /\ ~crst => engines = {} /\ ~freed /\ ~desync
    /\ pc \in {"waitUp", "codecs", "up"} => crstReq
    /\ pc \in {"codecs", "up"} => crst
    /\ pc \in {"start", "waitUp"} => ~desync
    /\ \/ pc \in {"start", "waitUp", "codecs", "up", "down"}
       \/ pc \in {"resume", "suspend", "waitReset"} /\ call # "init"
       => ~freed
    /\ /\ pc \in {"deallocate", "destruct", "members", "none", "fault"}
       /\ call = "destroy" /\ status = "SUCCESS"
       => engines = {} /\ ~freed

Answering(c) == \A d \in Dead : c < d

\* The codecs that have been looked at are the lower ones; those that answer and
\* come before the first dead one are listed, and no others.
EnumerationInvariant ==
    /\ \A c \in Listed : Answering(c)
    /\ pc = "up" => \A c \in Codecs : Answering(c) => c \in Listed
    /\ pc = "codecs" =>
         /\ \A c \in Codecs \ todo, t \in todo : c < t
         /\ \A c \in Codecs \ todo : Answering(c) => c \in Listed
         /\ desync => Dead \ todo # {}
         /\ ~desync => Dead \subseteq todo

Inv == /\ TypeOK /\ CallInvariant /\ HeldInvariant /\ IrqInvariant
       /\ ResetInvariant /\ EnumerationInvariant
-----------------------------------------------------------------------------
(* The steps of init(), the callers of suspend() and resume(), the codec whose *)
(* turn it is.                                                               *)

\* Going on to the next resource of init() acquires the present one.
LEMMA AfterFacts ==
    ASSUME NEW s \in Early \cup Late, s # "lock"
    PROVE  After[s] \in Early \cup Late /\ Before[After[s]] = Before[s] \cup ({s} \cap Resource)
<1> USE DEF After, Before, Resource, Early, Late
<1>1. CASE s \in Early
  <2>1. CASE s = "pci"    BY <2>1
  <2>2. CASE s = "bar"    BY <2>2
  <2>3. CASE s = "vendor" BY <2>3
  <2>4. CASE s = "irq"    BY <2>4
  <2> QED BY <1>1, <2>1, <2>2, <2>3, <2>4
<1>2. CASE s \in Late
  <2>1. CASE s = "corb"    BY <2>1
  <2>2. CASE s = "rirb"    BY <2>2
  <2>3. CASE s = "dpl"     BY <2>3
  <2>4. CASE s = "mapCorb" BY <2>4
  <2>5. CASE s = "mapRirb" BY <2>5
  <2>6. CASE s = "mapDpl"  BY <2>6
  <2> QED BY <1>2, <2>1, <2>2, <2>3, <2>4, <2>5, <2>6
<1> QED BY <1>1, <1>2

\* The last step of init() completes the resources; the early steps come before
\* the irq.
LEMMA BeforeFacts ==
    /\ Before["pci"] = {} /\ Before["lock"] \cup ({"lock"} \cap Resource) = Resource
    /\ \A s \in Early : "irq" \notin Before[s]
    /\ Before["irq"] = {"bar"} /\ {"irq", "bar"} \subseteq Resource
BY DEF Before, Resource, Early, Late

\* Where a call that ends in suspend() or resume() goes on.
LEMMA ReturnFacts ==
    ASSUME call \in {"init", "suspend", "resume", "destroy"}, NEW st, Return(st)
    PROVE  /\ status' = st
           /\ call = "init" => pc' = IF st = "SUCCESS" THEN "up" ELSE "initFail"
           /\ call = "resume" => pc' = IF st = "SUCCESS" THEN "up" ELSE "down"
           /\ call = "suspend" => pc' = "down"
           /\ call = "destroy" => pc' = "deallocate"
BY DEF Return

\* After suspend() inside resume() the bring-up starts, otherwise the call returns.
LEMMA AfterSuspendFacts ==
    ASSUME call \in {"init", "suspend", "resume", "destroy"}, AfterSuspend
    PROVE  /\ call \in {"init", "resume"} => pc' = "start" /\ status' = status
           /\ call = "suspend" => pc' = "down" /\ status' = "SUCCESS"
           /\ call = "destroy" => pc' = "deallocate" /\ status' = "SUCCESS"
BY DEF AfterSuspend, Return

\* The codecs that are left have a lowest one, whose turn it is.
LEMMA TurnFacts ==
    ASSUME TypeOK, todo # {}
    PROVE  Turn \in todo /\ \A d \in todo : Turn <= d
<1>1. todo \subseteq Nat
  BY CodecsAssumption DEF TypeOK
<1>2. PICK c \in todo : \A d \in todo : ~ (<<d, c>> \in OpToRel(<, Nat))
  BY <1>1, NatLessThanWellFounded, WFMin
<1>3. \A d \in todo : c <= d
  <2> TAKE d \in todo
  <2>1. ~ (d < c)
    BY <1>1, <1>2 DEF OpToRel
  <2> QED BY <1>1, <2>1
<1> QED BY <1>3 DEF Turn

\* What is listed after a push.
LEMMA ListedAppend ==
    ASSUME TypeOK, NEW c \in Codecs, codecs' = Append(codecs, c)
    PROVE  codecs' \in Seq(Codecs) /\ Len(codecs') = Len(codecs) + 1 /\ Listed' = Listed \cup {c}
<1>1. /\ Append(codecs, c) \in Seq(Codecs) /\ Len(Append(codecs, c)) = Len(codecs) + 1
      /\ \A i \in 1 .. Len(codecs) : Append(codecs, c)[i] = codecs[i]
      /\ Append(codecs, c)[Len(codecs) + 1] = c
  BY AppendProperties DEF TypeOK
<1>2. Len(codecs) \in Nat
  BY DEF TypeOK
<1>3. 1 .. Len(codecs') = (1 .. Len(codecs)) \cup {Len(codecs) + 1}
  BY <1>1, <1>2
<1>4. Len(codecs) + 1 \notin 1 .. Len(codecs)
  BY <1>2
<1>5. Listed' = {codecs'[i] : i \in 1 .. Len(codecs')}
  BY DEF Listed
<1>6. \A x : x \in Listed' <=> x \in Listed \cup {c}
  BY <1>1, <1>3, <1>5 DEF Listed
<1> QED BY <1>1, <1>6

\* A step that leaves the list alone and does not enter or take part in the
\* enumeration keeps its invariant.
LEMMA ListKept ==
    ASSUME EnumerationInvariant, UNCHANGED codecs, pc' \notin {"up", "codecs"}
    PROVE  EnumerationInvariant'
BY DEF EnumerationInvariant, Listed, Answering
-----------------------------------------------------------------------------
(* Initialisation *)

LEMMA UhdaInitKept ==
    ASSUME Inv, UhdaInit
    PROVE  Inv'
<1> USE DEF Inv, UhdaInit, hw, list
<1>1. TypeOK'
  BY DEF TypeOK, Early
<1>2. CallInvariant'
  BY DEF CallInvariant, TypeOK
<1>3. HeldInvariant'
  BY BeforeFacts DEF HeldInvariant, TypeOK
<1>4. ResetInvariant'
  BY DEF ResetInvariant, HeldInvariant, CallInvariant, TypeOK
<1>5. EnumerationInvariant'
  BY ListKept
<1>6. IrqInvariant'
  BY DEF IrqInvariant, ResetInvariant, HeldInvariant, CallInvariant, TypeOK, Rings
<1> QED BY <1>1, <1>2, <1>3, <1>4, <1>5, <1>6

LEMMA InitStepKept ==
    ASSUME Inv, InitStep
    PROVE  Inv'
<1> USE DEF Inv, InitStep, hw, list
<1>0. step \in Early \cup Late /\ (step # "lock" =>
        After[step] \in Early \cup Late /\ Before[After[step]] = Before[step] \cup ({step} \cap Resource))
  BY AfterFacts DEF TypeOK
<1>1. TypeOK'
  BY <1>0 DEF TypeOK
<1>2. CallInvariant'
  BY DEF CallInvariant, TypeOK
<1>3. HeldInvariant'
  BY <1>0, BeforeFacts DEF HeldInvariant, TypeOK
<1>4. ResetInvariant'
  BY DEF ResetInvariant, HeldInvariant, CallInvariant, TypeOK
<1>5. EnumerationInvariant'
  BY ListKept
<1>6. IrqInvariant'
  BY DEF IrqInvariant, ResetInvariant, HeldInvariant, CallInvariant, TypeOK, Rings
<1> QED BY <1>1, <1>2, <1>3, <1>4, <1>5, <1>6

LEMMA InitFailKept ==
    ASSUME Inv, InitStepFails \/ InitFail
    PROVE  Inv'
<1> USE DEF Inv, InitStepFails, InitFail, hw, list
<1>1. TypeOK'
  BY DEF TypeOK
<1>2. CallInvariant'
  BY DEF CallInvariant, TypeOK
<1>3. HeldInvariant'
  BY BeforeFacts DEF HeldInvariant, TypeOK
<1>4. ResetInvariant'
  BY DEF ResetInvariant, HeldInvariant, CallInvariant, TypeOK
<1>5. EnumerationInvariant'
  BY ListKept
<1>6. IrqInvariant'
  BY DEF IrqInvariant, ResetInvariant, HeldInvariant, CallInvariant, TypeOK, Rings
<1> QED BY <1>1, <1>2, <1>3, <1>4, <1>5, <1>6
-----------------------------------------------------------------------------
(* suspend() *)

LEMMA SuspendKept ==
    ASSUME Inv, Suspend
    PROVE  Inv'
<1> USE DEF Inv, Suspend, hw, list
<1>1. TypeOK'
  BY DEF TypeOK
<1>2. CallInvariant'
  BY DEF CallInvariant, TypeOK
<1>3. HeldInvariant'
  BY DEF HeldInvariant, TypeOK
<1>4. ResetInvariant'
  BY DEF ResetInvariant, HeldInvariant, CallInvariant, TypeOK
<1>5. EnumerationInvariant'
  BY ListKept
<1>6. IrqInvariant'
  BY DEF IrqInvariant, ResetInvariant, HeldInvariant, CallInvariant, TypeOK, Rings
<1> QED BY <1>1, <1>2, <1>3, <1>4, <1>5, <1>6

LEMMA SuspendReturnKept ==
    ASSUME Inv, SuspendInReset \/ ResetSeen
    PROVE  Inv'
<1> USE DEF Inv, SuspendInReset, ResetSeen, hw, list
<1>0. call \in {"init", "suspend", "resume", "destroy"}
  BY DEF TypeOK, CallInvariant
<1>1. TypeOK'
  BY <1>0, AfterSuspendFacts DEF TypeOK
<1>2. CallInvariant'
  BY <1>0, AfterSuspendFacts DEF CallInvariant, TypeOK
<1>3. HeldInvariant'
  BY <1>0, AfterSuspendFacts DEF HeldInvariant, TypeOK
<1>4. ResetInvariant'
  BY <1>0, AfterSuspendFacts DEF ResetInvariant, HeldInvariant, CallInvariant, TypeOK
<1>5. EnumerationInvariant'
  BY <1>0, AfterSuspendFacts, ListKept
<1>6. IrqInvariant'
  BY <1>0, AfterSuspendFacts DEF IrqInvariant, ResetInvariant, HeldInvariant, CallInvariant, TypeOK, Rings
<1> QED BY <1>1, <1>2, <1>3, <1>4, <1>5, <1>6

LEMMA ResetTimeoutKept ==
    ASSUME Inv, ResetTimeout
    PROVE  Inv'
<1> USE DEF Inv, ResetTimeout, hw, list
<1>0. call \in {"init", "suspend", "resume", "destroy"}
  BY DEF TypeOK, CallInvariant
<1>1. TypeOK'
  BY <1>0, ReturnFacts DEF TypeOK
<1>2. CallInvariant'
  BY <1>0, ReturnFacts DEF CallInvariant, TypeOK
<1>3. HeldInvariant'
  BY <1>0, ReturnFacts DEF HeldInvariant, TypeOK
<1>4. ResetInvariant'
  BY <1>0, ReturnFacts DEF ResetInvariant, HeldInvariant, CallInvariant, TypeOK
<1>5. EnumerationInvariant'
  BY <1>0, ReturnFacts, ListKept
<1>6. IrqInvariant'
  BY <1>0, ReturnFacts DEF IrqInvariant, ResetInvariant, HeldInvariant, CallInvariant, TypeOK, Rings
<1> QED BY <1>1, <1>2, <1>3, <1>4, <1>5, <1>6
-----------------------------------------------------------------------------
(* resume() *)

LEMMA ResumePciKept ==
    ASSUME Inv, ResumePci
    PROVE  Inv'
<1> USE DEF Inv, ResumePci, hw, list
<1>0. call \in {"init", "suspend", "resume", "destroy"}
  BY DEF TypeOK, CallInvariant
<1>1. TypeOK'
  BY <1>0, ReturnFacts DEF TypeOK
<1>2. CallInvariant'
  BY <1>0, ReturnFacts DEF CallInvariant, TypeOK
<1>3. HeldInvariant'
  BY <1>0, ReturnFacts DEF HeldInvariant, TypeOK
<1>4. ResetInvariant'
  BY <1>0, ReturnFacts DEF ResetInvariant, HeldInvariant, CallInvariant, TypeOK
<1>5. EnumerationInvariant'
  BY <1>0, ReturnFacts, ListKept
<1>6. IrqInvariant'
  BY <1>0, ReturnFacts DEF IrqInvariant, ResetInvariant, HeldInvariant, CallInvariant, TypeOK, Rings
<1> QED BY <1>1, <1>2, <1>3, <1>4, <1>5, <1>6

LEMMA StartKept ==
    ASSUME Inv, Start
    PROVE  Inv'
<1> USE DEF Inv, Start, hw, list
<1>1. TypeOK'
  BY DEF TypeOK
<1>2. CallInvariant'
  BY DEF CallInvariant, TypeOK
<1>3. HeldInvariant'
  BY BeforeFacts DEF HeldInvariant, TypeOK
<1>4. ResetInvariant'
  BY DEF ResetInvariant, HeldInvariant, CallInvariant, TypeOK
<1>5. EnumerationInvariant'
  BY ListKept
<1>6. IrqInvariant'
  BY BeforeFacts DEF IrqInvariant, ResetInvariant, HeldInvariant, CallInvariant, TypeOK, Rings
<1> QED BY <1>1, <1>2, <1>3, <1>4, <1>5, <1>6

LEMMA StartFailsKept ==
    ASSUME Inv, StartTimeout \/ Unsupported
    PROVE  Inv'
<1> USE DEF Inv, StartTimeout, Unsupported, hw, list
<1>0. call \in {"init", "suspend", "resume", "destroy"}
  BY DEF TypeOK, CallInvariant
<1>1. TypeOK'
  BY <1>0, ReturnFacts DEF TypeOK
<1>2. CallInvariant'
  BY <1>0, ReturnFacts DEF CallInvariant, TypeOK
<1>3. HeldInvariant'
  BY <1>0, ReturnFacts DEF HeldInvariant, TypeOK
<1>4. ResetInvariant'
  BY <1>0, ReturnFacts DEF ResetInvariant, HeldInvariant, CallInvariant, TypeOK
<1>5. EnumerationInvariant'
  BY <1>0, ReturnFacts, ListKept
<1>6. IrqInvariant'
  BY <1>0, ReturnFacts DEF IrqInvariant, ResetInvariant, HeldInvariant, CallInvariant, TypeOK, Rings
<1> QED BY <1>1, <1>2, <1>3, <1>4, <1>5, <1>6

LEMMA BringUpKept ==
    ASSUME Inv, BringUp
    PROVE  Inv'
<1> USE DEF Inv, BringUp, hw, list
<1>1. TypeOK'
  BY CodecsAssumption DEF TypeOK, Engine
<1>2. CallInvariant'
  BY DEF CallInvariant, TypeOK
<1>3. HeldInvariant'
  BY DEF HeldInvariant, TypeOK
<1>4. ResetInvariant'
  BY DEF ResetInvariant, HeldInvariant, CallInvariant, TypeOK
<1>5. EnumerationInvariant'
  BY CodecsAssumption DEF EnumerationInvariant, ResetInvariant, Listed, Answering, TypeOK
<1>6. IrqInvariant'
  BY DEF IrqInvariant, ResetInvariant, HeldInvariant, CallInvariant, TypeOK, Rings
<1> QED BY <1>1, <1>2, <1>3, <1>4, <1>5, <1>6

LEMMA CodecTimeoutKept ==
    ASSUME Inv, CodecTimeout
    PROVE  Inv'
<1> USE DEF Inv, CodecTimeout, hw, list
<1>0. Turn \in todo /\ \A d \in todo : Turn <= d
  BY TurnFacts
<1>1. TypeOK'
  BY DEF TypeOK
<1>2. CallInvariant'
  BY DEF CallInvariant, TypeOK
<1>3. HeldInvariant'
  BY DEF HeldInvariant, TypeOK
<1>4. ResetInvariant'
  BY DEF ResetInvariant, HeldInvariant, CallInvariant, TypeOK
<1>5. EnumerationInvariant'
  <2>1. \A c \in Codecs \ todo', t \in todo' : c < t
    BY <1>0, CodecsAssumption DEF EnumerationInvariant, TypeOK
  <2>2. Dead \ todo' # {}
    BY <1>0, CodecsAssumption DEF EnumerationInvariant, TypeOK
  <2>3. ~Answering(Turn)
    <3>1. CASE Turn \in Dead
      BY <3>1, CodecsAssumption DEF Answering
    <3>2. CASE desync
      <4>1. PICK d \in Dead : d \notin todo
        BY <3>2 DEF EnumerationInvariant
      <4>2. d < Turn /\ d \in 0 .. 14 /\ Turn \in 0 .. 14
        BY <1>0, <4>1, CodecsAssumption DEF EnumerationInvariant, TypeOK
      <4> QED BY <4>1, <4>2 DEF Answering
    <3> QED BY <3>1, <3>2
  <2>4. \A c \in Codecs \ todo' : Answering(c) => c \in Listed
    BY <2>3 DEF EnumerationInvariant
  <2> QED BY <2>1, <2>2, <2>4 DEF EnumerationInvariant, Listed, Answering
<1>6. IrqInvariant'
  BY DEF IrqInvariant, ResetInvariant, HeldInvariant, CallInvariant, TypeOK, Rings
<1> QED BY <1>1, <1>2, <1>3, <1>4, <1>5, <1>6

LEMMA CodecErrorKept ==
    ASSUME Inv, CodecError
    PROVE  Inv'
<1> USE DEF Inv, CodecError, hw, list
<1>0. call \in {"init", "suspend", "resume", "destroy"}
  BY DEF CallInvariant
<1>1. TypeOK'
  BY <1>0, ReturnFacts DEF TypeOK
<1>2. CallInvariant'
  BY <1>0, ReturnFacts DEF CallInvariant, TypeOK
<1>3. HeldInvariant'
  BY <1>0, ReturnFacts DEF HeldInvariant, TypeOK
<1>4. ResetInvariant'
  BY <1>0, ReturnFacts DEF ResetInvariant, HeldInvariant, CallInvariant, TypeOK
<1>5. EnumerationInvariant'
  BY <1>0, ReturnFacts, ListKept DEF CallInvariant
<1>6. IrqInvariant'
  BY <1>0, ReturnFacts DEF IrqInvariant, ResetInvariant, HeldInvariant, CallInvariant, TypeOK, Rings
<1> QED BY <1>1, <1>2, <1>3, <1>4, <1>5, <1>6

LEMMA CodecFoundKept ==
    ASSUME Inv, CodecFound
    PROVE  Inv'
<1> USE DEF Inv, CodecFound, hw, list
<1>0. Turn \in todo /\ Turn \in Codecs /\ \A d \in todo : Turn <= d
  BY TurnFacts DEF TypeOK
<1>6. codecs' \in Seq(Codecs) /\ Len(codecs') = Len(codecs) + 1 /\ Listed' = Listed \cup {Turn}
  BY <1>0, ListedAppend
<1>1. TypeOK'
  BY <1>0, <1>6 DEF TypeOK
<1>2. CallInvariant'
  BY DEF CallInvariant, TypeOK
<1>3. HeldInvariant'
  BY <1>6 DEF HeldInvariant, TypeOK
<1>4. ResetInvariant'
  BY DEF ResetInvariant, HeldInvariant, CallInvariant, TypeOK
<1>5. EnumerationInvariant'
  <2>1. \A c \in Codecs \ todo', t \in todo' : c < t
    BY <1>0, CodecsAssumption DEF EnumerationInvariant, TypeOK
  <2>2. Dead \subseteq todo'
    BY <1>0 DEF EnumerationInvariant
  <2>3. Answering(Turn)
    BY <1>0, <2>2, CodecsAssumption DEF Answering
  <2>4. \A c \in Codecs \ todo' : Answering(c) => c \in Listed'
    BY <1>6 DEF EnumerationInvariant
  <2>5. \A c \in Listed' : Answering(c)
    BY <1>6, <2>3 DEF EnumerationInvariant
  <2> QED BY <2>1, <2>2, <2>4, <2>5 DEF EnumerationInvariant, Answering
<1>7. IrqInvariant'
  BY DEF IrqInvariant, ResetInvariant, HeldInvariant, CallInvariant, TypeOK, Rings
<1> QED BY <1>1, <1>2, <1>3, <1>4, <1>5, <1>7

LEMMA PushFailsKept ==
    ASSUME Inv, PushFails
    PROVE  Inv'
<1> USE DEF Inv, PushFails, hw, list
<1>0. call \in {"init", "suspend", "resume", "destroy"}
  BY DEF CallInvariant
<1>1. TypeOK'
  BY <1>0, ReturnFacts, BoundsAssumption DEF TypeOK
<1>2. CallInvariant'
  BY <1>0, ReturnFacts DEF CallInvariant, TypeOK
<1>3. HeldInvariant'
  BY <1>0, ReturnFacts, BoundsAssumption DEF HeldInvariant, TypeOK
<1>4. ResetInvariant'
  BY <1>0, ReturnFacts DEF ResetInvariant, HeldInvariant, CallInvariant, TypeOK
<1>5. EnumerationInvariant'
  BY <1>0, ReturnFacts, ListKept
<1>6. IrqInvariant'
  BY <1>0, ReturnFacts DEF IrqInvariant, ResetInvariant, HeldInvariant, CallInvariant, TypeOK, Rings
<1> QED BY <1>1, <1>2, <1>3, <1>4, <1>5, <1>6

LEMMA CodecsDoneKept ==
    ASSUME Inv, CodecsDone
    PROVE  Inv'
<1> USE DEF Inv, CodecsDone, hw, list
<1>0. call \in {"init", "suspend", "resume", "destroy"}
  BY DEF CallInvariant
<1>1. TypeOK'
  BY <1>0, ReturnFacts DEF TypeOK
<1>2. CallInvariant'
  BY <1>0, ReturnFacts DEF CallInvariant, TypeOK
<1>3. HeldInvariant'
  BY <1>0, ReturnFacts DEF HeldInvariant, TypeOK
<1>4. ResetInvariant'
  BY <1>0, ReturnFacts DEF ResetInvariant, HeldInvariant, CallInvariant, TypeOK
<1>5. EnumerationInvariant'
  BY <1>0, ReturnFacts DEF EnumerationInvariant, Listed, Answering
<1>6. IrqInvariant'
  BY <1>0, ReturnFacts DEF IrqInvariant, ResetInvariant, HeldInvariant, CallInvariant, TypeOK, Rings
<1> QED BY <1>1, <1>2, <1>3, <1>4, <1>5, <1>6
-----------------------------------------------------------------------------
(* The other calls, the destructor, the hardware *)

LEMMA ClientKept ==
    ASSUME Inv, UhdaSuspend \/ UhdaResume \/ UhdaDestroy
    PROVE  Inv'
<1> USE DEF Inv, UhdaSuspend, UhdaResume, UhdaDestroy, hw, list
<1>1. TypeOK'
  BY DEF TypeOK
<1>2. CallInvariant'
  BY DEF CallInvariant, TypeOK
<1>3. HeldInvariant'
  BY DEF HeldInvariant, TypeOK
<1>4. ResetInvariant'
  BY DEF ResetInvariant, HeldInvariant, CallInvariant, TypeOK
<1>5. EnumerationInvariant'
  BY ListKept
<1>6. IrqInvariant'
  BY BeforeFacts DEF IrqInvariant, ResetInvariant, HeldInvariant, CallInvariant, TypeOK, Rings
<1> QED BY <1>1, <1>2, <1>3, <1>4, <1>5, <1>6

LEMMA PlayKept ==
    ASSUME Inv, NEW b \in BOOLEAN, Play(b)
    PROVE  Inv'
<1> USE DEF Inv, Play, hw, list
<1>1. TypeOK'
  BY DEF TypeOK, Engine
<1>2. CallInvariant'
  BY DEF CallInvariant, TypeOK
<1>3. HeldInvariant'
  BY DEF HeldInvariant, TypeOK
<1>4. ResetInvariant'
  BY DEF ResetInvariant, HeldInvariant, CallInvariant, TypeOK
<1>5. EnumerationInvariant'
  BY DEF EnumerationInvariant, Listed, Answering
<1>6. IrqInvariant'
  BY DEF IrqInvariant, ResetInvariant, HeldInvariant, CallInvariant, TypeOK, Rings
<1> QED BY <1>1, <1>2, <1>3, <1>4, <1>5, <1>6

LEMMA DestroyKept ==
    ASSUME Inv, Deallocate \/ DestructMembers
    PROVE  Inv'
<1> USE DEF Inv, Deallocate, DestructMembers, hw, list
<1>1. TypeOK'
  BY DEF TypeOK
<1>2. CallInvariant'
  BY DEF CallInvariant, TypeOK
<1>3. HeldInvariant'
  BY DEF HeldInvariant, TypeOK
<1>4. ResetInvariant'
  BY DEF ResetInvariant, HeldInvariant, CallInvariant, TypeOK
<1>5. EnumerationInvariant'
  BY ListKept
<1>6. IrqInvariant'
  BY DEF IrqInvariant, ResetInvariant, HeldInvariant, CallInvariant, TypeOK, Rings
<1> QED BY <1>1, <1>2, <1>3, <1>4, <1>5, <1>6

LEMMA DestructKept ==
    ASSUME Inv, Destruct
    PROVE  Inv'
<1>0. held' = {} /\ codecs' = <<>>
  BY DEF Inv, Destruct, HeldInvariant
<1>1. Len(codecs') = 0 /\ codecs' \in Seq(Codecs) /\ Listed' = {}
  BY <1>0 DEF Listed
<1>2. objects' = lost' /\ lost' = lost /\ lost \in 0 .. MaxLost /\ lost \in Nat
  <2>1. Len(codecs) \in Nat /\ lost \in 0 .. MaxLost /\ objects = Len(codecs) + lost
    BY DEF Inv, HeldInvariant, TypeOK
  <2>2. objects' = objects - Len(codecs) /\ lost' = lost
    BY DEF Destruct
  <2> QED BY <2>1, <2>2, BoundsAssumption
<1>3. TypeOK'
  BY <1>0, <1>1, <1>2 DEF Inv, TypeOK, Destruct
<1>4. CallInvariant' /\ ResetInvariant'
  BY DEF Inv, Destruct, CallInvariant, ResetInvariant, TypeOK
<1>5. HeldInvariant'
  <2>1. objects' = Len(codecs') + lost'
    BY <1>1, <1>2
  <2> QED BY <1>0, <2>1 DEF Destruct, HeldInvariant
<1>6. EnumerationInvariant'
  BY <1>1 DEF Destruct, EnumerationInvariant
<1>7. IrqInvariant'
  BY <1>0 DEF Inv, Destruct, IrqInvariant, HeldInvariant
<1> QED BY <1>3, <1>4, <1>5, <1>6, <1>7 DEF Inv

LEMMA HardwareKept ==
    ASSUME Inv, EnterReset \/ LeaveReset \/ PowerLost
    PROVE  Inv'
<1> USE DEF Inv, EnterReset, LeaveReset, PowerLost, hw, list
<1>1. TypeOK'
  BY DEF TypeOK
<1>2. CallInvariant'
  BY DEF CallInvariant, TypeOK
<1>3. HeldInvariant'
  BY DEF HeldInvariant, TypeOK
<1>4. ResetInvariant'
  BY DEF ResetInvariant, HeldInvariant, CallInvariant, TypeOK
<1>5. EnumerationInvariant'
  BY DEF EnumerationInvariant, ResetInvariant, Listed, Answering
<1>6. IrqInvariant'
  BY BeforeFacts DEF IrqInvariant, ResetInvariant, HeldInvariant, CallInvariant, TypeOK, Rings
<1> QED BY <1>1, <1>2, <1>3, <1>4, <1>5, <1>6
-----------------------------------------------------------------------------
(* The invariant *)

LEMMA InitialInv == Init => Inv
<1> SUFFICES ASSUME Init PROVE Inv
  OBVIOUS
<1>1. codecs \in Seq(Codecs) /\ Len(codecs) = 0 /\ Listed = {}
  BY DEF Init, Listed
<1>2. TypeOK
  <2>1. objects \in Nat /\ lost \in 0 .. MaxLost
    BY BoundsAssumption DEF Init
  <2> QED BY <1>1, <2>1 DEF Init, TypeOK, Early
<1>3. HeldInvariant
  BY <1>1 DEF Init, HeldInvariant
<1>4. IrqInvariant
  BY DEF Init, IrqInvariant
<1> QED BY <1>1, <1>2, <1>3, <1>4 DEF Init, Inv, CallInvariant, ResetInvariant, EnumerationInvariant

LEMMA NextInv == Inv /\ [Next]_vars => Inv'
<1> SUFFICES ASSUME Inv, [Next]_vars PROVE Inv'
  OBVIOUS
<1>1. CASE Client
  BY <1>1, UhdaInitKept, ClientKept, PlayKept DEF Client
<1>2. CASE Bringing
  <2>1. CASE InitStep \/ InitStepFails \/ InitFail
    BY <2>1, InitStepKept, InitFailKept
  <2>2. CASE ResumePci \/ Start \/ StartTimeout \/ Unsupported \/ BringUp
    BY <2>2, ResumePciKept, StartKept, StartFailsKept, BringUpKept
  <2>3. CASE CodecTimeout \/ CodecError \/ CodecFound \/ PushFails \/ CodecsDone
    BY <2>3, CodecTimeoutKept, CodecErrorKept, CodecFoundKept, PushFailsKept, CodecsDoneKept
  <2> QED BY <1>2, <2>1, <2>2, <2>3 DEF Bringing
<1>3. CASE Stopping
  <2>1. CASE Suspend \/ SuspendInReset \/ ResetSeen \/ ResetTimeout
    BY <2>1, SuspendKept, SuspendReturnKept, ResetTimeoutKept
  <2>2. CASE Deallocate \/ Destruct \/ DestructMembers
    BY <2>2, DestroyKept, DestructKept
  <2> QED BY <1>3, <2>1, <2>2 DEF Stopping
<1>4. CASE Hardware
  BY <1>4, HardwareKept DEF Hardware
<1>5. CASE UNCHANGED vars
  <2> USE <1>5 DEF vars, hw, list, Inv
  <2>1. TypeOK'               BY DEF TypeOK
  <2>2. CallInvariant'        BY DEF CallInvariant
  <2>3. HeldInvariant'        BY DEF HeldInvariant
  <2>4. ResetInvariant'       BY DEF ResetInvariant
  <2>5. EnumerationInvariant' BY DEF EnumerationInvariant, Listed, Answering
  <2>6. IrqInvariant'         BY DEF IrqInvariant
  <2> QED BY <2>1, <2>2, <2>3, <2>4, <2>5, <2>6
<1> QED BY <1>1, <1>2, <1>3, <1>4, <1>5 DEF Next

\* What an instance holds, runs and lists at each step of its calls, for any codecs.
THEOREM InvHolds == Spec => []Inv
BY InitialInv, NextInv, PTL DEF Spec
-----------------------------------------------------------------------------
(* The properties *)

\* The steps and the count of codec objects are in their ranges: no codec object
\* is freed twice.
THEOREM TypeCorrect == Spec => []TypeOK
<1>1. Inv => TypeOK
  BY DEF Inv
<1> QED BY <1>1, InvHolds, PTL

\* uhda_init that fails and uhda_destroy give back everything they acquired.
THEOREM NoLeakHolds == Spec => []NoLeak
<1>1. Inv => NoLeak
  <2> SUFFICES ASSUME Inv, pc = "none" PROVE NoLeak
    BY DEF NoLeak
  <2>1. held = {} /\ codecs = <<>> /\ objects = Len(codecs) + lost /\ lost \in Nat
    BY BoundsAssumption DEF Inv, HeldInvariant, TypeOK
  <2>2. Len(codecs) = 0
    BY <2>1
  <2> QED BY <2>1, <2>2 DEF NoLeak
<1> QED BY <1>1, InvHolds, PTL

\* The engines of a controller that is brought up or in use have their memory.
THEOREM DmaHeldHolds == Spec => []DmaHeld
<1>1. Inv => DmaHeld
  BY DEF Inv, DmaHeld, HeldInvariant, ResetInvariant, TypeOK, Engine, Resource, Early, Late
<1> QED BY <1>1, InvHolds, PTL

\* The interrupt handler finds the irq its own and its registers mapped, unless an
\* init() has failed among the codecs.
THEOREM HandlerSafeHolds == Spec => []HandlerSafe
<1>1. Inv => HandlerSafe
  BY DEF Inv, HandlerSafe, EnumerationFailed, HeldInvariant, IrqInvariant
<1> QED BY <1>1, InvHolds, PTL

\* After uhda_destroy has returned success the hardware is at rest.
THEOREM QuietHolds == Spec => []QuietWhenDestroyed
<1>1. Inv => QuietWhenDestroyed
  BY DEF Inv, QuietWhenDestroyed, HeldInvariant, IrqInvariant, ResetInvariant
<1> QED BY <1>1, InvHolds, PTL

\* A controller that is up lists the codecs before the first dead one, and none
\* that is dead.
THEOREM ListedAnswerHolds == Spec => []ListedAnswer
<1>1. Inv => ListedAnswer
  <2> SUFFICES ASSUME Inv, pc = "up" PROVE ListedAnswer
    BY DEF ListedAnswer
  <2>1. \A c \in Listed : Answering(c)
    BY DEF Inv, EnumerationInvariant
  <2>2. \A d \in Dead : ~ Answering(d)
    BY CodecsAssumption DEF Answering
  <2>3. \A c \in Codecs : Answering(c) => c \in Listed
    BY DEF Inv, EnumerationInvariant
  <2> QED BY <2>1, <2>2, <2>3 DEF ListedAnswer, Answering
<1> QED BY <1>1, InvHolds, PTL
=============================================================================
