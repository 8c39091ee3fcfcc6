--------------------------- MODULE VerbRingProofs ---------------------------
(***************************************************************************)
(* Proofs about the verb engine, for any number of callers, of ring slots  *)
(* and of verbs.                                                           *)
(***************************************************************************)
EXTENDS VerbRing, TLAPS

USE DEF NoVerb, Timeout, OnLink

(* The index arithmetic of submit_verb stays in the ring and moves by one   *)
(* slot: what the pointers' distances rest on.                              *)
LEMMA SuccFacts ==
    ASSUME NEW a \in Slot, NEW b \in Slot
    PROVE  /\ Succ(a) \in Slot
           /\ Dist(a, b) \in 0 .. Slots - 1
           /\ Dist(a, b) = 0 <=> a = b
           /\ Dist(a, b) < Slots - 1 => Dist(a, Succ(b)) = Dist(a, b) + 1
           /\ a # b => Dist(Succ(a), b) = Dist(a, b) - 1
           /\ Dist(Succ(a), a) = Slots - 1
  BY SlotsAssumption DEF Succ, Dist, Slot

LEMMA DistInjective ==
    ASSUME NEW a \in Slot, NEW b \in Slot, NEW c \in Slot, Dist(a, b) = Dist(a, c)
    PROVE  b = c
  BY SlotsAssumption DEF Dist, Slot

(* Type correctness of the verb engine. *)
THEOREM TypeCorrect == Spec => []TypeOK
<1>1. Init => TypeOK
  BY SlotsAssumption DEF Init, TypeOK, Steps, Slot
<1>2. TypeOK /\ [Next]_vars => TypeOK'
  <2> SUFFICES ASSUME TypeOK, [Next]_vars
               PROVE  TypeOK'
    OBVIOUS
  <2> USE DEF TypeOK, Steps, Goto, ring, hw, call
  <2>0. Succ(corbWp) \in Slot /\ Succ(corbRp) \in Slot /\ Succ(rirbWp) \in Slot
    BY SuccFacts
  <2>1. CASE \E t \in Threads : Step(t)
    <3> SUFFICES ASSUME NEW t \in Threads, Step(t)
                 PROVE  TypeOK'
      BY <2>1
    <3>1. CASE Lock(t)       BY <3>1 DEF Lock
    <3>2. CASE WriteVerb(t)  BY <3>2, <2>0 DEF WriteVerb
    <3>3. CASE Doorbell(t)   BY <3>3 DEF Doorbell
    <3>4. CASE SeeAnswer(t)  BY <3>4 DEF SeeAnswer
    <3>5. CASE ReadAnswer(t) BY <3>5 DEF ReadAnswer
    <3>6. CASE GiveUp(t)     BY <3>6 DEF GiveUp
    <3>7. CASE Unlock(t)     BY <3>7 DEF Unlock
    <3> QED BY <3>1, <3>2, <3>3, <3>4, <3>5, <3>6, <3>7 DEF Step
  <2>2. CASE Fetch   BY <2>2, <2>0 DEF Fetch
  <2>3. CASE Answer  BY <2>3, <2>0 DEF Answer
  <2>4. CASE Ignore  BY <2>4 DEF Ignore
  <2>5. CASE Reset   BY <2>5, SlotsAssumption DEF Reset, Slot
  <2>6. CASE UNCHANGED vars BY <2>6 DEF vars
  <2> QED BY <2>1, <2>2, <2>3, <2>4, <2>5, <2>6 DEF Next
<1> QED BY <1>1, <1>2, PTL DEF Spec

-----------------------------------------------------------------------------
(* The inductive invariant: one lemma per action. *)

USE ThreadsAssumption, SlotsAssumption

(* Only the holder of the lock is inside a wrapper, before and after a step. *)
LEMMA LockHeldStep ==
    ASSUME TypeOK, LockHeld, [Next]_vars
    PROVE  LockHeld'
<1> USE DEF TypeOK, LockHeld, Goto, ring, hw, call
<1>1. CASE \E t \in Threads : Step(t)
  <2> SUFFICES ASSUME NEW t \in Threads, Step(t)
               PROVE  LockHeld'
    BY <1>1
  <2>1. CASE Lock(t)       BY <2>1 DEF Lock
  <2>2. CASE WriteVerb(t)  BY <2>2 DEF WriteVerb
  <2>3. CASE Doorbell(t)   BY <2>3 DEF Doorbell
  <2>4. CASE SeeAnswer(t)  BY <2>4 DEF SeeAnswer
  <2>5. CASE ReadAnswer(t) BY <2>5 DEF ReadAnswer
  <2>6. CASE GiveUp(t)     BY <2>6 DEF GiveUp
  <2>7. CASE Unlock(t)     BY <2>7 DEF Unlock
  <2> QED BY <2>1, <2>2, <2>3, <2>4, <2>5, <2>6, <2>7 DEF Step
<1>2. CASE Fetch \/ Answer \/ Ignore \/ Reset \/ UNCHANGED vars
  BY <1>2 DEF Fetch, Answer, Ignore, Reset, vars
<1> QED BY <1>1, <1>2 DEF Next

Rings == Lockstep /\ Contents /\ Progress

(* Taking and releasing the lock touches neither ring. *)
LEMMA LockUnlockStep ==
    ASSUME TypeOK, LockHeld, Rings, NEW t \in Threads, Lock(t) \/ Unlock(t)
    PROVE  Rings'
<1> USE DEF TypeOK, LockHeld, Rings, Goto, ring, hw, call
<1>1. /\ pc[t] \notin {"written", "polling", "answered"}
      /\ pc'[t] \notin {"written", "polling", "answered", "returned"}
      /\ \A u \in Threads \ {t} : pc[u] = "idle" /\ pc'[u] = "idle"
      /\ UNCHANGED <<ring, hw, index, mine, got, submitted, base, timeouts>>
  BY DEF Lock, Unlock
<1>2. /\ lock = NoThread \/ pc[lock] \notin {"written", "polling"}
      /\ lock' = NoThread \/ pc'[lock'] \notin {"written", "polling"}
  BY <1>1 DEF Lock, Unlock
<1>3. Rung' = Rung
  BY <1>1, <1>2 DEF Rung
<1>4. Lockstep'
  BY <1>1, <1>2, <1>3 DEF Lockstep, Dist
<1>5. Contents'
  BY <1>1, <1>3 DEF Contents, Dist
<1>6. Progress'
  BY <1>1 DEF Progress
<1> QED BY <1>4, <1>5, <1>6

(* submit_verb's store: the entry it fills is outside the ones still to be  *)
(* fetched, because fewer than Slots - 1 verbs are owed an answer.          *)
LEMMA WriteVerbStep ==
    ASSUME TypeOK, LockHeld, Sound, Rings, NEW t \in Threads, WriteVerb(t)
    PROVE  Rings'
<1> USE DEF TypeOK, LockHeld, Rings, Goto, ring, hw, call, WriteVerb
<1>1. /\ lock = t /\ lock' = t /\ pc[t] = "locked" /\ pc'[t] = "written"
      /\ \A u \in Threads \ {t} : pc[u] = "idle" /\ pc'[u] = "idle"
  OBVIOUS
<1>2. Rung = submitted /\ Rung' = Rung
  BY <1>1 DEF Rung
<1>3. Lockstep'
  BY <1>1, <1>2 DEF Lockstep, Dist
<1>4. Rung - fetched < Slots - 1
  BY <1>1, <1>2 DEF Lockstep, Sound
<1>5. /\ Succ(corbWp) \in Slot
      /\ Dist(corbRp, Succ(corbWp)) = Rung - fetched + 1
  <2>1. Dist(corbRp, corbWp) < Slots - 1 /\ Dist(corbRp, corbWp) = Rung - fetched
    BY <1>4 DEF Lockstep
  <2>2. corbRp \in Slot /\ corbWp \in Slot
    OBVIOUS
  <2> HIDE DEF TypeOK, LockHeld, Rings, WriteVerb
  <2> QED BY <2>1, <2>2, SuccFacts
<1>6. Contents'
  <2>1. ASSUME NEW i \in Slot, Dist(corbRp, i) \in 1 .. Rung - fetched
        PROVE  corb'[i] = fetched + Dist(corbRp, i)
    <3>1. i # Succ(corbWp)  BY <1>5, <1>2, <2>1 DEF Lockstep
    <3>2. corb[i] = fetched + Dist(corbRp, i)  BY <2>1 DEF Contents
    <3> QED BY <3>1, <3>2, <1>5
  <2>2. ASSUME NEW i \in Slot
        PROVE  Dist(corbRp, i)' = Dist(corbRp, i)
    BY DEF Dist
  <2> QED BY <2>1, <2>2, <1>2 DEF Contents
<1>7. Progress'
  BY <1>1, <1>2, <1>5 DEF Progress, Lockstep, Succ
<1> QED BY <1>3, <1>6, <1>7

(* The store to CORBWP hands the written entry to the hardware. *)
LEMMA DoorbellStep ==
    ASSUME TypeOK, LockHeld, Sound, Rings, NEW t \in Threads, Doorbell(t)
    PROVE  Rings'
<1> USE DEF TypeOK, LockHeld, Rings, Goto, ring, hw, call, Doorbell
<1>1. /\ lock = t /\ lock' = t /\ pc[t] = "written" /\ pc'[t] = "polling"
      /\ \A u \in Threads \ {t} : pc[u] = "idle" /\ pc'[u] = "idle"
  OBVIOUS
<1>2. Rung = submitted - 1 /\ Rung' = submitted
  BY <1>1 DEF Rung
<1>3. /\ corbWp' = Succ(corbWp) /\ index[t] = Succ(corbWp)
      /\ corb[Succ(corbWp)] = submitted /\ mine[t] = submitted
  BY <1>1 DEF Progress
<1>4. Rung - answered < Slots - 1 /\ Rung - fetched < Slots - 1
  BY <1>1, <1>2 DEF Lockstep, Sound
<1>5. /\ Succ(corbWp) \in Slot
      /\ Dist(corbRp, Succ(corbWp)) = Rung - fetched + 1
      /\ Dist(rirbWp, Succ(corbWp)) = Rung - answered + 1
  <2>1. /\ Dist(corbRp, corbWp) < Slots - 1 /\ Dist(rirbWp, corbWp) < Slots - 1
        /\ Dist(corbRp, corbWp) = Rung - fetched
        /\ Dist(rirbWp, corbWp) = Rung - answered
    BY <1>4 DEF Lockstep
  <2> QED BY <2>1, SuccFacts
<1>6. Lockstep'
  <2>1. Dist(corbRp, corbWp)' = Rung' - fetched'
    BY <1>2, <1>3, <1>5 DEF Dist
  <2>2. Dist(rirbWp, corbWp)' = Rung' - answered'
    BY <1>2, <1>3, <1>5 DEF Dist
  <2> QED BY <1>1, <1>2, <2>1, <2>2 DEF Lockstep
<1>7. Contents'
  <2>1. ASSUME NEW i \in Slot, Dist(corbRp, i) \in 1 .. submitted - fetched
        PROVE  corb[i] = fetched + Dist(corbRp, i)
    <3>1. CASE Dist(corbRp, i) \in 1 .. Rung - fetched
      BY <3>1 DEF Contents
    <3>2. CASE Dist(corbRp, i) = Rung - fetched + 1
      <4>1. i = Succ(corbWp)  BY <3>2, <1>5, DistInjective
      <4> QED BY <4>1, <3>2, <1>2, <1>3
    <3> QED BY <2>1, <3>1, <3>2, <1>2, SuccFacts DEF Lockstep
  <2>2. ASSUME NEW i \in Slot
        PROVE  Dist(corbRp, i)' = Dist(corbRp, i)
    BY DEF Dist
  <2> QED BY <2>1, <2>2, <1>2 DEF Contents
<1>8. Progress'
  BY <1>1, <1>3 DEF Progress
<1> QED BY <1>6, <1>7, <1>8

(* A poll that sees its index proves that every verb has been answered: the *)
(* last answer is the one to the caller's own verb.                         *)
LEMMA SeeAnswerStep ==
    ASSUME TypeOK, LockHeld, Sound, Rings, NEW t \in Threads, SeeAnswer(t)
    PROVE  Rings'
<1> USE DEF TypeOK, LockHeld, Rings, Goto, ring, hw, call, SeeAnswer
<1>1. /\ lock = t /\ lock' = t /\ pc[t] = "polling" /\ pc'[t] = "answered"
      /\ \A u \in Threads \ {t} : pc[u] = "idle" /\ pc'[u] = "idle"
  OBVIOUS
<1>2. Rung = submitted /\ Rung' = Rung
  BY <1>1 DEF Rung
<1>3. Dist(rirbWp, corbWp) = 0
  <2>1. rirbWp = corbWp  BY <1>1 DEF Progress
  <2> QED BY <2>1 DEF Dist, Slot
<1>4. answered = submitted
  BY <1>2, <1>3 DEF Lockstep
<1>5. Lockstep'
  BY <1>1, <1>2, <1>4 DEF Lockstep, Dist
<1>6. Contents'
  BY <1>2 DEF Contents, Dist
<1>7. Progress'
  BY <1>1, <1>4 DEF Progress
<1> QED BY <1>5, <1>6, <1>7

(* The response read is the caller's own. *)
LEMMA ReadAnswerStep ==
    ASSUME TypeOK, LockHeld, Sound, Rings, NEW t \in Threads, ReadAnswer(t)
    PROVE  Rings' /\ got'[t] = mine[t] /\ rirb[rirbWp] = submitted /\ base < answered
<1> USE DEF TypeOK, LockHeld, Rings, Goto, ring, hw, call, ReadAnswer
<1>1. /\ lock = t /\ lock' = t /\ pc[t] = "answered" /\ pc'[t] = "returned"
      /\ \A u \in Threads \ {t} : pc[u] = "idle" /\ pc'[u] = "idle"
  OBVIOUS
<1>2. Rung = submitted /\ Rung' = Rung
  BY <1>1 DEF Rung
<1>3. /\ answered = submitted /\ mine[t] = submitted /\ base < submitted
      /\ index[t] = corbWp
  BY <1>1 DEF Progress
<1>4. rirbWp = corbWp
  <2>1. Dist(rirbWp, corbWp) = 0  BY <1>2, <1>3 DEF Lockstep
  <2> QED BY <2>1 DEF Dist, Slot
<1>5. fetched = answered /\ link = NoVerb
  BY <1>2, <1>3 DEF Lockstep, Contents
<1>6. rirb[rirbWp] = submitted
  BY <1>3, <1>5 DEF Contents
<1>7. got'[t] = mine[t]
  BY <1>3, <1>4, <1>6
<1>8. Lockstep'
  BY <1>1, <1>2, <1>3 DEF Lockstep, Dist
<1>9. Contents'
  BY <1>2 DEF Contents, Dist
<1>10. Progress'
  BY <1>1, <1>7 DEF Progress
<1> QED BY <1>3, <1>6, <1>7, <1>8, <1>9, <1>10

(* A timeout pays for the verb that stays unanswered. *)
LEMMA GiveUpStep ==
    ASSUME TypeOK, LockHeld, Rings, NEW t \in Threads, GiveUp(t)
    PROVE  Rings'
<1> USE DEF TypeOK, LockHeld, Rings, Goto, ring, hw, call, GiveUp
<1>1. /\ lock = t /\ lock' = t /\ pc[t] = "polling" /\ pc'[t] = "returned"
      /\ got'[t] = Timeout /\ timeouts' = timeouts + 1
      /\ \A u \in Threads \ {t} : pc[u] = "idle" /\ pc'[u] = "idle"
  OBVIOUS
<1>2. Rung' = Rung
  BY <1>1 DEF Rung
<1>3. Lockstep'
  BY <1>1, <1>2 DEF Lockstep, Dist
<1>4. Contents'
  BY <1>2 DEF Contents, Dist
<1>5. Progress'
  BY <1>1 DEF Progress
<1> QED BY <1>3, <1>4, <1>5

(* The hardware fetches the oldest verb still to be fetched. *)
LEMMA FetchStep ==
    ASSUME TypeOK, LockHeld, Sound, Rings, Fetch
    PROVE  Rings'
<1> USE DEF TypeOK, LockHeld, Rings, ring, hw, call, Fetch
<1>1. Rung' = Rung /\ Rung \in Int
  BY DEF Rung
<1>2. /\ Dist(Succ(corbRp), corbWp) = Dist(corbRp, corbWp) - 1
      /\ Dist(corbRp, Succ(corbRp)) = 1
      /\ Succ(corbRp) \in Slot
  BY DEF Dist, Succ, Slot
<1>3. Rung - fetched \in 1 .. Slots - 1
  BY <1>1 DEF Lockstep, Dist, Slot
<1>4. Lockstep'
  <2>1. Dist(corbRp, corbWp)' = Dist(Succ(corbRp), corbWp)
    BY DEF Dist
  <2>2. Dist(rirbWp, corbWp)' = Dist(rirbWp, corbWp)
    BY DEF Dist
  <2> QED BY <1>1, <1>2, <1>3, <2>1, <2>2 DEF Lockstep
<1>5. Contents'
  <2>1. link' = fetched' /\ answered' < fetched'
    <3>1. corb[Succ(corbRp)] = fetched + 1
      BY <1>2, <1>3 DEF Contents
    <3> QED BY <3>1 DEF Lockstep
  <2>2. ASSUME NEW i \in Slot, Dist(Succ(corbRp), i) \in 1 .. Rung - (fetched + 1)
        PROVE  corb[i] = fetched + 1 + Dist(Succ(corbRp), i)
    <3>1. i # corbRp
      BY <1>1, <1>3, <2>2 DEF Dist, Succ, Slot
    <3>2. Dist(corbRp, i) = Dist(Succ(corbRp), i) + 1
      BY <3>1 DEF Dist, Succ, Slot
    <3>3. Dist(corbRp, i) \in 1 .. Rung - fetched
      BY <1>1, <2>2, <3>2
    <3> QED BY <2>2, <3>2, <3>3 DEF Contents
  <2>3. ASSUME NEW i \in Slot
        PROVE  Dist(corbRp, i)' = Dist(Succ(corbRp), i)
    BY DEF Dist
  <2>4. link' # NoVerb
    BY <2>1 DEF Lockstep
  <2>5. fetched' = answered' + 1 /\ answered' > base' => rirb'[rirbWp'] = answered'
    BY DEF Contents
  <2> QED BY <1>1, <2>1, <2>2, <2>3, <2>4, <2>5 DEF Contents
<1>6. Progress'
  BY DEF Progress
<1> QED BY <1>4, <1>5, <1>6

(* The hardware writes the next RIRB entry. *)
LEMMA AnswerStep ==
    ASSUME TypeOK, LockHeld, Sound, Rings, Answer
    PROVE  Rings' /\ rirb'[rirbWp'] = link /\ answered < link /\ link <= submitted
<1> USE DEF TypeOK, LockHeld, Rings, ring, hw, call, Answer
<1>1. Rung' = Rung /\ Rung \in Int /\ Rung <= submitted
  BY DEF Rung
<1>2. link = fetched /\ answered < fetched
  BY DEF Contents
<1>3. /\ rirbWp # corbWp
      /\ Dist(Succ(rirbWp), corbWp) = Dist(rirbWp, corbWp) - 1
      /\ Succ(rirbWp) \in Slot
  <2>1. Dist(rirbWp, corbWp) # 0  BY <1>1, <1>2 DEF Lockstep
  <2> QED BY <2>1 DEF Dist, Succ, Slot
<1>4. Lockstep'
  <2>1. Dist(rirbWp, corbWp)' = Dist(Succ(rirbWp), corbWp)
    BY DEF Dist
  <2>2. Dist(corbRp, corbWp)' = Dist(corbRp, corbWp)
    BY DEF Dist
  <2> QED BY <1>1, <1>2, <1>3, <2>1, <2>2 DEF Lockstep
<1>5. rirb'[rirbWp'] = link
  BY <1>3
<1>6. Contents'
  BY <1>1, <1>2, <1>5 DEF Contents, Dist
<1>7. Progress'
  BY <1>1, <1>2 DEF Progress, Lockstep
<1> QED BY <1>1, <1>2, <1>4, <1>5, <1>6, <1>7 DEF Lockstep

(* A verb nobody answers leaves the RIRB behind for good. *)
LEMMA IgnoreStep ==
    ASSUME TypeOK, LockHeld, Rings, Ignore
    PROVE  Rings'
<1> USE DEF TypeOK, LockHeld, Rings, ring, hw, call, Ignore
<1>1. Rung' = Rung
  BY DEF Rung
<1>2. Lockstep'   BY <1>1 DEF Lockstep, Dist
<1>3. Contents'   BY <1>1 DEF Contents, Dist
<1>4. Progress'   BY DEF Progress
<1> QED BY <1>2, <1>3, <1>4

(* A controller reset restores the lockstep from any state. *)
LEMMA ResetStep ==
    ASSUME TypeOK, LockHeld, Reset
    PROVE  Rings'
<1> USE DEF TypeOK, LockHeld, Rings, ring, hw, call, Reset
<1>1. lock = NoThread /\ lock' = NoThread
  OBVIOUS
<1>2. Rung' = submitted
  BY <1>1 DEF Rung
<1>3. Lockstep'   BY <1>1, <1>2 DEF Lockstep, Dist
<1>4. Contents'   BY <1>2 DEF Contents
<1>5. Progress'   BY DEF Progress
<1> QED BY <1>3, <1>4, <1>5

(* The rings keep their lockstep while they are sound. *)
LEMMA RingsStep ==
    ASSUME TypeOK, RingInvariant, [Next]_vars
    PROVE  RingInvariant'
<1>1. LockHeld /\ LockHeld'
  BY LockHeldStep DEF RingInvariant
<1>2. ASSUME Sound' PROVE Rings'
  <2>1. CASE Reset  BY <2>1, <1>1, ResetStep
  <2>2. CASE ~Reset
    <3>1. Sound /\ Rings
      <4>1. timeouts' = timeouts \/ timeouts' = timeouts + 1
        BY <2>2 DEF Next, Step, Lock, WriteVerb, Doorbell, SeeAnswer, ReadAnswer,
             GiveUp, Unlock, Fetch, Answer, Ignore, vars
      <4> QED BY <1>2, <4>1 DEF Sound, TypeOK, RingInvariant, Rings
    <3>2. ASSUME NEW t \in Threads, Step(t) PROVE Rings'
      BY <1>1, <3>1, <3>2, LockUnlockStep, WriteVerbStep, DoorbellStep, SeeAnswerStep,
         ReadAnswerStep, GiveUpStep DEF Step
    <3>3. CASE UNCHANGED vars
      BY <3>1, <3>3 DEF vars, ring, hw, call, Rings, Lockstep, Contents, Progress,
           Rung, Dist, Succ
    <3> QED BY <1>1, <2>2, <3>1, <3>2, <3>3, FetchStep, AnswerStep, IgnoreStep DEF Next
  <2> QED BY <2>1, <2>2
<1> QED BY <1>1, <1>2 DEF RingInvariant, Rings

(* The inductive invariant of the verb engine holds: pointers in lockstep   *)
(* while fewer than Slots - 1 calls have timed out since the last reset.    *)
THEOREM RingInvariantHolds == Spec => []RingInvariant
<1>1. Init => RingInvariant
  BY DEF Init, RingInvariant, LockHeld, Lockstep, Contents, Progress, Rung, Dist
<1>2. TypeOK /\ RingInvariant /\ [Next]_vars => RingInvariant'
  BY RingsStep
<1> QED BY <1>1, <1>2, TypeCorrect, PTL DEF Spec

(* A response returned to a caller of a verb wrapper is the response to the *)
(* verb that caller submitted.                                              *)
THEOREM OwnResponseHolds == Spec => []OwnResponse
<1>1. RingInvariant => OwnResponse
  BY DEF RingInvariant, Progress, OwnResponse
<1> QED BY <1>1, RingInvariantHolds, PTL

(* The codecs get the verbs in order, none of them overwritten in the CORB. *)
THEOREM FetchInOrderHolds == Spec => []FetchInOrder
<1>1. RingInvariant => FetchInOrder
  BY DEF RingInvariant, Contents, FetchInOrder
<1> QED BY <1>1, RingInvariantHolds, PTL

(* While the rings are sound, a caller whose verb has been answered with    *)
(* none before it left unanswered finds the answer where it polls for it.   *)
THEOREM AnswerVisibleHolds == Spec => [](Sound => AnswerVisible)
<1>1. TypeOK /\ RingInvariant => (Sound => AnswerVisible)
  <2> SUFFICES ASSUME TypeOK, LockHeld, Sound, Lockstep, Contents, Progress,
                      NEW t \in Threads, pc[t] = "polling", answered = mine[t]
               PROVE  rirbWp = index[t] /\ rirb[index[t]] = mine[t]
    BY DEF RingInvariant, AnswerVisible
  <2>1. lock = t /\ index[t] = corbWp /\ mine[t] = submitted /\ base < submitted
    BY DEF LockHeld, Progress
  <2>2. Rung = submitted
    BY <2>1 DEF Rung
  <2>3. Dist(rirbWp, corbWp) = 0 /\ fetched = answered /\ link = NoVerb
    BY <2>1, <2>2 DEF Lockstep, Contents, TypeOK
  <2>4. rirbWp = corbWp
    BY <2>3 DEF Dist, TypeOK, Slot
  <2> QED BY <2>1, <2>3, <2>4 DEF Contents, TypeOK
<1> QED BY <1>1, TypeCorrect, RingInvariantHolds, PTL

-----------------------------------------------------------------------------
(* VerbRing implements VerbCall. *)

LEMMA ContractStep ==
    ASSUME TypeOK, RingInvariant, TypeOK', RingInvariant', [Next]_vars
    PROVE  [Contract!Next]_Contract!vars
<1> DEFINE executed == IF answered = base THEN base ELSE rirb[rirbWp]
           phase == [t \in Threads |-> Phase(t)]
<1> USE DEF TypeOK, Goto, ring, hw, call
<1>0. LockHeld /\ LockHeld'
  BY DEF RingInvariant
<1>1. ASSUME NEW t \in Threads, Lock(t) \/ Doorbell(t) \/ SeeAnswer(t)
      PROVE  UNCHANGED <<phase, got, submitted, executed, timeouts>>
  BY <1>1 DEF Lock, Doorbell, SeeAnswer, Phase
<1>2. ASSUME NEW t \in Threads, WriteVerb(t)
      PROVE  Contract!Issue(t)
  <2>1. \A u \in Threads : Phase(u) = "idle"
    BY <1>0, <1>2 DEF WriteVerb, LockHeld, Phase
  <2>2. phase' = [phase EXCEPT ![t] = "pending"]
    BY <1>2 DEF WriteVerb, Phase
  <2> QED BY <1>2, <2>1, <2>2 DEF Contract!Issue, WriteVerb
<1>3. ASSUME NEW t \in Threads, ReadAnswer(t) \/ GiveUp(t)
      PROVE  /\ Contract!Return(t)
             /\ ReadAnswer(t) => UNCHANGED timeouts
             /\ GiveUp(t) => got'[t] = Timeout /\ timeouts' = timeouts + 1
  <2>1. phase[t] = "pending" /\ phase' = [phase EXCEPT ![t] = "returned"]
    BY <1>3 DEF ReadAnswer, GiveUp, Phase
  <2> QED BY <1>3, <2>1 DEF ReadAnswer, GiveUp, Contract!Return
<1>4. ASSUME NEW t \in Threads, ReadAnswer(t)
      PROVE  Contract!ReturnOwn(t) \/ Contract!ReturnAny(t)
  <2>1. CASE Sound
    <3>1. rirb[rirbWp] = submitted /\ base < answered /\ got'[t] = mine[t]
      BY <1>0, <1>4, <2>1, ReadAnswerStep DEF RingInvariant, Rings
    <3>2. mine[t] = submitted
      BY <1>4, <2>1 DEF RingInvariant, Progress, ReadAnswer
    <3> QED BY <1>3, <1>4, <3>1, <3>2 DEF Contract!ReturnOwn
  <2>2. CASE ~Sound
    BY <1>3, <1>4, <2>2 DEF Contract!ReturnAny, Contract!Void, Sound
  <2> QED BY <2>1, <2>2
<1>5. ASSUME NEW t \in Threads, GiveUp(t)
      PROVE  Contract!ReturnTimeout(t)
  BY <1>3, <1>5 DEF Contract!ReturnTimeout, Contract!Timeout
<1>6. ASSUME NEW t \in Threads, Unlock(t)
      PROVE  Contract!Accept(t)
  <2>1. phase[t] = "returned" /\ phase' = [phase EXCEPT ![t] = "idle"]
    BY <1>6 DEF Unlock, Phase
  <2> QED BY <1>6, <2>1 DEF Unlock, Contract!Accept
<1>7. CASE Fetch \/ Ignore \/ UNCHANGED vars
  BY <1>7 DEF Fetch, Ignore, vars, Phase, Contract!vars
<1>8. CASE Answer
  <2>1. UNCHANGED <<phase, got, submitted, timeouts>>
    BY <1>8 DEF Answer, Phase
  <2>2. executed' \in Int
    OBVIOUS
  <2>3. ASSUME Sound PROVE executed < executed' /\ executed' <= submitted
    <3>1. rirb'[rirbWp'] = link /\ answered < link /\ link <= submitted
      BY <1>0, <1>8, <2>3, AnswerStep DEF RingInvariant, Rings
    <3>2. base <= answered /\ link = fetched
      BY <1>8, <2>3 DEF RingInvariant, Lockstep, Contents, Answer
    <3>3. answered # base => rirb[rirbWp] < link
      BY <1>8, <2>3, <3>2 DEF RingInvariant, Contents, Answer
    <3> QED BY <1>8, <3>1, <3>2, <3>3 DEF Answer
  <2> QED BY <2>1, <2>2, <2>3 DEF Contract!Next, Contract!Execute, Contract!Void, Sound
<1>9. CASE Reset
  <2>1. \A t \in Threads : phase[t] = "idle"
    BY <1>9 DEF Reset, Phase
  <2>2. UNCHANGED <<phase, got, submitted>> /\ executed' = submitted /\ timeouts' = 0
    BY <1>9 DEF Reset, Phase
  <2> QED BY <2>1, <2>2 DEF Contract!Next, Contract!Reset
<1> HIDE DEF executed, phase
<1> QED BY <1>1, <1>2, <1>4, <1>5, <1>6, <1>7, <1>8, <1>9
        DEF Next, Step, Contract!Next, Contract!vars, executed, phase

(* Every behaviour of the rings is one the contract allows: verb calls are  *)
(* serial, executed at most once and in order, and answered with their own  *)
(* response or TIMEOUT, until Slots - 1 calls have timed out.               *)
THEOREM ContractHolds == Spec => ImplementsVerbCall
<1>1. Init => Contract!Init
  BY DEF Init, Contract!Init, Contract!Timeout, Phase, Slot
<1>2. TypeOK /\ RingInvariant /\ TypeOK' /\ RingInvariant' /\ [Next]_vars
      => [Contract!Next]_Contract!vars
  BY ContractStep
<1> QED BY <1>1, <1>2, TypeCorrect, RingInvariantHolds, PTL
        DEF Spec, ImplementsVerbCall, Contract!Spec
=============================================================================
