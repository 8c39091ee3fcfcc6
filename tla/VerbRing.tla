------------------------------ MODULE VerbRing ------------------------------
(***************************************************************************)
(* The verb engine of the controller: a caller of one of the UhdaCodec     *)
(* verb wrappers (codec.cpp) takes the controller's spinlock, writes a     *)
(* verb into the CORB, rings the doorbell by advancing CORBWP and polls    *)
(* RIRBWP until it equals the index of the CORB entry it wrote; it then    *)
(* takes the response from the RIRB entry of the same index.  Nothing else *)
(* ties a response to its verb: the two rings have to run in lockstep.     *)
(*                                                                         *)
(* The hardware (external) fetches CORB entries in order and writes        *)
(* answers to the RIRB in order; a codec that is absent or dead does not   *)
(* answer.  A verb is represented by its number in the order of calls, and *)
(* a response by the number of the verb it answers.                        *)
(***************************************************************************)
EXTENDS Integers

CONSTANTS Threads,     \* the callers
          NoThread,
          Slots,       \* the entries of CORB and RIRB: uint8_t index, 256
          MaxVerbs     \* bound on the number of verbs submitted

ASSUME SlotsAssumption == Slots \in Nat /\ Slots >= 2
ASSUME ThreadsAssumption == NoThread \notin Threads
ASSUME MaxVerbsAssumption == MaxVerbs \in Nat

Slot == 0 .. Slots - 1
NoVerb == 0
Timeout == -1

VARIABLES corbWp, corb,      \* CORBWP register, CORB memory
          rirbWp, rirb,      \* RIRBWP register, RIRB memory
          corbRp, link,      \* hardware: fetch position, verb on the link
          lock,              \* the holder of UhdaController::lock
          pc, index, mine,   \* per caller: step, local index, verb written
          got,               \* per caller: response or Timeout
          submitted,         \* verbs written to the CORB so far
          fetched, answered, \* verbs fetched and answered, counted from the
                             \* number submitted at the last reset
          base,              \* submitted at the last reset
          timeouts           \* calls timed out since the last reset

ring == <<corbWp, corb>>
hw == <<corbRp, link, rirbWp, rirb, fetched, answered>>
call == <<pc, index, mine, got>>
vars == <<ring, hw, lock, call, submitted, base, timeouts>>

Init == /\ corbWp = 0 /\ corbRp = 0 /\ rirbWp = 0
        /\ corb = [i \in Slot |-> NoVerb] /\ rirb = [i \in Slot |-> NoVerb]
        /\ link = NoVerb
        /\ lock = NoThread
        /\ pc = [t \in Threads |-> "idle"]
        /\ index = [t \in Threads |-> 0]
        /\ mine = [t \in Threads |-> NoVerb]
        /\ got = [t \in Threads |-> Timeout]
        /\ submitted = 0 /\ fetched = 0 /\ answered = 0
        /\ base = 0 /\ timeouts = 0
-----------------------------------------------------------------------------
(* The driver *)

Goto(t, l) == pc' = [pc EXCEPT ![t] = l]

\* The index after i: the uint8_t addition in submit_verb, modulo the entries.
SuccNoWrap(i) == i + 1
Succ(i) == IF i = Slots - 1 THEN 0 ELSE i + 1

\* LockGuard's constructor. MaxVerbs bounds the calls.
LockUnguarded(t) == /\ pc[t] = "idle" /\ submitted < MaxVerbs
                    /\ lock' = t /\ Goto(t, "locked")
                    /\ UNCHANGED <<ring, hw, index, mine, got, submitted, base, timeouts>>
Lock(t) == /\ pc[t] = "idle" /\ submitted < MaxVerbs
           /\ lock = NoThread
           /\ lock' = t /\ Goto(t, "locked")
           /\ UNCHANGED <<ring, hw, index, mine, got, submitted, base, timeouts>>

\* submit_verb: read CORBWP, build the descriptor, store it after the last one.
WriteVerb(t) == LET i == Succ(corbWp) IN
    /\ pc[t] = "locked" /\ Goto(t, "written")
    /\ submitted' = submitted + 1
    /\ index' = [index EXCEPT ![t] = i]
    /\ mine' = [mine EXCEPT ![t] = submitted + 1]
    /\ corb' = [corb EXCEPT ![i] = submitted + 1]
    /\ UNCHANGED <<corbWp, hw, lock, got, base, timeouts>>

\* submit_verb stores CORBWP; the first loop of wait_for_verb reads back what
\* only the lock holder writes, so it ends in its first round.
Doorbell(t) == /\ pc[t] = "written" /\ Goto(t, "polling")
               /\ corbWp' = index[t]
               /\ UNCHANGED <<corb, hw, lock, index, mine, got, submitted, base, timeouts>>

\* The second loop of wait_for_verb sees the index it waits for ...
SeeAtLeast(t) == /\ pc[t] = "polling" /\ rirbWp >= index[t]
                 /\ Goto(t, "answered")
                 /\ UNCHANGED <<ring, hw, lock, index, mine, got, submitted, base, timeouts>>
SeeAnswer(t) == /\ pc[t] = "polling" /\ rirbWp = index[t]
                /\ Goto(t, "answered")
                /\ UNCHANGED <<ring, hw, lock, index, mine, got, submitted, base, timeouts>>

\* ... and the response is read from the RIRB in a later access ...
ReadAnswer(t) == /\ pc[t] = "answered" /\ Goto(t, "returned")
                 /\ got' = [got EXCEPT ![t] = rirb[index[t]]]
                 /\ UNCHANGED <<ring, hw, lock, index, mine, submitted, base, timeouts>>

\* ... or its 10000 polls run out. The polls have no delay between them: any
\* number of hardware steps fits between the doorbell and the last poll.
PollForever(t) == pc[t] = "polling" /\ FALSE
GiveUp(t) == /\ pc[t] = "polling" /\ rirbWp # index[t]
             /\ Goto(t, "returned")
             /\ got' = [got EXCEPT ![t] = Timeout]
             /\ timeouts' = timeouts + 1
             /\ UNCHANGED <<ring, hw, lock, index, mine, submitted, base>>

\* LockGuard's destructor.
Unlock(t) == /\ pc[t] = "returned" /\ Goto(t, "idle")
             /\ lock' = NoThread
             /\ UNCHANGED <<ring, hw, index, mine, got, submitted, base, timeouts>>
-----------------------------------------------------------------------------
(* The hardware (external) *)

Fetch == /\ corbRp # corbWp /\ link = NoVerb
         /\ corbRp' = Succ(corbRp)
         /\ link' = corb[Succ(corbRp)]
         /\ fetched' = fetched + 1
         /\ UNCHANGED <<ring, rirbWp, rirb, answered, lock, call, submitted, base, timeouts>>

Answer == /\ link # NoVerb /\ link' = NoVerb
          /\ rirbWp' = Succ(rirbWp)
          /\ rirb' = [rirb EXCEPT ![Succ(rirbWp)] = link]
          /\ answered' = answered + 1
          /\ UNCHANGED <<ring, corbRp, fetched, lock, call, submitted, base, timeouts>>

\* The codec addressed by the verb is absent or dead.
Ignore == /\ link # NoVerb /\ link' = NoVerb
          /\ UNCHANGED <<ring, corbRp, rirbWp, rirb, fetched, answered, lock,
                         call, submitted, base, timeouts>>

\* suspend() takes the controller through reset and resume() starts the rings
\* again; the memory of the rings keeps its contents. Callers are expected to
\* be outside the driver (uhda.h: not safe to use until uhda_resume).
ResetCorbOnly == /\ \A t \in Threads : pc[t] = "idle"
                 /\ corbWp' = 0 /\ corbRp' = 0 /\ link' = NoVerb
                 /\ fetched' = submitted /\ answered' = submitted /\ base' = submitted
                 /\ timeouts' = 0
                 /\ UNCHANGED <<rirbWp, corb, rirb, lock, call, submitted>>
Reset == /\ \A t \in Threads : pc[t] = "idle"
         /\ corbWp' = 0 /\ corbRp' = 0 /\ rirbWp' = 0 /\ link' = NoVerb
         /\ fetched' = submitted /\ answered' = submitted /\ base' = submitted
         /\ timeouts' = 0
         /\ UNCHANGED <<corb, rirb, lock, call, submitted>>
-----------------------------------------------------------------------------
Step(t) == \/ Lock(t) \/ WriteVerb(t) \/ Doorbell(t)
           \/ SeeAnswer(t) \/ ReadAnswer(t) \/ GiveUp(t) \/ Unlock(t)

Next == \/ \E t \in Threads : Step(t)
        \/ Fetch \/ Answer \/ Ignore \/ Reset

Spec == Init /\ [][Next]_vars

\* A caller inside the driver runs; nothing is assumed of the hardware, nor of
\* who wins the spinlock.
Fairness == \A t \in Threads : WF_vars(lock = t /\ Step(t))
FairSpec == Spec /\ Fairness
-----------------------------------------------------------------------------
(* Properties *)

Steps == {"idle", "locked", "written", "polling", "answered", "returned"}

\* Indices and ring pointers stay inside the rings, and the steps of a caller
\* are the ones of the code.
TypeOK == /\ corbWp \in Slot /\ corbRp \in Slot /\ rirbWp \in Slot
          /\ corb \in [Slot -> Nat] /\ rirb \in [Slot -> Nat]
          /\ link \in Nat
          /\ lock \in Threads \cup {NoThread}
          /\ pc \in [Threads -> Steps]
          /\ index \in [Threads -> Slot]
          /\ mine \in [Threads -> Nat]
          /\ got \in [Threads -> Nat \cup {Timeout}]
          /\ submitted \in Nat /\ fetched \in Nat /\ answered \in Nat
          /\ base \in Nat /\ timeouts \in Nat

\* The number of steps from slot a forward to slot b.
Dist(a, b) == IF a <= b THEN b - a ELSE Slots - a + b

\* The rings are sound while fewer than Slots - 1 calls have timed out since
\* the last reset.
Sound == timeouts < Slots - 1

\* A call that returns a response returns the one to its own verb, whatever
\* late or missing answers came before: the index comparison in wait_for_verb
\* cannot be fooled by the answer to an older verb.
OwnResponse == \A t \in Threads :
    Sound /\ pc[t] = "returned" /\ got[t] # Timeout => got[t] = mine[t]

\* The codecs receive every verb that was submitted, once and in the order of
\* the calls: no CORB entry is overwritten before the hardware has fetched it,
\* and none is fetched before it is written.
FetchInOrder == Sound /\ link # NoVerb => link = fetched

\* As long as every verb fetched since the last reset has been answered, a
\* caller whose verb is answered sees it: the poll cannot miss the answer.
AnswerVisible == \A t \in Threads :
    /\ pc[t] = "polling" /\ answered = mine[t]
    => rirbWp = index[t] /\ rirb[index[t]] = mine[t]

\* The verbs the hardware has been told of: all but one just being written.
Rung == IF lock # NoThread /\ pc[lock] = "written" THEN submitted - 1 ELSE submitted

\* Exactly the caller inside a verb wrapper holds the lock.
LockHeld == \A t \in Threads : pc[t] # "idle" <=> lock = t

\* The lag of each hardware pointer behind CORBWP is the number of verbs still
\* to be fetched, respectively answered; the latter are paid for by timeouts.
Lockstep ==
    /\ base <= answered /\ answered <= fetched /\ fetched <= Rung
    /\ Dist(corbRp, corbWp) = Rung - fetched
    /\ Dist(rirbWp, corbWp) = Rung - answered
    /\ submitted - answered <= timeouts
         + (IF lock # NoThread /\ pc[lock] \in {"written", "polling"} THEN 1 ELSE 0)

\* What the slots between the pointers hold.
OnLink == IF link = NoVerb THEN 0 ELSE 1
Contents ==
    /\ \A i \in Slot : Dist(corbRp, i) \in 1 .. Rung - fetched
                        => corb[i] = fetched + Dist(corbRp, i)
    /\ link # NoVerb => link = fetched /\ answered < fetched
    /\ answered > base => rirb[rirbWp] <= fetched - OnLink
    /\ answered > base /\ fetched = answered + OnLink => rirb[rirbWp] = answered

\* What the holder of the lock knows at each of its steps.
Progress == \A t \in Threads :
    /\ pc[t] \in {"written", "polling", "answered"} =>
         mine[t] = submitted /\ base < submitted
    /\ pc[t] = "written" => index[t] = Succ(corbWp) /\ corb[index[t]] = mine[t]
    /\ pc[t] \in {"polling", "answered"} => index[t] = corbWp
    /\ pc[t] = "answered" => answered = submitted
    /\ pc[t] = "returned" => got[t] \in {Timeout, mine[t]}

\* The inductive invariant behind OwnResponse and FetchInOrder: while the rings
\* are sound the pointers the driver and the hardware keep are the numbers of
\* verbs submitted, fetched and answered, modulo the ring.
RingInvariant == LockHeld /\ (Sound => Lockstep /\ Contents /\ Progress)

\* Every caller that takes the lock gives it back, with a dead codec or dead
\* hardware too: the poll loops of wait_for_verb are bounded.
LockReleased == \A t \in Threads : lock = t ~> lock # t

\* The engine implements the contract of VerbCall.
Phase(t) == CASE pc[t] \in {"idle", "locked"} -> "idle"
              [] pc[t] \in {"written", "polling", "answered"} -> "pending"
              [] OTHER -> "returned"

Contract == INSTANCE VerbCall WITH
    phase <- [t \in Threads |-> Phase(t)],
    issued <- submitted,
    executed <- IF answered = base THEN base ELSE rirb[rirbWp],
    failed <- timeouts

ImplementsVerbCall == Contract!Spec
=============================================================================
