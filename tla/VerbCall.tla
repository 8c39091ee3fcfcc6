------------------------------ MODULE VerbCall ------------------------------
(***************************************************************************)
(* What the verb engine promises its callers: a codec verb is a remote    *)
(* call.  Calls are serialised; the codec executes a verb at most once and *)
(* in the order of the calls; a call returns either the response to its    *)
(* own verb or TIMEOUT.  The promise is given as long as fewer than        *)
(* Slots - 1 calls have timed out since the controller was last reset:     *)
(* after that a call may return anything until the next reset.             *)
(*                                                                         *)
(* VerbRing implements this contract with the CORB and the RIRB.           *)
(***************************************************************************)
EXTENDS Integers

CONSTANTS Threads,   \* the callers of the UhdaCodec verb wrappers
          Slots      \* the number of entries of the CORB and of the RIRB

Timeout == -1        \* UHDA_STATUS_TIMEOUT; a response is named by its verb

VARIABLES phase,     \* per caller: "idle", "pending" or "returned"
          got,       \* per caller: what its last call returned
          issued,    \* the number of verbs issued; a verb is its number
          executed,  \* the last verb a codec executed and answered
          failed     \* calls that timed out since the last reset

vars == <<phase, got, issued, executed, failed>>

Void == failed >= Slots - 1

Init == /\ phase = [t \in Threads |-> "idle"]
        /\ got = [t \in Threads |-> Timeout]
        /\ issued = 0
        /\ executed = 0
        /\ failed = 0

Issue(t) == /\ phase[t] = "idle"
            /\ \A u \in Threads : phase[u] = "idle"
            /\ phase' = [phase EXCEPT ![t] = "pending"]
            /\ issued' = issued + 1
            /\ UNCHANGED <<got, executed, failed>>

\* A codec may never answer a verb: the next executed verb may skip some.
Execute == /\ executed' \in Int
           /\ \/ Void
              \/ executed < executed' /\ executed' <= issued
           /\ UNCHANGED <<phase, got, issued, failed>>

Return(t) == /\ phase[t] = "pending"
             /\ phase' = [phase EXCEPT ![t] = "returned"]
             /\ got' = [got EXCEPT ![t] = got'[t]]
             /\ UNCHANGED <<issued, executed>>

ReturnOwn(t) == /\ Return(t)
                /\ executed = issued /\ got'[t] = issued
                /\ UNCHANGED failed

ReturnTimeout(t) == Return(t) /\ got'[t] = Timeout /\ failed' = failed + 1

ReturnAny(t) == Return(t) /\ Void /\ UNCHANGED failed

Accept(t) == /\ phase[t] = "returned"
             /\ phase' = [phase EXCEPT ![t] = "idle"]
             /\ UNCHANGED <<got, issued, executed, failed>>

Reset == /\ \A t \in Threads : phase[t] = "idle"
         /\ executed' = issued
         /\ failed' = 0
         /\ UNCHANGED <<phase, got, issued>>

Next == \/ \E t \in Threads : \/ Issue(t)
                              \/ ReturnOwn(t)
                              \/ ReturnTimeout(t)
                              \/ ReturnAny(t)
                              \/ Accept(t)
        \/ Execute
        \/ Reset

Spec == Init /\ [][Next]_vars
=============================================================================
