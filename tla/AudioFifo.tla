----------------------------- MODULE AudioFifo -----------------------------
(***************************************************************************)
(* What the simple stream API promises the producer of audio: what is      *)
(* queued is played once and in order.  A sample is first in the queue,    *)
(* from where it can still be cleared, then it is committed to the device, *)
(* which plays it.  The device may play silence at any time (a stutter).   *)
(*                                                                         *)
(* SimpleStream implements this with the ring and the cyclic DMA buffer.   *)
(***************************************************************************)
EXTENDS Sequences, Naturals

CONSTANT Token       \* the samples

VARIABLES queue,     \* queued, can be cleared
          committed  \* handed to the device, will be played

vars == <<queue, committed>>

Init == queue = <<>> /\ committed = <<>>

\* The producer adds to the end of the queue.
Put == /\ Len(queue') > Len(queue)
       /\ SubSeq(queue', 1, Len(queue)) = queue
       /\ \A i \in 1 .. Len(queue') : queue'[i] \in Token
       /\ UNCHANGED committed

\* The driver hands over a prefix of the queue.
Commit == \E k \in 1 .. Len(queue) :
    /\ committed' = committed \o SubSeq(queue, 1, k)
    /\ queue' = SubSeq(queue, k + 1, Len(queue))

\* The device plays the oldest committed sample.
Emit == /\ committed # <<>>
        /\ committed' = Tail(committed)
        /\ UNCHANGED queue

Clear == queue' = <<>> /\ UNCHANGED committed

Close == queue' = <<>> /\ committed' = <<>>

Next == Put \/ Commit \/ Emit \/ Clear \/ Close

Spec == Init /\ [][Next]_vars
=============================================================================
