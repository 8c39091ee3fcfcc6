---------------------------- MODULE SimpleStream ----------------------------
(***************************************************************************)
(* The simple stream (simple.cpp): a producer queues audio into a ring;    *)
(* the period callback, run by the interrupt of the base stream, moves as  *)
(* much of it as the hardware has played since the last interrupt into the *)
(* cyclic DMA buffer, ahead of the hardware; silence stands in for what is *)
(* not queued in time.                                                     *)
(*                                                                         *)
(* Positions count units of the buffer.  The content of a cell is a token, *)
(* Silence, or Stale: not written since the hardware last played it.       *)
(* Tokens are numbered cyclically as they are queued.                      *)
(*                                                                         *)
(* The client uses the API from one thread. play() copies from the ring    *)
(* without taking the stream's lock: with Quiet the client calls it on a   *)
(* paused stream only when no period interrupt is outstanding.             *)
(***************************************************************************)
EXTENDS Integers, Sequences

CONSTANTS Period,       \* the size of a period: 0x1000
          BufferSize,   \* period_count * period_size: 256 * 0x1000
          Allowed,      \* ALLOWED_SOFTWARE_AHEAD: 0x1000 * 4
          Capacity,     \* ring_buffer_size
          Word,         \* 2^32, the range of RingBuffer::size
          MaxLag,       \* how far the hardware plays on between the end of a
                        \* period and the end of the handler of its interrupt
          Tokens,       \* the number of different tokens
          Quiet         \* whether play() waits for outstanding interrupts

ASSUME SizesAssumption ==
    /\ Period \in Nat \ {0} /\ BufferSize \in Nat /\ Allowed \in Nat
    /\ Capacity \in Nat \ {0} /\ MaxLag \in Nat /\ Tokens \in Nat \ {0}
    /\ Word \in Nat /\ Word > Capacity
ASSUME QuietAssumption == Quiet \in BOOLEAN
\* The margins the code relies on: what it writes ahead covers two periods'
\* interrupts in a row that come late, and does not lap the hardware.
ASSUME MarginAssumption ==
    /\ Period + 2 * MaxLag < Allowed
    /\ Allowed + Period + 2 * MaxLag < BufferSize

Silence == -1
Stale == -2
Token == 0 .. Tokens - 1
Cell == 0 .. BufferSize - 1

VARIABLES open,               \* new and setup done, not destroyed
          run, pos, bcis,     \* hardware: RUN, *dma_pos, period completed
          into,               \* units of the current period played
          late,               \* units played since bcis was set
          dma,                \* the content of the DMA buffer
          fill, prev,         \* current_fill_pos, prev_irq_pos
          ring, readPos, writePos, size,   \* RingBuffer
          irq, irqPos,        \* the handler: step, position it has read
          play, want, count, fromRing, \* play(): step, argument, bytes to copy,
                                       \* bytes found in the ring
          next                \* the next token to be queued

hw == <<run, pos, bcis, into, late>>
buffer == <<ring, readPos, writePos, size>>
player == <<play, want, count, fromRing>>
vars == <<open, hw, dma, fill, prev, buffer, irq, irqPos, player, next>>

Unwritten == [c \in Cell |-> Stale]
Blank == [i \in 0 .. Capacity - 1 |-> 0]

Init == /\ open = FALSE
        /\ run = FALSE /\ pos = 0 /\ bcis = FALSE /\ into = 0 /\ late = 0
        /\ dma = Unwritten /\ fill = 0 /\ prev = 0
        /\ ring = Blank /\ readPos = 0 /\ writePos = 0 /\ size = 0
        /\ irq = "idle" /\ irqPos = 0
        /\ play = "out" /\ want = FALSE /\ count = 0 /\ fromRing = 0
        /\ next = 0
-----------------------------------------------------------------------------
MinOf(a, b) == IF a < b THEN a ELSE b

\* Forward distance and advance in a cyclic range of n positions.
Gap(a, b, n) == IF b >= a THEN b - a ELSE n - a + b
MovePast(a, k, n) == IF a + k > n THEN a + k - n ELSE a + k
Move(a, k, n) == IF a + k >= n THEN a + k - n ELSE a + k

\* get_software_ahead
SoftwareAhead(p) == IF fill >= p THEN fill - p ELSE BufferSize - p + fill

\* uhda_copy_bytes_from_ring: n bytes of the DMA buffer from current_fill_pos
\* on are filled, the first k of them from the ring, the others with silence.
CopyReread(n, k) ==
    /\ dma' = [c \in Cell |->
                 LET d == Gap(fill, c, BufferSize) IN
                 IF d >= n THEN dma[c] ELSE IF d < k THEN ring[readPos] ELSE Silence]
    /\ fill' = Move(fill, n, BufferSize)
    /\ readPos' = Move(readPos, k, Capacity)
    /\ size' = size - k
    /\ UNCHANGED <<ring, writePos>>
CopyFromRing(n, k) ==
    /\ dma' = [c \in Cell |->
                 LET d == Gap(fill, c, BufferSize) IN
                 IF d >= n THEN dma[c]
                 ELSE IF d < k THEN ring[Move(readPos, d, Capacity)]
                 ELSE Silence]
    /\ fill' = Move(fill, n, BufferSize)
    /\ readPos' = Move(readPos, k, Capacity)
    /\ size' = IF size >= k THEN size - k ELSE size - k + Word
    /\ UNCHANGED <<ring, writePos>>

\* The stream's lock is held by the handler from its read of the position on.
LockFree == irq # "sampled"
-----------------------------------------------------------------------------
(* The client *)

\* uhda_simple_stream_new zeroes the object.
New == fill' = 0 /\ prev' = 0

\* uhda_simple_stream_setup of a new object makes an empty ring and sets up the
\* base stream.
OpenUsed == /\ ~open /\ open' = TRUE
            /\ UNCHANGED <<hw, dma, fill, prev, buffer, irq, irqPos, player, next>>
Open == /\ ~open /\ open' = TRUE
        /\ New
        /\ UNCHANGED <<hw, dma, buffer, irq, irqPos, player, next>>

\* uhda_stream_shutdown of the stopped base stream resets the hardware and frees
\* the DMA buffer, uhda_simple_stream_destroy frees the ring.
Close == /\ open /\ ~run /\ play = "out" /\ irq = "idle" /\ ~bcis
         /\ open' = FALSE
         /\ pos' = 0 /\ into' = 0 /\ late' = 0
         /\ dma' = Unwritten
         /\ ring' = Blank /\ readPos' = 0 /\ writePos' = 0 /\ size' = 0
         /\ next' = 0
         /\ UNCHANGED <<run, bcis, fill, prev, irq, irqPos, player>>

\* uhda_simple_stream_queue_data of at most n bytes.
QueueAll(n) == LET m == n IN
    /\ open /\ LockFree /\ play = "out"
    /\ ring' = [i \in 0 .. Capacity - 1 |->
                  LET d == Gap(writePos, i, Capacity) IN
                  IF d < m THEN (next + d) % Tokens ELSE ring[i]]
    /\ writePos' = Move(writePos, m, Capacity)
    /\ size' = size + m
    /\ next' = (next + m) % Tokens
    /\ UNCHANGED <<open, hw, dma, fill, prev, readPos, irq, irqPos, player>>
QueueData(n) == LET m == MinOf(n, Capacity - size) IN
    /\ open /\ LockFree /\ play = "out"
    /\ ring' = [i \in 0 .. Capacity - 1 |->
                  LET d == Gap(writePos, i, Capacity) IN
                  IF d < m THEN (next + d) % Tokens ELSE ring[i]]
    /\ writePos' = Move(writePos, m, Capacity)
    /\ size' = size + m
    /\ next' = (next + m) % Tokens
    /\ UNCHANGED <<open, hw, dma, fill, prev, readPos, irq, irqPos, player>>

\* uhda_simple_stream_clear_queue
ClearQueue == /\ open /\ LockFree /\ play = "out"
              /\ readPos' = 0 /\ writePos' = 0 /\ size' = 0
              /\ UNCHANGED <<open, hw, dma, fill, prev, ring, irq, irqPos, player, next>>

\* uhda_simple_stream_play on a running stream only applies the argument; on a
\* paused one the DMA buffer is first filled up to ALLOWED_SOFTWARE_AHEAD.
PlayRunning(b) == /\ open /\ play = "out" /\ run
                  /\ play' = "apply" /\ want' = b
                  /\ UNCHANGED <<open, hw, dma, fill, prev, buffer, irq, irqPos,
                                 count, fromRing, next>>

PlayPaused(b) == LET ahead == SoftwareAhead(pos) IN
    /\ open /\ play = "out" /\ ~run
    /\ Quiet => irq = "idle" /\ ~bcis
    /\ want' = b
    /\ \/ /\ ahead < Allowed
          /\ play' = "size" /\ count' = Allowed - ahead
       \/ /\ ahead >= Allowed
          /\ play' = "apply" /\ UNCHANGED count
    /\ UNCHANGED <<open, hw, dma, fill, prev, buffer, irq, irqPos, fromRing, next>>

\* uhda_copy_bytes_from_ring without the lock: the size of the ring is read ...
PlayReadSize == /\ play = "size" /\ play' = "copy"
                /\ fromRing' = MinOf(count, size)
                /\ UNCHANGED <<open, hw, dma, fill, prev, buffer, irq, irqPos,
                               want, count, next>>

\* ... and the data is copied and the ring updated later.
PlayCopy == /\ play = "copy" /\ play' = "apply"
            /\ CopyFromRing(count, fromRing)
            /\ UNCHANGED <<open, hw, prev, irq, irqPos, want, count, fromRing, next>>

\* uhda_stream_play
PlayApply == /\ play = "apply" /\ play' = "out"
             /\ run' = want
             /\ want' = FALSE /\ count' = 0 /\ fromRing' = 0
             /\ UNCHANGED <<open, pos, bcis, into, late, dma, fill, prev, buffer, irq,
                            irqPos, next>>
-----------------------------------------------------------------------------
(* The interrupt: hda_irq, output_irq and the period callback *)

\* The callback takes the lock and reads the position ...
IrqSample == /\ bcis /\ irq = "idle" /\ irq' = "sampled"
             /\ irqPos' = pos
             /\ UNCHANGED <<open, hw, dma, fill, prev, buffer, player, next>>

\* ... replaces what the hardware has played since the last interrupt ...
Played == IF irqPos >= prev THEN irqPos - prev ELSE BufferSize - prev + irqPos

IrqCopyKeepPrev == /\ irq = "sampled" /\ irq' = "copied"
           /\ CopyFromRing(Played, MinOf(Played, size))
           /\ UNCHANGED <<open, hw, irqPos, prev, player, next>>
IrqCopyPeriod == /\ irq = "sampled" /\ irq' = "copied"
           /\ CopyFromRing(Period, MinOf(Period, size))
           /\ prev' = irqPos
           /\ UNCHANGED <<open, hw, irqPos, player, next>>
IrqCopy == /\ irq = "sampled" /\ irq' = "copied"
           /\ CopyFromRing(Played, MinOf(Played, size))
           /\ prev' = irqPos
           /\ UNCHANGED <<open, hw, irqPos, player, next>>

\* ... and output_irq clears BCIS: a period that ended meanwhile is lost.
IrqLeaveSet == /\ irq = "copied" /\ irq' = "idle" /\ irqPos' = 0
               /\ UNCHANGED <<open, hw, dma, fill, prev, buffer, player, next>>
IrqClear == /\ irq = "copied" /\ irq' = "idle"
            /\ bcis' = FALSE /\ late' = 0 /\ irqPos' = 0
            /\ UNCHANGED <<open, run, pos, into, dma, fill, prev, buffer, player, next>>
-----------------------------------------------------------------------------
(* The hardware (external) *)

Tick == /\ run /\ (bcis => late < MaxLag)
        /\ dma' = [dma EXCEPT ![pos] = Stale]
        /\ pos' = Move(pos, 1, BufferSize)
        /\ into' = Move(into, 1, Period)
        /\ bcis' = (bcis \/ into' = 0)
        /\ late' = IF bcis THEN late + 1 ELSE 0
        /\ UNCHANGED <<open, run, fill, prev, buffer, irq, irqPos, player, next>>
-----------------------------------------------------------------------------
Client == \/ Open \/ Close
          \/ \E n \in 1 .. Capacity : QueueData(n)
          \/ ClearQueue
          \/ \E b \in BOOLEAN : PlayRunning(b) \/ PlayPaused(b)

PlaySteps == PlayReadSize \/ PlayCopy \/ PlayApply

Handler == IrqSample \/ IrqCopy \/ IrqClear

Next == Client \/ PlaySteps \/ Handler \/ Tick

Spec == Init /\ [][Next]_vars

\* The hardware plays while it runs, interrupts are handled, calls return.
FairSpec == Spec /\ WF_vars(Tick) /\ WF_vars(Handler) /\ WF_vars(PlaySteps)
-----------------------------------------------------------------------------
(* Properties *)

\* Positions stay inside the buffers they index; the steps of play() and of the
\* handler are the ones the code has.
TypeOK ==
    /\ open \in BOOLEAN /\ run \in BOOLEAN /\ bcis \in BOOLEAN
    /\ pos \in Cell /\ fill \in Cell /\ prev \in Cell /\ irqPos \in Cell
    /\ into \in 0 .. Period - 1 /\ late \in 0 .. MaxLag
    /\ dma \in [Cell -> Token \cup {Silence, Stale}]
    /\ ring \in [0 .. Capacity - 1 -> Token]
    /\ readPos \in 0 .. Capacity - 1 /\ writePos \in 0 .. Capacity - 1
    /\ size \in 0 .. Word - 1
    /\ irq \in {"idle", "sampled", "copied"}
    /\ play \in {"out", "size", "copy", "apply"} /\ want \in BOOLEAN
    /\ count \in 0 .. Allowed /\ fromRing \in 0 .. Allowed
    /\ next \in Token

\* The hardware never plays a cell that was not filled since it last played it:
\* late and merged period interrupts, pauses and resumes included.
NoUnderrun == run => dma[pos] # Stale

\* What is ahead of the last interrupt's position never falls below the allowed
\* ahead once playback has begun, and pausing and resuming, each of which may
\* leave prev_irq_pos behind, cannot make it (the latency) grow without bound.
Ahead == Gap(prev, fill, BufferSize)
AheadBounded ==
    /\ run => Ahead >= Allowed
    /\ open /\ Ahead # 0 => Ahead \in Allowed .. Allowed + Period + MaxLag - 1

\* What the hardware has played since the position the handler last recorded:
\* at most a period and twice the lag.
Since == Gap(prev, pos, BufferSize)
SinceBounded ==
    /\ irq = "idle" /\ ~bcis => Since <= MaxLag + into
    /\ irq # "idle" => bcis
    /\ bcis /\ irq # "copied" => Since <= MaxLag + Period + late
    /\ irq = "sampled" => /\ Since = Gap(prev, irqPos, BufferSize)
                                       + Gap(irqPos, pos, BufferSize)
                          /\ Gap(irqPos, pos, BufferSize) <= late
    /\ irq = "copied" => prev = irqPos /\ Since <= late

\* What is ahead of the hardware has been written.
Written == \A c \in Cell :
    Gap(pos, c, BufferSize) < Gap(pos, fill, BufferSize) => dma[c] # Stale

\* The inductive invariant behind NoUnderrun and AheadBounded.
MarginInvariant ==
    /\ open => /\ SinceBounded /\ Written
               /\ Since <= Ahead
               /\ Gap(pos, fill, BufferSize) = Ahead - Since
               /\ Ahead = 0 \/ Ahead \in Allowed .. Allowed + Period + MaxLag - 1
               /\ Ahead = 0 => ~run /\ irq = "idle" /\ ~bcis /\ play # "apply"
               /\ play \in {"size", "copy"} =>
                     /\ ~run /\ irq = "idle" /\ ~bcis
                     /\ count + Ahead - Since = Allowed
               /\ play = "copy" => fromRing <= count /\ fromRing <= size
    /\ ~open => ~run /\ irq = "idle" /\ ~bcis /\ play = "out" /\ pos = 0

\* The amount of remaining data is at most the ring, and is what lies between
\* the read and the write position.
RingConsistent == /\ size <= Capacity
                  /\ writePos = Move(readPos, size, Capacity)

\* uhda_simple_stream_get_remaining never reports more than the buffer holds.
RemainingFits == size <= Capacity

\* While the stream runs, queued data does not stay queued, even though the
\* interrupt of a period that ends during the handler is lost.
QueueDrains == <>[](run /\ size > 0) => []<><<readPos' # readPos>>_readPos

\* What the ring holds, what has been filled ahead of the hardware, and the audio
\* among such cells, without the silence.
Queued == [i \in 1 .. size |-> ring[Move(readPos, i - 1, Capacity)]]
Filled == [i \in 1 .. Gap(pos, fill, BufferSize) |-> dma[Move(pos, i - 1, BufferSize)]]
Heard(cells) ==
    LET first[n \in 0 .. Len(cells)] ==   \* what is heard of the first n
            IF n = 0 THEN <<>>
            ELSE IF cells[n] \in Token THEN Append(first[n - 1], cells[n]) ELSE first[n - 1]
    IN first[Len(cells)]

\* What is queued is played once and in order, except what is cleared.
Fifo == INSTANCE AudioFifo WITH queue <- Queued, committed <- Heard(Filled)

ImplementsAudioFifo == Fifo!Spec
=============================================================================
