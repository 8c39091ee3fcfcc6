----------------------------- MODULE StreamParams -----------------------------
(***************************************************************************)
(* The parameters of a stream (uhda.cpp) and the format word that describes*)
(* its samples to a converter and to a stream descriptor (spec.hpp,        *)
(* fmt_utils.hpp), as the values of its fields.                            *)
(***************************************************************************)
EXTENDS Integers, Sequences, FiniteSetsExt

\* The rates there are, in rising order, with their BASE, MULT and DIV fields.
RateTable == <<
    <<5513, 1, 0, 7>>, <<6000, 0, 0, 7>>, <<6300, 1, 0, 6>>, <<6857, 0, 0, 6>>,
    <<7350, 1, 0, 5>>, <<8000, 0, 0, 5>>, <<8820, 1, 0, 4>>, <<9600, 0, 0, 4>>,
    <<11025, 1, 0, 3>>, <<12000, 0, 0, 3>>, <<12600, 1, 1, 6>>, <<13714, 0, 1, 6>>,
    <<14700, 1, 0, 2>>, <<16000, 0, 0, 2>>, <<16538, 1, 2, 7>>, <<17640, 1, 1, 4>>,
    <<18000, 0, 2, 7>>, <<18900, 1, 2, 6>>, <<19200, 0, 1, 4>>, <<20571, 0, 2, 6>>,
    <<22050, 1, 0, 1>>, <<24000, 0, 0, 1>>, <<25200, 1, 3, 6>>, <<26460, 1, 2, 4>>,
    <<27429, 0, 3, 6>>, <<28800, 0, 2, 4>>, <<29400, 1, 1, 2>>, <<32000, 0, 1, 2>>,
    <<33075, 1, 2, 3>>, <<35280, 1, 3, 4>>, <<36000, 0, 2, 3>>, <<38400, 0, 3, 4>>,
    <<44100, 1, 0, 0>>, <<48000, 0, 0, 0>>, <<58800, 1, 3, 2>>, <<64000, 0, 3, 2>>,
    <<66150, 1, 2, 1>>, <<72000, 0, 2, 1>>, <<88200, 1, 1, 0>>, <<96000, 0, 1, 0>>,
    <<132300, 1, 2, 0>>, <<144000, 0, 2, 0>>, <<176400, 1, 3, 0>>, <<192000, 0, 3, 0>>>>

\* Of a rate in between the next one above is taken, of one beyond the last the
\* last.
RowOf(rate) == Min({i \in DOMAIN RateTable : i = Len(RateTable) \/ rate <= RateTable[i][1]})
SetSampleRate(rate) == RateTable[RowOf(rate)][1]
SetChannels(channels) == IF channels = 0 THEN 1 ELSE IF channels > 16 THEN 16 ELSE channels

\* UhdaFormat, the bits per sample, and the BITS field.
SampleFormat == {"pcm8", "pcm16", "pcm20", "pcm24", "pcm32"}
BitsOf(fmt) == CASE fmt = "pcm8" -> 8 [] fmt = "pcm16" -> 16 [] fmt = "pcm20" -> 20
                 [] fmt = "pcm24" -> 24 [] fmt = "pcm32" -> 32 [] OTHER -> 0
BitsField(bits) == IF bits <= 8 THEN 0 ELSE IF bits <= 16 THEN 1 ELSE IF bits <= 20 THEN 2
                   ELSE IF bits <= 24 THEN 3 ELSE 4

PcmFormatFromParams(rate, channels, fmt) ==
    LET row == RateTable[RowOf(rate)]
    IN [base |-> row[2], mult |-> row[3], div |-> row[4],
        bits |-> BitsField(BitsOf(fmt)), chan |-> SetChannels(channels) - 1]

\* uhda_check_stream_params
MinPeriodSize == 2
Alignment == 2
MinPeriods == 2
MaxPeriods == 256
MinCallbackDistance == 1
CheckStreamParams(p) ==
    /\ SetSampleRate(p.rate) = p.rate
    /\ SetChannels(p.channels) = p.channels
    /\ p.periodSize >= MinPeriodSize /\ p.periodSize % Alignment = 0
    /\ p.periods \in MinPeriods .. MaxPeriods
    /\ p.distance \in MinCallbackDistance .. p.periods
    /\ p.callback
-----------------------------------------------------------------------------
(* What the hardware makes of the word: the rate in Hz (half up), the number of *)
(* channels and the bits of a sample.                                        *)

RateOf(f) == LET base == IF f.base = 1 THEN 44100 ELSE 48000
             IN (2 * base * (f.mult + 1) + f.div + 1) \div (2 * (f.div + 1))
ChannelsOf(f) == f.chan + 1
SampleBits(f) == <<8, 16, 20, 24, 32>>[f.bits + 1]
Plays(f, p) == /\ RateOf(f) = p.rate /\ ChannelsOf(f) = p.channels
               /\ SampleBits(f) = BitsOf(p.fmt)
=============================================================================
