------------------------- MODULE StreamParamsProofs -------------------------
(***************************************************************************)
(* Proofs about the parameters of a stream: the parameters that are        *)
(* accepted are exactly the ones that a format word can say, and the word  *)
(* that is sent to the converter and to the stream says them.              *)
(***************************************************************************)
EXTENDS StreamParams, WellFoundedInduction, TLAPS

Rows == 1 .. 44

\* The fields of a row of the table.
Fields(i) == [base |-> RateTable[i][2], mult |-> RateTable[i][3], div |-> RateTable[i][4]]

LEMMA TableFacts == DOMAIN RateTable = Rows /\ Len(RateTable) = 44
BY DEF RateTable, Rows

\* The fields of each row stand for its rate, which is a rate in Hz.
LEMMA RowExact == \A i \in Rows : RateOf(Fields(i)) = RateTable[i][1] /\ RateTable[i][1] \in Nat
BY DEF Rows, RateTable, Fields, RateOf

\* The rows are in rising order.
LEMMA RowsRise == \A i, j \in Rows : i < j => RateTable[i][1] < RateTable[j][1]
BY SMTT(60) DEF Rows, RateTable

\* A non-empty set of rows has a least one.
LEMMA LeastRow ==
    ASSUME NEW S \in SUBSET Rows, S # {}
    PROVE  Min(S) \in S /\ \A j \in S : Min(S) <= j
<1>1. S \subseteq Nat
  BY DEF Rows
<1>2. PICK i \in S : \A j \in S : ~ (<<j, i>> \in OpToRel(<, Nat))
  BY <1>1, NatLessThanWellFounded, WFMin
<1>3. \A j \in S : i <= j
  <2> TAKE j \in S
  <2>1. ~ (j < i)
    BY <1>1, <1>2 DEF OpToRel
  <2> QED BY <1>1, <2>1
<1> QED BY <1>3 DEF Min

\* The row for a rate is the first whose rate is not below it, or the last row.
LEMMA RowOfFacts ==
    ASSUME NEW rate \in Nat
    PROVE  /\ RowOf(rate) \in Rows
           /\ RowOf(rate) = 44 \/ rate <= RateTable[RowOf(rate)][1]
           /\ \A j \in Rows : j = 44 \/ rate <= RateTable[j][1] => RowOf(rate) <= j
<1> DEFINE S == {i \in Rows : i = 44 \/ rate <= RateTable[i][1]}
<1>1. S \in SUBSET Rows /\ 44 \in S
  BY DEF Rows
<1>2. RowOf(rate) = Min(S)
  BY TableFacts DEF RowOf
<1>3. Min(S) \in S /\ \A j \in S : Min(S) <= j
  BY <1>1, LeastRow
<1> QED BY <1>2, <1>3

\* The sample sizes.
LEMMA BitsExact == \A fmt \in SampleFormat : <<8, 16, 20, 24, 32>>[BitsField(BitsOf(fmt)) + 1] = BitsOf(fmt)
<1>1. BitsOf("pcm8") = 8 /\ BitsOf("pcm16") = 16 /\ BitsOf("pcm20") = 20
      /\ BitsOf("pcm24") = 24 /\ BitsOf("pcm32") = 32
  BY DEF BitsOf
<1>2. BitsField(8) = 0 /\ BitsField(16) = 1 /\ BitsField(20) = 2 /\ BitsField(24) = 3 /\ BitsField(32) = 4
  BY DEF BitsField
<1> QED BY <1>1, <1>2 DEF SampleFormat

\* Parameters that uhda_check_stream_params accepts are played exactly: the format
\* word that pcm_format_from_params makes of them stands for their rate, their
\* channels and their sample size, for every rate and number of channels.
THEOREM AcceptedPlays ==
    ASSUME NEW p, p.rate \in Nat, p.channels \in Nat, p.fmt \in SampleFormat, CheckStreamParams(p)
    PROVE  Plays(PcmFormatFromParams(p.rate, p.channels, p.fmt), p)
<1> DEFINE f == PcmFormatFromParams(p.rate, p.channels, p.fmt)
           row == RowOf(p.rate)
<1>1. row \in Rows /\ RateTable[row][1] = p.rate
  BY RowOfFacts DEF CheckStreamParams, SetSampleRate
<1>2. f.base = RateTable[row][2] /\ f.mult = RateTable[row][3] /\ f.div = RateTable[row][4]
      /\ f.bits = BitsField(BitsOf(p.fmt)) /\ f.chan = SetChannels(p.channels) - 1
  BY DEF PcmFormatFromParams
<1>3. RateOf(f) = RateOf(Fields(row))
  BY <1>2 DEF RateOf, Fields
<1>4. RateOf(f) = p.rate
  BY <1>1, <1>3, RowExact
<1>5. ChannelsOf(f) = p.channels
  BY <1>2 DEF ChannelsOf, CheckStreamParams, SetChannels
<1>6. SampleBits(f) = BitsOf(p.fmt)
  BY <1>2, BitsExact DEF SampleBits
<1> QED BY <1>4, <1>5, <1>6 DEF Plays

\* No rate of the table is refused: set_sample_rate gives each back unchanged.
THEOREM RatesAccepted == \A i \in Rows : SetSampleRate(RateTable[i][1]) = RateTable[i][1]
<1> TAKE i \in Rows
<1> DEFINE rate == RateTable[i][1]
           row == RowOf(rate)
<1>1. rate \in Nat
  BY RowExact
<1>2. row \in Rows /\ row <= i /\ (row = 44 \/ rate <= RateTable[row][1])
  BY <1>1, RowOfFacts
<1>3. row = i
  <2>1. CASE row < i
    <3>1. RateTable[row][1] < rate
      BY <1>2, <2>1, RowsRise
    <3>2. row # 44
      BY <1>2, <2>1 DEF Rows
    <3> QED BY <1>1, <1>2, <3>1, <3>2, RowExact
  <2> QED BY <1>2, <2>1 DEF Rows
<1> QED BY <1>3 DEF SetSampleRate
=============================================================================
