----------------------------- MODULE GainTiming -----------------------------
(***************************************************************************)
(* The timing words of the chip that are computed from its clocks, after   *)
(* every change of them: the gain control (gc_update), the RSSI            *)
(* measurement (rssi_setup) and the aux ADC (auxadc_setup). Each of the    *)
(* three can reject a rate, at a moment when the clocks already run at it. *)
(***************************************************************************)
EXTENDS Integers, FiniteSetsExt

CeilDiv(n, d)  == (n + d - 1) \div d
RoundDiv(n, d) == (n + d \div 2) \div d
Capped(n, top) == IF n > top THEN top ELSE n

Log2(n) == Max({0} \cup {e \in 0..30 : 2^e <= n})

(***************************************************************************)
(* gc_update. clkrf and rx are rates, lna the settling delay of an         *)
(* external LNA in ns. The products fit 32 bits up to lna = 8000.          *)
(***************************************************************************)
AttackDelay(clkrf, lna, margin) ==
  Capped(CeilDiv((200 + lna) \div 2 + 14000000 \div (clkrf \div 500), 1000) + margin, 31)

PeakWait(clkrf, lna) ==
  Capped(CeilDiv((lna + 100) * (clkrf \div 1000), 1000000) + 1, 31)

SettlingDelay(clkrf, lna) ==
  Capped(CeilDiv((lna + 200) * (clkrf \div 2000), 1000000) + 7, 31)

MaxUpdateCounter == 131071

\* In pairs of CLKRF cycles. An interval shorter than the settling delay
\* wraps around below 0 and ends up at the limit.
UpdateCounter(clkrf, lna, intervalUs) ==
  LET cycles == intervalUs * (clkrf \div 1000) - SettlingDelay(clkrf, lna) * 2000 - 2000
  IN  IF cycles < 0 THEN MaxUpdateCounter ELSE Capped(RoundDiv(cycles, 2000), MaxUpdateCounter)

FirDiv(clkrf, rx) == Max({RoundDiv(clkrf, rx), 1})

PowerMeasureAsAsked(clkrf, rx, lna, intervalUs, asked) == asked   \* mutant: no fallback

\* dec_pow_meas_dur in the slow modes: as configured if an update interval
\* holds two measurements of it, and half an interval otherwise.
PowerMeasure(clkrf, rx, lna, intervalUs, asked) ==
  LET counter == UpdateCounter(clkrf, lna, intervalUs)
      perFir  == FirDiv(clkrf, rx)
  IN  IF asked = 0 \/ ((counter * 2) \div perFir) \div asked < 2
      THEN counter \div perFir ELSE asked

\* What the four bits of the register measure: 16 samples times 2^field.
PowerField(duration) == Log2(duration \div 16) % 16
MeasuredSamples(duration) == 16 * 2^PowerField(duration)

GcAccepts(clkrf, rx, lna, intervalUs, asked) ==
  clkrf >= 2000 /\ rx # 0 /\ PowerMeasure(clkrf, rx, lna, intervalUs, asked) >= 16

\* GainUpdateCounter1 and 2 with the double_gain_counter bit.
CounterWords(counter) ==
  LET double == counter > 65535
      word   == IF double THEN counter \div 2 ELSE counter
  IN  [double |-> double, low |-> word % 256, high |-> (word \div 256) % 256]

(***************************************************************************)
(* rssi_setup: microseconds become RX samples, and those become up to four *)
(* power-of-two chunks, largest first, with a weight each. The chunks of a *)
(* duration are a function of how many are taken.                          *)
(***************************************************************************)
Samples(us, rx) == (us * ((rx + 500) \div 1000) + 500) \div 1000

ChunkOf(rest) == IF rest = 0 THEN 0 ELSE 2^Capped(Log2(rest), 14)

Chunks(duration) ==
  LET first  == ChunkOf(duration)
      second == ChunkOf(duration - first)
      third  == ChunkOf(duration - first - second)
      fourth == ChunkOf(duration - first - second - third)
  IN  <<first, second, third, fourth>>

TotalOf(chunks) == chunks[1] + chunks[2] + chunks[3] + chunks[4]
CountOf(chunks) == Cardinality({i \in 1..4 : chunks[i] > 0})

RoundedWeight(chunks, i) == RoundDiv(255 * chunks[i], TotalOf(chunks))

\* "weights have to add up to 0xFF": the last one takes the difference.
WeightsUncorrected(chunks) == [i \in 1..4 |-> RoundedWeight(chunks, i)]   \* mutant
Weights(chunks) ==
  LET rounded == [i \in 1..4 |-> RoundedWeight(chunks, i)]
      extra   == TotalOf(rounded) - 255
  IN  [rounded EXCEPT ![CountOf(chunks)] = @ - extra]

WrittenWeights(chunks) == [i \in 1..4 |-> Weights(chunks)[i] % 256]

RssiAccepts(us, rx) == Samples(us, rx) > 0

\* auxadc_setup: the divider from the BBPLL to the aux ADC clock.
AuxadcDivider(bbpll, auxadc) == bbpll \div auxadc
AuxadcAcceptsFiveBits(bbpll, auxadc) == AuxadcDivider(bbpll, auxadc) < 32   \* mutant
AuxadcAccepts(bbpll, auxadc) == AuxadcDivider(bbpll, auxadc) < 64
=============================================================================
