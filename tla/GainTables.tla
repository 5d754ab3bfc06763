----------------------------- MODULE GainTables -----------------------------
(***************************************************************************)
(* The RX gain tables of the driver, as far as it computes with them: the  *)
(* LPF/TIA word of each entry (the second of three), the absolute gain in  *)
(* dB of each entry, and the LO band of each table. Tables 0 to 2 are the  *)
(* full ones, 3 to 5 the split ones. Frequencies are in MHz; the limits of *)
(* the bands are whole ones.                                               *)
(***************************************************************************)
EXTENDS Integers, Sequences

LOCAL Ramp(from, to) == [i \in 1..(to - from + 1) |-> from + i - 1]
LOCAL Const(n, x)    == [i \in 1..n |-> x]

FullWords1 == <<0, 0>> \o Ramp(0, 5) \o Ramp(3, 14) \o Ramp(9, 16) \o Ramp(43, 44)
              \o Ramp(40, 43) \o Ramp(32, 33) \o Ramp(32, 50) \o Ramp(46, 56) \o Const(11, 56)

FullWords2 == <<0, 0>> \o Ramp(0, 5) \o Ramp(3, 14) \o Ramp(9, 16) \o Ramp(43, 44)
              \o Ramp(39, 43) \o Ramp(33, 34) \o Ramp(32, 49) \o Ramp(46, 56) \o Const(11, 56)

FullWords3 == <<0, 0, 0, 0>> \o Ramp(0, 3) \o Ramp(1, 12) \o Ramp(8, 15) \o Ramp(42, 43)
              \o Ramp(39, 45) \o Ramp(32, 34) \o Ramp(32, 46) \o Ramp(46, 56) \o Const(11, 56)

SplitWords1 == Const(10, 24) \o Const(31, 56)
SplitWords2 == Const(11, 24) \o Const(30, 56)
SplitWords3 == Const(13, 24) \o Const(28, 56)

FullAbsGains == << <<-1, -1>> \o Ramp(-1, 73),
                   <<-3, -3>> \o Ramp(-3, 71),
                   Const(4, -10) \o Ramp(-10, 62) >>

SplitAbsGains == << Const(7, -1) \o <<2, 8, 13>> \o Ramp(19, 49),
                    Const(8, -3) \o <<0, 6, 12>> \o Ramp(18, 47),
                    Const(10, -10) \o <<-7, -2, 3>> \o Ramp(9, 20) \o <<22>> \o Ramp(24, 38) >>

Words    == <<FullWords1, FullWords2, FullWords3, SplitWords1, SplitWords2, SplitWords3>>
AbsGains == FullAbsGains \o SplitAbsGains

AllTables == 0..5
IsSplit(t) == t >= 3

\* Entries count from 0.
WordOf(t, i)    == Words[t + 1][i + 1]
AbsGainOf(t, i) == AbsGains[t + 1][i + 1]
EntriesOf(t)    == 0 .. Len(Words[t + 1]) - 1

\* The LO band of a table: above the first, up to the second.
BandOf(t) == CASE t \in {0, 3} -> <<0, 1300>>
               [] t \in {1, 4} -> <<1300, 4000>>
               [] t \in {2, 5} -> <<4000, 6000>>

Covers(t, lo) == BandOf(t)[1] < lo /\ lo <= BandOf(t)[2]

\* The first table if none covers the LO, even with split tables.
GainTableIndex(split, lo) ==
  LET fitting == {t \in AllTables : IsSplit(t) = split /\ Covers(t, lo)}
  IN  IF fitting = {} THEN 0 ELSE CHOOSE t \in fitting : TRUE

\* The entries that the TX quadrature calibration can use: the word & 0x3F,
\* or & 0x20 in a split table, is 0x20.
IsQuadEntry(t, i) ==
  IF IsSplit(t) THEN (WordOf(t, i) \div 32) % 2 = 1 ELSE WordOf(t, i) % 64 = 32
=============================================================================
