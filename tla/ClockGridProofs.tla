--------------------------- MODULE ClockGridProofs ---------------------------
(***************************************************************************)
(* For every rate, not only those of a grid: an accepted chain can be made *)
(* by the dividers and makes the requested rates, and the timing words     *)
(* that are computed from it afterwards fit it.                            *)
(***************************************************************************)
EXTENDS MCClockChain, ClockChainProofs, FiniteSetTheorems

-----------------------------------------------------------------------------
(***************************************************************************)
(* The rounding divisions.                                                 *)
(***************************************************************************)
LEMMA QuotientBelow ==
  ASSUME NEW a \in Nat, NEW b \in Nat, b > 0, NEW n \in Nat, a < n * b
  PROVE  a \div b < n
<1> DEFINE c == a \div b
<1>1. c \in Nat /\ c * b <= a
  OBVIOUS
<1> HIDE DEF c
<1>2. CASE c >= n
  <2>1. n * b <= c * b
    BY <1>1, <1>2
  <2> QED
    BY <1>1, <2>1
<1> QED
  BY <1>1, <1>2 DEF c

LEMMA CeilDivThousand ==
  ASSUME NEW n \in Nat
  PROVE  CeilDiv(n, 1000) \in Nat /\ CeilDiv(n, 1000) * 1000 >= n
  BY SMT DEF CeilDiv

LEMMA CeilDivMillion ==
  ASSUME NEW n \in Nat
  PROVE  CeilDiv(n, 1000000) \in Nat /\ CeilDiv(n, 1000000) * 1000000 >= n
  BY SMT DEF CeilDiv

LEMMA CeilDivIsNextQuotient ==
  ASSUME NEW a \in Nat, NEW b \in Nat, b > 0
  PROVE  CeilDiv(a, b) <= a \div b + 1 /\ CeilDiv(a, b) \in Nat
<1> DEFINE c == a \div b
<1>1. c \in Nat /\ a < (c + 1) * b
  OBVIOUS
<1> HIDE DEF c
<1>2. a + b - 1 < (c + 2) * b /\ a + b - 1 \in Nat
  BY <1>1
<1>3. (a + b - 1) \div b < c + 2 /\ (a + b - 1) \div b \in Nat
  BY <1>1, <1>2, QuotientBelow
<1> QED
  BY <1>1, <1>3 DEF CeilDiv, c

LEMMA RoundDivExact ==
  ASSUME NEW a \in Nat, a >= 1, NEW n \in {1, 2, 4}
  PROVE  RoundDiv(n * a, a) = n /\ FirDiv(n * a, a) = n
<1>1. a \div 2 \in Nat /\ 2 * (a \div 2) <= a
  OBVIOUS
<1>2. n * a <= n * a + a \div 2 /\ n * a + a \div 2 < (n + 1) * a
  BY <1>1
<1>3. RoundDiv(n * a, a) = n
  BY <1>1, <1>2, Quotient DEF RoundDiv
<1>4. Max({n, 1}) \in {n, 1} /\ Max({n, 1}) >= n
  <2>1. \E m \in {n, 1} : \A l \in {n, 1} : m >= l
    OBVIOUS
  <2> QED
    BY <2>1, MaxIs
<1>5. Max({n, 1}) = n
  BY <1>4
<1> QED
  BY <1>3, <1>5 DEF FirDiv

(***************************************************************************)
(* Binary logarithms. The products keep the numerals small for the prover. *)
(***************************************************************************)
LEMMA Powers ==
  /\ 2^0 = 1
  /\ 2^1 = 2
  /\ 2^2 = 4
  /\ 2^3 = 8
  /\ 2^4 = 16
  /\ 2^5 = 32
  /\ 2^6 = 32 * 2
  /\ 2^7 = 32 * 4
  /\ 2^8 = 32 * 8
  /\ 2^9 = 32 * 16
  /\ 2^10 = 32 * 32
  /\ 2^11 = 32 * 32 * 2
  /\ 2^12 = 32 * 32 * 4
  /\ 2^13 = 32 * 32 * 8
  /\ 2^14 = 32 * 32 * 16
  /\ 2^15 = 32 * 32 * 32
  /\ 2^16 = 32 * 32 * 32 * 2
  /\ 2^17 = 32 * 32 * 32 * 4
  /\ 2^18 = 32 * 32 * 32 * 8
  /\ 2^19 = 32 * 32 * 32 * 16
  /\ 2^20 = 32 * 32 * 32 * 32
  /\ 2^21 = 32 * 32 * 32 * 32 * 2
  /\ 2^22 = 32 * 32 * 32 * 32 * 4
  /\ 2^23 = 32 * 32 * 32 * 32 * 8
  /\ 2^24 = 32 * 32 * 32 * 32 * 16
  /\ 2^25 = 32 * 32 * 32 * 32 * 32
  /\ 2^26 = 32 * 32 * 32 * 32 * 32 * 2
  /\ 2^27 = 32 * 32 * 32 * 32 * 32 * 4
  /\ 2^28 = 32 * 32 * 32 * 32 * 32 * 8
  /\ 2^29 = 32 * 32 * 32 * 32 * 32 * 16
  /\ 2^30 = 32 * 32 * 32 * 32 * 32 * 32
  BY SMT

LEMMA PowerTable ==
  ASSUME NEW e
  PROVE  /\ e = 0 => 2^e = 1
         /\ e = 1 => 2^e = 2
         /\ e = 2 => 2^e = 4
         /\ e = 3 => 2^e = 8
         /\ e = 4 => 2^e = 16
         /\ e = 5 => 2^e = 32
         /\ e = 6 => 2^e = 32 * 2
         /\ e = 7 => 2^e = 32 * 4
         /\ e = 8 => 2^e = 32 * 8
         /\ e = 9 => 2^e = 32 * 16
         /\ e = 10 => 2^e = 32 * 32
         /\ e = 11 => 2^e = 32 * 32 * 2
         /\ e = 12 => 2^e = 32 * 32 * 4
         /\ e = 13 => 2^e = 32 * 32 * 8
         /\ e = 14 => 2^e = 32 * 32 * 16
         /\ e = 15 => 2^e = 32 * 32 * 32
         /\ e = 16 => 2^e = 32 * 32 * 32 * 2
         /\ e = 17 => 2^e = 32 * 32 * 32 * 4
         /\ e = 18 => 2^e = 32 * 32 * 32 * 8
         /\ e = 19 => 2^e = 32 * 32 * 32 * 16
         /\ e = 20 => 2^e = 32 * 32 * 32 * 32
         /\ e = 21 => 2^e = 32 * 32 * 32 * 32 * 2
         /\ e = 22 => 2^e = 32 * 32 * 32 * 32 * 4
         /\ e = 23 => 2^e = 32 * 32 * 32 * 32 * 8
         /\ e = 24 => 2^e = 32 * 32 * 32 * 32 * 16
         /\ e = 25 => 2^e = 32 * 32 * 32 * 32 * 32
         /\ e = 26 => 2^e = 32 * 32 * 32 * 32 * 32 * 2
         /\ e = 27 => 2^e = 32 * 32 * 32 * 32 * 32 * 4
         /\ e = 28 => 2^e = 32 * 32 * 32 * 32 * 32 * 8
         /\ e = 29 => 2^e = 32 * 32 * 32 * 32 * 32 * 16
         /\ e = 30 => 2^e = 32 * 32 * 32 * 32 * 32 * 32
<1>0. e = 0 => 2^e = 1
  BY Zenon, Powers
<1>1. e = 1 => 2^e = 2
  BY Zenon, Powers
<1>2. e = 2 => 2^e = 4
  BY Zenon, Powers
<1>3. e = 3 => 2^e = 8
  BY Zenon, Powers
<1>4. e = 4 => 2^e = 16
  BY Zenon, Powers
<1>5. e = 5 => 2^e = 32
  BY Zenon, Powers
<1>6. e = 6 => 2^e = 32 * 2
  BY Zenon, Powers
<1>7. e = 7 => 2^e = 32 * 4
  BY Zenon, Powers
<1>8. e = 8 => 2^e = 32 * 8
  BY Zenon, Powers
<1>9. e = 9 => 2^e = 32 * 16
  BY Zenon, Powers
<1>10. e = 10 => 2^e = 32 * 32
  BY Zenon, Powers
<1>11. e = 11 => 2^e = 32 * 32 * 2
  BY Zenon, Powers
<1>12. e = 12 => 2^e = 32 * 32 * 4
  BY Zenon, Powers
<1>13. e = 13 => 2^e = 32 * 32 * 8
  BY Zenon, Powers
<1>14. e = 14 => 2^e = 32 * 32 * 16
  BY Zenon, Powers
<1>15. e = 15 => 2^e = 32 * 32 * 32
  BY Zenon, Powers
<1>16. e = 16 => 2^e = 32 * 32 * 32 * 2
  BY Zenon, Powers
<1>17. e = 17 => 2^e = 32 * 32 * 32 * 4
  BY Zenon, Powers
<1>18. e = 18 => 2^e = 32 * 32 * 32 * 8
  BY Zenon, Powers
<1>19. e = 19 => 2^e = 32 * 32 * 32 * 16
  BY Zenon, Powers
<1>20. e = 20 => 2^e = 32 * 32 * 32 * 32
  BY Zenon, Powers
<1>21. e = 21 => 2^e = 32 * 32 * 32 * 32 * 2
  BY Zenon, Powers
<1>22. e = 22 => 2^e = 32 * 32 * 32 * 32 * 4
  BY Zenon, Powers
<1>23. e = 23 => 2^e = 32 * 32 * 32 * 32 * 8
  BY Zenon, Powers
<1>24. e = 24 => 2^e = 32 * 32 * 32 * 32 * 16
  BY Zenon, Powers
<1>25. e = 25 => 2^e = 32 * 32 * 32 * 32 * 32
  BY Zenon, Powers
<1>26. e = 26 => 2^e = 32 * 32 * 32 * 32 * 32 * 2
  BY Zenon, Powers
<1>27. e = 27 => 2^e = 32 * 32 * 32 * 32 * 32 * 4
  BY Zenon, Powers
<1>28. e = 28 => 2^e = 32 * 32 * 32 * 32 * 32 * 8
  BY Zenon, Powers
<1>29. e = 29 => 2^e = 32 * 32 * 32 * 32 * 32 * 16
  BY Zenon, Powers
<1>30. e = 30 => 2^e = 32 * 32 * 32 * 32 * 32 * 32
  BY Zenon, Powers
<1> QED
  BY <1>0, <1>1, <1>2, <1>3, <1>4, <1>5, <1>6, <1>7, <1>8, <1>9, <1>10,
     <1>11, <1>12, <1>13, <1>14, <1>15, <1>16, <1>17, <1>18, <1>19, <1>20, <1>21,
     <1>22, <1>23, <1>24, <1>25, <1>26, <1>27, <1>28, <1>29, <1>30

LEMMA Log2Is ==
  ASSUME NEW n \in Nat, NEW e \in 0..15, 2^e <= n, n < 2^(e + 1)
  PROVE  Log2(n) = e
<1> DEFINE S == {0} \cup {f \in 0..30 : 2^f <= n}
<1>1. e \in S /\ S \subseteq 0..30
  OBVIOUS
<1>2. ASSUME NEW f \in S PROVE f <= e
  <2>1. CASE f \in 17..30
    BY SMT, <2>1, PowerTable
  <2>2. CASE f \in 0..16
    BY SMT, <2>2, PowerTable
  <2> QED
    BY <1>1, <2>1, <2>2
<1>3. Max(S) \in S /\ Max(S) >= e
  BY <1>1, <1>2, MaxIs
<1> HIDE DEF S
<1>4. Max(S) \in 0..30 /\ Max(S) <= e
  BY <1>1, <1>2, <1>3
<1>5. Max(S) = e
  BY <1>3, <1>4
<1> QED
  BY <1>5 DEF Log2, S

LEMMA Log2Bounds ==
  ASSUME NEW n \in Nat, n >= 1, n < 65536
  PROVE  \E e \in 0..15 : Log2(n) = e /\ 2^e <= n /\ n < 2^(e + 1)
<1>1. \E e \in 0..15 : 2^e <= n /\ n < 2^(e + 1)
  BY SMT, PowerTable
<1> QED
  BY <1>1, Log2Is

-----------------------------------------------------------------------------
(***************************************************************************)
(* rssi_setup. A chunk is a power of two, capped at 2^14: more than half   *)
(* of what was left, or 2^14.                                              *)
(***************************************************************************)
ChunkSizes == {1, 2, 4, 8, 16, 32, 64, 128, 256, 512, 1024, 2048, 4096, 8192, 16384}

LEMMA ChunkIs ==
  ASSUME NEW rest \in Nat, rest >= 1, rest < 65536
  PROVE  /\ ChunkOf(rest) \in ChunkSizes
         /\ ChunkOf(rest) <= rest
         /\ rest < 2 * ChunkOf(rest) \/ ChunkOf(rest) = 16384
<1>1. PICK e \in 0..15 : Log2(rest) = e /\ 2^e <= rest /\ rest < 2^(e + 1)
  BY Log2Bounds
<1>2. ChunkOf(rest) = 2^Capped(e, 14)
  BY <1>1 DEF ChunkOf
<1>3. CASE e \in 0..14
  <2>1. ChunkOf(rest) = 2^e
    BY <1>2, <1>3 DEF Capped
  <2>2. 2^e \in ChunkSizes /\ 2^(e + 1) = 2 * 2^e
    BY SMT, <1>3, PowerTable DEF ChunkSizes
  <2>3. 2^e \in Nat
    BY <2>2 DEF ChunkSizes
  <2> QED
    BY <1>1, <2>1, <2>2, <2>3
<1>4. CASE e = 15
  <2>1. ChunkOf(rest) = 2^14
    BY <1>2, <1>4 DEF Capped
  <2>2. ChunkOf(rest) = 16384
    BY SMT, <2>1
  <2>3. rest >= 16384
    BY SMT, <1>1, <1>4, PowerTable
  <2>4. 16384 \in ChunkSizes
    BY SMT DEF ChunkSizes
  <2> QED
    BY SMT, <2>2, <2>3, <2>4
<1> QED
  BY <1>1, <1>3, <1>4

\* The four chunks of a duration, as numbers. No rest leaves no chunk.
Taken(rest, c) ==
  \/ rest = 0 /\ c = 0
  \/ /\ rest > 0 /\ c \in ChunkSizes /\ c <= rest
     /\ rest < 2 * c \/ c = 16384

LEMMA ChunksAre ==
  ASSUME NEW d \in Nat, d < 65536
  PROVE  LET c == Chunks(d)
         IN  /\ c = <<c[1], c[2], c[3], c[4]>>
             /\ Taken(d, c[1]) /\ Taken(d - c[1], c[2])
             /\ Taken(d - c[1] - c[2], c[3]) /\ Taken(d - c[1] - c[2] - c[3], c[4])
             /\ c[1] \in Nat /\ c[2] \in Nat /\ c[3] \in Nat /\ c[4] \in Nat
             /\ c[1] + c[2] + c[3] + c[4] <= d
<1>1. ASSUME NEW rest \in Nat, rest < 65536
      PROVE  /\ Taken(rest, ChunkOf(rest)) /\ ChunkOf(rest) \in Nat
             /\ rest - ChunkOf(rest) \in Nat /\ rest - ChunkOf(rest) < 65536
  <2>1. CASE rest = 0
    <3>1. ChunkOf(rest) = 0
      BY <2>1 DEF ChunkOf
    <3> QED
      BY SMT, <2>1, <3>1 DEF Taken
  <2>2. CASE rest >= 1
    <3>1. ChunkOf(rest) \in Nat
      BY SMT, <1>1, <2>2, ChunkIs DEF ChunkSizes
    <3>2. Taken(rest, ChunkOf(rest))
      BY SMT, <1>1, <2>2, ChunkIs DEF Taken
    <3>3. ChunkOf(rest) <= rest
      BY <1>1, <2>2, ChunkIs
    <3> QED
      BY SMT, <1>1, <3>1, <3>2, <3>3
  <2> QED
    BY <2>1, <2>2
<1> DEFINE c1 == ChunkOf(d)
           c2 == ChunkOf(d - c1)
           c3 == ChunkOf(d - c1 - c2)
           c4 == ChunkOf(d - c1 - c2 - c3)
<1>2. Chunks(d) = <<c1, c2, c3, c4>>
  BY DEF Chunks
<1>3. /\ Taken(d, c1) /\ c1 \in Nat /\ d - c1 \in Nat /\ d - c1 < 65536
  BY <1>1
<1>4. /\ Taken(d - c1, c2) /\ c2 \in Nat
      /\ d - c1 - c2 \in Nat /\ d - c1 - c2 < 65536
  <2> HIDE DEF c1
  <2>1. d - c1 \in Nat /\ d - c1 < 65536
    BY <1>3
  <2> QED
    BY <1>1, <2>1
<1>5. /\ Taken(d - c1 - c2, c3) /\ c3 \in Nat
      /\ d - c1 - c2 - c3 \in Nat /\ d - c1 - c2 - c3 < 65536
  <2> HIDE DEF c1, c2
  <2>1. d - c1 - c2 \in Nat /\ d - c1 - c2 < 65536
    BY <1>4
  <2> QED
    BY <1>1, <2>1
<1>6. /\ Taken(d - c1 - c2 - c3, c4) /\ c4 \in Nat
      /\ d - c1 - c2 - c3 - c4 \in Nat
  <2> HIDE DEF c1, c2, c3
  <2>1. d - c1 - c2 - c3 \in Nat /\ d - c1 - c2 - c3 < 65536
    BY <1>5
  <2> QED
    BY <1>1, <2>1
<1> HIDE DEF c1, c2, c3, c4
<1>7. c1 + c2 + c3 + c4 <= d
  BY <1>3, <1>4, <1>5, <1>6
<1> QED
  BY <1>2, <1>3, <1>4, <1>5, <1>6, <1>7

(* All but an eighth is measured. *)
LEMMA ChunksMeasure ==
  ASSUME NEW d \in Nat, d >= 1, d <= 61440
  PROVE  8 * (d - TotalOf(Chunks(d))) < d
<1> DEFINE c == Chunks(d)
<1>1. /\ Taken(d, c[1]) /\ Taken(d - c[1], c[2])
      /\ Taken(d - c[1] - c[2], c[3]) /\ Taken(d - c[1] - c[2] - c[3], c[4])
      /\ c[1] \in Nat /\ c[2] \in Nat /\ c[3] \in Nat /\ c[4] \in Nat
      /\ c[1] + c[2] + c[3] + c[4] <= d
  BY SMT, ChunksAre
<1> HIDE DEF c
<1>2. \A rest \in Int, n \in Nat : Taken(rest, n) =>
        \/ rest = 0 /\ n = 0
        \/ rest > 0 /\ n <= rest /\ n >= 1 /\ (rest < 2 * n \/ n = 16384)
  BY DEF Taken, ChunkSizes
<1>3. 8 * (d - (c[1] + c[2] + c[3] + c[4])) < d
  BY SMT, <1>1, <1>2
<1> QED
  BY <1>3 DEF TotalOf, c

(***************************************************************************)
(* The weights. A rounded one is off by at most a half, so the ones before *)
(* the last add up to 255 at most, unless there are three and the last     *)
(* chunk weighs less than a half.                                          *)
(***************************************************************************)
LEMMA RoundedOff ==
  ASSUME NEW c \in Nat, NEW total \in Nat, total >= 1, c <= total
  PROVE  LET r == RoundDiv(255 * c, total)
         IN  /\ r \in Nat /\ 2 * (r * total) <= 510 * c + total
             /\ r <= 255 /\ (c = 0 => r = 0)
<1> DEFINE half == total \div 2
           r    == (255 * c + half) \div total
<1>1. half \in Nat /\ 2 * half <= total /\ half < total
  OBVIOUS
<1> HIDE DEF half
<1>2. r \in Nat /\ r * total <= 255 * c + half
  BY <1>1
<1>3. 255 * c + half < 256 * total /\ 255 * c + half \in Nat
  BY <1>1
<1>4. r < 256
  BY <1>3, QuotientBelow
<1>5. c = 0 => r = 0
  BY <1>1, Quotient
<1> HIDE DEF r
<1>6. 2 * (r * total) <= 510 * c + total
  <2>1. r * total \in Nat
    BY <1>2
  <2> QED
    BY <1>1, <1>2, <2>1
<1> QED
  BY <1>2, <1>4, <1>5, <1>6 DEF RoundDiv, r, half

\* 510 is no sum of three powers of two and 1.
LEMMA NeverExactlyHalf ==
  ASSUME NEW a \in ChunkSizes, NEW b \in ChunkSizes, NEW c \in ChunkSizes,
         NEW d \in ChunkSizes
  PROVE  a + b + c + d # 510 * d
  BY SMTT(60) DEF ChunkSizes

\* Four chunks, largest first: an empty one is followed by empty ones only.
Chunked(c) ==
  /\ c = <<c[1], c[2], c[3], c[4]>>
  /\ \A i \in 1..4 : c[i] = 0 \/ c[i] \in ChunkSizes
  /\ c[1] > 0
  /\ c[2] = 0 => c[3] = 0
  /\ c[3] = 0 => c[4] = 0

LEMMA Counted ==
  ASSUME NEW c, Chunked(c), NEW n \in 1..4, \A i \in 1..4 : c[i] > 0 <=> i <= n
  PROVE  CountOf(c) = n
<1>1. {i \in 1..4 : c[i] > 0} = 1..n
  OBVIOUS
<1>2. Cardinality(1..n) = n
  <2>1. 1 \in Int /\ n \in Int /\ ~(1 > n) /\ n - 1 + 1 = n
    OBVIOUS
  <2>2. \A a, b \in Int : Cardinality(a..b) = IF a > b THEN 0 ELSE b - a + 1
    BY FS_Interval
  <2> QED
    BY ONLY <2>1, <2>2
<1> QED
  BY <1>1, <1>2 DEF CountOf

LEMMA WeightsAddUp ==
  ASSUME NEW c, Chunked(c), NEW n \in 1..4, \A i \in 1..4 : c[i] > 0 <=> i <= n
  PROVE  \/ TotalOf(WrittenWeights(c)) = 255
         \/ CountOf(c) = 4 /\ 510 * c[4] < TotalOf(c)
<1> DEFINE T == TotalOf(c)
           r == [i \in 1..4 |-> RoundedWeight(c, i)]
           W == TotalOf(r) - r[n]
<1>1. \A i \in 1..4 : c[i] \in Nat
  BY DEF Chunked, ChunkSizes
<1>2. /\ T \in Nat /\ T >= 1 /\ T = c[1] + c[2] + c[3] + c[4]
      /\ \A i \in 1..4 : c[i] <= T
  BY <1>1 DEF TotalOf, Chunked
<1>3. \A i \in 1..4 : /\ r[i] \in Nat /\ r[i] <= 255 /\ (c[i] = 0 => r[i] = 0)
                      /\ 2 * (r[i] * T) <= 510 * c[i] + T
  BY <1>1, <1>2, RoundedOff DEF RoundedWeight
<1>4. CountOf(c) = n
  BY Counted
<1>5. Weights(c) = [r EXCEPT ![n] = @ - (TotalOf(r) - 255)]
  BY <1>4 DEF Weights
<1> HIDE DEF T
<1>6. r = [i \in 1..4 |-> r[i]]
  OBVIOUS
<1> HIDE DEF r
<1>7. TotalOf(r) = r[1] + r[2] + r[3] + r[4]
  BY DEF TotalOf
<1>8. W \in Nat /\ W = r[1] + r[2] + r[3] + r[4] - r[n]
  BY <1>3, <1>7
<1>9. W <= 255 => TotalOf(WrittenWeights(c)) = 255
  <2> SUFFICES ASSUME W <= 255 PROVE TotalOf(WrittenWeights(c)) = 255
    OBVIOUS
  <2>1. \A i \in 1..4 : Weights(c)[i] = IF i = n THEN 255 - W ELSE r[i]
    BY <1>3, <1>5, <1>6, <1>7, <1>8
  <2> HIDE DEF W
  <2>2. \A i \in 1..4 : WrittenWeights(c)[i] = IF i = n THEN 255 - W ELSE r[i]
    <3>1. \A x \in Nat : x <= 255 => x % 256 = x
      OBVIOUS
    <3>2. 255 - W \in Nat /\ 255 - W <= 255
      BY <1>8
    <3> QED
      BY <1>3, <2>1, <3>1, <3>2 DEF WrittenWeights
  <2> QED
    BY <1>3, <1>8, <2>2 DEF TotalOf
<1> HIDE DEF W
<1>10. \A i \in 1..4 : r[i] \in Nat /\ (c[i] = 0 => r[i] = 0)
  BY <1>3
<1>11. \A i \in 1..4 : i > n => c[i] = 0
  <2>1. \A i \in 1..4 : c[i] \in Nat /\ (i > n => ~(c[i] > 0))
    BY <1>1
  <2> QED
    BY ONLY <2>1
<1>12. CASE n = 1
  <2>1. c[2] = 0 /\ c[3] = 0 /\ c[4] = 0
    BY <1>12, <1>11
  <2>2. r[2] = 0 /\ r[3] = 0 /\ r[4] = 0
    BY <1>10, <2>1
  <2>3. W = 0
    BY <1>8, <1>12, <1>10, <2>2
  <2> QED
    BY <1>9, <2>3
<1>13. CASE n = 2
  <2>1. c[3] = 0 /\ c[4] = 0
    BY <1>13, <1>11
  <2>2. r[3] = 0 /\ r[4] = 0
    BY <1>10, <2>1
  <2>3. W = r[1]
    BY <1>8, <1>13, <1>10, <2>2
  <2> QED
    BY <1>3, <1>9, <2>3
<1>14. CASE n = 3
  <2>1. W = r[1] + r[2] /\ c[4] = 0 /\ c[3] > 0
    <3>1. c[4] = 0 /\ c[3] > 0
      BY <1>14, <1>11
    <3>2. r[4] = 0
      BY <1>10, <3>1
    <3> QED
      BY <1>8, <1>14, <1>10, <3>1, <3>2
  <2>2. 2 * (W * T) <= 510 * (c[1] + c[2]) + 2 * T
    BY <1>1, <1>2, <1>3, <2>1
  <2>3. W < 256
    <3>1. CASE W >= 256
      <4>1. 256 * T <= W * T
        BY <1>2, <1>8, <3>1
      <4> QED
        BY <1>1, <1>2, <1>8, <2>1, <2>2, <4>1
    <3> QED
      BY <1>8, <3>1
  <2> QED
    BY <1>8, <1>9, <2>3
<1>15. CASE n = 4
  <2>1. W = r[1] + r[2] + r[3] /\ c[4] > 0 /\ c[1] > 0 /\ c[2] > 0 /\ c[3] > 0
    BY <1>8, <1>10, <1>15
  <2>2. 2 * (W * T) <= 510 * (c[1] + c[2] + c[3]) + 3 * T
    BY <1>1, <1>2, <1>3, <2>1
  <2>3. CASE W >= 256
    <3>1. 256 * T <= W * T /\ W * T \in Nat
      BY <1>2, <1>8, <2>3
    <3>2. 510 * c[4] <= T
      BY <1>1, <1>2, <2>2, <3>1
    <3>3. /\ c[1] \in ChunkSizes /\ c[2] \in ChunkSizes
          /\ c[3] \in ChunkSizes /\ c[4] \in ChunkSizes
      BY <2>1 DEF Chunked
    <3>4. T # 510 * c[4]
      BY <1>2, <3>3, NeverExactlyHalf
    <3>5. 510 * c[4] < T
      BY <1>1, <1>2, <3>2, <3>4
    <3> QED
      BY <1>4, <1>15, <3>5 DEF T
  <2>4. CASE W <= 255
    BY <1>9, <2>4
  <2> QED
    BY <1>8, <2>3, <2>4
<1> QED
  BY <1>12, <1>13, <1>14, <1>15

-----------------------------------------------------------------------------
(***************************************************************************)
(* gc_update, for a CLKRF and the RX samples behind a FIR of factor fir.   *)
(***************************************************************************)
Halves(clkrf) == clkrf \div 500   \* in steps of 500 Hz

LEMMA HalvesAre ==
  ASSUME NEW clkrf \in Nat, clkrf >= 2083334
  PROVE  /\ Halves(clkrf) \in Nat /\ Halves(clkrf) >= 4166
         /\ clkrf \div 1000 \in Nat /\ clkrf \div 1000 >= 2083
         /\ Halves(clkrf) <= 2 * (clkrf \div 1000) + 1
         /\ clkrf \div 2000 \in Nat /\ 4 * (clkrf \div 2000) >= Halves(clkrf) - 3
  BY SMT DEF Halves

GcInput(clkrf, rx, fir, lna, us) ==
  /\ clkrf \in Nat /\ clkrf >= 2083334
  /\ rx \in Nat /\ rx >= 1 /\ fir \in {1, 2, 4} /\ clkrf = fir * rx
  /\ lna \in Nat /\ us \in Nat /\ us >= 100

LEMMA SettlingIs ==
  ASSUME NEW clkrf, NEW rx, NEW fir, NEW lna, NEW us, GcInput(clkrf, rx, fir, lna, us)
  PROVE  LET settle == SettlingDelay(clkrf, lna)
         IN  /\ settle \in Nat /\ settle >= 7 /\ settle <= 31
             /\ settle = 31 \/ (settle - 7) * 4000000 >= (200 + lna) * (Halves(clkrf) - 3)
<1> DEFINE halves  == Halves(clkrf)
           quarter == clkrf \div 2000
           need    == (lna + 200) * quarter
           ceil    == CeilDiv(need, 1000000)
<1>1. quarter \in Nat /\ 4 * quarter >= halves - 3 /\ halves \in Nat /\ lna \in Nat
  BY HalvesAre DEF GcInput
<1> HIDE DEF quarter, halves
<1>2. need \in Nat /\ 4 * need >= (200 + lna) * (halves - 3)
  <2>1. need \in Nat
    BY <1>1
  <2>2. (200 + lna) * (4 * quarter) >= (200 + lna) * (halves - 3)
    BY <1>1
  <2> QED
    BY <1>1, <2>1, <2>2
<1> HIDE DEF need
<1>3. ceil \in Nat /\ ceil * 1000000 >= need
  BY <1>2, CeilDivMillion
<1>4. SettlingDelay(clkrf, lna) = IF ceil + 7 > 31 THEN 31 ELSE ceil + 7
  BY DEF SettlingDelay, Capped, need, quarter
<1> HIDE DEF ceil
<1>5. /\ SettlingDelay(clkrf, lna) \in Nat /\ SettlingDelay(clkrf, lna) >= 7
      /\ SettlingDelay(clkrf, lna) <= 31
      /\ \/ SettlingDelay(clkrf, lna) = 31
         \/ (SettlingDelay(clkrf, lna) - 7) * 4000000 >= (200 + lna) * (halves - 3)
  BY SMT, <1>1, <1>2, <1>3, <1>4
<1> QED
  BY <1>5 DEF halves

\* The cycles behind the update counter.
LEMMA CounterIs ==
  ASSUME NEW clkrf, NEW rx, NEW fir, NEW lna, NEW us, GcInput(clkrf, rx, fir, lna, us)
  PROVE  LET settle  == SettlingDelay(clkrf, lna)
             counter == UpdateCounter(clkrf, lna, us)
             cycles  == us * (clkrf \div 1000) - settle * 2000 - 2000
         IN  /\ counter \in Nat /\ counter >= 72 /\ counter <= 131071
             /\ cycles \in Nat
             /\ \/ counter = 131071
                \/ 2000 * counter >= cycles - 1000 /\ 2000 * counter <= cycles + 1000
<1> DEFINE settle  == SettlingDelay(clkrf, lna)
           half    == clkrf \div 1000
           cycles  == us * half - settle * 2000 - 2000
           rounded == RoundDiv(cycles, 2000)
<1>1. settle \in Nat /\ settle <= 31
  BY SettlingIs
<1>2. half \in Nat /\ half >= 2083 /\ us \in Nat /\ us >= 100
  BY SMT, HalvesAre DEF GcInput
<1> HIDE DEF settle, half
<1>3. us * half >= 208300 /\ us * half \in Nat
  <2>1. us * half >= 100 * half /\ us * half \in Nat
    BY <1>2
  <2> QED
    BY SMT, <1>2, <2>1
<1>4. cycles \in Nat /\ cycles >= 144300
  BY SMT, <1>1, <1>3
<1>5. UpdateCounter(clkrf, lna, us) = Capped(rounded, 131071)
  BY SMT, <1>4 DEF UpdateCounter, MaxUpdateCounter, settle, half
<1> HIDE DEF cycles
<1>6. /\ rounded \in Nat /\ rounded >= 72
      /\ 2000 * rounded >= cycles - 1000 /\ 2000 * rounded <= cycles + 1000
  BY SMT, <1>4 DEF RoundDiv
<1> HIDE DEF rounded
<1> QED
  BY SMT, <1>4, <1>5, <1>6 DEF Capped, cycles, settle, half

(* The power measurement has 16 samples at least, and two fit an interval. *)
LEMMA PowerIs ==
  ASSUME NEW clkrf, NEW rx, NEW fir, NEW lna, NEW us, GcInput(clkrf, rx, fir, lna, us)
  PROVE  LET counter == UpdateCounter(clkrf, lna, us)
             power   == PowerMeasure(clkrf, rx, lna, us, DefaultPower)
         IN  /\ power \in Nat /\ power >= 16 /\ power <= 131071
             /\ power * fir <= counter
             /\ FirDiv(clkrf, rx) = fir
<1> DEFINE counter == UpdateCounter(clkrf, lna, us)
           power   == PowerMeasure(clkrf, rx, lna, us, DefaultPower)
<1>1. counter \in Nat /\ counter >= 72 /\ counter <= 131071
  BY SMT, CounterIs
<1>2. FirDiv(clkrf, rx) = fir /\ fir \in {1, 2, 4}
  BY RoundDivExact DEF GcInput
<1>3. power = IF ((counter * 2) \div fir) \div 8192 < 2 THEN counter \div fir ELSE 8192
  BY SMT, <1>2 DEF PowerMeasure, DefaultPower
<1> HIDE DEF counter, power
<1>4. fir = 1 => power \in Nat /\ power >= 16 /\ power <= 131071 /\ power * fir <= counter
  BY SMT, <1>1, <1>3
<1>5. fir = 2 => power \in Nat /\ power >= 16 /\ power <= 131071 /\ power * fir <= counter
  BY SMT, <1>1, <1>3
<1>6. fir = 4 => power \in Nat /\ power >= 16 /\ power <= 131071 /\ power * fir <= counter
  BY SMT, <1>1, <1>3
<1>7. power \in Nat /\ power >= 16 /\ power <= 131071 /\ power * fir <= counter
  BY SMT, <1>2, <1>4, <1>5, <1>6
<1> QED
  BY SMT, <1>2, <1>7 DEF counter, power

\* The four bits of the register lose none of the logarithm.
LEMMA FieldIs ==
  ASSUME NEW power \in Nat, power >= 16, power <= 131071
  PROVE  MeasuredSamples(power) \in Nat /\ MeasuredSamples(power) <= power
<1> DEFINE n == power \div 16
<1>1. n \in Nat /\ n >= 1 /\ n < 8192 /\ 16 * n <= power
  BY SMT
<1> HIDE DEF n
<1>2. n < 65536
  BY SMT, <1>1
<1>3. PICK e \in 0..15 : Log2(n) = e /\ 2^e <= n /\ n < 2^(e + 1)
  BY <1>1, <1>2, Log2Bounds
<1>4. 2^e \in Nat /\ e % 16 = e
  BY SMT, PowerTable
<1>5. MeasuredSamples(power) = 16 * 2^e
  BY <1>3, <1>4 DEF MeasuredSamples, PowerField, n
<1> HIDE DEF n
<1>6. 16 * 2^e \in Nat /\ 16 * 2^e <= 16 * n
  <2> DEFINE t == 2^e
  <2>1. t \in Nat /\ t <= n
    BY <1>3, <1>4
  <2> HIDE DEF t
  <2>2. 16 * t \in Nat /\ 16 * t <= 16 * n
    BY <1>1, <2>1
  <2> QED
    BY <2>2 DEF t
<1> QED
  BY <1>1, <1>5, <1>6

LEMMA WordsMake ==
  ASSUME NEW counter \in Nat, counter <= 131070
  PROVE  LET words == CounterWords(counter)
             chip  == (words.low + 256 * words.high) * (IF words.double THEN 2 ELSE 1)
         IN  chip \in Nat /\ chip <= counter /\ counter <= chip + 1
<1>1. ASSUME NEW w \in Nat, w < 65536
      PROVE  (w % 256) + 256 * ((w \div 256) % 256) = w
  BY SMT, <1>1
<1>2. CASE counter > 65535
  <2> DEFINE w == counter \div 2
  <2>1. w \in Nat /\ w < 65536 /\ 2 * w <= counter /\ counter <= 2 * w + 1
    BY SMT, <1>2
  <2>2. /\ CounterWords(counter).double
        /\ CounterWords(counter).low = w % 256
        /\ CounterWords(counter).high = (w \div 256) % 256
    <3>1. CounterWords(counter).double
      <4> DEFINE big == counter > 65535
      <4>1. CounterWords(counter).double = big
        BY SMT DEF CounterWords
      <4>2. big
        BY SMT, <1>2
      <4> HIDE DEF big
      <4> QED
        BY ONLY <4>1, <4>2, Zenon
    <3>2. CounterWords(counter).low = w % 256
      BY SMT, <1>2 DEF CounterWords
    <3>3. CounterWords(counter).high = (w \div 256) % 256
      BY SMT, <1>2 DEF CounterWords
    <3> QED
      BY <3>1, <3>2, <3>3
  <2> HIDE DEF w
  <2>3. (w % 256) + 256 * ((w \div 256) % 256) = w
    BY <1>1, <2>1
  <2> QED
    BY <2>1, <2>2, <2>3
<1>3. CASE ~(counter > 65535)
  <2>1. /\ ~CounterWords(counter).double
        /\ CounterWords(counter).low = counter % 256
        /\ CounterWords(counter).high = (counter \div 256) % 256
    <3>1. ~CounterWords(counter).double
      <4> DEFINE big == counter > 65535
      <4>1. CounterWords(counter).double = big
        BY SMT DEF CounterWords
      <4>2. ~big
        BY SMT, <1>3
      <4> HIDE DEF big
      <4> QED
        BY ONLY <4>1, <4>2, Zenon
    <3>2. CounterWords(counter).low = counter % 256
      BY SMT, <1>3 DEF CounterWords
    <3>3. CounterWords(counter).high = (counter \div 256) % 256
      BY SMT, <1>3 DEF CounterWords
    <3> QED
      BY <3>1, <3>2, <3>3
  <2>2. (counter % 256) + 256 * ((counter \div 256) % 256) = counter
    BY SMT, <1>1, <1>3
  <2> QED
    BY <2>1, <2>2
<1> QED
  BY SMT, <1>2, <1>3

-----------------------------------------------------------------------------
(* The four parts of GainTimingFits and of UpdatesNeverReject. *)
LEMMA GainTimingIs ==
  ASSUME NEW clkrf, NEW rx, NEW fir, NEW lna, NEW us, GcInput(clkrf, rx, fir, lna, us),
         rx = chain.rx.sample
  PROVE  LET counter == UpdateCounter(clkrf, lna, us)
             settle  == SettlingDelay(clkrf, lna)
             power   == PowerMeasure(clkrf, rx, lna, us, DefaultPower)
         IN  /\ UpdateHoldsTwoMeasurements(clkrf, counter, power)
             /\ CounterKeepsTheInterval(clkrf, counter, settle, us)
             /\ GcAccepts(clkrf, rx, lna, us, DefaultPower)
<1> DEFINE counter == UpdateCounter(clkrf, lna, us)
           settle  == SettlingDelay(clkrf, lna)
           power   == PowerMeasure(clkrf, rx, lna, us, DefaultPower)
           half    == clkrf \div 1000
           cycles  == us * half - settle * 2000 - 2000
<1>1. /\ counter \in Nat /\ counter <= 131071 /\ cycles \in Nat
      /\ \/ counter = 131071
         \/ 2000 * counter >= cycles - 1000 /\ 2000 * counter <= cycles + 1000
  BY SMT, CounterIs
<1>2. settle \in Nat
  BY SettlingIs
<1>3. /\ power \in Nat /\ power >= 16 /\ power <= 131071
      /\ power * fir <= counter
      /\ FirDiv(clkrf, rx) = fir
  BY SMT, PowerIs
<1>4. half \in Nat /\ us \in Nat /\ fir \in {1, 2, 4} /\ clkrf \in Nat /\ clkrf >= 2083334
      /\ rx \in Nat /\ rx >= 1
  BY SMT, HalvesAre DEF GcInput
<1>5. GcAccepts(clkrf, rx, lna, us, DefaultPower)
  BY SMT, <1>3, <1>4 DEF GcAccepts
<1> HIDE DEF counter, settle, power, half
<1>6. UpdateHoldsTwoMeasurements(clkrf, counter, power)
  <2>1. MeasuredSamples(power) \in Nat /\ MeasuredSamples(power) <= power
    BY SMT, <1>3, FieldIs
  <2>2. MeasuredSamples(power) * fir <= power * fir
    BY <1>3, <1>4, <2>1
  <2>3. 2 * MeasuredSamples(power) * fir <= 2 * counter
    BY <1>1, <1>3, <1>4, <2>1, <2>2
  <2> QED
    BY <1>3, <2>3 DEF UpdateHoldsTwoMeasurements
<1>7. CounterKeepsTheInterval(clkrf, counter, settle, us)
  <2> DEFINE words == CounterWords(counter)
             chip  == (words.low + 256 * words.high) * (IF words.double THEN 2 ELSE 1)
             total == 2 * (chip + settle + 1)
             asked == 2 * us * half
  <2>1. CASE counter = 131071
    BY SMT, <2>1 DEF CounterKeepsTheInterval, MaxUpdateCounter
  <2>2. CASE counter # 131071
    <3>1. chip \in Nat /\ chip <= counter /\ counter <= chip + 1
      BY SMT, <1>1, <2>2, WordsMake
    <3> HIDE DEF words, chip
    <3>2. us * half \in Nat /\ asked = 2 * (us * half)
      BY <1>4
    <3> HIDE DEF asked
    <3>3. asked - 8000 <= total * 2000 /\ total * 2000 <= asked + 8000
      BY SMT, <1>1, <1>2, <2>2, <3>1, <3>2
    <3>4. CounterKeepsTheInterval(clkrf, counter, settle, us) <=>
            \/ counter = MaxUpdateCounter
            \/ asked - 8000 <= total * 2000 /\ total * 2000 <= asked + 8000
      BY ONLY DEF CounterKeepsTheInterval, total, chip, words, asked, half
    <3> QED
      BY SMT, <3>3, <3>4
  <2> QED
    BY <2>1, <2>2
<1> QED
  BY <1>5, <1>6, <1>7 DEF counter, settle, power

LEMMA WaitsAreLongEnough ==
  ASSUME NEW clkrf, NEW rx, NEW fir, NEW lna, NEW us, GcInput(clkrf, rx, fir, lna, us),
         lna <= 8000
  PROVE  WaitsCoverTheirDelays(clkrf, lna, SettlingDelay(clkrf, lna))
<1> DEFINE halves == Halves(clkrf)
           settle == SettlingDelay(clkrf, lna)
           wait   == PeakWait(clkrf, lna)
           attack == AttackDelay(clkrf, lna, 0)
<1>1. halves \in Nat /\ halves >= 1 /\ lna \in Nat
  BY SMT, HalvesAre DEF GcInput
<1>2. settle \in Nat /\ (settle = 31 \/ (settle - 7) * 4000000 >= (200 + lna) * (halves - 3))
  BY SMT, SettlingIs
<1>3. wait = 31 \/ wait * 2000000 >= (100 + lna) * halves
  <2> DEFINE half == clkrf \div 1000
             need == (lna + 100) * half
             ceil == CeilDiv(need, 1000000)
  <2>1. half \in Nat /\ halves <= 2 * half + 1
    BY HalvesAre DEF GcInput
  <2> HIDE DEF half
  <2>2. need \in Nat /\ (100 + lna) * halves <= 2 * need + 100 + lna
    <3>1. need \in Nat /\ (100 + lna) * (2 * half + 1) = 2 * need + 100 + lna
      BY <1>1, <2>1
    <3>2. (100 + lna) * halves <= (100 + lna) * (2 * half + 1)
      BY <1>1, <2>1
    <3> QED
      BY <1>1, <2>1, <3>1, <3>2
  <2> HIDE DEF need
  <2>3. ceil \in Nat /\ ceil * 1000000 >= need
    BY SMT, <2>2, CeilDivMillion
  <2>4. wait = IF ceil + 1 > 31 THEN 31 ELSE ceil + 1
    BY ONLY DEF wait, PeakWait, Capped, ceil, need, half
  <2> HIDE DEF wait, ceil
  <2>5. (100 + lna) * halves \in Int
    BY <1>1
  <2> QED
    BY SMT, <1>1, <2>2, <2>3, <2>4, <2>5
<1>4. attack = 31 \/ attack * 1000 + 1 >= (200 + lna) \div 2 + CeilDiv(14000000, halves)
  <2> DEFINE pulse == 14000000 \div halves
             lead  == (200 + lna) \div 2
             ceil  == CeilDiv(lead + pulse, 1000)
             next  == CeilDiv(14000000, halves)
  <2>1. pulse \in Nat /\ next \in Nat /\ next <= pulse + 1
    <3>1. ASSUME NEW n \in Nat PROVE n \div halves \in Nat
      BY <1>1
    <3>2. ASSUME NEW n \in Nat PROVE CeilDiv(n, halves) \in Nat /\ CeilDiv(n, halves) <= n \div halves + 1
      <4>1. halves > 0
        BY <1>1
      <4> QED
        BY ONLY Zenon, <1>1, <3>2, <4>1, CeilDivIsNextQuotient
    <3>3. 14000000 \in Nat
      BY SMT
    <3> QED
      BY SMT, <1>1, <3>1, <3>2, <3>3
  <2>2. lead \in Nat
    BY <1>1
  <2> HIDE DEF pulse, lead, next
  <2>3. lead + pulse \in Nat
    BY <2>1, <2>2
  <2>4. ceil \in Nat /\ ceil * 1000 >= lead + pulse
    BY SMT, <2>3, CeilDivThousand
  <2>5. attack = IF ceil + 0 > 31 THEN 31 ELSE ceil + 0
    BY ONLY DEF attack, AttackDelay, Capped, ceil, lead, pulse, halves, Halves
  <2> HIDE DEF attack, ceil
  <2>6. attack = 31 \/ attack * 1000 + 1 >= lead + next
    BY SMT, <2>1, <2>2, <2>4, <2>5
  <2> QED
    BY SMT, <2>6 DEF lead, next
<1> QED
  BY ONLY SMT, <1>2, <1>3, <1>4
     DEF WaitsCoverTheirDelays, settle, wait, attack, halves, Halves

(* rssi_setup and auxadc_setup take every rate. *)
LEMMA RssiIs ==
  ASSUME NEW rx \in Nat, rx >= 500, rx <= 61440000
  PROVE  /\ RssiAccepts(DefaultRssi, rx)
         /\ LET duration == Samples(DefaultRssi, rx)
                chunks   == Chunks(duration)
            IN  /\ 8 * (duration - TotalOf(chunks)) < duration
                /\ \/ TotalOf(WrittenWeights(chunks)) = 255
                   \/ CountOf(chunks) = 4 /\ 510 * chunks[4] < TotalOf(chunks)
<1> DEFINE d == Samples(DefaultRssi, rx)
           c == Chunks(d)
<1>1. d \in Nat /\ d >= 1 /\ d <= 61440
  BY SMT DEF Samples, DefaultRssi
<1> HIDE DEF d
<1>2. RssiAccepts(DefaultRssi, rx)
  BY SMT, <1>1 DEF RssiAccepts, d
<1>3. 8 * (d - TotalOf(c)) < d
  BY SMT, <1>1, ChunksMeasure
<1>4. /\ c = <<c[1], c[2], c[3], c[4]>>
      /\ Taken(d, c[1]) /\ Taken(d - c[1], c[2])
      /\ Taken(d - c[1] - c[2], c[3]) /\ Taken(d - c[1] - c[2] - c[3], c[4])
      /\ c[1] \in Nat /\ c[2] \in Nat /\ c[3] \in Nat /\ c[4] \in Nat
      /\ c[1] + c[2] + c[3] + c[4] <= d
  <2>1. d < 65536
    BY SMT, <1>1
  <2> QED
    BY <1>1, <2>1, ChunksAre
<1> HIDE DEF c
<1>5. \A rest, n : Taken(rest, n) => \/ rest = 0 /\ n = 0
                                     \/ rest > 0 /\ n \in ChunkSizes
  BY ONLY DEF Taken
<1>6. \A n \in ChunkSizes : n > 0
  BY DEF ChunkSizes
<1>7. /\ c[1] \in ChunkSizes /\ (c[2] = 0 \/ c[2] \in ChunkSizes)
      /\ (c[3] = 0 \/ c[3] \in ChunkSizes) /\ (c[4] = 0 \/ c[4] \in ChunkSizes)
  BY SMT, <1>1, <1>4, <1>5
<1>8. (c[2] = 0 => c[3] = 0) /\ (c[3] = 0 => c[4] = 0)
  BY SMT, <1>1, <1>4, <1>5, <1>6
<1>9. c[1] > 0 /\ \A i \in 1..4 : c[i] = 0 \/ c[i] \in ChunkSizes
  BY <1>6, <1>7
<1>10. Chunked(c)
  BY <1>4, <1>8, <1>9 DEF Chunked
<1>11. \E n \in 1..4 : \A i \in 1..4 : c[i] > 0 <=> i <= n
  <2>1. CASE c[2] = 0
    BY SMT, <1>4, <1>8, <1>9, <2>1
  <2>2. CASE c[2] # 0 /\ c[3] = 0
    BY SMT, <1>4, <1>8, <1>9, <2>2
  <2>3. CASE c[2] # 0 /\ c[3] # 0 /\ c[4] = 0
    BY SMT, <1>4, <1>8, <1>9, <2>3
  <2>4. CASE c[2] # 0 /\ c[3] # 0 /\ c[4] # 0
    BY SMT, <1>4, <1>8, <1>9, <2>4
  <2> QED
    BY <2>1, <2>2, <2>3, <2>4
<1>12. \/ TotalOf(WrittenWeights(c)) = 255
       \/ CountOf(c) = 4 /\ 510 * c[4] < TotalOf(c)
  BY SMT, <1>10, <1>11, WeightsAddUp
<1> QED
  BY ONLY SMT, <1>2, <1>3, <1>12 DEF c, d

LEMMA AuxadcFits ==
  ASSUME NEW bbpll \in Int, bbpll <= MaxBbpllFreq
  PROVE  AuxadcAccepts(bbpll, DefaultAuxadc)
<1>1. bbpll <= 1430143000
  BY SMT, BbpllLimit
<1> QED
  BY SMT, <1>1 DEF AuxadcAccepts, AuxadcDivider, DefaultAuxadc, MHz

-----------------------------------------------------------------------------
(***************************************************************************)
(* The states of Spec: a request, and the chain for it once there is one.  *)
(***************************************************************************)
Answered ==
  /\ Asked(request)
  /\ request = [rate |-> request.rate, rxdec |-> request.rxdec, txint |-> request.txint,
                eq2tx |-> request.eq2tx, governor |-> request.governor]
  /\ chain.ok => /\ chain = CalculateRfClockChain(request)
                 /\ ValidateTrxClockChain(chain.rx, chain.tx, mode.rx2tx2, mode.lvds)

LEMMA AlwaysAnswered == Spec => []Answered
<1>1. Init => Answered
  <2> SUFFICES ASSUME Init PROVE Answered
    OBVIOUS
  <2>1. /\ chain = [ok |-> FALSE]
        /\ request \in [rate : Rates, rxdec : {1, 2, 4}, txint : {1, 2, 4},
                        eq2tx : BOOLEAN, governor : {0, 1}]
    BY DEF Init
  <2>2. ~chain.ok
    BY ONLY <2>1
  <2>3. /\ request.rxdec \in {1, 2, 4} /\ request.txint \in {1, 2, 4}
        /\ request.eq2tx \in BOOLEAN /\ request.governor \in {0, 1}
        /\ request = [rate |-> request.rate, rxdec |-> request.rxdec,
                      txint |-> request.txint, eq2tx |-> request.eq2tx,
                      governor |-> request.governor]
    BY ONLY <2>1
  <2> QED
    BY <2>2, <2>3 DEF Answered, Asked
<1>2. Answered /\ [Compute]_vars => Answered'
  <2> SUFFICES ASSUME Answered, [Compute]_vars PROVE Answered'
    OBVIOUS
  <2>1. CASE Compute
    <3>1. /\ CalculateRfClockChain(request).ok
          /\ ValidateTrxClockChain(CalculateRfClockChain(request).rx,
               CalculateRfClockChain(request).tx, mode.rx2tx2, mode.lvds)
          /\ chain' = CalculateRfClockChain(request)
          /\ request' = request /\ mode' = mode
      BY Zenon, <2>1 DEF Compute
    <3> QED
      BY Zenon, <3>1 DEF Answered
  <2>2. CASE UNCHANGED vars
    <3>1. chain' = chain /\ request' = request /\ mode' = mode
      BY <2>2 DEF vars
    <3> QED
      BY Zenon, <3>1 DEF Answered
  <2> QED
    BY <2>1, <2>2
<1> QED
  BY <1>1, <1>2, PTL DEF Spec

(* What an answer is, in words and in numbers: a CLKRF of 2 MHz at least.  *)
LEMMA AnswerIs ==
  ASSUME Answered, chain.ok
  PROVE  /\ chain = CalculateRfClockChain(request) /\ CalculateRfClockChain(request).ok
         /\ Asked(request)
         /\ ValidateTrxClockChain(chain.rx, chain.tx, mode.rx2tx2, mode.lvds)
<1>1. /\ Asked(request)
      /\ chain = CalculateRfClockChain(request)
      /\ ValidateTrxClockChain(chain.rx, chain.tx, mode.rx2tx2, mode.lvds)
  BY Zenon DEF Answered
<1>2. CalculateRfClockChain(request).ok
  BY Zenon, <1>1
<1> QED
  BY Zenon, <1>1, <1>2

LEMMA AnswerInRange ==
  ASSUME Answered, chain.ok
  PROVE  /\ chain.rx.sample \in Nat /\ chain.rx.sample >= 500 /\ chain.rx.sample <= 61440000
         /\ chain.rx.hb1 = request.rxdec * chain.rx.sample
         /\ chain.rx.hb1 \in Nat /\ chain.rx.hb1 >= 2083334
         /\ chain.rx.bbpll \in Int /\ chain.rx.bbpll <= MaxBbpllFreq
<1>1. /\ chain = CalculateRfClockChain(request) /\ CalculateRfClockChain(request).ok
      /\ Asked(request)
      /\ ValidateTrxClockChain(chain.rx, chain.tx, mode.rx2tx2, mode.lvds)
  BY Zenon, AnswerIs
<1>2. Within(chain.rx, MaxRx)
  BY Zenon, <1>1 DEF ValidateTrxClockChain
<1>3. chain.rx.sample <= MaxRx.sample /\ chain.rx.bbpll <= MaxRx.bbpll
  BY SMT, <1>2 DEF Within, MaxRx
<1>4. MaxRx.sample = MaxBasebandRate /\ MaxRx.bbpll = MaxBbpllFreq
  BY SMT DEF MaxRx
<1>5. /\ chain.rx.sample = request.rate * (IF request.eq2tx THEN 2 ELSE 1)
      /\ chain.rx.hb1 = ClkRf(request)
  BY Zenon, <1>1, SamplesAreAsked
<1>6. request.rate \in Nat /\ request.rate >= 1
  BY SMT, <1>1, ChainFound, RateRange DEF RateInRange
<1>7. /\ chain.rx.sample \in Nat /\ chain.rx.sample >= 1
      /\ chain.rx.hb1 = request.rxdec * chain.rx.sample
  BY SMT, <1>1, <1>5, <1>6 DEF ClkRf, Asked
<1>8. chain.rx.sample <= 61440000
  BY SMT, <1>3, <1>4, <1>7, Limits
<1>9. PICK i, j \in Rows :
         LET adc   == AdcFor(request, i)
             bbpll == adc * BbpllDiv(adc)
         IN  /\ ChainAt(request, i, j)
             /\ chain = [ok |-> TRUE,
                         rx |-> Path(bbpll, adc, Row(i), request.rxdec),
                         tx |-> Path(bbpll, DacFor(request, i), Row(j), request.txint)]
  BY Zenon, <1>1, ChainFound
<1>10. chain.rx.bbpll = AdcFor(request, i) * BbpllDiv(AdcFor(request, i))
  BY Zenon, <1>9 DEF Path
<1>11. AdcFor(request, i) \in MinAdcClk..MaxAdcClk
  BY Zenon, <1>9 DEF ChainAt
<1>12. ClkRf(request) \in Nat /\ AdcFor(request, i) = ClkRf(request) * Row(i)[1]
  BY Zenon, <1>1, <1>6, <1>9, AskedTypes
<1>13. Row(i)[1] \in 1..12
  BY Zenon, <1>9, RowTypes
<1>14. AdcFor(request, i) \in Int
  BY <1>12, <1>13
<1>15. chain.rx.bbpll \in Int
  BY Zenon, <1>10, <1>11, <1>14, BbpllInRange
<1>16. AdcFor(request, i) >= 25000000
  BY SMT, <1>11, <1>14, AdcRange
<1>17. ClkRf(request) >= 2083334
  BY SMT, <1>12, <1>13, <1>16
<1>18. chain.rx.sample >= 500
  BY SMT, <1>1, <1>5, <1>7, <1>17 DEF Asked
<1> QED
  BY SMT, <1>1, <1>3, <1>4, <1>5, <1>7, <1>8, <1>12, <1>15, <1>17, <1>18

(***************************************************************************)
(* apply_trx_clock_chain can set an accepted chain exactly: every clock is *)
(* its parent over a division that fits the register, nothing is rounded,  *)
(* and the BBPLL is in its range.                                          *)
(***************************************************************************)
THEOREM DividersAlwaysMakeIt == Spec => []DividersCanMakeIt
<1>1. Answered => DividersCanMakeIt
  <2> SUFFICES ASSUME Answered, chain.ok
               PROVE  DividersMake(ChainRates(chain.rx, chain.tx))
    BY DEF DividersCanMakeIt
  <2>1. chain = CalculateRfClockChain(request) /\ CalculateRfClockChain(request).ok
    BY Zenon, AnswerIs
  <2>2. Asked(request)
    BY Zenon, AnswerIs
  <2> QED
    BY Zenon, <2>1, <2>2, ChainIsMade
<1> QED
  BY <1>1, AlwaysAnswered, PTL

(***************************************************************************)
(* set_sample_rate makes the requested rates, except where RX runs ahead.  *)
(***************************************************************************)
THEOREM AlwaysMakesTheRate == Spec => []MakesTheRateUnlessRxRunsAhead
<1>1. Answered => MakesTheRateUnlessRxRunsAhead
  <2> SUFFICES ASSUME Answered, chain.ok PROVE MakesTheRateUnlessRxRunsAhead
    BY DEF MakesTheRateUnlessRxRunsAhead
  <2>1. /\ chain = CalculateRfClockChain(request) /\ CalculateRfClockChain(request).ok
        /\ Asked(request)
        /\ ValidateTrxClockChain(chain.rx, chain.tx, mode.rx2tx2, mode.lvds)
    BY Zenon, AnswerIs
  <2>2. Within(chain.tx, MaxTx)
    BY Zenon, <2>1 DEF ValidateTrxClockChain
  <2>3. chain.tx.hb1 <= MaxTx.hb1
    BY SMT, <2>2 DEF Within, MaxTx
  <2> QED
    BY Zenon, <2>1, <2>3, SamplesAreAsked DEF MakesTheRateUnlessRxRunsAhead
<1> QED
  BY <1>1, AlwaysAnswered, PTL

(***************************************************************************)
(* The highest oversampling governor never loses to the nominal one.       *)
(***************************************************************************)
THEOREM HighestAlwaysOversamplesMost == Spec => []HighestGovernorOversamplesMost
<1>1. Answered => HighestGovernorOversamplesMost
  <2> SUFFICES ASSUME Answered, chain.ok PROVE HighestGovernorOversamplesMost
    BY DEF HighestGovernorOversamplesMost
  <2> DEFINE h == [request EXCEPT !.governor = 0]
  <2>1. /\ chain = CalculateRfClockChain(request) /\ CalculateRfClockChain(request).ok
        /\ Asked(request)
    BY Zenon, AnswerIs
  <2>2. request = [rate |-> request.rate, rxdec |-> request.rxdec,
                   txint |-> request.txint, eq2tx |-> request.eq2tx,
                   governor |-> request.governor]
    BY Zenon DEF Answered
  <2>3. /\ h.rate = request.rate /\ h.rxdec = request.rxdec /\ h.txint = request.txint
        /\ h.eq2tx = request.eq2tx /\ h.governor = 0
    BY ONLY <2>2
  <2>4. Asked(h)
    BY ONLY <2>1, <2>3 DEF Asked
  <2> HIDE DEF h
  <2>5. /\ CalculateRfClockChain(h).ok
        /\ CalculateRfClockChain(h).rx.converter >=
             CalculateRfClockChain(request).rx.converter
    BY Zenon, <2>1, <2>3, <2>4, HighestIsFastest
  <2> QED
    BY Zenon, <2>1, <2>5 DEF HighestGovernorOversamplesMost, h
<1> QED
  BY <1>1, AlwaysAnswered, PTL

LEMMA InputsFit ==
  ASSUME Answered, chain.ok, NEW lna \in LnaDelays, NEW us \in UpdateIntervals
  PROVE  /\ GcInput(chain.rx.hb1, chain.rx.sample, request.rxdec, lna, us)
         /\ lna <= 8000
<1>1. lna \in Nat /\ lna <= 8000 /\ us \in Nat /\ us >= 100
  BY SMT, TimingAssumption
<1>2. /\ chain.rx.sample \in Nat /\ chain.rx.sample >= 1
      /\ chain.rx.hb1 = request.rxdec * chain.rx.sample
      /\ chain.rx.hb1 \in Nat /\ chain.rx.hb1 >= 2083334
      /\ request.rxdec \in {1, 2, 4}
  BY SMT, AnswerIs, AnswerInRange DEF Asked
<1> QED
  BY SMT, <1>1, <1>2 DEF GcInput

(***************************************************************************)
(* Once the clocks run, gc_update, rssi_setup and auxadc_setup take them:  *)
(* set_sample_rate does not fail after the point of no return.             *)
(***************************************************************************)
THEOREM UpdatesAlwaysAccept == Spec => []UpdatesNeverReject
<1>1. Answered => UpdatesNeverReject
  <2> SUFFICES ASSUME Answered, chain.ok PROVE UpdatesNeverReject
    BY DEF UpdatesNeverReject
  <2>1. ASSUME NEW lna \in LnaDelays, NEW us \in UpdateIntervals
        PROVE  GcAccepts(chain.rx.hb1, chain.rx.sample, lna, us, DefaultPower)
    <3>1. GcInput(chain.rx.hb1, chain.rx.sample, request.rxdec, lna, us)
      BY SMT, InputsFit
    <3> QED
      BY Zenon, <3>1, GainTimingIs
  <2>2. /\ chain.rx.sample \in Nat /\ chain.rx.sample >= 500 /\ chain.rx.sample <= 61440000
        /\ chain.rx.bbpll \in Int /\ chain.rx.bbpll <= MaxBbpllFreq
    BY SMT, AnswerInRange
  <2>3. RssiAccepts(DefaultRssi, chain.rx.sample)
    BY SMT, <2>2, RssiIs
  <2>4. AuxadcAccepts(chain.rx.bbpll, DefaultAuxadc)
    BY SMT, <2>2, AuxadcFits
  <2> QED
    BY Zenon, <2>1, <2>3, <2>4 DEF UpdatesNeverReject
<1> QED
  BY <1>1, AlwaysAnswered, PTL

(***************************************************************************)
(* gc_update: the interval is the configured one and holds two power       *)
(* measurements, and no wait is cut short below its delay.                 *)
(***************************************************************************)
THEOREM GainTimingAlwaysFits == Spec => []GainTimingFits
<1>1. Answered => GainTimingFits
  <2> SUFFICES ASSUME Answered, chain.ok PROVE GainTimingFits
    BY DEF GainTimingFits
  <2>1. ASSUME NEW lna \in LnaDelays, NEW us \in UpdateIntervals
        PROVE  LET clkrf   == chain.rx.hb1
                   counter == UpdateCounter(clkrf, lna, us)
                   settle  == SettlingDelay(clkrf, lna)
                   power   == PowerMeasure(clkrf, chain.rx.sample, lna, us, DefaultPower)
               IN  /\ UpdateHoldsTwoMeasurements(clkrf, counter, power)
                   /\ CounterKeepsTheInterval(clkrf, counter, settle, us)
                   /\ WaitsCoverTheirDelays(clkrf, lna, settle)
    <3>1. /\ GcInput(chain.rx.hb1, chain.rx.sample, request.rxdec, lna, us)
          /\ lna <= 8000
      BY SMT, InputsFit
    <3>2. WaitsCoverTheirDelays(chain.rx.hb1, lna, SettlingDelay(chain.rx.hb1, lna))
      BY SMT, <3>1, WaitsAreLongEnough
    <3> QED
      BY SMT, <3>1, <3>2, GainTimingIs
  <2> QED
    BY Zenon, <2>1 DEF GainTimingFits
<1> QED
  BY <1>1, AlwaysAnswered, PTL

(***************************************************************************)
(* rssi_setup: the chunks measure seven eighths of the duration and their  *)
(* weights add up to 255, but for a last chunk of less than half a weight. *)
(***************************************************************************)
THEOREM RssiAlwaysWeighs == Spec => []RssiWeighsTheWholeDuration
<1>1. Answered => RssiWeighsTheWholeDuration
  <2> SUFFICES ASSUME Answered, chain.ok PROVE RssiWeighsTheWholeDuration
    BY DEF RssiWeighsTheWholeDuration
  <2>1. chain.rx.sample \in Nat /\ chain.rx.sample >= 500 /\ chain.rx.sample <= 61440000
    BY SMT, AnswerInRange
  <2> QED
    BY SMT, <2>1, RssiIs DEF RssiWeighsTheWholeDuration
<1> QED
  BY <1>1, AlwaysAnswered, PTL
=============================================================================
