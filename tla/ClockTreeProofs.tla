-------------------------- MODULE ClockTreeProofs ---------------------------
(***************************************************************************)
(* What the rate cache and the FIR fields promise, for every sequence of   *)
(* rates, FIR loads and switches, with any number of faults.               *)
(***************************************************************************)
EXTENDS ClockTree, ClockChainProofs

-----------------------------------------------------------------------------
(***************************************************************************)
(* The words of the BBPLL. p / s is the reference over the modulus, and    *)
(* four steps of the modulus are less than half a reference.               *)
(***************************************************************************)
LEMMA RefIs ==
  LET p == RefPeriod
      s == RefSteps
      k == BbRef \div (2 * BBPLL_MODULUS)
      m == BBPLL_MODULUS
  IN  /\ m \in Nat /\ BbRef \in Nat /\ BbRef >= 1 /\ p \in Nat /\ s \in Nat /\ s >= 1
      /\ BbRef * s = m * p
      /\ 9 * s <= p
      /\ k \in 4..16 /\ BbpllSlack = k + 1 /\ p < 2 * ((k + 1) * s)
<1> DEFINE p == RefPeriod
           s == RefSteps
           u == RefUnit
           k == BbRef \div 4177920
<1>1. /\ BbRef \in Nat /\ BbRef >= 20000000 /\ BbRef <= 70007000
      /\ u \in Nat /\ u >= 1 /\ BbRef % u = 0 /\ 2088960 % u = 0
  BY SMT, BbRefAssumption DEF MHz, BBPLL_MODULUS
<1>2. p = BbRef \div u /\ s = 2088960 \div u
  BY SMT DEF RefPeriod, RefSteps, BBPLL_MODULUS
<1>3. k \in 4..16 /\ BbRef < 4177920 * (k + 1)
  BY SMT, <1>1
<1>4. BbpllSlack = k + 1
  BY SMT, <1>1 DEF BbpllSlack, BBPLL_MODULUS
<1> HIDE DEF p, s, u, k
<1>5. ASSUME NEW n \in Nat, n % u = 0
      PROVE  n \div u \in Nat /\ n = (n \div u) * u
  BY <1>1, <1>5
<1>6. p \in Nat /\ BbRef = p * u /\ s \in Nat /\ 2088960 = s * u
  <2>1. 2088960 \in Nat
    BY SMT
  <2> QED
    BY ONLY SMT, <1>1, <1>2, <1>5, <2>1
<1>7. s >= 1
  <2>1. s = 0 => s * u = 0
    BY <1>1
  <2> QED
    BY SMT, <1>6, <2>1
<1>8. BbRef * s = 2088960 * p
  <2>1. (p * u) * s = (s * u) * p
    BY <1>1, <1>6
  <2> QED
    BY ONLY SMT, <1>6, <2>1
<1>9. 9 * s <= p
  <2>1. CASE p < 9 * s
    <3>1. p * u <= (9 * s) * u /\ (9 * s) * u = 9 * (s * u)
      BY <1>1, <1>6, <2>1
    <3> QED
      BY ONLY SMT, <1>1, <1>6, <3>1
  <2> QED
    BY SMT, <1>6, <2>1
<1>10. p < 2 * ((k + 1) * s)
  <2> DEFINE t == (k + 1) * s
  <2>1. t \in Nat
    BY <1>3, <1>6
  <2>2. ASSUME p >= 2 * t PROVE FALSE
    <3>1. p * u >= (2 * t) * u
      BY <1>1, <1>6, <2>1, <2>2
    <3>2. (2 * t) * u = 2 * ((k + 1) * (s * u))
      BY <1>1, <1>3, <1>6
    <3> HIDE DEF t
    <3>3. BbRef >= 2 * ((k + 1) * 2088960)
      BY ONLY <1>6, <3>1, <3>2
    <3> QED
      BY ONLY SMT, <1>1, <1>3, <3>3
  <2> HIDE DEF t
  <2>3. p < 2 * t
    BY SMT, <1>6, <2>1, <2>2
  <2> QED
    BY <2>3 DEF t
<1>11. BBPLL_MODULUS = 2088960 /\ 2 * BBPLL_MODULUS = 4177920
  BY SMT DEF BBPLL_MODULUS
<1> QED
  BY SMT, <1>1, <1>3, <1>4, <1>6, <1>7, <1>8, <1>9, <1>10, <1>11 DEF p, s, k

LEMMA MulDivIs ==
  ASSUME NEW n \in Nat, NEW a \in Nat, NEW b \in Nat, b >= 1
  PROVE  LET m == MulDiv(n, a, b)
         IN  m \in Nat /\ m * b <= n * a /\ n * a < m * b + b
<1> DEFINE q == n \div b
           l == n % b
           t == (l * a) \div b
<1>1. q \in Nat /\ l \in Nat /\ n = q * b + l
  OBVIOUS
<1> HIDE DEF q, l
<1>2. l * a \in Nat
  BY <1>1
<1>3. t \in Nat /\ t * b <= l * a /\ l * a < t * b + b
  BY <1>2
<1>4. MulDiv(n, a, b) = q * a + t
  BY DEF MulDiv, q, l
<1> HIDE DEF t
<1>5. n * a = (q * a) * b + l * a /\ (q * a + t) * b = (q * a) * b + t * b
  BY <1>1, <1>3
<1>6. q * a \in Nat /\ (q * a) * b \in Nat /\ t * b \in Nat
  BY <1>1, <1>3
<1> QED
  BY <1>2, <1>3, <1>4, <1>5, <1>6

LEMMA MulRoundIs ==
  ASSUME NEW n \in Nat, NEW a \in Nat, NEW b \in Nat, b >= 1
  PROVE  LET m == MulRound(n, a, b)
             h == b \div 2
         IN  m \in Nat /\ m * b <= n * a + h /\ n * a + h < m * b + b
<1> DEFINE q == n \div b
           l == n % b
           h == b \div 2
           t == (l * a + h) \div b
<1>1. q \in Nat /\ l \in Nat /\ n = q * b + l /\ h \in Nat
  OBVIOUS
<1> HIDE DEF q, l, h
<1>2. l * a \in Nat /\ l * a + h \in Nat
  BY <1>1
<1>3. t \in Nat /\ t * b <= l * a + h /\ l * a + h < t * b + b
  BY <1>2
<1>4. MulRound(n, a, b) = q * a + t
  BY DEF MulRound, q, l, h
<1> HIDE DEF t
<1>5. n * a = (q * a) * b + l * a /\ (q * a + t) * b = (q * a) * b + t * b
  BY <1>1, <1>3
<1>6. q * a \in Nat /\ (q * a) * b \in Nat /\ t * b \in Nat
  BY <1>1, <1>3
<1> QED
  BY <1>1, <1>2, <1>3, <1>4, <1>5, <1>6 DEF h

LEMMA FractIs ==
  ASSUME NEW i, NEW f \in Nat, f <= BBPLL_MODULUS
  PROVE  Fract(WordsFor(i, f)) = f /\ WordsFor(i, f)[1] = i
<1> DEFINE w == WordsFor(i, f)
           a == f % 256
           b == (f \div 256) % 256
           c == (f \div 65536) % 256
<1>1. a + 256 * b + 65536 * c = f
  <2>1. c = f \div 65536
    BY SMT DEF BBPLL_MODULUS
  <2>2. f \div 256 = b + 256 * c
    BY SMT, <2>1 DEF BBPLL_MODULUS
  <2>3. f = a + 256 * (f \div 256)
    BY SMT
  <2>4. a \in Int /\ b \in Int /\ c \in Int
    BY SMT
  <2> HIDE DEF a, b, c
  <2> QED
    BY SMT, <2>2, <2>3, <2>4
<1> HIDE DEF a, b, c
<1>2. w = <<i, a, b, c>>
  BY ONLY DEF w, WordsFor, a, b, c
<1> HIDE DEF w
<1>3. w[1] = i /\ w[2] = a /\ w[3] = b /\ w[4] = c
  BY ONLY SMT, <1>2
<1>4. Fract(w) = a + 256 * b + 65536 * c
  BY ONLY SMT, <1>3 DEF Fract
<1> QED
  BY ONLY SMT, <1>1, <1>3, <1>4 DEF w

\* A rate of i references and n Hz: its steps, and what they make.
Steps4(n)  == MulRound(n, RefSteps, RefPeriod)
Makes(f)   == MulDiv(f, RefPeriod, RefSteps)

LEMMA StepsMake ==
  ASSUME NEW n \in Nat, n < BbRef
  PROVE  LET p == RefPeriod
             s == RefSteps
             h == p \div 2
             f == Steps4(n)
             r == Makes(f)
             m == BBPLL_MODULUS
         IN  /\ f \in Nat /\ f <= m /\ r \in Nat /\ r <= BbRef
             /\ f * p <= n * s + h /\ n * s + h < f * p + p
             /\ r * s <= f * p /\ f * p < r * s + s
             /\ f = m => r = BbRef
             /\ f < m => r < BbRef
<1> DEFINE p == RefPeriod
           s == RefSteps
           h == p \div 2
           f == Steps4(n)
           r == Makes(f)
           m == BBPLL_MODULUS
<1>1. /\ m \in Nat /\ BbRef \in Nat /\ BbRef >= 1 /\ p \in Nat /\ s \in Nat /\ s >= 1
      /\ BbRef * s = m * p /\ 9 * s <= p
  BY RefIs
<1>2. f = MulRound(n, s, p) /\ r = MulDiv(f, p, s)
  BY DEF Steps4, Makes
<1> HIDE DEF p, s, f, r, m
<1>3. f \in Nat /\ f * p <= n * s + h /\ n * s + h < f * p + p
  <2>1. p >= 1
    BY SMT, <1>1
  <2> QED
    BY Zenon, <1>1, <1>2, <2>1, MulRoundIs
<1>4. r \in Nat /\ r * s <= f * p /\ f * p < r * s + s
  BY Zenon, <1>1, <1>2, <1>3, MulDivIs
<1>9. p >= 9 /\ h \in Nat /\ 2 * h <= p
  BY SMT, <1>1
<1> HIDE DEF h
<1>5. f <= m
  <2>1. n * s + s <= BbRef * s /\ n * s \in Nat
    <3>1. (n + 1) * s <= BbRef * s /\ (n + 1) * s = n * s + s
      BY <1>1
    <3> QED
      BY <1>1, <3>1
  <2>2. ASSUME f >= m + 1 PROVE FALSE
    <3>1. f * p >= (m + 1) * p
      BY <1>1, <1>3, <2>2
    <3> QED
      BY SMT, <1>1, <1>3, <1>9, <2>1, <3>1
  <2> QED
    BY <1>1, <1>3, <2>2
<1>6. f = m => r = BbRef
  <2> SUFFICES ASSUME f = m PROVE r = BbRef
    OBVIOUS
  <2>1. f * p = BbRef * s
    BY <1>1
  <2>2. ASSUME r >= BbRef + 1 PROVE FALSE
    <3>1. r * s >= (BbRef + 1) * s /\ (BbRef + 1) * s = BbRef * s + s
      BY <1>1, <1>4, <2>2
    <3> QED
      BY <1>1, <1>4, <2>1, <3>1
  <2>3. ASSUME r + 1 <= BbRef PROVE FALSE
    <3>1. (r + 1) * s <= BbRef * s /\ (r + 1) * s = r * s + s
      BY <1>1, <1>4, <2>3
    <3> QED
      BY <1>1, <1>4, <2>1, <3>1
  <2> QED
    BY <1>1, <1>4, <2>2, <2>3
<1>7. f < m => r < BbRef
  <2> SUFFICES ASSUME f < m, r >= BbRef PROVE FALSE
    BY <1>1, <1>4
  <2>1. (f + 1) * p <= m * p /\ (f + 1) * p = f * p + p
    BY <1>1, <1>3
  <2>2. r * s >= BbRef * s
    BY <1>1, <1>4
  <2> QED
    BY ONLY SMT, <1>1, <1>3, <1>4, <1>9, <2>1, <2>2
<1>8. r <= BbRef
  BY SMT, <1>1, <1>4, <1>5, <1>6, <1>7, <1>3
<1> QED
  BY <1>3, <1>4, <1>5, <1>6, <1>7, <1>8 DEF p, s, h, r, f, m

LEMMA RoundedIs ==
  ASSUME NEW i \in Nat, NEW n \in Nat, n < BbRef
  PROVE  Rounded(BbRef * i + n) = BbRef * i + Makes(Steps4(n))
<1> DEFINE x == BbRef * i + n
<1>1. BbRef \in Nat /\ BbRef >= 1
  BY RefIs
<1>2. x \in Nat /\ i * BbRef <= x /\ x < (i + 1) * BbRef
  BY <1>1
<1>3. x \div BbRef = i
  BY <1>1, <1>2, Quotient
<1>4. x % BbRef = n
  <2>1. x = ((x \div BbRef) * BbRef) + (x % BbRef) /\ x % BbRef \in Nat
    BY <1>1, <1>2
  <2>2. BbRef * i = i * BbRef /\ i * BbRef \in Nat
    BY <1>1
  <2> HIDE DEF x
  <2>3. x = BbRef * i + n
    BY DEF x
  <2> QED
    BY <1>3, <2>1, <2>2, <2>3
<1>5. BbpllWordsOf(x) = WordsFor(i, Steps4(n))
  BY <1>3, <1>4 DEF BbpllWordsOf, Steps4
<1>6. Fract(BbpllWordsOf(x)) = Steps4(n) /\ BbpllWordsOf(x)[1] = i
  BY <1>5, StepsMake, FractIs
<1> HIDE DEF x
<1> QED
  BY Zenon, <1>6 DEF Rounded, BbpllRate, Makes, x

LEMMA RoundedSplits ==
  ASSUME NEW x \in Nat
  PROVE  \E i \in Nat, n \in Nat : n < BbRef /\ x = BbRef * i + n
<1>1. BbRef \in Nat /\ BbRef >= 1
  BY RefIs
<1> DEFINE i == x \div BbRef
           n == x % BbRef
<1>2. i \in Nat /\ n \in Nat /\ n < BbRef /\ x = BbRef * i + n
  BY <1>1
<1> QED
  BY <1>2

\* Half a step up at most, and down that and what the way back cuts off.
LEMMA RoundedNear ==
  ASSUME NEW x \in Nat
  PROVE  /\ Rounded(x) \in Nat
         /\ Rounded(x) - x <= BbpllSlack - 1 /\ x - Rounded(x) <= BbpllSlack
<1> DEFINE p == RefPeriod
           s == RefSteps
           h == p \div 2
           k == BbRef \div (2 * BBPLL_MODULUS)
<1>1. PICK i \in Nat, n \in Nat : n < BbRef /\ x = BbRef * i + n
  BY RoundedSplits
<1> DEFINE f == Steps4(n)
           r == Makes(f)
<1>2. Rounded(x) = BbRef * i + r
  BY <1>1, RoundedIs
<1>3. /\ f \in Nat /\ r \in Nat
      /\ f * p <= n * s + h /\ n * s + h < f * p + p
      /\ r * s <= f * p /\ f * p < r * s + s
  BY <1>1, StepsMake
<1>4. /\ BbRef \in Nat /\ p \in Nat /\ s \in Nat /\ s >= 1
      /\ k \in 4..16 /\ BbpllSlack = k + 1 /\ p < 2 * ((k + 1) * s)
  BY RefIs
<1>5. h \in Nat /\ 2 * h <= p /\ p <= 2 * h + 1
  BY <1>4
<1> HIDE DEF p, s, h, k, f, r
<1>6. /\ n * s \in Nat /\ r * s \in Nat /\ f * p \in Nat /\ (k + 1) * s \in Nat
      /\ (n + (k + 1)) * s = n * s + (k + 1) * s
      /\ (r + (k + 2)) * s = r * s + (k + 1) * s + s
  BY <1>3, <1>4
<1>7. r - n <= k
  <2> SUFFICES ASSUME r >= n + (k + 1) PROVE FALSE
    BY <1>3, <1>4
  <2>1. r * s >= (n + (k + 1)) * s
    BY <1>3, <1>4
  <2> QED
    BY ONLY <1>3, <1>4, <1>5, <1>6, <2>1
<1>8. n - r <= k + 1
  <2> SUFFICES ASSUME n >= r + (k + 2) PROVE FALSE
    BY <1>3, <1>4
  <2>1. n * s >= (r + (k + 2)) * s
    BY <1>3, <1>4
  <2> QED
    BY ONLY <1>3, <1>4, <1>5, <1>6, <2>1
<1>9. BbRef * i \in Nat
  BY <1>4
<1> QED
  BY <1>1, <1>2, <1>3, <1>4, <1>7, <1>8, <1>9

\* A few steps in the second half of a reference's last step make it whole.
LEMMA StepsAre ==
  ASSUME NEW n \in Nat, NEW f \in Nat,
         f * RefPeriod <= n * RefSteps + RefPeriod \div 2,
         n * RefSteps + RefPeriod \div 2 < f * RefPeriod + RefPeriod
  PROVE  Steps4(n) = f
<1> DEFINE p == RefPeriod
           s == RefSteps
           h == p \div 2
           g == Steps4(n)
           z == n * s + h
<1>1. p \in Nat /\ s \in Nat /\ p >= 1
  BY RefIs
<1>2. g \in Nat /\ g * p <= z /\ z < g * p + p
  BY <1>1, MulRoundIs DEF Steps4
<1>3. f * p <= z /\ z < f * p + p
  OBVIOUS
<1>4. z \in Nat
  BY <1>1
<1> HIDE DEF p, z, g
<1>5. ASSUME NEW a \in Nat, NEW b \in Nat, a < b, b * p <= z PROVE ~(z < a * p + p)
  <2>1. (a + 1) * p <= b * p /\ (a + 1) * p = a * p + p
    BY <1>1, <1>5
  <2> QED
    BY <1>1, <1>4, <1>5, <2>1
<1>6. g = f
  BY <1>2, <1>3, <1>5
<1> QED
  BY <1>6 DEF g

LEMMA RoundedAgain ==
  ASSUME NEW x \in Nat, NEW r \in 0..3, NEW y \in Nat, Rounded(x) = y + r
  PROVE  Rounded(y) = Rounded(x)
<1> DEFINE p == RefPeriod
           s == RefSteps
           h == p \div 2
           m == BBPLL_MODULUS
<1>1. PICK i \in Nat, n \in Nat : n < BbRef /\ x = BbRef * i + n
  BY RoundedSplits
<1> DEFINE f == Steps4(n)
           made == Makes(f)
<1>2. Rounded(x) = BbRef * i + made
  BY <1>1, RoundedIs
<1>3. /\ f \in Nat /\ f <= m /\ made \in Nat /\ made <= BbRef
      /\ made * s <= f * p /\ f * p < made * s + s
      /\ f = m => made = BbRef
      /\ f < m => made < BbRef
  BY <1>1, StepsMake
<1>4. /\ m \in Nat /\ BbRef \in Nat /\ BbRef >= 1 /\ p \in Nat /\ s \in Nat /\ s >= 1
      /\ BbRef * s = m * p /\ 9 * s <= p
  BY RefIs
<1>5. BbRef >= 4
  BY SMT, BbRefAssumption DEF MHz
<1> HIDE DEF p, s, m
<1>6. h \in Nat /\ 4 * s <= h /\ h < p
  BY <1>4
<1>7. r * s \in Nat /\ r * s <= 3 * s
  BY <1>4
<1> HIDE DEF f, made, h
<1>8. CASE r <= made /\ made < BbRef
  <2> DEFINE k == made - r
  <2>1. k \in Nat /\ k < BbRef /\ y = BbRef * i + k
    BY <1>2, <1>3, <1>4, <1>8
  <2>2. k * s = made * s - r * s /\ made * s \in Nat /\ f * p \in Nat
    BY <1>3, <1>4
  <2>3. f * p <= k * s + h /\ k * s + h < f * p + p
    BY ONLY SMT, <1>3, <1>4, <1>6, <1>7, <2>2
  <2> HIDE DEF k
  <2>4. Steps4(k) = f
    BY <1>3, <2>1, <2>3, StepsAre DEF p, s, h
  <2> QED
    BY <1>2, <2>1, <2>4, RoundedIs DEF made
<1>9. ASSUME NEW j \in Nat, NEW e \in 1..3, y = BbRef * j + (BbRef - e)
      PROVE  Rounded(y) = BbRef * j + BbRef
  <2> DEFINE k == BbRef - e
  <2>1. k \in Nat /\ k < BbRef /\ y = BbRef * j + k
    BY <1>4, <1>5, <1>9
  <2>2. k * s = BbRef * s - e * s /\ e * s \in Nat /\ e * s <= 3 * s /\ e * s >= 1
    BY <1>4
  <2>3. m * p \in Nat
    BY <1>4
  <2>4. m * p <= k * s + h /\ k * s + h < m * p + p
    BY ONLY SMT, <1>4, <1>6, <2>2, <2>3
  <2> HIDE DEF k
  <2>5. Steps4(k) = m
    BY <1>4, <2>1, <2>4, StepsAre DEF p, s, h
  <2>6. Makes(m) = BbRef
    BY <2>1, <2>5, StepsMake DEF m
  <2> QED
    BY <2>1, <2>5, <2>6, RoundedIs
<1>10. CASE made = BbRef /\ r = 0
  <2>1. y = BbRef * (i + 1) + 0
    BY <1>2, <1>4, <1>10
  <2>2. 0 * p <= 0 * s + h /\ 0 * s + h < 0 * p + p
    BY <1>4, <1>6
  <2>3. Steps4(0) = 0
    BY <2>2, StepsAre DEF p, s, h
  <2>4. Makes(0) \in Nat /\ Makes(0) * s <= 0 * p
    BY <1>4, MulDivIs DEF Makes, p, s
  <2>5. Makes(0) = 0
    BY <1>4, <2>4
  <2>6. Rounded(y) = BbRef * (i + 1) + 0
    <3>1. i + 1 \in Nat /\ 0 \in Nat /\ 0 < BbRef
      BY <1>4
    <3>2. Rounded(BbRef * (i + 1) + 0) = BbRef * (i + 1) + Makes(Steps4(0))
      BY Zenon, <3>1, RoundedIs
    <3> QED
      BY Zenon, <2>1, <2>3, <2>5, <3>2
  <2> QED
    BY <1>10, <2>1, <2>6
<1>11. CASE made = BbRef /\ r # 0
  <2>1. r \in 1..3 /\ y = BbRef * i + (BbRef - r)
    BY <1>2, <1>4, <1>5, <1>11
  <2> QED
    BY <1>2, <1>9, <1>11, <2>1
<1>12. CASE made < r
  <2>1. f = 0 /\ made = 0
    <3>1. made * s <= 2 * s
      BY <1>3, <1>4, <1>12
    <3>2. f >= 1 => f * p >= p
      BY <1>3, <1>4
    <3>3. f = 0
      BY <1>3, <1>4, <3>1, <3>2
    <3>4. f * p = 0 /\ (made >= 1 => made * s >= s)
      BY <1>3, <1>4, <3>3
    <3> QED
      BY <1>3, <1>4, <3>3, <3>4
  <2>2. y = BbRef * i - r /\ r \in 1..3
    BY <1>2, <1>4, <1>12, <2>1
  <2>3. i >= 1
    BY <1>4, <2>2
  <2>4. i - 1 \in Nat /\ BbRef * i = BbRef * (i - 1) + BbRef
    BY <1>4, <2>3
  <2>5. y = BbRef * (i - 1) + (BbRef - r)
    BY <1>4, <1>5, <2>2, <2>4
  <2>6. Rounded(y) = BbRef * (i - 1) + BbRef
    BY <1>9, <2>2, <2>4, <2>5
  <2> QED
    BY <1>2, <1>4, <2>1, <2>4, <2>6
<1> QED
  BY <1>3, <1>4, <1>8, <1>10, <1>11, <1>12

-----------------------------------------------------------------------------
(***************************************************************************)
(* The order of the stages.                                                *)
(***************************************************************************)
TreeClocks == Clocks \cup {"Bbpll"}

StageOf == [Bbpll |-> 1, Adc |-> 2, Dac |-> 3, R2 |-> 4, T2 |-> 5, R1 |-> 6, T1 |-> 7,
            ClkRf |-> 8, ClkTf |-> 9, RxSampl |-> 10, TxSampl |-> 11]

LEMMA ClocksAt ==
  /\ ClockAt(2) = "Adc" /\ ClockAt(3) = "Dac" /\ ClockAt(4) = "R2" /\ ClockAt(5) = "T2"
  /\ ClockAt(6) = "R1" /\ ClockAt(7) = "T1" /\ ClockAt(8) = "ClkRf"
  /\ ClockAt(9) = "ClkTf" /\ ClockAt(10) = "RxSampl" /\ ClockAt(11) = "TxSampl"
  BY DEF ClockAt, StageOrder

LEMMA TreeClocksAre ==
  /\ TreeClocks = {"Bbpll", "Adc", "R2", "R1", "ClkRf", "RxSampl",
                   "Dac", "T2", "T1", "ClkTf", "TxSampl"}
  /\ Clocks \subseteq TreeClocks
  BY DEF TreeClocks, Clocks, RxClocks, TxClocks

\* A clock's parent has its turn before it.
LEMMA ParentsFirst ==
  ASSUME NEW n \in ClockStages
  PROVE  /\ ClockAt(n) \in Clocks /\ StageOf[ClockAt(n)] = n
         /\ ParentOf(ClockAt(n)) \in TreeClocks /\ StageOf[ParentOf(ClockAt(n))] < n
         /\ \A c \in TreeClocks : StageOf[c] = n => c = ClockAt(n)
<1>1. n \in {2, 3, 4, 5, 6, 7, 8, 9, 10, 11}
  BY DEF ClockStages
<1>2. CASE n = 2
  BY <1>2, ClocksAt DEF StageOf, ParentOf, TreeClocks, Clocks, RxClocks, TxClocks
<1>3. CASE n = 3
  BY <1>3, ClocksAt DEF StageOf, ParentOf, TreeClocks, Clocks, RxClocks, TxClocks
<1>4. CASE n = 4
  BY <1>4, ClocksAt DEF StageOf, ParentOf, TreeClocks, Clocks, RxClocks, TxClocks
<1>5. CASE n = 5
  BY <1>5, ClocksAt DEF StageOf, ParentOf, TreeClocks, Clocks, RxClocks, TxClocks
<1>6. CASE n = 6
  BY <1>6, ClocksAt DEF StageOf, ParentOf, TreeClocks, Clocks, RxClocks, TxClocks
<1>7. CASE n = 7
  BY <1>7, ClocksAt DEF StageOf, ParentOf, TreeClocks, Clocks, RxClocks, TxClocks
<1>8. CASE n = 8
  BY <1>8, ClocksAt DEF StageOf, ParentOf, TreeClocks, Clocks, RxClocks, TxClocks
<1>9. CASE n = 9
  BY <1>9, ClocksAt DEF StageOf, ParentOf, TreeClocks, Clocks, RxClocks, TxClocks
<1>10. CASE n = 10
  BY <1>10, ClocksAt DEF StageOf, ParentOf, TreeClocks, Clocks, RxClocks, TxClocks
<1>11. CASE n = 11
  BY <1>11, ClocksAt DEF StageOf, ParentOf, TreeClocks, Clocks, RxClocks, TxClocks
<1> QED
  BY <1>1, <1>2, <1>3, <1>4, <1>5, <1>6, <1>7, <1>8, <1>9, <1>10, <1>11

LEMMA StagesOfClocks ==
  /\ \A c \in TreeClocks : StageOf[c] \in 1..11
  /\ \A c \in TreeClocks : StageOf[c] = 1 => c = "Bbpll"
  /\ StageOf["Bbpll"] = 1 /\ StageOf["Adc"] = 2
  BY TreeClocksAre DEF StageOf

-----------------------------------------------------------------------------
(***************************************************************************)
(* The chains a call starts with: whole rates, made by the dividers, with  *)
(* the BBPLL that belongs to the ADC rate, and at the end of each side the *)
(* division of its FIR and a rate the interface can carry.                 *)
(***************************************************************************)
Firs == [Sides -> [factor : {1, 2, 4}, ntaps : FirTaps, bypassed : BOOLEAN]]

GoodChain(r) ==
  /\ r \in [TreeClocks -> Nat]
  /\ DividersMake(r)
  /\ r["Adc"] >= 1 /\ r["Bbpll"] = r["Adc"] * BbpllDiv(r["Adc"])
  /\ Closest(r["Adc"], r["Bbpll"]).div = BbpllDiv(r["Adc"])
  /\ r["RxSampl"] <= MaxBasebandRate /\ r["TxSampl"] <= MaxBasebandRate

FirsDivide(f, r) ==
  /\ Closest(r["RxSampl"], r["ClkRf"]).div = IntDec(f, "rx")
  /\ Closest(r["TxSampl"], r["ClkTf"]).div = IntDec(f, "tx")

LEMMA IntDecs ==
  ASSUME NEW f \in Firs, NEW s \in Sides
  PROVE  /\ IntDec(f, s) \in {1, 2, 4} /\ f[s].bypassed \in BOOLEAN
         /\ f[s].bypassed => IntDec(f, s) = 1
  BY DEF IntDec, Firs

LEMMA ChainRatesAre ==
  ASSUME NEW rx, NEW tx, \A c \in TreeClocks : ChainRates(rx, tx)[c] \in Nat
  PROVE  ChainRates(rx, tx) \in [TreeClocks -> Nat]
<1>1. DOMAIN ChainRates(rx, tx) = TreeClocks
  BY TreeClocksAre DEF ChainRates
<1>2. ChainRates(rx, tx) = [c \in TreeClocks |-> ChainRates(rx, tx)[c]]
  BY <1>1, TreeClocksAre DEF ChainRates
<1> QED
  BY Zenon, <1>2

\* What validate_trx_clock_chain leaves to a sample rate.
LEMMA SamplesFit ==
  ASSUME NEW rx, NEW tx, ValidateTrxClockChain(rx, tx, Mode.rx2tx2, Mode.lvds)
  PROVE  LET r == ChainRates(rx, tx)
         IN  r["RxSampl"] <= MaxBasebandRate /\ r["TxSampl"] <= MaxBasebandRate
<1>1. Within(rx, MaxRx) /\ Within(tx, MaxTx)
  BY Zenon DEF ValidateTrxClockChain
<1>2. /\ "sample" \in DOMAIN MaxRx /\ MaxRx["sample"] = MaxBasebandRate
      /\ "sample" \in DOMAIN MaxTx /\ MaxTx["sample"] = MaxBasebandRate
  BY DEF MaxRx, MaxTx
<1>3. rx["sample"] <= MaxBasebandRate /\ tx["sample"] <= MaxBasebandRate
  BY Zenon, <1>1, <1>2 DEF Within
<1> QED
  BY <1>3 DEF ChainRates

LEMMA CalculatedChain ==
  ASSUME NEW f \in Firs, NEW rate, Valid(CalculateRfClockChain(RequestFor(f, rate)))
  PROVE  LET chain == CalculateRfClockChain(RequestFor(f, rate))
             r     == ChainRates(chain.rx, chain.tx)
         IN  GoodChain(r) /\ FirsDivide(f, r)
<1> DEFINE q     == RequestFor(f, rate)
           chain == CalculateRfClockChain(q)
           r     == ChainRates(chain.rx, chain.tx)
<1>1. q.rxdec = IntDec(f, "rx") /\ q.txint = IntDec(f, "tx")
  BY DEF RequestFor
<1>2. Asked(q)
  <2>1. IntDec(f, "rx") \in {1, 2, 4} /\ IntDec(f, "tx") \in {1, 2, 4}
    BY IntDecs DEF Sides
  <2>2. q.eq2tx = Mode.eq2tx /\ q.governor = Mode.governor
    BY DEF RequestFor
  <2> QED
    BY <1>1, <2>1, <2>2, SettingsAssumption DEF Asked
<1> HIDE DEF q
<1>6. /\ chain.ok /\ r["RxSampl"] <= MaxBasebandRate /\ r["TxSampl"] <= MaxBasebandRate
  BY SamplesFit DEF Valid, q
<1>3. /\ DividersMake(r) /\ \A c \in TreeClocks : r[c] \in Nat
      /\ r["Adc"] >= 1 /\ r["Bbpll"] = r["Adc"] * BbpllDiv(r["Adc"])
      /\ Closest(r["Adc"], r["Bbpll"]).div = BbpllDiv(r["Adc"])
      /\ Closest(r["RxSampl"], r["ClkRf"]).div = q.rxdec
      /\ Closest(r["TxSampl"], r["ClkTf"]).div = q.txint
  BY Zenon, <1>2, <1>6, ChainIsMade DEF TreeClocks
<1>4. r \in [TreeClocks -> Nat]
  BY Zenon, <1>3, ChainRatesAre
<1> HIDE DEF r
<1>5. GoodChain(r) /\ FirsDivide(f, r)
  BY <1>1, <1>3, <1>4, <1>6 DEF GoodChain, FirsDivide
<1> QED
  BY ONLY Zenon, <1>5 DEF r, chain, q

LEMMA ConfiguredChain ==
  /\ GoodChain(InitRates)
  /\ \A f \in Firs : f["rx"].bypassed /\ f["tx"].bypassed => FirsDivide(f, InitRates)
<1> DEFINE r == InitRates
<1>1. /\ r["Bbpll"] = InitRx.bbpll /\ r["Adc"] = InitRx.converter
      /\ r["R2"] = InitRx.hb3 /\ r["R1"] = InitRx.hb2
      /\ r["ClkRf"] = InitRx.hb1 /\ r["RxSampl"] = InitRx.sample
      /\ r["Dac"] = InitTx.converter /\ r["T2"] = InitTx.hb3 /\ r["T1"] = InitTx.hb2
      /\ r["ClkTf"] = InitTx.hb1 /\ r["TxSampl"] = InitTx.sample
  BY DEF InitRates, ChainRates
<1>2. /\ InitRx.bbpll \in Nat /\ InitRx.converter \in Nat /\ InitRx.hb3 \in Nat
      /\ InitRx.hb2 \in Nat /\ InitRx.hb1 \in Nat /\ InitRx.sample \in Nat
      /\ InitTx.converter \in Nat /\ InitTx.hb3 \in Nat /\ InitTx.hb2 \in Nat
      /\ InitTx.hb1 \in Nat /\ InitTx.sample \in Nat
  BY InitAssumption DEF PathClocks
<1>3. \A c \in TreeClocks : r[c] \in Nat
  BY <1>1, <1>2, TreeClocksAre
<1>4. r \in [TreeClocks -> Nat]
  BY Zenon, <1>3, ChainRatesAre DEF InitRates
<1>5. DividersMake(r)
  BY InitAssumption DEF InitRates
<1>6. r.Bbpll = r["Bbpll"]
  OBVIOUS
<1> HIDE DEF r
<1>7. PICK d \in {2, 4, 8, 16, 32, 64} : r["Bbpll"] = r["Adc"] * d
  BY SMT, <1>1, InitAssumption DEF BbpllDividers
<1>8. r["Adc"] >= 1 /\ r["Adc"] \in Nat /\ r["Bbpll"] \in Int
  <2>1. /\ r["Adc"] \in Nat /\ r["Bbpll"] \in Nat
        /\ r["Adc"] \in MinAdcClk..MaxAdcClk
    BY Zenon, <1>1, <1>2, InitAssumption
  <2> DEFINE adc == r["Adc"]
  <2> HIDE DEF adc
  <2>2. adc \in Nat /\ adc \in MinAdcClk..MaxAdcClk
    BY Zenon, <2>1 DEF adc
  <2>3. adc >= 1
    BY SMT, <2>2, AdcRange
  <2> QED
    BY SMT, <2>1, <2>3 DEF adc
<1>9. r["Bbpll"] <= 1430143000 /\ 2 * r["Bbpll"] > 1430143000
  <2>1. r["Bbpll"] \in MinBbpllFreq..MaxBbpllFreq
    BY Zenon, <1>5, <1>6 DEF DividersMake
  <2>2. r["Bbpll"] <= 1430143000
    BY SMT, <1>8, <2>1, BbpllRange
  <2>3. MaxBbpllFreq = 1430143000
    BY SMT, Limits
  <2>4. 2 * r["Bbpll"] > 1430143000
    BY SMT, <1>1, <2>3, InitAssumption
  <2> QED
    BY SMT, <2>2, <2>4
<1>10. BbpllDiv(r["Adc"]) = d
  <2>1. r["Adc"] * d <= 1430143000 /\ 2 * r["Adc"] * d > 1430143000
    BY SMT, <1>7, <1>8, <1>9
  <2> QED
    BY SMT, <1>7, <1>8, <2>1, BbpllDivIs
<1>11. Closest(r["Adc"], r["Bbpll"]).div = d
  <2>1. Closest(r["Adc"], r["Adc"] * d) = [mult |-> 1, div |-> d]
    BY Zenon, <1>7, <1>8, ClosestOfMultiple
  <2> QED
    BY <1>7, <2>1
<1>14. r["RxSampl"] <= MaxBasebandRate /\ r["TxSampl"] <= MaxBasebandRate
  BY Zenon, SamplesFit, InitAssumption DEF r, InitRates
<1>12. GoodChain(r)
  BY Zenon, <1>3, <1>4, <1>5, <1>7, <1>8, <1>10, <1>11, <1>14 DEF GoodChain
<1>13. ASSUME NEW f \in Firs, f["rx"].bypassed, f["tx"].bypassed
       PROVE  FirsDivide(f, r)
  <2>1. IntDec(f, "rx") = 1 /\ IntDec(f, "tx") = 1
    BY <1>13 DEF IntDec
  <2>2. \A n \in Nat : Closest(n, n).div = 1
    BY DEF Closest
  <2>3. r["RxSampl"] = r["ClkRf"] /\ r["TxSampl"] = r["ClkTf"]
    BY Zenon, <1>1, InitAssumption
  <2>4. r["ClkRf"] \in Nat /\ r["ClkTf"] \in Nat
    BY Zenon, <1>1, <1>2
  <2> QED
    BY ONLY Zenon, <2>1, <2>2, <2>3, <2>4 DEF FirsDivide
<1> QED
  BY Zenon, <1>12, <1>13 DEF r

-----------------------------------------------------------------------------
(***************************************************************************)
(* A rate that is the rounding of the BBPLL off the one it was to be. What *)
(* is left of the rounding shrinks with the rates, and no division changes *)
(* for it.                                                                 *)
(***************************************************************************)
AnyDivision == {1, 2, 3, 4, 8, 16, 32, 64}

OffBy(x, y, o) == x = y + o \/ y = x + o

Near(made, rate, top) ==
  \E o \in Nat : /\ OffBy(made, rate, o) /\ o <= BbpllSlack
                 /\ (o - 1) * top < BbpllSlack * (rate + 1)

LEMMA Slack == BbpllSlack \in Nat /\ BbpllSlack >= 1 /\ BbpllSlack <= 17
  BY RefIs

LEMMA NearItself ==
  ASSUME NEW rate \in Nat, NEW top \in Nat
  PROVE  Near(rate, rate, top)
<1>1. (0 - 1) * top <= 0 /\ BbpllSlack * (rate + 1) >= 1
  BY Slack
<1>2. OffBy(rate, rate, 0) /\ 0 \in Nat /\ 0 <= BbpllSlack
  BY Slack DEF OffBy
<1>3. (0 - 1) * top < BbpllSlack * (rate + 1)
  BY <1>1, Slack
<1> QED
  BY Zenon, <1>2, <1>3 DEF Near

LEMMA NearBbpll ==
  ASSUME NEW rate \in Nat
  PROVE  Rounded(rate) \in Nat /\ Near(Rounded(rate), rate, rate)
<1> DEFINE made == Rounded(rate)
<1>1. /\ made \in Nat /\ made - rate <= BbpllSlack - 1 /\ rate - made <= BbpllSlack
      /\ BbpllSlack \in Nat /\ BbpllSlack >= 1
  BY RoundedNear, Slack
<1> HIDE DEF made
<1>2. PICK o \in Nat : OffBy(made, rate, o) /\ o <= BbpllSlack
  <2>1. CASE made >= rate
    <3>1. made - rate \in Nat /\ OffBy(made, rate, made - rate)
          /\ made - rate <= BbpllSlack
      BY <1>1, <2>1 DEF OffBy
    <3> QED
      BY Zenon, <3>1
  <2>2. CASE made < rate
    <3>1. rate - made \in Nat /\ OffBy(made, rate, rate - made)
      BY <1>1, <2>2 DEF OffBy
    <3> QED
      BY Zenon, <1>1, <3>1
  <2> QED
    BY <1>1, <2>1, <2>2
<1>3. (o - 1) * rate <= BbpllSlack * rate /\ BbpllSlack * rate < BbpllSlack * (rate + 1)
  BY <1>1, <1>2
<1>4. (o - 1) * rate < BbpllSlack * (rate + 1)
  BY <1>1, <1>2, <1>3
<1> QED
  BY Zenon, <1>1, <1>2, <1>4 DEF Near, made

LEMMA NearUnder ==
  ASSUME NEW parent \in Nat, NEW made \in Nat, NEW top \in Nat, Near(made, parent, top),
         NEW d \in AnyDivision
  PROVE  Near(made \div d, parent \div d, top)
<1> USE DEF AnyDivision
<1> DEFINE x == made \div d
           y == parent \div d
           k == BbpllSlack
<1>1. PICK o \in Nat : OffBy(made, parent, o) /\ o <= k
                       /\ (o - 1) * top < k * (parent + 1)
  BY Zenon DEF Near
<1>2. /\ x \in Nat /\ d * x <= made /\ made < d * x + d
      /\ y \in Nat /\ d * y <= parent /\ parent < d * y + d /\ d \in Nat /\ d >= 1
  BY DEF AnyDivision
<1> HIDE DEF x, y
<1>3. k \in Nat /\ k >= 1
  BY Slack
<1> HIDE DEF k
<1>4. \E e \in Nat : OffBy(x, y, e) /\ (e >= 1 => d * (e - 1) <= o - 1)
  <2>1. CASE x >= y
    <3>1. x - y \in Nat /\ OffBy(x, y, x - y)
      BY <1>2, <2>1 DEF OffBy
    <3>2. x - y >= 1 => d * ((x - y) - 1) <= o - 1
      BY <1>1, <1>2, <2>1 DEF OffBy
    <3> QED
      BY Zenon, <3>1, <3>2
  <2>2. CASE x < y
    <3>1. y - x \in Nat /\ OffBy(x, y, y - x)
      BY <1>2, <2>2 DEF OffBy
    <3>2. y - x >= 1 => d * ((y - x) - 1) <= o - 1
      BY <1>1, <1>2, <2>2 DEF OffBy
    <3> QED
      BY Zenon, <3>1, <3>2
  <2> QED
    BY <1>2, <2>1, <2>2
<1>5. PICK e \in Nat : OffBy(x, y, e) /\ (e >= 1 => d * (e - 1) <= o - 1)
  BY <1>4
<1>6. CASE e = 0
  <2>1. x = y
    BY <1>2, <1>5, <1>6 DEF OffBy
  <2> QED
    BY <1>2, <2>1, NearItself DEF x, y
<1>7. CASE e >= 1
  <2>1. d * (e - 1) <= o - 1 /\ e <= k
    BY <1>1, <1>3, <1>5, <1>7
  <2>2. (d * (e - 1)) * top <= (o - 1) * top /\ (d * (e - 1)) * top = d * ((e - 1) * top)
    BY <1>1, <1>5, <2>1
  <2>3. k * (parent + 1) <= k * (d * (y + 1)) /\ k * (d * (y + 1)) = d * (k * (y + 1))
    <3>1. parent + 1 <= d * (y + 1)
      BY <1>2
    <3> QED
      BY <1>2, <1>3, <3>1
  <2> DEFINE a == (e - 1) * top
             b == k * (y + 1)
  <2>4. a \in Int /\ b \in Int /\ (o - 1) * top \in Int /\ k * (parent + 1) \in Int
    BY <1>1, <1>2, <1>3, <1>5
  <2>5. d * a < d * b
    <3>1. d * a \in Int /\ d * b \in Int
      BY <2>4
    <3> QED
      BY <1>1, <2>2, <2>3, <2>4, <3>1
  <2> HIDE DEF a, b
  <2>6. a < b
    BY <2>4, <2>5
  <2> QED
    BY Zenon, <1>5, <2>1, <2>6 DEF Near, a, b, x, y, k
<1> QED
  BY <1>5, <1>6, <1>7

\* A parent that is near still asks for the same division.
LEMMA ClosestNear ==
  ASSUME NEW rate \in Nat, rate >= 1000, NEW made \in Nat,
         NEW d \in AnyDivision, NEW parent \in Nat,
         rate = parent \div d, NEW o \in 0..17, OffBy(made, parent, o)
  PROVE  Closest(rate, made) = [mult |-> 1, div |-> d]
<1> USE DEF AnyDivision
<1>1. d * rate <= made + 17 /\ made < d * rate + d + 17 /\ d \in 1..64
  BY DEF OffBy, AnyDivision
<1>2. rate \div 2 \in Nat /\ 2 * (rate \div 2) <= rate /\ rate <= 2 * (rate \div 2) + 1
  OBVIOUS
<1>3. CASE rate >= made
  <2>1. d = 1
    BY <1>1, <1>3
  <2>2. made \div 2 \in Nat /\ 2 * (made \div 2) <= made /\ made <= 2 * (made \div 2) + 1
    OBVIOUS
  <2>3. 1 * made <= rate + made \div 2 /\ rate + made \div 2 < (1 + 1) * made
    BY <1>1, <1>3, <2>1, <2>2
  <2>4. (rate + made \div 2) \div made = 1
    <3>1. made > 0 /\ rate + made \div 2 \in Int
      BY <1>1, <2>1, <2>2
    <3> QED
      BY <2>3, <3>1, Quotient
  <2> QED
    BY <1>3, <2>1, <2>4 DEF Closest
<1>4. CASE rate < made
  <2>1. d * rate <= made + rate \div 2 /\ made + rate \div 2 < (d + 1) * rate
    BY <1>1, <1>2
  <2>2. (made + rate \div 2) \div rate = d
    <3>1. rate > 0 /\ made + rate \div 2 \in Int /\ d \in Int
      BY <1>2
    <3> QED
      BY <2>1, <3>1, Quotient
  <2> QED
    BY <1>4, <2>2 DEF Closest
<1> QED
  BY <1>3, <1>4

\* From an ADC rate of 25 MHz on, nothing down the tree gets small.
LEMMA GoodDivisions ==
  ASSUME NEW r, GoodChain(r), NEW c \in Clocks
  PROVE  LET parent == r[ParentOf(c)]
             d      == Closest(r[c], parent).div
         IN  /\ parent \in Nat /\ r[c] \in Nat /\ r[c] = parent \div d
             /\ d \in Divisions(c) /\ d \in AnyDivision
             /\ c # "Adc" => d \in 1..4
<1> DEFINE parent == r[ParentOf(c)]
           ratio  == Closest(r[c], parent)
<1>1. ScalerAccepts(c, ratio) /\ RateFromParent(ratio, parent) = r[c]
  BY Zenon DEF GoodChain, DividersMake
<1>2. parent \in Nat /\ r[c] \in Nat
  <2>1. ParentOf(c) \in TreeClocks /\ c \in TreeClocks
    BY TreeClocksAre DEF ParentOf, Clocks, RxClocks, TxClocks
  <2> QED
    BY Zenon, <2>1 DEF GoodChain
<1> HIDE DEF ratio, parent
<1>3. ratio.mult = 1 /\ ratio.div \in Divisions(c)
  BY <1>1 DEF ScalerAccepts
<1>4. r[c] = parent \div ratio.div
  BY <1>1, <1>2, <1>3 DEF RateFromParent
<1>5. ratio.div \in AnyDivision /\ (c # "Adc" => ratio.div \in 1..4)
  BY <1>3 DEF Divisions, Clocks, RxClocks, TxClocks, AnyDivision
<1> QED
  BY <1>2, <1>3, <1>4, <1>5 DEF ratio, parent

LEMMA GoodIsLarge ==
  ASSUME NEW r, GoodChain(r), NEW c \in Clocks
  PROVE  r[c] >= 1000
<1>1. r["Adc"] >= 4096000
  <2> DEFINE adc == r["Adc"]
             top == r["Bbpll"]
  <2>1. /\ adc \in Nat /\ top \in Nat /\ top = adc * BbpllDiv(adc)
        /\ top \in MinBbpllFreq..MaxBbpllFreq
    <3>1. r["Bbpll"] = r.Bbpll /\ "Adc" \in TreeClocks /\ "Bbpll" \in TreeClocks
      BY TreeClocksAre
    <3> QED
      BY Zenon, <3>1 DEF GoodChain, DividersMake
  <2>2. BbpllDiv(adc) \in AnyDivision
    <3>1. "Adc" \in Clocks /\ ParentOf("Adc") = "Bbpll"
      BY DEF ParentOf, Clocks, RxClocks
    <3>2. Closest(r["Adc"], r["Bbpll"]).div \in AnyDivision
      BY Zenon, <3>1, GoodDivisions
    <3> QED
      BY Zenon, <3>2 DEF GoodChain
  <2> DEFINE d == BbpllDiv(adc)
  <2> HIDE DEF adc, top, d
  <2>3. top >= 714928500
    BY SMT, <2>1, BbpllRange
  <2>4. d \in AnyDivision /\ top = adc * d
    BY <2>1, <2>2 DEF d
  <2>5. adc >= 4096000
    BY SMT, <2>1, <2>3, <2>4 DEF AnyDivision
  <2> QED
    BY <2>5 DEF adc
<1> DEFINE Under(e, n) == r[e] \in Nat /\ r[e] >= n * 1000
<1>2. ASSUME NEW e \in Clocks, e # "Adc", NEW n \in Nat, Under(ParentOf(e), 4 * n)
      PROVE  Under(e, n)
  <2>1. PICK d \in 1..4 : r[e] \in Nat /\ r[ParentOf(e)] \in Nat /\ r[e] = r[ParentOf(e)] \div d
    BY <1>2, GoodDivisions
  <2> DEFINE p == r[ParentOf(e)]
             q == r[e]
  <2>2. p >= 4 * n * 1000
    BY <1>2
  <2>3. p \in Nat /\ q \in Nat /\ q = p \div d
    BY <2>1
  <2> HIDE DEF p, q
  <2>4. q >= n * 1000
    BY <2>2, <2>3
  <2> QED
    BY <2>1, <2>4 DEF q
<1> HIDE DEF Under
<1>3. Under("Adc", 4096)
  <2>1. r["Adc"] \in Nat
    BY TreeClocksAre DEF GoodChain
  <2> QED
    BY SMT, <1>1, <2>1 DEF Under
<1>4. /\ ParentOf("R2") = "Adc" /\ ParentOf("R1") = "R2" /\ ParentOf("ClkRf") = "R1"
      /\ ParentOf("RxSampl") = "ClkRf" /\ ParentOf("Dac") = "Adc" /\ ParentOf("T2") = "Dac"
      /\ ParentOf("T1") = "T2" /\ ParentOf("ClkTf") = "T1" /\ ParentOf("TxSampl") = "ClkTf"
  BY DEF ParentOf
<1>5. Clocks = {"Adc", "R2", "R1", "ClkRf", "RxSampl", "Dac", "T2", "T1", "ClkTf", "TxSampl"}
  BY DEF Clocks, RxClocks, TxClocks
<1>6. 4096 = 4 * 1024 /\ 1024 = 4 * 256 /\ 256 = 4 * 64 /\ 64 = 4 * 16 /\ 16 = 4 * 4
  OBVIOUS
<1>7. Under("R2", 1024) /\ Under("Dac", 1024)
  BY <1>2, <1>3, <1>4, <1>5, <1>6
<1>8. Under("R1", 256) /\ Under("T2", 256)
  BY <1>2, <1>4, <1>5, <1>6, <1>7
<1>9. Under("ClkRf", 64) /\ Under("T1", 64)
  BY <1>2, <1>4, <1>5, <1>6, <1>8
<1>10. Under("RxSampl", 16) /\ Under("ClkTf", 16)
  BY <1>2, <1>4, <1>5, <1>6, <1>9
<1>11. Under("TxSampl", 4)
  BY <1>2, <1>4, <1>5, <1>6, <1>10
<1>12. \E n \in {4, 16, 64, 256, 1024, 4096} : Under(c, n)
  BY <1>3, <1>5, <1>7, <1>8, <1>9, <1>10, <1>11
<1> QED
  BY <1>12 DEF Under

\* A stage whose parent is near makes a rate that is, and it never rejects it.
LEMMA StageMakes ==
  ASSUME NEW r, GoodChain(r), fir \in Firs, FirsDivide(fir, r), NEW c \in Clocks,
         NEW parent \in Nat, Near(parent, r[ParentOf(c)], r["Bbpll"])
  PROVE  LET ratio == Closest(r[c], parent)
             field == FieldFor(c, ratio.div)
             made  == parent \div DivisionOf(c, field)
         IN  /\ ScalerAccepts(c, ratio)
             /\ made \in Nat /\ Near(made, r[c], r["Bbpll"])
             /\ c = "Adc" => field = BbpllDiv(r["Adc"])
<1> DEFINE d     == Closest(r[c], r[ParentOf(c)]).div
           ratio == Closest(r[c], parent)
           field == FieldFor(c, ratio.div)
           made  == parent \div DivisionOf(c, field)
<1>1. /\ r[ParentOf(c)] \in Nat /\ r[c] \in Nat /\ r[c] = r[ParentOf(c)] \div d
      /\ d \in Divisions(c) /\ d \in AnyDivision
  BY GoodDivisions
<1>2. r["Bbpll"] \in Nat
  BY TreeClocksAre DEF GoodChain
<1>3. c = "Adc" => d = BbpllDiv(r["Adc"])
  BY DEF ParentOf, GoodChain
<1>4. c = "RxSampl" => d = IntDec(fir, "rx")
  BY DEF ParentOf, FirsDivide
<1>5. c = "TxSampl" => d = IntDec(fir, "tx")
  BY DEF ParentOf, FirsDivide
<1> HIDE DEF d
<1>6. ratio = [mult |-> 1, div |-> d]
  <2>1. PICK o \in Nat : OffBy(parent, r[ParentOf(c)], o) /\ o <= BbpllSlack
    BY Zenon DEF Near
  <2>2. o \in 0..17
    BY <2>1, Slack
  <2>3. r[c] >= 1000
    BY GoodIsLarge
  <2> QED
    BY Zenon, <1>1, <2>1, <2>2, <2>3, ClosestNear
<1>7. ratio.mult = 1 /\ ratio.div = d
  BY <1>6
<1> HIDE DEF ratio
<1>8. Near(parent \div d, r[c], r["Bbpll"]) /\ parent \div d \in Nat
  <2>1. Near(parent \div d, r[ParentOf(c)] \div d, r["Bbpll"])
    BY Zenon, <1>1, <1>2, NearUnder
  <2>2. parent \div d \in Nat
    BY <1>1 DEF AnyDivision
  <2> QED
    BY ONLY Zenon, <1>1, <2>1, <2>2
<1>9. ScalerAccepts(c, ratio)
  BY <1>1, <1>7 DEF ScalerAccepts
<1>10. DivisionOf(c, field) = d /\ (c = "Adc" => field = d)
  <2>1. CASE c \notin FirClocks
    BY <1>7, <2>1 DEF FieldFor, DivisionOf
  <2>2. CASE c \in FirClocks
    <3> DEFINE s == SideOf(c)
    <3>1. s \in Sides /\ c # "Adc" /\ d = IntDec(fir, s)
      BY <1>4, <1>5, <2>2 DEF SideOf, FirClocks, RxClocks, TxClocks, Sides
    <3> HIDE DEF s
    <3>2. IntDec(fir, s) \in {1, 2, 4} /\ (fir[s].bypassed => IntDec(fir, s) = 1)
      BY <3>1, IntDecs
    <3>3. field = IF fir[s].bypassed THEN 0 ELSE CHOOSE n \in 1..3 : 2^(n - 1) = d
      BY <1>7, <2>2 DEF FieldFor, s
    <3> HIDE DEF field
    <3>4. CASE fir[s].bypassed
      BY <2>2, <3>1, <3>2, <3>3, <3>4 DEF DivisionOf
    <3>5. CASE ~fir[s].bypassed
      <4>1. \E n \in 1..3 : 2^(n - 1) = d
        <5>1. 2^(1 - 1) = 1 /\ 2^(2 - 1) = 2 /\ 2^(3 - 1) = 4
          BY SMT
        <5>2. 1 \in 1..3 /\ 2 \in 1..3 /\ 3 \in 1..3
          OBVIOUS
        <5>3. d = 1 \/ d = 2 \/ d = 4
          BY <3>1, <3>2
        <5> QED
          BY ONLY Zenon, <5>1, <5>2, <5>3
      <4>2. field \in 1..3 /\ 2^(field - 1) = d
        BY ONLY Zenon, <3>3, <3>5, <4>1
      <4> QED
        BY <2>2, <3>1, <4>2 DEF DivisionOf
    <3> QED
      BY <3>4, <3>5
  <2> QED
    BY <2>1, <2>2
<1> QED
  BY <1>3, <1>8, <1>9, <1>10 DEF ratio

-----------------------------------------------------------------------------
(***************************************************************************)
(* The invariant. A call works towards a good chain; the stages behind it  *)
(* are set in the cache whatever faults came before, up to the rounding of *)
(* the BBPLL, and so are the fields of FIRs that change no rate.           *)
(***************************************************************************)
Shapes ==
  /\ rates \in [TreeClocks -> Nat] /\ DOMAIN reg = Clocks
  /\ fir \in Firs
  /\ stage \in 0..14 /\ boot \in -1..(Len(SweepRates) + 1) /\ faults \in Nat

CallFits ==
  stage > 0 =>
    /\ call.kind = "fir" => call.side \in Sides /\ Booted
    /\ call.kind = "sweep" => boot \in 0..(Len(SweepRates) - 1)
    /\ call.kind = "configured" => boot = Len(SweepRates)
    /\ boot >= 0
    /\ GoodChain(call.rates) /\ FirsDivide(fir, call.rates)

OffUntilBooted == ~Booted => fir["rx"].bypassed /\ fir["tx"].bypassed

StagesAreSet ==
  \A c \in TreeClocks : stage > StageOf[c] =>
    Near(rates[c], call.rates[c], call.rates["Bbpll"])

FirFieldsAreSet ==
  \A s \in Sides : stage > FirStage(s) /\ IntDec(fir, s) = 1 =>
     (reg[FirClock(s)] = 0 <=> fir[s].bypassed)

TreeInv ==
  Shapes /\ CallFits /\ OffUntilBooted /\ StagesAreSet /\ FirFieldsAreSet

LEMMA Lengths == Len(SweepRates) \in Nat
  BY SettingsAssumption

(* Between calls, only two parts say something. *)
LEMMA IdleKeeps ==
  ASSUME stage' = 0, Shapes', OffUntilBooted'
  PROVE  TreeInv'
<1>1. CallFits'
  BY DEF CallFits
<1>2. StagesAreSet'
  BY StagesOfClocks DEF StagesAreSet
<1>3. FirFieldsAreSet'
  BY DEF FirFieldsAreSet, FirStage, Sides
<1> QED
  BY <1>1, <1>2, <1>3 DEF TreeInv

LEMMA StartKeeps ==
  ASSUME TreeInv, NEW kind, NEW side, NEW chain, Start(kind, side, chain),
         stage = 0, UNCHANGED <<reg, bbpll, rates, boot, faults>>,
         fir' \in Firs, OffUntilBooted', boot >= 0,
         kind = "fir" => side \in Sides /\ Booted,
         kind = "sweep" => boot \in 0..(Len(SweepRates) - 1),
         kind = "configured" => boot = Len(SweepRates),
         GoodChain(ChainRates(chain.rx, chain.tx)),
         FirsDivide(fir', ChainRates(chain.rx, chain.tx))
  PROVE  TreeInv'
<1>1. /\ call'.kind = kind /\ call'.side = side
      /\ call'.rates = ChainRates(chain.rx, chain.tx) /\ stage' = 1
  BY DEF Start
<1>2. Shapes'
  BY <1>1 DEF TreeInv, Shapes
<1>3. CallFits'
  BY Zenon, <1>1 DEF CallFits, Booted
<1>4. StagesAreSet'
  BY <1>1, StagesOfClocks DEF StagesAreSet
<1>5. FirFieldsAreSet'
  BY <1>1 DEF FirFieldsAreSet, FirStage, Sides
<1> QED
  BY <1>2, <1>3, <1>4, <1>5 DEF TreeInv

(* A call that returns: boot and the FIR flags keep what they promise. *)
LEMMA ReturnKeeps ==
  ASSUME TreeInv, stage > 0, NEW res, Return(res),
         rates' \in [TreeClocks -> Nat], DOMAIN reg' = Clocks, faults' \in Nat
  PROVE  TreeInv'
<1>1. /\ fir \in Firs /\ boot \in -1..(Len(SweepRates) + 1) /\ boot >= 0
      /\ call.kind = "fir" => call.side \in Sides
      /\ call.kind = "sweep" => boot \in 0..(Len(SweepRates) - 1)
      /\ call.kind = "configured" => boot = Len(SweepRates)
      /\ ~Booted => fir["rx"].bypassed /\ fir["tx"].bypassed
  BY DEF TreeInv, Shapes, CallFits, OffUntilBooted
<1>2. fir' \in Firs /\ \A s \in Sides : fir[s].bypassed => fir'[s].bypassed
  <2>1. CASE fir' = fir
    BY <1>1, <2>1
  <2>2. CASE fir' = [fir EXCEPT ![call.side].bypassed = TRUE] /\ call.kind = "fir"
    BY <1>1, <2>2 DEF Firs
  <2> QED
    BY <2>1, <2>2 DEF Return
<1>3. /\ boot' \in -1..(Len(SweepRates) + 1)
      /\ boot' # Len(SweepRates) + 1 => ~Booted
  <2>1. boot' = CASE call.kind = "sweep" -> boot + 1
                  [] call.kind = "configured" ->
                       IF res = "ok" THEN boot + 1 ELSE InitFailed
                  [] OTHER -> boot
    BY DEF Return
  <2>2. CASE call.kind = "sweep"
    BY <1>1, <2>1, <2>2, Lengths DEF Booted
  <2>3. CASE call.kind = "configured"
    <3>1. boot' = boot + 1 \/ boot' = -1
      BY <2>1, <2>3 DEF InitFailed
    <3> QED
      BY <1>1, <2>3, <3>1, Lengths DEF Booted
  <2>4. CASE call.kind # "sweep" /\ call.kind # "configured"
    BY <1>1, <2>1, <2>4, Lengths DEF Booted
  <2> QED
    BY <2>2, <2>3, <2>4
<1>4. stage' = 0
  BY DEF Return
<1>5. OffUntilBooted'
  BY <1>1, <1>2, <1>3 DEF OffUntilBooted, Booted, Sides
<1>6. Shapes'
  BY <1>2, <1>3, <1>4 DEF Shapes
<1> QED
  BY <1>4, <1>5, <1>6, IdleKeeps

(* A stage that is done, and what it sets. *)
LEMMA NextKeeps ==
  ASSUME TreeInv, stage \in 1..13, NextStage,
         rates' \in [TreeClocks -> Nat], DOMAIN reg' = Clocks, faults' = faults,
         StagesAreSet', FirFieldsAreSet'
  PROVE  TreeInv'
<1>1. Shapes'
  BY DEF NextStage, TreeInv, Shapes
<1>2. CallFits' /\ OffUntilBooted'
  BY DEF NextStage, TreeInv, CallFits, OffUntilBooted, Booted
<1> QED
  BY <1>1, <1>2 DEF TreeInv

-----------------------------------------------------------------------------
(* The words of a rate within the limits. *)
LEMMA WordsSet ==
  ASSUME NEW rate \in Nat, rate \in MinBbpllFreq..MaxBbpllFreq
  PROVE  BbpllRate(WordsSetFor(rate)) = Rounded(rate) /\ Rounded(rate) \in Nat
<1>1. Clamp(rate) = rate
  <2>1. rate \in Nat /\ rate >= 714928500 /\ rate <= 1430143000
    BY SMT, BbpllRange
  <2> QED
    BY ONLY SMT, <2>1, Limits DEF Clamp
<1>2. Rounded(rate) \in Nat
  BY RoundedNear
<1>3. Rounded(Rounded(rate)) = Rounded(rate)
  BY <1>2, RoundedAgain
<1> QED
  BY Zenon, <1>1, <1>2, <1>3 DEF WordsSetFor, Rounded

LEMMA GoodBbpll ==
  ASSUME NEW r, GoodChain(r)
  PROVE  /\ r["Bbpll"] \in Nat /\ r["Bbpll"] \in MinBbpllFreq..MaxBbpllFreq
         /\ r["Bbpll"] = r.Bbpll
<1>1. r["Bbpll"] = r.Bbpll /\ "Bbpll" \in TreeClocks
  BY TreeClocksAre
<1> QED
  BY Zenon, <1>1 DEF GoodChain, DividersMake

(* The chip after setup. *)
LEMMA RunningTypes ==
  ASSUME NEW words, BbpllRate(words) \in Nat, NEW fields,
         \A c \in Clocks : DivisionOf(c, fields[c]) \in Nat \ {0}
  PROVE  RunningOn(words, fields) \in [TreeClocks -> Nat]
<1> DEFINE under(clock, parent) == parent \div DivisionOf(clock, fields[clock])
           adc   == under("Adc", BbpllRate(words))
           r2    == under("R2", adc)
           r1    == under("R1", r2)
           clkrf == under("ClkRf", r1)
           rx    == under("RxSampl", clkrf)
           dac   == under("Dac", adc)
           t2    == under("T2", dac)
           t1    == under("T1", t2)
           clktf == under("ClkTf", t1)
           tx    == under("TxSampl", clktf)
           all   == RunningOn(words, fields)
<1>1. /\ "Adc" \in Clocks /\ "R2" \in Clocks /\ "R1" \in Clocks /\ "ClkRf" \in Clocks
      /\ "RxSampl" \in Clocks /\ "Dac" \in Clocks /\ "T2" \in Clocks /\ "T1" \in Clocks
      /\ "ClkTf" \in Clocks /\ "TxSampl" \in Clocks
  BY DEF Clocks, RxClocks, TxClocks
<1>2. ASSUME NEW c \in Clocks, NEW p \in Nat PROVE under(c, p) \in Nat
  BY <1>2
<1>3. all = [Bbpll |-> BbpllRate(words), Adc |-> adc, R2 |-> r2, R1 |-> r1,
             ClkRf |-> clkrf, RxSampl |-> rx, Dac |-> dac, T2 |-> t2, T1 |-> t1,
             ClkTf |-> clktf, TxSampl |-> tx]
  BY Zenon DEF RunningOn
<1> HIDE DEF under
<1>4. adc \in Nat
  BY Zenon, <1>1, <1>2
<1> HIDE DEF adc
<1>5. r2 \in Nat /\ dac \in Nat
  BY Zenon, <1>1, <1>2, <1>4
<1> HIDE DEF r2, dac
<1>6. r1 \in Nat /\ t2 \in Nat
  BY Zenon, <1>1, <1>2, <1>5
<1> HIDE DEF r1, t2
<1>7. clkrf \in Nat /\ t1 \in Nat
  BY Zenon, <1>1, <1>2, <1>6
<1> HIDE DEF clkrf, t1
<1>8. rx \in Nat /\ clktf \in Nat
  BY Zenon, <1>1, <1>2, <1>7
<1> HIDE DEF rx, clktf
<1>9. tx \in Nat
  BY Zenon, <1>1, <1>2, <1>8
<1> HIDE DEF tx, all
<1> QED
  BY <1>3, <1>4, <1>5, <1>6, <1>7, <1>8, <1>9, TreeClocksAre DEF all

LEMMA SetupIsGood ==
  ASSUME NEW r, NEW b, NEW cached, AfterSetup(r, b, cached)
  PROVE  cached \in [TreeClocks -> Nat] /\ DOMAIN r = Clocks
<1>1. GoodChain(InitRates)
  BY ConfiguredChain
<1>2. /\ b = WordsSetFor(InitRates.Bbpll) /\ cached = RunningOn(b, r)
      /\ r = [c \in Clocks |-> IF c \in FirClocks THEN 0
                ELSE Closest(InitRates[c], InitRates[ParentOf(c)]).div]
  BY Zenon DEF AfterSetup
<1>3. BbpllRate(b) \in Nat
  BY Zenon, <1>1, <1>2, GoodBbpll, WordsSet
<1>4. ASSUME NEW c \in Clocks PROVE DivisionOf(c, r[c]) \in Nat \ {0}
  <2>1. CASE c \in FirClocks
    <3>1. r[c] = 0
      BY <1>2, <2>1
    <3> QED
      BY <2>1, <3>1 DEF DivisionOf
  <2>2. CASE c \notin FirClocks
    <3>1. r[c] = Closest(InitRates[c], InitRates[ParentOf(c)]).div
      BY Zenon, <1>2, <2>2
    <3>2. r[c] \in AnyDivision
      BY Zenon, <1>1, <3>1, GoodDivisions
    <3>3. DivisionOf(c, r[c]) = r[c]
      BY <2>2 DEF DivisionOf
    <3> QED
      BY <3>2, <3>3 DEF AnyDivision
  <2> QED
    BY <2>1, <2>2
<1>5. DOMAIN r = Clocks
  BY <1>2
<1> QED
  BY Zenon, <1>2, <1>3, <1>4, <1>5, RunningTypes

LEMMA DefaultFirsAre ==
  ASSUME NEW f \in DefaultFirs
  PROVE  f \in Firs /\ f["rx"].bypassed /\ f["tx"].bypassed
<1>1. PICK n \in FirTaps :
         f = [s \in Sides |-> [factor |-> 1, ntaps |-> n, bypassed |-> TRUE]]
  BY DEF DefaultFirs
<1>2. [factor |-> 1, ntaps |-> n, bypassed |-> TRUE]
        \in [factor : {1, 2, 4}, ntaps : FirTaps, bypassed : BOOLEAN]
  OBVIOUS
<1>3. f \in Firs
  BY Zenon, <1>1, <1>2 DEF Firs
<1>4. f["rx"] = [factor |-> 1, ntaps |-> n, bypassed |-> TRUE]
      /\ f["tx"] = [factor |-> 1, ntaps |-> n, bypassed |-> TRUE]
  BY <1>1 DEF Sides
<1> QED
  BY <1>3, <1>4

LEMMA InitGood == Init => TreeInv
<1> SUFFICES ASSUME Init PROVE TreeInv
  OBVIOUS
<1>1. stage = 0 /\ boot = 0 /\ faults = 0 /\ fir \in DefaultFirs
      /\ AfterSetup(reg, bbpll, rates)
  BY DEF Init
<1>2. Shapes
  BY <1>1, SetupIsGood, DefaultFirsAre, Lengths DEF Shapes
<1>3. OffUntilBooted
  BY <1>1, DefaultFirsAre DEF OffUntilBooted
<1>5. CallFits /\ StagesAreSet /\ FirFieldsAreSet
  BY <1>1, StagesOfClocks DEF CallFits, StagesAreSet, FirFieldsAreSet, FirStage, Sides
<1> QED
  BY <1>2, <1>3, <1>5 DEF TreeInv

LEMMA SweepRateKeeps ==
  ASSUME TreeInv, SweepRate
  PROVE  TreeInv'
<1> DEFINE rate  == SweepRates[boot + 1]
           chain == CalculateRfClockChain(RequestFor(fir, rate))
<1>1. /\ stage = 0 /\ boot \in 0..(Len(SweepRates) - 1)
      /\ UNCHANGED <<reg, bbpll, rates, fir, faults>>
  BY DEF SweepRate
<1>2. /\ fir \in Firs /\ OffUntilBooted /\ Shapes
  BY DEF TreeInv, Shapes
<1>3. ~Booted
  BY <1>1, Lengths DEF Booted
<1>4. CASE Valid(chain)
  <2>1. Start("sweep", "none", chain) /\ boot' = boot
    BY <1>4 DEF SweepRate
  <2>3. GoodChain(ChainRates(chain.rx, chain.tx)) /\ FirsDivide(fir, ChainRates(chain.rx, chain.tx))
    BY Zenon, <1>2, <1>4, CalculatedChain
  <2>4. fir' \in Firs /\ fir' = fir /\ OffUntilBooted' /\ boot >= 0
    BY <1>1, <1>2, <2>1 DEF OffUntilBooted, Booted
  <2> HIDE DEF chain
  <2> QED
    BY <1>1, <2>1, <2>3, <2>4, StartKeeps
<1>5. CASE ~Valid(chain)
  <2>1. boot' = boot + 1 /\ stage' = stage
    BY <1>5 DEF SweepRate, Refuse
  <2>2. Shapes'
    BY <1>1, <1>2, <2>1, Lengths DEF Shapes
  <2>3. OffUntilBooted'
    BY <1>1, <1>2, <1>3, <2>1 DEF OffUntilBooted
  <2> QED
    BY <1>1, <2>1, <2>2, <2>3, IdleKeeps
<1> QED
  BY <1>4, <1>5

LEMMA SetConfiguredChainKeeps ==
  ASSUME TreeInv, SetConfiguredChain
  PROVE  TreeInv'
<1> DEFINE chain == [rx |-> InitRx, tx |-> InitTx]
<1>1. /\ stage = 0 /\ boot = Len(SweepRates)
      /\ Start("configured", "none", chain)
      /\ UNCHANGED <<reg, bbpll, rates, fir, boot, faults>>
  BY DEF SetConfiguredChain
<1>2. ChainRates(chain.rx, chain.tx) = InitRates
  BY DEF InitRates
<1> HIDE DEF chain
<1>3. fir \in Firs /\ fir["rx"].bypassed /\ fir["tx"].bypassed /\ boot >= 0
  BY <1>1, Lengths DEF TreeInv, Shapes, OffUntilBooted, Booted
<1>4. GoodChain(InitRates) /\ FirsDivide(fir, InitRates)
  BY <1>3, ConfiguredChain
<1>5. fir' = fir /\ OffUntilBooted'
  BY <1>1, <1>3 DEF OffUntilBooted
<1> QED
  BY <1>1, <1>2, <1>3, <1>4, <1>5, StartKeeps

LEMMA InitAgainKeeps ==
  ASSUME TreeInv, InitAgain
  PROVE  TreeInv'
<1>1. /\ boot = -1 /\ boot' = 0 /\ fir' \in DefaultFirs /\ stage' = stage
      /\ faults' = faults /\ AfterSetup(reg', bbpll', rates')
  BY DEF InitAgain, InitFailed
<1>2. stage = 0 /\ faults \in Nat
  BY <1>1 DEF TreeInv, CallFits, Shapes
<1>3. /\ rates' \in [TreeClocks -> Nat] /\ DOMAIN reg' = Clocks
  BY <1>1, SetupIsGood DEF AfterSetup
<1>4. Shapes' /\ OffUntilBooted'
  BY <1>1, <1>2, <1>3, DefaultFirsAre, Lengths DEF Shapes, OffUntilBooted
<1> QED
  BY <1>1, <1>2, <1>4, IdleKeeps

LEMMA SetSampleRateKeeps ==
  ASSUME TreeInv, NEW rate, SetSampleRate(rate)
  PROVE  TreeInv'
<1> DEFINE chain == CalculateRfClockChain(RequestFor(fir, rate))
<1>1. /\ stage = 0 /\ Booted /\ UNCHANGED <<reg, bbpll, rates, fir, boot, faults>>
      /\ Valid(chain) => Start("rate", "none", chain)
      /\ ~Valid(chain) => Refuse("InvalidRate")
  BY DEF SetSampleRate
<1>2. /\ fir \in Firs /\ fir' = fir /\ OffUntilBooted' /\ boot >= 0
      /\ Shapes
  BY <1>1, Lengths DEF TreeInv, Shapes, OffUntilBooted, Booted
<1>3. CASE Valid(chain)
  <2>1. GoodChain(ChainRates(chain.rx, chain.tx)) /\ FirsDivide(fir, ChainRates(chain.rx, chain.tx))
    BY Zenon, <1>2, <1>3, CalculatedChain
  <2> HIDE DEF chain
  <2> QED
    BY <1>1, <1>2, <1>3, <2>1, StartKeeps
<1>4. CASE ~Valid(chain)
  <2>1. stage' = 0
    BY <1>1, <1>4 DEF Refuse
  <2>2. Shapes'
    BY <1>1, <1>2, <2>1 DEF Shapes
  <2> QED
    BY <1>2, <2>1, <2>2, IdleKeeps
<1> QED
  BY <1>3, <1>4

LEMMA SetFirEnabledKeeps ==
  ASSUME TreeInv, NEW side \in Sides, NEW enable \in BOOLEAN, SetFirEnabled(side, enable)
  PROVE  TreeInv'
<1> DEFINE switched == [fir EXCEPT ![side].bypassed = ~enable]
           off      == [fir EXCEPT ![side].bypassed = TRUE]
           chain    == ChainForFir(switched)
           goes     == fir[side].bypassed # ~enable /\ Valid(chain)
                         /\ ~TooLong(switched, chain)
<1>1. /\ stage = 0 /\ Booted /\ UNCHANGED <<reg, bbpll, rates, boot, faults>>
      /\ goes => Start("fir", side, chain) /\ fir' = switched
      /\ ~goes => /\ \E error : Refuse(error)
                  /\ fir' = fir \/ fir' = off
  BY DEF SetFirEnabled
<1>2. fir \in Firs /\ Shapes
  BY DEF TreeInv, Shapes
<1>3. switched \in Firs /\ off \in Firs
  BY <1>2 DEF Firs
<1>4. OffUntilBooted' /\ boot >= 0
  BY <1>1, Lengths DEF OffUntilBooted, Booted
<1>5. CASE goes
  <2>1. Valid(chain)
    BY <1>5
  <2>2. \E rate : chain = CalculateRfClockChain(RequestFor(switched, rate))
    BY DEF ChainForFir
  <2> HIDE DEF chain, switched
  <2>3. /\ GoodChain(ChainRates(chain.rx, chain.tx))
        /\ FirsDivide(switched, ChainRates(chain.rx, chain.tx))
    BY Zenon, <1>3, <2>1, <2>2, CalculatedChain
  <2> HIDE DEF goes
  <2>4. fir' \in Firs /\ FirsDivide(fir', ChainRates(chain.rx, chain.tx))
    BY <1>1, <1>3, <1>5, <2>3
  <2> QED
    BY <1>1, <1>4, <1>5, <2>3, <2>4, StartKeeps
<1>6. CASE ~goes
  <2>1. stage' = 0 /\ fir' \in Firs
    BY <1>1, <1>2, <1>3, <1>6 DEF Refuse
  <2>2. Shapes'
    BY <1>1, <1>2, <2>1 DEF Shapes
  <2> QED
    BY <1>4, <2>1, <2>2, IdleKeeps
<1> QED
  BY <1>5, <1>6

LEMMA LoadFirKeeps ==
  ASSUME TreeInv, NEW side \in Sides, NEW factor \in FirFactors, NEW ntaps \in FirTaps,
         LoadFir(side, factor, ntaps)
  PROVE  TreeInv'
<1>1. /\ stage = 0 /\ Booted /\ UNCHANGED <<bbpll, rates, call, stage, boot>>
      /\ fir' = [fir EXCEPT ![side].factor = factor, ![side].ntaps = ntaps]
  BY DEF LoadFir
<1>2. /\ fir \in Firs /\ Shapes /\ DOMAIN reg = Clocks /\ faults \in Nat
  BY DEF TreeInv, Shapes
<1>3. fir' \in Firs
  <2>1. factor \in {1, 2, 4}
    BY SettingsAssumption
  <2> QED
    BY <1>1, <1>2, <2>1 DEF Firs
<1>4. /\ DOMAIN reg' = Clocks /\ faults' \in Nat
  <2>2. \/ reg' = reg
        \/ reg' = [reg EXCEPT ![FirClock(side)] = IF factor = 4 THEN 3 ELSE factor]
    BY DEF LoadFir
  <2>3. faults' = faults \/ faults' = faults + 1
    BY DEF LoadFir, Fault
  <2>4. DOMAIN reg' = Clocks
    BY <1>2, <2>2
  <2>5. faults' \in Nat
    BY <1>2, <2>3
  <2> QED
    BY <2>4, <2>5
<1>5. Shapes' /\ OffUntilBooted'
  <2>1. Shapes'
    BY <1>1, <1>2, <1>3, <1>4 DEF Shapes
  <2>2. OffUntilBooted'
    BY <1>1 DEF OffUntilBooted, Booted
  <2> QED
    BY <2>1, <2>2
<1> QED
  BY <1>1, <1>5, IdleKeeps

-----------------------------------------------------------------------------
(* The stages of apply_trx_clock_chain. *)
LEMMA RunningCall ==
  ASSUME TreeInv, stage > 0
  PROVE  /\ GoodChain(call.rates) /\ FirsDivide(fir, call.rates)
         /\ rates \in [TreeClocks -> Nat] /\ DOMAIN reg = Clocks /\ fir \in Firs
         /\ faults \in Nat
         /\ StagesAreSet /\ FirFieldsAreSet
  BY DEF TreeInv, Shapes, CallFits

LEMMA FaultCounts ==
  ASSUME Fault, faults \in Nat
  PROVE  faults' \in Nat /\ faults' # 0
  BY DEF Fault

LEMMA SetBbpllRateKeeps ==
  ASSUME TreeInv, SetBbpllRate
  PROVE  TreeInv'
<1> DEFINE target == call.rates["Bbpll"]
           made   == BbpllRate(WordsSetFor(target))
<1>1. /\ stage = 1 /\ reg' = reg
      /\ \/ rates["Bbpll"] = target /\ NextStage /\ rates' = rates /\ faults' = faults
         \/ rates' = [rates EXCEPT !["Bbpll"] = made] /\ NextStage /\ faults' = faults
         \/ Fault /\ rates' = rates /\ \E res : Return(res)
  BY Zenon DEF SetBbpllRate
<1>2. /\ GoodChain(call.rates) /\ rates \in [TreeClocks -> Nat] /\ DOMAIN reg = Clocks
      /\ faults \in Nat /\ StagesAreSet /\ FirFieldsAreSet
  BY <1>1, RunningCall
<1>3. target \in Nat /\ made \in Nat /\ Near(made, target, target)
  BY Zenon, <1>2, GoodBbpll, WordsSet, NearBbpll
<1> HIDE DEF target, made
<1>4. CASE /\ NextStage /\ faults' = faults /\ rates' \in [TreeClocks -> Nat]
           /\ Near(rates'["Bbpll"], target, target)
  <2>1. stage' = 2 /\ call' = call /\ fir' = fir
    BY <1>1, <1>4 DEF NextStage
  <2>2. StagesAreSet'
    <3> SUFFICES ASSUME NEW c \in TreeClocks, 2 > StageOf[c]
                 PROVE  Near(rates'[c], call.rates[c], call.rates["Bbpll"])
      BY <2>1 DEF StagesAreSet
    <3>1. c = "Bbpll"
      BY StagesOfClocks
    <3> QED
      BY <1>4, <3>1 DEF target
  <2>3. FirFieldsAreSet'
    BY <2>1 DEF FirFieldsAreSet, FirStage, Sides
  <2> QED
    BY <1>1, <1>2, <1>4, <2>2, <2>3, NextKeeps
<1>5. CASE NextStage /\ rates' = rates /\ rates["Bbpll"] = target /\ faults' = faults
  BY <1>2, <1>3, <1>4, <1>5, NearItself
<1>6. CASE NextStage /\ faults' = faults /\ rates' = [rates EXCEPT !["Bbpll"] = made]
  <2>1. rates' \in [TreeClocks -> Nat] /\ rates'["Bbpll"] = made
    <3>1. "Bbpll" \in TreeClocks
      BY TreeClocksAre
    <3> QED
      BY <1>2, <1>3, <1>6, <3>1
  <2> QED
    BY <1>3, <1>4, <1>6, <2>1
<1>7. CASE Fault /\ rates' = rates /\ \E res : Return(res)
  <2>1. faults' \in Nat
    BY <1>2, <1>7, FaultCounts
  <2> QED
    BY <1>1, <1>2, <1>7, <2>1, ReturnKeeps
<1> QED
  BY <1>1, <1>5, <1>6, <1>7

LEMMA SetClockRateKeeps ==
  ASSUME TreeInv, SetClockRate
  PROVE  TreeInv' /\ (stage' = 0 => result' = "Spi")
<1> DEFINE clock  == ClockAt(stage)
           r      == call.rates
           parent == rates[ParentOf(clock)]
           ratio  == Closest(r[clock], parent)
           field  == FieldFor(clock, ratio.div)
           set    == [reg EXCEPT ![clock] = field]
           made   == parent \div DivisionOf(clock, set[clock])
<1>1. stage \in ClockStages
  BY DEF SetClockRate
<1>2. stage \in 1..13 /\ stage > 0 /\ stage > 1 /\ stage \in Nat
  BY <1>1 DEF ClockStages
<1>3. /\ GoodChain(r) /\ FirsDivide(fir, r) /\ fir \in Firs
      /\ rates \in [TreeClocks -> Nat] /\ DOMAIN reg = Clocks
      /\ faults \in Nat /\ StagesAreSet /\ FirFieldsAreSet
  BY <1>2, RunningCall
<1>4. /\ clock \in Clocks /\ StageOf[clock] = stage /\ ParentOf(clock) \in TreeClocks
      /\ StageOf[ParentOf(clock)] < stage /\ clock \in TreeClocks
      /\ \A c \in TreeClocks : StageOf[c] = stage => c = clock
  BY <1>1, ParentsFirst, TreeClocksAre
<1>5. parent \in Nat /\ Near(parent, r[ParentOf(clock)], r["Bbpll"])
  BY <1>3, <1>4 DEF StagesAreSet
<1>6. /\ ScalerAccepts(clock, ratio) /\ parent \div DivisionOf(clock, field) \in Nat
      /\ Near(parent \div DivisionOf(clock, field), r[clock], r["Bbpll"])
  BY Zenon, <1>3, <1>4, <1>5, StageMakes
<1>7. set[clock] = field
  BY <1>3, <1>4
<1>8. made \in Nat /\ Near(made, r[clock], r["Bbpll"])
  BY Zenon, <1>6, <1>7
<1>9. \/ rates[clock] = r[clock] /\ NextStage /\ UNCHANGED <<reg, rates, faults>>
      \/ /\ reg' = set /\ rates' = [rates EXCEPT ![clock] = made]
         /\ NextStage /\ faults' = faults
      \/ Fault /\ (reg' = reg \/ reg' = set) /\ Return("Spi") /\ rates' = rates
  <2> HIDE DEF made, field
  <2>2. \/ rates[clock] = r[clock] /\ NextStage /\ UNCHANGED <<reg, rates, faults>>
        \/ /\ reg' = set /\ rates' = [rates EXCEPT ![clock] = made]
           /\ NextStage /\ faults' = faults
        \/ Fault /\ reg' \in {reg, set} /\ Return("Spi") /\ rates' = rates
    BY Zenon, <1>6 DEF SetClockRate, made, field
  <2> HIDE DEF set
  <2> QED
    BY <2>2
<1> HIDE DEF made, set, field, ratio, parent, clock
<1>10. /\ r \in [TreeClocks -> Nat] /\ "Bbpll" \in TreeClocks
  BY <1>3, TreeClocksAre DEF GoodChain
<1>11. DOMAIN set = Clocks
  BY <1>3 DEF set
<1>12. CASE NextStage /\ faults' = faults /\ rates' \in [TreeClocks -> Nat]
            /\ DOMAIN reg' = Clocks /\ Near(rates'[clock], r[clock], r["Bbpll"])
            /\ (\A c \in TreeClocks \ {clock} : rates'[c] = rates[c])
  <2>1. stage' = stage + 1 /\ call' = call /\ fir' = fir
    BY <1>12 DEF NextStage
  <2>2. StagesAreSet'
    <3> SUFFICES ASSUME NEW c \in TreeClocks, stage' > StageOf[c]
                 PROVE  Near(rates'[c], r[c], r["Bbpll"])
      BY <2>1 DEF StagesAreSet
    <3>1. CASE c = clock
      BY <1>12, <3>1
    <3>2. CASE c # clock
      <4>1. stage > StageOf[c]
        BY <1>2, <1>4, <2>1, <3>2, StagesOfClocks
      <4>2. rates'[c] = rates[c]
        BY <1>12, <3>2
      <4> QED
        BY <1>3, <4>1, <4>2 DEF StagesAreSet
    <3> QED
      BY <3>1, <3>2
  <2>3. FirFieldsAreSet'
    BY <1>1, <2>1 DEF ClockStages, FirFieldsAreSet, FirStage, Sides
  <2>4. stage' # 0
    BY <1>2, <2>1
  <2> QED
    BY <1>2, <1>12, <2>2, <2>3, <2>4, NextKeeps
<1>13. CASE Fault /\ Return("Spi") /\ rates' = rates /\ DOMAIN reg' = Clocks
  <2>1. faults' \in Nat
    BY <1>3, <1>13, FaultCounts
  <2>2. result' = "Spi"
    BY <1>13 DEF Return
  <2> QED
    BY <1>2, <1>3, <1>13, <2>1, <2>2, ReturnKeeps
<1>14. CASE rates[clock] = r[clock] /\ NextStage /\ UNCHANGED <<reg, rates, faults>>
  <2>1. Near(r[clock], r[clock], r["Bbpll"])
    BY <1>4, <1>10, NearItself
  <2> QED
    BY <1>3, <1>12, <1>14, <2>1
<1>15. CASE /\ reg' = set /\ rates' = [rates EXCEPT ![clock] = made]
            /\ NextStage /\ faults' = faults
  <2>1. /\ rates' \in [TreeClocks -> Nat] /\ rates'[clock] = made
        /\ \A c \in TreeClocks \ {clock} : rates'[c] = rates[c]
    BY <1>3, <1>4, <1>8, <1>15
  <2> QED
    BY <1>8, <1>11, <1>12, <1>15, <2>1
<1> QED
  BY <1>3, <1>9, <1>11, <1>13, <1>14, <1>15

LEMMA SetFirFieldKeeps ==
  ASSUME TreeInv, NEW side \in Sides, SetFirField(side)
  PROVE  TreeInv' /\ (stage' = 0 => result' = "Spi")
<1> DEFINE c   == FirClock(side)
           new == IF fir[side].bypassed THEN 0 ELSE 1
           set == [reg EXCEPT ![c] = new]
<1>1. /\ stage = FirStage(side) /\ stage \in {12, 13} /\ UNCHANGED <<bbpll, rates>>
      /\ (side = "rx" /\ stage = 12) \/ (side = "tx" /\ stage = 13)
  BY DEF SetFirField, FirStage, Sides
<1>2. /\ rates \in [TreeClocks -> Nat] /\ DOMAIN reg = Clocks /\ faults \in Nat
      /\ StagesAreSet /\ FirFieldsAreSet /\ fir \in Firs
  BY <1>1, RunningCall
<1>3. c \in Clocks /\ c # "Adc" /\ "Adc" \in Clocks
  BY DEF FirClock, Clocks, RxClocks, TxClocks
<1>4. \/ IntDec(fir, side) # 1 /\ NextStage /\ reg' = reg /\ faults' = faults
      \/ IntDec(fir, side) = 1 /\ NextStage /\ reg' = set /\ faults' = faults
      \/ (reg' = reg \/ reg' = set) /\ Fault /\ Return("Spi")
  BY DEF SetFirField
<1>5. reg' = reg \/ reg' = set
  BY <1>4
<1>6. DOMAIN reg' = Clocks
  BY <1>2, <1>5
<1>7. CASE NextStage /\ faults' = faults
           /\ ((IntDec(fir, side) # 1 /\ reg' = reg) \/ reg' = set)
  <2>1. stage' = stage + 1 /\ call' = call /\ fir' = fir /\ stage' # 0
    BY <1>1, <1>7 DEF NextStage
  <2>2. StagesAreSet'
    BY <1>1, <1>2, <2>1, StagesOfClocks DEF StagesAreSet
  <2>3. FirFieldsAreSet'
    <3> SUFFICES ASSUME NEW s \in Sides, stage' > FirStage(s), IntDec(fir, s) = 1
                 PROVE  reg'[FirClock(s)] = 0 <=> fir[s].bypassed
      BY <2>1 DEF FirFieldsAreSet, FirStage, FirClock, IntDec
    <3>1. CASE s = side
      <4>1. reg'[c] = new
        BY <1>2, <1>3, <1>7, <3>1
      <4> QED
        BY <3>1, <4>1
    <3>2. CASE s # side
      <4>1. stage > FirStage(s) /\ FirClock(s) # c
        BY <1>1, <2>1, <3>2 DEF FirStage, FirClock, Sides
      <4>2. reg'[FirClock(s)] = reg[FirClock(s)]
        BY <1>2, <1>3, <1>5, <4>1 DEF FirClock, Clocks, RxClocks, TxClocks
      <4>3. reg[FirClock(s)] = 0 <=> fir[s].bypassed
        BY <1>2, <4>1 DEF FirFieldsAreSet
      <4> QED
        BY <4>2, <4>3
    <3> QED
      BY <3>1, <3>2
  <2>5. stage \in 1..13
    BY <1>1
  <2> QED
    BY <1>1, <1>2, <1>6, <1>7, <2>1, <2>2, <2>3, <2>5, NextKeeps
<1>8. CASE Fault /\ Return("Spi")
  <2>1. faults' \in Nat
    BY <1>2, <1>8, FaultCounts
  <2>2. result' = "Spi" /\ stage > 0
    BY <1>1, <1>8 DEF Return
  <2> QED
    BY <1>1, <1>2, <1>6, <1>8, <2>1, <2>2, ReturnKeeps
<1> QED
  BY <1>4, <1>7, <1>8

LEMMA UpdateDependentsKeeps ==
  ASSUME TreeInv, UpdateDependents
  PROVE  TreeInv' /\ result' # "InvalidRate"
<1>1. /\ stage = 14 /\ UNCHANGED <<reg, bbpll, rates>>
      /\ \E res \in {"ok", "Spi", "Timeout"} : Return(res)
      /\ faults' = faults \/ Fault
  BY DEF UpdateDependents, UpdateStage
<1>2. /\ rates \in [TreeClocks -> Nat] /\ DOMAIN reg = Clocks /\ faults \in Nat
  BY <1>1, RunningCall
<1>3. result' # "InvalidRate" /\ stage' = 0
  BY <1>1 DEF Return
<1>4. faults' \in Nat
  BY <1>1, <1>2, FaultCounts
<1> QED
  BY <1>1, <1>2, <1>3, <1>4, ReturnKeeps

LEMMA StepKeeps == TreeInv /\ [Next]_vars => TreeInv'
<1> SUFFICES ASSUME TreeInv, [Next]_vars PROVE TreeInv'
  OBVIOUS
<1>1. CASE SweepRate
  BY <1>1, SweepRateKeeps
<1>2. CASE SetConfiguredChain
  BY <1>2, SetConfiguredChainKeeps
<1>3. CASE InitAgain
  BY <1>3, InitAgainKeeps
<1>4. CASE \E r \in SampleRates : SetSampleRate(r)
  BY <1>4, SetSampleRateKeeps
<1>5. CASE \E s \in Sides, e \in BOOLEAN : SetFirEnabled(s, e)
  BY <1>5, SetFirEnabledKeeps
<1>6. CASE \E s \in Sides, f \in FirFactors, n \in FirTaps : LoadFir(s, f, n)
  BY <1>6, LoadFirKeeps
<1>7. CASE SetBbpllRate
  BY <1>7, SetBbpllRateKeeps
<1>8. CASE SetClockRate
  BY <1>8, SetClockRateKeeps
<1>9. CASE \E s \in Sides : SetFirField(s)
  BY <1>9, SetFirFieldKeeps
<1>10. CASE UpdateDependents
  BY <1>10, UpdateDependentsKeeps
<1>11. CASE UNCHANGED vars
  <2>1. /\ reg' = reg /\ bbpll' = bbpll /\ rates' = rates /\ fir' = fir /\ call' = call
        /\ stage' = stage /\ boot' = boot /\ faults' = faults
    BY <1>11 DEF vars
  <2>2. Shapes' /\ CallFits' /\ OffUntilBooted' /\ StagesAreSet'
    BY <2>1 DEF TreeInv, Shapes, CallFits, OffUntilBooted, Booted, StagesAreSet
  <2>3. FirFieldsAreSet'
    BY <2>1 DEF TreeInv, FirFieldsAreSet, FirStage, Sides, IntDec, FirClock
  <2> QED
    BY <2>2, <2>3 DEF TreeInv
<1> QED
  BY Zenon, <1>1, <1>2, <1>3, <1>4, <1>5, <1>6, <1>7, <1>8, <1>9, <1>10, <1>11
     DEF Next, Calls, Steps

LEMMA AlwaysTreeInv == Spec => []TreeInv
  BY InitGood, StepKeeps, PTL DEF Spec

-----------------------------------------------------------------------------
(***************************************************************************)
(* A call that got through the stages reports the chain it was to set, off *)
(* by no more than the rounding of the BBPLL, and sample rates off by no   *)
(* more than an eleventh of it: one Hz on a reference of up to 45 MHz.     *)
(***************************************************************************)
THEOREM AlwaysReportsWhatWasSet == Spec => []ReportsWhatWasSet
<1>1. TreeInv => ReportsWhatWasSet
  <2> SUFFICES ASSUME TreeInv, stage = 14
               PROVE  /\ \A c \in TreeClocks : WithinSlack(rates[c], call.rates[c], BbpllSlack)
                      /\ \A c \in FirClocks : WithinSlack(rates[c], call.rates[c],
                                                          (BbpllSlack + 10) \div 11)
    BY DEF ReportsWhatWasSet, UpdateStage, TreeClocks
  <2> DEFINE r == call.rates
             k == BbpllSlack
  <2>1. rates \in [TreeClocks -> Nat] /\ GoodChain(r)
    BY DEF TreeInv, Shapes, CallFits
  <2>2. ASSUME NEW c \in TreeClocks
        PROVE  /\ rates[c] \in Nat /\ r[c] \in Nat
               /\ \E o \in Nat : /\ OffBy(rates[c], r[c], o) /\ o <= k
                                 /\ (o - 1) * r["Bbpll"] < k * (r[c] + 1)
    <3>1. rates[c] \in Nat /\ r[c] \in Nat
      BY <2>1 DEF GoodChain
    <3>2. Near(rates[c], r[c], r["Bbpll"])
      BY StagesOfClocks DEF TreeInv, StagesAreSet
    <3> QED
      BY Zenon, <3>1, <3>2 DEF Near
  <2>3. k \in Nat /\ k >= 1
    BY Slack
  <2> HIDE DEF k
  <2>4. ASSUME NEW c \in TreeClocks PROVE WithinSlack(rates[c], r[c], k)
    <3>1. PICK o \in Nat : OffBy(rates[c], r[c], o) /\ o <= k
      BY <2>2
    <3> DEFINE f == rates[c]
               g == r[c]
    <3>2. f \in Nat /\ g \in Nat
      BY <2>2
    <3> HIDE DEF f, g
    <3>3. OffBy(f, g, o)
      BY <3>1 DEF f, g
    <3>4. f - g \in -k..k
      BY <2>3, <3>1, <3>2, <3>3 DEF OffBy
    <3> QED
      BY <3>4 DEF WithinSlack, f, g
  <2>5. ASSUME NEW c \in FirClocks PROVE WithinSlack(rates[c], r[c], (k + 10) \div 11)
    <3> DEFINE f   == rates[c]
               g   == r[c]
               top == r["Bbpll"]
    <3>1. c \in TreeClocks
      BY TreeClocksAre DEF FirClocks
    <3>2. PICK o \in Nat : OffBy(f, g, o) /\ o <= k /\ (o - 1) * top < k * (g + 1)
      BY <2>2, <3>1
    <3>3. f \in Nat /\ g \in Nat
      BY <2>2, <3>1
    <3>4. g <= MaxBasebandRate
      BY <2>1 DEF GoodChain, FirClocks
    <3>5. top \in Nat /\ top \in MinBbpllFreq..MaxBbpllFreq
      BY Zenon, <2>1, GoodBbpll
    <3> HIDE DEF f, g, top
    <3>6. 11 * o <= k + 10
      <4>1. g <= 61440000 /\ top >= 714928500
        <5>1. g <= 61440000
          BY ONLY SMT, <3>3, <3>4, Limits
        <5>2. top >= 714928500
          BY SMT, <3>5, BbpllRange
        <5> QED
          BY ONLY SMT, <5>1, <5>2
      <4>2. CASE o = 0
        BY <2>3, <4>2
      <4>3. CASE o >= 1
        <5>1. (o - 1) * 714928500 <= (o - 1) * top /\ k * (g + 1) <= k * 61440001
          BY SMT, <2>3, <3>3, <3>5, <4>1, <4>3
        <5>2. (o - 1) * top \in Int /\ k * (g + 1) \in Int
          BY <2>3, <3>3, <3>5
        <5>3. (o - 1) * 714928500 < k * 61440001
          BY SMT, <2>3, <3>2, <5>1, <5>2
        <5> QED
          BY SMT, <2>3, <5>3
      <4> QED
        BY <4>2, <4>3
    <3>7. f - g \in -((k + 10) \div 11)..((k + 10) \div 11)
      BY <2>3, <3>2, <3>3, <3>6 DEF OffBy
    <3> QED
      BY <3>7 DEF WithinSlack, f, g
  <2> QED
    BY <2>4, <2>5 DEF k
<1> QED
  BY <1>1, AlwaysTreeInv, PTL

(***************************************************************************)
(* A call that got through leaves the field of a FIR of factor 1 on if and *)
(* only if the FIR is enabled.                                             *)
(***************************************************************************)
THEOREM FirFieldsAlwaysFollow == Spec => []FirFieldsFollowTheFlags
<1>1. TreeInv => FirFieldsFollowTheFlags
  BY DEF TreeInv, FirFieldsAreSet, FirFieldsFollowTheFlags, UpdateStage, FirStage, Sides
<1> QED
  BY <1>1, AlwaysTreeInv, PTL

(***************************************************************************)
(* No stage of apply_trx_clock_chain gives an accepted chain up.           *)
(***************************************************************************)
THEOREM NeverRejectsHalfway == Spec => NoHalfwayRejection
<1>1. TreeInv /\ [Next]_vars =>
        [stage > 0 /\ stage' = 0 => result' # "InvalidRate"]_vars
  <2> SUFFICES ASSUME TreeInv, Next, stage > 0, stage' = 0
               PROVE  result' # "InvalidRate"
    BY Zenon
  <2>1. stage # 0
    OBVIOUS
  <2>2. CASE Calls
    <3>1. stage' = 1 \/ stage' = stage
      BY <2>1, <2>2 DEF Calls, SweepRate, SetConfiguredChain, InitAgain, SetSampleRate,
                        SetFirEnabled, LoadFir
    <3> QED
      BY <2>1, <3>1
  <2>3. CASE SetBbpllRate
    BY <2>3 DEF SetBbpllRate, NextStage, Return
  <2>4. CASE SetClockRate
    BY <2>4, SetClockRateKeeps
  <2>5. CASE \E s \in Sides : SetFirField(s)
    BY <2>5, SetFirFieldKeeps
  <2>6. CASE UpdateDependents
    BY <2>6, UpdateDependentsKeeps
  <2> QED
    BY Zenon, <2>2, <2>3, <2>4, <2>5, <2>6 DEF Next, Steps
<1> QED
  BY <1>1, AlwaysTreeInv, PTL DEF Spec, NoHalfwayRejection

-----------------------------------------------------------------------------
(***************************************************************************)
(* The ADC rate in the cache is the one the chip runs at: a chain whose    *)
(* ADC rate is already cached was made by a BBPLL with the same words and  *)
(* the same divider. It rests on the ADC rates of chains being a few Hz    *)
(* apart, which the rounding of a reference above 50 MHz can hide.         *)
(***************************************************************************)
AdcAssumed == BbRef <= MHz(50) /\ GoodAdc(InitRx.converter)

MadeFrom(a, top) ==
  ChainAdc(a) /\ (top = a * BbpllDiv(a) \/ top = Rounded(a * BbpllDiv(a)))

Reads(a) == reg["Adc"] = BbpllDiv(a) /\ rates["Adc"] = rates["Bbpll"] \div reg["Adc"]

AdcRead(a) ==
  /\ MadeFrom(a, rates["Bbpll"])
  /\ stage # 2 => Reads(a)
  /\ stage = 2 => a = call.rates["Adc"] /\ (rates["Adc"] = a => Reads(a))

AdcInv ==
  /\ stage > 0 => ChainAdc(call.rates["Adc"])
  /\ faults = 0 => rates["Bbpll"] = BbpllRate(bbpll) /\ \E a : AdcRead(a)

LEMMA Skips ==
  ASSUME BbRef <= MHz(50), NEW a, NEW b, NEW top, MadeFrom(a, top), ChainAdc(b),
         top \div BbpllDiv(a) = b
  PROVE  /\ BbpllDiv(b) = BbpllDiv(a)
         /\ top = b * BbpllDiv(b) \/ top = Rounded(b * BbpllDiv(b))
<1> DEFINE d == BbpllDiv(a)
           e == BbpllDiv(b)
           x == a * d
           y == b * e
<1>1. ChainAdc(a) /\ (top = x \/ top = Rounded(x))
  BY DEF MadeFrom
<1>2. d \in {2, 4, 8, 16, 32} /\ a \in Nat /\ e \in {2, 4, 8, 16, 32} /\ b \in Nat
  BY Zenon, <1>1, ChainDiv
<1>3. x \in Nat /\ y \in Nat /\ x \div d = a
  BY <1>2
<1>4. Rounded(x) \in Nat /\ Rounded(x) - x <= 12 /\ x - Rounded(x) <= 12
  <2>1. /\ Rounded(x) \in Nat
        /\ Rounded(x) - x <= BbpllSlack - 1 /\ x - Rounded(x) <= BbpllSlack
    BY <1>3, RoundedNear
  <2>2. BbpllSlack \in Nat /\ BbpllSlack <= 12
    <3>1. BbRef \in Nat
      BY RefIs
    <3> QED
      BY SMT, <3>1, Limits DEF BbpllSlack, BBPLL_MODULUS, MHz
  <2> HIDE DEF x
  <2> QED
    BY ONLY SMT, <1>3, <2>1, <2>2
<1>5. top \in Nat /\ top - x <= 12 /\ x - top <= 12 /\ top \div d = b
  <2> HIDE DEF x, d
  <2>1. CASE top = x
    BY <1>3, <2>1 DEF d
  <2>2. CASE top = Rounded(x)
    BY <1>4, <2>2 DEF d
  <2> QED
    BY <1>1, <2>1, <2>2
<1>6. e = d /\ y <= top /\ ((a = b) \/ (top - y <= 3))
  BY Zenon, <1>1, <1>5, NoStraddle
<1>7. top = y \/ top = Rounded(y)
  <2> HIDE DEF x, y, d, e
  <2>1. CASE top = x
    <3>1. a = b
      BY <1>3, <1>5, <2>1
    <3> QED
      BY <1>6, <2>1, <3>1 DEF x, y
  <2>2. CASE a = b
    BY <1>1, <1>6, <2>2 DEF x, y
  <2>3. CASE top = Rounded(x) /\ top - y <= 3
    <3> DEFINE r == top - y
    <3>1. r \in 0..3 /\ Rounded(x) = y + r
      BY <1>3, <1>5, <1>6, <2>3
    <3> HIDE DEF r
    <3>2. Rounded(y) = Rounded(x)
      BY Zenon, <1>3, <3>1, RoundedAgain
    <3> QED
      BY <2>3, <3>2
  <2> QED
    BY <1>1, <1>6, <2>1, <2>2, <2>3
<1> QED
  BY Zenon, <1>6, <1>7 DEF d, e, y

\* The chains of the calls.
LEMMA CalculatedAdc ==
  ASSUME NEW f \in Firs, NEW rate, Valid(CalculateRfClockChain(RequestFor(f, rate)))
  PROVE  LET chain == CalculateRfClockChain(RequestFor(f, rate))
         IN  ChainAdc(ChainRates(chain.rx, chain.tx)["Adc"])
<1> DEFINE q     == RequestFor(f, rate)
           chain == CalculateRfClockChain(q)
<1>1. Asked(q)
  <2>1. IntDec(f, "rx") \in {1, 2, 4} /\ IntDec(f, "tx") \in {1, 2, 4}
    BY IntDecs DEF Sides
  <2> QED
    BY <2>1, SettingsAssumption DEF Asked, RequestFor
<1> HIDE DEF q
<1>2. chain.ok
  BY DEF Valid, q
<1>3. ChainAdc(chain.rx.converter)
  BY Zenon, <1>1, <1>2, AdcIsGood
<1>4. ChainRates(chain.rx, chain.tx)["Adc"] = chain.rx.converter
  BY DEF ChainRates
<1> QED
  BY Zenon, <1>3, <1>4 DEF q

LEMMA ConfiguredAdc ==
  ASSUME AdcAssumed
  PROVE  ChainAdc(InitRates["Adc"])
<1>1. InitRates["Adc"] = InitRx.converter
  BY DEF InitRates, ChainRates
<1>2. InitRx.converter \in Nat /\ InitRx.converter \in MinAdcClk..MaxAdcClk
  BY InitAssumption DEF PathClocks
<1> QED
  BY Zenon, <1>1, <1>2 DEF ChainAdc, AdcAssumed

LEMMA ReadAfterSetup ==
  ASSUME AdcAssumed, NEW r, NEW b, NEW cached, AfterSetup(r, b, cached)
  PROVE  LET a == InitRates["Adc"]
         IN  /\ MadeFrom(a, cached["Bbpll"]) /\ cached["Bbpll"] = BbpllRate(b)
             /\ r["Adc"] = BbpllDiv(a) /\ cached["Adc"] = cached["Bbpll"] \div r["Adc"]
<1> DEFINE a == InitRates["Adc"]
<1>1. /\ b = WordsSetFor(InitRates["Bbpll"]) /\ cached = RunningOn(b, r)
      /\ r = [c \in Clocks |-> IF c \in FirClocks THEN 0
                ELSE Closest(InitRates[c], InitRates[ParentOf(c)]).div]
  BY Zenon, ConfiguredChain, GoodBbpll DEF AfterSetup
<1>2. GoodChain(InitRates)
  BY ConfiguredChain
<1>3. r["Adc"] = BbpllDiv(a)
  <2>1. "Adc" \in Clocks /\ "Adc" \notin FirClocks /\ ParentOf("Adc") = "Bbpll"
    BY DEF Clocks, RxClocks, TxClocks, FirClocks, ParentOf
  <2>2. r["Adc"] = Closest(InitRates["Adc"], InitRates["Bbpll"]).div
    BY <1>1, <2>1
  <2> QED
    BY Zenon, <1>2, <2>2 DEF GoodChain
<1>4. cached["Bbpll"] = BbpllRate(b) /\ cached["Adc"] = BbpllRate(b) \div r["Adc"]
  BY <1>1 DEF RunningOn, DivisionOf, FirClocks
<1>5. BbpllRate(b) = Rounded(InitRates["Bbpll"])
  BY Zenon, <1>1, <1>2, GoodBbpll, WordsSet
<1>6. MadeFrom(a, BbpllRate(b))
  BY Zenon, <1>2, <1>5, ConfiguredAdc DEF MadeFrom, GoodChain
<1> QED
  BY <1>3, <1>4, <1>6

LEMMA AdcInit ==
  ASSUME AdcAssumed, Init
  PROVE  AdcInv
<1>1. stage = 0 /\ AfterSetup(reg, bbpll, rates)
  BY DEF Init
<1>2. AdcRead(InitRates["Adc"]) /\ rates["Bbpll"] = BbpllRate(bbpll)
  BY <1>1, ReadAfterSetup DEF AdcRead, Reads
<1> QED
  BY <1>1, <1>2 DEF AdcInv

\* The calls leave the BBPLL and the ADC alone, unless they fail.
LEMMA AdcStays ==
  ASSUME AdcInv, stage \in Nat, stage # 2, stage' # 2,
         UNCHANGED <<bbpll, rates>>, reg'["Adc"] = reg["Adc"], faults' = faults,
         stage' > 0 => ChainAdc(call'.rates["Adc"])
  PROVE  AdcInv'
<1>1. ASSUME NEW a, AdcRead(a) PROVE AdcRead(a)'
  BY <1>1 DEF AdcRead, Reads
<1> QED
  BY <1>1 DEF AdcInv

\* After a fault there is nothing to show, when no call goes on.
LEMMA AdcFaulted ==
  ASSUME stage' = 0, faults' # 0
  PROVE  AdcInv'
  BY DEF AdcInv

LEMMA SettingBbpll ==
  ASSUME AdcAssumed, TreeInv, AdcInv, SetBbpllRate
  PROVE  AdcInv'
<1> DEFINE b      == call.rates["Adc"]
           target == call.rates["Bbpll"]
           made   == BbpllRate(WordsSetFor(target))
           Skip   == /\ rates["Bbpll"] = target /\ NextStage
                     /\ UNCHANGED <<bbpll, rates, faults>>
           Set    == /\ rates["Bbpll"] # target /\ bbpll' = WordsSetFor(target)
                     /\ rates' = [rates EXCEPT !["Bbpll"] = made]
                     /\ NextStage /\ faults' = faults
<1>1. /\ stage = 1 /\ reg' = reg
      /\ \/ Skip \/ Set \/ (Fault /\ \E res : Return(res))
  BY Zenon DEF SetBbpllRate
<1>2. /\ GoodChain(call.rates) /\ rates \in [TreeClocks -> Nat] /\ faults \in Nat
      /\ ChainAdc(b)
  BY <1>1, RunningCall DEF AdcInv
<1>3. /\ target = b * BbpllDiv(b) /\ made = Rounded(target) /\ made \in Nat
      /\ "Adc" \in TreeClocks /\ "Bbpll" \in TreeClocks
  BY Zenon, <1>2, GoodBbpll, WordsSet, TreeClocksAre DEF GoodChain
<1> HIDE DEF b, target, made
<1>4. CASE Skip \/ Set
  <2>1. stage' = 2 /\ call' = call /\ faults' = faults
    BY <1>1, <1>4 DEF NextStage
  <2> SUFFICES ASSUME faults = 0
               PROVE  rates'["Bbpll"] = BbpllRate(bbpll') /\ AdcRead(b)'
    BY <1>2, <2>1 DEF AdcInv, b
  <2>2. PICK a : AdcRead(a)
    BY DEF AdcInv
  <2> DEFINE top == rates["Bbpll"]
  <2>3. MadeFrom(a, top) /\ Reads(a) /\ top = BbpllRate(bbpll)
    BY <1>1, <2>2 DEF AdcRead, AdcInv
  <2>4. rates'["Adc"] = rates["Adc"]
    BY <1>2, <1>3, <1>4
  <2>5. rates'["Bbpll"] = BbpllRate(bbpll') /\ MadeFrom(b, rates'["Bbpll"])
    <3>1. CASE Skip
      BY <1>2, <1>3, <2>3, <3>1 DEF MadeFrom
    <3>2. CASE Set
      <4>1. rates'["Bbpll"] = made
        BY <1>2, <1>3, <3>2
      <4> QED
        BY Zenon, <1>2, <1>3, <3>2, <4>1 DEF MadeFrom, made
    <3> QED
      BY <1>4, <3>1, <3>2
  <2>6. b' = b
    BY <2>1 DEF b
  <2>7. ASSUME rates["Adc"] = b PROVE Reads(b)'
    <3>1. reg["Adc"] = BbpllDiv(a) /\ top \div BbpllDiv(a) = b
      BY <2>3, <2>7 DEF Reads
    <3>2. /\ BbpllDiv(b) = BbpllDiv(a)
          /\ top = target \/ top = Rounded(target)
      BY Zenon, <1>2, <1>3, <2>3, <3>1, Skips DEF AdcAssumed
    <3>3. rates'["Bbpll"] = top
      <4>1. CASE Skip
        BY <4>1
      <4>2. CASE Set
        BY <1>2, <1>3, <3>2, <4>2
      <4> QED
        BY <1>4, <4>1, <4>2
    <3> HIDE DEF top
    <3> QED
      BY <1>1, <2>4, <2>7, <2>6, <3>1, <3>2, <3>3 DEF Reads
  <2>8. AdcRead(b)'
    BY <2>1, <2>4, <2>5, <2>7, <2>6 DEF AdcRead, b
  <2> QED
    BY <2>5, <2>8
<1>5. CASE Fault /\ \E res : Return(res)
  <2>1. stage' = 0 /\ faults' # 0
    BY <1>2, <1>5, FaultCounts DEF Return
  <2> QED
    BY <2>1, AdcFaulted
<1> QED
  BY <1>1, <1>4, <1>5

LEMMA SettingClock ==
  ASSUME AdcAssumed, TreeInv, AdcInv, SetClockRate
  PROVE  AdcInv'
<1> DEFINE clock  == ClockAt(stage)
           r      == call.rates
           parent == rates[ParentOf(clock)]
           ratio  == Closest(r[clock], parent)
           field  == FieldFor(clock, ratio.div)
           set    == [reg EXCEPT ![clock] = field]
           made   == parent \div DivisionOf(clock, set[clock])
           Skip   == rates[clock] = r[clock] /\ NextStage /\ UNCHANGED <<reg, rates, faults>>
           Set    == /\ reg' = set /\ rates' = [rates EXCEPT ![clock] = made]
                     /\ NextStage /\ faults' = faults
<1>1. stage \in ClockStages /\ stage > 0 /\ stage \in Nat
  BY DEF SetClockRate, ClockStages
<1>2. /\ GoodChain(r) /\ FirsDivide(fir, r) /\ fir \in Firs
      /\ rates \in [TreeClocks -> Nat] /\ DOMAIN reg = Clocks
      /\ faults \in Nat /\ StagesAreSet /\ ChainAdc(r["Adc"])
  BY <1>1, RunningCall DEF AdcInv
<1>3. /\ clock \in Clocks /\ StageOf[clock] = stage /\ ParentOf(clock) \in TreeClocks
      /\ StageOf[ParentOf(clock)] < stage /\ clock \in TreeClocks
      /\ "Adc" \in TreeClocks /\ "Bbpll" \in TreeClocks /\ "Adc" \in Clocks
      /\ clock # "Bbpll" /\ StageOf["Adc"] = 2
      /\ \A c \in TreeClocks : StageOf[c] = stage => c = clock
  BY <1>1, ParentsFirst, TreeClocksAre DEF StageOf, ClockStages, Clocks, RxClocks, TxClocks
<1>4. parent \in Nat /\ Near(parent, r[ParentOf(clock)], r["Bbpll"])
  BY <1>2, <1>3 DEF StagesAreSet
<1>5. /\ ScalerAccepts(clock, ratio)
      /\ clock = "Adc" => field = BbpllDiv(r["Adc"])
  BY Zenon, <1>2, <1>3, <1>4, StageMakes
<1>6. bbpll' = bbpll /\ (Skip \/ Set \/ (Fault /\ Return("Spi")))
  BY Zenon, <1>5 DEF SetClockRate
<1>7. set[clock] = field /\ set["Adc"] = (IF clock = "Adc" THEN field ELSE reg["Adc"])
  BY <1>2, <1>3
<1> HIDE DEF clock, parent, ratio, field, set
<1>8. CASE (Skip \/ Set) /\ stage = 2
  <2>1. clock = "Adc" /\ ParentOf(clock) = "Bbpll"
    BY <1>3, <1>8 DEF ParentOf
  <2>2. stage' = 3 /\ call' = call /\ faults' = faults
    BY <1>8 DEF NextStage
  <2> SUFFICES ASSUME faults = 0
               PROVE  rates'["Bbpll"] = BbpllRate(bbpll') /\ AdcRead(r["Adc"])'
    BY <1>2, <2>2 DEF AdcInv
  <2>3. /\ MadeFrom(r["Adc"], rates["Bbpll"]) /\ rates["Bbpll"] = BbpllRate(bbpll)
        /\ rates["Adc"] = r["Adc"] => Reads(r["Adc"])
    <3>1. PICK a : AdcRead(a)
      BY DEF AdcInv
    <3> QED
      BY <1>8, <3>1 DEF AdcRead, AdcInv
  <2>4. rates'["Bbpll"] = rates["Bbpll"]
    BY <1>2, <1>3, <1>8
  <2>5. Reads(r["Adc"])'
    <3>1. CASE Skip
      BY <2>1, <2>2, <2>3, <3>1 DEF Reads
    <3>2. CASE Set
      <4>1. reg'["Adc"] = BbpllDiv(r["Adc"])
        BY <1>5, <1>7, <2>1, <3>2
      <4>2. rates'["Adc"] = rates["Bbpll"] \div reg'["Adc"]
        <5>1. rates'["Adc"] = made /\ DivisionOf(clock, set[clock]) = set[clock]
          BY <1>2, <1>3, <2>1, <3>2 DEF DivisionOf, FirClocks
        <5> QED
          BY <1>7, <2>1, <3>2, <5>1 DEF parent
      <4> QED
        BY <2>2, <2>4, <4>1, <4>2 DEF Reads
    <3> QED
      BY <1>8, <3>1, <3>2
  <2> QED
    BY <1>6, <2>2, <2>3, <2>4, <2>5 DEF AdcRead
<1>9. CASE (Skip \/ Set) /\ stage # 2
  <2>1. clock # "Adc"
    BY <1>3, <1>9
  <2>2. /\ rates'["Adc"] = rates["Adc"] /\ rates'["Bbpll"] = rates["Bbpll"]
        /\ reg'["Adc"] = reg["Adc"]
    BY <1>2, <1>3, <1>7, <1>9, <2>1
  <2>3. stage' # 2 /\ call' = call /\ faults' = faults
    BY <1>1, <1>9 DEF NextStage, ClockStages
  <2>4. ASSUME NEW a, AdcRead(a) PROVE AdcRead(a)'
    BY <1>9, <2>2, <2>3, <2>4 DEF AdcRead, Reads
  <2> QED
    BY <1>2, <1>6, <2>2, <2>3, <2>4 DEF AdcInv
<1>10. CASE Fault /\ Return("Spi")
  <2>1. stage' = 0 /\ faults' # 0
    BY <1>2, <1>10, FaultCounts DEF Return
  <2> QED
    BY <2>1, AdcFaulted
<1> QED
  BY <1>6, <1>8, <1>9, <1>10

LEMMA SettingFirField ==
  ASSUME TreeInv, AdcInv, NEW side \in Sides, SetFirField(side)
  PROVE  AdcInv'
<1> DEFINE set == [reg EXCEPT ![FirClock(side)] = IF fir[side].bypassed THEN 0 ELSE 1]
<1>1. /\ stage \in {12, 13} /\ stage > 0 /\ UNCHANGED <<bbpll, rates>>
      /\ (reg' = reg \/ reg' = set)
      /\ (NextStage /\ faults' = faults) \/ (Fault /\ Return("Spi"))
  BY DEF SetFirField, FirStage
<1>2. reg'["Adc"] = reg["Adc"]
  <2>1. DOMAIN reg = Clocks
    BY <1>1, RunningCall
  <2> QED
    BY <1>1, <2>1 DEF FirClock, Clocks, RxClocks, TxClocks
<1>3. CASE NextStage /\ faults' = faults
  <2>1. stage' # 2 /\ stage # 2 /\ call' = call /\ stage \in Nat
    BY <1>1, <1>3 DEF NextStage
  <2>2. ChainAdc(call'.rates["Adc"])
    BY <1>1, <2>1 DEF AdcInv
  <2> QED
    BY <1>1, <1>2, <1>3, <2>1, <2>2, AdcStays
<1>4. CASE Fault /\ Return("Spi")
  <2>1. stage' = 0 /\ faults' # 0
    BY <1>1, <1>4, RunningCall, FaultCounts DEF Return
  <2> QED
    BY <2>1, AdcFaulted
<1> QED
  BY <1>1, <1>3, <1>4

LEMMA AdcStep ==
  ASSUME AdcAssumed, TreeInv, AdcInv, [Next]_vars
  PROVE  AdcInv'
<1>1. stage \in Nat /\ faults \in Nat /\ fir \in Firs
  BY DEF TreeInv, Shapes
<1>2. CASE SweepRate
  <2> DEFINE chain == CalculateRfClockChain(RequestFor(fir, SweepRates[boot + 1]))
  <2>1. /\ stage = 0 /\ UNCHANGED <<reg, bbpll, rates, faults>>
        /\ (Valid(chain) /\ Start("sweep", "none", chain)) \/ stage' = stage
    BY <1>2 DEF SweepRate, Refuse
  <2>2. Valid(chain) => ChainAdc(ChainRates(chain.rx, chain.tx)["Adc"])
    BY Zenon, <1>1, CalculatedAdc
  <2> HIDE DEF chain
  <2> QED
    BY <1>1, <2>1, <2>2, AdcStays DEF Start
<1>3. CASE SetConfiguredChain
  <2>1. /\ stage = 0 /\ UNCHANGED <<reg, bbpll, rates, faults>>
        /\ stage' = 1 /\ call'.rates = InitRates
    BY <1>3 DEF SetConfiguredChain, Start, InitRates
  <2> QED
    BY <1>1, <2>1, ConfiguredAdc, AdcStays
<1>4. CASE InitAgain
  <2>1. AfterSetup(reg', bbpll', rates') /\ stage' = stage /\ boot = -1
    BY <1>4 DEF InitAgain, InitFailed
  <2>2. stage' = 0
    BY <1>1, <2>1 DEF TreeInv, CallFits
  <2>3. /\ MadeFrom(InitRates["Adc"], rates'["Bbpll"]) /\ rates'["Bbpll"] = BbpllRate(bbpll')
        /\ reg'["Adc"] = BbpllDiv(InitRates["Adc"])
        /\ rates'["Adc"] = rates'["Bbpll"] \div reg'["Adc"]
    BY Zenon, <2>1, ReadAfterSetup
  <2>4. InitRates' = InitRates
    BY DEF InitRates
  <2>5. AdcRead(InitRates["Adc"])'
    BY <2>2, <2>3, <2>4 DEF AdcRead, Reads
  <2> QED
    BY <2>2, <2>3, <2>5 DEF AdcInv
<1>5. CASE \E r \in SampleRates : SetSampleRate(r)
  <2>1. PICK r \in SampleRates : SetSampleRate(r)
    BY <1>5
  <2> DEFINE chain == CalculateRfClockChain(RequestFor(fir, r))
  <2>2. /\ stage = 0 /\ UNCHANGED <<reg, bbpll, rates, faults>>
        /\ (Valid(chain) /\ Start("rate", "none", chain)) \/ stage' = stage
    BY <2>1 DEF SetSampleRate, Refuse
  <2>3. Valid(chain) => ChainAdc(ChainRates(chain.rx, chain.tx)["Adc"])
    BY Zenon, <1>1, CalculatedAdc
  <2> HIDE DEF chain
  <2> QED
    BY <1>1, <2>2, <2>3, AdcStays DEF Start
<1>6. CASE \E s \in Sides, e \in BOOLEAN : SetFirEnabled(s, e)
  <2>1. PICK s \in Sides, e \in BOOLEAN : SetFirEnabled(s, e)
    BY <1>6
  <2> DEFINE switched == [fir EXCEPT ![s].bypassed = ~e]
             chain    == ChainForFir(switched)
  <2>2. /\ stage = 0 /\ UNCHANGED <<reg, bbpll, rates, faults>>
        /\ (Valid(chain) /\ Start("fir", s, chain)) \/ stage' = stage
    BY <2>1 DEF SetFirEnabled, Refuse
  <2>3. Valid(chain) => ChainAdc(ChainRates(chain.rx, chain.tx)["Adc"])
    <3>1. switched \in Firs
      BY <1>1 DEF Firs
    <3>2. \E rate : chain = CalculateRfClockChain(RequestFor(switched, rate))
      BY DEF ChainForFir
    <3> HIDE DEF chain, switched
    <3> QED
      BY Zenon, <3>1, <3>2, CalculatedAdc
  <2> HIDE DEF chain
  <2> QED
    BY <1>1, <2>2, <2>3, AdcStays DEF Start
<1>7. CASE \E s \in Sides, f \in FirFactors, n \in FirTaps : LoadFir(s, f, n)
  <2>1. /\ stage = 0 /\ UNCHANGED <<bbpll, rates, stage>>
        /\ (reg' = reg /\ faults' = faults) \/ Fault
    BY <1>7 DEF LoadFir
  <2>2. CASE reg' = reg /\ faults' = faults
    BY <1>1, <2>1, <2>2, AdcStays
  <2>3. CASE Fault
    BY <1>1, <2>1, <2>3, FaultCounts, AdcFaulted
  <2> QED
    BY <2>1, <2>2, <2>3
<1>8. CASE SetBbpllRate
  BY <1>8, SettingBbpll
<1>9. CASE SetClockRate
  BY <1>9, SettingClock
<1>10. CASE \E s \in Sides : SetFirField(s)
  BY <1>10, SettingFirField
<1>11. CASE UpdateDependents
  <2>1. /\ stage = 14 /\ stage' = 0 /\ UNCHANGED <<reg, bbpll, rates>>
        /\ faults' = faults \/ Fault
    BY <1>11 DEF UpdateDependents, UpdateStage, Return
  <2>2. CASE faults' = faults
    BY <1>1, <2>1, <2>2, AdcStays
  <2>3. CASE Fault
    BY <1>1, <2>1, <2>3, FaultCounts, AdcFaulted
  <2> QED
    BY <2>1, <2>2, <2>3
<1>12. CASE UNCHANGED vars
  <2>1. /\ reg' = reg /\ bbpll' = bbpll /\ rates' = rates /\ call' = call
        /\ stage' = stage /\ faults' = faults
    BY <1>12 DEF vars
  <2>2. ASSUME NEW a, AdcRead(a) PROVE AdcRead(a)'
    BY <2>1, <2>2 DEF AdcRead, Reads
  <2> QED
    BY <2>1, <2>2 DEF AdcInv
<1> QED
  BY Zenon, <1>2, <1>3, <1>4, <1>5, <1>6, <1>7, <1>8, <1>9, <1>10, <1>11, <1>12
     DEF Next, Calls, Steps

(***************************************************************************)
(* clock_rates and bbpll_rate tell the truth about the BBPLL and the ADC   *)
(* as long as no call failed, for a reference of up to 50 MHz and a        *)
(* configured ADC rate like the ones calculate_rf_clock_chain makes.       *)
(***************************************************************************)
THEOREM AdcCacheAlwaysTrue ==
  ASSUME BbRef <= MHz(50), GoodAdc(InitRx.converter)
  PROVE  Spec => []AdcCacheTellsTheTruth
<1>1. AdcAssumed
  BY Zenon DEF AdcAssumed
<1>2. Init => AdcInv
  BY Zenon, <1>1, AdcInit
<1>3. TreeInv /\ AdcInv /\ [Next]_vars => AdcInv'
  BY Zenon, <1>1, AdcStep
<1>4. AdcInv => AdcCacheTellsTheTruth
  <2> SUFFICES ASSUME AdcInv, stage = 0, faults = 0
               PROVE  rates["Bbpll"] = BbpllRate(bbpll) /\ rates["Adc"] = Running["Adc"]
    BY DEF AdcCacheTellsTheTruth
  <2>1. PICK a : AdcRead(a)
    BY DEF AdcInv
  <2>2. rates["Bbpll"] = BbpllRate(bbpll) /\ rates["Adc"] = rates["Bbpll"] \div reg["Adc"]
    BY <2>1 DEF AdcInv, AdcRead, Reads
  <2>3. Running["Adc"] = BbpllRate(bbpll) \div reg["Adc"]
    BY DEF Running, RunningOn, DivisionOf, FirClocks
  <2> QED
    BY <2>2, <2>3
<1> QED
  BY ONLY <1>2, <1>3, <1>4, AlwaysTreeInv, PTL DEF Spec
=============================================================================
