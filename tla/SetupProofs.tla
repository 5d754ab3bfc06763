----------------------------- MODULE SetupProofs -----------------------------
(***************************************************************************)
(* For any settings, rates and modes, any number of calls and any number   *)
(* of faults: what is in the chip when no call runs is what the settings,  *)
(* the modes and the rates ask for.                                        *)
(*                                                                         *)
(* A script is looked at for one field at a time. Sets of positions in it  *)
(* at which the field is known to be good (Knows) are put together like    *)
(* the scripts are, give way to the rest of the script as a call goes on,  *)
(* and are the inductive invariant of the calls (Promise).                 *)
(***************************************************************************)
EXTENDS Setup, SequenceTheorems, TLAPS

IsScript(q) == \E S : q \in Seq(S)

LEMMA ScriptIs ==
  ASSUME NEW q, IsScript(q)
  PROVE  /\ Len(q) \in Nat /\ DOMAIN q = 1..Len(q)
         /\ q # << >> => /\ Len(q) >= 1 /\ Head(q) = q[1]
                         /\ IsScript(Tail(q)) /\ Len(Tail(q)) = Len(q) - 1
                         /\ \A i \in 1..(Len(q) - 1) : Tail(q)[i] = q[i + 1]
         /\ q = << >> => Len(q) = 0
<1>1. PICK S : q \in Seq(S)
  BY DEF IsScript
<1>2. Len(q) \in Nat /\ DOMAIN q = 1..Len(q)
  BY <1>1, LenProperties
<1>3. q # << >> => Tail(q) \in Seq(S) /\ Len(Tail(q)) = Len(q) - 1
                   /\ \A i \in 1..Len(Tail(q)) : Tail(q)[i] = q[i + 1]
  BY <1>1, HeadTailProperties
<1>4. q # << >> => Len(q) >= 1 /\ Head(q) = q[1]
  BY <1>1, <1>2, EmptySeq
<1>5. q = << >> => Len(q) = 0
  OBVIOUS
<1> QED
  BY <1>2, <1>3, <1>4, <1>5 DEF IsScript

LEMMA CatIs ==
  ASSUME NEW a, NEW b, IsScript(a), IsScript(b)
  PROVE  /\ IsScript(a \o b)
         /\ Len(a \o b) = Len(a) + Len(b)
         /\ \A i \in 1..Len(a) : (a \o b)[i] = a[i]
         /\ \A i \in 1..Len(b) : (a \o b)[Len(a) + i] = b[i]
         /\ Len(a) \in Nat /\ Len(b) \in Nat
<1>1. PICK S : a \in Seq(S)
  BY DEF IsScript
<1>2. PICK T : b \in Seq(T)
  BY DEF IsScript
<1> DEFINE U == S \cup T
<1>3. a \in Seq(U) /\ b \in Seq(U)
  BY <1>1, <1>2, SeqMonotonic
<1> HIDE DEF U
<1>4. /\ a \o b \in Seq(U)
      /\ Len(a \o b) = Len(a) + Len(b)
      /\ \A i \in 1..Len(a) + Len(b) : (a \o b)[i] = IF i <= Len(a) THEN a[i] ELSE b[i - Len(a)]
  BY <1>3, ConcatProperties
<1>5. Len(a) \in Nat /\ Len(b) \in Nat
  BY <1>3, LenProperties
<1> DEFINE c == a \o b
<1> HIDE DEF c
<1>6. /\ \A i \in 1..Len(a) : c[i] = a[i]
      /\ \A i \in 1..Len(b) : c[Len(a) + i] = b[i]
  <2>1. \A i \in 1..Len(a) + Len(b) : c[i] = IF i <= Len(a) THEN a[i] ELSE b[i - Len(a)]
    BY <1>4 DEF c
  <2>2. ASSUME NEW i \in 1..Len(a) PROVE c[i] = a[i]
    BY ONLY <2>1, <1>5, i \in 1..Len(a)
  <2>3. ASSUME NEW i \in 1..Len(b) PROVE c[Len(a) + i] = b[i]
    BY ONLY <2>1, <1>5, i \in 1..Len(b)
  <2> QED
    BY ONLY <2>2, <2>3
<1> QED
  BY <1>4, <1>5, <1>6 DEF c, IsScript

(* One access. *)
LEMMA OneIs == \A a : IsScript(<<a>>) /\ Len(<<a>>) = 1 /\ <<a>>[1] = a
<1> SUFFICES ASSUME NEW a PROVE IsScript(<<a>>) /\ Len(<<a>>) = 1 /\ <<a>>[1] = a
  OBVIOUS
<1>1. <<a>> \in Seq({a})
  OBVIOUS
<1> QED
  BY <1>1 DEF IsScript

LEMMA NoneIs == IsScript(<< >>) /\ Len(<< >>) = 0
  BY EmptySeq DEF IsScript

-----------------------------------------------------------------------------
(***************************************************************************)
(* What a script does to one field. A concern k is a field, the values     *)
(* that are good for it, and what the driver may remember that makes them  *)
(* others:                                                                 *)
(*   reg, field   the field                                                *)
(*   good         what an access may give it                               *)
(*   upset        "rate", "modes": the good values depend on them          *)
(***************************************************************************)
Changes(a, k) == a.op \in {"write", "modify"} /\ a.reg = k.reg

Sets(a, k) == Changes(a, k) /\ k.field \in DOMAIN a.vals /\ a.vals[k.field] \in k.good

PutsBack(a, k) == Changes(a, k) /\ k.field \in DOMAIN a.vals /\ a.vals[k.field] = "saved"

Spares(a, k) ==
  \/ a.op \in {"rate", "modes"} /\ a.op \notin k.upset
  \/ a.op = "save"
  \/ a.op \in {"write", "modify"} /\ a.reg # k.reg
  \/ a.op = "modify" /\ k.field \notin DOMAIN a.vals

(***************************************************************************)
(* After the first i accesses of q the field is good if i is in C, and so  *)
(* is what was saved of it if i is in V, provided that at first those in K *)
(* are, the "field" or what was "saved".                                   *)
(***************************************************************************)
Knows(q, k, K, C, V) ==
  /\ C \subseteq 0..Len(q) /\ V \subseteq 0..Len(q)
  /\ 0 \in C => "field" \in K
  /\ 0 \in V => "saved" \in K
  /\ \A i \in 1..Len(q) :
       /\ i \in C => \/ Sets(q[i], k)
                     \/ Spares(q[i], k) /\ i - 1 \in C
                     \/ PutsBack(q[i], k) /\ i - 1 \in V
       /\ i \in V => IF q[i].op = "save" THEN q[i].reg = k.reg /\ i - 1 \in C
                                         ELSE q[i].op \notin k.upset /\ i - 1 \in V

\* From those in K to those in L, for Holds with a field that is good all the time.
Leads(q, k, K, L) ==
  IsScript(q) /\ \E C, V : /\ Knows(q, k, K, C, V)
                           /\ "field" \in L => Len(q) \in C
                           /\ "saved" \in L => Len(q) \in V

Holds(q, k, K, L) ==
  IsScript(q) /\ \E V : /\ Knows(q, k, K, 0..Len(q), V)
                        /\ "saved" \in L => Len(q) \in V

Makes(q, k)  == Leads(q, k, {}, {"field"})
Safe(q, k)   == Leads(q, k, {"field"}, {"field"})
Steady(q, k) == Holds(q, k, {"field"}, {"field"})

LEMMA CatKnows ==
  ASSUME NEW a, NEW b, IsScript(a), IsScript(b), NEW k, NEW K, NEW L,
         NEW C, NEW V, Knows(a, k, K, C, V),
         NEW D, NEW W, Knows(b, k, L, D, W),
         0 \in D => Len(a) \in C, 0 \in W => Len(a) \in V
  PROVE  Knows(a \o b, k, K, C \cup {Len(a) + i : i \in D}, V \cup {Len(a) + i : i \in W})
<1> DEFINE n == Len(a)
           m == Len(b)
           c == a \o b
           E == C \cup {n + i : i \in D}
           X == V \cup {n + i : i \in W}
<1>1. /\ n \in Nat /\ m \in Nat /\ Len(c) = n + m
      /\ \A i \in 1..n : c[i] = a[i]
      /\ \A i \in 1..m : c[n + i] = b[i]
  BY CatIs
<1> HIDE DEF n, m, c
<1>2. /\ C \subseteq 0..n /\ V \subseteq 0..n
      /\ D \subseteq 0..m /\ W \subseteq 0..m
      /\ 0 \in C => "field" \in K
      /\ 0 \in V => "saved" \in K
  BY DEF Knows, n, m
<1>3. (0 \in D => n \in C) /\ (0 \in W => n \in V)
  BY DEF n
<1>4. E \subseteq 0..(n + m) /\ X \subseteq 0..(n + m)
  <2>1. \A i \in 0..n : i \in 0..(n + m)
    BY ONLY <1>1
  <2>2. \A i \in 0..m : n + i \in 0..(n + m)
    BY ONLY <1>1
  <2> QED
    BY ONLY <1>2, <2>1, <2>2, Zenon
<1>5. /\ \A i \in 0..n : i \in E <=> i \in C
      /\ \A i \in 0..n : i \in X <=> i \in V
  BY ONLY <1>1, <1>2, <1>3, SMT
<1>6. /\ \A i \in 0..m : i # 0 /\ n + i \in E => i \in D
      /\ \A i \in 0..m : i # 0 /\ n + i \in X => i \in W
      /\ \A i \in 0..m : i \in D => n + i \in E
      /\ \A i \in 0..m : i \in W => n + i \in X
  BY ONLY <1>1, <1>2, <1>3, SMT
<1> HIDE DEF E, X
<1>7. ASSUME NEW i \in 1..(n + m)
      PROVE  /\ i \in E => \/ Sets(c[i], k)
                           \/ Spares(c[i], k) /\ i - 1 \in E
                           \/ PutsBack(c[i], k) /\ i - 1 \in X
             /\ i \in X => IF c[i].op = "save" THEN c[i].reg = k.reg /\ i - 1 \in E
                                               ELSE c[i].op \notin k.upset /\ i - 1 \in X
  <2>1. CASE i <= n
    <3>1. i \in 1..n /\ i - 1 \in 0..n /\ i \in 0..n /\ c[i] = a[i]
      BY ONLY <1>1, <2>1, i \in 1..(n + m), SMT
    <3>2. /\ i \in C => \/ Sets(a[i], k)
                        \/ Spares(a[i], k) /\ i - 1 \in C
                        \/ PutsBack(a[i], k) /\ i - 1 \in V
          /\ i \in V => IF a[i].op = "save" THEN a[i].reg = k.reg /\ i - 1 \in C
                                            ELSE a[i].op \notin k.upset /\ i - 1 \in V
      BY Zenon, <3>1 DEF Knows, n
    <3> QED
      BY ONLY <3>1, <3>2, <1>5, Zenon
  <2>2. CASE ~(i <= n)
    <3>1. PICK j \in 1..m : i = n + j
      BY ONLY <1>1, <2>2, i \in 1..(n + m), SMT
    <3>2. /\ j \in D => \/ Sets(b[j], k)
                        \/ Spares(b[j], k) /\ j - 1 \in D
                        \/ PutsBack(b[j], k) /\ j - 1 \in W
          /\ j \in W => IF b[j].op = "save" THEN b[j].reg = k.reg /\ j - 1 \in D
                                            ELSE b[j].op \notin k.upset /\ j - 1 \in W
      BY Zenon DEF Knows, m
    <3>3. c[i] = b[j] /\ j \in 0..m /\ j # 0 /\ j - 1 \in 0..m /\ i - 1 = n + (j - 1)
      BY ONLY <1>1, <3>1, SMT
    <3>4. (i \in E => j \in D) /\ (i \in X => j \in W)
      BY ONLY <1>6, <3>1, <3>3
    <3>5. (j - 1 \in D => i - 1 \in E) /\ (j - 1 \in W => i - 1 \in X)
      BY ONLY <1>6, <3>3
    <3> QED
      BY ONLY <3>2, <3>3, <3>4, <3>5, Zenon
  <2> QED
    BY ONLY <2>1, <2>2
<1>8. (0 \in E => "field" \in K) /\ (0 \in X => "saved" \in K)
  BY ONLY <1>1, <1>2, <1>5, SMT
<1>9. Knows(c, k, K, E, X)
  BY ONLY <1>1, <1>4, <1>7, <1>8 DEF Knows
<1> QED
  BY <1>9 DEF c, E, X, n

LEMMA CatLeads ==
  \A a, b, k, K, L, M : Leads(a, k, K, L) /\ Leads(b, k, L, M) => Leads(a \o b, k, K, M)
<1> SUFFICES ASSUME NEW a, NEW b, NEW k, NEW K, NEW L, NEW M,
                    Leads(a, k, K, L), Leads(b, k, L, M)
             PROVE  Leads(a \o b, k, K, M)
  OBVIOUS
<1>0. IsScript(a) /\ IsScript(b)
  BY DEF Leads
<1>1. PICK C, V : /\ Knows(a, k, K, C, V)
                  /\ "field" \in L => Len(a) \in C
                  /\ "saved" \in L => Len(a) \in V
  BY DEF Leads
<1>2. PICK D, W : /\ Knows(b, k, L, D, W)
                  /\ "field" \in M => Len(b) \in D
                  /\ "saved" \in M => Len(b) \in W
  BY DEF Leads
<1>3. (0 \in D => Len(a) \in C) /\ (0 \in W => Len(a) \in V)
  BY ONLY <1>1, <1>2, Zenon DEF Knows
<1> DEFINE E == C \cup {Len(a) + i : i \in D}
           X == V \cup {Len(a) + i : i \in W}
<1>4. Knows(a \o b, k, K, E, X)
  BY ONLY <1>0, <1>1, <1>2, <1>3, CatKnows
<1>5. IsScript(a \o b) /\ Len(a \o b) = Len(a) + Len(b)
  BY ONLY <1>0, CatIs
<1>6. ("field" \in M => Len(a \o b) \in E) /\ ("saved" \in M => Len(a \o b) \in X)
  BY ONLY <1>2, <1>5, Zenon
<1> HIDE DEF E, X
<1> QED
  BY ONLY <1>4, <1>5, <1>6, Zenon DEF Leads

LEMMA CatHolds ==
  \A a, b, k, K, L, M :
    Holds(a, k, K, L) /\ Holds(b, k, L \cup {"field"}, M) => Holds(a \o b, k, K, M)
<1> SUFFICES ASSUME NEW a, NEW b, NEW k, NEW K, NEW L, NEW M,
                    Holds(a, k, K, L), Holds(b, k, L \cup {"field"}, M)
             PROVE  Holds(a \o b, k, K, M)
  OBVIOUS
<1>0. IsScript(a) /\ IsScript(b)
  BY DEF Holds
<1>1. PICK V : Knows(a, k, K, 0..Len(a), V) /\ ("saved" \in L => Len(a) \in V)
  BY DEF Holds
<1>2. PICK W : /\ Knows(b, k, L \cup {"field"}, 0..Len(b), W)
               /\ "saved" \in M => Len(b) \in W
  BY DEF Holds
<1>3. /\ IsScript(a \o b) /\ Len(a \o b) = Len(a) + Len(b)
      /\ Len(a) \in Nat /\ Len(b) \in Nat
  BY ONLY <1>0, CatIs
<1>4. Len(a) \in 0..Len(a) /\ (0 \in W => Len(a) \in V)
  <2>1. 0 \in W => "saved" \in L
    BY ONLY <1>2, Zenon DEF Knows
  <2>2. Len(a) \in 0..Len(a)
    BY ONLY <1>3, SMT
  <2> QED
    BY ONLY <1>1, <2>1, <2>2, Zenon
<1> DEFINE X == V \cup {Len(a) + i : i \in W}
<1>5. Knows(a \o b, k, K, 0..Len(a) \cup {Len(a) + i : i \in 0..Len(b)}, X)
  BY ONLY <1>0, <1>1, <1>2, <1>4, CatKnows
<1>6. 0..Len(a \o b) = 0..Len(a) \cup {Len(a) + i : i \in 0..Len(b)}
  <2> DEFINE n == Len(a)
             m == Len(b)
  <2>1. n \in Nat /\ m \in Nat /\ Len(a \o b) = n + m
    BY <1>3
  <2> HIDE DEF n, m
  <2>2. ASSUME NEW j \in 0..(n + m) PROVE j \in 0..n \/ \E i \in 0..m : j = n + i
    <3>1. CASE j <= n
      BY ONLY <2>1, <3>1, j \in 0..(n + m)
    <3>2. CASE ~(j <= n)
      <4>1. j - n \in 0..m /\ j = n + (j - n)
        BY ONLY <2>1, <3>2, j \in 0..(n + m)
      <4> QED
        BY ONLY <4>1, Zenon
    <3> QED
      BY ONLY <3>1, <3>2
  <2>3. (\A i \in 0..n : i \in 0..(n + m)) /\ (\A i \in 0..m : n + i \in 0..(n + m))
    BY ONLY <2>1
  <2>4. 0..(n + m) = 0..n \cup {n + i : i \in 0..m}
    BY ONLY <2>2, <2>3, Zenon
  <2> QED
    BY ONLY <2>1, <2>4 DEF n, m
<1>7. "saved" \in M => Len(a \o b) \in X
  BY ONLY <1>2, <1>3, Zenon
<1> HIDE DEF X
<1>8. Knows(a \o b, k, K, 0..Len(a \o b), X)
  BY ONLY <1>5, <1>6, Zenon
<1> QED
  BY ONLY <1>3, <1>7, <1>8, Zenon DEF Holds

\* With more known at first, and less asked for in the end.
LEMMA Weaker ==
  \A q, k, K, L, M, N :
    K \subseteq M /\ N \subseteq L => /\ Leads(q, k, K, L) => Leads(q, k, M, N)
                                      /\ Holds(q, k, K, L) => Holds(q, k, M, N)
<1> SUFFICES ASSUME NEW q, NEW k, NEW K, NEW L, NEW M, NEW N, K \subseteq M, N \subseteq L
             PROVE  /\ Leads(q, k, K, L) => Leads(q, k, M, N)
                    /\ Holds(q, k, K, L) => Holds(q, k, M, N)
  OBVIOUS
<1>1. \A C, V : Knows(q, k, K, C, V) => Knows(q, k, M, C, V)
  BY DEF Knows
<1>2. ("field" \in N => "field" \in L) /\ ("saved" \in N => "saved" \in L)
  OBVIOUS
<1> QED
  BY ONLY <1>1, <1>2, Zenon DEF Leads, Holds

LEMMA HoldsLeads ==
  \A q, k, K, L : Holds(q, k, K, L) => Leads(q, k, K, L \cup {"field"})
<1> SUFFICES ASSUME NEW q, NEW k, NEW K, NEW L, Holds(q, k, K, L)
             PROVE  Leads(q, k, K, L \cup {"field"})
  OBVIOUS
<1>1. PICK V : Knows(q, k, K, 0..Len(q), V) /\ ("saved" \in L => Len(q) \in V)
  BY DEF Holds
<1>2. IsScript(q) /\ Len(q) \in 0..Len(q)
  BY ScriptIs DEF Holds
<1>3. "saved" \in L \cup {"field"} => "saved" \in L
  OBVIOUS
<1> QED
  BY ONLY <1>1, <1>2, <1>3, Zenon DEF Leads

LEMMA Nothing == \A q, k, K : IsScript(q) => Leads(q, k, K, {})
<1> SUFFICES ASSUME NEW q, NEW k, NEW K, IsScript(q) PROVE Leads(q, k, K, {})
  OBVIOUS
<1>1. Knows(q, k, K, {}, {})
  BY ScriptIs DEF Knows
<1> QED
  BY <1>1 DEF Leads

-----------------------------------------------------------------------------
(***************************************************************************)
(* Scripts put together.                                                   *)
(***************************************************************************)
LEMMA CatScript == \A a, b : IsScript(a) /\ IsScript(b) => IsScript(a \o b)
  BY CatIs

LEMMA CatSafe == \A a, b, k : Safe(a, k) /\ Safe(b, k) => Safe(a \o b, k)
  BY CatLeads, Zenon DEF Safe

LEMMA CatMakes == \A a, b, k : Makes(a, k) /\ Safe(b, k) => Makes(a \o b, k)
  BY CatLeads, Zenon DEF Safe, Makes

LEMMA ThenMakes == \A a, b, k : IsScript(a) /\ Makes(b, k) => Makes(a \o b, k)
  BY CatLeads, Nothing, Zenon DEF Makes

LEMMA CatSteady == \A a, b, k : Steady(a, k) /\ Steady(b, k) => Steady(a \o b, k)
<1> SUFFICES ASSUME NEW a, NEW b, NEW k, Steady(a, k), Steady(b, k) PROVE Steady(a \o b, k)
  OBVIOUS
<1>1. {"field"} \cup {"field"} = {"field"}
  OBVIOUS
<1>2. Holds(b, k, {"field"} \cup {"field"}, {"field"})
  BY ONLY <1>1, Steady(b, k), Zenon DEF Steady
<1> QED
  BY ONLY Steady(a, k), <1>2, CatHolds, Zenon DEF Steady

LEMMA MakesSafe == \A q, k : Makes(q, k) => Safe(q, k)
<1>1. {} \subseteq {"field"} /\ {"field"} \subseteq {"field"}
  OBVIOUS
<1> QED
  BY ONLY <1>1, Weaker, Zenon DEF Makes, Safe

LEMMA SteadySafe == \A q, k : Steady(q, k) => Safe(q, k)
<1>1. {"field"} \cup {"field"} = {"field"}
  OBVIOUS
<1> QED
  BY ONLY <1>1, HoldsLeads, Zenon DEF Steady, Safe

LEMMA AreScripts ==
  \A q, k : /\ Makes(q, k) => IsScript(q)
            /\ Safe(q, k) => IsScript(q)
            /\ Steady(q, k) => IsScript(q)
  BY DEF Makes, Safe, Steady, Leads, Holds

(***************************************************************************)
(* One step.                                                               *)
(***************************************************************************)
\* From what is good before a, K, to what is good after it, L.
Carries(a, k, K, L) ==
  /\ Sets(a, k) => "field" \in L
  /\ Spares(a, k) /\ "field" \in K => "field" \in L
  /\ PutsBack(a, k) /\ "saved" \in K => "field" \in L

CarriesSaved(a, k, K, L) ==
  /\ a.op = "save" /\ a.reg = k.reg /\ "field" \in K => "saved" \in L
  /\ a.op # "save" /\ a.op \notin k.upset /\ "saved" \in K => "saved" \in L

LEMMA TailKnows ==
  ASSUME NEW q, IsScript(q), q # << >>, NEW k, NEW K, NEW C, NEW V, Knows(q, k, K, C, V),
         NEW L, Carries(q[1], k, K, L), CarriesSaved(q[1], k, K, L) \/ V = {}
  PROVE  Knows(Tail(q), k, L, {i \in 0..(Len(q) - 1) : i + 1 \in C},
               {i \in 0..(Len(q) - 1) : i + 1 \in V})
<1> DEFINE n == Len(q)
           t == Tail(q)
           D == {i \in 0..(n - 1) : i + 1 \in C}
           W == {i \in 0..(n - 1) : i + 1 \in V}
<1>1. /\ n \in Nat /\ n >= 1 /\ Len(t) = n - 1
      /\ \A i \in 1..(n - 1) : t[i] = q[i + 1]
  BY ScriptIs
<1>2. /\ 0 \in C => "field" \in K
      /\ 0 \in V => "saved" \in K
      /\ \A i \in 1..n :
           /\ i \in C => \/ Sets(q[i], k)
                         \/ Spares(q[i], k) /\ i - 1 \in C
                         \/ PutsBack(q[i], k) /\ i - 1 \in V
           /\ i \in V => IF q[i].op = "save" THEN q[i].reg = k.reg /\ i - 1 \in C
                                             ELSE q[i].op \notin k.upset /\ i - 1 \in V
  BY DEF Knows
<1> HIDE DEF n, t
<1>3. 1 \in 1..n /\ 1 - 1 = 0
  BY ONLY <1>1, SMT
<1>4. 1 \in C => "field" \in L
  BY ONLY <1>2, <1>3, Carries(q[1], k, K, L), Zenon DEF Carries
<1>5. 1 \in V => "saved" \in L
  BY ONLY <1>2, <1>3, CarriesSaved(q[1], k, K, L) \/ V = {}, Zenon DEF CarriesSaved
<1>6. (0 \in D => "field" \in L) /\ (0 \in W => "saved" \in L)
  BY ONLY <1>1, <1>4, <1>5, SMT
<1>7. ASSUME NEW i \in 1..(n - 1)
      PROVE  /\ i \in D => \/ Sets(t[i], k)
                           \/ Spares(t[i], k) /\ i - 1 \in D
                           \/ PutsBack(t[i], k) /\ i - 1 \in W
             /\ i \in W => IF t[i].op = "save" THEN t[i].reg = k.reg /\ i - 1 \in D
                                               ELSE t[i].op \notin k.upset /\ i - 1 \in W
  <2>1. /\ i + 1 \in 1..n /\ t[i] = q[i + 1] /\ (i + 1) - 1 = i
        /\ i \in D <=> i + 1 \in C
        /\ i \in W <=> i + 1 \in V
        /\ i - 1 \in D <=> i \in C
        /\ i - 1 \in W <=> i \in V
    BY ONLY <1>1, i \in 1..(n - 1), SMT
  <2> HIDE DEF D, W
  <2> QED
    BY ONLY <1>2, <2>1, Zenon
<1>8. D \subseteq 0..(n - 1) /\ W \subseteq 0..(n - 1)
  OBVIOUS
<1> HIDE DEF D, W
<1>9. Knows(t, k, L, D, W)
  BY ONLY <1>1, <1>6, <1>7, <1>8 DEF Knows
<1> QED
  BY <1>9 DEF D, W, n, t

(* The last access needs no saved value afterwards. *)
LEMMA LastKnows ==
  ASSUME NEW q, IsScript(q), Len(q) = 1, NEW k, NEW K, NEW C, NEW V, Knows(q, k, K, C, V),
         1 \in C, NEW L, Carries(q[1], k, K, L)
  PROVE  Knows(Tail(q), k, L, {0}, {})
<1>1. Len(Tail(q)) = 0
  BY ScriptIs
<1>2. \/ Sets(q[1], k)
      \/ Spares(q[1], k) /\ 1 - 1 \in C
      \/ PutsBack(q[1], k) /\ 1 - 1 \in V
  BY DEF Knows
<1>3. 1 - 1 = 0 /\ (0 \in C => "field" \in K) /\ (0 \in V => "saved" \in K)
  BY DEF Knows
<1>4. "field" \in L
  BY ONLY <1>2, <1>3, Carries(q[1], k, K, L), Zenon DEF Carries
<1> QED
  BY <1>1, <1>4 DEF Knows

\* The field is good in the end; all the time.
Arrives(q, k, K)  == Leads(q, k, K, {"field"})
Constant(q, k, K) == Holds(q, k, K, {"field"})

LEMMA TailArrives ==
  ASSUME NEW q, NEW k, NEW K, Arrives(q, k, K), q # << >>,
         NEW L, Carries(q[1], k, K, L), CarriesSaved(q[1], k, K, L) \/ Len(q) = 1
  PROVE  Arrives(Tail(q), k, L)
<1>0. IsScript(q)
  BY DEF Arrives, Leads
<1>1. PICK C, V : Knows(q, k, K, C, V) /\ Len(q) \in C
  BY DEF Arrives, Leads
<1>2. /\ Len(q) \in Nat /\ Len(q) >= 1 /\ IsScript(Tail(q)) /\ Len(Tail(q)) = Len(q) - 1
  BY <1>0, ScriptIs
<1>x. "saved" \notin {"field"}
  OBVIOUS
<1>3. CASE Len(q) = 1
  <2>1. Knows(Tail(q), k, L, {0}, {})
    BY <1>0, <1>1, <1>3, LastKnows
  <2>2. Len(Tail(q)) \in {0}
    BY ONLY <1>2, <1>3, SMT
  <2> QED
    BY ONLY <1>2, <1>x, <2>1, <2>2, Zenon DEF Arrives, Leads
<1>4. CASE CarriesSaved(q[1], k, K, L)
  <2> DEFINE D == {i \in 0..(Len(q) - 1) : i + 1 \in C}
             W == {i \in 0..(Len(q) - 1) : i + 1 \in V}
  <2>1. Knows(Tail(q), k, L, D, W)
    BY ONLY <1>0, <1>1, <1>4, TailKnows, q # << >>, Carries(q[1], k, K, L)
  <2>2. Len(Tail(q)) \in D
    BY <1>1, <1>2
  <2> HIDE DEF D, W
  <2> QED
    BY ONLY <1>2, <1>x, <2>1, <2>2, Zenon DEF Arrives, Leads
<1> QED
  BY <1>3, <1>4

LEMMA TailConstant ==
  ASSUME NEW q, NEW k, NEW K, Constant(q, k, K), q # << >>,
         NEW L, Carries(q[1], k, K, L), CarriesSaved(q[1], k, K, L) \/ Len(q) = 1
  PROVE  Constant(Tail(q), k, L)
<1>0. IsScript(q)
  BY DEF Constant, Holds
<1>1. PICK V : Knows(q, k, K, 0..Len(q), V)
  BY DEF Constant, Holds
<1>2. /\ Len(q) \in Nat /\ Len(q) >= 1 /\ IsScript(Tail(q)) /\ Len(Tail(q)) = Len(q) - 1
  BY <1>0, ScriptIs
<1>x. "saved" \notin {"field"}
  OBVIOUS
<1>3. CASE Len(q) = 1
  <2>1. Knows(Tail(q), k, L, {0}, {})
    <3>1. 1 \in 0..Len(q)
      BY <1>3
    <3> QED
      BY ONLY <1>0, <1>1, <1>3, <3>1, LastKnows, Carries(q[1], k, K, L)
  <2>2. {0} = 0..Len(Tail(q))
    <3>1. Len(Tail(q)) = 0
      BY ONLY <1>2, <1>3, SMT
    <3>2. {0} = 0..0
      BY ONLY SMT
    <3> QED
      BY ONLY <3>1, <3>2, Zenon
  <2> QED
    BY ONLY <1>2, <1>x, <2>1, <2>2, Zenon DEF Constant, Holds
<1>4. CASE CarriesSaved(q[1], k, K, L)
  <2> DEFINE D == {i \in 0..(Len(q) - 1) : i + 1 \in 0..Len(q)}
             W == {i \in 0..(Len(q) - 1) : i + 1 \in V}
  <2>1. Knows(Tail(q), k, L, D, W)
    BY ONLY <1>0, <1>1, <1>4, TailKnows, q # << >>, Carries(q[1], k, K, L)
  <2>2. D = 0..Len(Tail(q))
    BY <1>1, <1>2
  <2> HIDE DEF D, W
  <2> QED
    BY ONLY <1>2, <1>x, <2>1, <2>2, Zenon DEF Constant, Holds
<1> QED
  BY <1>3, <1>4

LEMMA InTheEnd ==
  /\ \A k, K : Arrives(<< >>, k, K) => "field" \in K
  /\ \A q, k, K : Constant(q, k, K) => "field" \in K
<1>1. ASSUME NEW k, NEW K, Arrives(<< >>, k, K) PROVE "field" \in K
  BY <1>1, NoneIs DEF Arrives, Leads, Knows
<1>2. ASSUME NEW q, NEW k, NEW K, Constant(q, k, K) PROVE "field" \in K
  <2>1. 0 \in 0..Len(q)
    BY <1>2, ScriptIs DEF Constant, Holds
  <2> QED
    BY <1>2, <2>1 DEF Constant, Holds, Knows
<1> QED
  BY <1>1, <1>2

-----------------------------------------------------------------------------
(***************************************************************************)
(* The chip, and what is good for a field of it.                           *)
(***************************************************************************)
Meaning(v, k) ==
  CASE v = "rate"  -> IF "rate" \in k.upset THEN {drv.rate} ELSE Rates \cup {"mixed"}
    [] v = "power" -> IF "rate" \in k.upset THEN {PowerOf(drv)}
                      ELSE Rates \cup {"mixed", "fast"}
    [] OTHER       -> {v}

Fine(v, k) == \E g \in k.good : v \in Meaning(g, k)

Fits(k) == Fine(chip[k.reg][k.field], k)
Kept(k) == k.field \in DOMAIN saved /\ Fine(saved[k.field], k)

Known(k) == {x \in {"field", "saved"} : IF x = "field" THEN Fits(k) ELSE Kept(k)}

Concern(k) ==
  /\ k.reg \in Names /\ k.field \in FieldsOf[k.reg]
  /\ k.good \cap {"saved", "zero", "cal"} = {}
  /\ k.upset \subseteq {"rate", "modes"}
  /\ "power" \in k.good /\ "rate" \in k.upset => "modes" \in k.upset

ChipShape ==
  DOMAIN chip = Names /\ \A n \in Names : DOMAIN chip[n] = FieldsOf[n]

DriverShape == DOMAIN drv = {"rate", "modes", "up"}

(***************************************************************************)
(* A driver without a rate remembers one before it uses any.               *)
(***************************************************************************)
Rateless(a) ==
  a.op \in {"write", "modify"} => \A f \in DOMAIN a.vals : a.vals[f] \notin {"rate", "power"}

RateReady == drv.rate \in Rates \cup {"mixed"} \/ Rateless(Due)

LEMMA ChipStays ==
  ASSUME ChipShape, chip' = [chip EXCEPT ![Due.reg] = After(Due)]
  PROVE  ChipShape'
<1>1. Due.reg \in Names => DOMAIN After(Due) = FieldsOf[Due.reg]
  BY DEF After
<1> QED
  BY <1>1 DEF ChipShape

LEMMA FieldAfter ==
  ASSUME ChipShape, chip' = [chip EXCEPT ![Due.reg] = After(Due)], NEW k, Concern(k)
  PROVE  chip'[k.reg][k.field] =
           IF Due.reg # k.reg THEN chip[k.reg][k.field]
           ELSE IF k.field \in DOMAIN Due.vals
                THEN Worked(Due.vals[k.field], SavedField(k.field))
           ELSE IF Due.op = "write" THEN "zero" ELSE chip[k.reg][k.field]
<1>1. k.reg \in Names /\ k.field \in FieldsOf[k.reg] /\ k.reg \in DOMAIN chip
  BY DEF Concern, ChipShape
<1>2. Due.reg = k.reg => chip'[k.reg] = After(Due)
  BY ONLY <1>1, chip' = [chip EXCEPT ![Due.reg] = After(Due)]
<1>3. Due.reg # k.reg => chip'[k.reg] = chip[k.reg]
  BY ONLY <1>1, chip' = [chip EXCEPT ![Due.reg] = After(Due)]
<1>4. Due.reg = k.reg =>
        After(Due)[k.field] = IF k.field \in DOMAIN Due.vals
                              THEN Worked(Due.vals[k.field], SavedField(k.field))
                              ELSE IF Due.op = "write" THEN "zero" ELSE chip[k.reg][k.field]
  BY ONLY <1>1 DEF After
<1> QED
  BY ONLY <1>2, <1>3, <1>4, Zenon

LEMMA WorkedIsFine ==
  ASSUME NEW k, Concern(k), NEW v \in k.good, NEW old,
         drv.rate \in Rates \cup {"mixed"} \/ v \notin {"rate", "power"}
  PROVE  Worked(v, old) \in Meaning(v, k)
<1>1. CASE v = "rate"
  BY <1>1 DEF Worked, Meaning
<1>2. CASE v = "power"
  <2>1. Worked(v, old) = PowerOf(drv)
    BY <1>2 DEF Worked
  <2>2. Meaning(v, k) = IF "rate" \in k.upset THEN {PowerOf(drv)}
                        ELSE Rates \cup {"mixed", "fast"}
    BY <1>2 DEF Meaning
  <2>3. PowerOf(drv) \in Rates \cup {"mixed", "fast"}
    BY <1>2 DEF PowerOf
  <2> QED
    BY ONLY <2>1, <2>2, <2>3, Zenon
<1>3. CASE v \notin {"rate", "power"}
  <2>1. v # "saved"
    BY DEF Concern
  <2>2. Worked(v, old) = v
    BY <1>3, <2>1 DEF Worked
  <2>3. Meaning(v, k) = {v}
    BY <1>3 DEF Meaning
  <2> QED
    BY ONLY <2>2, <2>3
<1> QED
  BY ONLY <1>1, <1>2, <1>3, Zenon

(* What a write or modify does, in the chip. *)
LEMMA Written ==
  ASSUME ChipShape, chip' = [chip EXCEPT ![Due.reg] = After(Due)], NEW k, Concern(k),
         Due.op \in {"write", "modify"}, RateReady
  PROVE  /\ Sets(Due, k) => Fine(chip'[k.reg][k.field], k)
         /\ Spares(Due, k) => chip'[k.reg][k.field] = chip[k.reg][k.field]
         /\ PutsBack(Due, k) /\ Kept(k) => Fine(chip'[k.reg][k.field], k)
<1> DEFINE new == chip'[k.reg][k.field]
           old == chip[k.reg][k.field]
<1>1. new = IF Due.reg # k.reg THEN old
            ELSE IF k.field \in DOMAIN Due.vals
                 THEN Worked(Due.vals[k.field], SavedField(k.field))
            ELSE IF Due.op = "write" THEN "zero" ELSE old
  BY FieldAfter, Zenon
<1> HIDE DEF new, old
<1>2. Sets(Due, k) => Fine(new, k)
  <2> SUFFICES ASSUME Sets(Due, k) PROVE Fine(new, k)
    OBVIOUS
  <2>1. Due.reg = k.reg /\ k.field \in DOMAIN Due.vals /\ Due.vals[k.field] \in k.good
    BY DEF Sets, Changes
  <2>2. drv.rate \in Rates \cup {"mixed"} \/ Due.vals[k.field] \notin {"rate", "power"}
    BY <2>1 DEF RateReady, Rateless
  <2>3. Worked(Due.vals[k.field], SavedField(k.field)) \in Meaning(Due.vals[k.field], k)
    BY <2>1, <2>2, WorkedIsFine, Zenon
  <2> QED
    BY ONLY <1>1, <2>1, <2>3, Zenon DEF Fine
<1>3. Spares(Due, k) => new = old
  BY <1>1 DEF Spares
<1>4. PutsBack(Due, k) /\ Kept(k) => Fine(new, k)
  <2> SUFFICES ASSUME PutsBack(Due, k), Kept(k) PROVE Fine(new, k)
    OBVIOUS
  <2>1. Due.reg = k.reg /\ k.field \in DOMAIN Due.vals /\ Due.vals[k.field] = "saved"
    BY DEF PutsBack, Changes
  <2>2. new = saved[k.field]
    BY <1>1, <2>1 DEF Worked, SavedField, Kept
  <2> QED
    BY ONLY <2>2, Kept(k), Zenon DEF Kept
<1> QED
  BY <1>2, <1>3, <1>4 DEF new, old

LEMMA MeaningStays ==
  ASSUME NEW k, Concern(k), NEW v \in k.good,
         "rate" \in k.upset => drv'.rate = drv.rate,
         "modes" \in k.upset => drv'.modes = drv.modes
  PROVE  Meaning(v, k)' = Meaning(v, k)
<1>1. CASE v = "rate"
  BY <1>1 DEF Meaning
<1>2. CASE v = "power"
  <2>1. "rate" \in k.upset => drv'.modes = drv.modes
    BY <1>2 DEF Concern
  <2>2. "rate" \in k.upset => PowerOf(drv') = PowerOf(drv)
    BY <2>1 DEF PowerOf
  <2> QED
    BY <1>2, <2>2 DEF Meaning
<1>3. CASE v \notin {"rate", "power"}
  BY <1>3 DEF Meaning
<1> QED
  BY ONLY <1>1, <1>2, <1>3, Zenon

LEMMA FineStays ==
  ASSUME NEW k, Concern(k), NEW v,
         "rate" \in k.upset => drv'.rate = drv.rate,
         "modes" \in k.upset => drv'.modes = drv.modes
  PROVE  /\ (\E g \in k.good : v \in Meaning(g, k)') <=> Fine(v, k)
<1>1. \A g \in k.good : Meaning(g, k)' = Meaning(g, k)
  BY MeaningStays
<1> QED
  BY <1>1, Zenon DEF Fine

\* What the accesses of a call need to be carried on.
Shapes == ChipShape /\ DriverShape /\ IsScript(todo)

LEMMA AccessCarries ==
  ASSUME Shapes, RateReady, AccessChip, NEW k, Concern(k)
  PROVE  /\ Carries(Due, k, Known(k), Known(k)')
         /\ CarriesSaved(Due, k, Known(k), Known(k)') \/ Last
         /\ ChipShape' /\ DriverShape'
         /\ drv'.rate = drv.rate /\ drv'.modes = drv.modes
<1>1. /\ Due.op \in {"write", "modify"}
      /\ chip' = [chip EXCEPT ![Due.reg] = After(Due)]
      /\ ~Last => saved' = saved
      /\ drv' = [drv EXCEPT !.up = @ \/ Last]
  BY DEF AccessChip, Proceed, Settle
<1>2. DriverShape' /\ drv'.rate = drv.rate /\ drv'.modes = drv.modes
  BY <1>1 DEF Shapes, DriverShape
<1>3. /\ Sets(Due, k) => Fine(chip'[k.reg][k.field], k)
      /\ Spares(Due, k) => chip'[k.reg][k.field] = chip[k.reg][k.field]
      /\ PutsBack(Due, k) /\ Kept(k) => Fine(chip'[k.reg][k.field], k)
  BY <1>1, Written DEF Shapes
<1>4. \A v : (\E g \in k.good : v \in Meaning(g, k)') <=> Fine(v, k)
  BY <1>2, FineStays, Zenon
<1>5. Fits(k)' <=> Fine(chip'[k.reg][k.field], k)
  BY <1>4, Zenon DEF Fits, Fine
<1>6. ~Last /\ Kept(k) => Kept(k)'
  <2> SUFFICES ASSUME ~Last, Kept(k) PROVE Kept(k)'
    OBVIOUS
  <2>1. saved' = saved
    BY <1>1
  <2> QED
    BY <1>4, <2>1, Zenon DEF Kept, Fine
<1>7. /\ "field" \in Known(k) <=> Fits(k)
      /\ "field" \in Known(k)' <=> Fits(k)'
      /\ "saved" \in Known(k) <=> Kept(k)
      /\ "saved" \in Known(k)' <=> Kept(k)'
  BY DEF Known
<1>8. Carries(Due, k, Known(k), Known(k)')
  <2>1. Sets(Due, k) => Fits(k)'
    BY ONLY <1>3, <1>5, Zenon
  <2>2. Spares(Due, k) /\ Fits(k) => Fits(k)'
    BY ONLY <1>3, <1>5, Zenon DEF Fits
  <2>3. PutsBack(Due, k) /\ Kept(k) => Fits(k)'
    BY ONLY <1>3, <1>5, Zenon
  <2> QED
    BY ONLY <1>7, <2>1, <2>2, <2>3, Zenon DEF Carries
<1>9. CarriesSaved(Due, k, Known(k), Known(k)') \/ Last
  <2>1. Due.op # "save"
    BY <1>1
  <2> QED
    BY ONLY <1>6, <1>7, <2>1, Zenon DEF CarriesSaved
<1>10. ChipShape'
  BY <1>1, ChipStays DEF Shapes
<1> QED
  BY ONLY <1>2, <1>8, <1>9, <1>10

LEMMA ReadCarries ==
  ASSUME Shapes, ReadForLater, NEW k, Concern(k)
  PROVE  /\ Carries(Due, k, Known(k), Known(k)')
         /\ CarriesSaved(Due, k, Known(k), Known(k)')
<1>1. /\ Due.op = "save" /\ saved' = chip[Due.reg] /\ chip' = chip /\ drv' = drv
  BY DEF ReadForLater
<1>4. \A v : (\E g \in k.good : v \in Meaning(g, k)') <=> Fine(v, k)
  BY <1>1, FineStays, Zenon
<1>5. Fits(k)' <=> Fits(k)
  BY <1>1, <1>4, Zenon DEF Fits, Fine
<1>6. Due.reg = k.reg /\ Fits(k) => Kept(k)'
  <2> SUFFICES ASSUME Due.reg = k.reg, Fits(k) PROVE Kept(k)'
    OBVIOUS
  <2>1. saved' = chip[k.reg]
    BY <1>1
  <2>2. k.field \in DOMAIN saved'
    BY <2>1 DEF Shapes, ChipShape, Concern
  <2> QED
    BY <1>4, <2>1, <2>2, Zenon DEF Kept, Fine, Fits
<1>7. /\ "field" \in Known(k) <=> Fits(k)
      /\ "field" \in Known(k)' <=> Fits(k)'
      /\ "saved" \in Known(k) <=> Kept(k)
      /\ "saved" \in Known(k)' <=> Kept(k)'
  BY DEF Known
<1>8. ~Sets(Due, k) /\ ~PutsBack(Due, k)
  BY <1>1 DEF Sets, PutsBack, Changes
<1> QED
  BY ONLY <1>1, <1>5, <1>6, <1>7, <1>8, Zenon DEF Carries, CarriesSaved

LEMMA RememberCarries ==
  ASSUME Shapes, Remember, NEW k, Concern(k)
  PROVE  /\ Carries(Due, k, Known(k), Known(k)')
         /\ CarriesSaved(Due, k, Known(k), Known(k)') \/ Last
         /\ DriverShape'
<1>1. /\ Due.op \in {"rate", "modes"}
      /\ chip' = chip
      /\ ~Last => saved' = saved
      /\ Settle(IF Due.op = "rate" THEN [drv EXCEPT !.rate = Due.rate]
                ELSE [drv EXCEPT !.modes = [c \in Channels |->
                        IF c \in DOMAIN Due.modes THEN Due.modes[c] ELSE @[c]]])
  BY DEF Remember, Proceed
<1>2. DriverShape'
  BY <1>1 DEF Shapes, DriverShape, Settle
<1>3. /\ Due.op = "rate" => drv'.modes = drv.modes
      /\ Due.op = "modes" => drv'.rate = drv.rate
  BY <1>1 DEF Shapes, DriverShape, Settle
<1>4. Due.op \notin k.upset => \A v : (\E g \in k.good : v \in Meaning(g, k)') <=> Fine(v, k)
  <2> SUFFICES ASSUME Due.op \notin k.upset, NEW v
               PROVE  (\E g \in k.good : v \in Meaning(g, k)') <=> Fine(v, k)
    BY Zenon
  <2>1. /\ "rate" \in k.upset => drv'.rate = drv.rate
        /\ "modes" \in k.upset => drv'.modes = drv.modes
    BY ONLY <1>1, <1>3, Due.op \notin k.upset
  <2> QED
    BY <2>1, FineStays, Zenon
<1>5. Due.op \notin k.upset /\ Fits(k) => Fits(k)'
  BY <1>1, <1>4, Zenon DEF Fits, Fine
<1>6. Due.op \notin k.upset /\ ~Last /\ Kept(k) => Kept(k)'
  <2> SUFFICES ASSUME Due.op \notin k.upset, ~Last, Kept(k) PROVE Kept(k)'
    OBVIOUS
  <2>1. saved' = saved
    BY <1>1
  <2> QED
    BY <1>4, <2>1, Zenon DEF Kept, Fine
<1>7. /\ "field" \in Known(k) <=> Fits(k)
      /\ "field" \in Known(k)' <=> Fits(k)'
      /\ "saved" \in Known(k) <=> Kept(k)
      /\ "saved" \in Known(k)' <=> Kept(k)'
  BY DEF Known
<1>8. ~Sets(Due, k) /\ ~PutsBack(Due, k) /\ Due.op # "save"
  BY <1>1 DEF Sets, PutsBack, Changes
<1>9. Spares(Due, k) => Due.op \notin k.upset
  BY <1>1 DEF Spares
<1>10. Carries(Due, k, Known(k), Known(k)')
  BY ONLY <1>5, <1>7, <1>8, <1>9, Zenon DEF Carries
<1>11. CarriesSaved(Due, k, Known(k), Known(k)') \/ Last
  BY ONLY <1>6, <1>7, <1>8, Zenon DEF CarriesSaved
<1> QED
  BY ONLY <1>2, <1>10, <1>11

(***************************************************************************)
(* So the steps of a call carry on what its script promises.               *)
(***************************************************************************)
Proceeds == AccessChip \/ ReadForLater \/ Remember

LEMMA ScriptGoesOn ==
  ASSUME Shapes, Proceeds
  PROVE  /\ todo' = Tail(todo) /\ todo # << >> /\ IsScript(todo')
         /\ Due = todo[1] /\ (Last <=> Len(todo) = 1)
<1>1. todo' = Tail(todo) /\ todo # << >>
  BY DEF Proceeds, AccessChip, ReadForLater, Remember, Proceed, Running
<1> QED
  BY <1>1, ScriptIs DEF Shapes, Due, Last

LEMMA StepCarries ==
  ASSUME Shapes, RateReady, Proceeds
  PROVE  /\ Shapes'
         /\ \A k : Concern(k) =>
              /\ Arrives(todo, k, Known(k)) => Arrives(todo', k, Known(k)')
              /\ Constant(todo, k, Known(k)) => Constant(todo', k, Known(k)')
<1>1. /\ todo' = Tail(todo) /\ todo # << >> /\ IsScript(todo')
       /\ Due = todo[1] /\ (Last <=> Len(todo) = 1)
  BY ScriptGoesOn
<1>2. Shapes'
  <2>1. CASE AccessChip
    <3>1. ChipShape'
      BY <2>1, ChipStays DEF Shapes, AccessChip
    <3>2. DriverShape'
      BY <2>1 DEF Shapes, DriverShape, AccessChip, Settle
    <3> QED
      BY <1>1, <3>1, <3>2 DEF Shapes
  <2>2. CASE ReadForLater
    BY <1>1, <2>2 DEF Shapes, ChipShape, DriverShape, ReadForLater
  <2>3. CASE Remember
    <3>1. ChipShape'
      BY <2>3 DEF Shapes, ChipShape, Remember
    <3>2. DriverShape'
      BY <2>3 DEF Shapes, DriverShape, Remember, Settle
    <3> QED
      BY <1>1, <3>1, <3>2 DEF Shapes
  <2> QED
    BY <2>1, <2>2, <2>3 DEF Proceeds
<1>3. ASSUME NEW k, Concern(k)
      PROVE  /\ Carries(Due, k, Known(k), Known(k)')
             /\ CarriesSaved(Due, k, Known(k), Known(k)') \/ Len(todo) = 1
  BY <1>1, <1>3, AccessCarries, ReadCarries, RememberCarries, Zenon DEF Proceeds
<1>4. ASSUME NEW k, Concern(k), Arrives(todo, k, Known(k))
      PROVE  Arrives(todo', k, Known(k)')
  BY <1>1, <1>3, <1>4, TailArrives, Zenon
<1>5. ASSUME NEW k, Concern(k), Constant(todo, k, Known(k))
      PROVE  Constant(todo', k, Known(k)')
  BY <1>1, <1>3, <1>5, TailConstant, Zenon
<1> QED
  BY ONLY <1>2, <1>4, <1>5, Zenon

Fails == SpiError \/ Reject \/ NoWindow

(* What holds all the time also does after an access that failed.          *)
LEMMA ErrorKeeps ==
  ASSUME Shapes, RateReady, Fails, NEW k, Concern(k), Constant(todo, k, Known(k))
  PROVE  Fits(k)'
<1>1. /\ todo # << >> /\ Due = todo[1] /\ drv' = drv
      /\ \/ chip' = chip
         \/ Due.op \in {"write", "modify"} /\ chip' = [chip EXCEPT ![Due.reg] = After(Due)]
  BY ScriptIs DEF Shapes, Due, Fails, SpiError, Reject, NoWindow, GiveUp, Running
<1>2. "field" \in Known(k)
  BY InTheEnd
<1>3. Fits(k)
  BY <1>2 DEF Known
<1>4. \A v : (\E g \in k.good : v \in Meaning(g, k)') <=> Fine(v, k)
  BY <1>1, FineStays, Zenon
<1>5. Fits(k)' <=> Fine(chip'[k.reg][k.field], k)
  BY <1>4, Zenon DEF Fits, Fine
<1>6. CASE chip' = chip
  BY <1>3, <1>5, <1>6, Zenon DEF Fits
<1>7. CASE Due.op \in {"write", "modify"} /\ chip' = [chip EXCEPT ![Due.reg] = After(Due)]
  <2>1. /\ Sets(Due, k) => Fine(chip'[k.reg][k.field], k)
        /\ Spares(Due, k) => chip'[k.reg][k.field] = chip[k.reg][k.field]
        /\ PutsBack(Due, k) /\ Kept(k) => Fine(chip'[k.reg][k.field], k)
    BY <1>7, Written DEF Shapes
  <2>2. PICK V : Knows(todo, k, Known(k), 0..Len(todo), V)
    BY DEF Constant, Holds
  <2>3. 1 \in 1..Len(todo) /\ 1 \in 0..Len(todo) /\ 1 - 1 = 0
    BY <1>1, ScriptIs DEF Shapes
  <2>4. \/ Sets(Due, k)
        \/ Spares(Due, k)
        \/ PutsBack(Due, k) /\ 0 \in V
    BY <1>1, <2>2, <2>3, Zenon DEF Knows
  <2>5. 0 \in V => Kept(k)
    <3>1. 0 \in V => "saved" \in Known(k)
      BY <2>2, Zenon DEF Knows
    <3> QED
      BY <3>1 DEF Known
  <2> QED
    BY ONLY <1>3, <1>5, <2>1, <2>4, <2>5, Zenon DEF Fits
<1> QED
  BY ONLY <1>1, <1>6, <1>7, Zenon

(***************************************************************************)
(* The registers have names of their own.                                  *)
(***************************************************************************)
LEMMA NamesAre ==
  /\ RefDivideConfig1.name = "RefDivideConfig1"
  /\ RefDivideConfig2.name = "RefDivideConfig2"
  /\ ClockEnable.name = "ClockEnable"
  /\ BbPll.name = "BbPll"
  /\ RxEnableFilterControl.name = "RxEnableFilterControl"
  /\ TxEnableFilterControl.name = "TxEnableFilterControl"
  /\ InputSelect.name = "InputSelect"
  /\ ClockControl.name = "ClockControl"
  /\ ParallelPortConf1.name = "ParallelPortConf1"
  /\ ParallelPortConf2.name = "ParallelPortConf2"
  /\ ParallelPortConf3.name = "ParallelPortConf3"
  /\ RxClockDataDelay.name = "RxClockDataDelay"
  /\ TxClockDataDelay.name = "TxClockDataDelay"
  /\ LvdsBiasControl.name = "LvdsBiasControl"
  /\ AuxDacEnableControl.name = "AuxDacEnableControl"
  /\ AuxDac1Config.name = "AuxDac1Config"
  /\ AuxDac2Config.name = "AuxDac2Config"
  /\ AutoGpo.name = "AutoGpo"
  /\ GpoForceAndInit.name = "GpoForceAndInit"
  /\ ExternalLnaControl.name = "ExternalLnaControl"
  /\ TempSense2.name = "TempSense2"
  /\ AuxadcClockDivider.name = "AuxadcClockDivider"
  /\ EnsmMode.name = "EnsmMode"
  /\ EnsmConfig1.name = "EnsmConfig1"
  /\ EnsmConfig2.name = "EnsmConfig2"
  /\ AgcConfig1.name = "AgcConfig1"
  /\ AgcConfig2.name = "AgcConfig2"
  /\ AgcConfig3.name = "AgcConfig3"
  /\ MaxLmtFullGain.name = "MaxLmtFullGain"
  /\ PeakWaitTime.name = "PeakWaitTime"
  /\ DigitalGain.name = "DigitalGain"
  /\ AgcLockLevel.name = "AgcLockLevel"
  /\ GainStpConfig1.name = "GainStpConfig1"
  /\ GainStpConfig2.name = "GainStpConfig2"
  /\ SmallLmtOverloadThresh.name = "SmallLmtOverloadThresh"
  /\ Rx1ManualLmtFullGain.name = "Rx1ManualLmtFullGain"
  /\ Rx1ManualLpfGain.name = "Rx1ManualLpfGain"
  /\ Rx2ManualLmtFullGain.name = "Rx2ManualLmtFullGain"
  /\ AgcAttackDelay.name = "AgcAttackDelay"
  /\ AgcInnerLowThresh.name = "AgcInnerLowThresh"
  /\ LmtOverloadCounters.name = "LmtOverloadCounters"
  /\ AdcOverloadCounters.name = "AdcOverloadCounters"
  /\ GainStp1.name = "GainStp1"
  /\ GainStp2.name = "GainStp2"
  /\ OuterPowerThreshs.name = "OuterPowerThreshs"
  /\ DigitalSatCounter.name = "DigitalSatCounter"
  /\ FastConfig1.name = "FastConfig1"
  /\ FastConfig2SettlingDelay.name = "FastConfig2SettlingDelay"
  /\ FastEnergyLostThresh.name = "FastEnergyLostThresh"
  /\ FastStrongerSignalThresh.name = "FastStrongerSignalThresh"
  /\ FastLowPowerThresh.name = "FastLowPowerThresh"
  /\ FastStrongSignalFreeze.name = "FastStrongSignalFreeze"
  /\ FastFinalOverRangeAndOptGain.name = "FastFinalOverRangeAndOptGain"
  /\ FastEnergyDetectCount.name = "FastEnergyDetectCount"
  /\ FastAgcllUpperLimit.name = "FastAgcllUpperLimit"
  /\ FastGainLockExitCount.name = "FastGainLockExitCount"
  /\ DecPowerMeasureDuration0.name = "DecPowerMeasureDuration0"
  /\ GainTableConfig.name = "GainTableConfig"
  /\ MeasureDuration01.name = "MeasureDuration01"
  /\ MeasureDuration23.name = "MeasureDuration23"
  /\ RssiConfig.name = "RssiConfig"
  /\ TpmModeEnable.name = "TpmModeEnable"
  /\ TxLevelThresh.name = "TxLevelThresh"
  /\ TxMonHighGain.name = "TxMonHighGain"
  /\ TxMonLowGain.name = "TxMonLowGain"
  /\ TxMon1Config.name = "TxMon1Config"
  /\ TxMon2Config.name = "TxMon2Config"
  /\ CalibrationConfig1.name = "CalibrationConfig1"
  /\ CalibrationConfig2.name = "CalibrationConfig2"
  /\ CalibrationConfig3.name = "CalibrationConfig3"
  /\ DcOffsetConfig2.name = "DcOffsetConfig2"
  /\ RfDcOffsetConfig1.name = "RfDcOffsetConfig1"
  /\ InvertBits.name = "InvertBits"
  /\ RxQuadGain2.name = "RxQuadGain2"
  /\ Kexp1.name = "Kexp1"
  /\ Kexp2.name = "Kexp2"
  /\ QuadCalNcoFreqPhaseOffset.name = "QuadCalNcoFreqPhaseOffset"
  /\ QuadCalControl.name = "QuadCalControl"
  /\ Rx1TuneControl.name = "Rx1TuneControl"
  /\ Rx2TuneControl.name = "Rx2TuneControl"
  /\ TxTuneControl.name = "TxTuneControl"
  /\ RxBbfTuneConfig.name = "RxBbfTuneConfig"
  /\ TxBbfTuneMode.name = "TxBbfTuneMode"
  /\ Tx2DigAtten.name = "Tx2DigAtten"
  /\ TxAttenOffset.name = "TxAttenOffset"
  BY SMT DEF RefDivideConfig1, RefDivideConfig2, ClockEnable, BbPll, RxEnableFilterControl,
     TxEnableFilterControl, InputSelect, ClockControl, ParallelPortConf1, ParallelPortConf2,
     ParallelPortConf3, RxClockDataDelay, TxClockDataDelay, LvdsBiasControl,
     AuxDacEnableControl, AuxDac1Config, AuxDac2Config, AutoGpo, GpoForceAndInit,
     ExternalLnaControl, TempSense2, AuxadcClockDivider, EnsmMode, EnsmConfig1, EnsmConfig2,
     AgcConfig1, AgcConfig2, AgcConfig3, MaxLmtFullGain, PeakWaitTime, DigitalGain,
     AgcLockLevel, GainStpConfig1, GainStpConfig2, SmallLmtOverloadThresh,
     Rx1ManualLmtFullGain, Rx1ManualLpfGain, Rx2ManualLmtFullGain, AgcAttackDelay,
     AgcInnerLowThresh, LmtOverloadCounters, AdcOverloadCounters, GainStp1, GainStp2,
     OuterPowerThreshs, DigitalSatCounter, FastConfig1, FastConfig2SettlingDelay,
     FastEnergyLostThresh, FastStrongerSignalThresh, FastLowPowerThresh,
     FastStrongSignalFreeze, FastFinalOverRangeAndOptGain, FastEnergyDetectCount,
     FastAgcllUpperLimit, FastGainLockExitCount, DecPowerMeasureDuration0, GainTableConfig,
     MeasureDuration01, MeasureDuration23, RssiConfig, TpmModeEnable, TxLevelThresh,
     TxMonHighGain, TxMonLowGain, TxMon1Config, TxMon2Config, CalibrationConfig1,
     CalibrationConfig2, CalibrationConfig3, DcOffsetConfig2, RfDcOffsetConfig1, InvertBits,
     RxQuadGain2, Kexp1, Kexp2, QuadCalNcoFreqPhaseOffset, QuadCalControl, Rx1TuneControl,
     Rx2TuneControl, TxTuneControl, RxBbfTuneConfig, TxBbfTuneMode, Tx2DigAtten,
     TxAttenOffset, Register

Named(n) ==
  CASE n = "RefDivideConfig1" -> RefDivideConfig1
    [] n = "RefDivideConfig2" -> RefDivideConfig2
    [] n = "ClockEnable" -> ClockEnable
    [] n = "BbPll" -> BbPll
    [] n = "RxEnableFilterControl" -> RxEnableFilterControl
    [] n = "TxEnableFilterControl" -> TxEnableFilterControl
    [] n = "InputSelect" -> InputSelect
    [] n = "ClockControl" -> ClockControl
    [] n = "ParallelPortConf1" -> ParallelPortConf1
    [] n = "ParallelPortConf2" -> ParallelPortConf2
    [] n = "ParallelPortConf3" -> ParallelPortConf3
    [] n = "RxClockDataDelay" -> RxClockDataDelay
    [] n = "TxClockDataDelay" -> TxClockDataDelay
    [] n = "LvdsBiasControl" -> LvdsBiasControl
    [] n = "AuxDacEnableControl" -> AuxDacEnableControl
    [] n = "AuxDac1Config" -> AuxDac1Config
    [] n = "AuxDac2Config" -> AuxDac2Config
    [] n = "AutoGpo" -> AutoGpo
    [] n = "GpoForceAndInit" -> GpoForceAndInit
    [] n = "ExternalLnaControl" -> ExternalLnaControl
    [] n = "TempSense2" -> TempSense2
    [] n = "AuxadcClockDivider" -> AuxadcClockDivider
    [] n = "EnsmMode" -> EnsmMode
    [] n = "EnsmConfig1" -> EnsmConfig1
    [] n = "EnsmConfig2" -> EnsmConfig2
    [] n = "AgcConfig1" -> AgcConfig1
    [] n = "AgcConfig2" -> AgcConfig2
    [] n = "AgcConfig3" -> AgcConfig3
    [] n = "MaxLmtFullGain" -> MaxLmtFullGain
    [] n = "PeakWaitTime" -> PeakWaitTime
    [] n = "DigitalGain" -> DigitalGain
    [] n = "AgcLockLevel" -> AgcLockLevel
    [] n = "GainStpConfig1" -> GainStpConfig1
    [] n = "GainStpConfig2" -> GainStpConfig2
    [] n = "SmallLmtOverloadThresh" -> SmallLmtOverloadThresh
    [] n = "Rx1ManualLmtFullGain" -> Rx1ManualLmtFullGain
    [] n = "Rx1ManualLpfGain" -> Rx1ManualLpfGain
    [] n = "Rx2ManualLmtFullGain" -> Rx2ManualLmtFullGain
    [] n = "AgcAttackDelay" -> AgcAttackDelay
    [] n = "AgcInnerLowThresh" -> AgcInnerLowThresh
    [] n = "LmtOverloadCounters" -> LmtOverloadCounters
    [] n = "AdcOverloadCounters" -> AdcOverloadCounters
    [] n = "GainStp1" -> GainStp1
    [] n = "GainStp2" -> GainStp2
    [] n = "OuterPowerThreshs" -> OuterPowerThreshs
    [] n = "DigitalSatCounter" -> DigitalSatCounter
    [] n = "FastConfig1" -> FastConfig1
    [] n = "FastConfig2SettlingDelay" -> FastConfig2SettlingDelay
    [] n = "FastEnergyLostThresh" -> FastEnergyLostThresh
    [] n = "FastStrongerSignalThresh" -> FastStrongerSignalThresh
    [] n = "FastLowPowerThresh" -> FastLowPowerThresh
    [] n = "FastStrongSignalFreeze" -> FastStrongSignalFreeze
    [] n = "FastFinalOverRangeAndOptGain" -> FastFinalOverRangeAndOptGain
    [] n = "FastEnergyDetectCount" -> FastEnergyDetectCount
    [] n = "FastAgcllUpperLimit" -> FastAgcllUpperLimit
    [] n = "FastGainLockExitCount" -> FastGainLockExitCount
    [] n = "DecPowerMeasureDuration0" -> DecPowerMeasureDuration0
    [] n = "GainTableConfig" -> GainTableConfig
    [] n = "MeasureDuration01" -> MeasureDuration01
    [] n = "MeasureDuration23" -> MeasureDuration23
    [] n = "RssiConfig" -> RssiConfig
    [] n = "TpmModeEnable" -> TpmModeEnable
    [] n = "TxLevelThresh" -> TxLevelThresh
    [] n = "TxMonHighGain" -> TxMonHighGain
    [] n = "TxMonLowGain" -> TxMonLowGain
    [] n = "TxMon1Config" -> TxMon1Config
    [] n = "TxMon2Config" -> TxMon2Config
    [] n = "CalibrationConfig1" -> CalibrationConfig1
    [] n = "CalibrationConfig2" -> CalibrationConfig2
    [] n = "CalibrationConfig3" -> CalibrationConfig3
    [] n = "DcOffsetConfig2" -> DcOffsetConfig2
    [] n = "RfDcOffsetConfig1" -> RfDcOffsetConfig1
    [] n = "InvertBits" -> InvertBits
    [] n = "RxQuadGain2" -> RxQuadGain2
    [] n = "Kexp1" -> Kexp1
    [] n = "Kexp2" -> Kexp2
    [] n = "QuadCalNcoFreqPhaseOffset" -> QuadCalNcoFreqPhaseOffset
    [] n = "QuadCalControl" -> QuadCalControl
    [] n = "Rx1TuneControl" -> Rx1TuneControl
    [] n = "Rx2TuneControl" -> Rx2TuneControl
    [] n = "TxTuneControl" -> TxTuneControl
    [] n = "RxBbfTuneConfig" -> RxBbfTuneConfig
    [] n = "TxBbfTuneMode" -> TxBbfTuneMode
    [] n = "Tx2DigAtten" -> Tx2DigAtten
    [] n = "TxAttenOffset" -> TxAttenOffset

LEMMA NamedIs ==
  /\ Named("RefDivideConfig1") = RefDivideConfig1
  /\ Named("RefDivideConfig2") = RefDivideConfig2
  /\ Named("ClockEnable") = ClockEnable
  /\ Named("BbPll") = BbPll
  /\ Named("RxEnableFilterControl") = RxEnableFilterControl
  /\ Named("TxEnableFilterControl") = TxEnableFilterControl
  /\ Named("InputSelect") = InputSelect
  /\ Named("ClockControl") = ClockControl
  /\ Named("ParallelPortConf1") = ParallelPortConf1
  /\ Named("ParallelPortConf2") = ParallelPortConf2
  /\ Named("ParallelPortConf3") = ParallelPortConf3
  /\ Named("RxClockDataDelay") = RxClockDataDelay
  /\ Named("TxClockDataDelay") = TxClockDataDelay
  /\ Named("LvdsBiasControl") = LvdsBiasControl
  /\ Named("AuxDacEnableControl") = AuxDacEnableControl
  /\ Named("AuxDac1Config") = AuxDac1Config
  /\ Named("AuxDac2Config") = AuxDac2Config
  /\ Named("AutoGpo") = AutoGpo
  /\ Named("GpoForceAndInit") = GpoForceAndInit
  /\ Named("ExternalLnaControl") = ExternalLnaControl
  /\ Named("TempSense2") = TempSense2
  /\ Named("AuxadcClockDivider") = AuxadcClockDivider
  /\ Named("EnsmMode") = EnsmMode
  /\ Named("EnsmConfig1") = EnsmConfig1
  /\ Named("EnsmConfig2") = EnsmConfig2
  /\ Named("AgcConfig1") = AgcConfig1
  /\ Named("AgcConfig2") = AgcConfig2
  /\ Named("AgcConfig3") = AgcConfig3
  /\ Named("MaxLmtFullGain") = MaxLmtFullGain
  /\ Named("PeakWaitTime") = PeakWaitTime
  /\ Named("DigitalGain") = DigitalGain
  /\ Named("AgcLockLevel") = AgcLockLevel
  /\ Named("GainStpConfig1") = GainStpConfig1
  /\ Named("GainStpConfig2") = GainStpConfig2
  /\ Named("SmallLmtOverloadThresh") = SmallLmtOverloadThresh
  /\ Named("Rx1ManualLmtFullGain") = Rx1ManualLmtFullGain
  /\ Named("Rx1ManualLpfGain") = Rx1ManualLpfGain
  /\ Named("Rx2ManualLmtFullGain") = Rx2ManualLmtFullGain
  /\ Named("AgcAttackDelay") = AgcAttackDelay
  /\ Named("AgcInnerLowThresh") = AgcInnerLowThresh
  /\ Named("LmtOverloadCounters") = LmtOverloadCounters
  /\ Named("AdcOverloadCounters") = AdcOverloadCounters
  /\ Named("GainStp1") = GainStp1
  /\ Named("GainStp2") = GainStp2
  /\ Named("OuterPowerThreshs") = OuterPowerThreshs
  /\ Named("DigitalSatCounter") = DigitalSatCounter
  /\ Named("FastConfig1") = FastConfig1
  /\ Named("FastConfig2SettlingDelay") = FastConfig2SettlingDelay
  /\ Named("FastEnergyLostThresh") = FastEnergyLostThresh
  /\ Named("FastStrongerSignalThresh") = FastStrongerSignalThresh
  /\ Named("FastLowPowerThresh") = FastLowPowerThresh
  /\ Named("FastStrongSignalFreeze") = FastStrongSignalFreeze
  /\ Named("FastFinalOverRangeAndOptGain") = FastFinalOverRangeAndOptGain
  /\ Named("FastEnergyDetectCount") = FastEnergyDetectCount
  /\ Named("FastAgcllUpperLimit") = FastAgcllUpperLimit
  /\ Named("FastGainLockExitCount") = FastGainLockExitCount
  /\ Named("DecPowerMeasureDuration0") = DecPowerMeasureDuration0
  /\ Named("GainTableConfig") = GainTableConfig
  /\ Named("MeasureDuration01") = MeasureDuration01
  /\ Named("MeasureDuration23") = MeasureDuration23
  /\ Named("RssiConfig") = RssiConfig
  /\ Named("TpmModeEnable") = TpmModeEnable
  /\ Named("TxLevelThresh") = TxLevelThresh
  /\ Named("TxMonHighGain") = TxMonHighGain
  /\ Named("TxMonLowGain") = TxMonLowGain
  /\ Named("TxMon1Config") = TxMon1Config
  /\ Named("TxMon2Config") = TxMon2Config
  /\ Named("CalibrationConfig1") = CalibrationConfig1
  /\ Named("CalibrationConfig2") = CalibrationConfig2
  /\ Named("CalibrationConfig3") = CalibrationConfig3
  /\ Named("DcOffsetConfig2") = DcOffsetConfig2
  /\ Named("RfDcOffsetConfig1") = RfDcOffsetConfig1
  /\ Named("InvertBits") = InvertBits
  /\ Named("RxQuadGain2") = RxQuadGain2
  /\ Named("Kexp1") = Kexp1
  /\ Named("Kexp2") = Kexp2
  /\ Named("QuadCalNcoFreqPhaseOffset") = QuadCalNcoFreqPhaseOffset
  /\ Named("QuadCalControl") = QuadCalControl
  /\ Named("Rx1TuneControl") = Rx1TuneControl
  /\ Named("Rx2TuneControl") = Rx2TuneControl
  /\ Named("TxTuneControl") = TxTuneControl
  /\ Named("RxBbfTuneConfig") = RxBbfTuneConfig
  /\ Named("TxBbfTuneMode") = TxBbfTuneMode
  /\ Named("Tx2DigAtten") = Tx2DigAtten
  /\ Named("TxAttenOffset") = TxAttenOffset
  BY SMTT(100) DEF Named

LEMMA Listed ==
  /\ RefDivideConfig1 \in Registers /\ RefDivideConfig2 \in Registers
  /\ ClockEnable \in Registers /\ BbPll \in Registers
  /\ RxEnableFilterControl \in Registers /\ TxEnableFilterControl \in Registers
  /\ InputSelect \in Registers /\ ClockControl \in Registers
  /\ ParallelPortConf1 \in Registers /\ ParallelPortConf2 \in Registers
  /\ ParallelPortConf3 \in Registers /\ RxClockDataDelay \in Registers
  /\ TxClockDataDelay \in Registers /\ LvdsBiasControl \in Registers
  /\ AuxDacEnableControl \in Registers /\ AuxDac1Config \in Registers
  /\ AuxDac2Config \in Registers /\ AutoGpo \in Registers
  /\ GpoForceAndInit \in Registers /\ ExternalLnaControl \in Registers
  /\ TempSense2 \in Registers /\ AuxadcClockDivider \in Registers
  /\ EnsmMode \in Registers /\ EnsmConfig1 \in Registers
  /\ EnsmConfig2 \in Registers /\ AgcConfig1 \in Registers
  /\ AgcConfig2 \in Registers /\ AgcConfig3 \in Registers
  /\ MaxLmtFullGain \in Registers /\ PeakWaitTime \in Registers
  /\ DigitalGain \in Registers /\ AgcLockLevel \in Registers
  /\ GainStpConfig1 \in Registers /\ GainStpConfig2 \in Registers
  /\ SmallLmtOverloadThresh \in Registers /\ Rx1ManualLmtFullGain \in Registers
  /\ Rx1ManualLpfGain \in Registers /\ Rx2ManualLmtFullGain \in Registers
  /\ AgcAttackDelay \in Registers /\ AgcInnerLowThresh \in Registers
  /\ LmtOverloadCounters \in Registers /\ AdcOverloadCounters \in Registers
  /\ GainStp1 \in Registers /\ GainStp2 \in Registers
  /\ OuterPowerThreshs \in Registers /\ DigitalSatCounter \in Registers
  /\ FastConfig1 \in Registers /\ FastConfig2SettlingDelay \in Registers
  /\ FastEnergyLostThresh \in Registers /\ FastStrongerSignalThresh \in Registers
  /\ FastLowPowerThresh \in Registers /\ FastStrongSignalFreeze \in Registers
  /\ FastFinalOverRangeAndOptGain \in Registers /\ FastEnergyDetectCount \in Registers
  /\ FastAgcllUpperLimit \in Registers /\ FastGainLockExitCount \in Registers
  /\ DecPowerMeasureDuration0 \in Registers /\ GainTableConfig \in Registers
  /\ MeasureDuration01 \in Registers /\ MeasureDuration23 \in Registers
  /\ RssiConfig \in Registers /\ TpmModeEnable \in Registers
  /\ TxLevelThresh \in Registers /\ TxMonHighGain \in Registers
  /\ TxMonLowGain \in Registers /\ TxMon1Config \in Registers
  /\ TxMon2Config \in Registers /\ CalibrationConfig1 \in Registers
  /\ CalibrationConfig2 \in Registers /\ CalibrationConfig3 \in Registers
  /\ DcOffsetConfig2 \in Registers /\ RfDcOffsetConfig1 \in Registers
  /\ InvertBits \in Registers /\ RxQuadGain2 \in Registers
  /\ Kexp1 \in Registers /\ Kexp2 \in Registers
  /\ QuadCalNcoFreqPhaseOffset \in Registers /\ QuadCalControl \in Registers
  /\ Rx1TuneControl \in Registers /\ Rx2TuneControl \in Registers
  /\ TxTuneControl \in Registers /\ RxBbfTuneConfig \in Registers
  /\ TxBbfTuneMode \in Registers /\ Tx2DigAtten \in Registers
  /\ TxAttenOffset \in Registers
<1>1. /\ RefDivideConfig1 \in Registers /\ RefDivideConfig2 \in Registers
      /\ ClockEnable \in Registers /\ BbPll \in Registers
      /\ RxEnableFilterControl \in Registers /\ TxEnableFilterControl \in Registers
      /\ InputSelect \in Registers /\ ClockControl \in Registers
      /\ ParallelPortConf1 \in Registers /\ ParallelPortConf2 \in Registers
      /\ ParallelPortConf3 \in Registers /\ RxClockDataDelay \in Registers
  BY SMT DEF Registers
<1>2. /\ TxClockDataDelay \in Registers /\ LvdsBiasControl \in Registers
      /\ AuxDacEnableControl \in Registers /\ AuxDac1Config \in Registers
      /\ AuxDac2Config \in Registers /\ AutoGpo \in Registers
      /\ GpoForceAndInit \in Registers /\ ExternalLnaControl \in Registers
      /\ TempSense2 \in Registers /\ AuxadcClockDivider \in Registers
      /\ EnsmMode \in Registers /\ EnsmConfig1 \in Registers
  BY SMT DEF Registers
<1>3. /\ EnsmConfig2 \in Registers /\ AgcConfig1 \in Registers
      /\ AgcConfig2 \in Registers /\ AgcConfig3 \in Registers
      /\ MaxLmtFullGain \in Registers /\ PeakWaitTime \in Registers
      /\ DigitalGain \in Registers /\ AgcLockLevel \in Registers
      /\ GainStpConfig1 \in Registers /\ GainStpConfig2 \in Registers
      /\ SmallLmtOverloadThresh \in Registers /\ Rx1ManualLmtFullGain \in Registers
  BY SMT DEF Registers
<1>4. /\ Rx1ManualLpfGain \in Registers /\ Rx2ManualLmtFullGain \in Registers
      /\ AgcAttackDelay \in Registers /\ AgcInnerLowThresh \in Registers
      /\ LmtOverloadCounters \in Registers /\ AdcOverloadCounters \in Registers
      /\ GainStp1 \in Registers /\ GainStp2 \in Registers
      /\ OuterPowerThreshs \in Registers /\ DigitalSatCounter \in Registers
      /\ FastConfig1 \in Registers /\ FastConfig2SettlingDelay \in Registers
  BY SMT DEF Registers
<1>5. /\ FastEnergyLostThresh \in Registers /\ FastStrongerSignalThresh \in Registers
      /\ FastLowPowerThresh \in Registers /\ FastStrongSignalFreeze \in Registers
      /\ FastFinalOverRangeAndOptGain \in Registers /\ FastEnergyDetectCount \in Registers
      /\ FastAgcllUpperLimit \in Registers /\ FastGainLockExitCount \in Registers
      /\ DecPowerMeasureDuration0 \in Registers /\ GainTableConfig \in Registers
      /\ MeasureDuration01 \in Registers /\ MeasureDuration23 \in Registers
  BY SMT DEF Registers
<1>6. /\ RssiConfig \in Registers /\ TpmModeEnable \in Registers
      /\ TxLevelThresh \in Registers /\ TxMonHighGain \in Registers
      /\ TxMonLowGain \in Registers /\ TxMon1Config \in Registers
      /\ TxMon2Config \in Registers /\ CalibrationConfig1 \in Registers
      /\ CalibrationConfig2 \in Registers /\ CalibrationConfig3 \in Registers
      /\ DcOffsetConfig2 \in Registers /\ RfDcOffsetConfig1 \in Registers
  BY SMT DEF Registers
<1>7. /\ InvertBits \in Registers /\ RxQuadGain2 \in Registers
      /\ Kexp1 \in Registers /\ Kexp2 \in Registers
      /\ QuadCalNcoFreqPhaseOffset \in Registers /\ QuadCalControl \in Registers
      /\ Rx1TuneControl \in Registers /\ Rx2TuneControl \in Registers
      /\ TxTuneControl \in Registers /\ RxBbfTuneConfig \in Registers
      /\ TxBbfTuneMode \in Registers /\ Tx2DigAtten \in Registers
  BY SMT DEF Registers
<1>8. /\ TxAttenOffset \in Registers
  BY SMT DEF Registers
<1> QED
  BY ONLY <1>1, <1>2, <1>3, <1>4, <1>5, <1>6, <1>7, <1>8

LEMMA NamedAre == \A r \in Registers : Named(r.name) = r
  BY SMTT(100), NamesAre, NamedIs DEF Registers

LEMMA FieldsAre == \A r \in Registers : r.name \in Names /\ FieldsOf[r.name] = r.fields
<1> SUFFICES ASSUME NEW r \in Registers PROVE r.name \in Names /\ FieldsOf[r.name] = r.fields
  OBVIOUS
<1>1. r.name \in Names
  BY DEF Names
<1>2. FieldsOf[r.name] = (CHOOSE q \in Registers : q.name = r.name).fields
  BY <1>1 DEF FieldsOf
<1>3. (CHOOSE q \in Registers : q.name = r.name) = r
  <2>1. \A q \in Registers : q.name = r.name => q = r
    BY NamedAre, Zenon
  <2> QED
    BY <2>1
<1> QED
  BY <1>1, <1>2, <1>3

Is(r, n) == r \in Registers /\ r.name = n
LEMMA RegistersAre ==
  /\ Is(RefDivideConfig1, "RefDivideConfig1")
  /\ Is(RefDivideConfig2, "RefDivideConfig2")
  /\ Is(ClockEnable, "ClockEnable")
  /\ Is(BbPll, "BbPll")
  /\ Is(RxEnableFilterControl, "RxEnableFilterControl")
  /\ Is(TxEnableFilterControl, "TxEnableFilterControl")
  /\ Is(InputSelect, "InputSelect")
  /\ Is(ClockControl, "ClockControl")
  /\ Is(ParallelPortConf1, "ParallelPortConf1")
  /\ Is(ParallelPortConf2, "ParallelPortConf2")
  /\ Is(ParallelPortConf3, "ParallelPortConf3")
  /\ Is(RxClockDataDelay, "RxClockDataDelay")
  /\ Is(TxClockDataDelay, "TxClockDataDelay")
  /\ Is(LvdsBiasControl, "LvdsBiasControl")
  /\ Is(AuxDacEnableControl, "AuxDacEnableControl")
  /\ Is(AuxDac1Config, "AuxDac1Config")
  /\ Is(AuxDac2Config, "AuxDac2Config")
  /\ Is(AutoGpo, "AutoGpo")
  /\ Is(GpoForceAndInit, "GpoForceAndInit")
  /\ Is(ExternalLnaControl, "ExternalLnaControl")
  /\ Is(TempSense2, "TempSense2")
  /\ Is(AuxadcClockDivider, "AuxadcClockDivider")
  /\ Is(EnsmMode, "EnsmMode")
  /\ Is(EnsmConfig1, "EnsmConfig1")
  /\ Is(EnsmConfig2, "EnsmConfig2")
  /\ Is(AgcConfig1, "AgcConfig1")
  /\ Is(AgcConfig2, "AgcConfig2")
  /\ Is(AgcConfig3, "AgcConfig3")
  /\ Is(MaxLmtFullGain, "MaxLmtFullGain")
  /\ Is(PeakWaitTime, "PeakWaitTime")
  /\ Is(DigitalGain, "DigitalGain")
  /\ Is(AgcLockLevel, "AgcLockLevel")
  /\ Is(GainStpConfig1, "GainStpConfig1")
  /\ Is(GainStpConfig2, "GainStpConfig2")
  /\ Is(SmallLmtOverloadThresh, "SmallLmtOverloadThresh")
  /\ Is(Rx1ManualLmtFullGain, "Rx1ManualLmtFullGain")
  /\ Is(Rx1ManualLpfGain, "Rx1ManualLpfGain")
  /\ Is(Rx2ManualLmtFullGain, "Rx2ManualLmtFullGain")
  /\ Is(AgcAttackDelay, "AgcAttackDelay")
  /\ Is(AgcInnerLowThresh, "AgcInnerLowThresh")
  /\ Is(LmtOverloadCounters, "LmtOverloadCounters")
  /\ Is(AdcOverloadCounters, "AdcOverloadCounters")
  /\ Is(GainStp1, "GainStp1")
  /\ Is(GainStp2, "GainStp2")
  /\ Is(OuterPowerThreshs, "OuterPowerThreshs")
  /\ Is(DigitalSatCounter, "DigitalSatCounter")
  /\ Is(FastConfig1, "FastConfig1")
  /\ Is(FastConfig2SettlingDelay, "FastConfig2SettlingDelay")
  /\ Is(FastEnergyLostThresh, "FastEnergyLostThresh")
  /\ Is(FastStrongerSignalThresh, "FastStrongerSignalThresh")
  /\ Is(FastLowPowerThresh, "FastLowPowerThresh")
  /\ Is(FastStrongSignalFreeze, "FastStrongSignalFreeze")
  /\ Is(FastFinalOverRangeAndOptGain, "FastFinalOverRangeAndOptGain")
  /\ Is(FastEnergyDetectCount, "FastEnergyDetectCount")
  /\ Is(FastAgcllUpperLimit, "FastAgcllUpperLimit")
  /\ Is(FastGainLockExitCount, "FastGainLockExitCount")
  /\ Is(DecPowerMeasureDuration0, "DecPowerMeasureDuration0")
  /\ Is(GainTableConfig, "GainTableConfig")
  /\ Is(MeasureDuration01, "MeasureDuration01")
  /\ Is(MeasureDuration23, "MeasureDuration23")
  /\ Is(RssiConfig, "RssiConfig")
  /\ Is(TpmModeEnable, "TpmModeEnable")
  /\ Is(TxLevelThresh, "TxLevelThresh")
  /\ Is(TxMonHighGain, "TxMonHighGain")
  /\ Is(TxMonLowGain, "TxMonLowGain")
  /\ Is(TxMon1Config, "TxMon1Config")
  /\ Is(TxMon2Config, "TxMon2Config")
  /\ Is(CalibrationConfig1, "CalibrationConfig1")
  /\ Is(CalibrationConfig2, "CalibrationConfig2")
  /\ Is(CalibrationConfig3, "CalibrationConfig3")
  /\ Is(DcOffsetConfig2, "DcOffsetConfig2")
  /\ Is(RfDcOffsetConfig1, "RfDcOffsetConfig1")
  /\ Is(InvertBits, "InvertBits")
  /\ Is(RxQuadGain2, "RxQuadGain2")
  /\ Is(Kexp1, "Kexp1")
  /\ Is(Kexp2, "Kexp2")
  /\ Is(QuadCalNcoFreqPhaseOffset, "QuadCalNcoFreqPhaseOffset")
  /\ Is(QuadCalControl, "QuadCalControl")
  /\ Is(Rx1TuneControl, "Rx1TuneControl")
  /\ Is(Rx2TuneControl, "Rx2TuneControl")
  /\ Is(TxTuneControl, "TxTuneControl")
  /\ Is(RxBbfTuneConfig, "RxBbfTuneConfig")
  /\ Is(TxBbfTuneMode, "TxBbfTuneMode")
  /\ Is(Tx2DigAtten, "Tx2DigAtten")
  /\ Is(TxAttenOffset, "TxAttenOffset")
  BY NamesAre, Listed, Zenon DEF Is

(***************************************************************************)
(* The fields of a register that some step of init sets, and what to.      *)
(***************************************************************************)
Ours(set, n) ==
  CASE n = "AuxDac1Config" -> {"auxdac_1_word_lsb", "auxdac_1_vref"}
    [] n = "AuxDac2Config" -> {"auxdac_2_word_lsb", "auxdac_2_vref"}
    [] n = "ParallelPortConf3" ->
         {"fdd_rx_rate_2tx_rate"} \cup
         IF set.half_duplex
         THEN {"single_port_mode", "half_duplex_mode", "full_port", "single_data_rate",
               "swap_ports", "full_duplex_swap_bits"}
         ELSE {"lvds_mode"}
    [] n = "LvdsBiasControl" ->
         IF set.half_duplex THEN {"clk_out_slew"} ELSE LvdsBiasControl.fields
    [] n = "EnsmConfig1" -> {"level_mode", "enable_ensm_pin_ctrl", "enable_rx_data_port_for_cal",
                             "to_alert", On(set)}
    [] n = "EnsmConfig2" ->
         {f \in {"dual_synth_mode", "fdd_external_ctrl_enable", "synth_enable_pin_ctrl_mode"} :
            \/ f = "dual_synth_mode" /\ (set.fdd \/ set.dual_synth)
            \/ f = "fdd_external_ctrl_enable" /\ set.fdd
            \/ f = "synth_enable_pin_ctrl_mode" /\ ~set.fdd /\ ~set.dual_synth}
    [] n = "SmallLmtOverloadThresh" -> {"small_lmt_overload_thresh"}
    [] n = "GainTableConfig" -> {}
    [] n = "RssiConfig" -> {"rssi_mode_select", "start_rssi_meas", "default_rssi_meas_mode"}
    [] n = "TpmModeEnable" -> {"one_shot_mode", "tx_mon_duration"}
    [] n = "CalibrationConfig1" ->
         {"enable_phase_corr", "enable_gain_corr", "free_run_mode", "enable_corr_word_decimation",
          "enable_tracking_mode_ch1", "enable_tracking_mode_ch2"}
    [] n = "CalibrationConfig2" -> {"calibration_config2_dflt", "k_exp_phase"}
    [] n = "DcOffsetConfig2" ->
         {"use_wait_counter_for_rf_dc_init_cal", "dc_offset_update",
          "enable_bb_dc_offset_tracking", "enable_rf_offset_tracking"}
    [] n = "InvertBits" -> {"invert_rx1_rf_dc_cgout_word", "invert_rx2_rf_dc_cgout_word"}
    [] n = "QuadCalControl" -> {"settle_main_enable", "dc_offset_enable", "gain_enable",
                                "phase_enable", "m_decim"}
    [] n = "Rx1TuneControl" -> {"rx1_tune_resample", "rx1_pd_tune"}
    [] n = "Rx2TuneControl" -> {"rx2_tune_resample", "rx2_pd_tune"}
    [] n = "TxTuneControl"  -> {"tuner_resample", "tune_ctrl", "pd_tune"}
    [] OTHER -> FieldsOf[n]

GoodOf(set, n, f) ==
  IF n = "AgcConfig1" /\ f = "rx1_gain_ctrl_setup" THEN {set.modes[1]}
  ELSE IF n = "AgcConfig1" /\ f = "rx2_gain_ctrl_setup" THEN {set.modes[2]}
  ELSE IF n = "AgcConfig1" /\ f = "slow_attack_hybrid_mode" THEN {"set", "zero"}
  ELSE IF n = "RxEnableFilterControl" THEN {"set"}
  ELSE {"set", "rate", "power"}

(***************************************************************************)
(* An access sets nothing else, and, outside of the registers of X, what   *)
(* it does to these fields is what is asked for.                           *)
(***************************************************************************)
Within(a, set) ==
  \A f \in DOMAIN a.vals : a.vals[f] \notin {"cal", "zero", "saved"} => f \in Ours(set, a.reg)

Tidy(a, set) ==
  /\ \A f \in DOMAIN a.vals : f \in Ours(set, a.reg) => a.vals[f] \in GoodOf(set, a.reg, f)
  /\ a.op = "write" => Ours(set, a.reg) \subseteq DOMAIN a.vals

Orderly(a, set, X) ==
  \/ a.op = "save"
  \/ a.op = "rate" /\ a.rate \in Rates \cup {"mixed"}
  \/ a.op = "modes" /\ a.modes = set.modes
  \/ /\ a.op \in {"write", "modify"} /\ a.reg \in Names
     /\ Within(a, set)
     /\ a.reg \notin X => Tidy(a, set)

Does(q, set, X) == IsScript(q) /\ \A i \in 1..Len(q) : Orderly(q[i], set, X)

\* A register that is set as a whole.
Own(r) == r \in Registers /\ r.name # "AgcConfig1" /\ \A set : Ours(set, r.name) = r.fields

LEMMA OwnAre ==
  /\ Own(RefDivideConfig1) /\ Own(RefDivideConfig2) /\ Own(ClockEnable)
  /\ Own(BbPll) /\ Own(RxEnableFilterControl) /\ Own(TxEnableFilterControl)
  /\ Own(InputSelect) /\ Own(ClockControl) /\ Own(ParallelPortConf1)
  /\ Own(ParallelPortConf2) /\ Own(RxClockDataDelay) /\ Own(TxClockDataDelay)
  /\ Own(AuxDacEnableControl) /\ Own(AutoGpo) /\ Own(GpoForceAndInit)
  /\ Own(ExternalLnaControl) /\ Own(TempSense2) /\ Own(AuxadcClockDivider)
  /\ Own(EnsmMode) /\ Own(AgcConfig2) /\ Own(AgcConfig3)
  /\ Own(MaxLmtFullGain) /\ Own(PeakWaitTime) /\ Own(DigitalGain)
  /\ Own(AgcLockLevel) /\ Own(GainStpConfig1) /\ Own(GainStpConfig2)
  /\ Own(Rx1ManualLmtFullGain) /\ Own(Rx1ManualLpfGain) /\ Own(Rx2ManualLmtFullGain)
  /\ Own(AgcAttackDelay) /\ Own(AgcInnerLowThresh) /\ Own(LmtOverloadCounters)
  /\ Own(AdcOverloadCounters) /\ Own(GainStp1) /\ Own(GainStp2)
  /\ Own(OuterPowerThreshs) /\ Own(DigitalSatCounter) /\ Own(FastConfig1)
  /\ Own(FastConfig2SettlingDelay) /\ Own(FastEnergyLostThresh) /\ Own(FastStrongerSignalThresh)
  /\ Own(FastLowPowerThresh) /\ Own(FastStrongSignalFreeze) /\ Own(FastFinalOverRangeAndOptGain)
  /\ Own(FastEnergyDetectCount) /\ Own(FastAgcllUpperLimit) /\ Own(FastGainLockExitCount)
  /\ Own(DecPowerMeasureDuration0) /\ Own(MeasureDuration01) /\ Own(MeasureDuration23)
  /\ Own(TxLevelThresh) /\ Own(TxMonHighGain) /\ Own(TxMonLowGain)
  /\ Own(TxMon1Config) /\ Own(TxMon2Config) /\ Own(CalibrationConfig3)
  /\ Own(RfDcOffsetConfig1) /\ Own(RxQuadGain2) /\ Own(Kexp1)
  /\ Own(Kexp2) /\ Own(QuadCalNcoFreqPhaseOffset) /\ Own(RxBbfTuneConfig)
  /\ Own(TxBbfTuneMode) /\ Own(Tx2DigAtten) /\ Own(TxAttenOffset)
<1>1. \A r, n :
        Is(r, n) /\ n \notin {"ParallelPortConf3", "LvdsBiasControl", "AuxDac1Config",
                       "AuxDac2Config", "EnsmConfig1", "EnsmConfig2", "AgcConfig1",
                       "SmallLmtOverloadThresh", "GainTableConfig", "RssiConfig",
                       "TpmModeEnable", "CalibrationConfig1", "CalibrationConfig2",
                       "DcOffsetConfig2", "InvertBits", "QuadCalControl", "Rx1TuneControl",
                       "Rx2TuneControl", "TxTuneControl"} => Own(r)
  BY FieldsAre DEF Own, Ours, Is
<1> QED
  BY ONLY <1>1, RegistersAre, SMTT(60)

LEMMA OursAreFields == \A set : \A n \in Names : Ours(set, n) \subseteq FieldsOf[n]
<1> SUFFICES ASSUME NEW set, NEW n \in Names PROVE Ours(set, n) \subseteq FieldsOf[n]
  OBVIOUS
<1>1. CASE n = "ParallelPortConf3"
  <2>1. FieldsOf[n] = ParallelPortConf3.fields
    BY <1>1, NamesAre, Listed, FieldsAre
  <2> QED
    BY <2>1, <1>1 DEF Ours, On, ParallelPortConf3, Register
<1>2. CASE n = "LvdsBiasControl"
  <2>1. FieldsOf[n] = LvdsBiasControl.fields
    BY <1>2, NamesAre, Listed, FieldsAre
  <2> QED
    BY <2>1, <1>2 DEF Ours, On, LvdsBiasControl, Register
<1>3. CASE n = "AuxDac1Config"
  <2>1. FieldsOf[n] = AuxDac1Config.fields
    BY <1>3, NamesAre, Listed, FieldsAre
  <2> QED
    BY <2>1, <1>3 DEF Ours, On, AuxDac1Config, Register
<1>4. CASE n = "AuxDac2Config"
  <2>1. FieldsOf[n] = AuxDac2Config.fields
    BY <1>4, NamesAre, Listed, FieldsAre
  <2> QED
    BY <2>1, <1>4 DEF Ours, On, AuxDac2Config, Register
<1>5. CASE n = "EnsmConfig1"
  <2>1. FieldsOf[n] = EnsmConfig1.fields
    BY <1>5, NamesAre, Listed, FieldsAre
  <2> QED
    BY <2>1, <1>5 DEF Ours, On, EnsmConfig1, Register
<1>6. CASE n = "EnsmConfig2"
  <2>1. FieldsOf[n] = EnsmConfig2.fields
    BY <1>6, NamesAre, Listed, FieldsAre
  <2> QED
    BY <2>1, <1>6 DEF Ours, On, EnsmConfig2, Register
<1>7. CASE n = "SmallLmtOverloadThresh"
  <2>1. FieldsOf[n] = SmallLmtOverloadThresh.fields
    BY <1>7, NamesAre, Listed, FieldsAre
  <2> QED
    BY <2>1, <1>7 DEF Ours, On, SmallLmtOverloadThresh, Register
<1>8. CASE n = "GainTableConfig"
  <2>1. FieldsOf[n] = GainTableConfig.fields
    BY <1>8, NamesAre, Listed, FieldsAre
  <2> QED
    BY <2>1, <1>8 DEF Ours, On, GainTableConfig, Register
<1>9. CASE n = "RssiConfig"
  <2>1. FieldsOf[n] = RssiConfig.fields
    BY <1>9, NamesAre, Listed, FieldsAre
  <2> QED
    BY <2>1, <1>9 DEF Ours, On, RssiConfig, Register
<1>10. CASE n = "TpmModeEnable"
  <2>1. FieldsOf[n] = TpmModeEnable.fields
    BY <1>10, NamesAre, Listed, FieldsAre
  <2> QED
    BY <2>1, <1>10 DEF Ours, On, TpmModeEnable, Register
<1>11. CASE n = "CalibrationConfig1"
  <2>1. FieldsOf[n] = CalibrationConfig1.fields
    BY <1>11, NamesAre, Listed, FieldsAre
  <2> QED
    BY <2>1, <1>11 DEF Ours, On, CalibrationConfig1, Register
<1>12. CASE n = "CalibrationConfig2"
  <2>1. FieldsOf[n] = CalibrationConfig2.fields
    BY <1>12, NamesAre, Listed, FieldsAre
  <2> QED
    BY <2>1, <1>12 DEF Ours, On, CalibrationConfig2, Register
<1>13. CASE n = "DcOffsetConfig2"
  <2>1. FieldsOf[n] = DcOffsetConfig2.fields
    BY <1>13, NamesAre, Listed, FieldsAre
  <2> QED
    BY <2>1, <1>13 DEF Ours, On, DcOffsetConfig2, Register
<1>14. CASE n = "InvertBits"
  <2>1. FieldsOf[n] = InvertBits.fields
    BY <1>14, NamesAre, Listed, FieldsAre
  <2> QED
    BY <2>1, <1>14 DEF Ours, On, InvertBits, Register
<1>15. CASE n = "QuadCalControl"
  <2>1. FieldsOf[n] = QuadCalControl.fields
    BY <1>15, NamesAre, Listed, FieldsAre
  <2> QED
    BY <2>1, <1>15 DEF Ours, On, QuadCalControl, Register
<1>16. CASE n = "Rx1TuneControl"
  <2>1. FieldsOf[n] = Rx1TuneControl.fields
    BY <1>16, NamesAre, Listed, FieldsAre
  <2> QED
    BY <2>1, <1>16 DEF Ours, On, Rx1TuneControl, Register
<1>17. CASE n = "Rx2TuneControl"
  <2>1. FieldsOf[n] = Rx2TuneControl.fields
    BY <1>17, NamesAre, Listed, FieldsAre
  <2> QED
    BY <2>1, <1>17 DEF Ours, On, Rx2TuneControl, Register
<1>18. CASE n = "TxTuneControl"
  <2>1. FieldsOf[n] = TxTuneControl.fields
    BY <1>18, NamesAre, Listed, FieldsAre
  <2> QED
    BY <2>1, <1>18 DEF Ours, On, TxTuneControl, Register
<1> QED
  BY ONLY <1>1, <1>2, <1>3, <1>4, <1>5, <1>6, <1>7, <1>8, <1>9,
    <1>10, <1>11, <1>12, <1>13, <1>14, <1>15, <1>16, <1>17, <1>18 DEF Ours

LEMMA OneDoes == \A a, set, X : Orderly(a, set, X) => Does(<<a>>, set, X)
<1> SUFFICES ASSUME NEW a, NEW set, NEW X, Orderly(a, set, X) PROVE Does(<<a>>, set, X)
  OBVIOUS
<1> DEFINE q == <<a>>
<1>1. IsScript(q) /\ Len(q) = 1 /\ q[1] = a
  BY OneIs
<1> HIDE DEF q
<1>2. \A i \in 1..Len(q) : i = 1
  BY ONLY <1>1, SMT
<1>3. Does(q, set, X)
  BY ONLY <1>1, <1>2, Orderly(a, set, X), Zenon DEF Does
<1> QED
  BY <1>3 DEF q

LEMMA NoneDoes == \A set, X : Does(<< >>, set, X)
  BY NoneIs DEF Does

LEMMA CatDoes == \A a, b, set, X : Does(a, set, X) /\ Does(b, set, X) => Does(a \o b, set, X)
<1> SUFFICES ASSUME NEW a, NEW b, NEW set, NEW X, Does(a, set, X), Does(b, set, X)
             PROVE  Does(a \o b, set, X)
  OBVIOUS
<1> DEFINE c == a \o b
           n == Len(a)
           m == Len(b)
<1>1. /\ IsScript(c) /\ Len(c) = n + m /\ n \in Nat /\ m \in Nat
      /\ \A i \in 1..n : c[i] = a[i]
      /\ \A i \in 1..m : c[n + i] = b[i]
  BY CatIs DEF Does
<1>2. /\ \A i \in 1..n : Orderly(a[i], set, X)
      /\ \A i \in 1..m : Orderly(b[i], set, X)
  BY DEF Does
<1> HIDE DEF c, n, m
<1>3. ASSUME NEW i \in 1..(n + m) PROVE Orderly(c[i], set, X)
  <2>1. i \in 1..n \/ \E j \in 1..m : i = n + j
    <3>1. CASE i <= n
      BY ONLY <1>1, <3>1, i \in 1..(n + m)
    <3>2. CASE ~(i <= n)
      <4>1. i - n \in 1..m /\ i = n + (i - n)
        BY ONLY <1>1, <3>2, i \in 1..(n + m)
      <4> QED
        BY ONLY <4>1, Zenon
    <3> QED
      BY ONLY <3>1, <3>2
  <2> QED
    BY ONLY <1>1, <1>2, <2>1, Zenon
<1>4. Does(c, set, X)
  BY ONLY <1>1, <1>3 DEF Does
<1> QED
  BY <1>4 DEF c

LEMMA WhenDoes ==
  \A c, q, set, X : (c => Does(q, set, X)) => Does(When(c, q), set, X)
  BY NoneDoes DEF When

(* Accesses of the kinds there are. *)
LEMMA WriteDoes ==
  \A r, n, fs, set, X :
    Is(r, n) /\ n # "AgcConfig1" /\ fs = Ours(set, n) => Does(Write(r, fs), set, X)
<1> SUFFICES ASSUME NEW r, NEW n, NEW fs, NEW set, NEW X,
                    Is(r, n), n # "AgcConfig1", fs = Ours(set, n)
             PROVE  Does(Write(r, fs), set, X)
  OBVIOUS
<1> DEFINE a == [op |-> "write", reg |-> r.name, vals |-> To("set", fs)]
<1>1. a.op = "write" /\ a.reg = n /\ n \in Names /\ a.vals = [f \in fs |-> "set"]
  BY FieldsAre DEF Is, To
<1>2. Write(r, fs) = <<a>>
  BY DEF Write, WriteReg, Access
<1> HIDE DEF a
<1>3. Orderly(a, set, X)
  BY <1>1 DEF Orderly, Within, Tidy, GoodOf
<1> QED
  BY <1>2, <1>3, OneDoes

LEMMA ModifyDoes ==
  \A r, n, fs, set, X :
    Is(r, n) /\ n # "AgcConfig1" /\ fs \subseteq Ours(set, n) => Does(Modify(r, fs), set, X)
<1> SUFFICES ASSUME NEW r, NEW n, NEW fs, NEW set, NEW X,
                    Is(r, n), n # "AgcConfig1", fs \subseteq Ours(set, n)
             PROVE  Does(Modify(r, fs), set, X)
  OBVIOUS
<1> DEFINE a == [op |-> "modify", reg |-> r.name, vals |-> To("set", fs)]
<1>1. a.op = "modify" /\ a.reg = n /\ n \in Names /\ a.vals = [f \in fs |-> "set"]
  BY FieldsAre DEF Is, To
<1>2. Modify(r, fs) = <<a>>
  BY DEF Modify, ModifyReg, Access
<1> HIDE DEF a
<1>3. Orderly(a, set, X)
  BY <1>1 DEF Orderly, Within, Tidy, GoodOf
<1> QED
  BY <1>2, <1>3, OneDoes

LEMMA OwnDoes ==
  \A r, set, X :
    Own(r) => /\ Does(WriteAll(r), set, X)
              /\ \A fs : fs = r.fields => Does(Write(r, fs), set, X)
              /\ \A fs : fs \subseteq r.fields => Does(Modify(r, fs), set, X)
<1> SUFFICES ASSUME NEW r, NEW set, NEW X, Own(r)
             PROVE  /\ Does(WriteAll(r), set, X)
                    /\ \A fs : fs = r.fields => Does(Write(r, fs), set, X)
                    /\ \A fs : fs \subseteq r.fields => Does(Modify(r, fs), set, X)
  OBVIOUS
<1>1. Is(r, r.name) /\ r.name # "AgcConfig1" /\ Ours(set, r.name) = r.fields
  BY DEF Own, Is
<1> QED
  BY <1>1, WriteDoes, ModifyDoes, Zenon DEF WriteAll

\* Values that are worked out.
LEMMA WorkedDoes ==
  \A r, n, vals, set, X :
    /\ Is(r, n) /\ n \notin {"AgcConfig1", "RxEnableFilterControl"}
    /\ \A f \in DOMAIN vals : vals[f] \in {"set", "rate", "power"}
    => /\ DOMAIN vals = Ours(set, n) => Does(WriteReg(r, vals), set, X)
       /\ DOMAIN vals \subseteq Ours(set, n) => Does(ModifyReg(r, vals), set, X)
<1> SUFFICES ASSUME NEW r, NEW n, NEW vals, NEW set, NEW X,
                    Is(r, n), n \notin {"AgcConfig1", "RxEnableFilterControl"},
                    \A f \in DOMAIN vals : vals[f] \in {"set", "rate", "power"}
             PROVE  /\ DOMAIN vals = Ours(set, n) => Does(WriteReg(r, vals), set, X)
                    /\ DOMAIN vals \subseteq Ours(set, n) => Does(ModifyReg(r, vals), set, X)
  OBVIOUS
<1>1. ASSUME NEW op \in {"write", "modify"}, DOMAIN vals \subseteq Ours(set, n),
             op = "write" => DOMAIN vals = Ours(set, n)
      PROVE  Does(Access(op, r, vals), set, X)
  <2> DEFINE a == [op |-> op, reg |-> r.name, vals |-> vals]
  <2>1. a.op = op /\ a.reg = n /\ n \in Names /\ a.vals = vals
    BY FieldsAre DEF Is
  <2>2. Access(op, r, vals) = <<a>>
    BY DEF Access
  <2> HIDE DEF a
  <2>3. Orderly(a, set, X)
    BY <1>1, <2>1 DEF Orderly, Within, Tidy, GoodOf
  <2> QED
    BY <2>2, <2>3, OneDoes
<1> QED
  BY <1>1 DEF WriteReg, ModifyReg

\* To the registers of X.
LEMMA FreeDoes ==
  \A r, n, vals, set, X :
    /\ Is(r, n) /\ n \in X
    /\ \A f \in DOMAIN vals : vals[f] \in {"cal", "zero", "saved"} \/ f \in Ours(set, n)
    => /\ Does(WriteReg(r, vals), set, X)
       /\ Does(ModifyReg(r, vals), set, X)
       /\ Does(PutBack(r, vals), set, X)
<1> SUFFICES ASSUME NEW r, NEW n, NEW vals, NEW set, NEW X, Is(r, n), n \in X,
                    \A f \in DOMAIN vals :
                      vals[f] \in {"cal", "zero", "saved"} \/ f \in Ours(set, n)
             PROVE  /\ Does(WriteReg(r, vals), set, X)
                    /\ Does(ModifyReg(r, vals), set, X)
                    /\ Does(PutBack(r, vals), set, X)
  OBVIOUS
<1>1. ASSUME NEW op \in {"write", "modify"}, NEW v,
             \A f \in DOMAIN v : v[f] \in {"cal", "zero", "saved"} \/ f \in Ours(set, n)
      PROVE  Does(Access(op, r, v), set, X)
  <2> DEFINE a == [op |-> op, reg |-> r.name, vals |-> v]
  <2>1. a.op = op /\ a.reg = n /\ n \in Names /\ a.vals = v
    BY FieldsAre DEF Is
  <2>2. Access(op, r, v) = <<a>>
    BY DEF Access
  <2> HIDE DEF a
  <2>3. Orderly(a, set, X)
    BY <1>1, <2>1 DEF Orderly, Within
  <2> QED
    BY <2>2, <2>3, OneDoes
<1>2. \A f \in r.fields : (IF f \in DOMAIN vals THEN vals[f] ELSE "saved")
                            \in {"cal", "zero", "saved"} \/ f \in Ours(set, n)
  OBVIOUS
<1>3. Does(PutBack(r, vals), set, X)
  BY <1>1, <1>2 DEF PutBack
<1> QED
  BY <1>1, <1>3 DEF WriteReg, ModifyReg

\* To a register of which nothing is anybody's.
LEMMA NobodysDoes ==
  \A r, n, vals, set, X :
    Is(r, n) /\ Ours(set, n) = {} /\ (\A f \in DOMAIN vals : vals[f] = "cal") =>
      Does(WriteReg(r, vals), set, X)
<1> SUFFICES ASSUME NEW r, NEW n, NEW vals, NEW set, NEW X, Is(r, n), Ours(set, n) = {},
                    \A f \in DOMAIN vals : vals[f] = "cal"
             PROVE  Does(WriteReg(r, vals), set, X)
  OBVIOUS
<1> DEFINE a == [op |-> "write", reg |-> r.name, vals |-> vals]
<1>1. a.op = "write" /\ a.reg = n /\ n \in Names /\ a.vals = vals
  BY FieldsAre DEF Is
<1>2. WriteReg(r, vals) = <<a>>
  BY DEF WriteReg, Access
<1> HIDE DEF a
<1>3. Orderly(a, set, X)
  BY <1>1 DEF Orderly, Within, Tidy
<1> QED
  BY <1>2, <1>3, OneDoes

LEMMA SaveDoes == \A r, set, X : Does(Save(r), set, X)
  BY OneDoes DEF Save, Access, Orderly

LEMMA NewDoes ==
  \A set, X : /\ \A rate \in Rates \cup {"mixed"} : Does(NewRate(rate), set, X)
              /\ Does(NewModes(set.modes), set, X)
  BY OneDoes DEF NewRate, NewModes, Orderly

LEMMA AuxdacSetupDoes == \A set, X : Does(AuxdacSetup, set, X)
<1> SUFFICES ASSUME NEW set, NEW X PROVE Does(AuxdacSetup, set, X)
  OBVIOUS
<1>1. /\ {"auxdac_manual_bar"} \subseteq AuxDacEnableControl.fields
      /\ {"auxdac_1_word_lsb", "auxdac_1_vref"} = Ours(set, "AuxDac1Config")
      /\ {"auxdac_2_word_lsb", "auxdac_2_vref"} = Ours(set, "AuxDac2Config")
      /\ {"auxdac_auto_tx_bar", "auxdac_auto_rx_bar", "auxdac_init_bar"}
          \subseteq AuxDacEnableControl.fields
      /\ {"auxdac_manual_select"} \subseteq ExternalLnaControl.fields
  BY DEF AuxDacEnableControl, Register, Ours, ExternalLnaControl
<1> QED
  BY ONLY <1>1, OwnAre, OwnDoes, RegistersAre, WriteDoes, CatDoes DEF AuxdacSetup

LEMMA GpoSetupDoes == \A set, X : Does(GpoSetup, set, X)
<1> SUFFICES ASSUME NEW set, NEW X PROVE Does(GpoSetup, set, X)
  OBVIOUS
<1>1. {"gpo_manual_select"} \subseteq ExternalLnaControl.fields
  BY DEF ExternalLnaControl, Register
<1> QED
  BY ONLY <1>1, OwnAre, OwnDoes, CatDoes DEF GpoSetup

LEMMA SetTxChannelsDoes == \A set, X : Does(SetTxChannels, set, X)
<1> SUFFICES ASSUME NEW set, NEW X PROVE Does(SetTxChannels, set, X)
  OBVIOUS
<1>1. {"tx_channel_enable"} \subseteq TxEnableFilterControl.fields
  BY DEF TxEnableFilterControl, Register
<1> QED
  BY ONLY <1>1, OwnAre, OwnDoes, CatDoes DEF SetTxChannels

LEMMA SetRxChannelsDoes == \A set, X : Does(SetRxChannels, set, X)
<1> SUFFICES ASSUME NEW set, NEW X PROVE Does(SetRxChannels, set, X)
  OBVIOUS
<1>1. {"rx1_channel_enable", "rx2_channel_enable"} \subseteq RxEnableFilterControl.fields
  BY DEF RxEnableFilterControl, Register
<1> QED
  BY ONLY <1>1, OwnAre, OwnDoes, CatDoes DEF SetRxChannels

LEMMA RfPortSetupDoes == \A set, X : Does(RfPortSetup, set, X)
<1> SUFFICES ASSUME NEW set, NEW X PROVE Does(RfPortSetup, set, X)
  OBVIOUS
<1> QED
  BY ONLY OwnAre, OwnDoes, CatDoes DEF RfPortSetup

LEMMA SetupExtLnaDoes == \A set, X : Does(SetupExtLna, set, X)
<1> SUFFICES ASSUME NEW set, NEW X PROVE Does(SetupExtLna, set, X)
  OBVIOUS
<1>1. {"external_lna1_ctrl", "external_lna2_ctrl"} \subseteq ExternalLnaControl.fields
  BY DEF ExternalLnaControl, Register
<1> QED
  BY ONLY <1>1, OwnAre, OwnDoes, CatDoes DEF SetupExtLna

LEMMA PowerUpDoes == \A set, X : Does(PowerUp, set, X)
<1> SUFFICES ASSUME NEW set, NEW X PROVE Does(PowerUp, set, X)
  OBVIOUS
<1>1. /\ {"rx_ref_reset_bar"} \subseteq RefDivideConfig1.fields
      /\ {"tx_ref_reset_bar", "tx_ref_doubler_fb_delay", "rx_ref_doubler_fb_delay"}
          \subseteq RefDivideConfig2.fields
      /\ {"ref_freq_scaler"} \subseteq ClockControl.fields
  BY DEF RefDivideConfig1, Register, RefDivideConfig2, ClockControl
<1> QED
  BY ONLY <1>1, OwnAre, OwnDoes, CatDoes DEF PowerUp

LEMMA SynthRefsDoes == \A set, X : Does(SynthRefs, set, X)
<1> SUFFICES ASSUME NEW set, NEW X PROVE Does(SynthRefs, set, X)
  OBVIOUS
<1>1. /\ {"rx_ref_divider_msb"} \subseteq RefDivideConfig1.fields
      /\ {"rx_ref_divider_lsb"} \subseteq RefDivideConfig2.fields
      /\ {"tx_ref_divider"} \subseteq RefDivideConfig2.fields
  BY DEF RefDivideConfig1, Register, RefDivideConfig2
<1> QED
  BY ONLY <1>1, OwnAre, OwnDoes, CatDoes DEF SynthRefs

LEMMA ClkoutControlDoes == \A set, X : Does(ClkoutControl, set, X)
<1> SUFFICES ASSUME NEW set, NEW X PROVE Does(ClkoutControl, set, X)
  OBVIOUS
<1>1. {"clkout_enable", "clkout_select"} \subseteq BbPll.fields
  BY DEF BbPll, Register
<1> QED
  BY ONLY <1>1, OwnAre, OwnDoes, CatDoes DEF ClkoutControl

LEMMA GcPowerDoes == \A set, X : Does(GcPower, set, X)
<1> SUFFICES ASSUME NEW set, NEW X PROVE Does(GcPower, set, X)
  OBVIOUS
<1>1. /\ {"use_hb1_out_for_dec_pwr_meas"} \subseteq DecPowerMeasureDuration0.fields
      /\ {"enable_dec_pwr_meas"} \subseteq DecPowerMeasureDuration0.fields
      /\ {"dec_power_measurement_duration"} \subseteq DecPowerMeasureDuration0.fields
  BY DEF DecPowerMeasureDuration0, Register
<1> QED
  BY ONLY <1>1, OwnAre, OwnDoes, CatDoes DEF GcPower

LEMMA GcFastSettlingDoes == \A set, X : Does(GcFastSettling, set, X)
<1> SUFFICES ASSUME NEW set, NEW X PROVE Does(GcFastSettling, set, X)
  OBVIOUS
<1>1. /\ {"enable_incr_gain"} \subseteq FastConfig1.fields
      /\ {"increment_gain_stp_lpflmt"} \subseteq FastEnergyDetectCount.fields
      /\ {"enable_lmt_gain_inc_for_lock_level"} \subseteq FastConfig2SettlingDelay.fields
      /\ {"agcll_max_increase"} \subseteq FastAgcllUpperLimit.fields
      /\ {"post_lock_level_stp_size_for_lpf_table_full_table"}
          \subseteq FastEnergyLostThresh.fields
      /\ {"post_lock_level_stp_for_lmt_table"} \subseteq FastStrongerSignalThresh.fields
      /\ {"final_over_range_count"} \subseteq FastFinalOverRangeAndOptGain.fields
      /\ {"enable_gain_inc_after_gain_lock"} \subseteq FastConfig1.fields
      /\ {"goto_set_gain_if_exit_rx_state", "goto_optimized_gain_if_exit_rx_state"}
          \subseteq FastConfig1.fields
      /\ {"use_last_lock_level_for_set_gain"} \subseteq FastConfig2SettlingDelay.fields
      /\ {"optimize_gain_offset"} \subseteq FastFinalOverRangeAndOptGain.fields
  BY DEF FastConfig1, Register, FastEnergyDetectCount, FastConfig2SettlingDelay,
       FastAgcllUpperLimit, FastEnergyLostThresh, FastStrongerSignalThresh,
       FastFinalOverRangeAndOptGain
<1> QED
  BY ONLY <1>1, OwnAre, OwnDoes, CatDoes DEF GcFastSettling

LEMMA GcFastUnlockingDoes == \A set, X : Does(GcFastUnlocking, set, X)
<1> SUFFICES ASSUME NEW set, NEW X PROVE Does(GcFastUnlocking, set, X)
  OBVIOUS
<1>1. /\ {"agc_gain_unlock_ctrl"} \subseteq AgcConfig2.fields
      /\ {"dont_unlock_gain_if_stronger_signal"} \subseteq FastStrongSignalFreeze.fields
      /\ {"stronger_signal_thresh"} \subseteq FastStrongerSignalThresh.fields
      /\ {"energy_lost_thresh"} \subseteq FastEnergyLostThresh.fields
      /\ {"goto_opt_gain_if_energy_lost_or_en_agc_high"} \subseteq FastConfig1.fields
      /\ {"dont_unlock_gain_if_energy_lost"} \subseteq FastConfig1.fields
      /\ {"gain_lock_exit_count"} \subseteq FastGainLockExitCount.fields
      /\ {"dont_unlock_gain_if_lg_adc_or_lmt_ovrg"} \subseteq FastConfig1.fields
      /\ {"dont_unlock_gain_if_adc_ovrg"} \subseteq FastLowPowerThresh.fields
  BY DEF AgcConfig2, Register, FastStrongSignalFreeze, FastStrongerSignalThresh,
       FastEnergyLostThresh, FastConfig1, FastGainLockExitCount, FastLowPowerThresh
<1> QED
  BY ONLY <1>1, OwnAre, OwnDoes, CatDoes DEF GcFastUnlocking

LEMMA SetAgcPulledHighDoes == \A set, X : Does(SetAgcPulledHigh, set, X)
<1> SUFFICES ASSUME NEW set, NEW X PROVE Does(SetAgcPulledHigh, set, X)
  OBVIOUS
<1>1. /\ {"goto_max_gain_or_opt_gain_if_en_agc_high"} \subseteq FastConfig2SettlingDelay.fields
      /\ {"goto_set_gain_if_en_agc_high"} \subseteq FastConfig1.fields
  BY DEF FastConfig2SettlingDelay, Register, FastConfig1
<1> QED
  BY ONLY <1>1, OwnAre, OwnDoes, CatDoes DEF SetAgcPulledHigh

LEMMA GcState5Does == \A set, X : Does(GcState5, set, X)
<1> SUFFICES ASSUME NEW set, NEW X PROVE Does(GcState5, set, X)
  OBVIOUS
<1>1. /\ {"power_meas_in_state_5"} \subseteq Rx1ManualLpfGain.fields
      /\ {"power_meas_in_state_5_msb"} \subseteq Rx1ManualLmtFullGain.fields
  BY DEF Rx1ManualLpfGain, Register, Rx1ManualLmtFullGain
<1> QED
  BY ONLY <1>1, OwnAre, OwnDoes, CatDoes DEF GcState5

LEMMA TrackingControlDoes == \A set, X : Does(TrackingControl, set, X)
<1> SUFFICES ASSUME NEW set, NEW X PROVE Does(TrackingControl, set, X)
  OBVIOUS
<1>1. /\ {"calibration_config2_dflt", "k_exp_phase"} = Ours(set, "CalibrationConfig2")
      /\ {"prevent_pos_loop_gain", "k_exp_amplitude"} = CalibrationConfig3.fields
      /\ {"use_wait_counter_for_rf_dc_init_cal", "dc_offset_update",
          "enable_bb_dc_offset_tracking", "enable_rf_offset_tracking"}
          = Ours(set, "DcOffsetConfig2")
      /\ {"correction_word_decimation_m"} \subseteq RxQuadGain2.fields
      /\ {"enable_phase_corr", "enable_gain_corr", "free_run_mode",
          "enable_corr_word_decimation", "enable_tracking_mode_ch1",
          "enable_tracking_mode_ch2"} = Ours(set, "CalibrationConfig1")
  BY DEF Ours, CalibrationConfig3, Register, RxQuadGain2
<1> QED
  BY ONLY <1>1, RegistersAre, WriteDoes, OwnAre, OwnDoes, CatDoes DEF TrackingControl

LEMMA TxmonSetupDoes == \A set, X : Does(TxmonSetup, set, X)
<1> SUFFICES ASSUME NEW set, NEW X PROVE Does(TxmonSetup, set, X)
  OBVIOUS
<1>1. /\ {"one_shot_mode", "tx_mon_duration"} = Ours(set, "TpmModeEnable")
      /\ {"tx_mon_delay_counter"} \subseteq TxLevelThresh.fields
      /\ {"tx_mon_high_gain"} = TxMonHighGain.fields
      /\ {"tx_mon_track", "tx_mon_low_gain"} = TxMonLowGain.fields
  BY DEF Ours, TxLevelThresh, Register, TxMonHighGain, TxMonLowGain
<1> QED
  BY ONLY <1>1, RegistersAre, WriteDoes, OwnAre, OwnDoes, CatDoes DEF TxmonSetup

(* The others. *)
LEMMA Conf3Does == \A set, X : Does(Conf3(set), set, X) /\ Does(RestoreConf3(set), set, X)
  BY RegistersAre, WriteDoes DEF Conf3, RestoreConf3, Ours

LEMMA PpPortSetupDoes == \A set, X : Does(PpPortSetup(set), set, X)
<1> SUFFICES ASSUME NEW set, NEW X PROVE Does(PpPortSetup(set), set, X)
  OBVIOUS
<1>1. {"invert_rx2_rf_dc_cgout_word"} \subseteq Ours(set, "InvertBits")
  BY DEF Ours
<1>2. Does(Write(LvdsBiasControl, IF set.half_duplex THEN {"clk_out_slew"}
                                  ELSE LvdsBiasControl.fields), set, X)
  BY RegistersAre, WriteDoes DEF Ours
<1> QED
  BY ONLY <1>1, <1>2, OwnAre, OwnDoes, RegistersAre, ModifyDoes, Conf3Does, WhenDoes, CatDoes
     DEF PpPortSetup

LEMMA AuxadcSetupDoes == \A set, X : Does(AuxadcSetup, set, X)
<1> SUFFICES ASSUME NEW set, NEW X PROVE Does(AuxadcSetup, set, X)
  OBVIOUS
<1> DEFINE vals == [measurement_time_interval |-> "rate", temp_sense_periodic_enable |-> "set"]
           rates == To("rate", AuxadcClockDivider.fields)
<1>1. /\ DOMAIN vals = Ours(set, "TempSense2")
      /\ \A f \in DOMAIN vals : vals[f] \in {"set", "rate", "power"}
      /\ DOMAIN rates = Ours(set, "AuxadcClockDivider")
      /\ \A f \in DOMAIN rates : rates[f] \in {"set", "rate", "power"}
  <2>1. /\ DOMAIN vals = TempSense2.fields
        /\ \A f \in DOMAIN vals : vals[f] \in {"set", "rate", "power"}
    BY DEF TempSense2, Register
  <2>2. Ours(set, "TempSense2") = TempSense2.fields
    BY ONLY OwnAre, RegistersAre DEF Own, Is
  <2>3. Ours(set, "AuxadcClockDivider") = AuxadcClockDivider.fields
    BY ONLY OwnAre, RegistersAre DEF Own, Is
  <2> QED
    BY <2>1, <2>2, <2>3 DEF To
<1>2. Does(WriteReg(TempSense2, vals), set, X)
  <2> HIDE DEF vals
  <2> QED
    BY ONLY <1>1, RegistersAre, WorkedDoes
<1>3. Does(WriteReg(AuxadcClockDivider, rates), set, X)
  <2> HIDE DEF rates
  <2> QED
    BY ONLY <1>1, RegistersAre, WorkedDoes
<1> QED
  BY <1>2, <1>3, CatDoes DEF AuxadcSetup

LEMMA CpCalibDoes ==
  \A set, X : {"ParallelPortConf3", "EnsmConfig2", "EnsmConfig1", "EnsmMode"} \subseteq X =>
    Does(CpCalib(set), set, X)
<1> SUFFICES ASSUME NEW set, NEW X,
                    {"ParallelPortConf3", "EnsmConfig2", "EnsmConfig1", "EnsmMode"} \subseteq X
             PROVE  Does(CpCalib(set), set, X)
  OBVIOUS
<1> DEFINE half == [half_duplex_mode |-> "cal"]
           dual == [dual_synth_mode |-> "cal"]
           alert == [force_alert_state |-> "cal", to_alert |-> "cal"]
           fdd == [fdd_mode |-> "cal"]
<1>1. /\ \A f \in DOMAIN half : half[f] = "cal"
      /\ \A f \in DOMAIN dual : dual[f] = "cal"
      /\ \A f \in DOMAIN alert : alert[f] = "cal"
      /\ \A f \in DOMAIN fdd : fdd[f] = "cal"
  OBVIOUS
<1>2. /\ Does(ModifyReg(ParallelPortConf3, half), set, X)
      /\ Does(WriteReg(EnsmConfig2, dual), set, X)
      /\ Does(WriteReg(EnsmConfig1, alert), set, X)
      /\ Does(WriteReg(EnsmMode, fdd), set, X)
  <2> HIDE DEF half, dual, alert, fdd
  <2> QED
    BY ONLY <1>1, RegistersAre, FreeDoes,
            {"ParallelPortConf3", "EnsmConfig2", "EnsmConfig1", "EnsmMode"} \subseteq X
<1> QED
  BY ONLY <1>2, WhenDoes, CatDoes, Zenon DEF CpCalib

LEMMA ApplyClockChainDoes ==
  \A rate \in Rates \cup {"mixed"} : \A set, X : Does(ApplyClockChain(rate), set, X)
<1> SUFFICES ASSUME NEW rate \in Rates \cup {"mixed"}, NEW set, NEW X
             PROVE  Does(ApplyClockChain(rate), set, X)
  OBVIOUS
<1>1. /\ {"bbpll_divider"} \subseteq BbPll.fields
      /\ {"dac_clk_div2"} \subseteq BbPll.fields
      /\ {"dec3_enable_decimation"} \subseteq RxEnableFilterControl.fields
      /\ {"thb3_enable_interp"} \subseteq TxEnableFilterControl.fields
      /\ {"rhb2_en"} \subseteq RxEnableFilterControl.fields
      /\ {"thb2_en"} \subseteq TxEnableFilterControl.fields
      /\ {"rhb1_en"} \subseteq RxEnableFilterControl.fields
      /\ {"thb1_en"} \subseteq TxEnableFilterControl.fields
      /\ {"rx_fir_enable_decimation"} \subseteq RxEnableFilterControl.fields
      /\ {"tx_fir_enable_interpolation"} \subseteq TxEnableFilterControl.fields
  BY DEF BbPll, RxEnableFilterControl, TxEnableFilterControl, Register
<1>2. Does(NewRate("mixed"), set, X) /\ Does(NewRate(rate), set, X)
  BY NewDoes
<1> QED
  BY ONLY <1>1, <1>2, OwnAre, OwnDoes, CatDoes DEF ApplyClockChain

LEMMA WriteGainTableDoes == \A set, X : Does(WriteGainTable, set, X)
<1> SUFFICES ASSUME NEW set, NEW X PROVE Does(WriteGainTable, set, X)
  OBVIOUS
<1>1. /\ {"agc_use_full_gain_table"} \subseteq AgcConfig2.fields
      /\ {"rx1_manual_full_table_lmt_table_gain_index"} \subseteq Rx1ManualLmtFullGain.fields
  BY DEF AgcConfig2, Rx1ManualLmtFullGain, Register
<1>2. /\ Does(WriteReg(GainTableConfig, To("cal", GainTableConfig.fields)), set, X)
      /\ Does(WriteReg(GainTableConfig, << >>), set, X)
  BY RegistersAre, NobodysDoes DEF Ours, To
<1> QED
  BY ONLY <1>1, <1>2, OwnAre, OwnDoes, CatDoes DEF WriteGainTable

LEMMA GcModesDoes == \A set, X : Does(GcModes(set), set, X)
<1> SUFFICES ASSUME NEW set, NEW X PROVE Does(GcModes(set), set, X)
  OBVIOUS
<1> DEFINE vals == [f \in AgcConfig1.fields |-> 
                     CASE f = "rx1_gain_ctrl_setup"     -> set.modes[1]
                       [] f = "rx2_gain_ctrl_setup"     -> set.modes[2]
                       [] f = "slow_attack_hybrid_mode" ->
                            HybridBit({set.modes[1], set.modes[2]})
                       [] OTHER                         -> "set"]
           a == [op |-> "write", reg |-> AgcConfig1.name, vals |-> vals]
<1>1. /\ a.op = "write" /\ a.reg = "AgcConfig1" /\ a.vals = vals
      /\ AgcConfig1.fields = FieldsOf["AgcConfig1"] /\ "AgcConfig1" \in Names
  BY RegistersAre, FieldsAre DEF Is
<1>2. WriteReg(AgcConfig1, vals) = <<a>>
  BY DEF WriteReg, Access
<1> HIDE DEF a
<1>h. HybridBit({set.modes[1], set.modes[2]}) \in {"set", "zero"}
  BY DEF HybridBit
<1>3. Orderly(a, set, X)
  BY <1>1, <1>h DEF Orderly, Within, Tidy, Ours, GoodOf
<1>4. Does(WriteReg(AgcConfig1, vals), set, X)
  BY <1>2, <1>3, OneDoes
<1>5. {"man_gain_ctrl_rx1", "man_gain_ctrl_rx2", "dig_gain_en"} \subseteq AgcConfig2.fields
  BY DEF AgcConfig2, Register
<1> QED
  BY ONLY <1>4, <1>5, OwnAre, OwnDoes, NewDoes, CatDoes, Zenon DEF GcModes

LEMMA GcStepsDoes == \A set, X : "PeakWaitTime" \in X => Does(GcSteps(set), set, X)
<1> SUFFICES ASSUME NEW set, NEW X, "PeakWaitTime" \in X PROVE Does(GcSteps(set), set, X)
  OBVIOUS
<1>1. /\ {"small_lmt_overload_thresh"} \subseteq Ours(set, "SmallLmtOverloadThresh")
      /\ Ours(set, "PeakWaitTime") = PeakWaitTime.fields
      /\ {"manual_ctrl_in_decr_gain_stp_size"} \subseteq PeakWaitTime.fields
  <2>1. Ours(set, "PeakWaitTime") = PeakWaitTime.fields
    BY ONLY OwnAre, RegistersAre DEF Own, Is
  <2> QED
    BY <2>1 DEF Ours, PeakWaitTime, Register
<1>2. Does(Write(PeakWaitTime, {"manual_ctrl_in_decr_gain_stp_size"}), set, X)
  BY <1>1, RegistersAre, FreeDoes DEF Write, To
<1> QED
  BY ONLY <1>1, <1>2, OwnAre, OwnDoes, RegistersAre, ModifyDoes, WhenDoes, CatDoes DEF GcSteps

LEMMA GcThresholdsDoes == \A set, X : "DigitalSatCounter" \in X => Does(GcThresholds, set, X)
<1> SUFFICES ASSUME NEW set, NEW X, "DigitalSatCounter" \in X PROVE Does(GcThresholds, set, X)
  OBVIOUS
<1> DEFINE fs == {"dig_saturation_exed_counter", "enable_sync_for_gain_counter"}
<1>1. /\ {"agc_lock_level_fast_agc_inner_high_thresh_slow"} \subseteq AgcLockLevel.fields
      /\ {"dec_stp_size_for_large_lmt_overload"} \subseteq GainStpConfig1.fields
      /\ fs \subseteq DigitalSatCounter.fields
  BY DEF AgcLockLevel, GainStpConfig1, DigitalSatCounter, Register
<1>2. Ours(set, "DigitalSatCounter") = DigitalSatCounter.fields
  BY ONLY OwnAre, RegistersAre DEF Own, Is
<1>3. Does(Write(DigitalSatCounter, fs), set, X)
  BY <1>1, <1>2, RegistersAre, FreeDoes DEF Write, To
<1> QED
  BY ONLY <1>1, <1>3, OwnAre, OwnDoes, CatDoes DEF GcThresholds

LEMMA RateFields ==
  \A set :
    /\ {"agc_attack_delay"} \subseteq Ours(set, "AgcAttackDelay")
    /\ {"peak_overload_wait_time"} \subseteq Ours(set, "PeakWaitTime")
    /\ {"settling_delay"} \subseteq Ours(set, "FastConfig2SettlingDelay")
    /\ {"dec_power_measurement_duration"} \subseteq Ours(set, "DecPowerMeasureDuration0")
    /\ {"double_gain_counter"} \subseteq Ours(set, "DigitalSatCounter")
    /\ {"energy_detect_count"} \subseteq Ours(set, "FastEnergyDetectCount")
<1> SUFFICES ASSUME NEW set
             PROVE  /\ "agc_attack_delay" \in Ours(set, "AgcAttackDelay")
                    /\ "peak_overload_wait_time" \in Ours(set, "PeakWaitTime")
                    /\ "settling_delay" \in Ours(set, "FastConfig2SettlingDelay")
                    /\ "dec_power_measurement_duration" \in Ours(set, "DecPowerMeasureDuration0")
                    /\ "double_gain_counter" \in Ours(set, "DigitalSatCounter")
                    /\ "energy_detect_count" \in Ours(set, "FastEnergyDetectCount")
  OBVIOUS
<1>1. /\ Ours(set, "AgcAttackDelay") = AgcAttackDelay.fields
      /\ Ours(set, "PeakWaitTime") = PeakWaitTime.fields
      /\ Ours(set, "FastConfig2SettlingDelay") = FastConfig2SettlingDelay.fields
      /\ Ours(set, "DecPowerMeasureDuration0") = DecPowerMeasureDuration0.fields
      /\ Ours(set, "DigitalSatCounter") = DigitalSatCounter.fields
      /\ Ours(set, "FastEnergyDetectCount") = FastEnergyDetectCount.fields
  BY ONLY OwnAre, RegistersAre DEF Own, Is
<1> QED
  BY <1>1 DEF AgcAttackDelay, PeakWaitTime, FastConfig2SettlingDelay,
       DecPowerMeasureDuration0, DigitalSatCounter, FastEnergyDetectCount, Register

LEMMA GcUpdateDoes == \A set, X : Does(GcUpdate, set, X)
<1> SUFFICES ASSUME NEW set, NEW X PROVE Does(GcUpdate, set, X)
  OBVIOUS
<1> DEFINE Good(vals, n) == /\ DOMAIN vals \subseteq Ours(set, n)
                            /\ \A f \in DOMAIN vals : vals[f] \in {"set", "rate", "power"}
           delay == [agc_attack_delay |-> "rate"]
           peak == [peak_overload_wait_time |-> "rate"]
           settling == [settling_delay |-> "rate"]
           power == [dec_power_measurement_duration |-> "power"]
           gain == [double_gain_counter |-> "rate"]
           energy == [energy_detect_count |-> "rate"]
<1>1. /\ Good(delay, "AgcAttackDelay")
      /\ Good(peak, "PeakWaitTime")
      /\ Good(settling, "FastConfig2SettlingDelay")
      /\ Good(power, "DecPowerMeasureDuration0")
      /\ Good(gain, "DigitalSatCounter")
      /\ Good(energy, "FastEnergyDetectCount")
  BY RateFields
<1>2. /\ Does(ModifyReg(AgcAttackDelay, delay), set, X)
      /\ Does(ModifyReg(PeakWaitTime, peak), set, X)
      /\ Does(ModifyReg(FastConfig2SettlingDelay, settling), set, X)
      /\ Does(ModifyReg(DecPowerMeasureDuration0, power), set, X)
      /\ Does(ModifyReg(DigitalSatCounter, gain), set, X)
      /\ Does(ModifyReg(FastEnergyDetectCount, energy), set, X)
  <2> HIDE DEF delay, peak, settling, power, gain, energy
  <2>1. \A r, n, vals :
          Is(r, n) /\ n \notin {"AgcConfig1", "RxEnableFilterControl"} /\ Good(vals, n) =>
            Does(ModifyReg(r, vals), set, X)
    BY ONLY WorkedDoes, Zenon
  <2> HIDE DEF Good
  <2> QED
    BY ONLY <1>1, <2>1, RegistersAre
<1> QED
  BY ONLY <1>2, CatDoes, Zenon DEF GcUpdate

LEMMA FilterTuningDoes ==
  \A set, X : {"Rx1TuneControl", "Rx2TuneControl", "TxTuneControl"} \subseteq X =>
    Does(FilterTuning, set, X)
<1> SUFFICES ASSUME NEW set, NEW X,
                    {"Rx1TuneControl", "Rx2TuneControl", "TxTuneControl"} \subseteq X
             PROVE  Does(FilterTuning, set, X)
  OBVIOUS
<1>1. /\ {"rx_bbf_tune_divide"} \subseteq RxBbfTuneConfig.fields
      /\ {"tx_bbf_tune_divider"} \subseteq TxBbfTuneMode.fields
      /\ {"rx1_tune_resample", "rx1_pd_tune"} = Ours(set, "Rx1TuneControl")
      /\ {"rx2_tune_resample", "rx2_pd_tune"} = Ours(set, "Rx2TuneControl")
      /\ {"tuner_resample", "tune_ctrl", "pd_tune"} = Ours(set, "TxTuneControl")
  BY DEF RxBbfTuneConfig, TxBbfTuneMode, Register, Ours
<1>2. /\ Does(WriteReg(Rx1TuneControl, [rx1_tune_resample |-> "cal"]), set, X)
      /\ Does(WriteReg(Rx2TuneControl, [rx2_tune_resample |-> "cal"]), set, X)
      /\ Does(WriteReg(TxTuneControl, [tuner_resample |-> "cal", tune_ctrl |-> "cal"]), set, X)
  BY RegistersAre, FreeDoes
<1> QED
  BY ONLY <1>1, <1>2, OwnAre, OwnDoes, RegistersAre, WriteDoes, CatDoes DEF FilterTuning

LEMMA RfDcOffsetCalibDoes ==
  \A set, X : "DcOffsetConfig2" \in X => Does(RfDcOffsetCalib, set, X)
<1> SUFFICES ASSUME NEW set, NEW X, "DcOffsetConfig2" \in X PROVE Does(RfDcOffsetCalib, set, X)
  OBVIOUS
<1>1. /\ {"rf_dc_calibration_count", "dac_fs"} = RfDcOffsetConfig1.fields
      /\ {"invert_rx1_rf_dc_cgout_word", "invert_rx2_rf_dc_cgout_word"} = Ours(set, "InvertBits")
  BY DEF RfDcOffsetConfig1, Register, Ours
<1>2. Does(WriteReg(DcOffsetConfig2, [use_wait_counter_for_rf_dc_init_cal |-> "cal",
                                      dc_offset_update |-> "cal"]), set, X)
  BY RegistersAre, FreeDoes
<1> QED
  BY ONLY <1>1, <1>2, OwnAre, OwnDoes, RegistersAre, WriteDoes, CatDoes DEF RfDcOffsetCalib

LEMMA TxQuadCalibDoes ==
  \A set, X : {"ParallelPortConf2", "InvertBits", "QuadCalControl"} \subseteq X =>
    Does(TxQuadCalib(set), set, X)
<1> SUFFICES ASSUME NEW set, NEW X,
                    {"ParallelPortConf2", "InvertBits", "QuadCalControl"} \subseteq X
             PROVE  Does(TxQuadCalib(set), set, X)
  OBVIOUS
<1>1. /\ {"tx_nco_freq"} \subseteq Kexp2.fields
      /\ {"kexp_tx", "kexp_tx_comp", "kexp_dc_i", "kexp_dc_q"} = Kexp1.fields
      /\ {"invert_rx2"} \subseteq ParallelPortConf2.fields
      /\ {"settle_main_enable", "dc_offset_enable", "gain_enable", "phase_enable", "m_decim"}
           = Ours(set, "QuadCalControl")
  BY DEF Kexp1, Kexp2, ParallelPortConf2, Register, Ours
<1>2. /\ Does(ModifyReg(ParallelPortConf2, [invert_rx2 |-> "cal"]), set, X)
      /\ Does(WriteReg(InvertBits, To("cal", {"invert_rx1_rf_dc_cgout_word",
                                              "invert_rx2_rf_dc_cgout_word"})), set, X)
      /\ Does(WriteReg(QuadCalControl, To("cal", QuadCalControl.fields)), set, X)
  <2>1. Does(ModifyReg(ParallelPortConf2, [invert_rx2 |-> "cal"]), set, X)
    BY RegistersAre, FreeDoes
  <2>2. Does(WriteReg(InvertBits, To("cal", {"invert_rx1_rf_dc_cgout_word",
                                             "invert_rx2_rf_dc_cgout_word"})), set, X)
    BY RegistersAre, FreeDoes DEF To
  <2>3. Does(WriteReg(QuadCalControl, To("cal", QuadCalControl.fields)), set, X)
    BY RegistersAre, FreeDoes DEF To
  <2> QED
    BY ONLY <2>1, <2>2, <2>3
<1>3. Does(PutBack(InvertBits, << >>), set, X)
  <2>1. \A f \in DOMAIN << >> : FALSE
    OBVIOUS
  <2> QED
    BY ONLY <2>1, RegistersAre, FreeDoes, "InvertBits" \in X
<1> QED
  BY ONLY <1>1, <1>2, <1>3, OwnAre, OwnDoes, RegistersAre, WriteDoes, SaveDoes, WhenDoes, CatDoes
     DEF TxQuadCalib

LEMMA SetEnsmModeDoes == \A set, X : "EnsmConfig2" \in X => Does(SetEnsmMode(set), set, X)
<1> SUFFICES ASSUME NEW set, NEW X, "EnsmConfig2" \in X PROVE Does(SetEnsmMode(set), set, X)
  OBVIOUS
<1> DEFINE vals == [f \in {"dual_synth_mode", "fdd_external_ctrl_enable",
                           "synth_enable_pin_ctrl_mode", "txnrx_spi_ctrl"} |->
                      IF \/ f = "dual_synth_mode" /\ (set.fdd \/ set.dual_synth)
                         \/ f = "fdd_external_ctrl_enable" /\ set.fdd
                         \/ f = "synth_enable_pin_ctrl_mode" /\ ~set.fdd /\ ~set.dual_synth
                      THEN "set" ELSE "zero"]
<1>1. \A f \in DOMAIN vals :
        vals[f] \in {"cal", "zero", "saved"} \/ f \in Ours(set, "EnsmConfig2")
  BY DEF Ours
<1>2. Does(PutBack(EnsmConfig2, vals), set, X)
  <2> HIDE DEF vals
  <2> QED
    BY ONLY <1>1, RegistersAre, FreeDoes, "EnsmConfig2" \in X
<1> QED
  BY ONLY <1>2, OwnAre, OwnDoes, SaveDoes, CatDoes DEF SetEnsmMode

LEMMA ForcePulseDoes == \A set, X : "EnsmConfig1" \in X => Does(ForcePulse, set, X)
<1> SUFFICES ASSUME NEW set, NEW X, "EnsmConfig1" \in X PROVE Does(ForcePulse, set, X)
  OBVIOUS
<1> QED
  BY RegistersAre, FreeDoes DEF ForcePulse

LEMMA ForceAlertDoes == \A set, X : "EnsmConfig1" \in X => Does(ForceAlert(set), set, X)
<1> SUFFICES ASSUME NEW set, NEW X, "EnsmConfig1" \in X PROVE Does(ForceAlert(set), set, X)
  OBVIOUS
<1> DEFINE vals == To("cal", {"force_tx_on", "force_rx_on", "to_alert", "force_alert_state"}
                            \cup IF set.ensm_pin_ctrl THEN {"enable_ensm_pin_ctrl"} ELSE {})
<1>1. \A f \in DOMAIN vals : vals[f] \in {"cal", "zero", "saved"}
  BY DEF To
<1>2. Does(PutBack(EnsmConfig1, vals), set, X)
  <2> HIDE DEF vals
  <2> QED
    BY ONLY <1>1, RegistersAre, FreeDoes, "EnsmConfig1" \in X
<1> QED
  BY ONLY <1>2, ForcePulseDoes, SaveDoes, CatDoes, "EnsmConfig1" \in X DEF ForceAlert

LEMMA RestoreAlertDoes == \A set, X : "EnsmConfig1" \in X => Does(RestoreAlert, set, X)
<1> SUFFICES ASSUME NEW set, NEW X, "EnsmConfig1" \in X PROVE Does(RestoreAlert, set, X)
  OBVIOUS
<1> DEFINE vals == [f \in Unforced \cup {"to_alert"} |->
                      IF f = "to_alert" THEN "set" ELSE "zero"]
<1>1. \A f \in DOMAIN vals :
        vals[f] \in {"cal", "zero", "saved"} \/ f \in Ours(set, "EnsmConfig1")
  BY DEF Ours, Unforced
<1>2. Does(PutBack(EnsmConfig1, vals), set, X)
  <2> HIDE DEF vals
  <2> QED
    BY ONLY <1>1, RegistersAre, FreeDoes, "EnsmConfig1" \in X
<1> QED
  BY ONLY <1>2, ForcePulseDoes, SaveDoes, CatDoes, "EnsmConfig1" \in X DEF RestoreAlert

LEMMA RestoreRunningDoes == \A set, X : "EnsmConfig1" \in X => Does(RestoreRunning(set), set, X)
<1> SUFFICES ASSUME NEW set, NEW X, "EnsmConfig1" \in X PROVE Does(RestoreRunning(set), set, X)
  OBVIOUS
<1> DEFINE config == [f \in Unforced \cup {"to_alert"} |->
                        IF f \in {On(set), "to_alert"} THEN "set" ELSE "zero"]
           pins == [f \in DOMAIN config \cup {"enable_ensm_pin_ctrl"} |->
                      IF f = "enable_ensm_pin_ctrl" THEN "set" ELSE config[f]]
<1>1. \A f \in DOMAIN config :
        config[f] \in {"cal", "zero", "saved"} \/ f \in Ours(set, "EnsmConfig1")
  BY DEF Ours
<1>2. \A f \in DOMAIN pins :
        pins[f] \in {"cal", "zero", "saved"} \/ f \in Ours(set, "EnsmConfig1")
  <2>1. "enable_ensm_pin_ctrl" \in Ours(set, "EnsmConfig1")
    BY DEF Ours
  <2> HIDE DEF config
  <2> QED
    BY ONLY <1>1, <2>1
<1>3. Does(PutBack(EnsmConfig1, config), set, X) /\ Does(PutBack(EnsmConfig1, pins), set, X)
  <2> HIDE DEF config, pins
  <2> QED
    BY ONLY <1>1, <1>2, RegistersAre, FreeDoes, "EnsmConfig1" \in X
<1>4. RestoreRunning(set) =
        Save(EnsmConfig1) \o ForcePulse
        \o (PutBack(EnsmConfig1, config)
            \o When(PinsRemembered(set), PutBack(EnsmConfig1, pins)))
  BY Zenon DEF RestoreRunning
<1> HIDE DEF config, pins
<1> QED
  BY ONLY <1>3, <1>4, ForcePulseDoes, SaveDoes, WhenDoes, CatDoes, "EnsmConfig1" \in X

LEMMA EnsmSetRunningDoes ==
  \A set, X : {"SmallLmtOverloadThresh", "EnsmConfig2"} \subseteq X =>
    Does(EnsmSetRunning(set), set, X)
<1> SUFFICES ASSUME NEW set, NEW X, "SmallLmtOverloadThresh" \in X, "EnsmConfig2" \in X
             PROVE  Does(EnsmSetRunning(set), set, X)
  OBVIOUS
<1> DEFINE cal == To("cal", PdResets)
           zero == To("zero", PdResets)
<1>1. /\ \A f \in DOMAIN cal : cal[f] \in {"cal", "zero", "saved"}
      /\ \A f \in DOMAIN zero : zero[f] \in {"cal", "zero", "saved"}
  BY DEF To
<1>2. /\ Does(PutBack(SmallLmtOverloadThresh, cal), set, X)
      /\ Does(PutBack(SmallLmtOverloadThresh, zero), set, X)
  <2> HIDE DEF cal, zero
  <2> QED
    BY ONLY <1>1, RegistersAre, FreeDoes, "SmallLmtOverloadThresh" \in X
<1>3. {"level_mode", "enable_ensm_pin_ctrl", "enable_rx_data_port_for_cal", "to_alert", On(set)}
        = Ours(set, "EnsmConfig1")
  BY DEF Ours
<1>4. Does(ModifyReg(EnsmConfig2, [txnrx_spi_ctrl |-> "zero"]), set, X)
  <2> DEFINE vals == [txnrx_spi_ctrl |-> "zero"]
  <2>1. \A f \in DOMAIN vals : vals[f] \in {"cal", "zero", "saved"}
    OBVIOUS
  <2>2. ModifyReg(EnsmConfig2, [txnrx_spi_ctrl |-> "zero"]) = ModifyReg(EnsmConfig2, vals)
    OBVIOUS
  <2> HIDE DEF vals
  <2> QED
    BY ONLY <2>1, <2>2, RegistersAre, FreeDoes, "EnsmConfig2" \in X
<1> QED
  BY ONLY <1>2, <1>3, <1>4, RegistersAre, WriteDoes, SaveDoes, WhenDoes, CatDoes
     DEF EnsmSetRunning

LEMMA SetTxAttenDoes == \A set, X : "Tx2DigAtten" \in X => Does(SetTxAtten, set, X)
<1> SUFFICES ASSUME NEW set, NEW X, "Tx2DigAtten" \in X PROVE Does(SetTxAtten, set, X)
  OBVIOUS
<1> DEFINE vals == [immediately_update_tpc_atten |-> "cal"]
<1>1. \A f \in DOMAIN vals : vals[f] \in {"cal", "zero", "saved"}
  OBVIOUS
<1>2. Does(ModifyReg(Tx2DigAtten, vals), set, X)
  <2> HIDE DEF vals
  <2> QED
    BY ONLY <1>1, RegistersAre, FreeDoes, "Tx2DigAtten" \in X
<1>3. {"immediately_update_tpc_atten"} \subseteq Tx2DigAtten.fields
  BY DEF Tx2DigAtten, Register
<1> QED
  BY ONLY <1>2, <1>3, OwnAre, OwnDoes, CatDoes DEF SetTxAtten

LEMMA RssiSetupDoes ==
  \A set, X : Does(RssiSetup(set), set, X) /\ Does(RssiUpdate(set), set, X)
<1> SUFFICES ASSUME NEW set, NEW X
             PROVE  Does(RssiSetup(set), set, X) /\ Does(RssiUpdate(set), set, X)
  OBVIOUS
<1> DEFINE timing == IF set.in_samples THEN "set" ELSE "rate"
           first == To(timing, MeasureDuration01.fields)
           others == To(timing, MeasureDuration23.fields)
           config == [rssi_mode_select |-> "set", start_rssi_meas |-> "set",
                      default_rssi_meas_mode |-> timing]
<1>1. timing \in {"set", "rate", "power"}
  OBVIOUS
<1>2. /\ Ours(set, "MeasureDuration01") = MeasureDuration01.fields
      /\ Ours(set, "MeasureDuration23") = MeasureDuration23.fields
  BY ONLY OwnAre, RegistersAre DEF Own, Is
<1>3. RssiSetup(set) = WriteReg(MeasureDuration01, first) \o WriteReg(MeasureDuration23, others)
                       \o WriteReg(RssiConfig, config)
  BY Zenon DEF RssiSetup
<1> HIDE DEF timing
<1>4. /\ DOMAIN first = Ours(set, "MeasureDuration01")
      /\ \A f \in DOMAIN first : first[f] \in {"set", "rate", "power"}
      /\ DOMAIN others = Ours(set, "MeasureDuration23")
      /\ \A f \in DOMAIN others : others[f] \in {"set", "rate", "power"}
  BY <1>1, <1>2 DEF To
<1>5. /\ DOMAIN config = Ours(set, "RssiConfig")
      /\ \A f \in DOMAIN config : config[f] \in {"set", "rate", "power"}
  BY <1>1 DEF Ours
<1> HIDE DEF first, others, config
<1>6. Does(RssiSetup(set), set, X)
  BY ONLY <1>3, <1>4, <1>5, RegistersAre, WorkedDoes, CatDoes
<1> QED
  BY ONLY <1>6, WhenDoes DEF RssiUpdate

LEMMA RssiGainStepCalibDoes ==
  \A set, X : {"RssiConfig", "MeasureDuration01", "EnsmConfig1"} \subseteq X =>
    Does(RssiGainStepCalib, set, X)
<1> SUFFICES ASSUME NEW set, NEW X,
                    {"RssiConfig", "MeasureDuration01", "EnsmConfig1"} \subseteq X
             PROVE  Does(RssiGainStepCalib, set, X)
  OBVIOUS
<1>1. /\ Does(WriteReg(RssiConfig, [rssi_mode_select |-> "cal",
                                    default_rssi_meas_mode |-> "cal"]), set, X)
      /\ Does(WriteReg(MeasureDuration01, [measurement_duration_0 |-> "cal"]), set, X)
  BY RegistersAre, FreeDoes
<1> QED
  BY <1>1, RestoreAlertDoes, CatDoes, Zenon DEF RssiGainStepCalib

LEMMA BbClkUpdateDoes == \A set, X : Does(BbClkUpdate(set), set, X)
  BY GcUpdateDoes, RssiSetupDoes, AuxadcSetupDoes, CatDoes, Zenon DEF BbClkUpdate

LEMMA SetTrxClockChainDoes ==
  \A rate \in Rates \cup {"mixed"} : \A set, X : Does(SetTrxClockChain(set, rate), set, X)
  BY ApplyClockChainDoes, BbClkUpdateDoes, CatDoes, Zenon DEF SetTrxClockChain

(* The tuning. *)
LEMMA PrefixDoes ==
  \A q, set, X : \A n \in Nat : Does(q, set, X) => Does(Prefix(q, n), set, X)
<1> SUFFICES ASSUME NEW q, NEW set, NEW X, NEW n \in Nat, Does(q, set, X)
             PROVE  Does(Prefix(q, n), set, X)
  OBVIOUS
<1> DEFINE m == IF n < Len(q) THEN n ELSE Len(q)
           b == SubSeq(q, 1, m)
<1>1. PICK S : q \in Seq(S)
  BY DEF Does, IsScript
<1>2. /\ Len(q) \in Nat /\ \A i \in 1..Len(q) : q[i] \in S /\ Orderly(q[i], set, X)
  BY <1>1, LenProperties, ElementOfSeq DEF Does
<1>3. m \in Nat /\ m <= Len(q)
  BY ONLY <1>2, n \in Nat, SMT
<1> HIDE DEF m
<1>4. \A i \in 1..m : i \in 1..Len(q)
  BY ONLY <1>2, <1>3, SMT
<1>5. /\ b \in Seq(S)
      /\ Len(b) = IF 1 <= m THEN m - 1 + 1 ELSE 0
      /\ \A i \in 1..(m - 1 + 1) : b[i] = q[1 + i - 1]
  <2>1. \A i \in 1..m : q[i] \in S
    BY ONLY <1>2, <1>4
  <2>2. m \in Int /\ 1 \in Int
    BY ONLY <1>3, SMT
  <2> QED
    BY <2>1, <2>2, SubSeqProperties
<1> HIDE DEF b
<1>6. Len(b) = m /\ \A i \in 1..m : b[i] = q[i]
  <2>1. m - 1 + 1 = m /\ \A i \in 1..m : 1 + i - 1 = i
    BY ONLY <1>3, SMT
  <2>2. Len(b) = m
    BY ONLY <1>3, <1>5, SMT
  <2> QED
    BY ONLY <1>5, <2>1, <2>2, Zenon
<1>7. Does(b, set, X)
  BY ONLY <1>2, <1>4, <1>5, <1>6, Zenon DEF Does, IsScript
<1> QED
  BY <1>7 DEF b, m, Prefix

LEMMA ForceFddDoes == \A set, X : "EnsmConfig1" \in X => Does(ForceFdd, set, X)
<1> SUFFICES ASSUME NEW set, NEW X, "EnsmConfig1" \in X PROVE Does(ForceFdd, set, X)
  OBVIOUS
<1> DEFINE vals == To("cal", {"force_tx_on", "to_alert"})
<1>1. \A f \in DOMAIN vals : vals[f] \in {"cal", "zero", "saved"}
  BY DEF To
<1>2. Does(PutBack(EnsmConfig1, vals), set, X)
  <2> HIDE DEF vals
  <2> QED
    BY ONLY <1>1, RegistersAre, FreeDoes, "EnsmConfig1" \in X
<1> QED
  BY ONLY <1>2, ForcePulseDoes, SaveDoes, CatDoes, "EnsmConfig1" \in X DEF ForceFdd

LEMMA SetIntfDelayDoes ==
  \A set, X, r, v : Own(r) /\ r.name \in X /\ "EnsmConfig1" \in X =>
    Does(SetIntfDelay(set, r, v), set, X)
<1> SUFFICES ASSUME NEW set, NEW X, NEW r, NEW v, Own(r), r.name \in X, "EnsmConfig1" \in X
             PROVE  Does(SetIntfDelay(set, r, v), set, X)
  OBVIOUS
<1> DEFINE vals == To(v, r.fields)
<1>1. Is(r, r.name) /\ \A f \in DOMAIN vals : f \in Ours(set, r.name)
  BY DEF Own, Is, To
<1> HIDE DEF vals
<1>2. Does(WriteReg(r, vals), set, X)
  BY ONLY <1>1, r.name \in X, FreeDoes
<1> QED
  BY ONLY <1>2, ForceAlertDoes, ForceFddDoes, CatDoes, "EnsmConfig1" \in X, Zenon
     DEF SetIntfDelay, vals

LEMMA ClockChangeDoes == \A set, X : \A n \in Nat : Does(Prefix(ClockChange(set), n), set, X)
  BY SetTrxClockChainDoes, PrefixDoes, Zenon DEF ClockChange

LEMMA DigTuneDelayDoes ==
  \A set, X, r : \A n \in Nat : Own(r) /\ r.name \in X /\ "EnsmConfig1" \in X =>
    Does(DigTuneDelay(set, r, n), set, X)
  BY ClockChangeDoes, SetIntfDelayDoes, CatDoes, Zenon DEF DigTuneDelay

LEMMA TuneEnsmModeDoes ==
  \A set, X : {"EnsmMode", "EnsmConfig2"} \subseteq X => Does(TuneEnsmMode, set, X)
<1> SUFFICES ASSUME NEW set, NEW X, "EnsmMode" \in X, "EnsmConfig2" \in X
             PROVE  Does(TuneEnsmMode, set, X)
  OBVIOUS
<1> DEFINE mode == [fdd_mode |-> "cal"]
           vals == [f \in {"dual_synth_mode", "fdd_external_ctrl_enable",
                           "synth_enable_pin_ctrl_mode", "txnrx_spi_ctrl"} |->
                      IF f = "dual_synth_mode" THEN "cal" ELSE "zero"]
<1>1. /\ \A f \in DOMAIN mode : mode[f] \in {"cal", "zero", "saved"}
      /\ \A f \in DOMAIN vals : vals[f] \in {"cal", "zero", "saved"}
  OBVIOUS
<1>2. TuneEnsmMode = WriteReg(EnsmMode, mode) \o Save(EnsmConfig2) \o PutBack(EnsmConfig2, vals)
  BY Zenon DEF TuneEnsmMode
<1> HIDE DEF mode, vals
<1>3. Does(WriteReg(EnsmMode, mode), set, X) /\ Does(PutBack(EnsmConfig2, vals), set, X)
  BY ONLY <1>1, RegistersAre, FreeDoes, "EnsmMode" \in X, "EnsmConfig2" \in X
<1> QED
  BY ONLY <1>2, <1>3, SaveDoes, CatDoes, Zenon

LEMMA LoopBackDoes ==
  \A set, X : /\ "TxEnableFilterControl" \in X => Does(LoopBack, set, X)
              /\ Does(NoLoopBack(set), set, X)
<1> SUFFICES ASSUME NEW set, NEW X
             PROVE  /\ "TxEnableFilterControl" \in X => Does(LoopBack, set, X)
                    /\ Does(NoLoopBack(set), set, X)
  OBVIOUS
<1>1. "TxEnableFilterControl" \in X => Does(LoopBack, set, X)
  <2> DEFINE vals == [tx_channel_enable |-> "cal"]
  <2>1. \A f \in DOMAIN vals : vals[f] \in {"cal", "zero", "saved"}
    OBVIOUS
  <2>2. LoopBack = ModifyReg(TxEnableFilterControl, vals)
    BY DEF LoopBack
  <2> HIDE DEF vals
  <2> QED
    BY ONLY <2>1, <2>2, RegistersAre, FreeDoes
<1>2. Does(NoLoopBack(set), set, X)
  BY ONLY SetTxChannelsDoes, WhenDoes, Zenon DEF NoLoopBack
<1> QED
  BY <1>1, <1>2

CutOffs == [rx : Cuts, tx : Cuts]

LEMMA CutsAre == \A cut \in CutOffs : cut.rx \in Nat /\ cut.tx \in Nat
  BY CutsAssumption DEF CutOffs

Tuned == {"EnsmConfig1", "EnsmConfig2", "EnsmMode", "RxClockDataDelay", "TxClockDataDelay",
          "TxEnableFilterControl", "Tx2DigAtten"}

LEMMA DelaysAre ==
  /\ Own(RxClockDataDelay) /\ RxClockDataDelay.name = "RxClockDataDelay"
  /\ Own(TxClockDataDelay) /\ TxClockDataDelay.name = "TxClockDataDelay"
  BY ONLY OwnAre, RegistersAre DEF Is

LEMMA DigTuneDoes ==
  ASSUME NEW set, NEW cut \in CutOffs
  PROVE  /\ Does(UseConfigured(set), set, Tuned) /\ Does(Sweeps(set, cut), set, Tuned)
         /\ Does(DigTune(set, cut), set, Tuned)
         /\ Does(DigTuneDelay(set, RxClockDataDelay, cut.rx), set, Tuned)
         /\ Does(DigTuneDelay(set, TxClockDataDelay, cut.tx), set, Tuned)
         /\ Does(TuneEnsmMode, set, Tuned) /\ Does(LoopBack, set, Tuned)
         /\ Does(NoLoopBack(set), set, Tuned) /\ Does(SetTxAtten, set, Tuned)
         /\ Does(SetEnsmMode(set), set, Tuned) /\ Does(RestoreRunning(set), set, Tuned)
<1> DEFINE Do(q) == Does(q, set, Tuned)
<1>1. /\ "EnsmConfig1" \in Tuned /\ "EnsmConfig2" \in Tuned /\ "EnsmMode" \in Tuned
      /\ "RxClockDataDelay" \in Tuned /\ "TxClockDataDelay" \in Tuned
      /\ "TxEnableFilterControl" \in Tuned /\ "Tx2DigAtten" \in Tuned
      /\ {"EnsmMode", "EnsmConfig2"} \subseteq Tuned
  BY DEF Tuned
<1>2. /\ Do(ForceAlert(set)) /\ Do(RestoreRunning(set)) /\ Do(SetTxAtten)
      /\ Do(SetEnsmMode(set)) /\ Do(TuneEnsmMode) /\ Do(LoopBack) /\ Do(NoLoopBack(set))
  BY ONLY <1>1, ForceAlertDoes, RestoreRunningDoes, SetTxAttenDoes, SetEnsmModeDoes,
          TuneEnsmModeDoes, LoopBackDoes, Zenon
<1>3. /\ Do(DigTuneDelay(set, RxClockDataDelay, cut.rx))
      /\ Do(DigTuneDelay(set, TxClockDataDelay, cut.tx))
  BY ONLY <1>1, CutsAre, cut \in CutOffs, DelaysAre, DigTuneDelayDoes
<1>4. Do(WriteAll(RxClockDataDelay)) /\ Do(WriteAll(TxClockDataDelay))
  BY ONLY DelaysAre, OwnDoes, Zenon
<1>5. \A a, b : Do(a) /\ Do(b) => Do(a \o b)
  BY CatDoes
<1>6. \A c, q : Do(q) => Do(When(c, q))
  BY WhenDoes
<1> HIDE DEF Do
<1>7. Do(UseConfigured(set))
  BY ONLY <1>2, <1>4, <1>5, Zenon DEF UseConfigured
<1>8. Do(Sweeps(set, cut))
  BY ONLY <1>2, <1>3, <1>5, <1>6, Zenon DEF Sweeps
<1>9. Do(IF set.tune = "no" THEN UseConfigured(set) ELSE Sweeps(set, cut))
  BY ONLY <1>7, <1>8
<1>10. Do(DigTune(set, cut))
  BY ONLY <1>2, <1>5, <1>6, <1>9, Zenon DEF DigTune
<1> QED
  BY ONLY <1>2, <1>3, <1>7, <1>8, <1>10 DEF Do

LEMMA GcSetupDoes ==
  \A set, X : {"PeakWaitTime", "DigitalSatCounter"} \subseteq X => Does(GcSetup(set), set, X)
<1> SUFFICES ASSUME NEW set, NEW X, "PeakWaitTime" \in X, "DigitalSatCounter" \in X
             PROVE  Does(GcSetup(set), set, X)
  OBVIOUS
<1> QED
  BY GcModesDoes, GcStepsDoes, GcPowerDoes, GcThresholdsDoes, GcFastSettlingDoes,
     GcFastUnlockingDoes, SetAgcPulledHighDoes, GcState5Does, GcUpdateDoes, CatDoes, Zenon
     DEF GcSetup

(***************************************************************************)
(* What becomes of the fields that are somebody's.                         *)
(***************************************************************************)
Asked(set, n, f) == [reg |-> n, field |-> f, good |-> GoodOf(set, n, f), upset |-> {}]

LEMMA AskedIs ==
  \A set, n, f : /\ Asked(set, n, f).reg = n /\ Asked(set, n, f).field = f
                 /\ Asked(set, n, f).good = GoodOf(set, n, f) /\ Asked(set, n, f).upset = {}
  BY DEF Asked

LEMMA OrderlyIs ==
  \A a, set, X, n, f :
    Orderly(a, set, X) /\ n \notin X /\ f \in Ours(set, n) =>
      Sets(a, Asked(set, n, f)) \/ Spares(a, Asked(set, n, f))
<1> SUFFICES ASSUME NEW a, NEW set, NEW X, NEW n, NEW f,
                    Orderly(a, set, X), n \notin X, f \in Ours(set, n)
             PROVE  Sets(a, Asked(set, n, f)) \/ Spares(a, Asked(set, n, f))
  OBVIOUS
<1> DEFINE k == Asked(set, n, f)
<1>1. k.reg = n /\ k.field = f /\ k.good = GoodOf(set, n, f) /\ k.upset = {}
  BY AskedIs
<1> HIDE DEF k
<1>2. Sets(a, k) \/ Spares(a, k)
  BY <1>1 DEF Orderly, Tidy, Sets, Changes, Spares
<1> QED
  BY <1>2 DEF k

LEMMA DoesSteady ==
  \A q, set, X, n, f :
    Does(q, set, X) /\ n \notin X /\ f \in Ours(set, n) => Steady(q, Asked(set, n, f))
<1> SUFFICES ASSUME NEW q, NEW set, NEW X, NEW n, NEW f,
                    Does(q, set, X), n \notin X, f \in Ours(set, n)
             PROVE  Steady(q, Asked(set, n, f))
  OBVIOUS
<1> DEFINE k == Asked(set, n, f)
<1>1. IsScript(q) /\ Len(q) \in Nat /\ \A i \in 1..Len(q) : Sets(q[i], k) \/ Spares(q[i], k)
  BY OrderlyIs, ScriptIs, Zenon DEF Does
<1> HIDE DEF k
<1>2. \A i \in 1..Len(q) : i - 1 \in 0..Len(q)
  BY ONLY <1>1, SMT
<1>3. Knows(q, k, {"field"}, 0..Len(q), {})
  BY ONLY <1>1, <1>2 DEF Knows
<1>4. Steady(q, k)
  BY ONLY <1>1, <1>3, "saved" \notin {"field"}, Zenon DEF Steady, Holds
<1> QED
  BY <1>4 DEF k

\* One of its accesses names the field.
LEMMA DoesMakes ==
  ASSUME NEW q, NEW set, NEW X, NEW n, NEW f, NEW i, i \in 1..Len(q),
         Does(q, set, X), n \notin X, f \in Ours(set, n),
         q[i].op \in {"write", "modify"}, q[i].reg = n, f \in DOMAIN q[i].vals
  PROVE  Makes(q, Asked(set, n, f))
<1> DEFINE k == Asked(set, n, f)
<1>1. IsScript(q) /\ Len(q) \in Nat /\ \A j \in 1..Len(q) : Sets(q[j], k) \/ Spares(q[j], k)
  BY OrderlyIs, ScriptIs, Zenon DEF Does
<1>2. k.reg = n /\ k.field = f /\ k.upset = {}
  BY AskedIs
<1> HIDE DEF k
<1>3. Sets(q[i], k)
  <2>1. ~Spares(q[i], k)
    BY <1>2 DEF Spares
  <2> QED
    BY <1>1, <2>1
<1>4. Knows(q, k, {}, i..Len(q), {})
  <2>1. /\ i..Len(q) \subseteq 0..Len(q) /\ 0 \notin i..Len(q)
        /\ \A j \in 1..Len(q) : j \in i..Len(q) => j = i \/ j - 1 \in i..Len(q)
    BY ONLY <1>1, i \in 1..Len(q), SMT
  <2>2. \A j \in 1..Len(q) : j \in i..Len(q) =>
          \/ Sets(q[j], k)
          \/ Spares(q[j], k) /\ j - 1 \in i..Len(q)
    BY ONLY <1>1, <1>3, <2>1, Zenon
  <2> QED
    BY ONLY <2>1, <2>2 DEF Knows
<1>5. Len(q) \in i..Len(q)
  BY ONLY <1>1, i \in 1..Len(q), SMT
<1>6. Makes(q, k)
  BY ONLY <1>1, <1>4, <1>5, "saved" \notin {"field"}, Zenon DEF Makes, Leads
<1> QED
  BY <1>6 DEF k

LEMMA OneSets == \A a, k : Sets(a, k) => Makes(<<a>>, k) /\ Steady(<<a>>, k)
<1> SUFFICES ASSUME NEW a, NEW k, Sets(a, k) PROVE Makes(<<a>>, k) /\ Steady(<<a>>, k)
  OBVIOUS
<1> DEFINE q == <<a>>
<1>1. IsScript(q) /\ Len(q) = 1 /\ q[1] = a
  BY OneIs
<1> HIDE DEF q
<1>2. Knows(q, k, {}, {1}, {}) /\ Knows(q, k, {"field"}, 0..1, {})
  <2>1. \A i \in 1..Len(q) : i = 1
    BY ONLY <1>1, SMT
  <2>2. {1} \subseteq 0..1 /\ 0 \notin {1}
    BY ONLY SMT
  <2> QED
    BY <1>1, <2>1, <2>2 DEF Knows
<1>3. Makes(q, k) /\ Steady(q, k)
  BY ONLY <1>1, <1>2, 1 \in {1}, "saved" \notin {"field"}, Zenon
     DEF Makes, Steady, Leads, Holds
<1> QED
  BY <1>3 DEF q

LEMMA OneSpares == \A a, k : Spares(a, k) => Steady(<<a>>, k)
<1> SUFFICES ASSUME NEW a, NEW k, Spares(a, k) PROVE Steady(<<a>>, k)
  OBVIOUS
<1> DEFINE q == <<a>>
<1>1. IsScript(q) /\ Len(q) = 1 /\ q[1] = a
  BY OneIs
<1> HIDE DEF q
<1>2. Knows(q, k, {"field"}, 0..1, {})
  <2>1. \A i \in 1..Len(q) : i = 1 /\ i - 1 \in 0..1
    BY ONLY <1>1, SMT
  <2> QED
    BY ONLY <1>1, <2>1, Spares(a, k), SMT DEF Knows
<1>3. Steady(q, k)
  BY ONLY <1>1, <1>2, "saved" \notin {"field"}, Zenon DEF Steady, Holds
<1> QED
  BY <1>3 DEF q

LEMMA NoneSpares == \A k : Steady(<< >>, k)
<1> SUFFICES ASSUME NEW k PROVE Steady(<< >>, k)
  OBVIOUS
<1> DEFINE q == << >>
<1>1. IsScript(q) /\ Len(q) = 0
  BY NoneIs
<1> HIDE DEF q
<1>2. Knows(q, k, {"field"}, 0..0, {})
  BY <1>1, SMT DEF Knows
<1>3. Steady(q, k)
  BY ONLY <1>1, <1>2, "saved" \notin {"field"}, Zenon DEF Steady, Holds
<1> QED
  BY <1>3 DEF q

LEMMA WhenSteady ==
  \A c, q, k : /\ (c => Steady(q, k)) => Steady(When(c, q), k)
               /\ (c => Safe(q, k)) => Safe(When(c, q), k)
  BY NoneSpares, SteadySafe DEF When

\* A write or a modify that sets it.
LEMMA SettingMakes ==
  \A r, n, f, vals, k :
    /\ Is(r, n) /\ k.reg = n /\ k.field = f /\ f \in DOMAIN vals /\ vals[f] \in k.good
    => /\ Makes(WriteReg(r, vals), k) /\ Makes(ModifyReg(r, vals), k)
       /\ Steady(WriteReg(r, vals), k) /\ Steady(ModifyReg(r, vals), k)
  BY OneSets DEF WriteReg, ModifyReg, Access, Sets, Changes, Is

LEMMA SetMakes ==
  \A r, n, fs, f, set :
    Is(r, n) /\ n # "AgcConfig1" /\ f \in fs =>
      Makes(Write(r, fs), Asked(set, n, f)) /\ Makes(Modify(r, fs), Asked(set, n, f))
<1> SUFFICES ASSUME NEW r, NEW n, NEW fs, NEW f, NEW set, Is(r, n), n # "AgcConfig1", f \in fs
             PROVE  /\ Makes(Write(r, fs), Asked(set, n, f))
                    /\ Makes(Modify(r, fs), Asked(set, n, f))
  OBVIOUS
<1> DEFINE vals == To("set", fs)
           k == Asked(set, n, f)
<1>1. k.reg = n /\ k.field = f /\ k.good = GoodOf(set, n, f)
  BY AskedIs
<1>2. "set" \in GoodOf(set, n, f)
  BY DEF GoodOf
<1>3. f \in DOMAIN vals /\ vals[f] = "set"
  BY DEF To
<1>4. Write(r, fs) = WriteReg(r, vals) /\ Modify(r, fs) = ModifyReg(r, vals)
  BY DEF Write, Modify
<1> HIDE DEF vals, k
<1>5. Makes(Write(r, fs), k) /\ Makes(Modify(r, fs), k)
  BY ONLY <1>1, <1>2, <1>3, <1>4, Is(r, n), SettingMakes, Zenon
<1> QED
  BY <1>5 DEF k

(***************************************************************************)
(* Single accesses, and what is saved and put back.                        *)
(***************************************************************************)
LEMMA OtherSteady ==
  \A r, n, k :
    /\ Steady(Save(r), k)
    /\ Is(r, n) /\ n # k.reg =>
         \A vals : /\ Steady(WriteReg(r, vals), k) /\ Steady(ModifyReg(r, vals), k)
                   /\ Steady(Write(r, vals), k) /\ Steady(Modify(r, vals), k)
                   /\ Steady(WriteAll(r), k) /\ Steady(PutBack(r, vals), k)
<1> SUFFICES ASSUME NEW r, NEW n, NEW k
             PROVE  /\ Steady(Save(r), k)
                    /\ Is(r, n) /\ n # k.reg =>
                         \A vals : /\ Steady(WriteReg(r, vals), k)
                                   /\ Steady(ModifyReg(r, vals), k)
                                   /\ Steady(Write(r, vals), k) /\ Steady(Modify(r, vals), k)
                                   /\ Steady(WriteAll(r), k) /\ Steady(PutBack(r, vals), k)
  OBVIOUS
<1>1. Steady(Save(r), k)
  BY OneSpares DEF Save, Access, Spares
<1>2. ASSUME Is(r, n), n # k.reg
      PROVE  \A op, v : op \in {"write", "modify"} => Steady(Access(op, r, v), k)
  BY <1>2, OneSpares DEF Access, Spares, Is
<1> QED
  BY <1>1, <1>2 DEF WriteReg, ModifyReg, Write, Modify, WriteAll, PutBack

LEMMA SparingSteady ==    \* it isn't one of the fields that are modified
  \A r, vals, k : k.field \notin DOMAIN vals => Steady(ModifyReg(r, vals), k)
  BY OneSpares DEF ModifyReg, Access, Spares

\* What is saved stays so.
Keeps(q, k) == Leads(q, k, {"saved"}, {"saved"})

LEMMA OneLeads ==
  ASSUME NEW a, NEW k
  PROVE  /\ a.op = "save" /\ a.reg = k.reg => Leads(<<a>>, k, {"field"}, {"saved"})
         /\ a.op # "save" /\ a.op \notin k.upset => Keeps(<<a>>, k)
         /\ PutsBack(a, k) /\ a.op \notin k.upset => Leads(<<a>>, k, {"saved"}, {"field"})
<1> DEFINE q == <<a>>
<1>1. IsScript(q) /\ Len(q) = 1 /\ q[1] = a
  BY OneIs
<1> HIDE DEF q
<1>2. /\ \A i \in 1..Len(q) : i = 1 /\ i - 1 = 0
      /\ 0..1 = {0, 1} /\ 1 # 0
  BY ONLY <1>1, SMT
<1>3. ASSUME a.op = "save", a.reg = k.reg PROVE Knows(q, k, {"field"}, {0}, {1})
  BY <1>1, <1>2, <1>3 DEF Knows
<1>4. ASSUME a.op # "save", a.op \notin k.upset PROVE Knows(q, k, {"saved"}, {}, {0, 1})
  BY <1>1, <1>2, <1>4 DEF Knows
<1>5. ASSUME PutsBack(a, k), a.op \notin k.upset PROVE Knows(q, k, {"saved"}, {1}, {0, 1})
  BY <1>1, <1>2, <1>5 DEF Knows, PutsBack, Changes
<1>6. 1 \in {1} /\ 1 \in {0, 1} /\ "field" \notin {"saved"} /\ "saved" \notin {"field"}
  OBVIOUS
<1>7. /\ a.op = "save" /\ a.reg = k.reg => Leads(q, k, {"field"}, {"saved"})
      /\ a.op # "save" /\ a.op \notin k.upset => Keeps(q, k)
      /\ PutsBack(a, k) /\ a.op \notin k.upset => Leads(q, k, {"saved"}, {"field"})
  BY ONLY <1>1, <1>3, <1>4, <1>5, <1>6, Zenon DEF Leads, Keeps
<1> QED
  BY <1>7 DEF q

LEMMA CatKeeps == \A a, b, k : Keeps(a, k) /\ Keeps(b, k) => Keeps(a \o b, k)
  BY CatLeads, Zenon DEF Keeps

LEMMA AccessKeeps ==
  \A r, k : k.upset \subseteq {"rate", "modes"} =>
    \A vals : /\ Keeps(WriteReg(r, vals), k) /\ Keeps(ModifyReg(r, vals), k)
              /\ Keeps(Write(r, vals), k) /\ Keeps(Modify(r, vals), k)
              /\ Keeps(WriteAll(r), k)
<1> SUFFICES ASSUME NEW r, NEW k, k.upset \subseteq {"rate", "modes"}
             PROVE  \A op, v : op \in {"write", "modify"} => Keeps(Access(op, r, v), k)
  BY DEF WriteReg, ModifyReg, Write, Modify, WriteAll
<1> QED
  BY OneLeads DEF Access

LEMMA SaveLeads == \A r, k : r.name = k.reg => Leads(Save(r), k, {"field"}, {"saved"})
  BY OneLeads DEF Save, Access

LEMMA BackLeads ==
  \A r, vals, k :
    r.name = k.reg /\ k.field \in r.fields /\ k.upset \subseteq {"rate", "modes"} =>
      /\ k.field \notin DOMAIN vals => /\ Leads(PutBack(r, vals), k, {"saved"}, {"field"})
                                       /\ Keeps(PutBack(r, vals), k)
      /\ k.field \in DOMAIN vals /\ vals[k.field] \in k.good => Makes(PutBack(r, vals), k)
<1> SUFFICES ASSUME NEW r, NEW vals, NEW k, r.name = k.reg, k.field \in r.fields,
                    k.upset \subseteq {"rate", "modes"}
             PROVE  /\ k.field \notin DOMAIN vals =>
                         /\ Leads(PutBack(r, vals), k, {"saved"}, {"field"})
                         /\ Keeps(PutBack(r, vals), k)
                    /\ k.field \in DOMAIN vals /\ vals[k.field] \in k.good =>
                         Makes(PutBack(r, vals), k)
  OBVIOUS
<1> DEFINE v == [f \in r.fields |-> IF f \in DOMAIN vals THEN vals[f] ELSE "saved"]
           a == [op |-> "modify", reg |-> r.name, vals |-> v]
<1>1. PutBack(r, vals) = <<a>> /\ a.op = "modify" /\ a.reg = k.reg /\ a.vals = v
  BY DEF PutBack, Access
<1>2. /\ k.field \in DOMAIN v
      /\ v[k.field] = IF k.field \in DOMAIN vals THEN vals[k.field] ELSE "saved"
  OBVIOUS
<1> HIDE DEF a, v
<1>3. k.field \notin DOMAIN vals => PutsBack(a, k)
  BY <1>1, <1>2 DEF PutsBack, Changes
<1>4. k.field \in DOMAIN vals /\ vals[k.field] \in k.good => Sets(a, k)
  BY <1>1, <1>2 DEF Sets, Changes
<1>5. a.op # "save" /\ a.op \notin k.upset
  BY <1>1
<1> QED
  BY ONLY <1>1, <1>3, <1>4, <1>5, OneLeads, OneSets, Zenon

\* Between saving it and putting it back.
LEMMA AroundSafe ==
  \A a, b, c, k :
    /\ Leads(a, k, {"field"}, {"saved"}) /\ Keeps(b, k) /\ Leads(c, k, {"saved"}, {"field"})
    => Safe(a \o b \o c, k)
  BY CatLeads, Zenon DEF Keeps, Safe

LEMMA WhenTrue == \A c, q : (c => When(c, q) = q) /\ (~c => When(c, q) = << >>)
  BY DEF When

LEMMA InvertBitsSafe ==
  \A set, f : f \in Ours(set, "InvertBits") =>
    Safe(TxQuadCalib(set), Asked(set, "InvertBits", f))
<1> SUFFICES ASSUME NEW set, NEW f, f \in Ours(set, "InvertBits")
             PROVE  Safe(TxQuadCalib(set), Asked(set, "InvertBits", f))
  OBVIOUS
<1> DEFINE k == Asked(set, "InvertBits", f)
           cal == To("cal", {"invert_rx1_rf_dc_cgout_word", "invert_rx2_rf_dc_cgout_word"})
           rx2 == [invert_rx2 |-> "cal"]
           m1 == Modify(Kexp2, {"tx_nco_freq"})
           m2 == Write(Kexp1, {"kexp_tx", "kexp_tx_comp", "kexp_dc_i", "kexp_dc_q"})
           m3 == WriteAll(QuadCalNcoFreqPhaseOffset)
           m4 == WriteReg(QuadCalControl, To("cal", QuadCalControl.fields))
           m5 == Write(QuadCalControl, {"settle_main_enable", "dc_offset_enable", "gain_enable",
                                        "phase_enable", "m_decim"})
           before == ModifyReg(ParallelPortConf2, rx2)
                     \o Save(InvertBits) \o WriteReg(InvertBits, cal)
           after == Modify(ParallelPortConf2, {"invert_rx2"}) \o PutBack(InvertBits, << >>)
<1>1. TxQuadCalib(set) = When(set.invert_rx2, before) \o m1 \o m2 \o m3 \o m4 \o m5
                         \o When(set.invert_rx2, after)
  BY Zenon DEF TxQuadCalib
<1>2. k.reg = "InvertBits" /\ k.field = f /\ k.upset \subseteq {"rate", "modes"}
      /\ InvertBits.name = "InvertBits" /\ f \in InvertBits.fields
  BY AskedIs, RegistersAre DEF Is, Ours, InvertBits, Register
<1> HIDE DEF k
<1>3. Steady(m1, k) /\ Steady(m2, k) /\ Steady(m3, k) /\ Steady(m4, k) /\ Steady(m5, k)
      /\ Steady(ModifyReg(ParallelPortConf2, rx2), k)
  BY ONLY <1>2, RegistersAre, OtherSteady
<1>4. Keeps(m1, k) /\ Keeps(m2, k) /\ Keeps(m3, k) /\ Keeps(m4, k) /\ Keeps(m5, k)
      /\ Keeps(WriteReg(InvertBits, cal), k)
      /\ Keeps(Modify(ParallelPortConf2, {"invert_rx2"}), k)
  BY ONLY <1>2, AccessKeeps, Zenon
<1>5. Leads(PutBack(InvertBits, << >>), k, {"saved"}, {"field"})
  <2>1. f \notin DOMAIN << >>
    OBVIOUS
  <2> QED
    BY ONLY <1>2, <2>1, BackLeads, Zenon
<1>6. Leads(Save(InvertBits), k, {"field"}, {"saved"})
  BY ONLY <1>2, SaveLeads, Zenon
<1> HIDE DEF m1, m2, m3, m4, m5, cal, rx2
<1>7. CASE set.invert_rx2
  <2>1. TxQuadCalib(set) = before \o m1 \o m2 \o m3 \o m4 \o m5 \o after
    BY ONLY <1>1, <1>7, WhenTrue, Zenon
  <2>2. Leads(before, k, {"field"}, {"saved"})
    BY ONLY <1>3, <1>4, <1>6, CatLeads, SteadySafe, Zenon DEF Keeps, Safe
  <2>3. Leads(after, k, {"saved"}, {"field"})
    BY ONLY <1>4, <1>5, CatLeads, Zenon DEF Keeps
  <2> HIDE DEF before, after
  <2>9. Safe(TxQuadCalib(set), k)
    BY ONLY <2>1, <2>2, <2>3, <1>4, CatLeads, Zenon DEF Keeps, Safe
  <2> QED
    BY <2>9 DEF k
<1>8. CASE ~set.invert_rx2
  <2> DEFINE none == << >>
  <2>1. TxQuadCalib(set) = none \o m1 \o m2 \o m3 \o m4 \o m5 \o none
    BY ONLY <1>1, <1>8, WhenTrue, Zenon
  <2>2. Steady(none, k)
    BY NoneSpares
  <2> HIDE DEF none
  <2>9. Safe(TxQuadCalib(set), k)
    BY ONLY <2>1, <2>2, <1>3, CatSteady, SteadySafe, Zenon
  <2> QED
    BY <2>9 DEF k
<1> QED
  BY ONLY <1>7, <1>8

LEMMA Conf2Safe ==
  \A set, f : f \in Ours(set, "ParallelPortConf2") =>
    Safe(TxQuadCalib(set), Asked(set, "ParallelPortConf2", f))
<1> SUFFICES ASSUME NEW set, NEW f, f \in Ours(set, "ParallelPortConf2")
             PROVE  Safe(TxQuadCalib(set), Asked(set, "ParallelPortConf2", f))
  OBVIOUS
<1> DEFINE k == Asked(set, "ParallelPortConf2", f)
           cal == To("cal", {"invert_rx1_rf_dc_cgout_word", "invert_rx2_rf_dc_cgout_word"})
           rx2 == [invert_rx2 |-> "cal"]
           m1 == Modify(Kexp2, {"tx_nco_freq"})
           m2 == Write(Kexp1, {"kexp_tx", "kexp_tx_comp", "kexp_dc_i", "kexp_dc_q"})
           m3 == WriteAll(QuadCalNcoFreqPhaseOffset)
           m4 == WriteReg(QuadCalControl, To("cal", QuadCalControl.fields))
           m5 == Write(QuadCalControl, {"settle_main_enable", "dc_offset_enable", "gain_enable",
                                        "phase_enable", "m_decim"})
           before == ModifyReg(ParallelPortConf2, rx2)
                     \o Save(InvertBits) \o WriteReg(InvertBits, cal)
           after == Modify(ParallelPortConf2, {"invert_rx2"}) \o PutBack(InvertBits, << >>)
<1>1. TxQuadCalib(set) = When(set.invert_rx2, before) \o m1 \o m2 \o m3 \o m4 \o m5
                         \o When(set.invert_rx2, after)
  BY Zenon DEF TxQuadCalib
<1>2. k.reg = "ParallelPortConf2" /\ k.field = f
  BY AskedIs
<1>3. DOMAIN rx2 = {"invert_rx2"}
  OBVIOUS
<1>4. Modify(ParallelPortConf2, {"invert_rx2"})
        = ModifyReg(ParallelPortConf2, To("set", {"invert_rx2"}))
      /\ DOMAIN To("set", {"invert_rx2"}) = {"invert_rx2"}
  BY DEF Modify, To
<1>5. f = "invert_rx2" => Makes(Modify(ParallelPortConf2, {"invert_rx2"}), k)
  BY RegistersAre, SetMakes
<1> HIDE DEF k, rx2
<1>6. Steady(m1, k) /\ Steady(m2, k) /\ Steady(m3, k) /\ Steady(m4, k) /\ Steady(m5, k)
      /\ Steady(Save(InvertBits), k) /\ Steady(WriteReg(InvertBits, cal), k)
      /\ Steady(PutBack(InvertBits, << >>), k)
  BY ONLY <1>2, RegistersAre, OtherSteady
<1>7. f # "invert_rx2" => /\ Steady(ModifyReg(ParallelPortConf2, rx2), k)
                          /\ Steady(Modify(ParallelPortConf2, {"invert_rx2"}), k)
  BY ONLY <1>2, <1>3, <1>4, SparingSteady
<1> HIDE DEF m1, m2, m3, m4, m5, cal
<1>8. CASE set.invert_rx2 /\ f = "invert_rx2"
  <2>1. TxQuadCalib(set) = before \o m1 \o m2 \o m3 \o m4 \o m5 \o after
    BY ONLY <1>1, <1>8, WhenTrue, Zenon
  <2>2. IsScript(ModifyReg(ParallelPortConf2, rx2))
    BY OneIs DEF ModifyReg, Access
  <2>3. IsScript(before \o m1 \o m2 \o m3 \o m4 \o m5)
    BY ONLY <1>6, <2>2, AreScripts, CatScript, Zenon
  <2>4. Makes(after, k)
    BY ONLY <1>5, <1>6, <1>8, CatMakes, SteadySafe, Zenon
  <2> HIDE DEF before, after
  <2>9. Safe(TxQuadCalib(set), k)
    BY ONLY <2>1, <2>3, <2>4, ThenMakes, MakesSafe, Zenon
  <2> QED
    BY <2>9 DEF k
<1>9. CASE set.invert_rx2 /\ f # "invert_rx2"
  <2>1. TxQuadCalib(set) = before \o m1 \o m2 \o m3 \o m4 \o m5 \o after
    BY ONLY <1>1, <1>9, WhenTrue, Zenon
  <2>2. Steady(before, k) /\ Steady(after, k)
    BY ONLY <1>6, <1>7, <1>9, CatSteady, Zenon
  <2> HIDE DEF before, after
  <2>9. Safe(TxQuadCalib(set), k)
    BY ONLY <2>1, <2>2, <1>6, CatSteady, SteadySafe, Zenon
  <2> QED
    BY <2>9 DEF k
<1>10. CASE ~set.invert_rx2
  <2> DEFINE none == << >>
  <2>1. TxQuadCalib(set) = none \o m1 \o m2 \o m3 \o m4 \o m5 \o none
    BY ONLY <1>1, <1>10, WhenTrue, Zenon
  <2>2. Steady(none, k)
    BY NoneSpares
  <2> HIDE DEF none
  <2>9. Safe(TxQuadCalib(set), k)
    BY ONLY <2>1, <2>2, <1>6, CatSteady, SteadySafe, Zenon
  <2> QED
    BY <2>9 DEF k
<1> QED
  BY ONLY <1>8, <1>9, <1>10, Zenon

LEMMA QuadMakes ==
  \A set, f : f \in Ours(set, "QuadCalControl") =>
    Makes(TxQuadCalib(set), Asked(set, "QuadCalControl", f))
<1> SUFFICES ASSUME NEW set, NEW f, f \in Ours(set, "QuadCalControl")
             PROVE  Makes(TxQuadCalib(set), Asked(set, "QuadCalControl", f))
  OBVIOUS
<1> DEFINE k == Asked(set, "QuadCalControl", f)
           X == {"ParallelPortConf2", "InvertBits", "QuadCalControl"}
           fs == {"settle_main_enable", "dc_offset_enable", "gain_enable", "phase_enable",
                  "m_decim"}
           cal == To("cal", {"invert_rx1_rf_dc_cgout_word", "invert_rx2_rf_dc_cgout_word"})
           quad == To("cal", QuadCalControl.fields)
           before == When(set.invert_rx2,
                          ModifyReg(ParallelPortConf2, [invert_rx2 |-> "cal"])
                          \o Save(InvertBits) \o WriteReg(InvertBits, cal))
                     \o Modify(Kexp2, {"tx_nco_freq"})
                     \o Write(Kexp1, {"kexp_tx", "kexp_tx_comp", "kexp_dc_i", "kexp_dc_q"})
                     \o WriteAll(QuadCalNcoFreqPhaseOffset)
                     \o WriteReg(QuadCalControl, quad)
           after == When(set.invert_rx2, Modify(ParallelPortConf2, {"invert_rx2"})
                                         \o PutBack(InvertBits, << >>))
<1>1. TxQuadCalib(set) = before \o Write(QuadCalControl, fs) \o after
  BY Zenon DEF TxQuadCalib
<1>2. k.reg = "QuadCalControl"
  BY AskedIs
<1>3. Makes(Write(QuadCalControl, fs), k)
  BY RegistersAre, SetMakes DEF Ours
<1> HIDE DEF k
<1>4. Safe(after, k)
  <2>1. /\ Steady(Modify(ParallelPortConf2, {"invert_rx2"}), k)
        /\ Steady(PutBack(InvertBits, << >>), k)
    BY ONLY <1>2, RegistersAre, OtherSteady
  <2> QED
    BY ONLY <2>1, CatSteady, WhenSteady, SteadySafe, Zenon
<1>5. IsScript(before)
  <2>1. \A q : IsScript(q) => IsScript(When(set.invert_rx2, q))
    BY NoneIs DEF When
  <2>2. \A op, r, vals : IsScript(Access(op, r, vals))
    BY OneIs DEF Access
  <2> QED
    BY ONLY <2>1, <2>2, CatScript, Zenon DEF WriteReg, ModifyReg, Write, WriteAll, Modify, Save
<1> HIDE DEF before, after
<1> QED
  BY ONLY <1>1, <1>3, <1>4, <1>5, ThenMakes, CatMakes, Zenon DEF k

(***************************************************************************)
(* The other registers that somebody else makes use of, in the step that   *)
(* sets them at last.                                                      *)
(***************************************************************************)
LEMMA StepIs ==    \* single accesses are scripts, and so is what is left out
  /\ \A r, vals : /\ IsScript(WriteReg(r, vals)) /\ IsScript(ModifyReg(r, vals))
                  /\ IsScript(Write(r, vals)) /\ IsScript(Modify(r, vals))
                  /\ IsScript(WriteAll(r)) /\ IsScript(Save(r)) /\ IsScript(PutBack(r, vals))
  /\ \A c, q : (c => IsScript(q)) => IsScript(When(c, q))
<1>1. \A op, r, vals : IsScript(Access(op, r, vals))
  BY OneIs DEF Access
<1>2. \A c, q : (c => IsScript(q)) => IsScript(When(c, q))
  BY NoneIs DEF When
<1> QED
  BY ONLY <1>1, <1>2 DEF WriteReg, ModifyReg, Write, WriteAll, Modify, Save, PutBack

LEMMA SmallLmtSafe ==
  \A set, f : f \in Ours(set, "SmallLmtOverloadThresh") =>
    Safe(EnsmSetRunning(set), Asked(set, "SmallLmtOverloadThresh", f))
<1> SUFFICES ASSUME NEW set, NEW f, f \in Ours(set, "SmallLmtOverloadThresh")
             PROVE  Safe(EnsmSetRunning(set), Asked(set, "SmallLmtOverloadThresh", f))
  OBVIOUS
<1> DEFINE k == Asked(set, "SmallLmtOverloadThresh", f)
           c1 == ~set.fdd /\ ~set.ensm_pin_ctrl /\ ~set.dual_synth
           c2 == ~set.fdd /\ \E c \in {1, 2} : set.modes[c] = "manual"
           m1 == ModifyReg(EnsmConfig2, [txnrx_spi_ctrl |-> "zero"])
           m2 == Write(EnsmConfig1, {"level_mode", "enable_ensm_pin_ctrl",
                                     "enable_rx_data_port_for_cal", "to_alert", On(set)})
           cal == To("cal", PdResets)
           zero == To("zero", PdResets)
           q == Save(SmallLmtOverloadThresh) \o PutBack(SmallLmtOverloadThresh, cal)
                \o PutBack(SmallLmtOverloadThresh, zero)
<1>1. EnsmSetRunning(set) = When(c1, m1) \o m2 \o When(c2, q)
  BY Zenon DEF EnsmSetRunning
<1>2. /\ k.reg = "SmallLmtOverloadThresh" /\ k.field = f /\ k.upset \subseteq {"rate", "modes"}
      /\ SmallLmtOverloadThresh.name = "SmallLmtOverloadThresh"
      /\ f \in SmallLmtOverloadThresh.fields /\ f \notin DOMAIN cal /\ f \notin DOMAIN zero
  BY AskedIs, RegistersAre DEF Is, Ours, SmallLmtOverloadThresh, Register, To, PdResets
<1> HIDE DEF k, cal, zero
<1>3. Steady(m1, k) /\ Steady(m2, k)
  BY ONLY <1>2, RegistersAre, OtherSteady
<1>4. /\ Leads(Save(SmallLmtOverloadThresh), k, {"field"}, {"saved"})
      /\ Keeps(PutBack(SmallLmtOverloadThresh, cal), k)
      /\ Leads(PutBack(SmallLmtOverloadThresh, zero), k, {"saved"}, {"field"})
  BY ONLY <1>2, SaveLeads, BackLeads, Zenon
<1>5. Safe(q, k)
  BY ONLY <1>4, AroundSafe, Zenon
<1> HIDE DEF q, m1, m2, c1, c2
<1>6. Safe(EnsmSetRunning(set), k)
  <2>1. Safe(When(c1, m1), k) /\ Safe(m2, k) /\ Safe(When(c2, q), k)
    BY ONLY <1>3, <1>5, WhenSteady, SteadySafe
  <2> QED
    BY ONLY <1>1, <2>1, CatSafe, Zenon
<1> QED
  BY <1>6 DEF k

LEMMA TuneMakes ==
  \A set, n, f :
    n \in {"Rx1TuneControl", "Rx2TuneControl", "TxTuneControl"} /\ f \in Ours(set, n) =>
      Makes(FilterTuning, Asked(set, n, f))
<1> SUFFICES ASSUME NEW set, NEW n \in {"Rx1TuneControl", "Rx2TuneControl", "TxTuneControl"},
                    NEW f, f \in Ours(set, n)
             PROVE  Makes(FilterTuning, Asked(set, n, f))
  OBVIOUS
<1> DEFINE k == Asked(set, n, f)
           w1 == WriteReg(Rx1TuneControl, [rx1_tune_resample |-> "cal"])
           w2 == WriteReg(Rx2TuneControl, [rx2_tune_resample |-> "cal"])
           w3 == Write(Rx1TuneControl, {"rx1_tune_resample", "rx1_pd_tune"})
           w4 == Write(Rx2TuneControl, {"rx2_tune_resample", "rx2_pd_tune"})
           w5 == WriteReg(TxTuneControl, [tuner_resample |-> "cal", tune_ctrl |-> "cal"])
           w6 == Write(TxTuneControl, {"tuner_resample", "tune_ctrl", "pd_tune"})
           m1 == Modify(RxBbfTuneConfig, {"rx_bbf_tune_divide"})
           m2 == Modify(TxBbfTuneMode, {"tx_bbf_tune_divider"})
<1>1. FilterTuning = m1 \o w1 \o w2 \o w3 \o w4 \o m2 \o w5 \o w6
  BY Zenon DEF FilterTuning
<1>2. k.reg = n
  BY AskedIs
<1>3. /\ n = "Rx1TuneControl" => Makes(w3, k)
      /\ n = "Rx2TuneControl" => Makes(w4, k)
      /\ n = "TxTuneControl" => Makes(w6, k)
  BY RegistersAre, SetMakes DEF Ours
<1> HIDE DEF k
<1>4. /\ n # "Rx2TuneControl" => Steady(w4, k)
      /\ n # "TxTuneControl" => Steady(w5, k) /\ Steady(w6, k)
      /\ Steady(m1, k) /\ Steady(m2, k)
  BY ONLY <1>2, n \in {"Rx1TuneControl", "Rx2TuneControl", "TxTuneControl"},
     RegistersAre, OtherSteady
<1>5. /\ IsScript(m1) /\ IsScript(w1) /\ IsScript(w2) /\ IsScript(w3) /\ IsScript(w4)
      /\ IsScript(m2) /\ IsScript(w5)
  BY ONLY StepIs, Zenon
<1> HIDE DEF m1, m2, w1, w2, w3, w4, w5, w6
<1>6. CASE n = "Rx1TuneControl"
  <2>1. Makes(w3, k) /\ Safe(w4, k) /\ Safe(m2, k) /\ Safe(w5, k) /\ Safe(w6, k)
    BY ONLY <1>3, <1>4, <1>6, SteadySafe
  <2>2. Makes(FilterTuning, k)
    BY ONLY <1>1, <1>5, <2>1, CatScript, ThenMakes, CatMakes, Zenon
  <2> QED
    BY <2>2 DEF k
<1>7. CASE n = "Rx2TuneControl"
  <2>1. Makes(w4, k) /\ Safe(m2, k) /\ Safe(w5, k) /\ Safe(w6, k)
    BY ONLY <1>3, <1>4, <1>7, SteadySafe
  <2>2. Makes(FilterTuning, k)
    BY ONLY <1>1, <1>5, <2>1, CatScript, ThenMakes, CatMakes, Zenon
  <2> QED
    BY <2>2 DEF k
<1>8. CASE n = "TxTuneControl"
  <2>1. Makes(w6, k)
    BY ONLY <1>3, <1>8
  <2>2. Makes(FilterTuning, k)
    BY ONLY <1>1, <1>5, <2>1, CatScript, ThenMakes, Zenon
  <2> QED
    BY <2>2 DEF k
<1> QED
  BY <1>6, <1>7, <1>8

LEMMA AttenMakes ==
  \A set, f : f = "immediately_update_tpc_atten" =>
    Makes(SetTxAtten, Asked(set, "Tx2DigAtten", f))
<1> SUFFICES ASSUME NEW set, NEW f, f = "immediately_update_tpc_atten"
             PROVE  Makes(SetTxAtten, Asked(set, "Tx2DigAtten", f))
  OBVIOUS
<1>1. Makes(Modify(Tx2DigAtten, {"immediately_update_tpc_atten"}), Asked(set, "Tx2DigAtten", f))
  BY RegistersAre, SetMakes
<1> QED
  BY ONLY <1>1, StepIs, ThenMakes, Zenon DEF SetTxAtten

\* The steps of gc_setup that write a register without the field that the
\* update sets.
LEMMA GainMakes ==
  \A set, n, f :
    n \in {"PeakWaitTime", "DigitalSatCounter"} /\ f \in Ours(set, n) =>
      Makes(GcSetup(set), Asked(set, n, f))
<1> SUFFICES ASSUME NEW set, NEW n \in {"PeakWaitTime", "DigitalSatCounter"},
                    NEW f, f \in Ours(set, n)
             PROVE  Makes(GcSetup(set), Asked(set, n, f))
  OBVIOUS
<1> DEFINE k == Asked(set, n, f)
<1>1. /\ n = "PeakWaitTime" =>
           f \in {"manual_ctrl_in_decr_gain_stp_size", "peak_overload_wait_time"}
      /\ n = "DigitalSatCounter" =>
           f \in {"dig_saturation_exed_counter", "enable_sync_for_gain_counter",
                  "double_gain_counter"}
  <2>1. /\ Ours(set, "PeakWaitTime") = PeakWaitTime.fields
        /\ Ours(set, "DigitalSatCounter") = DigitalSatCounter.fields
    BY ONLY OwnAre, RegistersAre DEF Own, Is
  <2> QED
    BY <2>1 DEF PeakWaitTime, DigitalSatCounter, Register
<1>2. k.reg = n /\ k.field = f /\ k.good = {"set", "rate", "power"}
  <2>1. n # "AgcConfig1" /\ n # "RxEnableFilterControl"
    OBVIOUS
  <2>2. GoodOf(set, n, f) = {"set", "rate", "power"}
    BY ONLY <2>1 DEF GoodOf
  <2> QED
    BY <2>2, AskedIs
<1>3. /\ Does(GcModes(set), set, {}) /\ Does(GcSteps(set), set, {"PeakWaitTime"})
      /\ Does(GcPower, set, {}) /\ Does(GcThresholds, set, {"DigitalSatCounter"})
      /\ Does(GcFastSettling, set, {}) /\ Does(GcFastUnlocking, set, {})
      /\ Does(SetAgcPulledHigh, set, {}) /\ Does(GcState5, set, {}) /\ Does(GcUpdate, set, {})
  BY ONLY GcModesDoes, GcStepsDoes, GcPowerDoes, GcThresholdsDoes, GcFastSettlingDoes,
          GcFastUnlockingDoes, SetAgcPulledHighDoes, GcState5Does, GcUpdateDoes
<1>4. /\ IsScript(GcModes(set)) /\ IsScript(GcSteps(set)) /\ IsScript(GcPower)
      /\ IsScript(GcThresholds) /\ IsScript(GcFastSettling) /\ IsScript(GcFastUnlocking)
      /\ IsScript(SetAgcPulledHigh) /\ IsScript(GcState5)
  BY ONLY <1>3, Zenon DEF Does
<1>5. /\ Safe(GcPower, k) /\ Safe(GcFastSettling, k) /\ Safe(GcFastUnlocking, k)
      /\ Safe(SetAgcPulledHigh, k) /\ Safe(GcState5, k) /\ Safe(GcUpdate, k)
      /\ n # "DigitalSatCounter" => Safe(GcThresholds, k)
  <2>1. n \notin {} /\ (n # "DigitalSatCounter" => n \notin {"DigitalSatCounter"})
    OBVIOUS
  <2> QED
    BY ONLY <1>3, <2>1, f \in Ours(set, n), DoesSteady, SteadySafe, Zenon DEF k
<1> HIDE DEF k
<1>6. CASE f \in {"peak_overload_wait_time", "double_gain_counter"}
  <2> DEFINE peak == [peak_overload_wait_time |-> "rate"]
             double == [double_gain_counter |-> "rate"]
             m1 == ModifyReg(AgcAttackDelay, [agc_attack_delay |-> "rate"])
             m2 == ModifyReg(PeakWaitTime, peak)
             m3 == ModifyReg(FastConfig2SettlingDelay, [settling_delay |-> "rate"])
             m4 == ModifyReg(DecPowerMeasureDuration0,
                             [dec_power_measurement_duration |-> "power"])
             m5 == ModifyReg(DigitalSatCounter, double)
             m6 == ModifyReg(FastEnergyDetectCount, [energy_detect_count |-> "rate"])
  <2>1. GcUpdate = m1 \o m2 \o m3 \o m4 \o m5 \o m6
    BY Zenon DEF GcUpdate
  <2>2. /\ DOMAIN peak = {"peak_overload_wait_time"} /\ peak["peak_overload_wait_time"] = "rate"
        /\ DOMAIN double = {"double_gain_counter"} /\ double["double_gain_counter"] = "rate"
    OBVIOUS
  <2> HIDE DEF peak, double
  <2>3. /\ n = "PeakWaitTime" => Makes(m2, k)
        /\ n = "DigitalSatCounter" => Makes(m5, k)
    BY ONLY <1>1, <1>2, <1>6, <2>2, RegistersAre, SettingMakes
  <2>4. /\ Steady(m3, k) /\ Steady(m4, k) /\ Steady(m6, k)
        /\ n = "PeakWaitTime" => Steady(m5, k)
    BY ONLY <1>2, n \in {"PeakWaitTime", "DigitalSatCounter"}, RegistersAre, OtherSteady
  <2>5. IsScript(m1) /\ IsScript(m2) /\ IsScript(m3) /\ IsScript(m4)
    BY ONLY StepIs, Zenon
  <2> HIDE DEF m1, m2, m3, m4, m5, m6
  <2>6. Makes(GcUpdate, k)
    BY ONLY <2>1, <2>3, <2>4, <2>5, n \in {"PeakWaitTime", "DigitalSatCounter"},
       SteadySafe, CatScript, ThenMakes, CatMakes, Zenon
  <2>7. Makes(GcSetup(set), k)
    BY ONLY <2>6, <1>4, CatScript, ThenMakes, Zenon DEF GcSetup
  <2> QED
    BY <2>7 DEF k
<1>7. CASE f = "manual_ctrl_in_decr_gain_stp_size"
  <2> DEFINE w1 == WriteAll(AgcConfig3)
             w2 == Write(PeakWaitTime, {"manual_ctrl_in_decr_gain_stp_size"})
             w3 == When(set.dig_gain_en, WriteAll(DigitalGain))
             w4 == Modify(SmallLmtOverloadThresh, {"small_lmt_overload_thresh"})
             w5 == When(set.split_gt, WriteAll(Rx1ManualLpfGain))
  <2>1. GcSteps(set) = w1 \o w2 \o w3 \o w4 \o w5
    BY Zenon DEF GcSteps
  <2>2. n = "PeakWaitTime"
    BY <1>1, <1>7
  <2>3. Makes(w2, k)
    BY ONLY <1>7, <2>2, RegistersAre, SetMakes DEF k
  <2>4. Steady(w4, k) /\ Steady(WriteAll(DigitalGain), k) /\ Steady(WriteAll(Rx1ManualLpfGain), k)
    BY ONLY <1>2, <2>2, RegistersAre, OtherSteady
  <2>5. Safe(w3, k) /\ Safe(w4, k) /\ Safe(w5, k) /\ IsScript(w1)
    BY ONLY <2>4, WhenSteady, SteadySafe, StepIs, Zenon
  <2> HIDE DEF w1, w2, w3, w4, w5
  <2>6. Makes(GcSteps(set), k)
    BY ONLY <2>1, <2>3, <2>5, ThenMakes, CatMakes, Zenon
  <2>7. Safe(GcThresholds, k)
    BY <1>5, <2>2
  <2>8. Makes(GcSetup(set), k)
    BY ONLY <2>6, <2>7, <1>4, <1>5, ThenMakes, CatMakes, Zenon DEF GcSetup
  <2> QED
    BY <2>8 DEF k
<1>8. CASE f \in {"dig_saturation_exed_counter", "enable_sync_for_gain_counter"}
  <2>1. n = "DigitalSatCounter"
    BY <1>1, <1>8
  <2> DEFINE w == Write(DigitalSatCounter,
                        {"dig_saturation_exed_counter", "enable_sync_for_gain_counter"})
             q == Modify(AgcLockLevel, {"agc_lock_level_fast_agc_inner_high_thresh_slow"})
                  \o WriteAll(AgcInnerLowThresh) \o WriteAll(OuterPowerThreshs)
                  \o WriteAll(GainStp2) \o WriteAll(GainStp1)
                  \o WriteAll(AdcOverloadCounters) \o WriteAll(GainStpConfig2)
                  \o WriteAll(LmtOverloadCounters)
                  \o Modify(GainStpConfig1, {"dec_stp_size_for_large_lmt_overload"})
  <2>2. GcThresholds = q \o w
    BY Zenon DEF GcThresholds
  <2>3. IsScript(q)
    BY ONLY StepIs, CatScript, Zenon
  <2>4. Makes(w, k)
    BY ONLY <1>8, <2>1, RegistersAre, SetMakes DEF k
  <2> HIDE DEF q, w
  <2>5. Makes(GcThresholds, k)
    BY ONLY <2>2, <2>3, <2>4, ThenMakes, Zenon
  <2>6. IsScript(GcModes(set) \o GcSteps(set) \o GcPower)
    BY ONLY <1>4, CatScript, Zenon
  <2>7. Makes(GcSetup(set), k)
    BY ONLY <2>5, <2>6, <1>5, ThenMakes, CatMakes, Zenon DEF GcSetup
  <2> QED
    BY <2>7 DEF k
<1> QED
  BY <1>1, <1>6, <1>7, <1>8

LEMMA EnsmModeMakes ==
  \A set, f : f \in Ours(set, "EnsmMode") =>
    Makes(SetEnsmMode(set), Asked(set, "EnsmMode", f))
<1> SUFFICES ASSUME NEW set, NEW f, f \in Ours(set, "EnsmMode")
             PROVE  Makes(SetEnsmMode(set), Asked(set, "EnsmMode", f))
  OBVIOUS
<1> DEFINE k == Asked(set, "EnsmMode", f)
           config == [g \in {"dual_synth_mode", "fdd_external_ctrl_enable",
                             "synth_enable_pin_ctrl_mode", "txnrx_spi_ctrl"} |->
                        IF \/ g = "dual_synth_mode" /\ (set.fdd \/ set.dual_synth)
                           \/ g = "fdd_external_ctrl_enable" /\ set.fdd
                           \/ g = "synth_enable_pin_ctrl_mode" /\ ~set.fdd /\ ~set.dual_synth
                        THEN "set" ELSE "zero"]
<1>1. SetEnsmMode(set) = WriteAll(EnsmMode) \o Save(EnsmConfig2) \o PutBack(EnsmConfig2, config)
  BY Zenon DEF SetEnsmMode
<1>2. Ours(set, "EnsmMode") = EnsmMode.fields
  BY ONLY OwnAre, RegistersAre DEF Own, Is
<1>3. Makes(WriteAll(EnsmMode), k)
  BY <1>2, RegistersAre, SetMakes DEF WriteAll
<1>4. k.reg = "EnsmMode"
  BY AskedIs
<1> HIDE DEF k, config
<1>5. Steady(Save(EnsmConfig2), k) /\ Steady(PutBack(EnsmConfig2, config), k)
  BY ONLY <1>4, RegistersAre, OtherSteady
<1>6. Makes(SetEnsmMode(set), k)
  BY ONLY <1>1, <1>3, <1>5, SteadySafe, CatMakes, Zenon
<1> QED
  BY <1>6 DEF k

LEMMA EnsmConfig2Makes ==
  \A set, f : f \in Ours(set, "EnsmConfig2") =>
    /\ Makes(SetEnsmMode(set), Asked(set, "EnsmConfig2", f))
    /\ Safe(EnsmSetRunning(set), Asked(set, "EnsmConfig2", f))
<1> SUFFICES ASSUME NEW set, NEW f, f \in Ours(set, "EnsmConfig2")
             PROVE  /\ Makes(SetEnsmMode(set), Asked(set, "EnsmConfig2", f))
                    /\ Safe(EnsmSetRunning(set), Asked(set, "EnsmConfig2", f))
  OBVIOUS
<1> DEFINE k == Asked(set, "EnsmConfig2", f)
           config == [g \in {"dual_synth_mode", "fdd_external_ctrl_enable",
                             "synth_enable_pin_ctrl_mode", "txnrx_spi_ctrl"} |->
                        IF \/ g = "dual_synth_mode" /\ (set.fdd \/ set.dual_synth)
                           \/ g = "fdd_external_ctrl_enable" /\ set.fdd
                           \/ g = "synth_enable_pin_ctrl_mode" /\ ~set.fdd /\ ~set.dual_synth
                        THEN "set" ELSE "zero"]
<1>1. /\ k.reg = "EnsmConfig2" /\ k.field = f /\ k.upset \subseteq {"rate", "modes"}
      /\ EnsmConfig2.name = "EnsmConfig2" /\ f \in EnsmConfig2.fields
  BY AskedIs, RegistersAre DEF Is, Ours, EnsmConfig2, Register
<1>2. "set" \in k.good
  <2>1. "set" \in GoodOf(set, "EnsmConfig2", f)
    BY DEF GoodOf
  <2> QED
    BY <2>1, AskedIs
<1>3. Makes(SetEnsmMode(set), k)
  <2>1. SetEnsmMode(set)
          = WriteAll(EnsmMode) \o Save(EnsmConfig2) \o PutBack(EnsmConfig2, config)
    BY Zenon DEF SetEnsmMode
  <2>2. f \in DOMAIN config /\ config[f] = "set"
    BY DEF Ours
  <2> HIDE DEF k, config
  <2>3. Makes(PutBack(EnsmConfig2, config), k)
    BY ONLY <1>1, <1>2, <2>2, BackLeads
  <2>4. IsScript(WriteAll(EnsmMode) \o Save(EnsmConfig2))
    BY ONLY StepIs, CatScript, Zenon
  <2> QED
    BY ONLY <2>1, <2>3, <2>4, ThenMakes, Zenon
<1>4. Safe(EnsmSetRunning(set), k)
  <2> DEFINE c1 == ~set.fdd /\ ~set.ensm_pin_ctrl /\ ~set.dual_synth
             c2 == ~set.fdd /\ \E c \in {1, 2} : set.modes[c] = "manual"
             v1 == [txnrx_spi_ctrl |-> "zero"]
             m1 == ModifyReg(EnsmConfig2, v1)
             m2 == Write(EnsmConfig1, {"level_mode", "enable_ensm_pin_ctrl",
                                       "enable_rx_data_port_for_cal", "to_alert", On(set)})
             q == Save(SmallLmtOverloadThresh)
                  \o PutBack(SmallLmtOverloadThresh, To("cal", PdResets))
                  \o PutBack(SmallLmtOverloadThresh, To("zero", PdResets))
  <2>1. EnsmSetRunning(set) = When(c1, m1) \o m2 \o When(c2, q)
    BY Zenon DEF EnsmSetRunning
  <2>2. k.field \notin DOMAIN v1
    BY <1>1 DEF Ours
  <2> HIDE DEF k, v1
  <2>3. Steady(m1, k)
    BY ONLY <2>2, SparingSteady
  <2>4. /\ Steady(m2, k) /\ Steady(Save(SmallLmtOverloadThresh), k)
        /\ \A v : Steady(PutBack(SmallLmtOverloadThresh, v), k)
    BY ONLY <1>1, RegistersAre, OtherSteady
  <2>5. Steady(q, k)
    BY ONLY <2>4, CatSteady, Zenon
  <2> HIDE DEF c1, c2, m1, m2, q
  <2>6. Safe(When(c1, m1), k) /\ Safe(m2, k) /\ Safe(When(c2, q), k)
    BY ONLY <2>3, <2>4, <2>5, WhenSteady, SteadySafe
  <2> QED
    BY ONLY <2>1, <2>6, CatSafe, Zenon
<1> QED
  BY <1>3, <1>4 DEF k

LEMMA EnsmConfig1Makes ==
  \A set, f : f \in Ours(set, "EnsmConfig1") =>
    Makes(EnsmSetRunning(set), Asked(set, "EnsmConfig1", f))
<1> SUFFICES ASSUME NEW set, NEW f, f \in Ours(set, "EnsmConfig1")
             PROVE  Makes(EnsmSetRunning(set), Asked(set, "EnsmConfig1", f))
  OBVIOUS
<1> DEFINE k == Asked(set, "EnsmConfig1", f)
           fs == {"level_mode", "enable_ensm_pin_ctrl", "enable_rx_data_port_for_cal",
                  "to_alert", On(set)}
           c1 == ~set.fdd /\ ~set.ensm_pin_ctrl /\ ~set.dual_synth
           c2 == ~set.fdd /\ \E c \in {1, 2} : set.modes[c] = "manual"
           m1 == ModifyReg(EnsmConfig2, [txnrx_spi_ctrl |-> "zero"])
           m2 == Write(EnsmConfig1, fs)
           q == Save(SmallLmtOverloadThresh)
                \o PutBack(SmallLmtOverloadThresh, To("cal", PdResets))
                \o PutBack(SmallLmtOverloadThresh, To("zero", PdResets))
<1>1. EnsmSetRunning(set) = When(c1, m1) \o m2 \o When(c2, q)
  BY Zenon DEF EnsmSetRunning
<1>2. f \in fs
  BY DEF Ours
<1>3. k.reg = "EnsmConfig1"
  BY AskedIs
<1> HIDE DEF fs
<1>4. Makes(m2, k)
  BY ONLY <1>2, RegistersAre, SetMakes
<1> HIDE DEF k
<1>5. /\ Steady(Save(SmallLmtOverloadThresh), k)
      /\ \A v : Steady(PutBack(SmallLmtOverloadThresh, v), k)
  BY ONLY <1>3, RegistersAre, OtherSteady
<1>6. Steady(q, k)
  BY ONLY <1>5, CatSteady, Zenon
<1> HIDE DEF c1, c2, q
<1>7. Safe(When(c2, q), k) /\ IsScript(When(c1, m1))
  BY ONLY <1>6, WhenSteady, SteadySafe, StepIs
<1> HIDE DEF m1, m2
<1>8. Makes(EnsmSetRunning(set), k)
  BY ONLY <1>1, <1>4, <1>7, ThenMakes, CatMakes, Zenon
<1> QED
  BY <1>8 DEF k

LEMMA OffsetMakes ==
  \A set, f : f \in Ours(set, "DcOffsetConfig2") =>
    Makes(TrackingControl, Asked(set, "DcOffsetConfig2", f))
<1> SUFFICES ASSUME NEW set, NEW f, f \in Ours(set, "DcOffsetConfig2")
             PROVE  Makes(TrackingControl, Asked(set, "DcOffsetConfig2", f))
  OBVIOUS
<1> DEFINE k == Asked(set, "DcOffsetConfig2", f)
           w1 == Write(CalibrationConfig2, {"calibration_config2_dflt", "k_exp_phase"})
           w2 == Write(CalibrationConfig3, {"prevent_pos_loop_gain", "k_exp_amplitude"})
           w3 == Write(DcOffsetConfig2,
                   {"use_wait_counter_for_rf_dc_init_cal", "dc_offset_update",
                    "enable_bb_dc_offset_tracking", "enable_rf_offset_tracking"})
           w4 == Modify(RxQuadGain2, {"correction_word_decimation_m"})
           w5 == Write(CalibrationConfig1,
                   {"enable_phase_corr", "enable_gain_corr", "free_run_mode",
                    "enable_corr_word_decimation", "enable_tracking_mode_ch1",
                    "enable_tracking_mode_ch2"})
<1>1. TrackingControl = w1 \o w2 \o w3 \o w4 \o w5
  BY Zenon DEF TrackingControl
<1>2. k.reg = "DcOffsetConfig2"
  BY AskedIs
<1>3. Makes(w3, k)
  BY RegistersAre, SetMakes DEF Ours
<1> HIDE DEF k
<1>4. Steady(w4, k) /\ Steady(w5, k) /\ IsScript(w1) /\ IsScript(w2)
  BY ONLY <1>2, RegistersAre, OtherSteady, StepIs
<1> HIDE DEF w1, w2, w3, w4, w5
<1>5. Makes(TrackingControl, k)
  BY ONLY <1>1, <1>3, <1>4, SteadySafe, CatScript, ThenMakes, CatMakes, Zenon
<1> QED
  BY <1>5 DEF k

LEMMA Conf3Makes ==
  \A set, f : f \in Ours(set, "ParallelPortConf3") =>
    Makes(RestoreConf3(set), Asked(set, "ParallelPortConf3", f))
<1> SUFFICES ASSUME NEW set, NEW f, f \in Ours(set, "ParallelPortConf3")
             PROVE  Makes(RestoreConf3(set), Asked(set, "ParallelPortConf3", f))
  OBVIOUS
<1>1. Conf3(set) = Write(ParallelPortConf3, Ours(set, "ParallelPortConf3"))
  BY DEF Conf3, Ours
<1> QED
  BY <1>1, RegistersAre, SetMakes DEF RestoreConf3

LEMMA Conf2Makes ==
  \A set, f : f \in Ours(set, "ParallelPortConf2") =>
    Makes(PpPortSetup(set), Asked(set, "ParallelPortConf2", f))
<1> SUFFICES ASSUME NEW set, NEW f, f \in Ours(set, "ParallelPortConf2")
             PROVE  Makes(PpPortSetup(set), Asked(set, "ParallelPortConf2", f))
  OBVIOUS
<1> DEFINE k == Asked(set, "ParallelPortConf2", f)
           fs == {"fdd_rx_rate_2tx_rate"} \cup
                 IF set.half_duplex
                 THEN {"single_port_mode", "half_duplex_mode", "full_port", "single_data_rate",
                       "swap_ports", "full_duplex_swap_bits"}
                 ELSE {"lvds_mode"}
           bias == IF set.half_duplex THEN {"clk_out_slew"} ELSE LvdsBiasControl.fields
           w1 == WriteAll(ParallelPortConf1)
           w2 == WriteAll(ParallelPortConf2)
           w3 == Write(ParallelPortConf3, fs)
           w4 == WriteAll(RxClockDataDelay)
           w5 == WriteAll(TxClockDataDelay)
           w6 == Write(LvdsBiasControl, bias)
           w7 == Modify(InvertBits, {"invert_rx2_rf_dc_cgout_word"})
<1>1. PpPortSetup(set) = w1 \o w2 \o w3 \o w4 \o w5 \o w6 \o When(set.invert_rx2, w7)
  BY Zenon DEF PpPortSetup, Conf3
<1>2. k.reg = "ParallelPortConf2"
  BY AskedIs
<1>3. Ours(set, "ParallelPortConf2") = ParallelPortConf2.fields
  BY ONLY OwnAre, RegistersAre DEF Own, Is
<1>4. Makes(w2, k)
  BY <1>3, RegistersAre, SetMakes DEF WriteAll
<1> HIDE DEF k, fs, bias
<1>5. /\ Steady(w3, k) /\ Steady(w4, k) /\ Steady(w5, k) /\ Steady(w6, k) /\ Steady(w7, k)
  BY ONLY <1>2, RegistersAre, OtherSteady
<1> HIDE DEF w3, w4, w5, w6, w7
<1>6. /\ Safe(w3, k) /\ Safe(w4, k) /\ Safe(w5, k) /\ Safe(w6, k)
      /\ Safe(When(set.invert_rx2, w7), k)
  BY ONLY <1>5, SteadySafe, WhenSteady
<1>7. IsScript(w1)
  BY ONLY StepIs
<1> HIDE DEF w1, w2
<1>8. Makes(PpPortSetup(set), k)
  BY ONLY <1>1, <1>4, <1>6, <1>7, ThenMakes, CatMakes, Zenon
<1> QED
  BY <1>8 DEF k

LEMMA InvertBitsMakes ==
  \A set, f : f \in Ours(set, "InvertBits") =>
    Makes(RfDcOffsetCalib, Asked(set, "InvertBits", f))
<1> SUFFICES ASSUME NEW set, NEW f, f \in Ours(set, "InvertBits")
             PROVE  Makes(RfDcOffsetCalib, Asked(set, "InvertBits", f))
  OBVIOUS
<1> DEFINE w == Write(InvertBits, {"invert_rx1_rf_dc_cgout_word", "invert_rx2_rf_dc_cgout_word"})
           q == Write(RfDcOffsetConfig1, {"rf_dc_calibration_count", "dac_fs"})
                \o WriteReg(DcOffsetConfig2, [use_wait_counter_for_rf_dc_init_cal |-> "cal",
                                              dc_offset_update |-> "cal"])
<1>1. RfDcOffsetCalib = q \o w
  BY Zenon DEF RfDcOffsetCalib
<1>2. Makes(w, Asked(set, "InvertBits", f))
  BY RegistersAre, SetMakes DEF Ours
<1>3. IsScript(q)
  BY ONLY StepIs, CatScript, Zenon
<1> HIDE DEF w, q
<1> QED
  BY ONLY <1>1, <1>2, <1>3, ThenMakes, Zenon

\* The update of the RSSI timing, which init also does last.
LEMMA RssiMakes ==
  \A set, n, f :
    n \in {"RssiConfig", "MeasureDuration01"} /\ f \in Ours(set, n) /\ ~set.in_samples =>
      Makes(RssiUpdate(set), Asked(set, n, f))
<1> SUFFICES ASSUME NEW set, NEW n \in {"RssiConfig", "MeasureDuration01"}, NEW f,
                    f \in Ours(set, n), ~set.in_samples
             PROVE  Makes(RssiUpdate(set), Asked(set, n, f))
  OBVIOUS
<1> DEFINE k == Asked(set, n, f)
           v1 == To("rate", MeasureDuration01.fields)
           v2 == To("rate", MeasureDuration23.fields)
           v3 == [rssi_mode_select |-> "set", start_rssi_meas |-> "set",
                  default_rssi_meas_mode |-> "rate"]
           w1 == WriteReg(MeasureDuration01, v1)
           w2 == WriteReg(MeasureDuration23, v2)
           w3 == WriteReg(RssiConfig, v3)
<1>1. RssiUpdate(set) = w1 \o w2 \o w3
  BY DEF RssiUpdate, RssiSetup, When
<1>2. k.reg = n /\ k.field = f /\ k.good = {"set", "rate", "power"}
  <2>1. n # "AgcConfig1" /\ n # "RxEnableFilterControl"
    OBVIOUS
  <2>2. GoodOf(set, n, f) = {"set", "rate", "power"}
    BY ONLY <2>1 DEF GoodOf
  <2> QED
    BY <2>2, AskedIs
<1>3. n = "MeasureDuration01" => f \in DOMAIN v1 /\ v1[f] = "rate"
  <2>1. Ours(set, "MeasureDuration01") = MeasureDuration01.fields
    BY ONLY OwnAre, RegistersAre DEF Own, Is
  <2> QED
    BY <2>1 DEF To
<1>4. n = "RssiConfig" => f \in DOMAIN v3 /\ v3[f] \in {"set", "rate"}
  BY DEF Ours
<1> HIDE DEF k, v1, v2, v3
<1>5. /\ n = "MeasureDuration01" => Makes(w1, k)
      /\ n = "RssiConfig" => Makes(w3, k)
  BY ONLY <1>2, <1>3, <1>4, RegistersAre, SettingMakes
<1>6. /\ Steady(w2, k)
      /\ n = "MeasureDuration01" => Steady(w3, k)
  BY ONLY <1>2, n \in {"RssiConfig", "MeasureDuration01"}, RegistersAre, OtherSteady
<1>7. IsScript(w1) /\ IsScript(w2)
  BY ONLY StepIs
<1> HIDE DEF w1, w2, w3
<1>8. Makes(RssiUpdate(set), k)
  BY ONLY <1>1, <1>5, <1>6, <1>7, n \in {"RssiConfig", "MeasureDuration01"},
     SteadySafe, CatScript, ThenMakes, CatMakes, Zenon
<1> QED
  BY <1>8 DEF k

\* post_setup and the tuning force the state machine to other states and back.
LEMMA ForcedSafe ==
  \A set, f : f \in Ours(set, "EnsmConfig1") /\ ~Wiped(set, "EnsmConfig1", f) =>
    \/ Makes(RestoreRunning(set), Asked(set, "EnsmConfig1", f))
    \/ /\ Safe(ForceAlert(set), Asked(set, "EnsmConfig1", f))
       /\ Safe(ForceFdd, Asked(set, "EnsmConfig1", f))
       /\ Safe(RestoreRunning(set), Asked(set, "EnsmConfig1", f))
<1> SUFFICES ASSUME NEW set, NEW f, f \in Ours(set, "EnsmConfig1"),
                    ~Wiped(set, "EnsmConfig1", f)
             PROVE  \/ Makes(RestoreRunning(set), Asked(set, "EnsmConfig1", f))
                    \/ /\ Safe(ForceAlert(set), Asked(set, "EnsmConfig1", f))
                       /\ Safe(ForceFdd, Asked(set, "EnsmConfig1", f))
                       /\ Safe(RestoreRunning(set), Asked(set, "EnsmConfig1", f))
  OBVIOUS
<1> DEFINE k == Asked(set, "EnsmConfig1", f)
           alert == To("cal", {"force_tx_on", "force_rx_on", "to_alert", "force_alert_state"}
                              \cup IF set.ensm_pin_ctrl THEN {"enable_ensm_pin_ctrl"} ELSE {})
           config == [g \in Unforced \cup {"to_alert"} |->
                        IF g \in {On(set), "to_alert"} THEN "set" ELSE "zero"]
           pins == [g \in DOMAIN config \cup {"enable_ensm_pin_ctrl"} |->
                      IF g = "enable_ensm_pin_ctrl" THEN "set" ELSE config[g]]
           fdd == To("cal", {"force_tx_on", "to_alert"})
           save == Save(EnsmConfig1)
           b0 == PutBack(EnsmConfig1, fdd)
           b1 == PutBack(EnsmConfig1, alert)
           b2 == PutBack(EnsmConfig1, config)
           b3 == PutBack(EnsmConfig1, pins)
<1>1. /\ ForceAlert(set) = save \o ForcePulse \o b1
      /\ ForceFdd = save \o ForcePulse \o b0
      /\ RestoreRunning(set) = save \o ForcePulse \o (b2 \o When(PinsRemembered(set), b3))
  BY Zenon DEF ForceAlert, ForceFdd, RestoreRunning
<1>2. /\ k.reg = "EnsmConfig1" /\ k.field = f /\ k.upset \subseteq {"rate", "modes"}
      /\ EnsmConfig1.name = "EnsmConfig1" /\ f \in EnsmConfig1.fields
  BY AskedIs, RegistersAre DEF Is, Ours, On, EnsmConfig1, Register
<1>3. "set" \in k.good
  <2>1. "set" \in GoodOf(set, "EnsmConfig1", f)
    BY DEF GoodOf
  <2> QED
    BY <2>1, AskedIs
<1>4. /\ f \in {"to_alert", On(set)} => /\ f \in DOMAIN config /\ config[f] = "set"
                                        /\ f \in DOMAIN pins /\ pins[f] = "set"
      /\ f \in {"level_mode", "enable_rx_data_port_for_cal"} =>
           /\ f \notin DOMAIN alert /\ f \notin DOMAIN config /\ f \notin DOMAIN pins
           /\ f \notin DOMAIN fdd
      /\ f = "enable_ensm_pin_ctrl" =>
           /\ f \notin DOMAIN config /\ f \in DOMAIN pins /\ pins[f] = "set"
           /\ f \notin DOMAIN fdd
           /\ ~set.ensm_pin_ctrl => f \notin DOMAIN alert
  BY DEF Unforced, On, To
<1>5. f \in {"to_alert", On(set), "level_mode", "enable_rx_data_port_for_cal",
             "enable_ensm_pin_ctrl"}
  BY DEF Ours
<1> HIDE DEF k, alert, config, pins, fdd
<1>6. /\ Leads(save, k, {"field"}, {"saved"}) /\ Keeps(ForcePulse, k)
  BY ONLY <1>2, SaveLeads, AccessKeeps, Zenon DEF ForcePulse
<1>7. /\ IsScript(save) /\ IsScript(ForcePulse) /\ IsScript(b1) /\ IsScript(b2)
      /\ IsScript(When(PinsRemembered(set), b3))
  BY ONLY StepIs DEF ForcePulse
<1>8. IsScript(save \o ForcePulse \o b1) /\ IsScript(save \o ForcePulse)
  BY ONLY <1>7, CatScript, Zenon
<1>9. CASE f \in {"to_alert", On(set)}
  <2>1. Makes(b2, k) /\ Makes(b3, k)
    BY ONLY <1>2, <1>3, <1>4, <1>9, BackLeads
  <2> HIDE DEF save, b1, b2, b3
  <2>2. Safe(When(PinsRemembered(set), b3), k)
    BY ONLY <2>1, WhenSteady, MakesSafe
  <2>3. Makes(RestoreRunning(set), k)
    BY ONLY <1>1, <1>7, <1>8, <2>1, <2>2, CatMakes, ThenMakes, Zenon
  <2> QED
    BY <2>3 DEF k
<1>10. CASE f = "enable_ensm_pin_ctrl" /\ PinsRemembered(set)
  <2>1. Makes(b3, k)
    BY ONLY <1>2, <1>3, <1>4, <1>10, BackLeads
  <2> HIDE DEF save, b1, b2, b3
  <2>2. When(PinsRemembered(set), b3) = b3
    BY ONLY <1>10, WhenTrue
  <2>3. Makes(RestoreRunning(set), k)
    BY ONLY <1>1, <1>7, <1>8, <2>1, <2>2, ThenMakes, Zenon
  <2> QED
    BY <2>3 DEF k
<1>11. CASE \/ f \in {"level_mode", "enable_rx_data_port_for_cal"}
            \/ f = "enable_ensm_pin_ctrl" /\ ~set.ensm_pin_ctrl
  <2>1. /\ Leads(b1, k, {"saved"}, {"field"}) /\ Leads(b0, k, {"saved"}, {"field"})
        /\ Leads(b2, k, {"saved"}, {"field"}) /\ Keeps(b2, k)
        /\ PinsRemembered(set) => Leads(b3, k, {"saved"}, {"field"})
    <3>1. /\ f \notin DOMAIN alert /\ f \notin DOMAIN config /\ f \notin DOMAIN fdd
          /\ PinsRemembered(set) => f \notin DOMAIN pins
      BY ONLY <1>4, <1>11 DEF PinsRemembered
    <3> QED
      BY ONLY <1>2, <3>1, BackLeads
  <2>2. Steady(<< >>, k)
    BY NoneSpares
  <2> DEFINE none == << >>
  <2>3. Safe(none, k)
    BY <2>2, SteadySafe
  <2> HIDE DEF save, b0, b1, b2, b3, none
  <2>4. Safe(ForceAlert(set), k) /\ Safe(ForceFdd, k)
    BY ONLY <1>1, <1>6, <2>1, AroundSafe, Zenon
  <2>5. Leads(b2 \o When(PinsRemembered(set), b3), k, {"saved"}, {"field"})
    <3>1. CASE PinsRemembered(set)
      <4>1. When(PinsRemembered(set), b3) = b3
        BY ONLY <3>1, WhenTrue
      <4> QED
        BY ONLY <2>1, <3>1, <4>1, CatLeads, Zenon DEF Keeps
    <3>2. CASE ~PinsRemembered(set)
      <4>1. When(PinsRemembered(set), b3) = none
        BY ONLY <3>2, WhenTrue DEF none
      <4> QED
        BY ONLY <2>1, <2>3, <4>1, CatLeads, Zenon DEF Safe
    <3> QED
      BY <3>1, <3>2
  <2>6. Safe(RestoreRunning(set), k)
    BY ONLY <1>1, <1>6, <2>5, AroundSafe, Zenon
  <2> QED
    BY <2>4, <2>6 DEF k
<1>12. f = "enable_ensm_pin_ctrl" => PinsRemembered(set) \/ ~set.ensm_pin_ctrl
  BY DEF PinsRemembered, Wiped
<1> QED
  BY ONLY <1>5, <1>9, <1>10, <1>11, <1>12

LEMMA SmallLmtMakes ==
  \A set, f : f \in Ours(set, "SmallLmtOverloadThresh") =>
    Makes(GcSetup(set), Asked(set, "SmallLmtOverloadThresh", f))
<1> SUFFICES ASSUME NEW set, NEW f, f \in Ours(set, "SmallLmtOverloadThresh")
             PROVE  Makes(GcSetup(set), Asked(set, "SmallLmtOverloadThresh", f))
  OBVIOUS
<1> DEFINE k == Asked(set, "SmallLmtOverloadThresh", f)
           w1 == WriteAll(AgcConfig3)
           w2 == Write(PeakWaitTime, {"manual_ctrl_in_decr_gain_stp_size"})
           w3 == When(set.dig_gain_en, WriteAll(DigitalGain))
           w4 == Modify(SmallLmtOverloadThresh, {"small_lmt_overload_thresh"})
           w5 == When(set.split_gt, WriteAll(Rx1ManualLpfGain))
<1>1. GcSteps(set) = w1 \o w2 \o w3 \o w4 \o w5
  BY Zenon DEF GcSteps
<1>2. k.reg = "SmallLmtOverloadThresh"
  BY AskedIs
<1>3. Makes(w4, k)
  BY RegistersAre, SetMakes DEF Ours
<1>4. /\ Safe(GcPower, k) /\ Safe(GcThresholds, k) /\ Safe(GcFastSettling, k)
      /\ Safe(GcFastUnlocking, k) /\ Safe(SetAgcPulledHigh, k) /\ Safe(GcState5, k)
      /\ Safe(GcUpdate, k)
  <2>1. \A q, X : Does(q, set, X) /\ "SmallLmtOverloadThresh" \notin X => Safe(q, k)
    BY DoesSteady, SteadySafe, Zenon
  <2> HIDE DEF k
  <2>2. /\ Does(GcPower, set, {}) /\ Does(GcThresholds, set, {"DigitalSatCounter"})
        /\ Does(GcFastSettling, set, {}) /\ Does(GcFastUnlocking, set, {})
        /\ Does(SetAgcPulledHigh, set, {}) /\ Does(GcState5, set, {}) /\ Does(GcUpdate, set, {})
    BY ONLY GcPowerDoes, GcThresholdsDoes, GcFastSettlingDoes, GcFastUnlockingDoes,
            SetAgcPulledHighDoes, GcState5Does, GcUpdateDoes
  <2> QED
    BY ONLY <2>1, <2>2
<1>5. IsScript(GcModes(set))
  BY GcModesDoes DEF Does
<1> HIDE DEF k
<1>6. Steady(WriteAll(Rx1ManualLpfGain), k)
  BY ONLY <1>2, RegistersAre, OtherSteady
<1>7. /\ Safe(w5, k) /\ IsScript(w1) /\ IsScript(w2) /\ IsScript(w3)
  BY ONLY <1>6, WhenSteady, SteadySafe, StepIs
<1> HIDE DEF w1, w2, w3, w4, w5
<1>8. Makes(GcSteps(set), k)
  BY ONLY <1>1, <1>3, <1>7, CatScript, ThenMakes, CatMakes, Zenon
<1>9. Makes(GcSetup(set), k)
  BY ONLY <1>4, <1>5, <1>8, ThenMakes, CatMakes, Zenon DEF GcSetup
<1> QED
  BY <1>9 DEF k

\* The modes are set with the rest of that register, and none of the steps
\* after it takes part in it.
LEMMA ModesMake ==
  \A set, f : f \in {"rx1_gain_ctrl_setup", "rx2_gain_ctrl_setup"} =>
    Makes(GcSetup(set), Asked(set, "AgcConfig1", f))
<1> SUFFICES ASSUME NEW set, NEW f \in {"rx1_gain_ctrl_setup", "rx2_gain_ctrl_setup"}
             PROVE  Makes(GcSetup(set), Asked(set, "AgcConfig1", f))
  OBVIOUS
<1> DEFINE k == Asked(set, "AgcConfig1", f)
           vals == [g \in AgcConfig1.fields |->
                     CASE g = "rx1_gain_ctrl_setup"     -> set.modes[1]
                       [] g = "rx2_gain_ctrl_setup"     -> set.modes[2]
                       [] g = "slow_attack_hybrid_mode" ->
                            HybridBit({set.modes[1], set.modes[2]})
                       [] OTHER                         -> "set"]
           w == WriteReg(AgcConfig1, vals)
           m == Modify(AgcConfig2, {"man_gain_ctrl_rx1", "man_gain_ctrl_rx2", "dig_gain_en"})
<1>1. GcModes(set) = NewModes(set.modes) \o w \o m
  BY Zenon DEF GcModes
<1>2. k.reg = "AgcConfig1" /\ k.field = f /\ f \in AgcConfig1.fields
  BY AskedIs DEF AgcConfig1, Register
<1>3. f \in DOMAIN vals /\ vals[f] \in k.good
  <2>1. vals[f] = IF f = "rx1_gain_ctrl_setup" THEN set.modes[1] ELSE set.modes[2]
    BY <1>2
  <2>2. GoodOf(set, "AgcConfig1", f)
          = IF f = "rx1_gain_ctrl_setup" THEN {set.modes[1]} ELSE {set.modes[2]}
    BY ONLY f \in {"rx1_gain_ctrl_setup", "rx2_gain_ctrl_setup"} DEF GoodOf
  <2>3. k.good = GoodOf(set, "AgcConfig1", f)
    BY AskedIs
  <2> HIDE DEF k
  <2> QED
    BY <1>2, <2>1, <2>2, <2>3
<1>4. f \in Ours(set, "AgcConfig1")
  <2>1. FieldsOf["AgcConfig1"] = AgcConfig1.fields
    BY RegistersAre, FieldsAre DEF Is
  <2> QED
    BY ONLY <1>2, <2>1 DEF Ours
<1>5. \A q, X : Does(q, set, X) /\ "AgcConfig1" \notin X => Safe(q, k)
  BY <1>4, DoesSteady, SteadySafe, Zenon
<1> HIDE DEF k, vals
<1>6. Makes(w, k)
  BY ONLY <1>2, <1>3, RegistersAre, SettingMakes
<1>7. Steady(m, k)
  BY ONLY <1>2, RegistersAre, OtherSteady
<1>8. IsScript(NewModes(set.modes))
  BY NewDoes DEF Does
<1>9. /\ Safe(GcSteps(set), k) /\ Safe(GcPower, k) /\ Safe(GcThresholds, k)
      /\ Safe(GcFastSettling, k) /\ Safe(GcFastUnlocking, k) /\ Safe(SetAgcPulledHigh, k)
      /\ Safe(GcState5, k) /\ Safe(GcUpdate, k)
  <2>2. /\ Does(GcSteps(set), set, {"PeakWaitTime"})
        /\ Does(GcPower, set, {}) /\ Does(GcThresholds, set, {"DigitalSatCounter"})
        /\ Does(GcFastSettling, set, {}) /\ Does(GcFastUnlocking, set, {})
        /\ Does(SetAgcPulledHigh, set, {}) /\ Does(GcState5, set, {}) /\ Does(GcUpdate, set, {})
    BY ONLY GcStepsDoes, GcPowerDoes, GcThresholdsDoes, GcFastSettlingDoes, GcFastUnlockingDoes,
            SetAgcPulledHighDoes, GcState5Does, GcUpdateDoes
  <2> QED
    BY ONLY <1>5, <2>2
<1> HIDE DEF w, m
<1>10. Makes(GcModes(set), k)
  BY ONLY <1>1, <1>6, <1>7, <1>8, SteadySafe, ThenMakes, CatMakes, Zenon
<1>11. Makes(GcSetup(set), k)
  BY ONLY <1>9, <1>10, CatMakes, Zenon DEF GcSetup
<1> QED
  BY <1>11 DEF k

-----------------------------------------------------------------------------
(***************************************************************************)
(* The tuning in init spares what is set or sets it again, all but what    *)
(* forcing a state does.                                                   *)
(***************************************************************************)
LEMMA DelayMakes ==
  ASSUME NEW set, NEW r, NEW n, NEW f, NEW m \in Nat, Own(r), r.name = n, n # "EnsmConfig1",
         n # "RxEnableFilterControl", f \in Ours(set, n)
  PROVE  Makes(DigTuneDelay(set, r, m), Asked(set, n, f)) /\ Makes(WriteAll(r), Asked(set, n, f))
<1> DEFINE k == Asked(set, n, f)
           w == WriteReg(r, To("set", r.fields))
<1>1. Is(r, n) /\ f \in r.fields /\ n # "AgcConfig1"
  BY DEF Own, Is
<1>2. Makes(WriteAll(r), k)
  BY ONLY <1>1, SetMakes DEF WriteAll, k
<1>3. w = WriteAll(r)
  BY DEF WriteAll, Write
<1>4. /\ IsScript(Prefix(ClockChange(set), m)) /\ IsScript(SetIntfDelay(set, r, "cal"))
      /\ IsScript(ForceAlert(set))
  <2>1. /\ Does(Prefix(ClockChange(set), m), set, {})
        /\ Does(SetIntfDelay(set, r, "cal"), set, {n, "EnsmConfig1"})
        /\ Does(ForceAlert(set), set, {n, "EnsmConfig1"})
    BY ClockChangeDoes, SetIntfDelayDoes, ForceAlertDoes
  <2> QED
    BY ONLY <2>1 DEF Does
<1>5. Safe(ForceFdd, k)
  <2>1. Does(ForceFdd, set, {"EnsmConfig1"}) /\ n \notin {"EnsmConfig1"}
    BY ForceFddDoes
  <2> QED
    BY ONLY <2>1, f \in Ours(set, n), DoesSteady, SteadySafe, Zenon DEF k
<1> HIDE DEF k, w
<1>6. Makes(SetIntfDelay(set, r, "set"), k)
  BY ONLY <1>2, <1>3, <1>4, <1>5, ThenMakes, CatMakes, Zenon DEF SetIntfDelay, w
<1>7. Makes(DigTuneDelay(set, r, m), k)
  BY ONLY <1>4, <1>6, CatScript, ThenMakes, Zenon DEF DigTuneDelay
<1> QED
  BY <1>2, <1>7 DEF k

LEMMA DigTuneSafe ==
  ASSUME NEW set, NEW cut \in CutOffs, NEW n, NEW f, f \in Ours(set, n),
         NEW k, k = Asked(set, n, f),
         \/ n # "EnsmConfig1"
         \/ Safe(ForceAlert(set), k) /\ Safe(ForceFdd, k) /\ Safe(RestoreRunning(set), k)
  PROVE  Safe(DigTune(set, cut), k) /\ IsScript(DigTune(set, cut))
<1> DEFINE start == IF set.tune = "no" THEN UseConfigured(set) ELSE Sweeps(set, cut)
           mode == When(~set.fdd, SetEnsmMode(set))
           rx == DigTuneDelay(set, RxClockDataDelay, cut.rx)
           tx == DigTuneDelay(set, TxClockDataDelay, cut.tx)
           loop == When(set.crossed, LoopBack)
           txs == When(set.tune = "both", loop \o tx)
           fdds == When(~set.fdd, TuneEnsmMode)
<1>1. \A q, X : Does(q, set, X) => IsScript(q) /\ (n \notin X => Safe(q, k))
  BY DoesSteady, SteadySafe, Zenon DEF Does
<1>2. /\ DigTune(set, cut) = start \o mode \o RestoreRunning(set) \o SetTxAtten
      /\ Sweeps(set, cut) = SetTxAtten \o fdds \o NoLoopBack(set) \o rx \o txs
                            \o NoLoopBack(set)
  BY Zenon DEF DigTune, Sweeps
<1>3. /\ IsScript(start) /\ IsScript(mode) /\ IsScript(RestoreRunning(set))
      /\ IsScript(SetTxAtten) /\ IsScript(DigTune(set, cut)) /\ IsScript(Sweeps(set, cut))
      /\ IsScript(rx) /\ IsScript(txs) /\ IsScript(fdds) /\ IsScript(NoLoopBack(set))
  <2>1. /\ IsScript(UseConfigured(set)) /\ IsScript(Sweeps(set, cut))
        /\ IsScript(SetEnsmMode(set)) /\ IsScript(RestoreRunning(set)) /\ IsScript(SetTxAtten)
        /\ IsScript(DigTune(set, cut)) /\ IsScript(rx) /\ IsScript(tx)
        /\ IsScript(NoLoopBack(set)) /\ IsScript(LoopBack) /\ IsScript(TuneEnsmMode)
    BY ONLY DigTuneDoes, cut \in CutOffs, Zenon DEF Does
  <2> HIDE DEF rx, tx
  <2>2. IsScript(loop)
    BY ONLY <2>1, StepIs
  <2>3. IsScript(loop \o tx)
    BY ONLY <2>1, <2>2, CatScript, Zenon
  <2> HIDE DEF loop
  <2> QED
    BY ONLY <2>1, <2>3, StepIs
<1>4. /\ n # "EnsmConfig1" => Safe(ForceAlert(set), k) /\ Safe(RestoreRunning(set), k)
      /\ n # "EnsmConfig2" => Safe(SetEnsmMode(set), k)
      /\ n # "Tx2DigAtten" => Safe(SetTxAtten, k)
      /\ n \notin {"EnsmMode", "EnsmConfig2"} => Safe(TuneEnsmMode, k)
      /\ n # "TxEnableFilterControl" => Safe(LoopBack, k)
      /\ Safe(NoLoopBack(set), k)
  <2>1. /\ Does(ForceAlert(set), set, {"EnsmConfig1"})
        /\ Does(RestoreRunning(set), set, {"EnsmConfig1"})
        /\ Does(SetEnsmMode(set), set, {"EnsmConfig2"})
    BY ONLY ForceAlertDoes, RestoreRunningDoes, SetEnsmModeDoes
  <2>2. /\ Does(SetTxAtten, set, {"Tx2DigAtten"})
        /\ Does(TuneEnsmMode, set, {"EnsmMode", "EnsmConfig2"})
        /\ Does(LoopBack, set, {"TxEnableFilterControl"}) /\ Does(NoLoopBack(set), set, {})
    BY ONLY SetTxAttenDoes, TuneEnsmModeDoes, LoopBackDoes
  <2>3. n \notin {}
    OBVIOUS
  <2>4. /\ n # "EnsmConfig1" => n \notin {"EnsmConfig1"}
        /\ n # "EnsmConfig2" => n \notin {"EnsmConfig2"}
        /\ n # "Tx2DigAtten" => n \notin {"Tx2DigAtten"}
        /\ n # "TxEnableFilterControl" => n \notin {"TxEnableFilterControl"}
    OBVIOUS
  <2> QED
    BY ONLY <1>1, <2>1, <2>2, <2>3, <2>4, Zenon
<1>5. Safe(RestoreRunning(set), k) /\ Safe(NoLoopBack(set), k) /\ Safe(ForceAlert(set), k)
  BY ONLY <1>4, \/ n # "EnsmConfig1"
                \/ Safe(ForceAlert(set), k) /\ Safe(ForceFdd, k) /\ Safe(RestoreRunning(set), k)
<1>6. Safe(SetTxAtten, k)
  <2>1. CASE n = "Tx2DigAtten"
    <3>1. Ours(set, "Tx2DigAtten") = Tx2DigAtten.fields
      BY ONLY OwnAre, RegistersAre DEF Own, Is
    <3>2. f = "immediately_update_tpc_atten"
      BY <2>1, <3>1 DEF Tx2DigAtten, Register
    <3> QED
      BY ONLY <2>1, <3>2, k = Asked(set, n, f), AttenMakes, MakesSafe, Zenon
  <2> QED
    BY <1>4, <2>1
<1>7. /\ n = "EnsmConfig2" => Makes(SetEnsmMode(set), k)
      /\ n = "EnsmMode" => Makes(SetEnsmMode(set), k)
      /\ Safe(SetEnsmMode(set), k)
  BY ONLY <1>4, k = Asked(set, n, f), f \in Ours(set, n), EnsmConfig2Makes, EnsmModeMakes,
          MakesSafe
<1>8. n = "RxClockDataDelay" =>
        Makes(rx, k) /\ Makes(WriteAll(RxClockDataDelay), k)
  BY ONLY k = Asked(set, n, f), f \in Ours(set, n), DelaysAre, CutsAre, cut \in CutOffs,
          DelayMakes
<1>9. n = "TxClockDataDelay" =>
        Makes(tx, k) /\ Makes(WriteAll(TxClockDataDelay), k)
  BY ONLY k = Asked(set, n, f), f \in Ours(set, n), DelaysAre, CutsAre, cut \in CutOffs,
          DelayMakes
<1>10. Safe(WriteAll(RxClockDataDelay), k) /\ Safe(WriteAll(TxClockDataDelay), k)
  <2>1. /\ Does(WriteAll(RxClockDataDelay), set, {}) /\ Does(WriteAll(TxClockDataDelay), set, {})
    BY ONLY DelaysAre, OwnDoes, Zenon
  <2> QED
    BY <1>1, <2>1
<1>11. \A r, m : /\ Own(r) /\ m \in Nat /\ r.name # n
                 /\ n # "EnsmConfig1" \/ Safe(ForceFdd, k)
                 => Safe(DigTuneDelay(set, r, m), k)
  <2> SUFFICES ASSUME NEW r, NEW m \in Nat, Own(r), r.name # n,
                      n # "EnsmConfig1" \/ Safe(ForceFdd, k)
               PROVE  Safe(DigTuneDelay(set, r, m), k)
    BY Zenon
  <2>1. Safe(Prefix(ClockChange(set), m), k)
    <3>1. Does(Prefix(ClockChange(set), m), set, {})
      BY ClockChangeDoes
    <3> QED
      BY <1>1, <3>1
  <2>2. \A v : Safe(SetIntfDelay(set, r, v), k)
    <3> TAKE v
    <3>1. Safe(ForceFdd, k)
      <4>1. n # "EnsmConfig1" => Does(ForceFdd, set, {"EnsmConfig1"}) /\ n \notin {"EnsmConfig1"}
        BY ForceFddDoes
      <4> QED
        BY <1>1, <4>1
    <3>2. k.reg = n /\ Is(r, r.name)
      BY AskedIs DEF Own, Is
    <3>3. Safe(WriteReg(r, To(v, r.fields)), k)
      BY ONLY <3>2, r.name # n, OtherSteady, SteadySafe
    <3> QED
      BY ONLY <1>5, <3>1, <3>3, CatSafe, Zenon DEF SetIntfDelay
  <2> QED
    BY ONLY <2>1, <2>2, CatSafe, Zenon DEF DigTuneDelay
<1>12. Safe(rx, k) /\ Safe(tx, k)
  <2>1. n # "EnsmConfig1" \/ Safe(ForceFdd, k)
    OBVIOUS
  <2> HIDE DEF rx, tx
  <2>2. /\ n # "RxClockDataDelay" => Safe(rx, k)
        /\ n # "TxClockDataDelay" => Safe(tx, k)
    BY ONLY <1>11, <2>1, DelaysAre, CutsAre, cut \in CutOffs DEF rx, tx
  <2> QED
    BY ONLY <1>8, <1>9, <2>2, MakesSafe
<1>13. CASE n \in {"EnsmMode", "EnsmConfig2"} /\ ~set.fdd
  <2>1. mode = SetEnsmMode(set) /\ Makes(SetEnsmMode(set), k)
    BY ONLY <1>7, <1>13, WhenTrue
  <2> HIDE DEF start, mode
  <2>2. Makes(DigTune(set, cut), k)
    BY ONLY <1>2, <1>3, <1>5, <1>6, <2>1, ThenMakes, CatMakes, Zenon
  <2> QED
    BY ONLY <1>3, <2>2, MakesSafe
<1>14. CASE ~(n \in {"EnsmMode", "EnsmConfig2"} /\ ~set.fdd)
  <2>1. Safe(mode, k)
    BY ONLY <1>7, WhenSteady
  <2>2. Safe(fdds, k)
    BY ONLY <1>4, <1>14, WhenSteady
  <2>3. Safe(UseConfigured(set), k)
    BY ONLY <1>5, <1>10, CatSafe, Zenon DEF UseConfigured
  <2>4. Safe(Sweeps(set, cut), k)
    <3>1. CASE set.crossed /\ n = "TxEnableFilterControl" /\ f = "tx_channel_enable"
      <4>1. Makes(SetTxChannels, k)
        BY <3>1, RegistersAre, SetMakes DEF SetTxChannels
      <4>2. Makes(NoLoopBack(set), k)
        BY ONLY <3>1, <4>1, WhenTrue DEF NoLoopBack
      <4> HIDE DEF rx, txs, fdds
      <4>3. Makes(Sweeps(set, cut), k)
        BY ONLY <1>2, <1>3, <4>2, CatScript, ThenMakes, Zenon
      <4> QED
        BY ONLY <4>3, MakesSafe
    <3>2. CASE ~(set.crossed /\ n = "TxEnableFilterControl" /\ f = "tx_channel_enable")
      <4>1. set.crossed => Safe(LoopBack, k)
        <5>1. CASE n # "TxEnableFilterControl"
          BY <1>4, <5>1
        <5>2. CASE f # "tx_channel_enable"
          <6>1. k.field \notin DOMAIN [tx_channel_enable |-> "cal"]
            BY <5>2, AskedIs
          <6>2. Steady(ModifyReg(TxEnableFilterControl, [tx_channel_enable |-> "cal"]), k)
            BY ONLY <6>1, SparingSteady
          <6> QED
            BY ONLY <6>2, SteadySafe DEF LoopBack
        <5> QED
          BY <3>2, <5>1, <5>2
      <4>2. Safe(loop, k)
        BY ONLY <4>1, WhenSteady
      <4> HIDE DEF rx, tx, loop, fdds
      <4>3. Safe(loop \o tx, k)
        BY ONLY <1>12, <4>2, CatSafe, Zenon
      <4>4. Safe(txs, k)
        BY ONLY <4>3, WhenSteady
      <4> HIDE DEF txs
      <4> QED
        BY ONLY <1>2, <1>5, <1>6, <1>12, <2>2, <4>4, CatSafe, Zenon
    <3> QED
      BY <3>1, <3>2
  <2>5. Safe(start, k)
    BY ONLY <2>3, <2>4
  <2> HIDE DEF start, mode
  <2>6. Safe(DigTune(set, cut), k)
    BY ONLY <1>2, <1>5, <1>6, <2>1, <2>5, CatSafe, Zenon
  <2> QED
    BY ONLY <1>3, <2>6
<1> QED
  BY <1>13, <1>14

-----------------------------------------------------------------------------
(***************************************************************************)
(* The stages of init.                                                     *)
(***************************************************************************)
Ports(set, rate) ==
  AuxdacSetup \o GpoSetup \o PowerUp \o SetTrxClockChain(set, rate)
  \o SetTxChannels \o SetRxChannels \o RfPortSetup \o PpPortSetup(set)

Gains(set, rate) ==
  Ports(set, rate) \o AuxadcSetup \o SetupExtLna \o SynthRefs \o CpCalib(set) \o CpCalib(set)
  \o WriteGainTable \o GcSetup(set)

Calibs(set, rate) ==
  Gains(set, rate) \o FilterTuning \o RfDcOffsetCalib \o TxQuadCalib(set) \o TrackingControl

MaskAtten == Modify(TxAttenOffset, {"mask_clr_atten_update"})
SetOther(set) == When(Cardinality(set.channels) = 1, SetTxAtten)

Attens(set, rate) ==
  Calibs(set, rate) \o RestoreConf3(set) \o SetEnsmMode(set) \o MaskAtten \o SetTxAtten
  \o SetOther(set)

Ends(set, rate) ==
  Attens(set, rate) \o RssiSetup(set) \o RssiGainStepCalib \o ClkoutControl \o TxmonSetup
  \o EnsmSetRunning(set)

LEMMA InitIs ==
  \A set, rate, cut :
    /\ Setup(set, rate) = Ends(set, rate)
    /\ InitScript(set, rate, cut) =
         Ends(set, rate) \o (DigTune(set, cut) \o SetTrxClockChain(set, rate)
                             \o ForceAlert(set) \o RestoreRunning(set))
<1>1. \A set, rate : Setup(set, rate) = Ends(set, rate)
  BY Zenon DEF Setup, Ends, Attens, Calibs, Gains, Ports, MaskAtten, SetOther
<1> QED
  BY ONLY <1>1, Zenon DEF InitScript, PostSetup

\* The registers that some step leaves as nobody asked for.
Troubled ==
  {"ParallelPortConf3", "ParallelPortConf2", "EnsmConfig1", "EnsmConfig2", "EnsmMode",
   "PeakWaitTime", "DigitalSatCounter", "Rx1TuneControl", "Rx2TuneControl", "TxTuneControl",
   "DcOffsetConfig2", "InvertBits", "QuadCalControl", "SmallLmtOverloadThresh", "Tx2DigAtten",
   "RssiConfig", "MeasureDuration01"}

LEMMA MaskAttenDoes == \A set, X : Does(MaskAtten, set, X)
<1> SUFFICES ASSUME NEW set, NEW X PROVE Does(MaskAtten, set, X)
  OBVIOUS
<1>1. {"mask_clr_atten_update"} \subseteq TxAttenOffset.fields
  BY DEF TxAttenOffset, Register
<1> QED
  BY ONLY <1>1, OwnAre, OwnDoes DEF MaskAtten

LEMMA StepsDo ==
  ASSUME NEW set, NEW rate \in Rates
  PROVE  /\ Does(AuxdacSetup, set, {}) /\ Does(GpoSetup, set, {}) /\ Does(PowerUp, set, {})
         /\ Does(SetTrxClockChain(set, rate), set, {})
         /\ Does(SetTxChannels, set, {}) /\ Does(SetRxChannels, set, {})
         /\ Does(RfPortSetup, set, {}) /\ Does(PpPortSetup(set), set, {})
         /\ Does(AuxadcSetup, set, {}) /\ Does(SetupExtLna, set, {}) /\ Does(SynthRefs, set, {})
         /\ Does(CpCalib(set), set,
                 {"ParallelPortConf3", "EnsmConfig2", "EnsmConfig1", "EnsmMode"})
         /\ Does(WriteGainTable, set, {})
         /\ Does(GcSetup(set), set, {"PeakWaitTime", "DigitalSatCounter"})
         /\ Does(FilterTuning, set, {"Rx1TuneControl", "Rx2TuneControl", "TxTuneControl"})
         /\ Does(RfDcOffsetCalib, set, {"DcOffsetConfig2"})
         /\ Does(TxQuadCalib(set), set, {"ParallelPortConf2", "InvertBits", "QuadCalControl"})
         /\ Does(TrackingControl, set, {}) /\ Does(RestoreConf3(set), set, {})
         /\ Does(SetEnsmMode(set), set, {"EnsmConfig2"}) /\ Does(MaskAtten, set, {})
         /\ Does(SetTxAtten, set, {"Tx2DigAtten"}) /\ Does(SetOther(set), set, {"Tx2DigAtten"})
         /\ Does(RssiSetup(set), set, {})
         /\ Does(RssiGainStepCalib, set, {"RssiConfig", "MeasureDuration01", "EnsmConfig1"})
         /\ Does(ClkoutControl, set, {}) /\ Does(TxmonSetup, set, {})
         /\ Does(EnsmSetRunning(set), set, {"SmallLmtOverloadThresh", "EnsmConfig2"})
         /\ Does(ForceAlert(set), set, {"EnsmConfig1"})
         /\ Does(RestoreRunning(set), set, {"EnsmConfig1"})
<1>1. /\ Does(AuxdacSetup, set, {}) /\ Does(GpoSetup, set, {}) /\ Does(PowerUp, set, {})
      /\ Does(SetTrxClockChain(set, rate), set, {})
      /\ Does(SetTxChannels, set, {}) /\ Does(SetRxChannels, set, {})
      /\ Does(RfPortSetup, set, {}) /\ Does(PpPortSetup(set), set, {})
      /\ Does(AuxadcSetup, set, {}) /\ Does(SetupExtLna, set, {}) /\ Does(SynthRefs, set, {})
      /\ Does(WriteGainTable, set, {})
      /\ Does(TrackingControl, set, {}) /\ Does(RestoreConf3(set), set, {})
      /\ Does(MaskAtten, set, {}) /\ Does(RssiSetup(set), set, {})
      /\ Does(ClkoutControl, set, {}) /\ Does(TxmonSetup, set, {})
  BY ONLY AuxdacSetupDoes, GpoSetupDoes, PowerUpDoes, SetTrxClockChainDoes, SetTxChannelsDoes,
          SetRxChannelsDoes, RfPortSetupDoes, PpPortSetupDoes, AuxadcSetupDoes, SetupExtLnaDoes,
          SynthRefsDoes, WriteGainTableDoes, TrackingControlDoes, Conf3Does, MaskAttenDoes,
          RssiSetupDoes, ClkoutControlDoes, TxmonSetupDoes, Zenon
<1>2. /\ Does(CpCalib(set), set, {"ParallelPortConf3", "EnsmConfig2", "EnsmConfig1", "EnsmMode"})
      /\ Does(GcSetup(set), set, {"PeakWaitTime", "DigitalSatCounter"})
      /\ Does(FilterTuning, set, {"Rx1TuneControl", "Rx2TuneControl", "TxTuneControl"})
      /\ Does(TxQuadCalib(set), set, {"ParallelPortConf2", "InvertBits", "QuadCalControl"})
      /\ Does(RssiGainStepCalib, set, {"RssiConfig", "MeasureDuration01", "EnsmConfig1"})
  BY ONLY CpCalibDoes, GcSetupDoes, FilterTuningDoes, TxQuadCalibDoes, RssiGainStepCalibDoes
<1>3. /\ Does(RfDcOffsetCalib, set, {"DcOffsetConfig2"})
      /\ Does(SetEnsmMode(set), set, {"EnsmConfig2"})
      /\ Does(SetTxAtten, set, {"Tx2DigAtten"}) /\ Does(SetOther(set), set, {"Tx2DigAtten"})
      /\ Does(EnsmSetRunning(set), set, {"SmallLmtOverloadThresh", "EnsmConfig2"})
      /\ Does(ForceAlert(set), set, {"EnsmConfig1"})
      /\ Does(RestoreRunning(set), set, {"EnsmConfig1"})
  BY ONLY RfDcOffsetCalibDoes, SetEnsmModeDoes, SetTxAttenDoes, EnsmSetRunningDoes,
          ForceAlertDoes, RestoreRunningDoes, WhenDoes DEF SetOther
<1> QED
  BY <1>1, <1>2, <1>3

LEMMA MoreDoes == \A q, set, X, Y : Does(q, set, X) /\ X \subseteq Y => Does(q, set, Y)
<1>1. \A a, set, X, Y : Orderly(a, set, X) /\ X \subseteq Y => Orderly(a, set, Y)
  BY DEF Orderly
<1> QED
  BY ONLY <1>1, Zenon DEF Does

LEMMA SetupDoes == \A set : \A rate \in Rates : Does(Setup(set, rate), set, Troubled)
<1> SUFFICES ASSUME NEW set, NEW rate \in Rates PROVE Does(Setup(set, rate), set, Troubled)
  OBVIOUS
<1> DEFINE Fit(X) == \A q : Does(q, set, X) => Does(q, set, Troubled)
<1>1. /\ Fit({}) /\ Fit({"ParallelPortConf3", "EnsmConfig2", "EnsmConfig1", "EnsmMode"})
      /\ Fit({"PeakWaitTime", "DigitalSatCounter"})
      /\ Fit({"Rx1TuneControl", "Rx2TuneControl", "TxTuneControl"})
      /\ Fit({"DcOffsetConfig2"})
      /\ Fit({"ParallelPortConf2", "InvertBits", "QuadCalControl"})
      /\ Fit({"EnsmConfig2"}) /\ Fit({"Tx2DigAtten"})
      /\ Fit({"RssiConfig", "MeasureDuration01", "EnsmConfig1"})
      /\ Fit({"SmallLmtOverloadThresh", "EnsmConfig2"}) /\ Fit({"EnsmConfig1"})
  <2>1. \A X : X \subseteq Troubled => Fit(X)
    BY MoreDoes, Zenon
  <2> HIDE DEF Fit
  <2> QED
    BY <2>1 DEF Troubled
<1> DEFINE Do(q) == Does(q, set, Troubled)
<1>2. /\ Do(AuxdacSetup) /\ Do(GpoSetup) /\ Do(PowerUp) /\ Do(SetTrxClockChain(set, rate))
      /\ Do(SetTxChannels) /\ Do(SetRxChannels) /\ Do(RfPortSetup) /\ Do(PpPortSetup(set))
  BY ONLY <1>1, StepsDo, Zenon
<1>3. /\ Do(AuxadcSetup) /\ Do(SetupExtLna) /\ Do(SynthRefs) /\ Do(CpCalib(set))
      /\ Do(WriteGainTable) /\ Do(GcSetup(set))
  BY ONLY <1>1, StepsDo, Zenon
<1>4. /\ Do(FilterTuning) /\ Do(RfDcOffsetCalib) /\ Do(TxQuadCalib(set)) /\ Do(TrackingControl)
  BY ONLY <1>1, StepsDo, Zenon
<1>5. /\ Do(RestoreConf3(set)) /\ Do(SetEnsmMode(set)) /\ Do(MaskAtten) /\ Do(SetTxAtten)
      /\ Do(SetOther(set))
  BY ONLY <1>1, StepsDo, Zenon
<1>6. /\ Do(RssiSetup(set)) /\ Do(RssiGainStepCalib) /\ Do(ClkoutControl) /\ Do(TxmonSetup)
      /\ Do(EnsmSetRunning(set)) /\ Do(ForceAlert(set)) /\ Do(RestoreRunning(set))
  BY ONLY <1>1, StepsDo, Zenon
<1>7. \A a, b : Do(a) /\ Do(b) => Do(a \o b)
  BY CatDoes
<1> HIDE DEF Do, Fit
<1>8. Do(Ports(set, rate))
  BY ONLY <1>2, <1>7, Zenon DEF Ports
<1>9. Do(Gains(set, rate))
  BY ONLY <1>3, <1>7, <1>8, Zenon DEF Gains
<1>10. Do(Calibs(set, rate))
  BY ONLY <1>4, <1>7, <1>9, Zenon DEF Calibs
<1>11. Do(Attens(set, rate))
  BY ONLY <1>5, <1>7, <1>10, Zenon DEF Attens
<1>12. Do(Ends(set, rate))
  BY ONLY <1>6, <1>7, <1>11, Zenon DEF Ends
<1>13. Do(Setup(set, rate))
  BY ONLY <1>12, InitIs, Zenon
<1> QED
  BY <1>13 DEF Do

LEMMA InitDoes ==
  \A set : \A rate \in Rates, cut \in CutOffs :
    Does(InitScript(set, rate, cut), set, Troubled \cup Tuned)
<1> SUFFICES ASSUME NEW set, NEW rate \in Rates, NEW cut \in CutOffs
             PROVE  Does(InitScript(set, rate, cut), set, Troubled \cup Tuned)
  OBVIOUS
<1> DEFINE X == Troubled \cup Tuned
<1>1. Troubled \subseteq X /\ Tuned \subseteq X /\ "EnsmConfig1" \in X
  BY DEF Tuned
<1> HIDE DEF X
<1>2. Does(Setup(set, rate), set, X) /\ Does(DigTune(set, cut), set, X)
  BY ONLY <1>1, SetupDoes, DigTuneDoes, MoreDoes, rate \in Rates, cut \in CutOffs, Zenon
<1>3. /\ Does(SetTrxClockChain(set, rate), set, X) /\ Does(ForceAlert(set), set, X)
      /\ Does(RestoreRunning(set), set, X)
  BY ONLY <1>1, SetTrxClockChainDoes, ForceAlertDoes, RestoreRunningDoes, rate \in Rates
<1>4. Does(InitScript(set, rate, cut), set, X)
  BY ONLY <1>2, <1>3, CatDoes, Zenon DEF InitScript, PostSetup
<1> QED
  BY <1>4 DEF X

\* From stage to stage, for the registers that nobody else takes part in.
Stages(set, rate, cut, n, k) ==
  /\ (Makes(SetRxChannels, k) \/ Makes(PpPortSetup(set), k) => Makes(Ports(set, rate), k))
  /\ ((/\ Makes(Ports(set, rate), k)
       /\ n \notin {"ParallelPortConf3", "EnsmConfig2", "EnsmConfig1", "EnsmMode",
                    "PeakWaitTime", "DigitalSatCounter"})
        => Makes(Gains(set, rate), k))
  /\ (Makes(GcSetup(set), k) => Makes(Gains(set, rate), k))
  /\ ((/\ Makes(Gains(set, rate), k)
       /\ n \notin {"Rx1TuneControl", "Rx2TuneControl", "TxTuneControl", "DcOffsetConfig2"}
       /\ \/ n \notin {"ParallelPortConf2", "InvertBits", "QuadCalControl"}
          \/ Safe(TxQuadCalib(set), k))
        => Makes(Calibs(set, rate), k))
  /\ ((/\ Makes(FilterTuning, k)
       /\ n \in {"Rx1TuneControl", "Rx2TuneControl", "TxTuneControl"})
        => Makes(Calibs(set, rate), k))
  /\ (Makes(RfDcOffsetCalib, k) /\ Safe(TxQuadCalib(set), k) => Makes(Calibs(set, rate), k))
  /\ (Makes(TxQuadCalib(set), k) \/ Makes(TrackingControl, k) => Makes(Calibs(set, rate), k))
  /\ (Makes(Calibs(set, rate), k) /\ n \notin {"EnsmConfig2", "Tx2DigAtten"}
        => Makes(Attens(set, rate), k))
  /\ (Makes(RestoreConf3(set), k) /\ n \notin {"EnsmConfig2", "Tx2DigAtten"}
        => Makes(Attens(set, rate), k))
  /\ (Makes(SetEnsmMode(set), k) /\ n # "Tx2DigAtten" => Makes(Attens(set, rate), k))
  /\ (Makes(SetTxAtten, k) => Makes(Attens(set, rate), k))
  /\ ((/\ Makes(Attens(set, rate), k)
       /\ n \notin {"RssiConfig", "MeasureDuration01", "EnsmConfig1"}
       /\ \/ n \notin {"SmallLmtOverloadThresh", "EnsmConfig2"}
          \/ Safe(EnsmSetRunning(set), k))
        => Makes(Ends(set, rate), k))
  /\ (Makes(EnsmSetRunning(set), k) => Makes(Ends(set, rate), k))
  /\ (Makes(Ends(set, rate), k) /\ n # "EnsmConfig1" => Makes(InitScript(set, rate, cut), k))
  /\ IsScript(Ends(set, rate))

LEMMA StagesMake ==
  ASSUME NEW set, NEW rate \in Rates, NEW cut \in CutOffs, NEW n, NEW f, f \in Ours(set, n),
         NEW k, k = Asked(set, n, f)
  PROVE  Stages(set, rate, cut, n, k)
<1> DEFINE Ok(q) == Safe(q, k) /\ IsScript(q)
<1>1. \A q, X : Does(q, set, X) => IsScript(q) /\ (n \notin X => Safe(q, k))
  BY DoesSteady, SteadySafe, Zenon DEF Does
<1>2. /\ Ok(AuxdacSetup) /\ Ok(GpoSetup) /\ Ok(PowerUp) /\ Ok(SetTrxClockChain(set, rate))
      /\ Ok(SetTxChannels) /\ Ok(SetRxChannels) /\ Ok(RfPortSetup) /\ Ok(PpPortSetup(set))
      /\ Ok(AuxadcSetup) /\ Ok(SetupExtLna) /\ Ok(SynthRefs) /\ Ok(WriteGainTable)
      /\ Ok(TrackingControl) /\ Ok(RestoreConf3(set)) /\ Ok(MaskAtten) /\ Ok(RssiSetup(set))
      /\ Ok(ClkoutControl) /\ Ok(TxmonSetup)
  <2>1. \A q : Does(q, set, {}) => Ok(q)
    BY <1>1
  <2> HIDE DEF Ok
  <2> QED
    BY ONLY <2>1, StepsDo, Zenon
<1>3. /\ IsScript(CpCalib(set)) /\ IsScript(GcSetup(set)) /\ IsScript(FilterTuning)
      /\ IsScript(RfDcOffsetCalib) /\ IsScript(TxQuadCalib(set)) /\ IsScript(SetEnsmMode(set))
      /\ IsScript(SetTxAtten) /\ IsScript(SetOther(set)) /\ IsScript(RssiGainStepCalib)
      /\ IsScript(EnsmSetRunning(set)) /\ IsScript(ForceAlert(set))
      /\ IsScript(RestoreRunning(set))
  BY ONLY StepsDo, Zenon DEF Does
<1>4. /\ n \notin {"ParallelPortConf3", "EnsmConfig2", "EnsmConfig1", "EnsmMode"} =>
           Safe(CpCalib(set), k)
      /\ n \notin {"PeakWaitTime", "DigitalSatCounter"} => Safe(GcSetup(set), k)
      /\ n \notin {"Rx1TuneControl", "Rx2TuneControl", "TxTuneControl"} =>
           Safe(FilterTuning, k)
      /\ n \notin {"DcOffsetConfig2"} => Safe(RfDcOffsetCalib, k)
      /\ n \notin {"ParallelPortConf2", "InvertBits", "QuadCalControl"} =>
           Safe(TxQuadCalib(set), k)
      /\ n \notin {"EnsmConfig2"} => Safe(SetEnsmMode(set), k)
      /\ n \notin {"Tx2DigAtten"} => Safe(SetTxAtten, k) /\ Safe(SetOther(set), k)
      /\ n \notin {"RssiConfig", "MeasureDuration01", "EnsmConfig1"} =>
           Safe(RssiGainStepCalib, k)
      /\ n \notin {"SmallLmtOverloadThresh", "EnsmConfig2"} => Safe(EnsmSetRunning(set), k)
      /\ n \notin {"EnsmConfig1"} => Safe(ForceAlert(set), k) /\ Safe(RestoreRunning(set), k)
  BY ONLY <1>1, StepsDo, Zenon
<1>5. Makes(SetTxAtten, k) => Safe(SetOther(set), k)
  BY ONLY WhenSteady, MakesSafe DEF SetOther
<1>6. /\ IsScript(Ports(set, rate)) /\ IsScript(Gains(set, rate))
      /\ IsScript(Calibs(set, rate)) /\ IsScript(Attens(set, rate))
      /\ IsScript(Ends(set, rate))
  <2>1. IsScript(Ports(set, rate))
    BY ONLY <1>2, CatScript, Zenon DEF Ports
  <2>2. IsScript(Gains(set, rate))
    BY ONLY <1>2, <1>3, <2>1, CatScript, Zenon DEF Gains
  <2>3. IsScript(Calibs(set, rate))
    BY ONLY <1>2, <1>3, <2>2, CatScript, Zenon DEF Calibs
  <2>4. IsScript(Attens(set, rate))
    BY ONLY <1>2, <1>3, <2>3, CatScript, Zenon DEF Attens
  <2>5. IsScript(Ends(set, rate))
    BY ONLY <1>2, <1>3, <2>4, CatScript, Zenon DEF Ends
  <2> QED
    BY ONLY <2>1, <2>2, <2>3, <2>4, <2>5
<1>7. Makes(SetRxChannels, k) => Makes(Ports(set, rate), k)
  BY ONLY <1>2, CatScript, ThenMakes, CatMakes, Zenon DEF Ports
<1>8. Makes(PpPortSetup(set), k) => Makes(Ports(set, rate), k)
  BY ONLY <1>2, CatScript, ThenMakes, CatMakes, Zenon DEF Ports
<1>9. ASSUME Makes(Ports(set, rate), k),
             n \notin {"ParallelPortConf3", "EnsmConfig2", "EnsmConfig1", "EnsmMode",
                       "PeakWaitTime", "DigitalSatCounter"}
      PROVE  Makes(Gains(set, rate), k)
  <2>1. Safe(CpCalib(set), k) /\ Safe(GcSetup(set), k)
    BY ONLY <1>4, <1>9
  <2> QED
    BY ONLY <1>2, <1>9, <2>1, CatMakes, Zenon DEF Gains
<1>10. Makes(GcSetup(set), k) => Makes(Gains(set, rate), k)
  BY ONLY <1>2, <1>3, <1>6, CatScript, ThenMakes, Zenon DEF Gains
<1>11. ASSUME Makes(Gains(set, rate), k),
              n \notin {"Rx1TuneControl", "Rx2TuneControl", "TxTuneControl", "DcOffsetConfig2"},
              n \notin {"ParallelPortConf2", "InvertBits", "QuadCalControl"}
              \/ Safe(TxQuadCalib(set), k)
       PROVE  Makes(Calibs(set, rate), k)
  <2>1. Safe(FilterTuning, k) /\ Safe(RfDcOffsetCalib, k) /\ Safe(TxQuadCalib(set), k)
    BY ONLY <1>4, <1>11
  <2> QED
    BY ONLY <1>2, <1>11, <2>1, CatMakes, Zenon DEF Calibs
<1>12. ASSUME Makes(FilterTuning, k),
              n \in {"Rx1TuneControl", "Rx2TuneControl", "TxTuneControl"}
       PROVE  Makes(Calibs(set, rate), k)
  <2>1. Safe(RfDcOffsetCalib, k) /\ Safe(TxQuadCalib(set), k)
    BY ONLY <1>4, <1>12
  <2> QED
    BY ONLY <1>2, <1>6, <1>12, <2>1, ThenMakes, CatMakes, Zenon DEF Calibs
<1>13. Makes(RfDcOffsetCalib, k) /\ Safe(TxQuadCalib(set), k) => Makes(Calibs(set, rate), k)
  BY ONLY <1>2, <1>3, <1>6, CatScript, ThenMakes, CatMakes, Zenon DEF Calibs
<1>14. Makes(TxQuadCalib(set), k) \/ Makes(TrackingControl, k) => Makes(Calibs(set, rate), k)
  BY ONLY <1>2, <1>3, <1>6, CatScript, ThenMakes, CatMakes, Zenon DEF Calibs
<1>15. ASSUME n \notin {"EnsmConfig2", "Tx2DigAtten"},
              Makes(Calibs(set, rate), k) \/ Makes(RestoreConf3(set), k)
       PROVE  Makes(Attens(set, rate), k)
  <2>1. Safe(SetEnsmMode(set), k) /\ Safe(SetTxAtten, k) /\ Safe(SetOther(set), k)
    BY ONLY <1>4, <1>15
  <2> QED
    BY ONLY <1>2, <1>6, <1>15, <2>1, ThenMakes, CatMakes, Zenon DEF Attens
<1>16. ASSUME Makes(SetEnsmMode(set), k), n # "Tx2DigAtten" PROVE Makes(Attens(set, rate), k)
  <2>1. Safe(SetTxAtten, k) /\ Safe(SetOther(set), k)
    BY ONLY <1>4, <1>16
  <2> QED
    BY ONLY <1>2, <1>6, <1>16, <2>1, CatScript, ThenMakes, CatMakes, Zenon DEF Attens
<1>17. Makes(SetTxAtten, k) => Makes(Attens(set, rate), k)
  BY ONLY <1>2, <1>3, <1>5, <1>6, CatScript, ThenMakes, CatMakes, Zenon DEF Attens
<1>18. ASSUME Makes(Attens(set, rate), k),
              n \notin {"RssiConfig", "MeasureDuration01", "EnsmConfig1"},
              n \notin {"SmallLmtOverloadThresh", "EnsmConfig2"} \/ Safe(EnsmSetRunning(set), k)
       PROVE  Makes(Ends(set, rate), k)
  <2>1. Safe(RssiGainStepCalib, k) /\ Safe(EnsmSetRunning(set), k)
    BY ONLY <1>4, <1>18
  <2> QED
    BY ONLY <1>2, <1>18, <2>1, CatMakes, Zenon DEF Ends
<1>19. Makes(EnsmSetRunning(set), k) => Makes(Ends(set, rate), k)
  BY ONLY <1>2, <1>3, <1>6, CatScript, ThenMakes, Zenon DEF Ends
<1>20. ASSUME Makes(Ends(set, rate), k), n # "EnsmConfig1"
       PROVE  Makes(InitScript(set, rate, cut), k)
  <2>1. Safe(ForceAlert(set), k) /\ Safe(RestoreRunning(set), k)
    BY ONLY <1>4, <1>20
  <2>t. Safe(DigTune(set, cut), k)
    BY <1>20, DigTuneSafe
  <2>2. Safe(DigTune(set, cut) \o SetTrxClockChain(set, rate) \o ForceAlert(set) \o RestoreRunning(set), k)
    BY ONLY <1>2, <2>1, <2>t, CatSafe, Zenon
  <2> QED
    BY ONLY <1>20, <2>2, InitIs, CatMakes, Zenon
<1> HIDE DEF Ok
<1> QED
  BY ONLY <1>6, <1>7, <1>8, <1>9, <1>10, <1>11, <1>12, <1>13, <1>14, <1>15, <1>16, <1>17, <1>18,
     <1>19, <1>20 DEF Stages

\* Not what rssi_gain_step_calib overwrites, or the pin control that the tuning loses.
LEMMA TroubledMakes ==
  ASSUME NEW set, NEW rate \in Rates, NEW cut \in CutOffs, NEW n \in Troubled, NEW f,
         f \in Ours(set, n), ~Wiped(set, n, f)
  PROVE  Makes(InitScript(set, rate, cut), Asked(set, n, f))
<1> DEFINE k == Asked(set, n, f)
<1>1. k = Asked(set, n, f)
  OBVIOUS
<1> HIDE DEF k
<1>s. Stages(set, rate, cut, n, k)
  BY <1>1, StagesMake
<1>2. CASE n = "ParallelPortConf2"
  <2>1. Makes(PpPortSetup(set), k) /\ Safe(TxQuadCalib(set), k)
    BY ONLY <1>1, <1>2, f \in Ours(set, n), Conf2Makes, Conf2Safe
  <2> QED
    BY ONLY <1>1, <1>2, <2>1, <1>s DEF Stages
<1>3. CASE n \in {"PeakWaitTime", "DigitalSatCounter"}
  <2>1. Makes(GcSetup(set), k)
    BY ONLY <1>1, <1>3, f \in Ours(set, n), GainMakes
  <2> QED
    BY ONLY <1>1, <1>3, <2>1, <1>s DEF Stages
<1>4. CASE n = "SmallLmtOverloadThresh"
  <2>1. Makes(GcSetup(set), k) /\ Safe(EnsmSetRunning(set), k)
    BY ONLY <1>1, <1>4, f \in Ours(set, n), SmallLmtMakes, SmallLmtSafe
  <2> QED
    BY ONLY <1>1, <1>4, <2>1, <1>s DEF Stages
<1>5. CASE n \in {"Rx1TuneControl", "Rx2TuneControl", "TxTuneControl"}
  <2>1. Makes(FilterTuning, k)
    BY ONLY <1>1, <1>5, f \in Ours(set, n), TuneMakes
  <2> QED
    BY ONLY <1>1, <1>5, <2>1, <1>s DEF Stages
<1>6. CASE n = "InvertBits"
  <2>1. Makes(RfDcOffsetCalib, k) /\ Safe(TxQuadCalib(set), k)
    BY ONLY <1>1, <1>6, f \in Ours(set, n), InvertBitsMakes, InvertBitsSafe
  <2> QED
    BY ONLY <1>1, <1>6, <2>1, <1>s DEF Stages
<1>7. CASE n = "QuadCalControl"
  <2>1. Makes(TxQuadCalib(set), k)
    BY ONLY <1>1, <1>7, f \in Ours(set, n), QuadMakes
  <2> QED
    BY ONLY <1>1, <1>7, <2>1, <1>s DEF Stages
<1>8. CASE n = "DcOffsetConfig2"
  <2>1. Makes(TrackingControl, k)
    BY ONLY <1>1, <1>8, f \in Ours(set, n), OffsetMakes
  <2> QED
    BY ONLY <1>1, <1>8, <2>1, <1>s DEF Stages
<1>9. CASE n = "ParallelPortConf3"
  <2>1. Makes(RestoreConf3(set), k)
    BY ONLY <1>1, <1>9, f \in Ours(set, n), Conf3Makes
  <2> QED
    BY ONLY <1>1, <1>9, <2>1, <1>s DEF Stages
<1>10. CASE n = "EnsmMode"
  <2>1. Makes(SetEnsmMode(set), k)
    BY ONLY <1>1, <1>10, f \in Ours(set, n), EnsmModeMakes
  <2> QED
    BY ONLY <1>1, <1>10, <2>1, <1>s DEF Stages
<1>11. CASE n = "EnsmConfig2"
  <2>1. Makes(SetEnsmMode(set), k) /\ Safe(EnsmSetRunning(set), k)
    BY ONLY <1>1, <1>11, f \in Ours(set, n), EnsmConfig2Makes
  <2> QED
    BY ONLY <1>1, <1>11, <2>1, <1>s DEF Stages
<1>12. CASE n = "Tx2DigAtten"
  <2>1. Ours(set, "Tx2DigAtten") = Tx2DigAtten.fields
    BY ONLY OwnAre, RegistersAre DEF Own, Is
  <2>2. f = "immediately_update_tpc_atten"
    BY <1>12, <2>1 DEF Tx2DigAtten, Register
  <2>3. Makes(SetTxAtten, k)
    BY ONLY <1>1, <1>12, <2>2, AttenMakes
  <2> QED
    BY ONLY <1>1, <1>12, <2>3, <1>s DEF Stages
<1>13. CASE n = "EnsmConfig1"
  <2>1. Makes(EnsmSetRunning(set), k)
    BY ONLY <1>1, <1>13, f \in Ours(set, n), EnsmConfig1Makes
  <2>2. Makes(Ends(set, rate), k)
    BY ONLY <1>1, <2>1, <1>s DEF Stages
  <2>3. \/ Makes(RestoreRunning(set), k)
        \/ Safe(ForceAlert(set), k) /\ Safe(ForceFdd, k) /\ Safe(RestoreRunning(set), k)
    BY ONLY <1>1, <1>13, f \in Ours(set, n), ~Wiped(set, n, f), ForcedSafe
  <2>t. /\ IsScript(DigTune(set, cut))
        /\ (Safe(ForceAlert(set), k) /\ Safe(ForceFdd, k) /\ Safe(RestoreRunning(set), k)
              => Safe(DigTune(set, cut), k))
    BY ONLY <1>1, f \in Ours(set, n), cut \in CutOffs, DigTuneDoes, DigTuneSafe DEF Does
  <2>4. /\ Safe(SetTrxClockChain(set, rate), k)
        /\ IsScript(SetTrxClockChain(set, rate)) /\ IsScript(ForceAlert(set))
        /\ IsScript(Ends(set, rate))
    <3>1. Does(SetTrxClockChain(set, rate), set, {}) /\ Does(ForceAlert(set), set, {"EnsmConfig1"})
      BY ONLY StepsDo
    <3>2. n \notin {}
      OBVIOUS
    <3> QED
      BY ONLY <1>1, <2>2, <3>1, <3>2, f \in Ours(set, n), AreScripts, DoesSteady, SteadySafe,
         Zenon DEF Does
  <2>5. Makes(InitScript(set, rate, cut), k)
    BY ONLY <2>2, <2>3, <2>t, <2>4, InitIs, CatSafe, CatScript, CatMakes, ThenMakes, Zenon
  <2> QED
    BY <1>1, <2>5
<1>14. CASE n \in {"RssiConfig", "MeasureDuration01"}
  <2>1. ~set.in_samples
    BY <1>14 DEF Wiped
  <2>2. Makes(RssiUpdate(set), k)
    BY ONLY <1>1, <1>14, <2>1, f \in Ours(set, n), RssiMakes
  <2>3. /\ IsScript(ApplyClockChain(rate)) /\ IsScript(GcUpdate) /\ Safe(AuxadcSetup, k)
        /\ Safe(ForceAlert(set), k) /\ Safe(RestoreRunning(set), k)
        /\ IsScript(DigTune(set, cut))
    <3>1. /\ Does(ApplyClockChain(rate), set, {}) /\ Does(GcUpdate, set, {})
          /\ Does(AuxadcSetup, set, {})
          /\ Does(ForceAlert(set), set, {"EnsmConfig1"})
          /\ Does(RestoreRunning(set), set, {"EnsmConfig1"})
          /\ Does(DigTune(set, cut), set, Tuned)
      BY ONLY StepsDo, ApplyClockChainDoes, GcUpdateDoes, DigTuneDoes
    <3>2. n \notin {} /\ n \notin {"EnsmConfig1"}
      BY <1>14
    <3> QED
      BY ONLY <1>1, <3>1, <3>2, f \in Ours(set, n), DoesSteady, SteadySafe, Zenon DEF Does
  <2>4. Makes(SetTrxClockChain(set, rate), k)
    BY ONLY <2>2, <2>3, ThenMakes, CatMakes, Zenon DEF SetTrxClockChain, BbClkUpdate
  <2>5. IsScript(Ends(set, rate))
    BY ONLY <1>1, <1>s DEF Stages
  <2>6. Makes(InitScript(set, rate, cut), k)
    BY ONLY <2>3, <2>4, <2>5, InitIs, CatMakes, ThenMakes, Zenon
  <2> QED
    BY <1>1, <2>6
<1> QED
  BY <1>2, <1>3, <1>4, <1>5, <1>6, <1>7, <1>8, <1>9, <1>10, <1>11, <1>12, <1>13, <1>14
  DEF Troubled

-----------------------------------------------------------------------------
(***************************************************************************)
(* The other registers: a step names the field, at any rate.               *)
(***************************************************************************)
Touches(q, n, f) ==
  \E i \in 1..Len(q) : q[i].op \in {"write", "modify"} /\ q[i].reg = n /\ f \in DOMAIN q[i].vals

LEMMA CatTouches ==
  \A a, b, n, f : IsScript(a) /\ IsScript(b) =>
    (Touches(a \o b, n, f) <=> Touches(a, n, f) \/ Touches(b, n, f))
<1> SUFFICES ASSUME NEW a, NEW b, NEW n, NEW f, IsScript(a), IsScript(b)
             PROVE  Touches(a \o b, n, f) <=> Touches(a, n, f) \/ Touches(b, n, f)
  OBVIOUS
<1> DEFINE c == a \o b
           l == Len(a)
           m == Len(b)
<1>1. /\ Len(c) = l + m /\ l \in Nat /\ m \in Nat
      /\ \A i \in 1..l : c[i] = a[i]
      /\ \A i \in 1..m : c[l + i] = b[i]
  BY CatIs
<1> HIDE DEF c, l, m
<1>2. /\ \A i \in 1..l : i \in 1..(l + m)
      /\ \A i \in 1..m : l + i \in 1..(l + m)
  BY ONLY <1>1
<1>3. \A i \in 1..(l + m) : i \in 1..l \/ \E j \in 1..m : i = l + j
  <2> SUFFICES ASSUME NEW i \in 1..(l + m), i \notin 1..l PROVE \E j \in 1..m : i = l + j
    OBVIOUS
  <2>1. i - l \in 1..m /\ i = l + (i - l)
    BY ONLY <1>1, i \in 1..(l + m), i \notin 1..l
  <2> QED
    BY ONLY <2>1, Zenon
<1>4. Touches(c, n, f) <=> Touches(a, n, f) \/ Touches(b, n, f)
  <2>1. Touches(a, n, f) => Touches(c, n, f)
    BY ONLY <1>1, <1>2, Zenon DEF Touches, l
  <2>2. Touches(b, n, f) => Touches(c, n, f)
    BY ONLY <1>1, <1>2, Zenon DEF Touches, m
  <2>3. ASSUME Touches(c, n, f) PROVE Touches(a, n, f) \/ Touches(b, n, f)
    <3>1. PICK i \in 1..(l + m) : /\ c[i].op \in {"write", "modify"} /\ c[i].reg = n
                                  /\ f \in DOMAIN c[i].vals
      BY ONLY <1>1, <2>3 DEF Touches
    <3>2. CASE i \in 1..l
      BY ONLY <1>1, <3>1, <3>2, Zenon DEF Touches, l
    <3>3. CASE \E j \in 1..m : i = l + j
      BY ONLY <1>1, <3>1, <3>3, Zenon DEF Touches, m
    <3> QED
      BY ONLY <1>3, <3>1, <3>2, <3>3, Zenon
  <2> QED
    BY ONLY <2>1, <2>2, <2>3
<1> QED
  BY <1>4 DEF c

LEMMA AnyRateTouches ==
  \A set, n, f : \A r1, r2 \in Rates :
    Touches(Setup(set, r1), n, f) => Touches(Setup(set, r2), n, f)
<1> SUFFICES ASSUME NEW set, NEW r1 \in Rates, NEW r2 \in Rates,
                   NEW n, NEW f, Touches(Setup(set, r1), n, f)
             PROVE  Touches(Setup(set, r2), n, f)
  OBVIOUS
<1> DEFINE To1(a, b) == IsScript(a) /\ IsScript(b) /\ (Touches(a, n, f) => Touches(b, n, f))
<1>1. \A a, b, q : To1(a, b) /\ IsScript(q) => To1(a \o q, b \o q)
  BY CatTouches, CatScript, Zenon
<1>2. \A a, b, c, d : To1(a, b) /\ To1(c, d) => To1(a \o c, b \o d)
  BY CatTouches, CatScript, Zenon
<1>3. /\ IsScript(AuxdacSetup) /\ IsScript(GpoSetup) /\ IsScript(PowerUp)
      /\ IsScript(SetTxChannels) /\ IsScript(SetRxChannels) /\ IsScript(RfPortSetup)
      /\ IsScript(PpPortSetup(set))
  BY ONLY StepsDo, Zenon DEF Does
<1>4. /\ IsScript(AuxadcSetup) /\ IsScript(SetupExtLna)
      /\ IsScript(SynthRefs) /\ IsScript(CpCalib(set)) /\ IsScript(WriteGainTable)
      /\ IsScript(GcSetup(set)) /\ IsScript(FilterTuning) /\ IsScript(RfDcOffsetCalib)
      /\ IsScript(TxQuadCalib(set)) /\ IsScript(TrackingControl)
  BY ONLY StepsDo, Zenon DEF Does
<1>5. /\ IsScript(RestoreConf3(set))
      /\ IsScript(SetEnsmMode(set)) /\ IsScript(MaskAtten) /\ IsScript(SetTxAtten)
      /\ IsScript(SetOther(set)) /\ IsScript(RssiSetup(set)) /\ IsScript(RssiGainStepCalib)
      /\ IsScript(ClkoutControl) /\ IsScript(TxmonSetup) /\ IsScript(EnsmSetRunning(set))
      /\ IsScript(ForceAlert(set)) /\ IsScript(RestoreRunning(set))
  BY ONLY StepsDo, Zenon DEF Does
<1>6. To1(NewRate(r1), NewRate(r2))
  <2>1. \A r : ~Touches(NewRate(r), n, f)
    <3> SUFFICES ASSUME NEW r PROVE ~Touches(NewRate(r), n, f)
      OBVIOUS
    <3>1. /\ Len(NewRate(r)) = 1 /\ NewRate(r)[1] = [op |-> "rate", rate |-> r]
      BY OneIs DEF NewRate
    <3>2. \A i \in 1..1 : i = 1
      OBVIOUS
    <3> QED
      BY <3>1, <3>2 DEF Touches
  <2>2. \A r : IsScript(NewRate(r))
    BY OneIs DEF NewRate
  <2> QED
    BY <2>1, <2>2
<1>7. To1(ApplyClockChain(r1), ApplyClockChain(r2))
  <2> DEFINE q == NewRate("mixed")
                  \o Modify(BbPll, {"bbpll_divider"}) \o Modify(BbPll, {"dac_clk_div2"})
                  \o Modify(RxEnableFilterControl, {"dec3_enable_decimation"})
                  \o Modify(TxEnableFilterControl, {"thb3_enable_interp"})
                  \o Modify(RxEnableFilterControl, {"rhb2_en"})
                  \o Modify(TxEnableFilterControl, {"thb2_en"})
                  \o Modify(RxEnableFilterControl, {"rhb1_en"})
                  \o Modify(TxEnableFilterControl, {"thb1_en"})
                  \o Modify(RxEnableFilterControl, {"rx_fir_enable_decimation"})
                  \o Modify(TxEnableFilterControl, {"tx_fir_enable_interpolation"})
  <2>1. \A r : ApplyClockChain(r) = q \o NewRate(r)
    BY Zenon DEF ApplyClockChain
  <2>2. IsScript(NewRate("mixed"))
    BY OneIs DEF NewRate
  <2>3. IsScript(q)
    BY ONLY <2>2, StepIs, CatScript, Zenon
  <2> HIDE DEF q
  <2>4. To1(q, q)
    BY ONLY <2>3
  <2> HIDE DEF To1
  <2> QED
    BY ONLY <1>2, <1>6, <2>1, <2>4, Zenon
<1>8. IsScript(BbClkUpdate(set))
  BY BbClkUpdateDoes DEF Does
<1>x. To1(AuxdacSetup \o GpoSetup \o PowerUp, AuxdacSetup \o GpoSetup \o PowerUp)
  BY ONLY <1>3, CatScript, Zenon
<1> HIDE DEF To1
<1>9. To1(SetTrxClockChain(set, r1), SetTrxClockChain(set, r2))
  BY ONLY <1>1, <1>7, <1>8, Zenon DEF SetTrxClockChain
<1>10. To1(Ports(set, r1), Ports(set, r2))
  BY ONLY <1>1, <1>2, <1>3, <1>9, <1>x, Zenon DEF Ports
<1>11. To1(Gains(set, r1), Gains(set, r2))
  BY ONLY <1>1, <1>4, <1>10, Zenon DEF Gains
<1>12. To1(Calibs(set, r1), Calibs(set, r2))
  BY ONLY <1>1, <1>4, <1>11, Zenon DEF Calibs
<1>13. To1(Attens(set, r1), Attens(set, r2))
  BY ONLY <1>1, <1>5, <1>12, Zenon DEF Attens
<1>14. To1(Ends(set, r1), Ends(set, r2))
  BY ONLY <1>1, <1>5, <1>13, Zenon DEF Ends
<1>15. To1(Setup(set, r1), Setup(set, r2))
  BY ONLY <1>14, InitIs, Zenon
<1> QED
  BY <1>15 DEF To1

LEMMA OwnedIs ==
  ASSUME NEW o \in Owned, Rates # {}
  PROVE  /\ o = <<o[1], o[2]>> /\ o[1] \in Names /\ o[2] \in Ours(s, o[1])
         /\ \A rate \in Rates : Touches(Setup(s, rate), o[1], o[2])
<1> DEFINE r == CHOOSE rate \in Rates : TRUE
           q == Setup(s, r)
<1>1. PICK a \in {q[i] : i \in DOMAIN q} :
        /\ a.op \in {"write", "modify"}
        /\ o \in {<<a.reg, f>> :
              f \in {f \in DOMAIN a.vals : a.vals[f] \notin {"cal", "zero", "saved"}}}
  BY DEF Owned
<1>2. PICK f \in DOMAIN a.vals : a.vals[f] \notin {"cal", "zero", "saved"} /\ o = <<a.reg, f>>
  BY <1>1
<1>r. r \in Rates
  OBVIOUS
<1>3. Does(q, s, Troubled)
  BY <1>r, SetupDoes
<1> HIDE DEF q, r
<1>4. DOMAIN q = 1..Len(q)
  BY <1>3, ScriptIs DEF Does
<1>5. PICK i \in 1..Len(q) : a = q[i]
  BY <1>1, <1>4
<1>6. Orderly(a, s, Troubled)
  BY <1>3, <1>5 DEF Does
<1>7. a.reg \in Names /\ f \in Ours(s, a.reg)
  BY <1>1, <1>2, <1>6 DEF Orderly, Within
<1>8. Touches(q, a.reg, f)
  BY <1>1, <1>2, <1>5 DEF Touches
<1>9. \A rate \in Rates : Touches(Setup(s, rate), a.reg, f)
  BY <1>r, <1>8, AnyRateTouches DEF q
<1>10. o = <<a.reg, f>> /\ o[1] = a.reg /\ o[2] = f
  BY <1>2
<1> QED
  BY ONLY <1>7, <1>9, <1>10, Zenon

\* All that init sets is set when it is done.
LEMMA InitMakes ==
  ASSUME NEW o \in Owned, ~Wiped(s, o[1], o[2]), NEW rate \in Rates, NEW cut \in CutOffs
  PROVE  Makes(InitScript(s, rate, cut), Asked(s, o[1], o[2]))
<1> DEFINE q == Setup(s, rate)
           k == Asked(s, o[1], o[2])
<1>1. o[1] \in Names /\ o[2] \in Ours(s, o[1]) /\ Touches(q, o[1], o[2])
  BY OwnedIs
<1>2. Does(q, s, Troubled)
  BY SetupDoes
<1>3. CASE o[1] \in Troubled
  BY <1>1, <1>3, TroubledMakes
<1>4. CASE o[1] \notin Troubled
  <2>1. PICK i \in 1..Len(q) : q[i].op \in {"write", "modify"} /\ q[i].reg = o[1]
                               /\ o[2] \in DOMAIN q[i].vals
    BY <1>1 DEF Touches
  <2>2. q = Ends(s, rate)
    BY InitIs
  <2>s. Stages(s, rate, cut, o[1], k)
    BY <1>1, StagesMake
  <2> HIDE DEF q
  <2>3. Makes(q, k)
    BY ONLY <1>1, <1>2, <1>4, <2>1, DoesMakes
  <2>4. o[1] # "EnsmConfig1"
    BY <1>4 DEF Troubled
  <2> HIDE DEF k
  <2>5. Makes(InitScript(s, rate, cut), k)
    BY ONLY <2>2, <2>s, <2>3, <2>4 DEF Stages
  <2> QED
    BY <2>5 DEF k
<1> QED
  BY <1>3, <1>4

-----------------------------------------------------------------------------
(***************************************************************************)
(* What a script has the driver remember: rates that are asked for or are  *)
(* those of a change, and modes out of M.                                  *)
(***************************************************************************)
Tells(q, M) ==
  /\ IsScript(q)
  /\ \A i \in 1..Len(q) : /\ q[i].op = "rate" => q[i].rate \in Rates \cup {"mixed"}
                          /\ q[i].op = "modes" => q[i].modes \in M

LEMMA OneTells ==
  \A a, M :
    /\ a.op = "rate" => a.rate \in Rates \cup {"mixed"}
    /\ a.op = "modes" => a.modes \in M
    => Tells(<<a>>, M)
<1> SUFFICES ASSUME NEW a, NEW M, a.op = "rate" => a.rate \in Rates \cup {"mixed"},
                    a.op = "modes" => a.modes \in M
             PROVE  Tells(<<a>>, M)
  OBVIOUS
<1>1. IsScript(<<a>>) /\ Len(<<a>>) = 1 /\ <<a>>[1] = a
  BY OneIs
<1>2. \A i \in 1..1 : i = 1
  OBVIOUS
<1> QED
  BY <1>1, <1>2 DEF Tells

LEMMA CatTells == \A a, b, M : Tells(a, M) /\ Tells(b, M) => Tells(a \o b, M)
<1> SUFFICES ASSUME NEW a, NEW b, NEW M, Tells(a, M), Tells(b, M) PROVE Tells(a \o b, M)
  OBVIOUS
<1> DEFINE c == a \o b
           l == Len(a)
           m == Len(b)
<1>1. /\ IsScript(c) /\ Len(c) = l + m /\ l \in Nat /\ m \in Nat
      /\ \A i \in 1..l : c[i] = a[i]
      /\ \A i \in 1..m : c[l + i] = b[i]
  BY CatIs DEF Tells
<1> DEFINE Ok(x) == /\ x.op = "rate" => x.rate \in Rates \cup {"mixed"}
                    /\ x.op = "modes" => x.modes \in M
<1>2. (\A i \in 1..l : Ok(a[i])) /\ (\A i \in 1..m : Ok(b[i]))
  BY DEF Tells
<1> HIDE DEF c, l, m, Ok
<1>3. ASSUME NEW i \in 1..(l + m) PROVE Ok(c[i])
  <2>1. CASE i \in 1..l
    BY ONLY <1>1, <1>2, <2>1
  <2>2. CASE i \notin 1..l
    <3>1. i - l \in 1..m /\ i = l + (i - l)
      BY ONLY <1>1, <2>2, i \in 1..(l + m)
    <3>2. c[i] = b[i - l]
      BY ONLY <1>1, <3>1
    <3> QED
      BY ONLY <1>2, <3>1, <3>2
  <2> QED
    BY ONLY <2>1, <2>2
<1>4. Tells(c, M)
  BY ONLY <1>1, <1>3 DEF Tells, Ok
<1> QED
  BY <1>4 DEF c

LEMMA NoneTells == \A M : Tells(<< >>, M)
  BY NoneIs DEF Tells

\* An access has it remember nothing.
LEMMA AccessTells ==
  \A r, M :
    /\ Tells(Save(r), M)
    /\ \A vals : /\ Tells(WriteReg(r, vals), M) /\ Tells(ModifyReg(r, vals), M)
                 /\ Tells(Write(r, vals), M) /\ Tells(Modify(r, vals), M)
<1>1. \A op, r, vals, M : op \notin {"rate", "modes"} => Tells(Access(op, r, vals), M)
  BY OneTells DEF Access
<1> QED
  BY <1>1 DEF Save, WriteReg, ModifyReg, Write, Modify

LEMMA DoesTells == \A q, set, X : Does(q, set, X) => Tells(q, {set.modes})
<1>1. \A a, set, X : Orderly(a, set, X) =>
        /\ a.op = "rate" => a.rate \in Rates \cup {"mixed"}
        /\ a.op = "modes" => a.modes \in {set.modes}
  BY DEF Orderly
<1> QED
  BY ONLY <1>1, Zenon DEF Does, Tells

LEMMA InitTells ==
  \A set : \A rate \in Rates, cut \in CutOffs : Tells(InitScript(set, rate, cut), {set.modes})
  BY InitDoes, DoesTells, Zenon

\* Whatever the settings, they aren't told.
LEMMA AnyDoesTells == \A q, X : (\A set : Does(q, set, X)) => Tells(q, {})
<1> SUFFICES ASSUME NEW q, NEW X, \A set : Does(q, set, X) PROVE Tells(q, {})
  OBVIOUS
<1> DEFINE one == [modes |-> 1]
           two == [modes |-> 2]
<1>1. Does(q, one, X) /\ Does(q, two, X)
  BY Zenon
<1>2. Tells(q, {one.modes}) /\ Tells(q, {two.modes})
  BY <1>1, DoesTells, Zenon
<1>3. one.modes = 1 /\ two.modes = 2
  OBVIOUS
<1> HIDE DEF one, two
<1> QED
  BY ONLY <1>2, <1>3 DEF Tells

LEMMA ClockTells == \A set : \A rate \in Rates : Tells(SetTrxClockChain(set, rate), {})
<1> SUFFICES ASSUME NEW set, NEW rate \in Rates PROVE Tells(SetTrxClockChain(set, rate), {})
  OBVIOUS
<1>1. Tells(ApplyClockChain(rate), {}) /\ Tells(GcUpdate, {}) /\ Tells(AuxadcSetup, {})
  <2>1. \A x : /\ Does(ApplyClockChain(rate), x, {}) /\ Does(GcUpdate, x, {})
               /\ Does(AuxadcSetup, x, {})
    BY ApplyClockChainDoes, GcUpdateDoes, AuxadcSetupDoes
  <2> QED
    BY ONLY <2>1, AnyDoesTells, Zenon
<1>2. Tells(RssiSetup(set), {})
  <2> DEFINE timing == IF set.in_samples THEN "set" ELSE "rate"
             w1 == WriteReg(MeasureDuration01, To(timing, MeasureDuration01.fields))
             w2 == WriteReg(MeasureDuration23, To(timing, MeasureDuration23.fields))
             w3 == WriteReg(RssiConfig, [rssi_mode_select |-> "set", start_rssi_meas |-> "set",
                                         default_rssi_meas_mode |-> timing])
  <2>1. RssiSetup(set) = w1 \o w2 \o w3
    BY DEF RssiSetup
  <2>2. Tells(w1, {}) /\ Tells(w2, {}) /\ Tells(w3, {})
    BY AccessTells
  <2> HIDE DEF w1, w2, w3
  <2> QED
    BY ONLY <2>1, <2>2, CatTells
<1>3. Tells(RssiUpdate(set), {})
  BY <1>2, NoneTells DEF RssiUpdate, When
<1> QED
  BY ONLY <1>1, <1>3, CatTells, Zenon DEF SetTrxClockChain, BbClkUpdate

LEMMA AttenTells == Tells(SetTxAtten, {})
  BY AccessTells, CatTells, Zenon DEF SetTxAtten

\* A change of gain mode tells the mode of that channel only.
ModeTold(c, mode) == [d \in {c} |-> mode]

LEMMA ModeTells ==
  \A set, c, mode : Tells(SetGainModeScript(set, c, mode), {ModeTold(c, mode)})
<1> SUFFICES ASSUME NEW set, NEW c, NEW mode
             PROVE  Tells(SetGainModeScript(set, c, mode), {ModeTold(c, mode)})
  OBVIOUS
<1> DEFINE m == [d \in {c} |-> mode]
<1>1. Tells(NewModes(m), {m})
  <2> HIDE DEF m
  <2> QED
    BY OneTells DEF NewModes
<1>2. Tells(GcUpdate, {m})
  <2>1. Tells(GcUpdate, {})
    BY GcUpdateDoes, AnyDoesTells, Zenon
  <2> HIDE DEF m
  <2> QED
    BY <2>1 DEF Tells
<1> DEFINE a1 == Save(RxEnableFilterControl)
           a2 == ModifyReg(RxEnableFilterControl, To("cal", Paused(set, c)))
           a3 == ModifyReg(AgcConfig1, [f \in {GainModeField(c), "slow_attack_hybrid_mode"} |->
                                          IF f = GainModeField(c) THEN mode ELSE HybridBit({mode})])
           a4 == NewModes(m)
           a5 == ModifyReg(RxEnableFilterControl,
                           To("saved", {"rx1_channel_enable", "rx2_channel_enable"}))
<1>3. SetGainModeScript(set, c, mode) = a1 \o a2 \o a3 \o a4 \o a5 \o GcUpdate
  BY Zenon DEF SetGainModeScript
<1>4. Tells(a1, {m}) /\ Tells(a2, {m}) /\ Tells(a3, {m}) /\ Tells(a4, {m}) /\ Tells(a5, {m})
  BY <1>1, AccessTells, Zenon
<1> HIDE DEF a1, a2, a3, a4, a5
<1>5. Tells(SetGainModeScript(set, c, mode), {m})
  BY ONLY <1>2, <1>3, <1>4, CatTells, Zenon
<1> QED
  BY <1>5 DEF ModeTold

LEMMA TailTells ==
  \A q, M : Tells(q, M) /\ q # << >> =>
    /\ Tells(Tail(q), M)
    /\ q[1].op = "rate" => q[1].rate \in Rates \cup {"mixed"}
    /\ q[1].op = "modes" => q[1].modes \in M
<1> SUFFICES ASSUME NEW q, NEW M, Tells(q, M), q # << >>
             PROVE  /\ Tells(Tail(q), M)
                    /\ q[1].op = "rate" => q[1].rate \in Rates \cup {"mixed"}
                    /\ q[1].op = "modes" => q[1].modes \in M
  OBVIOUS
<1>1. /\ IsScript(Tail(q)) /\ Len(q) \in Nat /\ Len(q) >= 1 /\ Len(Tail(q)) = Len(q) - 1
      /\ \A i \in 1..(Len(q) - 1) : Tail(q)[i] = q[i + 1]
  BY ScriptIs DEF Tells
<1>2. \A i \in 1..Len(Tail(q)) : i \in 1..(Len(q) - 1) /\ i + 1 \in 1..Len(q)
  BY ONLY <1>1
<1>3. 1 \in 1..Len(q)
  BY ONLY <1>1
<1> QED
  BY ONLY <1>1, <1>2, <1>3, Tells(q, M), Zenon DEF Tells

(***************************************************************************)
(* Init works out nothing from the rates before there are any.             *)
(***************************************************************************)
Plain(q) == IsScript(q) /\ \A i \in 1..Len(q) : Rateless(q[i])

RateFirst(q) ==
  IsScript(q) /\ \E j \in 1..Len(q) : q[j].op = "rate" /\ \A i \in 1..j : Rateless(q[i])

LEMMA CatPlain == \A a, b : Plain(a) /\ Plain(b) => Plain(a \o b)
<1> SUFFICES ASSUME NEW a, NEW b, Plain(a), Plain(b) PROVE Plain(a \o b)
  OBVIOUS
<1> DEFINE c == a \o b
           l == Len(a)
           m == Len(b)
<1>1. /\ IsScript(c) /\ Len(c) = l + m /\ l \in Nat /\ m \in Nat
      /\ \A i \in 1..l : c[i] = a[i]
      /\ \A i \in 1..m : c[l + i] = b[i]
  BY CatIs DEF Plain
<1>2. (\A i \in 1..l : Rateless(a[i])) /\ (\A i \in 1..m : Rateless(b[i]))
  BY DEF Plain
<1> HIDE DEF c, l, m
<1>3. ASSUME NEW i \in 1..(l + m) PROVE Rateless(c[i])
  <2>1. CASE i \in 1..l
    BY ONLY <1>1, <1>2, <2>1
  <2>2. CASE i \notin 1..l
    <3>1. i - l \in 1..m /\ i = l + (i - l)
      BY ONLY <1>1, <2>2, i \in 1..(l + m)
    <3>2. c[i] = b[i - l]
      BY ONLY <1>1, <3>1
    <3> QED
      BY ONLY <1>2, <3>1, <3>2
  <2> QED
    BY ONLY <2>1, <2>2
<1>4. Plain(c)
  BY ONLY <1>1, <1>3 DEF Plain
<1> QED
  BY <1>4 DEF c

LEMMA SetPlain ==
  \A r : /\ Plain(WriteAll(r))
         /\ \A fs : Plain(Write(r, fs)) /\ Plain(Modify(r, fs))
<1>1. \A op, r, fs : Plain(Access(op, r, To("set", fs)))
  <2> SUFFICES ASSUME NEW op, NEW r, NEW fs PROVE Plain(Access(op, r, To("set", fs)))
    OBVIOUS
  <2> DEFINE vals == To("set", fs)
             a == [op |-> op, reg |-> r.name, vals |-> vals]
  <2>1. Rateless(a)
    BY DEF Rateless, To
  <2>2. Access(op, r, vals) = <<a>>
    BY DEF Access
  <2> HIDE DEF a, vals
  <2>3. \A i \in 1..1 : i = 1
    OBVIOUS
  <2>4. Plain(<<a>>)
    BY <2>1, <2>3, OneIs DEF Plain
  <2> QED
    BY <2>2, <2>4 DEF vals
<1> QED
  BY <1>1 DEF WriteAll, Write, Modify, WriteReg, ModifyReg

LEMMA OneFirst == \A rate : RateFirst(NewRate(rate))
<1> SUFFICES ASSUME NEW rate PROVE RateFirst(NewRate(rate))
  OBVIOUS
<1> DEFINE a == [op |-> "rate", rate |-> rate]
<1>1. IsScript(<<a>>) /\ Len(<<a>>) = 1 /\ <<a>>[1] = a
  BY OneIs
<1>2. a.op = "rate" /\ Rateless(a)
  BY DEF Rateless
<1>3. 1 \in 1..1 /\ \A i \in 1..1 : i = 1
  OBVIOUS
<1>4. NewRate(rate) = <<a>>
  BY DEF NewRate
<1> HIDE DEF a
<1> QED
  BY <1>1, <1>2, <1>3, <1>4, Zenon DEF RateFirst

LEMMA CatFirst ==
  \A a, b : /\ RateFirst(a) /\ IsScript(b) => RateFirst(a \o b)
            /\ Plain(a) /\ RateFirst(b) => RateFirst(a \o b)
<1>s. \A q : RateFirst(q) \/ Plain(q) => IsScript(q)
  BY DEF RateFirst, Plain
<1> SUFFICES ASSUME NEW a, NEW b, IsScript(a), IsScript(b)
             PROVE  /\ RateFirst(a) => RateFirst(a \o b)
                    /\ Plain(a) /\ RateFirst(b) => RateFirst(a \o b)
  BY <1>s, Zenon
<1> DEFINE c == a \o b
           l == Len(a)
           m == Len(b)
<1>1. /\ IsScript(c) /\ Len(c) = l + m /\ l \in Nat /\ m \in Nat
      /\ \A i \in 1..l : c[i] = a[i]
      /\ \A i \in 1..m : c[l + i] = b[i]
  BY CatIs
<1> HIDE DEF c
<1>2. ASSUME RateFirst(a) PROVE RateFirst(c)
  <2>1. PICK j \in 1..l : a[j].op = "rate" /\ \A i \in 1..j : Rateless(a[i])
    BY <1>2 DEF RateFirst
  <2> HIDE DEF l, m
  <2>2. j \in 1..(l + m) /\ \A i \in 1..j : i \in 1..l
    BY ONLY <1>1, j \in 1..l
  <2>3. c[j].op = "rate" /\ \A i \in 1..j : Rateless(c[i])
    BY ONLY <1>1, <2>1, <2>2, j \in 1..l, Zenon
  <2> QED
    BY ONLY <1>1, <2>2, <2>3, Zenon DEF RateFirst
<1>3. ASSUME Plain(a), RateFirst(b) PROVE RateFirst(c)
  <2>1. PICK j \in 1..m : b[j].op = "rate" /\ \A i \in 1..j : Rateless(b[i])
    BY <1>3 DEF RateFirst
  <2>2. \A i \in 1..l : Rateless(a[i])
    BY <1>3 DEF Plain
  <2> HIDE DEF l, m
  <2>3. l + j \in 1..(l + m)
    BY ONLY <1>1, j \in 1..m
  <2>4. c[l + j].op = "rate"
    BY ONLY <1>1, <2>1
  <2>5. ASSUME NEW i \in 1..(l + j) PROVE Rateless(c[i])
    <3>1. CASE i \in 1..l
      BY ONLY <1>1, <2>2, <3>1
    <3>2. CASE i \notin 1..l
      <4>1. i - l \in 1..j /\ i - l \in 1..m /\ i = l + (i - l)
        BY ONLY <1>1, <3>2, i \in 1..(l + j), j \in 1..m
      <4>2. c[i] = b[i - l]
        BY ONLY <1>1, <4>1
      <4> QED
        BY ONLY <2>1, <4>1, <4>2
    <3> QED
      BY ONLY <3>1, <3>2
  <2> QED
    BY ONLY <1>1, <2>3, <2>4, <2>5, Zenon DEF RateFirst
<1> QED
  BY <1>2, <1>3 DEF c

LEMMA InitFirst ==
  \A set : \A rate \in Rates, cut \in CutOffs : RateFirst(InitScript(set, rate, cut))
<1> SUFFICES ASSUME NEW set, NEW rate \in Rates, NEW cut \in CutOffs
             PROVE  RateFirst(InitScript(set, rate, cut))
  OBVIOUS
<1>1. Plain(AuxdacSetup) /\ Plain(GpoSetup) /\ Plain(PowerUp)
  <2>1. Plain(AuxdacSetup)
    BY ONLY SetPlain, CatPlain DEF AuxdacSetup
  <2>2. Plain(GpoSetup)
    BY ONLY SetPlain, CatPlain DEF GpoSetup
  <2>3. Plain(PowerUp)
    BY ONLY SetPlain, CatPlain DEF PowerUp
  <2> QED
    BY <2>1, <2>2, <2>3
<1>2. RateFirst(ApplyClockChain(rate))
  <2>1. IsScript(NewRate(rate)) /\ RateFirst(NewRate("mixed"))
    BY OneFirst DEF RateFirst
  <2> QED
    BY ONLY <2>1, StepIs, CatFirst DEF ApplyClockChain
<1>3. RateFirst(SetTrxClockChain(set, rate))
  <2>1. IsScript(BbClkUpdate(set))
    BY BbClkUpdateDoes DEF Does
  <2> QED
    BY ONLY <1>2, <2>1, CatFirst, Zenon DEF SetTrxClockChain
<1>4. /\ IsScript(SetTxChannels) /\ IsScript(SetRxChannels) /\ IsScript(RfPortSetup)
      /\ IsScript(PpPortSetup(set))
      /\ IsScript(AuxadcSetup) /\ IsScript(SetupExtLna)
      /\ IsScript(SynthRefs) /\ IsScript(CpCalib(set)) /\ IsScript(WriteGainTable)
      /\ IsScript(GcSetup(set)) /\ IsScript(FilterTuning) /\ IsScript(RfDcOffsetCalib)
      /\ IsScript(TxQuadCalib(set)) /\ IsScript(TrackingControl)
  BY ONLY StepsDo, rate \in Rates, Zenon DEF Does
<1>5. /\ IsScript(RestoreConf3(set))
      /\ IsScript(SetEnsmMode(set)) /\ IsScript(MaskAtten) /\ IsScript(SetTxAtten)
      /\ IsScript(SetOther(set)) /\ IsScript(RssiSetup(set)) /\ IsScript(RssiGainStepCalib)
      /\ IsScript(ClkoutControl) /\ IsScript(TxmonSetup) /\ IsScript(EnsmSetRunning(set))
      /\ IsScript(ForceAlert(set)) /\ IsScript(RestoreRunning(set))
      /\ IsScript(SetTrxClockChain(set, rate))
  BY ONLY StepsDo, rate \in Rates, Zenon DEF Does
<1>6. RateFirst(Ports(set, rate))
  BY ONLY <1>1, <1>3, <1>4, CatPlain, CatFirst, Zenon DEF Ports
<1>7. RateFirst(Gains(set, rate))
  BY ONLY <1>4, <1>6, CatFirst, Zenon DEF Gains
<1>8. RateFirst(Calibs(set, rate))
  BY ONLY <1>4, <1>7, CatFirst, Zenon DEF Calibs
<1>9. RateFirst(Attens(set, rate))
  BY ONLY <1>5, <1>8, CatFirst, Zenon DEF Attens
<1>10. RateFirst(Ends(set, rate))
  BY ONLY <1>5, <1>9, CatFirst, Zenon DEF Ends
<1>11. IsScript(DigTune(set, cut) \o SetTrxClockChain(set, rate) \o ForceAlert(set)
                \o RestoreRunning(set))
  <2>1. IsScript(DigTune(set, cut))
    BY DigTuneDoes DEF Does
  <2> QED
    BY ONLY <1>5, <2>1, CatScript, Zenon
<1> QED
  BY ONLY <1>10, <1>11, InitIs, CatFirst, Zenon

LEMMA TailFirst ==
  \A q : RateFirst(q) =>
    q # << >> /\ Rateless(q[1]) /\ (q[1].op = "rate" \/ RateFirst(Tail(q)))
<1> SUFFICES ASSUME NEW q, RateFirst(q)
             PROVE  q # << >> /\ Rateless(q[1]) /\ (q[1].op = "rate" \/ RateFirst(Tail(q)))
  OBVIOUS
<1>1. PICK j \in 1..Len(q) : q[j].op = "rate" /\ \A i \in 1..j : Rateless(q[i])
  BY DEF RateFirst
<1>2. q # << >>
  BY <1>1
<1>3. /\ IsScript(Tail(q)) /\ Len(q) \in Nat /\ Len(q) >= 1 /\ Len(Tail(q)) = Len(q) - 1
      /\ \A i \in 1..(Len(q) - 1) : Tail(q)[i] = q[i + 1]
  BY <1>2, ScriptIs DEF RateFirst
<1>4. Rateless(q[1])
  BY <1>1
<1>5. ASSUME j # 1 PROVE RateFirst(Tail(q))
  <2> DEFINE t == Tail(q)
             n == Len(q)
  <2>1. j - 1 \in 1..(n - 1) /\ j - 1 + 1 = j
        /\ \A i \in 1..(j - 1) : i \in 1..(n - 1) /\ i + 1 \in 1..j
    BY ONLY <1>3, <1>5, j \in 1..Len(q)
  <2> HIDE DEF t, n
  <2>2. t[j - 1].op = "rate" /\ \A i \in 1..(j - 1) : Rateless(t[i])
    BY ONLY <1>1, <1>3, <2>1, Zenon DEF t, n
  <2>3. j - 1 \in 1..Len(t) /\ IsScript(t)
    BY ONLY <1>3, <2>1, Zenon DEF t, n
  <2>4. RateFirst(t)
    BY ONLY <2>2, <2>3, Zenon DEF RateFirst
  <2> QED
    BY <2>4 DEF t
<1> QED
  BY ONLY <1>1, <1>2, <1>4, <1>5

-----------------------------------------------------------------------------
(***************************************************************************)
(* What depends on the rates, and on the modes.                            *)
(***************************************************************************)
RateOf(n, f) == [reg |-> n, field |-> f, good |-> {"rate"}, upset |-> {"rate"}]

PowerField == <<"DecPowerMeasureDuration0", "dec_power_measurement_duration">>
PowerMeasure == [reg |-> "DecPowerMeasureDuration0", field |-> "dec_power_measurement_duration",
                 good |-> {"power"}, upset |-> {"rate", "modes"}]

GcNames == {"AgcAttackDelay", "PeakWaitTime", "FastConfig2SettlingDelay",
            "DecPowerMeasureDuration0", "DigitalSatCounter", "FastEnergyDetectCount"}

LEMMA GcUpdateMakes ==
  \A k : /\ k.reg \notin GcNames => Steady(GcUpdate, k)
         /\ \/ <<k.reg, k.field>> \in GainTiming /\ "rate" \in k.good
            \/ <<k.reg, k.field>> = PowerField /\ "power" \in k.good
            => Makes(GcUpdate, k)
<1> SUFFICES ASSUME NEW k
             PROVE  /\ k.reg \notin GcNames => Steady(GcUpdate, k)
                    /\ \/ <<k.reg, k.field>> \in GainTiming /\ "rate" \in k.good
                       \/ <<k.reg, k.field>> = PowerField /\ "power" \in k.good
                       => Makes(GcUpdate, k)
  OBVIOUS
<1> DEFINE v1 == [agc_attack_delay |-> "rate"]
           v2 == [peak_overload_wait_time |-> "rate"]
           v3 == [settling_delay |-> "rate"]
           v4 == [dec_power_measurement_duration |-> "power"]
           v5 == [double_gain_counter |-> "rate"]
           v6 == [energy_detect_count |-> "rate"]
           m1 == ModifyReg(AgcAttackDelay, v1)
           m2 == ModifyReg(PeakWaitTime, v2)
           m3 == ModifyReg(FastConfig2SettlingDelay, v3)
           m4 == ModifyReg(DecPowerMeasureDuration0, v4)
           m5 == ModifyReg(DigitalSatCounter, v5)
           m6 == ModifyReg(FastEnergyDetectCount, v6)
<1>1. GcUpdate = m1 \o m2 \o m3 \o m4 \o m5 \o m6
  BY Zenon DEF GcUpdate
<1>2. /\ DOMAIN v1 = {"agc_attack_delay"} /\ v1["agc_attack_delay"] = "rate"
      /\ DOMAIN v2 = {"peak_overload_wait_time"} /\ v2["peak_overload_wait_time"] = "rate"
      /\ DOMAIN v3 = {"settling_delay"} /\ v3["settling_delay"] = "rate"
      /\ DOMAIN v4 = {"dec_power_measurement_duration"}
      /\ v4["dec_power_measurement_duration"] = "power"
      /\ DOMAIN v5 = {"double_gain_counter"} /\ v5["double_gain_counter"] = "rate"
      /\ DOMAIN v6 = {"energy_detect_count"} /\ v6["energy_detect_count"] = "rate"
  OBVIOUS
<1> HIDE DEF v1, v2, v3, v4, v5, v6
<1>3. /\ k.reg # "AgcAttackDelay" => Steady(m1, k)
      /\ k.reg # "PeakWaitTime" => Steady(m2, k)
      /\ k.reg # "FastConfig2SettlingDelay" => Steady(m3, k)
      /\ k.reg # "DecPowerMeasureDuration0" => Steady(m4, k)
      /\ k.reg # "DigitalSatCounter" => Steady(m5, k)
      /\ k.reg # "FastEnergyDetectCount" => Steady(m6, k)
  BY ONLY RegistersAre, OtherSteady
<1>4. /\ k.reg = "AgcAttackDelay" /\ k.field = "agc_attack_delay" /\ "rate" \in k.good =>
           Makes(m1, k)
      /\ k.reg = "PeakWaitTime" /\ k.field = "peak_overload_wait_time" /\ "rate" \in k.good =>
           Makes(m2, k)
      /\ k.reg = "FastConfig2SettlingDelay" /\ k.field = "settling_delay" /\ "rate" \in k.good =>
           Makes(m3, k)
      /\ k.reg = "DecPowerMeasureDuration0" /\ k.field = "dec_power_measurement_duration"
         /\ "power" \in k.good => Makes(m4, k)
      /\ k.reg = "DigitalSatCounter" /\ k.field = "double_gain_counter" /\ "rate" \in k.good =>
           Makes(m5, k)
      /\ k.reg = "FastEnergyDetectCount" /\ k.field = "energy_detect_count" /\ "rate" \in k.good =>
           Makes(m6, k)
  BY ONLY <1>2, RegistersAre, SettingMakes
<1>5. /\ IsScript(m1) /\ IsScript(m2) /\ IsScript(m3) /\ IsScript(m4) /\ IsScript(m5)
      /\ IsScript(m6)
  BY ONLY StepIs
<1> HIDE DEF m1, m2, m3, m4, m5, m6
<1>6. ASSUME k.reg \notin GcNames PROVE Steady(GcUpdate, k)
  <2>1. /\ Steady(m1, k) /\ Steady(m2, k) /\ Steady(m3, k) /\ Steady(m4, k) /\ Steady(m5, k)
        /\ Steady(m6, k)
    BY ONLY <1>3, <1>6 DEF GcNames
  <2> QED
    BY ONLY <1>1, <2>1, CatSteady, Zenon
<1>7. ASSUME \/ <<k.reg, k.field>> \in GainTiming /\ "rate" \in k.good
             \/ <<k.reg, k.field>> = PowerField /\ "power" \in k.good
      PROVE  Makes(GcUpdate, k)
  <2>1. \/ k.reg = "AgcAttackDelay" /\ k.field = "agc_attack_delay" /\ "rate" \in k.good
        \/ k.reg = "PeakWaitTime" /\ k.field = "peak_overload_wait_time" /\ "rate" \in k.good
        \/ k.reg = "FastConfig2SettlingDelay" /\ k.field = "settling_delay" /\ "rate" \in k.good
        \/ k.reg = "DecPowerMeasureDuration0" /\ k.field = "dec_power_measurement_duration"
           /\ "power" \in k.good
        \/ k.reg = "DigitalSatCounter" /\ k.field = "double_gain_counter" /\ "rate" \in k.good
        \/ k.reg = "FastEnergyDetectCount" /\ k.field = "energy_detect_count" /\ "rate" \in k.good
    BY ONLY <1>7 DEF GainTiming, PowerField
  <2>2. \/ /\ Makes(m1, k)
           /\ Steady(m2, k) /\ Steady(m3, k) /\ Steady(m4, k) /\ Steady(m5, k) /\ Steady(m6, k)
        \/ /\ Makes(m2, k)
           /\ Steady(m3, k) /\ Steady(m4, k) /\ Steady(m5, k) /\ Steady(m6, k)
        \/ Makes(m3, k) /\ Steady(m4, k) /\ Steady(m5, k) /\ Steady(m6, k)
        \/ Makes(m4, k) /\ Steady(m5, k) /\ Steady(m6, k)
        \/ Makes(m5, k) /\ Steady(m6, k)
        \/ Makes(m6, k)
    BY ONLY <1>3, <1>4, <2>1
  <2>3. CASE /\ Makes(m1, k)
             /\ Steady(m2, k) /\ Steady(m3, k) /\ Steady(m4, k) /\ Steady(m5, k) /\ Steady(m6, k)
    BY ONLY <1>1, <2>3, SteadySafe, CatMakes, Zenon
  <2>4. CASE Makes(m2, k) /\ Steady(m3, k) /\ Steady(m4, k) /\ Steady(m5, k) /\ Steady(m6, k)
    BY ONLY <1>1, <1>5, <2>4, CatScript, ThenMakes, SteadySafe, CatMakes, Zenon
  <2>5. CASE Makes(m3, k) /\ Steady(m4, k) /\ Steady(m5, k) /\ Steady(m6, k)
    BY ONLY <1>1, <1>5, <2>5, CatScript, ThenMakes, SteadySafe, CatMakes, Zenon
  <2>6. CASE Makes(m4, k) /\ Steady(m5, k) /\ Steady(m6, k)
    BY ONLY <1>1, <1>5, <2>6, CatScript, ThenMakes, SteadySafe, CatMakes, Zenon
  <2>7. CASE Makes(m5, k) /\ Steady(m6, k)
    BY ONLY <1>1, <1>5, <2>7, CatScript, ThenMakes, SteadySafe, CatMakes, Zenon
  <2>8. CASE Makes(m6, k)
    BY ONLY <1>1, <1>5, <2>8, CatScript, ThenMakes, Zenon
  <2> QED
    BY ONLY <2>2, <2>3, <2>4, <2>5, <2>6, <2>7, <2>8
<1> QED
  BY ONLY <1>6, <1>7

LEMMA RssiUpdateMakes ==
  \A set, k :
    /\ k.reg \notin {"MeasureDuration01", "MeasureDuration23", "RssiConfig"} =>
         Steady(RssiUpdate(set), k)
    /\ <<k.reg, k.field>> \in {<<"MeasureDuration01", "measurement_duration_0">>,
                               <<"MeasureDuration23", "measurement_duration_3">>,
                               <<"RssiConfig", "default_rssi_meas_mode">>}
       /\ "rate" \in k.good /\ ~set.in_samples
       => Makes(RssiUpdate(set), k)
<1> SUFFICES ASSUME NEW set, NEW k
             PROVE  /\ k.reg \notin {"MeasureDuration01", "MeasureDuration23", "RssiConfig"} =>
                         Steady(RssiUpdate(set), k)
                    /\ <<k.reg, k.field>> \in {<<"MeasureDuration01", "measurement_duration_0">>,
                                               <<"MeasureDuration23", "measurement_duration_3">>,
                                               <<"RssiConfig", "default_rssi_meas_mode">>}
                       /\ "rate" \in k.good /\ ~set.in_samples
                       => Makes(RssiUpdate(set), k)
  OBVIOUS
<1>1. CASE set.in_samples
  <2>1. RssiUpdate(set) = << >>
    BY <1>1 DEF RssiUpdate, When
  <2> QED
    BY <1>1, <2>1, NoneSpares
<1>2. CASE ~set.in_samples
  <2> DEFINE v1 == To("rate", MeasureDuration01.fields)
             v2 == To("rate", MeasureDuration23.fields)
             v3 == [rssi_mode_select |-> "set", start_rssi_meas |-> "set",
                    default_rssi_meas_mode |-> "rate"]
             w1 == WriteReg(MeasureDuration01, v1)
             w2 == WriteReg(MeasureDuration23, v2)
             w3 == WriteReg(RssiConfig, v3)
  <2>1. RssiUpdate(set) = w1 \o w2 \o w3
    BY <1>2 DEF RssiUpdate, RssiSetup, When
  <2>2. /\ "measurement_duration_0" \in DOMAIN v1 /\ v1["measurement_duration_0"] = "rate"
        /\ "measurement_duration_3" \in DOMAIN v2 /\ v2["measurement_duration_3"] = "rate"
        /\ "default_rssi_meas_mode" \in DOMAIN v3 /\ v3["default_rssi_meas_mode"] = "rate"
    BY DEF To, MeasureDuration01, MeasureDuration23, Register
  <2> HIDE DEF v1, v2, v3
  <2>3. /\ k.reg # "MeasureDuration01" => Steady(w1, k)
        /\ k.reg # "MeasureDuration23" => Steady(w2, k)
        /\ k.reg # "RssiConfig" => Steady(w3, k)
    BY ONLY RegistersAre, OtherSteady
  <2>4. /\ k.reg = "MeasureDuration01" /\ k.field = "measurement_duration_0"
           /\ "rate" \in k.good => Makes(w1, k)
        /\ k.reg = "MeasureDuration23" /\ k.field = "measurement_duration_3"
           /\ "rate" \in k.good => Makes(w2, k)
        /\ k.reg = "RssiConfig" /\ k.field = "default_rssi_meas_mode"
           /\ "rate" \in k.good => Makes(w3, k)
    BY ONLY <2>2, RegistersAre, SettingMakes
  <2>5. IsScript(w1) /\ IsScript(w2) /\ IsScript(w3)
    BY ONLY StepIs
  <2> HIDE DEF w1, w2, w3
  <2>6. ASSUME k.reg \notin {"MeasureDuration01", "MeasureDuration23", "RssiConfig"}
        PROVE  Steady(RssiUpdate(set), k)
    <3>1. Steady(w1, k) /\ Steady(w2, k) /\ Steady(w3, k)
      BY ONLY <2>3, <2>6
    <3> QED
      BY ONLY <2>1, <3>1, CatSteady, Zenon
  <2>7. ASSUME <<k.reg, k.field>> \in {<<"MeasureDuration01", "measurement_duration_0">>,
                                       <<"MeasureDuration23", "measurement_duration_3">>,
                                       <<"RssiConfig", "default_rssi_meas_mode">>},
               "rate" \in k.good
        PROVE  Makes(RssiUpdate(set), k)
    <3>1. \/ Makes(w1, k) /\ Steady(w2, k) /\ Steady(w3, k)
          \/ Makes(w2, k) /\ Steady(w3, k)
          \/ Makes(w3, k)
      BY ONLY <2>3, <2>4, <2>7
    <3> QED
      BY ONLY <2>1, <2>5, <3>1, CatScript, ThenMakes, SteadySafe, CatMakes, Zenon
  <2> QED
    BY ONLY <2>6, <2>7
<1> QED
  BY ONLY <1>1, <1>2

LEMMA AuxadcMakes ==
  \A k :
    /\ k.reg \notin {"TempSense2", "AuxadcClockDivider"} => Steady(AuxadcSetup, k)
    /\ <<k.reg, k.field>> \in {<<"TempSense2", "measurement_time_interval">>,
                               <<"AuxadcClockDivider", "auxadc_clock_divider">>}
       /\ "rate" \in k.good
       => Makes(AuxadcSetup, k)
<1> SUFFICES ASSUME NEW k
             PROVE  /\ k.reg \notin {"TempSense2", "AuxadcClockDivider"} => Steady(AuxadcSetup, k)
                    /\ <<k.reg, k.field>> \in {<<"TempSense2", "measurement_time_interval">>,
                                               <<"AuxadcClockDivider", "auxadc_clock_divider">>}
                       /\ "rate" \in k.good
                       => Makes(AuxadcSetup, k)
  OBVIOUS
<1> DEFINE v1 == [measurement_time_interval |-> "rate", temp_sense_periodic_enable |-> "set"]
           v2 == To("rate", AuxadcClockDivider.fields)
           w1 == WriteReg(TempSense2, v1)
           w2 == WriteReg(AuxadcClockDivider, v2)
<1>1. AuxadcSetup = w1 \o w2
  BY Zenon DEF AuxadcSetup
<1>2. /\ "measurement_time_interval" \in DOMAIN v1 /\ v1["measurement_time_interval"] = "rate"
      /\ "auxadc_clock_divider" \in DOMAIN v2 /\ v2["auxadc_clock_divider"] = "rate"
  BY DEF To, AuxadcClockDivider, Register
<1> HIDE DEF v1, v2
<1>3. /\ k.reg # "TempSense2" => Steady(w1, k)
      /\ k.reg # "AuxadcClockDivider" => Steady(w2, k)
  BY ONLY RegistersAre, OtherSteady
<1>4. /\ k.reg = "TempSense2" /\ k.field = "measurement_time_interval" /\ "rate" \in k.good =>
           Makes(w1, k)
      /\ k.reg = "AuxadcClockDivider" /\ k.field = "auxadc_clock_divider" /\ "rate" \in k.good =>
           Makes(w2, k)
  BY ONLY <1>2, RegistersAre, SettingMakes
<1>5. IsScript(w1)
  BY ONLY StepIs
<1> HIDE DEF w1, w2
<1>6. ASSUME k.reg \notin {"TempSense2", "AuxadcClockDivider"} PROVE Steady(AuxadcSetup, k)
  BY ONLY <1>1, <1>3, <1>6, CatSteady
<1>7. ASSUME <<k.reg, k.field>> \in {<<"TempSense2", "measurement_time_interval">>,
                                     <<"AuxadcClockDivider", "auxadc_clock_divider">>},
             "rate" \in k.good
      PROVE  Makes(AuxadcSetup, k)
  <2>1. \/ Makes(w1, k) /\ Steady(w2, k)
        \/ Makes(w2, k)
    BY ONLY <1>3, <1>4, <1>7
  <2> QED
    BY ONLY <1>1, <1>5, <2>1, ThenMakes, SteadySafe, CatMakes, Zenon
<1> QED
  BY ONLY <1>6, <1>7

\* What depends on the rates and not on the modes.
TimingFields(set) ==
  GainTiming \cup {<<"TempSense2", "measurement_time_interval">>,
                   <<"AuxadcClockDivider", "auxadc_clock_divider">>}
  \cup IF set.in_samples THEN {}
       ELSE {<<"MeasureDuration01", "measurement_duration_0">>,
             <<"MeasureDuration23", "measurement_duration_3">>,
             <<"RssiConfig", "default_rssi_meas_mode">>}

LEMMA TimingIs == TimingFields(s) = GainTiming \cup OtherTiming
  BY Zenon DEF TimingFields, OtherTiming

\* bb_clk_update refreshes all of it.
LEMMA BbClkUpdateMakes ==
  \A set, k :
    \/ <<k.reg, k.field>> \in TimingFields(set) /\ "rate" \in k.good
    \/ <<k.reg, k.field>> = PowerField /\ "power" \in k.good
    => Makes(BbClkUpdate(set), k)
<1> SUFFICES ASSUME NEW set, NEW k,
                    \/ <<k.reg, k.field>> \in TimingFields(set) /\ "rate" \in k.good
                    \/ <<k.reg, k.field>> = PowerField /\ "power" \in k.good
             PROVE  Makes(BbClkUpdate(set), k)
  OBVIOUS
<1>1. IsScript(GcUpdate) /\ IsScript(RssiUpdate(set))
  <2>1. IsScript(RssiSetup(set))
    BY RssiSetupDoes DEF Does
  <2> QED
    BY <2>1, GcUpdateDoes, StepIs DEF Does, RssiUpdate
<1>2. CASE \/ <<k.reg, k.field>> \in GainTiming /\ "rate" \in k.good
           \/ <<k.reg, k.field>> = PowerField /\ "power" \in k.good
  <2>1. k.reg \in GcNames
    BY ONLY <1>2 DEF GainTiming, PowerField, GcNames
  <2>2. /\ k.reg \notin {"MeasureDuration01", "MeasureDuration23", "RssiConfig"}
        /\ k.reg \notin {"TempSense2", "AuxadcClockDivider"}
    BY ONLY <2>1 DEF GcNames
  <2>3. Makes(GcUpdate, k) /\ Steady(RssiUpdate(set), k) /\ Steady(AuxadcSetup, k)
    BY ONLY <1>2, <2>2, GcUpdateMakes, RssiUpdateMakes, AuxadcMakes, Zenon
  <2> QED
    BY ONLY <2>3, SteadySafe, CatMakes, Zenon DEF BbClkUpdate
<1>3. CASE /\ <<k.reg, k.field>> \in {<<"MeasureDuration01", "measurement_duration_0">>,
                                      <<"MeasureDuration23", "measurement_duration_3">>,
                                      <<"RssiConfig", "default_rssi_meas_mode">>}
           /\ "rate" \in k.good /\ ~set.in_samples
  <2>1. k.reg \notin {"TempSense2", "AuxadcClockDivider"}
    BY ONLY <1>3
  <2>2. Makes(RssiUpdate(set), k) /\ Steady(AuxadcSetup, k)
    BY ONLY <1>3, <2>1, RssiUpdateMakes, AuxadcMakes, Zenon
  <2> QED
    BY ONLY <1>1, <2>2, CatScript, ThenMakes, SteadySafe, CatMakes, Zenon DEF BbClkUpdate
<1>4. CASE <<k.reg, k.field>> \in {<<"TempSense2", "measurement_time_interval">>,
                                   <<"AuxadcClockDivider", "auxadc_clock_divider">>}
           /\ "rate" \in k.good
  <2>1. Makes(AuxadcSetup, k)
    BY ONLY <1>4, AuxadcMakes, Zenon
  <2> QED
    BY ONLY <1>1, <2>1, CatScript, ThenMakes, Zenon DEF BbClkUpdate
<1> QED
  BY <1>2, <1>3, <1>4 DEF TimingFields

LEMMA ClockMakes ==
  \A set, k : \A rate \in Rates :
    \/ <<k.reg, k.field>> \in TimingFields(set) /\ "rate" \in k.good
    \/ <<k.reg, k.field>> = PowerField /\ "power" \in k.good
    => Makes(SetTrxClockChain(set, rate), k)
<1>1. \A rate \in Rates : IsScript(ApplyClockChain(rate))
  BY ApplyClockChainDoes DEF Does
<1> QED
  BY ONLY <1>1, BbClkUpdateMakes, ThenMakes, Zenon DEF SetTrxClockChain

ClockNames == GcNames \cup {"BbPll", "RxEnableFilterControl", "TxEnableFilterControl",
  "MeasureDuration01", "MeasureDuration23", "RssiConfig", "TempSense2", "AuxadcClockDivider"}

LEMMA ClockSteady ==
  \A set, rate, k :
    k.reg \notin ClockNames /\ "rate" \notin k.upset => Steady(SetTrxClockChain(set, rate), k)
<1> SUFFICES ASSUME NEW set, NEW rate, NEW k, k.reg \notin ClockNames, "rate" \notin k.upset
             PROVE  Steady(SetTrxClockChain(set, rate), k)
  OBVIOUS
<1>1. /\ k.reg \notin GcNames
      /\ k.reg \notin {"MeasureDuration01", "MeasureDuration23", "RssiConfig"}
      /\ k.reg \notin {"TempSense2", "AuxadcClockDivider"}
      /\ k.reg # "BbPll" /\ k.reg # "RxEnableFilterControl" /\ k.reg # "TxEnableFilterControl"
  BY ONLY k.reg \notin ClockNames DEF ClockNames
<1>2. Steady(GcUpdate, k) /\ Steady(RssiUpdate(set), k) /\ Steady(AuxadcSetup, k)
  BY ONLY <1>1, GcUpdateMakes, RssiUpdateMakes, AuxadcMakes, Zenon
<1>3. \A r : Steady(NewRate(r), k)
  BY OneSpares DEF NewRate, Spares
<1>4. \A fs : /\ Steady(Modify(BbPll, fs), k)
              /\ Steady(Modify(RxEnableFilterControl, fs), k)
              /\ Steady(Modify(TxEnableFilterControl, fs), k)
  BY ONLY <1>1, RegistersAre, OtherSteady
<1>5. Steady(ApplyClockChain(rate), k)
  BY ONLY <1>3, <1>4, CatSteady, Zenon DEF ApplyClockChain
<1> QED
  BY ONLY <1>2, <1>5, CatSteady, Zenon DEF SetTrxClockChain, BbClkUpdate

LEMMA AttenSteady == \A k : k.reg # "Tx2DigAtten" => Steady(SetTxAtten, k)
<1> SUFFICES ASSUME NEW k, k.reg # "Tx2DigAtten" PROVE Steady(SetTxAtten, k)
  OBVIOUS
<1>1. \A vals : Steady(ModifyReg(Tx2DigAtten, vals), k) /\ Steady(Modify(Tx2DigAtten, vals), k)
  BY ONLY k.reg # "Tx2DigAtten", RegistersAre, OtherSteady
<1> QED
  BY ONLY <1>1, CatSteady, Zenon DEF SetTxAtten

\* Forcing the state and restoring it keeps to the register of the state machine.
LEMMA ForcingSteady ==
  \A set, k : k.reg # "EnsmConfig1" => Steady(ForceAlert(set), k) /\ Steady(RestoreRunning(set), k)
<1> SUFFICES ASSUME NEW set, NEW k, k.reg # "EnsmConfig1"
             PROVE  Steady(ForceAlert(set), k) /\ Steady(RestoreRunning(set), k)
  OBVIOUS
<1>1. /\ Steady(Save(EnsmConfig1), k)
      /\ \A vals : Steady(PutBack(EnsmConfig1, vals), k) /\ Steady(WriteReg(EnsmConfig1, vals), k)
  BY ONLY k.reg # "EnsmConfig1", RegistersAre, OtherSteady
<1>2. Steady(ForcePulse, k)
  BY ONLY <1>1, Zenon DEF ForcePulse
<1>3. \A c, vals : Steady(When(c, PutBack(EnsmConfig1, vals)), k)
  BY ONLY <1>1, WhenSteady, Zenon
<1>4. Steady(ForceAlert(set), k)
  BY ONLY <1>1, <1>2, CatSteady, Zenon DEF ForceAlert
<1>5. Steady(RestoreRunning(set), k)
  <2> DEFINE config == [f \in Unforced \cup {"to_alert"} |->
                          IF f \in {On(set), "to_alert"} THEN "set" ELSE "zero"]
             pins == [f \in DOMAIN config \cup {"enable_ensm_pin_ctrl"} |->
                        IF f = "enable_ensm_pin_ctrl" THEN "set" ELSE config[f]]
  <2>1. RestoreRunning(set) =
          Save(EnsmConfig1) \o ForcePulse
          \o (PutBack(EnsmConfig1, config)
            \o When(PinsRemembered(set), PutBack(EnsmConfig1, pins)))
    BY Zenon DEF RestoreRunning
  <2> HIDE DEF config, pins
  <2> QED
    BY ONLY <1>1, <1>2, <1>3, <2>1, CatSteady, Zenon
<1> QED
  BY <1>4, <1>5

LEMMA InitMakesTiming ==
  \A set, k : \A rate \in Rates, cut \in CutOffs :
    \/ <<k.reg, k.field>> \in TimingFields(set) /\ "rate" \in k.good
    \/ <<k.reg, k.field>> = PowerField /\ "power" \in k.good
    => Makes(InitScript(set, rate, cut), k)
<1> SUFFICES ASSUME NEW set, NEW k, NEW rate \in Rates, NEW cut \in CutOffs,
                    \/ <<k.reg, k.field>> \in TimingFields(set) /\ "rate" \in k.good
                    \/ <<k.reg, k.field>> = PowerField /\ "power" \in k.good
             PROVE  Makes(InitScript(set, rate, cut), k)
  OBVIOUS
<1>1. k.reg # "EnsmConfig1"
  BY DEF TimingFields, GainTiming, PowerField
<1>2. Makes(SetTrxClockChain(set, rate), k)
  BY ClockMakes, Zenon
<1>3. Safe(ForceAlert(set), k) /\ Safe(RestoreRunning(set), k)
  BY ONLY <1>1, ForcingSteady, SteadySafe, Zenon
<1>4. IsScript(Ends(set, rate))
  <2> DEFINE k2 == Asked(set, "BbPll", "bbpll_divider")
  <2>1. "bbpll_divider" \in Ours(set, "BbPll")
    <3>1. Ours(set, "BbPll") = BbPll.fields
      BY ONLY OwnAre, RegistersAre DEF Own, Is
    <3> QED
      BY <3>1 DEF BbPll, Register
  <2>2. Stages(set, rate, cut, "BbPll", k2)
    BY <2>1, StagesMake
  <2> QED
    BY <2>2, Zenon DEF Stages
<1>5. IsScript(DigTune(set, cut))
  BY DigTuneDoes DEF Does
<1> QED
  BY ONLY <1>2, <1>3, <1>4, <1>5, InitIs, CatMakes, ThenMakes, Zenon

-----------------------------------------------------------------------------
(***************************************************************************)
(* set_gain_mode.                                                          *)
(***************************************************************************)
PauseStep(set, c) == ModifyReg(RxEnableFilterControl, To("cal", Paused(set, c)))
ModeValues(c, mode) == [f \in {GainModeField(c), "slow_attack_hybrid_mode"} |->
                          IF f = GainModeField(c) THEN mode ELSE HybridBit({mode})]
ModeStep(c, mode) == ModifyReg(AgcConfig1, ModeValues(c, mode))
TellStep(c, mode) == NewModes([d \in {c} |-> mode])
ResumeStep == ModifyReg(RxEnableFilterControl,
                        To("saved", {"rx1_channel_enable", "rx2_channel_enable"}))

LEMMA ModeScriptIs ==
  \A set, c, mode :
    SetGainModeScript(set, c, mode) =
      Save(RxEnableFilterControl) \o PauseStep(set, c) \o ModeStep(c, mode) \o TellStep(c, mode)
      \o ResumeStep \o GcUpdate
  BY Zenon DEF SetGainModeScript, PauseStep, ModeStep, ModeValues, TellStep, ResumeStep

LEMMA TellSteady == \A c, mode, k : "modes" \notin k.upset => Steady(TellStep(c, mode), k)
  BY OneSpares DEF TellStep, NewModes, Spares

LEMMA ModeStepsAre ==
  \A set, c, mode :
    /\ IsScript(Save(RxEnableFilterControl)) /\ IsScript(PauseStep(set, c))
    /\ IsScript(ModeStep(c, mode)) /\ IsScript(TellStep(c, mode)) /\ IsScript(ResumeStep)
    /\ IsScript(GcUpdate)
<1>1. IsScript(GcUpdate)
  BY GcUpdateDoes DEF Does
<1>2. \A c, mode : IsScript(TellStep(c, mode))
  BY OneIs DEF TellStep, NewModes
<1> QED
  BY ONLY <1>1, <1>2, StepIs, Zenon DEF PauseStep, ModeStep, ResumeStep

\* Of the other registers only the gain timing is touched.
LEMMA ModeSteady ==
  \A set, c, mode, k :
    /\ k.reg \notin {"RxEnableFilterControl", "AgcConfig1"} /\ "modes" \notin k.upset
    /\ Steady(GcUpdate, k)
    => Steady(SetGainModeScript(set, c, mode), k)
<1> SUFFICES ASSUME NEW set, NEW c, NEW mode, NEW k,
                    k.reg \notin {"RxEnableFilterControl", "AgcConfig1"}, "modes" \notin k.upset,
                    Steady(GcUpdate, k)
             PROVE  Steady(SetGainModeScript(set, c, mode), k)
  OBVIOUS
<1>1. k.reg # "RxEnableFilterControl" /\ k.reg # "AgcConfig1"
  OBVIOUS
<1>2. \A vals : /\ Steady(ModifyReg(RxEnableFilterControl, vals), k)
                /\ Steady(ModifyReg(AgcConfig1, vals), k)
                /\ Steady(Save(RxEnableFilterControl), k)
  BY ONLY <1>1, RegistersAre, OtherSteady
<1>3. /\ Steady(PauseStep(set, c), k) /\ Steady(ModeStep(c, mode), k) /\ Steady(ResumeStep, k)
      /\ Steady(Save(RxEnableFilterControl), k)
  BY ONLY <1>2, Zenon DEF PauseStep, ModeStep, ResumeStep
<1>4. Steady(TellStep(c, mode), k)
  BY TellSteady, Zenon
<1> QED
  BY ONLY <1>3, <1>4, Steady(GcUpdate, k), ModeScriptIs, CatSteady, Zenon

\* It refreshes what depends on the modes, and on the rates.
LEMMA ModeMakesTiming ==
  \A set, c, mode, k :
    \/ <<k.reg, k.field>> \in GainTiming /\ "rate" \in k.good
    \/ <<k.reg, k.field>> = PowerField /\ "power" \in k.good
    => Makes(SetGainModeScript(set, c, mode), k)
  BY ONLY GcUpdateMakes, ModeScriptIs, ModeStepsAre, CatScript, ThenMakes, Zenon

\* The register of the modes.
LEMMA ModeStepDoes ==
  \A c, mode, k :
    k.reg = "AgcConfig1" =>
      /\ k.field \notin {GainModeField(c), "slow_attack_hybrid_mode"} =>
           Steady(ModeStep(c, mode), k)
      /\ k.field = GainModeField(c) /\ mode \in k.good =>
           Steady(ModeStep(c, mode), k) /\ Makes(ModeStep(c, mode), k)
<1> SUFFICES ASSUME NEW c, NEW mode, NEW k, k.reg = "AgcConfig1"
             PROVE  /\ k.field \notin {GainModeField(c), "slow_attack_hybrid_mode"} =>
                         Steady(ModeStep(c, mode), k)
                    /\ k.field = GainModeField(c) /\ mode \in k.good =>
                         Steady(ModeStep(c, mode), k) /\ Makes(ModeStep(c, mode), k)
  OBVIOUS
<1> DEFINE vals == ModeValues(c, mode)
<1>1. /\ DOMAIN vals = {GainModeField(c), "slow_attack_hybrid_mode"}
      /\ vals[GainModeField(c)] = mode
      /\ GainModeField(c) # "slow_attack_hybrid_mode"
  BY DEF ModeValues, GainModeField
<1>2. ModeStep(c, mode) = ModifyReg(AgcConfig1, vals)
  BY DEF ModeStep
<1>3. Is(AgcConfig1, "AgcConfig1")
  BY RegistersAre
<1> HIDE DEF vals
<1>4. k.field \notin DOMAIN vals => Steady(ModeStep(c, mode), k)
  BY ONLY <1>2, SparingSteady, Zenon
<1>5. k.field \in DOMAIN vals /\ vals[k.field] \in k.good =>
        Steady(ModeStep(c, mode), k) /\ Makes(ModeStep(c, mode), k)
  BY ONLY <1>2, <1>3, k.reg = "AgcConfig1", SettingMakes, Zenon
<1> QED
  BY ONLY <1>1, <1>4, <1>5

LEMMA ModeMakes ==
  \A set, c, mode, k :
    k.reg = "AgcConfig1" /\ k.upset = {} =>
      /\ Steady(ModeStep(c, mode), k) => Steady(SetGainModeScript(set, c, mode), k)
      /\ Makes(ModeStep(c, mode), k) => Makes(SetGainModeScript(set, c, mode), k)
<1> SUFFICES ASSUME NEW set, NEW c, NEW mode, NEW k, k.reg = "AgcConfig1", k.upset = {}
             PROVE  /\ Steady(ModeStep(c, mode), k) => Steady(SetGainModeScript(set, c, mode), k)
                    /\ Makes(ModeStep(c, mode), k) => Makes(SetGainModeScript(set, c, mode), k)
  OBVIOUS
<1>1. k.reg # "RxEnableFilterControl" /\ "modes" \notin k.upset /\ k.reg \notin GcNames
  BY DEF GcNames
<1>2. \A vals : /\ Steady(ModifyReg(RxEnableFilterControl, vals), k)
                /\ Steady(Save(RxEnableFilterControl), k)
  BY ONLY <1>1, RegistersAre, OtherSteady
<1>3. /\ Steady(PauseStep(set, c), k) /\ Steady(ResumeStep, k)
      /\ Steady(Save(RxEnableFilterControl), k)
  BY ONLY <1>2, Zenon DEF PauseStep, ResumeStep
<1>4. Steady(TellStep(c, mode), k) /\ Steady(GcUpdate, k)
  BY ONLY <1>1, TellSteady, GcUpdateMakes, Zenon
<1>5. ASSUME Steady(ModeStep(c, mode), k) PROVE Steady(SetGainModeScript(set, c, mode), k)
  BY ONLY <1>3, <1>4, <1>5, ModeScriptIs, CatSteady, Zenon
<1>6. ASSUME Makes(ModeStep(c, mode), k) PROVE Makes(SetGainModeScript(set, c, mode), k)
  BY ONLY <1>3, <1>4, <1>6, ModeScriptIs, ModeStepsAre, CatScript, ThenMakes, SteadySafe,
     CatMakes, Zenon
<1> QED
  BY ONLY <1>5, <1>6

-----------------------------------------------------------------------------
(***************************************************************************)
(* The channels: what is saved is put back.                                *)
(***************************************************************************)
Both == {"field", "saved"}

LEMMA OneHolds ==
  ASSUME NEW a, NEW k
  PROVE  /\ a.op = "save" /\ a.reg = k.reg => Holds(<<a>>, k, {"field"}, Both)
         /\ Spares(a, k) /\ a.op # "save" /\ a.op \notin k.upset => Holds(<<a>>, k, Both, Both)
         /\ PutsBack(a, k) => Holds(<<a>>, k, Both, {"field"})
<1> DEFINE q == <<a>>
<1>1. IsScript(q) /\ Len(q) = 1 /\ q[1] = a
  BY OneIs
<1> HIDE DEF q
<1>2. /\ \A i \in 1..Len(q) : i = 1 /\ i - 1 = 0
      /\ 0..Len(q) = {0, 1} /\ 1 # 0
  BY ONLY <1>1, SMT
<1>3. ASSUME a.op = "save", a.reg = k.reg PROVE Knows(q, k, {"field"}, {0, 1}, {1})
  BY <1>1, <1>2, <1>3 DEF Knows, Spares
<1>4. ASSUME Spares(a, k), a.op # "save", a.op \notin k.upset
      PROVE  Knows(q, k, Both, {0, 1}, {0, 1})
  BY <1>1, <1>2, <1>4 DEF Knows, Both
<1>5. ASSUME PutsBack(a, k) PROVE Knows(q, k, Both, {0, 1}, {0})
  BY <1>1, <1>2, <1>5 DEF Knows, Both
<1>6. 1 \in {1} /\ 1 \in {0, 1} /\ "saved" \notin {"field"}
  OBVIOUS
<1>7. /\ a.op = "save" /\ a.reg = k.reg => Holds(q, k, {"field"}, Both)
      /\ Spares(a, k) /\ a.op # "save" /\ a.op \notin k.upset => Holds(q, k, Both, Both)
      /\ PutsBack(a, k) => Holds(q, k, Both, {"field"})
  BY ONLY <1>1, <1>2, <1>3, <1>4, <1>5, <1>6, Zenon DEF Holds
<1> QED
  BY <1>7 DEF q

LEMMA ResumeIs ==
  \A k : k.reg = "RxEnableFilterControl" /\ k.upset = {}
         /\ k.field \in {"rx1_channel_enable", "rx2_channel_enable"} =>
    /\ Holds(ResumeStep, k, Both, {"field"})
    /\ Leads(ResumeStep, k, {"saved"}, {"field"})
<1> SUFFICES ASSUME NEW k, k.reg = "RxEnableFilterControl", k.upset = {},
                    k.field \in {"rx1_channel_enable", "rx2_channel_enable"}
             PROVE  /\ Holds(ResumeStep, k, Both, {"field"})
                    /\ Leads(ResumeStep, k, {"saved"}, {"field"})
  OBVIOUS
<1> DEFINE vals == To("saved", {"rx1_channel_enable", "rx2_channel_enable"})
           a == [op |-> "modify", reg |-> RxEnableFilterControl.name, vals |-> vals]
<1>1. ResumeStep = <<a>>
  BY DEF ResumeStep, ModifyReg, Access
<1>2. RxEnableFilterControl.name = k.reg
  BY RegistersAre DEF Is
<1>3. PutsBack(a, k)
  BY <1>2 DEF PutsBack, Changes, To
<1>4. a.op # "save" /\ a.op \notin k.upset
  OBVIOUS
<1> HIDE DEF a
<1> QED
  BY <1>1, <1>3, <1>4, OneHolds, OneLeads

LEMMA SaveHolds ==
  \A k : k.reg = "RxEnableFilterControl" => Holds(Save(RxEnableFilterControl), k, {"field"}, Both)
<1> SUFFICES ASSUME NEW k, k.reg = "RxEnableFilterControl"
             PROVE  Holds(Save(RxEnableFilterControl), k, {"field"}, Both)
  OBVIOUS
<1> DEFINE a == [op |-> "save", reg |-> RxEnableFilterControl.name, vals |-> << >>]
<1>1. Save(RxEnableFilterControl) = <<a>> /\ a.op = "save" /\ a.reg = k.reg
  BY RegistersAre DEF Save, Access, Is
<1> HIDE DEF a
<1> QED
  BY <1>1, OneHolds

\* Neither do the steps in between touch it.
LEMMA BetweenHolds ==
  \A set, c, mode, k :
    k.reg = "RxEnableFilterControl" /\ k.upset = {} =>
      /\ k.field \notin Paused(set, c) => Holds(PauseStep(set, c), k, Both, Both)
      /\ Holds(ModeStep(c, mode), k, Both, Both)
      /\ Holds(TellStep(c, mode), k, Both, Both)
<1> SUFFICES ASSUME NEW set, NEW c, NEW mode, NEW k, k.reg = "RxEnableFilterControl",
                    k.upset = {}
             PROVE  /\ k.field \notin Paused(set, c) => Holds(PauseStep(set, c), k, Both, Both)
                    /\ Holds(ModeStep(c, mode), k, Both, Both)
                    /\ Holds(TellStep(c, mode), k, Both, Both)
  OBVIOUS
<1>1. ASSUME k.field \notin Paused(set, c) PROVE Holds(PauseStep(set, c), k, Both, Both)
  <2> DEFINE vals == To("cal", Paused(set, c))
             a == [op |-> "modify", reg |-> RxEnableFilterControl.name, vals |-> vals]
  <2>1. PauseStep(set, c) = <<a>>
    BY DEF PauseStep, ModifyReg, Access
  <2>2. Spares(a, k) /\ a.op # "save" /\ a.op \notin k.upset
    BY <1>1 DEF Spares, To
  <2> HIDE DEF a
  <2> QED
    BY <2>1, <2>2, OneHolds
<1>2. Holds(ModeStep(c, mode), k, Both, Both)
  <2> DEFINE vals == ModeValues(c, mode)
             a == [op |-> "modify", reg |-> AgcConfig1.name, vals |-> vals]
  <2>1. ModeStep(c, mode) = <<a>>
    BY DEF ModeStep, ModifyReg, Access
  <2>2. AgcConfig1.name # k.reg
    BY RegistersAre DEF Is
  <2>3. Spares(a, k) /\ a.op # "save" /\ a.op \notin k.upset
    BY <2>2 DEF Spares
  <2> HIDE DEF a
  <2> QED
    BY <2>1, <2>3, OneHolds
<1>3. Holds(TellStep(c, mode), k, Both, Both)
  <2> DEFINE a == [op |-> "modes", modes |-> [d \in {c} |-> mode]]
  <2>1. TellStep(c, mode) = <<a>>
    BY DEF TellStep, NewModes
  <2>2. Spares(a, k) /\ a.op # "save" /\ a.op \notin k.upset
    BY DEF Spares
  <2> HIDE DEF a
  <2> QED
    BY <2>1, <2>2, OneHolds
<1> QED
  BY ONLY <1>1, <1>2, <1>3

LEMMA BetweenKeeps ==
  \A set, c, mode, k :
    k.upset = {} => /\ Keeps(PauseStep(set, c), k) /\ Keeps(ModeStep(c, mode), k)
                    /\ Keeps(TellStep(c, mode), k)
<1> SUFFICES ASSUME NEW set, NEW c, NEW mode, NEW k, k.upset = {}
             PROVE  /\ Keeps(PauseStep(set, c), k) /\ Keeps(ModeStep(c, mode), k)
                    /\ Keeps(TellStep(c, mode), k)
  OBVIOUS
<1>1. Keeps(PauseStep(set, c), k) /\ Keeps(ModeStep(c, mode), k)
  BY AccessKeeps DEF PauseStep, ModeStep
<1>2. Keeps(TellStep(c, mode), k)
  BY OneLeads DEF TellStep, NewModes
<1> QED
  BY <1>1, <1>2

LEMMA ChannelSteady ==    \* the other channel, and what else is in the register
  \A set, c, mode, k :
    /\ k.reg = "RxEnableFilterControl" /\ k.upset = {} /\ k.field \notin Paused(set, c)
    => Steady(SetGainModeScript(set, c, mode), k)
<1> SUFFICES ASSUME NEW set, NEW c, NEW mode, NEW k, k.reg = "RxEnableFilterControl",
                    k.upset = {}, k.field \notin Paused(set, c)
             PROVE  Steady(SetGainModeScript(set, c, mode), k)
  OBVIOUS
<1>1. Steady(GcUpdate, k)
  <2>1. k.reg \notin GcNames
    BY DEF GcNames
  <2> QED
    BY ONLY <2>1, GcUpdateMakes, Zenon
<1>2. /\ Holds(Save(RxEnableFilterControl), k, {"field"}, Both)
      /\ Holds(PauseStep(set, c), k, Both, Both) /\ Holds(ModeStep(c, mode), k, Both, Both)
      /\ Holds(TellStep(c, mode), k, Both, Both)
  BY SaveHolds, BetweenHolds, Zenon
<1>3. Both \cup {"field"} = Both /\ {"field"} \cup {"field"} = {"field"}
  BY DEF Both
<1>4. Holds(Save(RxEnableFilterControl) \o PauseStep(set, c) \o ModeStep(c, mode)
            \o TellStep(c, mode), k, {"field"}, Both)
  <2>1. \A a, b : Holds(a, k, {"field"}, Both) /\ Holds(b, k, Both, Both) =>
                  Holds(a \o b, k, {"field"}, Both)
    BY ONLY <1>3, CatHolds
  <2> QED
    BY ONLY <1>2, <2>1, Zenon
<1>5. CASE k.field \in {"rx1_channel_enable", "rx2_channel_enable"}
  <2>1. Holds(ResumeStep, k, Both, {"field"})
    BY <1>5, ResumeIs
  <2> DEFINE q == Save(RxEnableFilterControl) \o PauseStep(set, c) \o ModeStep(c, mode)
                  \o TellStep(c, mode)
  <2> HIDE DEF q
  <2>2. Holds(q \o ResumeStep, k, {"field"}, {"field"})
    BY ONLY <1>3, <1>4, <2>1, CatHolds DEF q
  <2>3. Holds((q \o ResumeStep) \o GcUpdate, k, {"field"}, {"field"})
    BY ONLY <1>1, <1>3, <2>2, CatHolds DEF Steady
  <2> QED
    BY ONLY <2>3, ModeScriptIs, Zenon DEF Steady, q
<1>6. CASE k.field \notin {"rx1_channel_enable", "rx2_channel_enable"}
  <2>1. Steady(PauseStep(set, c), k) /\ Steady(ResumeStep, k)
    BY <1>6, SparingSteady DEF PauseStep, ResumeStep, To
  <2>2. Steady(Save(RxEnableFilterControl), k) /\ Steady(ModeStep(c, mode), k)
    BY RegistersAre, OtherSteady DEF ModeStep
  <2>3. Steady(TellStep(c, mode), k)
    BY TellSteady
  <2> QED
    BY ONLY <1>1, <2>1, <2>2, <2>3, ModeScriptIs, CatSteady, Zenon
<1> QED
  BY <1>5, <1>6

LEMMA ChannelSafe ==    \* the channel that is changed is on again afterwards
  \A set, c, mode, k :
    /\ k.reg = "RxEnableFilterControl" /\ k.upset = {}
    /\ k.field \in {"rx1_channel_enable", "rx2_channel_enable"}
    => Safe(SetGainModeScript(set, c, mode), k)
<1> SUFFICES ASSUME NEW set, NEW c, NEW mode, NEW k, k.reg = "RxEnableFilterControl",
                    k.upset = {}, k.field \in {"rx1_channel_enable", "rx2_channel_enable"}
             PROVE  Safe(SetGainModeScript(set, c, mode), k)
  OBVIOUS
<1>1. Safe(GcUpdate, k)
  <2>1. k.reg \notin GcNames
    BY DEF GcNames
  <2> QED
    BY ONLY <2>1, GcUpdateMakes, SteadySafe, Zenon
<1>2. Leads(Save(RxEnableFilterControl), k, {"field"}, {"saved"})
  BY SaveLeads, RegistersAre DEF Is
<1>3. /\ Keeps(PauseStep(set, c), k) /\ Keeps(ModeStep(c, mode), k)
      /\ Keeps(TellStep(c, mode), k)
  BY BetweenKeeps, Zenon
<1>4. Leads(ResumeStep, k, {"saved"}, {"field"})
  BY ResumeIs
<1> QED
  BY ONLY <1>1, <1>2, <1>3, <1>4, ModeScriptIs, CatLeads, Zenon DEF Keeps, Safe

-----------------------------------------------------------------------------
(***************************************************************************)
(* What the calls do to a concern k, whose field a failed call with the    *)
(* effect e may leave in between.                                          *)
(***************************************************************************)
Minds(a, k, e) ==
  /\ e \in Redoes(a) => Makes(Script(s, a), k)
  /\ e \in Spoils(a) => Safe(Script(s, a), k)
  /\ e \notin Spoils(a) => Steady(Script(s, a), k)

Asking == ModeCalls \cup RateCalls \cup {Atten}

Heeded(k, e) ==
  /\ Concern(k)
  /\ \A rate \in Rates, cut \in CutOffs : Makes(InitScript(s, rate, cut), k)
  /\ \A a \in Asking : Minds(a, k, e)

LEMMA ModeMinds ==
  ASSUME NEW a \in ModeCalls, NEW k, NEW e,
         e \in {<<"mode", a.c>>, <<"gain timing">>} =>
           Makes(SetGainModeScript(s, a.c, a.mode), k),
         e = <<"channel", a.c>> => Safe(SetGainModeScript(s, a.c, a.mode), k),
         e \notin {<<"mode", a.c>>, <<"channel", a.c>>, <<"gain timing">>} =>
           Steady(SetGainModeScript(s, a.c, a.mode), k)
  PROVE  Minds(a, k, e)
<1>1. a.op = "mode"
  BY DEF ModeCalls
<1>2. /\ Script(s, a) = SetGainModeScript(s, a.c, a.mode)
      /\ Spoils(a) = {<<"mode", a.c>>, <<"channel", a.c>>, <<"gain timing">>}
      /\ Redoes(a) = {<<"mode", a.c>>, <<"gain timing">>}
  BY <1>1 DEF Script, Spoils, Redoes
<1> QED
  BY <1>2, MakesSafe DEF Minds

LEMMA RateMinds ==
  ASSUME NEW a \in RateCalls, NEW k, NEW e,
         e \in {<<"gain timing">>, <<"other timing">>} => Makes(SetTrxClockChain(s, a.rate), k),
         e \notin {<<"gain timing">>, <<"other timing">>} => Steady(SetTrxClockChain(s, a.rate), k)
  PROVE  Minds(a, k, e)
<1>1. a.op = "rate"
  BY DEF RateCalls
<1>2. /\ Script(s, a) = SetTrxClockChain(s, a.rate)
      /\ Spoils(a) = {<<"gain timing">>, <<"other timing">>}
      /\ Redoes(a) = {<<"gain timing">>, <<"other timing">>}
  BY <1>1 DEF Script, Spoils, Redoes
<1> QED
  BY <1>2, MakesSafe DEF Minds

LEMMA AttenMinds ==
  ASSUME NEW k, NEW e,
         e = <<"atten">> => Makes(SetTxAtten, k),
         e # <<"atten">> => Steady(SetTxAtten, k)
  PROVE  Minds(Atten, k, e)
<1>1. Atten.op = "atten"
  BY DEF Atten
<1>2. /\ Script(s, Atten) = SetTxAtten
      /\ Spoils(Atten) = {<<"atten">>} /\ Redoes(Atten) = {<<"atten">>}
  BY <1>1 DEF Script, Spoils, Redoes
<1> QED
  BY <1>2, MakesSafe DEF Minds

LEMMA Effects ==
  /\ <<"none">> \notin {<<"gain timing">>, <<"other timing">>} /\ <<"none">> # <<"atten">>
  /\ <<"atten">> \notin {<<"gain timing">>, <<"other timing">>}
  /\ <<"other timing">> # <<"gain timing">>
  /\ <<"gain timing">> # <<"atten">> /\ <<"other timing">> # <<"atten">>
  /\ \A c, d :
       /\ <<"mode", c>> # <<"channel", d>>
       /\ <<"mode", c>> = <<"mode", d>> => c = d
       /\ <<"channel", c>> = <<"channel", d>> => c = d
       /\ \A v \in {"none", "gain timing", "other timing", "atten"} :
            <<v>> # <<"mode", c>> /\ <<v>> # <<"channel", c>>
  OBVIOUS

\* Other values are good, too.
LEMMA GoodMore ==
  ASSUME NEW k, NEW l, k.reg = l.reg, k.field = l.field, k.upset = l.upset,
         k.good \subseteq l.good
  PROVE  \A q : Makes(q, k) => Makes(q, l)
<1>1. \A a : /\ Sets(a, k) => Sets(a, l)
             /\ Spares(a, k) <=> Spares(a, l)
             /\ PutsBack(a, k) <=> PutsBack(a, l)
  BY DEF Sets, Spares, PutsBack, Changes
<1>2. ASSUME NEW q, NEW K, NEW C, NEW V, Knows(q, k, K, C, V)
      PROVE  Knows(q, l, K, C, V)
  <2>1. /\ C \subseteq 0..Len(q) /\ V \subseteq 0..Len(q)
        /\ 0 \in C => "field" \in K
        /\ 0 \in V => "saved" \in K
    BY <1>2 DEF Knows
  <2>2. ASSUME NEW i \in 1..Len(q)
        PROVE  /\ i \in C => \/ Sets(q[i], l)
                             \/ Spares(q[i], l) /\ i - 1 \in C
                             \/ PutsBack(q[i], l) /\ i - 1 \in V
               /\ i \in V => IF q[i].op = "save" THEN q[i].reg = l.reg /\ i - 1 \in C
                                                 ELSE q[i].op \notin l.upset /\ i - 1 \in V
    <3>1. /\ i \in C => \/ Sets(q[i], k)
                        \/ Spares(q[i], k) /\ i - 1 \in C
                        \/ PutsBack(q[i], k) /\ i - 1 \in V
          /\ i \in V => IF q[i].op = "save" THEN q[i].reg = k.reg /\ i - 1 \in C
                                            ELSE q[i].op \notin k.upset /\ i - 1 \in V
      BY <1>2, <2>2 DEF Knows
    <3>2. /\ Sets(q[i], k) => Sets(q[i], l)
          /\ Spares(q[i], k) => Spares(q[i], l)
          /\ PutsBack(q[i], k) => PutsBack(q[i], l)
      BY <1>1, Zenon
    <3> QED
      BY ONLY <3>1, <3>2, k.reg = l.reg, k.upset = l.upset, Zenon
  <2> QED
    BY ONLY <2>1, <2>2, Zenon DEF Knows
<1> QED
  BY ONLY <1>2, Zenon DEF Makes, Leads

-----------------------------------------------------------------------------
(***************************************************************************)
(* The concerns: what an access of init sets, to what it is asked to.      *)
(***************************************************************************)
EffectOf(o) ==
  IF o[1] = "Tx2DigAtten" THEN <<"atten">>
  ELSE IF o[1] = "RxEnableFilterControl" /\ o[2] = "rx1_channel_enable" THEN <<"channel", 1>>
  ELSE IF o[1] = "RxEnableFilterControl" /\ o[2] = "rx2_channel_enable" THEN <<"channel", 2>>
  ELSE <<"none">>

LEMMA AskedConcern ==
  ASSUME s \in Settings, NEW n \in Names, NEW f, f \in Ours(s, n),
         f # "slow_attack_hybrid_mode"
  PROVE  Concern(Asked(s, n, f))
<1>1. f \in FieldsOf[n]
  BY OursAreFields
<1>2. GoodOf(s, n, f) \cap {"saved", "zero", "cal"} = {}
  <2>1. s.modes[1] \in GainModes /\ s.modes[2] \in GainModes
    BY ModesAssumption DEF Channels
  <2> QED
    BY <2>1 DEF GoodOf, GainModes
<1>3. /\ Asked(s, n, f).reg = n /\ Asked(s, n, f).field = f
      /\ Asked(s, n, f).good = GoodOf(s, n, f) /\ Asked(s, n, f).upset = {}
  BY AskedIs
<1> QED
  BY <1>1, <1>2, <1>3 DEF Concern

ModeField == {"rx1_gain_ctrl_setup", "rx2_gain_ctrl_setup"}

LEMMA AskedMinds ==
  ASSUME NEW n \in Names, NEW f, f \in Ours(s, n), n # "AgcConfig1" \/ f \notin ModeField,
         f # "slow_attack_hybrid_mode", NEW a \in Asking
  PROVE  Minds(a, Asked(s, n, f), EffectOf(<<n, f>>))
<1> DEFINE k == Asked(s, n, f)
           e == EffectOf(<<n, f>>)
<1>1. k.reg = n /\ k.field = f /\ k.upset = {} /\ k.good = GoodOf(s, n, f)
  BY AskedIs
<1>2. \A q : (\A X : Does(q, s, {})) => Steady(q, k)
  BY DoesSteady
<1>3. e = IF n = "Tx2DigAtten" THEN <<"atten">>
          ELSE IF n = "RxEnableFilterControl" /\ f = "rx1_channel_enable" THEN <<"channel", 1>>
          ELSE IF n = "RxEnableFilterControl" /\ f = "rx2_channel_enable" THEN <<"channel", 2>>
          ELSE <<"none">>
  BY DEF EffectOf
<1>4. Steady(GcUpdate, k)
  BY <1>2, GcUpdateDoes
<1>5. /\ e \notin {<<"gain timing">>, <<"other timing">>}
      /\ \A c : e # <<"mode", c>>
      /\ n # "Tx2DigAtten" => e # <<"atten">>
  BY <1>3, Effects
<1>a. f \in Ours(s, n) => Steady(GcUpdate, k)
  BY <1>4
<1> HIDE DEF k, e
<1>6. CASE a \in RateCalls
  <2>1. Steady(SetTrxClockChain(s, a.rate), k)
    <3>1. a.rate \in Rates
      BY <1>6 DEF RateCalls
    <3>2. Does(SetTrxClockChain(s, a.rate), s, {})
      BY <3>1, SetTrxClockChainDoes
    <3> QED
      BY <3>2, DoesSteady DEF k
  <2>2. Minds(a, k, e)
    BY ONLY <1>5, <1>6, <2>1, RateMinds
  <2> QED
    BY <2>2 DEF k, e
<1>7. CASE a = Atten
  <2>1. CASE n = "Tx2DigAtten"
    <3>1. f = "immediately_update_tpc_atten"
      <4>1. Ours(s, "Tx2DigAtten") = Tx2DigAtten.fields
        BY ONLY OwnAre, RegistersAre DEF Own, Is
      <4> QED
        BY <2>1, <4>1 DEF Tx2DigAtten, Register
    <3>2. Makes(SetTxAtten, k)
      BY <2>1, <3>1, AttenMakes DEF k
    <3>3. e = <<"atten">>
      BY <1>3, <2>1
    <3>4. Minds(a, k, e)
      BY ONLY <1>7, <3>2, <3>3, AttenMinds
    <3> QED
      BY <3>4 DEF k, e
  <2>2. CASE n # "Tx2DigAtten"
    <3>1. Steady(SetTxAtten, k)
      BY ONLY <1>1, <2>2, AttenSteady
    <3>2. Minds(a, k, e)
      BY ONLY <1>5, <1>7, <2>2, <3>1, AttenMinds
    <3> QED
      BY <3>2 DEF k, e
  <2> QED
    BY <2>1, <2>2
<1>8. CASE a \in ModeCalls
  <2>1. a.c \in Channels /\ a.op = "mode"
    BY <1>8 DEF ModeCalls
  <2> DEFINE q == SetGainModeScript(s, a.c, a.mode)
  <2>2. CASE n \notin {"RxEnableFilterControl", "AgcConfig1"}
    <3>1. Steady(q, k)
      BY ONLY <1>1, <1>4, <2>2, ModeSteady
    <3>2. \A c : e # <<"channel", c>>
      BY <1>3, <2>2, Effects
    <3> HIDE DEF q
    <3>3. Minds(a, k, e)
      BY ONLY <1>5, <1>8, <3>1, <3>2, ModeMinds DEF q
    <3> QED
      BY <3>3 DEF k, e
  <2>3. CASE n = "AgcConfig1"
    <3>1. f \notin {GainModeField(a.c), "slow_attack_hybrid_mode"}
      BY <2>3 DEF ModeField, GainModeField
    <3>3. Steady(ModeStep(a.c, a.mode), k)
      BY ONLY <1>1, <2>3, <3>1, ModeStepDoes, Zenon
    <3>4. Steady(q, k)
      BY ONLY <1>1, <2>3, <3>3, ModeMakes, Zenon
    <3>5. \A c : e # <<"channel", c>>
      BY <1>3, <2>3, Effects
    <3> HIDE DEF q
    <3>6. Minds(a, k, e)
      BY ONLY <1>5, <1>8, <3>4, <3>5, ModeMinds DEF q
    <3> QED
      BY <3>6 DEF k, e
  <2>4. CASE n = "RxEnableFilterControl" /\ f # Rx(a.c)
    <3>1. f \notin Paused(s, a.c)
      BY <2>4 DEF Paused
    <3>2. Steady(q, k)
      BY ONLY <1>1, <2>4, <3>1, ChannelSteady, Zenon
    <3>3. e # <<"channel", a.c>>
      BY <1>3, <2>1, <2>4, Effects DEF Rx, Channels
    <3> HIDE DEF q
    <3>4. Minds(a, k, e)
      BY ONLY <1>5, <1>8, <3>2, <3>3, ModeMinds DEF q
    <3> QED
      BY <3>4 DEF k, e
  <2>5. CASE n = "RxEnableFilterControl" /\ f = Rx(a.c)
    <3>1. f \in {"rx1_channel_enable", "rx2_channel_enable"}
      BY <2>5 DEF Rx
    <3>2. Safe(q, k)
      BY ONLY <1>1, <2>5, <3>1, ChannelSafe, Zenon
    <3>3. e = <<"channel", a.c>>
      BY <1>3, <2>1, <2>5 DEF Rx, Channels
    <3> HIDE DEF q
    <3>4. Minds(a, k, e)
      BY ONLY <1>5, <1>8, <3>2, <3>3, ModeMinds DEF q
    <3> QED
      BY <3>4 DEF k, e
  <2> QED
    BY <2>2, <2>3, <2>4, <2>5
<1> QED
  BY <1>6, <1>7, <1>8 DEF Asking

-----------------------------------------------------------------------------
\* All that init sets, but for the gain modes.
LEMMA OwnedHeeded ==
  ASSUME s \in Settings, Rates # {}, NEW o \in Owned, ~Wiped(s, o[1], o[2]),
         o[1] # "AgcConfig1" \/ o[2] \notin ModeField
  PROVE  Heeded(Asked(s, o[1], o[2]), EffectOf(o))
<1>1. /\ o = <<o[1], o[2]>> /\ o[1] \in Names /\ o[2] \in Ours(s, o[1])
      /\ o[2] # "slow_attack_hybrid_mode"
  BY OwnedIs DEF Wiped
<1>2. Concern(Asked(s, o[1], o[2]))
  BY ONLY <1>1, s \in Settings, AskedConcern
<1>3. \A rate \in Rates, cut \in CutOffs : Makes(InitScript(s, rate, cut), Asked(s, o[1], o[2]))
  BY InitMakes
<1>4. EffectOf(<<o[1], o[2]>>) = EffectOf(o)
  BY ONLY <1>1
<1>5. \A a \in Asking : Minds(a, Asked(s, o[1], o[2]), EffectOf(<<o[1], o[2]>>))
  BY <1>1, AskedMinds
<1> QED
  BY ONLY <1>2, <1>3, <1>4, <1>5 DEF Heeded

\* Whether the channels are on.
Channel(c) == Asked(s, "RxEnableFilterControl", Rx(c))

LEMMA ChannelIs ==
  \A c : /\ Channel(c).reg = "RxEnableFilterControl" /\ Channel(c).field = Rx(c)
         /\ Channel(c).good = {"set"} /\ Channel(c).upset = {}
<1>1. \A c : GoodOf(s, "RxEnableFilterControl", Rx(c)) = {"set"}
  BY DEF GoodOf
<1> QED
  BY <1>1, AskedIs DEF Channel

LEMMA ChannelHeeded ==
  ASSUME s \in Settings, NEW c \in Channels
  PROVE  Heeded(Channel(c), <<"channel", c>>)
<1>1. /\ "RxEnableFilterControl" \in Names /\ Rx(c) \in Ours(s, "RxEnableFilterControl")
      /\ Rx(c) # "slow_attack_hybrid_mode"
  <2>1. Ours(s, "RxEnableFilterControl") = RxEnableFilterControl.fields
    BY ONLY OwnAre, RegistersAre DEF Own, Is
  <2>2. "RxEnableFilterControl" \in Names
    BY ONLY RegistersAre, FieldsAre DEF Is
  <2> QED
    BY <2>1, <2>2 DEF Rx, RxEnableFilterControl, Register
<1>2. Concern(Channel(c))
  BY <1>1, AskedConcern DEF Channel
<1>3. EffectOf(<<"RxEnableFilterControl", Rx(c)>>) = <<"channel", c>>
  BY DEF EffectOf, Rx, Channels
<1>4. \A a \in Asking : Minds(a, Channel(c), EffectOf(<<"RxEnableFilterControl", Rx(c)>>))
  BY <1>1, AskedMinds DEF Channel
<1>5. ASSUME NEW rate \in Rates, NEW cut \in CutOffs
      PROVE  Makes(InitScript(s, rate, cut), Channel(c))
  <2>1. Makes(SetRxChannels, Channel(c))
    <3>1. Rx(c) \in {"rx1_channel_enable", "rx2_channel_enable"}
      BY DEF Rx
    <3>2. Is(RxEnableFilterControl, "RxEnableFilterControl")
      BY ONLY RegistersAre
    <3> QED
      BY ONLY <3>1, <3>2, SetMakes DEF SetRxChannels, Channel
  <2>2. Stages(s, rate, cut, "RxEnableFilterControl", Channel(c))
    BY <1>1, StagesMake DEF Channel
  <2> QED
    BY ONLY <2>1, <2>2 DEF Stages
<1> QED
  BY ONLY <1>2, <1>3, <1>4, <1>5 DEF Heeded

(***************************************************************************)
(* The gain mode of a channel: always one of them, and the one that was    *)
(* asked for last.                                                         *)
(***************************************************************************)
SomeMode(c)  == [reg |-> "AgcConfig1", field |-> GainModeField(c), good |-> GainModes, upset |-> {}]
ModeIs(c, m) == [reg |-> "AgcConfig1", field |-> GainModeField(c), good |-> {m}, upset |-> {}]

LEMMA ModesAre ==
  \A c, m :
    /\ SomeMode(c).reg = "AgcConfig1" /\ SomeMode(c).field = GainModeField(c)
    /\ SomeMode(c).good = GainModes /\ SomeMode(c).upset = {}
    /\ ModeIs(c, m).reg = "AgcConfig1" /\ ModeIs(c, m).field = GainModeField(c)
    /\ ModeIs(c, m).good = {m} /\ ModeIs(c, m).upset = {}
  BY DEF SomeMode, ModeIs

LEMMA ModeRegister ==
  \A set, c : "AgcConfig1" \in Names /\ GainModeField(c) \in Ours(set, "AgcConfig1")
<1> SUFFICES ASSUME NEW set, NEW c
             PROVE  "AgcConfig1" \in Names /\ GainModeField(c) \in Ours(set, "AgcConfig1")
  OBVIOUS
<1>1. Is(AgcConfig1, "AgcConfig1")
  BY ONLY RegistersAre
<1>2. "AgcConfig1" \in Names /\ FieldsOf["AgcConfig1"] = AgcConfig1.fields
  BY ONLY <1>1, FieldsAre DEF Is
<1>3. Ours(set, "AgcConfig1") = AgcConfig1.fields
  BY ONLY <1>2 DEF Ours
<1>4. GainModeField(c) \in AgcConfig1.fields
  BY DEF GainModeField, AgcConfig1, Register
<1> QED
  BY ONLY <1>2, <1>3, <1>4

LEMMA ModesConcern ==
  ASSUME NEW c \in Channels, NEW m \in GainModes
  PROVE  Concern(SomeMode(c)) /\ Concern(ModeIs(c, m))
<1>1. "AgcConfig1" \in Names /\ GainModeField(c) \in FieldsOf["AgcConfig1"]
  BY ModeRegister, OursAreFields
<1>2. GainModes \cap {"saved", "zero", "cal"} = {} /\ {m} \cap {"saved", "zero", "cal"} = {}
  BY DEF GainModes
<1> QED
  BY ONLY <1>1, <1>2, ModesAre DEF Concern

LEMMA InitMakesModes ==
  ASSUME s \in Settings, NEW c \in Channels, NEW rate \in Rates, NEW cut \in CutOffs
  PROVE  /\ Makes(InitScript(s, rate, cut), ModeIs(c, s.modes[c]))
         /\ Makes(InitScript(s, rate, cut), SomeMode(c))
<1> DEFINE k == Asked(s, "AgcConfig1", GainModeField(c))
<1>1. k = ModeIs(c, s.modes[c])
  BY DEF Asked, GoodOf, ModeIs, GainModeField, Channels
<1>2. GainModeField(c) \in {"rx1_gain_ctrl_setup", "rx2_gain_ctrl_setup"}
  BY DEF GainModeField
<1>3. Makes(GcSetup(s), k)
  BY ONLY <1>2, ModesMake
<1>4. Stages(s, rate, cut, "AgcConfig1", k)
  BY ModeRegister, StagesMake
<1> HIDE DEF k
<1>5. Makes(InitScript(s, rate, cut), k)
  BY ONLY <1>3, <1>4 DEF Stages
<1>6. s.modes[c] \in GainModes
  BY ModesAssumption
<1>7. Makes(InitScript(s, rate, cut), ModeIs(c, s.modes[c]))
        => Makes(InitScript(s, rate, cut), SomeMode(c))
  <2>1. {s.modes[c]} \subseteq GainModes
    BY <1>6
  <2> DEFINE l == ModeIs(c, s.modes[c])
             m == SomeMode(c)
  <2>2. l.reg = m.reg /\ l.field = m.field /\ l.upset = m.upset /\ l.good \subseteq m.good
    BY ONLY <2>1 DEF SomeMode, ModeIs
  <2> HIDE DEF l, m
  <2>3. \A q : Makes(q, l) => Makes(q, m)
    BY ONLY <2>2, GoodMore
  <2> QED
    BY <2>3 DEF l, m
<1> QED
  BY ONLY <1>1, <1>5, <1>7

\* Every call that doesn't change the channel leaves its mode alone.
LEMMA OthersKeepTheMode ==
  ASSUME NEW c \in Channels, NEW k, NEW e, NEW a \in Asking,
         k.reg = "AgcConfig1", k.field = GainModeField(c), k.upset = {},
         e \in {<<"none">>, <<"mode", c>>}, a \notin ModeCalls \/ a.c # c
  PROVE  Minds(a, k, e)
<1>1. /\ e \notin {<<"gain timing">>, <<"other timing">>} /\ e # <<"atten">>
      /\ \A d : e # <<"channel", d>>
      /\ \A d : d # c => e # <<"mode", d>>
  BY Effects
<1>2. CASE a \in RateCalls
  <2>1. Steady(SetTrxClockChain(s, a.rate), k)
    <3>1. k.reg \notin ClockNames
      BY DEF ClockNames, GcNames
    <3> QED
      BY ONLY <3>1, k.upset = {}, ClockSteady
  <2> QED
    BY ONLY <1>1, <1>2, <2>1, RateMinds
<1>3. CASE a = Atten
  <2>1. Steady(SetTxAtten, k)
    BY ONLY k.reg = "AgcConfig1", AttenSteady
  <2> QED
    BY ONLY <1>1, <1>3, <2>1, AttenMinds
<1>4. CASE a \in ModeCalls /\ a.c # c
  <2>1. GainModeField(c) \notin {GainModeField(a.c), "slow_attack_hybrid_mode"}
    BY <1>4 DEF GainModeField, ModeCalls, Channels
  <2>2. Steady(ModeStep(a.c, a.mode), k)
    BY <2>1, ModeStepDoes, Zenon
  <2>3. Steady(SetGainModeScript(s, a.c, a.mode), k)
    BY ONLY <2>2, k.reg = "AgcConfig1", k.upset = {}, ModeMakes, Zenon
  <2> QED
    BY ONLY <1>1, <1>4, <2>3, ModeMinds
<1> QED
  BY <1>2, <1>3, <1>4 DEF Asking

LEMMA ItsCallMakesTheMode ==
  ASSUME NEW a \in ModeCalls
  PROVE  /\ Minds(a, ModeIs(a.c, a.mode), <<"mode", a.c>>)
         /\ Minds(a, SomeMode(a.c), <<"none">>)
<1>1. a.mode \in GainModes
  BY ModesAssumption DEF ModeCalls
<1>2. ASSUME NEW k, k.reg = "AgcConfig1", k.field = GainModeField(a.c), k.upset = {},
             a.mode \in k.good
      PROVE  /\ Makes(SetGainModeScript(s, a.c, a.mode), k)
             /\ Steady(SetGainModeScript(s, a.c, a.mode), k)
  <2>1. Steady(ModeStep(a.c, a.mode), k) /\ Makes(ModeStep(a.c, a.mode), k)
    BY ONLY <1>2, ModeStepDoes, Zenon
  <2> QED
    BY ONLY <1>2, <2>1, ModeMakes, Zenon
<1>3. Minds(a, ModeIs(a.c, a.mode), <<"mode", a.c>>)
  <2> DEFINE k == ModeIs(a.c, a.mode)
  <2>1. Makes(SetGainModeScript(s, a.c, a.mode), k)
    BY <1>2, ModesAre
  <2> HIDE DEF k
  <2>2. Minds(a, k, <<"mode", a.c>>)
    BY ONLY a \in ModeCalls, <2>1, Effects, ModeMinds
  <2> QED
    BY <2>2 DEF k
<1>4. Minds(a, SomeMode(a.c), <<"none">>)
  <2> DEFINE k == SomeMode(a.c)
  <2>1. Steady(SetGainModeScript(s, a.c, a.mode), k)
    BY <1>1, <1>2, ModesAre
  <2> HIDE DEF k
  <2>2. Minds(a, k, <<"none">>)
    BY ONLY a \in ModeCalls, <2>1, Effects, ModeMinds
  <2> QED
    BY <2>2 DEF k
<1> QED
  BY <1>3, <1>4

LEMMA SomeModeHeeded ==
  ASSUME s \in Settings, NEW c \in Channels
  PROVE  Heeded(SomeMode(c), <<"none">>)
<1>1. Concern(SomeMode(c))
  <2>1. "manual" \in GainModes
    BY DEF GainModes
  <2> QED
    BY <2>1, ModesConcern
<1>2. \A rate \in Rates, cut \in CutOffs : Makes(InitScript(s, rate, cut), SomeMode(c))
  BY InitMakesModes
<1>3. ASSUME NEW a \in Asking PROVE Minds(a, SomeMode(c), <<"none">>)
  <2>1. CASE a \in ModeCalls /\ a.c = c
    BY ONLY <2>1, ItsCallMakesTheMode
  <2>2. CASE a \notin ModeCalls \/ a.c # c
    <3> DEFINE k == SomeMode(c)
    <3>1. k.reg = "AgcConfig1" /\ k.field = GainModeField(c) /\ k.upset = {}
      BY ModesAre
    <3> HIDE DEF k
    <3>2. Minds(a, k, <<"none">>)
      BY ONLY <1>3, <2>2, <3>1, c \in Channels, OthersKeepTheMode
    <3> QED
      BY <3>2 DEF k
  <2> QED
    BY <2>1, <2>2
<1> QED
  BY ONLY <1>1, <1>2, <1>3 DEF Heeded

\* What is worked out from the rates, and from the rates and the modes.
LEMMA TimingConcern ==
  /\ \A o \in GainTiming \cup OtherTiming : Concern(RateOf(o[1], o[2]))
  /\ Concern(PowerMeasure)
<1>1. /\ Is(AgcAttackDelay, "AgcAttackDelay") /\ Is(PeakWaitTime, "PeakWaitTime")
      /\ Is(FastConfig2SettlingDelay, "FastConfig2SettlingDelay")
      /\ Is(DecPowerMeasureDuration0, "DecPowerMeasureDuration0")
      /\ Is(DigitalSatCounter, "DigitalSatCounter")
      /\ Is(FastEnergyDetectCount, "FastEnergyDetectCount")
      /\ Is(TempSense2, "TempSense2") /\ Is(AuxadcClockDivider, "AuxadcClockDivider")
      /\ Is(MeasureDuration01, "MeasureDuration01") /\ Is(MeasureDuration23, "MeasureDuration23")
      /\ Is(RssiConfig, "RssiConfig")
  BY ONLY RegistersAre
<1>2. \A r, n : Is(r, n) => n \in Names /\ FieldsOf[n] = r.fields
  BY FieldsAre DEF Is
<1>3. /\ "agc_attack_delay" \in AgcAttackDelay.fields
      /\ "peak_overload_wait_time" \in PeakWaitTime.fields
      /\ "settling_delay" \in FastConfig2SettlingDelay.fields
      /\ "dec_power_measurement_duration" \in DecPowerMeasureDuration0.fields
      /\ "double_gain_counter" \in DigitalSatCounter.fields
      /\ "energy_detect_count" \in FastEnergyDetectCount.fields
      /\ "measurement_time_interval" \in TempSense2.fields
      /\ "auxadc_clock_divider" \in AuxadcClockDivider.fields
      /\ "measurement_duration_0" \in MeasureDuration01.fields
      /\ "measurement_duration_3" \in MeasureDuration23.fields
      /\ "default_rssi_meas_mode" \in RssiConfig.fields
  BY DEF AgcAttackDelay, PeakWaitTime, FastConfig2SettlingDelay, DecPowerMeasureDuration0,
     DigitalSatCounter, FastEnergyDetectCount, TempSense2, AuxadcClockDivider,
     MeasureDuration01, MeasureDuration23, RssiConfig, Register
<1> DEFINE Field(n, f) == n \in Names /\ f \in FieldsOf[n]
<1>4. /\ Field("AgcAttackDelay", "agc_attack_delay")
      /\ Field("PeakWaitTime", "peak_overload_wait_time")
      /\ Field("FastConfig2SettlingDelay", "settling_delay")
      /\ Field("DecPowerMeasureDuration0", "dec_power_measurement_duration")
      /\ Field("DigitalSatCounter", "double_gain_counter")
      /\ Field("FastEnergyDetectCount", "energy_detect_count")
      /\ Field("TempSense2", "measurement_time_interval")
      /\ Field("AuxadcClockDivider", "auxadc_clock_divider")
      /\ Field("MeasureDuration01", "measurement_duration_0")
      /\ Field("MeasureDuration23", "measurement_duration_3")
      /\ Field("RssiConfig", "default_rssi_meas_mode")
  BY ONLY <1>1, <1>2, <1>3, Zenon
<1>5. \A n, f : Field(n, f) => Concern(RateOf(n, f))
  BY DEF Concern, RateOf
<1>6. Concern(PowerMeasure)
  BY <1>4 DEF Concern, PowerMeasure
<1> HIDE DEF Field
<1>7. ASSUME NEW o \in GainTiming \cup OtherTiming PROVE Field(o[1], o[2])
  BY ONLY <1>4, <1>7 DEF GainTiming, OtherTiming
<1> QED
  BY ONLY <1>5, <1>6, <1>7

LEMMA GainTimingHeeded ==
  ASSUME NEW k, Concern(k), k.reg \in GcNames,
         \/ <<k.reg, k.field>> \in GainTiming /\ "rate" \in k.good
         \/ <<k.reg, k.field>> = PowerField /\ "power" \in k.good
  PROVE  Heeded(k, <<"gain timing">>)
<1>1. \/ <<k.reg, k.field>> \in TimingFields(s) /\ "rate" \in k.good
      \/ <<k.reg, k.field>> = PowerField /\ "power" \in k.good
  BY TimingIs
<1>2. \A rate \in Rates : /\ \A cut \in CutOffs : Makes(InitScript(s, rate, cut), k)
                          /\ Makes(SetTrxClockChain(s, rate), k)
  BY <1>1, InitMakesTiming, ClockMakes, Zenon
<1>3. ASSUME NEW a \in Asking PROVE Minds(a, k, <<"gain timing">>)
  <2>1. CASE a \in ModeCalls
    <3>1. Makes(SetGainModeScript(s, a.c, a.mode), k)
      BY ModeMakesTiming, Zenon
    <3> QED
      BY ONLY <2>1, <3>1, Effects, ModeMinds
  <2>2. CASE a \in RateCalls
    <3>1. Makes(SetTrxClockChain(s, a.rate), k)
      BY <1>2, <2>2 DEF RateCalls
    <3> QED
      BY ONLY <2>2, <3>1, Effects, RateMinds
  <2>3. CASE a = Atten
    <3>1. Steady(SetTxAtten, k)
      BY AttenSteady DEF GcNames
    <3> QED
      BY ONLY <2>3, <3>1, Effects, AttenMinds
  <2> QED
    BY <1>3, <2>1, <2>2, <2>3 DEF Asking
<1> QED
  BY ONLY <1>2, <1>3, Concern(k) DEF Heeded

LEMMA OtherTimingHeeded ==
  ASSUME NEW o \in OtherTiming
  PROVE  Heeded(RateOf(o[1], o[2]), <<"other timing">>)
<1> DEFINE k == RateOf(o[1], o[2])
           e == <<"other timing">>
<1>1. Concern(k)
  BY TimingConcern
<1>2. k.reg = o[1] /\ k.field = o[2] /\ "rate" \in k.good /\ "modes" \notin k.upset
  BY DEF RateOf
<1>3. /\ o = <<o[1], o[2]>>
      /\ o[1] \notin GcNames /\ o[1] \notin {"RxEnableFilterControl", "AgcConfig1", "Tx2DigAtten"}
  BY DEF OtherTiming, GcNames
<1> HIDE DEF k
<1>4. <<k.reg, k.field>> \in TimingFields(s) /\ "rate" \in k.good
  BY <1>2, <1>3, TimingIs
<1>5. \A rate \in Rates : /\ \A cut \in CutOffs : Makes(InitScript(s, rate, cut), k)
                          /\ Makes(SetTrxClockChain(s, rate), k)
  BY <1>4, InitMakesTiming, ClockMakes, Zenon
<1>6. ASSUME NEW a \in Asking PROVE Minds(a, k, e)
  <2>1. CASE a \in ModeCalls
    <3>1. Steady(GcUpdate, k)
      BY <1>2, <1>3, GcUpdateMakes
    <3>2. Steady(SetGainModeScript(s, a.c, a.mode), k)
      BY ONLY <1>2, <1>3, <3>1, ModeSteady
    <3> QED
      BY ONLY <2>1, <3>2, Effects, ModeMinds
  <2>2. CASE a \in RateCalls
    <3>1. Makes(SetTrxClockChain(s, a.rate), k)
      BY <1>5, <2>2 DEF RateCalls
    <3> QED
      BY ONLY <2>2, <3>1, Effects, RateMinds
  <2>3. CASE a = Atten
    <3>1. Steady(SetTxAtten, k)
      BY <1>2, <1>3, AttenSteady
    <3> QED
      BY ONLY <2>3, <3>1, Effects, AttenMinds
  <2> QED
    BY <1>6, <2>1, <2>2, <2>3 DEF Asking
<1>7. Heeded(k, e)
  BY ONLY <1>1, <1>5, <1>6 DEF Heeded
<1> QED
  BY <1>7 DEF k

-----------------------------------------------------------------------------
(***************************************************************************)
(* The inductive invariant. What kind of call runs, and what is left:      *)
(***************************************************************************)
Calling ==
  /\ s \in Settings /\ Rates # {}
  /\ call \in Asking \cup InitCalls \cup {Idle, Off}
  /\ drv.up \in BOOLEAN /\ (drv.up <=> call.op \notin {"init", "off"})
  /\ call.op \in {"idle", "off"} => todo = << >>
  /\ <<"none">> \notin spoilt

(***************************************************************************)
(* What a concern can count on while a call with an effect on it runs, and *)
(* after it: a call that redoes it gets there, one that spoils it gets     *)
(* there unless it was spoilt before, any other never leaves it.           *)
(***************************************************************************)
Promise(k, e) ==
  /\ call.op = "init" => Arrives(todo, k, Known(k))
  /\ call.op = "idle" /\ e \notin spoilt => Fits(k)
  /\ call.op \in {"mode", "rate", "atten"} =>
       /\ e \in Redoes(call) => Arrives(todo, k, Known(k))
       /\ e \notin spoilt /\ e \in Spoils(call) => Arrives(todo, k, Known(k))
       /\ e \notin spoilt /\ e \notin Spoils(call) => Constant(todo, k, Known(k))

LEMMA CallsAre ==
  ASSUME Calling
  PROVE  /\ call.op \in {"init", "idle", "off", "mode", "rate", "atten"}
         /\ call.op = "init" <=> call \in InitCalls
         /\ call.op = "mode" <=> call \in ModeCalls
         /\ call.op = "rate" <=> call \in RateCalls
         /\ call.op = "atten" <=> call = Atten
         /\ call.op = "idle" <=> call = Idle
         /\ call.op = "off" <=> call = Off
         /\ call \in Asking <=> call.op \in {"mode", "rate", "atten"}
  BY DEF Calling, Asking, InitCalls, ModeCalls, RateCalls, Atten, Idle, Off

LEMMA IdleOff == Idle.op = "idle" /\ Off.op = "off" /\ Atten.op = "atten"
  BY DEF Idle, Off, Atten

\* A step goes on with the call or ends it.
LEMMA GoesOn ==
  ASSUME Calling, Shapes, Proceeds
  PROVE  /\ call.op \in {"init", "mode", "rate", "atten"}
         /\ \/ call' = call /\ spoilt' = spoilt
            \/ /\ call' = Idle /\ todo' = << >>
               /\ spoilt' = IF drv.up THEN spoilt \ Redoes(call) ELSE {}
         /\ s' = s
<1>1. todo' = Tail(todo) /\ todo # << >> /\ (Last <=> Len(todo) = 1)
  BY ScriptGoesOn
<1>2. call.op \in {"init", "mode", "rate", "atten"}
  BY <1>1, CallsAre DEF Calling
<1>3. Last => todo' = << >>
  <2>1. IsScript(todo') /\ (Last => Len(todo') = 0)
    BY <1>1, ScriptIs DEF Shapes
  <2>2. todo' # << >> => Len(todo') >= 1
    BY ONLY <2>1, ScriptIs
  <2> QED
    BY ONLY <2>1, <2>2
<1> QED
  BY <1>1, <1>2, <1>3 DEF Proceeds, AccessChip, ReadForLater, Remember, Proceed

LEMMA PromiseGoesOn ==
  ASSUME Calling, Shapes, RateReady, Proceeds, NEW k, Concern(k), NEW e, Promise(k, e)
  PROVE  Promise(k, e)'
<1>1. /\ Arrives(todo, k, Known(k)) => Arrives(todo', k, Known(k)')
      /\ Constant(todo, k, Known(k)) => Constant(todo', k, Known(k)')
  BY StepCarries
<1>2. /\ call.op \in {"init", "mode", "rate", "atten"}
      /\ \/ call' = call /\ spoilt' = spoilt
         \/ /\ call' = Idle /\ todo' = << >>
            /\ spoilt' = IF drv.up THEN spoilt \ Redoes(call) ELSE {}
  BY GoesOn
<1>3. CASE call' = call /\ spoilt' = spoilt
  <2>1. Redoes(call)' = Redoes(call) /\ Spoils(call)' = Spoils(call)
    BY <1>3 DEF Redoes, Spoils
  <2> QED
    BY ONLY <1>1, <1>2, <1>3, <2>1, Promise(k, e) DEF Promise
<1>4. CASE /\ call' = Idle /\ todo' = << >>
           /\ spoilt' = IF drv.up THEN spoilt \ Redoes(call) ELSE {}
  <2>1. call'.op = "idle"
    BY <1>4, IdleOff
  <2>2. /\ Arrives(todo', k, Known(k)') => Fits(k)'
        /\ Constant(todo', k, Known(k)') => Fits(k)'
    <3>1. Arrives(todo', k, Known(k)') => "field" \in Known(k)'
      BY <1>4, InTheEnd
    <3>2. Constant(todo', k, Known(k)') => "field" \in Known(k)'
      BY InTheEnd
    <3> QED
      BY <3>1, <3>2 DEF Known
  <2>3. CASE call.op = "init"
    BY ONLY <1>1, <2>1, <2>2, <2>3, Promise(k, e) DEF Promise
  <2>4. CASE call.op \in {"mode", "rate", "atten"}
    <3>1. drv.up
      BY <2>4 DEF Calling
    <3>2. e \notin spoilt' => e \notin spoilt \/ e \in Redoes(call)
      BY <1>4, <3>1
    <3>3. e \notin spoilt' => Arrives(todo, k, Known(k)) \/ Constant(todo, k, Known(k))
      BY ONLY <2>4, <3>2, Promise(k, e) DEF Promise
    <3> QED
      BY ONLY <1>1, <2>1, <2>2, <3>3 DEF Promise
  <2> QED
    BY ONLY <1>2, <2>3, <2>4
<1> QED
  BY ONLY <1>2, <1>3, <1>4

LEMMA ErrorEnds ==
  ASSUME Calling, Fails
  PROVE  /\ call.op \in {"init", "mode", "rate", "atten"} /\ todo # << >>
         /\ call' = IF drv.up THEN Idle ELSE Off
         /\ todo' = << >> /\ drv' = drv /\ s' = s
         /\ spoilt' = IF drv.up THEN spoilt \cup Spoils(call) ELSE {}
<1>1. todo # << >>
  BY DEF Fails, SpiError, Reject, NoWindow, Running
<1> QED
  BY <1>1, CallsAre DEF Calling, Fails, SpiError, Reject, NoWindow, GiveUp

LEMMA PromiseOutlivesErrors ==
  ASSUME Calling, Shapes, RateReady, Fails, NEW k, Concern(k), NEW e, Promise(k, e)
  PROVE  Promise(k, e)'
<1>1. /\ call.op \in {"init", "mode", "rate", "atten"}
      /\ call' = IF drv.up THEN Idle ELSE Off
      /\ spoilt' = IF drv.up THEN spoilt \cup Spoils(call) ELSE {}
  BY ErrorEnds
<1>2. Constant(todo, k, Known(k)) => Fits(k)'
  BY ErrorKeeps
<1>3. CASE drv.up
  <2>1. call'.op = "idle"
    BY <1>1, <1>3, IdleOff
  <2>2. call.op \in {"mode", "rate", "atten"}
    BY <1>1, <1>3 DEF Calling
  <2>3. e \notin spoilt' => e \notin spoilt /\ e \notin Spoils(call)
    BY <1>1, <1>3
  <2> QED
    BY ONLY <1>2, <2>1, <2>2, <2>3, Promise(k, e) DEF Promise
<1>4. CASE ~drv.up
  <2>1. call'.op = "off"
    BY <1>1, <1>4, IdleOff
  <2> QED
    BY ONLY <2>1 DEF Promise
<1> QED
  BY ONLY <1>3, <1>4

\* What is made holds, whatever is known at first; what is kept, if it holds already.
LEMMA Given ==
  \A q, k, K : /\ Makes(q, k) => Arrives(q, k, K)
               /\ "field" \in K /\ Safe(q, k) => Arrives(q, k, K)
               /\ "field" \in K /\ Steady(q, k) => Constant(q, k, K)
<1>1. \A K : {} \subseteq K /\ {"field"} \subseteq {"field"}
  OBVIOUS
<1>2. \A K : "field" \in K => {"field"} \subseteq K
  OBVIOUS
<1> QED
  BY ONLY <1>1, <1>2, Weaker, Zenon DEF Makes, Safe, Steady, Arrives, Constant

LEMMA PromiseStarts ==
  ASSUME Calling, NEW a \in Asking, Call(a), NEW k, Concern(k), NEW e, Promise(k, e),
         Minds(a, k, e)
  PROVE  Promise(k, e)'
<1>1. /\ call = Idle /\ call' = a /\ todo' = Script(s, a)
      /\ chip' = chip /\ drv' = drv /\ saved' = saved /\ spoilt' = spoilt
  BY DEF Call
<1>2. /\ call'.op \in {"mode", "rate", "atten"}
      /\ Redoes(call)' = Redoes(a) /\ Spoils(call)' = Spoils(a)
  <2>1. a.op \in {"mode", "rate", "atten"}
    BY DEF Asking, ModeCalls, RateCalls, Atten
  <2> QED
    BY <1>1, <2>1 DEF Redoes, Spoils
<1>3. e \notin spoilt => Fits(k)
  BY <1>1, IdleOff DEF Promise
<1>4. e \notin spoilt => "field" \in Known(k)'
  <2>1. Fits(k)' <=> Fits(k)
    BY <1>1 DEF Fits, Fine, Meaning
  <2> QED
    BY <1>3, <2>1 DEF Known
<1>5. /\ e \in Redoes(a) => Arrives(todo', k, Known(k)')
      /\ e \notin spoilt /\ e \in Spoils(a) => Arrives(todo', k, Known(k)')
      /\ e \notin spoilt /\ e \notin Spoils(a) => Constant(todo', k, Known(k)')
  BY ONLY <1>1, <1>4, Minds(a, k, e), Given, Zenon DEF Minds
<1> QED
  BY ONLY <1>1, <1>2, <1>5 DEF Promise

(***************************************************************************)
(* What the driver remembers, and is about to: a rate before it works with *)
(* it, and the mode of a channel in the end of its change.                 *)
(***************************************************************************)
ModesToTell ==
  CASE call.op = "init" -> {s.modes}
    [] call.op = "mode" -> {ModeTold(call.c, call.mode)}
    [] OTHER            -> {}

TellsModes(q) == \E i \in 1..Len(q) : q[i].op = "modes"

Telling ==
  /\ Tells(todo, ModesToTell)
  /\ \/ drv.rate \in Rates \cup {"mixed"}
     \/ call.op = "init" /\ RateFirst(todo)
     \/ call.op = "off"
  /\ drv.modes \in [Channels -> GainModes]
  /\ call.op = "init" => drv.modes = s.modes
  /\ call.op = "mode" => drv.modes[call.c] = call.mode \/ TellsModes(todo)

\* The mode that a channel has, or gets.
Answer(c) == IF call.op = "mode" /\ call.c = c THEN call.mode ELSE drv.modes[c]

LEMMA RateIsReady ==
  ASSUME Calling, Shapes, Telling, todo # << >>
  PROVE  RateReady
<1>1. call.op # "off"
  BY DEF Calling
<1>2. Due = todo[1]
  BY ScriptIs DEF Due, Shapes
<1>3. RateFirst(todo) => Rateless(Due)
  BY <1>2, TailFirst
<1> QED
  BY <1>1, <1>3 DEF Telling, RateReady

LEMMA CallingGoesOn ==
  ASSUME Calling, Shapes, Proceeds
  PROVE  Calling'
<1>1. /\ call.op \in {"init", "mode", "rate", "atten"} /\ s' = s
      /\ \/ call' = call /\ spoilt' = spoilt
         \/ /\ call' = Idle /\ todo' = << >>
            /\ spoilt' = IF drv.up THEN spoilt \ Redoes(call) ELSE {}
  BY GoesOn
<1>2. drv'.up \in BOOLEAN /\ (drv'.up <=> call'.op \notin {"init", "off"})
  <2>1. CASE AccessChip
    BY <1>1, <2>1, IdleOff DEF Calling, Shapes, DriverShape, AccessChip, Proceed, Settle
  <2>2. CASE ReadForLater
    BY <2>2 DEF Calling, ReadForLater
  <2>3. CASE Remember
    <3>1. drv'.up = (drv.up \/ Last) /\ call' = IF Last THEN Idle ELSE call
      BY <2>3 DEF Shapes, DriverShape, Remember, Proceed, Settle
    <3> QED
      BY <1>1, <3>1, IdleOff DEF Calling
  <2> QED
    BY <2>1, <2>2, <2>3 DEF Proceeds
<1> QED
  BY <1>1, <1>2, IdleOff DEF Calling

\* What a step makes the driver remember.
LEMMA StepRemembers ==
  ASSUME Calling, Shapes, Telling, Proceeds
  PROVE  /\ drv'.rate = IF Due.op = "rate" THEN Due.rate ELSE drv.rate
         /\ Due.op # "modes" => drv'.modes = drv.modes
         /\ Due.op = "modes" => drv'.modes = [c \in Channels |->
              IF c \in DOMAIN Due.modes THEN Due.modes[c] ELSE drv.modes[c]]
<1>1. CASE AccessChip
  BY <1>1 DEF Shapes, DriverShape, AccessChip, Settle
<1>2. CASE ReadForLater
  BY <1>2 DEF ReadForLater
<1>3. CASE Remember
  <2>1. CASE Due.op = "rate"
    BY <1>3, <2>1 DEF Shapes, DriverShape, Remember, Settle
  <2>2. CASE Due.op = "modes"
    BY <1>3, <2>2 DEF Shapes, DriverShape, Remember, Settle
  <2> QED
    BY <1>3, <2>1, <2>2 DEF Remember
<1> QED
  BY <1>1, <1>2, <1>3 DEF Proceeds

LEMMA ModesToTellAre ==
  ASSUME Calling
  PROVE  /\ call.op = "init" => ModesToTell = {s.modes}
         /\ call.op = "mode" => ModesToTell = {ModeTold(call.c, call.mode)}
         /\ call.op \in {"rate", "atten"} => ModesToTell = {}
         /\ call.op = "mode" => call.c \in Channels /\ call.mode \in GainModes
         /\ s.modes \in [Channels -> GainModes]
<1>1. call.op = "mode" => call.c \in Channels /\ call.mode \in GainModes
  BY CallsAre, ModesAssumption DEF ModeCalls
<1>2. s.modes \in [Channels -> GainModes]
  BY ModesAssumption DEF Calling
<1> QED
  BY <1>1, <1>2 DEF ModesToTell

LEMMA TellsTail ==
  ASSUME NEW q, IsScript(q), q # << >>, TellsModes(q)
  PROVE  q[1].op = "modes" \/ TellsModes(Tail(q))
<1>1. /\ Len(q) \in Nat /\ Len(q) >= 1 /\ Len(Tail(q)) = Len(q) - 1
      /\ \A i \in 1..(Len(q) - 1) : Tail(q)[i] = q[i + 1]
  BY ScriptIs
<1>2. PICK i \in 1..Len(q) : q[i].op = "modes"
  BY DEF TellsModes
<1>3. CASE i = 1
  BY <1>2, <1>3
<1>4. CASE i # 1
  <2>1. i - 1 \in 1..(Len(q) - 1) /\ (i - 1) + 1 = i
    BY ONLY <1>1, <1>4, i \in 1..Len(q)
  <2>2. Tail(q)[i - 1].op = "modes" /\ i - 1 \in 1..Len(Tail(q))
    BY ONLY <1>1, <1>2, <2>1
  <2> QED
    BY ONLY <2>2, Zenon DEF TellsModes
<1> QED
  BY <1>3, <1>4

\* The modes after a step.
LEMMA ModesGoOn ==
  ASSUME Calling, Shapes, Telling, Proceeds
  PROVE  /\ drv'.modes \in [Channels -> GainModes]
         /\ call.op = "init" => drv'.modes = s.modes
         /\ call.op = "mode" => drv'.modes[call.c] = call.mode \/ TellsModes(todo')
         /\ \A c \in Channels : (call.op = "mode" /\ call.c = c) \/ drv'.modes[c] = drv.modes[c]
<1>1. todo' = Tail(todo) /\ todo # << >> /\ IsScript(todo') /\ Due = todo[1]
  BY ScriptGoesOn
<1>2. call.op \in {"init", "mode", "rate", "atten"}
  BY GoesOn
<1>3. drv.modes \in [Channels -> GainModes] /\ (call.op = "init" => drv.modes = s.modes)
  BY DEF Telling
<1>4. Due.op = "modes" => Due.modes \in ModesToTell
  <2>1. Tells(todo, ModesToTell)
    BY DEF Telling
  <2> QED
    BY ONLY <1>1, <2>1, TailTells
<1>5. CASE Due.op # "modes"
  <2>1. drv'.modes = drv.modes
    BY <1>5, StepRemembers
  <2>2. call.op = "mode" => drv.modes[call.c] = call.mode \/ TellsModes(todo')
    BY <1>1, <1>5, TellsTail DEF Telling, Shapes
  <2> QED
    BY ONLY <1>3, <2>1, <2>2
<1>6. CASE Due.op = "modes"
  <2>1. drv'.modes = [c \in Channels |->
          IF c \in DOMAIN Due.modes THEN Due.modes[c] ELSE drv.modes[c]]
    BY <1>6, StepRemembers
  <2>2. CASE call.op = "init"
    <3>1. Due.modes = s.modes /\ s.modes \in [Channels -> GainModes]
      BY <1>4, <1>6, <2>2, ModesToTellAre
    <3>2. drv'.modes = s.modes
      BY ONLY <2>1, <3>1
    <3> QED
      BY ONLY <1>3, <2>2, <3>1, <3>2
  <2>3. CASE call.op = "mode"
    <3>1. /\ Due.modes = [d \in {call.c} |-> call.mode]
          /\ call.c \in Channels /\ call.mode \in GainModes
      BY <1>4, <1>6, <2>3, ModesToTellAre DEF ModeTold
    <3>2. drv'.modes = [c \in Channels |-> IF c = call.c THEN call.mode ELSE drv.modes[c]]
      BY ONLY <2>1, <3>1
    <3> QED
      BY ONLY <1>3, <2>3, <3>1, <3>2
  <2>4. call.op \notin {"rate", "atten"}
    BY <1>4, <1>6, ModesToTellAre
  <2> QED
    BY ONLY <1>2, <2>2, <2>3, <2>4
<1> QED
  BY <1>5, <1>6

LEMMA TellingGoesOn ==
  ASSUME Calling, Shapes, Telling, Proceeds
  PROVE  Telling' /\ \A c \in Channels : Answer(c)' = Answer(c)
<1>1. todo' = Tail(todo) /\ todo # << >> /\ IsScript(todo') /\ Due = todo[1]
  BY ScriptGoesOn
<1>2. /\ call.op \in {"init", "mode", "rate", "atten"} /\ s' = s
      /\ call' = call \/ (call' = Idle /\ todo' = << >>)
  BY GoesOn
<1>3. /\ drv'.modes \in [Channels -> GainModes]
      /\ call.op = "init" => drv'.modes = s.modes
      /\ call.op = "mode" => drv'.modes[call.c] = call.mode \/ TellsModes(todo')
      /\ \A c \in Channels : (call.op = "mode" /\ call.c = c) \/ drv'.modes[c] = drv.modes[c]
  BY ModesGoOn
<1>4. /\ Tells(todo', ModesToTell)
      /\ Due.op = "rate" => Due.rate \in Rates \cup {"mixed"}
  <2>1. Tells(todo, ModesToTell)
    BY DEF Telling
  <2> QED
    BY ONLY <1>1, <2>1, TailTells
<1>5. Tells(todo', ModesToTell')
  <2>1. CASE call' = call
    <3>1. ModesToTell' = ModesToTell
      BY <1>2, <2>1 DEF ModesToTell
    <3> QED
      BY ONLY <1>4, <3>1
  <2>2. CASE todo' = << >>
    BY <2>2, NoneTells
  <2> QED
    BY <1>2, <2>1, <2>2
<1>6. \/ drv'.rate \in Rates \cup {"mixed"}
      \/ call'.op = "init" /\ RateFirst(todo')
  <2>1. drv'.rate = IF Due.op = "rate" THEN Due.rate ELSE drv.rate
    BY StepRemembers
  <2>2. CASE Due.op = "rate"
    BY <1>4, <2>1, <2>2
  <2>3. CASE Due.op # "rate" /\ drv.rate \in Rates \cup {"mixed"}
    BY <2>1, <2>3
  <2>4. CASE Due.op # "rate" /\ call.op = "init" /\ RateFirst(todo)
    <3>1. RateFirst(todo')
      BY <1>1, <2>4, TailFirst
    <3>2. todo' # << >>
      BY <3>1, TailFirst
    <3> QED
      BY <1>2, <2>4, <3>1, <3>2
  <2> QED
    BY <1>2, <2>2, <2>3, <2>4 DEF Telling
<1>7. CASE call' = call
  <2>1. Telling'
    BY ONLY <1>2, <1>3, <1>5, <1>6, <1>7 DEF Telling
  <2>2. \A c \in Channels : Answer(c)' = Answer(c)
    BY ONLY <1>3, <1>7 DEF Answer
  <2> QED
    BY <2>1, <2>2
<1>8. CASE call' = Idle /\ todo' = << >>
  <2>1. call'.op = "idle"
    BY <1>8, IdleOff
  <2>2. Telling'
    BY ONLY <1>3, <1>5, <1>6, <2>1 DEF Telling
  <2>3. ~TellsModes(todo')
    BY <1>8 DEF TellsModes
  <2>4. \A c \in Channels : Answer(c)' = Answer(c)
    BY ONLY <1>3, <2>1, <2>3 DEF Answer
  <2> QED
    BY <2>2, <2>4
<1> QED
  BY <1>2, <1>7, <1>8

\* All that init and the calls heed is as promised, and so is what a channel answers.
Promises ==
  /\ \A k, e : Heeded(k, e) => Promise(k, e)
  /\ \A c \in Channels : Promise(ModeIs(c, Answer(c)), <<"mode", c>>)

IInv == Calling /\ Shapes /\ Telling /\ Promises

LEMMA HeededStays ==
  ASSUME s' = s, NEW k, NEW e, Heeded(k, e)'
  PROVE  Heeded(k, e)
  BY DEF Heeded, Minds

LEMMA AnswersAre ==
  ASSUME Calling, Telling, NEW c \in Channels
  PROVE  Answer(c) \in GainModes /\ Concern(ModeIs(c, Answer(c)))
<1>1. Answer(c) \in GainModes
  BY ModesToTellAre DEF Answer, Telling
<1> QED
  BY <1>1, ModesConcern

(***************************************************************************)
(* The steps of a call.                                                    *)
(***************************************************************************)
LEMMA ProceedsKeeps ==
  ASSUME IInv, Proceeds
  PROVE  IInv'
<1>1. Calling /\ Shapes /\ Telling /\ Promises
  BY DEF IInv
<1>2. todo # << >> /\ s' = s
  BY <1>1, ScriptGoesOn, GoesOn
<1>3. RateReady
  BY <1>1, <1>2, RateIsReady
<1>4. Calling' /\ Shapes'
  BY <1>1, <1>3, CallingGoesOn, StepCarries
<1>5. Telling' /\ \A c \in Channels : Answer(c)' = Answer(c)
  BY <1>1, TellingGoesOn
<1>6. ASSUME NEW k, NEW e, Heeded(k, e)' PROVE Promise(k, e)'
  <2>1. Heeded(k, e)
    BY <1>2, <1>6, HeededStays
  <2>2. Concern(k) /\ Promise(k, e)
    BY <1>1, <2>1 DEF Heeded, Promises
  <2> QED
    BY ONLY <1>1, <1>3, <2>2, Proceeds, PromiseGoesOn
<1>7. ASSUME NEW c \in Channels PROVE Promise(ModeIs(c, Answer(c)), <<"mode", c>>)'
  <2> DEFINE m == Answer(c)
  <2>1. Concern(ModeIs(c, m)) /\ Promise(ModeIs(c, m), <<"mode", c>>)
    BY <1>1, AnswersAre DEF Promises
  <2>2. \A k : Concern(k) /\ Promise(k, <<"mode", c>>) => Promise(k, <<"mode", c>>)'
    BY ONLY <1>1, <1>3, Proceeds, PromiseGoesOn
  <2>3. \A k : k = ModeIs(c, m) => Promise(k, <<"mode", c>>)'
    BY ONLY <2>1, <2>2
  <2>4. Answer(c)' = Answer(c)
    BY <1>5
  <2> QED
    BY ONLY <2>3, <2>4 DEF Promise, ModeIs
<1> QED
  BY ONLY <1>4, <1>5, <1>6, <1>7 DEF IInv, Promises

(***************************************************************************)
(* Errors.                                                                 *)
(***************************************************************************)
LEMMA ErrorsKeepShapes ==
  ASSUME Calling, Shapes, Telling, Fails
  PROVE  Calling' /\ Shapes' /\ Telling'
<1>1. /\ call.op \in {"init", "mode", "rate", "atten"} /\ todo # << >>
      /\ call' = IF drv.up THEN Idle ELSE Off
      /\ todo' = << >> /\ drv' = drv /\ s' = s
      /\ spoilt' = IF drv.up THEN spoilt \cup Spoils(call) ELSE {}
  BY ErrorEnds
<1>2. call'.op = IF drv.up THEN "idle" ELSE "off"
  BY <1>1, IdleOff
<1>3. <<"none">> \notin Spoils(call)
  BY Effects DEF Spoils
<1>4. Calling'
  BY <1>1, <1>2, <1>3 DEF Calling
<1>5. Shapes'
  <2>1. chip' = chip \/ chip' = [chip EXCEPT ![Due.reg] = After(Due)]
    BY DEF Fails, SpiError, Reject, NoWindow
  <2>2. ChipShape'
    <3>1. CASE chip' = chip
      BY <3>1 DEF Shapes, ChipShape
    <3>2. CASE chip' = [chip EXCEPT ![Due.reg] = After(Due)]
      BY <3>2, ChipStays DEF Shapes
    <3> QED
      BY <2>1, <3>1, <3>2
  <2> QED
    BY <1>1, <2>2, NoneIs DEF Shapes, DriverShape
<1>6. Telling'
  <2>1. Tells(todo', ModesToTell')
    BY <1>1, NoneTells
  <2>2. drv.up => drv.rate \in Rates \cup {"mixed"}
    BY <1>1 DEF Telling, Calling
  <2> QED
    BY <1>1, <1>2, <2>1, <2>2 DEF Telling
<1> QED
  BY <1>4, <1>5, <1>6

LEMMA ErrorsKeep ==
  ASSUME IInv, Fails
  PROVE  IInv'
<1>1. Calling /\ Shapes /\ Telling /\ Promises
  BY DEF IInv
<1>2. /\ call.op \in {"init", "mode", "rate", "atten"} /\ todo # << >>
      /\ call' = IF drv.up THEN Idle ELSE Off
      /\ todo' = << >> /\ drv' = drv /\ s' = s
      /\ spoilt' = IF drv.up THEN spoilt \cup Spoils(call) ELSE {}
  BY <1>1, ErrorEnds
<1>3. RateReady
  BY <1>1, <1>2, RateIsReady
<1>4. Calling' /\ Shapes' /\ Telling'
  BY <1>1, ErrorsKeepShapes
<1>5. ASSUME NEW k, NEW e, Heeded(k, e)' PROVE Promise(k, e)'
  <2>1. Heeded(k, e)
    BY <1>2, <1>5, HeededStays
  <2>2. Concern(k) /\ Promise(k, e)
    BY <1>1, <2>1 DEF Heeded, Promises
  <2> QED
    BY ONLY <1>1, <1>3, <2>2, Fails, PromiseOutlivesErrors
<1>6. ASSUME NEW c \in Channels PROVE Promise(ModeIs(c, Answer(c)), <<"mode", c>>)'
  <2> DEFINE m == Answer(c)
             e == <<"mode", c>>
  <2>1. call'.op \in {"idle", "off"}
    BY <1>2, IdleOff
  <2>2. CASE call'.op = "off" \/ e \in spoilt'
    BY ONLY <2>1, <2>2 DEF Promise
  <2>3. CASE call'.op = "idle" /\ e \notin spoilt'
    <3>1. drv.up
      BY <1>2, <2>3, IdleOff
    <3>2. e \notin Spoils(call)
      BY <1>2, <2>3, <3>1
    <3>3. ~(call.op = "mode" /\ call.c = c)
      BY <3>2 DEF Spoils
    <3>4. Answer(c)' = Answer(c)
      BY <1>2, <2>3, <3>3 DEF Answer
    <3>5. Concern(ModeIs(c, m)) /\ Promise(ModeIs(c, m), e)
      BY <1>1, AnswersAre DEF Promises
    <3>6. \A k : Concern(k) /\ Promise(k, e) => Promise(k, e)'
      BY ONLY <1>1, <1>3, Fails, PromiseOutlivesErrors
    <3>7. \A k : k = ModeIs(c, m) => Promise(k, e)'
      BY ONLY <3>5, <3>6
    <3> QED
      BY ONLY <3>4, <3>7 DEF Promise, ModeIs
  <2> QED
    BY ONLY <2>1, <2>2, <2>3
<1> QED
  BY ONLY <1>4, <1>5, <1>6 DEF IInv, Promises

(***************************************************************************)
(* The beginning of a call.                                                *)
(***************************************************************************)
LEMMA CatTellsModes ==
  \A a, b : /\ IsScript(a) /\ IsScript(b) /\ TellsModes(a) => TellsModes(a \o b)
            /\ IsScript(a) /\ IsScript(b) /\ TellsModes(b) => TellsModes(a \o b)
<1> SUFFICES ASSUME NEW a, NEW b, IsScript(a), IsScript(b)
             PROVE  /\ TellsModes(a) => TellsModes(a \o b)
                    /\ TellsModes(b) => TellsModes(a \o b)
  OBVIOUS
<1> DEFINE c == a \o b
           l == Len(a)
           m == Len(b)
<1>1. /\ Len(c) = l + m /\ l \in Nat /\ m \in Nat
      /\ \A i \in 1..l : c[i] = a[i]
      /\ \A i \in 1..m : c[l + i] = b[i]
  BY CatIs
<1> HIDE DEF c
<1>2. ASSUME TellsModes(a) PROVE TellsModes(c)
  <2>1. PICK i \in 1..Len(a) : a[i].op = "modes"
    BY <1>2 DEF TellsModes
  <2>2. i \in 1..Len(c) /\ c[i].op = "modes"
    BY <1>1, <2>1
  <2> QED
    BY ONLY <2>2, Zenon DEF TellsModes
<1>3. ASSUME TellsModes(b) PROVE TellsModes(c)
  <2>1. PICK i \in 1..Len(b) : b[i].op = "modes"
    BY <1>3 DEF TellsModes
  <2>2. l + i \in 1..Len(c) /\ c[l + i].op = "modes"
    BY <1>1, <2>1
  <2> QED
    BY ONLY <2>2, Zenon DEF TellsModes
<1> QED
  BY <1>2, <1>3 DEF c

LEMMA ModeCallTells ==
  \A set, c, mode : /\ TellsModes(SetGainModeScript(set, c, mode))
                    /\ Tells(SetGainModeScript(set, c, mode), {ModeTold(c, mode)})
<1> SUFFICES ASSUME NEW set, NEW c, NEW mode
             PROVE  /\ TellsModes(SetGainModeScript(set, c, mode))
                    /\ Tells(SetGainModeScript(set, c, mode), {ModeTold(c, mode)})
  OBVIOUS
<1>t. Tells(SetGainModeScript(set, c, mode), {ModeTold(c, mode)})
  BY ModeTells
<1>1. TellsModes(TellStep(c, mode))
  <2> DEFINE a == [op |-> "modes", modes |-> [d \in {c} |-> mode]]
  <2>1. TellStep(c, mode) = <<a>>
    BY DEF TellStep, NewModes
  <2>2. 1 \in 1..Len(<<a>>) /\ <<a>>[1].op = "modes"
    OBVIOUS
  <2> HIDE DEF a
  <2> QED
    BY ONLY <2>1, <2>2 DEF TellsModes
<1>2. /\ IsScript(Save(RxEnableFilterControl)) /\ IsScript(PauseStep(set, c))
      /\ IsScript(ModeStep(c, mode)) /\ IsScript(TellStep(c, mode)) /\ IsScript(ResumeStep)
      /\ IsScript(GcUpdate)
  BY ModeStepsAre
<1>3. TellsModes(SetGainModeScript(set, c, mode))
  BY ONLY <1>1, <1>2, ModeScriptIs, CatTellsModes, CatScript, Zenon
<1> QED
  BY ONLY <1>t, <1>3

LEMMA CallStartsWell ==
  ASSUME Calling, Shapes, Telling, NEW a \in Asking, Call(a)
  PROVE  Calling' /\ Shapes' /\ Telling'
<1>1. /\ call = Idle /\ call' = a /\ todo' = Script(s, a) /\ s' = s
      /\ chip' = chip /\ drv' = drv /\ saved' = saved /\ spoilt' = spoilt
  BY DEF Call
<1>2. call.op = "idle" /\ call'.op \in {"mode", "rate", "atten"}
  BY <1>1, IdleOff DEF Asking, ModeCalls, RateCalls
<1>3. Calling'
  BY <1>1, <1>2 DEF Calling
<1>4. drv.rate \in Rates \cup {"mixed"}
  BY <1>2 DEF Telling
<1>5. CASE a \in ModeCalls
  <2>1. a.op = "mode"
    BY <1>5 DEF ModeCalls
  <2>2. todo' = SetGainModeScript(s, a.c, a.mode)
    BY <1>1, <2>1 DEF Script
  <2>3. ModesToTell' = {ModeTold(a.c, a.mode)}
    BY <1>1, <2>1 DEF ModesToTell
  <2>4. Tells(todo', ModesToTell') /\ TellsModes(todo')
    BY ONLY <2>2, <2>3, ModeCallTells
  <2>5. Telling'
    BY <1>1, <1>4, <2>1, <2>4 DEF Telling
  <2>6. Shapes'
    BY <1>1, <2>4 DEF Shapes, ChipShape, DriverShape, Tells
  <2> QED
    BY <1>3, <2>5, <2>6
<1>6. CASE a \in RateCalls \cup {Atten}
  <2>1. a.op \in {"rate", "atten"}
    BY <1>6 DEF RateCalls, Atten
  <2>2. Tells(todo', {})
    <3>1. CASE a \in RateCalls
      <4>1. a.op = "rate" /\ a.rate \in Rates
        BY <3>1 DEF RateCalls
      <4>2. todo' = SetTrxClockChain(s, a.rate)
        BY <1>1, <4>1 DEF Script
      <4> QED
        BY ONLY <4>1, <4>2, ClockTells
    <3>2. CASE a = Atten
      <4>1. todo' = SetTxAtten
        BY <1>1, <3>2, IdleOff DEF Script
      <4> QED
        BY ONLY <4>1, AttenTells
    <3> QED
      BY <1>6, <3>1, <3>2
  <2>3. ModesToTell' = {}
    BY <1>1, <2>1 DEF ModesToTell
  <2>4. Telling'
    BY <1>1, <1>4, <2>1, <2>2, <2>3 DEF Telling
  <2>5. Shapes'
    BY <1>1, <2>2 DEF Shapes, ChipShape, DriverShape, Tells
  <2> QED
    BY <1>3, <2>4, <2>5
<1> QED
  BY <1>5, <1>6 DEF Asking

LEMMA CallsKeep ==
  ASSUME IInv, NEW a \in Asking, Call(a)
  PROVE  IInv'
<1>1. Calling /\ Shapes /\ Telling /\ Promises
  BY DEF IInv
<1>2. /\ call = Idle /\ call' = a /\ todo' = Script(s, a) /\ s' = s /\ drv' = drv
  BY DEF Call
<1>3. Calling' /\ Shapes' /\ Telling'
  BY <1>1, CallStartsWell
<1>4. ASSUME NEW k, NEW e, Heeded(k, e)' PROVE Promise(k, e)'
  <2>1. Heeded(k, e)
    BY <1>2, <1>4, HeededStays
  <2>2. Concern(k) /\ Promise(k, e) /\ Minds(a, k, e)
    BY <1>1, <2>1 DEF Heeded, Promises
  <2> QED
    BY ONLY <1>1, <2>2, a \in Asking, Call(a), PromiseStarts
<1>5. ASSUME NEW c \in Channels PROVE Promise(ModeIs(c, Answer(c)), <<"mode", c>>)'
  <2> DEFINE e == <<"mode", c>>
  <2>1. CASE a \in ModeCalls /\ a.c = c
    <3> DEFINE k == ModeIs(c, a.mode)
    <3>1. a.op = "mode"
      BY <2>1 DEF ModeCalls
    <3>2. Answer(c)' = a.mode
      BY <1>2, <2>1, <3>1 DEF Answer
    <3>3. Minds(a, k, e)
      BY <2>1, ItsCallMakesTheMode
    <3>4. /\ call'.op = "mode" /\ Redoes(call)' = Redoes(a) /\ Spoils(call)' = Spoils(a)
          /\ e \in Redoes(a) /\ e \in Spoils(a)
      BY <1>2, <2>1, <3>1 DEF Redoes, Spoils
    <3> HIDE DEF k
    <3>5. Makes(todo', k)
      BY ONLY <1>2, <3>3, <3>4 DEF Minds
    <3>6. Promise(k, e)'
      BY ONLY <3>4, <3>5, Given DEF Promise
    <3>7. \A l : l = k => Promise(l, e)'
      BY ONLY <3>6
    <3> QED
      BY ONLY <3>2, <3>7 DEF k, Promise, ModeIs
  <2>2. CASE a \notin ModeCalls \/ a.c # c
    <3> DEFINE k == ModeIs(c, Answer(c))
    <3>1. Answer(c)' = Answer(c)
      BY <1>2, <2>2, IdleOff DEF Answer, Asking, ModeCalls, RateCalls
    <3>2. Concern(k) /\ Promise(k, e)
      BY <1>1, AnswersAre DEF Promises
    <3>3. k.reg = "AgcConfig1" /\ k.field = GainModeField(c) /\ k.upset = {}
      BY ModesAre
    <3> HIDE DEF k
    <3>4. \A l : l = k => Minds(a, l, e)
      BY ONLY <2>2, <3>3, a \in Asking, c \in Channels, OthersKeepTheMode
    <3>5. \A l : Concern(l) /\ Promise(l, e) /\ Minds(a, l, e) => Promise(l, e)'
      BY ONLY <1>1, a \in Asking, Call(a), PromiseStarts
    <3>6. \A l : l = k => Promise(l, e)'
      BY ONLY <3>2, <3>4, <3>5
    <3> QED
      BY ONLY <3>1, <3>6 DEF k, Promise, ModeIs
  <2> QED
    BY <2>1, <2>2
<1> QED
  BY ONLY <1>3, <1>4, <1>5 DEF IInv, Promises

\* Init, for the first time or again, starts from a reset.
Fresh ==
  /\ s \in Settings /\ call \in InitCalls /\ todo = Script(s, call)
  /\ chip = AfterReset /\ drv = NewDriver(s) /\ <<"none">> \notin spoilt

LEMMA FreshIs == Fresh => IInv
<1> SUFFICES ASSUME Fresh PROVE IInv
  OBVIOUS
<1>1. /\ s \in Settings /\ call.op = "init" /\ call.rate \in Rates /\ call \in InitCalls
      /\ call.cut \in CutOffs /\ todo = InitScript(s, call.rate, call.cut)
      /\ chip = AfterReset /\ drv = NewDriver(s) /\ <<"none">> \notin spoilt
  BY DEF Fresh, InitCalls, Script, CutOffs
<1>2. Calling
  BY <1>1 DEF Calling, NewDriver
<1>3. Tells(todo, {s.modes}) /\ RateFirst(todo)
  BY <1>1, InitTells, InitFirst
<1>4. Shapes
  BY <1>1, <1>3 DEF Shapes, ChipShape, DriverShape, AfterReset, NewDriver, Tells
<1>5. s.modes \in [Channels -> GainModes] /\ drv.modes = s.modes
  BY <1>1, ModesAssumption DEF NewDriver
<1>6. ModesToTell = {s.modes}
  BY <1>1 DEF ModesToTell
<1>7. Telling
  BY <1>1, <1>3, <1>5, <1>6 DEF Telling
<1>8. ASSUME NEW k, NEW e, Makes(todo, k) PROVE Promise(k, e)
  BY ONLY <1>1, <1>8, Given DEF Promise
<1>9. ASSUME NEW k, NEW e, Heeded(k, e) PROVE Promise(k, e)
  <2>1. Makes(todo, k)
    BY <1>1, <1>9 DEF Heeded
  <2> QED
    BY ONLY <1>8, <2>1
<1>10. ASSUME NEW c \in Channels PROVE Promise(ModeIs(c, Answer(c)), <<"mode", c>>)
  <2>1. Answer(c) = s.modes[c]
    BY <1>1, <1>5 DEF Answer
  <2>2. Makes(todo, ModeIs(c, s.modes[c]))
    BY <1>1, InitMakesModes
  <2> QED
    BY ONLY <1>8, <2>1, <2>2
<1> QED
  BY ONLY <1>2, <1>4, <1>7, <1>9, <1>10 DEF IInv, Promises

LEMMA InitAgainKeeps ==
  ASSUME IInv, InitAgain
  PROVE  Fresh'
  BY DEF IInv, Calling, InitAgain, Fresh

LEMMA StutterKeeps ==
  ASSUME IInv, UNCHANGED vars
  PROVE  IInv'
<1>1. /\ s' = s /\ call' = call /\ todo' = todo /\ chip' = chip /\ drv' = drv /\ saved' = saved
      /\ spoilt' = spoilt
  BY DEF vars
<1>2. Calling /\ Shapes /\ Telling /\ Promises
  BY DEF IInv
<1>3. Calling'
  BY <1>1, <1>2 DEF Calling
<1>4. Shapes'
  BY <1>1, <1>2 DEF Shapes, ChipShape, DriverShape
<1>5. Telling'
  BY <1>1, <1>2 DEF Telling, ModesToTell
<1>6. ASSUME NEW k, NEW e, Promise(k, e) PROVE Promise(k, e)'
  <2>1. Fits(k)' = Fits(k) /\ Known(k)' = Known(k)
    BY ONLY <1>1 DEF Known, Fits, Kept, Fine, Meaning, PowerOf
  <2>2. Redoes(call)' = Redoes(call) /\ Spoils(call)' = Spoils(call)
    BY ONLY <1>1 DEF Redoes, Spoils
  <2> QED
    BY ONLY <1>1, <1>6, <2>1, <2>2 DEF Promise
<1>7. ASSUME NEW k, NEW e, Heeded(k, e)' PROVE Promise(k, e)'
  <2>1. Heeded(k, e)
    BY <1>1, <1>7, HeededStays
  <2> QED
    BY ONLY <1>2, <1>6, <2>1 DEF Promises
<1>8. ASSUME NEW c \in Channels PROVE Promise(ModeIs(c, Answer(c)), <<"mode", c>>)'
  <2> DEFINE m == Answer(c)
             e == <<"mode", c>>
  <2>1. Promise(ModeIs(c, m), e)
    BY <1>2 DEF Promises
  <2>2. \A l : l = ModeIs(c, m) => Promise(l, e)'
    BY ONLY <1>6, <2>1
  <2>3. Answer(c)' = Answer(c)
    BY ONLY <1>1 DEF Answer
  <2> QED
    BY ONLY <2>2, <2>3 DEF Promise, ModeIs
<1> QED
  BY ONLY <1>3, <1>4, <1>5, <1>7, <1>8 DEF IInv, Promises

(***************************************************************************)
(* Whatever is called, whichever transfer fails: the calls stay well       *)
(* formed, the driver's notes tell what it is doing, and the promise of    *)
(* every field holds. This is the invariant the properties below follow    *)
(* from.                                                                   *)
(***************************************************************************)
THEOREM Inductive == Spec => []IInv
<1>1. Init => Fresh
  BY DEF Init, Fresh
<1>2. IInv /\ [Next]_vars => IInv' \/ Fresh'
  <2> SUFFICES ASSUME IInv, [Next]_vars PROVE IInv' \/ Fresh'
    OBVIOUS
  <2>1. CASE SetGainMode
    BY <2>1, CallsKeep DEF SetGainMode, Asking
  <2>2. CASE SetSampleRate
    BY <2>2, CallsKeep DEF SetSampleRate, Asking
  <2>3. CASE SetTxAttenuation
    BY <2>3, CallsKeep DEF SetTxAttenuation, Asking
  <2>4. CASE AccessChip \/ ReadForLater \/ Remember
    BY <2>4, ProceedsKeeps DEF Proceeds
  <2>5. CASE Fails
    BY <2>5, ErrorsKeep
  <2>6. CASE InitAgain
    BY <2>6, InitAgainKeeps
  <2>7. CASE UNCHANGED vars
    BY <2>7, StutterKeeps
  <2> QED
    BY <2>1, <2>2, <2>3, <2>4, <2>5, <2>6, <2>7 DEF Next, Fails
<1> QED
  BY <1>1, <1>2, FreshIs, PTL DEF Spec

-----------------------------------------------------------------------------
(***************************************************************************)
(* What fits, field by field.                                              *)
(***************************************************************************)
LEMMA FitsAre ==
  /\ \A n, f : Fits(RateOf(n, f)) => chip[n][f] = drv.rate
  /\ Fits(PowerMeasure) =>
       chip["DecPowerMeasureDuration0"]["dec_power_measurement_duration"] = PowerOf(drv)
  /\ \A c : Fits(Channel(c)) => chip["RxEnableFilterControl"][Rx(c)] = "set"
  /\ \A c : Fits(SomeMode(c)) => chip["AgcConfig1"][GainModeField(c)] \in GainModes
  /\ \A c, m : m \in GainModes /\ Fits(ModeIs(c, m)) => chip["AgcConfig1"][GainModeField(c)] = m
<1>1. \A n, f : Fits(RateOf(n, f)) => chip[n][f] = drv.rate
  BY DEF Fits, Fine, Meaning, RateOf
<1>2. Fits(PowerMeasure) =>
        chip["DecPowerMeasureDuration0"]["dec_power_measurement_duration"] = PowerOf(drv)
  BY DEF Fits, Fine, Meaning, PowerMeasure
<1>3. ASSUME NEW c, Fits(Channel(c)) PROVE chip["RxEnableFilterControl"][Rx(c)] = "set"
  BY <1>3, ChannelIs DEF Fits, Fine, Meaning
<1>4. ASSUME NEW c, Fits(SomeMode(c)) PROVE chip["AgcConfig1"][GainModeField(c)] \in GainModes
  <2>1. \A g \in GainModes : g # "rate" /\ g # "power"
    BY DEF GainModes
  <2> QED
    BY <1>4, <2>1, ModesAre DEF Fits, Fine, Meaning
<1>5. ASSUME NEW c, NEW m \in GainModes, Fits(ModeIs(c, m))
      PROVE  chip["AgcConfig1"][GainModeField(c)] = m
  <2>1. m # "rate" /\ m # "power"
    BY DEF GainModes
  <2> QED
    BY <1>5, <2>1, ModesAre DEF Fits, Fine, Meaning
<1> QED
  BY <1>1, <1>2, <1>3, <1>4, <1>5

\* While no call runs what isn't spoilt is as it should be.
LEMMA IdleFits ==
  ASSUME IInv, InUse, NEW k, NEW e, Heeded(k, e), e \notin spoilt
  PROVE  Fits(k)
<1>1. call.op = "idle"
  BY IdleOff DEF InUse
<1> QED
  BY <1>1 DEF IInv, Promises, Promise

LEMMA AskedFits ==
  ASSUME s \in Settings, NEW n, NEW f, f # "slow_attack_hybrid_mode", Fits(Asked(s, n, f))
  PROVE  chip[n][f] \notin {"reset", "zero", "cal"}
<1> DEFINE k == Asked(s, n, f)
           v == chip[n][f]
<1>1. k.reg = n /\ k.field = f /\ k.upset = {} /\ k.good = GoodOf(s, n, f)
  BY AskedIs
<1>2. k.good \subseteq GainModes \cup {"set", "rate", "power"}
  <2>1. s.modes[1] \in GainModes /\ s.modes[2] \in GainModes
    BY ModesAssumption DEF Channels
  <2> QED
    BY <1>1, <2>1 DEF GoodOf
<1>3. \E g \in k.good : v \in Meaning(g, k)
  BY <1>1 DEF Fits, Fine
<1> HIDE DEF k, v
<1>4. \A g \in GainModes \cup {"set", "rate", "power"} :
        Meaning(g, k) \subseteq Rates \cup {"mixed", "fast", "set"} \cup GainModes
  BY <1>1 DEF Meaning, GainModes
<1>5. v \in Rates \cup {"mixed", "fast", "set"} \cup GainModes
  BY ONLY <1>2, <1>3, <1>4
<1>6. v \notin {"reset", "zero", "cal"}
  BY <1>5, RatesAssumption DEF GainModes
<1> QED
  BY <1>6 DEF v

(***************************************************************************)
(* Parts of init share registers, write them whole and borrow from them,   *)
(* later calls change some of their fields, and any access may fail: once  *)
(* init has returned, every field that somebody has set still holds a      *)
(* value of its own, but for what Wiped names: RSSI settings timed in      *)
(* samples, the pin control after a tuning, and the hybrid bit.            *)
(***************************************************************************)
THEOREM NothingIsEverWiped == Spec => []NothingIsWiped
<1>1. IInv => NothingIsWiped
  <2> SUFFICES ASSUME IInv, InUse, NEW o \in Owned \ NotRedone,
                      ~Wiped(s, o[1], o[2])
               PROVE  chip[o[1]][o[2]] \notin {"reset", "zero", "cal"}
    BY DEF NothingIsWiped
  <2>1. s \in Settings /\ Rates # {} /\ <<"none">> \notin spoilt
    BY DEF IInv, Calling
  <2>2. o = <<o[1], o[2]>> /\ o[1] \in Names /\ o[2] \in Ours(s, o[1])
    BY <2>1, OwnedIs
  <2>3. CASE o[1] = "AgcConfig1" /\ o[2] \in ModeField
    <3>1. PICK c \in Channels : o[2] = GainModeField(c)
      <4>1. 1 \in Channels /\ 2 \in Channels
        BY DEF Channels
      <4>2. o[2] = GainModeField(1) \/ o[2] = GainModeField(2)
        BY <2>3 DEF ModeField, GainModeField
      <4> QED
        BY ONLY <4>1, <4>2
    <3>2. Fits(SomeMode(c))
      BY <2>1, SomeModeHeeded, IdleFits
    <3>3. chip[o[1]][o[2]] \in GainModes
      BY <2>3, <3>1, <3>2, FitsAre
    <3> QED
      BY <3>3 DEF GainModes
  <2>4. CASE o[1] # "AgcConfig1" \/ o[2] \notin ModeField
    <3>1. EffectOf(o) \notin spoilt
      <4>1. CASE o[1] = "Tx2DigAtten"
        <5>1. Ours(s, "Tx2DigAtten") = Tx2DigAtten.fields
          BY ONLY OwnAre, RegistersAre DEF Own, Is
        <5>2. o = <<"Tx2DigAtten", "immediately_update_tpc_atten">>
          BY <2>2, <4>1, <5>1 DEF Tx2DigAtten, Register
        <5>3. <<"atten">> \notin spoilt
          BY <5>2 DEF NotRedone
        <5> QED
          BY <4>1, <5>3 DEF EffectOf
      <4>2. ASSUME NEW c \in Channels, o[1] = "RxEnableFilterControl", o[2] = Rx(c)
            PROVE  <<"channel", c>> \notin spoilt
        BY <2>2, <4>2 DEF NotRedone
      <4>3. CASE o[1] # "Tx2DigAtten"
        <5>1. 1 \in Channels /\ 2 \in Channels
              /\ Rx(1) = "rx1_channel_enable" /\ Rx(2) = "rx2_channel_enable"
          BY DEF Channels, Rx
        <5> QED
          BY ONLY <2>1, <4>2, <4>3, <5>1 DEF EffectOf
      <4> QED
        BY <4>1, <4>3
    <3>2. Heeded(Asked(s, o[1], o[2]), EffectOf(o))
      BY <2>1, <2>4, OwnedHeeded
    <3>3. Fits(Asked(s, o[1], o[2]))
      BY ONLY <3>1, <3>2, IInv, InUse, IdleFits
    <3> QED
      BY <2>1, <3>3, AskedFits DEF Wiped
  <2> QED
    BY <2>3, <2>4
<1> QED
  BY <1>1, Inductive, PTL

(***************************************************************************)
(* bb_clk_update and gc_update: what was worked out from the driver's      *)
(* rates and modes fits them whenever no call runs, and after a call that  *)
(* failed from the next one on that works it out again.                    *)
(***************************************************************************)
THEOREM TimingAlwaysFollows == Spec => []TimingFollowsTheClocks
<1>1. IInv => TimingFollowsTheClocks
  <2> SUFFICES ASSUME IInv, InUse PROVE TimingFollowsTheClocks
    BY DEF TimingFollowsTheClocks
  <2>1. ASSUME <<"gain timing">> \notin spoilt, NEW o \in GainTiming
        PROVE  chip[o[1]][o[2]] = drv.rate
    <3> DEFINE k == RateOf(o[1], o[2])
    <3>1. o = <<o[1], o[2]>> /\ o[1] \in GcNames
      BY DEF GainTiming, GcNames
    <3>2. Concern(k)
      BY TimingConcern
    <3>3. k.reg = o[1] /\ k.field = o[2] /\ "rate" \in k.good
      BY DEF RateOf
    <3> HIDE DEF k
    <3>4. Heeded(k, <<"gain timing">>)
      BY <3>1, <3>2, <3>3, GainTimingHeeded
    <3>5. Fits(k)
      BY ONLY <2>1, <3>4, IInv, InUse, IdleFits
    <3> QED
      BY <3>5, FitsAre DEF k
  <2>2. ASSUME <<"gain timing">> \notin spoilt
        PROVE  chip["DecPowerMeasureDuration0"]["dec_power_measurement_duration"] = PowerOf(drv)
    <3>1. /\ <<PowerMeasure.reg, PowerMeasure.field>> = PowerField /\ "power" \in PowerMeasure.good
          /\ PowerMeasure.reg \in GcNames
      BY DEF PowerMeasure, PowerField, GcNames
    <3>2. Heeded(PowerMeasure, <<"gain timing">>)
      BY <3>1, TimingConcern, GainTimingHeeded
    <3> QED
      BY <2>2, <3>2, IdleFits, FitsAre
  <2>3. ASSUME <<"other timing">> \notin spoilt, NEW o \in OtherTiming
        PROVE  chip[o[1]][o[2]] = drv.rate
    <3>1. Fits(RateOf(o[1], o[2]))
      BY <2>3, OtherTimingHeeded, IdleFits
    <3> QED
      BY <3>1, FitsAre
  <2> QED
    BY <2>1, <2>2, <2>3 DEF TimingFollowsTheClocks
<1> QED
  BY <1>1, Inductive, PTL

(***************************************************************************)
(* set_gain_mode switches a channel off and puts back what it has found:   *)
(* once init has returned the other channel is never off, whatever runs,   *)
(* and neither is this one outside of the call unless such a call failed.  *)
(***************************************************************************)
THEOREM OthersNeverPause == Spec => []OnlyTheChangedChannelPauses
<1>1. IInv => OnlyTheChangedChannelPauses
  <2> SUFFICES ASSUME IInv, drv.up, NEW c \in Channels, <<"channel", c>> \notin spoilt,
                      ~(call # Idle /\ call.op = "mode" /\ call.c = c)
               PROVE  chip["RxEnableFilterControl"][Rx(c)] = "set"
    BY DEF OnlyTheChangedChannelPauses
  <2> DEFINE k == Channel(c)
             e == <<"channel", c>>
  <2>1. Calling /\ Heeded(k, e)
    BY ChannelHeeded DEF IInv, Calling
  <2>2. Promise(k, e)
    BY <2>1 DEF IInv, Promises
  <2>3. call.op \in {"idle", "mode", "rate", "atten"} /\ ~(call.op = "mode" /\ call.c = c)
    BY <2>1, CallsAre, IdleOff DEF Calling
  <2>4. Fits(k)
    <3>1. CASE call.op = "idle"
      BY <2>2, <3>1 DEF Promise
    <3>2. CASE call.op \in {"mode", "rate", "atten"}
      <4>1. e \notin Spoils(call)
        BY <2>3, <3>2, Effects DEF Spoils
      <4>2. Constant(todo, k, Known(k))
        BY <2>2, <3>2, <4>1 DEF Promise
      <4>3. "field" \in Known(k)
        BY <4>2, InTheEnd
      <4> QED
        BY <4>3 DEF Known
    <3> QED
      BY <2>3, <3>1, <3>2
  <2> QED
    BY <2>4, FitsAre
<1> QED
  BY <1>1, Inductive, PTL

(***************************************************************************)
(* gain_mode answers from the driver and not from the chip: it gives the   *)
(* mode that is in the chip, for every channel whose last change did not   *)
(* fail.                                                                   *)
(***************************************************************************)
THEOREM DriverAlwaysKnows == Spec => []DriverKnowsTheModes
<1>1. IInv => DriverKnowsTheModes
  <2> SUFFICES ASSUME IInv, InUse, NEW c \in Channels, <<"mode", c>> \notin spoilt
               PROVE  chip["AgcConfig1"][GainModeField(c)] = drv.modes[c]
    BY DEF DriverKnowsTheModes
  <2>1. call.op = "idle"
    BY IdleOff DEF InUse
  <2>2. Answer(c) = drv.modes[c] /\ Answer(c) \in GainModes
    BY <2>1, AnswersAre DEF IInv, Answer
  <2>3. Promise(ModeIs(c, Answer(c)), <<"mode", c>>)
    BY DEF IInv, Promises
  <2>4. Fits(ModeIs(c, Answer(c)))
    BY ONLY <2>1, <2>3, <<"mode", c>> \notin spoilt DEF Promise
  <2> QED
    BY ONLY <2>2, <2>4, FitsAre
<1> QED
  BY <1>1, Inductive, PTL
=============================================================================
