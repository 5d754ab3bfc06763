---------------------------- MODULE RxGainProofs ----------------------------
(***************************************************************************)
(* For all gain tables with rising gains, any LOs and gains that are asked *)
(* for and any number of SPI errors: what RxGain says of the chip's table, *)
(* of the entry of the TX quadrature calibration and of the gains holds,   *)
(* and so does what MCRxGain says of the VCO tables.                       *)
(***************************************************************************)
EXTENDS MCRxGain, TLAPS, WellFoundedInduction

LEMMA LeastNatural ==
  ASSUME NEW S \in SUBSET Nat, S # {}
  PROVE  \E i \in S : \A j \in Nat : j < i => j \notin S
<1> DEFINE R == OpToRel(<, Nat)
<1>1. IsWellFoundedOn(R, Nat)
  BY NatLessThanWellFounded
<1>2. PICK i \in S : \A j \in Nat : <<j, i>> \in R => j \notin S
  BY <1>1, WFMin
<1>3. \A j \in Nat : j < i => <<j, i>> \in R
  BY DEF OpToRel
<1> QED
  BY <1>2, <1>3

(***************************************************************************)
(* find_table_index and "closest entry"                                    *)
(***************************************************************************)
LEMMA TableTypes ==
  ASSUME NEW t \in Tables
  PROVE  /\ LastEntry[t] \in Nat /\ 0 \in Entries(t) /\ LastEntry[t] \in Entries(t)
         /\ Entries(t) = 0 .. LastEntry[t] /\ Entries(t) \subseteq AllEntries
         /\ \A i \in Entries(t) : i \in Nat /\ AbsGain[t][i] \in Int
         /\ \A i, j \in Entries(t) : i <= j => AbsGain[t][i] <= AbsGain[t][j]
  BY TableAssumption DEF Entries, AllEntries

\* The first entry that reaches a gain, if any does.
LEMMA FirstReachingIsFirst ==
  ASSUME NEW t \in Tables, NEW gain \in Int,
         \E i \in Entries(t) : ~(AbsGain[t][i] < gain)
  PROVE  LET i == FirstReaching(t, gain)
         IN  /\ i \in Entries(t) /\ AbsGain[t][i] >= gain
             /\ \A j \in 0 .. i - 1 : AbsGain[t][j] < gain
<1> DEFINE S == {i \in Entries(t) : AbsGain[t][i] >= gain}
<1>1. S \in SUBSET Nat /\ S # {}
  BY TableTypes
<1>2. PICK i \in S : \A j \in Nat : j < i => j \notin S
  BY <1>1, LeastNatural
<1>3. \A j \in 0 .. i - 1 : AbsGain[t][j] < gain
  <2> SUFFICES ASSUME NEW j \in 0 .. i - 1 PROVE AbsGain[t][j] < gain
    OBVIOUS
  <2>1. j \in Entries(t) /\ j \in Nat /\ j < i
    BY TableTypes
  <2> QED
    BY <1>2, <2>1, TableTypes
<1>4. \E k \in Entries(t) : /\ AbsGain[t][k] >= gain
                            /\ \A j \in 0 .. k - 1 : AbsGain[t][j] < gain
  BY <1>2, <1>3
<1> QED
  BY <1>4 DEF FirstReaching

Nearest(t, gain, g) ==
  LET all == {AbsGain[t][i] : i \in Entries(t)}
  IN  /\ g \in all
      /\ \A h \in all : \/ AbsDiff(g, gain) < AbsDiff(h, gain)
                        \/ AbsDiff(g, gain) = AbsDiff(h, gain) /\ g >= h

LEMMA NearestIsClosest ==
  ASSUME NEW t \in Tables, NEW gain \in Int, NEW g, Nearest(t, gain, g)
  PROVE  ClosestGain(t, gain) = g
<1> DEFINE all == {AbsGain[t][i] : i \in Entries(t)}
<1>1. \A x \in all : x \in Int
  BY TableTypes
<1>2. ASSUME NEW x \in Int PROVE AbsDiff(x, gain) \in Int
  BY DEF AbsDiff
<1>3. \A x : Nearest(t, gain, x) => x = g
  <2> SUFFICES ASSUME NEW x, Nearest(t, gain, x) PROVE x = g
    OBVIOUS
  <2>1. x \in all /\ g \in all
    BY DEF Nearest
  <2>2. \/ AbsDiff(g, gain) < AbsDiff(x, gain)
        \/ AbsDiff(g, gain) = AbsDiff(x, gain) /\ g >= x
    BY <2>1 DEF Nearest
  <2>3. \/ AbsDiff(x, gain) < AbsDiff(g, gain)
        \/ AbsDiff(x, gain) = AbsDiff(g, gain) /\ x >= g
    BY <2>1 DEF Nearest
  <2>4. x \in Int /\ g \in Int
    BY <1>1, <2>1
  <2>5. AbsDiff(x, gain) \in Int /\ AbsDiff(g, gain) \in Int
    BY <1>2, <2>4
  <2> QED
    BY <2>2, <2>3, <2>4, <2>5
<1>4. Nearest(t, gain, ClosestGain(t, gain))
  BY DEF ClosestGain, Nearest
<1> QED
  BY <1>3, <1>4

(* find_table_index finds an entry of the table whose gain is the closest one. *)
LEMMA FindIsClosest ==
  ASSUME NEW t \in Tables, NEW gain \in Int
  PROVE  /\ FindTableIndex(t, gain) \in Entries(t)
         /\ AbsGain[t][FindTableIndex(t, gain)] = ClosestGain(t, gain)
<1> DEFINE g(i) == AbsGain[t][i]
           found == FindTableIndex(t, gain)
<1>1. /\ \A i \in Entries(t) : g(i) \in Int /\ i \in Nat
      /\ \A i, j \in Entries(t) : i <= j => g(i) <= g(j)
      /\ LastEntry[t] \in Entries(t) /\ Entries(t) = 0 .. LastEntry[t]
  BY TableTypes
<1>2. SUFFICES /\ found \in Entries(t)
               /\ \A j \in Entries(t) :
                    \/ AbsDiff(g(found), gain) < AbsDiff(g(j), gain)
                    \/ AbsDiff(g(found), gain) = AbsDiff(g(j), gain) /\ g(found) >= g(j)
  <2>1. Nearest(t, gain, g(found))
    BY <1>2 DEF Nearest
  <2> QED
    BY <1>2, <2>1, NearestIsClosest
<1>3. CASE \A i \in Entries(t) : g(i) < gain
  <2>1. found = LastEntry[t]
    BY <1>3 DEF FindTableIndex
  <2>2. \A j \in Entries(t) : g(j) <= g(LastEntry[t])
    BY <1>1
  <2> QED
    BY <1>1, <1>3, <2>1, <2>2 DEF AbsDiff
<1>4. CASE \E i \in Entries(t) : ~(g(i) < gain)
  <2> DEFINE i == FirstReaching(t, gain)
             p == IF i = 0 THEN 0 ELSE i - 1
  <2>1. i \in Entries(t) /\ g(i) >= gain /\ \A j \in 0 .. i - 1 : g(j) < gain
    BY <1>4, FirstReachingIsFirst
  <2>2. p \in Entries(t)
    BY <1>1, <2>1
  <2>3. found = IF AbsDiff(g(p), gain) < AbsDiff(g(i), gain) THEN p ELSE i
    BY <1>4 DEF FindTableIndex
  <2>4. ASSUME NEW j \in Entries(t)
        PROVE  \/ g(j) <= g(p) /\ g(p) < gain
               \/ g(j) >= g(i)
    <3>1. CASE j < i
      <4>1. j <= p /\ p \in 0 .. i - 1
        BY <1>1, <2>1, <3>1
      <4> QED
        BY <1>1, <2>1, <2>2, <4>1
    <3>2. CASE j >= i
      BY <1>1, <2>1, <3>2
    <3> QED
      BY <1>1, <2>1, <3>1, <3>2
  <2>5. g(p) <= g(i)
    BY <1>1, <2>1, <2>2
  <2>6. ASSUME NEW j \in Entries(t)
        PROVE  \/ AbsDiff(g(found), gain) < AbsDiff(g(j), gain)
               \/ AbsDiff(g(found), gain) = AbsDiff(g(j), gain) /\ g(found) >= g(j)
    <3>1. g(j) \in Int /\ g(i) \in Int /\ g(p) \in Int /\ g(i) >= gain
      BY <1>1, <2>1, <2>2
    <3> HIDE DEF g, i, p, found
    <3>2. CASE AbsDiff(g(p), gain) < AbsDiff(g(i), gain)
      BY <2>3, <2>4, <2>5, <3>1, <3>2 DEF AbsDiff
    <3>3. CASE ~(AbsDiff(g(p), gain) < AbsDiff(g(i), gain))
      BY <2>3, <2>4, <2>5, <3>1, <3>3 DEF AbsDiff
    <3> QED
      BY <3>2, <3>3
  <2> QED
    BY <2>1, <2>2, <2>3, <2>6
<1> QED
  BY <1>3, <1>4

-----------------------------------------------------------------------------
(***************************************************************************)
(* The invariant. While a table is written its entries below the next one  *)
(* are in, and the match found so far is one of them, so that writing an   *)
(* entry can't take its word away.                                         *)
(***************************************************************************)
Writing ==
  /\ pc = "write" => /\ entry \in Entries(Target)
                     /\ \A i \in Entries(Target) : i < entry => chip[i] = Target
                     /\ quad = NoEntry \/ quad < entry
  /\ pc \in {"remember", "rx1", "rx2"} => \A i \in Entries(Target) : chip[i] = Target
  /\ pc \in {"rx1", "rx2"} => current = Target

(* Gains: in the chip between calls, in the driver during one. *)
InChip(c) == index[c] \in Entries(current) /\ AbsGain[current][index[c]] = held[c]

Gaining ==
  ~failed =>
    /\ pc \in {"idle", "read"} => \A c \in Channels : InChip(c)
    /\ pc \in {"start", "write", "remember", "rx1", "rx2"} =>
         \A c \in Channels : saved[c] = held[c]
    /\ pc = "rx2" => index[1] = FindTableIndex(Target, saved[1])

IInv == TypeOK /\ (pc = "off" => failed) /\ Writing /\ QuadEntryIsInTheChip
        /\ TableIsInTheChip /\ Gaining

-----------------------------------------------------------------------------
LEMMA TargetType == TypeOK => Target \in Tables
  BY TableAssumption DEF TypeOK, Target

LEMMA InitIInv == Init => IInv
<1> SUFFICES ASSUME Init PROVE IInv
  OBVIOUS
<1>1. current \in Tables /\ pc = "read"
  BY TableAssumption DEF Init
<1>2. 0 \in Entries(current) /\ AbsGain[current][0] \in Int
  BY <1>1, TableTypes
<1>3. TypeOK
  <2>1. chip \in [AllEntries -> Tables \cup {NoTable}] /\ quad \in AllEntries \cup {NoEntry}
    BY DEF Init
  <2>2. index \in [Channels -> Nat] /\ saved \in [Channels -> Int] /\ held \in [Channels -> Int]
    BY <1>2 DEF Init
  <2>3. faults \in 0 .. MaxFaults
    BY TableAssumption DEF Init
  <2> QED
    BY <1>1, <2>1, <2>2, <2>3 DEF Init, TypeOK, Pcs
<1>4. Gaining
  BY <1>1, <1>2 DEF Init, Gaining, InChip
<1> QED
  BY <1>3, <1>4 DEF Init, IInv, Writing, QuadEntryIsInTheChip, TableIsInTheChip

LEMMA GainTypes ==
  ASSUME NEW t \in Tables, NEW gain \in Int
  PROVE  FindTableIndex(t, gain) \in Nat /\ ClosestGain(t, gain) \in Int
  BY FindIsClosest, TableTypes

LEMMA TypeKept == IInv /\ Next => TypeOK'
<1> SUFFICES ASSUME IInv, Next PROVE TypeOK'
  OBVIOUS
<1>1. TypeOK /\ Target \in Tables
  BY TargetType DEF IInv
<1> USE <1>1 DEF TypeOK, Pcs, driver, history
<1>2. ASSUME NEW f \in Los, SetRxLo(f) PROVE TypeOK'
  BY <1>2 DEF SetRxLo
<1>3. CASE ReadGains
  <2>1. ASSUME NEW c \in Channels PROVE GainOf(index[c]) \in Int
    BY TableTypes DEF GainOf
  <2> QED
    BY <1>3, <2>1 DEF ReadGains
<1>4. CASE StartTable
  BY <1>4 DEF StartTable
<1>5. CASE WriteEntry
  <2>1. entry \in AllEntries
    BY <1>5, TableTypes DEF IInv, Writing, WriteEntry
  <2> QED
    BY <1>5, <2>1 DEF WriteEntry
<1>6. CASE Remember
  BY <1>6 DEF Remember
<1>7. CASE RestoreRx1
  <2>1. FindTableIndex(Target, saved[1]) \in Nat
    BY GainTypes DEF Channels
  <2> QED
    BY <1>7, <2>1 DEF RestoreRx1
<1>8. CASE RestoreRx2
  <2>1. FindTableIndex(Target, saved[2]) \in Nat
    BY GainTypes DEF Channels
  <2>2. \A c \in Channels : ClosestGain(Target, held[c]) \in Int
    BY GainTypes
  <2>3. index' \in [Channels -> Nat]
    BY <1>8, <2>1 DEF RestoreRx2
  <2>4. held' \in [Channels -> Int] /\ saved' \in [Channels -> Int]
    BY <1>8, <2>2 DEF RestoreRx2
  <2> QED
    BY <1>8, <2>3, <2>4 DEF RestoreRx2
<1>9. ASSUME NEW c \in Channels, NEW gain \in Gains, SetGain(c, gain) PROVE TypeOK'
  <2>1. FindTableIndex(current, gain) \in Nat /\ ClosestGain(current, gain) \in Int
    BY GainTypes, TableAssumption
  <2> QED
    BY <1>9, <2>1 DEF SetGain
<1>10. CASE Fail
  <2>1. chip' \in [AllEntries -> Tables \cup {NoTable}]
    BY <1>10 DEF Fail
  <2>2. faults' \in 0 .. MaxFaults
    BY <1>10, TableAssumption DEF Fail
  <2> QED
    BY <1>10, <2>1, <2>2 DEF Fail
<1>11. CASE InitAgain
  <2>1. TableFor[split][lo] \in Tables
    BY TableAssumption
  <2>2. AbsGain[TableFor[split][lo]][0] \in Int
    BY <2>1, TableTypes
  <2> QED
    BY <1>11, <2>1, <2>2 DEF InitAgain
<1> QED
  BY <1>2, <1>3, <1>4, <1>5, <1>6, <1>7, <1>8, <1>9, <1>10, <1>11 DEF Next

(* An entry that is written is above the match, so the match stays what it was. *)
LEMMA ChipKept == IInv /\ Next => (Writing /\ QuadEntryIsInTheChip /\ TableIsInTheChip)'
<1> SUFFICES ASSUME IInv, Next PROVE (Writing /\ QuadEntryIsInTheChip /\ TableIsInTheChip)'
  OBVIOUS
<1>1. TypeOK /\ Target \in Tables
  BY TargetType DEF IInv
<1> DEFINE Goal == (Writing /\ QuadEntryIsInTheChip /\ TableIsInTheChip)'
<1> USE DEF IInv, Writing, QuadEntryIsInTheChip, TableIsInTheChip, Target, driver, history
<1>2. ASSUME NEW f \in Los, SetRxLo(f) PROVE Goal
  BY <1>2 DEF SetRxLo
<1>3. CASE ReadGains
  BY <1>3 DEF ReadGains
<1>4. CASE StartTable
  BY <1>1, <1>4, TableTypes DEF StartTable, TypeOK
<1>5. CASE WriteEntry
  <2>1. /\ entry \in Entries(Target) /\ entry \in AllEntries /\ entry \in Nat
        /\ Entries(Target) = 0 .. LastEntry[Target] /\ LastEntry[Target] \in Nat
        /\ \A i \in Entries(Target) : i \in Nat /\ i \in AllEntries
    BY <1>1, <1>5, TableTypes DEF WriteEntry
  <2>2. Target' = Target /\ pc' \in {"write", "remember"}
    BY <1>5 DEF WriteEntry
  <2>3. chip'[entry] = Target /\ \A i \in AllEntries : i # entry => chip'[i] = chip[i]
    BY <1>1, <1>5, <2>1 DEF WriteEntry, TypeOK
  <2>4. quad = NoEntry \/ (quad \in AllEntries /\ quad < entry)
    BY <1>1, <1>5 DEF WriteEntry, TypeOK
  <2>5. QuadEntryIsInTheChip'
    <3>1. CASE entry \in QuadEntries[Target]
      BY <1>1, <1>5, <2>3, <3>1 DEF WriteEntry
    <3>2. CASE entry \notin QuadEntries[Target]
      <4>1. quad' = quad /\ (quad = NoEntry \/ chip'[quad] = chip[quad])
        BY <1>5, <2>1, <2>3, <2>4, <3>2 DEF WriteEntry
      <4> QED
        BY <4>1
    <3> QED
      BY <3>1, <3>2
  <2>6. Writing'
    <3>1. \A i \in Entries(Target) : i <= entry => chip'[i] = Target
      BY <1>5, <2>1, <2>3 DEF WriteEntry
    <3>2. CASE entry = LastEntry[Target]
      BY <1>5, <2>1, <2>2, <3>1, <3>2 DEF WriteEntry
    <3>3. CASE entry # LastEntry[Target]
      <4>1. pc' = "write" /\ entry' = entry + 1 /\ entry' \in Entries(Target)
        BY <1>5, <2>1, <3>3 DEF WriteEntry
      <4>2. quad' = NoEntry \/ quad' < entry'
        <5>1. \A i \in AllEntries : i \in Nat
          BY TableTypes DEF AllEntries
        <5>2. entry < entry'
          BY <2>1, <4>1
        <5>3. quad' = entry \/ quad' = quad
          BY <1>5 DEF WriteEntry
        <5>4. quad = NoEntry \/ (quad \in Nat /\ quad < entry)
          BY <2>4, <5>1
        <5>5. entry \in Nat /\ entry' \in Nat
          BY <2>1, <4>1
        <5> HIDE DEF Writing, IInv, QuadEntryIsInTheChip
        <5>6. CASE quad' = entry
          BY <5>2, <5>6
        <5>7. CASE quad' = quad
          BY <5>2, <5>4, <5>5, <5>7
        <5> QED
          BY <5>3, <5>6, <5>7
      <4>3. \A i \in Entries(Target) : i < entry' => chip'[i] = Target
        BY <2>1, <3>1, <4>1
      <4> QED
        BY <2>2, <4>1, <4>2, <4>3
    <3> QED
      BY <3>2, <3>3
  <2> QED
    BY <2>2, <2>5, <2>6
<1>6. CASE Remember
  BY <1>6 DEF Remember
<1>7. CASE RestoreRx1
  BY <1>7 DEF RestoreRx1
<1>8. CASE RestoreRx2
  BY <1>8 DEF RestoreRx2
<1>9. ASSUME NEW c \in Channels, NEW gain \in Gains, SetGain(c, gain) PROVE Goal
  BY <1>9 DEF SetGain
<1>10. CASE Fail
  <2>1. pc' \in {"idle", "off"} /\ failed' /\ quad' = quad
    BY <1>10 DEF Fail
  <2>2. QuadEntryIsInTheChip'
    <3>1. CASE UNCHANGED chip
      BY <2>1, <3>1
    <3>2. CASE pc = "write" /\ chip' = [chip EXCEPT ![entry] = Target]
      <4>1. quad = NoEntry \/ (quad < entry /\ quad \in AllEntries /\ entry \in Nat)
        BY <1>1, <3>2 DEF TypeOK
      <4>2. quad = NoEntry \/ chip'[quad] = chip[quad]
        <5>1. \A i \in AllEntries : i \in Nat
          BY TableTypes DEF AllEntries
        <5> QED
          BY <1>1, <3>2, <4>1, <5>1 DEF TypeOK
      <4> QED
        BY <2>1, <4>2
    <3> QED
      BY <1>10, <3>1, <3>2 DEF Fail
  <2> QED
    BY <2>1, <2>2
<1>11. CASE InitAgain
  BY <1>11 DEF InitAgain
<1> QED
  BY <1>2, <1>3, <1>4, <1>5, <1>6, <1>7, <1>8, <1>9, <1>10, <1>11 DEF Next

(* What is read from the chip is what the channels should have, and it goes *)
(* back as the closest gain of the new table.                               *)
LEMMA GainingKept == IInv /\ Next => Gaining'
<1> SUFFICES ASSUME IInv, Next, ~failed' PROVE Gaining'
  BY DEF Gaining
<1>1. TypeOK /\ Target \in Tables /\ Writing
  BY TargetType DEF IInv
<1> USE DEF IInv, Gaining, InChip, Target, driver, history
<1>2. ASSUME NEW f \in Los, SetRxLo(f) PROVE Gaining'
  BY <1>2 DEF SetRxLo
<1>3. CASE ReadGains
  <2>1. ASSUME NEW c \in Channels PROVE GainOf(index[c]) = held[c]
    <3>1. index[c] \in Entries(current) /\ AbsGain[current][index[c]] = held[c] /\ ~failed
      BY <1>3 DEF ReadGains
    <3>2. ~(index[c] > LastEntry[current])
      BY <1>1, <3>1, TableTypes DEF TypeOK
    <3> QED
      BY <3>1, <3>2 DEF GainOf
  <2> QED
    BY <1>3, <2>1 DEF ReadGains
<1>4. CASE StartTable
  BY <1>4 DEF StartTable
<1>5. CASE WriteEntry
  BY <1>5 DEF WriteEntry
<1>6. CASE Remember
  BY <1>6 DEF Remember
<1>7. CASE RestoreRx1
  BY <1>1, <1>7 DEF RestoreRx1, TypeOK, Channels
<1>8. CASE RestoreRx2
  <2>1. /\ ~failed /\ current = Target /\ UNCHANGED current
        /\ \A c \in Channels : saved[c] = held[c]
        /\ index[1] = FindTableIndex(Target, saved[1])
    BY <1>1, <1>8 DEF RestoreRx2, Writing
  <2>2. \A c \in Channels : index'[c] = FindTableIndex(Target, held[c])
    BY <1>1, <1>8, <2>1 DEF RestoreRx2, TypeOK, Channels
  <2>3. \A c \in Channels : held'[c] = ClosestGain(Target, held[c]) /\ held[c] \in Int
    BY <1>1, <1>8 DEF RestoreRx2, TypeOK
  <2>4. \A c \in Channels : InChip(c)'
    BY <1>1, <2>1, <2>2, <2>3, FindIsClosest
  <2> QED
    BY <1>8, <2>4 DEF RestoreRx2
<1>9. ASSUME NEW c \in Channels, NEW gain \in Gains, SetGain(c, gain) PROVE Gaining'
  <2>1. /\ FindTableIndex(current, gain) \in Entries(current)
        /\ AbsGain[current][FindTableIndex(current, gain)] = ClosestGain(current, gain)
    BY <1>1, FindIsClosest, TableAssumption DEF TypeOK
  <2>2. \A d \in Channels : InChip(d)'
    BY <1>1, <1>9, <2>1 DEF SetGain, TypeOK
  <2> QED
    BY <1>9, <2>2 DEF SetGain
<1>10. CASE Fail
  BY <1>10 DEF Fail
<1>11. CASE InitAgain
  <2>1. TableFor[split][lo] \in Tables
    BY <1>1, TableAssumption DEF TypeOK
  <2> QED
    BY <1>11, <2>1, TableTypes DEF InitAgain
<1> QED
  BY <1>2, <1>3, <1>4, <1>5, <1>6, <1>7, <1>8, <1>9, <1>10, <1>11 DEF Next

LEMMA Invariance == Spec => []IInv
<1>1. IInv /\ [Next]_vars => IInv'
  <2> SUFFICES ASSUME IInv, [Next]_vars PROVE IInv'
    OBVIOUS
  <2>1. CASE Next
    <3>1. (pc = "off" => failed)'
      BY <2>1 DEF IInv, Next, SetRxLo, ReadGains, StartTable, WriteEntry, Remember,
         RestoreRx1, RestoreRx2, SetGain, Fail, InitAgain, history
    <3> QED
      BY <2>1, <3>1, TypeKept, ChipKept, GainingKept DEF IInv
  <2>2. CASE UNCHANGED vars
    BY <2>2 DEF IInv, TypeOK, Writing, QuadEntryIsInTheChip, TableIsInTheChip, Gaining, InChip,
       Target, vars, driver, history
  <2> QED
    BY <2>1, <2>2
<1> QED
  BY <1>1, InitIInv, PTL DEF Spec

-----------------------------------------------------------------------------
(* write_gain_table: at every moment, whatever has failed, the entry that   *)
(* the TX quadrature calibration is to use has its word in the chip.        *)
THEOREM QuadEntryStays == Spec => []QuadEntryIsInTheChip
  BY Invariance, PTL DEF IInv

(* load_gain_table: as long as no call has failed, the table that the       *)
(* driver believes in is the one of its LO, and the whole of it is in.      *)
THEOREM TableStays == Spec => []TableIsInTheChip
  BY Invariance, PTL DEF IInv

(* As long as no call has failed, any sequence of set_gain calls and of     *)
(* changes of the band leaves each channel at the gain it should have:      *)
(* find_table_index always finds a closest one.                             *)
THEOREM GainStays == Spec => []GainIsKept
<1>1. IInv => GainIsKept
  BY DEF IInv, TableIsInTheChip, Gaining, InChip, GainIsKept
<1> QED
  BY <1>1, Invariance, PTL

-----------------------------------------------------------------------------
(***************************************************************************)
(* The synth tables, for every LO.                                         *)
(***************************************************************************)
(* Powers of two, one by one: the provers know no others. *)
LEMMA PowersOfTwo ==
  /\ 2^0 = 1 /\ 2^1 = 2 /\ 2^2 = 4 /\ 2^3 = 8 /\ 2^4 = 16 /\ 2^5 = 32
  /\ 2^6 = 64 /\ 2^7 = 2 * 64 /\ 2^8 = 4 * 64
  BY SMT

LEMMA PowerTable ==
  ASSUME NEW d
  PROVE  /\ d = 0 => 2^d = 1
         /\ d = 1 => 2^d = 2
         /\ d = 2 => 2^d = 4
         /\ d = 3 => 2^d = 8
         /\ d = 4 => 2^d = 16
         /\ d = 5 => 2^d = 32
         /\ d = 6 => 2^d = 64
         /\ d = 7 => 2^d = 2 * 64
         /\ d = 8 => 2^d = 4 * 64
<1>0. d = 0 => 2^d = 1
  BY ONLY PowersOfTwo, Zenon
<1>1. d = 1 => 2^d = 2
  BY ONLY PowersOfTwo, Zenon
<1>2. d = 2 => 2^d = 4
  BY ONLY PowersOfTwo, Zenon
<1>3. d = 3 => 2^d = 8
  BY ONLY PowersOfTwo, Zenon
<1>4. d = 4 => 2^d = 16
  BY ONLY PowersOfTwo, Zenon
<1>5. d = 5 => 2^d = 32
  BY ONLY PowersOfTwo, Zenon
<1>6. d = 6 => 2^d = 64
  BY ONLY PowersOfTwo, Zenon
<1>7. d = 7 => 2^d = 2 * 64
  BY ONLY PowersOfTwo, Zenon
<1>8. d = 8 => 2^d = 4 * 64
  BY ONLY PowersOfTwo, Zenon
<1> QED
  BY ONLY <1>0, <1>1, <1>2, <1>3, <1>4, <1>5, <1>6, <1>7, <1>8

(* Doubled until it is above the minimum, an LO is at most twice that. *)
LEMMA DoublingsAre ==
  ASSUME NEW f \in Nat, f >= 47, f <= 6000
  PROVE  /\ Doublings(f) \in 1 .. 7
         /\ VcoOf(f) \in Nat /\ VcoOf(f) > 6000 /\ VcoOf(f) <= 12000
<1> DEFINE D == Doublings(f)
<1>1. MinVco = 6000
  BY DEF MinVco
<1>2. \E d \in 1 .. 7 : f * 2^d > MinVco /\ f * 2^(d - 1) <= MinVco
  <2>1. f * 1 <= 6000 /\ f * 128 > 6000
    BY SMT
  <2>2. CASE f * 2 > 6000
    <3>1. f * 2^1 > MinVco /\ f * 2^(1 - 1) <= MinVco
      BY SMT, <1>1, <2>1, <2>2, PowersOfTwo
    <3> QED
      BY <3>1
  <2>3. CASE f * 2 <= 6000 /\ f * 4 > 6000
    <3>1. f * 2^2 > MinVco /\ f * 2^(2 - 1) <= MinVco
      BY SMT, <1>1, <2>3, PowersOfTwo
    <3> QED
      BY <3>1
  <2>4. CASE f * 4 <= 6000 /\ f * 8 > 6000
    <3>1. f * 2^3 > MinVco /\ f * 2^(3 - 1) <= MinVco
      BY SMT, <1>1, <2>4, PowersOfTwo
    <3> QED
      BY <3>1
  <2>5. CASE f * 8 <= 6000 /\ f * 16 > 6000
    <3>1. f * 2^4 > MinVco /\ f * 2^(4 - 1) <= MinVco
      BY SMT, <1>1, <2>5, PowersOfTwo
    <3> QED
      BY <3>1
  <2>6. CASE f * 16 <= 6000 /\ f * 32 > 6000
    <3>1. f * 2^5 > MinVco /\ f * 2^(5 - 1) <= MinVco
      BY SMT, <1>1, <2>6, PowersOfTwo
    <3> QED
      BY <3>1
  <2>7. CASE f * 32 <= 6000 /\ f * 64 > 6000
    <3>1. f * 2^6 > MinVco /\ f * 2^(6 - 1) <= MinVco
      BY SMT, <1>1, <2>7, PowersOfTwo
    <3> QED
      BY <3>1
  <2>8. CASE f * 64 <= 6000
    <3>1. f * 2^7 > MinVco /\ f * 2^(7 - 1) <= MinVco
      BY SMT, <1>1, <2>1, <2>8, PowersOfTwo
    <3> QED
      BY <3>1
  <2> QED
    BY SMT, <2>2, <2>3, <2>4, <2>5, <2>6, <2>7, <2>8
<1>3. D = CHOOSE d \in 0 .. 8 : f * 2^d > MinVco /\ (d = 0 \/ f * 2^(d - 1) <= MinVco)
  BY DEF Doublings
<1> HIDE DEF D
<1> DEFINE Ok(d) == f * 2^d > MinVco /\ (d = 0 \/ f * 2^(d - 1) <= MinVco)
<1>4. \E e \in 0 .. 8 : Ok(e)
  <2>1. \A d \in 1 .. 7 : d \in 0 .. 8
    BY SMT
  <2> QED
    BY ONLY <1>2, <2>1, Zenon
<1>5. D \in 0 .. 8 /\ Ok(D)
  BY ONLY <1>3, <1>4, Zenon
<1>6. VcoOf(f) = f * 2^D
  BY DEF VcoOf, D
<1> DEFINE p == 2^D
           h == 2^(D - 1)
<1>7. /\ D = 0 => p = 1
      /\ D = 1 => p = 2 /\ h = 1
      /\ D = 2 => p = 4 /\ h = 2
      /\ D = 3 => p = 8 /\ h = 4
      /\ D = 4 => p = 16 /\ h = 8
      /\ D = 5 => p = 32 /\ h = 16
      /\ D = 6 => p = 64 /\ h = 32
      /\ D = 7 => p = 128 /\ h = 64
      /\ D = 8 => p = 2 * 128 /\ h = 128
  <2>1. \A d : /\ (d = 0 => 2^d = 1) /\ (d = 1 => 2^d = 2) /\ (d = 2 => 2^d = 4)
               /\ (d = 3 => 2^d = 8) /\ (d = 4 => 2^d = 16) /\ (d = 5 => 2^d = 32)
               /\ (d = 6 => 2^d = 64) /\ (d = 7 => 2^d = 2 * 64) /\ (d = 8 => 2^d = 4 * 64)
    BY ONLY PowerTable
  <2>2. /\ (D = 0 => p = 1) /\ (D = 1 => p = 2) /\ (D = 2 => p = 4)
        /\ (D = 3 => p = 8) /\ (D = 4 => p = 16) /\ (D = 5 => p = 32)
        /\ (D = 6 => p = 64) /\ (D = 7 => p = 128) /\ (D = 8 => p = 2 * 128)
    BY ONLY <2>1
  <2>3. /\ (D - 1 = 0 => h = 1) /\ (D - 1 = 1 => h = 2) /\ (D - 1 = 2 => h = 4)
        /\ (D - 1 = 3 => h = 8) /\ (D - 1 = 4 => h = 16) /\ (D - 1 = 5 => h = 32)
        /\ (D - 1 = 6 => h = 64) /\ (D - 1 = 7 => h = 128)
    BY ONLY <2>1
  <2> HIDE DEF p, h
  <2> QED
    BY SMT, <2>2, <2>3
<1> HIDE DEF p, h
<1>8. D \in 0 .. 8 /\ f * p > 6000 /\ (D = 0 \/ f * h <= 6000) /\ VcoOf(f) = f * p
  BY <1>1, <1>5, <1>6 DEF p, h
<1>9. D \in 1 .. 7 /\ f * p \in Nat /\ f * p <= 12000
  BY SMT, <1>7, <1>8
<1> QED
  BY <1>8, <1>9 DEF D

LEMMA RowsAre ==
  /\ Size = 53 /\ VcoMhz[1] = 12605 /\ VcoMhz[53] = 5997
  /\ \A r \in 1 .. 53 : VcoMhz[r] \in Nat
<1>1. Size = 53
  BY DEF Size, VcoMhz
<1>2. VcoMhz[1] = 12605 /\ VcoMhz[53] = 5997
  BY DEF VcoMhz
<1>3. \A r \in 1 .. 53 : VcoMhz[r] \in Nat
  BY DEF VcoMhz
<1> QED
  BY <1>1, <1>2, <1>3

(* Such a VCO is below the first row and above the last one. *)
LEMMA RowIs ==
  ASSUME NEW vco \in Nat, vco > 6000, vco <= 12000
  PROVE  LET row == RowFor(vco)
         IN  /\ row \in 1 .. 53 /\ row > 1
             /\ VcoMhz[row] <= vco /\ vco < VcoMhz[row - 1]
<1> DEFINE below == {r \in 1 .. Size : VcoMhz[r] <= vco}
           row == RowFor(vco)
<1>1. row = IF below = {} THEN Size ELSE CHOOSE r \in below : \A s \in below : r <= s
  BY DEF RowFor
<1>2. \A r : r \in below <=> r \in 1 .. 53 /\ VcoMhz[r] <= vco
  BY RowsAre
<1> HIDE DEF below, row
<1>3. 53 \in below /\ 1 \notin below
  BY SMT, <1>2, RowsAre
<1>4. below \in SUBSET Nat
  BY <1>2
<1>5. \E r \in below : \A s \in below : r <= s
  <2>1. PICK r \in below : \A j \in Nat : j < r => j \notin below
    BY <1>3, <1>4, LeastNatural
  <2>2. \A s \in below : r <= s
    BY <1>4, <2>1
  <2> QED
    BY <2>2
<1>6. row \in below /\ \A s \in below : row <= s
  BY <1>1, <1>3, <1>5
<1>7. row \in 1 .. 53 /\ VcoMhz[row] <= vco /\ row # 1
  BY <1>2, <1>3, <1>6
<1>8. row - 1 \in 1 .. 53 /\ row - 1 \notin below
  BY SMT, <1>6, <1>7
<1>9. vco < VcoMhz[row - 1]
  <2>1. ~(VcoMhz[row - 1] <= vco) /\ VcoMhz[row - 1] \in Nat
    BY <1>2, <1>8, RowsAre
  <2> QED
    BY SMT, <2>1
<1> QED
  BY SMT, <1>7, <1>9 DEF row

(* The currents of each range, row by row. *)
LEMMA FddIsSlower ==
  ASSUME NEW range \in 1 .. 3, NEW row \in 1 .. 53
  PROVE  /\ ChargePump(TRUE, range)[row] < ChargePump(FALSE, range)[row]
         /\ ChargePump(FALSE, range)[row] < 64
<1>1. FddCurrents1[row] < TddCurrents1[row] /\ TddCurrents1[row] < 64
  BY SMT DEF FddCurrents1, TddCurrents1
<1>2. FddCurrents2[row] < TddCurrents2[row] /\ TddCurrents2[row] < 64
  BY SMT DEF FddCurrents2, TddCurrents2
<1>3. FddCurrents3[row] < TddCurrents3[row] /\ TddCurrents3[row] < 64
  BY SMT DEF FddCurrents3, TddCurrents3
<1>4. CASE range = 1
  BY <1>1, <1>4 DEF ChargePump
<1>5. CASE range = 2
  BY <1>2, <1>5 DEF ChargePump
<1>6. CASE range = 3
  BY <1>3, <1>6 DEF ChargePump
<1>7. range = 1 \/ range = 2 \/ range = 3
  BY SMT
<1> QED
  BY ONLY <1>4, <1>5, <1>6, <1>7, Zenon

LEMMA EveryRowFits ==
  ASSUME lo \in Nat, lo >= 47, lo <= 6000
  PROVE  RowFitsTheVco
<1> DEFINE vco == VcoOf(lo)
           row == RowFor(vco)
<1>1. /\ Doublings(lo) \in 1 .. 7
      /\ vco \in Nat /\ vco > 6000 /\ vco <= 12000
  BY DoublingsAre
<1>2. DividerOf(lo) \in 0 .. 15
  BY SMT, <1>1 DEF DividerOf
<1> HIDE DEF vco
<1>3. row \in 1 .. 53 /\ row > 1 /\ VcoMhz[row] <= vco /\ vco < VcoMhz[row - 1]
  BY <1>1, RowIs
<1> HIDE DEF row
<1>4. \A ref \in RefClocks : vco \div ref < 2048
  <2> SUFFICES ASSUME NEW ref \in RefClocks PROVE vco \div ref < 2048
    OBVIOUS
  <2>1. ref \in Nat /\ ref >= 10
    BY SMT DEF RefClocks
  <2> DEFINE q == vco \div ref
  <2>2. q \in Nat /\ ref * q <= vco
    BY SMT, <1>1, <2>1
  <2> HIDE DEF q
  <2>3. 10 * q <= ref * q
    BY SMT, <2>1, <2>2
  <2>4. ref * q \in Nat
    BY SMT, <2>1, <2>2
  <2>5. q < 2048
    BY SMT, <1>1, <2>2, <2>3, <2>4
  <2> QED
    BY <2>5 DEF q
<1>5. \A range \in 1 .. 3 : /\ ChargePump(TRUE, range)[row] < ChargePump(FALSE, range)[row]
                            /\ ChargePump(FALSE, range)[row] < 64
  BY ONLY <1>3, FddIsSlower
<1>6. \A ref : RangeOf(ref) \in 1 .. 3
  BY SMT DEF RangeOf
<1>7. \A ref \in RefClocks :
        /\ ChargePump(TRUE, RangeOf(ref))[row] < ChargePump(FALSE, RangeOf(ref))[row]
        /\ ChargePump(FALSE, RangeOf(ref))[row] < 64
  BY ONLY <1>5, <1>6, Zenon
<1> DEFINE Small(ref) == vco \div ref < 2048
<1>8. \A ref \in RefClocks : Small(ref)
  BY ONLY <1>4
<1> HIDE DEF Small
<1>9. ASSUME NEW ref \in RefClocks
      PROVE  /\ Small(ref)
             /\ ChargePump(TRUE, RangeOf(ref))[row] < ChargePump(FALSE, RangeOf(ref))[row]
             /\ ChargePump(FALSE, RangeOf(ref))[row] < 64
  BY ONLY <1>7, <1>8, Zenon
<1> QED
  BY ONLY <1>2, <1>3, <1>9 DEF RowFitsTheVco, vco, row, Small

(***************************************************************************)
(* Whatever LOs are asked for, their VCO lies between two rows of the      *)
(* table and gets the lower one, with words that fit their fields.         *)
(***************************************************************************)
THEOREM RowAlwaysFits == Spec => []RowFitsTheVco
<1>2. IInv => TypeOK
  BY DEF IInv
<1>1. TypeOK => RowFitsTheVco
  <2>0. TypeOK => lo \in Los
    BY ONLY DEF TypeOK
  <2>1. TypeOK => lo \in Nat /\ lo >= 47 /\ lo <= 6000
    BY ONLY <2>0, LosAssumption, SMT
  <2> QED
    BY <2>1, EveryRowFits
<1> QED
  BY <1>1, <1>2, Invariance, PTL
=============================================================================
