------------------------------- MODULE RxGain -------------------------------
(***************************************************************************)
(* The RX gain table in the chip and the manual gains: init loads the      *)
(* table of the first RX LO, an LO of another band loads another one entry *)
(* by entry and moves both channels to the entry of the new table that is  *)
(* closest to their old gain. Every write can fail and ends the call there *)
(* (load_gain_table, write_gain_table, set_manual_rx_gain).                *)
(***************************************************************************)
EXTENDS Integers, FiniteSets

CONSTANTS
  Los,            \* RX LOs a call may ask for
  Gains,          \* gains set_gain may be asked for, dB
  Tables,         \* gain tables
  NoTable,        \* what an entry is from after a reset
  LastEntry,      \* [Tables -> Nat]: the last entry of each
  AbsGain,        \* [Tables -> [Nat -> Int]]: gain of each entry
  QuadEntries,    \* [Tables -> SUBSET Nat]: entries fit for the TX quad cal
  TableFor,       \* [BOOLEAN -> [Los -> Tables]]: by split_gt
  FailAt,         \* bound: entries whose write may fail
  MaxFaults       \* bound: SPI errors

Channels == {1, 2}

NoEntry == -1

Entries(t)  == 0..LastEntry[t]
AllEntries  == UNION {Entries(t) : t \in Tables}

ASSUME TableAssumption ==
  /\ Tables # {} /\ NoTable \notin Tables
  /\ LastEntry \in [Tables -> Nat]
  /\ \A t \in Tables : DOMAIN AbsGain[t] = Entries(t)
  /\ \A t \in Tables : \A i \in Entries(t) : AbsGain[t][i] \in Int
  /\ \A t \in Tables : QuadEntries[t] \subseteq Entries(t)
  /\ Gains \subseteq Int
  /\ TableFor \in [BOOLEAN -> [Los -> Tables]]
  /\ \A t \in Tables : \A i, j \in Entries(t) : i <= j => AbsGain[t][i] <= AbsGain[t][j]
  /\ MaxFaults \in Nat

VARIABLES
  split,     \* split_gt, from the settings
  lo,        \* the RX LO the driver believes in
  asked,     \* the LO of the running call
  chip,      \* the table each entry in the chip is from
  current,   \* current_table
  quad,      \* tx_quad_lpf_tia_match
  index,     \* chip: the gain index of each channel
  saved,     \* the gains to go back to
  entry,     \* next entry to write
  pc,
  up,        \* whether init has returned the driver
  faults,
  failed,    \* history: whether a call failed since the reset
  held       \* history: the gain each channel should have

driver  == <<split, lo, asked, current, quad, saved>>
history == <<faults, failed, held>>
vars    == <<driver, chip, index, entry, pc, up, history>>

Pcs == {"off", "read", "start", "write", "remember", "rx1", "rx2", "idle"}

(***************************************************************************)
(* find_table_index: the first entry that reaches the gain, or the one     *)
(* before it if that is closer.                                            *)
(***************************************************************************)
AbsDiff(a, b) == IF a > b THEN a - b ELSE b - a

FirstReaching(t, gain) ==
  CHOOSE i \in Entries(t) : /\ AbsGain[t][i] >= gain
                            /\ \A j \in 0..(i - 1) : AbsGain[t][j] < gain

FindTableIndexAbove(t, gain) ==   \* mutant: always the entry that reaches it
  IF \A i \in Entries(t) : AbsGain[t][i] < gain THEN LastEntry[t] ELSE FirstReaching(t, gain)

FindTableIndex(t, gain) ==
  IF \A i \in Entries(t) : AbsGain[t][i] < gain
  THEN LastEntry[t]
  ELSE LET i        == FirstReaching(t, gain)
           previous == IF i = 0 THEN 0 ELSE i - 1
       IN  IF AbsDiff(AbsGain[t][previous], gain) < AbsDiff(AbsGain[t][i], gain)
           THEN previous ELSE i

\* The gain of an index in the table the driver believes in.
GainOf(i) == AbsGain[current][IF i > LastEntry[current] THEN LastEntry[current] ELSE i]

\* What "closest entry" means: no gain of the table is closer.
ClosestGain(t, gain) ==
  LET all == {AbsGain[t][i] : i \in Entries(t)}
  IN  CHOOSE g \in all : \A h \in all : \/ AbsDiff(g, gain) < AbsDiff(h, gain)
                                        \/ AbsDiff(g, gain) = AbsDiff(h, gain) /\ g >= h

-----------------------------------------------------------------------------
Init == /\ split \in BOOLEAN
        /\ lo \in Los /\ asked = lo
        /\ chip = [i \in AllEntries |-> NoTable]
        /\ current = TableFor[split][lo]
        /\ quad = NoEntry
        /\ index = [c \in Channels |-> 0]
        /\ saved = [c \in Channels |-> 0]
        /\ entry = 0
        /\ pc = "read" /\ up = FALSE
        /\ faults = 0 /\ failed = FALSE
        /\ held = [c \in Channels |-> AbsGain[current][0]]

(* The table of the LO the running call is about. *)
Target == TableFor[split][asked]

(* set_rfpll_rate for RX, from where the synth has locked. *)
SetRxLo(f) ==
  /\ pc = "idle" /\ f # lo
  /\ asked' = f
  /\ IF TableFor[split][f] = current
     THEN lo' = f /\ UNCHANGED pc
     ELSE pc' = "read" /\ UNCHANGED lo
  /\ UNCHANGED <<split, current, quad, saved, chip, index, entry, up, history>>

(* The gains of both channels, from their indices. *)
ReadGains ==
  /\ pc = "read"
  /\ saved' = [c \in Channels |-> GainOf(index[c])]
  /\ pc' = "start"
  /\ UNCHANGED <<split, lo, asked, current, quad, chip, index, entry, up, history>>

StartKeepingMatch ==   \* mutant: the match of the old table stays until a new one
  /\ pc = "start"
  /\ entry' = 0 /\ pc' = "write"
  /\ UNCHANGED <<driver, chip, index, up, history>>

(* The table clock is started, and the match forgotten. *)
StartTable ==
  /\ pc = "start"
  /\ quad' = NoEntry /\ entry' = 0 /\ pc' = "write"
  /\ UNCHANGED <<split, lo, asked, current, saved, chip, index, up, history>>

WriteEntryButLast ==   \* mutant: stops one entry early
  /\ pc = "write"
  /\ chip' = [chip EXCEPT ![entry] = Target]
  /\ quad' = IF entry \in QuadEntries[Target] THEN entry ELSE quad
  /\ IF entry + 1 = LastEntry[Target]
     THEN pc' = "remember" /\ UNCHANGED entry
     ELSE entry' = entry + 1 /\ UNCHANGED pc
  /\ UNCHANGED <<split, lo, asked, current, saved, index, up, history>>

WriteEntry ==
  /\ pc = "write"
  /\ chip' = [chip EXCEPT ![entry] = Target]
  /\ quad' = IF entry \in QuadEntries[Target] THEN entry ELSE quad
  /\ IF entry = LastEntry[Target]
     THEN pc' = "remember" /\ UNCHANGED entry
     ELSE entry' = entry + 1 /\ UNCHANGED pc
  /\ UNCHANGED <<split, lo, asked, current, saved, index, up, history>>

(* The table clock is stopped: the table is in. *)
Remember ==
  /\ pc = "remember"
  /\ current' = Target /\ pc' = "rx1"
  /\ UNCHANGED <<split, lo, asked, quad, saved, chip, index, entry, up, history>>

RestoreRx1 ==
  /\ pc = "rx1"
  /\ index' = [index EXCEPT ![1] = FindTableIndex(Target, saved[1])]
  /\ pc' = "rx2"
  /\ UNCHANGED <<driver, chip, entry, up, history>>

(* The last write of the call, which then remembers its LO. *)
RestoreRx2 ==
  /\ pc = "rx2"
  /\ index' = [index EXCEPT ![2] = FindTableIndex(Target, saved[2])]
  /\ lo' = asked /\ up' = TRUE /\ pc' = "idle"
  /\ held' = [c \in Channels |-> ClosestGain(Target, held[c])]
  /\ saved' = [c \in Channels |-> 0] /\ entry' = 0
  /\ UNCHANGED <<split, asked, current, quad, chip, faults, failed>>

(* ManualRxGain, which there is only with full tables. *)
SetGain(c, gain) ==
  /\ pc = "idle" /\ ~split
  /\ index' = [index EXCEPT ![c] = FindTableIndex(current, gain)]
  /\ held' = [held EXCEPT ![c] = ClosestGain(current, gain)]
  /\ UNCHANGED <<driver, chip, entry, pc, up, faults, failed>>

(***************************************************************************)
(* An SPI error ends the call. An entry may be written by then. A failed   *)
(* init hands everything back, and the next one resets the chip.           *)
(***************************************************************************)
Fail ==
  /\ pc \notin {"idle", "off"} /\ faults < MaxFaults
  /\ \/ pc # "write" /\ UNCHANGED chip
     \/ /\ pc = "write" /\ entry \in FailAt
        /\ \/ UNCHANGED chip
           \/ chip' = [chip EXCEPT ![entry] = Target]
  /\ faults' = faults + 1 /\ failed' = TRUE
  /\ pc' = IF up THEN "idle" ELSE "off"
  /\ asked' = lo /\ saved' = [c \in Channels |-> 0] /\ entry' = 0
  /\ UNCHANGED <<split, lo, current, quad, index, up, held>>

InitAgain ==
  /\ pc = "off"
  /\ chip' = [i \in AllEntries |-> NoTable]
  /\ current' = TableFor[split][lo]
  /\ quad' = NoEntry
  /\ index' = [c \in Channels |-> 0]
  /\ pc' = "read" /\ failed' = FALSE
  /\ held' = [c \in Channels |-> AbsGain[TableFor[split][lo]][0]]
  /\ UNCHANGED <<split, lo, asked, saved, entry, up, faults>>

Next == \/ \E f \in Los : SetRxLo(f)
        \/ ReadGains
        \/ StartTable
        \/ WriteEntry
        \/ Remember
        \/ RestoreRx1
        \/ RestoreRx2
        \/ \E c \in Channels, gain \in Gains : SetGain(c, gain)
        \/ Fail
        \/ InitAgain

Spec == Init /\ [][Next]_vars

-----------------------------------------------------------------------------
TypeOK ==
  /\ split \in BOOLEAN
  /\ lo \in Los /\ asked \in Los
  /\ chip \in [AllEntries -> Tables \cup {NoTable}]
  /\ current \in Tables
  /\ quad \in AllEntries \cup {NoEntry}
  /\ index \in [Channels -> Nat]
  /\ saved \in [Channels -> Int]
  /\ entry \in Nat
  /\ pc \in Pcs /\ up \in BOOLEAN
  /\ faults \in 0..MaxFaults /\ failed \in BOOLEAN
  /\ held \in [Channels -> Int]

(***************************************************************************)
(* The TX quadrature calibration writes the remembered entry into          *)
(* TxQuadFullLmtGain and relies on its LPF/TIA word. At any moment, also   *)
(* after a load that failed half way, that entry of the chip's table has   *)
(* such a word: write_gain_table forgets the match before the first entry  *)
(* and finds it again entry by entry.                                      *)
(***************************************************************************)
QuadEntryIsInTheChip ==
  quad # NoEntry => /\ chip[quad] \in Tables
                    /\ quad \in QuadEntries[chip[quad]]

(***************************************************************************)
(* load_gain_table: "No-op if that table is already in". As long as no     *)
(* call failed, the table that the driver believes in is the one of its    *)
(* LO, and all of it is in the chip.                                       *)
(***************************************************************************)
TableIsInTheChip ==
  pc = "idle" /\ ~failed => /\ current = TableFor[split][lo]
                            /\ \A i \in Entries(current) : chip[i] = current

(***************************************************************************)
(* load_gain_table keeps "the current gains", and set_gain uses "the       *)
(* closest entry": through any sequence of both, the gain of each channel  *)
(* in the chip's table is the closest one to what it was before, however   *)
(* often the band changes. Only as long as no call failed.                 *)
(***************************************************************************)
GainIsKept ==
  pc = "idle" /\ ~failed =>
    \A c \in Channels :
      /\ index[c] \in Entries(current)
      /\ AbsGain[chip[index[c]]][index[c]] = held[c]
=============================================================================
