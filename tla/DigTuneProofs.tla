---------------------------- MODULE DigTuneProofs ----------------------------
(***************************************************************************)
(* What digital interface tuning owes the rest of the driver, for all      *)
(* settings, attenuations and any number of SPI errors and lost sweeps:    *)
(* the PRBS stays off the antenna, the attenuation comes back, and half    *)
(* swept delays are never the ones a running driver works with.            *)
(***************************************************************************)
EXTENDS DigTune, SequenceTheorems, TLAPS

Phases == Tunings \cup {"clocks", "update", "alert"}

Sweeping == {"rx", "rx sweep", "tx", "tx sweep"}    \* muted
Tuning   == Sweeping \cup {"mute", "stop"}          \* on the way through a sweep
Leaving  == {"delays", "leave", "unmute"}
Ended    == {"idle", "init failed"}

Clean(d) == \A s \in Sides : d[s] # "swept"

Runs == [saved : States \cup {"none"}, kind : Tunings \cup {"none"}, restore : BOOLEAN,
         loop : BOOLEAN, prbs : BOOLEAN, muted : BOOLEAN, atten : [Channels -> Int],
         result : {"ok", "Spi", "TuningFailed"}]

(***************************************************************************)
(* The inductive invariant. A call is where its list of phases says, and   *)
(* a tuning that stores its delays is only ever the first phase of init.   *)
(***************************************************************************)
Shape ==
  /\ todo \in Seq(Phases)
  /\ \A i \in 2..Len(todo) : todo[i] # "full tune"
  /\ pc \in Phases \cup Tuning \cup Leaving \cup Ended \cup {"work"}
  /\ pc \notin Ended => todo # << >>
  /\ pc \in Phases => todo[1] = pc
  /\ pc \in Tuning \cup Leaving => todo[1] = run.kind
  /\ pc \in Tuning => run.kind \in {"full tune", "fir tune"}
  /\ pc = "delays" /\ ~run.restore => run.kind \in {"full tune", "fir tune"}
  /\ todo # << >> /\ todo[1] = "full tune" => call = "init"
  /\ call = "init" \/ pc = "init failed" => ~up
  /\ pc \notin Ended /\ ~up => call = "init"

Types ==
  /\ {loop, prbs, loopMode, bistConfig, pinCtrl, savedPin, pn} \subseteq BOOLEAN
  /\ {atten, attenCached} \subseteq [Channels -> Int]
  /\ {delays, stored} \subseteq [Sides -> Origins]
  /\ ensm \in States /\ run \in Runs /\ faults \in Nat

Silent ==
  /\ pn => pc = "tx sweep"
  /\ pc \in Sweeping => atten = Muted

(***************************************************************************)
(* What the mute remembers is what the tuning found; and once a sweep has  *)
(* taken the pin control away, the slot for it is empty until the end.     *)
(***************************************************************************)
Remembered ==
  /\ pc = "mute" => run.atten = atten
  /\ pc \in Tuning \cup Leaving /\ pc # "mute" /\ run.muted => run.atten = attenCached
  /\ faults = 0 /\ run.muted /\ pc \in {"tx", "tx sweep", "stop"} \cup Leaving =>
       ensm # "flush" /\ pinCtrl = FALSE /\ savedPin = FALSE

(***************************************************************************)
(* Delays a sweep left half way can only be stored by an init that is      *)
(* about to fail, and without faults they are put back at once.            *)
(***************************************************************************)
Swept ==
  /\ \/ Clean(stored)
     \/ pc = "init failed"
     \/ pc \in {"leave", "unmute"} /\ run.kind = "full tune" /\ run.result # "ok"
  /\ pc = "full tune" \/ (pc = "idle" /\ ~up) => Clean(delays)
  /\ pc \in Tuning \cup {"delays"} /\ run.kind = "full tune" /\ run.result = "ok"
       => Clean(delays)
  /\ faults = 0 => \/ Clean(delays)
                   \/ pc = "stop" /\ run.result = "TuningFailed"
                   \/ pc = "delays" /\ run.restore

IInv == Shape /\ Types /\ Silent /\ Remembered /\ Swept

(***************************************************************************)
(* Lists of phases. Only PostSetup's begins with the tuning that stores.   *)
(***************************************************************************)
Plain == Phases \ {"full tune"}

LEMMA OnePhase ==
  ASSUME NEW S, NEW x \in S
  PROVE  << x >> \in Seq(S) /\ << x >> # << >>
OBVIOUS

LEMMA HasHead ==
  ASSUME NEW S, NEW s \in Seq(S)
  PROVE  /\ s # << >> => Len(s) \in Nat /\ Len(s) > 0
         /\ Len(s) > 0 => s # << >>
         /\ Head(s) = s[1]
<1>1. s # << >> => Len(s) \in Nat /\ Len(s) > 0
  <2>1. s # << >> => Len(s) \in Nat \ {0}
    BY EmptySeq
  <2>. QED  BY <2>1
<1>2. Len(s) > 0 => s # << >>
  <2>1. Len(<< >>) = 0
    BY EmptySeq
  <2>. QED  BY <2>1
<1>3. Head(s) = s[1]
  OBVIOUS
<1>. QED  BY <1>1, <1>2, <1>3

LEMMA PlainConcat ==
  ASSUME NEW s \in Seq(Plain), NEW t \in Seq(Plain)
  PROVE  s \o t \in Seq(Plain) /\ (s # << >> => s \o t # << >>)
<1>1. s \o t \in Seq(Plain) /\ Len(s \o t) = Len(s) + Len(t)
  BY ConcatProperties
<1>2. Len(s) \in Nat /\ Len(t) \in Nat /\ (s # << >> => Len(s) # 0)
  BY EmptySeq, LenProperties
<1>. QED  BY <1>1, <1>2, EmptySeq

LEMMA ClockPhasesPlain ==
  ASSUME NEW on
  PROVE  ClockPhases(on) \in Seq(Plain) /\ ClockPhases(on) # << >>
<1>. DEFINE a == << "clocks" >>
            b == IF config.firTune /\ on # {} THEN << "fir tune" >> ELSE << >>
            c == << "update" >>
            d == IF config.clockTune THEN << "clock tune" >> ELSE << >>
<1>1. a \in Seq(Plain) /\ b \in Seq(Plain) /\ c \in Seq(Plain) /\ d \in Seq(Plain)
  <2>1. {"clocks", "update", "fir tune", "clock tune"} \subseteq Plain
    BY DEF Plain, Phases, Tunings
  <2>2. << >> \in Seq(Plain)
    BY EmptySeq
  <2>. QED  BY <2>1, <2>2, OnePhase
<1>2. a # << >>
  BY OnePhase
<1>3. ClockPhases(on) = ((a \o b) \o c) \o d
  BY DEF ClockPhases
<1>. HIDE DEF a, b, c, d
<1>4. a \o b \in Seq(Plain) /\ a \o b # << >>
  BY <1>1, <1>2, PlainConcat
<1>5. (a \o b) \o c \in Seq(Plain) /\ (a \o b) \o c # << >>
  BY <1>1, <1>4, PlainConcat
<1>. QED  BY <1>1, <1>3, <1>5, PlainConcat

(***************************************************************************)
(* Begin and Finish as the invariant sees them: a call starts with a phase *)
(* of its list, a phase that is over leads to the next one or to the end   *)
(* of the call, and the tuning that stores takes init down with it.        *)
(***************************************************************************)
Landed(res) ==
  /\ Shape'
  /\ pc' \in Plain \cup Ended
  /\ pc' = "idle" => up'
  /\ todo[1] = "full tune" /\ res # "ok" => pc' = "init failed"

LEMMA FinishLands ==
  ASSUME Shape, pc \notin Ended
  PROVE  \A res : Finish(res) => Landed(res)
<1>. SUFFICES ASSUME NEW res, Finish(res) PROVE Landed(res)
  OBVIOUS
<1>1. /\ todo \in Seq(Phases) /\ todo # << >>
      /\ \A i \in 2..Len(todo) : todo[i] # "full tune"
      /\ todo[1] = "full tune" => call = "init"
      /\ call = "init" => ~up
      /\ ~up => call = "init"
  BY DEF Shape
<1>2. Len(todo) \in Nat /\ Len(todo) > 0 /\ Head(todo) = todo[1]
  BY <1>1, HasHead
<1>. DEFINE counts == IF Head(todo) \in Ignored THEN "ok" ELSE res
<1>3. todo[1] = "full tune" => counts = res
  BY <1>2 DEF Ignored
<1>4. CASE counts = "ok" /\ Len(todo) > 1
  <2>1. todo' = Tail(todo) /\ pc' = todo[2] /\ UNCHANGED <<call, up>>
    BY <1>4 DEF Finish
  <2>2. /\ Tail(todo) \in Seq(Phases) /\ Len(Tail(todo)) = Len(todo) - 1
        /\ \A i \in 1..Len(Tail(todo)) : Tail(todo)[i] = todo[i + 1]
    BY <1>1, HeadTailProperties
  <2>3. /\ todo' \in Seq(Phases) /\ todo' # << >> /\ todo'[1] = todo[2]
        /\ \A i \in 2..Len(todo') : todo'[i] # "full tune"
    <3>1. todo' \in Seq(Phases) /\ Len(todo') = Len(todo) - 1 /\ Len(todo') > 0
      BY <1>2, <1>4, <2>1, <2>2
    <3>2. \A i \in 1..Len(todo') : todo'[i] = todo[i + 1] /\ i + 1 \in 2..Len(todo)
      BY <1>2, <2>1, <2>2
    <3>3. todo' # << >>
      BY <3>1, HasHead
    <3>4. todo'[1] = todo[2]
      BY <1>2, <1>4, <3>1, <3>2
    <3>5. \A i \in 2..Len(todo') : todo'[i] # "full tune"
      <4>. SUFFICES ASSUME NEW i \in 2..Len(todo') PROVE todo'[i] # "full tune"
        OBVIOUS
      <4>1. i \in 1..Len(todo') /\ i + 1 \in 2..Len(todo) /\ todo'[i] = todo[i + 1]
        BY <1>2, <3>1, <3>2
      <4>. QED  BY <1>1, <4>1
    <3>. QED  BY <3>1, <3>3, <3>4, <3>5
  <2>4. pc' \in Plain /\ todo'[1] = pc'
    <3>1. todo[2] \in Phases /\ todo[2] # "full tune"
      <4>1. 2 \in 1..Len(todo) /\ 2 \in 2..Len(todo)
        BY <1>2, <1>4
      <4>. QED  BY <1>1, <4>1, ElementOfSeq
    <3>. QED  BY <2>1, <2>3, <3>1 DEF Plain
  <2>5. pc' \notin Tuning \cup Leaving \cup Ended \cup {"work", "idle", "init failed"}
    BY <2>4 DEF Plain, Phases, Tunings, Tuning, Sweeping, Leaving, Ended
  <2>6. todo'[1] # "full tune" /\ pc' # "delays" /\ pc' \in Phases
    BY <2>4, <2>5 DEF Plain, Leaving
  <2>7. todo[1] = "full tune" => res = "ok"
    BY <1>3, <1>4
  <2>8. Shape'
    <3>. HIDE DEF counts
    <3>. QED  BY <1>1, <2>1, <2>3, <2>4, <2>5, <2>6 DEF Shape
  <2>. QED  BY <2>4, <2>5, <2>7, <2>8 DEF Landed
<1>5. CASE ~(counts = "ok" /\ Len(todo) > 1)
  <2>1. EndCall(counts)
    BY <1>5 DEF Finish
  <2>2. todo' = << >> /\ todo' \in Seq(Phases) /\ Len(todo') = 0
    BY <2>1, EmptySeq DEF EndCall
  <2>3. /\ call' = "none"
        /\ pc' = IF call = "init" /\ counts # "ok" THEN "init failed" ELSE "idle"
        /\ up' = (up \/ (call = "init" /\ counts = "ok"))
    BY <2>1 DEF EndCall
  <2>. HIDE DEF counts
  <2>4. /\ pc' = "idle" => up'
        /\ pc' = "init failed" => ~up'
        /\ todo[1] = "full tune" /\ res # "ok" => pc' = "init failed"
    BY <1>1, <1>3, <2>3
  <2>5. pc' \in Ended /\ pc' \notin Phases \cup Tuning \cup Leaving /\ pc' # "delays"
    BY <2>3 DEF Phases, Tunings, Tuning, Sweeping, Leaving, Ended
  <2>6. \A i \in 2..Len(todo') : todo'[i] # "full tune"
    <3>1. Len(todo') = 0
      BY <2>2
    <3>2. 2..Len(todo') = {}
      BY <3>1
    <3>. QED  BY <3>2
  <2>7. Shape'
    BY <2>2, <2>3, <2>4, <2>5, <2>6 DEF Shape
  <2>. QED  BY <2>4, <2>5, <2>7 DEF Landed
<1>. QED  BY <1>4, <1>5

(***************************************************************************)
(* The initial states.                                                     *)
(***************************************************************************)
LEMMA InitIInv == Init => IInv
<1>. SUFFICES ASSUME Init PROVE IInv
  OBVIOUS
<1>1. Shape
  <2>1. todo = << >> /\ pc = "idle" /\ up = FALSE /\ call = "none"
    BY DEF Init
  <2>2. todo \in Seq(Phases) /\ Len(todo) = 0
    BY <2>1, EmptySeq
  <2>3. 2..Len(todo) = {}
    <3>1. Len(todo) = 0
      BY <2>2
    <3>. QED  BY <3>1
  <2>4. pc \notin Phases \cup Tuning \cup Leaving /\ pc \in Ended /\ pc # "delays"
    BY <2>1 DEF Phases, Tunings, Tuning, Sweeping, Leaving, Ended
  <2>. QED  BY <2>1, <2>2, <2>3, <2>4 DEF Shape
<1>2. Types
  <2>1. /\ {loop, prbs, loopMode, bistConfig, pinCtrl, savedPin, pn} \subseteq BOOLEAN
        /\ ensm \in States /\ faults \in Nat
    <3>1. config \in [fdd : BOOLEAN, pins : BOOLEAN, tune : Modes,
                       firTune : BOOLEAN, clockTune : BOOLEAN]
      BY ConfigsAssumption DEF Init
    <3>2. pinCtrl \in BOOLEAN
      BY <3>1 DEF Init
    <3>3. ensm \in States
      BY <3>1 DEF Init, Home, States
    <3>. QED  BY <3>2, <3>3 DEF Init
  <2>2. {atten, attenCached} \subseteq [Channels -> Int]
    BY AttensAssumption DEF Init, Both, MinAtten, MaxAtten
  <2>3. {delays, stored} \subseteq [Sides -> Origins]
    BY DEF Init, Origins
  <2>4. run \in Runs
    <3>1. Both(MinAtten) \in [Channels -> Int]
      BY DEF Both, MinAtten
    <3>2. NoRun \in Runs
      BY <3>1 DEF NoRun, Runs
    <3>. QED  BY <3>2 DEF Init
  <2>. QED  BY <2>1, <2>2, <2>3, <2>4 DEF Types
<1>3. Silent
  BY DEF Init, Silent, Sweeping
<1>4. Remembered
  BY DEF Init, Remembered, Tuning, Sweeping, Leaving
<1>5. Swept
  <2>1. Clean(stored) /\ Clean(delays)
    BY DEF Init, Clean
  <2>. QED  BY <2>1 DEF Swept
<1>. QED  BY <1>1, <1>2, <1>3, <1>4, <1>5 DEF IInv

(***************************************************************************)
(* A call that begins. It is a phase like every other from then on.        *)
(***************************************************************************)
LEMMA PlainBegins ==
  ASSUME NEW name, NEW phases \in Seq(Plain), phases # << >>, Begin(name, phases),
         name # "init", up
  PROVE  Shape' /\ pc' \in Plain /\ up' = up
<1>1. todo' = phases /\ pc' = phases[1] /\ call' = name /\ up' = up
  BY DEF Begin
<1>2. Len(phases) \in Nat /\ Len(phases) > 0
  BY HasHead
<1>3. \A i \in 1..Len(phases) : phases[i] \in Plain
  BY ElementOfSeq
<1>4. phases \in Seq(Phases)
  <2>1. Plain \subseteq Phases
    BY DEF Plain
  <2>. QED  BY <2>1, SeqMonotonic
<1>5. phases[1] \in Plain
  BY <1>2, <1>3
<1>6. \A i \in 2..Len(phases) : phases[i] # "full tune"
  <2>. SUFFICES ASSUME NEW i \in 2..Len(phases) PROVE phases[i] # "full tune"
    OBVIOUS
  <2>1. i \in 1..Len(phases)
    BY <1>2
  <2>. QED  BY <1>3, <2>1 DEF Plain
<1>7. pc' \in Phases /\ pc' \notin Tuning \cup Leaving \cup Ended /\ pc' # "delays"
  BY <1>1, <1>5 DEF Plain, Phases, Tunings, Tuning, Sweeping, Leaving, Ended
<1>8. phases[1] # "full tune" /\ pc' # "init failed"
  BY <1>5, <1>7 DEF Plain, Ended
<1>. QED  BY <1>1, <1>4, <1>5, <1>6, <1>7, <1>8 DEF Shape

(* The lists of the calls. *)
LEMMA Lists ==
  ASSUME NEW on
  PROVE  /\ << "alert" >> \in Seq(Plain) /\ << "alert" >> # << >>
         /\ \A rest \in {<< >>, << "off tune" >>} :
              LET all == ClockPhases(on) \o rest \o << "alert" >>
              IN  all \in Seq(Plain) /\ all # << >>
<1>1. {"alert", "off tune"} \subseteq Plain
  BY DEF Plain, Phases, Tunings
<1>2. << "alert" >> \in Seq(Plain) /\ << "alert" >> # << >>
  BY <1>1, OnePhase
<1>3. << >> \in Seq(Plain) /\ << "off tune" >> \in Seq(Plain)
  BY <1>1, OnePhase, EmptySeq
<1>4. ASSUME NEW rest \in {<< >>, << "off tune" >>}
      PROVE  /\ ClockPhases(on) \o rest \o << "alert" >> \in Seq(Plain)
             /\ ClockPhases(on) \o rest \o << "alert" >> # << >>
  <2>1. rest \in Seq(Plain)
    BY <1>3
  <2>2. ClockPhases(on) \o rest \in Seq(Plain) /\ ClockPhases(on) \o rest # << >>
    BY <2>1, ClockPhasesPlain, PlainConcat
  <2>. QED  BY <1>2, <2>2, PlainConcat
<1>. QED  BY <1>2, <1>4

(* A list that begins with the tuning that stores, and never comes back to it. *)
StoresFirst(s) ==
  /\ s \in Seq(Phases) /\ s # << >> /\ s[1] = "full tune"
  /\ \A i \in 2..Len(s) : s[i] # "full tune"

LEMMA StoresFirstConcat ==
  ASSUME NEW s, StoresFirst(s), NEW t \in Seq(Plain)
  PROVE  StoresFirst(s \o t)
<1>1. s \in Seq(Phases) /\ t \in Seq(Phases)
  <2>1. Plain \subseteq Phases
    BY DEF Plain
  <2>. QED  BY <2>1, SeqMonotonic DEF StoresFirst
<1>2. PICK m \in Nat, n \in Nat : m = Len(s) /\ n = Len(t)
  BY <1>1, LenProperties
<1>3. m > 0
  BY <1>1, <1>2, HasHead DEF StoresFirst
<1>4. s \o t \in Seq(Phases) /\ Len(s \o t) = m + n
  BY <1>1, <1>2, ConcatProperties
<1>5. \A i \in 1..(m + n) : (s \o t)[i] = IF i <= m THEN s[i] ELSE t[i - m]
  BY <1>1, <1>2, ConcatProperties
<1>6. \A i \in 1..n : t[i] # "full tune"
  <2>1. \A i \in 1..n : t[i] \in Plain
    BY <1>2, ElementOfSeq
  <2>. QED  BY <2>1 DEF Plain
<1>7. s \o t # << >>
  <2>1. m + n > 0
    BY <1>3
  <2>. QED  BY <1>4, <2>1, HasHead
<1>8. (s \o t)[1] = "full tune"
  <2>1. 1 \in 1..(m + n) /\ 1 <= m
    BY <1>3
  <2>. QED  BY <1>5, <2>1 DEF StoresFirst
<1>9. ASSUME NEW i \in 2..(m + n) PROVE (s \o t)[i] # "full tune"
  <2>1. i \in 1..(m + n)
    OBVIOUS
  <2>2. CASE i <= m
    <3>1. i \in 2..m
      BY <2>2
    <3>. QED  BY <1>2, <1>5, <2>1, <2>2, <3>1 DEF StoresFirst
  <2>3. CASE ~(i <= m)
    <3>1. i - m \in 1..n
      BY <2>3
    <3>. QED  BY <1>5, <1>6, <2>1, <2>3, <3>1
  <2>. QED  BY <2>2, <2>3
<1>. QED  BY <1>4, <1>7, <1>8, <1>9 DEF StoresFirst

LEMMA InitList ==
  ASSUME NEW on
  PROVE  StoresFirst(<< "full tune" >> \o ClockPhases(on) \o << "alert", "alert", "alert" >>)
<1>1. StoresFirst(<< "full tune" >>)
  <2>1. "full tune" \in Phases
    BY DEF Phases, Tunings
  <2>2. Len(<< "full tune" >>) = 1
    OBVIOUS
  <2>3. 2..Len(<< "full tune" >>) = {}
    BY <2>2
  <2>. QED  BY <2>1, <2>3, OnePhase DEF StoresFirst
<1>2. << "alert", "alert", "alert" >> \in Seq(Plain)
  <2>1. "alert" \in Plain
    BY DEF Plain, Phases
  <2>. QED  BY <2>1
<1>3. StoresFirst(<< "full tune" >> \o ClockPhases(on))
  BY <1>1, ClockPhasesPlain, StoresFirstConcat
<1>. QED  BY <1>2, <1>3, StoresFirstConcat

(***************************************************************************)
(* The calls: what they begin with, and what they leave alone.             *)
(***************************************************************************)
LEMMA CallBegins ==
  ASSUME IInv, \/ SetSampleRate \/ LoadOrCalibrate
               \/ \E s \in Sides, e \in BOOLEAN : SetFirEnabled(s, e)
  PROVE  /\ Shape' /\ pc' \in Plain /\ up /\ up' = up /\ pc = "idle"
         /\ UNCHANGED <<run, faults>> /\ UnchangedChip
<1>1. CASE SetSampleRate
  <2>1. up /\ pc = "idle" /\ Begin("rate", ClockPhases(fir))
    BY <1>1 DEF SetSampleRate
  <2>2. Shape' /\ pc' \in Plain /\ up' = up
    BY <2>1, ClockPhasesPlain, PlainBegins
  <2>. QED  BY <1>1, <2>1, <2>2 DEF SetSampleRate
<1>2. CASE LoadOrCalibrate
  <2>1. up /\ pc = "idle" /\ Begin("load", << "alert" >>)
    BY <1>2 DEF LoadOrCalibrate
  <2>2. Shape' /\ pc' \in Plain /\ up' = up
    BY <2>1, Lists, PlainBegins
  <2>. QED  BY <1>2, <2>1, <2>2 DEF LoadOrCalibrate
<1>3. ASSUME NEW s \in Sides, NEW e \in BOOLEAN, SetFirEnabled(s, e)
      PROVE  /\ Shape' /\ pc' \in Plain /\ up /\ up' = up /\ pc = "idle"
             /\ UNCHANGED <<run, faults>> /\ UnchangedChip
  <2>. DEFINE on   == IF e THEN fir \cup {s} ELSE fir \ {s}
              rest == IF config.firTune /\ on = {} THEN << "off tune" >> ELSE << >>
              all  == ClockPhases(on) \o rest \o << "alert" >>
              name == IF s = "rx" THEN "rx fir" ELSE "tx fir"
  <2>1. up /\ pc = "idle" /\ Begin(name, all)
    BY <1>3 DEF SetFirEnabled
  <2>2. rest \in {<< >>, << "off tune" >>}
    OBVIOUS
  <2>3. all \in Seq(Plain) /\ all # << >>
    <3>. HIDE DEF rest, on
    <3>. QED  BY <2>2, Lists
  <2>4. name # "init"
    OBVIOUS
  <2>. HIDE DEF all, name
  <2>5. Shape' /\ pc' \in Plain /\ up' = up
    BY <2>1, <2>3, <2>4, PlainBegins
  <2>. QED  BY <1>3, <2>1, <2>5 DEF SetFirEnabled
<1>. QED  BY <1>1, <1>2, <1>3

(***************************************************************************)
(* Outside of a tuning there is little to keep; within one, a step that    *)
(* goes on keeps the list.                                                 *)
(***************************************************************************)
LEMMA Outside ==
  ASSUME Shape', Types', pc' \in Plain \cup Ended \cup {"work"}, pc' = "idle" => up',
         ~pn', Clean(stored)' \/ pc' = "init failed", faults' = 0 => Clean(delays)'
  PROVE  IInv'
<1>1. /\ pc' \notin Sweeping \cup Tuning \cup Leaving /\ pc' # "full tune"
      /\ pc' \notin {"mute", "leave", "unmute", "delays", "tx", "tx sweep", "stop"}
  BY DEF Plain, Phases, Tunings, Ended, Sweeping, Tuning, Leaving
<1>2. Silent'
  BY <1>1 DEF Silent
<1>3. Remembered'
  BY <1>1 DEF Remembered, Tuning, Sweeping, Leaving
<1>4. Swept'
  BY <1>1 DEF Swept
<1>. QED  BY <1>2, <1>3, <1>4 DEF IInv

LEMMA GoesOn ==
  ASSUME Shape, pc \notin Ended, NEW step \in Tuning \cup Leaving \cup {"work"}, Goto(step),
         step \in Tuning \cup Leaving => todo[1] = run'.kind,
         step \in Tuning \/ (step = "delays" /\ ~run'.restore)
           => run'.kind \in {"full tune", "fir tune"}
  PROVE  Shape' /\ pc' = step
<1>1. pc' = step /\ UNCHANGED <<todo, call, up>>
  BY DEF Goto
<1>2. step \notin Phases \cup Ended
  BY DEF Phases, Tunings, Tuning, Sweeping, Leaving, Ended
<1>. QED  BY <1>1, <1>2 DEF Shape, Ended

LEMMA ChipKeepsTypes ==
  ASSUME Types, UnchangedChip, run' \in Runs, faults' \in Nat
  PROVE  /\ Types' /\ UNCHANGED <<stored, delays, pn, atten>>
         /\ Clean(stored)' = Clean(stored) /\ Clean(delays)' = Clean(delays)
<1>1. /\ UNCHANGED <<ensm, pinCtrl, savedPin, loop, prbs, loopMode, bistConfig>>
      /\ UNCHANGED <<atten, attenCached, delays, stored, pn>>
  BY DEF UnchangedChip, ensmVars, testVars, attenVars
<1>. QED  BY <1>1 DEF Types, Clean

LEMMA PostSetupKeeps ==
  ASSUME IInv, PostSetup
  PROVE  IInv'
<1>. DEFINE all == << "full tune" >> \o ClockPhases(fir) \o << "alert", "alert", "alert" >>
<1>0. Shape /\ Types /\ Silent /\ Swept
  BY DEF IInv
<1>1. /\ pc = "idle" /\ ~up /\ Begin("init", all)
      /\ UNCHANGED <<run, faults>> /\ UnchangedChip
  BY DEF PostSetup
<1>2. StoresFirst(all)
  BY InitList
<1>. HIDE DEF all
<1>3. todo' = all /\ pc' = "full tune" /\ call' = "init" /\ ~up'
  BY <1>1, <1>2 DEF Begin, StoresFirst
<1>4. /\ Types' /\ Clean(stored)' = Clean(stored) /\ Clean(delays)' = Clean(delays)
      /\ UNCHANGED <<pn, run, faults>>
  <2>1. run' \in Runs /\ faults' \in Nat
    BY <1>0, <1>1 DEF Types
  <2>. QED  BY <1>0, <1>1, <2>1, ChipKeepsTypes
<1>5. /\ pc' \in Phases /\ pc' # "init failed" /\ pc' # "delays"
      /\ pc' \notin Sweeping \cup Tuning \cup Leaving \cup Ended
  BY <1>3 DEF Phases, Tunings, Tuning, Sweeping, Leaving, Ended
<1>6. Shape'
  BY <1>2, <1>3, <1>5 DEF Shape, StoresFirst
<1>7. Silent'
  BY <1>0, <1>1, <1>4, <1>5 DEF Silent
<1>8. Remembered'
  BY <1>3 DEF Remembered, Tuning, Sweeping, Leaving
<1>9. Swept'
  <2>1. Clean(stored) /\ Clean(delays)
    BY <1>0, <1>1 DEF Swept
  <2>. QED  BY <1>4, <2>1 DEF Swept
<1>. QED  BY <1>4, <1>6, <1>7, <1>8, <1>9 DEF IInv

LEMMA CallsKeep ==
  ASSUME IInv, \/ SetSampleRate \/ LoadOrCalibrate
               \/ \E s \in Sides, e \in BOOLEAN : SetFirEnabled(s, e)
  PROVE  IInv'
<1>0. Types /\ Silent /\ Swept
  BY DEF IInv
<1>1. /\ Shape' /\ pc' \in Plain /\ up /\ up' = up /\ pc = "idle"
      /\ UNCHANGED <<run, faults>> /\ UnchangedChip
  BY CallBegins
<1>2. /\ Types' /\ Clean(stored)' = Clean(stored) /\ Clean(delays)' = Clean(delays)
      /\ UNCHANGED <<pn, run, faults>>
  <2>1. run' \in Runs /\ faults' \in Nat
    BY <1>0, <1>1 DEF Types
  <2>. QED  BY <1>0, <1>1, <2>1, ChipKeepsTypes
<1>3. ~pn'
  BY <1>0, <1>1, <1>2 DEF Silent
<1>4. Clean(stored) /\ (faults = 0 => Clean(delays))
  BY <1>0, <1>1 DEF Swept
<1>. QED  BY <1>1, <1>2, <1>3, <1>4, Outside

LEMMA FaultsCount ==
  ASSUME Types, faults' \in {faults, faults + 1}
  PROVE  faults' \in Nat /\ (faults' = 0 => faults = 0)
BY DEF Types

LEMMA SetTxAttenuationKeeps ==
  ASSUME IInv, NEW channels \in SUBSET Channels, NEW a \in Attens,
         SetTxAttenuation(channels, a)
  PROVE  IInv'
<1>0. Shape /\ Types /\ Silent /\ Remembered /\ Swept
  BY DEF IInv
<1>1. /\ pc = "idle" /\ up
      /\ UNCHANGED <<ensm, pinCtrl, savedPin, loop, prbs, loopMode, bistConfig, pn>>
      /\ UNCHANGED <<attenCached, delays, stored, up, pc, todo, run, call>>
  BY DEF SetTxAttenuation, ensmVars, testVars
<1>2. /\ faults' \in {faults, faults + 1}
      /\ \E written \in SUBSET Channels :
           atten' = [c \in Channels |-> IF c \in written THEN a ELSE atten[c]]
  BY DEF SetTxAttenuation, Fine, Fault
<1>3. Shape'
  BY <1>0, <1>1 DEF Shape
<1>4. Types'
  <2>1. a \in Int
    BY AttensAssumption DEF MinAtten, MaxAtten
  <2>2. atten' \in [Channels -> Int]
    BY <1>0, <1>2, <2>1 DEF Types
  <2>3. faults' \in Nat
    BY <1>0, <1>2 DEF Types
  <2>. QED  BY <1>0, <1>1, <2>2, <2>3 DEF Types
<1>5. ~pn' /\ pc' \in Ended /\ up'
  BY <1>0, <1>1 DEF Silent, Ended
<1>6. Clean(stored)' /\ (faults' = 0 => Clean(delays)')
  <2>1. faults' = 0 => faults = 0
    BY <1>0, <1>2 DEF Types
  <2>. QED  BY <1>0, <1>1, <2>1 DEF Swept, Clean
<1>. QED  BY <1>3, <1>4, <1>5, <1>6, Outside

(* Pins move nothing but the ENSM, and only where no sweep has been. *)
LEMMA PinsKeep ==
  ASSUME IInv, Pins
  PROVE  IInv'
<1>0. Shape /\ Types /\ Silent /\ Remembered /\ Swept
  BY DEF IInv
<1>1. /\ UNCHANGED <<pinCtrl, savedPin, loop, prbs, loopMode, bistConfig, pn, atten>>
      /\ UNCHANGED <<attenCached, delays, stored, up, pc, todo, run, call, faults>>
  BY DEF Pins, testVars, attenVars, callVars
<1>2. ensm' \in States /\ (pinCtrl \/ ensm = "flush")
  BY DEF Pins, PinStates, States
<1>3. Shape'
  BY <1>0, <1>1 DEF Shape
<1>4. Types'
  BY <1>0, <1>1, <1>2 DEF Types
<1>5. Silent'
  BY <1>0, <1>1 DEF Silent
<1>6. Remembered'
  BY <1>0, <1>1, <1>2 DEF Remembered
<1>7. Swept'
  BY <1>0, <1>1 DEF Swept, Clean
<1>. QED  BY <1>3, <1>4, <1>5, <1>6, <1>7 DEF IInv

(***************************************************************************)
(* The phases outside of a tuning.                                         *)
(***************************************************************************)
LEMMA ChangeClocksKeeps ==
  ASSUME IInv, ChangeClocks
  PROVE  IInv'
<1>0. Shape /\ Types /\ Silent /\ Swept
  BY DEF IInv
<1>1. /\ pc \in {"clocks", "update"} /\ run' = NoRun /\ UnchangedChip
      /\ faults' \in {faults, faults + 1}
      /\ \E res : Finish(res)
  BY DEF ChangeClocks, Fine, Fault
<1>2. pc \notin Ended \cup Leaving /\ pc \notin {"tx sweep", "stop", "delays"}
  BY <1>1 DEF Ended, Leaving
<1>3. Shape' /\ pc' \in Plain \cup Ended /\ (pc' = "idle" => up')
  BY <1>0, <1>1, <1>2, FinishLands DEF Landed
<1>4. /\ Types' /\ UNCHANGED pn
      /\ Clean(stored)' = Clean(stored) /\ Clean(delays)' = Clean(delays)
  <2>1. run' \in Runs
    <3>1. Both(MinAtten) \in [Channels -> Int]
      BY DEF Both, MinAtten
    <3>. QED  BY <1>1, <3>1 DEF NoRun, Runs
  <2>2. faults' \in Nat
    BY <1>0, <1>1 DEF Types
  <2>. QED  BY <1>0, <1>1, <2>1, <2>2, ChipKeepsTypes
<1>5. Clean(stored) /\ (faults' = 0 => Clean(delays))
  <2>1. faults' = 0 => faults = 0
    BY <1>0, <1>1 DEF Types
  <2>. QED  BY <1>0, <1>1, <1>2, <2>1 DEF Swept, Leaving, Ended
<1>6. ~pn'
  BY <1>0, <1>2, <1>4 DEF Silent
<1>. QED  BY <1>3, <1>4, <1>5, <1>6, Outside

(* What forcing and restoring a state may make of the ENSM and its pin control. *)
LEMMA EnsmTypes ==
  ASSUME Types
  PROVE  /\ \A state \in States : ForceState(state) =>
              ensm' \in States /\ pinCtrl' \in BOOLEAN /\ savedPin' \in BOOLEAN
         /\ AlertFails => ensm' \in States /\ pinCtrl' \in BOOLEAN /\ savedPin' \in BOOLEAN
         /\ \A saved : RestoreState(saved) \/ RestoreFails(saved) =>
              ensm' \in States /\ pinCtrl' \in BOOLEAN /\ savedPin' \in BOOLEAN
<1>1. ASSUME NEW state \in States, ForceState(state)
      PROVE  ensm' \in States /\ pinCtrl' \in BOOLEAN /\ savedPin' \in BOOLEAN
  BY <1>1 DEF Types, ForceState, ensmVars
<1>2. AlertFails => ensm' \in States /\ pinCtrl' \in BOOLEAN /\ savedPin' \in BOOLEAN
  <2>1. "alert" \in States
    BY DEF States
  <2>. QED  BY <1>1, <2>1 DEF Types, AlertFails
<1>3. ASSUME NEW saved, RestoreState(saved)
      PROVE  ensm' \in States /\ pinCtrl' \in BOOLEAN /\ savedPin' \in BOOLEAN
  BY <1>3 DEF Types, RestoreState, Restorable, States
<1>4. ASSUME NEW saved, RestoreFails(saved)
      PROVE  ensm' \in States /\ pinCtrl' \in BOOLEAN /\ savedPin' \in BOOLEAN
  <2>1. saved \in Restorable => {"alert", saved} \subseteq States
    BY DEF Restorable, States
  <2>. QED  BY <1>3, <1>4, <2>1 DEF Types, RestoreFails, ensmVars
<1>. QED  BY <1>1, <1>2, <1>3, <1>4

LEMMA ForceAlertKeeps ==
  ASSUME IInv, ForceAlert
  PROVE  IInv'
<1>0. Shape /\ Types /\ Silent /\ Swept
  BY DEF IInv
<1>1. /\ pc = "alert" /\ run' = [NoRun EXCEPT !.saved = ensm]
      /\ UNCHANGED <<loop, prbs, loopMode, bistConfig, atten, attenCached, delays, pn, stored>>
      /\ faults' \in {faults, faults + 1}
      /\ ForceState("alert") \/ AlertFails
      /\ Goto("work") \/ Finish("Spi")
  BY DEF ForceAlert, Fine, Fault, testVars, attenVars
<1>2. pc \notin Ended \cup Leaving /\ pc \notin {"tx sweep", "stop", "delays"}
  BY <1>1 DEF Ended, Leaving
<1>3. Shape' /\ pc' \in Plain \cup Ended \cup {"work"} /\ (pc' = "idle" => up')
  <2>1. CASE Goto("work")
    <3>1. Shape' /\ pc' = "work"
      <4>1. "work" \notin Tuning \cup Leaving /\ "work" # "delays"
        BY DEF Tuning, Sweeping, Leaving
      <4>. QED  BY <1>0, <1>2, <2>1, <4>1, GoesOn
    <3>. QED  BY <3>1
  <2>2. CASE Finish("Spi")
    BY <1>0, <1>2, <2>2, FinishLands DEF Landed
  <2>. QED  BY <1>1, <2>1, <2>2
<1>4. Types'
  <2>1. run' \in Runs
    <3>1. Both(MinAtten) \in [Channels -> Int] /\ ensm \in States
      BY <1>0 DEF Both, MinAtten, Types
    <3>2. NoRun \in Runs
      BY <3>1 DEF NoRun, Runs
    <3>. QED  BY <1>1, <3>1, <3>2 DEF Runs
  <2>2. ensm' \in States /\ pinCtrl' \in BOOLEAN /\ savedPin' \in BOOLEAN
    <3>1. "alert" \in States
      BY DEF States
    <3>. QED  BY <1>0, <1>1, <3>1, EnsmTypes
  <2>. QED  BY <1>0, <1>1, <2>1, <2>2 DEF Types
<1>5. Clean(stored)' /\ (faults' = 0 => Clean(delays)')
  <2>1. faults' = 0 => faults = 0
    BY <1>0, <1>1 DEF Types
  <2>2. Clean(stored) /\ (faults' = 0 => Clean(delays))
    BY <1>0, <1>2, <2>1 DEF Swept, Leaving, Ended
  <2>. QED  BY <1>1, <2>2 DEF Clean
<1>6. ~pn'
  BY <1>0, <1>1, <1>2 DEF Silent
<1>. QED  BY <1>3, <1>4, <1>5, <1>6, Outside

LEMMA RestoreAfterWorkKeeps ==
  ASSUME IInv, RestoreAfterWork
  PROVE  IInv'
<1>0. Shape /\ Types /\ Silent /\ Swept
  BY DEF IInv
<1>1. /\ pc = "work" /\ UNCHANGED run
      /\ UNCHANGED <<loop, prbs, loopMode, bistConfig, atten, attenCached, delays, pn, stored>>
      /\ faults' \in {faults, faults + 1}
      /\ RestoreState(run.saved) \/ RestoreFails(run.saved)
      /\ \E res : Finish(res)
  BY DEF RestoreAfterWork, Fine, Fault, testVars, attenVars
<1>2. pc \notin Ended \cup Leaving /\ pc \notin {"tx sweep", "stop", "delays"}
  BY <1>1 DEF Ended, Leaving
<1>3. Shape' /\ pc' \in Plain \cup Ended /\ (pc' = "idle" => up')
  BY <1>0, <1>1, <1>2, FinishLands DEF Landed
<1>4. Types'
  <2>1. ensm' \in States /\ pinCtrl' \in BOOLEAN /\ savedPin' \in BOOLEAN
    BY <1>0, <1>1, EnsmTypes
  <2>. QED  BY <1>0, <1>1, <2>1 DEF Types
<1>5. Clean(stored)' /\ (faults' = 0 => Clean(delays)')
  <2>1. faults' = 0 => faults = 0
    BY <1>0, <1>1 DEF Types
  <2>2. Clean(stored) /\ (faults' = 0 => Clean(delays))
    BY <1>0, <1>2, <2>1 DEF Swept, Leaving, Ended
  <2>. QED  BY <1>1, <2>2 DEF Clean
<1>6. ~pn'
  BY <1>0, <1>1, <1>2 DEF Silent
<1>. QED  BY <1>3, <1>4, <1>5, <1>6, Outside

(***************************************************************************)
(* The steps of a tuning. The first goes on to a sweep, or puts the stored *)
(* delays back without having muted.                                       *)
(***************************************************************************)
LEMMA SaveEnsmStateKeeps ==
  ASSUME IInv, SaveEnsmState
  PROVE  IInv'
<1>. DEFINE restore == mode = "UseConfigured" \/ pc \in {"clock tune", "off tune"}
            next    == IF restore THEN "delays" ELSE "mute"
<1>0. Shape /\ Types /\ Silent /\ Swept
  BY DEF IInv
<1>1. /\ pc \in Tunings /\ UnchangedChip
      /\ run' = [NoRun EXCEPT !.kind = pc, !.saved = ensm, !.restore = restore,
                              !.atten = atten]
      /\ faults' \in {faults, faults + 1}
      /\ (Goto(next) /\ faults' = faults) \/ Finish("Spi")
  BY DEF SaveEnsmState, Fine, Fault
<1>2. /\ run' \in Runs /\ run'.kind = pc /\ run'.restore = restore /\ run'.atten = atten
      /\ run'.muted = FALSE /\ run'.result = "ok"
  <2>1. Both(MinAtten) \in [Channels -> Int] /\ ensm \in States /\ atten \in [Channels -> Int]
    BY <1>0 DEF Both, MinAtten, Types
  <2>2. NoRun \in Runs
    BY <2>1 DEF NoRun, Runs
  <2>. HIDE DEF restore
  <2>3. restore \in BOOLEAN
    BY DEF restore
  <2>. QED  BY <1>1, <2>1, <2>2, <2>3 DEF Runs, NoRun
<1>f. faults' \in Nat /\ (faults' = 0 => faults = 0)
  BY <1>0, <1>1, FaultsCount
<1>3. pc \notin Ended \cup Leaving \cup Tuning /\ pc \in Phases
  BY <1>1 DEF Tunings, Phases, Ended, Leaving, Tuning, Sweeping
<1>4. /\ Types' /\ UNCHANGED <<pn, atten>>
      /\ Clean(stored)' = Clean(stored) /\ Clean(delays)' = Clean(delays)
  BY <1>0, <1>1, <1>2, <1>f, ChipKeepsTypes
<1>5. ~pn
  BY <1>0, <1>1 DEF Silent, Tunings
<1>6. /\ Clean(stored) /\ (faults = 0 => Clean(delays))
      /\ pc = "full tune" => Clean(delays)
  BY <1>0, <1>1 DEF Swept, Tunings
<1>7. CASE Goto(next) /\ faults' = faults
  <2>1. next \in {"delays", "mute"} /\ next \in Tuning \cup Leaving
    BY DEF Tuning, Leaving
  <2>2. todo[1] = run'.kind
    BY <1>0, <1>2, <1>3 DEF Shape
  <2>3. next \in Tuning \/ (next = "delays" /\ ~run'.restore)
          => run'.kind \in {"full tune", "fir tune"}
    BY <1>1, <1>2 DEF Tunings, Tuning, Sweeping
  <2>. HIDE DEF next
  <2>4. Shape' /\ pc' = next
    BY <1>0, <1>3, <1>7, <2>1, <2>2, <2>3, GoesOn
  <2>5. pc' \in {"delays", "mute"}
    BY <2>1, <2>4
  <2>6. Silent'
    BY <1>4, <1>5, <2>5 DEF Silent, Sweeping
  <2>7. Remembered'
    BY <1>2, <1>4, <2>5 DEF Remembered
  <2>8. Swept'
    BY <1>2, <1>4, <1>6, <1>7, <2>5 DEF Swept
  <2>. QED  BY <1>4, <2>4, <2>6, <2>7, <2>8 DEF IInv
<1>8. CASE Finish("Spi")
  <2>1. Shape' /\ pc' \in Plain \cup Ended /\ (pc' = "idle" => up')
    BY <1>0, <1>3, <1>8, FinishLands DEF Landed
  <2>2. ~pn' /\ Clean(stored)' /\ (faults' = 0 => Clean(delays)')
    BY <1>4, <1>5, <1>6, <1>f
  <2>. QED  BY <1>4, <2>1, <2>2, Outside
<1>. QED  BY <1>1, <1>7, <1>8

LEMMA MuteKeeps ==
  ASSUME IInv, Mute
  PROVE  IInv'
<1>0. Shape /\ Types /\ Silent /\ Remembered /\ Swept
  BY DEF IInv
<1>1. /\ pc = "mute" /\ faults' \in {faults, faults + 1}
      /\ run' = [run EXCEPT !.loop = loopMode, !.prbs = bistConfig, !.muted = TRUE]
      /\ UNCHANGED <<ensm, pinCtrl, savedPin, loop, prbs, loopMode, bistConfig>>
      /\ UNCHANGED <<delays, pn, stored>>
      /\ \/ attenCached' = atten /\ atten' = Muted /\ Goto("rx") /\ faults' = faults
         \/ Finish("Spi")
  BY DEF Mute, Fine, Fault, ensmVars, testVars
<1>2. faults' \in Nat /\ (faults' = 0 => faults = 0)
  BY <1>0, <1>1, FaultsCount
<1>3. /\ run' \in Runs /\ run'.kind = run.kind /\ run'.atten = run.atten
      /\ run'.result = run.result /\ run'.restore = run.restore
  <2>1. run \in Runs /\ loopMode \in BOOLEAN /\ bistConfig \in BOOLEAN
    BY <1>0 DEF Types
  <2>. QED  BY <1>1, <2>1 DEF Runs
<1>4. Types'
  <2>1. atten' \in [Channels -> Int] /\ attenCached' \in [Channels -> Int]
    <3>1. atten \in [Channels -> Int] /\ attenCached \in [Channels -> Int]
      BY <1>0 DEF Types
    <3>2. Muted \in [Channels -> Int]
      BY DEF Muted, Both, MaxAtten
    <3>3. attenCached' \in {attenCached, atten, [attenCached EXCEPT ![1] = atten[1]]}
      BY DEF Mute
    <3>4. [attenCached EXCEPT ![1] = atten[1]] \in [Channels -> Int]
      BY <3>1 DEF Channels
    <3>5. \/ atten' \in {atten, Muted}
          \/ \E muted \in SUBSET Channels :
               atten' = [c \in Channels |-> IF c \in muted THEN MaxAtten ELSE atten[c]]
      BY DEF Mute
    <3>. QED  BY <3>1, <3>2, <3>3, <3>4, <3>5 DEF MaxAtten
  <2>. QED  BY <1>0, <1>1, <1>2, <1>3, <2>1 DEF Types
<1>5. pc \in Tuning /\ pc \notin Ended /\ todo[1] = run.kind
      /\ run.kind \in {"full tune", "fir tune"}
  BY <1>0, <1>1 DEF Shape, Tuning, Ended
<1>6. /\ ~pn' /\ Clean(stored)' /\ (faults = 0 => Clean(delays)')
      /\ run.kind = "full tune" /\ run.result = "ok" => Clean(delays)'
  BY <1>0, <1>1, <1>5 DEF Silent, Swept, Clean
<1>7. CASE attenCached' = atten /\ atten' = Muted /\ Goto("rx") /\ faults' = faults
  <2>1. "rx" \in Tuning /\ "rx" # "delays"
    BY DEF Tuning, Sweeping
  <2>2. Shape' /\ pc' = "rx"
    BY <1>0, <1>3, <1>5, <1>7, <2>1, GoesOn
  <2>3. Silent'
    BY <1>6, <1>7, <2>2 DEF Silent
  <2>4. Remembered'
    <3>1. run'.atten = attenCached'
      BY <1>0, <1>1, <1>3, <1>7 DEF Remembered
    <3>. QED  BY <2>2, <3>1 DEF Remembered, Leaving
  <2>5. Swept'
    BY <1>3, <1>6, <1>7, <2>2 DEF Swept
  <2>. QED  BY <1>4, <2>2, <2>3, <2>4, <2>5 DEF IInv
<1>8. CASE Finish("Spi")
  <2>1. Shape' /\ pc' \in Plain \cup Ended /\ (pc' = "idle" => up')
    BY <1>0, <1>5, <1>8, FinishLands DEF Landed
  <2>. QED  BY <1>2, <1>4, <1>6, <2>1, Outside
<1>. QED  BY <1>1, <1>7, <1>8

(***************************************************************************)
(* Within a sweep: TX is muted, and whatever is wrong with the delays is   *)
(* in the result. Only SweepTx and StartTx touch the PN generator.         *)
(***************************************************************************)
LEMMA StartRxKeeps ==
  ASSUME IInv, StartRx
  PROVE  IInv'
<1>0. Shape /\ Types /\ Silent /\ Remembered /\ Swept
  BY DEF IInv
<1>1. /\ pc = "rx"
      /\ UNCHANGED <<ensm, pinCtrl, savedPin, atten, attenCached, delays, pn, stored>>
      /\ \/ Goto("rx sweep") /\ UNCHANGED run /\ faults' = faults
         \/ Goto("stop") /\ run' = [run EXCEPT !.result = "Spi"] /\ faults' = faults + 1
  BY DEF StartRx, Fine, Fault, Keep, attenVars
<1>2. faults' \in Nat /\ (faults' = 0 => faults = 0)
  BY <1>0, <1>1, FaultsCount
<1>3. /\ run' \in Runs /\ run'.kind = run.kind /\ run'.atten = run.atten
      /\ run'.muted = run.muted
  <2>1. run \in Runs
    BY <1>0 DEF Types
  <2>. QED  BY <1>1, <2>1 DEF Runs
<1>4. Types'
  <2>1. {loop', prbs', loopMode', bistConfig'} \subseteq BOOLEAN
    BY <1>0 DEF StartRx, Types, testVars
  <2>. QED  BY <1>0, <1>1, <1>2, <1>3, <2>1 DEF Types
<1>5. pc \in Tuning /\ pc \notin Ended /\ todo[1] = run.kind
      /\ run.kind \in {"full tune", "fir tune"} /\ pc \in Sweeping
  BY <1>0, <1>1 DEF Shape, Tuning, Sweeping, Ended
<1>6. ~pn' /\ atten' = Muted /\ (run'.muted => run'.atten = attenCached')
  BY <1>0, <1>1, <1>3, <1>5 DEF Silent, Remembered
<1>7. /\ Clean(stored)' /\ (faults = 0 => Clean(delays)')
      /\ run.kind = "full tune" /\ run.result = "ok" => Clean(delays)'
  BY <1>0, <1>1, <1>5 DEF Swept, Clean
<1>8. {"rx sweep", "stop"} \subseteq Tuning /\ "delays" \notin {"rx sweep", "stop"}
  BY DEF Tuning, Sweeping
<1>9. Shape' /\ pc' \in {"rx sweep", "stop"} /\ (pc' = "rx sweep" \/ faults' # 0)
  <2>1. faults + 1 # 0
    BY <1>0 DEF Types
  <2>. QED  BY <1>0, <1>1, <1>3, <1>5, <1>8, <2>1, GoesOn
<1>10. Silent'
  BY <1>6, <1>9 DEF Silent
<1>11. Remembered'
  BY <1>6, <1>9 DEF Remembered, Leaving
<1>12. Swept'
  <2>1. run'.kind = "full tune" /\ run'.result = "ok" => Clean(delays)'
    <3>1. run \in Runs
      BY <1>0 DEF Types
    <3>. QED  BY <1>1, <1>3, <1>7, <3>1 DEF Runs
  <2>. QED  BY <1>2, <1>7, <1>9, <2>1 DEF Swept
<1>. QED  BY <1>4, <1>9, <1>10, <1>11, <1>12 DEF IInv

LEMMA StartTxKeeps ==
  ASSUME IInv, StartTx
  PROVE  IInv'
<1>0. Shape /\ Types /\ Silent /\ Remembered /\ Swept
  BY DEF IInv
<1>1. /\ pc = "tx"
      /\ UNCHANGED <<ensm, pinCtrl, savedPin, atten, attenCached, delays, stored>>
      /\ \/ Goto("tx sweep") /\ UNCHANGED run /\ faults' = faults /\ pn' = TRUE
         \/ /\ Goto("stop") /\ run' = [run EXCEPT !.result = "Spi"]
            /\ faults' = faults + 1 /\ UNCHANGED pn
  BY DEF StartTx, Fine, Fault, Keep, attenVars
<1>2. faults' \in Nat /\ (faults' = 0 => faults = 0)
  BY <1>0, <1>1, FaultsCount
<1>3. /\ run' \in Runs /\ run'.kind = run.kind /\ run'.atten = run.atten
      /\ run'.muted = run.muted
  <2>1. run \in Runs
    BY <1>0 DEF Types
  <2>. QED  BY <1>1, <2>1 DEF Runs
<1>4. Types'
  <2>1. {loop', prbs', loopMode', bistConfig'} \subseteq BOOLEAN
    BY <1>0 DEF StartTx, Types
  <2>2. pn' \in BOOLEAN
    BY <1>0, <1>1 DEF Types
  <2>. QED  BY <1>0, <1>1, <1>2, <1>3, <2>1, <2>2 DEF Types
<1>5. pc \in Tuning /\ pc \notin Ended /\ todo[1] = run.kind
      /\ run.kind \in {"full tune", "fir tune"} /\ pc \in Sweeping
  BY <1>0, <1>1 DEF Shape, Tuning, Sweeping, Ended
<1>6. /\ atten' = Muted /\ (run'.muted => run'.atten = attenCached') /\ ~pn
      /\ faults = 0 /\ run'.muted => ensm' # "flush" /\ pinCtrl' = FALSE /\ savedPin' = FALSE
  BY <1>0, <1>1, <1>3, <1>5 DEF Silent, Remembered
<1>7. /\ Clean(stored)' /\ (faults = 0 => Clean(delays)')
      /\ run.kind = "full tune" /\ run.result = "ok" => Clean(delays)'
  BY <1>0, <1>1, <1>5 DEF Swept, Clean
<1>8. {"tx sweep", "stop"} \subseteq Tuning /\ "delays" \notin {"tx sweep", "stop"}
  BY DEF Tuning, Sweeping
<1>9. Shape' /\ (pc' = "tx sweep" \/ (pc' = "stop" /\ ~pn'))
  <2>1. CASE Goto("tx sweep")
    BY <1>0, <1>3, <1>5, <1>8, <2>1, GoesOn
  <2>2. CASE Goto("stop") /\ UNCHANGED pn
    BY <1>0, <1>3, <1>5, <1>6, <1>8, <2>2, GoesOn
  <2>. QED  BY <1>1, <2>1, <2>2
<1>10. Silent'
  BY <1>6, <1>9 DEF Silent
<1>11. Remembered'
  BY <1>2, <1>6, <1>9 DEF Remembered, Leaving
<1>12. Swept'
  <2>1. run'.kind = "full tune" /\ run'.result = "ok" => Clean(delays)'
    <3>1. run \in Runs
      BY <1>0 DEF Types
    <3>. QED  BY <1>1, <1>3, <1>7, <3>1 DEF Runs
  <2>. QED  BY <1>2, <1>7, <1>9, <2>1 DEF Swept
<1>. QED  BY <1>4, <1>9, <1>10, <1>11, <1>12 DEF IInv

(***************************************************************************)
(* A sweep ends with a delay that works, with none (the result says so),   *)
(* or with an SPI error.                                                   *)
(***************************************************************************)
LEMMA SweepKeeps ==
  ASSUME IInv, SweepRx \/ SweepTx
  PROVE  IInv'
<1>0. Shape /\ Types /\ Silent /\ Remembered /\ Swept
  BY DEF IInv
<1>1. PICK side \in Sides : pc \in {"rx sweep", "tx sweep"} /\ Sweep(side) /\ ~pn'
  <2>1. CASE SweepRx
    <3>1. pc = "rx sweep" /\ Sweep("rx") /\ UNCHANGED pn
      BY <2>1 DEF SweepRx
    <3>2. ~pn
      BY <1>0, <3>1 DEF Silent
    <3>. QED  BY <3>1, <3>2 DEF Sides
  <2>2. CASE SweepTx
    <3>1. pc = "tx sweep" /\ Sweep("tx") /\ ~pn'
      BY <2>2 DEF SweepTx
    <3>. QED  BY <3>1 DEF Sides
  <2>. QED  BY <2>1, <2>2
<1>. DEFINE found == IF run.kind = "full tune" THEN "tuned" ELSE "tuned with FIR"
            Taken == ensm' = "fdd" /\ pinCtrl' = FALSE /\ savedPin' = FALSE /\ faults' = faults
            Finds == /\ Taken /\ delays' = [delays EXCEPT ![side] = found]
                     /\ UNCHANGED run /\ Goto(AfterSweep(side))
            Loses == /\ Taken /\ delays' = [delays EXCEPT ![side] = "swept"]
                     /\ run' = [run EXCEPT !.result = "TuningFailed"] /\ Goto("stop")
            Fails == /\ faults' = faults + 1 /\ run' = [run EXCEPT !.result = "Spi"]
                     /\ delays' \in {delays, [delays EXCEPT ![side] = "swept"]}
                     /\ Goto("stop")
<1>2. /\ UNCHANGED <<loop, prbs, loopMode, bistConfig, atten, attenCached, stored>>
      /\ Finds \/ Loses \/ Fails
  BY <1>1 DEF Sweep, Fine, Fault, Keep, testVars, attenVars
<1>3. /\ run' \in Runs /\ run'.kind = run.kind /\ run'.atten = run.atten
      /\ run'.muted = run.muted
      /\ Finds => run'.result = run.result
      /\ Loses => run'.result = "TuningFailed"
      /\ Fails => run'.result = "Spi"
  <2>1. run \in Runs
    BY <1>0 DEF Types
  <2>. QED  BY <1>2, <2>1 DEF Runs
<1>4. faults' \in Nat /\ (faults' = 0 => faults = 0) /\ (Fails => faults' # 0)
  <2>1. faults' \in {faults, faults + 1}
    BY <1>2
  <2>. QED  BY <1>0, <2>1, FaultsCount DEF Types
<1>5. Types'
  <2>1. ensm' \in States /\ pinCtrl' \in BOOLEAN /\ savedPin' \in BOOLEAN
    <3>1. \/ AlertFails
          \/ ensm' \in {"alert", "fdd"} /\ pinCtrl' = FALSE /\ savedPin' = FALSE
      BY <1>1 DEF Sweep
    <3>. QED  BY <1>0, <3>1, EnsmTypes DEF States
  <2>2. delays' \in [Sides -> Origins]
    <3>1. delays \in [Sides -> Origins] /\ found \in Origins /\ "swept" \in Origins
      BY <1>0 DEF Types, Origins
    <3>. HIDE DEF found
    <3>. QED  BY <1>2, <3>1
  <2>3. pn' \in BOOLEAN
    BY <1>0, <1>1 DEF SweepRx, SweepTx, Types
  <2>. QED  BY <1>0, <1>2, <1>3, <1>4, <2>1, <2>2, <2>3 DEF Types
<1>6. pc \in Tuning /\ pc \notin Ended /\ todo[1] = run.kind
      /\ run.kind \in {"full tune", "fir tune"} /\ pc \in Sweeping
  BY <1>0, <1>1 DEF Shape, Tuning, Sweeping, Ended
<1>7. atten' = Muted /\ (run'.muted => run'.atten = attenCached')
  BY <1>0, <1>1, <1>2, <1>3, <1>6 DEF Silent, Remembered
<1>8. Shape' /\ pc' \in {"tx", "stop"} /\ (Loses => pc' = "stop")
  <2>1. {"tx", "stop"} \subseteq Tuning /\ "delays" \notin {"tx", "stop"}
    BY DEF Tuning, Sweeping
  <2>2. AfterSweep(side) \in {"tx", "stop"}
    BY DEF AfterSweep
  <2>3. PICK step \in {"tx", "stop"} : Goto(step) /\ (Loses => step = "stop")
    BY <1>2, <2>2
  <2>4. Shape' /\ pc' = step
    BY <1>0, <1>3, <1>6, <2>1, <2>3, GoesOn
  <2>. QED  BY <2>3, <2>4
<1>9. Silent'
  BY <1>1, <1>7 DEF Silent
<1>10. Remembered'
  <2>1. faults' = 0 => ensm' = "fdd" /\ pinCtrl' = FALSE /\ savedPin' = FALSE
    BY <1>2, <1>4
  <2>. QED  BY <1>7, <1>8, <2>1 DEF Remembered
<1>11. Swept'
  <2>1. Clean(stored)'
    BY <1>0, <1>1, <1>2 DEF Swept, Clean
  <2>2. Finds /\ Clean(delays) => Clean(delays)'
    <3>1. delays \in [Sides -> Origins]
      BY <1>0 DEF Types
    <3>. QED  BY <3>1 DEF Clean
  <2>3. /\ faults = 0 => Clean(delays)
        /\ run.kind = "full tune" /\ run.result = "ok" => Clean(delays)
    BY <1>0, <1>1, <1>6 DEF Swept
  <2>. HIDE DEF Finds, Loses, Fails
  <2>4. run'.kind = "full tune" /\ run'.result = "ok" => Clean(delays)'
    BY <1>2, <1>3, <2>2, <2>3
  <2>5. faults' = 0 => Clean(delays)' \/ (pc' = "stop" /\ run'.result = "TuningFailed")
    BY <1>2, <1>3, <1>4, <1>8, <2>2, <2>3
  <2>6. pc' # "full tune" /\ pc' # "idle"
    BY <1>8
  <2>. QED  BY <2>1, <2>4, <2>5, <2>6 DEF Swept
<1>. QED  BY <1>5, <1>8, <1>9, <1>10, <1>11 DEF IInv

(* After a sweep that failed the stored delays have to come back.          *)
LEMMA StopTestSignalsKeeps ==
  ASSUME IInv, StopTestSignals
  PROVE  IInv'
<1>. DEFINE kept == IF run.kind = "full tune" THEN run.result ELSE "ok"
            Stops == /\ run' = [run EXCEPT !.restore = FallsBack, !.result = kept]
                     /\ Goto("delays") /\ faults' = faults
            Fails == Finish("Spi") /\ UNCHANGED run /\ faults' = faults + 1
<1>0. Shape /\ Types /\ Silent /\ Remembered /\ Swept
  BY DEF IInv
<1>1. /\ pc = "stop" /\ (Stops \/ Fails)
      /\ UNCHANGED <<ensm, pinCtrl, savedPin, atten, attenCached, delays, pn, stored>>
  BY DEF StopTestSignals, Fine, Fault, ensmVars, attenVars
<1>2. faults' \in Nat /\ (faults' = 0 => faults = 0)
  <2>1. faults' \in {faults, faults + 1}
    BY <1>1
  <2>. QED  BY <1>0, <2>1, FaultsCount
<1>3. /\ run' \in Runs /\ run'.kind = run.kind /\ run'.atten = run.atten
      /\ run'.muted = run.muted
      /\ Stops => run'.result = kept /\ (run'.restore <=> run.result = "TuningFailed")
  <2>1. run \in Runs
    BY <1>0 DEF Types
  <2>2. kept \in {"ok", "Spi", "TuningFailed"} /\ FallsBack \in BOOLEAN
    BY <2>1 DEF Runs, FallsBack
  <2>3. FallsBack <=> run.result = "TuningFailed"
    BY DEF FallsBack
  <2>. HIDE DEF kept
  <2>. QED  BY <1>1, <2>1, <2>2, <2>3 DEF Runs
<1>4. Types'
  <2>1. {loop', prbs', loopMode', bistConfig'} \subseteq BOOLEAN
    <3>1. run.loop \in BOOLEAN /\ run.prbs \in BOOLEAN
      BY <1>0 DEF Types, Runs
    <3>. QED  BY <1>0, <3>1 DEF StopTestSignals, Types
  <2>. QED  BY <1>0, <1>1, <1>2, <1>3, <2>1 DEF Types
<1>5. pc \in Tuning /\ pc \notin Ended /\ todo[1] = run.kind
      /\ run.kind \in {"full tune", "fir tune"}
  BY <1>0, <1>1 DEF Shape, Tuning, Sweeping, Ended
<1>6. ~pn'
  BY <1>0, <1>1 DEF Silent
<1>7. /\ Clean(stored)'
      /\ faults = 0 => Clean(delays)' \/ run.result = "TuningFailed"
      /\ run.kind = "full tune" /\ run.result = "ok" => Clean(delays)'
  BY <1>0, <1>1, <1>5 DEF Swept, Clean
<1>8. CASE Stops
  <2>1. "delays" \in Leaving /\ "delays" \notin Tuning
    BY DEF Leaving, Tuning, Sweeping
  <2>2. Shape' /\ pc' = "delays"
    BY <1>0, <1>3, <1>5, <1>8, <2>1, GoesOn
  <2>3. Silent'
    BY <1>6, <2>2 DEF Silent, Sweeping
  <2>4. Remembered'
    BY <1>0, <1>1, <1>2, <1>3, <1>5, <2>2 DEF Remembered
  <2>5. Swept'
    BY <1>2, <1>3, <1>7, <1>8, <2>2 DEF Swept
  <2>. QED  BY <1>4, <2>2, <2>3, <2>4, <2>5 DEF IInv
<1>9. CASE Fails
  <2>1. Shape' /\ pc' \in Plain \cup Ended /\ (pc' = "idle" => up')
    BY <1>0, <1>5, <1>9, FinishLands DEF Landed
  <2>2. faults' # 0
    BY <1>0, <1>9 DEF Types
  <2>. QED  BY <1>4, <1>6, <1>7, <2>1, <2>2, Outside
<1>. QED  BY <1>1, <1>8, <1>9

(***************************************************************************)
(* The delays are put back, or stored. Half swept ones get into the store  *)
(* only if the sweep ended with an SPI error in init, which fails with it. *)
(***************************************************************************)
LEMMA PutDelaysKeeps ==
  ASSUME IInv, PutDelays
  PROVE  IInv'
<1>. DEFINE Restores == /\ run.restore /\ ForceState("alert") /\ delays' = stored
                        /\ UNCHANGED stored /\ Goto("leave") /\ faults' = faults
            Stores == /\ ~run.restore /\ stored' = StoresNew /\ UNCHANGED delays
                      /\ UNCHANGED ensmVars /\ Goto("leave") /\ faults' = faults
            RestoreBreaks == /\ AlertFails /\ UNCHANGED stored
                             /\ \E written \in SUBSET Sides :
                                  delays' = [s \in Sides |-> IF s \in written THEN stored[s]
                                                             ELSE delays[s]]
            StoreBreaks == /\ ~run.restore /\ run.kind # "fir tune"
                           /\ stored' \in {stored, [stored EXCEPT !["rx"] = delays["rx"]]}
                           /\ UNCHANGED delays /\ UNCHANGED ensmVars
            Breaks == /\ RestoreBreaks \/ StoreBreaks
                      /\ Finish("Spi") /\ faults' = faults + 1
<1>0. Shape /\ Types /\ Silent /\ Remembered /\ Swept
  BY DEF IInv
<1>1. /\ pc = "delays" /\ (Restores \/ Stores \/ Breaks)
      /\ UNCHANGED <<loop, prbs, loopMode, bistConfig, atten, attenCached, pn, run>>
  BY DEF PutDelays, Fine, Fault, testVars, attenVars
<1>2. faults' \in Nat /\ (faults' = 0 => faults = 0) /\ (Breaks => faults' # 0)
  <2>1. faults' \in {faults, faults + 1}
    BY <1>1
  <2>2. faults + 1 # 0
    BY <1>0 DEF Types
  <2>3. Breaks => faults' = faults + 1
    OBVIOUS
  <2>. HIDE DEF Breaks
  <2>. QED  BY <1>0, <2>1, <2>2, <2>3, FaultsCount
<1>3. Types'
  <2>1. ensm' \in States /\ pinCtrl' \in BOOLEAN /\ savedPin' \in BOOLEAN
    <3>1. ForceState("alert") \/ AlertFails \/ UNCHANGED ensmVars
      BY <1>1
    <3>. QED  BY <1>0, <3>1, EnsmTypes DEF States, ensmVars, Types
  <2>2. delays' \in [Sides -> Origins] /\ stored' \in [Sides -> Origins]
    <3>1. delays \in [Sides -> Origins] /\ stored \in [Sides -> Origins]
      BY <1>0 DEF Types
    <3>2. StoresNew \in {stored, delays}
      BY DEF StoresNew
    <3>3. [stored EXCEPT !["rx"] = delays["rx"]] \in [Sides -> Origins]
      BY <3>1 DEF Sides
    <3>4. /\ stored' \in {stored, delays, [stored EXCEPT !["rx"] = delays["rx"]]}
          /\ \/ delays' \in {delays, stored}
             \/ \E written \in SUBSET Sides :
                  delays' = [s \in Sides |-> IF s \in written THEN stored[s] ELSE delays[s]]
      BY <1>1, <3>2
    <3>. HIDE DEF Restores, Stores, Breaks
    <3>. QED  BY <3>1, <3>3, <3>4
  <2>. QED  BY <1>0, <1>1, <1>2, <2>1, <2>2 DEF Types
<1>4. /\ pc \in Leaving /\ pc \notin Ended /\ todo[1] = run.kind /\ ~pn'
      /\ ~run.restore => run.kind \in {"full tune", "fir tune"}
  BY <1>0, <1>1 DEF Shape, Silent, Leaving, Ended
<1>5. /\ Clean(stored)
      /\ run.kind = "full tune" /\ run.result = "ok" => Clean(delays)
      /\ faults = 0 => Clean(delays) \/ run.restore
  BY <1>0, <1>1 DEF Swept
<1>6. CASE Restores \/ Stores
  <2>1. Goto("leave") /\ faults' = faults
    BY <1>6
  <2>2. "leave" \in Leaving /\ "leave" \notin Tuning
    BY DEF Leaving, Tuning, Sweeping
  <2>3. Shape' /\ pc' = "leave"
    BY <1>0, <1>1, <1>4, <2>1, <2>2, GoesOn
  <2>4. Silent'
    BY <1>4, <2>3 DEF Silent, Sweeping
  <2>5. Remembered'
    <3>1. run.muted => run.atten = attenCached
      BY <1>0, <1>1, <1>4 DEF Remembered
    <3>2. faults = 0 /\ run.muted => ensm # "flush" /\ pinCtrl = FALSE /\ savedPin = FALSE
      BY <1>0, <1>1, <1>4 DEF Remembered
    <3>3. ForceState("alert") \/ UNCHANGED ensmVars
      BY <1>6
    <3>4. faults' = 0 /\ run'.muted => ensm' # "flush" /\ pinCtrl' = FALSE /\ savedPin' = FALSE
      BY <1>1, <1>2, <3>2, <3>3 DEF ForceState, ensmVars
    <3>. QED  BY <1>1, <2>3, <3>1, <3>4 DEF Remembered
  <2>6. Swept'
    <3>1. CASE Restores
      <4>1. Clean(stored)' /\ Clean(delays)'
        BY <1>5, <3>1 DEF Clean
      <4>. QED  BY <2>3, <4>1 DEF Swept
    <3>2. CASE Stores
      <4>1. Clean(stored)' \/ (run'.kind = "full tune" /\ run'.result # "ok")
        BY <1>1, <1>4, <1>5, <3>2 DEF StoresNew, Clean
      <4>2. faults' = 0 => Clean(delays)'
        BY <1>2, <1>5, <3>2 DEF Clean
      <4>. QED  BY <2>3, <4>1, <4>2 DEF Swept, Tuning, Sweeping
    <3>. QED  BY <1>6, <3>1, <3>2
  <2>. QED  BY <1>3, <2>3, <2>4, <2>5, <2>6 DEF IInv
<1>7. CASE Breaks
  <2>1. Shape' /\ pc' \in Plain \cup Ended /\ (pc' = "idle" => up')
        /\ (todo[1] = "full tune" => pc' = "init failed")
    <3>1. Finish("Spi")
      BY <1>7
    <3>2. Landed("Spi")
      BY <1>0, <1>4, <3>1, FinishLands
    <3>. QED  BY <3>2 DEF Landed
  <2>2. Clean(stored)' \/ pc' = "init failed"
    <3>1. CASE RestoreBreaks
      BY <1>5, <3>1 DEF Clean
    <3>2. CASE StoreBreaks
      <4>1. run.kind = "full tune"
        BY <1>4, <3>2
      <4>. QED  BY <1>4, <2>1, <4>1
    <3>. QED  BY <1>7, <3>1, <3>2
  <2>. QED  BY <1>2, <1>3, <1>4, <1>7, <2>1, <2>2, Outside
<1>. QED  BY <1>1, <1>6, <1>7

LEMMA LeaveTuningKeeps ==
  ASSUME IInv, LeaveTuning
  PROVE  IInv'
<1>0. Shape /\ Types /\ Silent /\ Remembered /\ Swept
  BY DEF IInv
<1>1. /\ pc = "leave"
      /\ UNCHANGED <<loop, prbs, loopMode, bistConfig, atten, attenCached>>
      /\ UNCHANGED <<delays, pn, stored, run>>
      /\ \/ RestoreState(run.saved) /\ Goto("unmute") /\ faults' = faults
         \/ RestoreFails(run.saved) /\ Finish("Spi") /\ faults' = faults + 1
  BY DEF LeaveTuning, Fine, Fault, testVars, attenVars
<1>2. faults' \in Nat /\ (faults' = 0 => faults = 0)
  BY <1>0, <1>1, FaultsCount
<1>3. Types'
  <2>1. ensm' \in States /\ pinCtrl' \in BOOLEAN /\ savedPin' \in BOOLEAN
    BY <1>0, <1>1, EnsmTypes
  <2>. QED  BY <1>0, <1>1, <1>2, <2>1 DEF Types
<1>4. pc \in Leaving /\ pc \notin Ended /\ todo[1] = run.kind /\ ~pn'
  BY <1>0, <1>1 DEF Shape, Silent, Leaving, Ended
<1>5. /\ Clean(stored)' \/ (run.kind = "full tune" /\ run.result # "ok")
      /\ faults = 0 => Clean(delays)'
  BY <1>0, <1>1 DEF Swept, Clean
<1>6. CASE RestoreState(run.saved) /\ Goto("unmute") /\ faults' = faults
  <2>1. "unmute" \in Leaving /\ "unmute" \notin Tuning /\ "unmute" # "delays"
    BY DEF Leaving, Tuning, Sweeping
  <2>2. Shape' /\ pc' = "unmute"
    BY <1>0, <1>1, <1>4, <1>6, <2>1, GoesOn
  <2>3. Silent'
    BY <1>4, <2>2 DEF Silent, Sweeping
  <2>4. Remembered'
    <3>1. /\ run.muted => run.atten = attenCached
          /\ faults = 0 /\ run.muted => ensm # "flush" /\ pinCtrl = FALSE /\ savedPin = FALSE
      BY <1>0, <1>1, <1>4 DEF Remembered
    <3>2. faults' = 0 /\ run'.muted => ensm' # "flush" /\ pinCtrl' = FALSE /\ savedPin' = FALSE
      BY <1>1, <1>2, <1>6, <3>1 DEF RestoreState, Restorable
    <3>. QED  BY <1>1, <2>2, <3>1, <3>2 DEF Remembered
  <2>5. Swept'
    BY <1>1, <1>2, <1>5, <2>2 DEF Swept, Tuning, Sweeping
  <2>. QED  BY <1>3, <2>2, <2>3, <2>4, <2>5 DEF IInv
<1>7. CASE RestoreFails(run.saved) /\ Finish("Spi") /\ faults' = faults + 1
  <2>1. Landed("Spi")
    BY <1>0, <1>4, <1>7, FinishLands
  <2>2. Clean(stored)' \/ pc' = "init failed"
    BY <1>4, <1>5, <2>1 DEF Landed
  <2>3. Shape' /\ pc' \in Plain \cup Ended /\ (pc' = "idle" => up')
    BY <2>1 DEF Landed
  <2>. QED  BY <1>2, <1>3, <1>4, <1>5, <2>2, <2>3, Outside
<1>. QED  BY <1>1, <1>6, <1>7

LEMMA UnmuteKeeps ==
  ASSUME IInv, Unmute
  PROVE  IInv'
<1>0. Shape /\ Types /\ Silent /\ Swept
  BY DEF IInv
<1>1. /\ pc = "unmute" /\ faults' \in {faults, faults + 1}
      /\ UNCHANGED <<ensm, pinCtrl, savedPin, loop, prbs, loopMode, bistConfig>>
      /\ UNCHANGED <<attenCached, delays, pn, stored, run>>
      /\ Finish(run.result) \/ Finish("Spi")
      /\ \E written \in SUBSET Channels :
           atten' = [c \in Channels |-> IF c \in written THEN attenCached[c] ELSE atten[c]]
  BY DEF Unmute, Fine, Fault, Unmuted, ensmVars, testVars
<1>2. faults' \in Nat /\ (faults' = 0 => faults = 0)
  BY <1>0, <1>1, FaultsCount
<1>3. Types'
  <2>1. atten' \in [Channels -> Int]
    BY <1>0, <1>1 DEF Types
  <2>. QED  BY <1>0, <1>1, <1>2, <2>1 DEF Types
<1>4. pc \in Leaving /\ pc \notin Ended /\ todo[1] = run.kind /\ ~pn'
  BY <1>0, <1>1 DEF Shape, Silent, Leaving, Ended
<1>5. /\ Clean(stored)' \/ (run.kind = "full tune" /\ run.result # "ok")
      /\ faults = 0 => Clean(delays)'
  BY <1>0, <1>1 DEF Swept, Clean
<1>6. Landed(run.result) \/ Landed("Spi")
  BY <1>0, <1>1, <1>4, FinishLands
<1>7. Clean(stored)' \/ pc' = "init failed"
  BY <1>4, <1>5, <1>6 DEF Landed
<1>8. Shape' /\ pc' \in Plain \cup Ended /\ (pc' = "idle" => up')
  BY <1>6 DEF Landed
<1>. QED  BY <1>2, <1>3, <1>4, <1>5, <1>7, <1>8, Outside

(***************************************************************************)
(* The invariant is inductive: one step for each operation of the module.  *)
(***************************************************************************)
LEMMA NextKeeps == IInv /\ [Next]_vars => IInv'
<1>. SUFFICES ASSUME IInv, [Next]_vars PROVE IInv'
  OBVIOUS
<1>1. CASE PostSetup
  BY <1>1, PostSetupKeeps
<1>2. CASE SetSampleRate \/ LoadOrCalibrate
  BY <1>2, CallsKeep
<1>3. ASSUME NEW s \in Sides, NEW e \in BOOLEAN, SetFirEnabled(s, e) PROVE IInv'
  BY <1>3, CallsKeep
<1>4. ASSUME NEW channels \in SUBSET Channels \ {{}}, NEW a \in Attens,
             SetTxAttenuation(channels, a)
      PROVE  IInv'
  BY <1>4, SetTxAttenuationKeeps
<1>5. CASE Pins
  BY <1>5, PinsKeep
<1>6. CASE ChangeClocks
  BY <1>6, ChangeClocksKeeps
<1>7. CASE ForceAlert
  BY <1>7, ForceAlertKeeps
<1>8. CASE RestoreAfterWork
  BY <1>8, RestoreAfterWorkKeeps
<1>9. CASE SaveEnsmState
  BY <1>9, SaveEnsmStateKeeps
<1>10. CASE Mute
  BY <1>10, MuteKeeps
<1>11. CASE StartRx
  BY <1>11, StartRxKeeps
<1>12. CASE StartTx
  BY <1>12, StartTxKeeps
<1>13. CASE SweepRx \/ SweepTx
  BY <1>13, SweepKeeps
<1>14. CASE StopTestSignals
  BY <1>14, StopTestSignalsKeeps
<1>15. CASE PutDelays
  BY <1>15, PutDelaysKeeps
<1>16. CASE LeaveTuning
  BY <1>16, LeaveTuningKeeps
<1>17. CASE Unmute
  BY <1>17, UnmuteKeeps
<1>18. CASE UNCHANGED vars
  <2>1. /\ UNCHANGED <<ensm, pinCtrl, savedPin, loop, prbs, loopMode, bistConfig, pn, atten>>
        /\ UNCHANGED <<attenCached, delays, stored, up, pc, todo, run, call, faults>>
    BY <1>18 DEF vars, ensmVars, testVars, attenVars, callVars
  <2>2. Shape'
    BY <2>1 DEF IInv, Shape
  <2>3. Types' /\ Silent' /\ Remembered'
    BY <2>1 DEF IInv, Types, Silent, Remembered
  <2>4. Swept'
    BY <2>1 DEF IInv, Swept, Clean
  <2>. QED  BY <2>2, <2>3, <2>4 DEF IInv
<1>. QED
  BY <1>1, <1>2, <1>3, <1>4, <1>5, <1>6, <1>7, <1>8, <1>9, <1>10, <1>11, <1>12, <1>13,
     <1>14, <1>15, <1>16, <1>17, <1>18
  DEF Next, Calls, Steps

LEMMA Invariance == Spec => []IInv
<1>1. Init => IInv
  BY InitIInv
<1>2. IInv /\ [Next]_vars => IInv'
  BY NextKeeps
<1>. QED  BY <1>1, <1>2, PTL DEF Spec

(***************************************************************************)
(* dig_tune_tx lets the FPGA send the PN sequence through an open TX path: *)
(* with any attenuations, any settings and any number of SPI errors, both  *)
(* channels are at full attenuation as long as it does.                    *)
(***************************************************************************)
THEOREM PrbsStaysOffTheAntenna == Spec => []PnOnlyWhileMuted
<1>1. IInv => PnOnlyWhileMuted
  BY DEF IInv, Silent, PnOnlyWhileMuted, Sweeping, Muted
<1>. QED  BY <1>1, Invariance, PTL

(***************************************************************************)
(* The delays a running driver puts back (clock and FIR changes do) are    *)
(* never ones that a sweep left half way, whatever failed and however      *)
(* often; without faults the chip does not have such delays either.        *)
(***************************************************************************)
THEOREM DelaysAreWhole == Spec => []NoHalfSweptDelays
<1>1. IInv => NoHalfSweptDelays
  <2>. SUFFICES ASSUME IInv PROVE NoHalfSweptDelays
    OBVIOUS
  <2>0. Shape /\ Swept
    BY DEF IInv
  <2>1. up => Clean(stored)
    <3>1. CASE pc = "init failed"
      BY <2>0, <3>1 DEF Shape
    <3>2. CASE pc \in {"leave", "unmute"} /\ run.kind = "full tune"
      <4>1. pc \notin Ended /\ pc \in Leaving
        BY <3>2 DEF Ended, Leaving
      <4>. QED  BY <2>0, <3>2, <4>1 DEF Shape
    <3>. QED  BY <2>0, <3>1, <3>2 DEF Swept
  <2>2. pc = "idle" /\ faults = 0 => Clean(delays)
    BY <2>0 DEF Swept
  <2>. QED  BY <2>1, <2>2 DEF NoHalfSweptDelays, Clean
<1>. QED  BY <1>1, Invariance, PTL

(***************************************************************************)
(* tx_mute: whatever attenuations the channels had when a tuning muted     *)
(* them, and whether it found its delays or not, they have them again at   *)
(* its end, and no pin and no other call comes in between.                 *)
(***************************************************************************)
THEOREM AttenuationComesBack == Spec => TuningKeepsAttenuation
<1>1. IInv /\ [Next]_vars
        => [pc = "unmute" /\ run.muted /\ faults' = 0 => atten' = run.atten]_vars
  <2>. SUFFICES ASSUME IInv, Next, pc = "unmute", run.muted, faults' = 0
                PROVE  atten' = run.atten
    OBVIOUS
  <2>0. Types /\ Remembered
    BY DEF IInv
  <2>1. Unmute \/ Pins
    BY DEF Next, Calls, Steps, PostSetup, SetSampleRate, LoadOrCalibrate, SetFirEnabled,
           SetTxAttenuation, ChangeClocks, ForceAlert, RestoreAfterWork, SaveEnsmState,
           Tunings, Mute, StartRx, SweepRx, StartTx, SweepTx, StopTestSignals, PutDelays,
           LeaveTuning
  <2>2. faults = 0
    <3>1. faults' \in {faults, faults + 1}
      BY <2>1 DEF Unmute, Pins, Fine, Fault
    <3>. QED  BY <2>0, <3>1, FaultsCount
  <2>3. /\ run.atten = attenCached
        /\ ensm # "flush" /\ pinCtrl = FALSE
    BY <2>0, <2>2 DEF Remembered, Leaving
  <2>4. Unmute
    BY <2>1, <2>3 DEF Pins
  <2>5. atten' = [c \in Channels |-> Unmuted(c)]
    <3>1. 0 + 1 # 0
      OBVIOUS
    <3>. QED  BY <2>2, <2>4, <3>1 DEF Unmute, Fault
  <2>6. attenCached \in [Channels -> Int]
    BY <2>0 DEF Types
  <2>. QED  BY <2>3, <2>5, <2>6 DEF Unmuted
<1>. QED  BY <1>1, Invariance, PTL DEF Spec, TuningKeepsAttenuation

-----------------------------------------------------------------------------
(***************************************************************************)
(* What a call gives back. On top of IInv, by subject: the limits of the   *)
(* values, the fields of a call, the ENSM of a chip under SPI control, the *)
(* test signals, the delays tuned without FIRs, and the list of a call     *)
(* that bypasses the last FIR, whose tuning puts them back.                *)
(***************************************************************************)
FirCalls == {"rx fir", "tx fir"}
Results  == {"ok", "Spi", "Timeout", "TuningFailed", "InvalidRate"}

Bounds ==
  /\ config \in Configs /\ {fddMode, failed} \subseteq BOOLEAN
  /\ {atten, attenCached, asked} \subseteq [Channels -> MinAtten..MaxAtten]
  /\ asks \in 0..MaxAsks /\ faults \in 0..MaxFaults

Between ==
  /\ up \in BOOLEAN /\ mode \in {config.tune, "UseConfigured"}
  /\ fir \subseteq Sides /\ result \in Results
  /\ pc \in Ended => todo = << >> /\ mode = config.tune /\ call = "none"

AtHome ==
  faults = 0 /\ ~config.pins =>
    /\ ~pinCtrl /\ ~savedPin /\ ensm # "flush"
    /\ pc \in Phases \cup Ended \cup {"unmute"} => ensm = Home /\ fddMode = config.fdd
    /\ pc = "work" => run.saved = Home /\ fddMode = config.fdd
    /\ pc \in Tuning \cup Leaving => run.saved = Home

TestsOff ==
  /\ pc \in {"mute", "rx", "rx sweep"} => mode # "UseConfigured"
  /\ faults = 0 /\ ~failed /\ config.tune # "RxOnly" =>
       /\ pc \notin Sweeping \cup {"stop"} => ~loop /\ ~prbs /\ ~loopMode /\ ~bistConfig
       /\ pc \in {"tx sweep", "stop"} => ~bistConfig
       /\ pc \in Sweeping \cup {"stop"} => ~run.loop /\ ~run.prbs

NoFir(d) == \A s \in Sides : d[s] # "tuned with FIR"

OwnDelays ==
  /\ NoFir(stored)
  /\ (todo # << >> /\ todo[1] = "full tune") \/ (pc = "idle" /\ ~up) => NoFir(delays)

\* The alert is the last phase of the list, and no FIR is tuned for.
OffList ==
  \A i \in 1..Len(todo) : todo[i] # "fir tune" /\ (todo[i] = "alert" => i = Len(todo))

OffAhead ==
  \/ delays = stored
  \/ \E i \in 2..Len(todo) : todo[i] = "off tune"
  \/ todo[1] = "off tune" /\ pc \in {"off tune", "delays"}

OffAgain ==
  call \in FirCalls /\ fir = {} =>
    OffList /\ (config.firTune /\ faults = 0 => OffAhead)

Back == Bounds /\ Between /\ AtHome /\ TestsOff /\ OwnDelays /\ OffAgain

(***************************************************************************)
(* Which way a step goes on, and what every step leaves alone.             *)
(***************************************************************************)
LEMMA Frame ==
  ASSUME Next
  PROVE  config' = config /\ faults' \in {faults, faults + 1} /\ failed' \in {failed, TRUE}
BY DEF Next, Calls, Steps, PostSetup, SetSampleRate, LoadOrCalibrate, SetFirEnabled,
       SetTxAttenuation, Pins, ChangeClocks, ForceAlert, RestoreAfterWork, SaveEnsmState,
       Mute, StartRx, SweepRx, StartTx, SweepTx, Sweep, StopTestSignals, PutDelays,
       LeaveTuning, Unmute, Fine, Fault

LEMMA StepsGoOn ==
  ASSUME IInv, Steps
  PROVE  /\ pc \notin Ended /\ UNCHANGED userVars
         /\ \/ \E step \in Tuning \cup Leaving \cup {"work"} : Goto(step)
            \/ \E res \in Results : Finish(res)
<1>. DEFINE GoesOrEnds == \/ \E step \in Tuning \cup Leaving \cup {"work"} : Goto(step)
                          \/ \E res \in Results : Finish(res)
<1>1. "ok" \in Results /\ "Spi" \in Results /\ "Timeout" \in Results
      /\ "InvalidRate" \in Results
  BY DEF Results
<1>2. Tuning \cup Leaving \cup {"work"}
        = {"rx", "rx sweep", "tx", "tx sweep", "mute", "stop", "delays", "leave", "unmute",
           "work"}
  BY DEF Tuning, Sweeping, Leaving
<1>3. CASE ChangeClocks \/ ForceAlert \/ RestoreAfterWork
  BY <1>1, <1>2, <1>3 DEF ChangeClocks, ForceAlert, RestoreAfterWork, Ended
<1>4. CASE SaveEnsmState
  BY <1>1, <1>2, <1>4 DEF SaveEnsmState, Tunings, Ended
<1>5. CASE Mute \/ StartRx \/ StartTx
  BY <1>1, <1>2, <1>5 DEF Mute, StartRx, StartTx, Ended
<1>6. CASE SweepRx \/ SweepTx
  BY <1>1, <1>2, <1>6 DEF SweepRx, SweepTx, Sweep, AfterSweep, Ended
<1>7. CASE StopTestSignals \/ PutDelays \/ LeaveTuning
  BY <1>1, <1>2, <1>7 DEF StopTestSignals, PutDelays, LeaveTuning, Ended
<1>8. CASE Unmute
  <2>1. run.result \in Results
    BY DEF IInv, Types, Runs, Results
  <2>. QED  BY <1>1, <1>8, <2>1 DEF Unmute, Ended
<1>. QED  BY <1>3, <1>4, <1>5, <1>6, <1>7, <1>8 DEF Steps

LEMMA Lands ==
  ASSUME Shape, pc \notin Ended, NEW res, Finish(res)
  PROVE  pc' \in Plain \cup Ended /\ (pc' = "idle" => up')
         /\ (pc' \in Ended => EndCall(res) \/ EndCall("ok"))
         /\ (todo' # << >> => todo'[1] # "full tune")
<1>1. Landed(res)
  BY FinishLands
<1>2. pc' \in Plain => pc' \notin Ended
  BY DEF Plain, Phases, Tunings, Ended
<1>3. \/ EndCall(res) \/ EndCall("ok")
      \/ pc' = todo[2] /\ todo' = Tail(todo) /\ Len(todo) > 1
  BY DEF Finish
<1>4. todo \in Seq(Phases) /\ todo # << >>
      /\ \A i \in 2..Len(todo) : todo[i] # "full tune"
  BY DEF Shape
<1>5. CASE EndCall(res) \/ EndCall("ok")
  BY <1>1, <1>5 DEF Landed, EndCall
<1>6. CASE pc' = todo[2] /\ todo' = Tail(todo) /\ Len(todo) > 1
  <2>0. Len(todo) \in Nat
    BY <1>4, HasHead
  <2>1. 2 \in 2..Len(todo) /\ 2 \in 1..Len(todo) /\ todo[2] \in Phases
    <3>1. 2 \in 2..Len(todo) /\ 2 \in 1..Len(todo)
      BY <1>6, <2>0
    <3>. QED  BY <1>4, <3>1, ElementOfSeq
  <2>2. pc' \in Plain
    BY <1>4, <1>6, <2>1 DEF Plain
  <2>3. todo'[1] = todo[2]
    <3>1. /\ Len(Tail(todo)) = Len(todo) - 1
          /\ \A i \in 1..Len(Tail(todo)) : Tail(todo)[i] = todo[i + 1]
      BY <1>4, HeadTailProperties
    <3>2. 1 \in 1..Len(Tail(todo))
      BY <1>6, <2>0, <3>1
    <3>. QED  BY <1>6, <3>1, <3>2
  <2>. QED  BY <1>1, <1>2, <1>4, <1>6, <2>1, <2>2, <2>3 DEF Landed
<1>. QED  BY <1>3, <1>5, <1>6

(***************************************************************************)
(* The values stay within their limits.                                    *)
(***************************************************************************)
LEMMA BoundsKeep ==
  ASSUME IInv, Bounds, Next
  PROVE  Bounds'
<1>. DEFINE Levels == [Channels -> MinAtten..MaxAtten]
<1>1. config' \in Configs /\ failed' \in BOOLEAN
  BY Frame DEF Bounds
<1>2. fddMode' \in BOOLEAN
  <2>1. fddMode' \in {fddMode, TRUE, config.fdd}
    BY DEF Next, Calls, Steps, PostSetup, SetSampleRate, LoadOrCalibrate, SetFirEnabled,
       SetTxAttenuation, Pins, ChangeClocks, ForceAlert, RestoreAfterWork, SaveEnsmState,
       Mute, StartRx, SweepRx, StartTx, SweepTx, Sweep, StopTestSignals, PutDelays,
       LeaveTuning, Unmute, UnchangedChip
  <2>. QED  BY <2>1, ConfigsAssumption DEF Bounds
<1>3. faults' \in 0..MaxFaults
  <2>1. faults' = faults \/ (faults < MaxFaults /\ faults' = faults + 1)
    BY DEF Next, Calls, Steps, PostSetup, SetSampleRate, LoadOrCalibrate, SetFirEnabled,
       SetTxAttenuation, Pins, ChangeClocks, ForceAlert, RestoreAfterWork, SaveEnsmState,
       Mute, StartRx, SweepRx, StartTx, SweepTx, Sweep, StopTestSignals, PutDelays,
       LeaveTuning, Unmute, Fine, Fault
  <2>. QED  BY <2>1, AttensAssumption DEF Bounds
<1>4. Muted \in Levels /\ MaxAtten \in MinAtten..MaxAtten
      /\ \A a \in Attens : a \in MinAtten..MaxAtten
  BY AttensAssumption DEF Muted, Both, MinAtten, MaxAtten
<1>5. atten \in Levels /\ attenCached \in Levels /\ asked \in Levels /\ asks \in 0..MaxAsks
  BY DEF Bounds
<1>6. CASE \E channels \in SUBSET Channels \ {{}}, a \in Attens :
             SetTxAttenuation(channels, a)
  <2>. PICK channels \in SUBSET Channels, a \in Attens : SetTxAttenuation(channels, a)
    BY <1>6
  <2>1. /\ attenCached' = attenCached /\ asks < MaxAsks /\ asks' = asks + 1
        /\ asked' = [c \in Channels |-> IF c \in channels THEN a ELSE asked[c]]
        /\ \E written \in SUBSET Channels :
             atten' = [c \in Channels |-> IF c \in written THEN a ELSE atten[c]]
    BY DEF SetTxAttenuation
  <2>2. atten' \in Levels /\ asked' \in Levels
    BY <1>4, <1>5, <2>1
  <2>3. asks' \in 0..MaxAsks
    BY <1>5, <2>1, AttensAssumption
  <2>. QED  BY <1>1, <1>2, <1>3, <1>5, <2>1, <2>2, <2>3 DEF Bounds
<1>7. CASE Mute
  <2>1. [attenCached EXCEPT ![1] = atten[1]] \in Levels
    BY <1>5 DEF Channels
  <2>2. /\ attenCached' \in {attenCached, atten, [attenCached EXCEPT ![1] = atten[1]]}
        /\ UNCHANGED userVars
        /\ \/ atten' \in {atten, Muted}
           \/ \E muted \in SUBSET Channels :
                atten' = [c \in Channels |-> IF c \in muted THEN MaxAtten ELSE atten[c]]
    BY <1>7 DEF Mute
  <2>3. atten' \in Levels /\ attenCached' \in Levels
    BY <1>4, <1>5, <2>1, <2>2
  <2>. QED  BY <1>1, <1>2, <1>3, <1>5, <2>2, <2>3 DEF Bounds, userVars
<1>8. CASE Unmute
  <2>1. /\ attenCached' = attenCached /\ UNCHANGED userVars
        /\ \/ atten' = [c \in Channels |-> Unmuted(c)]
           \/ \E written \in SUBSET Channels :
                atten' = [c \in Channels |-> IF c \in written THEN Unmuted(c) ELSE atten[c]]
    BY <1>8 DEF Unmute
  <2>2. atten' \in Levels
    BY <1>5, <2>1 DEF Unmuted
  <2>. QED  BY <1>1, <1>2, <1>3, <1>5, <2>1, <2>2 DEF Bounds, userVars
<1>9. UNCHANGED <<atten, attenCached, asked, asks>>
        \/ Mute \/ Unmute \/ \E channels \in SUBSET Channels \ {{}}, a \in Attens :
                               SetTxAttenuation(channels, a)
  BY DEF Next, Calls, Steps, PostSetup, SetSampleRate, LoadOrCalibrate, SetFirEnabled,
         Pins, ChangeClocks, ForceAlert, RestoreAfterWork, SaveEnsmState,
         StartRx, SweepRx, StartTx, SweepTx, Sweep, StopTestSignals, PutDelays,
         LeaveTuning, UnchangedChip, userVars, attenVars
<1>. QED  BY <1>1, <1>2, <1>3, <1>5, <1>6, <1>7, <1>8, <1>9 DEF Bounds

(***************************************************************************)
(* Only a call that ends has a result, and it puts the configured mode     *)
(* back on every way out.                                                  *)
(***************************************************************************)
LEMMA BetweenKeeps ==
  ASSUME IInv, Between, Next
  PROVE  Between'
<1>0. Shape /\ config' = config
  BY Frame DEF IInv
<1>1. CASE Steps
  <2>0. pc \notin Ended
    BY <1>1, StepsGoOn
  <2>1. ASSUME NEW step \in Tuning \cup Leaving \cup {"work"}, Goto(step) PROVE Between'
    <3>1. step \notin Ended
      BY DEF Tuning, Sweeping, Leaving, Ended
    <3>. QED  BY <1>0, <2>1, <3>1 DEF Goto, Between
  <2>2. ASSUME NEW res \in Results, Finish(res) PROVE Between'
    <3>1. EndCall(res) \/ EndCall("ok") \/ (pc' \notin Ended /\ UNCHANGED <<result, fir, mode, up>>)
      BY <1>0, <2>0, <2>2, Lands DEF Finish
    <3>2. "ok" \in Results
      BY DEF Results
    <3>3. ASSUME NEW r \in Results, EndCall(r) PROVE Between'
      BY <1>0, <3>3 DEF EndCall, Between
    <3>. QED  BY <1>0, <3>1, <3>2, <3>3 DEF Between
  <2>. QED  BY <1>1, <2>1, <2>2, StepsGoOn
<1>2. CASE PostSetup
  <2>1. pc' = "full tune"
    BY <1>2, InitList DEF PostSetup, Begin, StoresFirst
  <2>. QED  BY <1>0, <1>2, <2>1 DEF PostSetup, Begin, Between, Ended
<1>3. CASE \/ SetSampleRate \/ LoadOrCalibrate
           \/ \E s \in Sides, e \in BOOLEAN : SetFirEnabled(s, e)
  <2>1. pc' \notin Ended /\ up' = up
    BY <1>3, CallBegins DEF Plain, Phases, Tunings, Ended
  <2>2. mode' = mode /\ result' = result /\ fir' \subseteq Sides
    BY <1>3 DEF SetSampleRate, LoadOrCalibrate, SetFirEnabled, Begin, Between
  <2>. QED  BY <1>0, <2>1, <2>2 DEF Between
<1>4. CASE \E channels \in SUBSET Channels \ {{}}, a \in Attens :
             SetTxAttenuation(channels, a)
  BY <1>0, <1>4 DEF SetTxAttenuation, Between, Results
<1>5. CASE Pins
  BY <1>0, <1>5 DEF Pins, Between, callVars
<1>. QED  BY <1>1, <1>2, <1>3, <1>4, <1>5 DEF Next, Calls

(***************************************************************************)
(* Under SPI control nobody but the tuning moves the chip: the state it    *)
(* saved is the one the chip runs in, however deep the forcing goes.       *)
(***************************************************************************)
LEMMA AtHomeKeeps ==
  ASSUME IInv, AtHome, Next
  PROVE  AtHome'
<1>. SUFFICES ASSUME faults' = 0, ~config'.pins
              PROVE  /\ ~pinCtrl' /\ ~savedPin' /\ ensm' # "flush"
                     /\ pc' \in Phases \cup Ended \cup {"unmute"}
                          => ensm' = Home' /\ fddMode' = config'.fdd
                     /\ pc' = "work" => run'.saved = Home' /\ fddMode' = config'.fdd
                     /\ pc' \in Tuning \cup Leaving => run'.saved = Home'
  BY DEF AtHome
<1>. DEFINE InPhase == pc' \in Plain \cup Ended \cup {"full tune"}
            Back1   == ensm' = Home /\ fddMode' = config.fdd
<1>0. Shape /\ Types
  BY DEF IInv
<1>1. /\ config' = config /\ faults = 0 /\ faults' # faults + 1
      /\ ~config.pins /\ Home' = Home /\ Home \in {"fdd", "rx"}
  <2>1. config' = config /\ faults' \in {faults, faults + 1} /\ faults \in Nat
    BY <1>0, Frame DEF Types
  <2>. QED  BY <2>1 DEF Home
<1>2. /\ pinCtrl = FALSE /\ savedPin = FALSE /\ ensm # "flush"
      /\ pc \in Phases \cup Ended \cup {"unmute"} => ensm = Home /\ fddMode = config.fdd
      /\ pc = "work" => run.saved = Home /\ fddMode = config.fdd
      /\ pc \in Tuning \cup Leaving => run.saved = Home
  BY <1>0, <1>1 DEF AtHome, Types
<1>3. /\ InPhase => /\ pc' \in Phases \cup Ended \cup {"unmute"} /\ pc' # "work"
                    /\ pc' \notin Tuning \cup Leaving
      /\ \A step \in Tuning \cup Leaving : step # "work" /\ step \notin Phases \cup Ended
      /\ "work" \notin Phases \cup Ended \cup {"unmute"} \cup Tuning \cup Leaving
  BY DEF Plain, Phases, Tunings, Ended, Tuning, Sweeping, Leaving
<1>. HIDE DEF InPhase
\* A step that ends a phase, with the chip at home.
<1>4. ASSUME InPhase, ensm' = Home, fddMode' = config.fdd, UNCHANGED <<pinCtrl, savedPin>>
      PROVE  /\ ~pinCtrl' /\ ~savedPin' /\ ensm' # "flush"
             /\ pc' \in Phases \cup Ended \cup {"unmute"}
                  => ensm' = Home' /\ fddMode' = config'.fdd
             /\ pc' = "work" => run'.saved = Home' /\ fddMode' = config'.fdd
             /\ pc' \in Tuning \cup Leaving => run'.saved = Home'
  BY <1>1, <1>2, <1>3, <1>4
<1>5. ASSUME pc \notin Ended, NEW res, Finish(res) PROVE InPhase
  BY <1>0, <1>5, Lands DEF InPhase
<1>6. CASE PostSetup
  <2>1. pc' = "full tune" /\ pc = "idle"
    BY <1>6, InitList DEF PostSetup, Begin, StoresFirst
  <2>. QED  BY <1>2, <1>4, <1>6, <2>1 DEF PostSetup, UnchangedChip, ensmVars, InPhase, Ended
<1>7. CASE \/ SetSampleRate \/ LoadOrCalibrate
           \/ \E s \in Sides, e \in BOOLEAN : SetFirEnabled(s, e)
  BY <1>2, <1>4, <1>7, CallBegins DEF UnchangedChip, ensmVars, InPhase, Ended
<1>8. CASE \E channels \in SUBSET Channels \ {{}}, a \in Attens :
             SetTxAttenuation(channels, a)
  BY <1>2, <1>4, <1>8 DEF SetTxAttenuation, ensmVars, InPhase, Ended
<1>9. CASE Pins
  BY <1>2, <1>9 DEF Pins
<1>10. CASE ChangeClocks
  <2>1. pc \in {"clocks", "update"} /\ UnchangedChip /\ \E res : Finish(res)
    BY <1>10 DEF ChangeClocks
  <2>2. pc \in Phases /\ pc \notin Ended
    BY <2>1 DEF Phases, Ended
  <2>3. InPhase
    BY <1>5, <2>1, <2>2
  <2>. QED  BY <1>2, <1>4, <2>1, <2>2, <2>3 DEF UnchangedChip, ensmVars
<1>11. CASE ForceAlert
  <2>1. pc = "alert" /\ ForceState("alert") /\ Goto("work") /\ fddMode' = fddMode
        /\ run'.saved = ensm
    BY <1>1, <1>11 DEF ForceAlert, Fault, NoRun
  <2>2. pc \in Phases
    BY <2>1 DEF Phases
  <2>. QED  BY <1>1, <1>2, <1>3, <2>1, <2>2 DEF ForceState, ensmVars, Goto
<1>12. CASE RestoreAfterWork
  <2>1. pc = "work" /\ RestoreState(run.saved) /\ Finish("ok") /\ fddMode' = fddMode
    BY <1>1, <1>12 DEF RestoreAfterWork, Fault
  <2>2. InPhase
    BY <1>5, <2>1 DEF Ended
  <2>. QED  BY <1>1, <1>2, <1>4, <2>1, <2>2 DEF RestoreState, Restorable
<1>13. CASE SaveEnsmState
  <2>1. /\ pc \in Tunings /\ UnchangedChip /\ run'.saved = ensm
        /\ Goto("delays") \/ Goto("mute")
    BY <1>1, <1>13 DEF SaveEnsmState, Fault, NoRun
  <2>2. pc \in Phases /\ {"delays", "mute"} \subseteq Tuning \cup Leaving
    BY <2>1 DEF Phases, Tuning, Leaving
  <2>3. pc' \in {"delays", "mute"}
    BY <2>1 DEF Goto
  <2>. QED  BY <1>1, <1>2, <1>3, <2>1, <2>2, <2>3 DEF UnchangedChip, ensmVars
<1>14. CASE Mute \/ StartRx \/ StartTx
  <2>1. /\ pc \in Tuning /\ UNCHANGED <<ensm, pinCtrl, savedPin>> /\ run'.saved = run.saved
        /\ Goto("rx") \/ Goto("rx sweep") \/ Goto("tx sweep")
    <3>1. run \in Runs
      BY <1>0 DEF Types
    <3>. QED  BY <1>1, <1>14, <3>1 DEF Mute, StartRx, StartTx, Fault, Tuning, Sweeping,
                                       ensmVars, Runs
  <2>2. pc' \in {"rx", "rx sweep", "tx sweep"}
    BY <2>1 DEF Goto
  <2>3. pc' \in Tuning /\ pc' # "unmute"
    BY <2>2 DEF Tuning, Sweeping
  <2>. QED  BY <1>1, <1>2, <1>3, <2>1, <2>3
<1>15. CASE SweepRx \/ SweepTx
  <2>1. /\ pc \in Tuning /\ ensm' = "fdd" /\ pinCtrl' = FALSE /\ savedPin' = FALSE
        /\ run'.saved = run.saved /\ pc' \in {"tx", "stop"}
    <3>1. run \in Runs
      BY <1>0 DEF Types
    <3>. QED  BY <1>1, <1>15, <3>1 DEF SweepRx, SweepTx, Sweep, AfterSweep, Fault, Keep,
                                       Goto, Tuning, Sweeping, Runs
  <2>2. pc' \in Tuning /\ pc' # "unmute"
    BY <2>1 DEF Tuning, Sweeping
  <2>. QED  BY <1>1, <1>2, <1>3, <2>1, <2>2
<1>16. CASE StopTestSignals
  <2>1. /\ pc = "stop" /\ UNCHANGED <<ensm, pinCtrl, savedPin>> /\ run'.saved = run.saved
        /\ pc' = "delays"
    <3>1. run \in Runs
      BY <1>0 DEF Types
    <3>. QED  BY <1>1, <1>16, <3>1 DEF StopTestSignals, Fault, ensmVars, Goto, Runs
  <2>2. pc \in Tuning /\ pc' \in Leaving /\ pc' # "unmute"
    BY <2>1 DEF Tuning, Leaving
  <2>. QED  BY <1>1, <1>2, <1>3, <2>1, <2>2
<1>17. CASE PutDelays
  <2>1. /\ pc = "delays" /\ pc' = "leave" /\ run' = run
        /\ ForceState("alert") \/ UNCHANGED ensmVars
    BY <1>1, <1>17 DEF PutDelays, Fault, Goto
  <2>2. pc \in Leaving /\ pc' \in Leaving /\ pc' # "unmute"
    BY <2>1 DEF Leaving
  <2>. QED  BY <1>1, <1>2, <1>3, <2>1, <2>2 DEF ForceState, ensmVars
<1>18. CASE LeaveTuning
  <2>1. /\ pc = "leave" /\ pc' = "unmute" /\ run' = run
        /\ fddMode' = config.fdd /\ RestoreState(run.saved)
    BY <1>1, <1>18 DEF LeaveTuning, Fault, Goto
  <2>2. pc \in Leaving /\ pc' \in Leaving
    BY <2>1 DEF Leaving
  <2>. QED  BY <1>1, <1>2, <1>3, <2>1, <2>2 DEF RestoreState, Restorable
<1>19. CASE Unmute
  <2>1. pc = "unmute" /\ Finish(run.result) /\ UNCHANGED <<ensm, pinCtrl, savedPin, fddMode>>
    BY <1>1, <1>19 DEF Unmute, Fault, ensmVars
  <2>2. InPhase
    BY <1>5, <2>1 DEF Ended
  <2>. QED  BY <1>2, <1>4, <2>1, <2>2
<1>. QED
  BY <1>6, <1>7, <1>8, <1>9, <1>10, <1>11, <1>12, <1>13, <1>14, <1>15, <1>16, <1>17, <1>18,
     <1>19 DEF Next, Calls, Steps

(***************************************************************************)
(* A tuning that finds its delays in both directions found the loopback    *)
(* and the PRBS off, and believes that they were.                          *)
(***************************************************************************)
LEMMA TestsOffKeeps ==
  ASSUME IInv, Bounds, Between, TestsOff, Next
  PROVE  TestsOff'
<1>0. Shape /\ Types
  BY DEF IInv
<1>1. config' = config /\ (faults' = 0 => faults = 0 /\ faults' # faults + 1)
      /\ (~failed' => ~failed)
  <2>1. faults' \in {faults, faults + 1} /\ faults \in Nat
    BY <1>0, Frame DEF Types
  <2>2. config' = config /\ (~failed' => ~failed)
    <3>1. CASE failed' = failed
      BY <3>1, Frame
    <3>2. CASE failed' = TRUE
      BY <3>2, Frame
    <3>. QED  BY <3>1, <3>2, Frame
  <2>3. faults' = 0 => faults = 0 /\ faults' # faults + 1
    BY ONLY <2>1
  <2>. QED  BY <2>2, <2>3
<1>. DEFINE AllOff == ~loop /\ ~prbs /\ ~loopMode /\ ~bistConfig
            Both2  == faults' = 0 /\ ~failed' /\ config.tune # "RxOnly"
            Far    == pc' \notin Sweeping \cup {"mute", "stop"}
<1>2. /\ Both2 /\ pc \notin Sweeping \cup {"stop"} => AllOff
      /\ Both2 /\ pc \in {"tx sweep", "stop"} => bistConfig = FALSE
      /\ Both2 /\ pc \in Sweeping \cup {"stop"} => run.loop = FALSE /\ run.prbs = FALSE
      /\ pc \in {"mute", "rx", "rx sweep"} => mode # "UseConfigured"
  <2>1. pc \in Sweeping \cup {"stop"} => run.loop \in BOOLEAN /\ run.prbs \in BOOLEAN
    BY <1>0 DEF Types, Runs
  <2>2. bistConfig \in BOOLEAN
    BY <1>0 DEF Types
  <2>. QED  BY <1>1, <2>1, <2>2 DEF TestsOff
<1>3. Far => pc' \notin Sweeping \cup {"stop"} /\ pc' \notin {"mute", "rx", "rx sweep"}
                /\ pc' \notin {"tx sweep", "stop"}
  BY DEF Sweeping
<1>. HIDE DEF Far
\* Away from the sweeps, with the signals as they were.
<1>4. ASSUME Far, pc \notin Sweeping \cup {"stop"}, UNCHANGED testVars PROVE TestsOff'
  BY <1>1, <1>2, <1>3, <1>4 DEF TestsOff, testVars
<1>5. ASSUME Far, faults' # 0 PROVE TestsOff'
  BY <1>3, <1>5 DEF TestsOff
<1>6. ASSUME pc \notin Ended, NEW res, Finish(res) PROVE Far
  BY <1>0, <1>6, Lands DEF Far, Plain, Phases, Tunings, Ended, Sweeping
<1>7. faults + 1 # 0
  BY <1>0 DEF Types
<1>8. CASE PostSetup
  <2>1. pc' = "full tune" /\ pc = "idle" /\ UNCHANGED testVars
    BY <1>8, InitList DEF PostSetup, Begin, StoresFirst, UnchangedChip
  <2>. QED  BY <1>4, <2>1 DEF Far, Sweeping
<1>9. CASE \/ SetSampleRate \/ LoadOrCalibrate
           \/ \E s \in Sides, e \in BOOLEAN : SetFirEnabled(s, e)
  <2>1. pc' \in Plain /\ pc = "idle" /\ UNCHANGED testVars
    BY <1>9, CallBegins DEF UnchangedChip
  <2>2. Far
    BY <2>1 DEF Far, Plain, Phases, Tunings, Sweeping
  <2>. QED  BY <1>4, <2>1, <2>2 DEF Sweeping
<1>10. CASE Pins \/ \E channels \in SUBSET Channels \ {{}}, a \in Attens :
                      SetTxAttenuation(channels, a)
  <2>1. UNCHANGED <<loop, prbs, loopMode, bistConfig, pc, run, mode>>
    BY <1>10 DEF Pins, SetTxAttenuation, testVars, callVars
  <2>. QED  BY <1>1, <2>1 DEF TestsOff
<1>11. CASE ChangeClocks \/ RestoreAfterWork \/ Unmute
  <2>1. pc \in {"clocks", "update", "work", "unmute"} /\ UNCHANGED testVars
        /\ \E res : Finish(res)
    BY <1>11 DEF ChangeClocks, RestoreAfterWork, Unmute, UnchangedChip
  <2>2. pc \notin Ended /\ pc \notin Sweeping \cup {"stop"}
    BY <2>1 DEF Ended, Sweeping
  <2>. QED  BY <1>4, <1>6, <2>1, <2>2
<1>12. CASE ForceAlert \/ PutDelays \/ LeaveTuning
  <2>1. /\ pc \in {"alert", "delays", "leave"} /\ UNCHANGED testVars
        /\ pc' \in {"work", "leave", "unmute"} \/ \E res : Finish(res)
    BY <1>12 DEF ForceAlert, PutDelays, LeaveTuning, Goto
  <2>2. pc \notin Ended /\ pc \notin Sweeping \cup {"stop"}
    BY <2>1 DEF Ended, Sweeping
  <2>3. pc' \in {"work", "leave", "unmute"} => Far
    BY DEF Far, Sweeping
  <2>. QED  BY <1>4, <1>6, <2>1, <2>2, <2>3
<1>13. CASE SaveEnsmState
  <2>1. /\ pc \in Tunings /\ UNCHANGED testVars
        /\ \/ pc' = "delays"
           \/ pc' = "mute" /\ mode' = mode /\ mode # "UseConfigured"
           \/ \E res : Finish(res)
    BY <1>13 DEF SaveEnsmState, Goto, UnchangedChip
  <2>2. pc \notin Ended /\ pc \notin Sweeping \cup {"stop"}
    BY <2>1 DEF Tunings, Ended, Sweeping
  <2>3. pc' = "delays" => Far
    BY DEF Far, Sweeping
  <2>4. CASE pc' = "mute" /\ mode' = mode /\ mode # "UseConfigured"
    <3>1. pc' \notin Sweeping \cup {"stop"} /\ pc' \notin {"tx sweep", "stop"}
      BY <2>4 DEF Sweeping
    <3>. QED  BY <1>1, <1>2, <2>1, <2>2, <2>4, <3>1 DEF TestsOff, testVars
  <2>. QED  BY <1>4, <1>6, <2>1, <2>2, <2>3, <2>4
<1>14. CASE Mute
  <2>1. /\ pc = "mute" /\ UNCHANGED <<loop, prbs, loopMode, bistConfig>>
        /\ run'.loop = loopMode /\ run'.prbs = bistConfig
        /\ (pc' = "rx" /\ mode' = mode) \/ (Finish("Spi") /\ faults' = faults + 1)
    <3>1. run \in Runs
      BY <1>0 DEF Types
    <3>. QED  BY <1>14, <3>1 DEF Mute, Goto, Fault, testVars, Runs
  <2>2. CASE pc' = "rx" /\ mode' = mode
    BY <1>1, <1>2, <2>1, <2>2 DEF TestsOff, Sweeping
  <2>3. CASE Finish("Spi") /\ faults' = faults + 1
    BY <1>5, <1>6, <1>7, <2>1, <2>3 DEF Ended
  <2>. QED  BY <2>1, <2>2, <2>3
<1>15. CASE StartRx
  <2>1. /\ pc = "rx" /\ mode' = mode
        /\ (pc' = "rx sweep" /\ run' = run) \/ (pc' = "stop" /\ faults' = faults + 1)
    BY <1>15 DEF StartRx, Goto, Fault
  <2>. QED  BY <1>1, <1>2, <1>7, <2>1 DEF TestsOff, Sweeping
<1>16. CASE StartTx
  <2>1. /\ pc = "tx" /\ bistConfig' = FALSE
        /\ (pc' = "tx sweep" /\ run' = run) \/ (pc' = "stop" /\ faults' = faults + 1)
    BY <1>16 DEF StartTx, Goto, Fault
  <2>. QED  BY <1>1, <1>2, <1>7, <2>1 DEF TestsOff, Sweeping
<1>17. CASE SweepRx
  <2>1. /\ pc = "rx sweep" /\ UNCHANGED testVars
        /\ \/ pc' = AfterSweep("rx") /\ run' = run
           \/ pc' = "stop" /\ failed'
           \/ pc' = "stop" /\ faults' = faults + 1
    BY <1>17 DEF SweepRx, Sweep, Goto, Fault
  <2>2. config.tune \in Modes
    BY ConfigsAssumption DEF Bounds
  <2>3. CASE pc' = AfterSweep("rx") /\ run' = run
    <3>1. config.tune # "RxOnly" => AfterSweep("rx") = "tx" \/ config.tune \notin Modes
      BY <1>2, <2>1 DEF AfterSweep, Between, Modes
    <3>2. pc' \in {"tx", "stop"}
      BY <2>3 DEF AfterSweep
    <3>. QED  BY <1>1, <1>2, <2>1, <2>2, <2>3, <3>1, <3>2 DEF TestsOff, Sweeping
  <2>4. CASE pc' = "stop" /\ (failed' \/ faults' = faults + 1)
    BY <1>7, <2>4 DEF TestsOff
  <2>. QED  BY <2>1, <2>3, <2>4
<1>18. CASE SweepTx
  <2>1. /\ pc = "tx sweep" /\ UNCHANGED testVars /\ pc' = "stop"
        /\ \/ run' = run
           \/ failed'
           \/ faults' = faults + 1
    BY <1>18 DEF SweepTx, Sweep, AfterSweep, Goto, Fault
  <2>. QED  BY <1>1, <1>2, <1>7, <2>1 DEF TestsOff, Sweeping, testVars
<1>19. CASE StopTestSignals
  <2>1. /\ pc = "stop" /\ bistConfig' = bistConfig
        /\ \/ pc' = "delays" /\ loopMode' = run.loop /\ loop' = run.loop /\ prbs' = run.prbs
           \/ Finish("Spi") /\ faults' = faults + 1
    BY <1>19 DEF StopTestSignals, Goto, Fault
  <2>2. CASE pc' = "delays" /\ loopMode' = run.loop /\ loop' = run.loop /\ prbs' = run.prbs
    <3>1. Far
      BY <2>2 DEF Far, Sweeping
    <3>. QED  BY <1>1, <1>2, <1>3, <2>1, <2>2, <3>1 DEF TestsOff
  <2>3. CASE Finish("Spi") /\ faults' = faults + 1
    BY <1>5, <1>6, <1>7, <2>1, <2>3 DEF Ended
  <2>. QED  BY <2>1, <2>2, <2>3
<1>. QED
  BY <1>8, <1>9, <1>10, <1>11, <1>12, <1>13, <1>14, <1>15, <1>16, <1>17, <1>18, <1>19
  DEF Next, Calls, Steps

(***************************************************************************)
(* Delays that were tuned with a FIR on are in the chip at most, never in  *)
(* the store; and until the tuning of init stores its own there are none.  *)
(***************************************************************************)
LEMMA OwnDelaysKeep ==
  ASSUME IInv, OwnDelays, Next
  PROVE  OwnDelays'
<1>. DEFINE Storing == (todo # << >> /\ todo[1] = "full tune") \/ (pc = "idle" /\ ~up)
<1>0. Shape /\ Types
  BY DEF IInv
<1>1. delays \in [Sides -> Origins] /\ stored \in [Sides -> Origins]
  BY <1>0 DEF Types
<1>2. NoFir(stored) /\ (Storing => NoFir(delays))
  BY DEF OwnDelays
<1>3. OwnDelays' <=> NoFir(stored') /\ (Storing' => NoFir(delays'))
  BY DEF OwnDelays, NoFir
<1>. HIDE DEF Storing
<1>4. ASSUME pc \notin Ended, NEW res, Finish(res) PROVE ~Storing'
  BY <1>0, <1>4, Lands DEF Storing
<1>5. ASSUME NEW step \in Tuning \cup Leaving \cup {"work"}, Goto(step)
      PROVE  Storing' => todo # << >> /\ todo[1] = "full tune" /\ Storing
  <2>1. step # "idle"
    BY DEF Tuning, Sweeping, Leaving
  <2>. QED  BY <1>5, <2>1 DEF Goto, Storing
<1>6. CASE PostSetup
  <2>1. UNCHANGED <<delays, stored>> /\ Storing
    BY <1>6 DEF PostSetup, UnchangedChip, Storing
  <2>. QED  BY <1>2, <1>3, <2>1
<1>7. CASE \/ SetSampleRate \/ LoadOrCalibrate
           \/ \E s \in Sides, e \in BOOLEAN : SetFirEnabled(s, e)
  <2>1. /\ Shape' /\ pc' \in Plain /\ UNCHANGED <<delays, stored>>
    BY <1>7, CallBegins DEF UnchangedChip
  <2>2. ~Storing'
    BY <2>1 DEF Shape, Storing, Plain, Phases, Tunings
  <2>. QED  BY <1>2, <1>3, <2>1, <2>2
<1>8. CASE Pins \/ \E channels \in SUBSET Channels \ {{}}, a \in Attens :
                     SetTxAttenuation(channels, a)
  <2>1. UNCHANGED <<delays, stored, todo, pc, up>>
    BY <1>8 DEF Pins, SetTxAttenuation, callVars
  <2>. QED  BY <1>2, <1>3, <2>1 DEF Storing
<1>9. CASE SweepRx \/ SweepTx
  <2>1. PICK side \in Sides : pc \in {"rx sweep", "tx sweep"} /\ Sweep(side)
    BY <1>9 DEF SweepRx, SweepTx, Sides
  <2>2. /\ stored' = stored
        /\ \/ delays' \in {delays, [delays EXCEPT ![side] = "swept"]}
           \/ delays' = [delays EXCEPT ![side] = "tuned"]
           \/ run.kind # "full tune"
        /\ Goto("stop") \/ Goto(AfterSweep(side))
    BY <2>1 DEF Sweep
  <2>3. todo[1] = run.kind
    BY <1>0, <2>1 DEF Shape, Tuning, Sweeping
  <2>4. Storing' => run.kind = "full tune" /\ NoFir(delays)
    <3>1. {"stop", AfterSweep(side)} \subseteq Tuning
      BY DEF AfterSweep, Tuning, Sweeping
    <3>. QED  BY <1>2, <1>5, <2>2, <2>3, <3>1
  <2>5. Storing' => \A s \in Sides : delays'[s] \in {delays[s], "swept", "tuned"}
    BY <1>1, <2>2, <2>4
  <2>6. Storing' => NoFir(delays')
    BY <2>4, <2>5 DEF NoFir
  <2>7. NoFir(stored')
    BY <1>2, <2>2
  <2>. QED  BY <1>3, <2>6, <2>7
<1>10. CASE PutDelays
  <2>1. /\ pc = "delays" /\ (Goto("leave") \/ Finish("Spi"))
        /\ \/ /\ stored' = stored
              /\ \A s \in Sides : delays'[s] \in {stored[s], delays[s]}
           \/ /\ delays' = delays /\ ~run.restore /\ run.kind # "fir tune"
              /\ stored' \in {stored, delays, [stored EXCEPT !["rx"] = delays["rx"]]}
    <3>1. [s \in Sides |-> stored[s]] = stored /\ [s \in Sides |-> delays[s]] = delays
      BY <1>1
    <3>. QED  BY <1>10, <3>1 DEF PutDelays, StoresNew, ensmVars
  <2>2. Storing' => NoFir(delays)
    <3>1. "leave" \in Leaving /\ pc \notin Ended
      BY <2>1 DEF Leaving, Ended
    <3>. QED  BY <1>2, <1>4, <1>5, <2>1, <3>1
  <2>3. ~run.restore /\ run.kind # "fir tune" => NoFir(delays)
    <3>1. pc \in Leaving /\ pc \notin Ended
      BY <2>1 DEF Leaving, Ended
    <3>2. todo # << >> /\ todo[1] = run.kind
          /\ (~run.restore => run.kind \in {"full tune", "fir tune"})
      BY <1>0, <2>1, <3>1 DEF Shape
    <3>. QED  BY <1>2, <3>2 DEF Storing
  <2>. QED  BY <1>1, <1>2, <1>3, <2>1, <2>2, <2>3 DEF NoFir, Sides
<1>11. CASE \/ ChangeClocks \/ ForceAlert \/ RestoreAfterWork \/ SaveEnsmState \/ Mute
            \/ StartRx \/ StartTx \/ StopTestSignals \/ LeaveTuning \/ Unmute
  <2>1. UNCHANGED <<delays, stored>> /\ Steps
    BY <1>11 DEF Steps, ChangeClocks, ForceAlert, RestoreAfterWork, SaveEnsmState, Mute,
                 StartRx, StartTx, StopTestSignals, LeaveTuning, Unmute, UnchangedChip
  <2>. QED  BY <1>2, <1>3, <1>4, <1>5, <2>1, StepsGoOn
<1>. QED  BY <1>6, <1>7, <1>8, <1>9, <1>10, <1>11 DEF Next, Calls, Steps

(***************************************************************************)
(* The list of a call that bypasses the last FIR: all that comes between   *)
(* the clocks and the alert is the tuning that puts the delays back.       *)
(***************************************************************************)
OffPhases(s) == \A i \in 1..Len(s) : s[i] \notin {"fir tune", "alert"}

LEMMA OffPhasesConcat ==
  ASSUME NEW s \in Seq(Plain), NEW t \in Seq(Plain), OffPhases(s), OffPhases(t)
  PROVE  s \o t \in Seq(Plain) /\ OffPhases(s \o t)
<1>1. s \o t \in Seq(Plain) /\ Len(s \o t) = Len(s) + Len(t)
      /\ \A i \in 1..(Len(s) + Len(t)) : (s \o t)[i] = IF i <= Len(s) THEN s[i] ELSE t[i - Len(s)]
  BY ConcatProperties
<1>2. Len(s) \in Nat /\ Len(t) \in Nat
  BY LenProperties
<1>3. ASSUME NEW i \in 1..(Len(s) + Len(t)) PROVE (s \o t)[i] \notin {"fir tune", "alert"}
  <2>1. CASE i <= Len(s)
    <3>1. i \in 1..Len(s)
      BY <1>2, <2>1
    <3>. QED  BY <1>1, <2>1, <3>1 DEF OffPhases
  <2>2. CASE ~(i <= Len(s))
    <3>1. i - Len(s) \in 1..Len(t)
      BY <1>2, <2>2
    <3>. QED  BY <1>1, <2>2, <3>1 DEF OffPhases
  <2>. QED  BY <2>1, <2>2
<1>. QED  BY <1>1, <1>3 DEF OffPhases

LEMMA OneOffPhase ==
  ASSUME NEW x \in Plain
  PROVE  /\ << x >> \in Seq(Plain) /\ Len(<< x >>) = 1 /\ << x >>[1] = x
         /\ x \notin {"fir tune", "alert"} => OffPhases(<< x >>)
<1>1. << x >> \in Seq(Plain)
  BY OnePhase
<1>2. Len(<< x >>) = 1 /\ << x >>[1] = x
  OBVIOUS
<1>3. \A i \in 1..Len(<< x >>) : << x >>[i] = x
  BY <1>2
<1>4. x \notin {"fir tune", "alert"} => OffPhases(<< x >>)
  BY <1>3 DEF OffPhases
<1>. QED  BY <1>1, <1>2, <1>4

LEMMA NoOffPhase == << >> \in Seq(Plain) /\ OffPhases(<< >>)
<1>1. Len(<< >>) = 0 /\ << >> \in Seq(Plain)
  BY EmptySeq
<1>2. 1..Len(<< >>) = {}
  BY <1>1
<1>. QED  BY <1>1, <1>2 DEF OffPhases

LEMMA NoFirClocks == ClockPhases({}) \in Seq(Plain) /\ OffPhases(ClockPhases({}))
<1>. DEFINE a == << "clocks" >>
            b == << >>
            c == << "update" >>
            d == IF config.clockTune THEN << "clock tune" >> ELSE << >>
<1>1. "clocks" \in Plain /\ "update" \in Plain /\ "clock tune" \in Plain
  BY DEF Plain, Phases, Tunings
<1>2. a \in Seq(Plain) /\ OffPhases(a) /\ c \in Seq(Plain) /\ OffPhases(c)
  BY <1>1, OneOffPhase
<1>3. b \in Seq(Plain) /\ OffPhases(b)
  BY NoOffPhase
<1>4. d \in Seq(Plain) /\ OffPhases(d)
  BY <1>1, OneOffPhase, NoOffPhase
<1>5. ClockPhases({}) = ((a \o b) \o c) \o d
  BY DEF ClockPhases
<1>. HIDE DEF a, b, c, d
<1>6. a \o b \in Seq(Plain) /\ OffPhases(a \o b)
  BY <1>2, <1>3, OffPhasesConcat
<1>7. (a \o b) \o c \in Seq(Plain) /\ OffPhases((a \o b) \o c)
  BY <1>2, <1>6, OffPhasesConcat
<1>. QED  BY <1>4, <1>5, <1>7, OffPhasesConcat

\* An alert at the end, and the tuning before it if there is one.
LEMMA AlertLast ==
  ASSUME NEW s \in Seq(Plain), OffPhases(s), NEW all, all = s \o << "alert" >>
  PROVE  /\ Len(all) = Len(s) + 1 /\ Len(s) \in Nat
         /\ \A i \in 1..Len(all) : all[i] # "fir tune" /\ (all[i] = "alert" => i = Len(all))
         /\ \A i \in 1..Len(s) : all[i] = s[i]
<1>. DEFINE end == << "alert" >>
<1>1. end \in Seq(Plain) /\ Len(end) = 1 /\ end[1] = "alert"
  <2>1. "alert" \in Plain
    BY DEF Plain, Phases, Tunings
  <2>. QED  BY <2>1, OneOffPhase
<1>2. all = s \o end
  OBVIOUS
<1>. HIDE DEF end
<1>3. /\ Len(all) = Len(s) + Len(end)
      /\ \A i \in 1..(Len(s) + Len(end)) : all[i] = IF i <= Len(s) THEN s[i] ELSE end[i - Len(s)]
  BY <1>1, <1>2, ConcatProperties
<1>4. Len(s) \in Nat
  BY LenProperties
<1>5. ASSUME NEW i \in 1..Len(s) PROVE all[i] = s[i] /\ i \in 1..(Len(s) + 1)
  <2>1. i \in 1..(Len(s) + Len(end)) /\ i <= Len(s)
    BY <1>1, <1>4
  <2>. QED  BY <1>1, <1>3, <2>1
<1>6. ASSUME NEW i \in 1..Len(all)
      PROVE  all[i] # "fir tune" /\ (all[i] = "alert" => i = Len(all))
  <2>1. CASE i \in 1..Len(s)
    BY <1>5, <2>1 DEF OffPhases
  <2>2. CASE i \notin 1..Len(s)
    <3>1. i \in 1..(Len(s) + Len(end)) /\ ~(i <= Len(s)) /\ i - Len(s) = 1
          /\ i = Len(all)
      BY <1>1, <1>3, <1>4, <2>2
    <3>2. all[i] = "alert"
      BY <1>1, <1>3, <3>1
    <3>. QED  BY <3>1, <3>2
  <2>. QED  BY <2>1, <2>2
<1>. QED  BY <1>1, <1>3, <1>4, <1>5, <1>6

LEMMA OffCall ==
  ASSUME NEW rest, rest = << >> \/ rest = << "off tune" >>, NEW all,
         all = ClockPhases({}) \o rest \o << "alert" >>
  PROVE  /\ Len(all) \in Nat
         /\ \A i \in 1..Len(all) : all[i] # "fir tune" /\ (all[i] = "alert" => i = Len(all))
         /\ rest = << "off tune" >> => \E i \in 2..Len(all) : all[i] = "off tune"
<1>. DEFINE c == ClockPhases({})
            s == c \o rest
<1>1. c \in Seq(Plain) /\ OffPhases(c) /\ c # << >>
  BY NoFirClocks, ClockPhasesPlain
<1>2. "off tune" \in Plain
  BY DEF Plain, Phases, Tunings
<1>3. /\ rest \in Seq(Plain) /\ OffPhases(rest)
      /\ rest = << "off tune" >> => Len(rest) = 1 /\ rest[1] = "off tune"
  BY <1>2, OneOffPhase, NoOffPhase
<1>4. all = s \o << "alert" >>
  OBVIOUS
<1>. HIDE DEF c
<1>5. s \in Seq(Plain) /\ OffPhases(s)
  BY <1>1, <1>3, OffPhasesConcat
<1>6. /\ Len(s) = Len(c) + Len(rest)
      /\ \A i \in 1..(Len(c) + Len(rest)) : s[i] = IF i <= Len(c) THEN c[i] ELSE rest[i - Len(c)]
  BY <1>1, <1>3, ConcatProperties
<1>7. Len(c) \in Nat /\ Len(c) > 0
  BY <1>1, HasHead
<1>. HIDE DEF s
<1>8. /\ Len(all) = Len(s) + 1 /\ Len(s) \in Nat
      /\ \A i \in 1..Len(all) : all[i] # "fir tune" /\ (all[i] = "alert" => i = Len(all))
      /\ \A i \in 1..Len(s) : all[i] = s[i]
  BY <1>4, <1>5, AlertLast
<1>9. ASSUME rest = << "off tune" >> PROVE \E i \in 2..Len(all) : all[i] = "off tune"
  <2>1. Len(rest) = 1 /\ rest[1] = "off tune"
    BY <1>3, <1>9
  <2>2. /\ Len(c) + 1 \in 2..Len(all) /\ Len(c) + 1 \in 1..Len(s)
        /\ Len(c) + 1 \in 1..(Len(c) + Len(rest))
        /\ ~(Len(c) + 1 <= Len(c)) /\ (Len(c) + 1) - Len(c) = 1
    <3>. DEFINE n == Len(c)
                m == Len(s)
                k == Len(all)
                j == Len(rest)
    <3>1. n \in Nat /\ n > 0 /\ m = n + j /\ j = 1 /\ k = m + 1
      BY <1>6, <1>7, <1>8, <2>1
    <3>. HIDE DEF n, m, k, j
    <3>2. /\ n + 1 \in 2..k /\ n + 1 \in 1..m /\ n + 1 \in 1..(n + j)
          /\ ~(n + 1 <= n) /\ (n + 1) - n = 1
      BY ONLY <3>1
    <3>. QED  BY <3>1, <3>2 DEF n, m, k, j
  <2>3. s[Len(c) + 1] = "off tune"
    BY <1>6, <2>1, <2>2
  <2>. QED  BY <1>8, <2>2, <2>3
<1>10. Len(all) \in Nat
  <2>. DEFINE m == Len(s)
              k == Len(all)
  <2>1. m \in Nat /\ k = m + 1
    BY <1>8
  <2>. HIDE DEF m, k
  <2>2. k \in Nat
    BY ONLY <2>1
  <2>. QED  BY <2>2 DEF k
<1>. QED  BY <1>8, <1>9, <1>10

\* What is left of the list after a phase.
LEMMA TailShifts ==
  ASSUME NEW s \in Seq(Phases), Len(s) > 1, NEW t, t = Tail(s)
  PROVE  /\ t[1] = s[2]
         /\ \A i \in 1..Len(t) : /\ i + 1 \in 1..Len(s) /\ t[i] = s[i + 1]
                                 /\ i + 1 = Len(s) => i = Len(t)
         /\ \A i \in 2..Len(s) : i # 2 => i - 1 \in 2..Len(t) /\ t[i - 1] = s[i]
<1>1. Len(s) \in Nat /\ s # << >>
  BY HasHead, LenProperties
<1>2. /\ Len(t) = Len(s) - 1
      /\ \A i \in 1..Len(t) : t[i] = s[i + 1]
  BY <1>1, HeadTailProperties
<1>. DEFINE n == Len(s)
            m == Len(t)
<1>3. n \in Nat /\ n > 1 /\ m = n - 1
  BY <1>1, <1>2
<1>. HIDE DEF n, m
<1>4. /\ 1 \in 1..m /\ 1 + 1 = 2
      /\ \A i \in 1..m : i + 1 \in 1..n /\ (i + 1 = n => i = m)
      /\ \A i \in 2..n : i # 2 => i - 1 \in 2..m /\ i - 1 \in 1..m /\ (i - 1) + 1 = i
  BY ONLY <1>3
<1>5. \A i \in 1..m : t[i] = s[i + 1]
  BY <1>2 DEF m
<1>6. t[1] = s[2]
  <2>1. t[1] = s[1 + 1]
    BY <1>4, <1>5
  <2>. QED  BY <1>4, <2>1
<1>7. \A i \in 2..n : i # 2 => t[i - 1] = s[i]
  <2>. SUFFICES ASSUME NEW i \in 2..n, i # 2 PROVE t[i - 1] = s[i]
    OBVIOUS
  <2>1. t[i - 1] = s[(i - 1) + 1] /\ (i - 1) + 1 = i
    BY ONLY <1>4, <1>5, i \in 2..n, i # 2
  <2>. QED  BY ONLY <2>1
<1>. QED  BY <1>4, <1>5, <1>6, <1>7 DEF n, m

LEMMA OffTail ==
  ASSUME todo \in Seq(Phases), Len(todo) > 1, todo' = Tail(todo), pc' = todo[2], OffList
  PROVE  OffList' /\ ((\E i \in 2..Len(todo) : todo[i] = "off tune") => OffAhead')
<1>1. /\ todo'[1] = todo[2]
      /\ \A i \in 1..Len(todo') : /\ i + 1 \in 1..Len(todo) /\ todo'[i] = todo[i + 1]
                                  /\ i + 1 = Len(todo) => i = Len(todo')
      /\ \A i \in 2..Len(todo) :
           i # 2 => i - 1 \in 2..Len(todo') /\ todo'[i - 1] = todo[i]
  BY TailShifts
<1>2. OffList'
  <2>1. ASSUME NEW i \in 1..Len(todo')
        PROVE  todo'[i] # "fir tune" /\ (todo'[i] = "alert" => i = Len(todo'))
    <3>1. /\ i + 1 \in 1..Len(todo) /\ todo'[i] = todo[i + 1]
          /\ i + 1 = Len(todo) => i = Len(todo')
      BY ONLY <1>1, i \in 1..Len(todo')
    <3>2. todo[i + 1] # "fir tune" /\ (todo[i + 1] = "alert" => i + 1 = Len(todo))
      BY ONLY <3>1, OffList DEF OffList
    <3>. QED  BY ONLY <3>1, <3>2
  <2>. QED  BY <2>1 DEF OffList
<1>3. ASSUME NEW i \in 2..Len(todo), todo[i] = "off tune" PROVE OffAhead'
  <2>1. CASE i = 2
    <3>1. todo'[1] = "off tune" /\ pc' = "off tune"
      BY ONLY <1>1, <1>3, <2>1, pc' = todo[2]
    <3>. QED  BY <3>1 DEF OffAhead
  <2>2. CASE i # 2
    BY ONLY <1>1, <1>3, <2>2 DEF OffAhead
  <2>. QED  BY <2>1, <2>2
<1>. QED  BY <1>2, <1>3

\* And what a step does in such a call: there is no sweep in it.
LEMMA OffSteps ==
  ASSUME IInv, Steps, faults' = 0, call # "init", todo[1] # "fir tune"
  PROVE  /\ delays = stored => delays' = stored'
         /\ pc = "off tune" => Goto("delays")
         /\ pc = "delays" => Goto("leave") /\ delays' = stored'
<1>0. Shape /\ Types
  BY DEF IInv
<1>1. ~Fault
  <2>1. faults \in Nat
    BY <1>0 DEF Types
  <2>2. faults + 1 # 0
    BY ONLY <2>1
  <2>. QED  BY <2>2 DEF Fault
<1>2. pc \notin Ended
  BY StepsGoOn
<1>3. todo # << >> /\ todo[1] # "full tune"
  BY <1>0, <1>2 DEF Shape
<1>4. pc \notin Tuning
  BY <1>0, <1>3 DEF Shape
<1>5. pc = "delays" => run.restore
  <2>1. pc = "delays" => todo[1] = run.kind
    BY <1>0 DEF Shape, Leaving
  <2>. QED  BY <1>0, <1>3, <2>1 DEF Shape
<1>6. CASE PutDelays
  <2>1. pc = "delays" /\ delays' = stored /\ stored' = stored /\ Goto("leave")
    BY <1>1, <1>5, <1>6 DEF PutDelays
  <2>. QED  BY <2>1
<1>7. CASE SaveEnsmState
  <2>1. pc \in Tunings /\ UNCHANGED <<delays, stored>>
        /\ (pc = "off tune" => Goto("delays"))
    BY <1>1, <1>7 DEF SaveEnsmState, UnchangedChip
  <2>. QED  BY <2>1 DEF Tunings
<1>8. CASE ChangeClocks \/ ForceAlert \/ RestoreAfterWork \/ LeaveTuning \/ Unmute
  <2>1. pc \notin {"delays", "off tune"} /\ UNCHANGED <<delays, stored>>
    BY <1>8 DEF ChangeClocks, ForceAlert, RestoreAfterWork, LeaveTuning, Unmute,
                UnchangedChip
  <2>. QED  BY <2>1
<1>9. CASE Mute \/ StartRx \/ SweepRx \/ StartTx \/ SweepTx \/ StopTestSignals
  BY <1>4, <1>9 DEF Mute, StartRx, SweepRx, StartTx, SweepTx, StopTestSignals, Tuning,
                    Sweeping
<1>. QED  BY <1>6, <1>7, <1>8, <1>9 DEF Steps

LEMMA OffAgainKeeps ==
  ASSUME IInv, Between, OffAgain, Next
  PROVE  OffAgain'
<1>0. Shape /\ Types
  BY DEF IInv
<1>1. CASE PostSetup \/ SetSampleRate \/ LoadOrCalibrate
  <2>1. call' \notin FirCalls
    BY <1>1 DEF PostSetup, SetSampleRate, LoadOrCalibrate, Begin, FirCalls
  <2>. QED  BY <2>1 DEF OffAgain
<1>2. ASSUME NEW s \in Sides, NEW e \in BOOLEAN, SetFirEnabled(s, e) PROVE OffAgain'
  <2>. SUFFICES ASSUME fir' = {} PROVE OffList' /\ (config'.firTune => OffAhead')
    BY DEF OffAgain
  <2>. DEFINE rest == IF config.firTune THEN << "off tune" >> ELSE << >>
              all  == ClockPhases({}) \o rest \o << "alert" >>
  <2>1. todo' = all /\ config' = config
    BY <1>2 DEF SetFirEnabled, Begin
  <2>2. rest = << >> \/ rest = << "off tune" >>
    OBVIOUS
  <2>3. config.firTune => rest = << "off tune" >>
    OBVIOUS
  <2>. HIDE DEF rest
  <2>4. /\ \A i \in 1..Len(all) : all[i] # "fir tune" /\ (all[i] = "alert" => i = Len(all))
        /\ rest = << "off tune" >> => \E i \in 2..Len(all) : all[i] = "off tune"
    BY <2>2, OffCall
  <2>. HIDE DEF all
  <2>. QED  BY <2>1, <2>3, <2>4 DEF OffList, OffAhead
<1>3. ASSUME NEW channels \in SUBSET Channels \ {{}}, NEW a \in Attens,
             SetTxAttenuation(channels, a)
      PROVE  OffAgain'
  <2>1. call' = "none"
    BY <1>3 DEF SetTxAttenuation, Between, Ended
  <2>. QED  BY <2>1 DEF OffAgain, FirCalls
<1>4. CASE Pins
  <2>1. UNCHANGED <<config, call, fir, faults, delays, stored, todo, pc>>
    BY <1>4 DEF Pins, callVars
  <2>. QED  BY <2>1 DEF OffAgain, OffList, OffAhead
<1>5. CASE Steps
  <2>. SUFFICES ASSUME call' \in FirCalls, fir' = {}
                PROVE  OffList' /\ (config'.firTune /\ faults' = 0 => OffAhead')
    BY DEF OffAgain
  <2>1. /\ pc \notin Ended
        /\ \/ \E step \in Tuning \cup Leaving \cup {"work"} : Goto(step)
           \/ \E res \in Results : Finish(res)
    BY <1>5, StepsGoOn
  <2>2. call \in FirCalls /\ fir = {}
        /\ \/ UNCHANGED todo
           \/ Len(todo) > 1 /\ todo' = Tail(todo) /\ pc' = todo[2]
    <3>1. ASSUME NEW res, Finish(res)
          PROVE  /\ UNCHANGED <<call, fir>>
                 /\ Len(todo) > 1 /\ todo' = Tail(todo) /\ pc' = todo[2]
      BY <3>1 DEF Finish, EndCall, FirCalls
    <3>. QED  BY <2>1, <3>1 DEF Goto
  <2>3. OffList /\ (config.firTune /\ faults = 0 => OffAhead)
    BY <2>2 DEF OffAgain
  <2>4. todo \in Seq(Phases) /\ todo # << >> /\ Len(todo) \in Nat /\ Len(todo) > 0
    BY <1>0, <2>1, HasHead DEF Shape
  <2>5. call # "init" /\ todo[1] # "fir tune"
    <3>1. 1 \in 1..Len(todo)
      BY <2>4
    <3>. QED  BY <2>2, <2>3, <3>1 DEF FirCalls, OffList
  <2>6. OffList'
    <3>1. CASE UNCHANGED todo
      BY <2>3, <3>1 DEF OffList
    <3>2. CASE Len(todo) > 1 /\ todo' = Tail(todo) /\ pc' = todo[2]
      BY <2>3, <2>4, <3>2, OffTail
    <3>. QED  BY <2>2, <3>1, <3>2
  <2>7. ASSUME config'.firTune, faults' = 0 PROVE OffAhead'
    <3>1. OffAhead
      <4>1. config' = config /\ faults = 0
        BY <1>0, <2>7, Frame, FaultsCount DEF Types
      <4>. QED  BY <2>3, <2>7, <4>1
    <3>2. /\ delays = stored => delays' = stored'
          /\ pc = "off tune" => Goto("delays")
          /\ pc = "delays" => delays' = stored'
      BY <1>5, <2>5, <2>7, OffSteps
    <3>3. CASE delays = stored \/ pc = "delays"
      BY <3>2, <3>3 DEF OffAhead
    <3>4. CASE \E i \in 2..Len(todo) : todo[i] = "off tune"
      <4>1. CASE UNCHANGED todo
        BY <3>4, <4>1 DEF OffAhead
      <4>2. CASE Len(todo) > 1 /\ todo' = Tail(todo) /\ pc' = todo[2]
        BY <2>3, <2>4, <3>4, <4>2, OffTail
      <4>. QED  BY <2>2, <4>1, <4>2
    <3>5. CASE todo[1] = "off tune" /\ pc = "off tune"
      <4>1. pc' = "delays" /\ todo' = todo
        BY <3>2, <3>5 DEF Goto
      <4>. QED  BY <3>5, <4>1 DEF OffAhead
    <3>. QED  BY <3>1, <3>3, <3>4, <3>5 DEF OffAhead
  <2>. QED  BY <2>6, <2>7
<1>. QED  BY <1>1, <1>2, <1>3, <1>4, <1>5 DEF Next, Calls

\* At the alert the list is over.
LEMMA NothingBehind ==
  ASSUME NEW s \in Seq(Phases), s # << >>, s[1] = "alert",
         \A i \in 1..Len(s) : s[i] = "alert" => i = Len(s)
  PROVE  2..Len(s) = {}
<1>1. Len(s) \in Nat /\ Len(s) > 0
  BY HasHead
<1>2. 1 \in 1..Len(s)
  BY <1>1
<1>3. Len(s) = 1
  BY <1>2
<1>. QED  BY <1>3

LEMMA InitBack == Init => Back
<1>. SUFFICES ASSUME Init PROVE Back
  OBVIOUS
<1>0. /\ config \in Configs /\ todo = << >> /\ pc = "idle" /\ ~up /\ call = "none"
      /\ run = NoRun /\ mode = config.tune /\ faults = 0
  BY DEF Init
<1>1. Bounds
  <2>1. Both(StartAtten) \in [Channels -> MinAtten..MaxAtten]
    BY AttensAssumption DEF Both
  <2>2. Both(MinAtten) \in [Channels -> MinAtten..MaxAtten]
    BY DEF Both, MinAtten, MaxAtten
  <2>3. 0 \in 0..MaxAsks /\ 0 \in 0..MaxFaults
    BY AttensAssumption
  <2>4. config \in [fdd : BOOLEAN, pins : BOOLEAN, tune : Modes,
                    firTune : BOOLEAN, clockTune : BOOLEAN]
    BY <1>0, ConfigsAssumption
  <2>. QED  BY <1>0, <2>1, <2>2, <2>3, <2>4 DEF Init, Bounds
<1>2. Between
  BY <1>0 DEF Init, Between, Results, Ended
<1>3. AtHome
  <2>1. pc \notin Tuning \cup Leaving \cup {"work"}
    BY <1>0 DEF Tuning, Sweeping, Leaving
  <2>2. ensm # "flush"
    BY DEF Init, Home
  <2>. QED  BY <2>1, <2>2 DEF Init, AtHome
<1>4. TestsOff
  <2>1. pc \notin Sweeping \cup {"stop", "mute"}
    BY <1>0 DEF Sweeping
  <2>. QED  BY <2>1 DEF Init, TestsOff, Sweeping
<1>5. OwnDelays
  BY DEF Init, OwnDelays, NoFir
<1>6. OffAgain
  BY <1>0 DEF OffAgain, FirCalls
<1>. QED  BY <1>1, <1>2, <1>3, <1>4, <1>5, <1>6 DEF Back

LEMMA BackKeeps == IInv /\ Back /\ [Next]_vars => Back'
<1>. SUFFICES ASSUME IInv, Back, [Next]_vars PROVE Back'
  OBVIOUS
<1>0. Bounds /\ Between /\ AtHome /\ TestsOff /\ OwnDelays /\ OffAgain
  BY DEF Back
<1>1. CASE Next
  BY <1>0, <1>1, BoundsKeep, BetweenKeeps, AtHomeKeeps, TestsOffKeeps, OwnDelaysKeep,
     OffAgainKeeps
  DEF Back
<1>2. CASE UNCHANGED vars
  <2>1. /\ UNCHANGED <<config, ensm, pinCtrl, savedPin, fddMode, loop, prbs, loopMode>>
        /\ UNCHANGED <<bistConfig, atten, attenCached, delays, stored, pc, todo, call>>
        /\ UNCHANGED <<result, fir, mode, up, run, faults, asked, asks, failed>>
    BY <1>2 DEF vars, ensmVars, testVars, attenVars, callVars, userVars
  <2>2. Bounds' /\ Between'
    BY <1>0, <2>1 DEF Bounds, Between
  <2>3. AtHome' /\ TestsOff'
    BY <1>0, <2>1 DEF AtHome, TestsOff, Home
  <2>4. OwnDelays' /\ OffAgain'
    BY <1>0, <2>1 DEF OwnDelays, NoFir, OffAgain, OffList, OffAhead
  <2>. QED  BY <2>2, <2>3, <2>4 DEF Back
<1>. QED  BY <1>1, <1>2

LEMMA AlwaysBack == Spec => [](IInv /\ Back)
<1>1. Init => Back
  BY InitBack
<1>2. IInv /\ Back /\ [Next]_vars => Back'
  BY BackKeeps
<1>. QED  BY <1>1, <1>2, Invariance, PTL DEF Spec

(***************************************************************************)
(* The types, and that a call has phases left exactly while it runs, with  *)
(* any number of calls, attenuations and errors.                           *)
(***************************************************************************)
THEOREM TypesHold == Spec => []TypeOK
<1>1. IInv /\ Back => TypeOK
  <2>. SUFFICES ASSUME IInv, Back PROVE TypeOK
    OBVIOUS
  <2>0. Shape /\ Types /\ Bounds /\ Between
    BY DEF IInv, Back
  <2>1. mode \in Modes
    <3>1. config.tune \in Modes
      BY <2>0, ConfigsAssumption DEF Bounds
    <3>. QED  BY <2>0, <3>1 DEF Between, Modes
  <2>2. todo = << >> <=> pc \in {"idle", "init failed"}
    <3>1. pc \in Ended => todo = << >>
      BY <2>0 DEF Between
    <3>2. pc \notin Ended => todo # << >>
      BY <2>0 DEF Shape
    <3>. QED  BY Zenon, <3>1, <3>2 DEF Ended
  <2>3. result \in {"ok", "Spi", "Timeout", "TuningFailed", "InvalidRate"}
    BY <2>0 DEF Between, Results
  <2>. QED  BY <2>0, <2>1, <2>2, <2>3 DEF TypeOK, Types, Bounds, Between
<1>. QED  BY <1>1, AlwaysBack, PTL

(***************************************************************************)
(* Everything borrowed comes back: the tuning mode and the PN generator on *)
(* every way out, whatever fails; without faults and pin control the state *)
(* and the duplex mode the chip runs in; and the loopback and the PRBS are *)
(* off, unless only RX is tuned or a sweep has failed.                     *)
(***************************************************************************)
THEOREM TuningAlwaysGivesBack == Spec => []TuningGivesBack
<1>1. IInv /\ Back => TuningGivesBack
  <2>. SUFFICES ASSUME IInv, Back PROVE TuningGivesBack
    OBVIOUS
  <2>0. Silent /\ Types /\ Between /\ AtHome /\ TestsOff
    BY DEF IInv, Back
  <2>1. pc \in Ended => mode = config.tune /\ ~pn
    BY <2>0 DEF Silent, Between, Ended
  <2>2. pc = "idle" /\ faults = 0 /\ ~config.pins => ensm = Home /\ fddMode = config.fdd
    BY <2>0 DEF AtHome, Ended
  <2>3. pc = "idle" /\ faults = 0 /\ ~failed /\ config.tune # "RxOnly" => ~loop /\ ~prbs
    BY <2>0 DEF TestsOff, Sweeping
  <2>. QED  BY <2>1, <2>2, <2>3 DEF TuningGivesBack, Ended
<1>. QED  BY <1>1, AlwaysBack, PTL

(***************************************************************************)
(* "With FIRs off, put the original delays back": when a call that turned  *)
(* the last FIR off comes to its last phase, the chip has the delays of    *)
(* the driver, and those were never tuned for a FIR, however many tunings  *)
(* for FIRs came before.                                                   *)
(***************************************************************************)
THEOREM DelaysComeBackWithFirsOff == Spec => []DelaysBackWithFirsOff
<1>1. IInv /\ Back => DelaysBackWithFirsOff
  <2>. SUFFICES ASSUME IInv, Back, pc = "alert", call \in {"rx fir", "tx fir"}, fir = {},
                       config.firTune, faults = 0
                PROVE  delays = stored /\ \A s \in Sides : stored[s] # "tuned with FIR"
    BY DEF DelaysBackWithFirsOff
  <2>0. Shape /\ OwnDelays /\ OffAgain
    BY DEF IInv, Back
  <2>1. OffList /\ OffAhead
    BY <2>0 DEF OffAgain, FirCalls
  <2>2. todo \in Seq(Phases) /\ todo[1] = "alert" /\ todo # << >>
    BY <2>0 DEF Shape, Phases, Ended
  <2>3. \A i \in 1..Len(todo) : todo[i] = "alert" => i = Len(todo)
    BY <2>1 DEF OffList
  <2>4. 2..Len(todo) = {}
    BY <2>2, <2>3, NothingBehind
  <2>5. delays = stored
    BY <2>1, <2>2, <2>4 DEF OffAhead
  <2>. QED  BY <2>0, <2>5 DEF OwnDelays, NoFir
<1>. QED  BY <1>1, AlwaysBack, PTL
=============================================================================
