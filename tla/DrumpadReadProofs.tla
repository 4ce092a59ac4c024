------------------------- MODULE DrumpadReadProofs -------------------------
(***************************************************************************)
(* Until the clock wraps, a pad that nobody hits is silent, a hit is one    *)
(* note or one change of a toggle however the pad bounces, and the value of *)
(* a note does not fall, for every threshold, length of a note, range of    *)
(* readings and duration of a turn.                                         *)
(***************************************************************************)
EXTENDS DrumpadRead, TLAPS

-----------------------------------------------------------------------------
(* The invariant *)

\* Before it wraps, the clock is the time since power-up, and the timer a
\* moment that has been.
ClockIsUptime == uptime < Period => micros = uptime /\ timer <= uptime

\* The timer was set by a hit, and by nothing since; 0 says that it never was.
TimerIsHit ==
  function \in {"dpad", "long", "atoggle"} /\ uptime < Period /\ timer # 0
    => sinceHigh <= uptime - timer

\* A pad reads something only for the length of a note after the timer.
SoundsInWindow ==
  function \in {"dpad", "long"} /\ uptime < Period /\ out # 0
    => uptime - timer < Window

\* A note is on, or the button of a toggle down.
Sounding == IF function = "dpad" THEN out # 0 ELSE button

\* From a hit on, for the length of a note, the peak is held, and that is one
\* note and one press of the button.
HeldInWindow ==
  function \in {"dpad", "atoggle"} /\ uptime < Period /\ timer # 0
    /\ uptime - timer < TimeWait
    => /\ Sounding /\ last > Threshold
       /\ function = "dpad" => out = last

\* What began after the first note length began with a hit; others may have
\* followed, before it was over.
BeganWithHit ==
  function \in {"dpad", "atoggle"} /\ uptime < Period /\ StartedAt >= TimeWait
    => timer >= StartedAt

IInv ==
  /\ TypeOK /\ ClockIsUptime /\ TimerIsHit /\ SoundsInWindow
  /\ HeldInWindow /\ BeganWithHit

-----------------------------------------------------------------------------
(* Time *)

LEMMA RemainderIsBelow ==
  ASSUME NEW n \in Nat \ {0}, NEW a \in Int
  PROVE  a % n \in 0 .. n - 1
OBVIOUS

LEMMA RemainderOfSmall ==
  ASSUME NEW n \in Nat \ {0}, NEW a \in 0 .. n - 1
  PROVE  a % n = a
OBVIOUS

\* What the assumptions say of the numbers, without the sets.
LEMMA Numbers ==
  /\ TimeWait \in Nat \ {0} /\ NoteLen \in Nat \ {0} /\ MaxStep \in Nat
  /\ Period \in Nat \ {0} /\ Threshold \in Nat \ {0}
  /\ Reading \subseteq 0 .. 1023
BY ReadingAssumption, TimeAssumption

\* A turn that ends before the clock wraps: clock and uptime go on together, and
\* the difference that the code computes is the time since the timer was set.
LEMMA TurnOfTheClock ==
  ASSUME TypeOK, ClockIsUptime, NEW reading \in Reading, NEW d \in 1 .. MaxStep,
         Pass(reading, d), uptime' < Period
  PROVE  /\ uptime' = uptime + d /\ uptime < Period
         /\ micros' = uptime' /\ Micros(d) = uptime'
         /\ timer <= uptime /\ Elapsed(Micros(d)) = uptime' - timer
<1>1. /\ uptime \in Nat /\ timer \in Nat /\ d \in Nat /\ Period \in Nat \ {0}
  BY Numbers DEF TypeOK
<1>2. uptime' = uptime + d /\ uptime < Period /\ d > 0
  BY <1>1 DEF Pass, Older
<1>3. micros = uptime /\ timer <= uptime
  BY <1>2 DEF ClockIsUptime
<1>4. Micros(d) = uptime'
  <2>1. micros + d = uptime' /\ uptime' \in 0 .. Period - 1
    BY <1>1, <1>2, <1>3
  <2>2. uptime' % Period = uptime'
    BY <1>1, <2>1, RemainderOfSmall
  <2> QED
    BY <2>1, <2>2 DEF Micros
<1>5. Elapsed(Micros(d)) = uptime' - timer
  <2>1. uptime' - timer \in 0 .. Period - 1
    BY <1>1, <1>2, <1>3
  <2>2. (uptime' - timer) % Period = uptime' - timer
    BY <1>1, <2>1, RemainderOfSmall
  <2> QED
    BY <1>4, <2>2 DEF Elapsed
<1> QED
  BY <1>2, <1>3, <1>4, <1>5 DEF Pass

\* Ages go on with the clock.
LEMMA Ages ==
  ASSUME TypeOK, NEW age \in 0 .. Period, NEW d \in 1 .. MaxStep
  PROVE  /\ Older(age, d) \in 0 .. Period
         /\ Older(age, d) < Period => Older(age, d) = age + d
         /\ age + d <= Period => Older(age, d) = age + d
BY Numbers DEF Older

-----------------------------------------------------------------------------
(* Types *)

LEMMA InitIInv == Init => IInv
<1> SUFFICES ASSUME Init PROVE IInv
  OBVIOUS
<1>1. TypeOK
  <2>1. toggle \in BOOLEAN /\ button \in BOOLEAN
    BY DEF Init
  <2>2. /\ function \in Function /\ micros = 0 /\ timer = 0 /\ last = 0
        /\ signal = "down" /\ out = 0 /\ uptime = 0
        /\ sinceHigh = Period /\ sinceStart = Period
    BY DEF Init
  <2> QED
    BY <2>1, <2>2, Numbers DEF TypeOK, READMIN, READMAX
<1>2. ClockIsUptime
  BY Numbers DEF Init, ClockIsUptime
<1>3. TimerIsHit /\ SoundsInWindow /\ HeldInWindow
  BY DEF Init, TimerIsHit, SoundsInWindow, HeldInWindow
<1>4. BeganWithHit
  BY Numbers DEF Init, BeganWithHit, StartedAt
<1> QED
  BY <1>1, <1>2, <1>3, <1>4 DEF IInv

\* What the functions of a pad return and leave is a reading or 0.
LEMMA PadTypes ==
  ASSUME TypeOK, NEW reading \in Reading, NEW t \in 0 .. Period - 1
  PROVE  /\ readDrumpadValue(reading, t).out \in Reading \cup {0}
         /\ readDrumpadValue(reading, t).last \in Reading \cup {0}
         /\ readDrumpadValue(reading, t).timer \in 0 .. Period - 1
         /\ readLongDrumpadValue(reading, t).out \in Reading \cup {0}
         /\ readLongDrumpadValue(reading, t).last \in Reading \cup {0}
         /\ readLongDrumpadValue(reading, t).timer \in 0 .. Period - 1
BY DEF TypeOK, readDrumpadValue, readLongDrumpadValue, Larger

LEMMA TypesOfTurn ==
  ASSUME TypeOK, NEW reading \in Reading, NEW d \in 1 .. MaxStep, Pass(reading, d)
  PROVE  /\ function' \in Function /\ micros' \in 0 .. Period - 1
         /\ uptime' \in 0 .. Period /\ sinceHigh' \in 0 .. Period
         /\ Micros(d) \in 0 .. Period - 1
         /\ \A starts \in BOOLEAN : Began(starts, d) => sinceStart' \in 0 .. Period
<1>1. micros + d \in Int /\ Period \in Nat \ {0}
  BY Numbers DEF TypeOK
<1>2. Micros(d) \in 0 .. Period - 1
  BY <1>1, RemainderIsBelow DEF Micros
<1>3. /\ Older(uptime, d) \in 0 .. Period /\ Older(sinceHigh, d) \in 0 .. Period
      /\ Older(sinceStart, d) \in 0 .. Period /\ 0 \in 0 .. Period
  BY Ages, Numbers DEF TypeOK
<1> QED
  BY <1>2, <1>3 DEF Pass, Began, TypeOK

LEMMA StepTypes ==
  ASSUME TypeOK, [Next]_vars
  PROVE  TypeOK'
<1> USE DEF TypeOK
<1>0. 0 \in READMIN .. READMAX /\ READMAX \in READMIN .. READMAX /\ READMIN = 0
      /\ Reading \cup {0} \subseteq READMIN .. READMAX
      /\ \A on \in BOOLEAN : Shown(on) \in READMIN .. READMAX
  BY Numbers DEF READMIN, READMAX, Shown
<1>1. ASSUME NEW reading \in Reading, NEW d \in 1 .. MaxStep, drumpad(reading, d)
      PROVE  TypeOK'
  BY <1>0, <1>1, PadTypes, TypesOfTurn DEF drumpad
<1>2. ASSUME NEW reading \in Reading, NEW d \in 1 .. MaxStep, longDrumpad(reading, d)
      PROVE  TypeOK'
  <2>1. signal' \in {"down", "raising", "up", "falling"}
    BY <1>2 DEF longDrumpad, SignalAfter
  <2> QED
    BY <1>0, <1>2, <2>1, PadTypes, TypesOfTurn DEF longDrumpad
<1>3. ASSUME NEW reading \in Reading, NEW d \in 1 .. MaxStep,
             NEW pressed \in BOOLEAN, Press(pressed, d), Pass(reading, d)
      PROVE  /\ toggle' \in BOOLEAN /\ button' \in BOOLEAN
             /\ out' \in READMIN .. READMAX /\ sinceStart' \in 0 .. Period
  BY <1>0, <1>3, TypesOfTurn DEF Press, Flips
<1>4. ASSUME NEW reading \in Reading, NEW d \in 1 .. MaxStep, aToggleOSC(reading, d)
      PROVE  TypeOK'
  <2> DEFINE r == readDrumpadValue(reading, Micros(d))
  <2>1. /\ last' = r.last /\ timer' = r.timer /\ Press(r.out >= Threshold, d)
        /\ Pass(reading, d) /\ UNCHANGED signal
    BY <1>4 DEF aToggleOSC
  <2>2. r.last \in Reading \cup {0} /\ r.timer \in 0 .. Period - 1
    BY <2>1, PadTypes, TypesOfTurn
  <2> HIDE DEF r
  <2>3. (r.out >= Threshold) \in BOOLEAN
    OBVIOUS
  <2> QED
    BY <1>3, <2>1, <2>2, <2>3, TypesOfTurn
<1>5. ASSUME NEW reading \in Reading, NEW d \in 1 .. MaxStep, dToggleOSC(reading, d)
      PROVE  TypeOK'
  <2>1. (reading # 0) \in BOOLEAN
    OBVIOUS
  <2> QED
    BY <1>3, <1>5, <2>1, TypesOfTurn DEF dToggleOSC
<1>6. ASSUME NEW reading \in Reading, NEW d \in 1 .. MaxStep,
             NEW value \in READMIN .. READMAX, Plain(value, reading, d)
      PROVE  TypeOK'
  BY <1>6, TypesOfTurn DEF Plain
<1>7. ASSUME NEW reading \in Reading, NEW d \in 1 .. MaxStep,
             \/ digitalReadOSC(reading, d) \/ digitalReadOSCINV(reading, d)
             \/ analogReadINV(reading, d)
      PROVE  TypeOK'
  <2>1. READMAX - reading \in READMIN .. READMAX
    BY Numbers DEF READMIN, READMAX
  <2>2. Shown(reading # 0) \in READMIN .. READMAX /\ Shown(reading = 0) \in READMIN .. READMAX
    BY DEF Shown, READMIN, READMAX
  <2> QED
    BY <1>6, <1>7, <2>1, <2>2 DEF digitalReadOSC, digitalReadOSCINV, analogReadINV
<1>8. ASSUME UNCHANGED vars PROVE TypeOK'
  BY <1>8 DEF vars
<1> QED
  BY <1>1, <1>2, <1>4, <1>5, <1>7, <1>8 DEF Next

-----------------------------------------------------------------------------
(* One turn before the clock wraps *)

\* readDrumpadValue(): inside a note it holds the peak, after it a hit begins
\* the next one, and anything else is 0.
LEMMA PadTurn ==
  ASSUME TypeOK, ClockIsUptime, NEW reading \in Reading, NEW d \in 1 .. MaxStep,
         Pass(reading, d), uptime' < Period,
         NEW r, r = readDrumpadValue(reading, Micros(d))
  PROVE  /\ uptime' - timer < TimeWait
              => r.timer = timer /\ r.out = r.last /\ r.out >= last /\ r.out >= reading
         /\ uptime' - timer >= TimeWait /\ reading > Threshold
              => r.timer = uptime' /\ r.out = reading /\ r.last = reading
         /\ uptime' - timer >= TimeWait /\ ~(reading > Threshold)
              => r.timer = timer /\ r.out = 0 /\ r.last = last
<1>1. Elapsed(Micros(d)) = uptime' - timer /\ Micros(d) = uptime'
  BY TurnOfTheClock
<1>2. /\ uptime' = uptime + d /\ uptime \in Nat /\ d \in Nat /\ timer \in Int
      /\ TimeWait \in Int
      /\ last \in Int /\ reading \in Int
  BY <1>1, TurnOfTheClock, Numbers DEF TypeOK
<1>3. /\ Larger(last, reading) \in Int
      /\ Larger(last, reading) >= last /\ Larger(last, reading) >= reading
  BY <1>2 DEF Larger
<1>4. CASE uptime' - timer < TimeWait
  <2>1. r = [out |-> Larger(last, reading), last |-> Larger(last, reading),
             timer |-> timer]
    BY <1>1, <1>4 DEF readDrumpadValue
  <2>2. r.timer = timer /\ r.out = Larger(last, reading) /\ r.last = Larger(last, reading)
    BY <2>1
  <2>3. r.timer = timer /\ r.out = r.last /\ r.out >= last /\ r.out >= reading
    BY <1>3, <2>2
  <2>4. ~(uptime' - timer >= TimeWait)
    BY <1>2, <1>4
  <2> QED
    BY <2>3, <2>4
<1>5. CASE ~(uptime' - timer < TimeWait) /\ reading > Threshold
  <2>1. r = [out |-> reading, last |-> reading, timer |-> uptime']
    BY <1>1, <1>5 DEF readDrumpadValue
  <2>2. r.timer = uptime' /\ r.out = reading /\ r.last = reading
    BY <2>1
  <2> QED
    BY <1>2, <1>5, <2>2
<1>6. CASE ~(uptime' - timer < TimeWait) /\ ~(reading > Threshold)
  <2>1. r = [out |-> 0, last |-> last, timer |-> timer]
    BY <1>1, <1>6 DEF readDrumpadValue
  <2>2. r.timer = timer /\ r.out = 0 /\ r.last = last
    BY <2>1
  <2> QED
    BY <1>2, <1>6, <2>2
<1> QED
  BY <1>4, <1>5, <1>6

\* readLongDrumpadValue(): the timer is set by a hit only, and outside a note
\* only a hit is reported.
LEMMA LongTurn ==
  ASSUME TypeOK, ClockIsUptime, NEW reading \in Reading, NEW d \in 1 .. MaxStep,
         Pass(reading, d), uptime' < Period,
         NEW r, r = readLongDrumpadValue(reading, Micros(d))
  PROVE  /\ r.timer = timer \/ (r.timer = uptime' /\ reading > Threshold)
         /\ r.out # 0 => uptime' - r.timer < NoteLen
<1>1. Elapsed(Micros(d)) = uptime' - timer /\ Micros(d) = uptime'
  BY TurnOfTheClock
<1>2. /\ uptime' = uptime + d /\ uptime \in Nat /\ d \in Nat /\ timer \in Int
      /\ NoteLen \in Nat \ {0}
      /\ reading \in Int
  BY <1>1, TurnOfTheClock, Numbers DEF TypeOK
<1> DEFINE raising == SignalAfter(reading) = "raising"
<1>3. raising => reading > Threshold
  BY DEF SignalAfter
<1>4. /\ r.timer = IF raising THEN uptime' ELSE timer
      /\ r.out = IF uptime' - timer < NoteLen /\ ~raising THEN Larger(last, reading)
                ELSE IF raising /\ ~(uptime' - timer < NoteLen) THEN reading ELSE 0
  BY <1>1 DEF readLongDrumpadValue
<1> HIDE DEF raising
<1>5. CASE raising
  <2>1. r.timer = uptime'
    BY <1>4, <1>5
  <2>2. uptime' - uptime' < NoteLen
    BY <1>2
  <2> QED
    BY <1>3, <1>5, <2>1, <2>2
<1>6. CASE ~raising
  BY <1>2, <1>4, <1>6
<1> QED
  BY <1>5, <1>6

\* A timer that only a hit sets is a moment that has been, and since when no
\* longer has passed than since the last hit.
LEMMA TimerSteps ==
  ASSUME TypeOK, ClockIsUptime, TimerIsHit,
         function \in {"dpad", "long", "atoggle"},
         NEW reading \in Reading, NEW d \in 1 .. MaxStep,
         Pass(reading, d), uptime' < Period,
         timer' = timer \/ (timer' = uptime' /\ reading > Threshold)
  PROVE  /\ timer' <= uptime' /\ micros' = uptime'
         /\ timer' # 0 => sinceHigh' <= uptime' - timer'
<1>1. /\ uptime' = uptime + d /\ uptime < Period
      /\ micros' = uptime' /\ timer <= uptime
  BY TurnOfTheClock
<1>2. /\ uptime \in Nat /\ timer \in Nat /\ d \in Nat /\ sinceHigh \in 0 .. Period
      /\ Period \in Nat
  BY Numbers DEF TypeOK
<1>3. sinceHigh' = IF reading > Threshold THEN 0 ELSE Older(sinceHigh, d)
  BY DEF Pass
<1>4. CASE timer' = uptime' /\ reading > Threshold
  BY <1>1, <1>2, <1>3, <1>4
<1>5. CASE timer' = timer
  <2>1. CASE timer = 0
    BY <1>1, <1>2, <1>5, <2>1
  <2>2. CASE timer # 0
    <3>1. sinceHigh <= uptime - timer
      BY <1>1, <2>2 DEF TimerIsHit
    <3>2. sinceHigh + d <= Period /\ sinceHigh + d <= uptime' - timer
      BY <1>1, <1>2, <3>1
    <3>3. Older(sinceHigh, d) = sinceHigh + d
      BY <1>2, <3>2, Ages
    <3> QED
      BY <1>1, <1>2, <1>3, <1>5, <3>2, <3>3
  <2> QED
    BY <2>1, <2>2
<1> QED
  BY <1>4, <1>5

\* The beginning of what began in time stays where it is.
LEMMA BeginningStays ==
  ASSUME TypeOK, NEW reading \in Reading, NEW d \in 1 .. MaxStep,
         ClockIsUptime, Pass(reading, d), uptime' < Period,
         Began(FALSE, d), StartedAt' >= TimeWait
  PROVE  StartedAt' = StartedAt
<1>1. uptime' = uptime + d /\ uptime < Period /\ sinceStart' = Older(sinceStart, d)
  BY TurnOfTheClock DEF Began
<1>2. /\ uptime \in Nat /\ d \in Nat /\ sinceStart \in 0 .. Period
      /\ TimeWait \in Nat \ {0} /\ Period \in Nat
  BY Numbers DEF TypeOK
<1>3. Older(sinceStart, d) \in 0 .. Period
  BY <1>2, Ages
<1>4. uptime' - sinceStart' >= TimeWait
  BY DEF StartedAt
<1>5. Older(sinceStart, d) < Period
  BY <1>1, <1>2, <1>3, <1>4
<1>6. Older(sinceStart, d) = sinceStart + d
  BY <1>2, <1>5, Ages
<1> QED
  BY <1>1, <1>2, <1>6 DEF StartedAt

\* A drum pad, played as such or behind a toggle, and its timer.
LEMMA PadSteps ==
  ASSUME IInv, function \in {"dpad", "atoggle"},
         NEW reading \in Reading, NEW d \in 1 .. MaxStep,
         Pass(reading, d), uptime' < Period,
         NEW r, r = readDrumpadValue(reading, Micros(d)),
         last' = r.last, timer' = r.timer
  PROVE  /\ timer' <= uptime' /\ micros' = uptime'
         /\ timer' # 0 => sinceHigh' <= uptime' - timer'
         /\ timer' >= timer
         /\ r.out # 0 => uptime' - timer' < TimeWait
         /\ timer' # 0 /\ uptime' - timer' < TimeWait
              => last' > Threshold /\ r.out = last'
<1>1. /\ TypeOK /\ ClockIsUptime /\ TimerIsHit /\ HeldInWindow
  BY DEF IInv
<1>2. /\ uptime' = uptime + d /\ uptime < Period /\ timer <= uptime
  BY <1>1, TurnOfTheClock
<1>3. /\ uptime \in Nat /\ timer \in Nat /\ d \in Nat /\ d > 0 /\ last \in Int
      /\ TimeWait \in Nat \ {0} /\ Threshold \in Nat \ {0} /\ reading \in Int
  BY <1>1, Numbers DEF TypeOK
<1>4. /\ uptime' - timer < TimeWait
           => r.timer = timer /\ r.out = r.last /\ r.out >= last /\ r.out >= reading
      /\ uptime' - timer >= TimeWait /\ reading > Threshold
           => r.timer = uptime' /\ r.out = reading /\ r.last = reading
      /\ uptime' - timer >= TimeWait /\ ~(reading > Threshold)
           => r.timer = timer /\ r.out = 0 /\ r.last = last
  BY <1>1, PadTurn
<1>5. timer' = timer \/ (timer' = uptime' /\ reading > Threshold)
  BY <1>2, <1>3, <1>4
<1>6. /\ timer' <= uptime' /\ micros' = uptime'
      /\ timer' # 0 => sinceHigh' <= uptime' - timer'
  BY <1>1, <1>5, TimerSteps
<1>7. timer' >= timer /\ (r.out # 0 => uptime' - timer' < TimeWait)
  BY <1>2, <1>3, <1>4
<1>8. ASSUME timer' # 0, uptime' - timer' < TimeWait
      PROVE  last' > Threshold /\ r.out = last'
  <2>1. CASE uptime' - timer < TimeWait
    <3>1. timer # 0 /\ uptime - timer < TimeWait
      BY <1>2, <1>3, <1>4, <1>8, <2>1
    <3>2. last > Threshold
      BY <1>1, <1>2, <3>1 DEF HeldInWindow
    <3>3. r.last \in Int
      <4>1. Micros(d) \in 0 .. Period - 1
        BY <1>1, TypesOfTurn
      <4>2. r.last \in Reading \cup {0}
        BY <1>1, <4>1, PadTypes
      <4>3. \A x \in Reading \cup {0} : x \in Int
        BY Numbers
      <4> QED
        BY <4>2, <4>3
    <3> QED
      BY <1>3, <1>4, <2>1, <3>2, <3>3
  <2>2. CASE uptime' - timer >= TimeWait
    BY <1>2, <1>3, <1>4, <1>8, <2>2
  <2> QED
    BY <1>2, <1>3, <2>1, <2>2
<1> QED
  BY <1>6, <1>7, <1>8

\* What begins after the first note length begins with a hit, and not before
\* the note of the hit before it is over.
LEMMA PadBegins ==
  ASSUME IInv, function \in {"dpad", "atoggle"},
         NEW reading \in Reading, NEW d \in 1 .. MaxStep,
         Pass(reading, d), uptime' < Period,
         NEW r, r = readDrumpadValue(reading, Micros(d)),
         last' = r.last, timer' = r.timer,
         NEW starts \in BOOLEAN, Began(starts, d), starts => ~Sounding /\ r.out # 0
  PROVE  /\ BeganWithHit'
         /\ starts /\ StartedAt >= TimeWait => uptime' - StartedAt >= TimeWait
<1>1. /\ TypeOK /\ ClockIsUptime /\ HeldInWindow /\ BeganWithHit
  BY DEF IInv
<1>2. /\ uptime' = uptime + d /\ uptime < Period /\ timer <= uptime
  BY <1>1, TurnOfTheClock
<1>3. /\ uptime \in Nat /\ timer \in Nat /\ d \in Nat /\ d > 0
      /\ sinceStart \in Nat /\ TimeWait \in Nat \ {0}
  BY <1>1, Numbers DEF TypeOK
<1>4. StartedAt >= TimeWait => timer >= StartedAt
  BY <1>1, <1>2 DEF BeganWithHit
<1>5. timer' >= timer
  BY PadSteps
<1>6. ASSUME starts
      PROVE  /\ timer = 0 \/ uptime' - timer >= TimeWait
             /\ uptime' - timer >= TimeWait => timer' = uptime'
  <2>1. timer = 0 \/ ~(uptime - timer < TimeWait)
    BY <1>1, <1>2, <1>6 DEF HeldInWindow
  <2>2. uptime' - timer >= TimeWait => timer' = uptime'
    BY <1>1, <1>6, PadTurn
  <2> QED
    BY <1>2, <1>3, <2>1, <2>2
<1>7. BeganWithHit'
  <2> SUFFICES ASSUME StartedAt' >= TimeWait
               PROVE  timer' >= StartedAt'
    BY DEF BeganWithHit
  <2>1. CASE starts
    <3>1. StartedAt' = uptime' - 0
      BY <2>1 DEF StartedAt, Began
    <3>2. StartedAt' = uptime'
      BY <1>2, <1>3, <3>1
    <3>3. uptime' - timer >= TimeWait
      BY <1>2, <1>3, <1>6, <2>1, <3>2
    <3> QED
      BY <1>2, <1>3, <1>6, <2>1, <3>2, <3>3
  <2>2. CASE ~starts
    <3>1. Began(FALSE, d)
      BY <2>2 DEF Began
    <3>2. StartedAt' = StartedAt
      BY <1>1, <3>1, BeginningStays
    <3>3. timer >= StartedAt /\ StartedAt \in Int /\ timer' \in Int
      <4>1. timer' \in 0 .. Period - 1
        BY <1>1, PadTypes, TypesOfTurn
      <4>2. StartedAt \in Int
        BY <1>3 DEF StartedAt
      <4> QED
        BY <1>4, <3>2, <4>1, <4>2, Numbers
    <3> QED
      BY <1>3, <1>5, <3>2, <3>3
  <2> QED
    BY <2>1, <2>2
<1>8. ASSUME starts, StartedAt >= TimeWait
      PROVE  uptime' - StartedAt >= TimeWait
  <2>1. StartedAt \in Int
    BY <1>3 DEF StartedAt
  <2>2. timer # 0
    BY <1>3, <1>4, <1>8, <2>1
  <2>3. uptime' - timer >= TimeWait
    BY <1>6, <1>8, <2>2
  <2> QED
    BY <1>2, <1>3, <1>4, <1>8, <2>1, <2>3
<1> QED
  BY <1>7, <1>8

-----------------------------------------------------------------------------
(* The invariant is kept *)

\* Once the clock has wrapped, the invariant only speaks of types.
LEMMA AfterThePeriod ==
  ASSUME TypeOK', ~(uptime' < Period)
  PROVE  IInv'
BY DEF IInv, ClockIsUptime, TimerIsHit, SoundsInWindow, HeldInWindow, BeganWithHit

LEMMA DrumpadSteps ==
  ASSUME IInv, TypeOK', NEW reading \in Reading, NEW d \in 1 .. MaxStep,
         drumpad(reading, d), uptime' < Period
  PROVE  /\ IInv'
         /\ sinceStart' = 0 /\ StartedAt >= TimeWait
              => uptime' - StartedAt >= TimeWait
         /\ StartedAt >= TimeWait /\ uptime' - StartedAt < TimeWait => out' >= out
<1> DEFINE starts == out = 0 /\ out' # 0
<1>1. /\ function = "dpad" /\ function' = "dpad" /\ Pass(reading, d)
      /\ Began(starts, d) /\ starts \in BOOLEAN
  BY DEF drumpad, Pass
<1>2. PICK r : /\ r = readDrumpadValue(reading, Micros(d))
               /\ out' = r.out /\ last' = r.last /\ timer' = r.timer
  BY DEF drumpad
<1>3. /\ timer' <= uptime' /\ micros' = uptime'
      /\ timer' # 0 => sinceHigh' <= uptime' - timer'
      /\ r.out # 0 => uptime' - timer' < TimeWait
      /\ timer' # 0 /\ uptime' - timer' < TimeWait
           => last' > Threshold /\ r.out = last'
  BY <1>1, <1>2, PadSteps
<1>4. starts => ~Sounding /\ r.out # 0
  BY <1>1, <1>2 DEF Sounding
<1>5. /\ BeganWithHit'
      /\ starts /\ StartedAt >= TimeWait => uptime' - StartedAt >= TimeWait
  <2> HIDE DEF starts
  <2> QED
    BY <1>1, <1>2, <1>4, PadBegins
<1>6. ClockIsUptime' /\ TimerIsHit'
  BY <1>3 DEF ClockIsUptime, TimerIsHit
<1>7. SoundsInWindow'
  BY <1>1, <1>2, <1>3 DEF SoundsInWindow, Window
<1>8. HeldInWindow'
  <2>1. ASSUME timer' # 0, uptime' - timer' < TimeWait
        PROVE  out' # 0 /\ last' > Threshold /\ out' = last'
    <3>1. last' > Threshold /\ out' = last'
      BY <1>2, <1>3, <2>1
    <3>2. ~(0 > Threshold)
      BY Numbers
    <3> QED
      BY <3>1, <3>2
  <2> QED
    BY <1>1, <2>1 DEF HeldInWindow, Sounding
<1>9. sinceStart' = 0 => starts
  BY <1>1, Numbers DEF Began, Older, IInv, TypeOK
<1>10. ASSUME StartedAt >= TimeWait, uptime' - StartedAt < TimeWait
       PROVE  out' >= out
  <2>1. /\ TypeOK /\ ClockIsUptime /\ HeldInWindow /\ BeganWithHit
    BY DEF IInv
  <2>2. /\ uptime' = uptime + d /\ uptime < Period
    BY <1>1, <2>1, TurnOfTheClock
  <2>3. /\ uptime \in Nat /\ timer \in Nat /\ d \in Nat /\ d > 0
        /\ StartedAt \in Int /\ TimeWait \in Nat \ {0}
    BY <2>1, Numbers DEF TypeOK, StartedAt
  <2>4. timer >= StartedAt
    BY <1>1, <1>10, <2>1, <2>2 DEF BeganWithHit
  <2>5. timer # 0 /\ uptime' - timer < TimeWait /\ uptime - timer < TimeWait
    BY <1>10, <2>2, <2>3, <2>4
  <2>6. out = last
    BY <1>1, <2>1, <2>2, <2>5 DEF HeldInWindow
  <2>7. r.out >= last
    BY <1>1, <1>2, <2>1, <2>5, PadTurn
  <2> QED
    BY <1>2, <2>6, <2>7
<1> QED
  BY <1>5, <1>6, <1>7, <1>8, <1>9, <1>10 DEF IInv

LEMMA LongDrumpadSteps ==
  ASSUME IInv, TypeOK', NEW reading \in Reading, NEW d \in 1 .. MaxStep,
         longDrumpad(reading, d), uptime' < Period
  PROVE  IInv'
<1>1. function = "long" /\ function' = "long" /\ Pass(reading, d)
  BY DEF longDrumpad, Pass
<1>2. PICK r : /\ r = readLongDrumpadValue(reading, Micros(d))
               /\ out' = r.out /\ last' = r.last /\ timer' = r.timer
  BY DEF longDrumpad
<1>3. TypeOK /\ ClockIsUptime /\ TimerIsHit
  BY DEF IInv
<1>4. /\ timer' = timer \/ (timer' = uptime' /\ reading > Threshold)
      /\ out' # 0 => uptime' - timer' < NoteLen
  BY <1>1, <1>2, <1>3, LongTurn
<1>5. /\ timer' <= uptime' /\ micros' = uptime'
      /\ timer' # 0 => sinceHigh' <= uptime' - timer'
  BY <1>1, <1>3, <1>4, TimerSteps
<1>6. ClockIsUptime' /\ TimerIsHit'
  BY <1>5 DEF ClockIsUptime, TimerIsHit
<1>7. SoundsInWindow'
  BY <1>1, <1>4 DEF SoundsInWindow, Window
<1>8. HeldInWindow' /\ BeganWithHit'
  BY <1>1 DEF HeldInWindow, BeganWithHit
<1> QED
  BY <1>6, <1>7, <1>8 DEF IInv

LEMMA AToggleSteps ==
  ASSUME IInv, TypeOK', NEW reading \in Reading, NEW d \in 1 .. MaxStep,
         aToggleOSC(reading, d), uptime' < Period
  PROVE  /\ IInv'
         /\ sinceStart' = 0 /\ StartedAt >= TimeWait
              => uptime' - StartedAt >= TimeWait
<1>1. function = "atoggle" /\ function' = "atoggle" /\ Pass(reading, d)
  BY DEF aToggleOSC, Pass
<1>2. PICK r : /\ r = readDrumpadValue(reading, Micros(d))
               /\ last' = r.last /\ timer' = r.timer
               /\ Press(r.out >= Threshold, d)
  BY DEF aToggleOSC
<1> DEFINE starts == Flips(r.out >= Threshold)
<1>3. /\ timer' <= uptime' /\ micros' = uptime'
      /\ timer' # 0 => sinceHigh' <= uptime' - timer'
      /\ timer' # 0 /\ uptime' - timer' < TimeWait
           => last' > Threshold /\ r.out = last'
  BY <1>1, <1>2, PadSteps
<1>4. /\ button' = (r.out >= Threshold) /\ Began(starts, d) /\ starts \in BOOLEAN
      /\ starts => r.out >= Threshold /\ ~button
  BY <1>2 DEF Press, Flips
<1>5. starts => ~Sounding /\ r.out # 0
  <2>1. ~(0 >= Threshold)
    BY Numbers
  <2> QED
    BY <1>1, <1>4, <2>1 DEF Sounding
<1> HIDE DEF starts
<1>6. /\ BeganWithHit'
      /\ starts /\ StartedAt >= TimeWait => uptime' - StartedAt >= TimeWait
  BY <1>1, <1>2, <1>4, <1>5, PadBegins
<1>7. ClockIsUptime' /\ TimerIsHit'
  BY <1>3 DEF ClockIsUptime, TimerIsHit
<1>8. SoundsInWindow'
  BY <1>1 DEF SoundsInWindow
<1>9. HeldInWindow'
  <2>1. ASSUME timer' # 0, uptime' - timer' < TimeWait
        PROVE  button' /\ last' > Threshold
    <3>1. last' > Threshold /\ r.out = last'
      BY <1>3, <2>1
    <3>2. last' \in Int /\ Threshold \in Int
      <4>1. \A x \in Reading \cup {0} : x \in Int
        BY Numbers
      <4> QED
        BY <4>1, Numbers DEF TypeOK
    <3>3. r.out >= Threshold
      BY <3>1, <3>2
    <3> QED
      BY <1>4, <3>1, <3>3
  <2> QED
    BY <1>1, <2>1 DEF HeldInWindow, Sounding
<1>10. sinceStart' = 0 => starts
  BY <1>4, Numbers DEF Began, Older, IInv, TypeOK
<1> QED
  BY <1>6, <1>7, <1>8, <1>9, <1>10 DEF IInv

\* The functions without a timer.
LEMMA OtherSteps ==
  ASSUME IInv, TypeOK', NEW reading \in Reading, NEW d \in 1 .. MaxStep,
         \/ dToggleOSC(reading, d) \/ digitalReadOSC(reading, d)
         \/ digitalReadOSCINV(reading, d) \/ analogReadINV(reading, d),
         uptime' < Period
  PROVE  IInv' /\ function \notin {"dpad", "atoggle"}
<1>1. /\ function \in {"dtoggle", "digital", "digitalinv", "analoginv"}
      /\ function' = function /\ timer' = timer /\ Pass(reading, d)
  BY DEF dToggleOSC, digitalReadOSC, digitalReadOSCINV, analogReadINV, Plain, Pass
<1>2. TypeOK /\ ClockIsUptime
  BY DEF IInv
<1>3. uptime' = uptime + d /\ micros' = uptime' /\ timer <= uptime
  BY <1>1, <1>2, TurnOfTheClock
<1>4. timer' <= uptime'
  BY <1>1, <1>2, <1>3, Numbers DEF TypeOK
<1>5. ClockIsUptime'
  BY <1>3, <1>4 DEF ClockIsUptime
<1>6. TimerIsHit' /\ SoundsInWindow' /\ HeldInWindow' /\ BeganWithHit'
  BY <1>1 DEF TimerIsHit, SoundsInWindow, HeldInWindow, BeganWithHit
<1> QED
  BY <1>1, <1>5, <1>6 DEF IInv

LEMMA StepIInv ==
  ASSUME IInv, [Next]_vars
  PROVE  IInv'
<1>1. TypeOK'
  BY StepTypes DEF IInv
<1>2. CASE Next
  <2>1. PICK reading \in Reading, d \in 1 .. MaxStep :
          \/ drumpad(reading, d) \/ longDrumpad(reading, d) \/ aToggleOSC(reading, d)
          \/ dToggleOSC(reading, d) \/ digitalReadOSC(reading, d)
          \/ digitalReadOSCINV(reading, d) \/ analogReadINV(reading, d)
    BY <1>2 DEF Next
  <2>2. CASE uptime' < Period
    BY <1>1, <2>1, <2>2, DrumpadSteps, LongDrumpadSteps, AToggleSteps, OtherSteps
  <2>3. CASE ~(uptime' < Period)
    BY <1>1, <2>3, AfterThePeriod
  <2> QED
    BY <2>2, <2>3
<1>3. CASE UNCHANGED vars
  BY <1>1, <1>3 DEF vars, IInv, ClockIsUptime, TimerIsHit, SoundsInWindow,
                    HeldInWindow, BeganWithHit, Window, Sounding, StartedAt
<1> QED
  BY <1>2, <1>3

-----------------------------------------------------------------------------
(* The theorems *)

\* The invariant of the pads: what the timer says of hits and notes, until the
\* clock wraps.
THEOREM IInvAlways == Spec => []IInv
<1> QED
  BY InitIInv, StepIInv, PTL DEF Spec

\* Clock, timers and ages stay inside their ranges, and no function returns more
\* than ten bits, whatever is read and however long a turn takes.
THEOREM TypeCorrect == Spec => []TypeOK
<1>1. IInv => TypeOK
  BY DEF IInv
<1> QED
  BY <1>1, IInvAlways, PTL

\* A pad that nobody has hit for the length of a note reads 0: from the first
\* note length after power-up until micros() wraps, for all sizes.
THEOREM SilentAlways == Spec => []SilentUnlessHit
<1>1. IInv => SilentUnlessHit
  <2> SUFFICES ASSUME IInv, function \in {"dpad", "long"}, uptime >= Window,
                      uptime < Period, out # 0
               PROVE  sinceHigh < Window
    BY DEF SilentUnlessHit
  <2>1. /\ uptime \in Nat /\ timer \in Nat /\ sinceHigh \in Nat /\ Window \in Nat \ {0}
    BY Numbers DEF IInv, TypeOK, Window
  <2>2. uptime - timer < Window
    BY DEF IInv, SoundsInWindow
  <2>3. timer # 0
    BY <2>1, <2>2
  <2>4. sinceHigh <= uptime - timer
    BY <2>3 DEF IInv, TimerIsHit
  <2> QED
    BY <2>1, <2>2, <2>4
<1> QED
  BY <1>1, IInvAlways, PTL

\* Two notes of a pad, or two changes of its toggle, begin at least TIME_WAIT
\* apart, however it bounces.
THEOREM NotesApartAlways == Spec => NotesAreApart
<1> DEFINE A == /\ function \in {"dpad", "atoggle"} /\ sinceStart' = 0
                /\ StartedAt >= TimeWait /\ uptime' < Period
                => uptime' - StartedAt >= TimeWait
<1>1. IInv /\ [Next]_vars => [A]_vars
  <2> SUFFICES ASSUME IInv, Next, function \in {"dpad", "atoggle"}, sinceStart' = 0,
                      StartedAt >= TimeWait, uptime' < Period
               PROVE  uptime' - StartedAt >= TimeWait
    OBVIOUS
  <2>1. PICK reading \in Reading, d \in 1 .. MaxStep :
          \/ drumpad(reading, d) \/ longDrumpad(reading, d) \/ aToggleOSC(reading, d)
          \/ dToggleOSC(reading, d) \/ digitalReadOSC(reading, d)
          \/ digitalReadOSCINV(reading, d) \/ analogReadINV(reading, d)
    BY DEF Next
  <2>2. TypeOK'
    BY StepTypes DEF IInv
  <2>3. CASE drumpad(reading, d)
    BY <2>2, <2>3, DrumpadSteps
  <2>4. CASE aToggleOSC(reading, d)
    BY <2>2, <2>4, AToggleSteps
  <2>5. ~longDrumpad(reading, d)
    BY DEF longDrumpad
  <2> QED
    BY <2>1, <2>2, <2>3, <2>4, <2>5, OtherSteps
<1> QED
  BY <1>1, IInvAlways, PTL DEF Spec, NotesAreApart

\* For TIME_WAIT from its beginning, the value of a note never falls.
THEOREM NotesWholeAlways == Spec => NotesAreWhole
<1> DEFINE A == /\ function = "dpad"
                /\ StartedAt >= TimeWait /\ uptime' < Period
                /\ uptime' - StartedAt < TimeWait
                => out' >= out
<1>1. IInv /\ [Next]_vars => [A]_vars
  <2> SUFFICES ASSUME IInv, Next, function = "dpad", StartedAt >= TimeWait,
                      uptime' < Period, uptime' - StartedAt < TimeWait
               PROVE  out' >= out
    OBVIOUS
  <2>1. PICK reading \in Reading, d \in 1 .. MaxStep : drumpad(reading, d)
    BY DEF Next, longDrumpad, aToggleOSC, dToggleOSC, digitalReadOSC,
           digitalReadOSCINV, analogReadINV
  <2>2. TypeOK'
    BY StepTypes DEF IInv
  <2> QED
    BY <2>1, <2>2, DrumpadSteps
<1> QED
  BY <1>1, IInvAlways, PTL DEF Spec, NotesAreWhole

=============================================================================
