---------------------------- MODULE DrumpadRead ----------------------------
(***************************************************************************)
(* Drumpad_read.h and .cpp: the functions a device reads one pin with, four  *)
(* of them with the static state their macros set up.  buildMessage() calls *)
(* the function once per turn of loop(), at the time micros() tells, which  *)
(* wraps.  The reading and the time a turn takes are what they are.         *)
(***************************************************************************)
EXTENDS Integers

CONSTANTS Reading,    \* what analogRead() returns; not 0 means digitally high
          Threshold,  \* THRESHOLD
          TimeWait,   \* TIME_WAIT
          NoteLen,    \* NOTE_LEN
          Period,     \* 2^32: how many values micros() has
          MaxStep     \* bound: the longest turn of loop()

ASSUME ReadingAssumption == Reading \subseteq 0 .. 1023 /\ Threshold \in Nat \ {0}
ASSUME TimeAssumption ==
  /\ TimeWait \in Nat \ {0} /\ NoteLen \in Nat \ {0}
  /\ Period \in Nat /\ MaxStep \in Nat
  /\ TimeWait + MaxStep < Period /\ NoteLen + MaxStep < Period

READMIN == 0
READMAX == 1023

VARIABLES
  function,   \* the function of the pin
  micros,     \* the clock
  timer,      \* TIMER(x)
  last,       \* LAST(x)
  signal,     \* S_STATUS(x)
  toggle,     \* AT_STATUS(x) or DT_STATUS(x) is T_HIGH
  button,     \* AB_STATUS(x) or DB_STATUS(x) is T_HIGH
  out,        \* the value returned last
  uptime,     \* history: time since power-up, Period for that much or more
  sinceHigh,  \* history: time since a reading was over the threshold, likewise
  sinceStart  \* history: time since a note began or the toggle changed, likewise

vars == <<function, micros, timer, last, signal, toggle, button, out,
          uptime, sinceHigh, sinceStart>>

Function == {"dpad", "long", "atoggle", "dtoggle", "digital", "digitalinv", "analoginv"}

Init ==
  /\ function \in Function
  /\ micros = 0 /\ timer = 0 /\ last = 0
  /\ signal = "down" /\ toggle = FALSE /\ button = FALSE
  /\ out = 0
  /\ uptime = 0 /\ sinceHigh = Period /\ sinceStart = Period

Larger(a, b) == IF a >= b THEN a ELSE b

\* ABS(t - TIMER(x)) of unsigned numbers.
Elapsed(t) == (t - timer) % Period

-----------------------------------------------------------------------------
(* The functions: what they return and the state they leave *)

\* Faults: what is below the threshold passes; the peak is not held.
DrumpadRaw(reading, t) ==
  IF Elapsed(t) < TimeWait
    THEN [out |-> Larger(last, reading), last |-> Larger(last, reading),
          timer |-> timer]
    ELSE [out |-> reading, last |-> reading, timer |-> t]

DrumpadNoPeak(reading, t) ==
  IF Elapsed(t) < TimeWait
    THEN [out |-> reading, last |-> reading, timer |-> timer]
  ELSE IF reading > Threshold
    THEN [out |-> reading, last |-> reading, timer |-> t]
  ELSE [out |-> 0, last |-> last, timer |-> timer]

readDrumpadValue(reading, t) ==
  IF Elapsed(t) < TimeWait
    THEN [out |-> Larger(last, reading), last |-> Larger(last, reading),
          timer |-> timer]
  ELSE IF reading > Threshold
    THEN [out |-> reading, last |-> reading, timer |-> t]
  ELSE [out |-> 0, last |-> last, timer |-> timer]

\* The status runs up while readings are high and down while they are low.
SignalAfter(reading) ==
  IF reading > Threshold
    THEN IF signal = "raising" THEN "up" ELSE "raising"
    ELSE IF signal = "falling" THEN "down" ELSE "falling"

readLongDrumpadValue(reading, t) ==
  LET raising == SignalAfter(reading) = "raising"
      within  == Elapsed(t) < NoteLen
  IN  [out   |-> IF within /\ ~raising THEN Larger(last, reading)
                 ELSE IF raising /\ ~within THEN reading ELSE 0,
       last  |-> IF raising THEN reading
                 ELSE IF within THEN Larger(last, reading) ELSE last,
       timer |-> IF raising THEN t ELSE timer]

\* One press of a button turns the toggle over.
Flips(pressed) == pressed /\ ~button

Shown(on) == IF on THEN READMAX ELSE READMIN

-----------------------------------------------------------------------------
(* One turn of loop() *)

\* Fault: a clock that does not wrap.
MicrosUnwrapped(d) == micros + d

Micros(d) == (micros + d) % Period

Older(age, d) == IF age + d > Period THEN Period ELSE age + d

Pass(reading, d) ==
  /\ micros' = Micros(d)
  /\ uptime' = Older(uptime, d)
  /\ sinceHigh' = IF reading > Threshold THEN 0 ELSE Older(sinceHigh, d)
  /\ UNCHANGED function

Began(starts, d) == sinceStart' = IF starts THEN 0 ELSE Older(sinceStart, d)

drumpad(reading, d) ==
  /\ function = "dpad"
  /\ LET r == readDrumpadValue(reading, Micros(d))
     IN  out' = r.out /\ last' = r.last /\ timer' = r.timer
  /\ Pass(reading, d)
  /\ Began(out = 0 /\ out' # 0, d)
  /\ UNCHANGED <<signal, toggle, button>>

longDrumpad(reading, d) ==
  /\ function = "long"
  /\ LET r == readLongDrumpadValue(reading, Micros(d))
     IN  out' = r.out /\ last' = r.last /\ timer' = r.timer
  /\ signal' = SignalAfter(reading)
  /\ Pass(reading, d)
  /\ Began(out = 0 /\ out' # 0, d)
  /\ UNCHANGED <<toggle, button>>

Press(pressed, d) ==
  /\ toggle' = (toggle # Flips(pressed))
  /\ button' = pressed
  /\ out' = Shown(toggle')
  /\ Began(Flips(pressed), d)

\* Fault: the button is the pin itself and not the debounced pad.
ToggleRaw(reading, d) ==
  /\ function = "atoggle"
  /\ Press(reading >= Threshold, d)
  /\ Pass(reading, d)
  /\ UNCHANGED <<signal, last, timer>>

aToggleOSC(reading, d) ==
  /\ function = "atoggle"
  /\ LET r == readDrumpadValue(reading, Micros(d))
     IN  /\ last' = r.last /\ timer' = r.timer
         /\ Press(r.out >= Threshold, d)
  /\ Pass(reading, d)
  /\ UNCHANGED signal

dToggleOSC(reading, d) ==
  /\ function = "dtoggle"
  /\ Press(reading # 0, d)
  /\ Pass(reading, d)
  /\ UNCHANGED <<timer, last, signal>>

\* The functions without state.
Plain(value, reading, d) ==
  /\ out' = value
  /\ Pass(reading, d)
  /\ Began(FALSE, d)
  /\ UNCHANGED <<timer, last, signal, toggle, button>>

digitalReadOSC(reading, d) ==
  function = "digital" /\ Plain(Shown(reading # 0), reading, d)

digitalReadOSCINV(reading, d) ==
  function = "digitalinv" /\ Plain(Shown(reading = 0), reading, d)

analogReadINV(reading, d) ==
  function = "analoginv" /\ Plain(READMAX - reading, reading, d)

Next ==
  \E reading \in Reading, d \in 1 .. MaxStep :
    \/ drumpad(reading, d)
    \/ longDrumpad(reading, d)
    \/ aToggleOSC(reading, d)
    \/ dToggleOSC(reading, d)
    \/ digitalReadOSC(reading, d)
    \/ digitalReadOSCINV(reading, d)
    \/ analogReadINV(reading, d)

Spec == Init /\ [][Next]_vars

-----------------------------------------------------------------------------
(* Properties *)

\* Every variable has its type.
TypeOK ==
  /\ function \in Function
  /\ micros \in 0 .. Period - 1 /\ timer \in 0 .. Period - 1
  /\ last \in Reading \cup {0} /\ out \in READMIN .. READMAX
  /\ signal \in {"down", "raising", "up", "falling"}
  /\ toggle \in BOOLEAN /\ button \in BOOLEAN
  /\ uptime \in 0 .. Period /\ sinceHigh \in 0 .. Period
  /\ sinceStart \in 0 .. Period

Window == IF function = "long" THEN NoteLen ELSE TimeWait

\* A pad nobody has hit for the length of a note reads 0, whatever noise below
\* the threshold it picks up.  The code keeps this after the first note length
\* and until micros() wraps for the first time: TIMER(x) starts at 0, and a
\* difference of unsigned clock values forgets whole periods.
SilentUnlessHit ==
  function \in {"dpad", "long"} /\ uptime >= Window /\ uptime < Period
    => (out # 0 => sinceHigh < Window)

\* When the current note began, or the toggle changed last.
StartedAt == uptime - sinceStart

\* A pad that bounces plays one note, and a toggle changes once: two notes, or
\* two changes, begin at least TIME_WAIT apart.
NotesAreApart ==
  [][(/\ function \in {"dpad", "atoggle"} /\ sinceStart' = 0
      /\ StartedAt >= TimeWait /\ uptime' < Period)
        => uptime' - StartedAt >= TimeWait]_vars

\* For that long the value of a note never falls, so that its peak is what the
\* receiver keeps.
NotesAreWhole ==
  [][(/\ function = "dpad"
      /\ StartedAt >= TimeWait /\ uptime' < Period
      /\ uptime' - StartedAt < TimeWait)
        => out' >= out]_vars

=============================================================================
