--------------------------- MODULE MessageBuffer ---------------------------
(***************************************************************************)
(* MessageBuffer.c: the readings of one device since its last callback, and *)
(* flushMessageBuffer(), which decides which of them become OSC messages.   *)
(* One step per reading and one per look at the reading behind it.  What    *)
(* sendMessageToBundle() passes to addToBundle() is kept in out; its result *)
(* is ignored by the code and here.  malloc() hands out memory with any     *)
(* content, or fails: flushMessageBuffer() without memory changes nothing,  *)
(* and sendMessageToBundle() without memory sends nothing and its caller    *)
(* does not know.                                                           *)
(***************************************************************************)
EXTENDS Integers, Sequences

CONSTANTS VarN,          \* var_n, variables of the device
          Value,         \* the bytes a sensor can read
          DerThreshold,  \* DER_THRESHOLD
          Capacity       \* MSG_BUFF_CAPACITY

ASSUME VarNAssumption == VarN \in Nat \ {0}
ASSUME ValueAssumption == Value \subseteq 0 .. 255
ASSUME ThresholdAssumption == DerThreshold \in Nat
ASSUME CapacityAssumption == Capacity \in Nat /\ Capacity >= VarN

VARIABLES
  buff,       \* the readings, and whatever lies behind them
  n_vals,     \* how many readings buff holds
  last_sent,  \* the message sent last, before that what malloc() left
  tmp,        \* the message being put together
  changed,    \* the variables tmp has a new value of
  i,          \* the reading flushMessageBuffer() is at
  phase,      \* "idle", or in flushMessageBuffer(): "take" or "look"
  base,       \* history: last_sent when the flush began
  out,        \* history: what this flush has sent
  unsent      \* history: this flush could not send a message

vars == <<buff, n_vals, last_sent, tmp, changed, i, phase, base, out, unsent>>

Var == 1 .. VarN
Reading == [Var -> Value]
Index == 0 .. Capacity - 1

\* ABS(x - y) > DER_THRESHOLD, where the macro has no parentheses around its
\* conditional: (x - y < 0) ? -(x - y) : (x - y > DER_THRESHOLD).
Differs(x, y) == IF x - y < 0 THEN -(x - y) # 0 ELSE x - y > DerThreshold

\* The test before flushMessageBuffer() looks at the next reading.
LooksAhead == i + 1 < VarN

Init ==
  /\ buff \in [Index -> Reading]
  /\ n_vals = 0
  /\ last_sent \in Reading
  /\ tmp = last_sent /\ base = last_sent
  /\ changed = {} /\ i = 0 /\ phase = "idle"
  /\ out = << >> /\ unsent = FALSE

\* Fault: a message buffer that does not know its capacity.
AddUnguarded(values) ==
  /\ phase = "idle"
  /\ buff' = [buff EXCEPT ![n_vals] = values]
  /\ n_vals' = n_vals + 1
  /\ UNCHANGED <<last_sent, tmp, changed, i, phase, base, out, unsent>>

addToMessageBuffer(values) ==
  /\ phase = "idle"
  /\ n_vals < Capacity
  /\ buff' = [buff EXCEPT ![n_vals] = values]
  /\ n_vals' = n_vals + 1
  /\ UNCHANGED <<last_sent, tmp, changed, i, phase, base, out, unsent>>

flushMessageBuffer ==
  /\ phase = "idle"
  /\ n_vals # 0
  /\ tmp' = last_sent /\ base' = last_sent
  /\ changed' = {} /\ i' = 0 /\ phase' = "take"
  /\ out' = << >> /\ unsent' = FALSE
  /\ UNCHANGED <<buff, n_vals, last_sent>>

\* Fault: a value that has been taken is replaced by the next one.
TakenAgain == {j \in Var : Differs(buff[i][j], tmp[j])}

\* Fault: a reading is compared with the one before it, not with what was told.
TakenBySteps ==
  {j \in Var \ changed : i > 0 /\ Differs(buff[i][j], buff[i - 1][j])}

\* The variables whose value in reading i is taken.
Taken == {j \in Var \ changed : Differs(buff[i][j], tmp[j])}

\* Fault: one reading too many.
TakeOneMore ==
  /\ phase = "take"
  /\ i <= n_vals
  /\ tmp' = [j \in Var |-> IF j \in Taken THEN buff[i][j] ELSE tmp[j]]
  /\ changed' = changed \cup Taken
  /\ phase' = "look"
  /\ UNCHANGED <<buff, n_vals, last_sent, i, base, out, unsent>>

takeValues ==
  /\ phase = "take"
  /\ i < n_vals
  /\ tmp' = [j \in Var |-> IF j \in Taken THEN buff[i][j] ELSE tmp[j]]
  /\ changed' = changed \cup Taken
  /\ phase' = "look"
  /\ UNCHANGED <<buff, n_vals, last_sent, i, base, out, unsent>>

sendMessageToBundle ==
  \/ out' = Append(out, tmp) /\ last_sent' = tmp /\ UNCHANGED unsent
  \/ unsent' = TRUE /\ UNCHANGED <<out, last_sent>>

MustSendNow ==
  LooksAhead /\ \E j \in changed : Differs(buff[i + 1][j], tmp[j])

\* Fault: changed[] is cleared whether or not the message was sent.
LookAndForget ==
  /\ phase = "look"
  /\ IF MustSendNow
       THEN sendMessageToBundle
       ELSE UNCHANGED <<out, last_sent, unsent>>
  /\ changed' = {}
  /\ i' = i + 1
  /\ phase' = "take"
  /\ UNCHANGED <<buff, n_vals, tmp, base>>

lookAhead ==
  /\ phase = "look"
  /\ IF MustSendNow
       THEN sendMessageToBundle /\ changed' = {}
       ELSE UNCHANGED <<out, last_sent, changed, unsent>>
  /\ i' = i + 1
  /\ phase' = "take"
  /\ UNCHANGED <<buff, n_vals, tmp, base>>

flushEnd ==
  /\ phase = "take"
  /\ i = n_vals
  /\ IF changed # {}
       THEN sendMessageToBundle
       ELSE UNCHANGED <<out, last_sent, unsent>>
  /\ n_vals' = 0
  /\ phase' = "idle"
  /\ UNCHANGED <<buff, tmp, changed, i, base>>

Next ==
  \/ \E values \in Reading : addToMessageBuffer(values)
  \/ flushMessageBuffer
  \/ takeValues
  \/ lookAhead
  \/ flushEnd

Spec == Init /\ [][Next]_vars

-----------------------------------------------------------------------------
(* Properties *)

\* Every variable has its type.
TypeOK ==
  /\ buff \in [Index -> Reading]
  /\ n_vals \in 0 .. Capacity /\ i \in 0 .. Capacity
  /\ last_sent \in Reading /\ tmp \in Reading /\ base \in Reading
  /\ changed \subseteq Var
  /\ phase \in {"idle", "take", "look"}
  /\ out \in Seq(Reading) /\ unsent \in BOOLEAN

Previous(k) == IF k = 1 THEN base ELSE out[k - 1]

\* No message repeats the one before it, and a variable that changes from one
\* message to the next passed the threshold test against that message: nothing
\* else finds its way into tmp between two messages.  A message that could not
\* be sent stays in tmp, where the rest of the flush is compared with it.
EveryMessageIsNews ==
  ~unsent =>
    \A k \in 1 .. Len(out) :
      /\ out[k] # Previous(k)
      /\ \A j \in Var : \/ out[k][j] = Previous(k)[j]
                        \/ Differs(out[k][j], Previous(k)[j])

\* The message being put together is the last one sent, except for values of
\* readings this flush has come to: looking at what lies behind the readings
\* never lets such a value into a message.
OnlyValuesOfThisBatch ==
  phase # "idle" =>
    \A j \in Var :
      \/ tmp[j] = last_sent[j]
      \/ \E k \in 0 .. n_vals - 1 : k <= i /\ tmp[j] = buff[k][j]

\* A reading that passes the threshold test against the last message before the
\* flush is never overlooked: some message of this flush, or the one being put
\* together, has a new value of that variable (not always the value that was
\* read), unless there was no memory to send with.
EveryChangeReported ==
  phase = "take" /\ ~unsent =>
    \A k \in 0 .. i - 1, j \in Var :
      Differs(buff[k][j], base[j]) =>
        \/ j \in changed
        \/ \E m \in 1 .. Len(out) : out[m][j] # base[j]

Near(value, j) ==
  \E k \in 0 .. n_vals - 1 : buff[k][j] - value \in -DerThreshold .. DerThreshold

\* Each value of a message is within the threshold of a reading of the same flush,
\* also where it was not taken from one: neither what malloc() left in last_sent,
\* nor a value told long ago, nor one that could not be sent, goes into a message
\* when all readings have left it behind.
SentValuesAreNear ==
  [][Len(out') > Len(out) => \A j \in Var : Near(out'[Len(out')][j], j)]_vars

\* DER_THRESHOLD is the "min difference between two values" sent one after the
\* other.
MinDifference ==
  ~unsent => \A k \in 1 .. Len(out), j \in Var :
    LET d == out[k][j] - Previous(k)[j]
    IN  d = 0 \/ d >= DerThreshold \/ -d >= DerThreshold

\* flushMessageBuffer() looks at the next reading unless it is at "the last
\* item in buffer", so that a value that is about to be superseded is sent
\* straight away and the last reading never stays unreported.
LastReadingReported ==
  phase = "take" /\ i = n_vals /\ ~unsent =>
    \A j \in Var : ~Differs(buff[n_vals - 1][j], tmp[j])

=============================================================================
