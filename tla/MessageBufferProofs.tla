------------------------- MODULE MessageBufferProofs -------------------------
(***************************************************************************)
(* For every number of variables and of readings, every threshold and every *)
(* content of the memory: what flushMessageBuffer() sends is new, comes     *)
(* from the readings it was given, and leaves no change out.                *)
(***************************************************************************)
EXTENDS MessageBuffer, SequenceTheorems, TLAPS

\* A flush ends at the last reading.
InBatch ==
  /\ phase = "take" => i <= n_vals
  /\ phase = "look" => i < n_vals

\* Unless a message could not be sent, last_sent is the one before the next.
LastOfAll == ~unsent => last_sent = Previous(Len(out) + 1)

\* tmp is the last message but for the variables that changed.
Prepared ==
  ~unsent /\ phase # "idle" =>
    \A j \in Var : IF j \in changed THEN Differs(tmp[j], last_sent[j])
                                    ELSE tmp[j] = last_sent[j]

\* The readings this flush has taken its values from.
Seen(k) == k < i \/ (phase = "look" /\ k = i)

\* EveryChangeReported, between the two steps of a reading as well.
Noticed ==
  ~unsent /\ phase # "idle" =>
    \A k \in 0 .. n_vals - 1, j \in Var :
      Seen(k) /\ Differs(buff[k][j], base[j]) =>
        \/ j \in changed
        \/ \E m \in 1 .. Len(out) : out[m][j] # base[j]

\* Once a reading was seen, each value of tmp is near one of this flush.
Tracking ==
  phase # "idle" =>
    IF phase = "take" /\ i = 0 THEN changed = {} ELSE \A j \in Var : Near(tmp[j], j)

IInv ==
  /\ TypeOK /\ InBatch /\ OnlyValuesOfThisBatch
  /\ LastOfAll /\ Prepared /\ EveryMessageIsNews /\ Noticed /\ Tracking

-----------------------------------------------------------------------------
LEMMA Sizes ==
  /\ VarN \in Nat /\ Capacity \in Nat /\ DerThreshold \in Nat
  /\ VarN > 0 /\ Capacity >= VarN
  /\ Value \subseteq Int
BY VarNAssumption, ValueAssumption, ThresholdAssumption, CapacityAssumption

\* The threshold test finds no difference between a value and itself.
LEMMA DiffersFromOthers ==
  ASSUME NEW x \in Value
  PROVE  ~Differs(x, x)
<1>1. x \in Int
  BY Sizes
<1> QED
  BY <1>1, Sizes DEF Differs

\* A value that does not pass the threshold test is within the threshold.
LEMMA NearOrDiffers ==
  ASSUME NEW x \in Value, NEW y \in Value
  PROVE  /\ ~Differs(x, y) => x - y \in -DerThreshold .. DerThreshold
         /\ x - x \in -DerThreshold .. DerThreshold
<1>1. x \in Int /\ y \in Int
  BY Sizes
<1> QED
  BY <1>1, Sizes DEF Differs

LEMMA Bounds ==
  ASSUME TypeOK
  PROVE  /\ n_vals \in Nat /\ i \in Nat /\ n_vals <= Capacity
         /\ \A k \in 0 .. n_vals - 1 : k \in Index /\ buff[k] \in Reading
BY Sizes DEF TypeOK, Index

\* What sending adds to the messages of this flush.
LEMMA Sends ==
  ASSUME TypeOK, sendMessageToBundle, ~unsent'
  PROVE  /\ ~unsent /\ last_sent' = tmp
         /\ Len(out) \in Nat /\ Len(out') = Len(out) + 1
         /\ out' \in Seq(Reading)
         /\ \A k \in 1 .. Len(out) : out'[k] = out[k]
         /\ out'[Len(out) + 1] = tmp
<1>1. out' = Append(out, tmp) /\ last_sent' = tmp /\ ~unsent
  BY DEF sendMessageToBundle
<1>2. out \in Seq(Reading) /\ tmp \in Reading
  BY DEF TypeOK
<1> QED
  BY <1>1, <1>2, AppendProperties, LenProperties

LEMMA TypesAtInit == Init => TypeOK /\ InBatch
<1> SUFFICES ASSUME Init PROVE TypeOK /\ InBatch
  OBVIOUS
<1>1. out \in Seq(Reading) /\ unsent \in BOOLEAN
  <2>1. out = << >> /\ unsent = FALSE
    BY DEF Init
  <2>2. << >> \in Seq(Reading) /\ FALSE \in BOOLEAN
    OBVIOUS
  <2> QED
    BY <2>1, <2>2
<1>2. n_vals \in 0 .. Capacity /\ i \in 0 .. Capacity
  BY Sizes DEF Init
<1>3. InBatch
  BY DEF Init, InBatch
<1> QED
  BY <1>1, <1>2, <1>3 DEF Init, TypeOK

LEMMA TypesByStep == TypeOK /\ InBatch /\ [Next]_vars => TypeOK' /\ InBatch'
<1> SUFFICES ASSUME TypeOK, InBatch, [Next]_vars PROVE TypeOK' /\ InBatch'
  OBVIOUS
<1>1. sendMessageToBundle =>
        last_sent' \in Reading /\ out' \in Seq(Reading) /\ unsent' \in BOOLEAN
  <2>1. CASE out' = Append(out, tmp) /\ last_sent' = tmp /\ UNCHANGED unsent
    <3>1. out' \in Seq(Reading) /\ last_sent' \in Reading
      BY <2>1, AppendProperties DEF TypeOK
    <3>2. unsent' \in BOOLEAN
      BY <2>1 DEF TypeOK
    <3> QED
      BY <3>1, <3>2
  <2>2. CASE unsent' = TRUE /\ UNCHANGED <<out, last_sent>>
    BY <2>2 DEF TypeOK
  <2> QED
    BY <2>1, <2>2 DEF sendMessageToBundle
<1>2. ASSUME NEW values \in Reading, addToMessageBuffer(values)
      PROVE  TypeOK' /\ InBatch'
  <2>1. buff' \in [Index -> Reading]
    BY <1>2 DEF addToMessageBuffer, TypeOK
  <2>2. n_vals' \in 0 .. Capacity
    BY <1>2, Bounds, Sizes DEF addToMessageBuffer
  <2> QED
    BY <1>2, <2>1, <2>2 DEF addToMessageBuffer, TypeOK, InBatch
<1>3. CASE flushMessageBuffer
  <2>1. /\ i' = 0 /\ phase' = "take" /\ changed' = {} /\ unsent' = FALSE
        /\ out' = << >> /\ tmp' = last_sent /\ base' = last_sent
        /\ UNCHANGED <<buff, n_vals, last_sent>>
    BY <1>3 DEF flushMessageBuffer
  <2>2. out' \in Seq(Reading) /\ i' \in 0 .. Capacity /\ i' <= n_vals'
    BY <2>1, Bounds, Sizes
  <2> QED
    BY <2>1, <2>2 DEF TypeOK, InBatch
<1>4. CASE takeValues
  <2>1. /\ i < n_vals /\ phase' = "look"
        /\ UNCHANGED <<buff, n_vals, last_sent, i, base, out, unsent>>
    BY <1>4 DEF takeValues
  <2>2. tmp' \in Reading
    <3>1. buff[i] \in Reading /\ tmp \in Reading
      BY <2>1, Bounds DEF TypeOK
    <3>2. tmp' = [j \in Var |-> IF j \in Taken THEN buff[i][j] ELSE tmp[j]]
      BY <1>4 DEF takeValues
    <3> QED
      BY <3>1, <3>2 DEF Reading
  <2>3. changed' \subseteq Var
    BY <1>4 DEF takeValues, Taken, TypeOK
  <2> QED
    BY <2>1, <2>2, <2>3 DEF TypeOK, InBatch
<1>5. CASE lookAhead
  <2>1. /\ phase = "look" /\ i' = i + 1 /\ phase' = "take"
        /\ UNCHANGED <<buff, n_vals, tmp, base>>
    BY <1>5 DEF lookAhead
  <2>2. i' \in 0 .. Capacity /\ i' <= n_vals'
    BY <2>1, Bounds, Sizes DEF InBatch
  <2>3. changed' \subseteq Var
    BY <1>5 DEF lookAhead, TypeOK
  <2>4. last_sent' \in Reading /\ out' \in Seq(Reading) /\ unsent' \in BOOLEAN
    <3>1. CASE MustSendNow
      BY <1>1, <1>5, <3>1 DEF lookAhead
    <3>2. CASE ~MustSendNow
      <4>1. UNCHANGED <<last_sent, out, unsent>>
        BY <1>5, <3>2 DEF lookAhead
      <4> QED
        BY <4>1 DEF TypeOK
    <3> QED
      BY <3>1, <3>2
  <2> QED
    BY <2>1, <2>2, <2>3, <2>4 DEF TypeOK, InBatch
<1>6. CASE flushEnd
  <2>1. /\ n_vals' = 0 /\ phase' = "idle"
        /\ UNCHANGED <<buff, tmp, changed, i, base>>
    BY <1>6 DEF flushEnd
  <2>2. n_vals' \in 0 .. Capacity
    BY <2>1, Sizes
  <2>3. last_sent' \in Reading /\ out' \in Seq(Reading) /\ unsent' \in BOOLEAN
    <3>1. CASE changed # {}
      BY <1>1, <1>6, <3>1 DEF flushEnd
    <3>2. CASE changed = {}
      <4>1. UNCHANGED <<last_sent, out, unsent>>
        BY <1>6, <3>2 DEF flushEnd
      <4> QED
        BY <4>1 DEF TypeOK
    <3> QED
      BY <3>1, <3>2
  <2> QED
    BY <2>1, <2>2, <2>3 DEF TypeOK, InBatch
<1>7. CASE UNCHANGED vars
  BY <1>7 DEF vars, TypeOK, InBatch
<1> QED
  BY <1>2, <1>3, <1>4, <1>5, <1>6, <1>7 DEF Next

\* Every variable keeps its type: the readings stay inside the buffer and a
\* flush inside the readings, with every capacity.
THEOREM TypeCorrect == Spec => []TypeOK
<1>1. Spec => [](TypeOK /\ InBatch)
  BY TypesAtInit, TypesByStep, PTL DEF Spec
<1> QED
  BY <1>1, PTL

-----------------------------------------------------------------------------
(* What a flush sends *)

LEMMA BatchByStep ==
  TypeOK /\ InBatch /\ OnlyValuesOfThisBatch /\ [Next]_vars => OnlyValuesOfThisBatch'
<1> SUFFICES ASSUME TypeOK, InBatch, OnlyValuesOfThisBatch, [Next]_vars,
                    phase' # "idle", NEW j \in Var
             PROVE  \/ tmp'[j] = last_sent'[j]
                    \/ \E k \in 0 .. n_vals' - 1 : k <= i' /\ tmp'[j] = buff'[k][j]
  BY DEF OnlyValuesOfThisBatch
<1>1. CASE flushMessageBuffer
  BY <1>1 DEF flushMessageBuffer
<1>2. CASE takeValues
  <2>1. /\ phase = "take" /\ i \in 0 .. n_vals - 1
        /\ UNCHANGED <<buff, n_vals, last_sent, i>>
        /\ tmp'[j] = IF j \in Taken THEN buff[i][j] ELSE tmp[j]
    BY <1>2, Bounds DEF takeValues
  <2>2. CASE j \in Taken
    <3>1. i' \in 0 .. n_vals' - 1 /\ i' <= i' /\ tmp'[j] = buff'[i'][j]
      BY <2>1, <2>2, Bounds
    <3> QED
      BY <3>1
  <2>3. CASE j \notin Taken
    BY <2>1, <2>3 DEF OnlyValuesOfThisBatch
  <2> QED
    BY <2>2, <2>3
<1>3. CASE lookAhead
  <2>1. phase = "look" /\ i' = i + 1 /\ UNCHANGED <<buff, n_vals, tmp>>
    BY <1>3 DEF lookAhead
  <2>2. last_sent' = tmp \/ last_sent' = last_sent
    BY <1>3 DEF lookAhead, sendMessageToBundle
  <2>3. CASE tmp[j] = last_sent[j]
    BY <2>1, <2>2, <2>3
  <2>4. CASE \E k \in 0 .. n_vals - 1 : k <= i /\ tmp[j] = buff[k][j]
    <3>1. PICK k \in 0 .. n_vals - 1 : k <= i /\ tmp[j] = buff[k][j]
      BY <2>4
    <3>2. k \in 0 .. n_vals' - 1 /\ k <= i' /\ tmp'[j] = buff'[k][j]
      BY <2>1, <3>1, Bounds
    <3> QED
      BY <3>2
  <2> QED
    BY <2>1, <2>3, <2>4 DEF OnlyValuesOfThisBatch
<1>4. CASE UNCHANGED vars
  BY <1>4 DEF vars, OnlyValuesOfThisBatch
<1> QED
  BY <1>1, <1>2, <1>3, <1>4 DEF Next, addToMessageBuffer, flushEnd

\* Sending what was prepared: the message is news, and the one before the next.
LEMMA SendsNews ==
  ASSUME TypeOK, LastOfAll, Prepared, EveryMessageIsNews,
         phase # "idle", changed # {}, sendMessageToBundle, UNCHANGED base
  PROVE  LastOfAll' /\ EveryMessageIsNews'
<1> SUFFICES ASSUME ~unsent'
             PROVE  /\ last_sent' = Previous(Len(out) + 1)'
                    /\ \A k \in 1 .. Len(out') :
                         /\ out'[k] # Previous(k)'
                         /\ \A j \in Var : \/ out'[k][j] = Previous(k)'[j]
                                           \/ Differs(out'[k][j], Previous(k)'[j])
  BY DEF LastOfAll, EveryMessageIsNews
<1> DEFINE New == Len(out) + 1
<1>1. /\ ~unsent /\ last_sent' = tmp
      /\ Len(out) \in Nat /\ Len(out') = New
      /\ \A k \in 1 .. Len(out) : out'[k] = out[k]
      /\ out'[New] = tmp
  BY Sends
<1>2. last_sent = Previous(New) /\ tmp \in Reading /\ last_sent \in Reading
  BY <1>1 DEF LastOfAll, TypeOK
<1>3. \A k \in 1 .. New : Previous(k)' = Previous(k)
  BY <1>1 DEF Previous
<1>4. \A j \in Var : IF j \in changed THEN Differs(tmp[j], last_sent[j])
                                      ELSE tmp[j] = last_sent[j]
  BY <1>1 DEF Prepared
<1>5. tmp # last_sent
  <2>1. PICK j \in changed : j \in Var
    BY DEF TypeOK
  <2>2. last_sent[j] \in Value
    BY <1>2, <2>1 DEF Reading
  <2> QED
    BY <1>4, <2>1, <2>2, DiffersFromOthers
<1>6. last_sent' = Previous(Len(out) + 1)'
  <2>1. Len(out') + 1 # 1 /\ Len(out') + 1 - 1 = New
    BY <1>1
  <2> QED
    BY <1>1, <2>1 DEF Previous
<1>7. ASSUME NEW k \in 1 .. Len(out')
      PROVE  /\ out'[k] # Previous(k)'
             /\ \A j \in Var : \/ out'[k][j] = Previous(k)'[j]
                               \/ Differs(out'[k][j], Previous(k)'[j])
  <2>1. CASE k \in 1 .. Len(out)
    BY <1>1, <1>3, <2>1 DEF EveryMessageIsNews
  <2>2. CASE k = New
    BY <1>1, <1>2, <1>3, <1>4, <1>5, <2>2
  <2> QED
    BY <1>1, <2>1, <2>2
<1> QED
  BY <1>6, <1>7

LEMMA NewsByStep ==
  TypeOK /\ LastOfAll /\ Prepared /\ EveryMessageIsNews /\ [Next]_vars
    => LastOfAll' /\ Prepared' /\ EveryMessageIsNews'
<1> SUFFICES ASSUME TypeOK, LastOfAll, Prepared, EveryMessageIsNews, [Next]_vars
             PROVE  LastOfAll' /\ Prepared' /\ EveryMessageIsNews'
  OBVIOUS
<1>1. ASSUME UNCHANGED <<last_sent, base, out, unsent>>
      PROVE  LastOfAll' /\ EveryMessageIsNews'
  BY <1>1 DEF LastOfAll, EveryMessageIsNews, Previous
<1>2. ASSUME NEW values \in Reading, addToMessageBuffer(values)
      PROVE  LastOfAll' /\ Prepared' /\ EveryMessageIsNews'
  BY <1>1, <1>2 DEF addToMessageBuffer, Prepared
<1>3. CASE flushMessageBuffer
  <2>1. /\ tmp' = last_sent /\ base' = last_sent /\ changed' = {} /\ out' = << >>
        /\ last_sent' = last_sent
    BY <1>3 DEF flushMessageBuffer
  <2>2. Len(out') = 0
    BY <2>1
  <2> QED
    BY <2>1, <2>2 DEF LastOfAll, Prepared, EveryMessageIsNews, Previous
<1>4. CASE takeValues
  <2>1. /\ phase = "take"
        /\ tmp' = [j \in Var |-> IF j \in Taken THEN buff[i][j] ELSE tmp[j]]
        /\ changed' = changed \cup Taken
        /\ UNCHANGED <<last_sent, base, out, unsent>>
    BY <1>4 DEF takeValues
  <2>2. ASSUME ~unsent', NEW j \in Var
        PROVE  IF j \in changed' THEN Differs(tmp'[j], last_sent'[j])
                                 ELSE tmp'[j] = last_sent'[j]
    <3>1. IF j \in changed THEN Differs(tmp[j], last_sent[j])
                           ELSE tmp[j] = last_sent[j]
      BY <2>1, <2>2 DEF Prepared
    <3>2. CASE j \in Taken
      <4>1. j \notin changed /\ Differs(buff[i][j], tmp[j])
        BY <3>2 DEF Taken
      <4>2. tmp[j] = last_sent[j] /\ tmp'[j] = buff[i][j] /\ j \in changed'
        BY <2>1, <3>1, <3>2, <4>1
      <4> QED
        BY <2>1, <4>1, <4>2
    <3>3. CASE j \notin Taken
      BY <2>1, <3>1, <3>3
    <3> QED
      BY <3>2, <3>3
  <2> QED
    BY <1>1, <2>1, <2>2 DEF Prepared
<1>5. CASE lookAhead
  <2>1. phase = "look" /\ UNCHANGED <<tmp, base>>
    BY <1>5 DEF lookAhead
  <2>2. CASE MustSendNow
    <3>1. sendMessageToBundle /\ changed' = {} /\ changed # {}
      BY <1>5, <2>2 DEF lookAhead, MustSendNow
    <3>2. LastOfAll' /\ EveryMessageIsNews'
      BY <2>1, <3>1, SendsNews
    <3>3. Prepared'
      <4>1. ~unsent' => last_sent' = tmp
        BY <3>1, Sends
      <4> QED
        BY <2>1, <3>1, <4>1 DEF Prepared
    <3> QED
      BY <3>2, <3>3
  <2>3. CASE ~MustSendNow
    <3>1. UNCHANGED <<last_sent, base, out, unsent, changed, tmp>>
      BY <1>5, <2>1, <2>3 DEF lookAhead
    <3> QED
      BY <1>1, <2>1, <3>1 DEF Prepared
  <2> QED
    BY <2>2, <2>3
<1>6. CASE flushEnd
  <2>1. phase = "take" /\ phase' = "idle" /\ UNCHANGED base
    BY <1>6 DEF flushEnd
  <2>2. CASE changed # {}
    BY <1>6, <2>1, <2>2, SendsNews DEF flushEnd, Prepared
  <2>3. CASE changed = {}
    <3>1. UNCHANGED <<last_sent, base, out, unsent>>
      BY <1>6, <2>1, <2>3 DEF flushEnd
    <3> QED
      BY <1>1, <2>1, <3>1 DEF Prepared
  <2> QED
    BY <2>2, <2>3
<1>7. CASE UNCHANGED vars
  BY <1>1, <1>7 DEF vars, Prepared
<1> QED
  BY <1>2, <1>3, <1>4, <1>5, <1>6, <1>7 DEF Next

\* A reading that was seen stays reported: what is sent differs in it.
LEMMA NoticedByStep ==
  TypeOK /\ InBatch /\ LastOfAll /\ Prepared /\ Noticed /\ [Next]_vars => Noticed'
<1> DEFINE Told(j) == j \in changed \/ \E m \in 1 .. Len(out) : out[m][j] # base[j]
<1> SUFFICES ASSUME TypeOK, InBatch, LastOfAll, Prepared, Noticed, [Next]_vars,
                    ~unsent', phase' # "idle",
                    NEW k \in 0 .. n_vals' - 1, NEW j \in Var,
                    Seen(k)', Differs(buff'[k][j], base'[j])
             PROVE  Told(j)'
  BY DEF Noticed
\* The variable has left its value of before the flush.
<1>1. ASSUME ~unsent, phase # "idle",
             j \in changed => last_sent[j] # base[j],
             j \notin changed => tmp[j] # base[j]
      PROVE  \E m \in 1 .. Len(out) : out[m][j] # base[j]
  <2>1. last_sent[j] # base[j]
    BY <1>1 DEF Prepared
  <2>2. Len(out) \in Nat
    BY DEF TypeOK
  <2>3. Len(out) # 0
    <3> SUFFICES ASSUME Len(out) = 0 PROVE FALSE
      OBVIOUS
    <3> QED
      BY <1>1, <2>1 DEF LastOfAll, Previous
  <2>4. last_sent = out[Len(out)]
    BY <1>1, <2>2, <2>3 DEF LastOfAll, Previous
  <2>5. Len(out) \in 1 .. Len(out)
    BY <2>2, <2>3
  <2> QED
    BY <2>1, <2>4, <2>5
<1>2. CASE flushMessageBuffer
  BY <1>2 DEF flushMessageBuffer, Seen
<1>3. CASE takeValues
  <2>1. /\ phase = "take" /\ phase' = "look"
        /\ changed' = changed \cup Taken
        /\ UNCHANGED <<buff, n_vals, i, base, out, unsent>>
    BY <1>3 DEF takeValues
  <2>2. CASE k < i
    BY <2>1, <2>2 DEF Noticed, Seen
  <2>3. CASE k = i
    <3>1. CASE j \in changed'
      BY <3>1
    <3>2. CASE j \notin changed'
      <4>1. j \notin changed /\ ~Differs(buff[i][j], tmp[j])
        BY <2>1, <3>2 DEF Taken
      <4>2. tmp[j] # base[j]
        BY <2>1, <2>3, <4>1
      <4> QED
        BY <1>1, <2>1, <4>1, <4>2
    <3> QED
      BY <3>1, <3>2
  <2> QED
    BY <2>1, <2>2, <2>3 DEF Seen
<1>4. CASE lookAhead
  <2>1. /\ phase = "look" /\ phase' = "take" /\ i' = i + 1
        /\ UNCHANGED <<buff, n_vals, tmp, base>>
    BY <1>4 DEF lookAhead
  <2>2. Seen(k)
    BY <2>1, Bounds DEF Seen
  <2>3. CASE ~MustSendNow
    <3>1. UNCHANGED <<last_sent, out, unsent, changed>>
      BY <1>4, <2>3 DEF lookAhead
    <3> QED
      BY <2>1, <2>2, <3>1 DEF Noticed
  <2>4. CASE MustSendNow
    <3>1. sendMessageToBundle
      BY <1>4, <2>4 DEF lookAhead
    <3>2. /\ ~unsent /\ Len(out) \in Nat /\ Len(out') = Len(out) + 1
          /\ \A m \in 1 .. Len(out) : out'[m] = out[m]
          /\ out'[Len(out) + 1] = tmp
      BY <3>1, Sends
    <3>3. Told(j)
      BY <2>1, <2>2, <3>2 DEF Noticed
    <3>4. CASE \E m \in 1 .. Len(out) : out[m][j] # base[j]
      <4>1. PICK m \in 1 .. Len(out) : out[m][j] # base[j]
        BY <3>4
      <4>2. m \in 1 .. Len(out') /\ out'[m][j] # base'[j]
        BY <2>1, <3>2, <4>1
      <4> QED
        BY <4>2
    <3>5. CASE j \in changed /\ ~\E m \in 1 .. Len(out) : out[m][j] # base[j]
      <4>1. last_sent[j] = base[j]
        BY <1>1, <2>1, <3>2, <3>5
      <4>2. Differs(tmp[j], last_sent[j]) /\ base[j] \in Value
        BY <2>1, <3>2, <3>5 DEF Prepared, TypeOK, Reading
      <4>3. tmp[j] # base[j]
        BY <4>1, <4>2, DiffersFromOthers
      <4>4. Len(out) + 1 \in 1 .. Len(out') /\ out'[Len(out) + 1][j] # base'[j]
        BY <2>1, <3>2, <4>3
      <4> QED
        BY <4>4
    <3> QED
      BY <3>3, <3>4, <3>5
  <2> QED
    BY <2>3, <2>4
<1>5. CASE UNCHANGED vars
  BY <1>5 DEF vars, Noticed, Seen
<1> QED
  BY <1>2, <1>3, <1>4, <1>5 DEF Next, addToMessageBuffer, flushEnd

\* tmp follows the readings: what is not taken from one is near it.
LEMMA TrackingByStep == TypeOK /\ InBatch /\ Tracking /\ [Next]_vars => Tracking'
<1> SUFFICES ASSUME TypeOK, InBatch, Tracking, [Next]_vars, phase' # "idle"
             PROVE  IF phase' = "take" /\ i' = 0 THEN changed' = {}
                    ELSE \A j \in Var : Near(tmp[j], j)'
  BY DEF Tracking
<1>1. CASE flushMessageBuffer
  BY <1>1 DEF flushMessageBuffer
<1>2. CASE takeValues
  <2>1. /\ phase = "take" /\ phase' = "look" /\ i \in 0 .. n_vals - 1
        /\ UNCHANGED <<buff, n_vals, i>>
        /\ tmp' = [j \in Var |-> IF j \in Taken THEN buff[i][j] ELSE tmp[j]]
    BY <1>2, Bounds DEF takeValues
  <2>2. ASSUME NEW j \in Var PROVE Near(tmp[j], j)'
    <3>1. buff[i][j] \in Value /\ tmp[j] \in Value
      BY <2>1, Bounds DEF TypeOK, Reading
    <3>2. CASE j \in Taken
      <4>1. buff'[i][j] - tmp'[j] \in -DerThreshold .. DerThreshold
        BY <2>1, <3>1, <3>2, NearOrDiffers
      <4> QED
        BY <2>1, <4>1 DEF Near
    <3>3. CASE j \in changed
      <4>1. Near(tmp[j], j) /\ tmp'[j] = tmp[j]
        BY <2>1, <3>3 DEF Tracking, Taken
      <4> QED
        BY <2>1, <4>1 DEF Near
    <3>4. CASE j \notin changed /\ j \notin Taken
      <4>1. tmp'[j] = tmp[j] /\ ~Differs(buff[i][j], tmp[j])
        BY <2>1, <3>4 DEF Taken
      <4>2. buff'[i][j] - tmp'[j] \in -DerThreshold .. DerThreshold
        BY <2>1, <3>1, <4>1, NearOrDiffers
      <4> QED
        BY <2>1, <4>2 DEF Near
    <3> QED
      BY <3>2, <3>3, <3>4
  <2> QED
    BY <2>1, <2>2
<1>3. CASE lookAhead
  <2>1. phase = "look" /\ i' = i + 1 /\ UNCHANGED <<buff, n_vals, tmp>>
    BY <1>3 DEF lookAhead
  <2>2. i' # 0
    BY <2>1, Bounds
  <2> QED
    BY <2>1, <2>2 DEF Tracking, Near
<1>4. CASE UNCHANGED vars
  BY <1>4 DEF vars, Tracking, Near
<1> QED
  BY <1>1, <1>2, <1>3, <1>4 DEF Next, addToMessageBuffer, flushEnd

-----------------------------------------------------------------------------
LEMMA IInvAtInit == Init => IInv
<1> SUFFICES ASSUME Init PROVE IInv
  OBVIOUS
<1>1. TypeOK /\ InBatch
  BY TypesAtInit
<1>2. phase = "idle" /\ out = << >> /\ last_sent = base
  BY DEF Init
<1>3. LastOfAll /\ EveryMessageIsNews
  <2>1. Len(out) = 0
    BY <1>2
  <2> QED
    BY <1>2, <2>1 DEF LastOfAll, EveryMessageIsNews, Previous
<1>4. OnlyValuesOfThisBatch /\ Prepared /\ Noticed /\ Tracking
  BY <1>2 DEF OnlyValuesOfThisBatch, Prepared, Noticed, Tracking
<1> QED
  BY <1>1, <1>3, <1>4 DEF IInv

THEOREM IInvAlways == Spec => []IInv
<1>1. IInv /\ [Next]_vars => IInv'
  BY TypesByStep, BatchByStep, NewsByStep, NoticedByStep,
     TrackingByStep DEF IInv
<1> QED
  BY <1>1, IInvAtInit, PTL DEF Spec

\* What lies behind the readings never gets into a message, although the loop
\* looks at it: for every content of the memory.
THEOREM OnlyThisBatch == Spec => []OnlyValuesOfThisBatch
<1>1. IInv => OnlyValuesOfThisBatch
  BY DEF IInv
<1> QED
  BY <1>1, IInvAlways, PTL

\* No message repeats the one before it, and every value it changes passed the
\* threshold test: for every number of variables, readings and every threshold.
THEOREM MessagesAreNews == Spec => []EveryMessageIsNews
<1>1. IInv => EveryMessageIsNews
  BY DEF IInv
<1> QED
  BY <1>1, IInvAlways, PTL

\* A reading that passes the test against the message before the flush is not
\* overlooked, however many messages the flush is split into: some message has a
\* new value of that variable, though not always the value that was read.
THEOREM ChangesAreReported == Spec => []EveryChangeReported
<1>1. IInv => EveryChangeReported
  <2> SUFFICES ASSUME IInv, phase = "take", ~unsent,
                      NEW k \in 0 .. i - 1, NEW j \in Var, Differs(buff[k][j], base[j])
               PROVE  \/ j \in changed
                      \/ \E m \in 1 .. Len(out) : out[m][j] # base[j]
    BY DEF EveryChangeReported
  <2>1. k \in 0 .. n_vals - 1 /\ Seen(k)
    BY Bounds DEF IInv, InBatch, Seen
  <2> QED
    BY <2>1 DEF IInv, Noticed
<1> QED
  BY <1>1, IInvAlways, PTL

\* Each value of each message is near a reading of the same flush, whatever was in
\* last_sent before: for every content of the memory and every threshold.
THEOREM ValuesAreNear == Spec => SentValuesAreNear
<1> DEFINE A == Len(out') > Len(out) => \A j \in Var : Near(out'[Len(out')][j], j)
<1>1. IInv /\ [Next]_vars => [A]_vars
  <2> SUFFICES ASSUME IInv, Next, Len(out') > Len(out), NEW j \in Var
               PROVE  Near(out'[Len(out')][j], j)
    OBVIOUS
  <2>1. TypeOK /\ Len(out) \in Nat
    BY DEF IInv, TypeOK
  <2>2. ~flushMessageBuffer
    <3>1. flushMessageBuffer => Len(out') = 0
      BY DEF flushMessageBuffer
    <3> QED
      BY <2>1, <3>1
  <2>3. /\ out' = Append(out, tmp)
        /\ \/ phase = "look"
           \/ phase = "take" /\ changed # {}
    <3>1. out' # out
      BY <2>1
    <3>2. CASE lookAhead
      BY <3>1, <3>2 DEF lookAhead, sendMessageToBundle
    <3>3. CASE flushEnd
      BY <3>1, <3>3 DEF flushEnd, sendMessageToBundle
    <3> QED
      BY <2>2, <3>1, <3>2, <3>3 DEF Next, addToMessageBuffer, takeValues
  <2>4. Near(tmp[j], j)
    BY <2>3 DEF IInv, Tracking
  <2>5. out'[Len(out')] = tmp
    BY <2>1, <2>3, AppendProperties DEF TypeOK
  <2> QED
    BY <2>4, <2>5
<1> QED
  BY <1>1, IInvAlways, PTL DEF Spec, SentValuesAreNear

=============================================================================
