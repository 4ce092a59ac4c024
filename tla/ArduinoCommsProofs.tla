------------------------- MODULE ArduinoCommsProofs -------------------------
(***************************************************************************)
(* The read buffer of a device stays inside its memory, and after every     *)
(* call of parseBuffer() that had its memory it has room for a message, for *)
(* every number of variables, size of the buffer and every device.  If the  *)
(* line brings little noise, no byte is displaced and no message missed.    *)
(***************************************************************************)
EXTENDS ArduinoComms, SequenceTheorems, TLAPS

-----------------------------------------------------------------------------
(* What a device sends *)

\* Rows of d places one after the other.
LEMMA RowAndPlace ==
  ASSUME NEW d \in Nat \ {0}, NEW j \in Nat, NEW r \in 0 .. d - 1
  PROVE  (j * d + r) \div d = j /\ (j * d + r) % d = r
OBVIOUS

LEMMA PlaceInRow ==
  ASSUME NEW d \in Nat \ {0}, NEW a \in Nat
  PROVE  /\ a \div d \in Nat /\ (a % d) \in 0 .. d - 1
         /\ a = (a \div d) * d + (a % d)
OBVIOUS

LEMMA RowsAfter ==
  ASSUME NEW d \in Nat \ {0}, NEW j \in Nat, NEW k \in Nat, j < k
  PROVE  j * d + d <= k * d
OBVIOUS

LEMMA Rows ==
  ASSUME NEW d \in Nat \ {0}, NEW n \in Nat, NEW j \in 0 .. n - 1
  PROVE  /\ j * d \in Nat /\ n * d \in Nat /\ (j + 1) * d = j * d + d
         /\ j * d + d <= n * d
<1>1. j * d \in Nat /\ n * d \in Nat /\ (j + 1) * d = j * d + d
  OBVIOUS
<1>2. j \in Nat /\ j < n
  OBVIOUS
<1> QED
  BY <1>1, <1>2, RowsAfter

LEMMA InRows ==
  ASSUME NEW d \in Nat \ {0}, NEW n \in Nat, NEW a \in Nat, a < n * d
  PROVE  (a \div d) \in 0 .. n - 1 /\ (a % d) \in 0 .. d - 1
<1>1. /\ a \div d \in Nat /\ (a % d) \in 0 .. d - 1
      /\ a = (a \div d) * d + (a % d)
  BY PlaceInRow
<1>2. (a \div d) * d \in Nat /\ n * d \in Nat
  BY <1>1
<1>3. ASSUME ~((a \div d) < n) PROVE FALSE
  <2>1. n * d <= (a \div d) * d
    <3>1. CASE n = a \div d
      BY <1>2, <3>1
    <3>2. CASE n < a \div d
      <4>1. n * d + d <= (a \div d) * d
        BY <1>1, <3>2, RowsAfter
      <4> QED
        BY <1>2, <4>1
    <3> QED
      BY <1>1, <1>3, <3>1, <3>2
  <2> QED
    BY <1>1, <1>2, <2>1
<1> QED
  BY <1>1, <1>3

\* The same for rows of which the first lacks c places.
LEMMA CutRows ==
  ASSUME NEW d \in Nat \ {0}, NEW n \in Nat \ {0}, NEW c \in 0 .. d - 1
  PROVE  /\ n * d \in Nat /\ n * d - c \in Nat
         /\ \A k \in 1 .. n * d - c : /\ (k + c - 1) \div d \in 0 .. n - 1
                                     /\ (k + c - 1) % d \in 0 .. d - 1
         /\ \A j \in 0 .. n - 1, k \in 1 .. d : j * d + k - c > 0 =>
              /\ j * d + k - c \in 1 .. n * d - c
              /\ ((j * d + k - c) + c - 1) \div d = j
              /\ ((j * d + k - c) + c - 1) % d = k - 1
<1>1. n * d \in Nat /\ 0 \in 0 .. n - 1 /\ 0 * d = 0
  OBVIOUS
<1>2. 0 * d + d <= n * d
  BY <1>1, Rows
<1>3. d <= n * d /\ n * d - c \in Nat
  BY <1>1, <1>2
<1>4. ASSUME NEW k \in 1 .. n * d - c
      PROVE  /\ (k + c - 1) \div d \in 0 .. n - 1
             /\ (k + c - 1) % d \in 0 .. d - 1
  <2>1. k + c - 1 \in Nat /\ k + c - 1 < n * d
    BY <1>1, <1>3
  <2> QED
    BY <2>1, InRows
<1>5. ASSUME NEW j \in 0 .. n - 1, NEW k \in 1 .. d, j * d + k - c > 0
      PROVE  /\ j * d + k - c \in 1 .. n * d - c
             /\ ((j * d + k - c) + c - 1) \div d = j
             /\ ((j * d + k - c) + c - 1) % d = k - 1
  <2>1. j * d \in Nat /\ j * d + d <= n * d
    BY Rows
  <2>2. j * d + k - c \in 1 .. n * d - c
    BY <1>1, <1>5, <2>1
  <2>3. k - 1 \in 0 .. d - 1 /\ (j * d + k - c) + c - 1 = j * d + (k - 1)
    BY <2>1
  <2>4. (j * d + (k - 1)) \div d = j /\ (j * d + (k - 1)) % d = k - 1
    BY <2>3, RowAndPlace
  <2> QED
    BY <2>2, <2>3, <2>4
<1> QED
  BY <1>1, <1>3, <1>4, <1>5

LEMMA Device ==
  ASSUME NEW in \in Inputs
  PROVE  /\ in.noise \in Seq(Byte) /\ Len(in.noise) \in Nat
         /\ Sends(in) \in Nat
         /\ FrameLen(in) = 2 * Sends(in) + 4
         /\ FrameLen(in) \in Nat \ {0}
         /\ Len(in.values) \in Nat \ {0}
         /\ in.values \in Seq([1 .. Sends(in) -> Byte])
         /\ in.cut \in 0 .. FrameLen(in) - 1
<1>1. /\ in.noise \in Seq(Byte)
      /\ in.values # << >> /\ Sends(in) \in Nat
      /\ in.values \in Seq([1 .. Sends(in) -> Byte])
      /\ in.cut \in 0 .. FrameLen(in) - 1
  BY InputsAssumption
<1>2. Len(in.noise) \in Nat
  BY <1>1
<1>3. FrameLen(in) = 2 * Sends(in) + 4 /\ FrameLen(in) \in Nat \ {0}
  BY <1>1 DEF FrameLen, MsgLen
<1>4. Len(in.values) \in Nat \ {0}
  BY <1>1, EmptySeq
<1> QED
  BY <1>1, <1>2, <1>3, <1>4

\* Byte for byte, what buildMessage() makes of the values of a device.
LEMMA FrameBytes ==
  ASSUME NEW n \in Nat, NEW v \in [1 .. n -> Byte]
  PROVE  /\ Frame(v) \in [1 .. 2 * n + 4 -> Byte]
         /\ Frame(v)[1] = MsgStart /\ Frame(v)[2] = MsgStart
         /\ \A c \in 1 .. n : /\ Frame(v)[2 * c + 1] = v[c]
                              /\ Frame(v)[2 * c + 2] = MsgSep
         /\ Frame(v)[2 * n + 3] = MsgEnd /\ Frame(v)[2 * n + 4] = MsgEnd
<1>1. Len(v) = n /\ MsgLen(Len(v)) = 2 * n + 4
  BY DEF MsgLen
<1>2. Frame(v) = [k \in 1 .. 2 * n + 4 |->
                    IF k <= 2 THEN MsgStart
                    ELSE IF k > 2 * n + 2 THEN MsgEnd
                    ELSE IF k % 2 = 1 THEN v[(k - 1) \div 2] ELSE MsgSep]
  BY <1>1 DEF Frame
<1>3. \A k \in 1 .. 2 * n + 4 :
        Frame(v)[k] = IF k <= 2 THEN MsgStart
                      ELSE IF k > 2 * n + 2 THEN MsgEnd
                      ELSE IF k % 2 = 1 THEN v[(k - 1) \div 2] ELSE MsgSep
  BY <1>2
<1>4. ASSUME NEW k \in 1 .. 2 * n + 4 PROVE Frame(v)[k] \in Byte
  <2>1. MsgStart \in Byte /\ MsgEnd \in Byte /\ MsgSep \in Byte
    BY DEF MsgStart, MsgEnd, MsgSep, Byte
  <2>2. CASE k > 2 /\ k <= 2 * n + 2 /\ k % 2 = 1
    <3>1. (k - 1) \div 2 \in 1 .. n
      BY <2>2
    <3>2. v[(k - 1) \div 2] \in Byte
      BY <3>1
    <3> QED
      BY <1>3, <2>2, <3>2
  <2> QED
    BY <1>3, <2>1, <2>2
<1>5. Frame(v) \in [1 .. 2 * n + 4 -> Byte]
  BY <1>2, <1>4
<1>6. ASSUME NEW c \in 1 .. n
      PROVE  Frame(v)[2 * c + 1] = v[c] /\ Frame(v)[2 * c + 2] = MsgSep
  <2>1. /\ 2 * c + 1 \in 1 .. 2 * n + 4 /\ 2 * c + 2 \in 1 .. 2 * n + 4
        /\ (2 * c + 1) % 2 = 1 /\ (2 * c + 2) % 2 = 0
        /\ ((2 * c + 1) - 1) \div 2 = c
        /\ 2 * c + 1 > 2 /\ 2 * c + 2 <= 2 * n + 2
    OBVIOUS
  <2> QED
    BY <1>3, <2>1
<1>7. /\ 1 \in 1 .. 2 * n + 4 /\ 2 \in 1 .. 2 * n + 4
      /\ 2 * n + 3 \in 1 .. 2 * n + 4 /\ 2 * n + 4 \in 1 .. 2 * n + 4
  OBVIOUS
<1>8. Frame(v)[1] = MsgStart /\ Frame(v)[2] = MsgStart
  BY <1>3, <1>7
<1>9. Frame(v)[2 * n + 3] = MsgEnd /\ Frame(v)[2 * n + 4] = MsgEnd
  BY <1>3, <1>7
<1> QED
  BY <1>5, <1>6, <1>8, <1>9

\* A device sends bytes, and behind the noise byte k of its frame j stands where
\* the frames before it, and what is cut of them, have left it.
LEMMA DeviceSends ==
  ASSUME NEW in \in Inputs
  PROVE  /\ DeviceBytes(in) \in Seq(Byte)
         /\ Len(DeviceBytes(in))
              = Len(in.noise) + Len(in.values) * FrameLen(in) - in.cut
         /\ \A j \in 0 .. Len(in.values) - 1, k \in 1 .. FrameLen(in) :
              LET at == Len(in.noise) + j * FrameLen(in) + k - in.cut
              IN  at > Len(in.noise) =>
                    /\ at \in 1 .. Len(DeviceBytes(in))
                    /\ DeviceBytes(in)[at] = Frame(in.values[j + 1])[k]
<1> DEFINE N == Len(in.noise)
           V == Len(in.values)
           F == FrameLen(in)
           c == in.cut
           ByteOf(k) == Frame(in.values[((k + c - 1) \div F) + 1])[((k + c - 1) % F) + 1]
           rest == [k \in 1 .. V * F - c |-> ByteOf(k)]
<1>1. N \in Nat /\ V \in Nat \ {0} /\ F \in Nat \ {0} /\ c \in 0 .. F - 1
  BY Device
<1>2. ASSUME NEW i \in 1 .. V
      PROVE  Frame(in.values[i]) \in [1 .. F -> Byte]
  <2>1. /\ Sends(in) \in Nat /\ F = 2 * Sends(in) + 4
        /\ in.values \in Seq([1 .. Sends(in) -> Byte]) /\ i \in 1 .. Len(in.values)
    BY Device
  <2>2. in.values[i] \in [1 .. Sends(in) -> Byte]
    BY <2>1, ElementOfSeq, Zenon
  <2>3. Frame(in.values[i]) \in [1 .. 2 * Sends(in) + 4 -> Byte]
    BY <2>1, <2>2, FrameBytes
  <2> QED
    BY <2>1, <2>3
<1>3. DeviceBytes(in) = in.noise \o rest
  BY DEF DeviceBytes
<1>4. in.noise \in Seq(Byte) /\ N = Len(in.noise)
  BY Device
<1> HIDE DEF N, V, F, c
<1>5. /\ V * F \in Nat /\ V * F - c \in Nat
      /\ \A k \in 1 .. V * F - c : /\ (k + c - 1) \div F \in 0 .. V - 1
                                  /\ (k + c - 1) % F \in 0 .. F - 1
      /\ \A j \in 0 .. V - 1, k \in 1 .. F : j * F + k - c > 0 =>
           /\ j * F + k - c \in 1 .. V * F - c
           /\ ((j * F + k - c) + c - 1) \div F = j
           /\ ((j * F + k - c) + c - 1) % F = k - 1
  BY <1>1, CutRows
<1>6. ASSUME NEW k \in 1 .. V * F - c
      PROVE  ByteOf(k) \in Byte
  <2>1. (k + c - 1) \div F \in 0 .. V - 1 /\ (k + c - 1) % F \in 0 .. F - 1
    BY <1>5
  <2>2. \A q \in 0 .. V - 1, r \in 0 .. F - 1 :
          Frame(in.values[q + 1])[r + 1] \in Byte
    <3> TAKE q \in 0 .. V - 1, r \in 0 .. F - 1
    <3>1. q + 1 \in 1 .. V /\ r + 1 \in 1 .. F
      BY <1>1
    <3> QED
      BY <1>2, <3>1
  <2> QED
    BY <2>1, <2>2
<1>7. ASSUME NEW j \in 0 .. V - 1, NEW k \in 1 .. F, j * F + k - c > 0
      PROVE  /\ j * F + k - c \in 1 .. V * F - c
             /\ ByteOf(j * F + k - c) = Frame(in.values[j + 1])[k]
  <2>1. /\ j * F + k - c \in 1 .. V * F - c
        /\ ((j * F + k - c) + c - 1) \div F = j
        /\ ((j * F + k - c) + c - 1) % F = k - 1
    BY <1>5, <1>7
  <2>2. (k - 1) + 1 = k
    BY <1>1
  <2> QED
    BY <2>1, <2>2
<1> HIDE DEF ByteOf
<1>8. rest \in [1 .. V * F - c -> Byte] /\ \A k \in 1 .. V * F - c : rest[k] = ByteOf(k)
  BY <1>6
<1> HIDE DEF rest
<1>9. rest \in Seq(Byte) /\ Len(rest) = V * F - c
  BY <1>5, <1>8
<1>10. /\ in.noise \o rest \in Seq(Byte)
       /\ Len(in.noise \o rest) = N + Len(rest)
       /\ \A i \in 1 .. Len(rest) :
            /\ (in.noise \o rest)[N + i] = rest[i]
            /\ N + i \in 1 .. N + Len(rest)
  <2>1. /\ in.noise \o rest \in Seq(Byte)
        /\ Len(in.noise \o rest) = N + Len(rest)
        /\ \A i \in 1 .. N + Len(rest) :
             (in.noise \o rest)[i] = IF i <= N THEN in.noise[i] ELSE rest[i - N]
    BY <1>4, <1>9, ConcatProperties
  <2>2. Len(rest) \in Nat
    BY <1>5, <1>9
  <2>3. ASSUME NEW i \in 1 .. Len(rest)
        PROVE  /\ (in.noise \o rest)[N + i] = rest[i]
               /\ N + i \in 1 .. N + Len(rest)
    <3>1. N + i \in 1 .. N + Len(rest) /\ ~(N + i <= N) /\ (N + i) - N = i
      BY <1>1, <2>2
    <3> QED
      BY <2>1, <3>1
  <2> QED
    BY <2>1, <2>3
<1>11. /\ DeviceBytes(in) \in Seq(Byte)
       /\ Len(DeviceBytes(in)) = N + V * F - c
       /\ \A i \in 1 .. V * F - c : /\ DeviceBytes(in)[N + i] = rest[i]
                                   /\ N + i \in 1 .. Len(DeviceBytes(in))
  BY <1>1, <1>3, <1>5, <1>9, <1>10
<1>12. ASSUME NEW j \in 0 .. V - 1, NEW k \in 1 .. F, N + j * F + k - c > N
       PROVE  /\ N + j * F + k - c \in 1 .. Len(DeviceBytes(in))
              /\ DeviceBytes(in)[N + j * F + k - c] = Frame(in.values[j + 1])[k]
  <2>1. j * F \in Nat
    BY <1>1
  <2>2. N + j * F + k - c = N + (j * F + k - c) /\ j * F + k - c > 0
    BY <1>1, <1>12, <2>1
  <2> QED
    BY <1>7, <1>8, <1>11, <2>2
<1> USE DEF N, V, F, c
<1> QED
  BY <1>11, <1>12, Zenon

LEMMA MessageLength == L \in Nat /\ L = 2 * VarN + 4 /\ VarN \in Nat \ {0}
  BY VarNAssumption DEF L, MsgLen

\* The pattern is as long as a message and ends with two end bytes, and what
\* buildMessage() makes of a reading goes with it.
LEMMA MessagePattern ==
  /\ Len(Pattern(VarN)) = L
  /\ Pattern(VarN)[L - 1] = MsgEnd /\ Pattern(VarN)[L] = MsgEnd
  /\ \A v \in Reading, pos \in 0 .. L - 1 :
       Accepts(Pattern(VarN), pos, Frame(v)[pos + 1])
<1>1. L \in Nat /\ L = 2 * VarN + 4 /\ VarN \in Nat \ {0} /\ MsgLen(VarN) = L
  BY MessageLength DEF L
<1>2. Pattern(VarN) = [k \in 1 .. L |->
                         IF k <= 2 THEN MsgStart
                         ELSE IF k > L - 2 THEN MsgEnd
                         ELSE IF k % 2 = 1 THEN AnyByte ELSE MsgSep]
  BY <1>1 DEF Pattern
<1>3. ASSUME NEW v \in Reading, NEW pos \in 0 .. L - 1
      PROVE  Accepts(Pattern(VarN), pos, Frame(v)[pos + 1])
  <2>1. Len(v) = VarN
    BY <1>1 DEF Reading
  <2>2. Frame(v) = [k \in 1 .. L |->
                      IF k <= 2 THEN MsgStart
                      ELSE IF k > L - 2 THEN MsgEnd
                      ELSE IF k % 2 = 1 THEN v[(k - 1) \div 2] ELSE MsgSep]
    BY <1>1, <2>1 DEF Frame
  <2>3. pos + 1 \in 1 .. L
    BY <1>1
  <2> QED
    BY <1>2, <2>2, <2>3 DEF Accepts
<1>4. Len(Pattern(VarN)) = L
  BY <1>1, <1>2
<1>5. Pattern(VarN)[L - 1] = MsgEnd /\ Pattern(VarN)[L] = MsgEnd
  <2>1. /\ L - 1 \in 1 .. L /\ ~(L - 1 <= 2) /\ L - 1 > L - 2
        /\ L \in 1 .. L /\ ~(L <= 2) /\ L > L - 2
    BY <1>1
  <2> QED
    BY <1>2, <2>1
<1> QED
  BY <1>3, <1>4, <1>5

\* Byte for byte, what it is for a message to occur in a string.
LEMMA PatternInString ==
  ASSUME NEW s, NEW q \in Nat
  PROVE  OccursAt(Pattern(VarN), s, q)
           <=> /\ q + L <= Len(s)
               /\ \A pos \in 0 .. L - 1 : Accepts(Pattern(VarN), pos, s[q + pos + 1])
BY MessagePattern DEF OccursAt, PrefixAt

-----------------------------------------------------------------------------
(* The frames of a device that is what it is configured as *)

\* How many of its frames the line brings from their first byte on.
WholeIn(in) == Len(in.values) - CutFrames(in)

\* The values of whole frame j, counted from 0.
ValuesOf(in, j) == in.values[j + CutFrames(in) + 1]

\* The whole frames follow one another from FirstFrame on.
LEMMA FramesFollow ==
  ASSUME NEW in \in Inputs, Sends(in) = VarN
  PROVE  /\ FirstFrame(in) \in Nat /\ WholeIn(in) \in Nat /\ CutFrames(in) \in {0, 1}
         /\ DeviceBytes(in) \in Seq(Byte)
         /\ Len(DeviceBytes(in)) = FirstFrame(in) + WholeIn(in) * L
         /\ \A j \in 0 .. WholeIn(in) - 1 :
              /\ ValuesOf(in, j) \in Reading
              /\ \A k \in 1 .. L :
                   DeviceBytes(in)[FirstFrame(in) + j * L + k] = Frame(ValuesOf(in, j))[k]
<1> DEFINE N == Len(in.noise)
           V == Len(in.values)
           c == in.cut
           D == DeviceBytes(in)
<1>1. FrameLen(in) = L /\ L \in Nat \ {0}
  BY MessageLength DEF FrameLen, L
<1>2. N \in Nat /\ V \in Nat \ {0} /\ c \in 0 .. L - 1
  BY <1>1, Device
<1>3. /\ D \in Seq(Byte) /\ Len(D) = N + V * L - c
      /\ \A j \in 0 .. V - 1, k \in 1 .. L :
           N + j * L + k - c > N => D[N + j * L + k - c] = Frame(in.values[j + 1])[k]
  BY <1>1, DeviceSends
<1>4. ASSUME NEW i \in 1 .. V PROVE in.values[i] \in Reading
  <2>1. in.values \in Seq([1 .. Sends(in) -> Byte])
    BY Device
  <2>2. in.values[i] \in [1 .. Sends(in) -> Byte]
    BY <2>1, ElementOfSeq, Zenon
  <2> QED
    BY <2>2 DEF Reading
<1>5. \A j \in Nat : ValuesOf(in, j) = in.values[j + CutFrames(in) + 1]
  BY DEF ValuesOf
<1>6. /\ FirstFrame(in) = N + (IF c = 0 THEN 0 ELSE L - c)
      /\ WholeIn(in) = V - CutFrames(in)
      /\ CutFrames(in) = IF c = 0 THEN 0 ELSE 1
  BY <1>1 DEF FirstFrame, WholeIn, CutFrames
<1> HIDE DEF N, V, c, D
<1>7. CASE c = 0
  <2>1. FirstFrame(in) = N /\ WholeIn(in) = V /\ CutFrames(in) = 0
    BY <1>2, <1>6, <1>7
  <2>2. V * L \in Nat /\ Len(D) = N + V * L
    BY <1>1, <1>2, <1>3, <1>7
  <2>3. ASSUME NEW j \in 0 .. V - 1
        PROVE  /\ ValuesOf(in, j) \in Reading
               /\ \A k \in 1 .. L : D[N + j * L + k] = Frame(ValuesOf(in, j))[k]
    <3>1. j + 1 \in 1 .. V /\ ValuesOf(in, j) = in.values[j + 1] /\ j * L \in Nat
      BY <1>1, <1>2, <1>5, <2>1
    <3>2. ASSUME NEW k \in 1 .. L PROVE D[N + j * L + k] = Frame(ValuesOf(in, j))[k]
      <4>1. N + j * L + k - c = N + j * L + k /\ N + j * L + k > N
        BY <1>2, <1>7, <3>1
      <4> QED
        BY <1>3, <3>1, <4>1
    <3> QED
      BY <1>4, <3>1, <3>2
  <2> QED
    BY <1>2, <1>3, <2>1, <2>2, <2>3 DEF D
<1>8. CASE c # 0
  <2>1. /\ FirstFrame(in) = N + L - c /\ WholeIn(in) = V - 1 /\ CutFrames(in) = 1
        /\ FirstFrame(in) \in Nat /\ WholeIn(in) \in Nat
    BY <1>1, <1>2, <1>6, <1>8
  <2>2. Len(D) = FirstFrame(in) + WholeIn(in) * L
    <3>1. (V - 1) * L \in Nat /\ V * L = (V - 1) * L + L
      <4>1. PICK w \in Nat : V = w + 1
        BY <1>2
      <4>2. w * L \in Nat /\ (w + 1) * L = w * L + L
        BY <1>1
      <4> QED
        BY <4>1, <4>2
    <3> QED
      BY <1>1, <1>2, <1>3, <2>1, <3>1
  <2>3. ASSUME NEW j \in 0 .. WholeIn(in) - 1
        PROVE  /\ ValuesOf(in, j) \in Reading
               /\ \A k \in 1 .. L :
                    D[FirstFrame(in) + j * L + k] = Frame(ValuesOf(in, j))[k]
    <3>1. /\ j + 1 \in 0 .. V - 1 /\ (j + 1) + 1 \in 1 .. V
          /\ ValuesOf(in, j) = in.values[(j + 1) + 1]
          /\ j * L \in Nat /\ (j + 1) * L = j * L + L
      BY <1>1, <1>2, <1>5, <2>1
    <3>2. ASSUME NEW k \in 1 .. L
          PROVE  D[FirstFrame(in) + j * L + k] = Frame(ValuesOf(in, j))[k]
      <4>1. /\ N + (j + 1) * L + k - c = FirstFrame(in) + j * L + k
            /\ N + (j + 1) * L + k - c > N
        BY <1>1, <1>2, <2>1, <3>1
      <4> QED
        BY <1>3, <3>1, <4>1
    <3> QED
      BY <1>4, <3>1, <3>2
  <2> QED
    BY <1>3, <2>1, <2>2, <2>3 DEF D
<1> QED
  BY <1>7, <1>8

\* Two end bytes one after the other are only at the end of a frame.
LEMMA EndsOnce ==
  ASSUME NEW v \in Reading
  PROVE  /\ Frame(v)[1] # MsgEnd
         /\ \A m \in 1 .. L - 2 : ~(Frame(v)[m] = MsgEnd /\ Frame(v)[m + 1] = MsgEnd)
<1>1. /\ VarN \in Nat \ {0} /\ L = 2 * VarN + 4
      /\ Frame(v)[1] = MsgStart /\ Frame(v)[2] = MsgStart
      /\ \A c \in 1 .. VarN : Frame(v)[2 * c + 2] = MsgSep
  BY MessageLength, FrameBytes DEF Reading
<1>2. MsgStart # MsgEnd /\ MsgSep # MsgEnd
  BY DEF MsgStart, MsgEnd, MsgSep
<1>3. ASSUME NEW m \in 1 .. L - 2, Frame(v)[m] = MsgEnd, Frame(v)[m + 1] = MsgEnd
      PROVE  FALSE
  <2>1. m > 2
    BY <1>1, <1>2, <1>3
  <2>2. CASE m % 2 = 0
    <3>1. PICK c \in 1 .. VarN : m = 2 * c + 2
      <4>1. (m - 2) \div 2 \in 1 .. VarN /\ m = 2 * ((m - 2) \div 2) + 2
        BY <1>1, <2>1, <2>2
      <4> QED
        BY <4>1
    <3> QED
      BY <1>1, <1>2, <1>3, <3>1
  <2>3. CASE m % 2 = 1
    <3>1. PICK c \in 1 .. VarN : m + 1 = 2 * c + 2
      <4>1. (m - 1) \div 2 \in 1 .. VarN /\ m + 1 = 2 * ((m - 1) \div 2) + 2
        BY <1>1, <2>1, <2>3
      <4> QED
        BY <4>1
    <3> QED
      BY <1>1, <1>2, <1>3, <3>1
  <2> QED
    BY <2>2, <2>3
<1> QED
  BY <1>1, <1>2, <1>3

\* A frame is a message, and byte 2 * c + 1 of it, counted from 1, is value c.
LEMMA FrameOccurs ==
  ASSUME NEW in \in Inputs, Sends(in) = VarN, NEW j \in 0 .. WholeIn(in) - 1
  PROVE  /\ OccursAt(Pattern(VarN), DeviceBytes(in), FirstFrame(in) + j * L)
         /\ \A c \in 1 .. VarN :
              DeviceBytes(in)[FirstFrame(in) + j * L + 2 * c + 1] = ValuesOf(in, j)[c]
<1> DEFINE D == DeviceBytes(in)
           v == ValuesOf(in, j)
           p == FirstFrame(in) + j * L
<1>1. /\ D \in Seq(Byte) /\ FirstFrame(in) \in Nat /\ WholeIn(in) \in Nat
      /\ Len(D) = FirstFrame(in) + WholeIn(in) * L
      /\ v \in Reading /\ \A k \in 1 .. L : D[p + k] = Frame(v)[k]
  BY FramesFollow
<1>2. VarN \in Nat \ {0} /\ L \in Nat \ {0} /\ L = 2 * VarN + 4 /\ L = MsgLen(VarN)
  BY MessageLength DEF L
<1>3. p \in Nat /\ p + L <= Len(D)
  <2>1. j * L \in Nat /\ WholeIn(in) * L \in Nat /\ j * L + L <= WholeIn(in) * L
    BY <1>1, <1>2, Rows
  <2>2. FirstFrame(in) \in Nat /\ Len(D) = FirstFrame(in) + WholeIn(in) * L
    BY <1>1
  <2>3. L \in Nat
    BY <1>2
  <2> HIDE DEF D
  <2> QED
    BY <2>1, <2>2, <2>3
<1> HIDE DEF D, v, p
<1>4. ASSUME NEW c \in 1 .. VarN
      PROVE  D[p + 2 * c + 1] = v[c]
  <2>1. 2 * c + 1 \in 1 .. L /\ p + (2 * c + 1) = p + 2 * c + 1
    BY <1>2, <1>3
  <2>2. Frame(v)[2 * c + 1] = v[c]
    BY <1>1, <1>2, FrameBytes DEF Reading
  <2> QED
    BY <1>1, <2>1, <2>2
<1>5. OccursAt(Pattern(VarN), D, p)
  <2>1. ASSUME NEW pos \in 0 .. L - 1
        PROVE  Accepts(Pattern(VarN), pos, D[p + pos + 1])
    <3>1. pos + 1 \in 1 .. L /\ p + (pos + 1) = p + pos + 1
      BY <1>2, <1>3
    <3>2. D[p + pos + 1] = Frame(v)[pos + 1]
      BY <1>1, <3>1
    <3> QED
      BY <1>1, <3>2, MessagePattern
  <2> QED
    BY <1>3, <2>1, PatternInString
<1> QED
  BY <1>4, <1>5 DEF D, v, p

\* A message that does not end before the first whole frame is a frame: none
\* begins in one frame and ends in another, whatever the values are.
LEMMA MessagesAreFrames ==
  ASSUME NEW in \in Inputs, Sends(in) = VarN,
         NEW q \in Nat, OccursAt(Pattern(VarN), DeviceBytes(in), q),
         q + L > FirstFrame(in)
  PROVE  \E j \in 0 .. WholeIn(in) - 1 : q = FirstFrame(in) + j * L
<1> DEFINE D == DeviceBytes(in)
           P == FirstFrame(in)
           a == q + L - 1 - P
           j == a \div L
           m == a % L
<1>1. /\ D \in Seq(Byte) /\ P \in Nat /\ WholeIn(in) \in Nat
      /\ Len(D) = P + WholeIn(in) * L
  BY FramesFollow
<1>2. VarN \in Nat \ {0} /\ L \in Nat \ {0} /\ L = 2 * VarN + 4 /\ L = MsgLen(VarN)
  BY MessageLength DEF L
<1>3. /\ q + L <= Len(D)
      /\ D[q + 2 * VarN + 3] = MsgEnd /\ D[q + 2 * VarN + 4] = MsgEnd
  <2>1. /\ q + L <= Len(D)
        /\ \A pos \in 0 .. L - 1 : Accepts(Pattern(VarN), pos, D[q + pos + 1])
    BY PatternInString
  <2>2. /\ L - 2 \in 0 .. L - 1 /\ (L - 2) + 1 = L - 1
        /\ q + (L - 2) + 1 = q + 2 * VarN + 3
        /\ L - 1 \in 0 .. L - 1 /\ (L - 1) + 1 = L
        /\ q + (L - 1) + 1 = q + 2 * VarN + 4
    BY <1>2
  <2>3. MsgEnd # AnyByte
    BY DEF MsgEnd, AnyByte
  <2>4. /\ Accepts(Pattern(VarN), L - 2, D[q + 2 * VarN + 3])
        /\ Accepts(Pattern(VarN), L - 1, D[q + 2 * VarN + 4])
    BY <2>1, <2>2
  <2> QED
    BY <2>1, <2>2, <2>3, <2>4, MessagePattern DEF Accepts
<1>4. /\ a \in Nat /\ a < WholeIn(in) * L
  BY <1>1, <1>2, <1>3
<1> HIDE DEF a
<1>5. j \in 0 .. WholeIn(in) - 1 /\ m \in 0 .. L - 1
  BY <1>1, <1>2, <1>4, InRows
<1>6. a = j * L + m
  BY <1>2, <1>4, PlaceInRow
<1>7. /\ ValuesOf(in, j) \in Reading
      /\ \A k \in 1 .. L : D[P + j * L + k] = Frame(ValuesOf(in, j))[k]
  BY <1>5, FramesFollow
<1> HIDE DEF D, P, j, m
<1>8. j * L \in Nat
  BY <1>1, <1>2, <1>5
<1>9. q + 2 * VarN + 4 = P + j * L + (m + 1) /\ q + 2 * VarN + 3 = P + j * L + m
  BY <1>1, <1>2, <1>5, <1>6, <1>8 DEF a
<1>10. m = L - 1
  <2>1. m + 1 \in 1 .. L /\ Frame(ValuesOf(in, j))[m + 1] = MsgEnd
    BY <1>2, <1>3, <1>5, <1>7, <1>9
  <2>2. m # 0
    BY <1>7, <2>1, EndsOnce
  <2>3. m \in 1 .. L /\ Frame(ValuesOf(in, j))[m] = MsgEnd
    <3>1. m \in 1 .. L
      BY <1>2, <1>5, <2>2
    <3> QED
      BY <1>3, <1>7, <1>9, <3>1
  <2>4. ~(m \in 1 .. L - 2)
    BY <1>7, <2>1, <2>3, EndsOnce
  <2> QED
    BY <1>2, <1>5, <2>2, <2>4
<1>11. q = P + j * L
  BY <1>1, <1>2, <1>6, <1>8, <1>10 DEF a
<1> QED
  BY <1>5, <1>11 DEF P

-----------------------------------------------------------------------------
(* Types and room, whatever a device sends *)

\* Room is made when parseBuffer() ends; the flush comes before the next read().
RoomAtEnd == phase \in {"flush", "idle"} /\ parsed => Free >= L

IInv == TypeOK /\ RoomAtEnd

\* A match lies inside the buffer.
LEMMA MatchInBuffer ==
  ASSUME buffer \in Seq(Byte), NEW start \in Nat, Match(start)
  PROVE  start + L <= Len(buffer)
<1>1. VarN \in Nat /\ Len(Pattern(VarN)) = L /\ L \in Nat
  BY MessageLength, MessagePattern
<1>2. IsFirstOccurrence(Pattern(VarN), buffer, start)
  BY DEF Match, matchMessage
<1>3. OccursAt(Pattern(VarN), buffer, start)
  BY <1>2 DEF IsFirstOccurrence
<1> QED
  BY <1>1, <1>3 DEF OccursAt

\* Its values are bytes.
LEMMA ValuesAreBytes ==
  ASSUME buffer \in Seq(Byte), NEW start \in Nat, Match(start)
  PROVE  getValues(start) \in Reading
<1>1. \A v \in 1 .. VarN : start + 2 * v + 1 \in 1 .. Len(buffer)
  BY VarNAssumption, MatchInBuffer, MessageLength
<1>2. \A v \in 1 .. VarN : buffer[start + 2 * v + 1] \in Byte
  BY <1>1
<1> QED
  BY <1>2 DEF getValues, Reading

\* What is left of a sequence of bytes is one.
LEMMA SubSeqOfBytes ==
  ASSUME NEW s \in Seq(Byte), NEW m \in Nat, NEW n \in Nat, n <= Len(s)
  PROVE  /\ SubSeq(s, m + 1, n) \in Seq(Byte)
         /\ Len(SubSeq(s, m + 1, n)) = IF m <= n THEN n - m ELSE 0
<1>1. \A k \in m + 1 .. n : s[k] \in Byte
  OBVIOUS
<1> QED
  BY <1>1, SubSeqProperties

\* parseEnd keeps all of the buffer but d bytes, of which there are enough.
LEMMA FreedSpace ==
  ASSUME NEW s \in Seq(Byte), NEW d \in Nat, d <= Len(s)
  PROVE  FreeSpace(s, d) \in Seq(Byte) /\ Len(FreeSpace(s, d)) = Len(s) - d
<1>1. Len(s) - d \in Nat
  OBVIOUS
<1>2. \A k \in 1 .. Len(s) - d : (IF k <= d THEN s[k + d] ELSE s[k]) \in Byte
  OBVIOUS
<1>3. FreeSpace(s, d) \in [1 .. Len(s) - d -> Byte]
  BY <1>2 DEF FreeSpace
<1> QED
  BY <1>1, <1>3

\* Every step of the callback keeps the types and the room.
LEMMA IInvInvariant == Spec => []IInv
<1> USE VarNAssumption, BuffSizeAssumption, MbCapacityAssumption, MessageLength
<1>1. Init => IInv
  <2> SUFFICES ASSUME Init PROVE IInv
    OBVIOUS
  <2>1. DeviceBytes(input) \in Seq(Byte)
    BY DeviceSends DEF Init
  <2>2. TypeOK
    BY <2>1 DEF Init, TypeOK
  <2>3. Free >= L
    BY DEF Init, Free, L
  <2> QED
    BY <2>2, <2>3 DEF IInv, RoomAtEnd
<1>2. IInv /\ [Next]_vars => IInv'
  <2> SUFFICES ASSUME IInv, [Next]_vars PROVE IInv'
    OBVIOUS
  <2> USE DEF IInv
  <2>1. /\ buffer \in Seq(Byte) /\ Len(buffer) \in Nat
        /\ Len(buffer) <= BuffSize /\ input \in Inputs
        /\ arrived \in 0 .. Len(DeviceBytes(input))
        /\ Free = BuffSize - Len(buffer)
    BY DEF TypeOK, Free
  <2>2. DeviceBytes(input) \in Seq(Byte)
    BY <2>1, DeviceSends
  <2>3. ASSUME NEW n \in 0 .. BuffSize, readFromArduino(n)
        PROVE  IInv'
    <3> DEFINE read == SubSeq(DeviceBytes(input), arrived + 1, arrived + n)
    <3>1. /\ n <= Free /\ n <= Len(DeviceBytes(input)) - arrived
          /\ buffer' = buffer \o read /\ arrived' = arrived + n
          /\ phase' = "parse"
          /\ UNCHANGED <<input, mb, readings, dropped, parsed>>
      BY <2>3 DEF readFromArduino
    <3>2. read \in Seq(Byte) /\ Len(read) = n
      <4>1. arrived \in Nat /\ arrived + n \in Nat
            /\ arrived + n <= Len(DeviceBytes(input))
        BY <2>1, <2>2, <3>1
      <4> QED
        BY <2>2, <4>1, SubSeqOfBytes
    <3> HIDE DEF read
    <3>3. buffer' \in Seq(Byte) /\ Len(buffer') <= BuffSize
      BY <2>1, <3>1, <3>2
    <3>4. arrived' \in 0 .. Len(DeviceBytes(input))
      BY <2>1, <2>2, <3>1
    <3> QED
      BY <3>1, <3>3, <3>4 DEF TypeOK, RoomAtEnd
  <2>4. CASE readError
    BY <2>4 DEF readError, TypeOK, RoomAtEnd
  <2>5. ASSUME NEW start \in 0 .. BuffSize, parseMessage(start)
        PROVE  IInv'
    <3>1. /\ phase = "parse" /\ Match(start)
          /\ addToMessageBuffer(getValues(start))
          /\ buffer' = SubSeq(buffer, start + L + 1, Len(buffer))
          /\ UNCHANGED <<input, arrived, readings, parsed, phase>>
      BY <2>5 DEF parseMessage
    <3>2. buffer' \in Seq(Byte) /\ Len(buffer') <= BuffSize
      BY <2>1, <3>1, MatchInBuffer, SubSeqOfBytes
    <3>3. getValues(start) \in Reading
      BY <2>1, <3>1, ValuesAreBytes
    <3>4. /\ mb' \in Seq(Reading) /\ Len(mb') <= MbCapacity
          /\ dropped' \in Nat
      <4>1. mb \in Seq(Reading) /\ Len(mb) <= MbCapacity /\ dropped \in Nat
        BY DEF TypeOK
      <4>2. CASE Len(mb) < MbCapacity
        <5>1. mb' = Append(mb, getValues(start)) /\ dropped' = dropped
          BY <3>1, <4>2 DEF addToMessageBuffer
        <5> QED
          BY <3>3, <4>1, <4>2, <5>1
      <4>3. CASE ~(Len(mb) < MbCapacity)
        <5>1. mb' = mb /\ dropped' = dropped + 1
          BY <3>1, <4>3 DEF addToMessageBuffer
        <5> QED
          BY <4>1, <5>1
      <4> QED
        BY <4>2, <4>3
    <3> QED
      BY <3>1, <3>2, <3>4 DEF TypeOK, RoomAtEnd
  <2>6. CASE parseEnd
    <3>1. /\ buffer' = IF L > Free THEN FreeSpace(buffer, L - Free) ELSE buffer
          /\ phase' = "flush" /\ parsed' = TRUE
          /\ UNCHANGED <<input, arrived, mb, readings, dropped>>
      BY <2>6 DEF parseEnd
    <3>2. CASE L > Free
      <4>1. L - Free \in Nat /\ L - Free <= Len(buffer)
        BY <2>1, <3>2 DEF L
      <4>2. buffer' \in Seq(Byte) /\ Len(buffer') = Len(buffer) - (L - Free)
        BY <2>1, <3>1, <3>2, <4>1, FreedSpace
      <4>3. Len(buffer') <= BuffSize - L
        BY <2>1, <4>2
      <4>4. TypeOK'
        <5>1. buffer' \in Seq(Byte) /\ Len(buffer') <= BuffSize
          BY <2>1, <4>1, <4>2
        <5> QED
          BY <3>1, <5>1 DEF TypeOK
      <4>5. Free' >= L
        BY <4>2, <4>3 DEF Free
      <4> QED
        BY <4>4, <4>5 DEF RoomAtEnd
    <3>3. CASE ~(L > Free)
      BY <3>1, <3>3 DEF TypeOK, RoomAtEnd, Free
    <3> QED
      BY <3>2, <3>3
  <2>7. CASE parseFails
    BY <2>7 DEF parseFails, TypeOK, RoomAtEnd
  <2>8. CASE flushMessageBuffer
    <3>1. TypeOK'
      BY <2>8 DEF flushMessageBuffer, TypeOK
    <3>2. RoomAtEnd'
      BY <2>8 DEF flushMessageBuffer, RoomAtEnd, Free
    <3> QED
      BY <3>1, <3>2
  <2>9. CASE flushFails
    <3>1. TypeOK'
      BY <2>9 DEF flushFails, TypeOK
    <3>2. RoomAtEnd'
      BY <2>9 DEF flushFails, RoomAtEnd, Free
    <3> QED
      BY <3>1, <3>2
  <2>10. CASE UNCHANGED vars
    BY <2>10 DEF vars, TypeOK, RoomAtEnd, Free
  <2> QED
    BY <2>3, <2>4, <2>5, <2>6, <2>7, <2>8, <2>9, <2>10 DEF Next
<1> QED
  BY <1>1, <1>2, PTL DEF Spec

\* Neither the read buffer nor the message buffer is ever written behind its
\* end, and all they hold are bytes the device sent.
THEOREM TypeCorrect == Spec => []TypeOK
<1>1. IInv => TypeOK
  BY DEF IInv
<1> QED
  BY <1>1, IInvInvariant, PTL

\* A device is never deaf: whatever it sends, the next read() can take a whole
\* message.
THEOREM NeverDeaf == Spec => []RoomForMessage
<1>1. IInv => RoomForMessage
  BY DEF IInv, RoomAtEnd, RoomForMessage
<1> QED
  BY <1>1, IInvInvariant, PTL

-----------------------------------------------------------------------------
(* The read buffer of a device that brings little noise *)

\* How many bytes have left the buffer, or were never in it.
Start == arrived - Len(buffer)

\* BufferIsSuffix, without its condition.
Suffix == \A k \in 1 .. Len(buffer) : buffer[k] = DeviceBytes(input)[Start + k]

\* The buffer begins where whole frame h does; before the first message, where
\* the line does.
BeginsWith(h) ==
  \/ h = 0 /\ Start = 0
  \/ Start = FirstFrame(input) + h * L

\* A message in the buffer is one of the line.
LEMMA MessagesOfTheLine ==
  ASSUME TypeOK, Suffix, Start \in Nat, NEW q \in Nat, q + L <= Len(buffer)
  PROVE  OccursAt(Pattern(VarN), buffer, q)
           <=> OccursAt(Pattern(VarN), DeviceBytes(input), Start + q)
<1> DEFINE D == DeviceBytes(input)
<1>1. /\ D \in Seq(Byte) /\ Len(D) \in Nat /\ arrived \in Nat /\ arrived <= Len(D)
      /\ buffer \in Seq(Byte) /\ Len(buffer) \in Nat
  BY DeviceSends DEF TypeOK
<1>2. L \in Nat
  BY MessageLength
<1> HIDE DEF D
<1>3. Start + q \in Nat /\ Start + q + L <= Len(D)
  BY <1>1, <1>2 DEF Start
<1>4. ASSUME NEW pos \in 0 .. L - 1
      PROVE  buffer[q + pos + 1] = D[Start + q + pos + 1]
  <2>1. q + pos + 1 \in 1 .. Len(buffer)
        /\ Start + (q + pos + 1) = Start + q + pos + 1
    BY <1>1, <1>2
  <2> QED
    BY <2>1 DEF Suffix, D
<1> QED
  BY <1>3, <1>4, PatternInString DEF D

\* What the line has brought, and where the buffer and the frames are on it.
LEMMA OnTheLine ==
  ASSUME TypeOK, LittleNoise, NEW h \in 0 .. WholeIn(input), BeginsWith(h)
  PROVE  /\ input \in Inputs /\ Sends(input) = VarN /\ VarN <= MaxVars
         /\ buffer \in Seq(Byte) /\ Len(buffer) \in 0 .. BuffSize
         /\ arrived \in Nat /\ Start \in Nat /\ arrived = Start + Len(buffer)
         /\ FirstFrame(input) \in 0 .. BuffSize - 2 * L + 1
         /\ WholeIn(input) \in Nat /\ h * L \in Nat
         /\ arrived <= FirstFrame(input) + WholeIn(input) * L
         /\ Start <= FirstFrame(input) + h * L
         /\ L \in Nat \ {0} /\ BuffSize \in Nat
<1>1. /\ input \in Inputs /\ Sends(input) = VarN /\ VarN <= MaxVars
      /\ FirstFrame(input) <= BuffSize - 2 * L + 1
  BY DEF TypeOK, LittleNoise
<1>2. /\ FirstFrame(input) \in Nat /\ WholeIn(input) \in Nat
      /\ Len(DeviceBytes(input)) = FirstFrame(input) + WholeIn(input) * L
      /\ DeviceBytes(input) \in Seq(Byte)
  BY <1>1, FramesFollow
<1>3. L \in Nat \ {0} /\ BuffSize \in Nat
  BY MessageLength, BuffSizeAssumption
<1>4. h * L \in Nat
  BY <1>2, <1>3
<1>5. /\ buffer \in Seq(Byte) /\ Len(buffer) \in Nat /\ Len(buffer) <= BuffSize
      /\ arrived \in 0 .. Len(DeviceBytes(input)) /\ Len(DeviceBytes(input)) \in Nat
  BY <1>2 DEF TypeOK
<1>6. Start \in Nat /\ Start <= FirstFrame(input) + h * L
  BY <1>2, <1>4 DEF BeginsWith
<1>7. arrived = Start + Len(buffer) /\ arrived \in Nat
  BY <1>5 DEF Start
<1>8. arrived <= FirstFrame(input) + WholeIn(input) * L
  BY <1>2, <1>5
<1> QED
  BY <1>1, <1>2, <1>3, <1>4, <1>5, <1>6, <1>7, <1>8

\* matchMessage() searches: neither of its guards refuses.
LEMMA Searches ==
  ASSUME VarN <= MaxVars, NEW r, Match(r)
  PROVE  \/ buffer = << >> /\ r = -1
         \/ IsFirstOccurrence(Pattern(VarN), buffer, r)
<1>1. ~(VarN > MaxVars)
  BY MessageLength DEF MaxVars
<1> QED
  BY <1>1 DEF Match, matchMessage

\* The message that is found is whole frame h.
LEMMA FindsTheNext ==
  ASSUME TypeOK, LittleNoise, Suffix, NEW h \in 0 .. WholeIn(input), BeginsWith(h),
         NEW start \in Nat, Match(start)
  PROVE  /\ h < WholeIn(input)
         /\ Start + start = FirstFrame(input) + h * L
         /\ start + L <= Len(buffer)
         /\ getValues(start) = ValuesOf(input, h)
<1> DEFINE D == DeviceBytes(input)
           P == FirstFrame(input)
           W == WholeIn(input)
<1>1. /\ input \in Inputs /\ Sends(input) = VarN /\ VarN <= MaxVars
      /\ buffer \in Seq(Byte) /\ Len(buffer) \in 0 .. BuffSize
      /\ arrived \in Nat /\ Start \in Nat /\ arrived = Start + Len(buffer)
      /\ P \in Nat /\ W \in Nat /\ h * L \in Nat /\ Start <= P + h * L
      /\ L \in Nat \ {0}
  BY OnTheLine
<1>2. /\ start + L <= Len(buffer) /\ OccursAt(Pattern(VarN), buffer, start)
      /\ \A q \in 0 .. start - 1 : ~OccursAt(Pattern(VarN), buffer, q)
  <2>1. IsFirstOccurrence(Pattern(VarN), buffer, start)
    BY <1>1, Searches
  <2>2. /\ OccursAt(Pattern(VarN), buffer, start)
        /\ \A q \in 0 .. start - 1 : ~OccursAt(Pattern(VarN), buffer, q)
    BY <2>1 DEF IsFirstOccurrence
  <2> QED
    BY <2>2, PatternInString
<1>3. OccursAt(Pattern(VarN), D, Start + start)
  BY <1>1, <1>2, MessagesOfTheLine
<1>4. Start + start + L > P
  <2>1. SUFFICES ASSUME Start + start + L <= P PROVE FALSE
    BY <1>1
  <2>2. Start + start \in 0 .. P - L
    BY <1>1, <2>1
  <2> QED
    BY <1>3, <2>2 DEF LittleNoise
<1>5. PICK j \in 0 .. W - 1 : Start + start = P + j * L
  BY <1>1, <1>3, <1>4, MessagesAreFrames
<1>6. j * L \in Nat
  BY <1>1
<1> HIDE DEF P, W
<1>7. j >= h
  <2>1. SUFFICES ASSUME j < h PROVE FALSE
    OBVIOUS
  <2>2. j * L + L <= h * L
    BY <1>1, <2>1, RowsAfter
  <2>3. Start = P + h * L
    BY <1>1, <2>1 DEF BeginsWith, P
  <2> QED
    BY <1>1, <1>5, <1>6, <2>2, <2>3
<1>8. j = h
  <2>1. SUFFICES ASSUME h < j PROVE FALSE
    BY <1>1, <1>7
  <2>2. h * L + L <= j * L
    BY <1>1, <2>1, RowsAfter
  <2>3. PICK q \in Nat : Start + q = P + h * L
    BY <1>1
  <2>4. q + L <= start
    BY <1>1, <1>5, <1>6, <2>2, <2>3
  <2>5. q \in 0 .. start - 1 /\ q + L <= Len(buffer)
    BY <1>1, <1>2, <2>4
  <2>6. OccursAt(Pattern(VarN), D, Start + q)
    BY <1>1, <1>5, <2>1, <2>3, FrameOccurs DEF P, W
  <2>7. OccursAt(Pattern(VarN), buffer, q)
    BY <1>1, <2>5, <2>6, MessagesOfTheLine
  <2> QED
    BY <1>2, <2>5, <2>7
<1>9. h < W /\ Start + start = P + h * L
  BY <1>1, <1>5, <1>8
<1>10. getValues(start) = ValuesOf(input, h)
  <2>1. /\ ValuesOf(input, h) \in Reading
        /\ \A c \in 1 .. VarN : D[P + h * L + 2 * c + 1] = ValuesOf(input, h)[c]
    BY <1>1, <1>5, <1>8, FramesFollow, FrameOccurs DEF P, W
  <2>2. ASSUME NEW c \in 1 .. VarN
        PROVE  buffer[start + 2 * c + 1] = ValuesOf(input, h)[c]
    <3>1. /\ start + 2 * c + 1 \in 1 .. Len(buffer)
          /\ Start + (start + 2 * c + 1) = P + h * L + 2 * c + 1
      BY <1>1, <1>2, <1>9, MessageLength
    <3>2. buffer[start + 2 * c + 1] = D[Start + (start + 2 * c + 1)]
      BY <3>1 DEF Suffix
    <3> QED
      BY <2>1, <3>1, <3>2
  <2> QED
    BY <2>1, <2>2 DEF getValues, Reading
<1> QED
  BY <1>2, <1>9, <1>10 DEF P, W

\* When none is found, whole frame h has not arrived, and parseEnd finds room.
LEMMA NoneIsLeft ==
  ASSUME TypeOK, LittleNoise, Suffix, NEW h \in 0 .. WholeIn(input), BeginsWith(h),
         Match(-1)
  PROVE  /\ arrived < FirstFrame(input) + h * L + L
         /\ ~(L > Free)
<1> DEFINE D == DeviceBytes(input)
           P == FirstFrame(input)
           W == WholeIn(input)
<1>1. /\ input \in Inputs /\ Sends(input) = VarN /\ VarN <= MaxVars
      /\ buffer \in Seq(Byte) /\ Len(buffer) \in 0 .. BuffSize
      /\ arrived \in Nat /\ Start \in Nat /\ arrived = Start + Len(buffer)
      /\ P \in 0 .. BuffSize - 2 * L + 1 /\ W \in Nat /\ h * L \in Nat
      /\ arrived <= P + W * L /\ Start <= P + h * L
      /\ L \in Nat \ {0} /\ BuffSize \in Nat
  BY OnTheLine
<1>2. ASSUME arrived >= P + h * L + L PROVE FALSE
  <2>1. h < W
    <3>1. SUFFICES ASSUME h = W PROVE FALSE
      BY <1>1
    <3>2. arrived <= P + h * L
      BY <1>1, <3>1
    <3> HIDE DEF P, W
    <3> QED
      BY <1>1, <1>2, <3>2
  <2>2. PICK q \in Nat : Start + q = P + h * L
    BY <1>1
  <2>3. q + L <= Len(buffer)
    BY <1>1, <1>2, <2>2
  <2>4. h \in 0 .. W - 1
    BY <1>1, <2>1
  <2>5. OccursAt(Pattern(VarN), D, Start + q)
    BY <1>1, <2>2, <2>4, FrameOccurs
  <2>6. OccursAt(Pattern(VarN), buffer, q)
    BY <1>1, <2>3, <2>5, MessagesOfTheLine
  <2>7. buffer # << >>
    BY <1>1, <2>3
  <2>8. \A p \in 0 .. Len(buffer) - L : ~OccursAt(Pattern(VarN), buffer, p)
    <3>1. IsFirstOccurrence(Pattern(VarN), buffer, -1)
      BY <1>1, <2>7, Searches
    <3>2. Len(Pattern(VarN)) = L
      BY MessagePattern
    <3> QED
      BY <3>1, <3>2 DEF IsFirstOccurrence
  <2> QED
    BY <1>1, <2>3, <2>6, <2>8
<1>3. arrived < P + h * L + L
  BY <1>1, <1>2
<1>4. Len(buffer) <= BuffSize - L
  <2>1. CASE h = 0 /\ Start = 0
    <3>1. h * L = 0
      BY <1>1, <2>1
    <3> QED
      BY <1>1, <1>3, <2>1, <3>1
  <2>2. CASE Start = P + h * L
    BY <1>1, <1>3, <2>2
  <2> QED
    BY <2>1, <2>2 DEF BeginsWith
<1> QED
  BY <1>1, <1>3, <1>4 DEF Free

-----------------------------------------------------------------------------
(* What has been passed on *)

\* The first h whole frames.
First(h) == SubSeq(input.values, CutFrames(input) + 1, CutFrames(input) + h)

\* All frames before the buffer have been passed on, but for those that found
\* the message buffer full; when parseBuffer() is done, the next one has not
\* arrived.
PassedOn(h) ==
  /\ BeginsWith(h)
  /\ phase \in {"flush", "idle"} /\ parsed =>
       arrived < FirstFrame(input) + h * L + L
  /\ Len(readings \o mb) + dropped = h
  /\ IsPartOf(readings \o mb, First(h))

InStep ==
  /\ readings \in Seq(Reading)
  /\ LittleNoise => Suffix /\ \E h \in 0 .. WholeIn(input) : PassedOn(h)

LEMMA PartOfMore ==
  ASSUME NEW S, NEW part \in Seq(S), NEW seq \in Seq(S), NEW x \in S,
         IsPartOf(part, seq)
  PROVE  /\ IsPartOf(Append(part, x), Append(seq, x))
         /\ IsPartOf(part, Append(seq, x))
<1>1. PICK at \in [1 .. Len(part) -> 1 .. Len(seq)] :
        /\ \A i, j \in 1 .. Len(part) : i < j => at[i] < at[j]
        /\ \A i \in 1 .. Len(part) : part[i] = seq[at[i]]
  BY DEF IsPartOf
<1>2. /\ Len(part) \in Nat /\ Len(seq) \in Nat
      /\ Len(Append(part, x)) = Len(part) + 1 /\ Len(Append(seq, x)) = Len(seq) + 1
      /\ \A i \in 1 .. Len(part) : Append(part, x)[i] = part[i]
      /\ \A i \in 1 .. Len(seq) : Append(seq, x)[i] = seq[i]
      /\ Append(part, x)[Len(part) + 1] = x /\ Append(seq, x)[Len(seq) + 1] = x
  BY AppendProperties
<1>3. IsPartOf(part, Append(seq, x))
  <2>1. at \in [1 .. Len(part) -> 1 .. Len(seq) + 1]
    BY <1>1, <1>2
  <2>2. ASSUME NEW i \in 1 .. Len(part)
        PROVE  part[i] = Append(seq, x)[at[i]]
    <3>1. at[i] \in 1 .. Len(seq)
      BY <1>1
    <3> QED
      BY <1>1, <1>2, <3>1
  <2>3. at \in [1 .. Len(part) -> 1 .. Len(Append(seq, x))]
    BY <1>2, <2>1
  <2> QED
    BY <1>1, <2>2, <2>3 DEF IsPartOf
<1>4. IsPartOf(Append(part, x), Append(seq, x))
  <2> DEFINE more == [i \in 1 .. Len(part) + 1 |->
                        IF i <= Len(part) THEN at[i] ELSE Len(seq) + 1]
  <2>1. /\ more \in [1 .. Len(part) + 1 -> 1 .. Len(seq) + 1]
        /\ \A i \in 1 .. Len(part) : more[i] = at[i]
        /\ more[Len(part) + 1] = Len(seq) + 1
    BY <1>1, <1>2
  <2> HIDE DEF more
  <2>2. ASSUME NEW i \in 1 .. Len(part) + 1, NEW j \in 1 .. Len(part) + 1, i < j
        PROVE  more[i] < more[j]
    BY <1>1, <1>2, <2>1, <2>2
  <2>3. ASSUME NEW i \in 1 .. Len(part) + 1
        PROVE  Append(part, x)[i] = Append(seq, x)[more[i]]
    <3>1. i \in 1 .. Len(part) \/ i = Len(part) + 1
      BY <1>2
    <3>2. CASE i \in 1 .. Len(part)
      <4>1. more[i] = at[i] /\ at[i] \in 1 .. Len(seq)
        BY <1>1, <2>1, <3>2
      <4> QED
        BY <1>1, <1>2, <3>2, <4>1
    <3>3. CASE i = Len(part) + 1
      BY <1>2, <2>1, <3>3
    <3> QED
      BY <3>1, <3>2, <3>3
  <2> QED
    BY <1>2, <2>1, <2>2, <2>3 DEF IsPartOf
<1> QED
  BY <1>3, <1>4

LEMMA FirstFrames ==
  ASSUME input \in Inputs, Sends(input) = VarN, NEW h \in 0 .. WholeIn(input)
  PROVE  /\ First(h) \in Seq(Reading) /\ Len(First(h)) = h
         /\ h < WholeIn(input) => First(h + 1) = Append(First(h), ValuesOf(input, h))
<1> DEFINE c == CutFrames(input)
<1>1. /\ c \in {0, 1} /\ WholeIn(input) \in Nat
      /\ WholeIn(input) = Len(input.values) - c /\ Len(input.values) \in Nat
      /\ input.values \in Seq(Reading)
  BY FramesFollow, Device DEF WholeIn, Reading
<1> HIDE DEF c
<1>2. ASSUME NEW n \in 0 .. WholeIn(input)
      PROVE  /\ First(n) \in Seq(Reading) /\ Len(First(n)) = n
             /\ \A i \in 1 .. n : First(n)[i] = input.values[c + i]
  <2>1. First(n) = SubSeq(input.values, c + 1, c + n)
    BY DEF First, c
  <2>2. \A i \in c + 1 .. c + n : input.values[i] \in Reading
    <3> TAKE i \in c + 1 .. c + n
    <3>1. i \in 1 .. Len(input.values)
      BY <1>1
    <3> QED
      BY <1>1, <3>1, ElementOfSeq
  <2>3. /\ First(n) \in Seq(Reading)
        /\ Len(First(n)) = IF c + 1 <= c + n THEN (c + n) - (c + 1) + 1 ELSE 0
        /\ \A i \in 1 .. (c + n) - (c + 1) + 1 :
             First(n)[i] = input.values[(c + 1) + i - 1]
    <3>1. c + 1 \in Int /\ c + n \in Int
      BY <1>1
    <3> QED
      BY <2>1, <2>2, <3>1, SubSeqProperties
  <2>4. (c + n) - (c + 1) + 1 = n /\ (c + 1 <= c + n \/ n = 0)
        /\ \A i \in 1 .. n : (c + 1) + i - 1 = c + i
    BY <1>1
  <2> QED
    BY <1>1, <2>3, <2>4
<1>3. ASSUME h < WholeIn(input)
      PROVE  First(h + 1) = Append(First(h), ValuesOf(input, h))
  <2>1. h + 1 \in 0 .. WholeIn(input) /\ ValuesOf(input, h) = input.values[c + (h + 1)]
    BY <1>1, <1>3 DEF ValuesOf, c
  <2>2. ValuesOf(input, h) \in Reading
    BY <1>1, <1>3, FramesFollow
  <2>3. /\ Append(First(h), ValuesOf(input, h)) \in Seq(Reading)
        /\ Len(Append(First(h), ValuesOf(input, h))) = h + 1
        /\ \A i \in 1 .. h : Append(First(h), ValuesOf(input, h))[i] = First(h)[i]
        /\ Append(First(h), ValuesOf(input, h))[h + 1] = ValuesOf(input, h)
    BY <1>2, <2>2, AppendProperties
  <2>4. \A i \in 1 .. h + 1 :
          First(h + 1)[i] = Append(First(h), ValuesOf(input, h))[i]
    BY <1>2, <2>1, <2>3
  <2> QED
    BY <1>2, <2>1, <2>3, <2>4, SeqEqual
<1> QED
  BY <1>2, <1>3

\* Steps that leave the line, the buffer and what was passed on as they are.
LEMMA StillInStep ==
  ASSUME InStep, UNCHANGED <<input, arrived, buffer, dropped>>,
         readings' \in Seq(Reading), readings' \o mb' = readings \o mb,
         phase' \in {"flush", "idle"} /\ parsed' => phase \in {"flush", "idle"} /\ parsed
  PROVE  InStep'
<1> SUFFICES ASSUME LittleNoise'
             PROVE  Suffix' /\ \E h \in 0 .. WholeIn(input)' : PassedOn(h)'
  BY DEF InStep
<1>1. LittleNoise
  BY DEF LittleNoise
<1>2. PICK h \in 0 .. WholeIn(input) : PassedOn(h)
  BY <1>1 DEF InStep
<1>3. Suffix'
  BY <1>1 DEF InStep, Suffix, Start
<1>4. BeginsWith(h)' /\ First(h)' = First(h) /\ WholeIn(input)' = WholeIn(input)
  BY <1>2 DEF PassedOn, BeginsWith, Start, First, WholeIn
<1>5. PassedOn(h)'
  BY <1>2, <1>4 DEF PassedOn
<1> QED
  BY <1>3, <1>4, <1>5

LEMMA InStepAtFirst ==
  ASSUME Init
  PROVE  InStep
<1>1. /\ input \in Inputs /\ arrived = 0 /\ buffer = << >> /\ mb = << >>
      /\ readings = << >> /\ dropped = 0
  BY DEF Init
<1>2. readings \in Seq(Reading) /\ readings \o mb = << >>
  BY <1>1
<1> SUFFICES ASSUME LittleNoise
             PROVE  Suffix /\ PassedOn(0) /\ 0 \in 0 .. WholeIn(input)
  BY <1>2 DEF InStep
<1>3. Len(buffer) = 0
  BY <1>1
<1>4. Suffix
  BY <1>3 DEF Suffix
<1>5. Sends(input) = VarN
  BY DEF LittleNoise
<1>6. FirstFrame(input) \in Nat /\ WholeIn(input) \in Nat /\ 0 \in 0 .. WholeIn(input)
  BY <1>1, <1>5, FramesFollow
<1>7. BeginsWith(0)
  <2>1. Start = 0
    <3>1. arrived = 0
      BY <1>1
    <3> QED
      BY <1>3, <3>1 DEF Start
  <2> QED
    BY <2>1 DEF BeginsWith
<1>8. arrived < FirstFrame(input) + 0 * L + L
  BY <1>1, <1>6, MessageLength
<1>9. Len(readings \o mb) = 0
  BY <1>2
<1>10. IsPartOf(readings \o mb, First(0))
  <2>1. \A i \in 1 .. Len(readings \o mb) : FALSE
    BY <1>9
  <2>2. [i \in 1 .. Len(readings \o mb) |-> 1]
          \in [1 .. Len(readings \o mb) -> 1 .. Len(First(0))]
    BY <2>1
  <2> QED
    BY <2>1, <2>2 DEF IsPartOf
<1> QED
  BY <1>1, <1>4, <1>6, <1>7, <1>8, <1>9, <1>10 DEF PassedOn

LEMMA ReadInStep ==
  ASSUME TypeOK, InStep, NEW n \in Nat, readFromArduino(n)
  PROVE  InStep'
<1>1. /\ n <= Len(DeviceBytes(input)) - arrived
      /\ buffer' = buffer \o SubSeq(DeviceBytes(input), arrived + 1, arrived + n)
      /\ arrived' = arrived + n /\ phase' = "parse"
      /\ UNCHANGED <<input, mb, readings, dropped, parsed>>
  BY DEF readFromArduino
<1> SUFFICES ASSUME LittleNoise'
             PROVE  Suffix' /\ \E h \in 0 .. WholeIn(input)' : PassedOn(h)'
  BY <1>1 DEF InStep
<1> DEFINE D == DeviceBytes(input)
           read == SubSeq(D, arrived + 1, arrived + n)
<1>2. LittleNoise
  BY <1>1 DEF LittleNoise
<1>3. PICK h \in 0 .. WholeIn(input) : PassedOn(h)
  BY <1>2 DEF InStep
<1>4. /\ D \in Seq(Byte) /\ Len(D) \in Nat /\ arrived \in Nat
      /\ buffer \in Seq(Byte) /\ Len(buffer) \in Nat
  BY DeviceSends DEF TypeOK
<1>5. D' = D
  BY <1>1 DEF DeviceBytes, FrameLen, Sends
<1>6. buffer' = buffer \o read
  BY <1>1
<1> HIDE DEF D
<1>7. /\ read \in Seq(Byte) /\ Len(read) = n
      /\ \A i \in 1 .. n : read[i] = D[arrived + i]
  <2>1. \A i \in arrived + 1 .. arrived + n : D[i] \in Byte
    BY <1>1, <1>4, ElementOfSeq DEF D
  <2>2. /\ read \in Seq(Byte)
        /\ Len(read) = IF arrived + 1 <= arrived + n
                         THEN (arrived + n) - (arrived + 1) + 1 ELSE 0
        /\ \A i \in 1 .. (arrived + n) - (arrived + 1) + 1 :
             read[i] = D[(arrived + 1) + i - 1]
    BY <1>4, <2>1, SubSeqProperties
  <2>3. (arrived + n) - (arrived + 1) + 1 = n /\ (arrived + 1 <= arrived + n \/ n = 0)
        /\ \A i \in 1 .. n : (arrived + 1) + i - 1 = arrived + i
    BY <1>4
  <2> QED
    BY <2>2, <2>3
<1> HIDE DEF read
<1>8. /\ Len(buffer') = Len(buffer) + n
      /\ \A k \in 1 .. Len(buffer) + n :
           buffer'[k] = IF k <= Len(buffer) THEN buffer[k] ELSE read[k - Len(buffer)]
  BY <1>4, <1>6, <1>7, ConcatProperties
<1>9. Start' = Start /\ Start \in Int
  BY <1>1, <1>4, <1>8 DEF Start
<1>10. ASSUME NEW k \in 1 .. Len(buffer) + n
       PROVE  buffer'[k] = D[Start + k]
  <2>1. CASE k <= Len(buffer)
    BY <1>2, <1>4, <1>8, <2>1 DEF InStep, Suffix, D
  <2>2. CASE k > Len(buffer)
    <3>1. k - Len(buffer) \in 1 .. n /\ arrived + (k - Len(buffer)) = Start + k
      BY <1>4, <2>2 DEF Start
    <3> QED
      BY <1>4, <1>7, <1>8, <2>2, <3>1
  <2> QED
    BY <1>4, <2>1, <2>2
<1>11. Suffix'
  BY <1>5, <1>8, <1>9, <1>10 DEF Suffix, D
<1>12. BeginsWith(h)' /\ First(h)' = First(h) /\ WholeIn(input)' = WholeIn(input)
  BY <1>1, <1>3, <1>9 DEF PassedOn, BeginsWith, First, WholeIn
<1>13. PassedOn(h)'
  BY <1>1, <1>3, <1>12 DEF PassedOn
<1> QED
  BY <1>11, <1>12, <1>13

LEMMA ParseInStep ==
  ASSUME TypeOK, InStep, NEW start \in Nat, parseMessage(start)
  PROVE  InStep'
<1>1. /\ phase = "parse" /\ Match(start)
      /\ addToMessageBuffer(getValues(start))
      /\ buffer' = SubSeq(buffer, start + L + 1, Len(buffer))
      /\ UNCHANGED <<input, arrived, readings, parsed, phase>>
  BY DEF parseMessage
<1> SUFFICES ASSUME LittleNoise'
             PROVE  Suffix' /\ \E h \in 0 .. WholeIn(input)' : PassedOn(h)'
  BY <1>1 DEF InStep
<1> DEFINE D == DeviceBytes(input)
<1>2. LittleNoise /\ Suffix /\ readings \in Seq(Reading)
  BY <1>1 DEF LittleNoise, InStep
<1>3. PICK h \in 0 .. WholeIn(input) : PassedOn(h)
  BY <1>2 DEF InStep
<1>4. /\ BeginsWith(h) /\ Len(readings \o mb) + dropped = h
      /\ IsPartOf(readings \o mb, First(h))
  BY <1>3 DEF PassedOn
<1>5. /\ input \in Inputs /\ Sends(input) = VarN /\ WholeIn(input) \in Nat
      /\ buffer \in Seq(Byte) /\ Len(buffer) \in Nat /\ Start \in Nat
      /\ arrived = Start + Len(buffer) /\ FirstFrame(input) \in Nat /\ h * L \in Nat
      /\ L \in Nat \ {0}
  BY <1>2, <1>4, OnTheLine
<1>6. /\ h < WholeIn(input) /\ Start + start = FirstFrame(input) + h * L
      /\ start + L <= Len(buffer) /\ getValues(start) = ValuesOf(input, h)
  BY <1>1, <1>2, <1>4, FindsTheNext
<1>7. D' = D
  BY <1>1 DEF DeviceBytes, FrameLen, Sends
<1> HIDE DEF D
<1>8. /\ Len(buffer') = Len(buffer) - (start + L)
      /\ \A k \in 1 .. Len(buffer) - (start + L) : buffer'[k] = buffer[start + L + k]
  <2>1. \A i \in start + L + 1 .. Len(buffer) : buffer[i] \in Byte
    BY <1>5, ElementOfSeq
  <2>2. /\ Len(buffer') = IF start + L + 1 <= Len(buffer)
                            THEN Len(buffer) - (start + L + 1) + 1 ELSE 0
        /\ \A i \in 1 .. Len(buffer) - (start + L + 1) + 1 :
             buffer'[i] = buffer[(start + L + 1) + i - 1]
    BY <1>1, <1>5, <2>1, SubSeqProperties
  <2>3. /\ Len(buffer) - (start + L + 1) + 1 = Len(buffer) - (start + L)
        /\ start + L + 1 <= Len(buffer) \/ Len(buffer) - (start + L) = 0
        /\ \A i \in 1 .. Len(buffer) - (start + L) :
             (start + L + 1) + i - 1 = start + L + i
    BY <1>5, <1>6
  <2> QED
    BY <2>2, <2>3
<1>9. Start' = Start + start + L
  <2>1. Start' = arrived - Len(buffer')
    BY <1>1 DEF Start
  <2>2. Len(buffer') = Len(buffer) - (start + L)
    BY <1>8
  <2> QED
    BY <1>5, <2>1, <2>2
<1>10. Suffix'
  <2>1. ASSUME NEW k \in 1 .. Len(buffer')
        PROVE  buffer'[k] = D[Start' + k]
    <3>1. start + L + k \in 1 .. Len(buffer) /\ Start + (start + L + k) = Start' + k
      BY <1>5, <1>6, <1>8, <1>9
    <3>2. buffer[start + L + k] = D[Start + (start + L + k)]
      BY <1>2, <3>1 DEF Suffix, D
    <3> QED
      BY <1>8, <3>1, <3>2
  <2> QED
    BY <1>7, <2>1 DEF Suffix, D
<1>11. h + 1 \in 0 .. WholeIn(input) /\ (h + 1) * L = h * L + L
  BY <1>5, <1>6
<1>12. BeginsWith(h + 1)'
  <2>1. Start' = FirstFrame(input) + (h + 1) * L
    BY <1>5, <1>6, <1>9, <1>11
  <2>2. FirstFrame(input)' = FirstFrame(input) /\ L' = L
    BY <1>1 DEF FirstFrame, FrameLen, Sends, L
  <2> QED
    BY <1>1, <2>1, <2>2 DEF BeginsWith
<1>13. /\ Len(readings' \o mb') + dropped' = h + 1
       /\ IsPartOf(readings' \o mb', First(h + 1))
  <2> DEFINE v == ValuesOf(input, h)
             passed == readings \o mb
  <2>1. /\ First(h) \in Seq(Reading) /\ First(h + 1) = Append(First(h), v)
        /\ v \in Reading
    <3>1. h \in 0 .. WholeIn(input) - 1
      BY <1>5, <1>6
    <3> QED
      BY <1>5, <1>6, <3>1, FirstFrames, FramesFollow
  <2>2. /\ mb \in Seq(Reading) /\ passed \in Seq(Reading) /\ dropped \in Nat
        /\ Len(passed) \in Nat
    BY <1>2 DEF TypeOK
  <2>3. IsPartOf(Append(passed, v), First(h + 1)) /\ IsPartOf(passed, First(h + 1))
    BY <1>4, <2>1, <2>2, PartOfMore
  <2> HIDE DEF v, passed
  <2>4. CASE Len(mb) < MbCapacity
    <3>1. mb' = Append(mb, v) /\ dropped' = dropped
      BY <1>1, <1>6, <2>4 DEF addToMessageBuffer, v
    <3>2. readings' \o mb' = Append(passed, v)
      BY <1>1, <1>2, <2>1, <2>2, <3>1 DEF passed
    <3>3. Len(Append(passed, v)) = Len(passed) + 1
      BY <2>1, <2>2, AppendProperties
    <3>4. Len(passed) + dropped = h
      BY <1>4 DEF passed
    <3>5. Len(readings' \o mb') + dropped' = h + 1
      <4>1. Len(readings' \o mb') = Len(passed) + 1
        BY <3>2, <3>3
      <4>2. dropped' = dropped
        BY <3>1
      <4> QED
        BY <2>2, <3>4, <4>1, <4>2
    <3>6. IsPartOf(readings' \o mb', First(h + 1))
      BY <2>3, <3>2
    <3> QED
      BY <3>5, <3>6
  <2>5. CASE ~(Len(mb) < MbCapacity)
    <3>1. mb' = mb /\ dropped' = dropped + 1 /\ readings' = readings
      BY <1>1, <2>5 DEF addToMessageBuffer
    <3>2. Len(passed) + dropped = h /\ readings' \o mb' = passed
      BY <1>4, <3>1 DEF passed
    <3>3. Len(readings' \o mb') + dropped' = h + 1
      BY <2>2, <3>1, <3>2
    <3>4. IsPartOf(readings' \o mb', First(h + 1))
      BY <2>3, <3>2
    <3> QED
      BY <3>3, <3>4
  <2> QED
    BY <2>4, <2>5
<1>14. First(h + 1)' = First(h + 1) /\ WholeIn(input)' = WholeIn(input)
  BY <1>1 DEF First, WholeIn
<1>15. PassedOn(h + 1)'
  BY <1>1, <1>12, <1>13, <1>14 DEF PassedOn
<1> QED
  BY <1>10, <1>11, <1>14, <1>15

LEMMA ParseEndInStep ==
  ASSUME TypeOK, InStep, parseEnd
  PROVE  InStep'
<1>1. /\ phase = "parse" /\ Match(-1)
      /\ buffer' = IF L > Free THEN FreeSpace(buffer, L - Free) ELSE buffer
      /\ UNCHANGED <<input, arrived, mb, readings, dropped>>
  BY DEF parseEnd
<1> SUFFICES ASSUME LittleNoise'
             PROVE  Suffix' /\ \E h \in 0 .. WholeIn(input)' : PassedOn(h)'
  BY <1>1 DEF InStep
<1>2. LittleNoise /\ Suffix
  BY <1>1 DEF LittleNoise, InStep
<1>3. PICK h \in 0 .. WholeIn(input) : PassedOn(h)
  BY <1>2 DEF InStep
<1>4. BeginsWith(h)
  BY <1>3 DEF PassedOn
<1>5. arrived < FirstFrame(input) + h * L + L /\ ~(L > Free)
  BY <1>1, <1>2, <1>4, NoneIsLeft
<1>6. buffer' = buffer
  BY <1>1, <1>5
<1>7. /\ Suffix' /\ BeginsWith(h)'
      /\ First(h)' = First(h) /\ WholeIn(input)' = WholeIn(input)
  BY <1>1, <1>2, <1>4, <1>6 DEF Suffix, BeginsWith, Start, First, WholeIn
<1>8. PassedOn(h)'
  BY <1>1, <1>3, <1>5, <1>7 DEF PassedOn
<1> QED
  BY <1>7, <1>8

\* When parseBuffer() is done, what has left the buffer is all that has arrived.
LEMMA AllHaveLeft ==
  ASSUME TypeOK, LittleNoise, NEW h \in 0 .. WholeIn(input), PassedOn(h),
         phase \in {"flush", "idle"}, parsed
  PROVE  WholeFrames = First(h)
<1> DEFINE brought == arrived - FirstFrame(input)
<1>1. /\ BeginsWith(h) /\ arrived < FirstFrame(input) + h * L + L
  BY DEF PassedOn
<1>2. /\ input \in Inputs /\ Sends(input) = VarN /\ WholeIn(input) \in Nat
      /\ arrived \in Nat /\ FirstFrame(input) \in Nat /\ h * L \in Nat
      /\ L \in Nat \ {0} /\ arrived >= Start
  BY <1>1, OnTheLine
<1>3. brought \in Int /\ brought < h * L + L /\ h \in Nat
  BY <1>1, <1>2
<1>4. ASSUME h > 0 PROVE brought >= h * L
  BY <1>1, <1>2, <1>4 DEF BeginsWith
<1>5. WholeFrames = IF brought < L THEN << >>
                    ELSE SubSeq(input.values, CutFrames(input) + 1,
                                CutFrames(input) + brought \div L)
  BY <1>2 DEF WholeFrames
<1> HIDE DEF brought
<1>6. CASE brought < L
  <2>1. h = 0
    <3>1. SUFFICES ASSUME h > 0 PROVE FALSE
      BY <1>3
    <3>2. 0 * L + L <= h * L
      BY <1>2, <1>3, <3>1, RowsAfter
    <3> QED
      BY <1>2, <1>3, <1>4, <1>6, <3>1, <3>2
  <2>2. First(h) \in Seq(Reading) /\ Len(First(h)) = 0
    BY <1>2, <2>1, FirstFrames
  <2>3. First(h) = << >>
    BY <2>2, EmptySeq
  <2> QED
    BY <1>5, <1>6, <2>3
<1>7. CASE ~(brought < L)
  <2>1. h > 0
    <3>1. SUFFICES ASSUME h = 0 PROVE FALSE
      BY <1>3
    <3>2. h * L = 0
      BY <1>2, <3>1
    <3> QED
      BY <1>2, <1>3, <1>7, <3>2
  <2>2. PICK r \in 0 .. L - 1 : brought = h * L + r
    <3>1. brought - h * L \in 0 .. L - 1 /\ brought = h * L + (brought - h * L)
      BY <1>2, <1>3, <1>4, <2>1
    <3> QED
      BY <3>1
  <2>3. brought \div L = h
    BY <1>2, <1>3, <2>2, RowAndPlace
  <2> QED
    BY <1>5, <1>7, <2>3 DEF First
<1> QED
  BY <1>6, <1>7

LEMMA InStepInvariant == Spec => [](TypeOK /\ InStep)
<1>1. Init /\ TypeOK => InStep
  BY InStepAtFirst
<1>2. TypeOK /\ InStep /\ [Next]_vars => InStep'
  <2> SUFFICES ASSUME TypeOK, InStep, [Next]_vars PROVE InStep'
    OBVIOUS
  <2> USE DEF InStep
  <2>0. readings \in Seq(Reading) /\ mb \in Seq(Reading)
    BY DEF TypeOK
  <2> HIDE DEF InStep
  <2>1. ASSUME NEW n \in 0 .. BuffSize, readFromArduino(n) PROVE InStep'
    <3>1. n \in Nat
      BY BuffSizeAssumption
    <3> QED
      BY <2>1, <3>1, ReadInStep
  <2>2. CASE readError
    <3>1. /\ UNCHANGED <<input, arrived, buffer, dropped>>
          /\ readings' \in Seq(Reading) /\ readings' \o mb' = readings \o mb
          /\ phase' = "exited"
      BY <2>0, <2>2 DEF readError
    <3> QED
      BY <3>1, StillInStep
  <2>3. ASSUME NEW start \in 0 .. BuffSize, parseMessage(start) PROVE InStep'
    <3>1. start \in Nat
      BY BuffSizeAssumption
    <3> QED
      BY <2>3, <3>1, ParseInStep
  <2>4. CASE parseEnd
    BY <2>4, ParseEndInStep
  <2>5. CASE parseFails
    <3>1. /\ UNCHANGED <<input, arrived, buffer, dropped>>
          /\ readings' \in Seq(Reading) /\ readings' \o mb' = readings \o mb
          /\ parsed' = FALSE
      BY <2>0, <2>5 DEF parseFails
    <3> QED
      BY <3>1, StillInStep
  <2>6. CASE flushMessageBuffer
    <3>1. /\ UNCHANGED <<input, arrived, buffer, dropped, parsed>>
          /\ readings' = readings \o mb /\ mb' = << >> /\ phase = "flush"
      BY <2>6 DEF flushMessageBuffer
    <3>2. readings \o mb \in Seq(Reading)
      BY <2>0, ConcatProperties
    <3>3. readings' \in Seq(Reading) /\ readings' \o mb' = readings \o mb
      BY <3>1, <3>2, ConcatEmptySeq
    <3> QED
      BY <3>1, <3>3, StillInStep
  <2>7. CASE flushFails
    <3>1. /\ UNCHANGED <<input, arrived, buffer, dropped, parsed>>
          /\ readings' \in Seq(Reading) /\ readings' \o mb' = readings \o mb
          /\ phase = "flush"
      BY <2>0, <2>7 DEF flushFails
    <3> QED
      BY <3>1, StillInStep
  <2>8. CASE UNCHANGED vars
    <3>1. /\ UNCHANGED <<input, arrived, buffer, dropped, parsed, phase>>
          /\ readings' \in Seq(Reading) /\ readings' \o mb' = readings \o mb
      BY <2>0, <2>8 DEF vars
    <3> QED
      BY <3>1, StillInStep
  <2> QED
    BY <2>1, <2>2, <2>3, <2>4, <2>5, <2>6, <2>7, <2>8 DEF Next
<1>3. Spec => []TypeOK
  BY TypeCorrect
<1> QED
  BY <1>1, <1>2, <1>3, PTL DEF Spec

\* No byte of a device is ever out of its place in the read buffer, if the line
\* brings little before its first whole frame: for every size of the buffer and
\* number of variables, however the bytes are cut into reads.
THEOREM NothingDisplaced == Spec => []BufferIsSuffix
<1>1. InStep => BufferIsSuffix
  BY DEF InStep, BufferIsSuffix, Suffix, Start
<1> QED
  BY <1>1, InStepInvariant, PTL

\* And every message that arrived has been passed on, once and in order, but for
\* those that found the message buffer full: also if values look like the marks
\* of the protocol.
THEOREM NoneOverlooked == Spec => []ReadingsComplete
<1>1. TypeOK /\ InStep => ReadingsComplete
  <2> SUFFICES ASSUME TypeOK, InStep, LittleNoise, phase \in {"flush", "idle"}, parsed
               PROVE  /\ Len(readings \o mb) + dropped = Len(WholeFrames)
                      /\ IsPartOf(readings \o mb, WholeFrames)
    BY DEF ReadingsComplete, AllPassedOn
  <2>1. PICK h \in 0 .. WholeIn(input) : PassedOn(h)
    BY DEF InStep
  <2>2. WholeFrames = First(h)
    BY <2>1, AllHaveLeft
  <2>3. Len(First(h)) = h
    BY <2>1, FirstFrames DEF TypeOK, LittleNoise
  <2> QED
    BY <2>1, <2>2, <2>3 DEF PassedOn
<1> QED
  BY <1>1, InStepInvariant, PTL

=============================================================================
