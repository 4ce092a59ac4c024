------------------------ MODULE BundlePipelineProofs ------------------------
(***************************************************************************)
(* For every size of bundles, messages, header and ring: bundles fit the     *)
(* buffers they are copied to, the bytes on the socket are whole bundles one *)
(* after the other, every message is in one place and keeps its order, and   *)
(* open bundle, ring and sender together are the channel of MessageChannel.  *)
(***************************************************************************)
EXTENDS BundlePipeline, FiniteSetTheorems, SequenceTheorems, TLAPS

\* A bundle that holds a message and fits the buffers.
Filled ==
  {b \in Bundle : b.content # << >> /\ b.size \in HeaderLen + 1 .. BundleMaxSize}

Local == Filled \cup {NoBundle}

Rings == {r \in Seq(Filled) : Len(r) <= RingCapacity}

\* What Bundle.c works on: every function of it keeps to this set.
Bundles == [local : Local, age : Ages, ring : Rings, lost : SUBSET Message]

LEMMA Sizes ==
  /\ HeaderLen \in Nat /\ HeaderLen > 0
  /\ BundleMaxSize \in Nat /\ BundleMaxSize > HeaderLen
  /\ MaxMsgSize \in Nat /\ MaxMsgSize = BundleMaxSize - HeaderLen
  /\ RingCapacity \in Nat /\ RingCapacity > 0
  /\ BundleTTL \in Nat
  /\ MaxMsg \in Nat
BY SizesAssumption, TimeAssumption, BoundAssumption DEF MaxMsgSize

LEMMA FilledFrom ==
  ASSUME NEW c \in Seq(Message), c # << >>,
         NEW n \in Nat, n \in HeaderLen + 1 .. BundleMaxSize
  PROVE  [content |-> c, size |-> n] \in Filled
BY DEF Filled, Bundle

LEMMA FilledIsFilled ==
  ASSUME NEW b \in Filled
  PROVE  /\ b.size \in Nat /\ b.size > HeaderLen /\ b.size <= BundleMaxSize
         /\ b.content \in Seq(Message) /\ b.content # << >>
         /\ b \in Bundle
         /\ Ids(b) \in SUBSET Message
         /\ b # NoBundle
BY Sizes DEF Filled, Bundle, Ids, NoBundle

LEMMA EmptyIsNone ==
  ASSUME NEW b \in Local
  PROVE  /\ b.size = 0 => b = NoBundle
         /\ b.size # 0 => b \in Filled
         /\ b.size \in 0 .. BundleMaxSize
         /\ b \in Bundle
<1>1. CASE b \in Filled
  BY <1>1, FilledIsFilled, Sizes
<1>2. CASE b = NoBundle
  <2>1. << >> \in Seq(Message)
    OBVIOUS
  <2>2. QED
    BY <1>2, <2>1, Sizes DEF NoBundle, Bundle
<1>3. QED
  BY <1>1, <1>2 DEF Local

\* A bundle joins the ring, which gives up its oldest if it is full.
LEMMA RingTakes ==
  ASSUME NEW r \in Rings, NEW b \in Filled
  PROVE  /\ addToBundleBuffer(r, b) \in Rings
         /\ Dropped(r, b) \in SUBSET Message
<1>1. r \in Seq(Filled) /\ Len(r) <= RingCapacity
  BY DEF Rings
<1>2. b.size <= BundleMaxSize
  BY FilledIsFilled
<1>3. CASE Len(r) = RingCapacity
  <2>1. /\ Tail(r) \in Seq(Filled) /\ Len(Tail(r)) = Len(r) - 1
        /\ Head(r) \in Filled
    BY <1>1, <1>3, Sizes
  <2>2. addToBundleBuffer(r, b) = Append(Tail(r), b)
    BY <1>2, <1>3 DEF addToBundleBuffer, Ring!Push
  <2>3. Ids(Head(r)) \in SUBSET Message
    BY <2>1, FilledIsFilled
  <2>4. /\ Append(Tail(r), b) \in Seq(Filled)
        /\ Len(Append(Tail(r), b)) = Len(Tail(r)) + 1
    BY <2>1, AppendProperties
  <2>5. Len(Append(Tail(r), b)) <= RingCapacity
    BY <1>3, <2>1, <2>4, Sizes
  <2>6. Dropped(r, b) = Ids(Head(r))
    BY <1>2, <1>3, FilledIsFilled, Sizes DEF Dropped
  <2>7. QED
    BY <2>2, <2>3, <2>4, <2>5, <2>6 DEF Rings
<1>4. CASE Len(r) # RingCapacity
  <2>1. addToBundleBuffer(r, b) = Append(r, b)
    BY <1>2, <1>4 DEF addToBundleBuffer, Ring!Push
  <2>2. /\ Append(r, b) \in Seq(Filled)
        /\ Len(Append(r, b)) = Len(r) + 1
    BY <1>1, AppendProperties
  <2>3. Len(Append(r, b)) <= RingCapacity
    BY <1>1, <1>4, <2>2, Sizes
  <2>4. Dropped(r, b) = {}
    BY <1>2, <1>4, FilledIsFilled, Sizes DEF Dropped
  <2>5. QED
    BY <2>1, <2>2, <2>3, <2>4 DEF Rings
<1>5. QED
  BY <1>3, <1>4

LEMMA sendBundleFits ==
  ASSUME NEW s \in Bundles
  PROVE  sendBundle(s) \in Bundles /\ sendBundle(s).local = NoBundle
<1>1. /\ s.local \in Local /\ s.age \in Ages /\ s.ring \in Rings
      /\ s.lost \in SUBSET Message
  BY DEF Bundles
<1>2. CASE s.local.size = 0
  BY <1>1, <1>2, EmptyIsNone DEF sendBundle
<1>3. CASE s.local.size # 0
  <2>1. s.local \in Filled
    BY <1>1, <1>3, EmptyIsNone
  <2>2. /\ addToBundleBuffer(s.ring, s.local) \in Rings
        /\ s.lost \cup Dropped(s.ring, s.local) \in SUBSET Message
    BY <1>1, <2>1, RingTakes
  <2>3. NoBundle \in Local /\ 0 \in Ages
    BY Sizes DEF Local, Ages
  <2>4. QED
    BY <1>3, <2>2, <2>3 DEF sendBundle, Bundles
<1>4. QED
  BY <1>2, <1>3

LEMMA pokeBundleFits ==
  ASSUME NEW s \in Bundles, NEW d \in Ages
  PROVE  pokeBundle(s, d) \in Bundles
<1>1. s.age \in Ages
  BY DEF Bundles
<1>2. Later(s.age, d) \in Ages
  BY <1>1, Sizes DEF Later, Ages
<1>3. [s EXCEPT !.age = Later(s.age, d)] \in Bundles
  BY <1>2 DEF Bundles
<1>4. QED
  BY <1>3, sendBundleFits DEF pokeBundle

\* The message joins a bundle that has room for it, if need be a new one.
LEMMA AddMessageFits ==
  ASSUME NEW s \in Bundles, NEW m \in Message, NEW msg_s \in Nat \ {0},
         msg_s <= MaxMsgSize
  PROVE  AddMessage(s, m, msg_s) \in Bundles
<1> DEFINE room == IF Fits(s.local, msg_s) THEN s ELSE sendBundle(s)
<1>1. /\ room \in Bundles
      /\ room.local = NoBundle \/ Fits(room.local, msg_s)
  BY sendBundleFits
<1> HIDE DEF room
<1>2. room.local \in Local /\ room.age \in Ages
  BY <1>1 DEF Bundles
<1>3. WithMessage(room.local, m, msg_s) \in Filled
  <2>1. CASE room.local = NoBundle
    <3>1. WithMessage(room.local, m, msg_s)
            = [content |-> Append(<< >>, m), size |-> HeaderLen + msg_s]
      <4>1. NoBundle.content = << >> /\ NoBundle.size = 0
        BY DEF NoBundle
      <4>2. QED
        BY <2>1, <4>1 DEF WithMessage
    <3>2. Append(<< >>, m) \in Seq(Message) /\ Append(<< >>, m) # << >>
      OBVIOUS
    <3>3. HeaderLen + msg_s \in Nat /\ HeaderLen + msg_s \in HeaderLen + 1 .. BundleMaxSize
      BY Sizes
    <3>4. QED
      BY <3>1, <3>2, <3>3, FilledFrom
  <2>2. CASE room.local # NoBundle
    <3>1. /\ room.local \in Filled
          /\ Fits(room.local, msg_s)
      BY <1>1, <1>2, <2>2 DEF Local
    <3>2. /\ room.local.content \in Seq(Message)
          /\ room.local.size \in Nat /\ room.local.size > HeaderLen
      BY <3>1, FilledIsFilled
    <3>3. /\ Append(room.local.content, m) \in Seq(Message)
          /\ Append(room.local.content, m) # << >>
      BY <3>2, AppendProperties
    <3>4. WithMessage(room.local, m, msg_s)
            = [content |-> Append(room.local.content, m), size |-> room.local.size + msg_s]
      BY <3>2, Sizes DEF WithMessage
    <3>5. /\ room.local.size + msg_s \in Nat
          /\ room.local.size + msg_s \in HeaderLen + 1 .. BundleMaxSize
      BY <3>1, <3>2, Sizes DEF Fits
    <3>6. QED
      BY <3>3, <3>4, <3>5, FilledFrom
  <2>3. QED
    BY <2>1, <2>2
<1>4. AddMessage(s, m, msg_s)
        = [room EXCEPT !.local = WithMessage(room.local, m, msg_s),
                       !.age = IF room.local.size = 0 THEN 0 ELSE room.age]
  BY DEF AddMessage, room
<1>5. 0 \in Ages /\ WithMessage(room.local, m, msg_s) \in Local
  BY <1>3, Sizes DEF Ages, Local
<1>6. QED
  BY <1>1, <1>2, <1>4, <1>5 DEF Bundles


-----------------------------------------------------------------------------
(* The invariant *)

\* The bytes on the socket: of a bundle that was filled, counted from 1.
WireByte == Filled \X (Nat \ {0})

\* The sender has a filled bundle and has written a part of it, or nothing yet.
SenderFits ==
  /\ sending \in Local
  /\ bundle_sent \in 0 .. sending.size

StateFits ==
  /\ local \in Local /\ age \in Ages
  /\ ring \in Rings /\ lost \in SUBSET Message

\* What addToBundle() counts, and where the loop is.
LoopFits ==
  /\ started \in BOOLEAN /\ writable \in BOOLEAN
  /\ phase \in {"select", "reads", "sending", "poke", "killed"}
  /\ socket \in {"open", "stalled", "reset", "broken"}
  /\ next \in 1 .. MaxMsg + 1
  /\ refused \in SUBSET Message

IInv ==
  /\ StateFits
  /\ SenderFits
  /\ LoopFits
  /\ wire \in Seq(WireByte)
  /\ WireIsFramed

LEMMA InitFits == Init => IInv
<1> SUFFICES ASSUME Init PROVE IInv
  OBVIOUS
<1>1. NoBundle \in Local /\ NoBundle.size = 0
  BY DEF Local, NoBundle
<1>2. << >> \in Rings
  BY Sizes DEF Rings
<1>3. StateFits
  BY <1>1, <1>2, Sizes DEF Init, StateFits, Ages
<1>4. SenderFits
  BY <1>1 DEF Init, SenderFits
<1>5. LoopFits
  <2>1. next \in 1 .. MaxMsg + 1
    BY Sizes DEF Init
  <2>2. refused \in SUBSET Message
    BY DEF Init
  <2>3. /\ started \in BOOLEAN /\ writable \in BOOLEAN
        /\ phase \in {"select", "reads", "sending", "poke", "killed"}
        /\ socket \in {"open", "stalled", "reset", "broken"}
    BY DEF Init
  <2>4. QED
    BY <2>1, <2>2, <2>3 DEF LoopFits
<1>6. wire \in Seq(WireByte) /\ WireIsFramed
  BY DEF Init, WireIsFramed
<1>7. QED
  BY <1>3, <1>4, <1>5, <1>6 DEF IInv

\* What Bundle.c leaves behind goes back to the variables.
LEMMA StateIsBundles ==
  ASSUME StateFits
  PROVE  State \in Bundles
BY DEF StateFits, State, Bundles

LEMMA BecomeFits ==
  ASSUME NEW s \in Bundles, Become(s)
  PROVE  StateFits'
BY DEF Become, Bundles, StateFits

LEMMA BytesOfSend ==
  ASSUME NEW b \in Filled, NEW k \in Nat, NEW n \in Nat
  PROVE  /\ Bytes(b, k, k + n) \in Seq(WireByte)
         /\ Len(Bytes(b, k, k + n)) = n
         /\ \A i \in 1 .. n : Bytes(b, k, k + n)[i] = <<b, k + i>>
<1> DEFINE to == k + n
           bytes == Bytes(b, k, to)
<1>1. 1 .. (to - k) = 1 .. n
  OBVIOUS
<1> HIDE DEF to
<1>2. bytes = [i \in 1 .. (to - k) |-> <<b, k + i>>]
  BY Zenon DEF Bytes
<1>3. bytes = [i \in 1 .. n |-> <<b, k + i>>]
  BY <1>1, <1>2, Zenon
<1>4. \A i \in 1 .. n : <<b, k + i>> \in WireByte
  BY DEF WireByte
<1> HIDE DEF bytes
<1>5. bytes \in [1 .. n -> WireByte]
  BY <1>3, <1>4
<1>6. /\ bytes \in Seq(WireByte) /\ Len(bytes) = n
      /\ \A i \in 1 .. n : bytes[i] = <<b, k + i>>
  <2>1. \A i \in 1 .. n : bytes[i] = <<b, k + i>>
    BY <1>3, Zenon
  <2>2. bytes \in Seq(WireByte)
    BY <1>5
  <2>3. Len(bytes) = n
    BY <1>5, <2>2, LenProperties
  <2>4. QED
    BY <2>1, <2>2, <2>3
<1>7. QED
  BY <1>6 DEF bytes, to

\* One call of send(): bytes k + 1 to k + n of a bundle of which the socket has k.
LEMMA sendFrames ==
  ASSUME IInv, NEW n \in 1 .. sending.size - bundle_sent, send(n)
  PROVE  SenderFits' /\ wire' \in Seq(WireByte) /\ WireIsFramed'
<1> DEFINE bytes == Bytes(sending, bundle_sent, bundle_sent + n)
<1>1. /\ wire' = wire \o bytes
      /\ bundle_sent' = bundle_sent + n /\ sending' = sending
  BY DEF send
<1>2. /\ sending \in Local /\ bundle_sent \in Nat /\ sending.size \in Nat
      /\ n \in Nat /\ n > 0 /\ bundle_sent + n <= sending.size
  BY EmptyIsNone, Sizes DEF IInv, SenderFits
<1>3. sending \in Filled
  BY <1>2, EmptyIsNone
<1>4. SenderFits'
  BY <1>1, <1>2 DEF SenderFits
<1>7. /\ bytes \in Seq(WireByte) /\ Len(bytes) = n
      /\ \A i \in 1 .. n : bytes[i] = <<sending, bundle_sent + i>>
  BY <1>2, <1>3, BytesOfSend
<1> HIDE DEF bytes
<1>8. wire \in Seq(WireByte)
  BY DEF IInv
<1>9. /\ wire' \in Seq(WireByte) /\ Len(wire') = Len(wire) + n
      /\ \A i \in 1 .. Len(wire) : wire'[i] = wire[i]
      /\ \A i \in 1 .. n : wire'[Len(wire) + i] = <<sending, bundle_sent + i>>
  <2>1. /\ wire \o bytes \in Seq(WireByte)
        /\ Len(wire \o bytes) = Len(wire) + Len(bytes)
        /\ \A i \in 1 .. Len(wire) + Len(bytes) :
             (wire \o bytes)[i] = IF i <= Len(wire) THEN wire[i]
                                                   ELSE bytes[i - Len(wire)]
    BY <1>7, <1>8, ConcatProperties
  <2>2. \A i \in 1 .. Len(wire) : wire'[i] = wire[i]
    BY <1>1, <1>2, <1>7, <1>8, <2>1
  <2>3. \A i \in 1 .. n : wire'[Len(wire) + i] = <<sending, bundle_sent + i>>
    <3> TAKE i \in 1 .. n
    <3>1. /\ Len(wire) + i \in 1 .. Len(wire) + Len(bytes)
          /\ ~(Len(wire) + i <= Len(wire))
          /\ Len(wire) + i - Len(wire) = i
      BY <1>2, <1>7, <1>8
    <3>2. wire'[Len(wire) + i] = bytes[i]
      BY <1>1, <2>1, <3>1
    <3>3. QED
      BY <1>7, <3>2
  <2>4. QED
    BY <1>1, <1>7, <2>1, <2>2, <2>3
<1>10. ASSUME NEW j \in 1 .. Len(wire')
       PROVE  \/ wire'[j][2] = 1 /\ (j = 1 \/ wire'[j-1][2] = wire'[j-1][1].size)
              \/ wire'[j][2] > 1 /\ j > 1
                 /\ wire'[j-1] = <<wire'[j][1], wire'[j][2] - 1>>
  <2>1. CASE j \in 1 .. Len(wire)
    <3>1. /\ wire'[j] = wire[j]
          /\ j > 1 => wire'[j-1] = wire[j-1]
      BY <1>8, <1>9, <2>1
    <3>2. \/ wire[j][2] = 1 /\ (j = 1 \/ wire[j-1][2] = wire[j-1][1].size)
          \/ wire[j][2] > 1 /\ j > 1 /\ wire[j-1] = <<wire[j][1], wire[j][2] - 1>>
      BY <2>1 DEF IInv, WireIsFramed
    <3>3. QED
      BY <2>1, <3>1, <3>2
  <2>2. CASE j = Len(wire) + 1
    <3>1. wire'[j] = <<sending, bundle_sent + 1>>
      BY <1>2, <1>9, <2>2
    <3>2. j > 1 => wire'[j-1] = wire[Len(wire)]
      BY <1>8, <1>9, <2>2
    <3>3. CASE bundle_sent = 0
      <4>1. wire = << >> \/ wire[Len(wire)][2] = wire[Len(wire)][1].size
        BY <3>3 DEF IInv, WireIsFramed
      <4>2. wire'[j][2] = 1
        BY <3>1, <3>3
      <4>3. QED
        BY <1>8, <2>2, <3>2, <4>1, <4>2
    <3>4. CASE bundle_sent # 0
      <4>1. wire # << >> /\ wire[Len(wire)] = <<sending, bundle_sent>>
        BY <3>4 DEF IInv, WireIsFramed
      <4>2. j > 1
        BY <1>8, <2>2, <4>1
      <4>3. wire'[j][1] = sending /\ wire'[j][2] = bundle_sent + 1
        BY <3>1
      <4>4. QED
        BY <1>2, <3>2, <3>4, <4>1, <4>2, <4>3
    <3>5. QED
      BY <3>3, <3>4
  <2>3. CASE j > Len(wire) + 1
    <3>1. PICK i \in 2 .. n : j = Len(wire) + i
      <4>1. j - Len(wire) \in 2 .. n /\ j = Len(wire) + (j - Len(wire))
        BY <1>2, <1>8, <1>9, <2>3
      <4>2. QED
        BY <4>1
    <3>2. wire'[j] = <<sending, bundle_sent + i>>
      BY <1>2, <1>9, <3>1
    <3>3. wire'[j-1] = <<sending, bundle_sent + (i - 1)>>
      <4>1. i - 1 \in 1 .. n /\ j - 1 = Len(wire) + (i - 1)
        BY <1>2, <1>8, <3>1
      <4>2. QED
        BY <1>9, <4>1
    <3>4. /\ bundle_sent + i > 1 /\ j > 1
          /\ bundle_sent + (i - 1) = (bundle_sent + i) - 1
      BY <1>2, <1>8, <3>1
    <3>5. QED
      BY <3>2, <3>3, <3>4
  <2>4. QED
    BY <1>2, <1>8, <1>9, <2>1, <2>2, <2>3
<1>11. /\ bundle_sent' # 0 /\ wire' # << >>
       /\ wire'[Len(wire')] = <<sending', bundle_sent'>>
  BY <1>1, <1>2, <1>8, <1>9
<1>12. QED
  BY <1>4, <1>9, <1>10, <1>11 DEF WireIsFramed

-----------------------------------------------------------------------------
(* The steps *)

LEMMA SenderRests ==
  ASSUME IInv, UNCHANGED <<sending, bundle_sent, wire>>
  PROVE  SenderFits' /\ wire' \in Seq(WireByte) /\ WireIsFramed'
BY DEF IInv, SenderFits, WireIsFramed

LEMMA BundleRests ==
  ASSUME IInv, UNCHANGED <<local, age, ring, lost>>
  PROVE  StateFits'
BY DEF IInv, StateFits

\* The steps of the loop, of the clock and of the connection only move phase,
\* writable, socket and started.
LoopRests == /\ started' \in BOOLEAN /\ writable' \in BOOLEAN
             /\ phase' \in {"select", "reads", "sending", "poke", "killed"}
             /\ socket' \in {"open", "stalled", "reset", "broken"}
             /\ UNCHANGED <<next, refused>>

LEMMA LoopRestsFits ==
  ASSUME IInv, LoopRests
  PROVE  LoopFits'
BY DEF IInv, LoopFits, LoopRests

LEMMA StillFits ==
  ASSUME IInv, LoopRests, UNCHANGED <<local, age, ring, lost>>,
         UNCHANGED <<sending, bundle_sent, wire>>
  PROVE  IInv'
BY SenderRests, BundleRests, LoopRestsFits DEF IInv

LEMMA addToBundleFits ==
  ASSUME IInv, NEW msg_s \in MsgSizes, NEW d \in Ages, addToBundle(msg_s, d)
  PROVE  IInv'
<1>1. next \in Message /\ next + 1 \in 1 .. MaxMsg + 1
  BY Sizes DEF IInv, LoopFits, addToBundle, Message
<1>2. msg_s \in Nat \ {0} /\ msg_s <= MaxMsgSize
  BY SizesAssumption DEF addToBundle
<1>3. State \in Bundles
  BY StateIsBundles DEF IInv
<1>4. pokeBundle(AddMessage(State, next, msg_s), d) \in Bundles
  BY <1>1, <1>2, <1>3, AddMessageFits, pokeBundleFits
<1>5. StateFits'
  BY <1>4, BecomeFits DEF addToBundle
<1>6. LoopFits'
  BY <1>1 DEF IInv, LoopFits, addToBundle
<1>7. UNCHANGED <<sending, bundle_sent, wire>>
  BY DEF addToBundle, unchangedSender
<1>8. QED
  BY <1>5, <1>6, <1>7, SenderRests DEF IInv

LEMMA refuseMessageFits ==
  ASSUME IInv, NEW msg_s \in MsgSizes, refuseMessage(msg_s)
  PROVE  IInv'
<1>1. next \in Message /\ next + 1 \in 1 .. MaxMsg + 1
  BY Sizes DEF IInv, LoopFits, refuseMessage, Message
<1>2. refused' \in SUBSET Message
  BY <1>1 DEF IInv, LoopFits, refuseMessage
<1>3. LoopFits'
  BY <1>1, <1>2 DEF IInv, LoopFits, refuseMessage, startBundle
<1>4. UNCHANGED <<local, age, ring, lost>>
  BY DEF refuseMessage
<1>5. UNCHANGED <<sending, bundle_sent, wire>>
  BY DEF refuseMessage, unchangedSender
<1>6. QED
  BY <1>3, <1>4, <1>5, BundleRests, SenderRests DEF IInv

\* Only a bundle that is written to its end makes way for the next.
LEMMA getTopFits ==
  ASSUME IInv, getTopOfBundleBuffer
  PROVE  IInv'
<1>1. ring \in Seq(Filled) /\ Len(ring) <= RingCapacity /\ ring # << >>
  BY DEF IInv, StateFits, Rings, getTopOfBundleBuffer
<1>2. /\ Head(ring) \in Filled
      /\ Tail(ring) \in Seq(Filled) /\ Len(Tail(ring)) <= RingCapacity
  BY <1>1, HeadTailProperties, Sizes
<1>3. StateFits'
  BY <1>2 DEF IInv, StateFits, Rings, getTopOfBundleBuffer
<1>4. SenderFits'
  <2>1. Head(ring).size \in Nat
    BY <1>2, FilledIsFilled
  <2>2. Head(ring) \in Local
    BY <1>2 DEF Local
  <2>3. QED
    BY <2>1, <2>2 DEF SenderFits, getTopOfBundleBuffer
<1>5. wire = << >> \/ wire[Len(wire)][2] = wire[Len(wire)][1].size
  <2>1. bundle_sent = sending.size
    <3>1. sending.size \in Nat /\ bundle_sent \in 0 .. sending.size
      BY EmptyIsNone, Sizes DEF IInv, SenderFits
    <3>2. QED
      BY <3>1 DEF getTopOfBundleBuffer, Unsent
  <2>2. CASE bundle_sent = 0
    BY <2>2 DEF IInv, WireIsFramed
  <2>3. CASE bundle_sent # 0
    <3>1. wire[Len(wire)] = <<sending, bundle_sent>>
      BY <2>3 DEF IInv, WireIsFramed
    <3>2. QED
      BY <2>1, <3>1
  <2>4. QED
    BY <2>2, <2>3
<1>6. WireIsFramed'
  BY <1>5 DEF IInv, WireIsFramed, getTopOfBundleBuffer
<1>7. wire' \in Seq(WireByte) /\ LoopFits'
  BY DEF IInv, LoopFits, getTopOfBundleBuffer
<1>8. QED
  BY <1>3, <1>4, <1>6, <1>7 DEF IInv

LEMMA sendFits ==
  ASSUME IInv, NEW n \in 1 .. sending.size - bundle_sent, send(n)
  PROVE  IInv'
<1>1. UNCHANGED <<local, age, ring, lost>>
  BY DEF send, unchangedBundle
<1>2. LoopFits'
  BY DEF IInv, LoopFits, send, unchangedBundle
<1>3. QED
  BY <1>1, <1>2, sendFrames, BundleRests DEF IInv

LEMMA pokeFits ==
  ASSUME IInv, poke
  PROVE  IInv'
<1>1. 0 \in Ages
  BY Sizes DEF Ages
<1>2. pokeBundle(State, 0) \in Bundles
  BY <1>1, StateIsBundles, pokeBundleFits DEF IInv
<1>3. StateFits'
  BY <1>2, BecomeFits DEF poke
<1>4. LoopFits'
  BY DEF IInv, LoopFits, poke, startBundle
<1>5. UNCHANGED <<sending, bundle_sent, wire>>
  BY DEF poke, unchangedSender
<1>6. QED
  BY <1>3, <1>4, <1>5, SenderRests DEF IInv

\* The clock only moves the age of the open bundle.
LEMMA ClockFits ==
  ASSUME IInv, Tick \/ ClockSetBack
  PROVE  IInv'
<1>1. age' \in Ages
  BY Sizes DEF IInv, StateFits, Ages, Tick, ClockSetBack
<1>2. StateFits'
  BY <1>1 DEF IInv, StateFits, Tick, ClockSetBack
<1>3. LoopFits'
  BY DEF IInv, LoopFits, Tick, ClockSetBack
<1>4. UNCHANGED <<sending, bundle_sent, wire>>
  BY DEF Tick, ClockSetBack, unchangedSender
<1>5. QED
  BY <1>2, <1>3, <1>4, SenderRests DEF IInv

LEMMA StepFits == IInv /\ [Next]_vars => IInv'
<1> SUFFICES ASSUME IInv, [Next]_vars PROVE IInv'
  OBVIOUS
<1> USE DEF unchangedBundle, unchangedSender
<1>1. CASE selectFDSet
  BY <1>1, StillFits DEF IInv, LoopFits, LoopRests, selectFDSet
<1>2. CASE readsDone
  BY <1>2, StillFits DEF IInv, LoopFits, LoopRests, readsDone
<1>3. CASE poke
  BY <1>3, pokeFits
<1>4. ASSUME NEW msg_s \in MsgSizes, refuseMessage(msg_s) PROVE IInv'
  BY <1>4, refuseMessageFits
<1>5. ASSUME NEW msg_s \in MsgSizes, addToNoBundle(msg_s) PROVE IInv'
  BY <1>5, StillFits DEF IInv, LoopFits, LoopRests, addToNoBundle
<1>6. ASSUME NEW msg_s \in MsgSizes, NEW d \in Ages, addToBundle(msg_s, d)
      PROVE IInv'
  BY <1>6, addToBundleFits
<1>7. CASE getTopOfBundleBuffer
  BY <1>7, getTopFits
<1>8. ASSUME NEW n \in 1 .. sending.size - bundle_sent, send(n) PROVE IInv'
  BY <1>8, sendFits
<1>9. CASE sendError
  BY <1>9, StillFits DEF IInv, LoopFits, LoopRests, sendError
<1>10. CASE sendKills
  BY <1>10, StillFits DEF IInv, LoopFits, LoopRests, sendKills
<1>11. CASE allSent
  BY <1>11, StillFits DEF IInv, LoopFits, LoopRests, allSent
<1>12. CASE Tick \/ ClockSetBack
  BY <1>12, ClockFits
<1>13. CASE Drain
  BY <1>13, StillFits DEF IInv, LoopFits, LoopRests, Drain
<1>14. CASE Reset
  BY <1>14, StillFits DEF IInv, LoopFits, LoopRests, Reset
<1>15. CASE UNCHANGED vars
  BY <1>15, StillFits DEF IInv, LoopFits, LoopRests, vars
<1>16. QED
  BY <1>1, <1>2, <1>3, <1>4, <1>5, <1>6, <1>7, <1>8, <1>9, <1>10, <1>11,
     <1>12, <1>13, <1>14, <1>15 DEF Next

\* The invariant holds: the state of Bundle.c, of the sender and of the loop,
\* and what it has put on the socket, fit together.
THEOREM AlwaysFits == Spec => []IInv
BY InitFits, StepFits, PTL DEF Spec

-----------------------------------------------------------------------------
(* The theorems *)

LEMMA TypeFollows == IInv => TypeOK
<1> SUFFICES ASSUME IInv PROVE TypeOK
  OBVIOUS
<1>1. local \in Bundle /\ sending \in Bundle /\ bundle_sent \in Nat
  BY EmptyIsNone, Sizes DEF IInv, StateFits, SenderFits
<1>2. ring \in Seq(Bundle) /\ Len(ring) <= RingCapacity
  <2>1. ring \in Seq(Filled) /\ Filled \subseteq Bundle
    BY DEF IInv, StateFits, Rings, Filled
  <2>2. QED
    BY <2>1, SeqMonotonic DEF IInv, StateFits, Rings
<1>3. \A i \in 1 .. Len(wire) : wire[i][1] \in Bundle /\ wire[i][2] \in Nat \ {0}
  <2> TAKE i \in 1 .. Len(wire)
  <2>1. wire[i] \in Filled \X (Nat \ {0})
    BY ElementOfSeq DEF IInv, WireByte
  <2>2. QED
    BY <2>1 DEF Filled
<1>4. QED
  BY <1>1, <1>2, <1>3 DEF TypeOK, IInv, StateFits, LoopFits

LEMMA SizesFollow == IInv => BundlesFit
<1> SUFFICES ASSUME IInv PROVE BundlesFit
  OBVIOUS
<1> DEFINE now  == IF Unsent THEN <<sending>> ELSE << >>
           open == IF local.size = 0 THEN << >> ELSE <<local>>
<1>1. /\ sending.size \in Nat /\ bundle_sent \in 0 .. sending.size
      /\ sending \in Local /\ local \in Local /\ ring \in Seq(Filled)
  BY EmptyIsNone, Sizes DEF IInv, StateFits, SenderFits, Rings
<1>2. now \in Seq(Filled)
  <2>1. Unsent => sending \in Filled
    BY <1>1, EmptyIsNone DEF Unsent
  <2>2. QED
    BY <2>1
<1>3. open \in Seq(Filled)
  <2>1. local.size # 0 => local \in Filled
    BY <1>1, EmptyIsNone
  <2>2. QED
    BY <2>1
<1>4. Pending = (now \o ring) \o open
  BY Zenon DEF Pending
<1> HIDE DEF now, open
<1>5. Pending \in Seq(Filled)
  <2>1. now \o ring \in Seq(Filled)
    BY <1>1, <1>2, ConcatProperties
  <2>2. (now \o ring) \o open \in Seq(Filled)
    BY <1>3, <2>1, ConcatProperties
  <2>3. QED
    BY <1>4, <2>2
<1>6. ASSUME NEW i \in 1 .. Len(Pending)
      PROVE  /\ Pending[i].content # << >>
             /\ Pending[i].size \in HeaderLen + 1 .. BundleMaxSize
  <2>1. Pending[i] \in Filled
    BY <1>5, ElementOfSeq
  <2>2. QED
    BY <2>1 DEF Filled
<1>7. bundle_sent <= sending.size
  BY <1>1
<1>8. QED
  BY <1>6, <1>7 DEF BundlesFit

\* Every variable of bundles, ring, sender and loop keeps its type.
THEOREM TypeCorrect == Spec => []TypeOK
BY AlwaysFits, TypeFollows, PTL

\* Whatever the sizes of messages, header, bundles and ring: what waits in the
\* open bundle (Bundle.c), in the ring and in bundle_to_send (Sockets.c) is never
\* empty and never larger than the arrays it is copied to, and send() is never
\* asked for bytes past the end of a bundle.
THEOREM BundlesFitAlways == Spec => []BundlesFit
BY AlwaysFits, SizesFollow, PTL

\* Through short writes, errors, stalls and resets, the server reads one whole
\* bundle after the other: sendAllBufferedBundles() never skips, repeats or
\* interleaves a byte.
THEOREM FramedAlways == Spec => []WireIsFramed
<1>1. IInv => WireIsFramed
  BY DEF IInv
<1>2. QED
  BY <1>1, AlwaysFits, PTL

-----------------------------------------------------------------------------
(* The order of the messages, and where each of them is *)

RingIds(r) == UNION {Ids(r[i]) : i \in 1 .. Len(r)}

Sorted(b) ==
  \A j, k \in 1 .. Len(b.content) : j < k => b.content[j] < b.content[k]

SortedRing(r) ==
  /\ \A i \in 1 .. Len(r) : Sorted(r[i])
  /\ \A i, j \in 1 .. Len(r) : i < j => Before(r[i], r[j])

\* The messages that wait in the ring and in the open bundle.
Waiting(s) == RingIds(s.ring) \cup Ids(s.local)

Ordered(s) ==
  /\ SortedRing(s.ring) /\ Sorted(s.local)
  /\ \A i \in 1 .. Len(s.ring) : Before(s.ring[i], s.local)
  /\ \A m \in s.lost, n \in Waiting(s) : m < n

\* The messages of bundles that the sender has.
Gone == OnWire \cup (IF Unsent THEN Ids(sending) ELSE {})

Accounted ==
  /\ Gone \cup Waiting(State) \cup lost \cup refused = 1 .. next - 1
  /\ Gone \cap lost = {}
  /\ refused \cap (Gone \cup Waiting(State) \cup lost) = {}

OrderInv ==
  /\ Ordered(State)
  /\ \A i, j \in 1 .. Len(wire) :
       i < j => wire[i][1] = wire[j][1] \/ Before(wire[i][1], wire[j][1])
  /\ Unsent => /\ Sorted(sending)
               /\ \A i \in 1 .. Len(wire) :
                    wire[i][1] = sending \/ Before(wire[i][1], sending)
  /\ \A g \in Gone, n \in Waiting(State) : g < n
  /\ Accounted

LEMMA IdsAreNumbers ==
  /\ Message \in SUBSET Nat
  /\ \A b \in Bundle : Ids(b) \in SUBSET Message
  /\ \A r \in Seq(Filled) : RingIds(r) \in SUBSET Message
<1>1. Message \in SUBSET Nat
  BY DEF Message
<1>2. ASSUME NEW b \in Bundle PROVE Ids(b) \in SUBSET Message
  BY DEF Bundle, Ids
<1>3. ASSUME NEW r \in Seq(Filled) PROVE RingIds(r) \in SUBSET Message
  <2>1. \A i \in 1 .. Len(r) : Ids(r[i]) \in SUBSET Message
    BY <1>2, ElementOfSeq, FilledIsFilled
  <2> QED
    BY <2>1 DEF RingIds
<1> QED
  BY <1>1, <1>2, <1>3

LEMMA NoIds == Ids(NoBundle) = {} /\ Sorted(NoBundle)
<1>1. Len(NoBundle.content) = 0
  BY DEF NoBundle
<1> QED
  BY <1>1 DEF Ids, Sorted

LEMMA IdsOfMore ==
  ASSUME NEW b \in Bundle, NEW m \in Message, NEW msg_s,
         Sorted(b), \A n \in Ids(b) : n < m
  PROVE  /\ Ids(WithMessage(b, m, msg_s)) = Ids(b) \cup {m}
         /\ Sorted(WithMessage(b, m, msg_s))
<1> DEFINE c == Append(b.content, m)
<1>1. b.content \in Seq(Message)
  BY DEF Bundle
<1>2. /\ Len(b.content) \in Nat /\ Len(c) = Len(b.content) + 1
      /\ \A k \in 1 .. Len(b.content) : c[k] = b.content[k]
      /\ c[Len(c)] = m
  BY <1>1, AppendProperties, LenProperties
<1>3. WithMessage(b, m, msg_s).content = c
  BY DEF WithMessage
<1> HIDE DEF c
<1>4. {c[k] : k \in 1 .. Len(c)} = {b.content[k] : k \in 1 .. Len(b.content)} \cup {m}
  <2>1. \A x \in {c[k] : k \in 1 .. Len(c)} :
          x \in {b.content[k] : k \in 1 .. Len(b.content)} \cup {m}
    BY <1>2
  <2>2. \A k \in 1 .. Len(b.content) : b.content[k] \in {c[l] : l \in 1 .. Len(c)}
    BY <1>2
  <2>3. m \in {c[k] : k \in 1 .. Len(c)}
    <3>1. Len(c) \in 1 .. Len(c)
      BY <1>2
    <3> QED
      BY <1>2, <3>1
  <2> QED
    BY <2>1, <2>2, <2>3
<1>5. ASSUME NEW j \in 1 .. Len(c), NEW k \in 1 .. Len(c), j < k
      PROVE  c[j] < c[k]
  <2>1. j \in 1 .. Len(b.content) /\ c[j] = b.content[j]
    BY <1>2, <1>5
  <2>2. CASE k \in 1 .. Len(b.content)
    BY <1>2, <1>5, <2>1, <2>2 DEF Sorted
  <2>3. CASE k = Len(c)
    <3>1. c[j] \in Ids(b)
      BY <2>1 DEF Ids
    <3> QED
      BY <1>2, <2>3, <3>1
  <2> QED
    BY <1>2, <2>2, <2>3
<1> QED
  BY <1>3, <1>4, <1>5 DEF Ids, Sorted

LEMMA RingIdsAppend ==
  ASSUME NEW r \in Seq(Filled), NEW b \in Filled
  PROVE  RingIds(Append(r, b)) = RingIds(r) \cup Ids(b)
<1> DEFINE q == Append(r, b)
<1>1. /\ Len(r) \in Nat /\ Len(q) = Len(r) + 1
      /\ \A k \in 1 .. Len(r) : q[k] = r[k]
      /\ q[Len(q)] = b
  BY AppendProperties, LenProperties
<1> HIDE DEF q
<1>2. ASSUME NEW x \in RingIds(q) PROVE x \in RingIds(r) \cup Ids(b)
  <2>1. PICK k \in 1 .. Len(q) : x \in Ids(q[k])
    BY <1>2 DEF RingIds
  <2>2. k \in 1 .. Len(r) \/ k = Len(q)
    BY <1>1
  <2> QED
    BY <1>1, <2>1, <2>2 DEF RingIds
<1>3. ASSUME NEW x \in RingIds(r) PROVE x \in RingIds(q)
  <2>1. PICK k \in 1 .. Len(r) : x \in Ids(r[k])
    BY <1>3 DEF RingIds
  <2>2. k \in 1 .. Len(q) /\ q[k] = r[k]
    BY <1>1
  <2> QED
    BY <2>1, <2>2 DEF RingIds
<1>4. ASSUME NEW x \in Ids(b) PROVE x \in RingIds(q)
  <2>1. Len(q) \in 1 .. Len(q)
    BY <1>1
  <2> QED
    BY <1>1, <1>4, <2>1 DEF RingIds
<1> QED
  BY <1>2, <1>3, <1>4 DEF q

LEMMA RingIdsTail ==
  ASSUME NEW r \in Seq(Filled), r # << >>
  PROVE  /\ RingIds(r) = Ids(Head(r)) \cup RingIds(Tail(r))
         /\ Head(r) = r[1] /\ Head(r) \in Filled /\ Tail(r) \in Seq(Filled)
         /\ Len(Tail(r)) = Len(r) - 1 /\ Len(r) \in Nat \ {0}
         /\ \A i \in 1 .. Len(Tail(r)) : Tail(r)[i] = r[i + 1]
<1> DEFINE q == Tail(r)
<1>1. /\ Head(r) = r[1] /\ Head(r) \in Filled /\ q \in Seq(Filled)
      /\ Len(q) = Len(r) - 1 /\ Len(r) \in Nat \ {0}
      /\ \A i \in 1 .. Len(q) : q[i] = r[i + 1]
  BY HeadTailProperties, EmptySeq, LenProperties
<1> HIDE DEF q
<1>2. ASSUME NEW x \in RingIds(r) PROVE x \in Ids(Head(r)) \cup RingIds(q)
  <2>1. PICK k \in 1 .. Len(r) : x \in Ids(r[k])
    BY <1>2 DEF RingIds
  <2>2. CASE k = 1
    BY <1>1, <2>1, <2>2
  <2>3. CASE k # 1
    <3>1. k - 1 \in 1 .. Len(q) /\ q[k - 1] = r[(k - 1) + 1] /\ (k - 1) + 1 = k
      BY <1>1, <2>3
    <3> QED
      BY <2>1, <3>1 DEF RingIds
  <2> QED
    BY <2>2, <2>3
<1>3. ASSUME NEW x \in RingIds(q) PROVE x \in RingIds(r)
  <2>1. PICK k \in 1 .. Len(q) : x \in Ids(q[k])
    BY <1>3 DEF RingIds
  <2>2. k + 1 \in 1 .. Len(r) /\ q[k] = r[k + 1]
    BY <1>1
  <2> QED
    BY <2>1, <2>2 DEF RingIds
<1>4. ASSUME NEW x \in Ids(Head(r)) PROVE x \in RingIds(r)
  <2>1. 1 \in 1 .. Len(r)
    BY <1>1
  <2> QED
    BY <1>1, <1>4, <2>1 DEF RingIds
<1> QED
  BY <1>1, <1>2, <1>3, <1>4 DEF q

\* A bundle younger than the ring joins it; what it costs is the oldest.
LEMMA RingTakesInOrder ==
  ASSUME NEW r \in Rings, NEW b \in Filled,
         SortedRing(r), Sorted(b), \A i \in 1 .. Len(r) : Before(r[i], b)
  PROVE  LET q == addToBundleBuffer(r, b)
         IN  /\ SortedRing(q)
             /\ RingIds(q) \cup Dropped(r, b) = RingIds(r) \cup Ids(b)
             /\ \A m \in Dropped(r, b), n \in RingIds(q) : m < n
<1> DEFINE full == Len(r) = RingCapacity
           keep == IF full THEN Tail(r) ELSE r
           cost == IF full THEN Ids(Head(r)) ELSE {}
<1>1. /\ r \in Seq(Filled) /\ Len(r) \in Nat
      /\ addToBundleBuffer(r, b) = Append(keep, b)
      /\ Dropped(r, b) = cost
  <2>1. b.size \in Nat /\ b.size <= BundleMaxSize /\ BundleMaxSize \in Nat
    BY FilledIsFilled, Sizes
  <2> QED
    BY <2>1 DEF Rings, addToBundleBuffer, Dropped, Ring!Push
<1>2. /\ keep \in Seq(Filled) /\ SortedRing(keep)
      /\ RingIds(keep) \cup cost = RingIds(r)
      /\ \A i \in 1 .. Len(keep) : Before(keep[i], b)
      /\ \A m \in cost : (\A n \in RingIds(keep) : m < n) /\ (\A n \in Ids(b) : m < n)
  <2>1. CASE ~full
    BY <1>1, <2>1
  <2>2. CASE full
    <3>1. r # << >>
      BY <1>1, <2>2, Sizes
    <3>2. /\ RingIds(r) = Ids(Head(r)) \cup RingIds(Tail(r))
          /\ Head(r) = r[1] /\ Tail(r) \in Seq(Filled)
          /\ Len(Tail(r)) = Len(r) - 1 /\ Len(r) \in Nat \ {0}
          /\ \A i \in 1 .. Len(Tail(r)) : Tail(r)[i] = r[i + 1]
      BY <1>1, <3>1, RingIdsTail
    <3>3. \A i \in 1 .. Len(Tail(r)) : i + 1 \in 1 .. Len(r) /\ 1 < i + 1
      BY <3>2
    <3>4. SortedRing(Tail(r))
      <4>1. \A i \in 1 .. Len(Tail(r)) : Sorted(Tail(r)[i])
        BY <3>2, <3>3 DEF SortedRing
      <4>2. ASSUME NEW i \in 1 .. Len(Tail(r)), NEW j \in 1 .. Len(Tail(r)), i < j
            PROVE  Before(Tail(r)[i], Tail(r)[j])
        <5>1. i + 1 < j + 1
          BY <3>2, <4>2
        <5> QED
          BY <3>2, <3>3, <5>1 DEF SortedRing
      <4> QED
        BY <4>1, <4>2 DEF SortedRing
    <3>5. \A i \in 1 .. Len(Tail(r)) : Before(Tail(r)[i], b)
      BY <3>2, <3>3
    <3>6. ASSUME NEW m \in Ids(Head(r)), NEW n \in RingIds(Tail(r))
          PROVE  m < n
      <4>1. PICK i \in 1 .. Len(Tail(r)) : n \in Ids(Tail(r)[i])
        BY <3>6 DEF RingIds
      <4>2. Before(r[1], r[i + 1])
        <5>1. 1 \in 1 .. Len(r)
          BY <3>2
        <5> QED
          BY <3>3, <5>1 DEF SortedRing
      <4> QED
        BY <3>2, <4>1, <4>2 DEF Before
    <3>7. ASSUME NEW m \in Ids(Head(r)), NEW n \in Ids(b) PROVE m < n
      <4>1. 1 \in 1 .. Len(r)
        BY <3>2
      <4> QED
        BY <3>2, <3>7, <4>1 DEF Before
    <3> QED
      BY <2>2, <3>2, <3>4, <3>5, <3>6, <3>7
  <2> QED
    BY <2>1, <2>2
<1> HIDE DEF keep, cost
<1> DEFINE q == Append(keep, b)
<1>3. RingIds(q) = RingIds(keep) \cup Ids(b)
  BY <1>2, RingIdsAppend
<1>4. SortedRing(q)
  <2>1. /\ Len(keep) \in Nat /\ Len(q) = Len(keep) + 1
        /\ \A k \in 1 .. Len(keep) : q[k] = keep[k]
        /\ q[Len(q)] = b
    BY <1>2, AppendProperties, LenProperties
  <2> HIDE DEF q
  <2>2. ASSUME NEW i \in 1 .. Len(q) PROVE Sorted(q[i])
    <3>1. i \in 1 .. Len(keep) \/ i = Len(q)
      BY <2>1
    <3> QED
      BY <1>2, <2>1, <3>1 DEF SortedRing
  <2>3. ASSUME NEW i \in 1 .. Len(q), NEW j \in 1 .. Len(q), i < j
        PROVE  Before(q[i], q[j])
    <3>1. i \in 1 .. Len(keep) /\ (j \in 1 .. Len(keep) \/ j = Len(q))
      BY <2>1, <2>3
    <3> QED
      BY <1>2, <2>1, <2>3, <3>1 DEF SortedRing
  <2> QED
    BY <2>2, <2>3 DEF SortedRing
<1>5. RingIds(q) \cup cost = RingIds(r) \cup Ids(b)
  BY <1>2, <1>3
<1>6. \A m \in cost, n \in RingIds(q) : m < n
  BY <1>2, <1>3
<1> QED
  BY <1>1, <1>4, <1>5, <1>6

\* What the functions of Bundle.c do to the messages: s becomes t, with the
\* messages of new added.
Reorders(s, t, new) ==
  /\ Ordered(t)
  /\ Waiting(t) \subseteq Waiting(s) \cup new
  /\ Waiting(t) \cup t.lost = Waiting(s) \cup s.lost \cup new

LEMMA sendBundleOrders ==
  ASSUME NEW s \in Bundles, Ordered(s)
  PROVE  Reorders(s, sendBundle(s), {})
<1>1. s.local \in Local /\ s.ring \in Rings /\ s.lost \in SUBSET Message
  BY DEF Bundles
<1>2. CASE s.local.size = 0
  BY <1>2 DEF sendBundle, Reorders
<1>3. CASE s.local.size # 0
  <2> DEFINE q == addToBundleBuffer(s.ring, s.local)
             d == Dropped(s.ring, s.local)
  <2>1. s.local \in Filled
    BY <1>1, <1>3, EmptyIsNone
  <2>2. /\ SortedRing(q)
        /\ RingIds(q) \cup d = RingIds(s.ring) \cup Ids(s.local)
        /\ \A m \in d, n \in RingIds(q) : m < n
    BY <1>1, <2>1, RingTakesInOrder DEF Ordered
  <2> HIDE DEF q, d
  <2>3. sendBundle(s) = [local |-> NoBundle, age |-> 0, ring |-> q,
                         lost |-> s.lost \cup d]
    BY <1>3 DEF sendBundle, q, d
  <2>4. Waiting(sendBundle(s)) = RingIds(q)
    BY <2>3, NoIds DEF Waiting
  <2>5. \A m \in s.lost, n \in RingIds(q) : m < n
    BY <2>2 DEF Ordered, Waiting
  <2>6. Ordered(sendBundle(s))
    BY <2>2, <2>3, <2>4, <2>5, NoIds DEF Ordered, Before
  <2> QED
    BY <2>2, <2>3, <2>4, <2>6 DEF Reorders, Waiting
<1> QED
  BY <1>2, <1>3

LEMMA pokeBundleOrders ==
  ASSUME NEW s \in Bundles, NEW d \in Ages, Ordered(s)
  PROVE  Reorders(s, pokeBundle(s, d), {})
<1> DEFINE t == [s EXCEPT !.age = Later(s.age, d)]
<1>1. /\ t.local = s.local /\ t.ring = s.ring /\ t.lost = s.lost
  BY DEF Bundles
<1>2. Reorders(s, t, {})
  BY <1>1 DEF Reorders, Ordered, Waiting
<1>3. pokeBundle(s, d) = t \/ pokeBundle(s, d) = sendBundle(s)
  BY DEF pokeBundle
<1> QED
  BY <1>2, <1>3, sendBundleOrders

LEMMA AddMessageOrders ==
  ASSUME NEW s \in Bundles, NEW m \in Message, NEW msg_s \in Nat, Ordered(s),
         \A n \in Waiting(s) \cup s.lost : n < m
  PROVE  Reorders(s, AddMessage(s, m, msg_s), {m})
<1> DEFINE room == IF Fits(s.local, msg_s) THEN s ELSE sendBundle(s)
           more == WithMessage(room.local, m, msg_s)
           t    == AddMessage(s, m, msg_s)
<1>1. room \in Bundles
  BY sendBundleFits
<1>2. Reorders(s, room, {})
  <2>1. Reorders(s, s, {})
    BY DEF Reorders
  <2> QED
    BY <2>1, sendBundleOrders
<1>3. t.local = more /\ t.ring = room.ring /\ t.lost = room.lost
  <2>1. t = [room EXCEPT !.local = WithMessage(room.local, m, msg_s),
                         !.age = IF room.local.size = 0 THEN 0 ELSE room.age]
    BY DEF AddMessage
  <2> HIDE DEF room, t
  <2> QED
    BY <1>1, <2>1 DEF Bundles
<1> HIDE DEF room, t
<1>4. /\ room.local \in Bundle /\ room.ring \in Seq(Filled)
      /\ \A n \in Waiting(room) : n < m
      /\ \A n \in room.lost : n < m
  BY <1>1, <1>2, EmptyIsNone DEF Bundles, Rings, Reorders
<1>5. Ids(more) = Ids(room.local) \cup {m} /\ Sorted(more)
  BY <1>2, <1>4, IdsOfMore DEF Waiting, Reorders, Ordered
<1> HIDE DEF more
<1>6. Waiting(t) = Waiting(room) \cup {m}
  BY <1>3, <1>5 DEF Waiting
<1>7. Ordered(t)
  <2>1. SortedRing(t.ring) /\ Sorted(t.local)
    BY <1>2, <1>3, <1>5 DEF Reorders, Ordered
  <2>2. ASSUME NEW i \in 1 .. Len(t.ring) PROVE Before(t.ring[i], t.local)
    <3>1. Before(room.ring[i], room.local)
      BY <1>2, <1>3, <2>2 DEF Reorders, Ordered
    <3>2. \A n \in Ids(room.ring[i]) : n < m
      BY <1>3, <1>4, <2>2 DEF Waiting, RingIds
    <3> QED
      BY <1>3, <1>5, <3>1, <3>2 DEF Before
  <2>3. \A l \in t.lost, n \in Waiting(t) : l < n
    BY <1>2, <1>3, <1>4, <1>6 DEF Reorders, Ordered
  <2> QED
    BY <2>1, <2>2, <2>3 DEF Ordered
<1>8. Waiting(t) \cup t.lost = Waiting(s) \cup s.lost \cup {m}
  BY <1>2, <1>3, <1>6 DEF Reorders
<1>9. Waiting(t) \subseteq Waiting(s) \cup {m}
  BY <1>2, <1>6 DEF Reorders
<1> QED
  BY <1>7, <1>8, <1>9 DEF Reorders, t

-----------------------------------------------------------------------------
(* The steps keep the order *)

\* The messages are numbers, and the sender's are its own.
LEMMA Numbers ==
  ASSUME IInv, OrderInv
  PROVE  /\ next \in Nat \ {0}
         /\ Gone \in SUBSET Nat /\ Waiting(State) \in SUBSET Nat
         /\ lost \in SUBSET Nat /\ refused \in SUBSET Nat
         /\ \A m \in Gone \cup Waiting(State) \cup lost \cup refused : m < next
<1>1. next \in Nat \ {0}
  BY Sizes DEF IInv, LoopFits
<1>2. Gone \cup Waiting(State) \cup lost \cup refused = 1 .. next - 1
  BY DEF OrderInv, Accounted
<1> QED
  BY <1>1, <1>2

LEMMA OrderOfState ==
  ASSUME IInv, OrderInv, NEW t \in Bundles, Become(t), NEW new,
         \/ new = {} /\ next' = next
         \/ new = {next} /\ next' = next + 1,
         Reorders(State, t, new),
         UNCHANGED <<sending, bundle_sent, wire, refused>>
  PROVE  OrderInv'
<1>1. /\ State'.local = t.local /\ State'.ring = t.ring /\ State'.lost = t.lost
      /\ lost' = t.lost /\ State.lost = lost
  BY DEF State, Become
<1>2. Waiting(State)' = Waiting(t) /\ Ordered(State)'
  BY <1>1 DEF Waiting, Reorders, Ordered
<1>3. Gone' = Gone /\ Unsent' = Unsent
  BY DEF Gone, OnWire, Unsent
<1>4. /\ next \in Nat \ {0}
      /\ Gone \in SUBSET Nat /\ Waiting(State) \in SUBSET Nat
      /\ lost \in SUBSET Nat /\ refused \in SUBSET Nat
      /\ \A m \in Gone \cup Waiting(State) \cup lost \cup refused : m < next
  BY Numbers
<1>5. /\ Gone \cup Waiting(State) \cup lost \cup refused = 1 .. next - 1
      /\ Gone \cap lost = {}
      /\ refused \cap (Gone \cup Waiting(State) \cup lost) = {}
      /\ \A g \in Gone, n \in Waiting(State) : g < n
  BY DEF OrderInv, Accounted
<1>6. /\ Waiting(t) \subseteq Waiting(State) \cup new
      /\ Waiting(t) \cup t.lost = Waiting(State) \cup lost \cup new
  BY <1>1 DEF Reorders
<1>7. \A n \in new : n = next
  OBVIOUS
<1>8. (1 .. next - 1) \cup new = 1 .. next' - 1
  <2>1. CASE new = {} /\ next' = next
    BY <2>1
  <2>2. CASE new = {next} /\ next' = next + 1
    BY <1>4, <2>2
  <2> QED
    BY <2>1, <2>2
<1>9. \A g \in Gone, n \in Waiting(t) : g < n
  BY <1>4, <1>5, <1>6, <1>7
<1>10. Gone \cup Waiting(t) \cup t.lost \cup refused = 1 .. next' - 1
  BY <1>5, <1>6, <1>8
<1>11. Gone \cap t.lost = {}
  <2> SUFFICES ASSUME NEW x \in Gone, x \in t.lost PROVE FALSE
    OBVIOUS
  <2>1. x \in Waiting(State) \/ x \in lost \/ x = next
    BY <1>6, <1>7
  <2>2. x \in Nat /\ x < next
    BY <1>4
  <2>3. x \in Waiting(State) => x < x
    BY <1>5
  <2> QED
    BY <1>4, <1>5, <2>1, <2>2, <2>3
<1>12. refused \cap (Gone \cup Waiting(t) \cup t.lost) = {}
  <2> SUFFICES ASSUME NEW x \in refused, x \in Gone \cup Waiting(t) \cup t.lost
               PROVE  FALSE
    OBVIOUS
  <2>1. x \in Gone \cup Waiting(State) \cup lost \/ x = next
    BY <1>6, <1>7
  <2>2. x \in Nat /\ x < next
    BY <1>4
  <2> QED
    BY <1>4, <1>5, <2>1, <2>2
<1>13. Accounted'
  BY <1>1, <1>2, <1>3, <1>10, <1>11, <1>12 DEF Accounted
<1> QED
  BY <1>2, <1>3, <1>9, <1>13 DEF OrderInv

LEMMA OrderOfRefused ==
  ASSUME IInv, OrderInv, next' = next + 1, refused' = refused \cup {next},
         UNCHANGED <<local, ring, lost, sending, bundle_sent, wire>>
  PROVE  OrderInv'
<1>1. /\ Waiting(State)' = Waiting(State) /\ Ordered(State)'
      /\ Gone' = Gone /\ Unsent' = Unsent
  BY DEF OrderInv, Waiting, Ordered, State, Gone, OnWire, Unsent
<1>2. /\ next \in Nat \ {0}
      /\ \A m \in Gone \cup Waiting(State) \cup lost \cup refused : m < next
  BY Numbers
<1>3. (1 .. next - 1) \cup {next} = 1 .. next' - 1
  BY <1>2
<1>4. next \notin Gone \cup Waiting(State) \cup lost
  BY <1>2
<1>5. Accounted'
  <2>1. /\ Gone \cup Waiting(State) \cup lost \cup refused = 1 .. next - 1
        /\ Gone \cap lost = {}
        /\ refused \cap (Gone \cup Waiting(State) \cup lost) = {}
    BY DEF OrderInv, Accounted
  <2>2. Gone \cup Waiting(State) \cup lost \cup refused' = 1 .. next' - 1
    BY <1>3, <2>1
  <2>3. refused' \cap (Gone \cup Waiting(State) \cup lost) = {}
    BY <1>4, <2>1
  <2> QED
    BY <1>1, <2>1, <2>2, <2>3 DEF Accounted
<1> QED
  BY <1>1, <1>5 DEF OrderInv

LEMMA OrderRests ==
  ASSUME IInv, OrderInv,
         UNCHANGED <<local, ring, lost, sending, bundle_sent, wire, next, refused>>
  PROVE  OrderInv'
<1>1. /\ Waiting(State)' = Waiting(State) /\ Ordered(State)'
      /\ Gone' = Gone /\ Unsent' = Unsent
  BY DEF OrderInv, Waiting, Ordered, State, Gone, OnWire, Unsent
<1> QED
  BY <1>1 DEF OrderInv, Accounted

\* The oldest bundle of the ring is next: it is younger than what is written.
LEMMA OrderOfTop ==
  ASSUME IInv, OrderInv, getTopOfBundleBuffer
  PROVE  OrderInv'
<1>1. /\ ~Unsent /\ ring # << >> /\ sending' = Head(ring) /\ ring' = Tail(ring)
      /\ UNCHANGED <<local, lost, wire, next, refused>> /\ bundle_sent' = 0
  BY DEF getTopOfBundleBuffer
<1>2. ring \in Seq(Filled) /\ local \in Bundle
  BY EmptyIsNone DEF IInv, StateFits, Rings
<1>3. /\ RingIds(ring) = Ids(Head(ring)) \cup RingIds(ring')
      /\ Head(ring) = ring[1] /\ Head(ring) \in Filled /\ ring' \in Seq(Filled)
      /\ Len(ring') = Len(ring) - 1 /\ Len(ring) \in Nat \ {0}
      /\ \A i \in 1 .. Len(ring') : ring'[i] = ring[i + 1]
  BY <1>1, <1>2, RingIdsTail
<1>4. \A i \in 1 .. Len(ring') : i + 1 \in 1 .. Len(ring) /\ 1 < i + 1
  BY <1>3
<1>5. 1 \in 1 .. Len(ring)
  BY <1>3
<1>6. SortedRing(ring) /\ (\A i \in 1 .. Len(ring) : Before(ring[i], local))
      /\ Sorted(local) /\ (\A m \in lost, n \in Waiting(State) : m < n)
  BY DEF OrderInv, Ordered, State
<1>7. SortedRing(ring')
  <2>1. ASSUME NEW i \in 1 .. Len(ring'), NEW j \in 1 .. Len(ring'), i < j
        PROVE  Before(ring'[i], ring'[j])
    <3>1. i + 1 < j + 1
      BY <1>3, <2>1
    <3> QED
      BY <1>3, <1>4, <1>6, <3>1 DEF SortedRing
  <2>2. \A i \in 1 .. Len(ring') : Sorted(ring'[i])
    BY <1>3, <1>4, <1>6 DEF SortedRing
  <2> QED
    BY <2>1, <2>2 DEF SortedRing
<1>8. Sorted(sending') /\ (\A i \in 1 .. Len(ring') : Before(sending', ring'[i]))
      /\ Before(sending', local)
  BY <1>1, <1>3, <1>4, <1>5, <1>6 DEF SortedRing
<1>9. /\ Waiting(State) = Ids(sending') \cup Waiting(State)'
      /\ \A m \in Ids(sending'), n \in Waiting(State)' : m < n
  <2>1. Waiting(State)' = RingIds(ring') \cup Ids(local)
    BY <1>1 DEF Waiting, State
  <2>2. ASSUME NEW m \in Ids(sending'), NEW n \in RingIds(ring') PROVE m < n
    BY <1>8, <2>2 DEF RingIds, Before
  <2>3. \A m \in Ids(sending'), n \in Ids(local) : m < n
    BY <1>8 DEF Before
  <2> QED
    BY <1>1, <1>3, <2>1, <2>2, <2>3 DEF Waiting, State
<1>10. Ordered(State)'
  <2>1. \A i \in 1 .. Len(ring') : Before(ring'[i], local)
    BY <1>3, <1>4, <1>6
  <2>2. \A m \in lost, n \in Waiting(State)' : m < n
    BY <1>6, <1>9
  <2> QED
    BY <1>1, <1>6, <1>7, <2>1, <2>2 DEF Ordered, State, Waiting
<1>11. Gone = OnWire /\ Gone' = OnWire \cup Ids(sending') /\ Unsent'
  <2>1. Unsent'
    BY <1>1, <1>3, FilledIsFilled, Sizes DEF Unsent
  <2> QED
    BY <1>1, <2>1 DEF Gone, OnWire
<1>12. \A g \in Gone, n \in Waiting(State) : g < n
  BY DEF OrderInv
<1>13. ASSUME NEW i \in 1 .. Len(wire) PROVE Before(wire[i][1], sending')
  <2>1. Ids(wire[i][1]) \subseteq Gone
    BY <1>11 DEF OnWire
  <2> QED
    BY <1>9, <1>12, <2>1 DEF Before
<1>14. Accounted'
  <2>1. /\ Gone \cup Waiting(State) \cup lost \cup refused = 1 .. next - 1
        /\ Gone \cap lost = {}
        /\ refused \cap (Gone \cup Waiting(State) \cup lost) = {}
    BY DEF OrderInv, Accounted
  <2>2. Ids(sending') \cap lost = {}
    <3>1. \A x \in Ids(sending') : x \in Nat /\ x \in Waiting(State)
      BY <1>9, Numbers
    <3> QED
      BY <1>6, <3>1
  <2>3. Gone' \cup Waiting(State)' = Gone \cup Waiting(State)
    BY <1>9, <1>11
  <2> HIDE DEF Gone
  <2>4. Gone' \cap lost = {}
    BY <1>11, <2>1, <2>2
  <2> QED
    BY <1>1, <2>1, <2>3, <2>4 DEF Accounted
<1>15. \A g \in Gone', n \in Waiting(State)' : g < n
  BY <1>9, <1>11, <1>12
<1> QED
  BY <1>1, <1>8, <1>10, <1>13, <1>14, <1>15 DEF OrderInv

\* What send() writes belongs to the bundle that comes next.
LEMMA OrderOfSend ==
  ASSUME IInv, OrderInv, NEW n \in 1 .. sending.size - bundle_sent, send(n)
  PROVE  OrderInv'
<1>1. /\ Unsent /\ bundle_sent' = bundle_sent + n
      /\ wire' = wire \o Bytes(sending, bundle_sent, bundle_sent + n)
      /\ UNCHANGED <<local, ring, lost, sending, next, refused>>
  BY DEF send, unchangedBundle
<1>2. /\ sending \in Filled /\ bundle_sent \in Nat /\ sending.size \in Nat
      /\ n \in Nat \ {0} /\ wire \in Seq(WireByte)
  BY EmptyIsNone, Sizes DEF IInv, SenderFits
<1>3. /\ Len(wire) \in Nat /\ Len(wire') = Len(wire) + n
      /\ \A i \in 1 .. Len(wire) : wire'[i] = wire[i]
      /\ \A i \in 1 .. Len(wire') : i \notin 1 .. Len(wire) => wire'[i][1] = sending
  <2> DEFINE bytes == Bytes(sending, bundle_sent, bundle_sent + n)
  <2>1. /\ bytes \in Seq(WireByte) /\ Len(bytes) = n
        /\ \A i \in 1 .. n : bytes[i] = <<sending, bundle_sent + i>>
    BY <1>2, BytesOfSend
  <2> HIDE DEF bytes
  <2>2. /\ Len(wire \o bytes) = Len(wire) + Len(bytes)
        /\ \A i \in 1 .. Len(wire) + Len(bytes) :
             (wire \o bytes)[i] = IF i <= Len(wire) THEN wire[i]
                                                   ELSE bytes[i - Len(wire)]
    BY <1>2, <2>1, ConcatProperties
  <2>3. wire' = wire \o bytes /\ Len(wire) \in Nat
    BY <1>1, <1>2, LenProperties DEF bytes
  <2>4. ASSUME NEW i \in 1 .. Len(wire'), i \notin 1 .. Len(wire)
        PROVE  wire'[i][1] = sending
    <3>1. i - Len(wire) \in 1 .. n /\ ~(i <= Len(wire))
      BY <1>2, <2>1, <2>2, <2>3, <2>4
    <3>2. wire'[i] = bytes[i - Len(wire)]
      BY <2>1, <2>2, <2>3, <3>1
    <3> QED
      BY <2>1, <3>1, <3>2
  <2> QED
    BY <1>2, <2>1, <2>2, <2>3, <2>4
<1>4. OnWire' = OnWire \cup Ids(sending)
  <2>1. ASSUME NEW x \in OnWire' PROVE x \in OnWire \cup Ids(sending)
    <3>1. PICK i \in 1 .. Len(wire') : x \in Ids(wire'[i][1])
      BY <2>1 DEF OnWire
    <3> QED
      BY <1>3, <3>1 DEF OnWire
  <2>2. ASSUME NEW x \in OnWire PROVE x \in OnWire'
    <3>1. PICK i \in 1 .. Len(wire) : x \in Ids(wire[i][1])
      BY <2>2 DEF OnWire
    <3>2. i \in 1 .. Len(wire') /\ wire'[i] = wire[i]
      BY <1>2, <1>3
    <3> QED
      BY <3>1, <3>2 DEF OnWire
  <2>3. ASSUME NEW x \in Ids(sending) PROVE x \in OnWire'
    <3>1. Len(wire') \in 1 .. Len(wire') /\ wire'[Len(wire')][1] = sending
      BY <1>2, <1>3
    <3> QED
      BY <2>3, <3>1 DEF OnWire
  <2> QED
    BY <2>1, <2>2, <2>3
<1>5. Gone' = Gone
  BY <1>1, <1>4 DEF Gone
<1>6. Waiting(State)' = Waiting(State) /\ Ordered(State)'
  BY <1>1 DEF OrderInv, Waiting, Ordered, State
<1>7. ASSUME NEW i \in 1 .. Len(wire'), NEW j \in 1 .. Len(wire'), i < j
      PROVE  wire'[i][1] = wire'[j][1] \/ Before(wire'[i][1], wire'[j][1])
  <2>1. CASE j \in 1 .. Len(wire)
    <3>1. i \in 1 .. Len(wire)
      BY <1>3, <1>7, <2>1
    <3> QED
      BY <1>3, <1>7, <2>1, <3>1 DEF OrderInv
  <2>2. CASE j \notin 1 .. Len(wire)
    BY <1>1, <1>3, <2>2 DEF OrderInv
  <2> QED
    BY <2>1, <2>2
<1>8. /\ Sorted(sending)
      /\ \A i \in 1 .. Len(wire') : wire'[i][1] = sending \/ Before(wire'[i][1], sending)
  BY <1>1, <1>3 DEF OrderInv
<1>9. Accounted'
  BY <1>1, <1>5, <1>6 DEF OrderInv, Accounted
<1> QED
  BY <1>1, <1>5, <1>6, <1>7, <1>8, <1>9 DEF OrderInv

LEMMA OrderAtInit == Init => OrderInv
<1> SUFFICES ASSUME Init PROVE OrderInv
  OBVIOUS
<1>1. /\ local = NoBundle /\ ring = << >> /\ sending = NoBundle /\ bundle_sent = 0
      /\ wire = << >> /\ next = 1 /\ refused = {} /\ lost = {}
  BY DEF Init
<1>2. /\ State.local = NoBundle /\ State.ring = << >> /\ State.lost = {}
      /\ ~Unsent /\ Len(wire) = 0 /\ Len(ring) = 0
  BY <1>1 DEF State, Unsent, NoBundle
<1>3. Waiting(State) = {} /\ Gone = {}
  BY <1>1, <1>2, NoIds DEF Waiting, RingIds, Gone, OnWire
<1>4. Ordered(State)
  BY <1>1, <1>2, <1>3, NoIds DEF Ordered, SortedRing
<1>5. Accounted
  BY <1>1, <1>3 DEF Accounted
<1> QED
  BY <1>2, <1>3, <1>4, <1>5 DEF OrderInv

LEMMA OrderByStep == IInv /\ OrderInv /\ [Next]_vars => OrderInv'
<1> SUFFICES ASSUME IInv, OrderInv, [Next]_vars PROVE OrderInv'
  OBVIOUS
<1>1. State \in Bundles /\ Ordered(State)
  BY StateIsBundles DEF IInv, OrderInv
<1>2. ASSUME NEW msg_s \in MsgSizes, NEW d \in Ages, addToBundle(msg_s, d)
      PROVE  OrderInv'
  <2> DEFINE s == AddMessage(State, next, msg_s)
             t == pokeBundle(s, d)
  <2>1. next \in Message /\ msg_s \in Nat \ {0} /\ msg_s <= MaxMsgSize
    BY <1>2, Sizes, SizesAssumption DEF IInv, LoopFits, addToBundle, Message
  <2>2. s \in Bundles /\ t \in Bundles
    BY <1>1, <2>1, AddMessageFits, pokeBundleFits
  <2>3. \A n \in Waiting(State) \cup State.lost : n < next
    BY Numbers DEF State
  <2>4. Reorders(State, s, {next})
    BY <1>1, <2>1, <2>3, AddMessageOrders
  <2> HIDE DEF s
  <2>5. Reorders(s, t, {})
    BY <2>2, <2>4, pokeBundleOrders DEF Reorders
  <2> HIDE DEF t
  <2>6. Reorders(State, t, {next})
    BY <2>4, <2>5 DEF Reorders
  <2>7. Become(t) /\ next' = next + 1 /\ UNCHANGED <<sending, bundle_sent, wire, refused>>
    BY <1>2 DEF addToBundle, unchangedSender, s, t
  <2> QED
    BY <2>2, <2>6, <2>7, OrderOfState
<1>3. CASE poke
  <2> DEFINE t == pokeBundle(State, 0)
  <2>1. 0 \in Ages
    BY Sizes DEF Ages
  <2>2. t \in Bundles /\ Reorders(State, t, {})
    BY <1>1, <2>1, pokeBundleFits, pokeBundleOrders
  <2> HIDE DEF t
  <2>3. Become(t) /\ next' = next /\ UNCHANGED <<sending, bundle_sent, wire, refused>>
    BY <1>3 DEF poke, unchangedSender, t
  <2> QED
    BY <2>2, <2>3, OrderOfState
<1>4. ASSUME NEW msg_s \in MsgSizes, refuseMessage(msg_s) PROVE OrderInv'
  BY <1>4, OrderOfRefused DEF refuseMessage, unchangedSender
<1>5. CASE getTopOfBundleBuffer
  BY <1>5, OrderOfTop
<1>6. ASSUME NEW n \in 1 .. sending.size - bundle_sent, send(n) PROVE OrderInv'
  BY <1>6, OrderOfSend
<1>7. CASE UNCHANGED <<local, ring, lost, sending, bundle_sent, wire, next, refused>>
  BY <1>7, OrderRests
<1>8. CASE \/ selectFDSet \/ readsDone \/ sendError \/ sendKills \/ allSent
           \/ Tick \/ ClockSetBack \/ Drain \/ Reset
  BY <1>7, <1>8 DEF selectFDSet, readsDone, sendError, sendKills, allSent, Tick,
     ClockSetBack, Drain, Reset, unchangedBundle, unchangedSender
<1>9. ASSUME NEW msg_s \in MsgSizes, addToNoBundle(msg_s) PROVE OrderInv'
  BY <1>7, <1>9 DEF addToNoBundle, unchangedBundle, unchangedSender
<1>10. CASE UNCHANGED vars
  BY <1>7, <1>10 DEF vars
<1> QED
  BY <1>2, <1>3, <1>4, <1>5, <1>6, <1>8, <1>9, <1>10 DEF Next

THEOREM AlwaysOrdered == Spec => [](IInv /\ OrderInv)
BY InitFits, StepFits, OrderAtInit, OrderByStep, PTL DEF Spec

-----------------------------------------------------------------------------
(* What follows from the order *)

\* A bundle on its way is the sender's, one of the ring, or the open one.
LEMMA PendingAt ==
  ASSUME IInv, NEW i \in 1 .. Len(Pending)
  PROVE  LET a == IF Unsent THEN 1 ELSE 0
         IN  \/ Unsent /\ i = 1 /\ Pending[i] = sending
             \/ i - a \in 1 .. Len(ring) /\ Pending[i] = ring[i - a]
             \/ i - a = Len(ring) + 1 /\ Pending[i] = local
<1> DEFINE now  == IF Unsent THEN <<sending>> ELSE << >>
           open == IF local.size = 0 THEN << >> ELSE <<local>>
           a    == IF Unsent THEN 1 ELSE 0
<1>1. ring \in Seq(Bundle) /\ local \in Bundle /\ sending \in Bundle
  BY TypeFollows DEF TypeOK
<1>2. now \in Seq(Bundle) /\ Len(now) = a /\ (Unsent => now[1] = sending)
  <2>1. CASE Unsent
    BY <1>1, <2>1
  <2>2. CASE ~Unsent
    BY <2>2
  <2> QED
    BY <2>1, <2>2
<1>3. open \in Seq(Bundle) /\ Len(open) \in 0 .. 1 /\ (Len(open) = 1 => open[1] = local)
  <2>1. CASE local.size = 0
    BY <2>1
  <2>2. CASE local.size # 0
    BY <1>1, <2>2
  <2> QED
    BY <2>1, <2>2
<1>4. Pending = (now \o ring) \o open
  BY Zenon DEF Pending
<1>5. a \in 0 .. 1 /\ (a = 1 <=> Unsent)
  OBVIOUS
<1> HIDE DEF now, open, a
<1>6. Len(ring) \in Nat
  BY <1>1, LenProperties
<1>7. /\ now \o ring \in Seq(Bundle) /\ Len(now \o ring) = a + Len(ring)
      /\ \A k \in 1 .. a + Len(ring) :
           (now \o ring)[k] = IF k <= a THEN now[k] ELSE ring[k - a]
  BY <1>1, <1>2, ConcatProperties
<1>8. /\ Len(Pending) = a + Len(ring) + Len(open)
      /\ \A k \in 1 .. a + Len(ring) + Len(open) :
           Pending[k] = IF k <= a + Len(ring) THEN (now \o ring)[k]
                                              ELSE open[k - (a + Len(ring))]
  BY <1>3, <1>4, <1>7, ConcatProperties
<1>9. CASE i <= a
  <2>1. i = 1 /\ Unsent /\ a = 1
    BY <1>5, <1>9
  <2>2. i \in 1 .. a + Len(ring) /\ i <= a + Len(ring)
    BY <1>6, <2>1
  <2>3. Pending[i] = sending
    BY <1>2, <1>7, <1>8, <1>9, <2>1, <2>2
  <2> QED
    BY <2>1, <2>3
<1>10. CASE i > a /\ i <= a + Len(ring)
  <2>1. i - a \in 1 .. Len(ring) /\ i \in 1 .. a + Len(ring) /\ ~(i <= a)
    BY <1>5, <1>6, <1>10
  <2>2. Pending[i] = ring[i - a]
    BY <1>7, <1>8, <1>10, <2>1
  <2> QED
    BY <2>1, <2>2 DEF a
<1>11. CASE i > a + Len(ring)
  <2>1. /\ Len(open) = 1 /\ i = a + Len(ring) + 1 /\ ~(i <= a + Len(ring))
        /\ i - (a + Len(ring)) = 1 /\ i - a = Len(ring) + 1
    BY <1>3, <1>5, <1>6, <1>8, <1>11
  <2>2. Pending[i] = open[1]
    BY <1>8, <2>1
  <2> QED
    BY <1>3, <2>1, <2>2 DEF a
<1> QED
  BY <1>5, <1>6, <1>9, <1>10, <1>11

\* Every message leaves in the order addToBundle() took it, for bundles, rings
\* and messages of every size and however often the ring drops or send() stops.
THEOREM MessagesInOrder == Spec => []InOrder
<1>1. IInv /\ OrderInv => InOrder
  <2> SUFFICES ASSUME IInv, OrderInv PROVE InOrder
    OBVIOUS
  <2> DEFINE a == IF Unsent THEN 1 ELSE 0
  <2>1. ring \in Seq(Filled) /\ Len(ring) \in Nat
    BY DEF IInv, StateFits, Rings
  <2>2. /\ SortedRing(ring) /\ Sorted(local)
        /\ \A i \in 1 .. Len(ring) : Before(ring[i], local)
        /\ \A g \in Gone, n \in Waiting(State) : g < n
        /\ Unsent => Sorted(sending)
    BY DEF OrderInv, Ordered, State
  <2>3. \A i \in 1 .. Len(ring) : Ids(ring[i]) \subseteq Waiting(State)
    BY DEF Waiting, State, RingIds
  <2>4. Ids(local) \subseteq Waiting(State)
    BY DEF Waiting, State
  <2>5. \A i \in 1 .. Len(wire) : Ids(wire[i][1]) \subseteq Gone
    BY DEF Gone, OnWire
  <2>6. Unsent => Ids(sending) \subseteq Gone
    BY DEF Gone
  <2>7. \A i \in 1 .. Len(Pending) :
          \/ Unsent /\ i = 1 /\ Pending[i] = sending
          \/ i - a \in 1 .. Len(ring) /\ Pending[i] = ring[i - a]
          \/ i - a = Len(ring) + 1 /\ Pending[i] = local
    BY PendingAt
  <2>8. a \in 0 .. 1 /\ (Unsent => a = 1)
    OBVIOUS
  <2> HIDE DEF a
  <2>9. ASSUME NEW i \in 1 .. Len(Pending), NEW j \in 1 .. Len(Pending), i < j
        PROVE  Before(Pending[i], Pending[j])
    <3>1. CASE Unsent /\ i = 1 /\ Pending[i] = sending
      <4>1. \/ j - a \in 1 .. Len(ring) /\ Pending[j] = ring[j - a]
            \/ Pending[j] = local
        BY <2>7, <2>9, <3>1
      <4> QED
        BY <2>2, <2>3, <2>4, <2>6, <3>1, <4>1 DEF Before
    <3>2. CASE i - a \in 1 .. Len(ring) /\ Pending[i] = ring[i - a]
      <4>1. i \in Int /\ j \in Int
        OBVIOUS
      <4>2. \/ j - a \in 1 .. Len(ring) /\ Pending[j] = ring[j - a]
            \/ Pending[j] = local
        BY <2>7, <2>8, <2>9, <3>2, <4>1
      <4>3. i - a < j - a
        BY <2>8, <2>9, <4>1
      <4> QED
        BY <2>2, <3>2, <4>2, <4>3 DEF SortedRing
    <3>3. CASE i - a = Len(ring) + 1 /\ Pending[i] = local
      <4>1. i \in Int /\ j \in Int
        OBVIOUS
      <4> QED
        BY <2>1, <2>7, <2>8, <2>9, <3>3, <4>1
    <3> QED
      BY <2>7, <3>1, <3>2, <3>3
  <2>10. ASSUME NEW i \in 1 .. Len(wire), NEW j \in 1 .. Len(Pending)
         PROVE  wire[i][1] = Pending[j] \/ Before(wire[i][1], Pending[j])
    <3>1. CASE Unsent /\ Pending[j] = sending
      BY <3>1 DEF OrderInv
    <3>2. CASE j - a \in 1 .. Len(ring) /\ Pending[j] = ring[j - a]
      BY <2>2, <2>3, <2>5, <3>2 DEF Before
    <3>3. CASE Pending[j] = local
      BY <2>2, <2>4, <2>5, <3>3 DEF Before
    <3> QED
      BY <2>7, <3>1, <3>2, <3>3
  <2>11. ASSUME NEW j \in 1 .. Len(Pending), NEW k \in 1 .. Len(Pending[j].content) - 1
         PROVE  Pending[j].content[k] < Pending[j].content[k + 1]
    <3>1. Sorted(Pending[j])
      BY <2>2, <2>7 DEF SortedRing
    <3>2. Pending[j] \in Bundle
      <4>1. local \in Bundle /\ sending \in Bundle /\ ring \in Seq(Bundle)
        BY TypeFollows DEF TypeOK
      <4> QED
        BY <2>7, <4>1, ElementOfSeq
    <3>3. Len(Pending[j].content) \in Nat
      BY <3>2 DEF Bundle
    <3> DEFINE n == Len(Pending[j].content)
    <3> HIDE DEF n
    <3>4. k \in 1 .. n /\ k + 1 \in 1 .. n /\ k < k + 1
      BY <3>3 DEF n
    <3> QED
      BY <3>1, <3>4 DEF Sorted, n
  <2> QED
    BY <2>9, <2>10, <2>11 DEF InOrder, OrderInv
<1> QED
  BY <1>1, AlwaysOrdered, PTL

\* A ring of any size gives up the past and never the present.
THEOREM OldestAreLost == Spec => []LostAreOldest
<1>1. OrderInv => LostAreOldest
  BY DEF OrderInv, Ordered, Waiting, State, RingIds, LostAreOldest, Places
<1> QED
  BY <1>1, AlwaysOrdered, PTL

\* No message is unaccounted for, sent twice or sent after it was given up.
THEOREM OnePlaceForEach == Spec => []ExactlyOnePlace
<1>1. IInv /\ OrderInv => ExactlyOnePlace
  <2> SUFFICES ASSUME IInv, OrderInv, NEW m \in 1 .. next - 1
               PROVE  Cardinality({p \in DOMAIN Places : m \in Places[p]}) = 1
    BY DEF ExactlyOnePlace
  <2> DEFINE P == {p \in DOMAIN Places : m \in Places[p]}
             now == IF Unsent THEN Ids(sending) ELSE {}
  <2>1. DOMAIN Places = {"wire", "sending", "ring", "local", "refused", "lost"}
    BY DEF Places
  <2>2. /\ Places["wire"] = OnWire \ now /\ Places["sending"] = now
        /\ Places["ring"] = RingIds(ring) /\ Places["local"] = Ids(local)
        /\ Places["refused"] = refused /\ Places["lost"] = lost
    BY DEF Places, RingIds
  <2>3. /\ Gone = OnWire \cup now /\ Waiting(State) = RingIds(ring) \cup Ids(local)
    BY DEF Gone, Waiting, State
  <2>4. /\ m \in Gone \cup Waiting(State) \cup lost \cup refused
        /\ m \notin Gone \cap lost
        /\ m \notin refused \cap (Gone \cup Waiting(State) \cup lost)
    BY DEF OrderInv, Accounted
  <2>5. m \in Nat /\ ~(m < m)
    BY Numbers
  <2>6. m \notin Gone \cap Waiting(State) /\ m \notin lost \cap Waiting(State)
    BY <2>5 DEF OrderInv, Ordered, State
  <2>7. m \notin RingIds(ring) \cap Ids(local)
    BY <2>5 DEF OrderInv, Ordered, State, RingIds, Before
  <2> HIDE DEF now
  <2>8. \E p \in DOMAIN Places : P = {p}
    <3>1. CASE m \in refused
      <4>1. P = {"refused"}
        BY <2>1, <2>2, <2>3, <2>4, <3>1
      <4> QED
        BY <2>1, <4>1
    <3>2. CASE m \in lost
      <4>1. P = {"lost"}
        BY <2>1, <2>2, <2>3, <2>4, <2>6, <3>2
      <4> QED
        BY <2>1, <4>1
    <3>3. CASE m \in now
      <4>1. P = {"sending"}
        BY <2>1, <2>2, <2>3, <2>4, <2>6, <3>3
      <4> QED
        BY <2>1, <4>1
    <3>4. CASE m \in OnWire \ now
      <4>1. P = {"wire"}
        BY <2>1, <2>2, <2>3, <2>4, <2>6, <3>4
      <4> QED
        BY <2>1, <4>1
    <3>5. CASE m \in RingIds(ring)
      <4>1. P = {"ring"}
        BY <2>1, <2>2, <2>3, <2>4, <2>6, <2>7, <3>5
      <4> QED
        BY <2>1, <4>1
    <3>6. CASE m \in Ids(local)
      <4>1. P = {"local"}
        BY <2>1, <2>2, <2>3, <2>4, <2>6, <2>7, <3>6
      <4> QED
        BY <2>1, <4>1
    <3> QED
      BY <2>3, <2>4, <3>1, <3>2, <3>3, <3>4, <3>5, <3>6
  <2> HIDE DEF P
  <2>9. Cardinality(P) = 1
    BY <2>8, FS_Singleton
  <2> QED
    BY <2>9 DEF P
<1> QED
  BY <1>1, AlwaysOrdered, PTL

-----------------------------------------------------------------------------
(* Sequences of sequences *)

\* A set of natural numbers that is not empty has a smallest element.
LEMMA Smallest ==
  ASSUME NEW T \in SUBSET Nat, T # {}
  PROVE  \E x \in T : \A y \in T : x <= y
<1>1. PICK x \in T : \A y \in T : ~(<<y, x>> \in OpToRel(<, Nat))
  BY WFMin, NatLessThanWellFounded, Zenon
<1>2. \A y \in T : ~(y < x)
  BY <1>1, Zenon DEF OpToRel
<1> QED
  BY <1>2

LEMMA AppendLast ==
  ASSUME NEW S, NEW a \in Seq(S), NEW b \in Seq(S), NEW e \in S
  PROVE  a \o Append(b, e) = Append(a \o b, e)
<1>1. PICK c \in Seq(S) : c = <<e>>
  <2>1. <<e>> \in Seq(S)
    OBVIOUS
  <2> QED
    BY <2>1
<1>2. (a \o b) \o c = a \o (b \o c) /\ a \o b \in Seq(S)
  OBVIOUS
<1>3. Append(b, e) = b \o c
  BY <1>1
<1>4. Append(a \o b, e) = (a \o b) \o c
  BY <1>1, <1>2
<1> QED
  BY <1>2, <1>3, <1>4

\* What FlattenSeq() has put together after each of the sequences.
Joins(ss, f) ==
  /\ DOMAIN f = 0 .. Len(ss)
  /\ f[0] = << >>
  /\ \A i \in 1 .. Len(ss) : f[i] = f[i - 1] \o ss[i]

LEMMA JoinsExist ==
  ASSUME NEW S, NEW ss \in Seq(Seq(S))
  PROVE  \E f \in [0 .. Len(ss) -> Seq(S)] : Joins(ss, f)
<1> DEFINE Upto(n) == \E f \in [0 .. n -> Seq(S)] :
                        f[0] = << >> /\ \A i \in 1 .. n : f[i] = f[i - 1] \o ss[i]
           Bad == {n \in 0 .. Len(ss) : ~Upto(n)}
<1>1. ASSUME Bad # {} PROVE FALSE
  <2>1. Bad \in SUBSET Nat
    <3>1. 0 .. Len(ss) \in SUBSET Nat
      OBVIOUS
    <3> HIDE DEF Upto
    <3> QED
      BY <3>1
  <2>2. PICK n \in Bad : \A k \in Bad : n <= k
    <3> HIDE DEF Bad
    <3> QED
      BY <1>1, <2>1, Smallest
  <2>3. n \in 0 .. Len(ss) /\ ~Upto(n)
    BY <2>2
  <2>4. n # 0
    <3>1. << >> \in Seq(S)
      OBVIOUS
    <3>2. [i \in 0 .. 0 |-> << >>] \in [0 .. 0 -> Seq(S)]
      BY <3>1
    <3>3. /\ [i \in 0 .. 0 |-> << >>][0] = << >>
          /\ 1 .. 0 = {}
      OBVIOUS
    <3>4. Upto(0)
      BY <3>2, <3>3
    <3> QED
      BY <2>3, <3>4
  <2>5. n - 1 \in 0 .. Len(ss) /\ Upto(n - 1)
    <3>1. n - 1 \in 0 .. Len(ss) /\ ~(n <= n - 1)
      BY <2>3, <2>4
    <3>2. n - 1 \notin Bad
      BY <2>2, <3>1
    <3> QED
      BY <3>1, <3>2
  <2>6. PICK g \in [0 .. n - 1 -> Seq(S)] :
          g[0] = << >> /\ \A i \in 1 .. n - 1 : g[i] = g[i - 1] \o ss[i]
    BY <2>5
  <2> DEFINE f == [i \in 0 .. n |-> IF i = n THEN g[n - 1] \o ss[n] ELSE g[i]]
  <2>7. ss[n] \in Seq(S) /\ g[n - 1] \in Seq(S) /\ n - 1 \in 0 .. n - 1
    BY <2>3, <2>4
  <2>8. g[n - 1] \o ss[n] \in Seq(S)
    BY <2>7, ConcatProperties
  <2>9. \A i \in 0 .. n : i # n => i \in 0 .. n - 1
    BY <2>3
  <2>10. f \in [0 .. n -> Seq(S)]
    BY <2>6, <2>8, <2>9
  <2>11. f[0] = << >>
    BY <2>3, <2>4, <2>6
  <2>12. ASSUME NEW i \in 1 .. n PROVE f[i] = f[i - 1] \o ss[i]
    <3>1. i - 1 \in 0 .. n /\ i - 1 # n /\ i \in 0 .. n
      BY <2>3
    <3>2. f[i - 1] = g[i - 1]
      BY <3>1
    <3>3. CASE i = n
      BY <3>1, <3>2, <3>3
    <3>4. CASE i # n
      <4>1. i \in 1 .. n - 1 /\ f[i] = g[i]
        BY <2>3, <3>1, <3>4
      <4> QED
        BY <2>6, <3>2, <4>1
    <3> QED
      BY <3>3, <3>4
  <2> HIDE DEF f
  <2>13. Upto(n)
    BY <2>10, <2>11, <2>12
  <2> QED
    BY <2>3, <2>13
<1>2. Len(ss) \in 0 .. Len(ss)
  OBVIOUS
<1>3. Upto(Len(ss))
  BY <1>1, <1>2
<1> HIDE DEF Bad
<1>4. PICK f \in [0 .. Len(ss) -> Seq(S)] :
        f[0] = << >> /\ \A i \in 1 .. Len(ss) : f[i] = f[i - 1] \o ss[i]
  BY <1>3
<1>5. Joins(ss, f)
  BY <1>4 DEF Joins
<1> QED
  BY <1>5

LEMMA FlattenIs ==
  ASSUME NEW S, NEW ss \in Seq(Seq(S)), NEW f \in [0 .. Len(ss) -> Seq(S)], Joins(ss, f)
  PROVE  FlattenSeq(ss) = f[Len(ss)]
<1>1. CASE Len(ss) = 0
  <2>1. ss = << >> /\ f[0] = << >>
    BY <1>1 DEF Joins
  <2>2. FlattenSeq(ss) = ss
    BY <1>1 DEF FlattenSeq
  <2> QED
    BY <1>1, <2>1, <2>2
<1>2. CASE Len(ss) # 0
  <2> DEFINE Is(h) == h = [i \in 1 .. Len(ss) |->
                             IF i = 1 THEN ss[i] ELSE h[i - 1] \o ss[i]]
             h == CHOOSE g : Is(g)
             k == [i \in 1 .. Len(ss) |-> f[i]]
  <2>1. FlattenSeq(ss) = h[Len(ss)]
    BY <1>2, Zenon DEF FlattenSeq
  <2>2. ASSUME NEW i \in 1 .. Len(ss)
        PROVE  k[i] = IF i = 1 THEN ss[i] ELSE k[i - 1] \o ss[i]
    <3>1. f[i] = f[i - 1] \o ss[i]
      BY DEF Joins
    <3>2. CASE i = 1
      <4>1. f[i - 1] = << >> /\ ss[1] \in Seq(S)
        BY <3>2 DEF Joins
      <4> QED
        BY <3>1, <3>2, <4>1, ConcatEmptySeq
    <3>3. CASE i # 1
      <4>1. i - 1 \in 1 .. Len(ss)
        BY <3>3
      <4> QED
        BY <3>1, <3>3, <4>1
    <3> QED
      BY <3>2, <3>3
  <2>3. Is(k)
    BY <2>2
  <2> HIDE DEF k
  <2>4. Is(h)
    BY <2>3
  <2> HIDE DEF h
  <2>5. \A i \in 1 .. Len(ss) : h[i] = IF i = 1 THEN ss[i] ELSE h[i - 1] \o ss[i]
    BY <2>4
  <2> HIDE DEF Is
  <2> DEFINE Bad == {i \in 1 .. Len(ss) : h[i] # f[i]}
  <2>6. ASSUME Bad # {} PROVE FALSE
    <3>1. Bad \in SUBSET Nat
      OBVIOUS
    <3>2. PICK i \in Bad : \A j \in Bad : i <= j
      <4> HIDE DEF Bad
      <4> QED
        BY <2>6, <3>1, Smallest
    <3>3. i \in 1 .. Len(ss) /\ h[i] # f[i]
      BY <3>2
    <3>4. f[i] = f[i - 1] \o ss[i]
      BY <3>3 DEF Joins
    <3>5. i # 1
      <4> SUFFICES ASSUME i = 1 PROVE FALSE
        OBVIOUS
      <4>1. f[i - 1] = << >> /\ ss[1] \in Seq(S)
        BY <3>3 DEF Joins
      <4>2. f[i] = ss[i]
        BY <3>4, <4>1, ConcatEmptySeq
      <4> QED
        BY <2>5, <3>3, <4>2
    <3>6. i - 1 \in 1 .. Len(ss) /\ ~(i <= i - 1)
      BY <3>3, <3>5
    <3>7. i - 1 \notin Bad
      BY <3>2, <3>6
    <3>8. h[i - 1] = f[i - 1]
      BY <3>6, <3>7
    <3> QED
      BY <2>5, <3>3, <3>4, <3>5, <3>8
  <2>7. Len(ss) \in 1 .. Len(ss)
    BY <1>2
  <2>8. h[Len(ss)] = f[Len(ss)]
    BY <2>6, <2>7
  <2> QED
    BY <2>1, <2>8
<1> QED
  BY <1>1, <1>2

LEMMA FlattenType ==
  ASSUME NEW S, NEW ss \in Seq(Seq(S))
  PROVE  FlattenSeq(ss) \in Seq(S)
<1>1. PICK f \in [0 .. Len(ss) -> Seq(S)] : Joins(ss, f)
  BY JoinsExist
<1>2. FlattenSeq(ss) = f[Len(ss)] /\ Len(ss) \in 0 .. Len(ss)
  BY <1>1, FlattenIs
<1> QED
  BY <1>2

LEMMA FlattenAppend ==
  ASSUME NEW S, NEW ss \in Seq(Seq(S)), NEW s \in Seq(S)
  PROVE  FlattenSeq(Append(ss, s)) = FlattenSeq(ss) \o s
<1>1. PICK f \in [0 .. Len(ss) -> Seq(S)] : Joins(ss, f)
  BY JoinsExist
<1>2. PICK n \in Nat : n = Len(ss)
  BY LenProperties
<1>3. PICK tt \in Seq(Seq(S)) :
        /\ tt = Append(ss, s)
        /\ Len(tt) = n + 1
        /\ \A i \in 1 .. n : tt[i] = ss[i]
        /\ tt[n + 1] = s
  BY <1>2, AppendProperties
<1>4. FlattenSeq(ss) = f[n] /\ f[n] \in Seq(S) /\ f[n] \o s \in Seq(S)
  <2>1. FlattenSeq(ss) = f[n]
    BY <1>1, <1>2, FlattenIs
  <2>2. n \in 0 .. Len(ss)
    BY <1>2
  <2>3. f[n] \in Seq(S)
    BY <2>2
  <2> QED
    BY <2>1, <2>3, ConcatProperties
<1> DEFINE g == [i \in 0 .. n + 1 |-> IF i = n + 1 THEN f[n] \o s ELSE f[i]]
<1>5. g \in [0 .. n + 1 -> Seq(S)]
  <2>1. \A i \in 0 .. n + 1 : i # n + 1 => i \in 0 .. Len(ss)
    BY <1>2
  <2> QED
    BY <1>4, <2>1
<1>6. \A i \in 0 .. n : g[i] = f[i]
  BY <1>2
<1>7. g[n + 1] = f[n] \o s
  BY <1>2
<1> HIDE DEF g
<1>8. Joins(tt, g)
  <2>1. g[0] = << >>
    BY <1>1, <1>2, <1>6 DEF Joins
  <2>2. ASSUME NEW i \in 1 .. n + 1 PROVE g[i] = g[i - 1] \o tt[i]
    <3>1. i - 1 \in 0 .. n
      BY <1>2
    <3>2. CASE i = n + 1
      <4>1. i - 1 = n
        BY <1>2, <3>2
      <4> QED
        BY <1>3, <1>6, <1>7, <3>1, <3>2, <4>1
    <3>3. CASE i # n + 1
      <4>1. i \in 1 .. n /\ i \in 0 .. n
        BY <1>2, <3>3
      <4>2. f[i] = f[i - 1] \o ss[i]
        BY <1>1, <1>2, <4>1 DEF Joins
      <4> QED
        BY <1>3, <1>6, <3>1, <4>1, <4>2
    <3> QED
      BY <3>2, <3>3
  <2>3. DOMAIN g = 0 .. Len(tt)
    BY <1>3, <1>5
  <2> QED
    BY <1>3, <2>1, <2>2, <2>3 DEF Joins
<1>9. FlattenSeq(tt) = g[Len(tt)]
  BY <1>3, <1>5, <1>8, FlattenIs
<1> QED
  BY <1>3, <1>4, <1>7, <1>9

LEMMA FlattenHead ==
  ASSUME NEW S, NEW ss \in Seq(Seq(S)), ss # << >>
  PROVE  FlattenSeq(ss) = Head(ss) \o FlattenSeq(Tail(ss))
<1>1. PICK tt \in Seq(Seq(S)), n \in Nat :
        /\ tt = Tail(ss) /\ n = Len(tt) /\ Len(ss) = n + 1
        /\ \A i \in 1 .. n : tt[i] = ss[i + 1]
  <2>1. /\ Tail(ss) \in Seq(Seq(S)) /\ Len(Tail(ss)) = Len(ss) - 1
        /\ \A i \in 1 .. Len(Tail(ss)) : Tail(ss)[i] = ss[i + 1]
    BY HeadTailProperties
  <2>2. Len(Tail(ss)) \in Nat /\ Len(ss) \in Nat
    BY <2>1, LenProperties
  <2>3. Len(ss) = Len(Tail(ss)) + 1
    BY <2>1, <2>2
  <2> DEFINE t == Tail(ss)
             k == Len(t)
  <2>4. /\ t \in Seq(Seq(S)) /\ k \in Nat /\ Len(ss) = k + 1
        /\ \A i \in 1 .. k : t[i] = ss[i + 1]
    BY <2>1, <2>2, <2>3
  <2> HIDE DEF k
  <2> QED
    BY <2>4, Zenon DEF k
<1>2. ASSUME NEW i \in 1 .. n + 1 PROVE ss[i] \in Seq(S)
  <2>1. i \in 1 .. Len(ss)
    BY <1>1
  <2> QED
    BY <2>1, ElementOfSeq
<1>3. Head(ss) = ss[1] /\ ss[1] \in Seq(S)
  BY <1>1, <1>2
<1>4. PICK f \in [0 .. n -> Seq(S)] : Joins(tt, f)
  BY <1>1, JoinsExist
<1>5. FlattenSeq(tt) = f[n]
  BY <1>1, <1>4, FlattenIs
<1> DEFINE g == [i \in 0 .. n + 1 |-> IF i = 0 THEN << >> ELSE ss[1] \o f[i - 1]]
<1>6. \A i \in 1 .. n + 1 : i - 1 \in 0 .. n /\ i \in 0 .. n + 1 /\ i # 0
  BY <1>1
<1>7. g[0] = << >>
  BY <1>1
<1>8. ASSUME NEW i \in 1 .. n + 1
      PROVE  /\ f[i - 1] \in Seq(S)
             /\ g[i] = ss[1] \o f[i - 1] /\ g[i] \in Seq(S)
  <2>1. f[i - 1] \in Seq(S)
    BY <1>6
  <2>2. g[i] = ss[1] \o f[i - 1]
    BY <1>6
  <2>3. PICK x \in Seq(S), y \in Seq(S) : x = ss[1] /\ y = f[i - 1]
    BY <1>3, <2>1
  <2>4. x \o y \in Seq(S)
    BY ConcatProperties
  <2> HIDE DEF g
  <2> QED
    BY <2>1, <2>2, <2>3, <2>4
<1>9. g \in [0 .. n + 1 -> Seq(S)]
  <2>1. \A i \in 0 .. n + 1 : g[i] \in Seq(S)
    <3>1. << >> \in Seq(S)
      OBVIOUS
    <3>2. \A i \in 0 .. n + 1 : i = 0 \/ i \in 1 .. n + 1
      BY <1>1
    <3> HIDE DEF g
    <3> QED
      BY <1>7, <1>8, <3>1, <3>2
  <2> QED
    BY <2>1
<1> HIDE DEF g
<1>10. Joins(ss, g)
  <2>1. ASSUME NEW i \in 1 .. n + 1 PROVE g[i] = g[i - 1] \o ss[i]
    <3>1. CASE i = 1
      <4>1. i - 1 = 0 /\ f[0] = << >>
        BY <1>4, <3>1 DEF Joins
      <4>2. g[i] = ss[1] \o << >> /\ g[i - 1] = << >>
        BY <1>7, <1>8, <4>1
      <4>3. ss[1] \o << >> = ss[1] /\ << >> \o ss[1] = ss[1]
        BY <1>3, ConcatEmptySeq
      <4> QED
        BY <3>1, <4>2, <4>3
    <3>2. CASE i # 1
      <4>1. PICK j \in 1 .. n : i = j + 1
        <5>1. i - 1 \in 1 .. n /\ i = (i - 1) + 1
          BY <1>1, <3>2
        <5> QED
          BY <5>1
      <4>2. i - 1 = j /\ j \in 1 .. n + 1
        BY <1>1, <4>1
      <4>3. f[j] = f[j - 1] \o tt[j] /\ tt[j] = ss[i]
        BY <1>1, <1>4, <4>1 DEF Joins
      <4>4. g[i] = ss[1] \o f[j] /\ g[j] = ss[1] \o f[j - 1] /\ f[j - 1] \in Seq(S)
        BY <1>8, <4>2
      <4>5. ss[i] \in Seq(S)
        BY <1>2
      <4>6. PICK x \in Seq(S), y \in Seq(S), z \in Seq(S) :
              x = ss[1] /\ y = f[j - 1] /\ z = ss[i]
        BY <1>3, <4>4, <4>5
      <4>7. (x \o y) \o z = x \o (y \o z)
        OBVIOUS
      <4>8. g[i] = x \o (y \o z)
        BY <4>2, <4>3, <4>4, <4>6
      <4>9. g[j] = x \o y
        BY <4>4, <4>6
      <4>10. g[i] = g[j] \o z
        BY <4>7, <4>8, <4>9
      <4> QED
        BY <4>2, <4>6, <4>10
    <3> QED
      BY <3>1, <3>2
  <2>2. DOMAIN g = 0 .. Len(ss)
    BY <1>1, <1>9
  <2> QED
    BY <1>1, <1>7, <2>1, <2>2 DEF Joins
<1>11. FlattenSeq(ss) = g[n + 1]
  BY <1>1, <1>9, <1>10, FlattenIs
<1>12. g[n + 1] = ss[1] \o f[n]
  <2>1. PICK k \in 1 .. n + 1 : k = n + 1 /\ k - 1 = n
    BY <1>1
  <2>2. g[k] = ss[1] \o f[k - 1]
    BY <1>8
  <2> QED
    BY <2>1, <2>2
<1> QED
  BY <1>1, <1>3, <1>5, <1>11, <1>12

\* Bytes that bring nothing, up to the last of them, add what that one brings.
LEMMA FlattenConcat ==
  ASSUME NEW S, NEW ss \in Seq(Seq(S)), NEW tt \in Seq(Seq(S)),
         NEW n \in Nat \ {0}, n = Len(tt), \A i \in 1 .. n - 1 : tt[i] = << >>
  PROVE  FlattenSeq(ss \o tt) = FlattenSeq(ss) \o tt[n]
<1>1. PICK f \in [0 .. Len(ss) -> Seq(S)] : Joins(ss, f)
  BY JoinsExist
<1>2. PICK m \in Nat : m = Len(ss)
  BY LenProperties
<1>3. PICK uu \in Seq(Seq(S)) :
        /\ uu = ss \o tt /\ Len(uu) = m + n
        /\ \A i \in 1 .. m + n : uu[i] = IF i <= m THEN ss[i] ELSE tt[i - m]
  <2>1. /\ ss \o tt \in Seq(Seq(S)) /\ Len(ss \o tt) = Len(ss) + Len(tt)
        /\ \A i \in 1 .. Len(ss) + Len(tt) :
             (ss \o tt)[i] = IF i <= Len(ss) THEN ss[i] ELSE tt[i - Len(ss)]
    BY ConcatProperties
  <2>2. /\ ss \o tt \in Seq(Seq(S)) /\ Len(ss \o tt) = m + n
        /\ \A i \in 1 .. m + n :
             (ss \o tt)[i] = IF i <= m THEN ss[i] ELSE tt[i - m]
    BY <1>2, <2>1, Zenon
  <2> QED
    BY <2>2, Zenon
<1>4. PICK x \in Seq(S), y \in Seq(S) : x = f[m] /\ y = tt[n] /\ FlattenSeq(ss) = x
  <2>1. FlattenSeq(ss) = f[m]
    BY <1>1, <1>2, FlattenIs
  <2>2. m \in 0 .. Len(ss) /\ n \in 1 .. Len(tt)
    BY <1>2
  <2>3. f[m] \in Seq(S) /\ tt[n] \in Seq(S)
    BY <2>2, ElementOfSeq
  <2> QED
    BY <2>1, <2>3
<1>5. x \o y \in Seq(S) /\ x \o << >> = x
  BY ConcatProperties, ConcatEmptySeq
<1> DEFINE g == [i \in 0 .. m + n |-> IF i <= m THEN f[i]
                                      ELSE IF i < m + n THEN x ELSE x \o y]
<1>6. g \in [0 .. m + n -> Seq(S)]
  <2>1. \A i \in 0 .. m + n : i <= m => i \in 0 .. Len(ss)
    BY <1>2
  <2> QED
    BY <1>5, <2>1
<1>7. \A i \in 0 .. m : g[i] = f[i]
  BY <1>2
<1>8. \A i \in m .. m + n - 1 : g[i] = x
  BY <1>4
<1>9. g[m + n] = x \o y
  <2>1. m + n \in 0 .. m + n /\ ~(m + n <= m) /\ ~(m + n < m + n)
    OBVIOUS
  <2> QED
    BY <2>1
<1> HIDE DEF g
<1>10. ASSUME NEW i \in 1 .. m + n PROVE g[i] = g[i - 1] \o uu[i]
  <2>1. CASE i <= m
    <3>1. i \in 1 .. m /\ i \in 0 .. m /\ i - 1 \in 0 .. m
      BY <2>1
    <3>2. f[i] = f[i - 1] \o ss[i]
      BY <1>1, <1>2, <3>1 DEF Joins
    <3> QED
      BY <1>3, <1>7, <2>1, <3>1, <3>2
  <2>2. CASE i > m /\ i < m + n
    <3>1. /\ i \in m .. m + n - 1 /\ i - 1 \in m .. m + n - 1
          /\ i - m \in 1 .. n - 1 /\ ~(i <= m)
      BY <2>2
    <3>2. uu[i] = << >>
      BY <1>3, <3>1
    <3> QED
      BY <1>5, <1>8, <3>1, <3>2
  <2>3. CASE i = m + n
    <3>1. i - 1 \in m .. m + n - 1 /\ i - m = n /\ ~(i <= m)
      BY <2>3
    <3>2. uu[i] = y
      BY <1>3, <1>4, <3>1
    <3> QED
      BY <1>8, <1>9, <2>3, <3>1, <3>2
  <2>4. i \in Int /\ m \in Int /\ m + n \in Int /\ i <= m + n
    OBVIOUS
  <2>5. i <= m \/ (i > m /\ i < m + n) \/ i = m + n
    BY ONLY <2>4
  <2> QED
    BY <2>1, <2>2, <2>3, <2>5
<1>11. Joins(uu, g)
  <2>1. g[0] = << >>
    BY <1>1, <1>7 DEF Joins
  <2>2. DOMAIN g = 0 .. Len(uu)
    BY <1>3, <1>6
  <2> QED
    BY <1>3, <1>10, <2>1, <2>2 DEF Joins
<1>12. FlattenSeq(uu) = g[Len(uu)]
  BY <1>3, <1>6, <1>11, FlattenIs
<1> QED
  BY <1>3, <1>4, <1>9, <1>12

-----------------------------------------------------------------------------
(* The messages of a ring *)

Contents(r) == [i \in 1 .. Len(r) |-> r[i].content]

LEMMA ContentsOf ==
  ASSUME NEW r \in Seq(Filled)
  PROVE  /\ Contents(r) \in Seq(Seq(Message) \ {<< >>})
         /\ Contents(r) \in Seq(Seq(Message))
         /\ Len(Contents(r)) = Len(r)
         /\ Messages(r) = FlattenSeq(Contents(r))
         /\ Messages(r) \in Seq(Message)
<1>1. ASSUME NEW i \in 1 .. Len(r) PROVE r[i].content \in Seq(Message) \ {<< >>}
  BY ElementOfSeq, FilledIsFilled
<1>2. Len(r) \in Nat
  BY LenProperties
<1>3. Contents(r) \in Seq(Seq(Message) \ {<< >>}) /\ Len(Contents(r)) = Len(r)
  BY <1>1, <1>2 DEF Contents
<1>4. Contents(r) \in Seq(Seq(Message))
  BY <1>1, <1>2 DEF Contents
<1>5. Messages(r) = FlattenSeq(Contents(r))
  BY DEF Messages, Contents
<1> QED
  BY <1>3, <1>4, <1>5, FlattenType

LEMMA MessagesOfNone == Messages(<< >>) = << >>
<1>1. Len([i \in 1 .. Len(<< >>) |-> << >>[i].content]) = 0
  OBVIOUS
<1>2. [i \in 1 .. Len(<< >>) |-> << >>[i].content] = << >>
  OBVIOUS
<1> QED
  BY <1>1, <1>2 DEF Messages, FlattenSeq

LEMMA MessagesOfMore ==
  ASSUME NEW r \in Seq(Filled), NEW b \in Filled
  PROVE  Messages(Append(r, b)) = Messages(r) \o b.content
<1>1. /\ Append(r, b) \in Seq(Filled) /\ Len(Append(r, b)) = Len(r) + 1
      /\ \A i \in 1 .. Len(r) : Append(r, b)[i] = r[i]
      /\ Append(r, b)[Len(r) + 1] = b
      /\ Len(r) \in Nat
  BY AppendProperties, LenProperties
<1>2. b.content \in Seq(Message)
  BY FilledIsFilled
<1> DEFINE u == Append(Contents(r), b.content)
<1>3. /\ u \in Seq(Seq(Message)) /\ Len(u) = Len(r) + 1
      /\ \A i \in 1 .. Len(r) : u[i] = Contents(r)[i]
      /\ u[Len(r) + 1] = b.content
  BY <1>2, ContentsOf, AppendProperties
<1>4. /\ Contents(Append(r, b)) \in Seq(Seq(Message))
      /\ Len(Contents(Append(r, b))) = Len(r) + 1
  BY <1>1, ContentsOf
<1>5. ASSUME NEW i \in 1 .. Len(r) + 1 PROVE Contents(Append(r, b))[i] = u[i]
  <2>1. Contents(Append(r, b))[i] = Append(r, b)[i].content
    BY <1>1 DEF Contents
  <2>2. CASE i = Len(r) + 1
    BY <1>1, <1>3, <2>1, <2>2
  <2>3. CASE i # Len(r) + 1
    <3>1. i \in 1 .. Len(r)
      BY <1>1, <2>3
    <3>2. Contents(r)[i] = r[i].content
      BY <3>1 DEF Contents
    <3> QED
      BY <1>1, <1>3, <2>1, <3>1, <3>2
  <2> QED
    BY <2>2, <2>3
<1> HIDE DEF u
<1>6. Contents(Append(r, b)) = u
  BY <1>3, <1>4, <1>5, SeqEqual
<1>7. FlattenSeq(u) = FlattenSeq(Contents(r)) \o b.content
  BY <1>2, ContentsOf, FlattenAppend DEF u
<1> QED
  BY <1>1, <1>6, <1>7, ContentsOf

LEMMA MessagesOfHead ==
  ASSUME NEW r \in Seq(Filled), r # << >>
  PROVE  Messages(r) = Head(r).content \o Messages(Tail(r))
<1>1. /\ Head(r) = r[1] /\ Len(r) \in Nat /\ Len(r) >= 1
      /\ Tail(r) \in Seq(Filled) /\ Len(Tail(r)) = Len(r) - 1
      /\ \A i \in 1 .. Len(r) - 1 : Tail(r)[i] = r[i + 1]
  BY HeadTailProperties, LenProperties, EmptySeq
<1>2. /\ Contents(r) \in Seq(Seq(Message)) /\ Len(Contents(r)) = Len(r)
      /\ Contents(r) # << >>
  BY <1>1, ContentsOf
<1> DEFINE u == Tail(Contents(r))
<1>3. /\ u \in Seq(Seq(Message)) /\ Len(u) = Len(r) - 1
      /\ \A i \in 1 .. Len(r) - 1 : u[i] = Contents(r)[i + 1]
  BY <1>1, <1>2, HeadTailProperties
<1>4. /\ Contents(Tail(r)) \in Seq(Seq(Message))
      /\ Len(Contents(Tail(r))) = Len(r) - 1
  BY <1>1, ContentsOf
<1>5. ASSUME NEW i \in 1 .. Len(r) - 1 PROVE Contents(Tail(r))[i] = u[i]
  <2>1. Contents(Tail(r))[i] = Tail(r)[i].content
    BY <1>1 DEF Contents
  <2>2. i + 1 \in 1 .. Len(r)
    BY <1>1
  <2>3. Contents(r)[i + 1] = r[i + 1].content
    BY <2>2 DEF Contents
  <2> QED
    BY <1>1, <1>3, <2>1, <2>3
<1> HIDE DEF u
<1>6. Contents(Tail(r)) = u
  BY <1>3, <1>4, <1>5, SeqEqual
<1>7. Head(Contents(r)) = Head(r).content
  <2>1. 1 \in 1 .. Len(r)
    BY <1>1
  <2>2. Contents(r)[1] = r[1].content
    BY <2>1 DEF Contents
  <2>3. Head(Contents(r)) = Contents(r)[1]
    BY <1>2
  <2> QED
    BY <1>1, <2>2, <2>3
<1>8. FlattenSeq(Contents(r)) = Head(Contents(r)) \o FlattenSeq(u)
  BY <1>2, FlattenHead DEF u
<1> QED
  BY <1>1, <1>6, <1>7, <1>8, ContentsOf

\* There are at least as many messages as there are bundles.
LEMMA ManyMessages ==
  ASSUME NEW r \in Seq(Filled)
  PROVE  Len(Messages(r)) >= Len(r)
<1>1. /\ Contents(r) \in Seq(Seq(Message) \ {<< >>})
      /\ Contents(r) \in Seq(Seq(Message))
      /\ Len(Contents(r)) = Len(r) /\ Len(r) \in Nat
      /\ Messages(r) = FlattenSeq(Contents(r))
  BY ContentsOf, LenProperties
<1>2. PICK f \in [0 .. Len(r) -> Seq(Message)] : Joins(Contents(r), f)
  BY <1>1, JoinsExist
<1>3. Messages(r) = f[Len(r)]
  BY <1>1, <1>2, FlattenIs
<1> DEFINE Bad == {i \in 0 .. Len(r) : ~(Len(f[i]) >= i)}
<1>4. ASSUME Bad # {} PROVE FALSE
  <2>1. Bad \in SUBSET Nat
    OBVIOUS
  <2>2. PICK i \in Bad : \A j \in Bad : i <= j
    <3> HIDE DEF Bad
    <3> QED
      BY <1>4, <2>1, Smallest
  <2>3. i \in 0 .. Len(r) /\ ~(Len(f[i]) >= i)
    BY <2>2
  <2>4. i # 0
    BY <1>2, <2>3 DEF Joins
  <2>5. i \in 1 .. Len(r) /\ i - 1 \in 0 .. Len(r) /\ ~(i <= i - 1)
    BY <1>1, <2>3, <2>4
  <2>6. i - 1 \notin Bad
    BY <2>2, <2>5
  <2>7. Len(f[i - 1]) >= i - 1
    BY <2>5, <2>6
  <2>8. PICK x \in Seq(Message), y \in Seq(Message) \ {<< >>} :
          x = f[i - 1] /\ y = Contents(r)[i]
    <3>1. Contents(r)[i] \in Seq(Message) \ {<< >>}
      BY <1>1, <2>5, ElementOfSeq
    <3>2. f[i - 1] \in Seq(Message)
      BY <2>5
    <3> QED
      BY <3>1, <3>2
  <2>9. f[i] = x \o y
    BY <1>1, <1>2, <2>5, <2>8 DEF Joins
  <2>10. Len(x \o y) = Len(x) + Len(y) /\ Len(y) >= 1 /\ Len(x) \in Nat /\ Len(y) \in Nat
    BY ConcatProperties, LenProperties, EmptySeq
  <2>11. Len(x) >= i - 1
    BY <2>7, <2>8
  <2>12. Len(x) + Len(y) >= i
    BY <2>5, <2>10, <2>11
  <2> QED
    BY <2>3, <2>9, <2>10, <2>12
<1>5. Len(r) \in 0 .. Len(r)
  BY <1>1
<1> QED
  BY <1>3, <1>4, <1>5

-----------------------------------------------------------------------------
(* Bundle.c on the channel *)

\* The messages of a state of Bundle.c that wait.
Waits(s) == Messages(s.ring) \o s.local.content

Among(p) == {p[i] : i \in 1 .. Len(p)}

\* From s to t the messages of q wait, but for the oldest of them, p: they are
\* lost, and only while as many as the ring has bundles go on waiting.
Gives(q, s, t, p) ==
  /\ p \in Seq(Message)
  /\ q = p \o Waits(t)
  /\ t.lost = s.lost \cup Among(p)
  /\ p # << >> => Len(Waits(t)) >= RingCapacity

LEMMA WaitsType ==
  ASSUME NEW s \in Bundles
  PROVE  /\ s.ring \in Seq(Filled) /\ Len(s.ring) <= RingCapacity
         /\ Messages(s.ring) \in Seq(Message) /\ s.local.content \in Seq(Message)
         /\ Waits(s) \in Seq(Message)
<1>1. s.ring \in Seq(Filled) /\ Len(s.ring) <= RingCapacity /\ s.local \in Local
  BY DEF Bundles, Rings
<1>2. s.local.content \in Seq(Message)
  BY <1>1, EmptyIsNone DEF Bundle
<1>3. Messages(s.ring) \in Seq(Message)
  BY <1>1, ContentsOf
<1> QED
  BY <1>1, <1>2, <1>3, ConcatProperties DEF Waits

LEMMA GivesNothing ==
  ASSUME NEW s \in Bundles, NEW t \in Bundles, t.lost = s.lost
  PROVE  Gives(Waits(t), s, t, << >>)
<1>1. Waits(t) = << >> \o Waits(t)
  BY WaitsType, ConcatEmptySeq
<1>2. Among(<< >>) = {} /\ << >> \in Seq(Message)
  BY DEF Among
<1> QED
  BY <1>1, <1>2 DEF Gives

LEMMA sendBundleGives ==
  ASSUME NEW s \in Bundles
  PROVE  \E p : Gives(Waits(s), s, sendBundle(s), p)
<1> DEFINE t == sendBundle(s)
<1>1. t \in Bundles /\ s.local \in Local /\ s.ring \in Rings
  BY sendBundleFits DEF Bundles
<1>2. CASE s.local.size = 0
  <2>1. t = s
    BY <1>2 DEF sendBundle
  <2> HIDE DEF t
  <2>2. Gives(Waits(s), s, s, << >>)
    BY GivesNothing
  <2> QED
    BY <2>1, <2>2 DEF t
<1>3. CASE s.local.size # 0
  <2> DEFINE b == s.local
             r == s.ring
  <2>1. b \in Filled /\ b.size <= BundleMaxSize /\ b.content \in Seq(Message)
    BY <1>1, <1>3, EmptyIsNone, FilledIsFilled
  <2>2. r \in Seq(Filled) /\ Len(r) <= RingCapacity /\ Len(r) \in Nat
    BY WaitsType, LenProperties
  <2>3. /\ t.local.content = << >>
        /\ t.ring = addToBundleBuffer(r, b)
        /\ t.lost = s.lost \cup Dropped(r, b)
    BY <1>3 DEF sendBundle, NoBundle
  <2>4. Waits(t) = Messages(addToBundleBuffer(r, b))
    <3>1. Messages(t.ring) \o << >> = Messages(t.ring)
      BY <1>1, WaitsType, ConcatEmptySeq
    <3> QED
      BY <2>3, <3>1 DEF Waits
  <2> HIDE DEF t
  <2>5. Waits(s) = Messages(r) \o b.content
    BY DEF Waits
  <2>6. Messages(r) \in Seq(Message)
    BY WaitsType
  <2> HIDE DEF b, r
  <2>7. CASE Len(r) = RingCapacity
    <3>1. r # << >>
      BY <2>2, <2>7, Sizes
    <3>2. Head(r) \in Filled /\ Tail(r) \in Seq(Filled) /\ Len(Tail(r)) = Len(r) - 1
      BY <2>2, <3>1, HeadTailProperties
    <3> DEFINE full == Append(Tail(r), b)
    <3>3. full \in Seq(Filled) /\ Len(full) = RingCapacity
      BY <2>1, <2>2, <2>7, <3>2, AppendProperties
    <3>4. addToBundleBuffer(r, b) = full
      BY <2>1, <2>7 DEF addToBundleBuffer, Ring!Push
    <3>5. Len(Waits(t)) >= RingCapacity
      BY <2>4, <3>3, <3>4, ManyMessages
    <3>6. PICK x \in Seq(Message), y \in Seq(Message), z \in Seq(Message) :
            x = Head(r).content /\ y = Messages(Tail(r)) /\ z = b.content
      BY <2>1, <3>2, FilledIsFilled, ContentsOf
    <3>7. Waits(t) = y \o z
      BY <2>1, <2>4, <3>2, <3>4, <3>6, MessagesOfMore
    <3>8. Waits(s) = (x \o y) \o z
      BY <2>2, <2>5, <3>1, <3>6, MessagesOfHead
    <3>9. (x \o y) \o z = x \o (y \o z)
      OBVIOUS
    <3>10. Dropped(r, b) = Among(x)
      <4>1. ~(b.size > BundleMaxSize)
        BY <2>1, FilledIsFilled, Sizes
      <4> QED
        BY <2>7, <3>6, <4>1 DEF Dropped, Ids, Among
    <3>11. Gives(Waits(s), s, t, x)
      BY <2>3, <3>5, <3>7, <3>8, <3>9, <3>10 DEF Gives
    <3> QED
      BY <3>11 DEF t
  <2>8. CASE Len(r) # RingCapacity
    <3>1. addToBundleBuffer(r, b) = Append(r, b)
      BY <2>1, <2>8 DEF addToBundleBuffer, Ring!Push
    <3>2. Waits(t) = Waits(s)
      BY <2>1, <2>2, <2>4, <2>5, <3>1, MessagesOfMore
    <3>3. Dropped(r, b) = {}
      BY <2>1, <2>8, FilledIsFilled, Sizes DEF Dropped
    <3>4. Gives(Waits(t), s, t, << >>)
      BY <1>1, <2>3, <3>3, GivesNothing DEF t
    <3> QED
      BY <3>2, <3>4 DEF t
  <2> QED
    BY <2>7, <2>8
<1> QED
  BY <1>2, <1>3

LEMMA pokeBundleGives ==
  ASSUME NEW s \in Bundles, NEW d \in Ages
  PROVE  \E p : Gives(Waits(s), s, pokeBundle(s, d), p)
<1> DEFINE old == s.local.size # 0 /\ Expired(Later(s.age, d))
<1>1. CASE old
  BY <1>1, sendBundleGives DEF pokeBundle
<1>2. CASE ~old
  <2> DEFINE t == [s EXCEPT !.age = Later(s.age, d)]
  <2>1. pokeBundle(s, d) = t /\ t \in Bundles
    BY <1>2, pokeBundleFits DEF pokeBundle
  <2>2. t.lost = s.lost /\ t.ring = s.ring /\ t.local = s.local
    BY DEF Bundles
  <2> HIDE DEF t
  <2>3. Waits(t) = Waits(s)
    BY <2>2 DEF Waits
  <2>4. Gives(Waits(s), s, t, << >>)
    BY <2>1, <2>2, <2>3, GivesNothing
  <2> QED
    BY <2>1, <2>4
<1> QED
  BY <1>1, <1>2

LEMMA AddMessageGives ==
  ASSUME NEW s \in Bundles, NEW m \in Message, NEW msg_s \in Nat \ {0},
         msg_s <= MaxMsgSize
  PROVE  \E p : Gives(Append(Waits(s), m), s, AddMessage(s, m, msg_s), p)
<1> DEFINE room == IF Fits(s.local, msg_s) THEN s ELSE sendBundle(s)
           t == AddMessage(s, m, msg_s)
<1>1. room \in Bundles /\ t \in Bundles
  BY sendBundleFits, AddMessageFits
<1>2. PICK p : Gives(Waits(s), s, room, p)
  BY sendBundleGives, GivesNothing
<1>3. t.ring = room.ring /\ t.lost = room.lost
      /\ t.local.content = Append(room.local.content, m)
  <2>1. t = [room EXCEPT !.local = WithMessage(room.local, m, msg_s),
                         !.age = IF room.local.size = 0 THEN 0 ELSE room.age]
    BY DEF AddMessage
  <2> HIDE DEF t, room
  <2> QED
    BY <1>1, <2>1 DEF Bundles, WithMessage
<1> HIDE DEF room, t
<1>4. PICK x \in Seq(Message), y \in Seq(Message), w \in Seq(Message) :
        /\ x = Messages(room.ring) /\ y = room.local.content /\ w = Waits(room)
        /\ w = x \o y
  BY <1>1, WaitsType DEF Waits
<1>5. Waits(t) = x \o Append(y, m)
  BY <1>3, <1>4 DEF Waits
<1>6. x \o Append(y, m) = Append(w, m) /\ Append(w, m) \in Seq(Message)
      /\ Len(Append(w, m)) = Len(w) + 1 /\ Len(w) \in Nat
  <2>1. x \o Append(y, m) = Append(x \o y, m)
    BY AppendLast
  <2>2. Append(w, m) \in Seq(Message) /\ Len(Append(w, m)) = Len(w) + 1
    BY AppendProperties
  <2> QED
    BY <1>4, <2>1, <2>2, LenProperties
<1>7. p \in Seq(Message) /\ Waits(s) = p \o w
      /\ (p # << >> => Len(w) >= RingCapacity)
      /\ room.lost = s.lost \cup Among(p)
  BY <1>2, <1>4 DEF Gives
<1>8. Append(p \o w, m) = p \o Append(w, m)
  <2>1. \A x1 \in Seq(Message) : x1 \o Append(w, m) = Append(x1 \o w, m)
    BY AppendLast
  <2> QED
    BY <1>7, <2>1
<1>9. Gives(Append(Waits(s), m), s, t, p)
  <2>1. Append(Waits(s), m) = p \o Waits(t)
    BY <1>5, <1>6, <1>7, <1>8
  <2>2. p # << >> => Len(Waits(t)) >= RingCapacity
    BY <1>5, <1>6, <1>7, Sizes
  <2> QED
    BY <1>3, <1>7, <2>1, <2>2 DEF Gives
<1> QED
  BY <1>9 DEF t

\* What is given up on the way from s to t, and from there to u.
LEMMA GivesTwice ==
  ASSUME NEW s \in Bundles, NEW t \in Bundles, NEW u \in Bundles,
         NEW q, NEW p1, NEW p2,
         Gives(q, s, t, p1), Gives(Waits(t), t, u, p2)
  PROVE  Gives(q, s, u, p1 \o p2)
<1>1. PICK x \in Seq(Message), y \in Seq(Message), z \in Seq(Message) :
        x = p1 /\ y = p2 /\ z = Waits(u)
  BY WaitsType DEF Gives
<1>2. q = x \o (y \o z) /\ Waits(t) = y \o z
  BY <1>1 DEF Gives
<1>3. x \o (y \o z) = (x \o y) \o z /\ x \o y \in Seq(Message)
  OBVIOUS
<1>4. Among(x \o y) = Among(x) \cup Among(y)
  <2>1. /\ Len(x \o y) = Len(x) + Len(y) /\ Len(x) \in Nat /\ Len(y) \in Nat
        /\ \A i \in 1 .. Len(x) + Len(y) :
             (x \o y)[i] = IF i <= Len(x) THEN x[i] ELSE y[i - Len(x)]
    BY ConcatProperties, LenProperties
  <2>2. ASSUME NEW v \in Among(x \o y) PROVE v \in Among(x) \cup Among(y)
    <3>1. PICK i \in 1 .. Len(x) + Len(y) : v = (x \o y)[i]
      BY <2>1, <2>2 DEF Among
    <3>2. CASE i <= Len(x)
      BY <2>1, <3>1, <3>2 DEF Among
    <3>3. CASE ~(i <= Len(x))
      <4>1. i - Len(x) \in 1 .. Len(y)
        BY <2>1, <3>3
      <4> QED
        BY <2>1, <3>1, <3>3, <4>1 DEF Among
    <3> QED
      BY <3>2, <3>3
  <2>3. ASSUME NEW i \in 1 .. Len(x) PROVE x[i] \in Among(x \o y)
    <3>1. i \in 1 .. Len(x) + Len(y) /\ i <= Len(x)
      BY <2>1
    <3>2. x[i] = (x \o y)[i]
      BY <2>1, <3>1
    <3> QED
      BY <2>1, <3>1, <3>2 DEF Among
  <2>4. ASSUME NEW i \in 1 .. Len(y) PROVE y[i] \in Among(x \o y)
    <3>1. PICK j \in 1 .. Len(x) + Len(y) : j = i + Len(x)
      BY <2>1
    <3>2. ~(j <= Len(x)) /\ j - Len(x) = i
      BY <2>1, <3>1
    <3>3. y[i] = (x \o y)[j]
      BY <2>1, <3>2
    <3> QED
      BY <2>1, <3>3 DEF Among
  <2> QED
    BY <2>2, <2>3, <2>4 DEF Among
<1>5. u.lost = s.lost \cup Among(x \o y)
  BY <1>1, <1>4 DEF Gives
<1>6. ASSUME x \o y # << >> PROVE Len(z) >= RingCapacity
  <2>1. CASE y # << >>
    BY <1>1, <2>1 DEF Gives
  <2>2. CASE y = << >>
    <3>1. x # << >> /\ Waits(t) = z
      BY <1>2, <1>6, <2>2, ConcatEmptySeq
    <3> QED
      BY <1>1, <3>1 DEF Gives
  <2> QED
    BY <2>1, <2>2
<1> QED
  BY <1>1, <1>2, <1>3, <1>5, <1>6 DEF Gives

\* What is given up, as the channel says it: the k oldest that wait.
LEMMA GivesTheOldest ==
  ASSUME NEW s \in Bundles, NEW t \in Bundles, NEW q \in Seq(Message), NEW p,
         Gives(q, s, t, p)
  PROVE  /\ Len(p) \in Nat /\ Len(q) = Len(p) + Len(Waits(t))
         /\ Len(Waits(t)) \in Nat
         /\ (Len(p) > 0 => Len(Waits(t)) >= RingCapacity)
         /\ (Len(p) = 0 => p = << >> /\ q = Waits(t) /\ t.lost = s.lost)
         /\ Waits(t) = SubSeq(q, Len(p) + 1, Len(q))
         /\ t.lost = s.lost \cup {q[i] : i \in 1 .. Len(p)}
<1>1. PICK x \in Seq(Message), w \in Seq(Message) : x = p /\ w = Waits(t) /\ q = x \o w
  BY WaitsType DEF Gives
<1>2. /\ Len(q) = Len(x) + Len(w) /\ Len(x) \in Nat /\ Len(w) \in Nat
      /\ \A i \in 1 .. Len(x) : q[i] = x[i]
  BY <1>1, ConcatProperties, LenProperties
<1>3. w = SubSeq(q, Len(x) + 1, Len(q))
  BY <1>1
<1>4. {q[i] : i \in 1 .. Len(x)} = Among(x)
  BY <1>2 DEF Among
<1>5. x # << >> => Len(w) >= RingCapacity
  BY <1>1 DEF Gives
<1>6. Len(x) = 0 => x = << >> /\ q = w
  BY <1>1
<1>7. Among(<< >>) = {}
  BY DEF Among
<1>8. t.lost = s.lost \cup Among(x)
  BY <1>1 DEF Gives
<1>9. Len(x) > 0 => x # << >>
  OBVIOUS
<1> QED
  BY <1>1, <1>2, <1>3, <1>4, <1>5, <1>6, <1>7, <1>8, <1>9

-----------------------------------------------------------------------------
(* The bytes on the channel *)

\* What arrives with each byte: the messages of its bundle if it is the last.
Brings(w) == [i \in 1 .. Len(w) |->
                IF w[i][2] = w[i][1].size THEN w[i][1].content ELSE << >>]

LEMMA BringsOf ==
  ASSUME NEW w \in Seq(WireByte)
  PROVE  Brings(w) \in Seq(Seq(Message)) /\ Len(Brings(w)) = Len(w)
<1>1. ASSUME NEW i \in 1 .. Len(w)
      PROVE  (IF w[i][2] = w[i][1].size THEN w[i][1].content ELSE << >>) \in Seq(Message)
  <2>1. w[i] \in Filled \X (Nat \ {0})
    BY ElementOfSeq DEF WireByte
  <2>2. w[i][1].content \in Seq(Message)
    BY <2>1, FilledIsFilled
  <2> QED
    BY <2>2
<1>2. Len(w) \in Nat
  BY LenProperties
<1> QED
  BY <1>1, <1>2 DEF Brings

LEMMA BringsMore ==
  ASSUME NEW w \in Seq(WireByte), NEW v \in Seq(WireByte)
  PROVE  Brings(w \o v) = Brings(w) \o Brings(v)
<1>1. PICK u \in Seq(WireByte) :
        /\ u = w \o v /\ Len(u) = Len(w) + Len(v)
        /\ \A i \in 1 .. Len(w) + Len(v) :
             u[i] = IF i <= Len(w) THEN w[i] ELSE v[i - Len(w)]
  <2>1. /\ w \o v \in Seq(WireByte) /\ Len(w \o v) = Len(w) + Len(v)
        /\ \A i \in 1 .. Len(w) + Len(v) :
             (w \o v)[i] = IF i <= Len(w) THEN w[i] ELSE v[i - Len(w)]
    BY ConcatProperties
  <2> QED
    BY <2>1, Zenon
<1>2. Len(w) \in Nat /\ Len(v) \in Nat
  BY LenProperties
<1>3. PICK a \in Seq(Seq(Message)), b \in Seq(Seq(Message)) :
        a = Brings(w) /\ b = Brings(v) /\ Len(a) = Len(w) /\ Len(b) = Len(v)
  BY BringsOf
<1>4. PICK c \in Seq(Seq(Message)) :
        /\ c = a \o b /\ Len(c) = Len(w) + Len(v)
        /\ \A i \in 1 .. Len(w) + Len(v) :
             c[i] = IF i <= Len(w) THEN a[i] ELSE b[i - Len(w)]
  <2>1. /\ a \o b \in Seq(Seq(Message)) /\ Len(a \o b) = Len(a) + Len(b)
        /\ \A i \in 1 .. Len(a) + Len(b) :
             (a \o b)[i] = IF i <= Len(a) THEN a[i] ELSE b[i - Len(a)]
    BY ConcatProperties
  <2>2. /\ a \o b \in Seq(Seq(Message)) /\ Len(a \o b) = Len(w) + Len(v)
        /\ \A i \in 1 .. Len(w) + Len(v) :
             (a \o b)[i] = IF i <= Len(w) THEN a[i] ELSE b[i - Len(w)]
    BY <1>3, <2>1, Zenon
  <2> QED
    BY <2>2, Zenon
<1>5. Brings(u) \in Seq(Seq(Message)) /\ Len(Brings(u)) = Len(w) + Len(v)
  BY <1>1, BringsOf
<1>6. ASSUME NEW i \in 1 .. Len(w) + Len(v) PROVE Brings(u)[i] = c[i]
  <2>1. Brings(u)[i] = IF u[i][2] = u[i][1].size THEN u[i][1].content ELSE << >>
    BY <1>1 DEF Brings
  <2>2. CASE i <= Len(w)
    <3>1. i \in 1 .. Len(w)
      BY <1>2, <2>2
    <3>2. Brings(w)[i] = IF w[i][2] = w[i][1].size THEN w[i][1].content ELSE << >>
      BY <3>1 DEF Brings
    <3> QED
      BY <1>1, <1>3, <1>4, <2>1, <2>2, <3>2
  <2>3. CASE ~(i <= Len(w))
    <3>1. PICK j \in 1 .. Len(v) : j = i - Len(w)
      <4>1. i - Len(w) \in 1 .. Len(v)
        BY <1>2, <2>3
      <4> QED
        BY <4>1
    <3>2. Brings(v)[j] = IF v[j][2] = v[j][1].size THEN v[j][1].content ELSE << >>
      BY <3>1 DEF Brings
    <3> QED
      BY <1>1, <1>3, <1>4, <2>1, <2>3, <3>1, <3>2
  <2> QED
    BY <2>2, <2>3
<1>7. Brings(u) = c
  BY <1>4, <1>5, <1>6, SeqEqual
<1> QED
  BY <1>1, <1>3, <1>4, <1>7

\* The bytes that one send() takes bring the bundle, or nothing yet.
LEMMA BytesBring ==
  ASSUME NEW w \in Seq(WireByte), NEW b \in Filled, NEW k \in Nat,
         NEW n \in Nat \ {0}, k + n <= b.size
  PROVE  FlattenSeq(Brings(w \o Bytes(b, k, k + n)))
           = FlattenSeq(Brings(w)) \o (IF k + n = b.size THEN b.content ELSE << >>)
<1>1. PICK v \in Seq(WireByte) :
        /\ v = Bytes(b, k, k + n) /\ Len(v) = n
        /\ \A i \in 1 .. n : v[i] = <<b, k + i>>
  BY BytesOfSend
<1>2. Brings(w \o v) = Brings(w) \o Brings(v)
  BY BringsMore
<1>3. PICK t \in Seq(Seq(Message)) : t = Brings(v) /\ Len(t) = n
  BY <1>1, BringsOf
<1>4. b.size \in Nat
  BY FilledIsFilled
<1>5. ASSUME NEW i \in 1 .. n
      PROVE  t[i] = IF k + i = b.size THEN b.content ELSE << >>
  <2>1. t[i] = IF v[i][2] = v[i][1].size THEN v[i][1].content ELSE << >>
    BY <1>1, <1>3 DEF Brings
  <2> QED
    BY <1>1, <2>1
<1>6. ASSUME NEW i \in 1 .. n - 1 PROVE t[i] = << >>
  <2>1. i \in 1 .. n /\ k + i # b.size
    BY <1>4
  <2> QED
    BY <1>5, <2>1
<1>7. t[n] = IF k + n = b.size THEN b.content ELSE << >>
  BY <1>5
<1>8. Brings(w) \in Seq(Seq(Message))
  BY BringsOf
<1>9. FlattenSeq(Brings(w) \o t) = FlattenSeq(Brings(w)) \o t[n]
  <2>1. n = Len(t) /\ \A i \in 1 .. n - 1 : t[i] = << >>
    BY <1>3, <1>6
  <2>2. PICK a \in Seq(Seq(Message)) : a = Brings(w)
    BY <1>8
  <2>3. FlattenSeq(a \o t) = FlattenSeq(a) \o t[n]
    BY <2>1, FlattenConcat
  <2> QED
    BY <2>2, <2>3
<1> QED
  BY <1>1, <1>2, <1>3, <1>7, <1>9

-----------------------------------------------------------------------------
(* The steps of the pipeline are steps of the channel *)

OnTheWay == IF Unsent THEN sending.content ELSE << >>

LEMMA WaitsNow ==
  ASSUME IInv
  PROVE  /\ State \in Bundles
         /\ Waits(State) = Messages(ring) \o local.content
         /\ State.lost = lost
         /\ Waits(State) \in Seq(Message)
<1>1. State \in Bundles
  BY StateIsBundles DEF IInv
<1> QED
  BY <1>1, WaitsType DEF Waits, State

\* Steps of the loop, the clock and the connection are none of the channel's.
LEMMA ChannelRests ==
  ASSUME UNCHANGED <<local, ring, lost, sending, bundle_sent, wire, next, refused>>
  PROVE  UNCHANGED Channel!vars
BY DEF Channel!vars, Messages, Unsent, Arrived

LEMMA addToBundleAccepts ==
  ASSUME IInv, NEW msg_s \in MsgSizes, NEW d \in Ages, addToBundle(msg_s, d)
  PROVE  Channel!Accept
<1> DEFINE a == AddMessage(State, next, msg_s)
           t == pokeBundle(a, d)
           q == Append(Waits(State), next)
<1>1. next \in Message
  BY Sizes DEF IInv, LoopFits, addToBundle, Message
<1>2. msg_s \in Nat \ {0} /\ msg_s <= MaxMsgSize
  BY SizesAssumption DEF addToBundle
<1>3. State \in Bundles /\ a \in Bundles /\ t \in Bundles
  BY <1>1, <1>2, WaitsNow, AddMessageFits, pokeBundleFits
<1>4. local' = t.local /\ ring' = t.ring /\ lost' = t.lost
  BY DEF addToBundle, Become
<1>5. PICK p1 : Gives(q, State, a, p1)
  BY <1>1, <1>2, <1>3, AddMessageGives
<1> HIDE DEF t
<1>6. PICK p2 : Gives(Waits(a), a, t, p2)
  BY <1>3, pokeBundleGives DEF t
<1>7. q \in Seq(Message) /\ Len(q) = Len(Waits(State)) + 1
      /\ Len(Waits(State)) \in Nat
  BY <1>1, WaitsNow, AppendProperties, LenProperties
<1> HIDE DEF a, q
<1>8. PICK p : Gives(q, State, t, p)
  BY <1>3, <1>5, <1>6, GivesTwice
<1>9. PICK k \in Nat :
        /\ Len(q) = k + Len(Waits(t)) /\ Len(Waits(t)) \in Nat
        /\ (k > 0 => Len(Waits(t)) >= RingCapacity)
        /\ Waits(t) = SubSeq(q, k + 1, Len(q))
        /\ t.lost = State.lost \cup {q[i] : i \in 1 .. k}
  <2>1. /\ Len(p) \in Nat /\ Len(q) = Len(p) + Len(Waits(t))
        /\ Len(Waits(t)) \in Nat
        /\ (Len(p) > 0 => Len(Waits(t)) >= RingCapacity)
        /\ Waits(t) = SubSeq(q, Len(p) + 1, Len(q))
        /\ t.lost = State.lost \cup {q[i] : i \in 1 .. Len(p)}
    BY <1>3, <1>7, <1>8, GivesTheOldest
  <2> QED
    BY <2>1, Zenon
<1>10. k \in 0 .. Len(Waits(State)) /\ (k > 0 => Len(q) - k >= RingCapacity)
  <2>1. RingCapacity \in Nat /\ RingCapacity > 0
    BY Sizes
  <2> QED
    BY <1>7, <1>9, <2>1
<1>11. Channel!GiveUp(Append(Messages(ring) \o local.content, next), k)
  <2>1. q = Append(Messages(ring) \o local.content, next)
    BY WaitsNow DEF q
  <2>2. Waits(t) = (Messages(ring) \o local.content)'
    BY <1>4 DEF Waits, Messages
  <2>3. lost' = lost \cup {q[i] : i \in 1 .. k}
    BY <1>4, <1>9, WaitsNow
  <2> QED
    BY <1>9, <1>10, <2>1, <2>2, <2>3 DEF Channel!GiveUp
<1>12. k \in 0 .. Len(Messages(ring) \o local.content)
  BY <1>10, WaitsNow
<1>13. next' = next + 1 /\ UNCHANGED <<sending, bundle_sent, wire, refused>>
  BY DEF addToBundle, unchangedSender
<1>14. UNCHANGED <<OnTheWay, Arrived, refused>>
  BY <1>13 DEF OnTheWay, Unsent, Arrived
<1> QED
  BY <1>11, <1>12, <1>13, <1>14 DEF Channel!Accept, OnTheWay

LEMMA refuseMessageRefuses ==
  ASSUME IInv, NEW msg_s \in MsgSizes, refuseMessage(msg_s)
  PROVE  Channel!Refuse
<1>1. /\ next' = next + 1 /\ refused' = refused \cup {next}
      /\ UNCHANGED <<local, ring, lost, sending, bundle_sent, wire>>
  BY DEF refuseMessage, unchangedSender
<1> QED
  BY <1>1 DEF Channel!Refuse, Messages, Unsent, Arrived

\* An old bundle goes to the ring, which may give up its oldest, or not.
LEMMA pokeLoses ==
  ASSUME IInv, poke
  PROVE  Channel!Lose \/ UNCHANGED Channel!vars
<1> DEFINE t == pokeBundle(State, 0)
           q == Waits(State)
<1>1. 0 \in Ages
  BY Sizes DEF Ages
<1>2. State \in Bundles /\ t \in Bundles /\ q \in Seq(Message)
  BY <1>1, WaitsNow, pokeBundleFits
<1>3. local' = t.local /\ ring' = t.ring /\ lost' = t.lost
  BY DEF poke, Become
<1>4. PICK p : Gives(q, State, t, p)
  BY <1>1, <1>2, pokeBundleGives
<1>5. q = Messages(ring) \o local.content
  BY WaitsNow
<1> HIDE DEF t, q
<1>6. PICK k \in Nat :
        /\ Len(q) = k + Len(Waits(t)) /\ Len(Waits(t)) \in Nat
        /\ (k > 0 => Len(Waits(t)) >= RingCapacity)
        /\ (k = 0 => q = Waits(t) /\ t.lost = State.lost)
        /\ Waits(t) = SubSeq(q, k + 1, Len(q))
        /\ t.lost = State.lost \cup {q[i] : i \in 1 .. k}
  <2>1. /\ Len(p) \in Nat /\ Len(q) = Len(p) + Len(Waits(t))
        /\ Len(Waits(t)) \in Nat
        /\ (Len(p) > 0 => Len(Waits(t)) >= RingCapacity)
        /\ Waits(t) = SubSeq(q, Len(p) + 1, Len(q))
        /\ t.lost = State.lost \cup {q[i] : i \in 1 .. Len(p)}
    BY <1>2, <1>4, GivesTheOldest
  <2>2. Len(p) = 0 => q = Waits(t) /\ t.lost = State.lost
    BY <1>2, <1>4, GivesTheOldest
  <2> QED
    BY <2>1, <2>2, Zenon
<1>7. Waits(t) = (Messages(ring) \o local.content)'
  BY <1>3 DEF Waits, Messages
<1>8. UNCHANGED <<next, sending, bundle_sent, wire, refused>>
  BY DEF poke, unchangedSender
<1>9. UNCHANGED <<next, OnTheWay, Arrived, refused>>
  BY <1>8 DEF OnTheWay, Unsent, Arrived
<1>10. CASE k = 0
  <2>1. (Messages(ring) \o local.content)' = Messages(ring) \o local.content
    BY <1>5, <1>6, <1>7, <1>10
  <2>2. lost' = lost
    BY <1>3, <1>6, <1>10, WaitsNow
  <2> QED
    BY <1>9, <2>1, <2>2 DEF Channel!vars, OnTheWay
<1>11. CASE k # 0
  <2>1. k \in 1 .. Len(q) /\ Len(q) - k >= RingCapacity
    BY <1>6, <1>11
  <2>2. lost' = lost \cup {q[i] : i \in 1 .. k}
    BY <1>3, <1>6, WaitsNow
  <2>3. Channel!GiveUp(Messages(ring) \o local.content, k)
    BY <1>5, <1>6, <1>7, <2>1, <2>2 DEF Channel!GiveUp
  <2> QED
    BY <1>5, <1>9, <2>1, <2>3 DEF Channel!Lose, OnTheWay
<1> QED
  BY <1>10, <1>11

\* The oldest bundle leaves the ring: its messages are on their way.
LEMMA getTopTakes ==
  ASSUME IInv, getTopOfBundleBuffer
  PROVE  Channel!Take
<1>1. /\ ring \in Seq(Filled) /\ ring # << >> /\ local.content \in Seq(Message)
  BY WaitsNow, WaitsType DEF getTopOfBundleBuffer, State
<1>2. Head(ring) \in Filled /\ Tail(ring) \in Seq(Filled)
  BY <1>1, HeadTailProperties
<1>3. PICK x \in Seq(Message), y \in Seq(Message), z \in Seq(Message) :
        /\ x = Head(ring).content /\ x # << >>
        /\ y = Messages(Tail(ring)) /\ z = local.content
  BY <1>1, <1>2, FilledIsFilled, ContentsOf
<1>4. PICK q \in Seq(Message), w \in Seq(Message) :
        q = (x \o y) \o z /\ w = y \o z /\ q = x \o w
  <2>1. (x \o y) \o z = x \o (y \o z)
    OBVIOUS
  <2>2. (x \o y) \o z \in Seq(Message) /\ y \o z \in Seq(Message)
    OBVIOUS
  <2> QED
    BY <2>1, <2>2
<1>5. q = Messages(ring) \o local.content
  BY <1>1, <1>3, <1>4, MessagesOfHead
<1>6. /\ sending' = Head(ring) /\ ring' = Tail(ring) /\ bundle_sent' = 0
      /\ ~Unsent
      /\ UNCHANGED <<local, wire, next, refused, lost>>
  BY DEF getTopOfBundleBuffer
<1>7. (Messages(ring) \o local.content)' = w
  BY <1>3, <1>4, <1>6 DEF Messages
<1>8. OnTheWay' = x
  <2>1. Head(ring).size \in Nat /\ Head(ring).size > 0
    BY <1>2, FilledIsFilled, Sizes
  <2> QED
    BY <1>3, <1>6, <2>1 DEF OnTheWay, Unsent
<1>9. OnTheWay = << >>
  BY <1>6 DEF OnTheWay
<1>10. /\ Len(x) \in 1 .. Len(q)
       /\ x = SubSeq(q, 1, Len(x)) /\ w = SubSeq(q, Len(x) + 1, Len(q))
  <2>1. Len(q) = Len(x) + Len(w) /\ Len(x) \in Nat \ {0} /\ Len(w) \in Nat
    <3>1. Len(q) = Len(x) + Len(w)
      BY <1>4, ConcatProperties
    <3>2. Len(x) \in Nat \ {0} /\ Len(w) \in Nat
      BY <1>3, LenProperties, EmptySeq
    <3> QED
      BY <3>1, <3>2
  <2>2. x = SubSeq(q, 1, Len(x)) /\ w = SubSeq(q, Len(x) + 1, Len(q))
    BY <1>4
  <2> QED
    BY <2>1, <2>2
<1>11. Arrived' = Arrived
  BY <1>6 DEF Arrived
<1> QED
  BY <1>5, <1>6, <1>7, <1>8, <1>9, <1>10, <1>11 DEF Channel!Take, OnTheWay

\* The last byte of a bundle delivers it; until then nothing happens.
LEMMA sendDelivers ==
  ASSUME IInv, NEW n \in 1 .. sending.size - bundle_sent, send(n)
  PROVE  Channel!Deliver \/ UNCHANGED Channel!vars
<1>1. sending \in Local /\ bundle_sent \in 0 .. sending.size /\ sending.size \in Nat
      /\ wire \in Seq(WireByte)
  BY EmptyIsNone, Sizes DEF IInv, SenderFits
<1>2. /\ Unsent /\ bundle_sent' = bundle_sent + n /\ sending' = sending
      /\ wire' = wire \o Bytes(sending, bundle_sent, bundle_sent + n)
      /\ UNCHANGED <<local, ring, lost, next, refused>>
  BY DEF send, unchangedBundle
<1>3. /\ bundle_sent \in Nat /\ n \in Nat \ {0} /\ bundle_sent + n <= sending.size
      /\ sending \in Filled /\ sending.content \in Seq(Message)
  BY <1>1, <1>2, EmptyIsNone, FilledIsFilled DEF Unsent
<1>4. Arrived = FlattenSeq(Brings(wire)) /\ Arrived' = FlattenSeq(Brings(wire'))
  BY DEF Arrived, Brings
<1>5. Arrived' = Arrived \o (IF bundle_sent + n = sending.size THEN sending.content
                                                              ELSE << >>)
  BY <1>1, <1>2, <1>3, <1>4, BytesBring
<1>6. UNCHANGED <<Messages(ring) \o local.content, next, refused, lost>>
  BY <1>2 DEF Messages
<1>7. OnTheWay = sending.content
  BY <1>2 DEF OnTheWay
<1>8. CASE bundle_sent + n = sending.size
  <2>1. OnTheWay' = << >>
    BY <1>1, <1>2, <1>8 DEF OnTheWay, Unsent
  <2>2. Arrived' = Arrived \o sending.content
    BY <1>5, <1>8
  <2> QED
    BY <1>6, <1>7, <2>1, <2>2 DEF Channel!Deliver, OnTheWay
<1>9. CASE bundle_sent + n # sending.size
  <2>1. OnTheWay' = OnTheWay
    <3>1. bundle_sent + n < sending.size
      BY <1>1, <1>3, <1>9
    <3>2. Unsent'
      BY <1>2, <3>1 DEF Unsent
    <3> QED
      BY <1>2, <1>7, <3>2 DEF OnTheWay
  <2>2. Arrived' = Arrived
    <3>1. Brings(wire) \in Seq(Seq(Message))
      BY <1>1, BringsOf
    <3>2. Arrived \in Seq(Message)
      BY <1>4, <3>1, FlattenType
    <3> QED
      BY <1>5, <1>9, <3>2, ConcatEmptySeq
  <2> QED
    BY <1>6, <2>1, <2>2 DEF Channel!vars, OnTheWay
<1> QED
  BY <1>8, <1>9

LEMMA ChannelBegins == Init => Channel!Init
<1> SUFFICES ASSUME Init PROVE Channel!Init
  OBVIOUS
<1>1. Messages(ring) \o local.content = << >>
  <2>1. << >> \o << >> = << >>
    OBVIOUS
  <2> QED
    BY <2>1, MessagesOfNone DEF Init, NoBundle
<1>2. Arrived = << >>
  <2>1. [i \in 1 .. Len(<< >>) |-> IF << >>[i][2] = << >>[i][1].size
                                     THEN << >>[i][1].content ELSE << >>] = << >>
    OBVIOUS
  <2> QED
    BY <2>1 DEF Init, Arrived, FlattenSeq
<1>3. ~Unsent
  BY DEF Init, Unsent, NoBundle
<1> QED
  BY <1>1, <1>2, <1>3 DEF Channel!Init, Init

LEMMA ChannelSteps == IInv /\ [Next]_vars => [Channel!Next]_(Channel!vars)
<1> SUFFICES ASSUME IInv, [Next]_vars PROVE Channel!Next \/ UNCHANGED Channel!vars
  OBVIOUS
<1> USE DEF unchangedBundle, unchangedSender
<1>1. CASE selectFDSet
  BY <1>1, ChannelRests DEF selectFDSet
<1>2. CASE readsDone
  BY <1>2, ChannelRests DEF readsDone
<1>3. CASE poke
  BY <1>3, pokeLoses DEF Channel!Next
<1>4. ASSUME NEW msg_s \in MsgSizes, refuseMessage(msg_s) PROVE Channel!Next
  BY <1>4, refuseMessageRefuses DEF Channel!Next
<1>5. ASSUME NEW msg_s \in MsgSizes, addToNoBundle(msg_s)
      PROVE  UNCHANGED Channel!vars
  BY <1>5, ChannelRests DEF addToNoBundle
<1>6. ASSUME NEW msg_s \in MsgSizes, NEW d \in Ages, addToBundle(msg_s, d)
      PROVE  Channel!Next
  BY <1>6, addToBundleAccepts DEF Channel!Next
<1>7. CASE getTopOfBundleBuffer
  BY <1>7, getTopTakes DEF Channel!Next
<1>8. ASSUME NEW n \in 1 .. sending.size - bundle_sent, send(n)
      PROVE  Channel!Next \/ UNCHANGED Channel!vars
  BY <1>8, sendDelivers DEF Channel!Next
<1>9. CASE sendError
  BY <1>9, ChannelRests DEF sendError
<1>10. CASE sendKills
  BY <1>10, ChannelRests DEF sendKills
<1>11. CASE allSent
  BY <1>11, ChannelRests DEF allSent
<1>12. CASE Tick
  BY <1>12, ChannelRests DEF Tick
<1>13. CASE ClockSetBack
  BY <1>13, ChannelRests DEF ClockSetBack
<1>14. CASE Drain
  BY <1>14, ChannelRests DEF Drain
<1>15. CASE Reset
  BY <1>15, ChannelRests DEF Reset
<1>16. CASE UNCHANGED vars
  BY <1>16, ChannelRests DEF vars
<1> QED
  BY <1>1, <1>2, <1>3, <1>4, <1>5, <1>6, <1>7, <1>8, <1>9, <1>10, <1>11,
     <1>12, <1>13, <1>14, <1>15, <1>16 DEF Next

\* Bundles, ring and socket, as Bundle.c, BundleBuffer.c and Sockets.c drive
\* them, are one channel that delivers messages in order and in groups and gives
\* up only the oldest that wait, and only while as many wait as the ring has
\* bundles: every step is a step of MessageChannel or none of it.
THEOREM PipelineIsChannel == Spec => ImplementsChannel
<1>1. Spec => []IInv
  BY AlwaysFits
<1>2. Spec => Init /\ [][Next]_vars
  BY DEF Spec
<1> QED
  BY <1>1, <1>2, ChannelBegins, ChannelSteps, PTL DEF ImplementsChannel, Channel!Spec

====
