--------------------------- MODULE BundlePipeline ---------------------------
(***************************************************************************)
(* The way of an OSC message to the wire: addToBundle() collects messages   *)
(* in local_bundle (Bundle.c), a full or old bundle goes to the bundle      *)
(* buffer (BundleBuffer.c, used through its specification BoundedFifo), and *)
(* sendAllBufferedBundles() (Sockets.c) writes bundles to a blocking TCP    *)
(* socket that takes as many bytes as it likes, stalls, fails or dies.      *)
(* The callers are the turns of the event loop of oscLiveMain.c: read       *)
(* callbacks, then the write callback if select() found the socket          *)
(* writable, then pokeBundle().                                             *)
(*                                                                          *)
(* Messages are numbered in the order addToBundle() gets them.  Sizes are   *)
(* in any unit; HeaderLen stands for the 20 bytes of length, "#bundle" and  *)
(* timestamp.  One unit of time per Tick.                                   *)
(***************************************************************************)
EXTENDS Integers, FiniteSets, SequencesExt

CONSTANTS MsgSizes,       \* the sizes addToBundle() is called with
          BundleMaxSize,  \* BUNDLE_MAX_SIZE = MAX_BUNDLE_SIZE = MAX_ELEM_SIZE
          HeaderLen,      \* BSIZELEN + BHEADERLEN + BTIMESTAMPLEN
          BundleTTL,      \* BUNDLE_TTL
          ULongRange,     \* 2^64: how many values an unsigned long has
          RingCapacity,   \* BUFFER_SIZE - 1
          MaxMsg          \* bound: how many messages the callers produce

ASSUME SizesAssumption ==
  /\ HeaderLen \in Nat \ {0}
  /\ BundleMaxSize \in Nat /\ BundleMaxSize > HeaderLen
  /\ MsgSizes \subseteq Nat \ {0}
ASSUME TimeAssumption ==
  /\ BundleTTL \in Nat
  /\ ULongRange \in Nat /\ ULongRange > BundleTTL + 2
ASSUME BoundAssumption == RingCapacity \in Nat \ {0} /\ MaxMsg \in Nat

VARIABLES
  started,      \* local_bundle.content # NULL
  local,        \* local_bundle: its messages and its length, 0 for empty
  age,          \* the time since local_bundle.birth, seen by gettimeofday()
  ring,         \* bundle_buffer, oldest bundle first
  sending,      \* the bundle in bundle_to_send
  bundle_sent,  \* how much of it send() has taken
  phase,        \* where the event loop is
  writable,     \* select() found the socket writable in this turn
  socket,       \* the connection (external)
  wire,         \* the bytes the socket took: <<bundle, index of the byte>>
  next,         \* the number of the next message
  refused,      \* history: messages too big for any bundle
  lost          \* history: messages of bundles the full ring gave up

vars == <<started, local, age, ring, sending, bundle_sent, phase, writable,
          socket, wire, next, refused, lost>>

Message == 1 .. MaxMsg
Ages == -1 .. BundleTTL + 1
MaxMsgSize == BundleMaxSize - HeaderLen

NoBundle == [content |-> << >>, size |-> 0]

Ids(b) == {b.content[i] : i \in 1 .. Len(b.content)}

Ring == INSTANCE BoundedFifo
          WITH Content <- Seq(Message), Sizes <- 0 .. BundleMaxSize,
               MaxElemSize <- BundleMaxSize, Capacity <- RingCapacity,
               NULL <- << >>, queue <- ring, created <- TRUE, reply <- NoBundle

-----------------------------------------------------------------------------
(* Bundle.c, as functions of local_bundle, the ring and what it lost *)

State == [local |-> local, age |-> age, ring |-> ring, lost |-> lost]

Become(s) ==
  local' = s.local /\ age' = s.age /\ ring' = s.ring /\ lost' = s.lost

\* diff is an unsigned long: a clock that was set back makes it huge.
Expired(a) == a % ULongRange > BundleTTL

Later(a, d) == IF a + d > BundleTTL + 1 THEN BundleTTL + 1
               ELSE IF a + d < -1 THEN -1 ELSE a + d

\* Faults: a ring that grows, that is a stack, or that refuses when full.
AddWithoutDrop(r, b) == Append(r, b)

AddInFront(r, b) ==
  <<b>> \o (IF Len(r) = RingCapacity THEN SubSeq(r, 1, Len(r) - 1) ELSE r)

RefuseWhenFull(r, b) == IF Len(r) = RingCapacity THEN r ELSE Append(r, b)

addToBundleBuffer(r, b) ==
  IF b.size <= BundleMaxSize THEN Ring!Push(r, b) ELSE r

\* What that costs: the oldest bundle of a full ring, or a bundle too big.
Dropped(r, b) == IF b.size > BundleMaxSize THEN Ids(b)
                 ELSE IF Len(r) = RingCapacity THEN Ids(Head(r)) ELSE {}

\* Fault: the new bundle is given up where the oldest should be.
DropNewest(s) ==
  IF s.local.size = 0
    THEN s
    ELSE LET full == Len(s.ring) = RingCapacity
         IN  [local |-> NoBundle,
              age   |-> 0,
              ring  |-> IF full THEN s.ring
                                ELSE addToBundleBuffer(s.ring, s.local),
              lost  |-> IF full THEN s.lost \cup Ids(s.local) ELSE s.lost]

sendBundle(s) ==
  IF s.local.size = 0
    THEN s
    ELSE [local |-> NoBundle,
          age   |-> 0,
          ring  |-> addToBundleBuffer(s.ring, s.local),
          lost  |-> s.lost \cup Dropped(s.ring, s.local)]

\* Fault: looking at the bundle makes it young again.
RefreshingPoke(s, d) ==
  IF s.local.size # 0 /\ Expired(Later(s.age, d))
    THEN sendBundle(s)
    ELSE [s EXCEPT !.age = 0]

\* d is the time that passed since the clock was last read.
pokeBundle(s, d) ==
  LET a == Later(s.age, d)
  IN  IF s.local.size # 0 /\ Expired(a)
        THEN sendBundle(s)
        ELSE [s EXCEPT !.age = a]

\* Fault: one more than there is room for.
FitsOneMore(b, msg_s) == msg_s <= BundleMaxSize - b.size + 1

Fits(b, msg_s) == msg_s <= BundleMaxSize - b.size

\* The header when the bundle is empty, then the message.
WithMessage(b, m, msg_s) ==
  [content |-> Append(b.content, m),
   size    |-> (IF b.size = 0 THEN HeaderLen ELSE b.size) + msg_s]

AddMessage(s, m, msg_s) ==
  LET room == IF Fits(s.local, msg_s) THEN s ELSE sendBundle(s)
  IN  [room EXCEPT !.local = WithMessage(room.local, m, msg_s),
                   !.age = IF room.local.size = 0 THEN 0 ELSE room.age]

-----------------------------------------------------------------------------
(* The program *)

Init ==
  /\ started = FALSE
  /\ local = NoBundle /\ age = 0
  /\ ring = << >>
  /\ sending = NoBundle /\ bundle_sent = 0
  /\ phase = "select" /\ writable = FALSE
  /\ socket = "open" /\ wire = << >>
  /\ next = 1 /\ refused = {} /\ lost = {}

unchangedBundle == UNCHANGED <<started, local, age, ring, lost>>
unchangedSender == UNCHANGED <<sending, bundle_sent, wire>>

\* addToBundle() and pokeBundle() begin with it until it has had its memory.
startBundle == started' \in {started, TRUE}

\* A turn with something ready.  A timeout, or an error of select(), goes
\* around without the callbacks and without pokeBundle(): nothing changes.
selectFDSet ==
  /\ phase = "select"
  /\ phase' = "reads"
  /\ writable' = (socket # "stalled")
  /\ unchangedBundle /\ unchangedSender
  /\ UNCHANGED <<socket, next, refused>>

\* A read callback produces a message; d passes until its pokeBundle().
addToBundle(msg_s, d) ==
  /\ phase = "reads"
  /\ next <= MaxMsg
  /\ msg_s <= MaxMsgSize
  /\ next' = next + 1
  /\ started' = TRUE
  /\ Become(pokeBundle(AddMessage(State, next, msg_s), d))
  /\ unchangedSender
  /\ UNCHANGED <<phase, writable, socket, refused>>

\* addToBundle() ignores that startBundle() failed and copies the header of the
\* bundle to where there is no memory.
addToNoBundle(msg_s) ==
  /\ phase = "reads"
  /\ ~started
  /\ next <= MaxMsg
  /\ msg_s <= MaxMsgSize
  /\ phase' = "killed"
  /\ unchangedBundle /\ unchangedSender
  /\ UNCHANGED <<writable, socket, next, refused>>

refuseMessage(msg_s) ==
  /\ phase = "reads"
  /\ next <= MaxMsg
  /\ msg_s > MaxMsgSize
  /\ next' = next + 1
  /\ refused' = refused \cup {next}
  /\ startBundle
  /\ unchangedSender
  /\ UNCHANGED <<local, age, ring, lost, phase, writable, socket>>

readsDone ==
  /\ phase = "reads"
  /\ phase' = IF writable THEN "sending" ELSE "poke"
  /\ unchangedBundle /\ unchangedSender
  /\ UNCHANGED <<writable, socket, next, refused>>

\* sendAllBufferedBundles(), one turn of its loop after the other.
Unsent == bundle_sent < sending.size

\* Fault: bundle_sent is left as the last bundle had it.
GetTopKeepsSent ==
  /\ phase = "sending"
  /\ ~Unsent
  /\ ring # << >>
  /\ sending' = Head(ring)
  /\ ring' = Tail(ring)
  /\ UNCHANGED <<started, local, age, bundle_sent, phase, writable, socket,
                 wire, next, refused, lost>>

getTopOfBundleBuffer ==
  /\ phase = "sending"
  /\ ~Unsent
  /\ ring # << >>
  /\ sending' = Head(ring)
  /\ ring' = Tail(ring)
  /\ bundle_sent' = 0
  /\ UNCHANGED <<started, local, age, phase, writable, socket, wire, next,
                 refused, lost>>

Bytes(b, from, to) == [i \in 1 .. to - from |-> <<b, from + i>>]

\* send() takes n bytes; they may fill the socket's buffer.
send(n) ==
  /\ phase = "sending"
  /\ Unsent
  /\ socket = "open"
  /\ wire' = wire \o Bytes(sending, bundle_sent, bundle_sent + n)
  /\ bundle_sent' = bundle_sent + n
  /\ socket' \in {"open", "stalled"}
  /\ unchangedBundle
  /\ UNCHANGED <<sending, phase, writable, next, refused>>

\* Fault: a failed send() starts the bundle again.
SendErrorRestarts ==
  /\ phase = "sending"
  /\ Unsent
  /\ socket \in {"open", "reset"}
  /\ phase' = "poke"
  /\ socket' = IF socket = "reset" THEN "broken" ELSE socket
  /\ bundle_sent' = 0
  /\ unchangedBundle
  /\ UNCHANGED <<sending, wire, writable, next, refused>>

\* send() fails and the callback returns.  The first failure after the peer
\* reset the connection reports it; the next raises SIGPIPE.
sendError ==
  /\ phase = "sending"
  /\ Unsent
  /\ socket \in {"open", "reset"}
  /\ phase' = "poke"
  /\ socket' = IF socket = "reset" THEN "broken" ELSE socket
  /\ unchangedBundle /\ unchangedSender
  /\ UNCHANGED <<writable, next, refused>>

sendKills ==
  /\ phase = "sending"
  /\ Unsent
  /\ socket = "broken"
  /\ phase' = "killed"
  /\ unchangedBundle /\ unchangedSender
  /\ UNCHANGED <<writable, socket, next, refused>>

allSent ==
  /\ phase = "sending"
  /\ ~Unsent
  /\ ring = << >>
  /\ phase' = "poke"
  /\ unchangedBundle /\ unchangedSender
  /\ UNCHANGED <<writable, socket, next, refused>>

poke ==
  /\ phase = "poke"
  /\ phase' = "select"
  /\ startBundle
  /\ Become(pokeBundle(State, 0))
  /\ unchangedSender
  /\ UNCHANGED <<writable, socket, next, refused>>

-----------------------------------------------------------------------------
(* Clock and connection *)

\* The age of an empty bundle means nothing: the first message sets birth.
Tick ==
  /\ local.size # 0
  /\ age <= BundleTTL
  /\ age' = age + 1
  /\ unchangedSender
  /\ UNCHANGED <<started, local, ring, lost, phase, writable, socket, next,
                 refused>>

\* The wall clock is set back past the birth of the bundle.
ClockSetBack ==
  /\ local.size # 0
  /\ age # -1
  /\ age' = -1
  /\ unchangedSender
  /\ UNCHANGED <<started, local, ring, lost, phase, writable, socket, next,
                 refused>>

Drain ==
  /\ socket = "stalled"
  /\ socket' = "open"
  /\ unchangedBundle /\ unchangedSender
  /\ UNCHANGED <<phase, writable, next, refused>>

Reset ==
  /\ socket \in {"open", "stalled"}
  /\ socket' = "reset"
  /\ unchangedBundle /\ unchangedSender
  /\ UNCHANGED <<phase, writable, next, refused>>

Next ==
  \/ selectFDSet \/ readsDone \/ poke
  \/ \E msg_s \in MsgSizes : refuseMessage(msg_s) \/ addToNoBundle(msg_s)
  \/ \E msg_s \in MsgSizes, d \in Ages : addToBundle(msg_s, d)
  \/ getTopOfBundleBuffer
  \/ \E n \in 1 .. sending.size - bundle_sent : send(n)
  \/ sendError \/ sendKills \/ allSent
  \/ Tick \/ ClockSetBack \/ Drain \/ Reset

Spec == Init /\ [][Next]_vars

\* The program runs, time passes and is not set back for ever, a stalled peer
\* eventually reads on, and a send() that is retried for ever is not refused
\* for ever.
FairSpec ==
  /\ Spec
  /\ WF_vars(selectFDSet /\ socket # "stalled")
  /\ WF_vars(readsDone) /\ WF_vars(poke)
  /\ WF_vars(getTopOfBundleBuffer) /\ WF_vars(allSent)
  /\ SF_vars(\E n \in 1 .. sending.size - bundle_sent : send(n))
  /\ WF_vars(Tick) /\ <>[][~ClockSetBack]_vars
  /\ WF_vars(Drain)

-----------------------------------------------------------------------------
(* Properties *)

Bundle == [content : Seq(Message), size : Nat]

\* Every variable has its type.
TypeOK ==
  /\ started \in BOOLEAN
  /\ local \in Bundle /\ sending \in Bundle
  /\ age \in Ages
  /\ ring \in Seq(Bundle) /\ Len(ring) <= RingCapacity
  /\ bundle_sent \in Nat
  /\ phase \in {"select", "reads", "sending", "poke", "killed"}
  /\ writable \in BOOLEAN
  /\ socket \in {"open", "stalled", "reset", "broken"}
  /\ \A i \in 1 .. Len(wire) : /\ wire[i][1] \in Bundle
                               /\ wire[i][2] \in Nat \ {0}
  /\ next \in 1 .. MaxMsg + 1
  /\ refused \subseteq Message /\ lost \subseteq Message

\* What the server reads is one whole bundle after the other, up to the byte
\* where bundle_sent says the current one stands: no short write, failed
\* send() or stall makes the stream skip, repeat or interleave a byte.
WireIsFramed ==
  /\ \A i \in 1 .. Len(wire) :
       LET b == wire[i][1]
           k == wire[i][2]
       IN  \/ k = 1 /\ (i = 1 \/ wire[i-1][2] = wire[i-1][1].size)
           \/ k > 1 /\ i > 1 /\ wire[i-1] = <<b, k - 1>>
  /\ IF bundle_sent = 0
       THEN wire = << >> \/ wire[Len(wire)][2] = wire[Len(wire)][1].size
       ELSE wire # << >> /\ wire[Len(wire)] = <<sending, bundle_sent>>

\* The bundles that are still on their way, in the order they will be sent.
Pending == (IF Unsent THEN <<sending>> ELSE << >>) \o ring \o
           (IF local.size = 0 THEN << >> ELSE <<local>>)

OnWire == UNION {Ids(wire[i][1]) : i \in 1 .. Len(wire)}

Before(b, c) == \A m \in Ids(b), n \in Ids(c) : m < n

\* Messages leave in the order addToBundle() took them: across the bytes
\* already written, the bundle being written, the ring and the open bundle.
InOrder ==
  /\ \A i, j \in 1 .. Len(wire) :
       i < j => wire[i][1] = wire[j][1] \/ Before(wire[i][1], wire[j][1])
  /\ \A i, j \in 1 .. Len(Pending) : i < j => Before(Pending[i], Pending[j])
  /\ \A i \in 1 .. Len(wire), j \in 1 .. Len(Pending) :
       wire[i][1] = Pending[j] \/ Before(wire[i][1], Pending[j])
  /\ \A j \in 1 .. Len(Pending) :
       \A k \in 1 .. Len(Pending[j].content) - 1 :
         Pending[j].content[k] < Pending[j].content[k + 1]

\* Where a message can be.  One in a half-written bundle counts as sending.
Places ==
  [wire    |-> OnWire \ (IF Unsent THEN Ids(sending) ELSE {}),
   sending |-> IF Unsent THEN Ids(sending) ELSE {},
   ring    |-> UNION {Ids(ring[i]) : i \in 1 .. Len(ring)},
   local   |-> Ids(local),
   refused |-> refused,
   lost    |-> lost]

\* Every message addToBundle() was called with is in exactly one place: none
\* disappears unaccounted for between the open bundle, the ring and the
\* socket, and none is sent twice or sent after it was given up.
ExactlyOnePlace ==
  \A m \in 1 .. next - 1 :
    Cardinality({p \in DOMAIN Places : m \in Places[p]}) = 1

\* Whatever is given up is older than whatever still waits in the ring or in
\* the open bundle: a stalled server costs the past, never the present.
LostAreOldest ==
  \A m \in lost : \A n \in Places.ring \cup Places.local : m < n

\* A bundle that waits, is sent, or is being filled holds a message and fits
\* the fixed buffers: slots of the ring and bundle_to_send alike.
BundlesFit ==
  /\ \A i \in 1 .. Len(Pending) :
       /\ Pending[i].content # << >>
       /\ Pending[i].size \in HeaderLen + 1 .. BundleMaxSize
  /\ bundle_sent <= sending.size

\* A message that was taken reaches the socket or is given up by a full ring,
\* even if no further message ever comes: the age of the open bundle and
\* pokeBundle() see to that, unless the connection breaks.
EveryMessageLeaves ==
  \A m \in Message :
    (m < next /\ m \notin refused)
      ~> (m \in Places.wire \cup lost \/ socket \in {"reset", "broken"})

Messages(bundles) ==
  FlattenSeq([i \in 1 .. Len(bundles) |-> bundles[i].content])

\* The messages of a bundle arrive with its last byte.
Arrived ==
  FlattenSeq([i \in 1 .. Len(wire) |->
                IF wire[i][2] = wire[i][1].size THEN wire[i][1].content ELSE << >>])

\* Bundles, the ring and the bytes on the socket are, for those who hand over
\* messages and for the server, one channel: in order, in groups, and giving up
\* only what is oldest while as many messages wait as the ring has bundles.
Channel == INSTANCE MessageChannel
             WITH Kept <- RingCapacity,
                  waiting <- Messages(ring) \o local.content,
                  sending <- IF Unsent THEN sending.content ELSE << >>,
                  delivered <- Arrived

ImplementsChannel == Channel!Spec

=============================================================================
