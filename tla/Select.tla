------------------------------- MODULE Select -------------------------------
(***************************************************************************)
(* Select.c and the event loop of oscLiveMain.c that drives it: two         *)
(* registries of file descriptors with their callbacks, the sets that       *)
(* select() is asked with and answers in, and the pass over the slots that  *)
(* calls back.  One step per slot that is visited.  Descriptors are         *)
(* registered and unregistered between the turns of the loop, not by        *)
(* callbacks (oscLiveMain.c registers them all before its first turn).      *)
(* Any malloc() may fail.  The socket is blocking: the write callback       *)
(* (Sockets.c) waits in send() until the server has read enough, and the    *)
(* loop and all devices wait with it.                                       *)
(***************************************************************************)
EXTENDS Integers, Sequences, FiniteSetsExt

CONSTANTS MaxFds,  \* MAX_FDS, slots of a registry
          Fds      \* the descriptors registered in each: serial lines, sockets

ASSUME MaxFdsAssumption == MaxFds \in Nat \ {0}
ASSUME FdsAssumption ==
  /\ DOMAIN Fds = {"read", "write"}
  /\ Fds["read"] \subseteq Nat /\ Fds["write"] \subseteq Nat
  /\ Fds["read"] \cap Fds["write"] = {}

VARIABLES
  registry,  \* registered_fds_read and registered_fds_write
  fds,       \* fds_read and fds_write
  max_fd,    \* max_fd
  pc,        \* where the loop is: "build", "select", "fire", or in "send"
  pos,       \* the slot fireCallBacks() visits next, over both registries
  ready,     \* external: which of them can be read or written without blocking
  memory,    \* history: how many blocks are allocated for each slot
  reported,  \* history: what select() answered in this turn
  fired      \* history: the callbacks of this turn, in order

vars == <<registry, fds, max_fd, pc, pos, ready, memory, reported, fired>>

Kind == {"read", "write"}
Fd == UNION {Fds[kind] : kind \in Kind}
Slot == 0 .. MaxFds - 1
NoFds == [kind \in Kind |-> {}]

\* A slot as the program starts: buffer tells whether the pointer is not NULL.
Unused == [fd |-> 0, enabled |-> FALSE, buffer |-> FALSE]

Registered(kind) ==
  {registry[kind][s].fd : s \in {t \in Slot : registry[kind][t].enabled}}

Init ==
  /\ registry = [kind \in Kind |-> [s \in Slot |-> Unused]]
  /\ fds = NoFds /\ max_fd = 0
  /\ pc = "build" /\ pos = 0
  /\ ready = NoFds
  /\ memory = [kind \in Kind |-> [s \in Slot |-> [name |-> 0, buffer |-> 0]]]
  /\ reported = NoFds /\ fired = << >>

-----------------------------------------------------------------------------
(* Registration *)

\* Fault: the name is not given back when the buffer cannot be had.
MemoryLeaked(old, chosen, buffered) ==
  [name   |-> old.name + 1,
   buffer |-> IF chosen /\ buffered THEN old.buffer + 1 ELSE old.buffer]

\* What one attempt at a slot allocates, and frees if it has no buffer.
MemoryAfter(old, chosen, buffered) ==
  IF chosen
    THEN [name |-> old.name + 1,
          buffer |-> IF buffered THEN old.buffer + 1 ELSE old.buffer]
    ELSE old

\* The slots where malloc() yields no name, or no buffer, are passed over, but
\* what was written to them stays.  Only the read registry has buffers.  A
\* caller has just opened fd, so it is not registered yet.
registerFD(kind, fd, noName, noBuffer) ==
  LET buffered == kind = "read"
      free     == {s \in Slot : ~registry[kind][s].enabled}
      usable   == {s \in free : s \notin noName /\ ~(buffered /\ s \in noBuffer)}
      tried    == {s \in free : \A t \in usable : s <= t}
  IN  /\ pc = "build"
      /\ fd \notin Registered(kind)
      /\ registry' = [registry EXCEPT ![kind] = [s \in Slot |->
           IF s \notin tried THEN @[s]
           ELSE [fd |-> fd,
                 enabled |-> s \in usable,
                 buffer |-> IF s \in noName THEN @[s].buffer
                            ELSE s \in usable /\ buffered]]]
      /\ memory' = [memory EXCEPT ![kind] = [s \in Slot |->
           IF s \notin tried \ noName THEN @[s]
           ELSE MemoryAfter(@[s], s \in usable, buffered)]]
      /\ UNCHANGED <<fds, max_fd, pc, pos, ready, reported, fired>>

\* The first enabled slot of fd; buffer is left dangling.
unregisterFD(kind, fd) ==
  /\ pc = "build"
  /\ fd \in Registered(kind)
  /\ LET s == Min({t \in Slot : registry[kind][t].enabled
                                /\ registry[kind][t].fd = fd})
     IN  /\ registry' = [registry EXCEPT ![kind][s].enabled = FALSE]
         /\ memory' = [memory EXCEPT ![kind][s] =
              [name |-> @.name - 1,
               buffer |-> IF registry[kind][s].buffer
                            THEN @.buffer - 1 ELSE @.buffer]]
  /\ ready' = [ready EXCEPT ![kind] = @ \ {fd}]
  /\ UNCHANGED <<fds, max_fd, pc, pos, reported, fired>>

-----------------------------------------------------------------------------
(* One turn of the loop *)

\* Fault: the descriptor seen last, in the place of the highest.
LastSeen(m, kind) ==
  IF Registered(kind) = {} THEN m ELSE Min(Registered(kind))

\* max_fd after buildFDSet() went through a registry.
Highest(m, kind) == Max({m} \cup Registered(kind))

buildFDSet ==
  /\ pc = "build"
  /\ fds' = [kind \in Kind |-> Registered(kind)]
  /\ max_fd' = Highest(Highest(max_fd, "read"), "write")
  /\ pc' = "select"
  /\ UNCHANGED <<registry, pos, ready, memory, reported, fired>>

Answer == [kind \in Kind |->
             {fd \in fds[kind] : fd <= max_fd /\ fd \in ready[kind]}]

selectFDSet ==
  /\ pc = "select"
  /\ Answer # NoFds
  /\ fds' = Answer /\ reported' = Answer
  /\ max_fd' = -1
  /\ pc' = "fire"
  /\ UNCHANGED <<registry, pos, ready, memory, fired>>

selectTimeout ==
  /\ pc = "select"
  /\ Answer = NoFds
  /\ fds' = NoFds
  /\ max_fd' = -1
  /\ pc' = "build"
  /\ UNCHANGED <<registry, pos, ready, memory, reported, fired>>

\* Fault: an error is taken for an answer.
SelectErrorFires ==
  /\ pc = "select"
  /\ max_fd' = -1
  /\ pc' = "fire"
  /\ UNCHANGED <<registry, fds, pos, ready, memory, reported, fired>>

\* A signal: the sets stay as they are.
selectError ==
  /\ pc = "select"
  /\ max_fd' = -1
  /\ pc' = "build"
  /\ UNCHANGED <<registry, fds, pos, ready, memory, reported, fired>>

\* The registry and the slot that fireCallBacks() visits: reads go first.
KindAt == IF pos < MaxFds THEN "read" ELSE "write"
SlotAt == pos % MaxFds
FiredFd == registry[KindAt][SlotAt].fd

IsSet == registry[KindAt][SlotAt].enabled /\ FiredFd \in fds[KindAt]

\* The callback does its work, and there may be more of it.  It returns, or it is
\* the writer and sends more than the socket has room for.
CallsBack ==
  LET less == [ready EXCEPT ![KindAt] = @ \ {FiredFd}]
  IN  /\ pc = "fire"
      /\ pos < 2 * MaxFds
      /\ IsSet
      /\ fired' = Append(fired, <<KindAt, FiredFd>>)
      /\ \/ ready' \in {ready, less} /\ UNCHANGED pc
         \/ KindAt = "write" /\ ready' = less /\ pc' = "send"
      /\ UNCHANGED <<registry, fds, max_fd, memory, reported>>

\* Faults: the pass over the slots ends with the first callback, or at the first
\* slot that has nothing to do, or does not end.
CallBackBreaks ==
  /\ CallsBack
  /\ pos' = 2 * MaxFds

SkipToEnd ==
  /\ pc = "fire"
  /\ pos < 2 * MaxFds
  /\ ~IsSet
  /\ pos' = 2 * MaxFds
  /\ UNCHANGED <<registry, fds, max_fd, pc, ready, memory, reported, fired>>

SkipOverTheEnd ==
  /\ pc = "fire"
  /\ ~IsSet
  /\ pos' = pos + 1
  /\ UNCHANGED <<registry, fds, max_fd, pc, ready, memory, reported, fired>>

callBack ==
  /\ CallsBack
  /\ pos' = pos + 1

\* send() waits: the socket has no room for what the writer still has to send.
Stalled == pc = "send" /\ fired[Len(fired)][2] \notin ready["write"]

\* The server has read on, and the writer comes to its end.
sendReturns ==
  /\ pc = "send" /\ ~Stalled
  /\ pc' = "fire"
  /\ UNCHANGED <<registry, fds, max_fd, pos, ready, memory, reported, fired>>

\* An error ends the callback that waits.
sendFails ==
  /\ Stalled
  /\ pc' = "fire"
  /\ UNCHANGED <<registry, fds, max_fd, pos, ready, memory, reported, fired>>

skipSlot ==
  /\ pc = "fire"
  /\ pos < 2 * MaxFds
  /\ ~IsSet
  /\ pos' = pos + 1
  /\ UNCHANGED <<registry, fds, max_fd, pc, ready, memory, reported, fired>>

\* pokeBundle(), and the next turn.
poke ==
  /\ pc = "fire"
  /\ pos = 2 * MaxFds
  /\ pc' = "build"
  /\ pos' = 0
  /\ reported' = NoFds /\ fired' = << >>
  /\ UNCHANGED <<registry, fds, max_fd, ready, memory>>

\* Bytes arrive on a serial line, or the socket has room again.
BecomeReady(kind, fd) ==
  /\ fd \in Registered(kind)
  /\ ready' = [ready EXCEPT ![kind] = @ \cup {fd}]
  /\ UNCHANGED <<registry, fds, max_fd, pc, pos, memory, reported, fired>>

Next ==
  \/ \E kind \in Kind : \E fd \in Fds[kind] :
       \/ \E noName, noBuffer \in SUBSET Slot :
            /\ noName \cap noBuffer = {} /\ (kind = "write" => noBuffer = {})
            /\ registerFD(kind, fd, noName, noBuffer)
       \/ unregisterFD(kind, fd)
       \/ BecomeReady(kind, fd)
  \/ buildFDSet
  \/ selectFDSet \/ selectTimeout \/ selectError
  \/ callBack \/ sendReturns \/ sendFails \/ skipSlot \/ poke

Spec == Init /\ [][Next]_vars

\* The loop runs, as long as send() returns when it can; select() is not
\* interrupted for ever.  That the server reads on is not assumed.
FairSpec ==
  /\ Spec
  /\ WF_vars(buildFDSet) /\ SF_vars(selectFDSet) /\ WF_vars(selectTimeout)
  /\ WF_vars(callBack) /\ WF_vars(sendReturns) /\ WF_vars(skipSlot) /\ WF_vars(poke)

-----------------------------------------------------------------------------
(* Properties *)

\* Every variable has its type.
TypeOK ==
  /\ registry \in [Kind -> [Slot -> [fd : Fd \cup {0}, enabled : BOOLEAN,
                                     buffer : BOOLEAN]]]
  /\ fds \in [Kind -> SUBSET Fd] /\ reported \in [Kind -> SUBSET Fd]
  /\ ready \in [Kind -> SUBSET Fd]
  /\ max_fd \in Fd \cup {-1, 0}
  /\ pc \in {"build", "select", "fire", "send"}
  /\ pos \in 0 .. 2 * MaxFds
  /\ memory \in [Kind -> [Slot -> [name : Int, buffer : Int]]]
  /\ fired \in Seq(Kind \X Fd)

\* Whichever malloc() fails while a descriptor is registered, and however often
\* slots are used again, an enabled slot owns its name and its buffer and a slot
\* that is not owns nothing: no leak, and no block freed twice.
SlotsOwnTheirMemory ==
  \A kind \in Kind, s \in Slot :
    LET on == registry[kind][s].enabled
    IN  memory[kind][s] =
          [name   |-> IF on THEN 1 ELSE 0,
           buffer |-> IF on /\ kind = "read" THEN 1 ELSE 0]

\* select() is asked about every registered descriptor of both registries, and
\* about none besides: max_fd is not left below one of them by the turn before
\* or by the other registry.
SelectAsksForAll ==
  pc = "select" =>
    \A kind \in Kind : {fd \in fds[kind] : fd <= max_fd} = Registered(kind)

\* A callback is called only while its descriptor is ready, whatever became of the
\* sets in turns that timed out or failed: read() never blocks the program, if no
\* other descriptor reads the same line.  A send() may, once the room is used up.
CallbacksDoNotBlock ==
  [][\A k \in 1 .. Len(fired') :
       k > Len(fired) => fired'[k][2] \in ready[fired'[k][1]]]_vars

\* At the end of a turn every descriptor select() reported has had its callback,
\* once, and the writer ran after all the readers, so that it sends what they
\* produced in the same turn.
TurnServesAll ==
  pc = "fire" /\ pos = 2 * MaxFds =>
    /\ {fired[k] : k \in 1 .. Len(fired)}
         = UNION {{kind} \X reported[kind] : kind \in Kind}
    /\ \A j, k \in 1 .. Len(fired) :
         j < k => fired[j] # fired[k] /\ <<fired[j][1], fired[k][1]>> # <<"write", "read">>

\* Unless the server stops reading for ever while send() waits for it, a device
\* that has something to read and stays registered gets its callback, however
\* busy the other devices and the socket are, and however often send() waits.
NobodyStarves ==
  []<>~Stalled =>
    \A fd \in Fds["read"] :
      (fd \in ready["read"] /\ fd \in Registered("read"))
        ~> (\/ fd \notin Registered("read")
            \/ \E k \in 1 .. Len(fired) : fired[k] = <<"read", fd>>)

=============================================================================
