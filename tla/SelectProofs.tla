---------------------------- MODULE SelectProofs ----------------------------
(***************************************************************************)
(* For every size of the registries and every set of descriptors: the slots *)
(* own what they were given, select() is asked about every descriptor, and  *)
(* a turn of the loop serves all that select() reported, and only these.    *)
(***************************************************************************)
EXTENDS Select, FiniteSetTheorems, SequenceTheorems, TLAPS

\* Where the pass of fireCallBacks() over both registries meets a slot.
Place(kind, s) == IF kind = "read" THEN s ELSE MaxFds + s

\* The slot is registered and select() reported its descriptor.
Reported(kind, s) == registry[kind][s].enabled /\ registry[kind][s].fd \in fds[kind]

Pair(kind, s) == <<kind, registry[kind][s].fd>>

\* A slot is enabled for one of the descriptors of its registry.
Known ==
  \A kind \in Kind, s \in Slot :
    registry[kind][s].enabled => registry[kind][s].fd \in Fds[kind]

\* Only readers have a buffer, and an enabled one has it.
Buffered ==
  \A kind \in Kind, s \in Slot :
    registry[kind][s].enabled => (registry[kind][s].buffer <=> kind = "read")

\* A descriptor is registered at most once.
OncePerRegistry ==
  \A kind \in Kind, s, t \in Slot :
    /\ registry[kind][s].enabled /\ registry[kind][t].enabled
    /\ registry[kind][s].fd = registry[kind][t].fd
    => s = t

\* The sets select() is asked with.
Asked ==
  pc = "select" =>
    /\ fds = [kind \in Kind |-> Registered(kind)]
    /\ \A kind \in Kind : \A fd \in Registered(kind) : fd <= max_fd

\* The pass over the slots, with the writer waiting in send() or not.
InPass == pc \in {"fire", "send"}

\* What was reported is registered, and ready until its callback begins.
Pending ==
  InPass =>
    /\ fds = reported
    /\ \A kind \in Kind : reported[kind] \subseteq Registered(kind)
    /\ \A kind \in Kind, s \in Slot :
         Place(kind, s) >= pos /\ Reported(kind, s)
           => registry[kind][s].fd \in ready[kind]

\* The callbacks so far are those of the slots before pos, each once, in order.
Served ==
  InPass =>
    /\ \A kind \in Kind, s \in Slot :
         Place(kind, s) < pos /\ Reported(kind, s)
           => \E k \in 1 .. Len(fired) : fired[k] = Pair(kind, s)
    /\ \A k \in 1 .. Len(fired) :
         \E kind \in Kind, s \in Slot :
           /\ Place(kind, s) < pos /\ Reported(kind, s)
           /\ fired[k] = Pair(kind, s)
    /\ \A j, k \in 1 .. Len(fired) :
         j < k => /\ fired[j] # fired[k]
                  /\ ~(fired[j][1] = "write" /\ fired[k][1] = "read")

Between == ~InPass => pos = 0 /\ fired = << >>

IInv ==
  /\ TypeOK /\ Known /\ SlotsOwnTheirMemory /\ Buffered /\ OncePerRegistry
  /\ Asked /\ Pending /\ Served /\ Between

-----------------------------------------------------------------------------
(* Sets of descriptors, and the order of the slots *)

LEMMA Sizes ==
  /\ MaxFds \in Nat /\ MaxFds > 0
  /\ Kind = {"read", "write"}
  /\ \A kind \in Kind : Fds[kind] \subseteq Fd
  /\ Fd \subseteq Nat
BY MaxFdsAssumption, FdsAssumption DEF Kind, Fd

\* A finite set of integers that is not empty has a highest element: take a
\* smallest set that has none.
LEMMA MaxOfFinite ==
  ASSUME NEW S \in SUBSET Int, IsFiniteSet(S), S # {}
  PROVE  Max(S) \in S /\ \A x \in S : Max(S) >= x
<1> DEFINE HasMax(T) == \E x \in T : \A y \in T : x >= y
           Bad == {T \in FiniteSubsetsOf(Int) : T # {} /\ ~HasMax(T)}
<1>1. ASSUME Bad # {} PROVE FALSE
  <2>1. IsWellFoundedOn(StrictSubsetOrdering(Int), FiniteSubsetsOf(Int))
    BY FS_StrictSubsetOrderingWellFounded
  <2>2. Bad \subseteq FiniteSubsetsOf(Int)
    OBVIOUS
  <2>3. PICK T \in Bad : \A U \in Bad : <<U, T>> \notin StrictSubsetOrdering(Int)
    <3> HIDE DEF Bad
    <3> QED
      BY <1>1, <2>1, <2>2, WFMin, Zenon
  <2>4. T \in SUBSET Int /\ IsFiniteSet(T) /\ T # {} /\ ~HasMax(T)
    BY <2>3 DEF FiniteSubsetsOf
  <2>5. PICK x \in T : TRUE
    BY <2>4
  <2> DEFINE U == T \ {x}
  <2>6. U \in SUBSET Int /\ IsFiniteSet(U)
    BY <2>4, FS_RemoveElement
  <2>7. U \notin Bad
    <3>1. <<U, T>> \in StrictSubsetOrdering(Int)
      BY <2>4, <2>5, <2>6 DEF StrictSubsetOrdering
    <3> QED
      BY <2>3, <3>1
  <2>8. CASE U = {}
    BY <2>4, <2>5, <2>8
  <2>9. CASE U # {}
    <3>1. HasMax(U)
      BY <2>6, <2>7, <2>9 DEF FiniteSubsetsOf
    <3>2. PICK y \in U : \A z \in U : y >= z
      BY <3>1
    <3>3. HasMax(T)
      BY <2>4, <2>5, <3>2
    <3> QED
      BY <2>4, <3>3
  <2> QED
    BY <2>8, <2>9
<1>2. HasMax(S)
  BY <1>1 DEF FiniteSubsetsOf
<1> QED
  BY <1>2 DEF Max

\* A set of natural numbers that is not empty has a lowest element.
LEMMA MinOfNaturals ==
  ASSUME NEW S \in SUBSET Nat, S # {}
  PROVE  Min(S) \in S /\ \A x \in S : Min(S) <= x
<1>1. PICK x \in S : \A y \in S : ~(<<y, x>> \in OpToRel(<, Nat))
  BY WFMin, NatLessThanWellFounded, Zenon
<1>2. \A y \in S : ~(y < x)
  BY <1>1, Zenon DEF OpToRel
<1>3. \A y \in S : x <= y
  BY <1>2
<1> QED
  BY <1>3 DEF Min

\* The descriptors of a registry are finitely many: one a slot at most.
LEMMA RegisteredFinite ==
  ASSUME Known, NEW kind \in Kind
  PROVE  Registered(kind) \in SUBSET Fds[kind] /\ IsFiniteSet(Registered(kind))
<1> DEFINE T == {t \in Slot : registry[kind][t].enabled}
           f == [t \in T |-> registry[kind][t].fd]
<1>1. IsFiniteSet(T)
  <2>1. IsFiniteSet(Slot)
    BY Sizes, FS_Interval DEF Slot
  <2>2. T \in SUBSET Slot
    OBVIOUS
  <2> QED
    BY <2>1, <2>2, FS_Subset
<1>2. f \in Surjection(T, Registered(kind))
  BY DEF Registered, Surjection
<1>3. IsFiniteSet(Registered(kind))
  BY <1>1, <1>2, FS_Surjection
<1>4. ASSUME NEW fd \in Registered(kind) PROVE fd \in Fds[kind]
  BY <1>4 DEF Registered, Known
<1> QED
  BY <1>3, <1>4

\* Every slot has its place in the pass, and every place its slot.
LEMMA PlaceOfSlot ==
  ASSUME NEW kind \in Kind, NEW s \in Slot
  PROVE  Place(kind, s) \in 0 .. 2 * MaxFds - 1
BY Sizes DEF Place, Slot

LEMMA SlotOfPlace ==
  ASSUME pos \in 0 .. 2 * MaxFds - 1
  PROVE  /\ KindAt \in Kind /\ SlotAt \in Slot
         /\ Place(KindAt, SlotAt) = pos
         /\ \A kind \in Kind, s \in Slot :
              Place(kind, s) = pos => kind = KindAt /\ s = SlotAt
<1>1. CASE pos < MaxFds
  <2>1. pos % MaxFds = pos
    BY <1>1, Sizes, SMT
  <2> QED
    BY <1>1, <2>1, Sizes DEF KindAt, SlotAt, Place, Slot
<1>2. CASE pos >= MaxFds
  <2>1. pos % MaxFds = pos - MaxFds
    BY <1>2, Sizes, SMT
  <2> QED
    BY <1>2, <2>1, Sizes DEF KindAt, SlotAt, Place, Slot
<1> QED
  BY <1>1, <1>2, Sizes

-----------------------------------------------------------------------------
(* What the steps do to the slots *)

\* Registering goes over free slots, and enables one of them at most.
Taken(kind, fd, noName, tried, usable) ==
  /\ \A s \in tried : ~registry[kind][s].enabled
  /\ \A s \in usable : s \notin noName
  /\ \A s, t \in tried \cap usable : s = t
  /\ registry' = [registry EXCEPT ![kind] = [s \in Slot |->
       IF s \notin tried THEN registry[kind][s]
       ELSE [fd |-> fd,
             enabled |-> s \in usable,
             buffer |-> IF s \in noName THEN registry[kind][s].buffer
                        ELSE s \in usable /\ kind = "read"]]]
  /\ memory' = [memory EXCEPT ![kind] = [s \in Slot |->
       IF s \notin tried \ noName THEN memory[kind][s]
       ELSE MemoryAfter(memory[kind][s], s \in usable, kind = "read")]]

\* Unregistering disables the slot of the descriptor and frees its blocks.
Freed(kind, fd, s) ==
  /\ registry[kind][s].enabled /\ registry[kind][s].fd = fd
  /\ registry' = [registry EXCEPT ![kind][s].enabled = FALSE]
  /\ memory' = [memory EXCEPT ![kind][s] =
       [name |-> memory[kind][s].name - 1,
        buffer |-> IF registry[kind][s].buffer
                     THEN memory[kind][s].buffer - 1
                     ELSE memory[kind][s].buffer]]

LEMMA Registers ==
  ASSUME TypeOK, NEW kind \in Kind, NEW fd \in Fds[kind],
         NEW noName \in SUBSET Slot, NEW noBuffer \in SUBSET Slot,
         registerFD(kind, fd, noName, noBuffer)
  PROVE  \E tried, usable \in SUBSET Slot : Taken(kind, fd, noName, tried, usable)
<1> DEFINE free   == {s \in Slot : ~registry[kind][s].enabled}
           usable == {s \in free : s \notin noName
                                   /\ ~(kind = "read" /\ s \in noBuffer)}
           tried  == {s \in free : \A t \in usable : s <= t}
<1>1. \A s, t \in tried \cap usable : s = t
  BY Sizes DEF Slot
<1>2. /\ \A s \in tried : ~registry[kind][s].enabled
      /\ \A s \in usable : s \notin noName
      /\ tried \in SUBSET Slot /\ usable \in SUBSET Slot
  OBVIOUS
<1>3. /\ registry' = [registry EXCEPT ![kind] = [s \in Slot |->
           IF s \notin tried THEN registry[kind][s]
           ELSE [fd |-> fd,
                 enabled |-> s \in usable,
                 buffer |-> IF s \in noName THEN registry[kind][s].buffer
                            ELSE s \in usable /\ kind = "read"]]]
      /\ memory' = [memory EXCEPT ![kind] = [s \in Slot |->
           IF s \notin tried \ noName THEN memory[kind][s]
           ELSE MemoryAfter(memory[kind][s], s \in usable, kind = "read")]]
  BY DEF registerFD, TypeOK
<1> HIDE DEF tried, usable
<1> QED
  BY <1>1, <1>2, <1>3 DEF Taken

LEMMA Unregisters ==
  ASSUME TypeOK, NEW kind \in Kind, NEW fd \in Fds[kind], unregisterFD(kind, fd)
  PROVE  \E s \in Slot : Freed(kind, fd, s)
<1> DEFINE S == {t \in Slot : registry[kind][t].enabled /\ registry[kind][t].fd = fd}
<1>1. S \in SUBSET Nat
  BY Sizes DEF Slot
<1>2. S # {}
  BY DEF unregisterFD, Registered
<1>3. Min(S) \in S
  <2> HIDE DEF S
  <2> QED
    BY <1>1, <1>2, MinOfNaturals
<1>4. /\ registry' = [registry EXCEPT ![kind][Min(S)].enabled = FALSE]
      /\ memory' = [memory EXCEPT ![kind][Min(S)] =
           [name |-> memory[kind][Min(S)].name - 1,
            buffer |-> IF registry[kind][Min(S)].buffer
                         THEN memory[kind][Min(S)].buffer - 1
                         ELSE memory[kind][Min(S)].buffer]]
  BY <1>3 DEF unregisterFD, TypeOK
<1>5. Min(S) \in Slot /\ registry[kind][Min(S)].enabled /\ registry[kind][Min(S)].fd = fd
  BY <1>3
<1> HIDE DEF S
<1> QED
  BY <1>4, <1>5 DEF Freed

-----------------------------------------------------------------------------
(* The types, and the slots *)

\* max_fd is the highest descriptor of both registries, or what it was.
LEMMA HighestOf ==
  ASSUME Known, NEW kind \in Kind, NEW m \in Fd \cup {-1, 0}
  PROVE  /\ Highest(m, kind) \in Fd \cup {-1, 0}
         /\ Highest(m, kind) >= m
         /\ \A fd \in Registered(kind) : Highest(m, kind) >= fd
<1> DEFINE S == {m} \cup Registered(kind)
<1>1. Registered(kind) \in SUBSET Fd /\ IsFiniteSet(Registered(kind))
  BY RegisteredFinite, Sizes
<1>2. IsFiniteSet(S)
  BY <1>1, FS_Singleton, FS_Union
<1>3. S \in SUBSET Int /\ S # {}
  <2>1. m \in Int
    <3>1. m \in Fd \/ m = -1 \/ m = 0
      OBVIOUS
    <3> QED
      BY <3>1, Sizes
  <2>2. ASSUME NEW x \in Registered(kind) PROVE x \in Int
    <3>1. x \in Fd
      BY <1>1
    <3>2. x \in Nat
      BY <3>1, Sizes
    <3> QED
      BY <3>2
  <2> QED
    BY <2>1, <2>2
<1>4. Max(S) \in S /\ \A x \in S : Max(S) >= x
  <2> HIDE DEF S
  <2> QED
    BY <1>2, <1>3, MaxOfFinite
<1> QED
  BY <1>1, <1>4 DEF Highest

LEMMA TypesAtInit == Init => TypeOK /\ Known
<1>1. << >> \in Seq(Kind \X Fd)
  OBVIOUS
<1> QED
  BY <1>1, Sizes DEF Init, TypeOK, Known, Unused, NoFds

LEMMA TypesByStep == TypeOK /\ Known /\ [Next]_vars => TypeOK' /\ Known'
<1> SUFFICES ASSUME TypeOK, Known, [Next]_vars PROVE TypeOK' /\ Known'
  OBVIOUS
<1> USE DEF TypeOK, Known
<1>1. ASSUME NEW kind \in Kind, NEW fd \in Fds[kind],
             NEW noName \in SUBSET Slot, NEW noBuffer \in SUBSET Slot,
             registerFD(kind, fd, noName, noBuffer)
      PROVE  TypeOK' /\ Known'
  <2>1. PICK tried, usable \in SUBSET Slot : Taken(kind, fd, noName, tried, usable)
    BY <1>1, Registers
  <2>2. fd \in Fd
    BY Sizes
  <2> DEFINE slot(s) == [fd |-> fd,
                         enabled |-> s \in usable,
                         buffer |-> IF s \in noName THEN registry[kind][s].buffer
                                    ELSE s \in usable /\ kind = "read"]
             block(s) == MemoryAfter(memory[kind][s], s \in usable, kind = "read")
  <2>3. ASSUME NEW s \in Slot
        PROVE  slot(s) \in [fd : Fd \cup {0}, enabled : BOOLEAN, buffer : BOOLEAN]
    <3>1. (s \in usable) \in BOOLEAN
      OBVIOUS
    <3>2. (IF s \in noName THEN registry[kind][s].buffer
           ELSE s \in usable /\ kind = "read") \in BOOLEAN
      <4>1. registry[kind][s].buffer \in BOOLEAN
        OBVIOUS
      <4> QED
        BY <4>1
    <3> QED
      BY <2>2, <3>1, <3>2
  <2>4. ASSUME NEW s \in Slot PROVE block(s) \in [name : Int, buffer : Int]
    BY DEF MemoryAfter
  <2>5. /\ registry' = [registry EXCEPT ![kind] = [s \in Slot |->
             IF s \notin tried THEN registry[kind][s] ELSE slot(s)]]
        /\ memory' = [memory EXCEPT ![kind] = [s \in Slot |->
             IF s \notin tried \ noName THEN memory[kind][s] ELSE block(s)]]
    BY <2>1 DEF Taken
  <2>6. \A s \in Slot : slot(s).fd = fd
    OBVIOUS
  <2> HIDE DEF slot, block
  <2>7. registry' \in [Kind -> [Slot -> [fd : Fd \cup {0}, enabled : BOOLEAN,
                                         buffer : BOOLEAN]]]
    BY <2>3, <2>5
  <2>8. memory' \in [Kind -> [Slot -> [name : Int, buffer : Int]]]
    BY <2>4, <2>5
  <2>9. Known'
    BY <2>5, <2>6
  <2> QED
    BY <1>1, <2>7, <2>8, <2>9 DEF registerFD
<1>2. ASSUME NEW kind \in Kind, NEW fd \in Fds[kind], unregisterFD(kind, fd)
      PROVE  TypeOK' /\ Known'
  <2>1. PICK s \in Slot : Freed(kind, fd, s)
    BY <1>2, Unregisters
  <2>2. ready' \in [Kind -> SUBSET Fd]
    BY <1>2 DEF unregisterFD
  <2>3. registry' \in [Kind -> [Slot -> [fd : Fd \cup {0}, enabled : BOOLEAN,
                                         buffer : BOOLEAN]]]
    <3> DEFINE r == [registry[kind][s] EXCEPT !.enabled = FALSE]
    <3>1. r \in [fd : Fd \cup {0}, enabled : BOOLEAN, buffer : BOOLEAN]
      <4>1. registry[kind][s] \in [fd : Fd \cup {0}, enabled : BOOLEAN, buffer : BOOLEAN]
        OBVIOUS
      <4> QED
        BY <4>1
    <3>2. registry' = [registry EXCEPT ![kind][s] = r]
      BY <2>1 DEF Freed
    <3> HIDE DEF r
    <3> QED
      BY <3>1, <3>2
  <2>4. memory' \in [Kind -> [Slot -> [name : Int, buffer : Int]]]
    BY <2>1 DEF Freed
  <2>5. Known'
    BY <2>1 DEF Freed
  <2> QED
    BY <1>2, <2>2, <2>3, <2>4, <2>5 DEF unregisterFD
<1>3. ASSUME NEW kind \in Kind, NEW fd \in Fds[kind], BecomeReady(kind, fd)
      PROVE  TypeOK' /\ Known'
  BY <1>3, Sizes DEF BecomeReady
<1>4. CASE buildFDSet
  <2>1. Highest(Highest(max_fd, "read"), "write") \in Fd \cup {-1, 0}
    BY HighestOf, Sizes
  <2>2. \A kind \in Kind : Registered(kind) \in SUBSET Fd
    BY RegisteredFinite, Sizes
  <2> QED
    BY <1>4, <2>1, <2>2 DEF buildFDSet
<1>5. CASE selectFDSet
  BY <1>5 DEF selectFDSet, Answer
<1>6. CASE selectTimeout
  BY <1>6 DEF selectTimeout, NoFds
<1>7. CASE selectError
  BY <1>7 DEF selectError
<1>8. CASE callBack
  <2>1. pos \in 0 .. 2 * MaxFds - 1
    BY <1>8, Sizes DEF callBack, CallsBack
  <2>2. KindAt \in Kind /\ FiredFd \in Fd
    BY <1>8, <2>1, SlotOfPlace DEF callBack, CallsBack, IsSet
  <2>3. Append(fired, <<KindAt, FiredFd>>) \in Seq(Kind \X Fd)
    BY <2>2, AppendProperties
  <2>4. ready' \in [Kind -> SUBSET Fd] /\ pos' \in 0 .. 2 * MaxFds
    <3>1. ready' = ready \/ ready' = [ready EXCEPT ![KindAt] = @ \ {FiredFd}]
      BY <1>8 DEF callBack, CallsBack
    <3>2. [ready EXCEPT ![KindAt] = @ \ {FiredFd}] \in [Kind -> SUBSET Fd]
      BY <2>2
    <3>3. pos' = pos + 1
      BY <1>8 DEF callBack
    <3>4. pos' \in 0 .. 2 * MaxFds
      BY <2>1, <3>3, Sizes
    <3>5. ready' \in [Kind -> SUBSET Fd]
      BY <3>1, <3>2
    <3> QED
      BY <3>4, <3>5
  <2> QED
    BY <1>8, <2>3, <2>4 DEF callBack, CallsBack
<1>9. CASE skipSlot
  BY <1>9, Sizes DEF skipSlot
<1>10. CASE poke
  <2>1. << >> \in Seq(Kind \X Fd)
    OBVIOUS
  <2> QED
    BY <1>10, <2>1, Sizes DEF poke, NoFds
<1>11. CASE sendReturns \/ sendFails
  BY <1>11 DEF sendReturns, sendFails
<1>12. CASE UNCHANGED vars
  BY <1>12 DEF vars
<1> QED
  BY <1>1, <1>2, <1>3, <1>4, <1>5, <1>6, <1>7, <1>8, <1>9, <1>10, <1>11, <1>12
     DEF Next

\* Every variable keeps its type, for registries of every size: an enabled slot
\* holds a descriptor of its own registry, and max_fd is one of them.
THEOREM TypeCorrect == Spec => []TypeOK
<1>1. Spec => [](TypeOK /\ Known)
  BY TypesAtInit, TypesByStep, PTL DEF Spec
<1> QED
  BY <1>1, PTL

LEMMA SlotsByStep ==
  /\ TypeOK /\ SlotsOwnTheirMemory /\ Buffered /\ OncePerRegistry /\ [Next]_vars
  => SlotsOwnTheirMemory' /\ Buffered' /\ OncePerRegistry'
<1> SUFFICES ASSUME TypeOK, SlotsOwnTheirMemory, Buffered, OncePerRegistry,
                    [Next]_vars
             PROVE  SlotsOwnTheirMemory' /\ Buffered' /\ OncePerRegistry'
  OBVIOUS
<1>1. ASSUME NEW kind \in Kind, NEW fd \in Fds[kind],
             NEW noName \in SUBSET Slot, NEW noBuffer \in SUBSET Slot,
             registerFD(kind, fd, noName, noBuffer)
      PROVE  SlotsOwnTheirMemory' /\ Buffered' /\ OncePerRegistry'
  <2>1. PICK tried, usable \in SUBSET Slot : Taken(kind, fd, noName, tried, usable)
    BY <1>1, Registers
  <2>2. \A k \in Kind, s \in Slot :
          k # kind \/ s \notin tried =>
            registry'[k][s] = registry[k][s] /\ memory'[k][s] = memory[k][s]
    BY <2>1 DEF Taken, TypeOK
  <2>3. \A s \in tried :
          /\ registry'[kind][s].fd = fd
          /\ registry'[kind][s].enabled <=> s \in usable
          /\ s \notin noName => (registry'[kind][s].buffer <=> s \in usable /\ kind = "read")
          /\ s \notin noName =>
               memory'[kind][s] = MemoryAfter(memory[kind][s], s \in usable, kind = "read")
          /\ s \in noName => memory'[kind][s] = memory[kind][s]
    BY <2>1 DEF Taken, TypeOK
  <2>4. /\ \A s \in tried : ~registry[kind][s].enabled
        /\ \A s \in usable : s \notin noName
        /\ \A s, t \in tried \cap usable : s = t
    BY <2>1 DEF Taken
  <2>5. SlotsOwnTheirMemory'
    <3> SUFFICES ASSUME NEW k \in Kind, NEW s \in Slot
                 PROVE  memory'[k][s] =
                          [name   |-> IF registry'[k][s].enabled THEN 1 ELSE 0,
                           buffer |-> IF registry'[k][s].enabled /\ k = "read"
                                        THEN 1 ELSE 0]
      BY DEF SlotsOwnTheirMemory
    <3>1. memory[k][s] =
            [name   |-> IF registry[k][s].enabled THEN 1 ELSE 0,
             buffer |-> IF registry[k][s].enabled /\ k = "read" THEN 1 ELSE 0]
      BY DEF SlotsOwnTheirMemory
    <3>2. CASE k # kind \/ s \notin tried
      BY <2>2, <3>1, <3>2
    <3>3. CASE k = kind /\ s \in tried
      <4>1. memory[k][s] = [name |-> 0, buffer |-> 0]
        BY <2>4, <3>1, <3>3
      <4>2. CASE s \in usable
        <5>1. s \notin noName /\ registry'[k][s].enabled
          BY <2>3, <2>4, <3>3, <4>2
        <5>2. memory'[k][s] = MemoryAfter(memory[k][s], TRUE, k = "read")
          BY <2>3, <3>3, <4>2, <5>1
        <5>3. memory'[k][s] = [name |-> 1, buffer |-> IF k = "read" THEN 1 ELSE 0]
          BY <4>1, <5>2 DEF MemoryAfter
        <5> QED
          BY <5>1, <5>3
      <4>3. CASE s \notin usable
        <5>1. ~registry'[k][s].enabled
          BY <2>3, <3>3, <4>3
        <5>2. memory'[k][s] = memory[k][s]
          BY <2>3, <3>3, <4>3 DEF MemoryAfter
        <5> QED
          BY <4>1, <5>1, <5>2
      <4> QED
        BY <4>2, <4>3
    <3> QED
      BY <3>2, <3>3
  <2>6. Buffered'
    <3> SUFFICES ASSUME NEW k \in Kind, NEW s \in Slot, registry'[k][s].enabled
                 PROVE  registry'[k][s].buffer <=> k = "read"
      BY DEF Buffered
    <3>1. CASE k # kind \/ s \notin tried
      BY <2>2, <3>1 DEF Buffered
    <3>2. CASE k = kind /\ s \in tried
      BY <2>3, <2>4, <3>2
    <3> QED
      BY <3>1, <3>2
  <2>7. OncePerRegistry'
    <3> SUFFICES ASSUME NEW k \in Kind, NEW s \in Slot, NEW t \in Slot,
                        registry'[k][s].enabled, registry'[k][t].enabled,
                        registry'[k][s].fd = registry'[k][t].fd
                 PROVE  s = t
      BY DEF OncePerRegistry
    <3>1. \A u \in Slot : registry[kind][u].enabled => registry[kind][u].fd # fd
      BY <1>1 DEF registerFD, Registered
    <3>2. CASE k # kind \/ (s \notin tried /\ t \notin tried)
      BY <2>2, <3>2 DEF OncePerRegistry
    <3>3. CASE k = kind /\ s \in tried /\ t \in tried
      BY <2>3, <2>4, <3>3
    <3>4. CASE k = kind /\ s \in tried /\ t \notin tried
      BY <2>2, <2>3, <3>1, <3>4
    <3>5. CASE k = kind /\ s \notin tried /\ t \in tried
      BY <2>2, <2>3, <3>1, <3>5
    <3> QED
      BY <3>2, <3>3, <3>4, <3>5
  <2> QED
    BY <2>5, <2>6, <2>7
<1>2. ASSUME NEW kind \in Kind, NEW fd \in Fds[kind], unregisterFD(kind, fd)
      PROVE  SlotsOwnTheirMemory' /\ Buffered' /\ OncePerRegistry'
  <2>1. PICK s \in Slot : Freed(kind, fd, s)
    BY <1>2, Unregisters
  <2>2. \A k \in Kind, t \in Slot :
          k # kind \/ t # s =>
            registry'[k][t] = registry[k][t] /\ memory'[k][t] = memory[k][t]
    BY <2>1 DEF Freed, TypeOK
  <2>3. ~registry'[kind][s].enabled
    BY <2>1 DEF Freed, TypeOK
  <2>4. memory'[kind][s] = [name |-> 0, buffer |-> 0]
    <3>1. memory[kind][s] =
            [name |-> 1, buffer |-> IF kind = "read" THEN 1 ELSE 0]
      BY <2>1 DEF Freed, SlotsOwnTheirMemory
    <3>2. registry[kind][s].buffer <=> kind = "read"
      BY <2>1 DEF Freed, Buffered
    <3>3. memory'[kind][s] =
            [name |-> memory[kind][s].name - 1,
             buffer |-> IF registry[kind][s].buffer
                          THEN memory[kind][s].buffer - 1
                          ELSE memory[kind][s].buffer]
      BY <2>1 DEF Freed, TypeOK
    <3> QED
      BY <3>1, <3>2, <3>3
  <2>5. SlotsOwnTheirMemory'
    BY <2>2, <2>3, <2>4 DEF SlotsOwnTheirMemory
  <2>6. Buffered'
    BY <2>2, <2>3 DEF Buffered
  <2>7. OncePerRegistry'
    BY <2>2, <2>3 DEF OncePerRegistry
  <2> QED
    BY <2>5, <2>6, <2>7
<1>3. CASE UNCHANGED <<registry, memory>>
  BY <1>3 DEF SlotsOwnTheirMemory, Buffered, OncePerRegistry
<1> QED
  BY <1>1, <1>2, <1>3 DEF Next, vars, BecomeReady, buildFDSet, selectFDSet,
     selectTimeout, selectError, callBack, CallsBack, sendReturns, sendFails,
     skipSlot, poke

\* Whichever malloc() fails, and however often slots are used again, an enabled
\* slot owns one name and, if it is a reader, one buffer; the others own nothing.
THEOREM NothingLeaks == Spec => []SlotsOwnTheirMemory
<1> DEFINE Inv == /\ TypeOK /\ Known
                  /\ SlotsOwnTheirMemory /\ Buffered /\ OncePerRegistry
<1>1. Init => Inv
  BY TypesAtInit DEF Init, SlotsOwnTheirMemory, Buffered, OncePerRegistry, Unused
<1>2. Inv /\ [Next]_vars => Inv'
  BY TypesByStep, SlotsByStep
<1>3. Spec => []Inv
  BY <1>1, <1>2, PTL DEF Spec
<1> QED
  BY <1>3, PTL

-----------------------------------------------------------------------------
(* A turn of the loop *)

Turn == Asked /\ Pending /\ Served /\ Between

LEMMA RegisteredStays ==
  ASSUME UNCHANGED registry
  PROVE  \A kind \in Kind : Registered(kind)' = Registered(kind)
BY DEF Registered

\* The answer of select() starts a pass over all the slots.
LEMMA TurnStarts ==
  ASSUME TypeOK, Turn, selectFDSet
  PROVE  Turn'
<1>1. /\ pos' = 0 /\ fired' = << >> /\ pc' = "fire"
      /\ fds' = Answer /\ reported' = Answer
      /\ UNCHANGED <<registry, ready>>
  BY DEF selectFDSet, Turn, Between, InPass
<1>2. \A kind \in Kind : /\ Answer[kind] \subseteq Registered(kind)
                         /\ \A fd \in Answer[kind] : fd \in ready[kind]
  BY DEF Answer, Turn, Asked, selectFDSet
<1>3. Pending'
  <2>1. \A kind \in Kind : reported'[kind] \subseteq Registered(kind)'
    BY <1>1, <1>2, RegisteredStays
  <2>2. ASSUME NEW kind \in Kind, NEW s \in Slot, Reported(kind, s)'
        PROVE  registry'[kind][s].fd \in ready'[kind]
    BY <1>1, <1>2, <2>2 DEF Reported
  <2> QED
    BY <1>1, <2>1, <2>2 DEF Pending, InPass
<1>4. Served'
  <2>1. Len(fired') = 0
    BY <1>1
  <2>2. \A kind \in Kind, s \in Slot : ~(Place(kind, s) < pos')
    BY <1>1, PlaceOfSlot, Sizes
  <2> QED
    BY <2>1, <2>2 DEF Served, InPass
<1> QED
  BY <1>1, <1>3, <1>4 DEF Turn, Asked, Between, InPass

\* The slot at pos has its callback, and no other slot of the turn loses its
\* descriptor or the place among the callbacks that it has.
LEMMA TurnCallsBack ==
  ASSUME TypeOK, OncePerRegistry, Turn, callBack
  PROVE  Turn'
<1>1. pc = "fire" /\ pos \in 0 .. 2 * MaxFds - 1 /\ pos' = pos + 1
  BY Sizes DEF callBack, CallsBack, TypeOK
<1>2. /\ pc' \in {"fire", "send"} /\ UNCHANGED <<registry, fds, reported>>
      /\ ready' = ready \/ ready' = [ready EXCEPT ![KindAt] = @ \ {FiredFd}]
      /\ fired' = Append(fired, <<KindAt, FiredFd>>)
  BY <1>1 DEF callBack, CallsBack
<1>3. /\ KindAt \in Kind /\ SlotAt \in Slot /\ Place(KindAt, SlotAt) = pos
      /\ \A kind \in Kind, s \in Slot :
           Place(kind, s) = pos => kind = KindAt /\ s = SlotAt
  BY <1>1, SlotOfPlace
<1>4. Reported(KindAt, SlotAt) /\ Pair(KindAt, SlotAt) = <<KindAt, FiredFd>>
  BY DEF callBack, CallsBack, IsSet, Reported, Pair, FiredFd
<1>5. \A kind \in Kind, s \in Slot : /\ Reported(kind, s)' <=> Reported(kind, s)
                                     /\ Pair(kind, s)' = Pair(kind, s)
                                     /\ Place(kind, s) \in Int
  BY <1>2, PlaceOfSlot DEF Reported, Pair
<1>6. Pending'
  <2>1. fds' = reported' /\ \A kind \in Kind : reported'[kind] \subseteq Registered(kind)'
    BY <1>1, <1>2, RegisteredStays DEF Turn, Pending, InPass
  <2>2. ASSUME NEW kind \in Kind, NEW s \in Slot,
               Place(kind, s) >= pos', Reported(kind, s)'
        PROVE  registry'[kind][s].fd \in ready'[kind]
    <3>1. registry[kind][s].fd \in ready[kind]
      BY <1>1, <1>5, <2>2 DEF Turn, Pending, InPass
    <3>2. kind = KindAt => registry[kind][s].fd # FiredFd
      <4> SUFFICES ASSUME kind = KindAt, registry[kind][s].fd = FiredFd
                   PROVE  FALSE
        OBVIOUS
      <4>1. s = SlotAt
        BY <1>3, <1>4, <1>5, <2>2 DEF OncePerRegistry, Reported, FiredFd
      <4> QED
        BY <1>1, <1>3, <2>2, <4>1
    <3> QED
      BY <1>2, <1>3, <3>1, <3>2 DEF TypeOK
  <2> QED
    BY <2>1, <2>2 DEF Pending, InPass
<1>7. /\ fired \in Seq(Kind \X Fd)
      /\ Len(fired) \in Nat /\ Len(fired') = Len(fired) + 1
      /\ \A k \in 1 .. Len(fired) : fired'[k] = fired[k]
      /\ fired'[Len(fired) + 1] = Pair(KindAt, SlotAt)
  <2>1. fired \in Seq(Kind \X Fd)
    BY DEF TypeOK
  <2>2. <<KindAt, FiredFd>> \in Kind \X Fd
    BY <1>2, <1>3, <1>4 DEF Reported, FiredFd, TypeOK
  <2> QED
    BY <1>2, <1>4, <2>1, <2>2, AppendProperties, LenProperties
<1> DEFINE New == Len(fired) + 1
<1>8. \A k \in 1 .. Len(fired') : k \in 1 .. Len(fired) \/ k = New
  BY <1>7
<1>9. \A k \in 1 .. Len(fired) :
        \E kind \in Kind, s \in Slot :
          /\ Place(kind, s) < pos /\ Reported(kind, s) /\ fired[k] = Pair(kind, s)
  BY <1>1 DEF Turn, Served, InPass
<1>10. ASSUME NEW kind \in Kind, NEW s \in Slot, Place(kind, s) < pos', Reported(kind, s)'
       PROVE  \E k \in 1 .. Len(fired') : fired'[k] = Pair(kind, s)'
  <2>1. CASE Place(kind, s) < pos
    <3>1. PICK k \in 1 .. Len(fired) : fired[k] = Pair(kind, s)
      BY <1>1, <1>5, <1>10, <2>1 DEF Turn, Served, InPass
    <3>2. k \in 1 .. Len(fired') /\ fired'[k] = Pair(kind, s)'
      BY <1>5, <1>7, <3>1
    <3> QED
      BY <3>2
  <2>2. CASE Place(kind, s) = pos
    <3>1. New \in 1 .. Len(fired') /\ fired'[New] = Pair(kind, s)'
      BY <1>3, <1>5, <1>7, <2>2
    <3> QED
      BY <3>1
  <2> QED
    BY <1>1, <1>5, <1>10, <2>1, <2>2
<1>11. ASSUME NEW k \in 1 .. Len(fired')
       PROVE  \E kind \in Kind, s \in Slot :
                Place(kind, s) < pos' /\ Reported(kind, s)' /\ fired'[k] = Pair(kind, s)'
  <2>1. CASE k \in 1 .. Len(fired)
    <3>1. PICK kind \in Kind, s \in Slot :
            Place(kind, s) < pos /\ Reported(kind, s) /\ fired[k] = Pair(kind, s)
      BY <1>9, <2>1
    <3>2. Place(kind, s) < pos' /\ Reported(kind, s)' /\ fired'[k] = Pair(kind, s)'
      BY <1>1, <1>5, <1>7, <2>1, <3>1
    <3> QED
      BY <3>2
  <2>2. CASE k = New
    <3>1. PICK kind \in Kind, s \in Slot : kind = KindAt /\ s = SlotAt
      BY <1>3
    <3>2. Place(kind, s) < pos' /\ Reported(kind, s)' /\ fired'[k] = Pair(kind, s)'
      BY <1>1, <1>3, <1>4, <1>5, <1>7, <2>2, <3>1
    <3> QED
      BY <3>2
  <2> QED
    BY <1>8, <2>1, <2>2
<1>12. ASSUME NEW j \in 1 .. Len(fired'), NEW k \in 1 .. Len(fired'), j < k
       PROVE  /\ fired'[j] # fired'[k]
              /\ ~(fired'[j][1] = "write" /\ fired'[k][1] = "read")
  <2>1. j \in 1 .. Len(fired) /\ fired'[j] = fired[j]
    BY <1>7, <1>12
  <2>2. CASE k \in 1 .. Len(fired)
    BY <1>1, <1>7, <1>12, <2>1, <2>2 DEF Turn, Served, InPass
  <2>3. CASE k = New
    <3>1. PICK kind \in Kind, s \in Slot :
            Place(kind, s) < pos /\ Reported(kind, s) /\ fired[j] = Pair(kind, s)
      BY <1>9, <2>1
    <3>2. Pair(kind, s) # Pair(KindAt, SlotAt)
      <4> SUFFICES ASSUME Pair(kind, s) = Pair(KindAt, SlotAt) PROVE FALSE
        OBVIOUS
      <4>1. kind = KindAt /\ s = SlotAt
        BY <1>3, <1>4, <3>1 DEF Pair, Reported, OncePerRegistry
      <4> QED
        BY <1>1, <1>3, <3>1, <4>1
    <3>3. kind = "write" => KindAt = "write"
      BY <1>1, <3>1, Sizes DEF Place, KindAt, Slot
    <3> QED
      BY <1>7, <2>1, <2>3, <3>1, <3>2, <3>3 DEF Pair
  <2> QED
    BY <1>8, <2>2, <2>3
<1>13. Served'
  BY <1>10, <1>11, <1>12 DEF Served, InPass
<1> QED
  BY <1>2, <1>6, <1>13 DEF Turn, Asked, Between, InPass

\* A slot without a registered, reported descriptor is passed over.
LEMMA TurnSkips ==
  ASSUME TypeOK, Turn, skipSlot
  PROVE  Turn'
<1>1. pc = "fire" /\ pos \in 0 .. 2 * MaxFds - 1 /\ pos' = pos + 1
  BY Sizes DEF skipSlot, TypeOK
<1>2. pc' = "fire" /\ UNCHANGED <<registry, fds, reported, ready, fired>>
  BY <1>1 DEF skipSlot
<1>3. \A kind \in Kind, s \in Slot : /\ Reported(kind, s)' <=> Reported(kind, s)
                                     /\ Pair(kind, s)' = Pair(kind, s)
                                     /\ Place(kind, s) \in Int
  BY <1>2, PlaceOfSlot DEF Reported, Pair
<1>4. \A kind \in Kind, s \in Slot : Place(kind, s) = pos => ~Reported(kind, s)
  BY <1>1, SlotOfPlace DEF skipSlot, IsSet, Reported, FiredFd
<1>5. Pending'
  <2>1. fds' = reported' /\ \A kind \in Kind : reported'[kind] \subseteq Registered(kind)'
    BY <1>1, <1>2, RegisteredStays DEF Turn, Pending, InPass
  <2>2. ASSUME NEW kind \in Kind, NEW s \in Slot,
               Place(kind, s) >= pos', Reported(kind, s)'
        PROVE  registry'[kind][s].fd \in ready'[kind]
    BY <1>1, <1>2, <1>3, <2>2 DEF Turn, Pending, InPass
  <2> QED
    BY <2>1, <2>2 DEF Pending, InPass
<1>6. \A kind \in Kind, s \in Slot :
        Reported(kind, s)' => (Place(kind, s) < pos' <=> Place(kind, s) < pos)
  BY <1>1, <1>3, <1>4
<1>7. Served'
  <2>1. ASSUME NEW kind \in Kind, NEW s \in Slot, Place(kind, s) < pos', Reported(kind, s)'
        PROVE  \E k \in 1 .. Len(fired') : fired'[k] = Pair(kind, s)'
    <3>1. Place(kind, s) < pos /\ Reported(kind, s)
      BY <1>3, <1>6, <2>1
    <3>2. PICK k \in 1 .. Len(fired) : fired[k] = Pair(kind, s)
      BY <1>1, <3>1 DEF Turn, Served, InPass
    <3> QED
      BY <1>2, <1>3, <3>2
  <2>2. ASSUME NEW k \in 1 .. Len(fired')
        PROVE  \E kind \in Kind, s \in Slot :
                 Place(kind, s) < pos' /\ Reported(kind, s)' /\ fired'[k] = Pair(kind, s)'
    <3>1. k \in 1 .. Len(fired) /\ fired'[k] = fired[k]
      BY <1>2
    <3>2. PICK kind \in Kind, s \in Slot :
            Place(kind, s) < pos /\ Reported(kind, s) /\ fired[k] = Pair(kind, s)
      BY <1>1, <3>1 DEF Turn, Served, InPass
    <3>3. Place(kind, s) < pos' /\ Reported(kind, s)' /\ fired'[k] = Pair(kind, s)'
      BY <1>3, <1>6, <3>1, <3>2
    <3> QED
      BY <3>3
  <2>3. ASSUME NEW j \in 1 .. Len(fired'), NEW k \in 1 .. Len(fired'), j < k
        PROVE  /\ fired'[j] # fired'[k]
               /\ ~(fired'[j][1] = "write" /\ fired'[k][1] = "read")
    BY <1>1, <1>2, <2>3 DEF Turn, Served, InPass
  <2> QED
    BY <2>1, <2>2, <2>3 DEF Served, InPass
<1> QED
  BY <1>2, <1>5, <1>7 DEF Turn, Asked, Between, InPass

\* Before the pass: the sets are built from the registries as they are.
LEMMA TurnAsks ==
  ASSUME TypeOK, Known, Turn, buildFDSet
  PROVE  Turn'
<1> DEFINE highest == Highest(max_fd, "read")
<1>1. /\ pc = "build" /\ pc' = "select" /\ UNCHANGED <<registry, pos, fired>>
      /\ fds' = [kind \in Kind |-> Registered(kind)]
      /\ max_fd' = Highest(highest, "write")
  BY DEF buildFDSet
<1>2. /\ highest \in Fd \cup {-1, 0}
      /\ \A fd \in Registered("read") : highest >= fd
  BY HighestOf, Sizes DEF TypeOK
<1>3. /\ Highest(highest, "write") >= highest
      /\ \A fd \in Registered("write") : Highest(highest, "write") >= fd
      /\ Highest(highest, "write") \in Fd \cup {-1, 0}
  BY <1>2, HighestOf, Sizes
<1>4. /\ \A x \in Fd \cup {-1, 0} : x \in Int
      /\ \A kind \in Kind : \A fd \in Registered(kind) : fd \in Int
  <2>1. \A kind \in Kind : Registered(kind) \in SUBSET Fds[kind]
    BY RegisteredFinite
  <2>2. \A x \in Fd : x \in Int
    BY Sizes
  <2>3. -1 \in Int /\ 0 \in Int
    OBVIOUS
  <2> QED
    BY <2>1, <2>2, <2>3, Sizes
<1> HIDE DEF highest
<1>5. ASSUME NEW kind \in Kind, NEW fd \in Registered(kind) PROVE fd <= max_fd'
  <2>1. fd \in Int /\ highest \in Int /\ max_fd' \in Int /\ max_fd' >= highest
    BY <1>1, <1>2, <1>3, <1>4
  <2>2. CASE kind = "read"
    <3>1. highest >= fd
      BY <1>2, <2>2
    <3> QED
      BY <2>1, <3>1
  <2>3. CASE kind = "write"
    <3>1. max_fd' >= fd
      BY <1>1, <1>3, <2>3
    <3> QED
      BY <2>1, <3>1
  <2> QED
    BY <2>2, <2>3, Sizes
<1>6. Asked'
  BY <1>1, <1>5, RegisteredStays DEF Asked
<1> QED
  BY <1>1, <1>6 DEF Turn, Pending, Served, Between, InPass

\* What becomes ready meanwhile disturbs nothing.
LEMMA TurnGoesOn ==
  ASSUME TypeOK, Turn, NEW kind \in Kind, NEW fd \in Fds[kind], BecomeReady(kind, fd)
  PROVE  Turn'
<1>1. /\ UNCHANGED <<registry, fds, max_fd, pc, pos, reported, fired>>
      /\ \A k \in Kind : ready[k] \subseteq ready'[k]
  BY DEF BecomeReady, TypeOK
<1>2. /\ \A k \in Kind : Registered(k)' = Registered(k)
      /\ \A k \in Kind, s \in Slot : /\ Reported(k, s)' <=> Reported(k, s)
                                     /\ Pair(k, s)' = Pair(k, s)
  BY <1>1, RegisteredStays DEF Reported, Pair
<1>3. Asked'
  <2>1. fds = [k \in Kind |-> Registered(k)] => fds' = [k \in Kind |-> Registered(k)']
    BY <1>1, <1>2
  <2> QED
    BY <1>1, <1>2, <2>1 DEF Turn, Asked
<1>4. Pending'
  BY <1>1, <1>2 DEF Turn, Pending, InPass
<1>5. Served'
  BY <1>1, <1>2 DEF Turn, Served, InPass
<1> QED
  BY <1>1, <1>3, <1>4, <1>5 DEF Turn, Between, InPass

LEMMA TurnByStep ==
  TypeOK /\ Known /\ OncePerRegistry /\ Turn /\ [Next]_vars => Turn'
<1> SUFFICES ASSUME TypeOK, Known, OncePerRegistry, Turn, [Next]_vars
             PROVE  Turn'
  OBVIOUS
<1>1. ASSUME NEW kind \in Kind, NEW fd \in Fds[kind],
             \/ unregisterFD(kind, fd)
             \/ \E noName, noBuffer \in SUBSET Slot :
                  registerFD(kind, fd, noName, noBuffer)
      PROVE  Turn'
  <2>1. pc = "build" /\ pc' = "build" /\ UNCHANGED <<pos, fired>>
    BY <1>1 DEF registerFD, unregisterFD
  <2> QED
    BY <2>1 DEF Turn, Asked, Pending, Served, Between, InPass
<1>2. CASE selectTimeout \/ selectError
  <2>1. pc = "select" /\ pc' = "build" /\ UNCHANGED <<pos, fired>>
    BY <1>2 DEF selectTimeout, selectError
  <2> QED
    BY <2>1 DEF Turn, Asked, Pending, Served, Between, InPass
<1>3. CASE poke
  BY <1>3 DEF poke, Turn, Asked, Pending, Served, Between, InPass
<1>4. CASE UNCHANGED vars \/ sendReturns \/ sendFails
  <2> DEFINE rest == <<registry, fds, max_fd, pos, ready, memory, reported, fired>>
  <2>0. /\ UNCHANGED rest
        /\ InPass' <=> InPass
        /\ pc' = "select" <=> pc = "select"
    BY <1>4 DEF vars, InPass, sendReturns, sendFails, Stalled
  <2>1. /\ \A kind \in Kind : Registered(kind)' = Registered(kind)
        /\ \A kind \in Kind, s \in Slot : /\ Reported(kind, s)' <=> Reported(kind, s)
                                          /\ Pair(kind, s)' = Pair(kind, s)
    BY <2>0, RegisteredStays DEF Reported, Pair
  <2>2. Asked'
    <3>1. fds = [k \in Kind |-> Registered(k)] => fds' = [k \in Kind |-> Registered(k)']
      BY <2>0, <2>1
    <3> QED
      BY <2>0, <2>1, <3>1 DEF Turn, Asked
  <2>3. Pending' /\ Served' /\ Between'
    BY <2>0, <2>1 DEF Turn, Pending, Served, Between, InPass
  <2> QED
    BY <2>2, <2>3 DEF Turn
<1> QED
  BY <1>1, <1>2, <1>3, <1>4, TurnStarts, TurnCallsBack, TurnSkips, TurnAsks, TurnGoesOn
     DEF Next

LEMMA IInvAtInit == Init => IInv
<1> SUFFICES ASSUME Init PROVE IInv
  OBVIOUS
<1>1. TypeOK /\ Known
  BY TypesAtInit
<1>2. SlotsOwnTheirMemory /\ Buffered /\ OncePerRegistry
  BY DEF Init, SlotsOwnTheirMemory, Buffered, OncePerRegistry, Unused
<1>3. Asked /\ Pending /\ Served /\ Between
  BY DEF Init, Asked, Pending, Served, Between, InPass
<1> QED
  BY <1>1, <1>2, <1>3 DEF IInv

LEMMA IInvByStep == IInv /\ [Next]_vars => IInv'
BY TypesByStep, SlotsByStep, TurnByStep DEF IInv, Turn

THEOREM IInvAlways == Spec => []IInv
BY IInvAtInit, IInvByStep, PTL DEF Spec

\* select() is asked about every registered descriptor and about none besides,
\* for all registries: max_fd is high enough whatever turn came before.
THEOREM AsksForAll == Spec => []SelectAsksForAll
<1>1. IInv => SelectAsksForAll
  <2> SUFFICES ASSUME IInv, pc = "select", NEW kind \in Kind
               PROVE  {fd \in fds[kind] : fd <= max_fd} = Registered(kind)
    BY DEF SelectAsksForAll
  <2> QED
    BY DEF IInv, Asked
<1> QED
  BY <1>1, IInvAlways, PTL

\* At the end of a turn every reported descriptor has had its callback, once,
\* readers first: for any number of slots and any order they were taken in.
THEOREM ServesAll == Spec => []TurnServesAll
<1>1. IInv => TurnServesAll
  <2> SUFFICES ASSUME IInv, pc = "fire", pos = 2 * MaxFds
               PROVE  /\ {fired[k] : k \in 1 .. Len(fired)}
                           = UNION {{kind} \X reported[kind] : kind \in Kind}
                      /\ \A j, k \in 1 .. Len(fired) :
                           j < k => /\ fired[j] # fired[k]
                                    /\ <<fired[j][1], fired[k][1]>> # <<"write", "read">>
    BY DEF TurnServesAll
  <2>1. ASSUME NEW k \in 1 .. Len(fired)
        PROVE  \E kind \in Kind : \E fd \in reported[kind] : fired[k] = <<kind, fd>>
    <3>1. PICK kind \in Kind, s \in Slot : Reported(kind, s) /\ fired[k] = Pair(kind, s)
      BY DEF IInv, Served, InPass
    <3>2. registry[kind][s].fd \in reported[kind]
      BY <3>1 DEF IInv, Pending, Reported, InPass
    <3> QED
      BY <3>1, <3>2 DEF Pair
  <2>2. ASSUME NEW kind \in Kind, NEW fd \in reported[kind]
        PROVE  \E k \in 1 .. Len(fired) : fired[k] = <<kind, fd>>
    <3>1. fd \in Registered(kind) /\ fd \in fds[kind]
      BY DEF IInv, Pending, InPass
    <3>2. PICK s \in Slot : registry[kind][s].enabled /\ registry[kind][s].fd = fd
      BY <3>1 DEF Registered
    <3>3. Reported(kind, s) /\ Pair(kind, s) = <<kind, fd>>
      BY <3>1, <3>2 DEF Reported, Pair
    <3>4. Place(kind, s) < pos
      BY PlaceOfSlot, Sizes
    <3> QED
      BY <3>3, <3>4 DEF IInv, Served, InPass
  <2>3. {fired[k] : k \in 1 .. Len(fired)}
          = UNION {{kind} \X reported[kind] : kind \in Kind}
    <3>1. ASSUME NEW x \in {fired[k] : k \in 1 .. Len(fired)}
          PROVE  x \in UNION {{kind} \X reported[kind] : kind \in Kind}
      <4>1. PICK kind \in Kind : \E fd \in reported[kind] : x = <<kind, fd>>
        BY <2>1, <3>1
      <4>2. x \in {kind} \X reported[kind]
        BY <4>1
      <4> QED
        BY <4>2
    <3>2. ASSUME NEW x \in UNION {{kind} \X reported[kind] : kind \in Kind}
          PROVE  x \in {fired[k] : k \in 1 .. Len(fired)}
      <4>1. PICK kind \in Kind : x \in {kind} \X reported[kind]
        BY <3>2
      <4>2. PICK fd \in reported[kind] : x = <<kind, fd>>
        BY <4>1
      <4> QED
        BY <2>2, <4>2
    <3> QED
      BY <3>1, <3>2
  <2>4. \A j, k \in 1 .. Len(fired) :
          j < k => /\ fired[j] # fired[k]
                   /\ <<fired[j][1], fired[k][1]>> # <<"write", "read">>
    BY DEF IInv, Served, InPass
  <2> QED
    BY <2>3, <2>4
<1> QED
  BY <1>1, IInvAlways, PTL

\* A callback is called only while its descriptor is ready: the sets that earlier
\* turns left, after a timeout or an error, are never taken for an answer.
THEOREM NeverBlocks == Spec => CallbacksDoNotBlock
<1> DEFINE A == \A k \in 1 .. Len(fired') :
                  k > Len(fired) => fired'[k][2] \in ready[fired'[k][1]]
<1>1. IInv /\ [Next]_vars => [A]_vars
  <2> SUFFICES ASSUME IInv, Next PROVE A
    OBVIOUS
  <2> HIDE DEF A
  <2>1. TypeOK /\ Pending
    BY DEF IInv
  <2>2. fired \in Seq(Kind \X Fd) /\ Len(fired) \in Nat
    BY <2>1 DEF TypeOK
  <2>3. CASE callBack
    <3>1. pc = "fire" /\ pos \in 0 .. 2 * MaxFds - 1
      BY <2>1, <2>3, Sizes DEF callBack, CallsBack, TypeOK
    <3>2. /\ KindAt \in Kind /\ SlotAt \in Slot /\ Place(KindAt, SlotAt) = pos
      BY <3>1, SlotOfPlace
    <3>3. Reported(KindAt, SlotAt)
      BY <2>3 DEF callBack, CallsBack, IsSet, FiredFd, Reported
    <3>4. FiredFd \in ready[KindAt]
      BY <2>1, <3>1, <3>2, <3>3 DEF Pending, FiredFd, TypeOK, InPass
    <3>5. <<KindAt, FiredFd>> \in Kind \X Fd
      BY <2>1, <3>2, <3>4 DEF TypeOK
    <3>6. /\ Len(fired') = Len(fired) + 1
          /\ fired'[Len(fired) + 1] = <<KindAt, FiredFd>>
      BY <2>2, <2>3, <3>5, AppendProperties DEF callBack, CallsBack
    <3>7. ASSUME NEW k \in 1 .. Len(fired'), k > Len(fired)
          PROVE  fired'[k][2] \in ready[fired'[k][1]]
      <4>1. k = Len(fired) + 1
        BY <2>2, <3>6, <3>7
      <4> QED
        BY <3>4, <3>6, <4>1
    <3> QED
      BY <3>7 DEF A
  <2>4. CASE poke
    <3>1. Len(fired') = 0
      BY <2>4 DEF poke
    <3> QED
      BY <3>1 DEF A
  <2>5. CASE fired' = fired
    BY <2>2, <2>5 DEF A
  <2>6. callBack \/ poke \/ fired' = fired
    <3>1. ASSUME NEW kind \in Kind, NEW fd \in Fds[kind],
                 \/ unregisterFD(kind, fd) \/ BecomeReady(kind, fd)
                 \/ \E noName, noBuffer \in SUBSET Slot :
                      registerFD(kind, fd, noName, noBuffer)
          PROVE  fired' = fired
      <4>1. CASE unregisterFD(kind, fd)
        BY <4>1 DEF unregisterFD
      <4>2. CASE BecomeReady(kind, fd)
        BY <4>2 DEF BecomeReady
      <4>3. CASE \E noName, noBuffer \in SUBSET Slot :
                   registerFD(kind, fd, noName, noBuffer)
        BY <4>3 DEF registerFD
      <4> QED
        BY <3>1, <4>1, <4>2, <4>3
    <3>2. ASSUME \/ buildFDSet \/ selectFDSet \/ selectTimeout \/ selectError
                 \/ sendReturns \/ sendFails \/ skipSlot
          PROVE  fired' = fired
      BY <3>2 DEF buildFDSet, selectFDSet, selectTimeout, selectError, sendReturns,
         sendFails, skipSlot
    <3>3. \/ \E kind \in Kind : \E fd \in Fds[kind] :
               \/ unregisterFD(kind, fd) \/ BecomeReady(kind, fd)
               \/ \E noName, noBuffer \in SUBSET Slot :
                    registerFD(kind, fd, noName, noBuffer)
          \/ buildFDSet \/ selectFDSet \/ selectTimeout \/ selectError
          \/ sendReturns \/ sendFails \/ skipSlot
          \/ callBack \/ poke
      BY Zenon DEF Next
    <3> QED
      BY <3>1, <3>2, <3>3, Zenon
  <2> QED
    BY <2>3, <2>4, <2>5, <2>6
<1> QED
  BY <1>1, IInvAlways, PTL DEF Spec, CallbacksDoNotBlock

=============================================================================
