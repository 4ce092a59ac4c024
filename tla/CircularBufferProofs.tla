------------------------ MODULE CircularBufferProofs ------------------------
(***************************************************************************)
(* For every ring size, element size and content: the invariants of         *)
(* CircularBuffer and its refinement of BoundedFifo.                        *)
(***************************************************************************)
EXTENDS CircularBuffer, SequenceTheorems, TLAPS

-----------------------------------------------------------------------------
(* The arithmetic of the ring *)

\* The index (i + 1) % size of the code: one up, or back to slot 0.
LEMMA AdvanceWraps ==
  ASSUME NEW i \in Slots
  PROVE  /\ Advance(i) = IF i = BufferSize - 1 THEN 0 ELSE i + 1
         /\ Advance(i) \in Slots
<1>1. CASE i = BufferSize - 1
  <2>1. BufferSize % BufferSize = 0
    BY BufferSizeAssumption, SMT
  <2> QED
    BY <1>1, <2>1, BufferSizeAssumption DEF Advance, Slots
<1>2. CASE i # BufferSize - 1
  <2>1. i + 1 \in 0 .. BufferSize - 1
    BY <1>2, BufferSizeAssumption DEF Slots
  <2>2. (i + 1) % BufferSize = i + 1
    BY <2>1, BufferSizeAssumption, SMT
  <2> QED
    BY <1>2, <2>1, <2>2 DEF Advance, Slots
<1> QED
  BY <1>1, <1>2

\* The number of live slots, and the slots they are, stay inside the ring.
LEMMA CountInRing ==
  ASSUME NEW f \in Slots, NEW l \in Slots
  PROVE  /\ Count(f, l) \in 0 .. BufferSize - 1
         /\ \A k \in 1 .. Count(f, l) : Slot(f, k) \in Slots
         /\ Count(f, l) = 0 <=> f = l
         /\ Count(f, l) = BufferSize - 1 <=> Advance(l) = f
  BY AdvanceWraps, BufferSizeAssumption DEF Count, Slot, Slots

\* A live ring is a sequence of its elements, oldest first.
LEMMA ElementsSeq ==
  ASSUME NEW f \in Slots, NEW l \in Slots, NEW h,
         \A k \in 1 .. Count(f, l) : h[Slot(f, k)] \in Element
  PROVE  /\ Elements(h, f, l) \in Seq(Element)
         /\ Len(Elements(h, f, l)) = Count(f, l)
         /\ \A k \in 1 .. Count(f, l) : Elements(h, f, l)[k] = h[Slot(f, k)]
<1>1. Count(f, l) \in Nat
  BY CountInRing, BufferSizeAssumption
<1>2. Elements(h, f, l) \in [1 .. Count(f, l) -> Element]
  BY DEF Elements
<1> QED
  BY <1>1, <1>2 DEF Elements

\* Appending to a ring with room is appending to its sequence.
LEMMA AddWithRoom ==
  ASSUME NEW f \in Slots, NEW l \in Slots, NEW h, NEW e \in Element,
         DOMAIN h = Slots,
         \A k \in 1 .. Count(f, l) : h[Slot(f, k)] \in Element,
         Advance(l) # f
  PROVE  Elements([h EXCEPT ![l] = e], f, Advance(l))
           = Append(Elements(h, f, l), e)
<1> DEFINE g == [h EXCEPT ![l] = e]
           n == Count(f, l)
<1>1. n \in Nat /\ Count(f, Advance(l)) = n + 1
  <2>1. Advance(l) = IF l = BufferSize - 1 THEN 0 ELSE l + 1
    BY AdvanceWraps
  <2> HIDE DEF g
  <2> QED
    BY <2>1, BufferSizeAssumption DEF Count, Slots
<1>2. \A k \in 1 .. n : Slot(f, k) \in Slots /\ Slot(f, k) # l
  BY BufferSizeAssumption DEF Count, Slot, Slots
<1>3. Slot(f, n + 1) = l
  BY BufferSizeAssumption DEF Count, Slot, Slots
<1>4. \A k \in 1 .. n + 1 :
        g[Slot(f, k)] = IF k = n + 1 THEN e ELSE h[Slot(f, k)]
  BY <1>1, <1>2, <1>3
<1>5. Elements(g, f, Advance(l))
        = [k \in 1 .. n + 1 |-> IF k = n + 1 THEN e ELSE h[Slot(f, k)]]
  BY <1>1, <1>4 DEF Elements
<1>6. /\ Elements(h, f, l) \in Seq(Element)
      /\ Len(Elements(h, f, l)) = n
      /\ \A k \in 1 .. n : Elements(h, f, l)[k] = h[Slot(f, k)]
  BY ElementsSeq
<1> HIDE DEF n, g
<1>7. Append(Elements(h, f, l), e)
        = [k \in 1 .. n + 1 |-> IF k = n + 1 THEN e ELSE h[Slot(f, k)]]
  <2> DEFINE q == Elements(h, f, l)
  <2> HIDE DEF q
  <2>1. /\ Append(q, e) \in Seq(Element)
        /\ Len(Append(q, e)) = n + 1
        /\ \A k \in 1 .. n : Append(q, e)[k] = h[Slot(f, k)]
        /\ Append(q, e)[n + 1] = e
    BY <1>1, <1>6, AppendProperties DEF q
  <2>2. Append(q, e) = [k \in 1 .. n + 1 |-> Append(q, e)[k]]
    BY <2>1, LenProperties
  <2>3. \A k \in 1 .. n + 1 :
          Append(q, e)[k] = IF k = n + 1 THEN e ELSE h[Slot(f, k)]
    BY <1>1, <2>1
  <2> QED
    BY <2>2, <2>3 DEF q
<1> QED
  BY <1>5, <1>7 DEF g

\* Taking the oldest slot is taking the head of the sequence.
LEMMA TakeOldest ==
  ASSUME NEW f \in Slots, NEW l \in Slots, NEW h,
         \A k \in 1 .. Count(f, l) : h[Slot(f, k)] \in Element,
         f # l
  PROVE  /\ Elements(h, Advance(f), l) = Tail(Elements(h, f, l))
         /\ Head(Elements(h, f, l)) = h[f]
         /\ Elements(h, f, l) # << >>
         /\ Count(Advance(f), l) = Count(f, l) - 1
         /\ \A k \in 1 .. Count(f, l) - 1 : Slot(Advance(f), k) = Slot(f, k + 1)
<1> DEFINE n == Count(f, l)
<1>1. n \in Nat /\ n >= 1 /\ Count(Advance(f), l) = n - 1
  BY AdvanceWraps, BufferSizeAssumption DEF Count, Slots
<1>2. \A k \in 1 .. n - 1 : Slot(Advance(f), k) = Slot(f, k + 1)
  BY AdvanceWraps, BufferSizeAssumption DEF Count, Slot, Slots
<1>3. Slot(f, 1) = f
  BY BufferSizeAssumption DEF Slot, Slots
<1>4. Elements(h, Advance(f), l) = [k \in 1 .. n - 1 |-> h[Slot(f, k + 1)]]
  BY <1>1, <1>2 DEF Elements
<1>5. /\ Elements(h, f, l) \in Seq(Element)
      /\ Len(Elements(h, f, l)) = n
      /\ \A k \in 1 .. n : Elements(h, f, l)[k] = h[Slot(f, k)]
  BY ElementsSeq
<1> HIDE DEF n
<1>6. Tail(Elements(h, f, l)) = [k \in 1 .. n - 1 |-> h[Slot(f, k + 1)]]
  <2> DEFINE q == Elements(h, f, l)
  <2> HIDE DEF q
  <2>1. q # << >>
    BY <1>1, <1>5 DEF q
  <2>2. /\ Tail(q) \in Seq(Element)
        /\ Len(Tail(q)) = n - 1
        /\ \A k \in 1 .. n - 1 : Tail(q)[k] = q[k + 1]
    BY <1>5, <2>1, HeadTailProperties DEF q
  <2>3. Tail(q) = [k \in 1 .. n - 1 |-> Tail(q)[k]]
    BY <2>2, LenProperties
  <2>4. \A k \in 1 .. n - 1 : q[k + 1] = h[Slot(f, k + 1)]
    BY <1>1, <1>5 DEF q
  <2> QED
    BY <2>2, <2>3, <2>4 DEF q
<1>7. Elements(h, f, l) # << >> /\ Head(Elements(h, f, l)) = h[f]
  BY <1>1, <1>3, <1>5
<1> QED
  BY <1>1, <1>2, <1>4, <1>6, <1>7 DEF n

-----------------------------------------------------------------------------
(* Invariants *)

\* Before initBundleBuffer() there is nothing in the ring: with the two
\* properties of CircularBuffer, what every step preserves.
IInv == TypeOK /\ LiveSlotsWritten /\ (~created => first = last)

\* Every step keeps the indexes in the ring and the live slots written.
LEMMA IInvInvariant == Spec => []IInv
<1>1. Init => IInv
  <2> SUFFICES ASSUME Init PROVE IInv
    OBVIOUS
  <2>1. first \in Slots /\ last \in Slots /\ first = last
    BY BufferSizeAssumption DEF Init, Slots
  <2>2. TypeOK
    BY <2>1 DEF Init, TypeOK, Reply
  <2>3. Count(first, last) = 0
    BY <2>1, CountInRing
  <2> QED
    BY <2>1, <2>2, <2>3 DEF IInv, LiveSlotsWritten
<1>2. IInv /\ [Next]_vars => IInv'
  <2> SUFFICES ASSUME IInv, [Next]_vars PROVE IInv'
    OBVIOUS
  <2> USE DEF IInv
  <2>1. CASE initBundleBuffer
    <3>1. CASE created
      BY <2>1, <3>1 DEF initBundleBuffer, TypeOK, LiveSlotsWritten, Reply
    <3>2. CASE ~created
      BY <2>1, <3>2, BufferSizeAssumption
         DEF initBundleBuffer, TypeOK, LiveSlotsWritten, Reply, Slots, Count,
             Unwritten
    <3> QED
      BY <3>1, <3>2
  <2>2. ASSUME NEW el \in Element, addToBuffer(el)
        PROVE  IInv'
    <3>1. TypeOK'
      BY <2>2, AdvanceWraps DEF addToBuffer, TypeOK, Reply, Element
    <3>2. ASSUME NEW k \in 1 .. Count(first', last')
          PROVE  /\ head'[Slot(first', k)] \in Element
                 /\ head'[Slot(first', k)].size <= MaxElemSize
      <4>1. head' = [head EXCEPT ![last] = el] /\ el.size <= MaxElemSize
        BY <2>2 DEF addToBuffer
      <4>2. Slot(first', k) \in Slots
        BY <3>1, CountInRing DEF TypeOK
      <4>3. CASE Slot(first', k) = last
        BY <4>1, <4>2, <4>3 DEF TypeOK
      <4>4. CASE Slot(first', k) # last
        <5>1. \E j \in 1 .. Count(first, last) : Slot(first', k) = Slot(first, j)
          <6>1. Advance(first) = IF first = BufferSize - 1 THEN 0 ELSE first + 1
            BY AdvanceWraps DEF TypeOK
          <6>2. Advance(last) = IF last = BufferSize - 1 THEN 0 ELSE last + 1
            BY AdvanceWraps DEF TypeOK
          <6>3. CASE Advance(last) = first
            <7>1. first' = Advance(first) /\ last' = Advance(last)
              BY <2>2, <6>3 DEF addToBuffer, IsFull
            <7>2. /\ k + 1 \in 1 .. Count(first, last)
                  /\ Slot(first', k) = Slot(first, k + 1)
              BY <4>4, <6>1, <6>2, <6>3, <7>1, BufferSizeAssumption
                 DEF TypeOK, Slots, Count, Slot
            <7> QED
              BY <7>2
          <6>4. CASE Advance(last) # first
            <7>1. first' = first /\ last' = Advance(last)
              BY <2>2, <6>4 DEF addToBuffer, IsFull
            <7>2. k \in 1 .. Count(first, last)
              BY <4>4, <6>2, <6>4, <7>1, BufferSizeAssumption
                 DEF TypeOK, Slots, Count, Slot
            <7> QED
              BY <7>1, <7>2
          <6> QED
            BY <6>3, <6>4
        <5>2. head'[Slot(first', k)] = head[Slot(first', k)]
          BY <4>1, <4>2, <4>4 DEF TypeOK
        <5> QED
          BY <5>1, <5>2 DEF LiveSlotsWritten
      <4> QED
        BY <4>3, <4>4
    <3>3. created'
      BY <2>2 DEF addToBuffer
    <3> QED
      BY <3>1, <3>2, <3>3 DEF LiveSlotsWritten
  <2>3. ASSUME NEW s \in Sizes, popTopOfBuffer(s)
        PROVE  IInv'
    <3>1. /\ first' = Advance(first) /\ head' = head /\ last' = last
          /\ first # last /\ created'
      BY <2>3 DEF popTopOfBuffer, IsEmpty
    <3>2. 1 \in 1 .. Count(first, last) /\ Slot(first, 1) = first
      BY <3>1, BufferSizeAssumption DEF TypeOK, Slots, Count, Slot
    <3>3. head[first] \in Element
      BY <3>2 DEF LiveSlotsWritten
    <3>4. TypeOK'
      BY <2>3, <3>1, <3>3, AdvanceWraps
         DEF popTopOfBuffer, TypeOK, Reply, Element
    <3>5. /\ Count(first', last') = Count(first, last) - 1
          /\ \A k \in 1 .. Count(first, last) - 1 :
                Slot(first', k) = Slot(first, k + 1)
      <4>1. \A k \in 1 .. Count(first, last) : head[Slot(first, k)] \in Element
        BY DEF LiveSlotsWritten
      <4>2. first \in Slots /\ last \in Slots
        BY DEF TypeOK
      <4> HIDE DEF IInv
      <4> QED
        BY <3>1, <4>1, <4>2, TakeOldest
    <3>6. Count(first, last) \in Nat
      BY CountInRing, BufferSizeAssumption DEF TypeOK
    <3> HIDE DEF IInv
    <3>7. LiveSlotsWritten'
      <4> SUFFICES ASSUME NEW k \in 1 .. Count(first, last) - 1
                   PROVE  /\ head[Slot(first', k)] \in Element
                          /\ head[Slot(first', k)].size <= MaxElemSize
        BY <3>1, <3>5 DEF LiveSlotsWritten
      <4>1. k + 1 \in 1 .. Count(first, last)
        BY <3>6
      <4> QED
        BY <3>5, <4>1 DEF LiveSlotsWritten, IInv
    <3> QED
      BY <3>1, <3>4, <3>7 DEF IInv
  <2>4. ASSUME NEW s \in Sizes, refuseAdd(s) \/ refusePop(s)
        PROVE  IInv'
    BY <2>4 DEF refuseAdd, refusePop, TypeOK, LiveSlotsWritten, Failure, Reply
  <2>5. CASE isEmpty
    BY <2>5 DEF isEmpty, TypeOK, LiveSlotsWritten, Reply
  <2>6. CASE UNCHANGED vars
    BY <2>6 DEF vars, TypeOK, LiveSlotsWritten
  <2> QED
    BY <2>1, <2>2, <2>3, <2>4, <2>5, <2>6 DEF Next
<1> QED
  BY <1>1, <1>2, PTL DEF Spec

\* createBuffer(), addToBuffer() and popTopOfBuffer() keep both indexes inside
\* the ring, whatever its size.
THEOREM TypeCorrect == Spec => []TypeOK
<1>1. IInv => TypeOK
  BY DEF IInv
<1> QED
  BY <1>1, IInvInvariant, PTL

\* popTopOfBuffer() only ever hands out what addToBuffer() wrote, and never
\* more bytes than a slot has.
THEOREM OnlyWrittenSlotsLive == Spec => []LiveSlotsWritten
<1>1. IInv => LiveSlotsWritten
  BY DEF IInv
<1> QED
  BY <1>1, IInvInvariant, PTL

-----------------------------------------------------------------------------
(* Refinement *)

\* The ring implements the drop-oldest queue: every call of BundleBuffer.c
\* behaves as the operation of BoundedFifo of that name, for every ring size.
THEOREM Refinement == Spec => ImplementsFifo
<1> DEFINE queue == Elements(head, first, last)
<1>1. IInv => /\ \A k \in 1 .. Count(first, last) :
                    head[Slot(first, k)] \in Element
              /\ first \in Slots /\ last \in Slots /\ DOMAIN head = Slots
              /\ Count(first, last) \in Nat
              /\ queue \in Seq(Element)
              /\ Len(queue) = Count(first, last)
              /\ queue = << >> <=> first = last
  <2> SUFFICES ASSUME IInv
               PROVE  /\ \A k \in 1 .. Count(first, last) :
                            head[Slot(first, k)] \in Element
                      /\ first \in Slots /\ last \in Slots
                      /\ DOMAIN head = Slots
                      /\ Count(first, last) \in Nat
                      /\ queue \in Seq(Element)
                      /\ Len(queue) = Count(first, last)
                      /\ queue = << >> <=> first = last
    OBVIOUS
  <2>1. \A k \in 1 .. Count(first, last) : head[Slot(first, k)] \in Element
    BY DEF IInv, LiveSlotsWritten
  <2>2. first \in Slots /\ last \in Slots /\ DOMAIN head = Slots
    BY DEF IInv, TypeOK
  <2>3. Count(first, last) \in Nat /\ (Count(first, last) = 0 <=> first = last)
    BY <2>2, CountInRing, BufferSizeAssumption
  <2>4. queue \in Seq(Element) /\ Len(queue) = Count(first, last)
    BY <2>1, <2>2, ElementsSeq
  <2>5. queue = << >> <=> Len(queue) = 0
    BY <2>4, EmptySeq
  <2> QED
    BY <2>1, <2>2, <2>3, <2>4, <2>5
<1>2. Init => Fifo!Init
  <2> SUFFICES ASSUME Init PROVE Fifo!Init
    OBVIOUS
  <2>1. first = last /\ first \in Slots
    BY BufferSizeAssumption DEF Init, Slots
  <2>2. Count(first, last) = 0
    BY <2>1, CountInRing
  <2>3. queue = << >>
    BY <2>2 DEF Elements
  <2> QED
    BY <2>3 DEF Init, Fifo!Init, Reply, Fifo!Reply
<1>3. IInv /\ IInv' /\ [Next]_vars => [Fifo!Next]_(Fifo!vars)
  <2> SUFFICES ASSUME IInv, IInv', [Next]_vars
               PROVE  Fifo!Next \/ UNCHANGED Fifo!vars
    OBVIOUS
  <2>live. /\ \A k \in 1 .. Count(first, last) : head[Slot(first, k)] \in Element
           /\ first \in Slots /\ last \in Slots /\ DOMAIN head = Slots
    BY <1>1
  <2>len. /\ Count(first, last) \in Nat
          /\ Len(queue) = Count(first, last)
          /\ queue = << >> <=> first = last
    BY <1>1
  <2>1. CASE initBundleBuffer
    <3>1. queue' = queue
      <4>1. CASE created
        BY <2>1, <4>1 DEF initBundleBuffer
      <4>2. CASE ~created
        <5>1. first = last /\ first' = last'
          BY <2>1, <4>2 DEF initBundleBuffer, IInv
        <5>2. Count(first, last) = 0 /\ Count(first', last') = 0
          BY <5>1, CountInRing DEF IInv, TypeOK
        <5> QED
          BY <5>2 DEF Elements
      <4> QED
        BY <4>1, <4>2
    <3>2. Fifo!Create
      BY <2>1, <3>1 DEF initBundleBuffer, Fifo!Create, Reply, Fifo!Reply
    <3> QED
      BY <3>2 DEF Fifo!Next
  <2>2. ASSUME NEW el \in Element, addToBuffer(el)
        PROVE  Fifo!Next
    <3>1. queue' = Fifo!Push(queue, el)
      <4>1. head' = [head EXCEPT ![last] = el] /\ last' = Advance(last)
        BY <2>2 DEF addToBuffer
      <4>2. CASE Advance(last) # first
        <5>1. first' = first
          BY <2>2, <4>2 DEF addToBuffer, IsFull
        <5>3. queue' = Elements([head EXCEPT ![last] = el], first, Advance(last))
          BY <4>1, <5>1
        <5>2. Len(queue) # BufferSize - 1
          BY <2>live, <2>len, <4>2, CountInRing
        <5> QED
          BY <2>live, <4>2, <5>2, <5>3, AddWithRoom DEF Fifo!Push
      <4>3. CASE Advance(last) = first
        <5>1. first' = Advance(first)
          BY <2>2, <4>3 DEF addToBuffer, IsFull
        <5>2. Len(queue) = BufferSize - 1
          BY <2>live, <2>len, <4>3, CountInRing
        <5>3. first # last
          BY <2>live, <2>len, <5>2, BufferSizeAssumption, CountInRing
        <5>4. Elements(head, Advance(first), last) = Tail(queue)
          BY <2>live, <5>3, TakeOldest
        <5>5. \A k \in 1 .. Count(Advance(first), last) :
                head[Slot(Advance(first), k)] \in Element
          <6>1. /\ Count(Advance(first), last) = Count(first, last) - 1
                /\ \A k \in 1 .. Count(first, last) - 1 :
                      Slot(Advance(first), k) = Slot(first, k + 1)
            BY <2>live, <5>3, TakeOldest
          <6> QED
            BY <2>live, <2>len, <6>1
        <5>6. Advance(first) \in Slots /\ Advance(last) # Advance(first)
          BY <2>live, <2>len, <4>3, <5>3, AdvanceWraps, BufferSizeAssumption DEF Slots
        <5>7. queue' = Append(Tail(queue), el)
          <6>1. queue' = Elements([head EXCEPT ![last] = el], Advance(first),
                                  Advance(last))
            BY <4>1, <5>1
          <6> HIDE DEF queue
          <6>2. Elements([head EXCEPT ![last] = el], Advance(first), Advance(last))
                  = Append(Elements(head, Advance(first), last), el)
            BY <2>live, <5>5, <5>6, AddWithRoom
          <6> QED
            BY <5>4, <6>1, <6>2
        <5> QED
          BY <5>2, <5>7 DEF Fifo!Push
      <4> QED
        BY <4>2, <4>3
    <3>2. Fifo!Add(el)
      BY <2>2, <3>1 DEF addToBuffer, Fifo!Add, Reply, Fifo!Reply
    <3> QED
      BY <3>2 DEF Fifo!Next, Element, Fifo!Element
  <2>3. ASSUME NEW s \in Sizes, popTopOfBuffer(s)
        PROVE  Fifo!Next
    <3>1. first # last /\ first' = Advance(first) /\ head' = head /\ last' = last
      BY <2>3 DEF popTopOfBuffer, IsEmpty
    <3>2. queue' = Tail(queue) /\ Head(queue) = head[first] /\ queue # << >>
      <4>1. queue' = Elements(head, Advance(first), last)
        BY <3>1
      <4> QED
        BY <2>live, <3>1, <4>1, TakeOldest
    <3>3. head[first].size <= s
      <4>1. s \in Nat /\ head[first].size \in Nat
        <5>1. head[first] \in Element \cup {Unwritten}
          BY DEF IInv, TypeOK
        <5>2. CASE head[first] \in Element
          BY <5>2, SizeAssumption DEF Element
        <5>3. CASE head[first] = Unwritten
          BY <5>3, SizeAssumption DEF Unwritten
        <5> QED
          BY <5>1, <5>2, <5>3
      <4> QED
        BY <2>3, <4>1 DEF popTopOfBuffer
    <3>4. Fifo!Pop(s)
      BY <2>3, <3>2, <3>3 DEF popTopOfBuffer, Fifo!Pop, Reply, Fifo!Reply
    <3> QED
      BY <3>4 DEF Fifo!Next
  <2>4. ASSUME NEW s \in Sizes, refuseAdd(s)
        PROVE  Fifo!Next
    <3>1. Fifo!RefuseAdd(s)
      BY <2>4 DEF refuseAdd, Fifo!RefuseAdd, Failure, Fifo!Failure,
                  Reply, Fifo!Reply
    <3> QED
      BY <3>1 DEF Fifo!Next
  <2>5. ASSUME NEW s \in Sizes, refusePop(s)
        PROVE  Fifo!Next
    <3>1. ~created \/ queue = << >> \/ Head(queue).size > s
      <4>1. CASE created /\ first # last
        <5>1. Head(queue) = head[first]
          BY <2>live, <4>1, TakeOldest
        <5> QED
          BY <2>5, <4>1, <5>1 DEF refusePop, IsEmpty
      <4> QED
        BY <2>live, <2>len, <4>1
    <3>2. Fifo!RefusePop(s)
      BY <2>5, <3>1 DEF refusePop, Fifo!RefusePop, Failure, Fifo!Failure,
                        Reply, Fifo!Reply
    <3> QED
      BY <3>2 DEF Fifo!Next
  <2>6. CASE isEmpty
    <3>1. Fifo!AskEmpty
      BY <2>live, <2>len, <2>6 DEF isEmpty, IsEmpty, Fifo!AskEmpty, Reply, Fifo!Reply
    <3> QED
      BY <3>1 DEF Fifo!Next
  <2>7. CASE UNCHANGED vars
    BY <2>7 DEF vars, Fifo!vars
  <2> QED
    BY <2>1, <2>2, <2>3, <2>4, <2>5, <2>6, <2>7 DEF Next
<1> QED
  BY <1>2, <1>3, IInvInvariant, PTL DEF Spec, ImplementsFifo, Fifo!Spec

=============================================================================
