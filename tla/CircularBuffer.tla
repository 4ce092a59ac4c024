--------------------------- MODULE CircularBuffer ---------------------------
(***************************************************************************)
(* CircularBuffer.c under its only user, BundleBuffer.c: one ring of        *)
(* BufferSize slots in which first = last means empty, so that BufferSize-1 *)
(* slots can be live.  Every call is atomic (the program has one thread).   *)
(* An element is its size and an opaque content; safe_memcpy copies whole   *)
(* elements because a slot is never smaller than MAX_ELEM_SIZE.             *)
(***************************************************************************)
EXTENDS Integers, Sequences

CONSTANTS Content,      \* what a bundle can hold
          Sizes,        \* the element and result sizes callers pass
          BufferSize,   \* BUFFER_SIZE, slots of the ring
          MaxElemSize,  \* MAX_ELEM_SIZE, bytes of a slot
          NULL          \* memory nothing was written to

ASSUME BufferSizeAssumption == BufferSize \in Nat /\ BufferSize >= 2
ASSUME SizeAssumption == Sizes \subseteq Nat /\ MaxElemSize \in Nat
ASSUME NullAssumption == NULL \notin Content

VARIABLES head,     \* the slots: what each holds
          first,    \* index of the oldest live slot
          last,     \* index of the slot to write next
          created,  \* bundle_buffer # NULL
          reply     \* the last call, what it returned, *res_s and res_c

vars == <<head, first, last, created, reply>>

Slots == 0 .. BufferSize - 1

Element == [content : Content, size : Sizes]

\* What malloc() leaves in a slot: never to be read.
Unwritten == [content |-> NULL, size |-> 0]

\* Fault: an index that is never wrapped.
AdvanceUnwrapped(i) == i + 1

Advance(i) == (i + 1) % BufferSize

IsEmpty == first = last

\* Fault: the slots all counted as usable, so that the ring is never found full.
NeverFull == FALSE

IsFull == Advance(last) = first

Reply(call, arg, rv, size, content) ==
  [call |-> call, arg |-> arg, rv |-> rv, size |-> size, content |-> content]

Failure(call, arg) == Reply(call, arg, "-1", 0, NULL)

-----------------------------------------------------------------------------
(* Operations *)

Init ==
  /\ head = [i \in Slots |-> Unwritten]
  /\ first = 0
  /\ last = 0
  /\ created = FALSE
  /\ reply = Reply("none", 0, "0", 0, NULL)

\* A second call finds the buffer there and leaves it alone.
initBundleBuffer ==
  /\ created' = TRUE
  /\ reply' = Reply("init", 0, "0", 0, NULL)
  /\ IF created
       THEN UNCHANGED <<head, first, last>>
       ELSE /\ head' = [i \in Slots |-> Unwritten]
            /\ first' = 0
            /\ last' = 0

addToBuffer(el) ==
  /\ created
  /\ el.size <= MaxElemSize
  /\ first' = IF IsFull THEN Advance(first) ELSE first
  /\ head' = [head EXCEPT ![last] = el]
  /\ last' = Advance(last)
  /\ reply' = Reply("add", el.size, "0", 0, NULL)
  /\ UNCHANGED created

refuseAdd(el_s) ==
  /\ ~created \/ el_s > MaxElemSize
  /\ reply' = Failure("add", el_s)
  /\ UNCHANGED <<head, first, last, created>>

\* Fault: a pop that does not ask whether anything is there.
PopUnguarded(res_s) ==
  /\ created
  /\ res_s >= head[first].size
  /\ first' = Advance(first)
  /\ reply' = Reply("pop", res_s, "0", head[first].size, head[first].content)
  /\ UNCHANGED <<head, last, created>>

popTopOfBuffer(res_s) ==
  /\ created
  /\ ~IsEmpty
  /\ res_s >= head[first].size
  /\ first' = Advance(first)
  /\ reply' = Reply("pop", res_s, "0", head[first].size, head[first].content)
  /\ UNCHANGED <<head, last, created>>

\* No buffer, nothing in it, or a result buffer the oldest element does not
\* fit in: *res_s becomes 0 and the element stays.
refusePop(res_s) ==
  /\ ~created \/ IsEmpty \/ res_s < head[first].size
  /\ reply' = Failure("pop", res_s)
  /\ UNCHANGED <<head, first, last, created>>

isEmpty ==
  /\ reply' = Reply("isEmpty", 0,
                    IF created /\ IsEmpty THEN "1" ELSE "0", 0, NULL)
  /\ UNCHANGED <<head, first, last, created>>

Next ==
  \/ initBundleBuffer
  \/ \E el \in Element : addToBuffer(el)
  \/ \E s \in Sizes : refuseAdd(s) \/ popTopOfBuffer(s) \/ refusePop(s)
  \/ isEmpty

Spec == Init /\ [][Next]_vars

-----------------------------------------------------------------------------
(* Properties *)

\* Between index f and index l of a ring h: how many slots are live, which
\* slot holds the k-th oldest element, and the elements themselves.
Count(f, l) == IF f <= l THEN l - f ELSE l - f + BufferSize

Slot(f, k) == IF f + k - 1 < BufferSize
                THEN f + k - 1
                ELSE f + k - 1 - BufferSize

Elements(h, f, l) == [k \in 1 .. Count(f, l) |-> h[Slot(f, k)]]

\* Every variable has its type; indexes stay inside the ring.
TypeOK ==
  /\ head \in [Slots -> Element \cup {Unwritten}]
  /\ first \in Slots
  /\ last \in Slots
  /\ created \in BOOLEAN
  /\ reply \in [call : {"none", "init", "add", "pop", "isEmpty"},
                arg : Sizes \cup {0}, rv : {"-1", "0", "1"},
                size : Sizes \cup {0}, content : Content \cup {NULL}]

\* Every slot between first and last was written by an addToBuffer() that the
\* size check let through: popTopOfBuffer() never hands out memory that
\* createBuffer() only malloc()ed, and never more bytes than a slot has.
LiveSlotsWritten ==
  \A k \in 1 .. Count(first, last) :
    /\ head[Slot(first, k)] \in Element
    /\ head[Slot(first, k)].size <= MaxElemSize

\* addToBuffer() and popTopOfBuffer(), indexes that wrap and a slot that is
\* given up, are the drop-oldest queue of BoundedFifo: no call loses, repeats
\* or reorders an element, except that adding to a full ring loses the oldest.
Fifo == INSTANCE BoundedFifo
          WITH Capacity <- BufferSize - 1,
               queue <- Elements(head, first, last)

ImplementsFifo == Fifo!Spec

=============================================================================
