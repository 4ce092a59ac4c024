---------------------------- MODULE BoundedFifo ----------------------------
(***************************************************************************)
(* What the bundle buffer promises its two users, Bundle.c (which adds      *)
(* finished bundles) and Sockets.c (which pops them): a queue of at most    *)
(* Capacity elements that accepts every element of a legal size, drops the  *)
(* OLDEST element when it is full, and hands elements out in the order they *)
(* came in.  CircularBuffer implements it.                                  *)
(***************************************************************************)
EXTENDS Naturals, Sequences

CONSTANTS Content,      \* what a bundle can hold
          Sizes,        \* the element and result sizes callers pass
          MaxElemSize,  \* MAX_ELEM_SIZE
          Capacity,     \* how many elements the queue keeps
          NULL          \* no content

VARIABLES queue,        \* the elements, oldest first
          created,      \* the queue exists
          reply         \* what the last call returned

vars == <<queue, created, reply>>

Element == [content : Content, size : Sizes]

Reply(call, arg, rv, size, content) ==
  [call |-> call, arg |-> arg, rv |-> rv, size |-> size, content |-> content]

Failure(call, arg) == Reply(call, arg, "-1", 0, NULL)

\* A full queue loses its oldest element to make room for the new one.
Push(q, e) == Append(IF Len(q) = Capacity THEN Tail(q) ELSE q, e)

Init ==
  /\ queue = << >>
  /\ created = FALSE
  /\ reply = Reply("none", 0, "0", 0, NULL)

Create ==
  /\ created' = TRUE
  /\ reply' = Reply("init", 0, "0", 0, NULL)
  /\ UNCHANGED queue

Add(el) ==
  /\ created
  /\ el.size <= MaxElemSize
  /\ queue' = Push(queue, el)
  /\ reply' = Reply("add", el.size, "0", 0, NULL)
  /\ UNCHANGED created

Pop(res_s) ==
  /\ created
  /\ queue # << >>
  /\ Head(queue).size <= res_s
  /\ queue' = Tail(queue)
  /\ reply' = Reply("pop", res_s, "0", Head(queue).size, Head(queue).content)
  /\ UNCHANGED created

\* The only reasons to refuse a call; the queue stays as it was.
RefuseAdd(size) ==
  /\ ~created \/ size > MaxElemSize
  /\ reply' = Failure("add", size)
  /\ UNCHANGED <<queue, created>>

RefusePop(res_s) ==
  /\ ~created \/ queue = << >> \/ Head(queue).size > res_s
  /\ reply' = Failure("pop", res_s)
  /\ UNCHANGED <<queue, created>>

AskEmpty ==
  /\ reply' = Reply("isEmpty", 0,
                    IF created /\ queue = << >> THEN "1" ELSE "0", 0, NULL)
  /\ UNCHANGED <<queue, created>>

Next ==
  \/ Create
  \/ \E el \in Element : Add(el)
  \/ \E s \in Sizes : Pop(s) \/ RefuseAdd(s) \/ RefusePop(s)
  \/ AskEmpty

Spec == Init /\ [][Next]_vars

=============================================================================
