--------------------------- MODULE MessageChannel ---------------------------
(***************************************************************************)
(* What Bundle.c, BundleBuffer.c and Sockets.c together promise to the two  *)
(* ends they connect, the message buffers and the server: messages are      *)
(* numbered in the order they are handed over and are delivered in groups   *)
(* and in that order.  A message can be refused at once, or given up while  *)
(* it waits; then it is one of the oldest that wait, and at least Kept      *)
(* younger ones go on waiting.  Once a group is on its way it cannot be     *)
(* given up, and nothing overtakes it.  BundlePipeline implements this.     *)
(***************************************************************************)
EXTENDS Naturals, Sequences

CONSTANT Kept    \* how many messages wait whenever one is given up

VARIABLES next,       \* the number of the next message
          waiting,    \* the messages accepted, oldest first
          sending,    \* the group that is on its way
          delivered,  \* the messages delivered, in the order they were
          refused,    \* the messages refused
          lost        \* the messages given up

vars == <<next, waiting, sending, delivered, refused, lost>>

Init ==
  /\ next = 1
  /\ waiting = << >> /\ sending = << >> /\ delivered = << >>
  /\ refused = {} /\ lost = {}

\* The k oldest of the messages in queue are given up, the others wait on.
GiveUp(queue, k) ==
  /\ k > 0 => Len(queue) - k >= Kept
  /\ waiting' = SubSeq(queue, k + 1, Len(queue))
  /\ lost' = lost \cup {queue[i] : i \in 1 .. k}

Accept ==
  /\ \E k \in 0 .. Len(waiting) : GiveUp(Append(waiting, next), k)
  /\ next' = next + 1
  /\ UNCHANGED <<sending, delivered, refused>>

Refuse ==
  /\ refused' = refused \cup {next}
  /\ next' = next + 1
  /\ UNCHANGED <<waiting, sending, delivered, lost>>

Lose ==
  /\ \E k \in 1 .. Len(waiting) : GiveUp(waiting, k)
  /\ UNCHANGED <<next, sending, delivered, refused>>

Take ==
  /\ sending = << >>
  /\ \E k \in 1 .. Len(waiting) :
       /\ sending' = SubSeq(waiting, 1, k)
       /\ waiting' = SubSeq(waiting, k + 1, Len(waiting))
  /\ UNCHANGED <<next, delivered, refused, lost>>

Deliver ==
  /\ delivered' = delivered \o sending
  /\ sending' = << >>
  /\ UNCHANGED <<next, waiting, refused, lost>>

Next == Accept \/ Refuse \/ Lose \/ Take \/ Deliver

Spec == Init /\ [][Next]_vars

=============================================================================
