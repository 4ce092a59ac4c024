-------------------------- MODULE MCCircularBuffer --------------------------
(* A ring of four slots, three of them usable; elements that fit exactly     *)
(* (size 2), are shorter (size 1), or are too big for a slot (size 3).       *)
EXTENDS CircularBuffer

MCSizes == 1 .. 3

=============================================================================
