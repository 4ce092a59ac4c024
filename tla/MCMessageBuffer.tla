-------------------------- MODULE MCMessageBuffer --------------------------
(* Two variables and up to three readings per flush, one more than there are *)
(* variables.  Of the values 0, 1 and 3, only 0 and 3 are further apart than *)
(* the threshold.                                                            *)
EXTENDS MessageBuffer

MCValue == {0, 1, 3}

=============================================================================
