------------------------------ MODULE MCSelect ------------------------------
(* Two slots per registry for three devices, so that a registry can be full  *)
(* while another device waits, and for a socket whose descriptor is neither  *)
(* the lowest nor the highest.                                               *)
EXTENDS Select

MCFds == [read |-> {3, 5, 6}, write |-> {4}]

=============================================================================
