--------------------------- MODULE MCDrumpadRead ---------------------------
(* Readings below, at and above the threshold, turns of one or two units of  *)
(* time, notes of three and five, and a clock that wraps after twelve.       *)
EXTENDS DrumpadRead

MCReading == {0, 1, 2, 3, 4}

=============================================================================
