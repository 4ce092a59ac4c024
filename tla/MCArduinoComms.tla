--------------------------- MODULE MCArduinoComms ---------------------------
(* One variable, so messages of 6 bytes, whose data bytes may be those of    *)
(* the protocol's markers; a buffer of 16 bytes.  The line is tuned in at    *)
(* any byte of the first message, or it brings up to 12 bytes that belong to *)
(* no message first: 5 are little noise.  The message buffer holds what one  *)
(* full read buffer does, two readings.  Misfits are devices that send no     *)
(* variable or two.                                                          *)
EXTENDS ArduinoComms

MCReadings == [1 .. VarN -> {MsgStart, MsgEnd, MsgSep}]

CleanInputs ==
  [noise : {<< >>}, cut : 0 .. L - 1, values : [1 .. 3 -> MCReadings]]

NoisyInputs ==
  [noise : {[k \in 1 .. n |-> 7] : n \in 0 .. 12}, cut : {0},
   values : [1 .. 2 -> [1 .. VarN -> {100, 200}]]]

Misfits ==
  [noise : {<< >>}, cut : 0 .. 2,
   values : UNION {[1 .. 3 -> [1 .. n -> {MsgStart, MsgEnd}]] : n \in {0, 2}}]

MCInputs == CleanInputs \cup NoisyInputs \cup Misfits

=============================================================================
