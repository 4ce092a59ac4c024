----------------------------- MODULE OscMessage -----------------------------
(***************************************************************************)
(* The layout of an OSC message as sendMessageToBundle() of MessageBuffer.c *)
(* builds it for an address of addr_len characters and var_n variables: its *)
(* size, the address behind a '/', the type specifiers behind a ',', and    *)
(* four bytes per variable.  The function computes the length first and     *)
(* allocates that much, then walks through the message with i.              *)
(***************************************************************************)
EXTENDS SerialProtocol

\* MAX_MSG_SIZE: addToBundle() refuses what is larger.
MaxMsgSize == 256 - 20

\* name[16] of main(): the longest address there is.
MaxAddressLen == 15

FloatLen == 4

\* The macro ROUND_TO_FOUR: up to the next multiple of four that is larger.
RoundToFour(x) == x + (4 - (x % 4))

\* tot_msg_len, what is allocated and handed to addToBundle().
TotMsgLen(addr_len, var_n) ==
  4 + RoundToFour(1 + addr_len) + RoundToFour(1 + var_n) + var_n * FloatLen

\* i, where the address, the type specifiers and the values begin, and where it
\* is in the end.
AddressAt == 4
TypesAt(addr_len) == (AddressAt + 1) + (RoundToFour(1 + addr_len) - 1)
ValuesAt(addr_len, var_n) ==
  (TypesAt(addr_len) + 1) + (RoundToFour(1 + var_n) - 1)
EndAt(addr_len, var_n) == ValuesAt(addr_len, var_n) + var_n * FloatLen

-----------------------------------------------------------------------------
(* Properties *)

\* The message is one an OSC server reads: every part begins at a multiple of
\* four, both strings are followed by at least one zero byte and by at most four,
\* and what is written ends where the allocated memory ends.
LayoutIsOsc(addr_len, var_n) ==
  /\ TypesAt(addr_len) % 4 = 0 /\ ValuesAt(addr_len, var_n) % 4 = 0
  /\ TypesAt(addr_len) - (AddressAt + 1 + addr_len) \in 1 .. 4
  /\ ValuesAt(addr_len, var_n) - (TypesAt(addr_len) + 1 + var_n) \in 1 .. 4
  /\ EndAt(addr_len, var_n) = TotMsgLen(addr_len, var_n)

\* addToBundle() takes the message.
MessageFits(addr_len, var_n) == TotMsgLen(addr_len, var_n) <= MaxMsgSize

=============================================================================
