---------------------------- MODULE ArduinoComms ----------------------------
(***************************************************************************)
(* One device: readFromArduino() of ArduinoComms.c reads what the serial    *)
(* line has, in pieces of any size, into fd_info.buffer; parseBuffer()      *)
(* cuts the messages out of it and fills the message buffer, which          *)
(* flushMessageBuffer() empties before the callback returns.                *)
(* matchMessage() is used through what PatternMatcher establishes: it       *)
(* returns the first occurrence.  The malloc() of parseBuffer(), and those  *)
(* of flushMessageBuffer(), may fail.                                       *)
(***************************************************************************)
EXTENDS SerialProtocol

CONSTANTS VarN,         \* var_n of the device
          BuffSize,     \* fd_info.buff_size
          MbCapacity,   \* MSG_BUFF_CAPACITY
          Inputs        \* what devices may send: see DeviceBytes

ASSUME VarNAssumption == VarN \in Nat \ {0}
ASSUME BuffSizeAssumption == BuffSize \in Nat /\ BuffSize >= MsgLen(VarN)
ASSUME MbCapacityAssumption == MbCapacity \in Nat

VARIABLES input,     \* what this device sends (external)
          arrived,   \* how many of its bytes read() has returned
          buffer,    \* fd_info.buffer up to buff_full
          mb,        \* the readings in the message buffer
          readings,  \* history: the readings flushed so far
          dropped,   \* history: how many found the message buffer full
          parsed,    \* history: the last parseBuffer() had its memory
          phase      \* "idle", "parse", "flush", or "exited"

vars == <<input, arrived, buffer, mb, readings, dropped, parsed, phase>>

L == MsgLen(VarN)

Byte == 0 .. 255
Reading == [1 .. VarN -> Byte]

\* How many variables the device sends, which need not be the number it is
\* configured with, and how long its frames are.
Sends(in) == Len(Head(in.values))
FrameLen(in) == MsgLen(Sends(in))

\* A device sends noise, then the frames of its readings; of the first frame
\* the line may miss the beginning.
DeviceBytes(in) ==
  in.noise \o
  [k \in 1 .. Len(in.values) * FrameLen(in) - in.cut |->
     LET j == k + in.cut - 1
     IN  Frame(in.values[(j \div FrameLen(in)) + 1])[(j % FrameLen(in)) + 1]]

ASSUME InputsAssumption ==
  \A in \in Inputs :
    /\ in.noise \in Seq(Byte)
    /\ in.values # << >> /\ Sends(in) \in Nat
    /\ in.values \in Seq([1 .. Sends(in) -> Byte])
    /\ in.cut \in 0 .. FrameLen(in) - 1

Init ==
  /\ input \in Inputs
  /\ arrived = 0
  /\ buffer = << >> /\ mb = << >> /\ readings = << >>
  /\ dropped = 0 /\ parsed = TRUE
  /\ phase = "idle"

-----------------------------------------------------------------------------
(* readFromArduino() *)

Free == BuffSize - Len(buffer)

\* Fault: a read() of buff_size bytes, whatever the buffer holds already.
ReadOverTheEnd(n) ==
  /\ phase = "idle"
  /\ n <= BuffSize
  /\ n <= Len(DeviceBytes(input)) - arrived
  /\ buffer' = buffer \o SubSeq(DeviceBytes(input), arrived + 1, arrived + n)
  /\ arrived' = arrived + n
  /\ phase' = "parse"
  /\ UNCHANGED <<input, mb, readings, dropped, parsed>>

readFromArduino(n) ==
  /\ phase = "idle"
  /\ n <= Free
  /\ n <= Len(DeviceBytes(input)) - arrived
  /\ buffer' = buffer \o SubSeq(DeviceBytes(input), arrived + 1, arrived + n)
  /\ arrived' = arrived + n
  /\ phase' = "parse"
  /\ UNCHANGED <<input, mb, readings, dropped, parsed>>

\* A device that is gone: ERROR_PRINT() ends the program.
readError ==
  /\ phase = "idle"
  /\ phase' = "exited"
  /\ UNCHANGED <<input, arrived, buffer, mb, readings, dropped, parsed>>

Match(start) == matchMessage(buffer, VarN, start)

getValues(start) == [v \in 1 .. VarN |-> buffer[start + 2 * v + 1]]

addToMessageBuffer(values) ==
  IF Len(mb) < MbCapacity
    THEN mb' = Append(mb, values) /\ UNCHANGED dropped
    ELSE dropped' = dropped + 1 /\ UNCHANGED mb

\* Faults: what lies before the message stays in the buffer; an if in the place
\* of the while, so that one call passes on one message.
ParseKeepsPrefix(start) ==
  /\ phase = "parse"
  /\ Match(start)
  /\ addToMessageBuffer(getValues(start))
  /\ buffer' = SubSeq(buffer, 1, start) \o
               SubSeq(buffer, start + L + 1, Len(buffer))
  /\ UNCHANGED <<input, arrived, readings, parsed, phase>>

ParseOnce(start) ==
  /\ phase = "parse"
  /\ Match(start)
  /\ addToMessageBuffer(getValues(start))
  /\ buffer' = SubSeq(buffer, start + L + 1, Len(buffer))
  /\ phase' = "flush" /\ parsed' = TRUE
  /\ UNCHANGED <<input, arrived, readings>>

\* One turn of the loop of parseBuffer().
parseMessage(start) ==
  /\ phase = "parse"
  /\ Match(start)
  /\ addToMessageBuffer(getValues(start))
  /\ buffer' = SubSeq(buffer, start + L + 1, Len(buffer))
  /\ UNCHANGED <<input, arrived, readings, parsed, phase>>

\* memmove(buffer, buffer + d, d): only d bytes move.
FreeSpace(b, d) == [k \in 1 .. Len(b) - d |-> IF k <= d THEN b[k + d] ELSE b[k]]

\* Fault: space is freed only when there is none.
ParseEndWhenFull ==
  /\ phase = "parse"
  /\ Match(-1)
  /\ buffer' = IF Free = 0 THEN FreeSpace(buffer, L) ELSE buffer
  /\ phase' = "flush" /\ parsed' = TRUE
  /\ UNCHANGED <<input, arrived, mb, readings, dropped>>

parseEnd ==
  /\ phase = "parse"
  /\ Match(-1)
  /\ buffer' = IF L > Free THEN FreeSpace(buffer, L - Free) ELSE buffer
  /\ phase' = "flush" /\ parsed' = TRUE
  /\ UNCHANGED <<input, arrived, mb, readings, dropped>>

\* No memory for the values of a message: the buffer stays as it is.
parseFails ==
  /\ phase = "parse"
  /\ parsed' = FALSE
  /\ phase' = "flush"
  /\ UNCHANGED <<input, arrived, buffer, mb, readings, dropped>>

flushMessageBuffer ==
  /\ phase = "flush"
  /\ readings' = readings \o mb
  /\ mb' = << >>
  /\ phase' = "idle"
  /\ UNCHANGED <<input, arrived, buffer, dropped, parsed>>

\* No memory for a message: the readings wait for the next callback.
flushFails ==
  /\ phase = "flush"
  /\ mb # << >>
  /\ phase' = "idle"
  /\ UNCHANGED <<input, arrived, buffer, mb, readings, dropped, parsed>>

Next ==
  \/ \E n \in 0 .. BuffSize : readFromArduino(n)
  \/ readError
  \/ \E start \in 0 .. BuffSize : parseMessage(start)
  \/ parseEnd \/ parseFails
  \/ flushMessageBuffer \/ flushFails

Spec == Init /\ [][Next]_vars

-----------------------------------------------------------------------------
(* Properties *)

\* Every variable has its type.
TypeOK ==
  /\ input \in Inputs
  /\ arrived \in 0 .. Len(DeviceBytes(input))
  /\ buffer \in Seq(Byte) /\ Len(buffer) <= BuffSize
  /\ mb \in Seq(Reading) /\ Len(mb) <= MbCapacity
  /\ dropped \in Nat /\ parsed \in BOOLEAN
  /\ phase \in {"idle", "parse", "flush", "exited"}

\* Whenever read() is called after a call of parseBuffer() that had its memory,
\* the buffer has room for a message, however much noise came and however full
\* failed calls left it, and if no byte of what the device sends is ever part of
\* a message: a read of zero bytes, again and again, cannot happen.
RoomForMessage == phase = "idle" /\ parsed => Free >= L

\* How many frames are cut, and what comes before the first whole one.
CutFrames(in) == IF in.cut = 0 THEN 0 ELSE 1

FirstFrame(in) ==
  Len(in.noise) + (IF in.cut = 0 THEN 0 ELSE FrameLen(in) - in.cut)

\* The device is what it is configured as, and the line brings little before the
\* first whole frame, the rest of a cut one included: room is left for a message,
\* and for another less one byte, so that parseEnd never touches these bytes, and
\* they contain nothing that looks like a message.
LittleNoise ==
  /\ Sends(input) = VarN /\ VarN <= MaxVars
  /\ FirstFrame(input) <= BuffSize - 2 * L + 1
  /\ \A p \in 0 .. FirstFrame(input) - L :
       ~OccursAt(Pattern(VarN), DeviceBytes(input), p)

\* Then the buffer is the end of what has been read, no byte out of its place.
BufferIsSuffix ==
  LittleNoise =>
    \A k \in 1 .. Len(buffer) :
      buffer[k] = DeviceBytes(input)[arrived - Len(buffer) + k]

\* The frames of which every byte has been read, as far as they are messages of
\* the configured device.
WholeFrames ==
  LET brought == arrived - FirstFrame(input)
  IN  IF Sends(input) # VarN \/ brought < L
        THEN << >>
        ELSE SubSeq(input.values, CutFrames(input) + 1,
                    CutFrames(input) + brought \div L)

\* Some of the elements of seq, in their order.
IsPartOf(part, seq) ==
  \E at \in [1 .. Len(part) -> 1 .. Len(seq)] :
    /\ \A i, j \in 1 .. Len(part) : i < j => at[i] < at[j]
    /\ \A i \in 1 .. Len(part) : part[i] = seq[at[i]]

AllPassedOn ==
  phase \in {"flush", "idle"} /\ parsed =>
    /\ Len(readings \o mb) + dropped = Len(WholeFrames)
    /\ IsPartOf(readings \o mb, WholeFrames)

\* And every legal message that has been read completely has been passed on,
\* once and in order, except those that found the message buffer full, and
\* nothing else has: wherever the line was tuned in, whatever the pieces it was
\* read in, however often memory was short, and even if data bytes look like
\* the start and end bytes of the protocol.
ReadingsComplete == LittleNoise => AllPassedOn

\* What the comments of parseBuffer() say, for any amount of noise: it
\* "discards illegal messages, and sends legal ones".
DiscardsIllegalSendsLegal == AllPassedOn

=============================================================================
