--------------------------- MODULE SerialProtocol ---------------------------
(***************************************************************************)
(* The serial message of include/Serial_protocol.h: two start bytes, each   *)
(* variable's byte followed by a separator, two end bytes; and what it is   *)
(* for a message, or a pattern with wildcards, to occur in a string of      *)
(* bytes.  Positions are counted from 0 as in the code: position s of a     *)
(* string is its element s + 1.                                             *)
(***************************************************************************)
EXTENDS Integers, Sequences

MsgStart == 254
MsgEnd   == 239
MsgSep   == 0

\* A byte of the pattern that lookup[] does not fix.
AnyByte  == -1

MsgLen(vars) == 2 + vars * 2 + 2

\* MAX_VARS: matchMessage() refuses to search for longer messages.
MaxVars == 20

\* The bytes buildMessage() of the device's library puts on the line for one
\* reading of all its sensors.
Frame(values) ==
  LET n == Len(values)
  IN  [k \in 1 .. MsgLen(n) |->
         IF k <= 2 THEN MsgStart
         ELSE IF k > MsgLen(n) - 2 THEN MsgEnd
         ELSE IF k % 2 = 1 THEN values[(k - 1) \div 2]
         ELSE MsgSep]

\* pattern[] and lookup[] as matchMessage() fills them.
Pattern(var_n) ==
  [k \in 1 .. MsgLen(var_n) |->
     IF k <= 2 THEN MsgStart
     ELSE IF k > MsgLen(var_n) - 2 THEN MsgEnd
     ELSE IF k % 2 = 1 THEN AnyByte
     ELSE MsgSep]

\* Does byte b go with position pos of pattern p?
Accepts(p, pos, b) == p[pos + 1] = AnyByte \/ b = p[pos + 1]

\* The first len positions of p go with string s from position start on.
PrefixAt(p, s, start, len) ==
  \A pos \in 0 .. len - 1 : Accepts(p, pos, s[start + pos + 1])

OccursAt(p, s, start) ==
  start + Len(p) <= Len(s) /\ PrefixAt(p, s, start, Len(p))

\* r is what a search for p in s has to return: where p occurs first, or -1.
IsFirstOccurrence(p, s, r) ==
  \/ /\ r \in 0 .. Len(s) - Len(p)
     /\ OccursAt(p, s, r)
     /\ \A q \in 0 .. r - 1 : ~OccursAt(p, s, q)
  \/ /\ r = -1
     /\ \A q \in 0 .. Len(s) - Len(p) : ~OccursAt(p, s, q)

\* What matchMessage() returns, given that matchPattern() returns the first
\* occurrence, which PatternMatcher is about.
matchMessage(buffer, var_n, r) ==
  IF var_n > MaxVars \/ buffer = << >>
    THEN r = -1
    ELSE IsFirstOccurrence(Pattern(var_n), buffer, r)

=============================================================================
