---------------------------- MODULE MatchMessage ----------------------------
(***************************************************************************)
(* Who calls matchPattern(), and who else knows the format of a message:    *)
(* fastMatchMessage() of PatternMatcher.c, which takes pattern and lookup    *)
(* from tables typed by hand where matchMessage() computes them, and         *)
(* check_device.py, which run.sh asks whether a device sends the number of   *)
(* variables it is configured with.                                         *)
(***************************************************************************)
EXTENDS PatternMatcher

\* The rows of getPattern() and getLookup(): how many zero bytes the row for
\* var_n has between start and end, and how many pairs 00 FF.
PatternZeros ==
  <<2, 4, 6, 8, 10, 12, 14, 16, 18, 20, 22, 24, 26, 28, 30, 32, 34, 36, 38, 40>>
LookupPairs ==
  <<1, 2, 3, 4, 5, 6, 7, 8, 9, 10, 11, 12, 13, 14, 15, 16, 17, 18, 19, 20>>

LuFalse == 0
LuTrue  == 255

getPattern(var_n) ==
  [k \in 1 .. PatternZeros[var_n] + 4 |->
     IF k <= 2 THEN MsgStart
     ELSE IF k <= PatternZeros[var_n] + 2 THEN 0 ELSE MsgEnd]

getLookup(var_n) ==
  [k \in 1 .. 2 * LookupPairs[var_n] + 4 |->
     IF k > 2 /\ k <= 2 * LookupPairs[var_n] + 2 /\ k % 2 = 1
       THEN LuFalse ELSE LuTrue]

\* What fastMatchMessage() has matchPattern() search for.  The tables have no
\* row for 0: matchPattern() gets NULL and refuses.
FastPattern(var_n) ==
  [k \in 1 .. MsgLen(var_n) |->
     IF getLookup(var_n)[k] = LuFalse THEN AnyByte ELSE getPattern(var_n)[k]]

FastPatterns == [var_n \in 1 .. MaxVars |-> FastPattern(var_n)]

\* Fault: one end byte is enough.
ReadOneEndByte(s, n, p) ==
  /\ p < (n + 2) * 2
  /\ p + MsgLen(n) <= Len(s)
  /\ s[p + 1] = MsgStart /\ \A q \in 1 .. p : s[q] # MsgStart
  /\ s[p + 2] = MsgStart
  /\ \A c \in 1 .. n : s[p + 2 * c + 2] = MsgSep
  /\ s[p + 2 * n + 3] = MsgEnd

\* readOneMessage() finds that what the line brings is fine: after p bytes, too
\* few for a message, the first start byte, then byte for byte a message.
readOneMessage(s, n, p) ==
  /\ p < (n + 2) * 2
  /\ p + MsgLen(n) <= Len(s)
  /\ s[p + 1] = MsgStart /\ \A q \in 1 .. p : s[q] # MsgStart
  /\ s[p + 2] = MsgStart
  /\ \A c \in 1 .. n : s[p + 2 * c + 2] = MsgSep
  /\ s[p + 2 * n + 3] = MsgEnd /\ s[p + 2 * n + 4] = MsgEnd

-----------------------------------------------------------------------------
(* Properties *)

\* A search with the tables returns what matchMessage() promises for the same
\* number of variables: no row of either table has a byte too many, too few or
\* at the wrong place.  No run checks it, because no string tells more of the
\* tables than their rows do: PatternMatcherProofs proves it for all twenty rows.
FastFindsTheSame ==
  pc = "done" =>
    \A n \in 1 .. MaxVars :
      pattern = FastPatterns[n] => matchMessage(string, n, result)

\* The script that decides whether a device is let in and the matcher that
\* reads it for the rest of the day agree on what a message is: a device passes
\* the check with p bytes skipped exactly if the first message is found there,
\* behind no other start byte, and soon enough.
AgreesWithCheck ==
  pc = "done" =>
    \A n \in 0 .. MaxVars : \A p \in 0 .. Len(string) - 1 :
      pattern = Pattern(n) =>
        (readOneMessage(string, n, p)
           <=> /\ result = p
               /\ p < MsgLen(n)
               /\ \A q \in 1 .. p : string[q] # MsgStart)

=============================================================================
