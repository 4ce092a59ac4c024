------------------------ MODULE PatternMatcherProofs ------------------------
(***************************************************************************)
(* matchPattern() is correct for every pattern of at least two bytes and    *)
(* every string: it finds the first occurrence, and never needs more than   *)
(* MAX_MSG_LEN - 1 slots of matches[].  The tables of fastMatchMessage() are *)
(* the patterns matchMessage() computes, and check_device.py agrees with     *)
(* matchMessage() about what a message is.                                  *)
(***************************************************************************)
EXTENDS MatchMessage, FiniteSetTheorems, TLAPS

L == Len(pattern)

\* The starts before byte n of all proper prefixes of p that end there in t.
PartialStarts(p, t, n) ==
  {s \in 0 .. n - 1 : n - s < Len(p) /\ PrefixAt(p, t, s, n - s)}

PartialMatches(p, t, n) ==
  {[start |-> s, len |-> n - s] : s \in PartialStarts(p, t, n)}

\* Before byte i, matches holds exactly the partial matches, and no occurrence
\* ends in the bytes already read.
LoopInv ==
  /\ matches = PartialMatches(pattern, string, i)
  /\ \A q \in 0 .. i - L : ~OccursAt(pattern, string, q)

TypeInv ==
  /\ pattern \in Patterns
  /\ string \in Strings
  /\ i \in 0 .. Len(string)
  /\ pc \in {"start", "loop", "done"}

IInv ==
  /\ TypeInv
  /\ LoopInv
  /\ pc = "start" => i = 0
  /\ pc # "done" => result = -1
  /\ pc = "done" => IsFirstOccurrence(pattern, string, result)

-----------------------------------------------------------------------------
(* matchPattern() *)

\* What the type invariant says of the lengths.
LEMMA Lengths ==
  ASSUME TypeInv
  PROVE  /\ L \in Nat /\ L >= 2 /\ L <= MaxMsgLen
         /\ Len(string) \in Nat /\ i \in Nat /\ i <= Len(string)
  BY PatternsAssumption, StringsAssumption DEF TypeInv, L

\* A prefix grows by the byte the next position of the pattern accepts.
LEMMA PrefixGrows ==
  ASSUME NEW p, NEW s, NEW start \in Nat, NEW len \in Nat
  PROVE  PrefixAt(p, s, start, len + 1)
           <=> PrefixAt(p, s, start, len) /\ Accepts(p, len, s[start + len + 1])
  BY DEF PrefixAt

\* One round of the outer loop turns the partial matches that end before byte
\* i into those that end after it, complete ones included.
LEMMA RoundExtends ==
  ASSUME TypeInv, LoopInv, i < Len(string)
  PROVE  Extended(string[i + 1]) \cup Begun(string[i + 1])
           = {[start |-> s, len |-> (i + 1) - s] :
                s \in {t \in 0 .. i : /\ i - t < L
                                      /\ PrefixAt(pattern, string, t, (i + 1) - t)}}
<1> DEFINE b == string[i + 1]
           Grown == {t \in 0 .. i : /\ i - t < L
                                    /\ PrefixAt(pattern, string, t, (i + 1) - t)}
<1>1. i \in Nat /\ L \in Nat /\ L >= 2
  BY Lengths
<1>2. \A t \in 0 .. i - 1 :
        PrefixAt(pattern, string, t, (i + 1) - t)
          <=> PrefixAt(pattern, string, t, i - t) /\ Accepts(pattern, i - t, b)
  <2> TAKE t \in 0 .. i - 1
  <2>1. t \in Nat /\ i - t \in Nat /\ (i + 1) - t = (i - t) + 1
        /\ t + (i - t) + 1 = i + 1
    BY <1>1
  <2> QED
    BY <2>1, PrefixGrows
<1>3. PrefixAt(pattern, string, i, 1) <=> Accepts(pattern, 0, b)
  BY <1>1 DEF PrefixAt
<1>4. \A t \in 0 .. i - 1 : t \in Grown
        <=> t \in PartialStarts(pattern, string, i) /\ Accepts(pattern, i - t, b)
  BY <1>1, <1>2 DEF PartialStarts, L
<1>5. i \in Grown <=> Accepts(pattern, 0, b)
  BY <1>1, <1>3
<1>6. ASSUME NEW m \in Extended(b)
      PROVE  \E s \in Grown : m = [start |-> s, len |-> (i + 1) - s]
  <2>1. PICK n \in matches : /\ Accepts(pattern, n.len, b)
                             /\ m = [start |-> n.start, len |-> n.len + 1]
    BY <1>6 DEF Extended
  <2>2. PICK s \in PartialStarts(pattern, string, i) : n = [start |-> s, len |-> i - s]
    BY <2>1 DEF LoopInv, PartialMatches
  <2>3. s \in 0 .. i - 1 /\ n.start = s /\ n.len = i - s
    BY <2>2 DEF PartialStarts, L
  <2>4. s \in Grown
    BY <1>4, <2>1, <2>2, <2>3
  <2>5. m = [start |-> s, len |-> (i + 1) - s]
    BY <1>1, <2>1, <2>3
  <2> QED
    BY <2>4, <2>5
<1>7. ASSUME NEW m \in Begun(b)
      PROVE  \E s \in Grown : m = [start |-> s, len |-> (i + 1) - s]
  <2>1. Accepts(pattern, 0, b) /\ m = [start |-> i, len |-> 1]
    BY <1>7 DEF Begun
  <2>2. i \in Grown /\ (i + 1) - i = 1
    BY <1>1, <1>5, <2>1
  <2> QED
    BY <2>1, <2>2
<1>8. ASSUME NEW s \in Grown
      PROVE  [start |-> s, len |-> (i + 1) - s] \in Extended(b) \cup Begun(b)
  <2>1. CASE s = i
    <3>1. (i + 1) - i = 1
      BY <1>1
    <3> QED
      BY <1>5, <2>1, <3>1 DEF Begun
  <2>2. CASE s # i
    <3>1. s \in 0 .. i - 1
      BY <1>1, <2>2
    <3>2. s \in PartialStarts(pattern, string, i) /\ Accepts(pattern, i - s, b)
      BY <1>4, <3>1
    <3> DEFINE n == [start |-> s, len |-> i - s]
    <3>3. n \in matches /\ n.len = i - s /\ n.start = s
      BY <3>2 DEF LoopInv, PartialMatches
    <3>4. (i + 1) - s = n.len + 1
      BY <1>1, <3>1, <3>3
    <3> HIDE DEF n
    <3> QED
      BY <3>2, <3>3, <3>4 DEF Extended
  <2> QED
    BY <2>1, <2>2
<1> HIDE DEF Grown, b
<1>9. Extended(b) \cup Begun(b) = {[start |-> s, len |-> (i + 1) - s] : s \in Grown}
  BY <1>6, <1>7, <1>8
<1> QED
  BY <1>9 DEF Grown, b

-----------------------------------------------------------------------------

\* A match that is complete after byte i is an occurrence that ends there, and
\* there is no other place it could start.
LEMMA CompleteIsOccurrence ==
  ASSUME TypeInv, LoopInv, i < Len(string)
  PROVE  /\ \A m \in Complete(string[i + 1]) :
              /\ m.start = (i + 1) - L
              /\ m.start \in Nat
              /\ OccursAt(pattern, string, m.start)
         /\ Complete(string[i + 1]) = {} =>
              /\ \A q \in 0 .. (i + 1) - L : ~OccursAt(pattern, string, q)
              /\ Extended(string[i + 1]) \cup Begun(string[i + 1])
                   = PartialMatches(pattern, string, i + 1)
<1> DEFINE b == string[i + 1]
           Grown == {t \in 0 .. i : /\ i - t < L
                                    /\ PrefixAt(pattern, string, t, (i + 1) - t)}
<1>1. i \in Nat /\ L \in Nat /\ L >= 2 /\ Len(string) \in Nat
  BY Lengths
<1>2. Extended(b) \cup Begun(b) = {[start |-> s, len |-> (i + 1) - s] : s \in Grown}
  BY RoundExtends
<1>3. \A m \in Begun(b) : m.len = 1
  BY DEF Begun
<1>4. ASSUME NEW m \in Complete(b)
      PROVE  /\ m.start = (i + 1) - L
             /\ m.start \in Nat
             /\ OccursAt(pattern, string, m.start)
  <2>1. m \in Extended(b) /\ m.len = L
    BY <1>4 DEF Complete, L
  <2>2. PICK s \in Grown : m = [start |-> s, len |-> (i + 1) - s]
    BY <1>2, <2>1
  <2>3. s \in 0 .. i /\ m.start = s /\ L = (i + 1) - s
        /\ PrefixAt(pattern, string, s, L)
    BY <2>1, <2>2
  <2> QED
    BY <1>1, <2>3 DEF OccursAt, L
<1>5. ASSUME Complete(b) = {}
      PROVE  /\ ~OccursAt(pattern, string, (i + 1) - L) \/ (i + 1) - L < 0
             /\ Grown = PartialStarts(pattern, string, i + 1)
  <2>1. \A s \in Grown : (i + 1) - s # L
    <3> SUFFICES ASSUME NEW s \in Grown, (i + 1) - s = L
                 PROVE  FALSE
      OBVIOUS
    <3> DEFINE m == [start |-> s, len |-> (i + 1) - s]
    <3>1. m \in Extended(b) \cup Begun(b) /\ m.len = L
      BY <1>2
    <3>2. m \in Extended(b)
      BY <1>1, <1>3, <3>1
    <3> QED
      BY <1>5, <3>1, <3>2 DEF Complete, L
  <2>2. Grown = PartialStarts(pattern, string, i + 1)
    BY <1>1, <2>1 DEF PartialStarts, L
  <2>3. ASSUME (i + 1) - L >= 0, OccursAt(pattern, string, (i + 1) - L)
        PROVE  FALSE
    <3> DEFINE s == (i + 1) - L
    <3>1. s \in 0 .. i /\ i - s < L /\ (i + 1) - s = L
      BY <1>1, <2>3
    <3>2. PrefixAt(pattern, string, s, (i + 1) - s)
      BY <2>3, <3>1 DEF OccursAt, L
    <3> QED
      BY <2>1, <3>1, <3>2
  <2> QED
    BY <1>1, <2>2, <2>3
<1>6. ASSUME Complete(b) = {}
      PROVE  \A q \in 0 .. (i + 1) - L : ~OccursAt(pattern, string, q)
  BY <1>1, <1>5, <1>6 DEF LoopInv
<1>7. ASSUME Complete(b) = {}
      PROVE  Extended(b) \cup Begun(b) = PartialMatches(pattern, string, i + 1)
  <2>1. Grown = PartialStarts(pattern, string, i + 1)
    BY <1>5, <1>7
  <2>2. PartialMatches(pattern, string, i + 1)
          = {[start |-> s, len |-> (i + 1) - s] :
               s \in PartialStarts(pattern, string, i + 1)}
    BY DEF PartialMatches
  <2> QED
    BY <1>2, <2>1, <2>2
<1> HIDE DEF Grown
<1> QED
  BY <1>4, <1>6, <1>7

\* Every step of the search keeps the loop invariant.
LEMMA IInvInvariant == Spec => []IInv
<1>1. Init => IInv
  <2> SUFFICES ASSUME Init PROVE IInv
    OBVIOUS
  <2>1. TypeInv
    BY StringsAssumption DEF Init, TypeInv
  <2>2. L >= 2 /\ L \in Nat
    BY <2>1, Lengths
  <2>3. LoopInv
    BY <2>2 DEF Init, LoopInv, PartialMatches, PartialStarts
  <2> QED
    BY <2>1, <2>3 DEF IInv, Init
<1>2. IInv /\ [Next]_vars => IInv'
  <2> SUFFICES ASSUME IInv, [Next]_vars PROVE IInv'
    OBVIOUS
  <2>1. /\ L \in Nat /\ L >= 2 /\ i \in Nat /\ i <= Len(string)
        /\ Len(string) \in Nat
    BY Lengths DEF IInv
  <2>2. CASE checkLengths
    <3>1. /\ pattern' = pattern /\ string' = string /\ i' = i
          /\ matches' = matches /\ pc = "start"
      BY <2>2 DEF checkLengths
    <3>2. CASE L > Len(string)
      <4>1. pc' = "done" /\ result' = -1
        BY <2>2, <3>2 DEF checkLengths, Return, L
      <4>2. 0 .. Len(string) - L = {}
        BY <2>1, <3>2
      <4>3. IsFirstOccurrence(pattern', string', result')
        BY <3>1, <4>1, <4>2 DEF IsFirstOccurrence, L
      <4> QED
        BY <3>1, <4>1, <4>3
           DEF IInv, TypeInv, LoopInv, L
    <3>3. CASE ~(L > Len(string))
      <4>1. pc' = "loop" /\ result' = result
        BY <2>2, <3>3 DEF checkLengths, L
      <4> QED
        BY <3>1, <4>1 DEF IInv, TypeInv, LoopInv, L
    <3> QED
      BY <3>2, <3>3
  <2>3. CASE nextByte
    <3>1. /\ pattern' = pattern /\ string' = string /\ i' = i + 1
          /\ pc' = pc /\ pc = "loop" /\ i < Len(string)
          /\ result' = result
          /\ Complete(string[i + 1]) = {}
          /\ matches' = Extended(string[i + 1]) \cup Begun(string[i + 1])
      BY <2>3 DEF nextByte
    <3>2. /\ \A q \in 0 .. (i + 1) - L : ~OccursAt(pattern, string, q)
          /\ matches' = PartialMatches(pattern, string, i + 1)
      BY <3>1, CompleteIsOccurrence DEF IInv
    <3>4. L' = L
      BY <3>1 DEF L
    <3>5. LoopInv'
      <4>1. matches' = PartialMatches(pattern', string', i')
        BY <3>1, <3>2
      <4>2. \A q \in 0 .. i' - L' : ~OccursAt(pattern', string', q)
        BY <2>1, <3>1, <3>2, <3>4
      <4> QED
        BY <4>1, <4>2 DEF LoopInv
    <3>6. TypeInv'
      BY <2>1, <3>1 DEF IInv, TypeInv
    <3> QED
      BY <3>1, <3>5, <3>6 DEF IInv
  <2>4. CASE returnMatch
    <3>1. /\ pattern' = pattern /\ string' = string /\ i' = i
          /\ matches' = matches /\ pc' = "done" /\ i < Len(string)
      BY <2>4 DEF returnMatch, Return
    <3>2. PICK m \in Complete(string[i + 1]) : result' = m.start
      BY <2>4 DEF returnMatch, Return
    <3>3. /\ result' = (i + 1) - L /\ result' \in Nat
          /\ OccursAt(pattern, string, result')
      BY <3>1, <3>2, CompleteIsOccurrence DEF IInv
    <3>4. \A q \in 0 .. result' - 1 : ~OccursAt(pattern, string, q)
      BY <2>1, <3>3 DEF IInv, LoopInv
    <3>5. result' \in 0 .. Len(string) - L
      BY <2>1, <3>3 DEF OccursAt, L
    <3>6. IsFirstOccurrence(pattern', string', result')
      BY <3>1, <3>3, <3>4, <3>5 DEF IsFirstOccurrence, L
    <3> QED
      BY <3>1, <3>6 DEF IInv, TypeInv, LoopInv, L
  <2>5. CASE returnNone
    <3>1. /\ pattern' = pattern /\ string' = string /\ i' = i
          /\ matches' = matches /\ pc' = "done" /\ i = Len(string)
          /\ result' = -1
      BY <2>5 DEF returnNone, Return
    <3>2. IsFirstOccurrence(pattern', string', result')
      BY <3>1 DEF IInv, LoopInv, IsFirstOccurrence, L
    <3> QED
      BY <3>1, <3>2 DEF IInv, TypeInv, LoopInv, L
  <2>6. CASE UNCHANGED vars
    BY <2>6 DEF vars, IInv, TypeInv, LoopInv, L
  <2> QED
    BY <2>2, <2>3, <2>4, <2>5, <2>6 DEF Next
<1> QED
  BY <1>1, <1>2, PTL DEF Spec

\* matchPattern() returns the first occurrence of any pattern in any string,
\* or -1 when there is none.
THEOREM FindsFirstAlways == Spec => []FindsFirst
<1>1. IInv => FindsFirst
  BY DEF IInv, FindsFirst
<1> QED
  BY <1>1, IInvInvariant, PTL

\* matches[] has room for every partial match and for the element behind the
\* last one that the removal loop copies.
THEOREM MatchesFit == Spec => []MatchesInBounds
<1>1. IInv => MatchesInBounds
  <2> SUFFICES ASSUME IInv PROVE MatchesInBounds
    OBVIOUS
  <2> DEFINE S == PartialStarts(pattern, string, i)
             R == i - L + 1 .. i - 1
             f == [s \in S |-> [start |-> s, len |-> i - s]]
  <2>1. i \in Nat /\ L \in Nat /\ L >= 2 /\ L <= MaxMsgLen
    BY Lengths DEF IInv
  <2>2. S \in SUBSET R
    BY <2>1 DEF PartialStarts, L
  <2>3. IsFiniteSet(R) /\ Cardinality(R) = L - 1
    <3>1. i - L + 1 \in Int /\ i - 1 \in Int /\ ~(i - L + 1 > i - 1)
          /\ (i - 1) - (i - L + 1) + 1 = L - 1
      BY <2>1
    <3> QED
      BY <3>1, FS_Interval
  <2>4. IsFiniteSet(S) /\ Cardinality(S) <= L - 1
    BY <2>2, <2>3, FS_Subset
  <2>5. f \in Surjection(S, matches)
    <3>1. matches = {[start |-> s, len |-> i - s] : s \in S}
      BY DEF IInv, LoopInv, PartialMatches
    <3> QED
      BY <3>1 DEF Surjection
  <2>6. IsFiniteSet(matches) /\ Cardinality(matches) <= Cardinality(S)
    BY <2>4, <2>5, FS_Surjection
  <2>7. Cardinality(matches) \in Nat /\ Cardinality(S) \in Nat
    BY <2>4, <2>6, FS_CardinalityType
  <2> QED
    BY <2>1, <2>4, <2>6, <2>7, MaxMsgLenAssumption DEF MatchesInBounds, L
<1> QED
  BY <1>1, IInvInvariant, PTL

\* The variables of matchPattern() keep their types; what it returns is a place
\* in the string.
THEOREM TypeCorrect == Spec => []TypeOK
<1>1. IInv => TypeOK
  <2> SUFFICES ASSUME IInv PROVE TypeOK
    OBVIOUS
  <2>1. /\ L \in Nat /\ L >= 2 /\ i \in Nat /\ i <= Len(string) /\ Len(string) \in Nat
    BY Lengths DEF IInv
  <2>2. \A m \in matches : m.start \in 0 .. i /\ m.len \in 1 .. Len(pattern) - 1
    <3> TAKE m \in matches
    <3>1. PICK s \in 0 .. i - 1 : m = [start |-> s, len |-> i - s] /\ i - s < L
      BY DEF IInv, LoopInv, PartialMatches, PartialStarts, L
    <3> QED
      BY <2>1, <3>1 DEF L
  <2>3. result \in -1 .. Len(string)
    <3>1. CASE pc = "done"
      BY <2>1, <3>1 DEF IInv, IsFirstOccurrence, L
    <3>2. CASE pc # "done"
      BY <2>1, <3>2 DEF IInv
    <3> QED
      BY <3>1, <3>2
  <2> QED
    BY <2>2, <2>3 DEF IInv, TypeInv, TypeOK
<1> QED
  BY <1>1, IInvInvariant, PTL

-----------------------------------------------------------------------------
(* fastMatchMessage() and check_device.py *)

\* Row by row, the counts of the two tables.
\* A pattern is a sequence of the length of its message.
LEMMA PatternLength ==
  ASSUME NEW n \in Nat
  PROVE  /\ MsgLen(n) = 2 * n + 4
         /\ Pattern(n) \in Seq(Int) /\ Len(Pattern(n)) = MsgLen(n)
<1>1. MsgLen(n) = 2 * n + 4 /\ MsgLen(n) \in Nat
  BY DEF MsgLen
<1>2. \A k \in 1 .. MsgLen(n) : Pattern(n)[k] \in Int
  BY <1>1 DEF Pattern, MsgStart, MsgEnd, MsgSep, AnyByte
<1>3. Pattern(n) \in [1 .. MsgLen(n) -> Int]
  BY <1>2 DEF Pattern
<1> QED
  BY <1>1, <1>3

\* Byte for byte, what it is for the pattern of a message to occur in a string.
LEMMA OccurrenceBytes ==
  ASSUME NEW n \in Nat, NEW s \in Seq(Int), NEW p \in Nat
  PROVE  OccursAt(Pattern(n), s, p)
           <=> /\ p + MsgLen(n) <= Len(s)
               /\ s[p + 1] = MsgStart /\ s[p + 2] = MsgStart
               /\ \A c \in 1 .. n : s[p + 2 * c + 2] = MsgSep
               /\ s[p + 2 * n + 3] = MsgEnd /\ s[p + 2 * n + 4] = MsgEnd
<1>1. MsgLen(n) = 2 * n + 4 /\ Len(Pattern(n)) = MsgLen(n)
  BY PatternLength
<1>2. \A pos \in 0 .. 2 * n + 3 :
        Pattern(n)[pos + 1] = IF pos + 1 <= 2 THEN MsgStart
                              ELSE IF pos + 1 > 2 * n + 2 THEN MsgEnd
                              ELSE IF (pos + 1) % 2 = 1 THEN AnyByte ELSE MsgSep
  BY <1>1 DEF Pattern
<1>3. PrefixAt(Pattern(n), s, p, MsgLen(n))
        <=> \A pos \in 0 .. 2 * n + 3 : Accepts(Pattern(n), pos, s[p + pos + 1])
  BY <1>1 DEF PrefixAt
<1> DEFINE Written == /\ s[p + 1] = MsgStart /\ s[p + 2] = MsgStart
                      /\ \A c \in 1 .. n : s[p + 2 * c + 2] = MsgSep
                      /\ s[p + 2 * n + 3] = MsgEnd /\ s[p + 2 * n + 4] = MsgEnd
           Accepted == \A pos \in 0 .. 2 * n + 3 :
                         Accepts(Pattern(n), pos, s[p + pos + 1])
<1>4. ASSUME Written, NEW pos \in 0 .. 2 * n + 3
      PROVE  Accepts(Pattern(n), pos, s[p + pos + 1])
  <2>1. CASE pos <= 1
    BY <1>2, <1>4, <2>1 DEF Accepts
  <2>2. CASE pos >= 2 * n + 2
    <3>1. pos = 2 * n + 2 \/ pos = 2 * n + 3
      BY <2>2
    <3> QED
      BY <1>2, <1>4, <3>1 DEF Accepts
  <2>3. CASE pos > 1 /\ pos < 2 * n + 2 /\ (pos + 1) % 2 = 1
    BY <1>2, <1>4, <2>3 DEF Accepts
  <2>4. CASE pos > 1 /\ pos < 2 * n + 2 /\ (pos + 1) % 2 # 1
    <3>1. PICK c \in 1 .. n : pos = 2 * c + 1
      <4>1. (pos - 1) \div 2 \in 1 .. n /\ pos = 2 * ((pos - 1) \div 2) + 1
        BY <2>4
      <4> QED
        BY <4>1
    <3>2. s[p + pos + 1] = MsgSep
      <4>1. p + pos + 1 = p + 2 * c + 2
        BY <3>1
      <4> QED
        BY <1>4, <4>1
    <3>3. Pattern(n)[pos + 1] = MsgSep
      BY <1>2, <2>4
    <3> QED
      BY <3>2, <3>3 DEF Accepts
  <2> QED
    BY <2>1, <2>2, <2>3, <2>4
<1>5. ASSUME Accepted
      PROVE  Written
  <2>1. \A k \in 1 .. 2 * n + 4 :
          Pattern(n)[k] # AnyByte => s[p + k] = Pattern(n)[k]
    <3> SUFFICES ASSUME NEW k \in 1 .. 2 * n + 4, Pattern(n)[k] # AnyByte
                 PROVE  s[p + k] = Pattern(n)[k]
      OBVIOUS
    <3>1. k - 1 \in 0 .. 2 * n + 3 /\ (k - 1) + 1 = k /\ p + (k - 1) + 1 = p + k
      OBVIOUS
    <3>2. Accepts(Pattern(n), k - 1, s[p + (k - 1) + 1])
      BY <1>5, <3>1
    <3> QED
      BY <3>1, <3>2 DEF Accepts
  <2>2. \A k \in 1 .. 2 * n + 4 :
          Pattern(n)[k] = IF k <= 2 THEN MsgStart
                          ELSE IF k > 2 * n + 2 THEN MsgEnd
                          ELSE IF k % 2 = 1 THEN AnyByte ELSE MsgSep
    BY <1>1 DEF Pattern
  <2>3. s[p + 1] = MsgStart /\ s[p + 2] = MsgStart
    <3>1. 1 \in 1 .. 2 * n + 4 /\ 2 \in 1 .. 2 * n + 4
      OBVIOUS
    <3>2. Pattern(n)[1] = MsgStart /\ Pattern(n)[2] = MsgStart
      BY <2>2, <3>1
    <3> QED
      BY <2>1, <3>1, <3>2 DEF MsgStart, AnyByte
  <2>4. s[p + 2 * n + 3] = MsgEnd /\ s[p + 2 * n + 4] = MsgEnd
    <3>1. 2 * n + 3 \in 1 .. 2 * n + 4 /\ 2 * n + 4 \in 1 .. 2 * n + 4
      OBVIOUS
    <3>2. Pattern(n)[2 * n + 3] = MsgEnd /\ Pattern(n)[2 * n + 4] = MsgEnd
      BY <2>2, <3>1
    <3>3. s[p + (2 * n + 3)] = MsgEnd /\ s[p + (2 * n + 4)] = MsgEnd
      BY <2>1, <3>1, <3>2 DEF MsgEnd, AnyByte
    <3> QED
      BY <3>3
  <2>5. ASSUME NEW c \in 1 .. n PROVE s[p + 2 * c + 2] = MsgSep
    <3>1. 2 * c + 2 \in 1 .. 2 * n + 4 /\ ~(2 * c + 2 <= 2)
          /\ ~(2 * c + 2 > 2 * n + 2) /\ (2 * c + 2) % 2 # 1
      OBVIOUS
    <3>2. Pattern(n)[2 * c + 2] = MsgSep
      BY <2>2, <3>1
    <3>3. s[p + (2 * c + 2)] = MsgSep
      BY <2>1, <3>1, <3>2 DEF MsgSep, AnyByte
    <3> QED
      BY <3>3
  <2> QED
    BY <2>3, <2>4, <2>5
<1> QED
  BY <1>1, <1>3, <1>4, <1>5 DEF OccursAt

LEMMA RowLengths ==
  \A n \in 1 .. MaxVars : PatternZeros[n] = 2 * n /\ LookupPairs[n] = n
  BY DEF MaxVars, PatternZeros, LookupPairs

\* For every number of variables that has a row, the tables hold the pattern
\* that matchMessage() builds.
THEOREM TablesAreRight == \A n \in 1 .. MaxVars : FastPattern(n) = Pattern(n)
<1> SUFFICES ASSUME NEW n \in 1 .. MaxVars PROVE FastPattern(n) = Pattern(n)
  OBVIOUS
<1>1. n \in Nat /\ n >= 1
  BY DEF MaxVars
<1>2. MsgLen(n) = 2 * n + 4
  BY <1>1, PatternLength
<1>3. PatternZeros[n] = 2 * n /\ LookupPairs[n] = n
  BY RowLengths
<1>4. ASSUME NEW k \in 1 .. MsgLen(n)
      PROVE  FastPattern(n)[k] = Pattern(n)[k]
  <2>1. k \in Nat /\ k >= 1 /\ k <= 2 * n + 4
    BY <1>1, <1>2
  <2>2. getLookup(n)[k] = IF k > 2 /\ k <= 2 * n + 2 /\ k % 2 = 1
                            THEN LuFalse ELSE LuTrue
    BY <1>1, <1>3, <2>1 DEF getLookup
  <2>3. getPattern(n)[k] = IF k <= 2 THEN MsgStart
                           ELSE IF k <= 2 * n + 2 THEN 0 ELSE MsgEnd
    BY <1>1, <1>3, <2>1 DEF getPattern
  <2>4. FastPattern(n)[k] = IF getLookup(n)[k] = LuFalse
                              THEN AnyByte ELSE getPattern(n)[k]
    BY <1>4 DEF FastPattern
  <2>5. Pattern(n)[k] = IF k <= 2 THEN MsgStart
                        ELSE IF k > 2 * n + 2 THEN MsgEnd
                        ELSE IF k % 2 = 1 THEN AnyByte ELSE MsgSep
    BY <1>1, <1>2, <1>4 DEF Pattern
  <2> QED
    BY <1>1, <2>1, <2>2, <2>3, <2>4, <2>5 DEF LuFalse, LuTrue, MsgSep
<1> QED
  BY <1>4 DEF FastPattern, Pattern

\* fastMatchMessage() returns what matchMessage() promises, for every number of
\* variables that has a row and every string.
THEOREM FastFindsTheSameAlways == Spec => []FastFindsTheSame
<1>1. TypeInv /\ FindsFirst => FastFindsTheSame
  <2> SUFFICES ASSUME TypeInv, FindsFirst, pc = "done",
                      NEW n \in 1 .. MaxVars, pattern = FastPatterns[n]
               PROVE  matchMessage(string, n, result)
    BY DEF FastFindsTheSame
  <2>1. n \in Nat /\ ~(n > MaxVars)
    BY DEF MaxVars
  <2>2. pattern = Pattern(n)
    BY TablesAreRight DEF FastPatterns
  <2>3. IsFirstOccurrence(Pattern(n), string, result)
    BY <2>2 DEF FindsFirst
  <2>4. string = << >> => result = -1
    BY <2>1, <2>3, PatternLength DEF IsFirstOccurrence
  <2> QED
    BY <2>1, <2>3, <2>4 DEF matchMessage
<1>2. IInv => TypeInv
  BY DEF IInv
<1> QED
  BY <1>1, <1>2, IInvInvariant, FindsFirstAlways, PTL

-----------------------------------------------------------------------------

\* Whatever the line brings and however many variables are configured, a device
\* passes the check exactly if matchMessage() finds its message where the
\* script did.
THEOREM CheckAgreesAlways == Spec => []AgreesWithCheck
<1>1. TypeInv /\ FindsFirst => AgreesWithCheck
  <2> SUFFICES ASSUME TypeInv, FindsFirst, pc = "done",
                      NEW n \in 0 .. MaxVars, NEW p \in 0 .. Len(string) - 1,
                      pattern = Pattern(n)
               PROVE  readOneMessage(string, n, p)
                        <=> /\ result = p
                            /\ p < MsgLen(n)
                            /\ \A q \in 1 .. p : string[q] # MsgStart
    BY DEF AgreesWithCheck
  <2>1. n \in Nat /\ string \in Seq(Int) /\ Len(string) \in Nat /\ p \in Nat
    BY StringsAssumption DEF TypeInv, MaxVars
  <2>2. MsgLen(n) = 2 * n + 4 /\ Len(Pattern(n)) = MsgLen(n)
    BY <2>1, PatternLength
  <2>3. IsFirstOccurrence(Pattern(n), string, result)
    BY DEF FindsFirst
  <2>4. ASSUME readOneMessage(string, n, p)
        PROVE  /\ result = p
               /\ p < MsgLen(n)
               /\ \A q \in 1 .. p : string[q] # MsgStart
    <3>1. OccursAt(Pattern(n), string, p)
      BY <2>1, <2>4, OccurrenceBytes DEF readOneMessage
    <3>2. p < MsgLen(n) /\ \A q \in 1 .. p : string[q] # MsgStart
      BY <2>1, <2>2, <2>4 DEF readOneMessage
    <3>3. \A q \in 0 .. p - 1 : ~OccursAt(Pattern(n), string, q)
      <4> SUFFICES ASSUME NEW q \in 0 .. p - 1, OccursAt(Pattern(n), string, q)
                   PROVE  FALSE
        OBVIOUS
      <4>1. string[q + 1] = MsgStart
        BY <2>1, OccurrenceBytes
      <4> QED
        BY <2>1, <3>2, <4>1
    <3>4. p \in 0 .. Len(string) - Len(Pattern(n))
      BY <2>1, <2>2, <3>1 DEF OccursAt
    <3>5. result \in 0 .. Len(string) - Len(Pattern(n))
      BY <2>3, <3>1, <3>4 DEF IsFirstOccurrence
    <3>6. /\ OccursAt(Pattern(n), string, result)
          /\ \A q \in 0 .. result - 1 : ~OccursAt(Pattern(n), string, q)
      BY <2>3, <3>5 DEF IsFirstOccurrence
    <3>7. result = p
      <4>1. result \in Nat
        BY <3>5
      <4>2. ~(p < result)
        BY <2>1, <3>1, <3>6, <4>1
      <4>3. ~(result < p)
        BY <2>1, <3>3, <3>6, <4>1
      <4> QED
        BY <2>1, <4>1, <4>2, <4>3
    <3> QED
      BY <3>2, <3>7
  <2>5. ASSUME result = p, p < MsgLen(n), \A q \in 1 .. p : string[q] # MsgStart
        PROVE  readOneMessage(string, n, p)
    <3>1. OccursAt(Pattern(n), string, p)
      BY <2>1, <2>3, <2>5 DEF IsFirstOccurrence
    <3>2. /\ p + MsgLen(n) <= Len(string)
          /\ string[p + 1] = MsgStart /\ string[p + 2] = MsgStart
          /\ \A c \in 1 .. n : string[p + 2 * c + 2] = MsgSep
          /\ string[p + 2 * n + 3] = MsgEnd /\ string[p + 2 * n + 4] = MsgEnd
      BY <2>1, <3>1, OccurrenceBytes
    <3>3. p < (n + 2) * 2
      BY <2>1, <2>2, <2>5
    <3> QED
      BY <2>5, <3>2, <3>3 DEF readOneMessage
  <2> QED
    BY <2>4, <2>5
<1>2. IInv => TypeInv
  BY DEF IInv
<1> QED
  BY <1>1, <1>2, IInvInvariant, FindsFirstAlways, PTL

=============================================================================
