--------------------------- MODULE PatternMatcher ---------------------------
(***************************************************************************)
(* matchPattern() of PatternMatcher.c: one pass over the string with the    *)
(* set of all prefixes of the pattern that end at the current byte.  One    *)
(* step per byte.  matches is a set: the order of the array is the order of *)
(* the starts, and at most one match is complete at a byte.                 *)
(***************************************************************************)
EXTENDS SerialProtocol, FiniteSets

CONSTANTS Patterns,   \* the patterns searched for
          Strings,    \* the strings searched
          MaxMsgLen   \* MAX_MSG_LEN, slots of the array matches[]

ASSUME PatternsAssumption ==
  \A p \in Patterns : p \in Seq(Int) /\ Len(p) >= 2 /\ Len(p) <= MaxMsgLen
ASSUME StringsAssumption == Strings \subseteq Seq(Int)
ASSUME MaxMsgLenAssumption == MaxMsgLen \in Nat

VARIABLES pattern,  \* pattern and lookup
          string,   \* string
          i,        \* the byte the outer loop is at
          matches,  \* the partial matches: matches[0 .. matches_n - 1]
          pc,       \* "start", "loop" or "done"
          result    \* what the call returned

vars == <<pattern, string, i, matches, pc, result>>

Init ==
  /\ pattern \in Patterns
  /\ string \in Strings
  /\ i = 0
  /\ matches = {}
  /\ pc = "start"
  /\ result = -1

Return(r) == result' = r /\ pc' = "done"

checkLengths ==
  /\ pc = "start"
  /\ IF Len(pattern) > Len(string)
       THEN Return(-1)
       ELSE pc' = "loop" /\ UNCHANGED result
  /\ UNCHANGED <<pattern, string, i, matches>>

\* Faults: a match that is carried on but also stays where it was; a new match
\* only where none is under way; a new match that forgets its first byte.
ExtendedAndKept(b) ==
  matches \cup {[start |-> m.start, len |-> m.len + 1] :
                  m \in {n \in matches : Accepts(pattern, n.len, b)}}

BegunWhenIdle(b) ==
  IF matches = {} /\ Accepts(pattern, 0, b)
    THEN {[start |-> i, len |-> 1]}
    ELSE {}

BegunEmpty(b) ==
  IF Accepts(pattern, 0, b) THEN {[start |-> i, len |-> 0]} ELSE {}

\* The matches that byte b carries on, one position longer, ...
Extended(b) ==
  {[start |-> m.start, len |-> m.len + 1] :
     m \in {n \in matches : Accepts(pattern, n.len, b)}}

\* ... and the one it may begin.
Begun(b) ==
  IF Accepts(pattern, 0, b) THEN {[start |-> i, len |-> 1]} ELSE {}

Complete(b) == {m \in Extended(b) : m.len = Len(pattern)}

nextByte ==
  /\ pc = "loop"
  /\ i < Len(string)
  /\ Complete(string[i + 1]) = {}
  /\ matches' = Extended(string[i + 1]) \cup Begun(string[i + 1])
  /\ i' = i + 1
  /\ UNCHANGED <<pattern, string, pc, result>>

returnMatch ==
  /\ pc = "loop"
  /\ i < Len(string)
  /\ \E m \in Complete(string[i + 1]) : Return(m.start)
  /\ UNCHANGED <<pattern, string, i, matches>>

returnNone ==
  /\ pc = "loop"
  /\ i = Len(string)
  /\ Return(-1)
  /\ UNCHANGED <<pattern, string, i, matches>>

Next == checkLengths \/ nextByte \/ returnMatch \/ returnNone

Spec == Init /\ [][Next]_vars

-----------------------------------------------------------------------------
(* Properties *)

\* Every variable has its type.
TypeOK ==
  /\ pattern \in Patterns
  /\ string \in Strings
  /\ i \in 0 .. Len(string)
  /\ \A m \in matches : m.start \in 0 .. i /\ m.len \in 1 .. Len(pattern) - 1
  /\ pc \in {"start", "loop", "done"}
  /\ result \in -1 .. Len(string)

\* The call returns the first place where the pattern occurs, or -1 if there
\* is none: no occurrence is missed because its bytes were already part of
\* another partial match, and a later occurrence is never preferred.
FindsFirst == pc = "done" => IsFirstOccurrence(pattern, string, result)

\* The global array matches[] is big enough: there are always fewer partial
\* matches than the pattern has bytes, so that neither removing one, which
\* copies matches[k + 1] for every k up to matches_n - 1, nor adding one touches
\* memory behind its MAX_MSG_LEN slots.
MatchesInBounds ==
  /\ Cardinality(matches) < Len(pattern)
  /\ Len(pattern) <= MaxMsgLen

=============================================================================
