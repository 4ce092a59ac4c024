---------------------------- MODULE StringSplit ----------------------------
(***************************************************************************)
(* stringSplit() of StringSplit.c, which oscLiveMain.c splits the list of   *)
(* devices with: one pass over the string, one step per character, and an   *)
(* array of words that doubles when one place is left for the NULL that     *)
(* ends it.  The malloc() of increase() may fail.                           *)
(***************************************************************************)
EXTENDS Integers, Sequences, SequencesExt

CONSTANTS Letter,   \* characters that isspace() does not hold for
          Space,    \* and those it does
          Strings   \* the strings to split; their end stands for '\0'

ASSUME CharAssumption == Letter \cap Space = {}
ASSUME StringsAssumption == Strings \subseteq Seq(Letter \cup Space)

VARIABLES string,   \* string
          i,        \* the character the loop is at, from 0
          w_start,  \* where the word began that the loop is in
          result,   \* the words found: result[0 .. w_count - 1]
          size,     \* places of the array
          pc        \* "loop", "done", or "failed" when NULL was returned

vars == <<string, i, w_start, result, size, pc>>

Init ==
  /\ string \in Strings
  /\ i = 0 /\ w_start = 0
  /\ result = << >> /\ size = 2
  /\ pc = "loop"

AtEnd == i = Len(string)

\* Fault: the end of the string does not end a word.
SpaceOnly == ~AtEnd /\ string[i + 1] \in Space

EndsWord == AtEnd \/ string[i + 1] \in Space

\* Fault: the space goes with the word.
FoundTooLong ==
  IF EndsWord /\ w_start # i
    THEN Append(result, SubSeq(string, w_start + 1, IF AtEnd THEN i ELSE i + 1))
    ELSE result

Found ==
  IF EndsWord /\ w_start # i
    THEN Append(result, SubSeq(string, w_start + 1, i))
    ELSE result

\* Fault: the array grows when a word has been written behind it.
GrowsTooLate(words) == Len(words) = size + 1

MustGrow(words) == Len(words) = size - 1

nextChar ==
  /\ pc = "loop"
  /\ result' = Found
  /\ w_start' = IF EndsWord THEN i + 1 ELSE w_start
  /\ size' = IF MustGrow(Found) THEN size * 2 ELSE size
  /\ i' = i + 1
  /\ pc' = IF AtEnd THEN "done" ELSE "loop"
  /\ UNCHANGED string

increaseFails ==
  /\ pc = "loop"
  /\ MustGrow(Found)
  /\ pc' = "failed"
  /\ UNCHANGED <<string, i, w_start, result, size>>

Next == nextChar \/ increaseFails

Spec == Init /\ [][Next]_vars

-----------------------------------------------------------------------------
(* Properties *)

\* Every variable has its type.
TypeOK ==
  /\ string \in Strings
  /\ i \in 0 .. Len(string) + 1 /\ w_start \in 0 .. i
  /\ result \in Seq(Seq(Letter)) /\ size \in Nat
  /\ pc \in {"loop", "done", "failed"}

\* The pieces of a string: between two positions without a separator, and no
\* character but a separator next to them.
IsPiece(s, seps, from, to) ==
  /\ from <= to
  /\ \A k \in from .. to : s[k] \notin seps
  /\ from = 1 \/ s[from - 1] \in seps
  /\ to = Len(s) \/ s[to + 1] \in seps

Places(s, seps) ==
  {p \in (1 .. Len(s)) \X (1 .. Len(s)) : IsPiece(s, seps, p[1], p[2])}

\* The nth of them: so many begin where it does or before.
Nth(s, seps, n) ==
  CHOOSE p \in Places(s, seps) :
    Cardinality({q \in Places(s, seps) : q[1] <= p[1]}) = n

Pieces(s, seps) ==
  [n \in 1 .. Cardinality(Places(s, seps)) |->
     SubSeq(s, Nth(s, seps, n)[1], Nth(s, seps, n)[2])]

Words(s) == Pieces(s, Space)

\* The call returns all words of the string in their order and nothing else:
\* not an empty word between two spaces, and the word at the end as well.
FindsAllWords == pc = "done" => result = Words(string)

\* There is always a place left behind the words: neither the next word nor the
\* NULL at the end is written behind the array, however many words there are.
RoomForNull == pc # "failed" => Len(result) < size

=============================================================================
