-------------------------- MODULE MCPatternMatcher --------------------------
(* The patterns of messages with 0, 1 and 2 variables, the rows of the tables *)
(* for up to 3, and two patterns that overlap with themselves more.  The      *)
(* strings: all over the protocol's bytes up to length 5, and two messages    *)
(* whose data bytes look like markers, the first of them cut short.           *)
(* MAX_MSG_LEN is that of three variables.                                    *)
EXTENDS MatchMessage

MCPatterns ==
  {Pattern(0), Pattern(1), Pattern(2)} \cup {FastPattern(n) : n \in 1 .. 3} \cup
  {<<MsgStart, AnyByte, MsgStart>>, [k \in 1 .. 8 |-> IF k < 8 THEN AnyByte ELSE MsgEnd]}

MCBytes == {MsgStart, MsgEnd, MsgSep}

MCFrames(n, bytes) == {Frame(v) : v \in [1 .. n -> bytes]}

CutAndWhole(n, bytes) ==
  {SubSeq(f, k, Len(f)) \o g : f, g \in MCFrames(n, bytes), k \in 1 .. 4}

MCStrings ==
  UNION {[1 .. n -> MCBytes] : n \in 0 .. 5} \cup
  CutAndWhole(1, MCBytes) \cup CutAndWhole(2, MCBytes) \cup
  CutAndWhole(3, {MsgStart, MsgEnd})

=============================================================================
