--------------------------- MODULE StartupProofs ---------------------------
(***************************************************************************)
(* How the program starts, for every list of devices it may be given and    *)
(* whatever fails on the way: stringSplit() finds the words of the line and  *)
(* never overruns its array, main() serves every device of the line or none,  *)
(* and with what run.sh has checked.                                         *)
(***************************************************************************)
EXTENDS Startup, FiniteSetTheorems, SequenceTheorems, TLAPS

-----------------------------------------------------------------------------
(* The messages of the devices *)

\* ROUND_TO_FOUR(x) is a multiple of four, and larger than x by one to four.
LEMMA RoundsUp ==
  ASSUME NEW x \in Nat
  PROVE  /\ RoundToFour(x) \in Nat
         /\ RoundToFour(x) % 4 = 0
         /\ RoundToFour(x) - x \in 1 .. 4
  BY DEF RoundToFour

\* For every address and every number of variables the parts of a message begin
\* at multiples of four, its strings end with a zero byte and its bytes fill
\* exactly the memory that sendMessageToBundle() allocates for them.
THEOREM LayoutIsOscAlways ==
  ASSUME NEW addr_len \in Nat, NEW var_n \in Nat
  PROVE  LayoutIsOsc(addr_len, var_n)
<1> DEFINE ra == RoundToFour(1 + addr_len)
           rn == RoundToFour(1 + var_n)
<1>1. /\ ra \in Nat /\ ra % 4 = 0 /\ ra - (1 + addr_len) \in 1 .. 4
  BY RoundsUp
<1>2. /\ rn \in Nat /\ rn % 4 = 0 /\ rn - (1 + var_n) \in 1 .. 4
  BY RoundsUp
<1>3. TypesAt(addr_len) = 4 + ra
  BY <1>1 DEF TypesAt, AddressAt
<1>4. ValuesAt(addr_len, var_n) = 4 + ra + rn
  BY <1>1, <1>2, <1>3 DEF ValuesAt
<1>5. TotMsgLen(addr_len, var_n) = 4 + ra + rn + var_n * FloatLen
  BY DEF TotMsgLen
<1> HIDE DEF ra, rn
<1>6. (4 + ra) % 4 = 0 /\ (4 + ra + rn) % 4 = 0
  BY <1>1, <1>2
<1>7. QED
  BY <1>1, <1>2, <1>3, <1>4, <1>5, <1>6 DEF LayoutIsOsc, EndAt, AddressAt, FloatLen

\* Whatever device matchMessage() finds messages of, and whatever number main()
\* gives it for an address, the bundle takes the message: the result of
\* addToBundle(), which sendMessageToBundle() does not look at, is no refusal.
THEOREM MessagesFit ==
  ASSUME NEW addr_len \in 0 .. MaxAddressLen, NEW var_n \in 0 .. MaxVars
  PROVE  MessageFits(addr_len, var_n)
<1>1. addr_len \in Nat /\ addr_len <= 15 /\ var_n \in Nat /\ var_n <= 20
  BY DEF MaxAddressLen, MaxVars
<1>2. /\ RoundToFour(1 + addr_len) \in Nat
      /\ RoundToFour(1 + addr_len) - (1 + addr_len) \in 1 .. 4
  BY <1>1, RoundsUp
<1>3. /\ RoundToFour(1 + var_n) \in Nat
      /\ RoundToFour(1 + var_n) - (1 + var_n) \in 1 .. 4
  BY <1>1, RoundsUp
<1>4. QED
  BY <1>1, <1>2, <1>3 DEF MessageFits, TotMsgLen, MaxMsgSize, FloatLen

-----------------------------------------------------------------------------
(* The pieces of a string *)

LEMMA PlacesFinite ==
  ASSUME NEW X, NEW s \in Seq(X), NEW seps
  PROVE  /\ IsFiniteSet(Places(s, seps))
         /\ Cardinality(Places(s, seps)) \in Nat
<1>1. IsFiniteSet(1 .. Len(s))
  BY FS_Interval
<1>2. IsFiniteSet((1 .. Len(s)) \X (1 .. Len(s)))
  BY <1>1, FS_Product
<1>3. Places(s, seps) \in SUBSET ((1 .. Len(s)) \X (1 .. Len(s)))
  BY DEF Places
<1> QED
  BY <1>2, <1>3, FS_Subset, FS_CardinalityType

LEMMA PlaceIs ==
  ASSUME NEW X, NEW s \in Seq(X), NEW seps, NEW p \in Places(s, seps)
  PROVE  /\ p[1] \in 1 .. Len(s) /\ p[2] \in p[1] .. Len(s)
         /\ p = <<p[1], p[2]>>
         /\ \A k \in p[1] .. p[2] : s[k] \notin seps
         /\ p[1] = 1 \/ s[p[1] - 1] \in seps
         /\ p[2] = Len(s) \/ s[p[2] + 1] \in seps
<1>1. p \in (1 .. Len(s)) \X (1 .. Len(s)) /\ IsPiece(s, seps, p[1], p[2])
  BY DEF Places
<1> QED
  BY <1>1 DEF IsPiece

\* Two pieces that begin at different places have a separator between them.
LEMMA PiecesApart ==
  ASSUME NEW X, NEW s \in Seq(X), NEW seps,
         NEW p \in Places(s, seps), NEW q \in Places(s, seps)
  PROVE  /\ p[1] < q[1] => p[2] + 1 < q[1]
         /\ p[1] = q[1] => p = q
<1>1. ASSUME NEW a \in Places(s, seps), NEW b \in Places(s, seps), a[1] = b[1]
      PROVE  ~(a[2] < b[2])
  <2> SUFFICES ASSUME a[2] < b[2] PROVE FALSE
    OBVIOUS
  <2>1. s[a[2] + 1] \in seps
    BY PlaceIs
  <2>2. a[2] + 1 \in b[1] .. b[2]
    BY <1>1, PlaceIs
  <2> QED
    BY <2>1, <2>2, PlaceIs
<1>2. ASSUME p[1] < q[1] PROVE p[2] + 1 < q[1]
  <2>1. s[q[1] - 1] \in seps
    BY <1>2, PlaceIs
  <2>2. q[1] - 1 \notin p[1] .. p[2]
    BY <2>1, PlaceIs
  <2> QED
    BY <1>2, <2>2, PlaceIs
<1>3. ASSUME p[1] = q[1] PROVE p = q
  <2>1. ~(p[2] < q[2]) /\ ~(q[2] < p[2])
    BY <1>1, <1>3
  <2>2. p[2] = q[2]
    BY <2>1, PlaceIs
  <2> QED
    BY <1>3, <2>2, PlaceIs
<1> QED
  BY <1>2, <1>3

\* The nth piece is one, every piece is the nth for some n, and the pieces are
\* counted in the order in which they begin.
Before(s, seps, p) == {q \in Places(s, seps) : q[1] <= p[1]}

LEMMA Ranked ==
  ASSUME NEW X, NEW s \in Seq(X), NEW seps
  PROVE  /\ \A p \in Places(s, seps) :
              Cardinality(Before(s, seps, p)) \in 1 .. Cardinality(Places(s, seps))
         /\ \A p, q \in Places(s, seps) :
              p[1] < q[1] => Cardinality(Before(s, seps, p))
                               < Cardinality(Before(s, seps, q))
<1> DEFINE P == Places(s, seps)
           B(p) == Before(s, seps, p)
<1>1. IsFiniteSet(P) /\ Cardinality(P) \in Nat
  BY PlacesFinite
<1>2. ASSUME NEW p \in P
      PROVE  /\ IsFiniteSet(B(p)) /\ Cardinality(B(p)) \in 1 .. Cardinality(P)
             /\ p \in B(p)
  <2>1. B(p) \in SUBSET P
    BY DEF Before
  <2>2. IsFiniteSet(B(p)) /\ Cardinality(B(p)) <= Cardinality(P)
    BY <1>1, <2>1, FS_Subset
  <2>3. p \in B(p)
    BY PlaceIs DEF Before
  <2>4. Cardinality(B(p)) \in Nat /\ Cardinality(B(p)) # 0
    BY <2>2, <2>3, FS_CardinalityType, FS_EmptySet
  <2> QED
    BY <1>1, <2>2, <2>3, <2>4
<1>3. ASSUME NEW p \in P, NEW q \in P, p[1] < q[1]
      PROVE  Cardinality(B(p)) < Cardinality(B(q))
  <2>1. B(p) \in SUBSET B(q)
    BY <1>3, PlaceIs DEF Before
  <2>2. q \in B(q) /\ q \notin B(p)
    BY <1>3, PlaceIs DEF Before
  <2>3. /\ Cardinality(B(p)) <= Cardinality(B(q))
        /\ Cardinality(B(p)) # Cardinality(B(q))
    BY <1>2, <2>1, <2>2, FS_Subset
  <2>4. Cardinality(B(p)) \in Nat /\ Cardinality(B(q)) \in Nat
    BY <1>1, <1>2
  <2> QED
    BY <2>3, <2>4
<1> QED
  BY <1>2, <1>3

LEMMA EveryRankTaken ==
  ASSUME NEW X, NEW s \in Seq(X), NEW seps,
         NEW n \in 1 .. Cardinality(Places(s, seps))
  PROVE  \E p \in Places(s, seps) : Cardinality(Before(s, seps, p)) = n
<1> DEFINE P == Places(s, seps)
           N == 1 .. Cardinality(P)
           rank == [p \in P |-> Cardinality(Before(s, seps, p))]
<1>1. IsFiniteSet(P) /\ Cardinality(P) \in Nat
  BY PlacesFinite
<1>2. rank \in [P -> N]
  BY Ranked
<1>3. ASSUME NEW p \in P, NEW q \in P, p # q PROVE rank[p] # rank[q]
  <2>1. p[1] < q[1] \/ q[1] < p[1]
    BY <1>3, PiecesApart, PlaceIs
  <2>2. rank[p] < rank[q] \/ rank[q] < rank[p]
    BY <2>1, Ranked
  <2>3. rank[p] \in Nat /\ rank[q] \in Nat
    BY <1>1, <1>2
  <2> QED
    BY <2>2, <2>3
<1> HIDE DEF rank
<1>4. rank \in Injection(P, N)
  BY <1>2, <1>3 DEF Injection, IsInjective
<1>5. IsFiniteSet(N) /\ Cardinality(N) = Cardinality(P)
  BY <1>1, FS_Interval
<1>6. rank \in Surjection(P, N)
  BY <1>4, <1>5, FS_Injection
<1>7. PICK p \in P : rank[p] = n
  BY <1>6 DEF Surjection
<1> QED
  BY <1>7 DEF rank

LEMMA NthIs ==
  ASSUME NEW X, NEW s \in Seq(X), NEW seps,
         NEW n \in 1 .. Cardinality(Places(s, seps))
  PROVE  /\ Nth(s, seps, n) \in Places(s, seps)
         /\ Cardinality(Before(s, seps, Nth(s, seps, n))) = n
<1>1. \E p \in Places(s, seps) : Cardinality(Before(s, seps, p)) = n
  BY EveryRankTaken
<1> QED
  BY <1>1 DEF Nth, Before

LEMMA NthInOrder ==
  ASSUME NEW X, NEW s \in Seq(X), NEW seps,
         NEW m \in 1 .. Cardinality(Places(s, seps)),
         NEW n \in 1 .. Cardinality(Places(s, seps)), m < n
  PROVE  Nth(s, seps, m)[1] < Nth(s, seps, n)[1]
<1> DEFINE p == Nth(s, seps, m)
           q == Nth(s, seps, n)
<1>1. /\ p \in Places(s, seps) /\ q \in Places(s, seps)
      /\ Cardinality(Before(s, seps, p)) = m /\ Cardinality(Before(s, seps, q)) = n
  BY NthIs
<1> HIDE DEF p, q
<1>2. ~(q[1] < p[1])
  <2>1. q[1] < p[1] => n < m
    BY <1>1, Ranked
  <2> QED
    BY <2>1
<1>3. q[1] # p[1]
  <2>1. q[1] = p[1] => q = p
    BY <1>1, PiecesApart
  <2> QED
    BY <1>1, <2>1
<1>4. p[1] < q[1]
  BY <1>1, <1>2, <1>3, PlaceIs
<1> QED
  BY <1>4 DEF p, q

LEMMA IsNth ==
  ASSUME NEW X, NEW s \in Seq(X), NEW seps, NEW p \in Places(s, seps)
  PROVE  \E n \in 1 .. Cardinality(Places(s, seps)) : Nth(s, seps, n) = p
<1> DEFINE n == Cardinality(Before(s, seps, p))
           q == Nth(s, seps, n)
<1>1. n \in 1 .. Cardinality(Places(s, seps))
  BY Ranked
<1>2. q \in Places(s, seps) /\ Cardinality(Before(s, seps, q)) = n
  BY <1>1, NthIs
<1>3. ~(p[1] < q[1]) /\ ~(q[1] < p[1])
  <2>1. p[1] < q[1] => n < n
    BY <1>2, Ranked
  <2>2. q[1] < p[1] => n < n
    BY <1>2, Ranked
  <2>3. ~(n < n)
    BY <1>1
  <2> QED
    BY <2>1, <2>2, <2>3
<1>4. p = q
  BY <1>2, <1>3, PiecesApart, PlaceIs
<1> QED
  BY <1>1, <1>4

LEMMA PiecesAre ==
  ASSUME NEW X, NEW s \in Seq(X), NEW seps
  PROVE  /\ Pieces(s, seps) \in Seq(Seq(X \ seps))
         /\ Len(Pieces(s, seps)) = Cardinality(Places(s, seps))
<1> DEFINE N == Cardinality(Places(s, seps))
<1>1. N \in Nat
  BY PlacesFinite
<1>2. ASSUME NEW n \in 1 .. N
      PROVE  SubSeq(s, Nth(s, seps, n)[1], Nth(s, seps, n)[2]) \in Seq(X \ seps)
  <2> DEFINE p == Nth(s, seps, n)
  <2>1. p \in Places(s, seps)
    BY NthIs
  <2> HIDE DEF p
  <2>2. p[1] \in 1 .. Len(s) /\ p[2] \in p[1] .. Len(s)
    BY <2>1, PlaceIs
  <2>3. \A k \in p[1] .. p[2] : s[k] \in X \ seps
    BY <2>1, <2>2, PlaceIs
  <2>4. p[1] \in Int /\ p[2] \in Int
    BY <2>2
  <2>5. SubSeq(s, p[1], p[2]) \in Seq(X \ seps)
    BY <2>3, <2>4, SubSeqProperties
  <2> QED
    BY <2>5 DEF p
<1>3. Pieces(s, seps) \in [1 .. N -> Seq(X \ seps)]
  BY <1>2 DEF Pieces
<1> HIDE DEF N
<1>4. Pieces(s, seps) \in Seq(Seq(X \ seps)) /\ Len(Pieces(s, seps)) = N
  BY <1>1, <1>3
<1> QED
  BY <1>4 DEF N

LEMMA PieceIs ==
  ASSUME NEW X, NEW s \in Seq(X), NEW seps,
         NEW n \in 1 .. Cardinality(Places(s, seps))
  PROVE  /\ Len(Pieces(s, seps)[n]) = Nth(s, seps, n)[2] - Nth(s, seps, n)[1] + 1
         /\ \A k \in 1 .. Nth(s, seps, n)[2] - Nth(s, seps, n)[1] + 1 :
              Pieces(s, seps)[n][k] = s[Nth(s, seps, n)[1] + k - 1]
<1> DEFINE p == Nth(s, seps, n)
<1>1. p \in Places(s, seps)
  BY NthIs
<1>2. Pieces(s, seps)[n] = SubSeq(s, p[1], p[2])
  BY DEF Pieces
<1> HIDE DEF p
<1>3. p[1] \in 1 .. Len(s) /\ p[2] \in p[1] .. Len(s)
  BY <1>1, PlaceIs
<1>4. /\ \A k \in p[1] .. p[2] : s[k] \in X
      /\ p[1] \in Int /\ p[2] \in Int /\ p[1] <= p[2]
  BY <1>3
<1>5. /\ Len(SubSeq(s, p[1], p[2])) = p[2] - p[1] + 1
      /\ \A k \in 1 .. p[2] - p[1] + 1 : SubSeq(s, p[1], p[2])[k] = s[p[1] + k - 1]
  BY <1>4, SubSeqProperties
<1>6. /\ Len(Pieces(s, seps)[n]) = p[2] - p[1] + 1
      /\ \A k \in 1 .. p[2] - p[1] + 1 : Pieces(s, seps)[n][k] = s[p[1] + k - 1]
  BY <1>2, <1>5
<1> QED
  BY <1>6 DEF p

\* A set of natural numbers that is not empty has a lowest element.
LEMMA MinOfNaturals ==
  ASSUME NEW S \in SUBSET Nat, S # {}
  PROVE  Min(S) \in S /\ \A x \in S : Min(S) <= x
<1>1. PICK x \in S : \A y \in S : ~(<<y, x>> \in OpToRel(<, Nat))
  BY WFMin, NatLessThanWellFounded, Zenon
<1>2. \A y \in S : ~(y < x)
  BY <1>1, Zenon DEF OpToRel
<1>3. \A y \in S : x <= y
  BY <1>2
<1> QED
  BY <1>3 DEF Min

\* Behind a separator, or at the beginning, a character that is none begins a
\* piece, and in front of the first piece are only separators.
LEMMA PieceFrom ==
  ASSUME NEW X, NEW s \in Seq(X), NEW seps, NEW k \in 1 .. Len(s),
         s[k] \notin seps, k = 1 \/ s[k - 1] \in seps
  PROVE  \E p \in Places(s, seps) : p[1] = k
<1> DEFINE S == {j \in k .. Len(s) : s[j] \in seps} \cup {Len(s) + 1}
           to == Min(S) - 1
<1>1. S \in SUBSET Nat /\ S # {}
  OBVIOUS
<1>2. Min(S) \in S /\ \A x \in S : Min(S) <= x
  BY <1>1, MinOfNaturals
<1>3. Min(S) # k
  BY <1>2
<1>4. to \in k .. Len(s) /\ Min(S) = to + 1
  BY <1>2, <1>3
<1> HIDE DEF to
<1>5. \A j \in k .. to : s[j] \notin seps
  BY <1>2, <1>4
<1>6. to = Len(s) \/ s[to + 1] \in seps
  BY <1>2, <1>4
<1>7. <<k, to>> \in Places(s, seps)
  BY <1>4, <1>5, <1>6 DEF Places, IsPiece
<1> QED
  BY <1>7

LEMMA NothingBeforeFirst ==
  ASSUME NEW X, NEW s \in Seq(X), NEW seps, Places(s, seps) # {},
         NEW k \in 1 .. Nth(s, seps, 1)[1] - 1
  PROVE  s[k] \in seps
<1> DEFINE first == Nth(s, seps, 1)
           S == {j \in 1 .. Len(s) : s[j] \notin seps}
<1>1. Cardinality(Places(s, seps)) \in Nat \ {0}
  BY PlacesFinite, FS_EmptySet
<1>2. first \in Places(s, seps)
  BY <1>1, NthIs
<1>3. first[1] \in 1 .. Len(s)
  BY <1>2, PlaceIs
<1>4. SUFFICES ASSUME s[k] \notin seps PROVE FALSE
  OBVIOUS
<1>5. S \in SUBSET Nat /\ k \in S
  BY <1>3, <1>4
<1>6. Min(S) \in S /\ Min(S) <= k /\ \A x \in S : Min(S) <= x
  BY <1>5, MinOfNaturals
<1>7. Min(S) \in 1 .. Len(s) /\ s[Min(S)] \notin seps
      /\ (Min(S) = 1 \/ s[Min(S) - 1] \in seps)
  BY <1>6
<1>8. PICK p \in Places(s, seps) : p[1] = Min(S)
  BY <1>7, PieceFrom
<1>9. PICK n \in 1 .. Cardinality(Places(s, seps)) : Nth(s, seps, n) = p
  BY IsNth
<1>10. n = 1 \/ first[1] < p[1]
  BY <1>1, <1>9, NthInOrder
<1> QED
  BY <1>3, <1>6, <1>8, <1>9, <1>10

-----------------------------------------------------------------------------
(* The inductive invariant *)

Char == Letter \cup Space

\* How many words the string has.
WordsOf(s) == Cardinality(Places(s, Space))

\* The call of stringSplit() that is running, or not begun.
Position ==
  /\ string \in Seq(Char)
  /\ i \in 0 .. Len(string) + 1 /\ w_start \in 0 .. i
  /\ pc \in {"loop", "done", "failed"}
  /\ pc = "loop" => i <= Len(string)
  /\ pc = "done" => i = Len(string) + 1 /\ w_start = i

NotBegun ==
  stage \in {"check", "main"} =>
    i = 0 /\ w_start = 0 /\ pc = "loop" /\ result = << >>

\* In the loop two places are left behind the words: one for the word that the
\* next character may end, and one for the NULL, since the array grows as soon
\* as only that one is left.
TwoPlaces ==
  /\ result \in Seq(Seq(Letter)) /\ size \in Nat
  /\ Len(result) + 2 <= size

\* The word that the loop is in began at w_start, and the words found are those
\* that begin before it.
FoundSoFar ==
  /\ \A k \in w_start + 1 .. i : string[k] \notin Space
  /\ w_start = 0 \/ w_start > Len(string) \/ string[w_start] \in Space
  /\ Len(result) <= WordsOf(string)
  /\ \A n \in 1 .. Len(result) : result[n] = Words(string)[n]
  /\ \A n \in 1 .. WordsOf(string) :
       n <= Len(result) <=> Nth(string, Space, n)[1] <= w_start

\* What run.sh made sure of for a word: a path with a device, and behind its colon
\* the number of variables that the device sends.
AsConfigured(w) ==
  /\ devname(w) \in DOMAIN Device
  /\ \E c \in DOMAIN Count :
       /\ inputs(w) = <<c>>
       /\ Device[devname(w)] = [vars |-> Count[c], speed |-> baud]

Scripted ==
  /\ stage = "check" => via = "run.sh" /\ trials < Trials
  /\ trials \in 0 .. Trials
  /\ checked \in 0 .. WordsOf(string)
  /\ via = "run.sh" =>
       /\ Configurable(string)
       /\ \A k \in 1 .. checked : AsConfigured(Words(string)[k])
       /\ stage \notin {"check", "exited"} => checked = WordsOf(string)
  /\ via # "run.sh" => checked = 0

\* A device is what main() takes out of the word of its turn.
TakenFrom(w, n, d) ==
  LET tokens == Pieces(w, {Colon})
  IN  /\ Len(tokens) >= 2
      /\ d = [name |-> tokens[1], vars |-> atoi(tokens[2]), address |-> n,
              speed |-> baud]

Served ==
  /\ Len(devices) <= WordsOf(string)
  /\ stage \in {"check", "main", "split"} => devices = << >>
  /\ \A k \in 1 .. Len(devices) : TakenFrom(Words(string)[k], k - 1, devices[k])
  /\ stage = "split" => via = "stdin"
  /\ stage \in {"devices", "loop"} =>
       socket /\ (via = "stdin" => pc = "done")
  /\ stage = "loop" => Len(devices) = WordsOf(string)

Stages ==
  /\ via \in {"run.sh", "argv", "stdin"} /\ baud \in Bauds
  /\ stage \in {"check", "main", "split", "devices", "loop", "exited", "killed"}
  /\ socket \in BOOLEAN
  /\ devices \in Seq([name : Seq(Letter), vars : Nat, address : Nat, speed : Bauds])

IInv ==
  /\ Position /\ NotBegun /\ TwoPlaces /\ FoundSoFar /\ Stages /\ Scripted /\ Served

-----------------------------------------------------------------------------
(* stringSplit() *)

LEMMA WordsCounted ==
  ASSUME Position
  PROVE  WordsOf(string) \in Nat
BY PlacesFinite DEF Position, WordsOf

\* The word that ends at i, if one does, is the next one.
LEMMA WordEnds ==
  ASSUME Position, TwoPlaces, FoundSoFar, pc = "loop", EndsWord, w_start # i
  PROVE  /\ Len(result) + 1 <= WordsOf(string)
         /\ Nth(string, Space, Len(result) + 1) = <<w_start + 1, i>>
         /\ Found = Append(result, Words(string)[Len(result) + 1])
<1> DEFINE p == <<w_start + 1, i>>
           m == Len(result) + 1
<1>1. /\ string \in Seq(Char) /\ w_start \in Nat /\ i \in Nat
      /\ w_start < i /\ i <= Len(string)
  BY DEF Position
<1>2. p \in Places(string, Space)
  <2>1. \A k \in w_start + 1 .. i : string[k] \notin Space
    BY DEF FoundSoFar
  <2>2. w_start + 1 = 1 \/ string[w_start + 1 - 1] \in Space
    BY <1>1 DEF FoundSoFar
  <2>3. i = Len(string) \/ string[i + 1] \in Space
    BY DEF EndsWord, AtEnd
  <2> QED
    BY <1>1, <2>1, <2>2, <2>3 DEF Places, IsPiece
<1>3. PICK n \in 1 .. WordsOf(string) : Nth(string, Space, n) = p
  BY <1>1, <1>2, IsNth DEF WordsOf
<1>4. n > Len(result) /\ Len(result) \in Nat /\ WordsOf(string) \in Nat
  BY <1>1, <1>3, WordsCounted DEF FoundSoFar, TwoPlaces
<1>5. n = m
  <2> SUFFICES ASSUME n > m PROVE FALSE
    BY <1>4
  <2>1. m \in 1 .. WordsOf(string)
    BY <1>3, <1>4
  <2>2. Nth(string, Space, m)[1] < w_start + 1
    BY <1>1, <1>3, <2>1, NthInOrder DEF WordsOf
  <2>3. Nth(string, Space, m)[1] \in Nat
    BY <1>1, <2>1, NthIs, PlaceIs DEF WordsOf
  <2>4. Nth(string, Space, m)[1] <= w_start
    BY <1>1, <2>2, <2>3
  <2> QED
    BY <1>4, <2>1, <2>4 DEF FoundSoFar
<1>6. m \in 1 .. WordsOf(string) /\ Nth(string, Space, m) = p
  BY <1>3, <1>5
<1>7. Words(string)[m] = SubSeq(string, w_start + 1, i)
  <2> HIDE DEF m
  <2>1. Words(string)[m] = SubSeq(string, Nth(string, Space, m)[1],
                                  Nth(string, Space, m)[2])
    BY <1>6 DEF Words, Pieces, WordsOf
  <2>2. p[1] = w_start + 1 /\ p[2] = i
    OBVIOUS
  <2> HIDE DEF p
  <2> QED
    BY <1>6, <2>1, <2>2
<1>8. Found = Append(result, Words(string)[m])
  BY <1>7 DEF Found
<1> QED
  BY <1>4, <1>6, <1>8

LEMMA WordType ==
  ASSUME Position, NEW n \in 1 .. WordsOf(string)
  PROVE  Words(string)[n] \in Seq(Letter)
<1>1. /\ Words(string) \in Seq(Seq(Char \ Space))
      /\ Len(Words(string)) = WordsOf(string)
  BY PiecesAre DEF Position, Words, WordsOf
<1>2. Char \ Space = Letter
  BY CharAssumption DEF Char
<1> QED
  BY <1>1, <1>2

\* One character ends at most one word.
LEMMA FoundOne ==
  ASSUME Position, TwoPlaces, FoundSoFar, pc = "loop"
  PROVE  /\ Found \in Seq(Seq(Letter))
         /\ Len(Found) \in {Len(result), Len(result) + 1}
<1>1. CASE EndsWord /\ w_start # i
  <2>1. Len(result) + 1 \in 1 .. WordsOf(string)
    BY <1>1, WordEnds, WordsCounted DEF TwoPlaces
  <2>2. Words(string)[Len(result) + 1] \in Seq(Letter)
    BY <2>1, WordType
  <2>3. Found = Append(result, Words(string)[Len(result) + 1])
    BY <1>1, WordEnds
  <2>4. result \in Seq(Seq(Letter))
    BY DEF TwoPlaces
  <2> QED
    BY <2>2, <2>3, <2>4, AppendProperties
<1>2. CASE ~(EndsWord /\ w_start # i)
  BY <1>2 DEF Found, TwoPlaces
<1> QED
  BY <1>1, <1>2

LEMMA NextCharFinds ==
  ASSUME Position, TwoPlaces, FoundSoFar, nextChar
  PROVE  FoundSoFar'
<1> DEFINE N == WordsOf(string)
           P(n) == Nth(string, Space, n)
<1>1. /\ string \in Seq(Char) /\ w_start \in Nat /\ i \in Nat /\ Len(result) \in Nat
      /\ w_start <= i /\ i <= Len(string) /\ pc = "loop"
  BY DEF Position, nextChar, TwoPlaces
<1>2. /\ string' = string /\ i' = i + 1 /\ result' = Found
      /\ w_start' = IF EndsWord THEN i + 1 ELSE w_start
  BY DEF nextChar
<1>3. /\ N \in Nat /\ WordsOf(string)' = N
      /\ \A n \in 1 .. N :
           /\ P(n) \in Places(string, Space)
           /\ P(n)[1] \in 1 .. Len(string)
           /\ string[P(n)[1]] \notin Space
  <2>1. N \in Nat
    BY <1>1, PlacesFinite DEF WordsOf
  <2>2. \A n \in 1 .. N : P(n) \in Places(string, Space)
    BY <1>1, NthIs DEF WordsOf
  <2>3. ASSUME NEW n \in 1 .. N
        PROVE  P(n)[1] \in 1 .. Len(string) /\ string[P(n)[1]] \notin Space
    <3>1. /\ P(n)[1] \in 1 .. Len(string) /\ P(n)[2] \in P(n)[1] .. Len(string)
          /\ \A k \in P(n)[1] .. P(n)[2] : string[k] \notin Space
      BY <1>1, <2>2, PlaceIs
    <3> HIDE DEF P
    <3> QED
      BY <3>1
  <2> QED
    BY <1>2, <2>1, <2>2, <2>3 DEF WordsOf
<1>4. CASE ~EndsWord
  <2>1. /\ i < Len(string) /\ string[i + 1] \notin Space
        /\ w_start' = w_start /\ result' = result
    BY <1>1, <1>2, <1>4 DEF EndsWord, AtEnd, Found
  <2>2. \A k \in w_start + 1 .. i + 1 : string[k] \notin Space
    BY <1>1, <2>1 DEF FoundSoFar
  <2> QED
    BY <1>2, <1>3, <2>1, <2>2 DEF FoundSoFar
<1>5. CASE EndsWord
  <2>1. /\ i + 1 > Len(string) \/ string[i + 1] \in Space
        /\ w_start' = i + 1
    BY <1>1, <1>2, <1>5 DEF EndsWord, AtEnd
  <2>2. /\ \A k \in w_start' + 1 .. i' : string'[k] \notin Space
        /\ w_start' = 0 \/ w_start' > Len(string') \/ string'[w_start'] \in Space
    BY <1>1, <1>2, <2>1
  <2>3. \A n \in 1 .. N : P(n)[1] # i + 1
    BY <1>3, <2>1
  <2>4. CASE w_start = i
    <3>1. result' = result
      BY <1>2, <2>4 DEF Found
    <3>2. \A n \in 1 .. N : n <= Len(result) <=> P(n)[1] <= i + 1
      BY <1>1, <1>3, <2>3, <2>4 DEF FoundSoFar
    <3> QED
      BY <1>2, <1>3, <2>1, <2>2, <3>1, <3>2 DEF FoundSoFar
  <2>5. CASE w_start # i
    <3> DEFINE m == Len(result) + 1
    <3>1. /\ m <= N /\ P(m) = <<w_start + 1, i>>
          /\ Found = Append(result, Words(string)[m])
      BY <1>1, <1>5, <2>5, WordEnds
    <3>2. m \in 1 .. N
      BY <1>1, <1>3, <3>1
    <3>3. /\ Len(result') = m
          /\ \A n \in 1 .. Len(result) : result'[n] = result[n]
          /\ result'[m] = Words(string)[m]
      <4>1. Words(string)[m] \in Seq(Letter)
        BY <3>2, WordType
      <4> QED
        BY <1>2, <3>1, <4>1, AppendProperties DEF TwoPlaces
    <3>4. ASSUME NEW n \in 1 .. N PROVE n <= m <=> P(n)[1] <= i + 1
      <4>1. CASE n <= Len(result)
        BY <1>1, <1>3, <4>1 DEF FoundSoFar
      <4>2. CASE n = m
        BY <1>1, <3>1, <4>2
      <4>3. CASE m < n
        <5>1. P(m)[1] < P(n)[1]
          BY <1>1, <3>2, <4>3, NthInOrder DEF WordsOf
        <5>2. P(m)[2] + 1 < P(n)[1]
          BY <1>1, <1>3, <3>2, <5>1, PiecesApart
        <5>3. i + 1 < P(n)[1]
          BY <3>1, <5>2
        <5> QED
          BY <1>1, <1>3, <4>3, <5>3
      <4> QED
        BY <1>1, <4>1, <4>2, <4>3
    <3>5. \A n \in 1 .. m : result'[n] = Words(string)[n]
      <4>1. \A n \in 1 .. m : n \in 1 .. Len(result) \/ n = m
        BY <1>1
      <4> QED
        BY <3>3, <4>1 DEF FoundSoFar
    <3> QED
      BY <1>2, <1>3, <2>1, <2>2, <3>1, <3>3, <3>4, <3>5 DEF FoundSoFar
  <2> QED
    BY <2>4, <2>5
<1> QED
  BY <1>4, <1>5

LEMMA NextCharKeeps ==
  ASSUME Position, TwoPlaces, FoundSoFar, nextChar
  PROVE  Position' /\ TwoPlaces' /\ FoundSoFar'
<1>1. /\ Found \in Seq(Seq(Letter))
      /\ Len(Found) \in {Len(result), Len(result) + 1}
  BY FoundOne DEF nextChar
<1>2. /\ string' = string /\ i' = i + 1 /\ result' = Found
      /\ w_start' = IF EndsWord THEN i + 1 ELSE w_start
      /\ size' = IF Len(Found) = size - 1 THEN size * 2 ELSE size
      /\ pc' = IF i = Len(string) THEN "done" ELSE "loop"
      /\ i <= Len(string)
  BY DEF nextChar, MustGrow, AtEnd, Position
<1>3. Position'
  BY <1>2 DEF Position, EndsWord, AtEnd
<1>4. Len(result) \in Nat /\ Len(result) + 2 <= size /\ size \in Nat
  BY DEF TwoPlaces
<1>5. TwoPlaces'
  <2>1. CASE Len(Found) = size - 1
    BY <1>1, <1>2, <1>4, <2>1 DEF TwoPlaces
  <2>2. CASE Len(Found) # size - 1
    BY <1>1, <1>2, <1>4, <2>2 DEF TwoPlaces
  <2> QED
    BY <2>1, <2>2
<1> QED
  BY <1>3, <1>5, NextCharFinds

LEMMA AllWordsFound ==
  ASSUME Position, TwoPlaces, FoundSoFar, pc = "done"
  PROVE  result = Words(string)
<1> DEFINE N == WordsOf(string)
<1>1. /\ string \in Seq(Char) /\ w_start = Len(string) + 1
      /\ result \in Seq(Seq(Letter)) /\ Len(result) <= N /\ N \in Nat
  BY WordsCounted DEF Position, TwoPlaces, FoundSoFar
<1>2. ASSUME NEW n \in 1 .. N PROVE n <= Len(result)
  <2>1. Nth(string, Space, n) \in Places(string, Space)
    BY <1>1, NthIs DEF WordsOf
  <2>2. Nth(string, Space, n)[1] <= w_start
    BY <1>1, <2>1, PlaceIs
  <2> QED
    BY <2>2 DEF FoundSoFar
<1>3. Len(result) = N
  BY <1>1, <1>2
<1>4. Words(string) \in Seq(Seq(Char \ Space)) /\ Len(Words(string)) = N
  BY <1>1, PiecesAre DEF Words, WordsOf
<1>5. \A n \in 1 .. N : result[n] = Words(string)[n]
  BY <1>3 DEF FoundSoFar
<1> HIDE DEF N
<1> QED
  BY <1>1, <1>3, <1>4, <1>5

-----------------------------------------------------------------------------
(* The actions *)

LEMMA WordsLen ==
  ASSUME Position
  PROVE  Len(Words(string)) = WordsOf(string) /\ WordsOf(string) \in Nat
BY PiecesAre, WordsCounted DEF Position, Words, WordsOf

LEMMA AtStart ==
  ASSUME NEW s \in Seq(Char), NEW n \in 1 .. WordsOf(s)
  PROVE  ~(Nth(s, Space, n)[1] <= 0)
<1>1. Nth(s, Space, n) \in Places(s, Space)
  BY NthIs DEF WordsOf
<1>2. Nth(s, Space, n)[1] \in 1 .. Len(s)
  BY <1>1, PlaceIs
<1> QED
  BY <1>2

LEMMA StartInitInv == StartInit => IInv
<1> SUFFICES ASSUME StartInit PROVE IInv
  OBVIOUS
<1>1. string \in Seq(Char)
  BY StringsAssumption DEF StartInit, Init, Char
<1>2. Position /\ NotBegun /\ TwoPlaces /\ Stages
  <2>1. /\ << >> \in Seq(Seq(Letter)) /\ Len(<< >>) = 0
        /\ << >> \in Seq([name : Seq(Letter), vars : Nat, address : Nat, speed : Bauds])
    OBVIOUS
  <2>2. Len(string) \in Nat
    BY <1>1
  <2>3. Position /\ NotBegun
    BY <1>1, <2>2 DEF StartInit, Init, Position, NotBegun
  <2>4. TwoPlaces
    BY <2>1 DEF StartInit, Init, TwoPlaces
  <2>5. Stages
    BY <2>1 DEF StartInit, Stages
  <2> QED
    BY <2>3, <2>4, <2>5
<1>3. WordsOf(string) \in Nat
  BY <1>2, WordsCounted
<1>4. FoundSoFar
  BY <1>1, <1>3, AtStart DEF StartInit, Init, FoundSoFar
<1>5. Scripted
  BY <1>3, LimitsAssumption DEF StartInit, Init, Scripted
<1>6. Served
  BY <1>3 DEF StartInit, Init, Served
<1> QED
  BY <1>2, <1>4, <1>5, <1>6 DEF IInv

\* stringSplit() is not running.
LEMMA StringKept ==
  ASSUME IInv, UNCHANGED vars, stage' \notin {"check", "main"} \/ stage' = stage
                               \/ stage = "check"
  PROVE  Position' /\ NotBegun' /\ TwoPlaces' /\ FoundSoFar'
<1>1. /\ string' = string /\ i' = i /\ w_start' = w_start /\ result' = result
      /\ size' = size /\ pc' = pc
  BY DEF vars
<1>2. Position' /\ NotBegun' /\ TwoPlaces'
  BY <1>1 DEF IInv, Position, NotBegun, TwoPlaces
<1>3. FoundSoFar'
  BY <1>1 DEF IInv, FoundSoFar
<1> QED
  BY <1>2, <1>3

LEMMA DeviceReadyInv == IInv /\ deviceReady => IInv'
<1> SUFFICES ASSUME IInv, deviceReady PROVE IInv'
  OBVIOUS
<1>1. Position' /\ NotBegun' /\ TwoPlaces' /\ FoundSoFar'
  BY StringKept DEF deviceReady
<1>2. /\ string' = string /\ via' = via /\ baud' = baud /\ stage' = stage
      /\ stage = "check" /\ socket' = socket /\ devices' = devices /\ pc' = pc
      /\ checked' = checked + 1 /\ trials' = 0
  BY DEF deviceReady, vars
<1>3. checked \in Nat /\ checked + 1 \in 1 .. WordsOf(string)
  BY WordsLen DEF deviceReady, IInv, Scripted
<1>4. AsConfigured(Words(string)[checked + 1])
  BY DEF deviceReady, AsConfigured, Checking
<1>5. Scripted'
  <2>1. \A k \in 1 .. checked + 1 : AsConfigured(Words(string)[k])
    <3>1. \A k \in 1 .. checked + 1 : k \in 1 .. checked \/ k = checked + 1
      BY <1>3
    <3> QED
      BY <1>2, <1>4, <3>1 DEF IInv, Scripted
  <2>2. \A k \in 1 .. checked + 1 : AsConfigured(Words(string)[k])'
    BY <1>2, <2>1 DEF AsConfigured
  <2> QED
    BY <1>2, <1>3, <2>2, LimitsAssumption DEF IInv, Scripted
<1>6. Served' /\ Stages'
  BY <1>2 DEF IInv, Served, Stages, TakenFrom
<1> QED
  BY <1>1, <1>5, <1>6 DEF IInv

LEMMA OtherChecksInv == IInv /\ (trialFails \/ notConnected \/ allReady) => IInv'
<1> SUFFICES ASSUME IInv, trialFails \/ notConnected \/ allReady PROVE IInv'
  OBVIOUS
<1>1. /\ UNCHANGED vars /\ stage = "check"
      /\ stage' \in {"check", "main", "exited"}
      /\ stage' = "main" => allReady
      /\ via' = via /\ baud' = baud /\ checked' = checked /\ socket' = socket
      /\ devices' = devices
      /\ trials' \in {trials, trials + 1}
      /\ trials' # trials /\ trials' >= Trials => stage' = "exited"
  BY DEF trialFails, notConnected, allReady, IInv, Scripted
<1>2. Position' /\ NotBegun' /\ TwoPlaces' /\ FoundSoFar'
  BY <1>1, StringKept
<1>3. string' = string /\ pc' = pc
  BY <1>1 DEF vars
<1>4. Scripted'
  <2>1. stage = "check" /\ via = "run.sh" /\ trials < Trials /\ trials \in 0 .. Trials
    BY <1>1 DEF IInv, Scripted
  <2>2. trials' \in 0 .. Trials /\ (stage' = "check" => trials' < Trials)
    BY <1>1, <2>1, LimitsAssumption
  <2>3. \A k \in 1 .. checked : AsConfigured(Words(string)[k])'
    BY <1>1, <1>3, <2>1 DEF IInv, Scripted, AsConfigured
  <2>4. stage' = "main" => checked = WordsOf(string)
    BY <1>1, WordsLen DEF allReady, IInv
  <2>5. Configurable(string) /\ checked \in 0 .. WordsOf(string)
    BY <2>1 DEF IInv, Scripted
  <2> QED
    BY <1>1, <1>3, <2>1, <2>2, <2>3, <2>4, <2>5 DEF Scripted
<1>5. Served'
  BY <1>1, <1>3 DEF IInv, Served, TakenFrom
<1>6. Stages'
  BY <1>1, <1>3 DEF IInv, Stages
<1> QED
  BY <1>2, <1>4, <1>5, <1>6 DEF IInv

LEMMA AskParametersInv == IInv /\ askParameters => IInv'
<1> SUFFICES ASSUME IInv, askParameters PROVE IInv'
  OBVIOUS
<1>1. /\ i = 0 /\ w_start = 0 /\ result = << >> /\ pc = "loop"
      /\ i' = i /\ w_start' = w_start /\ result' = result /\ size' = size /\ pc' = pc
      /\ via = "stdin" /\ stage' \in {"split", "exited"} /\ stage = "main"
      /\ via' = via /\ baud' = baud /\ checked' = checked /\ trials' = trials
      /\ socket' = socket /\ devices' = devices /\ devices = << >>
  BY DEF askParameters, IInv, NotBegun, Served
<1>2. string \in Seq(Char)
  BY DEF IInv, Position
<1>3. string' \in Seq(Char)
  <2>1. ASSUME NEW k \in 1 .. Len(string), string' = SubSeq(string, k, Len(string))
        PROVE  string' \in Seq(Char)
    <3>1. \A q \in k .. Len(string) : string[q] \in Char
      BY <1>2
    <3>2. Len(string) \in Int /\ k \in Int
      BY <1>2
    <3> QED
      BY <2>1, <3>1, <3>2, SubSeqProperties
  <2> QED
    BY <1>2, <2>1 DEF askParameters
<1>4. Position' /\ NotBegun' /\ TwoPlaces'
  BY <1>1, <1>3 DEF IInv, Position, NotBegun, TwoPlaces
<1>5. WordsOf(string') \in Nat
  BY <1>3, PlacesFinite DEF WordsOf
<1>6. FoundSoFar'
  BY <1>1, <1>3, <1>5, AtStart DEF FoundSoFar
<1>7. Scripted' /\ Served' /\ Stages'
  BY <1>1, <1>5 DEF IInv, Scripted, Served, Stages
<1> QED
  BY <1>4, <1>6, <1>7 DEF IInv

LEMMA StringSplitInv == IInv /\ stringSplit => IInv'
<1> SUFFICES ASSUME IInv, stringSplit PROVE IInv'
  OBVIOUS
<1>1. /\ stage = "split" /\ Next
      /\ stage' = IF pc' = "failed" THEN "exited" ELSE stage
      /\ via' = via /\ baud' = baud /\ checked' = checked /\ trials' = trials
      /\ socket' = socket /\ devices' = devices /\ string' = string
  BY DEF stringSplit, Next, nextChar, increaseFails
<1>2. Position' /\ TwoPlaces' /\ FoundSoFar'
  <2>1. CASE nextChar
    BY <2>1, NextCharKeeps DEF IInv
  <2>2. CASE increaseFails
    BY <2>2 DEF increaseFails, IInv, Position, TwoPlaces, FoundSoFar
  <2> QED
    BY <1>1, <2>1, <2>2 DEF Next
<1>3. NotBegun' /\ Stages'
  BY <1>1 DEF IInv, NotBegun, Stages
<1>4. via = "stdin" /\ devices = << >>
  BY <1>1 DEF IInv, Served
<1>5. Scripted' /\ Served'
  BY <1>1, <1>4 DEF IInv, Scripted, Served
<1> QED
  BY <1>2, <1>3, <1>5 DEF IInv

\* main() takes the words of the line for its devices.
LEMMA Parameters ==
  ASSUME IInv, via = "stdin" => pc = "done"
  PROVE  /\ param_arduino = Words(string)
         /\ Len(param_arduino) = WordsOf(string) /\ WordsOf(string) \in Nat
<1>1. param_arduino = Words(string)
  BY AllWordsFound DEF param_arduino, IInv
<1> QED
  BY <1>1, WordsLen DEF IInv

LEMMA StartServerInv == IInv /\ startServer => IInv'
<1> SUFFICES ASSUME IInv, startServer PROVE IInv'
  OBVIOUS
<1>1. /\ UNCHANGED vars /\ stage \in {"main", "split"}
      /\ stage = "main" => via # "stdin"
      /\ stage = "split" => pc = "done"
      /\ \/ stage' = "devices" /\ socket' = TRUE
         \/ stage' = "exited" /\ socket' = FALSE
      /\ via' = via /\ baud' = baud /\ checked' = checked /\ trials' = trials
      /\ devices' = devices
  BY DEF startServer
<1>2. Position' /\ NotBegun' /\ TwoPlaces' /\ FoundSoFar'
  BY <1>1, StringKept
<1>3. string' = string /\ pc' = pc
  BY <1>1 DEF vars
<1>4. Scripted'
  BY <1>1, <1>3 DEF IInv, Scripted, AsConfigured
<1>5. Served' /\ Stages'
  BY <1>1, <1>3 DEF IInv, Served, Stages, TakenFrom
<1> QED
  BY <1>2, <1>4, <1>5 DEF IInv

LEMMA TokensType ==
  ASSUME NEW w \in Seq(Letter)
  PROVE  /\ Pieces(w, {Colon}) \in Seq(Seq(Letter))
         /\ \A n \in 1 .. Len(Pieces(w, {Colon})) :
              Pieces(w, {Colon})[n] \in Seq(Letter) /\ Len(Pieces(w, {Colon})[n]) > 0
<1> DEFINE tokens == Pieces(w, {Colon})
           N == Cardinality(Places(w, {Colon}))
<1>1. /\ tokens \in Seq(Seq(Letter \ {Colon})) /\ Len(tokens) = N
      /\ \A n \in 1 .. N :
           Len(tokens[n]) = Nth(w, {Colon}, n)[2] - Nth(w, {Colon}, n)[1] + 1
  <2>1. tokens \in Seq(Seq(Letter \ {Colon})) /\ Len(tokens) = N
    BY PiecesAre
  <2>2. ASSUME NEW n \in 1 .. N
        PROVE  Len(tokens[n]) = Nth(w, {Colon}, n)[2] - Nth(w, {Colon}, n)[1] + 1
    BY PieceIs
  <2> QED
    BY <2>1, <2>2
<1>2. \A x \in Seq(Letter \ {Colon}) : x \in Seq(Letter)
  OBVIOUS
<1>3. ASSUME NEW n \in 1 .. N
      PROVE  /\ Nth(w, {Colon}, n)[2] \in Nat /\ Nth(w, {Colon}, n)[1] \in Nat
             /\ Nth(w, {Colon}, n)[2] >= Nth(w, {Colon}, n)[1]
  BY NthIs, PlaceIs
<1>4. N \in Nat
  BY PlacesFinite
<1>5. ASSUME NEW n \in 1 .. N PROVE tokens[n] \in Seq(Letter) /\ Len(tokens[n]) > 0
  <2>1. tokens[n] \in Seq(Letter \ {Colon})
    <3> HIDE DEF tokens, N
    <3> QED
      BY <1>1
  <2>2. Len(tokens[n]) > 0
    <3>1. Len(tokens[n]) = Nth(w, {Colon}, n)[2] - Nth(w, {Colon}, n)[1] + 1
      BY <1>1
    <3> DEFINE from == Nth(w, {Colon}, n)[1]
               to   == Nth(w, {Colon}, n)[2]
    <3>2. to \in Nat /\ from \in Nat /\ to >= from
      BY <1>3
    <3> HIDE DEF tokens, from, to
    <3>3. to - from + 1 > 0
      BY <3>2
    <3> QED
      BY <3>1, <3>3 DEF from, to
  <2> QED
    BY <1>2, <2>1, <2>2
<1> HIDE DEF N, tokens
<1>6. tokens \in Seq(Seq(Letter))
  BY <1>1, <1>4, <1>5
<1> QED
  BY <1>1, <1>5, <1>6 DEF tokens

LEMMA ConnectDeviceInv == IInv /\ connectDevice => IInv'
<1> SUFFICES ASSUME IInv, connectDevice PROVE IInv'
  OBVIOUS
<1>1. /\ UNCHANGED vars /\ stage = "devices" /\ dev_n < Len(param_arduino)
      /\ via' = via /\ baud' = baud /\ checked' = checked /\ trials' = trials
      /\ socket' = socket
      /\ \/ CanConnect /\ devices' = Append(devices, Connected) /\ stage' = stage
         \/ stage' = "exited" /\ devices' = devices
  BY DEF connectDevice
<1>2. Position' /\ NotBegun' /\ TwoPlaces' /\ FoundSoFar'
  BY <1>1, StringKept
<1>3. string' = string /\ pc' = pc
  BY <1>1 DEF vars
<1>4. Scripted'
  BY <1>1, <1>3 DEF IInv, Scripted, AsConfigured
<1>5. CASE stage' = "exited" /\ devices' = devices
  <2>1. Served' /\ Stages'
    BY <1>1, <1>3, <1>5 DEF IInv, Served, Stages, TakenFrom
  <2> QED
    BY <1>2, <1>4, <2>1 DEF IInv
<1>6. CASE CanConnect /\ devices' = Append(devices, Connected) /\ stage' = stage
  <2> DEFINE n == Len(devices) + 1
             w == Words(string)[n]
             D == [name : Seq(Letter), vars : Nat, address : Nat, speed : Bauds]
  <2>1. /\ param_arduino = Words(string) /\ Len(param_arduino) = WordsOf(string)
        /\ WordsOf(string) \in Nat
    BY <1>1, Parameters DEF IInv, Served
  <2>2. devices \in Seq(D) /\ baud \in Bauds
    BY DEF IInv, Stages
  <2>3. n \in 1 .. WordsOf(string) /\ dev_n = n - 1
    BY <1>1, <2>1, <2>2 DEF dev_n
  <2>4. w \in Seq(Letter)
    BY <2>3, WordType DEF IInv
  <2>5. Tokens = Pieces(w, {Colon}) /\ Len(Tokens) >= 2
    BY <1>6, <2>1, <2>2 DEF Tokens, CanConnect, dev_n
  <2> HIDE DEF w
  <2>6. /\ Tokens[1] \in Seq(Letter)
        /\ Tokens[2] \in Seq(Letter) /\ Len(Tokens[2]) > 0
    <3>1. Len(Tokens) \in Nat
      BY <2>4, <2>5, TokensType
    <3>2. 1 \in 1 .. Len(Tokens) /\ 2 \in 1 .. Len(Tokens)
      BY <2>5, <3>1
    <3> QED
      BY <2>4, <2>5, <3>2, TokensType
  <2>7. atoi(Tokens[2]) \in Nat
    BY CountAssumption DEF atoi
  <2>8. Connected \in D
    BY <2>2, <2>3, <2>6, <2>7 DEF Connected
  <2>9. /\ devices' \in Seq(D) /\ Len(devices') = n /\ devices'[n] = Connected
        /\ \A k \in 1 .. n - 1 : devices'[k] = devices[k]
    BY <1>6, <2>2, <2>8, AppendProperties
  <2>10. TakenFrom(w, n - 1, Connected)
    BY <2>3, <2>5 DEF TakenFrom, Connected
  <2>11. ASSUME NEW k \in 1 .. n
         PROVE  TakenFrom(Words(string)[k], k - 1, devices'[k])
    <3>1. CASE k = n
      BY <2>9, <2>10, <3>1 DEF w
    <3>2. CASE k # n
      <4>1. k \in 1 .. Len(devices) /\ k \in 1 .. n - 1
        BY <2>2, <3>2
      <4> QED
        BY <2>9, <4>1 DEF IInv, Served
    <3> QED
      BY <3>1, <3>2
  <2>12. Served'
    <3>1. \A k \in 1 .. Len(devices') :
            TakenFrom(Words(string)[k], k - 1, devices[k])'
      BY <1>1, <1>3, <2>9, <2>11 DEF TakenFrom
    <3> QED
      BY <1>1, <1>3, <1>6, <2>3, <2>9, <3>1 DEF IInv, Served
  <2>13. Stages'
    BY <1>1, <1>6, <2>9 DEF IInv, Stages
  <2> QED
    BY <1>2, <1>4, <2>12, <2>13 DEF IInv
<1> QED
  BY <1>1, <1>5, <1>6

LEMMA LastStepsInv ==
  IInv /\ (createMessageBufferKills \/ allConnected) => IInv'
<1> SUFFICES ASSUME IInv, createMessageBufferKills \/ allConnected PROVE IInv'
  OBVIOUS
<1>1. /\ UNCHANGED vars /\ stage = "devices"
      /\ \/ stage' = "killed"
         \/ stage' = "loop" /\ dev_n = Len(param_arduino)
      /\ via' = via /\ baud' = baud /\ checked' = checked /\ trials' = trials
      /\ socket' = socket /\ devices' = devices
  BY DEF createMessageBufferKills, allConnected
<1>2. Position' /\ NotBegun' /\ TwoPlaces' /\ FoundSoFar'
  BY <1>1, StringKept
<1>3. string' = string /\ pc' = pc
  BY <1>1 DEF vars
<1>4. Scripted'
  BY <1>1, <1>3 DEF IInv, Scripted, AsConfigured
<1>5. Len(param_arduino) = WordsOf(string)
  BY <1>1, Parameters DEF IInv, Served
<1>6. Served' /\ Stages'
  BY <1>1, <1>3, <1>5 DEF IInv, Served, Stages, TakenFrom, dev_n
<1> QED
  BY <1>2, <1>4, <1>6 DEF IInv

\* The invariant holds whatever line the program is given and whatever fails.
THEOREM IInvAlways == StartSpec => []IInv
<1>1. IInv /\ [StartNext]_allVars => IInv'
  <2> SUFFICES ASSUME IInv, [StartNext]_allVars PROVE IInv'
    OBVIOUS
  <2>1. CASE StartNext
    BY <2>1, DeviceReadyInv, OtherChecksInv, AskParametersInv, StringSplitInv,
       StartServerInv, ConnectDeviceInv, LastStepsInv DEF StartNext
  <2>2. CASE UNCHANGED allVars
    <3>1. /\ UNCHANGED vars /\ via' = via /\ baud' = baud /\ stage' = stage
          /\ checked' = checked /\ trials' = trials /\ socket' = socket
          /\ devices' = devices /\ string' = string /\ pc' = pc
      BY <2>2 DEF allVars, startVars, vars
    <3>2. Position' /\ NotBegun' /\ TwoPlaces' /\ FoundSoFar'
      BY <3>1, StringKept
    <3>3. Scripted'
      BY <3>1 DEF IInv, Scripted, AsConfigured
    <3>4. Served' /\ Stages'
      BY <3>1 DEF IInv, Served, Stages, TakenFrom
    <3> QED
      BY <3>2, <3>3, <3>4 DEF IInv
  <2> QED
    BY <2>1, <2>2
<1> QED
  BY <1>1, StartInitInv, PTL DEF StartSpec

-----------------------------------------------------------------------------
(* What is always so *)

\* Every variable has its type, in every run of the script and the program.
THEOREM TypeCorrect == StartSpec => []StartTypeOK
<1>1. IInv => StartTypeOK
  BY DEF IInv, Position, TwoPlaces, Stages, Scripted, StartTypeOK, Char, WordsOf
<1> QED
  BY <1>1, IInvAlways, PTL

\* There is always a place left behind the words, for every line and whatever
\* memory is found.
THEOREM RoomForNullAlways == StartSpec => []RoomForNull
<1>1. IInv => RoomForNull
  BY DEF IInv, TwoPlaces, RoomForNull
<1> QED
  BY <1>1, IInvAlways, PTL

\* stringSplit() returns the words of the line, all of them and in their order,
\* for every line.
THEOREM FindsAllWordsAlways == StartSpec => []FindsAllWords
<1>1. IInv => FindsAllWords
  BY AllWordsFound DEF IInv, FindsAllWords
<1> QED
  BY <1>1, IInvAlways, PTL

\* The first token of strtok().
LEMMA FirstToken ==
  ASSUME NEW w \in Seq(Letter), Len(Pieces(w, {Colon})) >= 2
  PROVE  \E from, to \in 1 .. Len(w) :
           /\ IsPiece(w, {Colon}, from, to)
           /\ SubSeq(w, from, to) = Pieces(w, {Colon})[1]
           /\ \A q \in 1 .. from - 1 : w[q] = Colon
<1> DEFINE p == Nth(w, {Colon}, 1)
<1>1. 1 \in 1 .. Cardinality(Places(w, {Colon}))
  <2>1. Len(Pieces(w, {Colon})) = Cardinality(Places(w, {Colon}))
    BY PiecesAre
  <2>2. Cardinality(Places(w, {Colon})) \in Nat
    BY PlacesFinite
  <2> QED
    BY <2>1, <2>2
<1>2. p \in Places(w, {Colon})
  BY <1>1, NthIs
<1>3. \A q \in 1 .. p[1] - 1 : w[q] \in {Colon}
  BY <1>2, NothingBeforeFirst
<1>4. Pieces(w, {Colon})[1] = SubSeq(w, p[1], p[2])
  BY <1>1 DEF Pieces
<1>5. p[1] \in 1 .. Len(w) /\ p[2] \in 1 .. Len(w) /\ IsPiece(w, {Colon}, p[1], p[2])
  <2> HIDE DEF p
  <2> QED
    BY <1>2 DEF Places
<1> HIDE DEF p
<1> QED
  BY <1>3, <1>4, <1>5

\* The loop begins with every device of the line or not at all, however many
\* devices there are and whatever fails.
THEOREM ServesAllAlways == StartSpec => []LoopServesAll
<1>1. IInv => LoopServesAll
  <2> SUFFICES ASSUME IInv, stage = "loop" PROVE LoopServesAll
    BY DEF LoopServesAll
  <2>1. /\ socket /\ Len(devices) = WordsOf(string) /\ WordsOf(string) \in Nat
        /\ Len(Words(string)) = WordsOf(string)
    BY WordsLen DEF IInv, Served
  <2>2. ASSUME NEW k \in 1 .. Len(devices)
        PROVE  /\ \E from, to \in 1 .. Len(Words(string)[k]) :
                    /\ IsPiece(Words(string)[k], {Colon}, from, to)
                    /\ SubSeq(Words(string)[k], from, to) = devices[k].name
                    /\ \A q \in 1 .. from - 1 : Words(string)[k][q] = Colon
               /\ devices[k].address = k - 1
    <3>1. Words(string)[k] \in Seq(Letter)
      BY <2>1, WordType DEF IInv
    <3>2. TakenFrom(Words(string)[k], k - 1, devices[k])
      BY DEF IInv, Served
    <3>3. /\ Len(Pieces(Words(string)[k], {Colon})) >= 2
          /\ devices[k].name = Pieces(Words(string)[k], {Colon})[1]
          /\ devices[k].address = k - 1
      BY <3>2 DEF TakenFrom
    <3> QED
      BY <3>1, <3>3, FirstToken
  <2> QED
    BY <2>1, <2>2 DEF LoopServesAll
<1> QED
  BY <1>1, IInvAlways, PTL

\* What cut finds is what is in front of the next colon.
LEMMA CutsAtColon ==
  ASSUME NEW w \in Seq(Letter), NEW from \in 1 .. Len(w) + 1
  PROVE  \E to \in from - 1 .. Len(w) :
           /\ UpToColon(w, from) = SubSeq(w, from, to)
           /\ Len(UpToColon(w, from)) = to - from + 1
           /\ \A k \in 1 .. to - from + 1 : UpToColon(w, from)[k] = w[from + k - 1]
           /\ \A k \in from .. to : w[k] # Colon
           /\ to = Len(w) \/ w[to + 1] = Colon
<1> DEFINE S == {k \in from .. Len(w) : w[k] = Colon} \cup {Len(w) + 1}
           to == Min(S) - 1
<1>1. S \in SUBSET Nat /\ S # {}
  OBVIOUS
<1>2. Min(S) \in S /\ \A x \in S : Min(S) <= x
  BY <1>1, MinOfNaturals
<1>3. to \in from - 1 .. Len(w) /\ Min(S) = to + 1
  BY <1>2
<1>4. UpToColon(w, from) = SubSeq(w, from, to)
  BY DEF UpToColon
<1> HIDE DEF to
<1>5. (\A k \in from .. to : w[k] # Colon) /\ (to = Len(w) \/ w[to + 1] = Colon)
  BY <1>2, <1>3
<1>6. /\ \A k \in from .. to : w[k] \in Letter
      /\ from \in Int /\ to \in Int
  BY <1>3
<1>7. /\ Len(SubSeq(w, from, to)) = IF from <= to THEN to - from + 1 ELSE 0
      /\ \A k \in 1 .. to - from + 1 : SubSeq(w, from, to)[k] = w[from + k - 1]
  BY <1>6, SubSeqProperties
<1>8. Len(SubSeq(w, from, to)) = to - from + 1
  BY <1>3, <1>7
<1> QED
  BY <1>3, <1>4, <1>5, <1>7, <1>8

\* The script cuts and the program takes tokens, and of a word that the script
\* lets pass both get the same path and the same number.
LEMMA CutsAndTokens ==
  ASSUME NEW w \in Seq(Letter), AsConfigured(w), Len(Pieces(w, {Colon})) >= 2
  PROVE  \E m \in 2 .. Len(w) - 1, c \in DOMAIN Count :
           /\ w[m] = Colon /\ w[m + 1] = c
           /\ Pieces(w, {Colon})[1] = devname(w)
           /\ atoi(Pieces(w, {Colon})[2]) = Count[c]
           /\ Device[devname(w)] = [vars |-> Count[c], speed |-> baud]
<1> DEFINE P == Places(w, {Colon})
           N == Cardinality(P)
           At(n) == Nth(w, {Colon}, n)
<1>1. Len(w) \in Nat /\ 1 \in 1 .. N /\ 2 \in 1 .. N
  <2>1. Len(Pieces(w, {Colon})) = N
    BY PiecesAre
  <2>2. N \in Nat
    BY PlacesFinite
  <2> QED
    BY <2>1, <2>2
<1>20. ASSUME NEW n \in 1 .. N
      PROVE  At(n) \in P /\ At(n)[1] \in 1 .. Len(w)
  BY NthIs, PlaceIs
<1>21. ASSUME NEW n \in 1 .. N, NEW k \in 1 .. N, n < k
      PROVE  At(n)[2] + 1 < At(k)[1] /\ At(n)[1] < At(k)[1]
  <2>1. At(n)[1] < At(k)[1]
    BY <1>21, NthInOrder
  <2> QED
    BY <1>20, <2>1, PiecesApart
<1>22. \A p \in P : \E n \in 1 .. N : At(n) = p
  BY IsNth
<1> HIDE DEF P, N, At
<1>2. PICK c \in DOMAIN Count :
        inputs(w) = <<c>> /\ Device[devname(w)] = [vars |-> Count[c], speed |-> baud]
  BY DEF AsConfigured
<1>3. PICK to \in 0 .. Len(w) :
        /\ devname(w) = SubSeq(w, 1, to) /\ Len(devname(w)) = to
        /\ \A k \in 1 .. to : devname(w)[k] = w[k]
        /\ \A k \in 1 .. to : w[k] # Colon
        /\ to = Len(w) \/ w[to + 1] = Colon
  <2>1. 1 \in 1 .. Len(w) + 1
    BY <1>1
  <2>2. PICK to \in 1 - 1 .. Len(w) :
          /\ UpToColon(w, 1) = SubSeq(w, 1, to)
          /\ Len(UpToColon(w, 1)) = to - 1 + 1
          /\ \A k \in 1 .. to - 1 + 1 : UpToColon(w, 1)[k] = w[1 + k - 1]
          /\ \A k \in 1 .. to : w[k] # Colon
          /\ to = Len(w) \/ w[to + 1] = Colon
    BY <2>1, CutsAtColon
  <2>3. to \in 0 .. Len(w) /\ to - 1 + 1 = to /\ \A k \in 1 .. to : 1 + k - 1 = k
    OBVIOUS
  <2>4. \A k \in 1 .. to : UpToColon(w, 1)[k] = w[k]
    BY <2>2, <2>3
  <2> QED
    BY <2>2, <2>3, <2>4 DEF devname
<1>4. to > 0
  <2> SUFFICES ASSUME to = 0 PROVE FALSE
    BY <1>3
  <2>1. devname(w) = << >>
    BY <1>3, SubSeqEmpty
  <2> QED
    BY <2>1, DeviceAssumption DEF AsConfigured
<1>5. <<1, to>> \in P
  BY <1>3, <1>4 DEF P, Places, IsPiece
<1>6. At(1) = <<1, to>>
  <2>1. PICK n \in 1 .. N : At(n) = <<1, to>>
    BY <1>5, <1>22
  <2>2. n = 1 \/ At(1)[1] < At(n)[1]
    BY <1>1, <1>21
  <2>3. At(1)[1] \in 1 .. Len(w) /\ At(n)[1] = 1
    BY <1>1, <1>20, <2>1
  <2> QED
    BY <2>1, <2>2, <2>3
<1>7. At(2)[1] > to + 1 /\ At(2)[1] \in 1 .. Len(w)
  <2>1. At(1)[2] + 1 < At(2)[1] /\ At(2)[1] \in 1 .. Len(w)
    BY <1>1, <1>20, <1>21
  <2>2. At(1)[2] = to
    BY <1>6
  <2> QED
    BY <2>1, <2>2
<1> DEFINE m == to + 1
<1>8. m \in 2 .. Len(w) - 1 /\ w[m] = Colon
  BY <1>1, <1>3, <1>4, <1>7
<1>9. inputs(w) = UpToColon(w, m + 1)
  <2>1. devname(w) # w
    BY <1>3, <1>8
  <2>2. Len(devname(w)) + 2 = m + 1
    BY <1>3
  <2> QED
    BY <2>1, <2>2 DEF inputs
<1> HIDE DEF m
<1>10. w[m + 1] = c /\ c # Colon /\ (m + 1 = Len(w) \/ w[m + 2] = Colon)
  <2> DEFINE from == m + 1
  <2>1. from \in 1 .. Len(w) + 1 /\ from \in Nat
    BY <1>1, <1>8
  <2>2. inputs(w) = UpToColon(w, from)
    BY <1>9
  <2> HIDE DEF from
  <2>3. PICK end \in from - 1 .. Len(w) :
          /\ Len(UpToColon(w, from)) = end - from + 1
          /\ \A k \in 1 .. end - from + 1 : UpToColon(w, from)[k] = w[from + k - 1]
          /\ end = Len(w) \/ w[end + 1] = Colon
    BY <2>1, CutsAtColon
  <2>4. Len(inputs(w)) = 1 /\ inputs(w)[1] = c
    BY <1>2
  <2>5. end = from
    <3>1. end \in Int
      BY <1>1, <2>1
    <3>2. 1 = end - from + 1
      BY <2>2, <2>3, <2>4
    <3> QED
      BY <2>1, <3>1, <3>2
  <2>6. inputs(w)[1] = w[from]
    <3>1. from + 1 - 1 = from /\ 1 \in 1 .. end - from + 1
      BY <2>1, <2>5
    <3> QED
      BY <2>2, <2>3, <3>1
  <2>7. c # Colon
    BY CountAssumption
  <2>8. from + 1 = m + 2
    BY <1>8 DEF from
  <2> QED
    BY <2>3, <2>4, <2>5, <2>6, <2>7, <2>8 DEF from
<1>11. <<m + 1, m + 1>> \in P
  BY <1>1, <1>8, <1>10 DEF P, Places, IsPiece
<1>12. At(2) = <<m + 1, m + 1>>
  <2>1. PICK n \in 1 .. N : At(n) = <<m + 1, m + 1>>
    BY <1>11, <1>22
  <2>2. At(n)[1] = m + 1 /\ At(1)[1] = 1
    BY <1>6, <2>1
  <2>3. n # 1
    BY <1>8, <2>2
  <2>4. n = 2 \/ At(2)[1] < At(n)[1]
    BY <1>1, <1>21, <2>3
  <2>5. ~(At(2)[1] < At(n)[1])
    BY <1>7, <2>2 DEF m
  <2> QED
    BY <2>1, <2>4, <2>5
<1>13. Pieces(w, {Colon})[1] = devname(w)
  <2>1. Pieces(w, {Colon})[1] = SubSeq(w, At(1)[1], At(1)[2])
    BY <1>1 DEF Pieces, P, N, At
  <2>2. At(1)[1] = 1 /\ At(1)[2] = to
    BY <1>6
  <2> QED
    BY <1>3, <2>1, <2>2
<1>14. atoi(Pieces(w, {Colon})[2]) = Count[c]
  <2>1. At(2)[1] = m + 1 /\ At(2)[2] = m + 1
    BY <1>12
  <2>2. Pieces(w, {Colon})[2][1] = w[At(2)[1] + 1 - 1]
    <3>1. 2 \in 1 .. N /\ 1 \in 1 .. At(2)[2] - At(2)[1] + 1
      BY <1>1, <1>8, <2>1
    <3> QED
      BY <3>1, PieceIs DEF P, N, At
  <2>3. Pieces(w, {Colon})[2][1] = c
    BY <1>8, <1>10, <2>1, <2>2
  <2> QED
    BY <2>3 DEF atoi
<1> QED
  BY <1>2, <1>8, <1>10, <1>13, <1>14

\* A device of a program that run.sh has started, and the count of its entry.
LEMMA ServedDevice ==
  ASSUME IInv, stage = "loop", via = "run.sh", NEW k \in 1 .. Len(devices)
  PROVE  \E c \in DOMAIN Count :
           /\ devices[k].vars = Count[c] /\ Count[c] < 100 /\ Count[c] \in Nat
           /\ devices[k].address = k - 1
           /\ Device[devices[k].name] = [vars |-> devices[k].vars,
                                         speed |-> devices[k].speed]
<1> DEFINE w == Words(string)[k]
<1>1. /\ k \in 1 .. WordsOf(string) /\ Configurable(string) /\ AsConfigured(w)
      /\ TakenFrom(w, k - 1, devices[k]) /\ string \in Seq(Char)
  BY WordsLen DEF IInv, Served, Scripted, Position
<1>2. w \in Seq(Letter)
  BY <1>1, WordType DEF IInv
<1>3. \A j \in 1 .. Len(w) :
        \E q \in Nat : w[j] = string[q] /\ q \in 1 .. Len(string)
                       /\ (j < Len(w) => w[j + 1] = string[q + 1])
  <2> DEFINE p == Nth(string, Space, k)
  <2>1. p[1] \in 1 .. Len(string) /\ p[2] \in p[1] .. Len(string)
    BY <1>1, NthIs, PlaceIs DEF WordsOf
  <2>2. /\ Len(w) = p[2] - p[1] + 1
        /\ \A j \in 1 .. p[2] - p[1] + 1 : w[j] = string[p[1] + j - 1]
    BY <1>1, PieceIs DEF WordsOf, Words
  <2> HIDE DEF p, w
  <2>3. ASSUME NEW j \in 1 .. Len(w)
        PROVE  /\ p[1] + j - 1 \in 1 .. Len(string)
               /\ w[j] = string[p[1] + j - 1]
               /\ j < Len(w) => w[j + 1] = string[p[1] + j - 1 + 1]
    <3>1. p[1] \in Nat /\ p[2] \in Nat /\ Len(string) \in Nat
      BY <1>1, <2>1
    <3>2. j \in 1 .. p[2] - p[1] + 1
      BY <2>2
    <3>3. w[j] = string[p[1] + j - 1] /\ p[1] + j - 1 \in 1 .. Len(string)
      BY <2>1, <2>2, <3>1, <3>2
    <3>4. ASSUME j < Len(w) PROVE w[j + 1] = string[p[1] + j - 1 + 1]
      <4>1. j + 1 \in 1 .. p[2] - p[1] + 1
        BY <2>2, <3>1, <3>2, <3>4
      <4>2. w[j + 1] = string[p[1] + (j + 1) - 1]
        BY <2>2, <4>1
      <4>3. p[1] + (j + 1) - 1 = p[1] + j - 1 + 1
        BY <3>1, <3>2
      <4> QED
        BY <4>2, <4>3
    <3> QED
      BY <3>3, <3>4
  <2> QED
    <3>1. \A j \in 1 .. Len(w) : p[1] + j - 1 \in Nat
      BY <2>1
    <3> QED
      BY <2>3, <3>1
<1> HIDE DEF w
<1>4. Len(Pieces(w, {Colon})) >= 2
  BY <1>1 DEF TakenFrom
<1>5. PICK m \in 2 .. Len(w) - 1, c \in DOMAIN Count :
        /\ w[m] = Colon /\ w[m + 1] = c
        /\ Pieces(w, {Colon})[1] = devname(w)
        /\ atoi(Pieces(w, {Colon})[2]) = Count[c]
        /\ Device[devname(w)] = [vars |-> Count[c], speed |-> baud]
  BY <1>1, <1>2, <1>4, CutsAndTokens
<1>6. PICK q \in 1 .. Len(string) : string[q] = Colon /\ string[q + 1] = c
  <2>1. m \in 1 .. Len(w) /\ m < Len(w)
    BY <1>2, <1>5
  <2> QED
    BY <1>3, <1>5, <2>1
<1>7. ShortCount(c)
  BY <1>1, <1>6 DEF Configurable
<1>8. /\ devices[k].name = devname(w) /\ devices[k].vars = Count[c]
      /\ devices[k].address = k - 1 /\ devices[k].speed = baud
  BY <1>1, <1>5 DEF TakenFrom
<1> QED
  BY <1>5, <1>7, <1>8, CountAssumption DEF ShortCount

\* The script's way to take an entry of the configuration apart and main()'s lead
\* to the same device, for every configuration the script accepts.
THEOREM ServedAsSentAlways == StartSpec => []ServedAsSent
<1>1. IInv => ServedAsSent
  BY ServedDevice DEF ServedAsSent
<1> QED
  BY <1>1, IInvAlways, PTL

\* With a read buffer for 99 variables, every device of a configuration that the
\* script accepts fits into the buffer and into a bundle.
THEOREM DevicesFitAlways ==
  ASSUME MsgLen(99) <= BuffSize
  PROVE  StartSpec => []DevicesFit
<1>1. IInv => DevicesFit
  <2> SUFFICES ASSUME IInv, stage = "loop", via = "run.sh", NEW k \in 1 .. Len(devices)
               PROVE  LET d == devices[k]
                      IN  /\ MsgLen(d.vars) <= BuffSize
                          /\ d.vars <= MaxVars =>
                               /\ MessageFits(AddressLen(d.address), d.vars)
                               /\ LayoutIsOsc(AddressLen(d.address), d.vars)
    BY DEF DevicesFit
  <2> DEFINE vs == devices[k].vars
             len == AddressLen(devices[k].address)
  <2>1. vs \in Nat /\ vs < 100
    BY ServedDevice
  <2>2. len \in 0 .. MaxAddressLen /\ len \in Nat
    BY DEF AddressLen, MaxAddressLen
  <2> HIDE DEF vs, len
  <2>3. MsgLen(vs) <= BuffSize
    BY <2>1, LimitsAssumption DEF MsgLen
  <2>4. LayoutIsOsc(len, vs)
    BY <2>1, <2>2, LayoutIsOscAlways
  <2>5. ASSUME vs <= MaxVars PROVE MessageFits(len, vs)
    <3>1. vs \in 0 .. MaxVars
      BY <2>1, <2>5 DEF MaxVars
    <3> QED
      BY <2>2, <3>1, MessagesFit
  <2> QED
    BY <2>3, <2>4, <2>5 DEF vs, len
<1> QED
  BY <1>1, IInvAlways, PTL

=============================================================================
