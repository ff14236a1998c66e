----------------------------- MODULE FeedProofs -----------------------------
(***************************************************************************)
(* What is proved of Feed, for every stream, every way to chunk it, every  *)
(* limit and every kind of stream; and what a feed of NAL units returns:   *)
(* whatever it had to drop, and as long as it dropped nothing what a       *)
(* reader of the whole stream finds.                                       *)
(***************************************************************************)
EXTENDS Feed, UnitLemmas

\* NalRef.pad is an offset of the bytes, so an access unit starts inside them.
LEMMA UnitStartsRange ==
    ASSUME NEW b \in Seq(Byte)
    PROVE  UnitStarts(b) \subseteq 0..Len(b)
<1>1. StartCodes(b) \subseteq 0..Len(b)
  BY DEF StartCodes
<1>2. Boundaries(b) \subseteq StartCodes(b)
  BY DEF Boundaries
<1>3. \A c \in StartCodes(b) : NalPad(b, c) \in 0..Len(b)
  BY <1>1, ZeroRunRange DEF NalPad
<1>. QED  BY <1>2, <1>3 DEF UnitStarts

\* And so does a temporal unit.
LEMMA Av1StartsRange ==
    ASSUME NEW b \in Seq(Byte)
    PROVE  Av1CarrierStarts(b) \subseteq 0..Len(b)
<1>1. FeedStands(b) \subseteq 0..Len(b)
  BY Zenon DEF FeedStands, Stands
<1>. QED  BY <1>1 DEF Av1CarrierStarts, FeedObus

\* boundaries never asks cut to drain more bytes than there are.
LEMMA PendingRange ==
    ASSUME NEW b \in Seq(Byte)
    PROVE  PendingAt(b) \in 0..Len(b)
<1>1. CarrierStarts(b) \subseteq 0..Len(b)
  BY UnitStartsRange, Av1StartsRange DEF CarrierStarts
<1>2. CASE CarrierStarts(b) = {}
  BY <1>2 DEF PendingAt
<1>3. CASE CarrierStarts(b) # {}
  <2>. DEFINE S == CarrierStarts(b)
  <2>. HIDE DEF S
  <2>1. Len(b) \in Nat /\ S \in SUBSET (0..Len(b)) /\ S # {}
    BY <1>1, <1>3, LenProperties DEF S
  <2>2. Max(S) \in S
    BY <2>1, MaxExists, Zenon
  <2>. QED  BY <2>1, <2>2 DEF PendingAt, S
<1>. QED  BY <1>2, <1>3

-----------------------------------------------------------------------------
\* FootprintBounded on its own is not inductive: that a chunk is read out of the
\* stream, and that a drain takes no more than is held, come from these.
FeedInv == FieldsOK /\ HeldIsTail /\ FootprintBounded

LEMMA LimitType == Limit \in Nat /\ Limit >= 3
  BY FeedAssumption DEF Limit

LEMMA StreamType ==
    ASSUME FieldsOK
    PROVE  /\ stream \in Seq(Byte) /\ Len(stream) \in Nat
           /\ Len(held) \in Nat /\ fed \in Nat /\ fed <= Len(stream)
  BY FeedAssumption DEF FieldsOK

\* Draining the front of what is held leaves the last bytes pushed.
LEMMA DrainKeepsTail ==
    ASSUME FieldsOK, HeldIsTail, NEW k \in 0..Len(held), fed' = fed, stream' = stream,
           held' = DropFront(held, k)
    PROVE  held' \in Seq(Byte) /\ Len(held') = Len(held) - k /\ HeldIsTail'
<1>. DEFINE m == Base + 1
<1>1. stream \in Seq(Byte) /\ Len(stream) \in Nat /\ fed \in Nat /\ fed <= Len(stream)
  BY StreamType
<1>2. held = SubSeq(stream, m, fed) /\ Len(held) \in Nat /\ Len(held) <= fed
  BY StreamType DEF HeldIsTail
<1>3. m \in 1..(Len(stream) + 1) /\ fed \in (m - 1)..Len(stream) /\ fed - m + 1 = Len(held)
  BY <1>1, <1>2 DEF Base
<1>4. m + k \in 1..(Len(stream) + 1) /\ fed \in (m + k - 1)..Len(stream)
      /\ 0 \in 0..(fed - (m + k) + 1) /\ k \in 0..(fed - m + 1)
  BY <1>1, <1>2, <1>3, SMTT(30)
<1>. HIDE DEF m
<1>5. held' = SubSeq(stream, m + k, fed)
  <2>1. held' = DropFront(SubSeq(stream, m, fed), k)
    BY <1>2
  <2>2. DropFront(SubSeq(stream, m, fed), k) = SubSeq(stream, m + k, fed)
    <3>1. /\ stream \in Seq(Byte)
          /\ m \in 1..(Len(stream) + 1) /\ fed \in (m - 1)..Len(stream)
          /\ k \in 0..(fed - m + 1)
      BY <1>1, <1>3, <1>4
    <3>. QED  BY ONLY <3>1, DrainedSubSeq, ZenonT(40)
  <2>. QED  BY <2>1, <2>2
<1>6. held' \in Seq(Byte) /\ Len(held') = fed - (m + k) + 1
  BY <1>1, <1>4, <1>5, DrainedSubSeq
<1>7. Len(held') = Len(held) - k
  BY <1>1, <1>2, <1>3, <1>6
<1>8. Base' + 1 = m + k
  BY <1>1, <1>2, <1>3, <1>7 DEF m, Base
<1>9. held' = SubSeq(stream', Base' + 1, fed')
  <2>. HIDE DEF Base
  <2>. QED  BY <1>5, <1>8
<1>10. Len(held') <= fed'
  <2>1. Len(held) \in Nat /\ Len(held) <= fed
    BY <1>2
  <2>2. Len(held) - k <= fed
    BY <2>1, <1>1
  <2>. QED  BY <2>2, <1>7
<1>. QED  BY <1>6, <1>7, <1>9, <1>10 DEF HeldIsTail

\* The next bytes of the stream put behind what is held leave it a tail.
LEMMA PushKeepsTail ==
    ASSUME FieldsOK, HeldIsTail, NEW n \in Nat, Push(n)
    PROVE  held' \in Seq(Byte) /\ Len(held') = Len(held) + n /\ HeldIsTail'
<1>. DEFINE m == Base + 1
            g == fed + n
<1>1. stream \in Seq(Byte) /\ Len(stream) \in Nat /\ fed \in Nat /\ g <= Len(stream)
  BY StreamType DEF Push
<1>2. held = SubSeq(stream, m, fed) /\ Len(held) \in Nat /\ Len(held) <= fed
  BY StreamType DEF HeldIsTail
<1>3. m \in 1..(Len(stream) + 1) /\ fed \in (m - 1)..Len(stream) /\ g \in fed..Len(stream)
      /\ g \in (m - 1)..Len(stream) /\ 0 \in 0..(g - m + 1)
  BY <1>1, <1>2 DEF Base
<1>. HIDE DEF m
<1>4. held' = SubSeq(stream, m, fed) \o SubSeq(stream, fed + 1, g)
  BY <1>2 DEF Push
<1>. HIDE DEF g
<1>5. held' = SubSeq(stream, m, g)
  BY <1>1, <1>3, <1>4, ConcatAdjacentSubSeq
<1>6. held' \in Seq(Byte) /\ Len(held') = g - m + 1
  BY <1>1, <1>3, <1>5, DrainedSubSeq
<1>7. Len(held') = Len(held) + n /\ g - Len(held') + 1 = m /\ Len(held') <= g
  BY <1>1, <1>2, <1>6 DEF m, g, Base
<1>8. fed' = g /\ stream' = stream
  BY DEF Push, g
<1>. QED  BY <1>5, <1>6, <1>7, <1>8 DEF HeldIsTail, Base

LEMMA FeedInit == Init => FeedInv
<1>. SUFFICES ASSUME Init PROVE FeedInv
  OBVIOUS
<1>1. stream \in Seq(Byte) /\ Len(stream) \in Nat
  BY FeedAssumption, LenProperties DEF Init
<1>2. held = << >> /\ fed = 0
  BY DEF Init
<1>3. Len(held) = 0 /\ held \in Seq(Byte)
  BY <1>2, EmptySeq
<1>4. FieldsOK
  <2>1. fed \in 0..Len(stream)
    BY <1>1, <1>2
  <2>. QED  BY <2>1, <1>3 DEF Init, FieldsOK
<1>5. HeldIsTail
  <2>1. SubSeq(stream, 0 + 1, 0) = << >>
    BY SubSeqEmpty
  <2>. QED  BY <2>1, <1>2, <1>3 DEF HeldIsTail, Base
<1>6. FootprintBounded
  BY <1>3, LimitType DEF FootprintBounded
<1>. QED  BY <1>4, <1>5, <1>6 DEF FeedInv

\* The lengths boundaries hands over are counts, so index stays one.
LEMMA FoundIsCounted ==
    ASSUME NEW b \in Seq(Byte)
    PROVE  Len(Complete(b)) \in Nat
<1>. DEFINE S == CarrierStarts(b)
            n == Len(Ascending(S))
<1>1. Len(b) \in Nat /\ S \in SUBSET (0..Len(b))
  BY LenProperties, UnitStartsRange, Av1StartsRange DEF CarrierStarts
<1>2. IsFiniteSet(0..Len(b)) /\ S \in SUBSET Nat
  BY <1>1, FS_Interval
<1>3. n \in Nat
  <2>. HIDE DEF S
  <2>1. IsFiniteSet(S)
    BY <1>1, <1>2, FS_Subset
  <2>. QED  BY <1>2, <2>1, AscendingProperties
<1>. HIDE DEF n
<1>4. n = 0 => Len(Complete(b)) = 0
  BY DEF Complete, n
<1>5. n \in Nat \ {0} => Len(Complete(b)) = n - 1
  BY DEF Complete, n
<1>. QED  BY <1>3, <1>4, <1>5

\* Every step keeps FeedInv. Push brings a chunk in, a drain and the cut to the
\* last three bytes take bytes off the front, an Err lets go of all of them.
LEMMA FeedStep == FeedInv /\ [Next]_vars => FeedInv'
<1>. SUFFICES ASSUME FeedInv, [Next]_vars PROVE FeedInv'
  OBVIOUS
<1>. USE DEF FeedInv
<1>1. Limit \in Nat /\ Limit >= 3 /\ Chunks \subseteq Nat
  BY LimitType, FeedAssumption
<1>2. Len(stream) \in Nat /\ Len(held) \in Nat /\ fed \in Nat /\ fed <= Len(stream)
  BY StreamType
<1>3. ASSUME NEW n \in Chunks, Push(n)
      PROVE  FeedInv'
  <2>1. held' \in Seq(Byte) /\ Len(held') = Len(held) + n /\ HeldIsTail'
    BY <1>1, <1>3, PushKeepsTail
  <2>2. n \in Nat /\ fed' \in 0..Len(stream)
    BY <1>1, <1>2, <1>3 DEF Push
  <2>3. FieldsOK'
    BY <1>3, <2>1, <2>2 DEF Push, FieldsOK
  <2>4. Len(held) <= Limit
    BY <1>3 DEF Push, FootprintBounded
  <2>5. Len(held') <= Limit + n /\ call' = "cut"
    BY <1>1, <1>2, <1>3, <2>1, <2>2, <2>4 DEF Push
  <2>6. FootprintBounded'
    BY <2>5 DEF FootprintBounded, Limit
  <2>. QED  BY <2>1, <2>3, <2>6
<1>4. ASSUME NEW k \in 0..Len(held), held' = DropFront(held, k), fed' = fed,
             stream' = stream, FieldsOK', call' # "idle" \/ Len(held') <= Limit
      PROVE  FeedInv'
  <2>1. held' \in Seq(Byte) /\ Len(held') = Len(held) - k /\ HeldIsTail'
    BY <1>4, DrainKeepsTail
  <2>2. PICK n \in Chunks \cup {0} : Len(held) <= Limit + n
    BY DEF FootprintBounded
  <2>3. n \in Nat /\ k \in Nat /\ Len(held') <= Limit + n
    BY <1>1, <1>2, <2>1, <2>2
  <2>4. FootprintBounded'
    BY <1>4, <2>3 DEF FootprintBounded, Limit
  <2>. QED  BY <1>4, <2>1, <2>4
<1>5. CASE Drain
  <2>1. PendingAt(held) \in 0..Len(held)
    BY PendingRange DEF FieldsOK
  <2>2. held' \in Seq(Byte)
    BY <1>5, <2>1, DrainKeepsTail DEF Drain
  <2>3. index' \in Nat
    BY <1>5, FoundIsCounted DEF Drain, HandOver, FieldsOK
  <2>4. FieldsOK' /\ call' # "idle"
    BY <1>5, <2>2, <2>3 DEF Drain, FieldsOK
  <2>. QED  BY <1>4, <1>5, <2>1, <2>4 DEF Drain
<1>6. CASE CutReturns
  <2>1. index' \in Nat
    BY <1>6, FoundIsCounted DEF CutReturns, HandOver, FieldsOK
  <2>. QED  BY <1>6, <2>1 DEF CutReturns, FieldsOK, HeldIsTail, Base, FootprintBounded
<1>7. CASE CutFails
  <2>1. held' = << >> /\ Len(held') = 0 /\ held' \in Seq(Byte)
    BY <1>7, EmptySeq DEF CutFails
  <2>2. SubSeq(stream, fed + 1, fed) = << >>
    BY <1>2, SubSeqEmpty
  <2>3. HeldIsTail'
    BY <1>2, <1>7, <2>1, <2>2 DEF CutFails, HeldIsTail, Base
  <2>4. FieldsOK'
    BY <1>7, <2>1 DEF CutFails, FieldsOK
  <2>5. FootprintBounded'
    BY <1>1, <2>1 DEF FootprintBounded, Limit
  <2>. QED  BY <2>3, <2>4, <2>5
<1>8. CASE WithinLimit
  BY <1>8 DEF WithinLimit, Return, FieldsOK, HeldIsTail, Base, FootprintBounded
<1>9. CASE OverLimit
  <2>. DEFINE k == Len(held) - 3
  <2>1. k \in 0..Len(held) /\ Len(held) - k = 3
    BY <1>1, <1>2, <1>9 DEF OverLimit
  <2>2. held' = DropFront(held, k) /\ fed' = fed /\ stream' = stream
    BY <1>9 DEF OverLimit, Return
  <2>. HIDE DEF k
  <2>3. held' \in Seq(Byte) /\ Len(held') = 3
    BY <2>1, <2>2, DrainKeepsTail
  <2>4. FieldsOK'
    BY <1>9, <2>3 DEF OverLimit, Return, FieldsOK
  <2>. QED  BY <1>1, <1>4, <2>1, <2>2, <2>3, <2>4
<1>10. CASE Finish
  <2>1. CASE held = << >>
    BY <1>10, <2>1 DEF Finish, FieldsOK, HeldIsTail, Base, FootprintBounded
  <2>2. CASE held # << >>
    <3>1. held' = << >> /\ Len(held') = 0 /\ held' \in Seq(Byte) /\ index' = index + 1
      BY <1>10, <2>2, EmptySeq DEF Finish
    <3>2. SubSeq(stream, fed + 1, fed) = << >>
      BY <1>2, SubSeqEmpty
    <3>3. HeldIsTail'
      BY <1>2, <1>10, <3>1, <3>2 DEF Finish, HeldIsTail, Base
    <3>4. FieldsOK'
      BY <1>10, <3>1 DEF Finish, FieldsOK
    <3>5. FootprintBounded'
      BY <1>1, <3>1 DEF FootprintBounded, Limit
    <3>. QED  BY <3>3, <3>4, <3>5
  <2>. QED  BY <2>1, <2>2
<1>11. CASE UNCHANGED vars
  BY <1>11 DEF vars, FieldsOK, HeldIsTail, Base, FootprintBounded
<1>. QED
  BY <1>3, <1>5, <1>6, <1>7, <1>8, <1>9, <1>10, <1>11 DEF Next, PushSteps, Done

THEOREM FeedInvariant == Spec => []FeedInv
<1>. QED  BY FeedInit, FeedStep, PTL DEF Spec

\* What a feed holds is always the last bytes it was given, whole and in order:
\* for every kind of stream, no drain, error or drop loses bytes from between.
THEOREM FeedHoldsTheTail == Spec => []HeldIsTail
<1>1. FeedInv => HeldIsTail
  BY DEF FeedInv
<1>. QED  BY <1>1, FeedInvariant, PTL

\* The promise that makes a feed fit to read a socket: whatever bytes come, in
\* whatever chunks, what is held once push has returned is within the limit and
\* while it runs passes it by one chunk at most.
THEOREM FeedFootprint == Spec => []FootprintBounded
<1>1. FeedInv => FootprintBounded
  BY DEF FeedInv
<1>. QED  BY <1>1, FeedInvariant, PTL

-----------------------------------------------------------------------------
\* The carriers boundaries hands over lie in the bytes it drains, one after the
\* other.
LEMMA FoundIsInside ==
    ASSUME NEW b \in Seq(Byte)
    PROVE  LET found == Complete(b)
           IN  /\ Len(found) \in Nat
               /\ \A k \in 1..Len(found) :
                     /\ found[k].start \in 0..Len(b) /\ found[k].end \in 0..Len(b)
                     /\ found[k].start < found[k].end /\ found[k].end <= PendingAt(b)
                     /\ \A j \in 1..(k - 1) : found[j].end <= found[k].start
<1>. DEFINE S == CarrierStarts(b)
            s == Ascending(S)
            n == Len(s)
            found == Complete(b)
<1>1. Len(b) \in Nat /\ S \in SUBSET (0..Len(b))
  BY LenProperties, UnitStartsRange, Av1StartsRange DEF CarrierStarts
<1>2. IsFiniteSet(0..Len(b)) /\ S \in SUBSET Nat
  BY <1>1, FS_Interval
<1>3. IsFiniteSet(S)
  <2>. HIDE DEF S
  <2>. QED  BY <1>1, <1>2, FS_Subset
<1>4. /\ n \in Nat /\ \A k \in 1..n : s[k] \in S
      /\ \A i, j \in 1..n : i < j => s[i] < s[j]
  <2>. HIDE DEF S
  <2>. QED  BY <1>2, <1>3, AscendingProperties, ElementOfSeq
<1>5. \A x \in S : x <= PendingAt(b)
  <2>1. \A x \in S : S # {} /\ x <= Max(S)
    <3>. HIDE DEF S
    <3>. QED  BY <1>1, MaxExists
  <2>. QED  BY <2>1 DEF PendingAt
<1>6. Len(found) \in Nat /\ (n = 0 => Len(found) = 0) /\ (n > 0 => Len(found) = n - 1)
  <2>. HIDE DEF n
  <2>1. n = 0 => Len(found) = 0
    BY DEF Complete, n
  <2>2. n \in Nat \ {0} => Len(found) = n - 1
    BY DEF Complete, n
  <2>. QED  BY <2>1, <2>2, <1>4
<1>7. \A k \in 1..Len(found) : found[k].start = s[k] /\ found[k].end = s[k + 1]
  <2>1. found = [k \in 1..(n - 1) |-> [start |-> s[k], end |-> s[k + 1],
                                       keyframe |-> IsKeyframe(b, s[k], s[k + 1])]]
    BY Zenon DEF Complete
  <2>. HIDE DEF s, n, found
  <2>2. \A k \in 1..(n - 1) : found[k].start = s[k] /\ found[k].end = s[k + 1]
    BY <2>1
  <2>3. 1..Len(found) \subseteq 1..(n - 1)
    BY <1>4, <1>6
  <2>. QED  BY <2>2, <2>3
<1>. HIDE DEF S, s, n, found
<1>8. ASSUME NEW k \in 1..Len(found)
      PROVE  k \in 1..n /\ k + 1 \in 1..n
  <2>1. CASE n = 0
    BY <1>6, <2>1
  <2>2. CASE n > 0
    BY <1>4, <1>6, <2>2
  <2>. QED  BY <1>4, <2>1, <2>2
<1>9. ASSUME NEW k \in 1..Len(found)
      PROVE  /\ found[k].start \in 0..Len(b) /\ found[k].end \in 0..Len(b)
             /\ found[k].start < found[k].end /\ found[k].end <= PendingAt(b)
             /\ \A j \in 1..(k - 1) : found[j].end <= found[k].start
  <2>1. k \in 1..n /\ k + 1 \in 1..n /\ s[k] \in S /\ s[k + 1] \in S
    BY <1>4, <1>8
  <2>2. s[k] < s[k + 1]
    BY <1>4, <2>1
  <2>3. ASSUME NEW j \in 1..(k - 1)
        PROVE  found[j].end <= found[k].start
    <3>1. j \in 1..Len(found) /\ j + 1 \in 1..k
      BY <1>6
    <3>2. j + 1 \in 1..n /\ found[j].end = s[j + 1] /\ found[k].start = s[k]
      BY <3>1, <1>7, <1>8
    <3>3. s[j + 1] = s[k] \/ s[j + 1] < s[k]
      <4>1. CASE j + 1 = k
        BY <4>1, Zenon
      <4>2. CASE j + 1 < k
        BY <1>4, <2>1, <3>1, <3>2, <4>2
      <4>. QED  BY <3>1, <4>1, <4>2
    <3>4. s[k] \in Nat /\ s[j + 1] \in Nat
      <4>1. s[k] \in S /\ s[j + 1] \in S
        BY <1>4, <2>1, <3>2
      <4>. QED  BY <4>1, <1>2
    <3>5. s[j + 1] <= s[k]
      <4>. DEFINE x == s[j + 1]
                  y == s[k]
      <4>. HIDE DEF x, y
      <4>1. x \in Nat /\ y \in Nat /\ (x = y \/ x < y)
        BY <3>3, <3>4 DEF x, y
      <4>2. x <= y
        BY <4>1
      <4>. QED  BY <4>2 DEF x, y
    <3>. QED  BY <3>2, <3>5
  <2>. QED  BY <2>1, <2>2, <2>3, <1>1, <1>5, <1>7
<1>. QED  BY <1>6, <1>9 DEF found

-----------------------------------------------------------------------------
(***************************************************************************)
(* Where the carriers a feed returns lie in the stream it was given.       *)
(***************************************************************************)

Span     == [from : Nat, to : Nat]
Returned == [index : Nat, keyframe : BOOLEAN, payloads : {Payloads(b) : b \in Seq(Byte)}]

\* The k-th carrier of `all` has the payloads of the k-th span of b.
MadeOf(b, all, s) ==
    \A k \in 1..Len(all) : all[k].payloads = Payloads(Slice(b, s[k].from, s[k].to))

\* SpansDisjoint alone is not inductive: a drain has to know that the carriers
\* so far end where the held bytes begin, that there is one span for each, and
\* a push that nothing is left in `out`.
SpanInv ==
    /\ spans \in Seq(Span)
    /\ delivered \in Seq(Returned) /\ out \in Seq(Returned)
    /\ call = "idle" => out = << >>
    /\ SpansDisjoint
    /\ MadeOf(stream, delivered \o out, spans)

-----------------------------------------------------------------------------
\* Spans in order, followed by spans in order that begin where those end.
LEMMA InOrderConcat ==
    ASSUME NEW s \in Seq(Span), NEW t \in Seq(Span), NEW mid \in Nat, NEW end \in Nat,
           mid <= end, InOrder(s, mid), InOrder(t, end),
           \A k \in 1..Len(t) : mid <= t[k].from
    PROVE  InOrder(s \o t, end)
<1>. DEFINE u == s \o t
            m == Len(s)
            n == Len(t)
<1>1. m \in Nat /\ n \in Nat /\ u \in Seq(Span) /\ Len(u) = m + n
  BY LenProperties, ConcatProperties
<1>2. \A k \in 1..(m + n) : u[k] = IF k <= m THEN s[k] ELSE t[k - m]
  BY ConcatProperties
<1>3. \A k \in 1..m : s[k] \in Span
  BY ElementOfSeq
<1>4. \A k \in 1..n : t[k] \in Span
  BY ElementOfSeq
<1>. HIDE DEF u, m, n
<1>5. ASSUME NEW k \in 1..(m + n)
      PROVE  /\ u[k].from < u[k].to /\ u[k].to <= end
             /\ \A j \in 1..(k - 1) : u[j].to <= u[k].from
  <2>1. CASE k <= m
    <3>1. k \in 1..m /\ u[k] = s[k] /\ s[k].to \in Nat
      <4>1. k \in 1..m
        BY <1>1, <2>1
      <4>2. u[k] = s[k]
        BY <1>2, <2>1
      <4>3. s[k].to \in Nat
        BY <1>3, <4>1 DEF Span
      <4>. QED  BY <4>1, <4>2, <4>3
    <3>2. s[k].from < s[k].to /\ s[k].to <= mid
      BY <3>1 DEF InOrder, m
    <3>3. ASSUME NEW j \in 1..(k - 1) PROVE u[j].to <= u[k].from
      <4>1. j \in 1..(m + n) /\ j <= m
        BY <1>1, <2>1
      <4>2. u[j] = s[j]
        BY <1>2, <4>1
      <4>3. s[j].to <= s[k].from
        BY <3>1 DEF InOrder, m
      <4>. QED  BY <3>1, <4>2, <4>3
    <3>. QED  BY <3>1, <3>2, <3>3, SMTT(30)
  <2>2. CASE k > m
    <3>. DEFINE i == k - m
    <3>1. i \in 1..n /\ u[k] = t[i] /\ t[i].from \in Nat
      <4>1. i \in 1..n
        BY <1>1, <2>2
      <4>2. u[k] = t[i]
        BY <1>1, <1>2, <2>2
      <4>3. t[i].from \in Nat
        BY <1>4, <4>1 DEF Span
      <4>. QED  BY <4>1, <4>2, <4>3
    <3>. HIDE DEF i
    <3>2. t[i].from < t[i].to /\ t[i].to <= end /\ mid <= t[i].from
      BY <3>1 DEF InOrder, n
    <3>3. ASSUME NEW j \in 1..(k - 1), j <= m PROVE u[j].to <= u[k].from
      <4>1. j \in 1..m /\ j \in 1..(m + n)
        BY <1>1, <3>3
      <4>2. u[j] = s[j] /\ s[j].to \in Nat
        BY <1>2, <1>3, <4>1, <3>3 DEF Span
      <4>3. s[j].to <= mid
        BY <4>1 DEF InOrder, m
      <4>. QED  BY <3>1, <3>2, <4>2, <4>3
    <3>4. ASSUME NEW j \in 1..(k - 1), j > m PROVE u[j].to <= u[k].from
      <4>1. j - m \in 1..(i - 1) /\ j \in 1..(m + n) /\ ~(j <= m)
        BY <1>1, <3>4, <3>1 DEF i
      <4>2. u[j] = t[j - m]
        BY <1>2, <4>1
      <4>3. t[j - m].to <= t[i].from
        BY <3>1, <4>1 DEF InOrder, n
      <4>. QED  BY <3>1, <4>2, <4>3
    <3>5. \A j \in 1..(k - 1) : j <= m \/ j > m
      BY <1>1
    <3>. QED  BY <3>1, <3>2, <3>3, <3>4, <3>5
  <2>. QED  BY <1>1, <2>1, <2>2
<1>. QED  BY <1>1, <1>5 DEF InOrder, u

\* The first n of spans in order are in order.
LEMMA InOrderPrefix ==
    ASSUME NEW s \in Seq(Span), NEW n \in 0..Len(s), NEW mid \in Nat, NEW end \in Nat,
           mid <= end, InOrder(s, mid)
    PROVE  /\ SubSeq(s, 1, n) \in Seq(Span) /\ Len(SubSeq(s, 1, n)) = n
           /\ \A k \in 1..n : SubSeq(s, 1, n)[k] = s[k]
           /\ InOrder(SubSeq(s, 1, n), end)
<1>. DEFINE t == SubSeq(s, 1, n)
<1>1. Len(s) \in Nat /\ n \in Nat /\ n <= Len(s)
  BY LenProperties
<1>2. \A k \in 1..Len(s) : s[k] \in Span
  BY ElementOfSeq
<1>3. \A k \in 1..n : s[k] \in Span
  BY <1>1, <1>2
<1>4. t \in Seq(Span) /\ Len(t) = n
  BY <1>1, <1>3, SubSeqProperties
<1>5. \A k \in 1..n : t[k] = s[k]
  <2>1. \A k \in 1..(n - 1 + 1) : t[k] = s[1 + k - 1]
    BY <1>1, <1>3, SubSeqProperties
  <2>. HIDE DEF t
  <2>. QED  BY <1>1, <2>1
<1>. HIDE DEF t
<1>6. ASSUME NEW k \in 1..n
      PROVE  /\ t[k].from < t[k].to /\ t[k].to <= end
             /\ \A j \in 1..(k - 1) : t[j].to <= t[k].from
  <2>1. k \in 1..Len(s) /\ t[k] = s[k] /\ s[k].to \in Nat
    BY <1>1, <1>3, <1>5 DEF Span
  <2>2. s[k].from < s[k].to /\ s[k].to <= mid
    BY <2>1 DEF InOrder
  <2>3. \A j \in 1..(k - 1) : s[j].to <= s[k].from /\ t[j] = s[j]
    BY <1>1, <1>5, <2>1 DEF InOrder
  <2>. QED  BY <2>1, <2>2, <2>3
<1>. QED  BY <1>4, <1>5, <1>6 DEF InOrder, t

\* Only the end moves: what is in order up to mid is in order up to any later end.
LEMMA InOrderLater ==
    ASSUME NEW s \in Seq(Span), NEW mid \in Nat, NEW end \in Nat, mid <= end, InOrder(s, mid)
    PROVE  InOrder(s, end)
<1>1. \A k \in 1..Len(s) : s[k] \in Span
  BY ElementOfSeq
<1>2. \A k \in 1..Len(s) : s[k].to \in Nat
  BY <1>1 DEF Span
<1>. QED  BY <1>2 DEF InOrder

LEMMA MadeOfConcat ==
    ASSUME NEW b, NEW all \in Seq(Returned), NEW new \in Seq(Returned),
           NEW s \in Seq(Span), NEW t \in Seq(Span),
           Len(s) = Len(all), Len(t) = Len(new), MadeOf(b, all, s), MadeOf(b, new, t)
    PROVE  MadeOf(b, all \o new, s \o t)
<1>. DEFINE m == Len(all)
            n == Len(new)
            a == all \o new
            u == s \o t
<1>1. m \in Nat /\ n \in Nat /\ Len(a) = m + n
  BY LenProperties, ConcatProperties
<1>2. \A k \in 1..(m + n) : /\ a[k] = IF k <= m THEN all[k] ELSE new[k - m]
                            /\ u[k] = IF k <= m THEN s[k] ELSE t[k - m]
  BY ConcatProperties
<1>. HIDE DEF a, u, m, n
<1>3. ASSUME NEW k \in 1..(m + n)
      PROVE  a[k].payloads = Payloads(Slice(b, u[k].from, u[k].to))
  <2>1. CASE k <= m
    <3>1. k \in 1..m /\ a[k] = all[k] /\ u[k] = s[k]
      BY <1>1, <1>2, <2>1
    <3>. QED  BY <3>1 DEF MadeOf, m
  <2>2. CASE k > m
    <3>1. k - m \in 1..n /\ a[k] = new[k - m] /\ u[k] = t[k - m]
      BY <1>1, <1>2, <2>2
    <3>. QED  BY <3>1 DEF MadeOf, n
  <2>. QED  BY <1>1, <2>1, <2>2
<1>. QED  BY <1>1, <1>3 DEF MadeOf, a, u

-----------------------------------------------------------------------------
\* A slice of the held bytes is the slice of the stream that far from Base.
LEMMA SliceOfHeld ==
    ASSUME FeedInv, NEW i \in 0..Len(held), NEW j \in i..Len(held)
    PROVE  /\ Slice(held, i, j) = Slice(stream, Base + i, Base + j)
           /\ Slice(held, i, j) \in Seq(Byte)
           /\ Base \in Nat /\ Base + Len(held) = fed
<1>1. stream \in Seq(Byte) /\ Len(stream) \in Nat /\ fed \in Nat /\ fed <= Len(stream)
      /\ Len(held) \in Nat /\ held \in Seq(Byte)
  BY StreamType DEF FeedInv, FieldsOK
<1>2. held = SubSeq(stream, Base + 1, fed) /\ Len(held) <= fed
  BY DEF FeedInv, HeldIsTail
<1>3. Base \in Nat /\ Base + Len(held) = fed
  BY <1>1, <1>2 DEF Base
<1>4. CASE i = j
  <2>1. SubSeq(held, i + 1, j) = << >> /\ SubSeq(stream, Base + i + 1, Base + j) = << >>
    BY <1>1, <1>3, <1>4, SubSeqEmpty
  <2>. QED  BY <1>3, <2>1, EmptySeq DEF Slice
<1>5. CASE i < j
  <2>. DEFINE p == i + 1
              q == Base + 1
  <2>1. /\ q \in 1..Len(stream) /\ fed \in 1..Len(stream)
        /\ p \in 1..(fed - q + 1) /\ j \in 1..(fed - q + 1)
    BY <1>1, <1>3, <1>5
  <2>2. held = SubSeq(stream, q, fed)
    BY <1>2
  <2>. HIDE DEF p, q
  <2>3. SubSeq(SubSeq(stream, q, fed), p, j) = SubSeq(stream, q + p - 1, q + j - 1)
    BY <1>1, <2>1, SubSeqOfSubSeq
  <2>4. q + p - 1 = Base + i + 1 /\ q + j - 1 = Base + j
    <3>. HIDE DEF Base
    <3>. QED  BY <1>1, <1>3 DEF p, q
  <2>5. SubSeq(held, p, j) = SubSeq(stream, Base + i + 1, Base + j)
    BY <2>2, <2>3, <2>4
  <2>6. \A k \in p..j : held[k] \in Byte
    BY <1>1, <1>5, ElementOfSeq DEF p
  <2>7. SubSeq(held, p, j) \in Seq(Byte)
    <3>1. p \in Int /\ j \in Int
      BY <1>1 DEF p
    <3>. QED  BY <2>6, <3>1, SubSeqProperties
  <2>. QED  BY <1>3, <2>5, <2>7 DEF Slice, p
<1>. QED  BY <1>1, <1>4, <1>5

LEMMA CarriedIsReturned ==
    ASSUME NEW i \in Nat, NEW b \in Seq(Byte), NEW kf \in BOOLEAN
    PROVE  Carried(i, b, kf) \in Returned
<1>1. Payloads(b) \in {Payloads(c) : c \in Seq(Byte)}
  OBVIOUS
<1>. QED  BY <1>1 DEF Returned, Carried

LEMMA KeyframeType ==
    ASSUME NEW b, NEW i, NEW j
    PROVE  IsKeyframe(b, i, j) \in BOOLEAN
  BY DEF IsKeyframe

LEMMA FinishKeyframeType ==
    ASSUME NEW b
    PROVE  FinishKeyframe(b) \in BOOLEAN
<1>1. CASE Kind = "Nal"
  <2>1. FinishKeyframe(b) = (AccessUnits(b) # << >> /\ AccessUnits(b)[1].keyframe)
    BY <1>1, Zenon DEF FinishKeyframe
  <2>2. (AccessUnits(b) # << >> /\ AccessUnits(b)[1].keyframe) \in BOOLEAN
    OBVIOUS
  <2>. QED  BY <2>1, <2>2, Zenon
<1>2. CASE Kind # "Nal"
  <2>1. FinishKeyframe(b) = (~ScanFails(b) /\ TemporalUnits(b)[1].has_sequence_header)
    BY <1>2, Zenon DEF FinishKeyframe
  <2>2. (~ScanFails(b) /\ TemporalUnits(b)[1].has_sequence_header) \in BOOLEAN
    OBVIOUS
  <2>. QED  BY <2>1, <2>2, Zenon
<1>. QED  BY <1>1, <1>2

\* The carriers one round of cut numbers and reads the payloads of.
LEMMA NewCarriers ==
    ASSUME FeedInv
    PROVE  LET found == Complete(held)
               n     == Len(found)
               new   == [k \in 1..n |->
                          Carried(index + k - 1, Slice(held, found[k].start, found[k].end),
                                  found[k].keyframe)]
           IN  /\ new \in Seq(Returned) /\ Len(new) = n
               /\ \A k \in 1..n : new[k].index = index + k - 1
<1>. DEFINE found == Complete(held)
            n == Len(found)
            new == [k \in 1..n |->
                      Carried(index + k - 1, Slice(held, found[k].start, found[k].end),
                              found[k].keyframe)]
<1>1. held \in Seq(Byte) /\ Len(held) \in Nat /\ index \in Nat
  BY StreamType DEF FeedInv, FieldsOK
<1>2. /\ n \in Nat
      /\ \A k \in 1..n : /\ found[k].start \in 0..Len(held)
                         /\ found[k].end \in 0..Len(held)
                         /\ found[k].start < found[k].end
  BY <1>1, FoundIsInside
<1>3. \A k \in 1..n : found[k].keyframe \in BOOLEAN
  <2>. DEFINE a == Ascending(CarrierStarts(held))
  <2>. SUFFICES ASSUME NEW k \in 1..n PROVE found[k].keyframe \in BOOLEAN
    OBVIOUS
  <2>1. found = [i \in 1..(Len(a) - 1) |-> [start |-> a[i], end |-> a[i + 1],
                                            keyframe |-> IsKeyframe(held, a[i], a[i + 1])]]
    BY Zenon DEF Complete
  <2>2. CASE Len(a) - 1 \in Nat
    <3>. HIDE DEF a, found
    <3>1. n = Len(a) - 1
      BY <2>1, <2>2
    <3>2. found[k].keyframe = IsKeyframe(held, a[k], a[k + 1])
      BY <2>1, <3>1
    <3>. QED  BY <3>2, KeyframeType, Zenon
  <2>3. CASE Len(a) - 1 \notin Nat
    <3>1. CarrierStarts(held) \in SUBSET (0..Len(held))
      BY <1>1, UnitStartsRange, Av1StartsRange DEF CarrierStarts
    <3>2. IsFiniteSet(CarrierStarts(held)) /\ CarrierStarts(held) \in SUBSET Nat
      <4>1. IsFiniteSet(0..Len(held))
        BY <1>1, FS_Interval
      <4>. HIDE DEF found
      <4>2. IsFiniteSet(CarrierStarts(held))
        BY <3>1, <4>1, FS_Subset
      <4>. QED  BY <3>1, <4>2, <1>1
    <3>3. Len(a) \in Nat
      BY <3>2, AscendingProperties
    <3>. HIDE DEF a, found
    <3>4. Len(a) = 0
      BY <2>3, <3>3
    <3>5. n = 0
      BY <2>1, <3>4
    <3>. QED  BY <3>5
  <2>. QED  BY <2>2, <2>3
<1>. HIDE DEF found
<1>4. \A k \in 1..n : /\ found[k].start \in 0..Len(held)
                      /\ found[k].end \in found[k].start..Len(held)
  BY <1>1, <1>2
<1>5. \A k \in 1..n : Slice(held, found[k].start, found[k].end) \in Seq(Byte)
  BY <1>4, SliceOfHeld
<1>6. new \in Seq(Returned) /\ Len(new) = n
  <2>1. \A k \in 1..n : new[k] \in Returned
    <3>. SUFFICES ASSUME NEW k \in 1..n PROVE new[k] \in Returned
      OBVIOUS
    <3>1. index + k - 1 \in Nat
      BY <1>1
    <3>2. new[k] = Carried(index + k - 1, Slice(held, found[k].start, found[k].end),
                           found[k].keyframe)
      BY Zenon
    <3>. DEFINE i == index + k - 1
                x == Slice(held, found[k].start, found[k].end)
                f == found[k].keyframe
    <3>3. i \in Nat /\ x \in Seq(Byte) /\ f \in BOOLEAN
      BY <3>1, <1>3, <1>5
    <3>4. new[k] = Carried(i, x, f)
      BY <3>2
    <3>. HIDE DEF i, x, f, new
    <3>5. Carried(i, x, f) \in Returned
      BY <3>3, CarriedIsReturned
    <3>. QED  BY <3>4, <3>5
  <2>2. new \in [1..n -> Returned]
    <3>. DEFINE f == new
    <3>1. \A k \in 1..n : f[k] \in Returned
      BY <2>1
    <3>2. DOMAIN f = 1..n /\ f = [k \in 1..n |-> f[k]]
      BY Zenon
    <3>. HIDE DEF f, new, n
    <3>3. f \in [1..n -> Returned]
      BY <3>1, <3>2
    <3>. QED  BY <3>3 DEF f
  <2>. HIDE DEF new, n
  <2>. QED  BY <1>2, <2>2
<1>7. \A k \in 1..n : new[k].index = index + k - 1
  <2>. HIDE DEF n
  <2>. QED  BY DEF Carried
<1>. QED  BY <1>6, <1>7 DEF found

\* What one round of cut hands over lies behind everything handed over before
\* it, ahead of the bytes that stay, and is made of the bytes it covers.
LEMMA HandOverKeepsSpans ==
    ASSUME FeedInv, SpanInv, HandOver, delivered' = delivered, stream' = stream,
           Base' \in Nat, Base + PendingAt(held) <= Base', call' # "idle"
    PROVE  SpanInv'
<1>. DEFINE found == Complete(held)
            n == Len(found)
            new == [k \in 1..n |->
                      Carried(index + k - 1, Slice(held, found[k].start, found[k].end),
                              found[k].keyframe)]
            t == [k \in 1..n |-> [from |-> Base + found[k].start, to |-> Base + found[k].end]]
<1>1. /\ held \in Seq(Byte) /\ Len(held) \in Nat /\ index \in Nat
      /\ Base \in Nat
  BY SliceOfHeld, StreamType DEF FeedInv, FieldsOK
<1>2. /\ n \in Nat
      /\ \A k \in 1..n :
            /\ found[k].start \in 0..Len(held) /\ found[k].end \in 0..Len(held)
            /\ found[k].start < found[k].end /\ found[k].end <= PendingAt(held)
            /\ \A j \in 1..(k - 1) : found[j].end <= found[k].start
  BY <1>1, FoundIsInside
<1>3. new \in Seq(Returned) /\ Len(new) = n
  BY NewCarriers
<1>. HIDE DEF found
<1>4. \A k \in 1..n : /\ found[k].start \in 0..Len(held)
                      /\ found[k].end \in found[k].start..Len(held)
  BY <1>1, <1>2
<1>5. \A k \in 1..n :
         /\ Slice(held, found[k].start, found[k].end) \in Seq(Byte)
         /\ Slice(held, found[k].start, found[k].end)
              = Slice(stream, Base + found[k].start, Base + found[k].end)
  BY <1>4, SliceOfHeld
<1>6. t \in Seq(Span) /\ Len(t) = n /\ \A k \in 1..n : t[k].from = Base + found[k].start
                                                       /\ t[k].to = Base + found[k].end
  <2>1. \A k \in 1..n : [from |-> Base + found[k].start, to |-> Base + found[k].end] \in Span
    BY <1>1, <1>4 DEF Span
  <2>. HIDE DEF n, Base
  <2>. QED  BY <1>2, <2>1
<1>7. \A k \in 1..n : new[k].payloads = Payloads(Slice(held, found[k].start, found[k].end))
  <2>. HIDE DEF n
  <2>. QED  BY DEF Carried
<1>8. out' = out \o new /\ spans' = spans \o t
  BY Zenon DEF HandOver, found
<1>. HIDE DEF new, t, n, Base
<1>9. InOrder(t, Base') /\ \A k \in 1..Len(t) : Base <= t[k].from
  <2>1. PendingAt(held) \in Nat
    BY <1>1, PendingRange
  <2>. SUFFICES ASSUME NEW k \in 1..n
                PROVE  /\ t[k].from < t[k].to /\ t[k].to <= Base'
                       /\ \A j \in 1..(k - 1) : t[j].to <= t[k].from
                       /\ Base <= t[k].from
    BY <1>6 DEF InOrder
  <2>2. t[k].from = Base + found[k].start /\ t[k].to = Base + found[k].end
    BY <1>6
  <2>3. /\ found[k].start \in Nat /\ found[k].end \in Nat
        /\ found[k].start < found[k].end /\ found[k].end <= PendingAt(held)
    BY <1>1, <1>2, <1>4
  <2>4. ASSUME NEW j \in 1..(k - 1)
        PROVE  t[j].to <= t[k].from
    <3>1. j \in 1..n
      BY <1>2
    <3>2. t[j].to = Base + found[j].end /\ found[j].end \in Nat /\ found[j].end <= found[k].start
      BY <3>1, <1>1, <1>2, <1>6, SMTT(30)
    <3>. QED  BY <3>2, <2>2, <2>3, <1>1, SMTT(30)
  <2>. QED  BY <1>1, <2>1, <2>2, <2>3, <2>4
<1>10. spans' \in Seq(Span) /\ InOrder(spans', Base')
  <2>1. PendingAt(held) \in Nat
    BY <1>1, PendingRange
  <2>2. Base <= Base'
    BY <1>1, <2>1
  <2>. QED  BY <1>1, <1>6, <1>8, <1>9, <2>2, InOrderConcat, ConcatProperties
            DEF SpanInv, SpansDisjoint
<1>11. delivered' \in Seq(Returned) /\ out' \in Seq(Returned) /\ Len(out') = Len(out) + n
  BY <1>3, <1>8, ConcatProperties DEF SpanInv
<1>12. Len(spans') = Len(delivered') + Len(out')
  <2>1. Len(spans') = Len(spans) + n /\ Len(spans) = Len(delivered) + Len(out)
    BY <1>6, <1>8, ConcatProperties DEF SpanInv, SpansDisjoint
  <2>2. Len(delivered) \in Nat /\ Len(out) \in Nat
    BY LenProperties DEF SpanInv
  <2>. QED  BY <1>2, <1>11, <2>1, <2>2
<1>13. MadeOf(stream', delivered' \o out', spans')
  <2>. DEFINE all == delivered \o out
  <2>1. all \in Seq(Returned) /\ Len(all) = Len(spans)
    BY ConcatProperties DEF SpanInv, SpansDisjoint
  <2>2. delivered \o (out \o new) = all \o new
    <3>1. delivered \in Seq(Returned) /\ out \in Seq(Returned) /\ new \in Seq(Returned)
      BY <1>3 DEF SpanInv
    <3>2. (delivered \o out) \o new = delivered \o (out \o new)
      BY <3>1, ConcatAssociative
    <3>. QED  BY <3>2
  <2>3. MadeOf(stream, new, t)
    BY <1>5, <1>3, <1>6, <1>7 DEF MadeOf
  <2>4. MadeOf(stream, all, spans) /\ spans \in Seq(Span)
    BY DEF SpanInv
  <2>. HIDE DEF all
  <2>5. MadeOf(stream, all \o new, spans \o t)
    BY <2>1, <2>3, <2>4, <1>3, <1>6, MadeOfConcat
  <2>. QED  BY <2>2, <2>5, <1>8
<1>. QED  BY <1>10, <1>11, <1>12, <1>13 DEF SpanInv, SpansDisjoint

-----------------------------------------------------------------------------
LEMMA SpanInit == Init => SpanInv
<1>. SUFFICES ASSUME Init PROVE SpanInv
  OBVIOUS
<1>1. spans = << >> /\ out = << >> /\ delivered = << >>
  BY DEF Init
<1>2. Len(<< >>) = 0 /\ << >> \in Seq(Span) /\ << >> \in Seq(Returned)
  BY EmptySeq
<1>3. delivered \o out = << >>
  BY <1>1, <1>2, ConcatEmptySeq
<1>. QED  BY <1>1, <1>2, <1>3 DEF SpanInv, SpansDisjoint, InOrder, MadeOf

\* A step that moves what is in `out` to `delivered`, or moves nothing, and
\* only ever lets go of bytes.
LEMMA ReturnKeepsSpans ==
    ASSUME SpanInv, Base \in Nat, Base' \in Nat, Base <= Base', spans' = spans,
           stream' = stream, out' \in Seq(Returned), delivered' \in Seq(Returned),
           delivered' \o out' = delivered \o out, call' = "idle" => out' = << >>
    PROVE  SpanInv'
<1>. HIDE DEF Base
<1>1. InOrder(spans, Base')
  BY InOrderLater DEF SpanInv, SpansDisjoint
<1>2. Len(delivered') + Len(out') = Len(delivered) + Len(out)
  BY ConcatProperties DEF SpanInv
<1>. QED  BY <1>1, <1>2 DEF SpanInv, SpansDisjoint

LEMMA SpanStep == FeedInv /\ FeedInv' /\ SpanInv /\ [Next]_vars => SpanInv'
<1>. SUFFICES ASSUME FeedInv, FeedInv', SpanInv, [Next]_vars PROVE SpanInv'
  OBVIOUS
<1>1. /\ Len(stream) \in Nat /\ Len(held) \in Nat /\ held \in Seq(Byte) /\ index \in Nat
      /\ fed \in Nat /\ fed <= Len(stream) /\ Chunks \subseteq Nat
      /\ Base \in Nat /\ Base + Len(held) = fed
  BY StreamType, SliceOfHeld, FeedAssumption DEF FeedInv, FieldsOK
<1>2. fed' \in Nat /\ Len(held') \in Nat /\ Len(held') <= fed'
  <2>1. fed' \in 0..Len(stream') /\ held' \in Seq(Byte) /\ Len(held') <= fed'
    BY DEF FeedInv, FieldsOK, HeldIsTail
  <2>2. fed' \in Nat
    BY <2>1
  <2>3. Len(held') \in Nat
    BY <2>1, LenProperties
  <2>. QED  BY <2>1, <2>2, <2>3
<1>3. Base' = fed' - Len(held') /\ Base' \in Nat
  BY <1>2 DEF Base
<1>4. /\ delivered \in Seq(Returned) /\ out \in Seq(Returned) /\ spans \in Seq(Span)
      /\ delivered \o << >> = delivered
  BY ConcatEmptySeq DEF SpanInv
<1>. HIDE DEF Base
<1>5. ASSUME NEW n \in Chunks, Push(n)
      PROVE  SpanInv'
  <2>1. n \in Nat /\ Len(held') = Len(held) + n /\ fed' = fed + n
    BY <1>1, <1>5, PushKeepsTail DEF FeedInv, Push
  <2>2. Base' = Base
    BY <2>1, <1>1, <1>3
  <2>3. out = << >> /\ out' = << >> /\ call' = "cut"
    BY <1>5 DEF SpanInv, Push
  <2>. QED  BY <1>1, <1>3, <1>4, <1>5, <2>2, <2>3, ReturnKeepsSpans DEF Push
<1>6. CASE Drain
  <2>1. PendingAt(held) \in 0..Len(held)
    BY <1>1, PendingRange
  <2>2. Len(held') = Len(held) - PendingAt(held) /\ fed' = fed
    BY <1>6, <2>1, DrainKeepsTail DEF FeedInv, Drain
  <2>3. Base + PendingAt(held) <= Base'
    BY <1>1, <1>3, <2>1, <2>2
  <2>. QED  BY <1>3, <1>6, <2>3, HandOverKeepsSpans DEF Drain
<1>7. CASE CutReturns
  <2>1. Base + PendingAt(held) <= Base'
    <3>1. PendingAt(held) = 0 /\ fed' = fed /\ Len(held') = Len(held)
      BY <1>7 DEF CutReturns
    <3>. QED  BY <1>1, <1>3, <3>1
  <2>. QED  BY <1>3, <1>7, <2>1, HandOverKeepsSpans DEF CutReturns
<1>8. CASE CutFails
  <2>1. Base' = fed /\ Base <= Base' /\ stream' = stream /\ delivered' = delivered
    <3>1. fed' = fed /\ Len(held') = 0
      BY <1>8, EmptySeq DEF CutFails
    <3>. QED  BY <1>1, <1>3, <1>8, <3>1 DEF CutFails
  <2>. DEFINE n == Len(delivered)
  <2>2. n \in 0..Len(spans) /\ InOrder(spans, Base)
    <3>1. Len(spans) = n + Len(out) /\ n \in Nat /\ Len(out) \in Nat
      BY <1>4, LenProperties DEF SpanInv, SpansDisjoint
    <3>. QED  BY <3>1 DEF SpanInv, SpansDisjoint
  <2>3. spans' = SubSeq(spans, 1, n) /\ out' = << >> /\ call' = "settle"
    BY <1>8 DEF CutFails
  <2>. HIDE DEF n
  <2>4. /\ spans' \in Seq(Span) /\ Len(spans') = n /\ \A k \in 1..n : spans'[k] = spans[k]
        /\ InOrder(spans', Base')
    BY <1>1, <1>3, <1>4, <2>1, <2>2, <2>3, InOrderPrefix
  <2>5. out' \in Seq(Returned) /\ Len(out') = 0 /\ delivered' \o out' = delivered
    BY <1>4, <2>1, <2>3, EmptySeq
  <2>6. MadeOf(stream', delivered' \o out', spans')
    <3>1. MadeOf(stream, delivered \o out, spans)
      BY DEF SpanInv
    <3>2. /\ Len(delivered \o out) = n + Len(out) /\ n \in Nat /\ Len(out) \in Nat
          /\ \A k \in 1..n : (delivered \o out)[k] = delivered[k]
      BY <1>4, ConcatProperties, LenProperties DEF n
    <3>3. \A k \in 1..n : delivered[k].payloads
                            = Payloads(Slice(stream, spans[k].from, spans[k].to))
      BY <3>1, <3>2 DEF MadeOf
    <3>. QED  BY <3>3, <2>1, <2>4, <2>5 DEF MadeOf, n
  <2>7. Len(spans') = Len(delivered') + Len(out')
    BY <1>4, <2>1, <2>4, <2>5, LenProperties DEF n
  <2>. QED  BY <1>4, <2>1, <2>3, <2>4, <2>5, <2>6, <2>7 DEF SpanInv, SpansDisjoint
<1>9. ASSUME Return, fed' = fed, Len(held') <= Len(held)
      PROVE  SpanInv'
  <2>1. /\ delivered' = delivered \o out /\ out' = << >> /\ spans' = spans
        /\ stream' = stream
    BY <1>9 DEF Return
  <2>2. delivered' \in Seq(Returned) /\ out' \in Seq(Returned)
        /\ delivered' \o out' = delivered \o out
    BY <1>4, <2>1, ConcatProperties, ConcatEmptySeq, EmptySeq
  <2>3. Base <= Base'
    BY <1>1, <1>2, <1>3, <1>9
  <2>. QED  BY <1>1, <1>3, <2>1, <2>2, <2>3, ReturnKeepsSpans
<1>10. CASE WithinLimit
  BY <1>1, <1>9, <1>10 DEF WithinLimit, Return
<1>11. CASE OverLimit
  <2>1. Len(held) - 3 \in 0..Len(held)
    BY <1>1, <1>11, LimitType DEF OverLimit
  <2>2. fed' = fed /\ stream' = stream
    BY <1>11 DEF OverLimit, Return
  <2>3. Len(held') <= Len(held)
    <3>1. Len(held') = Len(held) - (Len(held) - 3)
      BY <1>11, <2>1, <2>2, DrainKeepsTail DEF FeedInv, OverLimit
    <3>. QED  BY <1>1, <2>1, <3>1
  <2>. QED  BY <1>9, <1>11, <2>2, <2>3 DEF OverLimit
<1>12. CASE Finish /\ held = << >>
  <2>1. Base' = Base
    BY <1>1, <1>3, <1>12 DEF Finish
  <2>. QED  BY <1>1, <1>3, <1>4, <1>12, <2>1, ReturnKeepsSpans DEF Finish, SpanInv
<1>13. CASE Finish /\ held # << >>
  <2>. DEFINE c == Carried(index, held, FinishKeyframe(held))
              d == [from |-> Base, to |-> fed]
  <2>1. /\ delivered' = Append(delivered, c) /\ spans' = Append(spans, d) /\ held' = << >>
        /\ fed' = fed /\ out' = out /\ out = << >> /\ stream' = stream /\ call' = "idle"
    <3>1. call = "idle"
      BY <1>13 DEF Finish
    <3>. QED  BY <1>13, <3>1 DEF Finish, SpanInv
  <2>2. c \in Returned /\ c.payloads = Payloads(held)
    BY <1>1, FinishKeyframeType, CarriedIsReturned DEF Carried
  <2>3. d \in Span /\ d.from = Base /\ d.to = fed
    BY <1>1 DEF Span
  <2>4. Base < fed
    BY <1>1, <1>13, EmptySeq
  <2>5. Base' = fed
    BY <1>1, <1>3, <2>1, EmptySeq
  <2>6. held = Slice(stream, Base, fed)
    BY <1>1 DEF FeedInv, HeldIsTail, Slice
  <2>. HIDE DEF c, d
  <2>7. <<c>> \in Seq(Returned) /\ <<d>> \in Seq(Span) /\ Len(<<c>>) = 1 /\ Len(<<d>>) = 1
        /\ <<c>>[1] = c /\ <<d>>[1] = d
    BY <2>2, <2>3
  <2>8. delivered' = delivered \o <<c>> /\ spans' = spans \o <<d>>
    BY <1>4, <2>1, <2>2, <2>3, AppendIsConcat
  <2>9. InOrder(<<d>>, fed) /\ \A k \in 1..Len(<<d>>) : Base <= <<d>>[k].from
    BY <1>1, <2>3, <2>4, <2>7 DEF InOrder
  <2>10. spans' \in Seq(Span) /\ InOrder(spans', fed)
    <3>. DEFINE t == <<d>>
    <3>1. t \in Seq(Span) /\ InOrder(t, fed) /\ \A k \in 1..Len(t) : Base <= t[k].from
      BY <2>7, <2>9
    <3>2. InOrder(spans, Base) /\ Base <= fed /\ spans' = spans \o t
      BY <1>1, <2>4, <2>8 DEF SpanInv, SpansDisjoint
    <3>. HIDE DEF t
    <3>. QED  BY <1>1, <1>4, <3>1, <3>2, InOrderConcat, ConcatProperties
  <2>11. delivered \o out = delivered /\ Len(spans) = Len(delivered) /\ Len(delivered) \in Nat
    <3>1. Len(spans) = Len(delivered) + 0 /\ Len(delivered) \in Nat
      BY <1>4, <2>1, EmptySeq, LenProperties DEF SpanInv, SpansDisjoint
    <3>. QED  BY <1>4, <2>1, <3>1
  <2>12. MadeOf(stream, delivered', spans')
    <3>1. MadeOf(stream, delivered, spans)
      BY <2>11 DEF SpanInv
    <3>2. MadeOf(stream, <<c>>, <<d>>)
      BY <2>2, <2>3, <2>6, <2>7 DEF MadeOf
    <3>. QED  BY <1>4, <2>7, <2>8, <2>11, <3>1, <3>2, MadeOfConcat
  <2>13. delivered' \in Seq(Returned) /\ out' \in Seq(Returned) /\ delivered' \o out' = delivered'
    BY <1>4, <2>1, <2>7, <2>8, ConcatProperties, ConcatEmptySeq
  <2>14. Len(spans') = Len(delivered') + Len(out')
    <3>1. Len(spans') = Len(spans) + 1 /\ Len(delivered') = Len(delivered) + 1
      BY <1>4, <2>7, <2>8, ConcatProperties
    <3>. QED  BY <2>1, <2>11, <3>1, EmptySeq
  <2>. QED  BY <2>1, <2>5, <2>10, <2>12, <2>13, <2>14 DEF SpanInv, SpansDisjoint
<1>14. CASE UNCHANGED vars
  <2>1. Base' = Base
    BY <1>1, <1>3, <1>14 DEF vars
  <2>. QED  BY <1>1, <1>3, <1>4, <1>14, <2>1, ReturnKeepsSpans DEF vars, SpanInv
<1>. QED
  BY <1>5, <1>6, <1>7, <1>8, <1>10, <1>11, <1>12, <1>13, <1>14 DEF Next, PushSteps, Done

THEOREM SpanInvariant == Spec => []SpanInv
<1>. QED  BY FeedInvariant, SpanInit, SpanStep, PTL DEF Spec

\* No byte rides on two carriers and none that rode on one is still held, for
\* every stream, chunking and limit: through drains, errors and drops alike.
THEOREM FeedSpansDisjoint == Spec => []SpansDisjoint
<1>1. SpanInv => SpansDisjoint
  BY DEF SpanInv
<1>. QED  BY <1>1, SpanInvariant, PTL

\* Every carrier that comes out was made of one run of the stream's own bytes:
\* letting go of the middle of a carrier never joins its two ends.
THEOREM FeedCarriersAreSpans == Spec => []CarriersAreSpans
<1>1. SpanInv => CarriersAreSpans
  BY DEF SpanInv, CarriersAreSpans, MadeOf
<1>. QED  BY <1>1, SpanInvariant, PTL

-----------------------------------------------------------------------------
Numbered(all) == \A k \in 1..Len(all) : all[k].index = k - 1

LEMMA NumberedConcat ==
    ASSUME NEW all \in Seq(Returned), NEW new \in Seq(Returned), Numbered(all),
           \A k \in 1..Len(new) : new[k].index = Len(all) + k - 1
    PROVE  Len(all \o new) = Len(all) + Len(new) /\ Numbered(all \o new)
<1>. DEFINE m == Len(all)
            n == Len(new)
            a == all \o new
<1>1. m \in Nat /\ n \in Nat /\ Len(a) = m + n
  BY LenProperties, ConcatProperties
<1>2. \A k \in 1..(m + n) : a[k] = IF k <= m THEN all[k] ELSE new[k - m]
  BY ConcatProperties
<1>. HIDE DEF a, m, n
<1>3. ASSUME NEW k \in 1..(m + n) PROVE a[k].index = k - 1
  <2>1. CASE k <= m
    <3>1. k \in 1..m /\ a[k] = all[k]
      BY <1>1, <1>2, <2>1
    <3>. QED  BY <3>1 DEF Numbered, m
  <2>2. CASE k > m
    <3>1. k - m \in 1..n /\ a[k] = new[k - m]
      BY <1>1, <1>2, <2>2
    <3>2. new[k - m].index = m + (k - m) - 1
      BY <3>1 DEF n, m
    <3>. QED  BY <1>1, <3>1, <3>2
  <2>. QED  BY <1>1, <2>1, <2>2
<1>. QED  BY <1>1, <1>3 DEF Numbered, a, m, n

\* In a stream of NAL units boundaries is never an Err, so no carrier that was
\* numbered is thrown away. (In a stream of OBUs it takes OneDrainIsEnough.)
LEMMA NalNeverFails == Kind = "Nal" => ~Fails(held)
  BY DEF Fails

LEMMA IndexStep ==
    ASSUME call = "cut" /\ Fails(held) => out = << >>,
           FeedInv, SpanInv, SpanInv', CountIsReturned, [Next]_vars
    PROVE  CountIsReturned'
<1>. DEFINE all == delivered \o out
<1>1. /\ delivered \in Seq(Returned) /\ out \in Seq(Returned) /\ all \in Seq(Returned)
      /\ Len(all) \in Nat /\ delivered \o << >> = delivered
  BY ConcatProperties, ConcatEmptySeq, LenProperties DEF SpanInv
<1>2. index = Len(all) /\ Numbered(all)
  BY DEF CountIsReturned, Numbered
<1>3. ASSUME index' = index, delivered' \o out' = all
      PROVE  CountIsReturned'
  BY <1>2, <1>3 DEF CountIsReturned, Numbered
<1>4. ASSUME HandOver, delivered' = delivered
      PROVE  CountIsReturned'
  <2>. DEFINE found == Complete(held)
              n == Len(found)
              new == [k \in 1..n |->
                        Carried(index + k - 1, Slice(held, found[k].start, found[k].end),
                                found[k].keyframe)]
  <2>1. /\ new \in Seq(Returned) /\ Len(new) = n
        /\ \A k \in 1..n : new[k].index = index + k - 1
    BY NewCarriers
  <2>2. out' = out \o new /\ index' = index + n
    BY <1>4, Zenon DEF HandOver
  <2>. HIDE DEF new, n
  <2>3. delivered' \o out' = all \o new
    <3>1. (delivered \o out) \o new = delivered \o (out \o new)
      <4>1. delivered \in Seq(Returned) /\ out \in Seq(Returned) /\ new \in Seq(Returned)
        BY <1>1, <2>1
      <4>. HIDE DEF all, found
      <4>. QED  BY <4>1, ConcatAssociative, SMTT(30)
    <3>. HIDE DEF found
    <3>. QED  BY <1>4, <2>2, <3>1, Zenon
  <2>. HIDE DEF all, found
  <2>4. \A k \in 1..Len(new) : new[k].index = Len(all) + k - 1
    BY <1>2, <2>1
  <2>5. Len(all \o new) = Len(all) + Len(new) /\ Numbered(all \o new)
    <3>1. all \in Seq(Returned) /\ new \in Seq(Returned) /\ Numbered(all)
      BY <1>1, <1>2, <2>1
    <3>. QED  BY <3>1, <2>4, NumberedConcat, Zenon
  <2>6. index' = Len(all \o new)
    BY <1>2, <2>1, <2>2, <2>5
  <2>. QED  BY <2>3, <2>5, <2>6 DEF CountIsReturned, Numbered
<1>5. ASSUME NEW n \in Chunks, Push(n)
      PROVE  CountIsReturned'
  BY <1>1, <1>3, <1>5 DEF Push, SpanInv
<1>6. CASE Drain
  BY <1>4, <1>6 DEF Drain
<1>7. CASE CutReturns
  BY <1>4, <1>7 DEF CutReturns
<1>8. CASE CutFails
  <2>1. out = << >> /\ out' = << >> /\ delivered' = delivered /\ index' = index
    BY <1>8 DEF CutFails
  <2>. QED  BY <1>3, <2>1
<1>9. ASSUME Return PROVE CountIsReturned'
  <2>1. delivered' = all /\ out' = << >> /\ index' = index
    BY <1>9 DEF Return
  <2>2. delivered' \o out' = all
    BY <1>1, <2>1, ConcatEmptySeq
  <2>. QED  BY <1>3, <2>1, <2>2
<1>10. CASE Finish
  <2>1. CASE held = << >>
    BY <1>3, <1>10, <2>1 DEF Finish
  <2>2. CASE held # << >>
    <3>. DEFINE c == Carried(index, held, FinishKeyframe(held))
    <3>1. delivered' = Append(delivered, c) /\ out' = << >> /\ out = << >> /\ index' = index + 1
      BY <1>10, <2>2 DEF Finish, SpanInv
    <3>2. c \in Returned /\ c.index = index
      <4>1. held \in Seq(Byte) /\ index \in Nat
        BY DEF FeedInv, FieldsOK
      <4>. QED  BY <4>1, FinishKeyframeType, CarriedIsReturned DEF Carried
    <3>3. all = delivered
      BY <1>1, <3>1
    <3>. HIDE DEF c, all
    <3>4. <<c>> \in Seq(Returned) /\ Len(<<c>>) = 1 /\ <<c>>[1] = c
      BY <3>2
    <3>5. delivered' = all \o <<c>> /\ delivered' \in Seq(Returned)
      BY <1>1, <3>1, <3>2, <3>3, <3>4, AppendIsConcat, ConcatProperties
    <3>6. \A k \in 1..Len(<<c>>) : <<c>>[k].index = Len(all) + k - 1
      BY <1>1, <1>2, <3>2, <3>4
    <3>7. Len(all \o <<c>>) = Len(all) + 1 /\ Numbered(all \o <<c>>)
      BY <1>1, <1>2, <3>4, <3>6, NumberedConcat
    <3>8. delivered' \o out' = all \o <<c>>
      BY <3>1, <3>5, ConcatEmptySeq
    <3>. QED  BY <1>2, <3>1, <3>7, <3>8 DEF CountIsReturned, Numbered
  <2>. QED  BY <2>1, <2>2
<1>11. CASE UNCHANGED vars
  BY <1>3, <1>11 DEF vars
<1>. QED
  BY <1>5, <1>6, <1>7, <1>8, <1>9, <1>10, <1>11
  DEF Next, PushSteps, WithinLimit, OverLimit, Done

\* In a stream of NAL units the carriers that come out are numbered from zero
\* without a gap and count() is how many came out, whatever the limit dropped.
THEOREM NalCountIsReturned ==
    ASSUME Kind = "Nal"
    PROVE  Spec => []CountIsReturned
<1>1. Init => CountIsReturned
  <2>. SUFFICES ASSUME Init PROVE CountIsReturned
    OBVIOUS
  <2>1. delivered = << >> /\ out = << >> /\ index = 0
    BY DEF Init
  <2>2. << >> \o << >> = << >> /\ Len(<< >>) = 0
    BY EmptySeq, ConcatEmptySeq
  <2>. QED  BY <2>1, <2>2 DEF CountIsReturned
<1>2. FeedInv /\ SpanInv /\ SpanInv' /\ CountIsReturned /\ [Next]_vars => CountIsReturned'
  BY IndexStep, NalNeverFails
<1>. QED  BY <1>1, <1>2, FeedInvariant, SpanInvariant, PTL DEF Spec

-----------------------------------------------------------------------------
\* Every step of a push brings it nearer its end: cut drains something each
\* time round its loop, so with every step of it taken a push returns.
THEOREM FeedStepsShrink == Spec => StepsShrink
<1>1. FeedInv /\ [Next]_vars => [PushSteps => Rank' \in Nat /\ Rank' < Rank]_vars
  <2>. SUFFICES ASSUME FeedInv, PushSteps
                PROVE  Rank' \in Nat /\ Rank' < Rank
    BY Zenon
  <2>1. held \in Seq(Byte) /\ Len(held) \in Nat
    BY StreamType DEF FeedInv, FieldsOK
  <2>2. CASE Drain
    <3>1. PendingAt(held) \in 1..Len(held)
      BY <2>1, <2>2, PendingRange DEF Drain
    <3>2. Len(held') = Len(held) - PendingAt(held)
      BY <2>2, <3>1, DrainKeepsTail DEF FeedInv, Drain
    <3>3. call = "cut" /\ call' = "cut"
      BY <2>2 DEF Drain
    <3>4. Rank = 2 + Len(held) /\ Rank' = 2 + Len(held')
      BY <3>3 DEF Rank
    <3>. QED  BY <2>1, <3>1, <3>2, <3>4
  <2>3. CASE CutReturns \/ CutFails
    <3>1. call = "cut" /\ call' = "settle"
      BY <2>3 DEF CutReturns, CutFails
    <3>2. Rank = 2 + Len(held) /\ Rank' = 1
      BY <3>1 DEF Rank
    <3>. QED  BY <2>1, <3>2
  <2>4. CASE WithinLimit \/ OverLimit
    <3>1. call = "settle" /\ call' = "idle"
      BY <2>4 DEF WithinLimit, OverLimit, Return
    <3>2. Rank = 1 /\ Rank' = 0
      BY <3>1 DEF Rank
    <3>. QED  BY <3>2
  <2>. QED  BY <2>2, <2>3, <2>4 DEF PushSteps
<1>. QED  BY <1>1, FeedInvariant, PTL DEF Spec, StepsShrink

-----------------------------------------------------------------------------
\* A carrier was cut where an access unit of the stream ends, whatever had been
\* dropped before it; only the one finish returns may end with the stream.
EndsInv ==
    /\ over => call = "idle"
    /\ \A k \in 1..Len(spans) :
          \/ spans[k].to \in UnitStarts(stream)
          \/ over /\ k = Len(spans) /\ spans[k].to = Len(stream)

-----------------------------------------------------------------------------
\* boundaries and cut, read off the access units of what is held.
LEMMA NalStarts ==
    ASSUME Kind = "Nal", NEW b \in Seq(Byte)
    PROVE  /\ CarrierStarts(b) = UnitStarts(b)
           /\ Starts(b) = [k \in 1..Units(b) |-> Pad(b, k)] /\ Len(Starts(b)) = Units(b)
           /\ ToSet(Starts(b)) = UnitStarts(b)
           /\ Ascending(CarrierStarts(b)) = [k \in 1..Units(b) |-> Pad(b, k)]
<1>1. CarrierStarts(b) = UnitStarts(b)
  BY DEF CarrierStarts
<1>2. Starts(b) = Ascending(UnitStarts(b))
  BY DEF Starts
<1>3. /\ Ascending(UnitStarts(b)) = [k \in 1..Units(b) |-> Pad(b, k)]
      /\ \A x : x \in UnitStarts(b) <=> \E k \in 1..Units(b) : x = Pad(b, k)
  BY PadsAscend
<1>4. Units(b) \in Nat
  BY CodesOfUnits
<1>5. Len([k \in 1..Units(b) |-> Pad(b, k)]) = Units(b)
  BY <1>4
<1>6. ToSet([k \in 1..Units(b) |-> Pad(b, k)]) = UnitStarts(b)
  <2>1. ToSet([k \in 1..Units(b) |-> Pad(b, k)]) = {Pad(b, k) : k \in 1..Units(b)}
    BY DEF ToSet
  <2>2. \A x : x \in {Pad(b, k) : k \in 1..Units(b)} <=> \E k \in 1..Units(b) : x = Pad(b, k)
    OBVIOUS
  <2>. QED  BY <1>3, <2>1, <2>2
<1>. QED  BY <1>1, <1>2, <1>3, <1>5, <1>6

LEMMA NalPending ==
    ASSUME Kind = "Nal", NEW b \in Seq(Byte)
    PROVE  PendingAt(b) = IF Units(b) = 0 THEN 0 ELSE Pad(b, Units(b))
<1>. DEFINE S == UnitStarts(b)
            n == Units(b)
<1>1. CarrierStarts(b) = S
  BY NalStarts
<1>2. /\ n \in Nat
      /\ \A k \in 1..n : Pad(b, k) \in Nat
      /\ \A i, j \in 1..n : i < j => Pad(b, i) < Pad(b, j)
      /\ \A x : x \in S <=> \E k \in 1..n : x = Pad(b, k)
  BY CodesOfUnits, PadsAscend
<1>3. S \in SUBSET (0..Len(b)) /\ Len(b) \in Nat
  BY UnitStartsRange, LenProperties
<1>. HIDE DEF S, n
<1>4. CASE n = 0
  <2>1. S = {}
    BY <1>2, <1>4
  <2>. QED  BY <1>1, <1>4, <2>1 DEF PendingAt, n
<1>5. CASE n # 0
  <2>1. n \in 1..n /\ Pad(b, n) \in S
    BY <1>2, <1>5
  <2>2. Max(S) \in S /\ \A x \in S : x <= Max(S)
    BY <1>3, <2>1, MaxExists
  <2>3. PICK k \in 1..n : Max(S) = Pad(b, k)
    BY <1>2, <2>2
  <2>4. ~(k < n)
    <3>. SUFFICES ASSUME k < n PROVE FALSE
      OBVIOUS
    <3>1. Pad(b, k) < Pad(b, n) /\ Pad(b, n) <= Pad(b, k) /\ Pad(b, k) \in Nat
          /\ Pad(b, n) \in Nat
      BY <1>2, <2>1, <2>2, <2>3
    <3>. QED  BY <3>1
  <2>5. k = n
    BY <1>2, <2>4
  <2>6. S # {}
    BY <2>1
  <2>. QED  BY <1>1, <1>5, <2>3, <2>5, <2>6 DEF PendingAt, n
<1>. QED  BY <1>4, <1>5

\* Nothing is pending just when the only boundary, if any, is at the first byte.
LEMMA NothingPending ==
    ASSUME Kind = "Nal", NEW b \in Seq(Byte)
    PROVE  /\ Units(b) \in Nat
           /\ PendingAt(b) = 0 => Units(b) <= 1 /\ (Units(b) = 1 => Pad(b, 1) = 0)
           /\ Units(b) = 0 \/ (Units(b) = 1 /\ Pad(b, 1) = 0) => PendingAt(b) = 0
<1>1. /\ Units(b) \in Nat
      /\ \A k \in 1..Units(b) : Pad(b, k) \in Nat
      /\ \A i, j \in 1..Units(b) : i < j => Pad(b, i) < Pad(b, j)
  BY CodesOfUnits, PadsAscend
<1>2. PendingAt(b) = IF Units(b) = 0 THEN 0 ELSE Pad(b, Units(b))
  BY NalPending
<1>3. ASSUME PendingAt(b) = 0, Units(b) # 0
      PROVE  Units(b) = 1 /\ Pad(b, 1) = 0
  <2>1. 1 \in 1..Units(b) /\ Units(b) \in 1..Units(b)
    BY <1>1, <1>3
  <2>2. Pad(b, Units(b)) = 0
    BY <1>2, <1>3
  <2>3. ~(1 < Units(b))
    <3>. SUFFICES ASSUME 1 < Units(b) PROVE FALSE
      OBVIOUS
    <3>1. Pad(b, 1) < Pad(b, Units(b)) /\ Pad(b, 1) \in Nat
      BY <1>1, <2>1
    <3>. QED  BY <2>2, <3>1
  <2>4. Units(b) = 1
    BY <1>1, <1>3, <2>3
  <2>. QED  BY <2>2, <2>4
<1>. QED  BY <1>1, <1>2, <1>3

LEMMA NalKeyframe ==
    ASSUME Kind = "Nal", NEW b \in Seq(Byte), NEW k \in 1..Units(b), NEW end
    PROVE  IsKeyframe(b, Pad(b, k), end) = KeyIn(b, Codes(b)[k], UnitEnd(b, k))
<1>1. /\ DOMAIN AccessUnits(b) = 1..Units(b)
      /\ \A j \in 1..Units(b) :
            /\ AccessUnits(b)[j].start = Pad(b, j)
            /\ AccessUnits(b)[j].keyframe = KeyIn(b, Codes(b)[j], UnitEnd(b, j))
  BY AccessUnitsAre
<1>2. ASSUME NEW j \in 1..Units(b), Pad(b, j) = Pad(b, k) PROVE j = k
  <2>1. Pad(b, j) \in Nat /\ Pad(b, k) \in Nat /\ Units(b) \in Nat
    BY PadsAscend, CodesOfUnits
  <2>2. ~(j < k) /\ ~(k < j)
    BY <1>2, <2>1, PadsAscend
  <2>. QED  BY <2>1, <2>2
<1>. DEFINE key(j) == KeyIn(b, Codes(b)[j], UnitEnd(b, j))
<1>3. IsKeyframe(b, Pad(b, k), end) =
          \E u \in ToSet(AccessUnits(b)) : u.start = Pad(b, k) /\ u.keyframe
  BY DEF IsKeyframe
<1>4. ASSUME KeyIn(b, Codes(b)[k], UnitEnd(b, k))
      PROVE  \E u \in ToSet(AccessUnits(b)) : u.start = Pad(b, k) /\ u.keyframe
  <2>1. AccessUnits(b)[k] \in ToSet(AccessUnits(b))
    BY <1>1 DEF ToSet
  <2>. QED  BY <1>1, <1>4, <2>1
<1>5. ASSUME NEW u \in ToSet(AccessUnits(b)), u.start = Pad(b, k), u.keyframe
      PROVE  KeyIn(b, Codes(b)[k], UnitEnd(b, k))
  <2>1. PICK j \in 1..Units(b) : u = AccessUnits(b)[j]
    BY <1>1 DEF ToSet
  <2>2. j = k
    BY <1>1, <1>2, <1>5, <2>1
  <2>. QED  BY <1>1, <1>5, <2>1, <2>2
<1>. QED  BY <1>3, <1>4, <1>5 DEF KeyIn

LEMMA NalComplete ==
    ASSUME Kind = "Nal", NEW b \in Seq(Byte)
    PROVE  LET found == Complete(b)
           IN  /\ Units(b) \in Nat
               /\ Len(found) = IF Units(b) = 0 THEN 0 ELSE Units(b) - 1
               /\ \A k \in 1..Len(found) :
                     /\ k \in 1..Units(b) /\ k + 1 \in 1..Units(b) /\ k < Units(b)
                     /\ found[k].start = Pad(b, k) /\ found[k].end = Pad(b, k + 1)
                     /\ found[k].keyframe = KeyIn(b, Codes(b)[k], Pad(b, k + 1))
<1>. DEFINE s == Ascending(CarrierStarts(b))
            found == Complete(b)
            n == Units(b)
<1>1. n \in Nat /\ s = [k \in 1..n |-> Pad(b, k)]
  BY CodesOfUnits, NalStarts
<1>2. found = [k \in 1..(Len(s) - 1) |-> [start |-> s[k], end |-> s[k + 1],
                                         keyframe |-> IsKeyframe(b, s[k], s[k + 1])]]
  BY Zenon DEF Complete
<1>. HIDE DEF s, n, found
<1>3. Len(s) = n
  BY <1>1
<1>4. found = [k \in 1..(n - 1) |-> [start |-> s[k], end |-> s[k + 1],
                                     keyframe |-> IsKeyframe(b, s[k], s[k + 1])]]
  BY <1>2, <1>3
<1>5. Len(found) = IF n = 0 THEN 0 ELSE n - 1
  <2>1. CASE n = 0
    <3>1. 1..(n - 1) = {}
      BY <2>1
    <3>2. found = << >>
      BY <1>4, <3>1
    <3>. QED  BY <2>1, <3>2
  <2>2. CASE n # 0
    <3>1. n - 1 \in Nat
      BY <1>1, <2>2
    <3>. QED  BY <1>4, <2>2, <3>1
  <2>. QED  BY <2>1, <2>2
<1>6. ASSUME NEW k \in 1..Len(found)
      PROVE  /\ k \in 1..n /\ k + 1 \in 1..n /\ k < n
             /\ found[k].start = Pad(b, k) /\ found[k].end = Pad(b, k + 1)
             /\ found[k].keyframe = KeyIn(b, Codes(b)[k], Pad(b, k + 1))
  <2>1. k \in 1..(n - 1) /\ k \in 1..n /\ k + 1 \in 1..n /\ k < n
    <3>1. CASE n = 0
      BY <1>5, <3>1
    <3>2. CASE n # 0
      BY <1>1, <1>5, <3>2
    <3>. QED  BY <3>1, <3>2
  <2>2. s[k] = Pad(b, k) /\ s[k + 1] = Pad(b, k + 1)
    BY <1>1, <2>1
  <2>3. /\ found[k].start = s[k] /\ found[k].end = s[k + 1]
        /\ found[k].keyframe = IsKeyframe(b, s[k], s[k + 1])
    BY <1>4, <2>1
  <2>4. UnitEnd(b, k) = Pad(b, k + 1)
    BY <2>1 DEF UnitEnd, n
  <2>5. IsKeyframe(b, Pad(b, k), Pad(b, k + 1)) = KeyIn(b, Codes(b)[k], UnitEnd(b, k))
    BY <2>1, NalKeyframe DEF n
  <2>. QED  BY <2>1, <2>2, <2>3, <2>4, <2>5
<1>. QED  BY <1>1, <1>5, <1>6 DEF n, found

-----------------------------------------------------------------------------
\* Wherever the bytes held begin, a boundary found in them behind another is a
\* boundary of the stream.
LEMMA LaterStart ==
    ASSUME NEW b \in Seq(Byte), NEW hi \in 0..Len(b), NEW lo \in 0..hi,
           NEW k \in 2..Units(Slice(b, lo, hi))
    PROVE  /\ lo + Pad(Slice(b, lo, hi), k) \in UnitStarts(b)
           /\ Codes(Slice(b, lo, hi))[k] + lo \in Boundaries(b)
           /\ lo + Pad(Slice(b, lo, hi), k) = NalPad(b, Codes(Slice(b, lo, hi))[k] + lo)
<1>. DEFINE h == Slice(b, lo, hi)
            x == Codes(h)[1]
            y == Codes(h)[k]
            d == x + lo
            c == y + lo
<1>1. h \in Seq(Byte)
  BY SliceProperties
<1>. HIDE DEF h
<1>2. /\ x \in Boundaries(h) /\ y \in Boundaries(h) /\ x \in Nat /\ y \in Nat /\ x < y
      /\ y \in StartCodes(h) /\ x \in Typed(h)
  <2>1. Units(h) \in Nat /\ 1 \in 1..Units(h) /\ k \in 1..Units(h) /\ 1 < k
    BY <1>1, CodesOfUnits DEF h
  <2>2. x \in Boundaries(h) /\ y \in Boundaries(h) /\ x \in Nat /\ y \in Nat /\ x < y
        /\ y \in StartCodes(h)
    BY <1>1, <2>1, CodesOfUnits
  <2>. HIDE DEF x
  <2>. QED  BY <2>2, BoundaryIsTyped
<1>. HIDE DEF x, y
<1>3. d \in Int /\ c \in Int /\ d - lo = x /\ c - lo = y /\ d < c
  BY <1>2
<1>. HIDE DEF d, c
<1>4. d \in TypedIn(b, lo, hi)
  BY <1>2, <1>3, WindowSets DEF h
<1>5. c \in Boundaries(b) /\ c \in StartCodes(b) /\ c \in TypedIn(b, lo, hi) /\ lo <= NalPad(b, c)
  BY <1>2, <1>3, <1>4, LaterBoundary DEF h
<1>6. c + 3 <= hi
  BY <1>5, TypedInRange
<1>7. NalPad(h, y) = NalPad(b, c) - lo /\ NalPad(b, c) \in 0..c /\ c \in Nat
  BY <1>3, <1>5, <1>6, PadInSlice, PadRange, CodeRange DEF h
<1>8. lo + Pad(h, k) = NalPad(b, c)
  BY <1>7 DEF Pad, y
<1>9. NalPad(b, c) \in UnitStarts(b)
  BY <1>5 DEF UnitStarts
<1>. QED  BY <1>5, <1>8, <1>9 DEF c, y, h

\* The bytes held are the window of the stream from Base to fed.
LEMMA HeldIsWindow ==
    ASSUME FeedInv
    PROVE  /\ stream \in Seq(Byte) /\ held \in Seq(Byte)
           /\ fed \in 0..Len(stream) /\ Base \in 0..fed /\ Base \in Nat /\ fed \in Nat
           /\ Len(stream) \in Nat /\ Len(held) \in Nat /\ Base + Len(held) = fed
           /\ held = Slice(stream, Base, fed)
<1>1. /\ Len(stream) \in Nat /\ Len(held) \in Nat /\ stream \in Seq(Byte) /\ held \in Seq(Byte)
      /\ fed \in Nat /\ fed <= Len(stream)
  BY StreamType DEF FeedInv, FieldsOK
<1>2. Len(held) <= fed /\ held = SubSeq(stream, Base + 1, fed)
  BY DEF FeedInv, HeldIsTail
<1>3. Base \in 0..fed /\ Base + Len(held) = fed
  BY <1>1, <1>2 DEF Base
<1>. HIDE DEF Base
<1>. QED  BY <1>1, <1>2, <1>3 DEF Slice

\* The spans one round of cut adds.
LEMMA NalHandOver ==
    ASSUME Kind = "Nal", FeedInv, HandOver
    PROVE  LET found == Complete(held)
               n == Len(found)
               t == [k \in 1..n |-> [from |-> Base + Pad(held, k), to |-> Base + Pad(held, k + 1)]]
           IN  /\ n \in Nat
               /\ n = IF Units(held) = 0 THEN 0 ELSE Units(held) - 1
               /\ t \in Seq(Span) /\ spans' = spans \o t
<1>. DEFINE found == Complete(held)
            n == Len(found)
            t == [k \in 1..n |-> [from |-> Base + Pad(held, k), to |-> Base + Pad(held, k + 1)]]
<1>1. held \in Seq(Byte) /\ Base \in Nat
  BY HeldIsWindow
<1>2. /\ Units(held) \in Nat
      /\ n = IF Units(held) = 0 THEN 0 ELSE Units(held) - 1
      /\ \A k \in 1..n : /\ k \in 1..Units(held) /\ k + 1 \in 1..Units(held)
                         /\ found[k].start = Pad(held, k) /\ found[k].end = Pad(held, k + 1)
  BY <1>1, NalComplete
<1>3. \A k \in 1..n : Pad(held, k) \in Nat /\ Pad(held, k + 1) \in Nat
  BY <1>1, <1>2, PadsAscend
<1>4. spans' = spans \o [k \in 1..n |->
                           [from |-> Base + found[k].start, to |-> Base + found[k].end]]
  BY Zenon DEF HandOver
<1>. HIDE DEF n, found, Base
<1>5. n \in Nat
  BY <1>2
<1>6. [k \in 1..n |-> [from |-> Base + found[k].start, to |-> Base + found[k].end]] = t
  BY <1>2
<1>7. t \in Seq(Span)
  <2>1. \A k \in 1..n : [from |-> Base + Pad(held, k), to |-> Base + Pad(held, k + 1)] \in Span
    BY <1>1, <1>3 DEF Span
  <2>. QED  BY <1>5, <2>1
<1>. QED  BY <1>2, <1>4, <1>5, <1>6, <1>7 DEF n, found

LEMMA EndsStep ==
    ASSUME Kind = "Nal", FeedInv, SpanInv, EndsInv, [Next]_vars
    PROVE  EndsInv'
<1>. DEFINE ends == UnitStarts(stream)
<1>1. spans \in Seq(Span) /\ Len(spans) \in Nat
  BY LenProperties DEF SpanInv
<1>2. ASSUME UNCHANGED <<stream, over, spans>>, call' = "idle" \/ ~over
      PROVE  EndsInv'
  BY <1>2 DEF EndsInv
<1>3. ASSUME HandOver, ~over, UNCHANGED <<stream, over>>
      PROVE  EndsInv'
  <2>. DEFINE n == Len(Complete(held))
              t == [k \in 1..n |-> [from |-> Base + Pad(held, k), to |-> Base + Pad(held, k + 1)]]
  <2>1. /\ n \in Nat /\ t \in Seq(Span) /\ spans' = spans \o t
        /\ n = IF Units(held) = 0 THEN 0 ELSE Units(held) - 1
    BY <1>3, NalHandOver
  <2>2. ASSUME NEW k \in 1..n PROVE t[k].to \in ends
    <3>1. /\ stream \in Seq(Byte) /\ fed \in 0..Len(stream) /\ Base \in 0..fed
          /\ held = Slice(stream, Base, fed) /\ held \in Seq(Byte)
      BY HeldIsWindow
    <3>2. Units(held) \in Nat
      BY <3>1, CodesOfUnits
    <3>3. k + 1 \in 2..Units(held)
      BY <2>1, <3>2
    <3>4. t[k].to = Base + Pad(held, k + 1)
      BY <2>1
    <3>5. Base + Pad(held, k + 1) \in ends
      <4>. DEFINE j == k + 1
      <4>. HIDE DEF j, Base
      <4>1. Base + Pad(Slice(stream, Base, fed), j) \in ends
        BY <3>1, <3>3, LaterStart DEF j
      <4>. QED  BY <3>1, <4>1 DEF j
    <3>. QED  BY <3>4, <3>5
  <2>3. Len(t) = n
    BY <2>1
  <2>. HIDE DEF t, n, ends
  <2>4. ASSUME NEW k \in 1..(Len(spans) + n) PROVE spans'[k].to \in ends
    <3>1. spans'[k] = IF k <= Len(spans) THEN spans[k] ELSE t[k - Len(spans)]
      BY <1>1, <2>1, <2>3, ConcatProperties
    <3>2. CASE k <= Len(spans)
      <4>1. k \in 1..Len(spans)
        BY <1>1, <3>2
      <4>. QED  BY <1>3, <3>1, <3>2, <4>1 DEF EndsInv, ends
    <3>3. CASE ~(k <= Len(spans))
      <4>1. k - Len(spans) \in 1..n
        BY <1>1, <2>1, <3>3
      <4>. QED  BY <2>2, <3>1, <3>3, <4>1
    <3>. QED  BY <3>2, <3>3
  <2>5. Len(spans') = Len(spans) + n
    BY <1>1, <2>1, <2>3, ConcatProperties
  <2>. QED  BY <1>3, <2>4, <2>5 DEF EndsInv, ends
<1>4. ASSUME NEW n \in Chunks, Push(n)
      PROVE  EndsInv'
  BY <1>2, <1>4 DEF Push
<1>5. CASE Drain
  BY <1>3, <1>5 DEF Drain, EndsInv
<1>6. CASE CutReturns
  BY <1>3, <1>6 DEF CutReturns, EndsInv
<1>7. CASE CutFails
  BY <1>7, NalNeverFails DEF CutFails
<1>8. CASE WithinLimit \/ OverLimit
  BY <1>2, <1>8 DEF WithinLimit, OverLimit, Return
<1>9. CASE Finish
  <2>1. CASE held = << >>
    BY <1>9, <2>1 DEF Finish, EndsInv
  <2>2. CASE held # << >>
    <3>. DEFINE d == [from |-> Base, to |-> fed]
    <3>1. spans' = Append(spans, d) /\ fed = Len(stream) /\ over' /\ ~over /\ call' = "idle"
          /\ stream' = stream
      BY <1>9, <2>2 DEF Finish
    <3>2. d \in Span /\ d.to = fed
      BY HeldIsWindow DEF Span
    <3>. HIDE DEF d
    <3>3. /\ Len(spans') = Len(spans) + 1 /\ spans'[Len(spans) + 1] = d
          /\ \A k \in 1..Len(spans) : spans'[k] = spans[k]
      BY <1>1, <3>1, <3>2, AppendProperties
    <3>4. ASSUME NEW k \in 1..Len(spans')
          PROVE  spans'[k].to \in ends \/ (k = Len(spans') /\ spans'[k].to = Len(stream))
      <4>1. CASE k = Len(spans) + 1
        BY <3>1, <3>2, <3>3, <4>1
      <4>2. CASE k # Len(spans) + 1
        <5>1. k \in 1..Len(spans)
          BY <1>1, <3>3, <4>2
        <5>. QED  BY <3>1, <3>3, <5>1 DEF EndsInv
      <4>. QED  BY <4>1, <4>2
    <3>. QED  BY <3>1, <3>4 DEF EndsInv
  <2>. QED  BY <2>1, <2>2
<1>10. CASE UNCHANGED vars
  BY <1>10 DEF vars, EndsInv
<1>. QED  BY <1>4, <1>5, <1>6, <1>7, <1>8, <1>9, <1>10 DEF Next, PushSteps, Done

LEMMA EndsInvariant ==
    ASSUME Kind = "Nal"
    PROVE  Spec => []EndsInv
<1>1. Init => EndsInv
  <2>1. Init => spans = << >> /\ over = FALSE
    BY DEF Init
  <2>2. Len(<< >>) = 0
    OBVIOUS
  <2>. QED  BY <2>1, <2>2 DEF EndsInv
<1>2. FeedInv /\ SpanInv /\ EndsInv /\ [Next]_vars => EndsInv'
  BY EndsStep
<1>. QED  BY <1>1, <1>2, FeedInvariant, SpanInvariant, PTL DEF Spec

\* After a drop the feed falls in step with the stream again: for every H.264 or
\* HEVC stream, chunking and limit, every carrier push returns ends where an
\* access unit of the whole stream ends.
THEOREM FeedEndsAtBoundary ==
    ASSUME Kind = "Nal"
    PROVE  Spec => []EndsAtBoundary
<1>1. FeedInv /\ EndsInv => EndsAtBoundary
  <2>. SUFFICES ASSUME FeedInv, EndsInv PROVE EndsAtBoundary
    OBVIOUS
  <2>1. ToSet(Starts(stream)) = UnitStarts(stream)
    BY HeldIsWindow, NalStarts
  <2>. QED  BY <2>1 DEF EndsInv, EndsAtBoundary
<1>. QED  BY <1>1, FeedInvariant, EndsInvariant, PTL

-----------------------------------------------------------------------------
\* What a drain leaves begins with the one access unit that is open.
LEMMA NalDrained ==
    ASSUME Kind = "Nal", NEW b \in Seq(Byte)
    PROVE  PendingAt(DropFront(b, PendingAt(b))) = 0
<1>. DEFINE n == Units(b)
            lo == PendingAt(b)
            h == Slice(b, lo, Len(b))
<1>1. lo = IF n = 0 THEN 0 ELSE Pad(b, n)
  BY NalPending
<1>2. n \in Nat /\ Len(b) \in Nat /\ lo \in 0..Len(b) /\ Len(b) \in 0..Len(b)
  BY CodesOfUnits, LenProperties, PendingRange
<1>3. DropFront(b, lo) = h
  BY DEF DropFront, Slice
<1>. HIDE DEF n, lo, h
<1>4. h \in Seq(Byte)
  BY <1>2, SliceProperties DEF h
<1>5. CASE n = 0
  <2>1. OpensAt(b, lo, 0) /\ 0 \in 0..Units(b)
    BY <1>1, <1>2, <1>5 DEF OpensAt, n
  <2>2. PICK m \in 0..(Units(b) - 0) : ShowsNext(b, lo, Len(b), 0, m)
    BY <1>2, <2>1, WindowUnits
  <2>3. Units(h) = 0
    BY <1>5, <2>2 DEF ShowsNext, h, n
  <2>. QED  BY <1>3, <1>4, <2>3, NothingPending DEF lo
<1>6. CASE n # 0
  <2>. DEFINE j == n - 1
  <2>1. OpensAt(b, lo, j) /\ j \in 0..Units(b) /\ Units(b) - j = 1 /\ j + 1 = n
    BY <1>1, <1>2, <1>6 DEF OpensAt, n
  <2>. HIDE DEF j
  <2>2. PICK m \in 0..(Units(b) - j) : ShowsNext(b, lo, Len(b), j, m)
    BY <1>2, <2>1, WindowUnits
  <2>3. Units(h) = m /\ (m = 0 \/ m = 1)
    BY <2>1, <2>2 DEF ShowsNext, h
  <2>4. ASSUME m = 1 PROVE Pad(h, 1) = 0
    <3>1. 1 \in 1..m
      BY <2>4
    <3>2. Pad(h, 1) = Pad(b, j + 1) - lo
      BY <2>2, <3>1 DEF ShowsNext, h
    <3>3. lo = Pad(b, n) /\ lo \in Nat
      BY <1>1, <1>2, <1>6
    <3>. QED  BY <2>1, <3>2, <3>3
  <2>. QED  BY <1>3, <1>4, <2>3, <2>4, NothingPending DEF lo
<1>. QED  BY <1>5, <1>6

-----------------------------------------------------------------------------
\* A slice that ends with an access unit, or with the stream, has the NAL units
\* of the stream whose start codes it covers.
LEMMA NalsOfSlice ==
    ASSUME NEW b \in Seq(Byte), NEW to \in 0..Len(b), NEW from \in 0..to,
           to \in UnitStarts(b) \/ to = Len(b)
    PROVE  LET codes == Ascending({c \in StartCodes(b) : from <= c /\ c < to})
               h == Slice(b, from, to)
           IN  ScanNals(h) = [k \in 1..Len(codes) |-> ScanNals(h)[k]]
               /\ Len(codes) \in Nat
               /\ \A k \in 1..Len(codes) : ScanNals(h)[k].bytes = NalBytes(b, codes[k])
<1>. DEFINE S == {c \in StartCodes(b) : from <= c /\ c < to}
            codes == Ascending(S)
            h == Slice(b, from, to)
            n == Len(codes)
            f == [k \in 1..n |-> codes[k] - from]
<1>1. Len(b) \in Nat
  BY LenProperties
<1>2. S \in SUBSET (0..Len(b))
  BY <1>1 DEF StartCodes
<1>3. IsFiniteSet(0..Len(b)) /\ S \in SUBSET Nat
  BY <1>1, <1>2, FS_Interval
<1>4. /\ n \in Nat
      /\ \A k \in 1..n : codes[k] \in S
      /\ \A c \in S : \E k \in 1..n : codes[k] = c
      /\ \A i, j \in 1..n : i < j => codes[i] < codes[j]
  <2>. HIDE DEF S
  <2>1. IsFiniteSet(S)
    BY <1>2, <1>3, FS_Subset
  <2>. QED  BY <1>3, <2>1, AscendingProperties, AscendingOnto
<1>. HIDE DEF codes, n, h
<1>5. ASSUME NEW c \in S
      PROVE  /\ c \in StartCodes(b) /\ c \in Nat /\ from <= c /\ c + 3 <= to
             /\ NalBytes(h, c - from) = NalBytes(b, c)
  <2>1. c \in StartCodes(b) /\ c \in Nat /\ from <= c /\ c < to
    BY CodeRange
  <2>2. Whole(b, c, to)
    <3>1. CASE to = Len(b)
      BY <3>1 DEF Whole
    <3>2. CASE to \in UnitStarts(b)
      <4>1. PICK e \in Boundaries(b) : to = NalPad(b, e)
        BY <3>2 DEF UnitStarts
      <4>2. e \in StartCodes(b)
        BY BoundaryIsTyped
      <4>3. NalPad(b, e) \in 0..e /\ e \in Nat
        BY <4>2, PadRange, CodeRange
      <4>4. c < e /\ NalPad(b, e) <= to
        BY <2>1, <4>1, <4>3
      <4>. QED  BY <4>2, <4>4 DEF Whole
    <3>. QED  BY <3>1, <3>2
  <2>. QED  BY <2>1, <2>2, WholeNal DEF h
<1>6. f \in [1..n -> Nat] /\ \A i, j \in 1..n : i < j => f[i] < f[j]
  <2>1. \A k \in 1..n : codes[k] \in Nat /\ from <= codes[k]
    BY <1>4, <1>5
  <2>. QED  BY <1>4, <2>1
<1>7. ASSUME NEW x PROVE x \in StartCodes(h) <=> \E k \in 1..n : x = f[k]
  <2>1. ASSUME x \in StartCodes(h) PROVE \E k \in 1..n : x = f[k]
    <3>. DEFINE c == x + from
    <3>1. x \in Nat
      <4>1. h \in Seq(Byte)
        BY SliceProperties DEF h
      <4>. QED  BY <2>1, <4>1, CodeRange
    <3>2. c \in Int /\ c - from = x
      BY <3>1
    <3>. HIDE DEF c
    <3>3. c \in StartCodes(b) /\ from <= c /\ c + 3 <= to
      BY <2>1, <3>2, SliceCodes DEF h
    <3>4. c \in S
      BY <3>2, <3>3
    <3>5. PICK k \in 1..n : codes[k] = c
      BY <1>4, <3>4
    <3>. QED  BY <3>2, <3>5
  <2>2. ASSUME NEW k \in 1..n PROVE f[k] \in StartCodes(h)
    <3>1. codes[k] \in StartCodes(b) /\ codes[k] \in Int /\ from <= codes[k]
          /\ codes[k] + 3 <= to
      BY <1>4, <1>5
    <3>2. codes[k] - from \in StartCodes(h)
      BY <3>1, SliceCodes DEF h
    <3>. QED  BY <3>2
  <2>. HIDE DEF f
  <2>. QED  BY <2>1, <2>2
<1>8. Ascending(StartCodes(h)) = f
  <2>. HIDE DEF f
  <2>. QED  BY <1>4, <1>6, <1>7, AscendingUnique
<1>9. Len(f) = n
  BY <1>4
<1>10. ScanNals(h) =
           [k \in 1..n |->
               [pad   |-> NalPad(h, f[k]),   code |-> NalCode(h, f[k]),
                start |-> NalStart(f[k]),    end  |-> NalEnd(h, f[k]),
                bytes |-> NalBytes(h, f[k])]]
  <2>. HIDE DEF f
  <2>. QED  BY <1>8, <1>9 DEF ScanNals
<1>11. ASSUME NEW k \in 1..n PROVE ScanNals(h)[k].bytes = NalBytes(b, codes[k])
  <2>1. ScanNals(h)[k].bytes = NalBytes(h, f[k])
    <3>. HIDE DEF f
    <3>. QED  BY <1>10
  <2>2. f[k] = codes[k] - from
    OBVIOUS
  <2>. QED  BY <1>4, <1>5, <2>1, <2>2
<1>12. ScanNals(h) = [k \in 1..n |-> ScanNals(h)[k]]
  <2>. HIDE DEF f
  <2>. QED  BY <1>10
<1>. QED  BY <1>4, <1>11, <1>12 DEF codes, n, h

\* user_data_in of such a slice.
LEMMA PayloadsOfSlice ==
    ASSUME Kind = "Nal", NEW b \in Seq(Byte), NEW to \in 0..Len(b), NEW from \in 0..to,
           to \in UnitStarts(b) \/ to = Len(b)
    PROVE  LET codes == Ascending({c \in StartCodes(b) : from <= c /\ c < to})
           IN  Payloads(Slice(b, from, to)) =
                   FlattenSeq([i \in 1..Len(codes) |-> UserDataInNal(NalBytes(b, codes[i]))])
<1>. DEFINE codes == Ascending({c \in StartCodes(b) : from <= c /\ c < to})
            n == Len(codes)
            h == Slice(b, from, to)
            nals == ScanNals(h)
<1>1. /\ nals = [k \in 1..n |-> nals[k]] /\ n \in Nat
      /\ \A k \in 1..n : nals[k].bytes = NalBytes(b, codes[k])
  BY NalsOfSlice
<1>2. Payloads(h) = FlattenSeq([k \in 1..Len(nals) |-> UserDataInNal(nals[k].bytes)])
  BY Zenon DEF Payloads, UserDataAnnexb
<1>. HIDE DEF codes, n, h, nals
<1>3. Len(nals) = n
  BY <1>1
<1>4. [k \in 1..Len(nals) |-> UserDataInNal(nals[k].bytes)]
          = [k \in 1..n |-> UserDataInNal(NalBytes(b, codes[k]))]
  BY <1>1, <1>3
<1>5. Payloads(h) = FlattenSeq([k \in 1..n |-> UserDataInNal(NalBytes(b, codes[k]))])
  BY <1>2, <1>4
<1>. QED  BY <1>5 DEF n, h, codes

\* Whatever was dropped, no payload a feed returns was cut short, made up out of
\* the rest of a carrier that was let go, or taken off a neighbour: for every
\* H.264 or HEVC stream, chunking and limit, a carrier has the payloads of the
\* NAL units of the whole stream that its span covers.
THEOREM FeedPayloadsIntact ==
    ASSUME Kind = "Nal"
    PROVE  Spec => []PayloadsIntact
<1>1. FeedInv /\ SpanInv /\ EndsInv => PayloadsIntact
  <2>. SUFFICES ASSUME FeedInv, SpanInv, EndsInv, NEW k \in 1..Len(delivered)
                PROVE  LET codes == Ascending({c \in StartCodes(stream) :
                                                  spans[k].from <= c /\ c < spans[k].to})
                       IN  delivered[k].payloads =
                               FlattenSeq([i \in 1..Len(codes) |->
                                   UserDataInNal(NalBytes(stream, codes[i]))])
    BY DEF PayloadsIntact
  <2>1. /\ delivered \in Seq(Returned) /\ out \in Seq(Returned) /\ spans \in Seq(Span)
        /\ Len(spans) = Len(delivered) + Len(out)
        /\ InOrder(spans, Base) /\ MadeOf(stream, delivered \o out, spans)
    BY DEF SpanInv, SpansDisjoint
  <2>2. Len(delivered) \in Nat /\ Len(out) \in Nat
    BY <2>1, LenProperties
  <2>3. k \in 1..Len(spans)
    BY <2>1, <2>2
  <2>4. delivered[k].payloads = Payloads(Slice(stream, spans[k].from, spans[k].to))
    <3>1. /\ Len(delivered \o out) = Len(delivered) + Len(out)
          /\ (delivered \o out)[k] = delivered[k]
      BY <2>1, <2>2, ConcatProperties
    <3>2. k \in 1..Len(delivered \o out)
      BY <2>2, <3>1
    <3>. QED  BY <2>1, <3>1, <3>2 DEF MadeOf
  <2>5. stream \in Seq(Byte) /\ Len(stream) \in Nat /\ Base \in Nat /\ Base <= Len(stream)
    BY HeldIsWindow
  <2>6. spans[k] \in Span
    BY <2>1, <2>3, ElementOfSeq
  <2>7. spans[k].from \in Nat /\ spans[k].to \in Nat /\ spans[k].from < spans[k].to
        /\ spans[k].to <= Base
    BY <2>1, <2>3, <2>6 DEF Span, InOrder
  <2>8. spans[k].to \in 0..Len(stream) /\ spans[k].from \in 0..spans[k].to
    <3>. HIDE DEF Base
    <3>. QED  BY <2>5, <2>7
  <2>9. spans[k].to \in UnitStarts(stream) \/ spans[k].to = Len(stream)
    BY <2>3 DEF EndsInv
  <2>. QED  BY <2>4, <2>5, <2>8, <2>9, PayloadsOfSlice
<1>. QED  BY <1>1, FeedInvariant, SpanInvariant, EndsInvariant, PTL

-----------------------------------------------------------------------------
(***************************************************************************)
(* As long as nothing is dropped, the feed and a reader of the whole       *)
(* stream find the same.                                                   *)
(***************************************************************************)

\* The k-th carrier a reader of the whole of b finds, and its place in b.
UnitCarrier(b, k) ==
    Carried(k - 1, Slice(b, Pad(b, k), UnitEnd(b, k)), KeyIn(b, Codes(b)[k], UnitEnd(b, k)))
Place(b, k) == [from |-> Pad(b, k), to |-> UnitEnd(b, k)]

\* Carriers and their spans are the first that reader finds.
Agrees(b, all, s) ==
    /\ Len(s) <= Units(b)
    /\ \A k \in 1..Len(s) : s[k] = Place(b, k) /\ all[k] = UnitCarrier(b, k)

\* Where a feed stands that has dropped nothing: n carriers are out, the bytes
\* held begin where the next one does (or the stream does, before the first),
\* and when push has looked at them there is no boundary in them but there.
Following ==
    LET n == Len(spans)
    IN  IF over
        THEN /\ held = << >> /\ fed = Len(stream)
             /\ Units(stream) > 0 => /\ n = Units(stream)
                                     /\ Agrees(stream, delivered \o out, spans)
        ELSE /\ OpensAt(stream, Base, n)
             /\ n > 0 => OpensShows(stream, Codes(stream)[n + 1], fed)
             /\ call # "cut" => PendingAt(held) = 0
             /\ Agrees(stream, delivered \o out, spans)

FollowInv == dropped = 0 => Following

-----------------------------------------------------------------------------
\* An access unit that a window shows, and the beginning of the next one or the
\* end of the stream, seen in the window and in the stream.
LEMMA SeenUnit ==
    ASSUME NEW b \in Seq(Byte), NEW hi \in 0..Len(b), NEW lo \in 0..hi,
           NEW n \in 0..Units(b), NEW m \in 0..(Units(b) - n), ShowsNext(b, lo, hi, n, m),
           NEW j \in 1..m, j < m \/ (hi = Len(b) /\ n + m = Units(b))
    PROVE  LET h == Slice(b, lo, hi)
           IN  /\ n + j \in 1..Units(b) /\ UnitEnd(b, n + j) \in 0..hi
               /\ Pad(h, j) \in 0..Len(h) /\ UnitEnd(h, j) \in Pad(h, j)..Len(h)
               /\ Pad(h, j) + lo = Pad(b, n + j) /\ UnitEnd(h, j) + lo = UnitEnd(b, n + j)
               /\ KeyIn(h, Codes(h)[j], UnitEnd(h, j))
                      = KeyIn(b, Codes(b)[n + j], UnitEnd(b, n + j))
<1>. DEFINE h == Slice(b, lo, hi)
            N == Units(b)
            k == n + j
            c == Codes(b)[k]
            end == UnitEnd(b, k)
<1>1. /\ N \in Nat /\ n \in Nat /\ m \in Nat /\ j \in Nat /\ n + m <= N /\ k \in 1..N
      /\ lo \in Nat /\ hi \in Nat /\ Len(b) \in Nat /\ lo <= hi
  BY CodesOfUnits, LenProperties
<1>2. h \in Seq(Byte) /\ Len(h) = hi - lo
  BY SliceProperties
<1>3. Units(h) = m /\ Codes(h)[j] = c - lo /\ Pad(h, j) = Pad(b, k) - lo /\ lo <= Pad(b, k)
  BY DEF ShowsNext
<1>. HIDE DEF h
<1>4. /\ Pad(b, k) \in Nat /\ Pad(b, k) <= c /\ c \in Nat /\ end \in Nat /\ c + 3 <= end
      /\ lo <= c
  <2>. HIDE DEF k
  <2>1. /\ Pad(b, k) \in Nat /\ Pad(b, k) <= c /\ c \in Nat /\ end \in Nat /\ c + 3 <= end
    BY <1>1, CodesOfUnits, PadsAscend
  <2>. HIDE DEF c
  <2>. QED  BY <1>1, <1>3, <2>1
<1>5. /\ UnitEnd(h, j) = end - lo /\ end <= hi
      /\ end = Len(b) \/ \E e \in StartCodes(b) : end = NalPad(b, e)
  <2>1. CASE j < m
    <3>. DEFINE i == j + 1
                l == n + i
    <3>1. i \in 1..m /\ k < N /\ l = k + 1 /\ l \in 1..N
      BY <1>1, <2>1
    <3>2. Pad(h, i) = Pad(b, l) - lo /\ Codes(b)[l] + 3 <= hi
      <4>. HIDE DEF i
      <4>. QED  BY <3>1 DEF ShowsNext, h
    <3>3. UnitEnd(h, j) = Pad(h, i)
      BY <1>3, <2>1 DEF UnitEnd
    <3>4. end = Pad(b, l)
      <4>1. end = Pad(b, k + 1)
        BY <3>1 DEF UnitEnd
      <4>. QED  BY <3>1, <4>1
    <3>. HIDE DEF l, i
    <3>5. /\ Codes(b)[l] \in StartCodes(b) /\ Codes(b)[l] \in Nat
          /\ Pad(b, l) \in Nat /\ Pad(b, l) <= Codes(b)[l]
      BY <3>1, CodesOfUnits, PadsAscend
    <3>6. Pad(b, l) = NalPad(b, Codes(b)[l])
      BY DEF Pad
    <3>. QED  BY <1>1, <3>2, <3>3, <3>4, <3>5, <3>6
  <2>2. CASE ~(j < m)
    <3>1. j = m /\ k = N /\ hi = Len(b)
      BY <1>1, <2>2
    <3>2. UnitEnd(h, j) = Len(h) /\ end = Len(b)
      BY <1>1, <1>3, <3>1 DEF UnitEnd
    <3>. QED  BY <1>1, <1>2, <3>1, <3>2
  <2>. QED  BY <2>1, <2>2
<1>6. KeyIn(h, c - lo, end - lo) = KeyIn(b, c, end)
  <2>. HIDE DEF c, end
  <2>. QED  BY <1>4, <1>5, KeyInSlice DEF h
<1>7. Pad(h, j) \in 0..Len(h) /\ UnitEnd(h, j) \in Pad(h, j)..Len(h)
  <2>. HIDE DEF c, end, k
  <2>. QED  BY <1>1, <1>2, <1>3, <1>4, <1>5
<1>8. Pad(h, j) + lo = Pad(b, k) /\ UnitEnd(h, j) + lo = end /\ end \in 0..hi
  <2>. HIDE DEF c, end, k
  <2>. QED  BY <1>1, <1>3, <1>4, <1>5
<1>. QED  BY <1>1, <1>3, <1>5, <1>6, <1>7, <1>8 DEF h

\* So it makes the same carrier of either.
LEMMA NextCarrier ==
    ASSUME Kind = "Nal", FeedInv, NEW n \in 0..Units(stream),
           NEW m \in 0..(Units(stream) - n), ShowsNext(stream, Base, fed, n, m),
           NEW j \in 1..m, j < m \/ (fed = Len(stream) /\ n + m = Units(stream))
    PROVE  /\ n + j \in 1..Units(stream)
           /\ Carried(n + j - 1, Slice(held, Pad(held, j), UnitEnd(held, j)),
                      KeyIn(held, Codes(held)[j], UnitEnd(held, j))) = UnitCarrier(stream, n + j)
           /\ [from |-> Base + Pad(held, j), to |-> Base + UnitEnd(held, j)]
                  = Place(stream, n + j)
<1>. DEFINE k == n + j
            from == Pad(held, j)
            to == UnitEnd(held, j)
<1>1. /\ stream \in Seq(Byte) /\ fed \in 0..Len(stream) /\ Base \in 0..fed /\ Base \in Nat
      /\ held = Slice(stream, Base, fed) /\ Len(held) \in Nat
  BY HeldIsWindow
<1>2. /\ k \in 1..Units(stream) /\ from \in 0..Len(held) /\ to \in from..Len(held)
      /\ from + Base = Pad(stream, k) /\ to + Base = UnitEnd(stream, k)
      /\ KeyIn(held, Codes(held)[j], to) = KeyIn(stream, Codes(stream)[k], UnitEnd(stream, k))
  <2>. DEFINE lo == Base
  <2>1. lo \in 0..fed /\ held = Slice(stream, lo, fed) /\ ShowsNext(stream, lo, fed, n, m)
    BY <1>1
  <2>. HIDE DEF lo
  <2>2. LET h == Slice(stream, lo, fed)
        IN  /\ n + j \in 1..Units(stream)
            /\ Pad(h, j) \in 0..Len(h) /\ UnitEnd(h, j) \in Pad(h, j)..Len(h)
            /\ Pad(h, j) + lo = Pad(stream, n + j) /\ UnitEnd(h, j) + lo = UnitEnd(stream, n + j)
            /\ KeyIn(h, Codes(h)[j], UnitEnd(h, j))
                   = KeyIn(stream, Codes(stream)[n + j], UnitEnd(stream, n + j))
    BY <1>1, <2>1, SeenUnit
  <2>. QED  BY <2>1, <2>2 DEF lo
<1>. HIDE DEF from, to, k
<1>3. Slice(held, from, to) = Slice(stream, Base + from, Base + to)
  BY <1>2, SliceOfHeld
<1>. HIDE DEF Base
<1>4. Base + from = Pad(stream, k) /\ Base + to = UnitEnd(stream, k)
  BY <1>1, <1>2
<1>5. n + j - 1 = k - 1
  BY DEF k
<1>. QED  BY <1>2, <1>3, <1>4, <1>5 DEF UnitCarrier, Place, from, to, k

LEMMA AgreesConcat ==
    ASSUME NEW b \in Seq(Byte), NEW all \in Seq(Returned), NEW new \in Seq(Returned),
           NEW s \in Seq(Span), NEW t \in Seq(Span), Len(all) = Len(s), Len(new) = Len(t),
           Agrees(b, all, s), Len(s) + Len(t) <= Units(b),
           \A j \in 1..Len(t) : /\ t[j] = Place(b, Len(s) + j)
                                /\ new[j] = UnitCarrier(b, Len(s) + j)
    PROVE  Agrees(b, all \o new, s \o t) /\ Len(s \o t) = Len(s) + Len(t)
<1>. DEFINE m == Len(s)
            n == Len(t)
            a == all \o new
            u == s \o t
<1>1. m \in Nat /\ n \in Nat /\ Len(u) = m + n
  BY LenProperties, ConcatProperties
<1>2. \A k \in 1..(m + n) : /\ a[k] = IF k <= m THEN all[k] ELSE new[k - m]
                            /\ u[k] = IF k <= m THEN s[k] ELSE t[k - m]
  BY ConcatProperties
<1>. HIDE DEF a, u, m, n
<1>3. ASSUME NEW k \in 1..(m + n) PROVE u[k] = Place(b, k) /\ a[k] = UnitCarrier(b, k)
  <2>1. CASE k <= m
    <3>1. k \in 1..m /\ a[k] = all[k] /\ u[k] = s[k]
      BY <1>1, <1>2, <2>1
    <3>. QED  BY <3>1 DEF Agrees, m
  <2>2. CASE k > m
    <3>1. k - m \in 1..n /\ a[k] = new[k - m] /\ u[k] = t[k - m] /\ m + (k - m) = k
      BY <1>1, <1>2, <2>2
    <3>2. t[k - m] = Place(b, m + (k - m)) /\ new[k - m] = UnitCarrier(b, m + (k - m))
      BY <3>1 DEF m, n
    <3>. QED  BY <3>1, <3>2
  <2>. QED  BY <1>1, <2>1, <2>2
<1>. QED  BY <1>1, <1>3 DEF Agrees, a, u, m, n

\* One round of cut, from where a feed stands that follows the reader.
LEMMA FollowHandOver ==
    ASSUME Kind = "Nal", FeedInv, SpanInv, CountIsReturned, HandOver,
           delivered' = delivered, stream' = stream,
           Agrees(stream, delivered \o out, spans), OpensAt(stream, Base, Len(spans))
    PROVE  \E m \in 0..(Units(stream) - Len(spans)) :
               /\ ShowsNext(stream, Base, fed, Len(spans), m) /\ Units(held) = m
               /\ Len(spans') = Len(spans) + (IF m = 0 THEN 0 ELSE m - 1)
               /\ Agrees(stream, delivered' \o out', spans')
<1>. DEFINE n == Len(spans)
            all == delivered \o out
            found == Complete(held)
            d == Len(found)
            new == [k \in 1..d |->
                      Carried(index + k - 1, Slice(held, found[k].start, found[k].end),
                              found[k].keyframe)]
            t == [k \in 1..d |-> [from |-> Base + Pad(held, k), to |-> Base + Pad(held, k + 1)]]
<1>1. /\ stream \in Seq(Byte) /\ held \in Seq(Byte) /\ fed \in 0..Len(stream)
      /\ Base \in 0..fed /\ held = Slice(stream, Base, fed)
  BY HeldIsWindow
<1>2. /\ delivered \in Seq(Returned) /\ out \in Seq(Returned) /\ spans \in Seq(Span)
      /\ all \in Seq(Returned) /\ Len(all) = n /\ n \in Nat
  BY ConcatProperties, LenProperties DEF SpanInv, SpansDisjoint
<1>3. n \in 0..Units(stream) /\ Units(stream) \in Nat
  BY <1>1, <1>2, CodesOfUnits DEF Agrees
<1>4. PICK m \in 0..(Units(stream) - n) : ShowsNext(stream, Base, fed, n, m)
  <2>. HIDE DEF Base
  <2>. QED  BY <1>1, <1>3, WindowUnits
<1>5. Units(held) = m /\ m \in Nat
  BY <1>1, <1>3, <1>4 DEF ShowsNext
<1>6. d \in Nat /\ t \in Seq(Span) /\ spans' = spans \o t /\ d = IF m = 0 THEN 0 ELSE m - 1
  BY <1>5, NalHandOver
<1>7. new \in Seq(Returned) /\ Len(new) = d
  BY NewCarriers
<1>8. \A k \in 1..d : /\ found[k].start = Pad(held, k) /\ found[k].end = Pad(held, k + 1)
                      /\ found[k].keyframe = KeyIn(held, Codes(held)[k], Pad(held, k + 1))
  BY <1>1, NalComplete
<1>9. out' = out \o new
  BY Zenon DEF HandOver
<1>10. index = n
  BY <1>2 DEF CountIsReturned
<1>11. ASSUME NEW j \in 1..d
       PROVE  t[j] = Place(stream, n + j) /\ new[j] = UnitCarrier(stream, n + j)
  <2>1. j \in 1..m /\ j < m /\ UnitEnd(held, j) = Pad(held, j + 1)
    BY <1>5, <1>6 DEF UnitEnd
  <2>2. /\ Carried(n + j - 1, Slice(held, Pad(held, j), UnitEnd(held, j)),
                   KeyIn(held, Codes(held)[j], UnitEnd(held, j))) = UnitCarrier(stream, n + j)
        /\ [from |-> Base + Pad(held, j), to |-> Base + UnitEnd(held, j)] = Place(stream, n + j)
    BY <1>3, <1>4, <2>1, NextCarrier
  <2>3. new[j] = Carried(n + j - 1, Slice(held, Pad(held, j), UnitEnd(held, j)),
                         KeyIn(held, Codes(held)[j], UnitEnd(held, j)))
    <3>1. new[j] = Carried(index + j - 1, Slice(held, found[j].start, found[j].end),
                           found[j].keyframe)
      BY Zenon
    <3>. HIDE DEF new, found, d, n
    <3>. QED  BY <1>8, <1>10, <2>1, <3>1
  <2>4. t[j] = [from |-> Base + Pad(held, j), to |-> Base + UnitEnd(held, j)]
    BY <2>1
  <2>. QED  BY <2>2, <2>3, <2>4
<1>12. Len(t) = d
  BY <1>6
<1>. HIDE DEF t, new, d, n, found
<1>13. Agrees(stream, all \o new, spans \o t) /\ Len(spans \o t) = n + d
  <2>1. n + d <= Units(stream)
    BY <1>3, <1>5, <1>6
  <2>2. Len(spans) = n /\ Agrees(stream, all, spans)
    BY DEF n
  <2>. HIDE DEF all
  <2>3. /\ Len(all) = Len(spans) /\ Len(new) = Len(t) /\ Len(spans) + Len(t) <= Units(stream)
        /\ \A j \in 1..Len(t) : /\ t[j] = Place(stream, Len(spans) + j)
                                /\ new[j] = UnitCarrier(stream, Len(spans) + j)
    BY <1>2, <1>7, <1>11, <1>12, <2>1, <2>2
  <2>4. /\ Agrees(stream, all \o new, spans \o t)
        /\ Len(spans \o t) = Len(spans) + Len(t)
    <3>1. /\ stream \in Seq(Byte) /\ all \in Seq(Returned) /\ new \in Seq(Returned)
          /\ spans \in Seq(Span) /\ t \in Seq(Span) /\ Agrees(stream, all, spans)
      BY <1>1, <1>2, <1>6, <1>7, <2>2
    <3>. QED  BY ONLY <2>3, <3>1, AgreesConcat, ZenonT(40)
  <2>. QED  BY <1>12, <2>2, <2>4
<1>14. delivered' \o out' = all \o new
  <2>1. (delivered \o out) \o new = delivered \o (out \o new)
    BY <1>2, <1>7, ConcatAssociative, SMTT(30)
  <2>. QED  BY <1>9, <2>1, Zenon
<1>. QED
  BY <1>4, <1>5, <1>6, <1>13, <1>14 DEF n

-----------------------------------------------------------------------------
LEMMA ShowsLater ==
    ASSUME NEW b, NEW c \in Nat, NEW hi \in Nat, NEW more \in Nat, hi <= more,
           OpensShows(b, c, hi)
    PROVE  OpensShows(b, c, more)
<1>1. HeaderLen \in Nat
  BY HeaderLenType
<1>2. ASSUME NEW p \in Int, Reaches(b, c, p, hi) PROVE Reaches(b, c, p, more)
  <2>1. PICK q \in p..(hi - 1) : /\ At(b, q) # 0
                                 /\ \A e \in StartCodes(b) : ~(c < e /\ e <= q)
    BY <1>2 DEF Reaches
  <2>2. q \in p..(more - 1)
    BY <1>2, <2>1
  <2>. QED  BY <2>1, <2>2 DEF Reaches
<1>3. c + 3 + (HeaderLen - 1) \in Int /\ c + 3 + HeaderLen \in Int
  BY <1>1
<1>. QED  BY <1>2, <1>3 DEF OpensShows, TypeShows

\* An access unit that a window knows for one behind another of its own.
LEMMA LaterShows ==
    ASSUME NEW b \in Seq(Byte), NEW hi \in 0..Len(b), NEW lo \in 0..hi,
           NEW j \in 1..Units(b), NEW k \in 1..Units(b), j < k,
           lo <= Codes(b)[j], Known(b, lo, Codes(b)[k], hi)
    PROVE  OpensShows(b, Codes(b)[k], hi)
<1>1. /\ Codes(b)[j] \in Boundaries(b) /\ Codes(b)[j] \in Nat /\ Codes(b)[k] \in Nat
      /\ Codes(b)[j] < Codes(b)[k]
  BY CodesOfUnits
<1>2. Codes(b)[j] \in Typed(b)
  BY <1>1, BoundaryIsTyped
<1>3. ~FirstFrom(b, lo, Codes(b)[k])
  BY <1>1, <1>2 DEF FirstFrom
<1>. QED  BY <1>3 DEF Known

LEMMA FollowPush ==
    ASSUME Kind = "Nal", FeedInv, SpanInv, Following, NEW n \in Chunks, Push(n)
    PROVE  Following'
<1>1. /\ ~over /\ over' = over /\ stream' = stream /\ spans' = spans /\ delivered' = delivered
      /\ out' = << >> /\ out = << >> /\ call' = "cut"
  BY DEF Push, SpanInv
<1>2. /\ stream \in Seq(Byte) /\ fed \in Nat /\ Len(held) \in Nat
  BY HeldIsWindow
<1>3. n \in Nat /\ Len(held') = Len(held) + n /\ fed' = fed + n
  <2>1. n \in Nat
    BY FeedAssumption
  <2>. QED  BY <2>1, PushKeepsTail DEF FeedInv, Push
<1>4. Base' = Base
  BY <1>2, <1>3 DEF Base
<1>5. spans \in Seq(Span) /\ Len(spans) \in Nat
  BY LenProperties DEF SpanInv
<1>. HIDE DEF Base
<1>6. /\ OpensAt(stream, Base, Len(spans))
      /\ Len(spans) > 0 => OpensShows(stream, Codes(stream)[Len(spans) + 1], fed)
      /\ Agrees(stream, delivered \o out, spans)
  BY <1>1 DEF Following
<1>7. ASSUME Len(spans) > 0 PROVE OpensShows(stream, Codes(stream)[Len(spans) + 1], fed')
  <2>. DEFINE k == Len(spans) + 1
              c == Codes(stream)[k]
  <2>1. Len(spans) < Units(stream)
    BY <1>5, <1>6, <1>7 DEF OpensAt
  <2>2. k \in 1..Units(stream)
    BY <1>2, <1>5, <2>1, CodesOfUnits
  <2>. HIDE DEF k
  <2>3. c \in Nat
    BY <1>2, <2>2, CodesOfUnits
  <2>4. OpensShows(stream, c, fed)
    BY <1>6, <1>7 DEF k
  <2>5. fed \in Nat /\ fed' \in Nat /\ fed <= fed'
    BY <1>2, <1>3
  <2>. HIDE DEF c
  <2>6. OpensShows(stream, c, fed')
    BY <2>3, <2>4, <2>5, ShowsLater
  <2>. QED  BY <2>6 DEF c, k
<1>. QED  BY <1>1, <1>4, <1>6, <1>7 DEF Following

LEMMA FollowDrain ==
    ASSUME Kind = "Nal", FeedInv, SpanInv, CountIsReturned, EndsInv, Following, Drain
    PROVE  Following'
<1>. DEFINE n == Len(spans)
            N == Units(stream)
<1>1. /\ ~over /\ over' = over /\ stream' = stream /\ fed' = fed /\ delivered' = delivered
      /\ call' = "cut" /\ HandOver /\ PendingAt(held) > 0
  BY DEF Drain, EndsInv
<1>2. /\ stream \in Seq(Byte) /\ held \in Seq(Byte) /\ fed \in 0..Len(stream) /\ fed \in Nat
      /\ Base \in 0..fed /\ Base \in Nat /\ Len(held) \in Nat
      /\ held = Slice(stream, Base, fed)
  BY HeldIsWindow
<1>3. /\ OpensAt(stream, Base, n) /\ Agrees(stream, delivered \o out, spans)
      /\ n > 0 => OpensShows(stream, Codes(stream)[n + 1], fed)
  BY <1>1 DEF Following
<1>4. PICK m \in 0..(N - n) :
          /\ ShowsNext(stream, Base, fed, n, m) /\ Units(held) = m
          /\ Len(spans') = n + (IF m = 0 THEN 0 ELSE m - 1)
          /\ Agrees(stream, delivered' \o out', spans')
  BY <1>1, <1>3, FollowHandOver
<1>5. N \in Nat /\ n \in Nat /\ n <= N /\ m \in Nat /\ n + m <= N
  <2>1. N \in Nat /\ n \in Nat /\ n <= N
    BY <1>2, <1>3, CodesOfUnits, LenProperties DEF SpanInv, Agrees
  <2>. QED  BY <2>1
<1>6. m # 0 /\ PendingAt(held) = Pad(held, m)
  BY <1>1, <1>2, <1>4, NalPending
<1>. HIDE DEF n, N
<1>. DEFINE k == n + m
<1>7. k \in 1..N /\ m \in 1..m /\ k \in (n + 1)..N /\ Len(spans') = k - 1
  BY <1>4, <1>5, <1>6
<1>8. Pad(held, m) = Pad(stream, k) - Base /\ Pad(stream, k) \in Nat
  <2>1. Pad(held, m) = Pad(stream, n + m) - Base
    BY <1>2, <1>4, <1>7 DEF ShowsNext
  <2>2. Pad(stream, k) \in Nat
    <3>. HIDE DEF k
    <3>. QED  BY <1>2, <1>7, PadsAscend DEF N
  <2>. QED  BY <2>1, <2>2
<1>9. Base' = Pad(stream, k)
  <2>1. PendingAt(held) \in 0..Len(held)
    BY <1>2, PendingRange
  <2>2. Len(held') = Len(held) - PendingAt(held)
    BY <1>1, <2>1, DrainKeepsTail DEF FeedInv, Drain
  <2>3. Base' = Base + PendingAt(held)
    BY <1>1, <1>2, <2>1, <2>2 DEF Base
  <2>. HIDE DEF Base, k
  <2>. QED  BY <1>2, <1>6, <1>8, <2>3
<1>. HIDE DEF Base
<1>10. OpensAt(stream, Base', k - 1)
  BY <1>5, <1>7, <1>9 DEF OpensAt, N
<1>11. ASSUME k - 1 > 0 PROVE OpensShows(stream, Codes(stream)[k - 1 + 1], fed)
  <2>1. CASE m = 1
    BY <1>3, <1>5, <1>11, <2>1
  <2>2. CASE m # 1
    <3>. DEFINE j == k - 1
                lo == Base
    <3>1. j \in 1..N /\ n < j /\ j < k
      BY <1>4, <1>5, <1>6, <2>2
    <3>2. lo <= Codes(stream)[j]
      <4>1. n \in 0..Units(stream)
        BY <1>5 DEF N
      <4>. HIDE DEF j
      <4>. QED  BY <1>2, <1>3, <3>1, <4>1, AheadOfWindow DEF N
    <3>3. Known(stream, lo, Codes(stream)[k], fed)
      BY <1>4, <1>7 DEF ShowsNext, N
    <3>4. lo \in 0..fed
      BY <1>2
    <3>. HIDE DEF j, k, lo
    <3>5. OpensShows(stream, Codes(stream)[k], fed)
      BY <1>2, <1>7, <3>1, <3>2, <3>3, <3>4, LaterShows DEF N
    <3>6. k - 1 + 1 = k
      BY <1>7
    <3>. QED  BY <3>5, <3>6
  <2>. QED  BY <2>1, <2>2
<1>. HIDE DEF k
<1>. QED  BY <1>1, <1>4, <1>7, <1>10, <1>11 DEF Following

LEMMA FollowCutReturns ==
    ASSUME Kind = "Nal", FeedInv, SpanInv, CountIsReturned, EndsInv, Following, CutReturns
    PROVE  Following'
<1>1. /\ ~over /\ over' = over /\ stream' = stream /\ fed' = fed /\ delivered' = delivered
      /\ held' = held /\ HandOver /\ PendingAt(held) = 0
  BY DEF CutReturns, EndsInv
<1>2. /\ OpensAt(stream, Base, Len(spans)) /\ Agrees(stream, delivered \o out, spans)
      /\ Len(spans) > 0 => OpensShows(stream, Codes(stream)[Len(spans) + 1], fed)
  BY <1>1 DEF Following
<1>3. PICK m \in 0..(Units(stream) - Len(spans)) :
          /\ Units(held) = m /\ Len(spans') = Len(spans) + (IF m = 0 THEN 0 ELSE m - 1)
          /\ Agrees(stream, delivered' \o out', spans')
  BY <1>1, <1>2, FollowHandOver
<1>4. Len(spans) \in Nat /\ (m = 0 \/ m = 1)
  <2>1. Units(held) <= 1 /\ Units(held) \in Nat
    BY <1>1, HeldIsWindow, NothingPending
  <2>. QED  BY <1>3, <2>1, LenProperties DEF SpanInv
<1>5. Len(spans') = Len(spans)
  BY <1>3, <1>4
<1>6. Base' = Base
  BY <1>1 DEF Base
<1>. HIDE DEF Base
<1>. QED  BY <1>1, <1>2, <1>3, <1>5, <1>6 DEF Following

LEMMA FollowReturn ==
    ASSUME FeedInv, SpanInv, EndsInv, Following, WithinLimit
    PROVE  Following'
<1>1. /\ ~over /\ over' = over /\ stream' = stream /\ fed' = fed /\ spans' = spans
      /\ held' = held /\ call = "settle" /\ delivered' = delivered \o out /\ out' = << >>
  BY DEF WithinLimit, Return, EndsInv
<1>2. delivered' \o out' = delivered \o out
  BY <1>1, ConcatProperties, ConcatEmptySeq DEF SpanInv
<1>3. Base' = Base
  BY <1>1 DEF Base
<1>. HIDE DEF Base
<1>. QED  BY <1>1, <1>2, <1>3 DEF Following

\* At the end of the stream a window shows every access unit that is left.
LEMMA WindowToTheEnd ==
    ASSUME NEW b \in Seq(Byte), NEW lo \in 0..Len(b), NEW n \in 0..Units(b),
           NEW m \in 0..(Units(b) - n), ShowsNext(b, lo, Len(b), n, m)
    PROVE  n + m = Units(b)
<1>. DEFINE N == Units(b)
            c == Codes(b)[N]
<1>1. N \in Nat /\ n \in Nat /\ m \in Nat /\ n + m <= N
  BY CodesOfUnits
<1>. SUFFICES ASSUME n + m # N PROVE FALSE
  OBVIOUS
<1>2. N \in (n + 1)..N /\ N \in 1..N
  BY <1>1
<1>3. c \in Boundaries(b) /\ c \in StartCodes(b)
  BY <1>2, CodesOfUnits
<1>. HIDE DEF c
<1>4. TypeShows(b, c, Len(b)) /\ (c \in Openers(b) => OpensShows(b, c, Len(b)))
  BY <1>3, BoundaryIsTyped, TypedReaches
<1>5. FirstFrom(b, lo, c) \/ c \in Openers(b)
  <2>1. c \in Openers(b) \/ \A d \in Typed(b) : c <= d
    BY <1>3, BoundaryDef
  <2>. QED  BY <2>1 DEF FirstFrom
<1>6. Known(b, lo, c, Len(b))
  BY <1>4, <1>5 DEF Known
<1>7. Known(b, lo, Codes(b)[N], Len(b)) <=> N <= n + m
  BY <1>2 DEF ShowsNext
<1>. QED  BY <1>1, <1>6, <1>7 DEF c

\* Where the stream has access units one is open.
LEMMA OpenUnit ==
    ASSUME NEW b \in Seq(Byte), NEW lo \in Nat, NEW n \in Nat, n <= Units(b),
           OpensAt(b, lo, n), Units(b) > 0
    PROVE  n < Units(b) /\ lo < Len(b)
<1>1. Units(b) \in Nat /\ Len(b) \in Nat
  BY CodesOfUnits, LenProperties
<1>2. ASSUME NEW k \in 1..Units(b) PROVE Pad(b, k) \in Nat /\ Pad(b, k) < Len(b)
  <2>1. /\ Pad(b, k) \in Nat /\ Pad(b, k) <= Codes(b)[k] /\ Codes(b)[k] \in Nat
        /\ Codes(b)[k] + 3 <= Len(b)
    BY CodesOfUnits, PadsAscend
  <2>. QED  BY <1>1, <2>1
<1>3. CASE n = 0 /\ lo = 0
  <2>1. 1 \in 1..Units(b)
    BY <1>1
  <2>2. Pad(b, 1) \in Nat /\ Pad(b, 1) < Len(b)
    BY <1>2, <2>1
  <2>. QED  BY <1>1, <1>3, <2>2
<1>4. CASE n < Units(b) /\ lo = Pad(b, n + 1)
  <2>. DEFINE k == n + 1
  <2>1. k \in 1..Units(b) /\ lo = Pad(b, k)
    BY <1>1, <1>4
  <2>. HIDE DEF k
  <2>. QED  BY <1>2, <1>4, <2>1
<1>. QED  BY <1>3, <1>4 DEF OpensAt

LEMMA FollowFinish ==
    ASSUME Kind = "Nal", FeedInv, SpanInv, CountIsReturned, Following, Finish
    PROVE  Following'
<1>. DEFINE n == Len(spans)
            N == Units(stream)
<1>1. /\ ~over /\ over' /\ stream' = stream /\ fed' = fed /\ fed = Len(stream)
      /\ call = "idle" /\ out = << >> /\ out' = << >>
  BY DEF Finish, SpanInv
<1>2. /\ stream \in Seq(Byte) /\ held \in Seq(Byte) /\ fed \in 0..Len(stream) /\ fed \in Nat
      /\ Base \in 0..fed /\ Base \in Nat /\ Len(held) \in Nat /\ Base + Len(held) = fed
      /\ held = Slice(stream, Base, fed)
  BY HeldIsWindow
<1>3. /\ OpensAt(stream, Base, n) /\ Agrees(stream, delivered \o out, spans)
      /\ PendingAt(held) = 0
  BY <1>1 DEF Following
<1>4. /\ delivered \in Seq(Returned) /\ spans \in Seq(Span) /\ n \in Nat /\ N \in Nat
      /\ n <= N /\ delivered \o out = delivered /\ Len(delivered) = n
  <2>1. /\ delivered \in Seq(Returned) /\ spans \in Seq(Span) /\ n \in Nat
        /\ Len(delivered) \in Nat /\ n = Len(delivered) + 0
    BY <1>1, LenProperties, EmptySeq DEF SpanInv, SpansDisjoint
  <2>2. delivered \o out = delivered
    BY <1>1, <2>1, ConcatEmptySeq
  <2>. QED  BY <1>2, <1>3, <2>1, <2>2, CodesOfUnits DEF Agrees
<1>. HIDE DEF Base
<1>5. N > 0 => n < N /\ Base < fed
  BY <1>1, <1>2, <1>3, <1>4, OpenUnit
<1>6. CASE held = << >>
  <2>1. Len(held) = 0 /\ held' = << >>
    BY <1>6, EmptySeq DEF Finish
  <2>2. N = 0
    BY <1>2, <1>4, <1>5, <2>1
  <2>. QED  BY <1>1, <2>1, <2>2 DEF Following
<1>7. CASE held # << >> /\ N = 0
  BY <1>1, <1>7 DEF Following, Finish
<1>8. CASE held # << >> /\ N > 0
  <2>. DEFINE c == Carried(index, held, FinishKeyframe(held))
              d == [from |-> Base, to |-> fed]
  <2>1. delivered' = Append(delivered, c) /\ spans' = Append(spans, d) /\ held' = << >>
    BY <1>8 DEF Finish
  <2>2. PICK m \in 0..(N - n) : ShowsNext(stream, Base, fed, n, m)
    <3>1. n \in 0..N
      BY <1>4
    <3>. QED  BY <1>2, <1>3, <3>1, WindowUnits
  <2>3. n + m = N
    <3>1. n \in 0..N /\ Base \in 0..Len(stream)
      BY <1>1, <1>2, <1>4
    <3>. HIDE DEF n
    <3>. QED  BY <1>1, <1>2, <2>2, <3>1, WindowToTheEnd
  <2>4. Units(held) = m
    BY <1>2, <2>2 DEF ShowsNext
  <2>5. m = 1 /\ Pad(held, 1) = 0 /\ n + 1 = N /\ 1 \in 1..m
    <3>1. Units(held) <= 1 /\ (Units(held) = 1 => Pad(held, 1) = 0) /\ Units(held) \in Nat
      BY <1>2, <1>3, NothingPending
    <3>. HIDE DEF n, N
    <3>. QED  BY <1>4, <1>5, <1>8, <2>3, <2>4, <3>1
  <2>6. UnitEnd(held, 1) = Len(held) /\ Slice(held, 0, Len(held)) = held
    <3>1. UnitEnd(held, 1) = Len(held)
      BY <2>4, <2>5 DEF UnitEnd
    <3>2. SubSeq(held, 1, Len(held)) = held
      BY <1>2, SubSeqFull
    <3>. QED  BY <3>1, <3>2 DEF Slice
  <2>7. FinishKeyframe(held) = KeyIn(held, Codes(held)[1], UnitEnd(held, 1))
    <3>1. /\ Len(AccessUnits(held)) = 1
          /\ AccessUnits(held)[1].keyframe = KeyIn(held, Codes(held)[1], UnitEnd(held, 1))
      <4>1. 1 \in 1..Units(held)
        BY <2>4, <2>5
      <4>. QED  BY <1>2, <2>4, <2>5, <4>1, AccessUnitsAre
    <3>2. AccessUnits(held) # << >>
      BY <3>1, EmptySeq
    <3>3. FinishKeyframe(held) = (AccessUnits(held) # << >> /\ AccessUnits(held)[1].keyframe)
      BY Zenon DEF FinishKeyframe
    <3>4. KeyIn(held, Codes(held)[1], UnitEnd(held, 1)) \in BOOLEAN
      BY DEF KeyIn
    <3>. QED  BY <3>1, <3>2, <3>3, <3>4, Zenon
  <2>8. /\ Carried(n + 1 - 1, Slice(held, Pad(held, 1), UnitEnd(held, 1)),
                   KeyIn(held, Codes(held)[1], UnitEnd(held, 1))) = UnitCarrier(stream, n + 1)
        /\ [from |-> Base + Pad(held, 1), to |-> Base + UnitEnd(held, 1)]
               = Place(stream, n + 1)
    <3>1. n \in 0..N
      BY <1>4
    <3>. HIDE DEF n
    <3>. QED  BY <1>1, <2>2, <2>3, <2>5, <3>1, NextCarrier
  <2>9. index = n
    BY <1>4 DEF CountIsReturned
  <2>10. c = UnitCarrier(stream, n + 1) /\ d = Place(stream, n + 1)
    <3>1. n + 1 - 1 = n
      BY <1>4
    <3>2. c = UnitCarrier(stream, n + 1)
      <4>. HIDE DEF n
      <4>. QED  BY <2>5, <2>6, <2>7, <2>8, <2>9, <3>1
    <3>3. Base + 0 = Base /\ Base + Len(held) = fed
      BY <1>2
    <3>. QED  BY <2>5, <2>6, <2>8, <3>2, <3>3
  <2>11. c \in Returned /\ d \in Span
    <3>1. c \in Returned
      <4>1. index \in Nat
        BY <1>4, <2>9
      <4>. QED  BY <1>2, <4>1, FinishKeyframeType, CarriedIsReturned
    <3>. QED  BY <1>2, <3>1 DEF Span
  <2>. HIDE DEF c, d, n, N
  <2>12. /\ <<c>> \in Seq(Returned) /\ <<d>> \in Seq(Span) /\ Len(<<c>>) = 1 /\ Len(<<d>>) = 1
         /\ <<c>>[1] = c /\ <<d>>[1] = d
    BY <2>11
  <2>13. delivered' = delivered \o <<c>> /\ spans' = spans \o <<d>>
    BY <1>4, <2>1, <2>11, AppendIsConcat
  <2>14. Agrees(stream, delivered \o <<c>>, spans \o <<d>>)
         /\ Len(spans \o <<d>>) = n + 1
    <3>. DEFINE new == <<c>>
                t == <<d>>
    <3>1. /\ new \in Seq(Returned) /\ t \in Seq(Span) /\ Len(delivered) = Len(spans)
          /\ Len(new) = Len(t) /\ Len(spans) + Len(t) <= Units(stream) /\ Len(t) = 1
      BY <1>4, <2>5, <2>12 DEF n, N
    <3>2. \A j \in 1..Len(t) : /\ t[j] = Place(stream, Len(spans) + j)
                               /\ new[j] = UnitCarrier(stream, Len(spans) + j)
      BY <2>10, <2>12 DEF n
    <3>3. Agrees(stream, delivered, spans)
      BY <1>3, <1>4
    <3>. HIDE DEF new, t
    <3>4. Agrees(stream, delivered \o new, spans \o t)
          /\ Len(spans \o t) = Len(spans) + Len(t)
      BY ONLY <1>2, <1>4, <3>1, <3>2, <3>3, AgreesConcat, ZenonT(40)
    <3>. QED  BY <3>1, <3>4 DEF new, t, n
  <2>15. delivered' \o out' = delivered \o <<c>>
    <3>1. delivered \o <<c>> \in Seq(Returned)
      BY <1>4, <2>12, ConcatProperties
    <3>. QED  BY <1>1, <2>13, <3>1, ConcatEmptySeq
  <2>. QED  BY <1>1, <2>1, <2>5, <2>13, <2>14, <2>15 DEF Following, N
<1>. QED  BY <1>4, <1>6, <1>7, <1>8

\* A feed that has dropped nothing had dropped nothing before.
LEMMA FollowStep ==
    ASSUME Kind = "Nal", FeedInv, SpanInv, CountIsReturned, EndsInv, FollowInv, [Next]_vars
    PROVE  FollowInv'
<1>. SUFFICES ASSUME dropped' = 0 PROVE Following'
  BY DEF FollowInv
<1>1. dropped \in Nat
  BY DEF FeedInv, FieldsOK
<1>2. ASSUME NEW n \in Chunks, Push(n) PROVE Following'
  BY <1>2, FollowPush DEF Push, FollowInv
<1>3. CASE Drain
  BY <1>3, FollowDrain DEF Drain, FollowInv
<1>4. CASE CutReturns
  BY <1>4, FollowCutReturns DEF CutReturns, FollowInv
<1>5. CASE CutFails
  BY <1>5, NalNeverFails DEF CutFails
<1>6. CASE WithinLimit
  BY <1>6, FollowReturn DEF WithinLimit, FollowInv
<1>7. CASE OverLimit
  BY <1>1, <1>7 DEF OverLimit
<1>8. CASE Finish
  BY <1>8, FollowFinish DEF Finish, FollowInv
<1>9. CASE UNCHANGED vars
  <2>1. Base' = Base
    BY <1>9 DEF vars, Base
  <2>2. PendingAt(held') = PendingAt(held)
    BY <1>9 DEF vars
  <2>. HIDE DEF Base
  <2>. QED  BY <1>9, <2>1, <2>2 DEF vars, Following, FollowInv
<1>. QED
  BY <1>2, <1>3, <1>4, <1>5, <1>6, <1>7, <1>8, <1>9 DEF Next, PushSteps, Done

LEMMA FollowInit ==
    ASSUME Kind = "Nal", Init
    PROVE  FollowInv
<1>1. /\ stream \in Seq(Byte) /\ fed = 0 /\ held = << >> /\ call = "idle" /\ ~over
      /\ delivered = << >> /\ out = << >> /\ spans = << >>
  BY FeedAssumption DEF Init
<1>2. Len(<< >>) = 0 /\ << >> \in Seq(Byte)
  BY EmptySeq
<1>3. Base = 0
  <2>1. Len(held) = 0 /\ fed = 0
    BY <1>1, <1>2
  <2>. QED  BY <2>1 DEF Base
<1>. HIDE DEF Base
<1>4. Units(stream) \in Nat
  BY <1>1, CodesOfUnits
<1>5. Agrees(stream, delivered \o out, spans)
  BY <1>1, <1>2, <1>4 DEF Agrees
<1>6. PendingAt(held) = 0
  <2>1. PendingAt(held) \in 0..0
    BY <1>1, <1>2, PendingRange
  <2>. QED  BY <2>1
<1>. QED  BY <1>1, <1>2, <1>3, <1>5, <1>6 DEF FollowInv, Following, OpensAt

\* Until something is dropped a feed of NAL units follows a reader of the whole
\* stream, carrier for carrier.
THEOREM FollowInvariant ==
    ASSUME Kind = "Nal"
    PROVE  Spec => []FollowInv
<1>1. Init => FollowInv
  BY FollowInit
<1>2. FeedInv /\ SpanInv /\ CountIsReturned /\ EndsInv /\ FollowInv /\ [Next]_vars => FollowInv'
  BY FollowStep
<1>. QED
  BY <1>1, <1>2, FeedInvariant, SpanInvariant, NalCountIsReturned, EndsInvariant, PTL DEF Spec

-----------------------------------------------------------------------------
\* access_units, as the carriers it makes.
LEMMA FileReaderIs ==
    ASSUME Kind = "Nal", NEW b \in Seq(Byte)
    PROVE  /\ FileReader(b) = [k \in 1..Units(b) |-> UnitCarrier(b, k)]
           /\ Len(FileReader(b)) = Units(b) /\ Units(b) \in Nat
<1>. DEFINE N == Units(b)
            units == AccessUnits(b)
<1>1. /\ N \in Nat /\ Len(units) = N
      /\ \A k \in 1..N : /\ units[k].start = Pad(b, k) /\ units[k].end = UnitEnd(b, k)
                         /\ units[k].keyframe = KeyIn(b, Codes(b)[k], UnitEnd(b, k))
  BY AccessUnitsAre, CodesOfUnits
<1>2. FileReader(b) =
          [k \in 1..Len(units) |->
              Carried(k - 1, Slice(b, units[k].start, units[k].end), units[k].keyframe)]
  BY Zenon DEF FileReader
<1>. HIDE DEF N, units
<1>3. FileReader(b) = [k \in 1..N |-> UnitCarrier(b, k)]
  BY <1>1, <1>2 DEF UnitCarrier
<1>4. Len([k \in 1..N |-> UnitCarrier(b, k)]) = N
  BY <1>1
<1>. QED  BY <1>1, <1>3, <1>4 DEF N

\* A sequence that agrees with another as far as it goes is its beginning.
LEMMA PrefixOf ==
    ASSUME NEW S, NEW s \in Seq(S), NEW T, NEW t \in Seq(T), Len(s) <= Len(t),
           \A k \in 1..Len(s) : s[k] = t[k]
    PROVE  IsPrefix(s, t)
<1>. DEFINE n == Len(s)
            u == SubSeq(t, 1, n)
            v == SubSeq(s, 1, n)
<1>1. n \in Nat /\ Len(t) \in Nat
  BY LenProperties
<1>2. v = s
  BY SubSeqFull
<1>3. /\ u \in Seq(T) /\ Len(u) = n /\ \A k \in 1..n : u[k] = t[k]
  <2>1. 1 \in Int /\ n \in Int /\ \A k \in 1..n : t[k] \in T
    BY <1>1, ElementOfSeq
  <2>2. /\ u \in Seq(T) /\ Len(u) = IF 1 <= n THEN n - 1 + 1 ELSE 0
        /\ \A k \in 1..(n - 1 + 1) : u[k] = t[1 + k - 1]
    <3>. HIDE DEF n
    <3>. QED  BY <2>1, SubSeqProperties
  <2>. HIDE DEF u, n
  <2>. QED  BY <1>1, <2>2
<1>. HIDE DEF u, v
<1>4. \A k \in 1..n : u[k] = s[k]
  BY <1>3
<1>5. u = s
  BY <1>1, <1>3, <1>4, SeqEqual
<1>. QED  BY <1>2, <1>5, Zenon DEF IsPrefix, u, v

\* While nothing was dropped the chunks do not show: for every H.264 or HEVC
\* stream and every way to chunk it, what has come out is the beginning of what
\* a reader of the whole file finds, and after finish it is all of it.
\* (tests/reference.rs, a_feed_finds_the_carriers_a_whole_stream_does.)
THEOREM NalSameAsFileReader ==
    ASSUME Kind = "Nal"
    PROVE  Spec => []SameAsFileReader
<1>1. FeedInv /\ SpanInv /\ FollowInv => SameAsFileReader
  <2>. SUFFICES ASSUME FeedInv, SpanInv, FollowInv, call = "idle", dropped = 0
                PROVE  LET whole == FileReader(stream)
                       IN  IF over THEN whole # << >> => delivered = whole
                                   ELSE IsPrefix(delivered, whole)
    BY DEF SameAsFileReader
  <2>. DEFINE whole == FileReader(stream)
              N == Units(stream)
  <2>1. stream \in Seq(Byte)
    BY HeldIsWindow
  <2>2. /\ whole = [k \in 1..N |-> UnitCarrier(stream, k)] /\ Len(whole) = N /\ N \in Nat
    BY <2>1, FileReaderIs
  <2>. HIDE DEF whole, N
  <2>3. /\ delivered \in Seq(Returned) /\ out = << >> /\ delivered \o out = delivered
        /\ Len(delivered) = Len(spans) /\ Len(spans) \in Nat
    <3>1. /\ delivered \in Seq(Returned) /\ out = << >> /\ Len(spans) = Len(delivered) + Len(out)
          /\ Len(delivered) \in Nat
      BY LenProperties DEF SpanInv, SpansDisjoint
    <3>2. Len(spans) = Len(delivered)
      BY <3>1, EmptySeq
    <3>. QED  BY <3>1, <3>2, ConcatEmptySeq
  <2>. DEFINE Carriage == {UnitCarrier(stream, k) : k \in 1..N}
  <2>4. whole \in Seq(Carriage)
    <3>1. whole \in [1..N -> Carriage]
      <4>1. \A k \in 1..N : UnitCarrier(stream, k) \in Carriage
        OBVIOUS
      <4>. HIDE DEF Carriage
      <4>. QED  BY <2>2, <4>1
    <3>. HIDE DEF Carriage
    <3>. QED  BY <2>2, <3>1
  <2>. HIDE DEF Carriage
  <2>5. Agrees(stream, delivered, spans) =>
            Len(delivered) <= N /\ \A k \in 1..Len(delivered) : delivered[k] = whole[k]
    BY <2>2, <2>3 DEF Agrees, N
  <2>6. ASSUME ~over PROVE IsPrefix(delivered, whole)
    <3>1. Agrees(stream, delivered, spans)
      BY <2>3, <2>6 DEF FollowInv, Following
    <3>2. Len(delivered) <= Len(whole) /\ \A k \in 1..Len(delivered) : delivered[k] = whole[k]
      BY <2>2, <2>5, <3>1
    <3>. QED  BY ONLY <2>3, <2>4, <3>2, PrefixOf, ZenonT(40)
  <2>7. ASSUME over, whole # << >> PROVE delivered = whole
    <3>1. N # 0
      <4>. SUFFICES ASSUME N = 0 PROVE FALSE
        OBVIOUS
      <4>1. Len(whole) = 0
        BY <2>2
      <4>. QED  BY <2>4, <2>7, <4>1, EmptySeq
    <3>2. Len(spans) = N /\ Agrees(stream, delivered, spans)
      BY <2>2, <2>3, <2>7, <3>1 DEF FollowInv, Following, N
    <3>3. Len(delivered) = Len(whole) /\ \A k \in 1..Len(delivered) : delivered[k] = whole[k]
      BY <2>2, <2>3, <2>5, <3>2
    <3>4. IsPrefix(delivered, whole)
      BY ONLY <2>3, <2>2, <2>4, <3>3, PrefixOf
    <3>5. SubSeq(delivered, 1, Len(delivered)) = SubSeq(whole, 1, Len(whole))
      BY <3>3, <3>4 DEF IsPrefix
    <3>. QED  BY <2>3, <2>4, <3>5, SubSeqFull
  <2>. QED  BY <2>6, <2>7 DEF whole
<1>. QED
  BY <1>1, FeedInvariant, SpanInvariant, FollowInvariant, PTL

\* While nothing was dropped what the carriers cover has no gap: for every H.264
\* or HEVC stream and chunking, every byte from the first carrier on rode on a
\* carrier or is held.
THEOREM NalSpansTile ==
    ASSUME Kind = "Nal"
    PROVE  Spec => []SpansTile
<1>1. FeedInv /\ SpanInv /\ FollowInv => SpansTile
  <2>. DEFINE n == Len(spans)
              N == Units(stream)
  <2>. SUFFICES ASSUME FeedInv, SpanInv, FollowInv, dropped = 0, Starts(stream) # << >>,
                       spans # << >>
                PROVE  /\ spans[1].from = Starts(stream)[1]
                       /\ \A k \in 2..n : spans[k].from = spans[k - 1].to
                       /\ spans[n].to = Base
    BY DEF SpansTile
  <2>1. /\ stream \in Seq(Byte) /\ Len(held) \in Nat /\ Base + Len(held) = fed /\ Base \in Nat
    BY HeldIsWindow
  <2>2. N \in Nat /\ Starts(stream) = [k \in 1..N |-> Pad(stream, k)]
    BY <2>1, CodesOfUnits, NalStarts
  <2>3. n \in Nat /\ n # 0
    <3>1. spans \in Seq(Span)
      BY DEF SpanInv
    <3>. QED  BY <3>1, LenProperties, EmptySeq
  <2>. HIDE DEF Base
  <2>4. N > 0
    <3>. SUFFICES ASSUME N = 0 PROVE FALSE
      BY <2>2
    <3>1. Starts(stream) = << >>
      BY <2>2
    <3>. QED  BY <3>1
  <2>5. Agrees(stream, delivered \o out, spans)
    BY <2>4 DEF FollowInv, Following
  <2>6. n <= N /\ \A k \in 1..n : spans[k].from = Pad(stream, k)
                                  /\ spans[k].to = UnitEnd(stream, k)
    <3>1. n <= N /\ \A k \in 1..n : spans[k] = Place(stream, k)
      BY <2>5 DEF Agrees
    <3>2. \A k : Place(stream, k).from = Pad(stream, k) /\ Place(stream, k).to = UnitEnd(stream, k)
      BY DEF Place
    <3>. HIDE DEF n, N
    <3>. QED  BY <3>1, <3>2
  <2>7. spans[1].from = Starts(stream)[1]
    BY <2>2, <2>3, <2>4, <2>6
  <2>8. ASSUME NEW k \in 2..n PROVE spans[k].from = spans[k - 1].to
    <3>. DEFINE j == k - 1
    <3>1. j \in 1..n /\ k \in 1..n /\ j < N /\ k = j + 1
      BY <2>2, <2>3, <2>6
    <3>. HIDE DEF j
    <3>2. spans[j].to = Pad(stream, k)
      BY <2>6, <3>1 DEF UnitEnd
    <3>. QED  BY <2>6, <3>1, <3>2 DEF j
  <2>9. spans[n].to = Base
    <3>1. n \in 1..n /\ spans[n].to = UnitEnd(stream, n)
      BY <2>3, <2>6
    <3>2. CASE over
      <4>1. n = N /\ held = << >> /\ fed = Len(stream)
        BY <2>4, <3>2 DEF FollowInv, Following
      <4>2. Len(held) = 0
        BY <4>1, EmptySeq
      <4>3. UnitEnd(stream, n) = Len(stream)
        BY <2>2, <4>1 DEF UnitEnd
      <4>. QED  BY <2>1, <3>1, <4>1, <4>2, <4>3
    <3>3. CASE ~over
      <4>1. OpensAt(stream, Base, n)
        BY <3>3 DEF FollowInv, Following
      <4>2. n < N /\ Base = Pad(stream, n + 1)
        BY <2>3, <4>1 DEF OpensAt
      <4>. QED  BY <3>1, <4>2 DEF UnitEnd
    <3>. QED  BY <3>2, <3>3
  <2>. QED  BY <2>7, <2>8, <2>9
<1>. QED
  BY <1>1, FeedInvariant, SpanInvariant, FollowInvariant, PTL

-----------------------------------------------------------------------------
\* How far KnownAt looks into a NAL for a byte that is not zero.
Telling(b, c) ==
    NalStart(c) + HeaderLen - (IF IsVcl(NalBytes(b, c)) /\ Opens(NalBytes(b, c)) THEN 0 ELSE 1)

\* The bytes of KnownAt are in just when they show the NAL that far.
LEMMA KnownAtReaches ==
    ASSUME Kind = "Nal", NEW b \in Seq(Byte), NEW k \in 1..Units(b), NEW hi \in 0..Len(b)
    PROVE  /\ KnownAt(b, Pad(b, k)) \in Nat
           /\ KnownAt(b, Pad(b, k)) <= hi
                  <=> Reaches(b, Codes(b)[k], Telling(b, Codes(b)[k]), hi)
<1>. DEFINE c == Codes(b)[k]
            nal == NalBytes(b, c)
            last == Telling(b, c)
            X == {i \in last..(Len(b) - 1) : At(b, i) # 0}
<1>1. /\ c \in Boundaries(b) /\ c \in StartCodes(b) /\ c \in Typed(b) /\ c \in Nat
      /\ HeaderLen \in 1..2 /\ Len(b) \in Nat /\ Pad(b, k) = NalPad(b, c)
  BY CodesOfUnits, BoundaryIsTyped, HeaderLenType, LenProperties DEF Pad
<1>2. ASSUME NEW d \in Boundaries(b), NalPad(b, d) = Pad(b, k) PROVE d = c
  <2>1. d \in StartCodes(b) /\ d \in Nat
    BY BoundaryIsTyped, CodeRange
  <2>2. NalPad(b, d) \in 0..d /\ NalPad(b, c) \in 0..c
    BY <1>1, <2>1, PadRange
  <2>3. (d < c => NalPad(b, d) < NalPad(b, c)) /\ (c < d => NalPad(b, c) < NalPad(b, d))
    BY <1>1, <2>1, PadBehindCode
  <2>. HIDE DEF c
  <2>. QED  BY <1>1, <1>2, <2>1, <2>2, <2>3
<1>3. (CHOOSE d \in Boundaries(b) : NalPad(b, d) = Pad(b, k)) = c
  <2>. HIDE DEF c
  <2>. QED  BY <1>1, <1>2
<1>4. KnownAt(b, Pad(b, k)) = 1 + Min(X)
  BY <1>3 DEF KnownAt, Telling
<1>5. /\ last \in {c + 3 + (HeaderLen - 1), c + 3 + HeaderLen} /\ last \in Nat
      /\ Reaches(b, c, last, Len(b))
  <2>. HIDE DEF c
  <2>1. CASE IsVcl(NalBytes(b, c)) /\ Opens(NalBytes(b, c))
    <3>1. last = c + 3 + HeaderLen
      BY <1>1, <2>1 DEF Telling, NalStart
    <3>2. c \in Openers(b)
      BY <1>1, <2>1 DEF Openers
    <3>3. Reaches(b, c, c + 3 + HeaderLen, Len(b))
      BY <1>1, <2>1, <3>2, TypedReaches DEF OpensShows
    <3>. HIDE DEF last
    <3>. QED  BY <1>1, <3>1, <3>3
  <2>2. CASE ~(IsVcl(NalBytes(b, c)) /\ Opens(NalBytes(b, c)))
    <3>1. last = c + 3 + (HeaderLen - 1)
      BY <1>1, <2>2 DEF Telling, NalStart
    <3>2. Reaches(b, c, c + 3 + (HeaderLen - 1), Len(b))
      BY <1>1, TypedReaches DEF TypeShows
    <3>. HIDE DEF last
    <3>. QED  BY <1>1, <3>1, <3>2
  <2>. QED  BY <2>1, <2>2
<1>. HIDE DEF c, last
<1>6. PICK q \in last..(Len(b) - 1) : /\ At(b, q) # 0
                                      /\ \A e \in StartCodes(b) : ~(c < e /\ e <= q)
  BY <1>5 DEF Reaches
<1>7. X \in SUBSET Nat /\ X # {} /\ q \in X
  BY <1>1, <1>5, <1>6
<1>8. Min(X) \in X /\ \A i \in X : Min(X) <= i
  <2>. HIDE DEF X
  <2>. QED  BY <1>7, MinExists
<1>. DEFINE least == Min(X)
<1>9. /\ least \in last..(Len(b) - 1) /\ At(b, least) # 0 /\ least <= q /\ least \in Nat
      /\ \A i \in last..(Len(b) - 1) : At(b, i) # 0 => least <= i
  BY <1>7, <1>8
<1>. HIDE DEF X, least
<1>10. ASSUME least < hi PROVE Reaches(b, c, last, hi)
  <2>1. \A e \in StartCodes(b) : ~(c < e /\ e <= least)
    <3>. SUFFICES ASSUME NEW e \in StartCodes(b), c < e, e <= least PROVE FALSE
      OBVIOUS
    <3>1. e \in Nat /\ e <= q
      BY <1>1, <1>6, <1>9, CodeRange
    <3>. QED  BY <1>6, <3>1
  <2>2. least \in last..(hi - 1)
    BY <1>1, <1>5, <1>9, <1>10
  <2>. QED  BY <1>9, <2>1, <2>2 DEF Reaches
<1>11. ASSUME Reaches(b, c, last, hi) PROVE least < hi
  <2>1. PICK i \in last..(hi - 1) : At(b, i) # 0
    BY <1>11 DEF Reaches
  <2>2. i \in last..(Len(b) - 1)
    BY <1>1, <1>5, <2>1
  <2>. QED  BY <1>9, <2>1, <2>2
<1>12. 1 + least \in Nat /\ (1 + least <= hi <=> least < hi)
  BY <1>9
<1>. QED  BY <1>4, <1>10, <1>11, <1>12 DEF c, last, least

\* Every access unit but the first begins at an opener, and the first at the
\* first NAL that has a type.
LEMMA LaterOpens ==
    ASSUME NEW b \in Seq(Byte), NEW k \in 1..Units(b)
    PROVE  /\ k # 1 => Codes(b)[k] \in Openers(b)
           /\ FirstFrom(b, 0, Codes(b)[1])
<1>1. /\ Units(b) \in Nat /\ 1 \in 1..Units(b)
      /\ \A j \in 1..Units(b) : Codes(b)[j] \in Boundaries(b) /\ Codes(b)[j] \in Nat
      /\ \A c \in Boundaries(b) : \E j \in 1..Units(b) : Codes(b)[j] = c
      /\ \A i, j \in 1..Units(b) : i < j => Codes(b)[i] < Codes(b)[j]
  <2>1. Units(b) \in Nat
    BY CodesOfUnits
  <2>2. 1 \in 1..Units(b)
    BY <2>1
  <2>. QED  BY <2>1, <2>2, CodesOfUnits
<1>2. \A d \in Typed(b) : d \in Nat
  BY CodeRange DEF Typed
<1>3. ASSUME k # 1 PROVE Codes(b)[k] \in Openers(b)
  <2>1. 1 < k
    BY <1>1, <1>3
  <2>2. Codes(b)[1] \in Typed(b) /\ Codes(b)[1] < Codes(b)[k]
    BY <1>1, <2>1, BoundaryIsTyped
  <2>3. ~(\A d \in Typed(b) : Codes(b)[k] <= d)
    BY <1>1, <2>2
  <2>. QED  BY <1>1, <2>3, BoundaryDef
<1>4. ASSUME NEW d \in Typed(b) PROVE Codes(b)[1] <= d
  <2>. DEFINE T == Typed(b)
              least == Min(T)
  <2>1. T \in SUBSET Nat /\ T # {}
    BY <1>2
  <2>2. least \in T /\ \A x \in T : least <= x
    <3>. HIDE DEF T
    <3>. QED  BY <2>1, MinExists
  <2>. HIDE DEF least
  <2>3. least \in Boundaries(b)
    BY <2>2, BoundaryDef
  <2>4. PICK j \in 1..Units(b) : Codes(b)[j] = least
    BY <1>1, <2>3
  <2>5. j = 1 \/ 1 < j
    BY <1>1
  <2>6. Codes(b)[1] <= Codes(b)[j] /\ Codes(b)[1] \in Nat
    BY <1>1, <2>5
  <2>. QED  BY <1>2, <2>2, <2>4, <2>6
<1>. QED  BY <1>3, <1>4 DEF FirstFrom

\* For every access unit but the first these are the bytes that show it opens,
\* and for the first they are no less than its header.
LEMMA KnownAtShows ==
    ASSUME Kind = "Nal", NEW b \in Seq(Byte), NEW k \in 1..Units(b), NEW hi \in 0..Len(b)
    PROVE  /\ KnownAt(b, Pad(b, k)) \in Nat
           /\ k # 1 => (KnownAt(b, Pad(b, k)) <= hi <=> OpensShows(b, Codes(b)[k], hi))
           /\ KnownAt(b, Pad(b, k)) <= hi => TypeShows(b, Codes(b)[k], hi)
<1>. DEFINE c == Codes(b)[k]
            last == Telling(b, c)
<1>1. c \in Boundaries(b) /\ c \in Typed(b) /\ c \in Nat /\ HeaderLen \in 1..2
  BY CodesOfUnits, BoundaryIsTyped, HeaderLenType
<1>2. KnownAt(b, Pad(b, k)) \in Nat /\ (KnownAt(b, Pad(b, k)) <= hi <=> Reaches(b, c, last, hi))
  BY KnownAtReaches
<1>3. k # 1 => c \in Openers(b)
  BY LaterOpens
<1>. HIDE DEF c
<1>4. Reaches(b, c, c + 3 + HeaderLen, hi) => Reaches(b, c, c + 3 + (HeaderLen - 1), hi)
  <2>1. \A q \in (c + 3 + HeaderLen)..(hi - 1) : q \in (c + 3 + (HeaderLen - 1))..(hi - 1)
    BY <1>1
  <2>. QED  BY <2>1 DEF Reaches
<1>5. CASE IsVcl(NalBytes(b, c)) /\ Opens(NalBytes(b, c))
  <2>1. last = c + 3 + HeaderLen
    BY <1>1, <1>5 DEF Telling, NalStart
  <2>. QED  BY <1>2, <1>4, <1>5, <2>1 DEF OpensShows, TypeShows, c
<1>6. CASE ~(IsVcl(NalBytes(b, c)) /\ Opens(NalBytes(b, c)))
  <2>1. last = c + 3 + (HeaderLen - 1)
    BY <1>1, <1>6 DEF Telling, NalStart
  <2>2. k # 1 => ~IsVcl(NalBytes(b, c))
    BY <1>3, <1>6 DEF Openers
  <2>. QED  BY <1>2, <2>1, <2>2 DEF OpensShows, TypeShows, c
<1>. QED  BY <1>5, <1>6

\* What a feed has seen that has looked at the bytes it holds: of the access
\* units behind the open one nothing that shows where the next begins.
LEMMA Settled ==
    ASSUME Kind = "Nal", FeedInv, SpanInv, Following, ~over, call # "cut"
    PROVE  LET n == Len(spans)
               N == Units(stream)
           IN  /\ N \in Nat /\ n \in 0..N /\ (N > 0 => n < N)
               /\ \A k \in 2..N : OpensShows(stream, Codes(stream)[k], fed) <=> k <= n + 1
               /\ N > 0 => \/ Base = Pad(stream, n + 1)
                           \/ /\ n = 0 /\ Base = 0
                              /\ ~TypeShows(stream, Codes(stream)[1], fed)
<1>. DEFINE n == Len(spans)
            N == Units(stream)
            c == Codes(stream)
            lo == Base
<1>1. /\ stream \in Seq(Byte) /\ held \in Seq(Byte) /\ fed \in 0..Len(stream)
      /\ lo \in 0..fed /\ lo \in Nat /\ held = Slice(stream, lo, fed)
  BY HeldIsWindow
<1>2. /\ OpensAt(stream, lo, n) /\ Agrees(stream, delivered \o out, spans)
      /\ n > 0 => OpensShows(stream, Codes(stream)[n + 1], fed)
      /\ PendingAt(held) = 0
  BY DEF Following
<1>3. /\ N \in Nat /\ n \in Nat /\ n <= N
      /\ \A k \in 1..N : c[k] \in Boundaries(stream) /\ c[k] \in StartCodes(stream)
                         /\ c[k] \in Typed(stream) /\ c[k] \in Nat
      /\ \A i, j \in 1..N : i < j => c[i] < c[j]
  <2>1. n \in Nat
    BY LenProperties DEF SpanInv
  <2>. QED  BY <1>1, <1>2, <2>1, CodesOfUnits, BoundaryIsTyped DEF Agrees
<1>. HIDE DEF n, lo
<1>4. N > 0 => n < N
  BY <1>1, <1>2, <1>3, OpenUnit
<1>5. PICK m \in 0..(N - n) : ShowsNext(stream, lo, fed, n, m)
  <2>1. n \in 0..N
    BY <1>3
  <2>. QED  BY <1>1, <1>2, <2>1, WindowUnits
<1>6. /\ Units(held) = m /\ (m = 0 \/ m = 1) /\ (m = 1 => Pad(held, 1) = 0)
      /\ \A k \in (n + 1)..N : Known(stream, lo, c[k], fed) <=> k <= n + m
  <2>1. Units(held) = m /\ \A k \in (n + 1)..N : Known(stream, lo, c[k], fed) <=> k <= n + m
    BY <1>1, <1>5 DEF ShowsNext
  <2>2. Units(held) \in Nat /\ Units(held) <= 1 /\ (Units(held) = 1 => Pad(held, 1) = 0)
    BY <1>1, <1>2, NothingPending
  <2>. QED  BY <2>1, <2>2
<1>. HIDE DEF N
<1>7. ASSUME NEW k \in 2..N, k <= n + 1 PROVE OpensShows(stream, c[k], fed)
  <2>1. k \in 1..N /\ n > 0 /\ n + 1 \in 1..N
    BY <1>3, <1>4, <1>7
  <2>. DEFINE d == c[n + 1]
  <2>2. d \in StartCodes(stream) /\ d \in Nat /\ OpensShows(stream, d, fed)
    BY <1>2, <1>3, <2>1
  <2>3. k = n + 1 \/ c[k] < d
    BY <1>3, <1>7, <2>1
  <2>. HIDE DEF d
  <2>4. ASSUME c[k] < d PROVE OpensShows(stream, c[k], fed)
    <3>. DEFINE e == c[k]
    <3>1. e \in Typed(stream) /\ e \in Nat /\ e \in Openers(stream)
      BY <1>1, <1>3, <2>1, LaterOpens DEF N
    <3>2. d \in TypedIn(stream, 0, fed)
      BY <2>2 DEF TypedIn, OpensShows
    <3>3. fed \in 0..Len(stream) /\ 0 \in 0..fed
      BY <1>1
    <3>. HIDE DEF e
    <3>4. e \in OpenersIn(stream, 0, fed)
      <4>1. e < d
        BY <2>4 DEF e
      <4>. QED  BY <1>1, <3>1, <3>2, <3>3, <4>1, TypedInRange
    <3>5. OpensShows(stream, e, fed)
      BY <3>4 DEF OpenersIn
    <3>. QED  BY <3>5 DEF e
  <2>. QED  BY <2>2, <2>3, <2>4 DEF d
<1>8. ASSUME NEW k \in 2..N, ~(k <= n + 1) PROVE ~OpensShows(stream, c[k], fed)
  <2>1. k \in (n + 1)..N /\ ~(k <= n + m)
    BY <1>3, <1>6, <1>8
  <2>2. ~Known(stream, lo, c[k], fed)
    BY <1>6, <2>1
  <2>. QED  BY <2>2 DEF Known, OpensShows
<1>9. ASSUME N > 0
      PROVE  \/ lo = Pad(stream, n + 1)
             \/ n = 0 /\ lo = 0 /\ ~TypeShows(stream, c[1], fed)
  <2>1. CASE n < N /\ lo = Pad(stream, n + 1)
    BY <2>1
  <2>2. CASE n = 0 /\ lo = 0
    <3>1. 1 \in 1..N /\ 1 \in (n + 1)..N
      BY <1>3, <1>9, <2>2
    <3>2. CASE m = 1
      <4>1. 1 \in 1..m
        BY <3>2
      <4>2. Pad(held, 1) = Pad(stream, n + 1) - lo /\ Pad(held, 1) = 0
        BY <1>1, <1>5, <1>6, <3>2, <4>1 DEF ShowsNext
      <4>3. Pad(stream, 1) \in Nat
        BY <1>1, <3>1, PadsAscend DEF N
      <4>. QED  BY <2>2, <4>2, <4>3
    <3>3. CASE m = 0
      <4>1. ~(1 <= n + m)
        BY <2>2, <3>3
      <4>2. ~Known(stream, lo, c[1], fed)
        BY <1>6, <3>1, <4>1
      <4>3. FirstFrom(stream, lo, c[1])
        BY <1>1, <2>2, <3>1, LaterOpens DEF N
      <4>. QED  BY <2>2, <4>2, <4>3 DEF Known
    <3>. QED  BY <1>6, <3>2, <3>3
  <2>. QED  BY <1>2, <2>1, <2>2 DEF OpensAt, N
<1>10. n \in 0..N
  BY <1>3
<1>. QED  BY <1>3, <1>4, <1>7, <1>8, <1>9, <1>10 DEF n, N, lo

\* A carrier is not kept back: for every H.264 or HEVC stream and chunking, it
\* is out as soon as the bytes that show where the next one begins are in.
THEOREM NalNothingKeptBack ==
    ASSUME Kind = "Nal"
    PROVE  Spec => []NothingKeptBack
<1>1. FeedInv /\ SpanInv /\ FollowInv => NothingKeptBack
  <2>. DEFINE n == Len(spans)
              N == Units(stream)
              starts == Starts(stream)
              shown == {k \in 2..Len(starts) : KnownAt(stream, starts[k]) <= fed}
  <2>. SUFFICES ASSUME FeedInv, SpanInv, FollowInv, call = "idle", ~over, dropped = 0
                PROVE  Len(delivered) = Cardinality(shown)
    BY DEF NothingKeptBack
  <2>1. stream \in Seq(Byte) /\ fed \in 0..Len(stream)
    BY HeldIsWindow
  <2>2. starts = [k \in 1..N |-> Pad(stream, k)] /\ Len(starts) = N
    BY <2>1, NalStarts
  <2>3. /\ N \in Nat /\ n \in 0..N /\ (N > 0 => n < N)
        /\ \A k \in 2..N : OpensShows(stream, Codes(stream)[k], fed) <=> k <= n + 1
    BY Settled DEF FollowInv
  <2>4. Len(delivered) = n
    <3>1. out = << >> /\ Len(spans) = Len(delivered) + Len(out) /\ Len(delivered) \in Nat
      BY LenProperties DEF SpanInv, SpansDisjoint
    <3>2. Len(spans) = Len(delivered)
      BY <3>1, EmptySeq
    <3>. QED  BY <3>2
  <2>5. ASSUME NEW k \in 2..N PROVE KnownAt(stream, starts[k]) <= fed <=> k <= n + 1
    <3>1. k \in 1..N /\ k # 1
      BY <2>3
    <3>2. starts[k] = Pad(stream, k)
      BY <2>2, <3>1
    <3>3. KnownAt(stream, Pad(stream, k)) <= fed <=> OpensShows(stream, Codes(stream)[k], fed)
      BY <2>1, <3>1, KnownAtShows
    <3>. QED  BY <2>3, <3>2, <3>3
  <2>. HIDE DEF n, N, starts
  <2>6. shown = 2..(n + 1)
    <3>1. \A k \in 2..(n + 1) : k \in 2..N
      BY <2>3
    <3>2. \A k \in shown : k \in 2..(n + 1)
      BY <2>2, <2>3, <2>5
    <3>3. \A k \in 2..(n + 1) : k \in shown
      BY <2>2, <2>3, <2>5, <3>1
    <3>. HIDE DEF shown
    <3>. QED  BY <3>2, <3>3
  <2>7. Cardinality(2..(n + 1)) = n
    <3>1. n \in Nat
      BY <2>3
    <3>2. Cardinality(2..(n + 1)) = IF 2 <= n + 1 THEN n + 1 - 2 + 1 ELSE 0
      BY <3>1, FS_Interval
    <3>. QED  BY <3>1, <3>2
  <2>. QED  BY <2>4, <2>6, <2>7
<1>. QED
  BY <1>1, FeedInvariant, SpanInvariant, FollowInvariant, PTL

\* The limit is the caller's promise that no carrier is longer, and keeping it is
\* enough: for every H.264 or HEVC stream whose carriers, each with the first
\* bytes of the next, fit in it, nothing is dropped however the chunks fall.
THEOREM NalRoomIsEnough ==
    ASSUME Kind = "Nal"
    PROVE  Spec => []RoomIsEnough
<1>1. Init => RoomIsEnough
  BY DEF Init, RoomIsEnough
<1>2. ASSUME FeedInv, SpanInv, FollowInv, EndsInv, RoomIsEnough, [Next]_vars
      PROVE  RoomIsEnough'
  <2>1. stream' = stream
    BY <1>2 DEF Next, PushSteps, Push, Drain, CutReturns, CutFails, WithinLimit, OverLimit,
                Return, Finish, Done, vars
  <2>2. dropped' = dropped \/ OverLimit
    <3>1. ~CutFails
      BY NalNeverFails DEF CutFails
    <3>. QED
      BY <1>2, <3>1 DEF Next, PushSteps, Push, Drain, CutReturns, WithinLimit, Finish, Done, vars
  <2>3. CASE dropped' = dropped
    BY <1>2, <2>1, <2>3 DEF RoomIsEnough
  <2>4. CASE OverLimit
    <3>. DEFINE starts == Starts(stream)
                n == Len(starts)
                need(k) == IF k < n THEN KnownAt(stream, starts[k + 1]) - 1 ELSE Len(stream)
                j == Len(spans) + 1
    <3>. SUFFICES ASSUME n > 0, KnownAt(stream, starts[1]) - 1 <= Limit,
                         \A k \in 1..n : need(k) - starts[k] <= Limit, dropped = 0
                  PROVE  FALSE
      <4>1. ~RoomIsEnough' => /\ n > 0 /\ KnownAt(stream, starts[1]) - 1 <= Limit
                              /\ \A k \in 1..n : need(k) - starts[k] <= Limit
        <5>1. Limit' = Limit
          BY DEF Limit
        <5>. QED  BY <2>1, <5>1 DEF RoomIsEnough
      <4>2. ~RoomIsEnough' => (RoomIsEnough => dropped = 0)
        BY <4>1 DEF RoomIsEnough, Readable
      <4>. QED  BY <1>2, <4>1, <4>2
    <3>1. ~over /\ call = "settle" /\ Len(held) > Limit
      BY <1>2, <2>4 DEF OverLimit, EndsInv
    <3>2. /\ stream \in Seq(Byte) /\ fed \in 0..Len(stream) /\ Len(held) \in Nat /\ Limit \in Nat
          /\ Base \in Nat /\ Base + Len(held) = fed /\ Len(stream) \in Nat /\ fed \in Nat
      BY <1>2, HeldIsWindow, LimitType
    <3>3. starts = [k \in 1..Units(stream) |-> Pad(stream, k)] /\ n = Units(stream)
      BY <3>2, NalStarts
    <3>4. /\ n \in Nat /\ Len(spans) \in 0..n /\ Len(spans) < n
          /\ \A k \in 2..n : OpensShows(stream, Codes(stream)[k], fed) <=> k <= j
          /\ \/ Base = Pad(stream, j)
             \/ Base = 0 /\ ~TypeShows(stream, Codes(stream)[1], fed)
      BY <1>2, <3>1, <3>3, Settled DEF FollowInv
    <3>. HIDE DEF starts, n, Base
    <3>5. j \in 1..n /\ 1 \in 1..n
      BY <3>4
    <3>. HIDE DEF j
    <3>6. \A k \in 1..n : starts[k] = Pad(stream, k)
      BY <3>3
    <3>7. CASE Base = Pad(stream, j)
      <4>1. starts[j] = Base /\ need(j) - starts[j] <= Limit
        BY <3>5, <3>6, <3>7
      <4>2. need(j) \in Int /\ fed <= need(j)
        <5>1. CASE j < n
          <6>. DEFINE k == j + 1
          <6>1. k \in 1..n /\ k \in 2..n /\ k # 1 /\ ~(k <= j)
            BY <3>4, <3>5, <5>1
          <6>2. need(j) = KnownAt(stream, starts[k]) - 1
            BY <5>1
          <6>. HIDE DEF k, need
          <6>3. /\ KnownAt(stream, Pad(stream, k)) \in Nat
                /\ KnownAt(stream, Pad(stream, k)) <= fed
                       <=> OpensShows(stream, Codes(stream)[k], fed)
            BY <3>2, <3>3, <6>1, KnownAtShows
          <6>4. ~(KnownAt(stream, Pad(stream, k)) <= fed)
            BY <3>4, <6>1, <6>3
          <6>5. need(j) = KnownAt(stream, Pad(stream, k)) - 1
            BY <3>6, <6>1, <6>2
          <6>. QED  BY <3>2, <6>3, <6>4, <6>5
        <5>2. CASE ~(j < n)
          <6>1. need(j) = Len(stream)
            BY <5>2
          <6>. HIDE DEF need
          <6>. QED  BY <3>2, <6>1
        <5>. QED  BY <5>1, <5>2
      <4>. HIDE DEF need
      <4>. QED  BY <3>1, <3>2, <4>1, <4>2
    <3>8. CASE Base = 0 /\ ~TypeShows(stream, Codes(stream)[1], fed)
      <4>1. /\ KnownAt(stream, Pad(stream, 1)) \in Nat
            /\ KnownAt(stream, Pad(stream, 1)) <= fed
                   => TypeShows(stream, Codes(stream)[1], fed)
        BY <3>2, <3>3, <3>5, KnownAtShows
      <4>2. KnownAt(stream, Pad(stream, 1)) - 1 <= Limit
        BY <3>5, <3>6
      <4>. QED  BY <3>1, <3>2, <3>8, <4>1, <4>2
    <3>. QED  BY <3>4, <3>7, <3>8
  <2>. QED  BY <2>2, <2>3, <2>4
<1>3. FeedInv /\ SpanInv /\ FollowInv /\ EndsInv /\ RoomIsEnough /\ [Next]_vars => RoomIsEnough'
  BY <1>2
<1>. QED
  BY <1>1, <1>3, FeedInvariant, SpanInvariant, FollowInvariant, EndsInvariant, PTL DEF Spec

-----------------------------------------------------------------------------
\* The places of carriers, wherever the bytes held begin. An access unit of the
\* stream that opens behind another which lies in a window is an access unit of
\* the window, once the window shows that it opens.
LEMMA ShownBehind ==
    ASSUME NEW b \in Seq(Byte), NEW hi \in 0..Len(b), NEW lo \in 0..hi,
           NEW k \in 2..Units(b), lo <= Codes(b)[k - 1], OpensShows(b, Codes(b)[k], hi)
    PROVE  Codes(b)[k] - lo \in Boundaries(Slice(b, lo, hi))
<1>. DEFINE h == Slice(b, lo, hi)
            p == Codes(b)[k - 1]
            c == Codes(b)[k]
<1>1. /\ Units(b) \in Nat /\ k \in 1..Units(b) /\ k - 1 \in 1..Units(b) /\ k # 1
      /\ p \in Boundaries(b) /\ c \in Boundaries(b) /\ p \in Nat /\ c \in Nat /\ p < c
  <2>1. Units(b) \in Nat
    BY CodesOfUnits
  <2>2. k \in 1..Units(b) /\ k - 1 \in 1..Units(b) /\ k - 1 < k /\ k # 1
    BY <2>1
  <2>. QED  BY <2>1, <2>2, CodesOfUnits
<1>2. c \in Openers(b)
  BY <1>1, LaterOpens
<1>3. lo <= p /\ OpensShows(b, c, hi)
  OBVIOUS
<1>. HIDE DEF h, p, c
<1>4. p \in Typed(b) /\ c \in Typed(b) /\ c \in StartCodes(b)
  BY <1>1, BoundaryIsTyped
<1>5. SeenSlice(Slices(b), Openers(b), c)
  <2>1. ~(\A d \in Typed(b) : c <= d)
    BY <1>1, <1>4
  <2>. QED  BY <1>1, <2>1, BoundaryDef
<1>6. PICK s \in Slices(b) : s < c /\ \A o \in Openers(b) : ~(s < o /\ o < c)
  BY <1>5 DEF SeenSlice
<1>7. s \in Typed(b) /\ s \in Nat
  BY CodeRange DEF Slices, Typed
<1>8. p <= s
  <2>1. CASE \A d \in Typed(b) : p <= d
    BY <1>7, <2>1
  <2>2. CASE p \in Openers(b)
    <3>1. ~(s < p)
      BY <1>1, <1>6, <2>2
    <3>. QED  BY <1>1, <1>7, <3>1
  <2>. QED  BY <1>1, <2>1, <2>2, BoundaryDef
<1>9. lo <= s /\ lo <= c
  BY <1>1, <1>3, <1>7, <1>8
<1>10. c \in OpenersIn(b, lo, hi) /\ c \in TypedIn(b, lo, hi)
  BY <1>2, <1>3, <1>4, <1>9 DEF OpenersIn, TypedIn, OpensShows
<1>11. s \in TypedIn(b, lo, hi)
  BY <1>6, <1>7, <1>9, <1>10, TypedInRange
<1>12. c - lo \in Openers(h) /\ s - lo \in Slices(h)
  <2>1. c \in Int /\ s \in Int
    BY <1>1, <1>7
  <2>. QED  BY <1>10, <1>11, <2>1, WindowSets DEF h
<1>13. ASSUME NEW r \in Openers(h), s - lo < r, r < c - lo PROVE FALSE
  <2>. DEFINE o == r + lo
  <2>1. r \in Int /\ o \in Int /\ o - lo = r /\ s < o /\ o < c
    <3>1. r \in Int
      BY DEF Openers, Typed, StartCodes
    <3>. QED  BY <1>1, <1>7, <1>13, <3>1
  <2>. HIDE DEF o
  <2>2. o \in OpenersIn(b, lo, hi)
    BY <2>1, WindowSets DEF h
  <2>3. o \in Openers(b)
    BY <2>2 DEF OpenersIn
  <2>. QED  BY <1>6, <2>1, <2>3
<1>14. s - lo < c - lo
  BY <1>1, <1>6, <1>7
<1>15. SeenSlice(Slices(h), Openers(h), c - lo)
  BY <1>12, <1>13, <1>14 DEF SeenSlice
<1>16. c - lo \in Boundaries(h)
  BY <1>12, <1>15, BoundaryDef
<1>. QED  BY <1>16 DEF h, c

\* A NAL of the stream that shows in a window comes no earlier than the first
\* access unit the window shows.
LEMMA ShownFirst ==
    ASSUME NEW b \in Seq(Byte), NEW hi \in 0..Len(b), NEW lo \in 0..hi,
           NEW c \in TypedIn(b, lo, hi)
    PROVE  /\ 1 \in 1..Units(Slice(b, lo, hi))
           /\ lo + Codes(Slice(b, lo, hi))[1] <= c
<1>. DEFINE h == Slice(b, lo, hi)
            x == c - lo
<1>1. h \in Seq(Byte)
  BY SliceProperties
<1>2. c \in Nat /\ x \in Typed(h)
  <2>1. c \in Nat /\ c \in Int
    BY TypedInRange
  <2>. QED  BY <2>1, WindowSets
<1>. HIDE DEF h, x
<1>3. Typed(h) \in SUBSET Nat /\ Typed(h) # {}
  BY <1>1, <1>2, CodeRange DEF Typed
<1>4. Min(Typed(h)) \in Typed(h) /\ \A y \in Typed(h) : Min(Typed(h)) <= y
  BY <1>3, MinExists
<1>5. Min(Typed(h)) \in Boundaries(h)
  BY <1>4, BoundaryDef
<1>6. Units(h) \in Nat /\ \E k \in 1..Units(h) : Codes(h)[k] = Min(Typed(h))
  BY <1>1, <1>5, CodesOfUnits
<1>7. 1 \in 1..Units(h)
  BY <1>6
<1>8. Codes(h)[1] <= x /\ Codes(h)[1] \in Nat
  BY <1>1, <1>2, <1>7, LaterOpens, CodesOfUnits, CodeRange DEF FirstFrom, Typed
<1>9. lo + Codes(h)[1] <= c
  BY <1>2, <1>8 DEF x
<1>. QED  BY <1>7, <1>9 DEF h

\* What of the stream is behind the access units a window shows. Let the first p
\* access units of the stream account for all that begin before the window. Then
\* the first p + j - 1 account for all that begin before the j-th of the window.
LEMMA CodesBehind ==
    ASSUME NEW b \in Seq(Byte), NEW hi \in 0..Len(b), NEW lo \in 0..hi, NEW p \in Nat,
           \A k \in 1..Units(b) : p < k => lo <= Pad(b, k),
           NEW j \in 1..Units(Slice(b, lo, hi))
    PROVE  \A k \in 1..Units(b) : p + j - 1 < k => lo + Codes(Slice(b, lo, hi))[j] <= Codes(b)[k]
<1>. DEFINE h == Slice(b, lo, hi)
            N == Units(b)
            U == Units(h)
            c == Codes(b)
            x == Codes(h)
            Good == {i \in 1..U : \A k \in 1..N : p + i - 1 < k => lo + x[i] <= c[k]}
<1>1. h \in Seq(Byte) /\ lo \in Nat /\ hi \in Nat
  BY SliceProperties, LenProperties
<1>. HIDE DEF h
<1>2. /\ N \in Nat /\ U \in Nat
      /\ \A k \in 1..N : /\ c[k] \in Boundaries(b) /\ c[k] \in StartCodes(b)
                         /\ c[k] \in Typed(b) /\ c[k] \in Nat
      /\ \A i, k \in 1..N : i < k => c[i] < c[k]
      /\ \A i \in 1..U : /\ x[i] \in Boundaries(h) /\ x[i] \in Nat /\ x[i] \in Int
                         /\ x[i] \in Typed(h)
      /\ \A y \in Boundaries(h) : \E i \in 1..U : x[i] = y
      /\ \A i, k \in 1..U : i < k => x[i] < x[k]
  BY <1>1, CodesOfUnits, BoundaryIsTyped
<1>3. \A k \in 1..N : p < k => lo <= c[k]
  <2>1. \A k \in 1..N : Pad(b, k) \in Nat /\ Pad(b, k) <= c[k]
    BY PadsAscend
  <2>. HIDE DEF N, c
  <2>. QED  BY <1>1, <1>2, <2>1 DEF N
<1>4. \A i \in 1..U : x[i] + lo \in TypedIn(b, lo, hi)
  <2>. SUFFICES ASSUME NEW i \in 1..U PROVE x[i] + lo \in TypedIn(b, lo, hi)
    OBVIOUS
  <2>. DEFINE e == x[i] + lo
  <2>1. e \in Int /\ e - lo = x[i] /\ x[i] \in Typed(h)
    BY <1>1, <1>2
  <2>. HIDE DEF e
  <2>2. e - lo \in Typed(h)
    BY <2>1
  <2>3. e \in TypedIn(b, lo, hi)
    BY <2>1, <2>2, WindowSets DEF h
  <2>. QED  BY <2>3 DEF e
<1>5. ASSUME NEW k \in 1..N, NEW i \in 1..U, lo <= c[k], c[k] < lo + x[i]
      PROVE  c[k] \in TypedIn(b, lo, hi)
             /\ (c[k] \in Openers(b) => c[k] \in OpenersIn(b, lo, hi))
  <2>. DEFINE e == x[i] + lo
              d == c[k]
  <2>1. e \in TypedIn(b, lo, hi) /\ d \in Typed(b) /\ lo <= d /\ d < e
    BY <1>1, <1>2, <1>4, <1>5
  <2>. HIDE DEF d, e
  <2>2. d \in TypedIn(b, lo, hi) /\ (d \in Openers(b) => d \in OpenersIn(b, lo, hi))
    BY <2>1, TypedInRange
  <2>. QED  BY <2>2 DEF d
<1>. HIDE DEF N, U
<1>6. 1 \in Good
  <2>1. 1 \in 1..U
    BY <1>2 DEF U, h
  <2>2. ASSUME NEW k \in 1..N, p + 1 - 1 < k PROVE lo + x[1] <= c[k]
    <3>1. lo <= c[k] /\ c[k] \in Nat /\ x[1] \in Nat
      BY <1>2, <1>3, <2>1, <2>2
    <3>2. CASE c[k] < lo + x[1]
      <4>. DEFINE d == c[k]
      <4>1. d \in TypedIn(b, lo, hi)
        BY <1>5, <2>1, <3>1, <3>2
      <4>. HIDE DEF d, c, x
      <4>2. lo + Codes(h)[1] <= d
        BY <4>1, ShownFirst DEF h
      <4>. QED  BY <4>2 DEF d, x
    <3>. QED  BY <1>1, <3>1, <3>2
  <2>. QED  BY <2>1, <2>2
<1>7. ASSUME NEW i \in 1..(U - 1), i \in Good PROVE i + 1 \in Good
  <2>1. i \in 1..U /\ i + 1 \in 1..U /\ i \in Nat
    BY <1>2
  <2>2. ASSUME NEW k \in 1..N, p + (i + 1) - 1 < k PROVE lo + x[i + 1] <= c[k]
    <3>. SUFFICES ASSUME ~(lo + x[i + 1] <= c[k]) PROVE FALSE
      OBVIOUS
    <3>1. k - 1 \in 1..N /\ k \in 2..N /\ p + i - 1 < k - 1 /\ k - 1 < k /\ p < k - 1 /\ p < k
          /\ k # 1
      BY <1>2, <2>1, <2>2
    <3>2. lo + x[i] <= c[k - 1] /\ c[k - 1] < c[k] /\ lo <= c[k - 1] /\ lo <= c[k]
      BY <1>2, <1>3, <1>7, <3>1
    <3>3. c[k] \in Nat /\ c[k - 1] \in Nat /\ x[i] \in Nat /\ x[i + 1] \in Nat
      BY <1>2, <2>1, <3>1
    <3>4. c[k] < lo + x[i + 1]
      BY <1>1, <3>3
    <3>5. c[k] \in Openers(b)
      BY <3>1, LaterOpens DEF c, N
    <3>6. c[k] \in OpenersIn(b, lo, hi)
      BY <1>5, <2>1, <3>2, <3>4, <3>5
    <3>7. OpensShows(b, Codes(b)[k], hi) /\ lo <= Codes(b)[k - 1]
      BY <3>2, <3>6 DEF OpenersIn
    <3>8. c[k] - lo \in Boundaries(h)
      BY <3>1, <3>7, ShownBehind DEF h, N
    <3>9. PICK m \in 1..U : x[m] = c[k] - lo
      BY <1>2, <3>8
    <3>10. x[i] < x[m] /\ x[m] < x[i + 1] /\ x[m] \in Nat
      <4>1. x[m] \in Nat
        BY <1>2
      <4>. DEFINE v == x[i]
                  w == c[k - 1]
                  y == c[k]
                  z == x[m]
                  u == x[i + 1]
      <4>2. /\ v \in Nat /\ w \in Nat /\ y \in Nat /\ z \in Nat /\ u \in Nat
            /\ lo + v <= w /\ w < y /\ z = y - lo /\ y < lo + u
        BY <3>2, <3>3, <3>4, <3>9, <4>1
      <4>. HIDE DEF v, w, y, z, u
      <4>3. v < z /\ z < u
        BY <1>1, <4>2
      <4>. QED  BY <4>1, <4>3 DEF v, z, u
    <3>11. ~(m <= i) /\ ~(i + 1 <= m)
      <4>1. m <= i => m = i \/ x[m] < x[i]
        BY <1>2, <2>1
      <4>2. i + 1 <= m => i + 1 = m \/ x[i + 1] < x[m]
        BY <1>2, <2>1
      <4>. HIDE DEF x
      <4>. QED  BY <3>3, <3>10, <4>1, <4>2
    <3>. QED  BY <2>1, <3>11
  <2>. QED  BY <2>1, <2>2
<1>. HIDE DEF Good
<1>8. U \in Nat /\ 1 \in Nat /\ j \in 1..U
  BY <1>2 DEF U, h
<1>9. \A i \in 1..U : i \in Good
  BY <1>6, <1>7, <1>8, Upwards
<1>10. j \in Good
  BY <1>8, <1>9
<1>. QED  BY <1>10 DEF Good, N, h

LEMMA PadsBehind ==
    ASSUME NEW b \in Seq(Byte), NEW hi \in 0..Len(b), NEW lo \in 0..hi, NEW p \in Nat,
           \A k \in 1..Units(b) : p < k => lo <= Pad(b, k),
           NEW j \in 1..Units(Slice(b, lo, hi))
    PROVE  \A k \in 1..Units(b) : p + j - 1 < k => lo + Pad(Slice(b, lo, hi), j) <= Pad(b, k)
<1>. DEFINE h == Slice(b, lo, hi)
            x == Codes(h)[j]
            e == x + lo
<1>. SUFFICES ASSUME NEW k \in 1..Units(b), p + j - 1 < k
              PROVE  lo + Pad(h, j) <= Pad(b, k)
  OBVIOUS
<1>. DEFINE c == Codes(b)[k]
<1>1. h \in Seq(Byte) /\ lo \in Nat /\ hi \in Nat
  BY SliceProperties, LenProperties
<1>2. lo + x <= c
  BY CodesBehind
<1>3. j \in Nat /\ p < k /\ lo <= Pad(b, k)
  <2>1. Units(h) \in Nat /\ Units(b) \in Nat
    BY <1>1, CodesOfUnits
  <2>. QED  BY <2>1
<1>4. Pad(b, k) = NalPad(b, c) /\ Pad(h, j) = NalPad(h, x)
  BY DEF Pad
<1>. HIDE DEF h
<1>5. x \in Boundaries(h) /\ x \in StartCodes(h) /\ x \in Nat /\ c \in StartCodes(b) /\ c \in Nat
      /\ x \in Typed(h)
  BY <1>1, CodesOfUnits, BoundaryIsTyped DEF h
<1>. HIDE DEF x, c
<1>6. e \in Int /\ e - lo = x
  BY <1>1, <1>5
<1>. HIDE DEF e
<1>7. e \in TypedIn(b, lo, hi)
  BY <1>5, <1>6, WindowSets DEF h
<1>8. e \in StartCodes(b) /\ e + 3 <= hi
  BY <1>7, TypedInRange
<1>9. CASE e = c
  <2>1. NalPad(h, x) = NalPad(b, c) - lo
    BY <1>3, <1>4, <1>5, <1>6, <1>8, <1>9, PadInSlice DEF h
  <2>2. NalPad(b, c) \in Nat
    BY <1>5, PadRange
  <2>. QED  BY <1>1, <1>4, <2>1, <2>2
<1>10. CASE e # c
  <2>1. e < c
    BY <1>1, <1>2, <1>5, <1>6, <1>10
  <2>2. e + 3 <= NalPad(b, c) /\ NalPad(b, c) \in 0..c
    BY <1>5, <1>8, <2>1, PadBehindCode, PadRange
  <2>3. NalPad(h, x) \in 0..x
    BY <1>1, <1>5, PadRange
  <2>. QED  BY <1>1, <1>4, <1>5, <1>6, <2>2, <2>3
<1>. QED  BY <1>9, <1>10

\* Of those behind the last access unit a window shows no opener shows, and only
\* the first of them can begin in the window.
LEMMA NoneShown ==
    ASSUME NEW b \in Seq(Byte), NEW hi \in 0..Len(b), NEW lo \in 0..hi, NEW p \in Nat,
           \A k \in 1..Units(b) : p < k => lo <= Pad(b, k),
           NEW k \in 1..Units(b), p + Units(Slice(b, lo, hi)) < k
    PROVE  /\ ~OpensShows(b, Codes(b)[k], hi) /\ lo <= Codes(b)[k]
           /\ Units(Slice(b, lo, hi)) = 0 => ~TypeShows(b, Codes(b)[k], hi)
<1>. DEFINE h == Slice(b, lo, hi)
            U == Units(h)
            c == Codes(b)[k]
<1>1. h \in Seq(Byte) /\ lo \in Nat /\ hi \in Nat
  BY SliceProperties, LenProperties
<1>2. U \in Nat /\ Units(b) \in Nat
  BY <1>1, CodesOfUnits
<1>3. c \in StartCodes(b) /\ c \in Nat /\ Pad(b, k) <= c /\ Pad(b, k) \in Nat
  BY CodesOfUnits, PadsAscend
<1>4. lo <= c
  <2>1. p < k
    BY <1>2
  <2>2. lo <= Pad(b, k)
    BY <2>1
  <2>. HIDE DEF c
  <2>. QED  BY <1>1, <1>3, <2>2
<1>5. ASSUME TypeShows(b, c, hi) PROVE 1 \in 1..U
  <2>. HIDE DEF c
  <2>1. c \in TypedIn(b, lo, hi)
    BY <1>3, <1>4, <1>5 DEF TypedIn
  <2>. QED  BY <2>1, ShownFirst
<1>6. ASSUME OpensShows(b, c, hi) PROVE FALSE
  <2>1. 1 \in 1..U
    BY <1>5, <1>6 DEF OpensShows
  <2>2. U \in 1..U /\ k \in 2..Units(b) /\ k - 1 \in 1..Units(b) /\ p + U - 1 < k - 1
    BY <1>2, <2>1
  <2>3. lo + Codes(h)[U] <= Codes(b)[k - 1]
    BY <2>2, CodesBehind
  <2>4. Codes(h)[U] \in Nat /\ Codes(b)[k - 1] \in Nat
        /\ Codes(b)[k - 1] < c
    <3>1. k - 1 < k
      BY <1>2
    <3>2. \A i \in 1..Units(h) : Codes(h)[i] \in Nat
      BY <1>1, CodesOfUnits
    <3>3. \A i \in 1..Units(b) : Codes(b)[i] \in Nat
      BY CodesOfUnits
    <3>4. Codes(b)[k - 1] < Codes(b)[k]
      BY <2>2, <3>1, CodesOfUnits
    <3>. QED  BY <2>2, <3>2, <3>3, <3>4
  <2>5. c - lo \in Boundaries(h)
    <3>1. lo <= Codes(b)[k - 1]
      BY <1>1, <2>3, <2>4
    <3>. QED  BY <1>6, <2>2, <3>1, ShownBehind
  <2>. HIDE DEF h, U, c
  <2>6. PICK i \in 1..U : Codes(h)[i] = c - lo
    BY <1>1, <2>5, CodesOfUnits DEF U
  <2>7. i = U \/ Codes(h)[i] < Codes(h)[U]
    <3>1. i = U \/ i < U
      BY <1>2
    <3>. QED  BY <1>1, <2>2, <3>1, CodesOfUnits DEF U
  <2>. QED  BY <1>1, <1>3, <2>3, <2>4, <2>6, <2>7
<1>7. U = 0 => ~TypeShows(b, c, hi)
  BY <1>5
<1>. QED  BY <1>4, <1>6, <1>7

LEMMA OneMoreBegins ==
    ASSUME NEW b \in Seq(Byte), NEW hi \in 0..Len(b), NEW lo \in 0..hi, NEW p \in Nat,
           \A k \in 1..Units(b) : p < k => lo <= Pad(b, k),
           NEW k \in 1..Units(b), p + Units(Slice(b, lo, hi)) + 1 < k
    PROVE  hi < Pad(b, k)
<1>. DEFINE U == Units(Slice(b, lo, hi))
            j == k - 1
            c == Codes(b)[k]
            d == Codes(b)[j]
<1>1. U \in Nat /\ Units(b) \in Nat /\ hi \in Nat
  BY SliceProperties, CodesOfUnits, LenProperties
<1>. HIDE DEF U
<1>2. j \in 1..Units(b) /\ j < k /\ p + U < j /\ (j = 1 => U = 0)
  BY <1>1 DEF U
<1>. HIDE DEF j
<1>3. /\ d \in StartCodes(b) /\ d \in Typed(b) /\ c \in StartCodes(b) /\ d < c
      /\ j # 1 => d \in Openers(b)
      /\ Pad(b, k) \in Nat /\ Pad(b, k) = NalPad(b, c)
  <2>1. d \in Boundaries(b) /\ c \in StartCodes(b) /\ d < c
    BY <1>2, CodesOfUnits
  <2>2. j # 1 => d \in Openers(b)
    BY <1>2, LaterOpens
  <2>3. Pad(b, k) \in Nat /\ Pad(b, k) = NalPad(b, c)
    BY PadsAscend DEF Pad
  <2>. HIDE DEF c, d
  <2>. QED  BY <2>1, <2>2, <2>3, BoundaryIsTyped
<1>4. ~OpensShows(b, d, hi) /\ lo <= d /\ (U = 0 => ~TypeShows(b, d, hi))
  BY <1>2, NoneShown DEF U
<1>. HIDE DEF c, d
<1>5. ASSUME Pad(b, k) <= hi PROVE FALSE
  <2>1. Whole(b, d, hi)
    BY <1>3, <1>5 DEF Whole
  <2>2. d \in TypedIn(b, lo, hi) /\ (d \in Openers(b) => d \in OpenersIn(b, lo, hi))
    BY <1>3, <1>4, <2>1, WholeNal
  <2>. QED  BY <1>2, <1>3, <1>4, <2>2 DEF TypedIn, OpenersIn
<1>. QED  BY <1>1, <1>3, <1>5

\* When the window reaches the end of the stream, none is left.
LEMMA NoneLeft ==
    ASSUME NEW b \in Seq(Byte), NEW lo \in 0..Len(b), NEW p \in Nat,
           \A k \in 1..Units(b) : p < k => lo <= Pad(b, k)
    PROVE  Units(b) <= p + Units(Slice(b, lo, Len(b)))
<1>. DEFINE U == Units(Slice(b, lo, Len(b)))
            N == Units(b)
            c == Codes(b)[N]
<1>1. Len(b) \in 0..Len(b) /\ U \in Nat /\ N \in Nat
  <2>1. Len(b) \in 0..Len(b)
    BY LenProperties
  <2>2. Slice(b, lo, Len(b)) \in Seq(Byte)
    BY <2>1, SliceProperties
  <2>. QED  BY <2>1, <2>2, CodesOfUnits
<1>. SUFFICES ASSUME p + U < N PROVE FALSE
  BY <1>1
<1>2. N \in 1..N /\ (N = 1 => U = 0)
  BY <1>1
<1>3. ~OpensShows(b, c, Len(b)) /\ (U = 0 => ~TypeShows(b, c, Len(b)))
  BY <1>1, <1>2, NoneShown
<1>4. c \in Boundaries(b) /\ (N # 1 => c \in Openers(b))
  BY <1>2, CodesOfUnits, LaterOpens
<1>. HIDE DEF c, U, N
<1>5. c \in Typed(b) /\ c \in StartCodes(b)
  BY <1>4, BoundaryIsTyped
<1>. QED  BY <1>2, <1>3, <1>4, <1>5, TypedReaches

\* What of the stream is before the access units a window shows. Let the access
\* unit q + 1 of the stream begin no later than the window, or q be none. Then
\* the access unit q + j begins no later than the j-th of the window.
LEMMA CodesAhead ==
    ASSUME NEW b \in Seq(Byte), NEW hi \in 0..Len(b), NEW lo \in 0..hi, NEW q \in Nat,
           q = 0 \/ (q + 1 \in 1..Units(b) /\ Pad(b, q + 1) <= lo),
           NEW j \in 1..Units(Slice(b, lo, hi))
    PROVE  q + j \in 1..Units(b) /\ Codes(b)[q + j] <= lo + Codes(Slice(b, lo, hi))[j]
<1>. DEFINE h == Slice(b, lo, hi)
            N == Units(b)
            U == Units(h)
            c == Codes(b)
            x == Codes(h)
            Good == {i \in 1..U : q + i \in 1..N /\ c[q + i] <= lo + x[i]}
<1>1. h \in Seq(Byte) /\ lo \in Nat /\ hi \in Nat
  BY SliceProperties, LenProperties
<1>. HIDE DEF h
<1>2. /\ N \in Nat /\ U \in Nat
      /\ \A k \in 1..N : c[k] \in Boundaries(b) /\ c[k] \in StartCodes(b) /\ c[k] \in Nat
      /\ \A y \in Boundaries(b) : \E k \in 1..N : c[k] = y
      /\ \A i, k \in 1..N : i < k => c[i] < c[k]
      /\ \A i \in 1..U : x[i] \in Boundaries(h) /\ x[i] \in Nat /\ x[i] \in Typed(h)
      /\ \A i, k \in 1..U : i < k => x[i] < x[k]
  BY <1>1, CodesOfUnits, BoundaryIsTyped
<1>3. ASSUME NEW i \in 1..U
      PROVE  lo + x[i] \in TypedIn(b, lo, hi) /\ lo + x[i] \in Typed(b)
             /\ lo + x[i] \in StartCodes(b) /\ lo + x[i] \in Nat
  <2>. DEFINE e == lo + x[i]
  <2>1. e \in Int /\ e - lo = x[i] /\ x[i] \in Typed(h)
    BY <1>1, <1>2
  <2>. HIDE DEF e
  <2>2. e - lo \in Typed(h)
    BY <2>1
  <2>3. e \in TypedIn(b, lo, hi)
    BY <2>1, <2>2, WindowSets DEF h
  <2>4. e \in Typed(b) /\ e \in StartCodes(b) /\ e \in Nat
    BY <2>3, TypedInRange
  <2>. QED  BY <2>3, <2>4 DEF e
<1>4. ASSUME NEW i \in 1..U, i # 1
      PROVE  \E k \in 1..N : c[k] = lo + x[i]
  <2>. DEFINE e == lo + x[i]
              d == lo + x[1]
  <2>1. 1 \in 1..U /\ 1 < i
    BY <1>2, <1>4
  <2>2. d \in TypedIn(b, lo, hi) /\ d < e /\ e \in Int /\ e - lo = x[i]
    BY <1>1, <1>2, <1>3, <2>1
  <2>3. x[i] \in Boundaries(h)
    BY <1>2
  <2>. HIDE DEF e, d
  <2>4. e - lo \in Boundaries(h)
    BY <2>2, <2>3
  <2>5. e \in Boundaries(b)
    BY <2>2, <2>4, LaterBoundary DEF h
  <2>. QED  BY <1>2, <2>5 DEF e
<1>. HIDE DEF N, U
<1>5. 1 \in Good
  <2>1. 1 \in 1..U
    BY <1>2 DEF U, h
  <2>. DEFINE e == lo + x[1]
  <2>2. e \in TypedIn(b, lo, hi) /\ e \in Typed(b) /\ e \in StartCodes(b) /\ e \in Nat /\ lo <= e
    BY <1>1, <1>2, <1>3, <2>1
  <2>3. CASE q = 0
    <3>1. 1 \in 1..N
      <4>1. Typed(b) \in SUBSET Nat /\ Typed(b) # {}
        BY <2>2, CodeRange DEF Typed
      <4>2. Min(Typed(b)) \in Typed(b) /\ \A y \in Typed(b) : Min(Typed(b)) <= y
        BY <4>1, MinExists
      <4>3. Min(Typed(b)) \in Boundaries(b)
        BY <4>2, BoundaryDef
      <4>4. \E k \in 1..N : c[k] = Min(Typed(b))
        BY <1>2, <4>3
      <4>. QED  BY <1>2, <4>4
    <3>2. c[1] <= e
      <4>1. FirstFrom(b, 0, c[1])
        BY <3>1, LaterOpens DEF N
      <4>. HIDE DEF e, c
      <4>. QED  BY <2>2, <4>1 DEF FirstFrom
    <3>3. q + 1 = 1
      BY <2>3
    <3>. QED  BY <2>1, <3>1, <3>2, <3>3
  <2>4. CASE q # 0
    <3>. DEFINE r == q + 1
    <3>1. r \in 1..N /\ Pad(b, r) <= lo /\ Pad(b, r) = NalPad(b, c[r])
      BY <2>4 DEF N, Pad
    <3>. HIDE DEF r
    <3>2. NalPad(b, c[r]) <= e
      <4>1. Pad(b, r) \in Nat
        BY <3>1, PadsAscend DEF N
      <4>. HIDE DEF e, c
      <4>. QED  BY <1>1, <2>2, <3>1, <4>1
    <3>3. c[r] \in StartCodes(b)
      BY <1>2, <3>1
    <3>4. c[r] <= e
      <4>. HIDE DEF e, c
      <4>. QED  BY <2>2, <3>2, <3>3, NoCodeInPad
    <3>. QED  BY <2>1, <3>1, <3>4 DEF r
  <2>. QED  BY <2>3, <2>4
<1>6. ASSUME NEW i \in 1..(U - 1), i \in Good PROVE i + 1 \in Good
  <2>1. i \in 1..U /\ i + 1 \in 1..U /\ i + 1 # 1 /\ i < i + 1
    BY <1>2
  <2>2. PICK m \in 1..N : c[m] = lo + x[i + 1]
    BY <1>4, <2>1
  <2>3. q + i \in 1..N /\ c[q + i] <= lo + x[i] /\ x[i] < x[i + 1]
    BY <1>2, <1>6, <2>1
  <2>4. c[q + i] < c[m]
    <3>. DEFINE v == x[i]
                w == x[i + 1]
                y == c[q + i]
                z == c[m]
    <3>1. v \in Nat /\ w \in Nat /\ y \in Nat /\ z \in Nat /\ z = lo + w /\ y <= lo + v /\ v < w
      BY <1>2, <2>1, <2>2, <2>3
    <3>. HIDE DEF v, w, y, z
    <3>2. y < z
      BY <1>1, <3>1
    <3>. QED  BY <3>2 DEF y, z
  <2>5. ~(m <= q + i)
    <3>1. m <= q + i => m = q + i \/ c[m] < c[q + i]
      BY <1>2, <2>3
    <3>2. c[m] \in Nat /\ c[q + i] \in Nat
      BY <1>2, <2>3
    <3>. HIDE DEF c
    <3>. QED  BY <2>4, <3>1, <3>2
  <2>6. q + (i + 1) \in 1..N /\ q + (i + 1) <= m
    BY <1>2, <2>1, <2>5
  <2>7. c[q + (i + 1)] <= c[m]
    <3>. DEFINE r == q + (i + 1)
    <3>1. r \in 1..N /\ (r = m \/ r < m)
      BY <1>2, <2>6
    <3>. HIDE DEF r
    <3>2. c[r] = c[m] \/ c[r] < c[m]
      BY <1>2, <3>1
    <3>3. c[r] \in Nat /\ c[m] \in Nat
      BY <1>2, <3>1
    <3>4. c[r] <= c[m]
      <4>. HIDE DEF c
      <4>. QED  BY <3>2, <3>3
    <3>. QED  BY <3>4 DEF r
  <2>. QED  BY <2>1, <2>2, <2>6, <2>7
<1>. HIDE DEF Good
<1>7. U \in Nat /\ 1 \in Nat /\ j \in 1..U
  BY <1>2 DEF U, h
<1>8. \A i \in 1..U : i \in Good
  BY <1>5, <1>6, <1>7, Upwards
<1>9. j \in Good
  BY <1>7, <1>8
<1>. QED  BY <1>9 DEF Good, N, h

LEMMA PadsAhead ==
    ASSUME NEW b \in Seq(Byte), NEW hi \in 0..Len(b), NEW lo \in 0..hi, NEW q \in Nat,
           q = 0 \/ (q + 1 \in 1..Units(b) /\ Pad(b, q + 1) <= lo),
           NEW j \in 2..Units(Slice(b, lo, hi))
    PROVE  q + j \in 1..Units(b) /\ Pad(b, q + j) <= lo + Pad(Slice(b, lo, hi), j)
<1>. DEFINE h == Slice(b, lo, hi)
            d == Codes(b)[q + j]
<1>1. h \in Seq(Byte) /\ lo \in Nat /\ hi \in Nat
  BY SliceProperties, LenProperties
<1>2. j \in 1..Units(h) /\ Units(h) \in Nat
  BY <1>1, CodesOfUnits
<1>3. q + j \in 1..Units(b) /\ d <= lo + Codes(h)[j]
  BY <1>2, CodesAhead
<1>. DEFINE e == Codes(h)[j] + lo
<1>4. e \in Boundaries(b) /\ lo + Pad(h, j) = NalPad(b, e)
  BY LaterStart
<1>5. Codes(h)[j] \in Nat /\ d <= e
  <2>1. \A i \in 1..Units(h) : Codes(h)[i] \in Nat
    BY <1>1, CodesOfUnits
  <2>2. Codes(h)[j] \in Nat
    BY <1>2, <2>1
  <2>. HIDE DEF h, d
  <2>. QED  BY <1>1, <1>3, <2>2 DEF h
<1>. HIDE DEF e, h
<1>6. d \in StartCodes(b) /\ e \in StartCodes(b) /\ Pad(b, q + j) = NalPad(b, d)
  <2>. DEFINE r == q + j
  <2>1. r \in 1..Units(b)
    BY <1>3
  <2>. HIDE DEF r
  <2>2. Codes(b)[r] \in StartCodes(b) /\ Pad(b, r) = NalPad(b, Codes(b)[r])
    BY <2>1, CodesOfUnits DEF Pad
  <2>. QED  BY <1>4, <2>2, BoundaryIsTyped DEF r
<1>. HIDE DEF d
<1>7. NalPad(b, d) <= NalPad(b, e)
  <2>1. d \in Nat /\ e \in Nat /\ NalPad(b, d) \in Nat /\ NalPad(b, e) \in Nat
    BY <1>6, CodeRange, PadRange
  <2>2. d < e => NalPad(b, d) < NalPad(b, e)
    BY <1>6, PadBehindCode
  <2>. QED  BY <1>5, <2>1, <2>2
<1>. QED  BY <1>3, <1>4, <1>6, <1>7 DEF h

\* How many of a set of offsets in order are below one of them.
LEMMA CountBelow ==
    ASSUME NEW n \in Nat, NEW f \in [1..n -> Nat],
           \A i, j \in 1..n : i < j => f[i] < f[j],
           NEW S, \A y : y \in S <=> \E i \in 1..n : y = f[i],
           NEW x \in Nat,
           NEW a \in 0..n, \A k \in 1..a : f[k] < x,
           NEW z \in Nat, \A k \in 1..n : z < k => x <= f[k],
           NEW T, \A y : y \in T <=> y \in S /\ y < x
    PROVE  Cardinality(T) \in a..z
<1>. DEFINE P == {k \in 0..n : k = 0 \/ f[k] < x}
            m == Max(P)
            g == [k \in 1..m |-> f[k]]
<1>1. P \in SUBSET (0..n) /\ P # {} /\ a \in P
  <2>1. a = 0 \/ a \in 1..a
    OBVIOUS
  <2>2. 0 \in P /\ a \in P
    BY <2>1
  <2>. QED  BY <2>2
<1>2. m \in P /\ \A k \in P : k <= m
  <2>. HIDE DEF P
  <2>. QED  BY <1>1, MaxExists
<1>3. m \in 0..n /\ (m = 0 \/ f[m] < x) /\ a <= m
  BY <1>1, <1>2
<1>. HIDE DEF m
<1>4. \A k \in 1..n : f[k] < x <=> k <= m
  <2>1. ASSUME NEW k \in 1..n, f[k] < x PROVE k <= m
    BY <1>2, <2>1
  <2>2. ASSUME NEW k \in 1..n, k <= m PROVE f[k] < x
    <3>1. m \in 1..n /\ f[m] < x /\ f[m] \in Nat /\ f[k] \in Nat /\ (k = m \/ k < m)
      BY <1>3, <2>2
    <3>2. k = m \/ f[k] < f[m]
      BY <3>1
    <3>. QED  BY <3>1, <3>2
  <2>. QED  BY <2>1, <2>2
<1>. HIDE DEF P
<1>5. m \in Nat /\ g \in [1..m -> Nat] /\ \A i, j \in 1..m : i < j => g[i] < g[j]
  BY <1>3
<1>6. \A y : y \in T <=> \E k \in 1..m : y = g[k]
  <2>1. ASSUME NEW y \in T PROVE \E k \in 1..m : y = g[k]
    <3>1. PICK k \in 1..n : y = f[k]
      BY <2>1
    <3>2. k \in 1..m
      BY <1>3, <1>4, <2>1, <3>1
    <3>. QED  BY <3>1, <3>2
  <2>2. ASSUME NEW k \in 1..m PROVE g[k] \in T
    <3>1. k \in 1..n /\ k <= m
      BY <1>3
    <3>. QED  BY <1>4, <3>1
  <2>. QED  BY <2>1, <2>2
<1>7. Cardinality(T) = m
  <2>. HIDE DEF g
  <2>. QED  BY <1>5, <1>6, AscendingUnique
<1>8. m <= z
  <2>1. m = 0 \/ m \in 1..n
    BY <1>3
  <2>2. m \in 1..n => f[m] < x /\ f[m] \in Nat
    BY <1>3
  <2>. QED  BY <1>3, <2>1, <2>2
<1>. QED  BY <1>3, <1>7, <1>8

\* In three bytes no access unit begins behind the first of them.
LEMMA ShortPending ==
    ASSUME Kind = "Nal", NEW b \in Seq(Byte), Len(b) <= 3
    PROVE  PendingAt(b) = 0
<1>1. Units(b) \in Nat /\ Len(b) \in Nat
  BY CodesOfUnits, LenProperties
<1>2. ASSUME NEW k \in 1..Units(b)
      PROVE  Pad(b, k) = 0 /\ Codes(b)[k] = 0
  <2>1. Pad(b, k) \in Nat /\ Pad(b, k) <= Codes(b)[k] /\ Codes(b)[k] + 3 <= Len(b)
        /\ Codes(b)[k] \in Nat
    BY PadsAscend, CodesOfUnits
  <2>. QED  BY <1>1, <2>1
<1>3. CASE Units(b) = 0
  BY <1>3, NothingPending
<1>4. CASE Units(b) # 0
  <2>1. 1 \in 1..Units(b) /\ Units(b) \in 1..Units(b)
    BY <1>1, <1>4
  <2>2. ~(1 < Units(b))
    <3>1. 1 < Units(b) => Codes(b)[1] < Codes(b)[Units(b)]
      BY <2>1, CodesOfUnits
    <3>. QED  BY <1>2, <2>1, <3>1
  <2>3. Units(b) = 1 /\ Pad(b, 1) = 0
    BY <1>1, <1>2, <2>1, <2>2
  <2>. QED  BY <2>3, NothingPending
<1>. QED  BY <1>3, <1>4

\* What a feed has of the stream behind it: of the access units that begin before
\* the bytes held, and of those before the end of each carrier that has come out,
\* at most two were lost for each drop; and a carrier ends no earlier than the
\* next in number begins, so no number is used up ahead of the stream.
PlaceInv ==
    /\ \A k \in 1..Units(stream) : Len(spans) + 2 * dropped < k => Base <= Pad(stream, k)
    /\ \A i \in 1..Len(spans) :
          /\ \A k \in 1..Units(stream) : i + 2 * dropped < k => spans[i].to <= Pad(stream, k)
          /\ \/ i + 1 \in 1..Units(stream) /\ Pad(stream, i + 1) <= spans[i].to
             \/ over /\ i = Len(spans) /\ spans[i].to = Len(stream)
    /\ ~over /\ call # "cut" => PendingAt(held) = 0

LEMMA PlaceHandOver ==
    ASSUME Kind = "Nal", FeedInv, SpanInv, PlaceInv, HandOver, ~over, UNCHANGED <<stream, dropped>>
    PROVE  LET n == Len(spans)
               m == Len(spans')
           IN  /\ n \in Nat /\ m \in Nat
               /\ m = n + (IF Units(held) = 0 THEN 0 ELSE Units(held) - 1)
               /\ \A i \in 1..m :
                     /\ \A k \in 1..Units(stream) :
                           i + 2 * dropped < k => spans'[i].to <= Pad(stream, k)
                     /\ i + 1 \in 1..Units(stream) /\ Pad(stream, i + 1) <= spans'[i].to
<1>. DEFINE n == Len(spans)
            e == Len(Complete(held))
            t == [k \in 1..e |-> [from |-> Base + Pad(held, k), to |-> Base + Pad(held, k + 1)]]
            p == n + 2 * dropped
            N == Units(stream)
            U == Units(held)
            lo == Base
<1>1. /\ stream \in Seq(Byte) /\ held \in Seq(Byte) /\ fed \in 0..Len(stream)
      /\ lo \in 0..fed /\ lo \in Nat /\ held = Slice(stream, lo, fed)
  BY HeldIsWindow
<1>2. e \in Nat /\ t \in Seq(Span) /\ spans' = spans \o t /\ e = IF U = 0 THEN 0 ELSE U - 1
  BY NalHandOver
<1>3. spans \in Seq(Span) /\ n \in Nat /\ dropped \in Nat /\ p \in Nat
  BY LenProperties DEF SpanInv, FeedInv, FieldsOK
<1>4. \A k \in 1..N : p < k => lo <= Pad(stream, k)
  BY DEF PlaceInv
<1>5. n = 0 \/ (n + 1 \in 1..N /\ Pad(stream, n + 1) <= lo)
  <2>. SUFFICES ASSUME n # 0 PROVE n + 1 \in 1..N /\ Pad(stream, n + 1) <= lo
    OBVIOUS
  <2>1. n \in 1..n
    BY <1>3
  <2>2. n + 1 \in 1..N /\ Pad(stream, n + 1) <= spans[n].to
    BY <2>1 DEF PlaceInv
  <2>3. spans[n].to <= lo /\ spans[n].to \in Nat
    <3>1. InOrder(spans, Base)
      BY DEF SpanInv, SpansDisjoint
    <3>2. \A k \in 1..Len(spans) : spans[k].to <= Base
      BY <3>1, Zenon DEF InOrder
    <3>3. spans[n] \in Span
      BY <1>3, <2>1
    <3>. QED  BY <2>1, <3>2, <3>3 DEF Span
  <2>4. Pad(stream, n + 1) \in Nat
    BY <1>1, <2>2, PadsAscend
  <2>. HIDE DEF n, N, lo
  <2>. QED  BY <1>1, <2>2, <2>3, <2>4
<1>6. Len(t) = e
  BY <1>2
<1>7. U \in Nat /\ N \in Nat
  BY <1>1, CodesOfUnits
<1>8. \A i \in 1..e : t[i].to = lo + Pad(held, i + 1)
  OBVIOUS
<1>. HIDE DEF t, e, n, N, U, lo, p
<1>9. Len(spans') = n + e
  BY <1>2, <1>3, <1>6, ConcatProperties DEF n
<1>10. ASSUME NEW i \in 1..(n + e)
       PROVE  /\ \A k \in 1..N : i + 2 * dropped < k => spans'[i].to <= Pad(stream, k)
              /\ i + 1 \in 1..N /\ Pad(stream, i + 1) <= spans'[i].to
  <2>1. spans'[i] = IF i <= n THEN spans[i] ELSE t[i - n]
    BY <1>2, <1>3, <1>6, ConcatProperties DEF n
  <2>2. CASE i <= n
    <3>1. i \in 1..Len(spans)
      BY <1>3, <2>2 DEF n
    <3>. QED  BY <2>1, <2>2, <3>1 DEF PlaceInv, N
  <2>3. CASE ~(i <= n)
    <3>. DEFINE j == i - n + 1
    <3>1. i - n \in 1..e /\ (i - n) + 1 = j /\ j \in 2..U /\ j \in 1..U /\ n + j = i + 1
          /\ p + j - 1 = i + 2 * dropped
      BY <1>2, <1>3, <1>7, <2>3 DEF p
    <3>2. spans'[i].to = lo + Pad(held, j)
      BY <1>8, <2>1, <2>3, <3>1
    <3>. HIDE DEF j
    <3>3. \A k \in 1..N : p + j - 1 < k => lo + Pad(held, j) <= Pad(stream, k)
      BY <1>1, <1>3, <1>4, <3>1, PadsBehind DEF N, U
    <3>4. n + j \in 1..N /\ Pad(stream, n + j) <= lo + Pad(held, j)
      BY <1>1, <1>3, <1>5, <3>1, PadsAhead DEF N, U
    <3>. QED  BY <3>1, <3>2, <3>3, <3>4
  <2>. QED  BY <2>2, <2>3
<1>. QED  BY <1>2, <1>3, <1>9, <1>10 DEF n, N, U

LEMMA PlaceStep ==
    ASSUME Kind = "Nal", FeedInv, SpanInv, EndsInv, PlaceInv, [Next]_vars
    PROVE  PlaceInv'
<1>. DEFINE N == Units(stream)
            U == Units(held)
<1>1. /\ stream \in Seq(Byte) /\ held \in Seq(Byte) /\ fed \in 0..Len(stream)
      /\ Base \in 0..fed /\ Base \in Nat /\ held = Slice(stream, Base, fed)
      /\ fed \in Nat /\ Len(held) \in Nat /\ Base + Len(held) = fed /\ Len(stream) \in Nat
  BY HeldIsWindow
<1>2. spans \in Seq(Span) /\ Len(spans) \in Nat /\ dropped \in Nat
  BY LenProperties DEF SpanInv, FeedInv, FieldsOK
<1>3. U \in Nat /\ N \in Nat /\ \A k \in 1..N : Pad(stream, k) \in Nat
  BY <1>1, CodesOfUnits, PadsAscend
<1>4. /\ \A k \in 1..N : Len(spans) + 2 * dropped < k => Base <= Pad(stream, k)
      /\ \A i \in 1..Len(spans) :
            /\ \A k \in 1..N : i + 2 * dropped < k => spans[i].to <= Pad(stream, k)
            /\ \/ i + 1 \in 1..N /\ Pad(stream, i + 1) <= spans[i].to
               \/ over /\ i = Len(spans) /\ spans[i].to = Len(stream)
      /\ ~over /\ call # "cut" => PendingAt(held) = 0
  BY DEF PlaceInv
<1>. HIDE DEF N, U

\* Nothing but the bytes held and the call have changed.
<1>5. ASSUME UNCHANGED <<stream, spans, over, dropped>>, Base' = Base,
             ~over' /\ call' # "cut" => PendingAt(held') = 0
      PROVE  PlaceInv'
  <2>. HIDE DEF Base
  <2>. QED  BY <1>4, <1>5 DEF PlaceInv, N
<1>6. ASSUME NEW n \in Chunks, Push(n)
      PROVE  PlaceInv'
  <2>1. n \in Nat /\ n <= Len(stream) - fed
    BY <1>1, <1>6, FeedAssumption DEF Push
  <2>2. /\ call' = "cut" /\ fed' = fed + n /\ held' = held \o SubSeq(stream, fed + 1, fed + n)
        /\ UNCHANGED <<stream, spans, over, dropped>>
    BY <1>6 DEF Push
  <2>3. Len(held') = Len(held) + n
    <3>. DEFINE t == SubSeq(stream, fed + 1, fed + n)
    <3>1. t \in Seq(Byte) /\ Len(t) = n
      BY <1>1, <2>1, SubSeqProperties
    <3>. HIDE DEF t
    <3>. QED  BY <1>1, <2>2, <3>1, ConcatProperties DEF t
  <2>4. Base' = Base
    <3>1. fed' = fed + n
      BY <2>2
    <3>2. fed \in Nat /\ Len(held) \in Nat
      BY <1>1
    <3>. QED  BY <2>1, <2>3, <3>1, <3>2 DEF Base
  <2>. QED  BY <1>5, <2>2, <2>4
<1>7. ASSUME HandOver, ~over, call = "cut", ~over', UNCHANGED <<stream, dropped>>,
             Base' = Base + PendingAt(held), call' # "cut" => PendingAt(held') = 0
      PROVE  PlaceInv'
  <2>1. /\ Len(spans') \in Nat
        /\ Len(spans') = Len(spans) + (IF U = 0 THEN 0 ELSE U - 1)
        /\ \A i \in 1..Len(spans') :
              /\ \A k \in 1..N : i + 2 * dropped < k => spans'[i].to <= Pad(stream, k)
              /\ i + 1 \in 1..N /\ Pad(stream, i + 1) <= spans'[i].to
    BY <1>7, PlaceHandOver DEF N, U
  <2>2. ASSUME NEW k \in 1..N, Len(spans') + 2 * dropped < k
        PROVE  Base + PendingAt(held) <= Pad(stream, k)
    <3>. DEFINE p == Len(spans) + 2 * dropped
    <3>0. p \in Nat
      BY <1>2
    <3>1. CASE U = 0
      <4>1. PendingAt(held) = 0
        BY <1>1, <3>1, NalPending DEF U
      <4>2. p < k
        BY <1>2, <2>1, <2>2, <3>1
      <4>3. Base <= Pad(stream, k)
        BY <1>4, <4>2
      <4>. HIDE DEF Base
      <4>. QED  BY <1>1, <4>1, <4>3
    <3>2. CASE U # 0
      <4>1. U \in 1..U /\ p + U - 1 < k
        BY <1>2, <1>3, <2>1, <2>2, <3>2
      <4>2. PendingAt(held) = Pad(held, U)
        BY <1>1, <3>2, NalPending DEF U
      <4>. DEFINE lo == Base
      <4>3. \A j \in 1..N : p < j => lo <= Pad(stream, j)
        BY <1>4
      <4>4. lo \in 0..fed /\ held = Slice(stream, lo, fed)
        BY <1>1
      <4>. HIDE DEF lo, p
      <4>5. lo + Pad(held, U) <= Pad(stream, k)
        BY <1>1, <3>0, <4>1, <4>3, <4>4, PadsBehind DEF N, U
      <4>. QED  BY <4>2, <4>5 DEF lo
    <3>. QED  BY <3>1, <3>2
  <2>. DEFINE lo == Base + PendingAt(held)
  <2>3. Base' = lo /\ \A k \in 1..N : Len(spans') + 2 * dropped < k => lo <= Pad(stream, k)
    BY <1>7, <2>2
  <2>. HIDE DEF lo, Base
  <2>. QED  BY <1>7, <2>1, <2>3 DEF PlaceInv, N
<1>8. CASE Drain
  <2>1. /\ HandOver /\ ~over /\ call = "cut" /\ call' = "cut" /\ held' = DropFront(held, PendingAt(held))
        /\ UNCHANGED <<stream, dropped, fed, over>>
    BY <1>8 DEF Drain, EndsInv
  <2>2. PendingAt(held) \in 0..Len(held)
    BY <1>1, PendingRange
  <2>3. Len(held') = Len(held) - PendingAt(held)
    BY <1>1, <2>1, <2>2, SubSeqProperties DEF DropFront
  <2>4. Base' = Base + PendingAt(held)
    BY <1>1, <2>1, <2>2, <2>3 DEF Base
  <2>. QED  BY <1>7, <2>1, <2>4
<1>9. CASE CutReturns
  <2>1. /\ HandOver /\ ~over /\ call = "cut" /\ PendingAt(held) = 0
        /\ UNCHANGED <<stream, dropped, fed, over, held>>
    BY <1>9 DEF CutReturns, EndsInv
  <2>2. Base' = Base + PendingAt(held)
    BY <1>1, <2>1 DEF Base
  <2>. QED  BY <1>7, <2>1, <2>2
<1>10. CASE CutFails
  BY <1>10, NalNeverFails DEF CutFails
<1>11. CASE WithinLimit
  <2>1. UNCHANGED <<stream, spans, over, dropped, held, fed>> /\ call # "cut"
    BY <1>11 DEF WithinLimit, Return
  <2>2. Base' = Base
    BY <2>1 DEF Base
  <2>. QED  BY <1>4, <1>5, <2>1, <2>2
<1>12. CASE OverLimit
  <2>1. /\ call = "settle" /\ Len(held) > Limit /\ dropped' = dropped + 1 /\ ~over
        /\ held' = DropFront(held, Len(held) - 3)
        /\ UNCHANGED <<stream, spans, over, fed>>
    BY <1>12 DEF OverLimit, Return, EndsInv
  <2>2. Len(held) - 3 \in 0..Len(held) /\ Limit \in Nat
    BY <1>1, <2>1, LimitType
  <2>3. Len(held') = 3 /\ held' \in Seq(Byte)
    BY <1>1, <2>1, <2>2, SubSeqProperties DEF DropFront
  <2>4. PendingAt(held') = 0
    <3>. DEFINE b == held'
    <3>1. b \in Seq(Byte) /\ Len(b) <= 3
      BY <2>3
    <3>. HIDE DEF b
    <3>2. PendingAt(b) = 0
      BY <3>1, ShortPending
    <3>. QED  BY <3>2 DEF b
  <2>5. Base' = fed - 3
    BY <2>1, <2>3 DEF Base
  <2>6. U <= 1
    BY <1>1, <1>4, <2>1, NothingPending DEF U
  <2>7. ASSUME NEW k \in 1..N, Len(spans) + 2 * (dropped + 1) < k PROVE fed - 3 <= Pad(stream, k)
    <3>. DEFINE p == Len(spans) + 2 * dropped
                lo == Base
    <3>1. p \in Nat /\ p + U + 1 < k
      BY <1>2, <1>3, <2>6, <2>7
    <3>2. lo \in 0..fed /\ held = Slice(stream, lo, fed) /\ \A j \in 1..N : p < j => lo <= Pad(stream, j)
      BY <1>1, <1>4
    <3>. HIDE DEF p, lo
    <3>3. fed < Pad(stream, k)
      BY <1>1, <3>1, <3>2, OneMoreBegins DEF N, U
    <3>. QED  BY <1>1, <1>3, <3>3
  <2>8. ASSUME NEW i \in 1..Len(spans), NEW k \in 1..N, i + 2 * (dropped + 1) < k
        PROVE  spans[i].to <= Pad(stream, k)
    <3>1. i + 2 * dropped < k
      BY <1>2, <2>8
    <3>. QED  BY <1>4, <3>1
  <2>. DEFINE z == fed - 3
              d == dropped + 1
  <2>9. /\ \A k \in 1..N : Len(spans) + 2 * d < k => z <= Pad(stream, k)
        /\ \A i \in 1..Len(spans) : \A k \in 1..N : i + 2 * d < k => spans[i].to <= Pad(stream, k)
        /\ Base' = z /\ dropped' = d
    BY <2>1, <2>5, <2>7, <2>8
  <2>. HIDE DEF z, d, Base
  <2>. QED  BY <1>4, <2>1, <2>4, <2>9 DEF PlaceInv, N
<1>13. CASE Finish
  <2>1. /\ over' /\ ~over /\ fed = Len(stream) /\ UNCHANGED <<stream, fed, dropped>> /\ call = "idle"
    BY <1>13 DEF Finish
  <2>2. CASE held = << >>
    <3>1. UNCHANGED <<spans, held>>
      BY <1>13, <2>2 DEF Finish
    <3>2. Base' = Base
      BY <2>1, <3>1 DEF Base
    <3>. HIDE DEF Base
    <3>. QED  BY <1>4, <2>1, <3>1, <3>2 DEF PlaceInv, N
  <2>3. CASE held # << >>
    <3>. DEFINE d == [from |-> Base, to |-> fed]
                n == Len(spans)
    <3>1. spans' = Append(spans, d) /\ held' = << >>
      BY <1>13, <2>3 DEF Finish
    <3>2. d \in Span /\ d.to = Len(stream)
      BY <1>1, <2>1 DEF Span
    <3>. HIDE DEF d
    <3>3. /\ Len(spans') = n + 1 /\ spans'[n + 1] = d
          /\ \A k \in 1..n : spans'[k] = spans[k]
      BY <1>2, <3>1, <3>2, AppendProperties
    <3>4. U <= 1
      BY <1>1, <1>4, <2>1, NothingPending DEF U
    <3>5. N <= n + 1 + 2 * dropped
      <4>. DEFINE p == n + 2 * dropped
                  lo == Base
      <4>1. p \in Nat
        BY <1>2
      <4>2. lo \in 0..Len(stream) /\ held = Slice(stream, lo, Len(stream))
            /\ \A j \in 1..N : p < j => lo <= Pad(stream, j)
        BY <1>1, <1>4, <2>1
      <4>. HIDE DEF p, lo
      <4>3. N <= p + U
        BY <1>1, <4>1, <4>2, NoneLeft DEF N, U
      <4>4. N <= p + 1
        BY <1>3, <3>4, <4>1, <4>3
      <4>. QED  BY <1>2, <1>3, <4>4 DEF p
    <3>. HIDE DEF n, Base
    <3>6. n \in Nat
      BY <1>2 DEF n
    <3>7. ASSUME NEW i \in 1..(n + 1)
          PROVE  /\ \A k \in 1..N : i + 2 * dropped < k => spans'[i].to <= Pad(stream, k)
                 /\ \/ i + 1 \in 1..N /\ Pad(stream, i + 1) <= spans'[i].to
                    \/ i = n + 1 /\ spans'[i].to = Len(stream)
      <4>1. CASE i = n + 1
        <5>1. \A k \in 1..N : ~(i + 2 * dropped < k)
          BY <1>2, <1>3, <3>5, <3>6, <4>1
        <5>. QED  BY <3>2, <3>3, <4>1, <5>1
      <4>2. CASE i # n + 1
        <5>1. i \in 1..Len(spans) /\ spans'[i] = spans[i]
          BY <3>3, <3>6, <4>2 DEF n
        <5>. QED  BY <1>4, <2>1, <5>1
      <4>. QED  BY <4>1, <4>2
    <3>8. \A k \in 1..N : ~(n + 1 + 2 * dropped < k)
      BY <1>2, <1>3, <3>5, <3>6
    <3>. QED  BY <2>1, <3>3, <3>7, <3>8 DEF PlaceInv, N
  <2>. QED  BY <2>2, <2>3
<1>14. CASE UNCHANGED vars
  <2>1. UNCHANGED <<stream, spans, over, dropped, held, fed, call>>
    BY <1>14 DEF vars
  <2>2. Base' = Base
    BY <2>1 DEF Base
  <2>. QED  BY <1>4, <1>5, <2>1, <2>2
<1>. QED
  BY <1>6, <1>8, <1>9, <1>10, <1>11, <1>12, <1>13, <1>14 DEF Next, PushSteps, Done

LEMMA PlaceInvariant ==
    ASSUME Kind = "Nal"
    PROVE  Spec => []PlaceInv
<1>1. Init => PlaceInv
  <2>. SUFFICES ASSUME Init PROVE PlaceInv
    OBVIOUS
  <2>1. held = << >> /\ spans = << >> /\ fed = 0 /\ dropped = 0
    BY DEF Init
  <2>2. Len(<< >>) = 0 /\ Len(held) = 0 /\ Len(spans) = 0
    BY <2>1
  <2>5. stream \in Seq(Byte) /\ held \in Seq(Byte)
    BY FeedInit, HeldIsWindow
  <2>3. PendingAt(held) = 0
    <3>1. Len(held) <= 3
      BY <2>2
    <3>. QED  BY <2>5, <3>1, ShortPending
  <2>4. Base = 0
    <3>1. fed = 0
      BY <2>1
    <3>. QED  BY <2>2, <3>1 DEF Base
  <2>6. \A k \in 1..Units(stream) : Pad(stream, k) \in Nat
    BY <2>5, PadsAscend
  <2>. QED  BY <2>2, <2>3, <2>4, <2>6 DEF PlaceInv
<1>2. FeedInv /\ SpanInv /\ EndsInv /\ PlaceInv /\ [Next]_vars => PlaceInv'
  BY PlaceStep
<1>. QED  BY <1>1, <1>2, FeedInvariant, SpanInvariant, EndsInvariant, PTL DEF Spec

\* Carried.index beside the documented place in decode order (the comment on
\* it): for every H.264 or HEVC stream, chunking and limit, the index of a
\* carrier that has come out is its place among the access units of the whole
\* stream while nothing was dropped, never ahead of it, and behind it by two for
\* each drop at the most, however often one long access unit was cut.
THEOREM FeedIndexTrailsPlace ==
    ASSUME Kind = "Nal"
    PROVE  Spec => []IndexTrailsPlace
<1>1. FeedInv /\ SpanInv /\ CountIsReturned /\ PlaceInv => IndexTrailsPlace
  <2>. SUFFICES ASSUME FeedInv, SpanInv, CountIsReturned, PlaceInv, Starts(stream) # << >>,
                       NEW k \in 1..Len(delivered)
                PROVE  delivered[k].index
                           \in (DecodePlace(spans[k]) - 2 * dropped)..DecodePlace(spans[k])
    BY DEF IndexTrailsPlace
  <2>. DEFINE N == Units(stream)
              P == [j \in 1..N |-> Pad(stream, j)]
              S == ToSet(Starts(stream))
              x == spans[k].to
  <2>1. stream \in Seq(Byte) /\ Len(stream) \in Nat
    BY HeldIsWindow
  <2>2. /\ N \in Nat /\ P \in [1..N -> Nat] /\ S = UnitStarts(stream) /\ Len(Starts(stream)) = N
        /\ \A i, j \in 1..N : i < j => P[i] < P[j]
        /\ \A j \in 1..N : P[j] = Pad(stream, j) /\ P[j] < Len(stream)
        /\ \A y : y \in S <=> \E i \in 1..N : y = P[i]
    <3>1. N \in Nat
      BY <2>1, CodesOfUnits
    <3>2. S = UnitStarts(stream) /\ Len(Starts(stream)) = N
      BY <2>1, NalStarts
    <3>3. \A j \in 1..N : P[j] = Pad(stream, j) /\ P[j] \in Nat /\ P[j] < Len(stream)
      <4>. TAKE j \in 1..N
      <4>. DEFINE c == Codes(stream)[j]
                  q == Pad(stream, j)
      <4>1. q \in Nat /\ q <= c /\ c + 3 <= Len(stream)
        BY <2>1, PadsAscend
      <4>2. c \in Nat
        BY <2>1, CodesOfUnits
      <4>3. P[j] = q
        OBVIOUS
      <4>. HIDE DEF P, c, q
      <4>4. q < Len(stream)
        BY <2>1, <4>1, <4>2
      <4>. QED  BY <4>1, <4>3, <4>4 DEF q
    <3>4. \A i, j \in 1..N : i < j => P[i] < P[j]
      BY <2>1, <3>3, PadsAscend
    <3>5. P \in [1..N -> Nat]
      BY <3>3
    <3>6. \A y : y \in S <=> \E i \in 1..N : y = P[i]
      BY <2>1, <3>2, <3>3, PadsAscend
    <3>. QED  BY <3>1, <3>2, <3>3, <3>4, <3>5, <3>6
  <2>3. N > 0
    BY <2>2
  <2>4. /\ spans \in Seq(Span) /\ dropped \in Nat /\ Len(delivered) \in Nat
        /\ k \in 1..Len(spans) /\ delivered[k].index = k - 1
    <3>1. delivered \in Seq(Returned) /\ out \in Seq(Returned) /\ spans \in Seq(Span)
          /\ dropped \in Nat /\ Len(spans) = Len(delivered) + Len(out)
      BY DEF SpanInv, SpansDisjoint, FeedInv, FieldsOK
    <3>. DEFINE all == delivered \o out
    <3>2. /\ Len(delivered) \in Nat /\ Len(out) \in Nat
          /\ Len(all) = Len(delivered) + Len(out) /\ all[k] = delivered[k]
      BY <3>1, ConcatProperties, LenProperties
    <3>3. \A i \in 1..Len(all) : all[i].index = i - 1
      BY DEF CountIsReturned
    <3>. HIDE DEF all
    <3>. QED  BY <3>1, <3>2, <3>3
  <2>5. x \in Nat
    <3>1. spans[k] \in Span
      BY <2>4, ElementOfSeq
    <3>. QED  BY <3>1 DEF Span
  <2>6. /\ \A j \in 1..N : k + 2 * dropped < j => x <= Pad(stream, j)
        /\ \/ k + 1 \in 1..N /\ Pad(stream, k + 1) <= x
           \/ k = Len(spans) /\ x = Len(stream)
    BY <2>4 DEF PlaceInv
  <2>7. k > 1 => k \in 1..N
    <3>. SUFFICES ASSUME k > 1 PROVE k \in 1..N
      OBVIOUS
    <3>1. k - 1 \in 1..Len(spans) /\ k - 1 # Len(spans) /\ (k - 1) + 1 = k
      BY <2>4
    <3>2. (k - 1) + 1 \in 1..N
      BY <3>1 DEF PlaceInv
    <3>. QED  BY <3>1, <3>2
  <2>. HIDE DEF N, P, S, x
  <2>8. k \in 0..N
    BY <2>2, <2>3, <2>4, <2>7
  <2>9. \A j \in 1..k : P[j] < x
    <3>. TAKE j \in 1..k
    <3>1. j \in 1..N
      BY <2>2, <2>4, <2>8
    <3>2. P[j] \in Nat /\ (k + 1 \in 1..N => P[k + 1] \in Nat)
      BY <2>2, <3>1
    <3>3. CASE k + 1 \in 1..N /\ Pad(stream, k + 1) <= x
      <4>1. P[j] < P[k + 1]
        BY <2>2, <2>4, <3>1, <3>3
      <4>2. P[k + 1] <= x
        BY <2>2, <3>3
      <4>. DEFINE p == P[j]
                  q == P[k + 1]
      <4>. HIDE DEF p, q
      <4>3. p < q /\ q <= x /\ p \in Nat /\ q \in Nat
        BY <3>2, <3>3, <4>1, <4>2 DEF p, q
      <4>. QED  BY <2>5, <4>3 DEF p
    <3>4. CASE x = Len(stream)
      BY <2>2, <3>1, <3>4
    <3>. QED  BY <2>6, <3>3, <3>4
  <2>10. \A j \in 1..N : k + 2 * dropped < j => x <= P[j]
    BY <2>2, <2>6
  <2>11. k + 2 * dropped \in Nat
    BY <2>4
  <2>. DEFINE z == k + 2 * dropped
              T == {at \in S : at < x}
              n == Cardinality(T)
  <2>12. n \in k..z
    <3>1. z \in Nat /\ \A j \in 1..N : z < j => x <= P[j]
      BY <2>10, <2>11
    <3>. HIDE DEF z
    <3>2. /\ N \in Nat /\ P \in [1..N -> Nat] /\ \A y : y \in S <=> \E i \in 1..N : y = P[i]
          /\ \A i, j \in 1..N : i < j => P[i] < P[j]
      BY <2>2
    <3>3. \A y : y \in T <=> y \in S /\ y < x
      OBVIOUS
    <3>. HIDE DEF T
    <3>. QED  BY <2>5, <2>8, <2>9, <3>1, <3>2, <3>3, CountBelow
  <2>13. DecodePlace(spans[k]) = n - 1
    BY DEF DecodePlace, S, x
  <2>. HIDE DEF n
  <2>. QED  BY <2>4, <2>12, <2>13
<1>. QED  BY <1>1, FeedInvariant, SpanInvariant, NalCountIsReturned, PlaceInvariant, PTL
=============================================================================
