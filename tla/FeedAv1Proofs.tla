---------------------------- MODULE FeedAv1Proofs ----------------------------
(***************************************************************************)
(* What is proved of a feed of AV1, and, with what the modules before it   *)
(* say of H.264 and HEVC, of a feed of either kind.                        *)
(***************************************************************************)
EXTENDS FeedProofs

-----------------------------------------------------------------------------
\* Where av1_boundaries stands, and what it goes past.
FeedWalk(b) == Stands(b, LAMBDA p : FeedReads(b, p))
FeedRead(b) == {at \in 0..(Len(b) - 1) : FeedReads(b, at)}

LEMMA FeedWalkIs ==
    ASSUME NEW b \in Seq(Byte)
    PROVE  /\ Passes(b, FeedRead(b)) /\ IsWalk(FeedWalk(b), b, FeedRead(b), 0)
           /\ \A at : at \in FeedStands(b) <=> at \in FeedWalk(b) /\ at < Len(b)
           /\ \A at : at \in FeedObus(b) <=> at \in FeedWalk(b) /\ at \in FeedRead(b)
           /\ Len(b) \in Nat /\ FeedWalk(b) \subseteq 0..Len(b)
<1>. DEFINE P(f) == f = [at \in 0..Len(b) |->
                 {at} \cup (IF at < Len(b) /\ FeedReads(b, at) THEN f[ObuAt(b, at).end] ELSE {})]
            g == CHOOSE f : P(f)
            R == FeedRead(b)
            W == FeedWalk(b)
<1>1. Len(b) \in Nat
  BY LenProperties
<1>2. Passes(b, R)
  BY DEF Passes, FeedRead, FeedReads
<1>3. \A at \in 0..Len(b) : at \in R <=> at < Len(b) /\ FeedReads(b, at)
  BY <1>1 DEF FeedRead
<1>. HIDE DEF R
<1>4. PICK f \in [0..Len(b) -> SUBSET Nat] : Walks(f, b, R, 0)
  BY <1>2, WalksExist
<1>5. P(f)
  <2>1. \A at \in 0..Len(b) : f[at] =
            {at} \cup (IF at < Len(b) /\ FeedReads(b, at) THEN f[ObuAt(b, at).end] ELSE {})
    BY <1>3, <1>4 DEF Walks
  <2>. QED  BY <1>4, <2>1
<1>6. P(g)
  BY <1>5
<1>7. W = (0..Len(b)) \cap g[0]
  BY DEF FeedWalk, Stands
<1>. HIDE DEF g
<1>8. Walks(g, b, R, 0)
  BY <1>3, <1>6 DEF Walks
<1>9. IsWalk(g[0], b, R, 0)
  BY <1>2, <1>8, WalkIs
<1>10. W = g[0] /\ W \subseteq 0..Len(b)
  BY <1>7, <1>9 DEF IsWalk
<1>11. FeedStands(b) = W \ {Len(b)}
  BY Zenon DEF FeedStands, FeedWalk
<1>. HIDE DEF W
<1>12. \A at : at \in FeedStands(b) <=> at \in W /\ at < Len(b)
  BY <1>1, <1>10, <1>11
<1>13. \A at : at \in FeedObus(b) <=> at \in W /\ at \in R
  BY <1>1, <1>3, <1>10, <1>12 DEF FeedObus
<1>. QED  BY <1>1, <1>2, <1>9, <1>10, <1>12, <1>13 DEF W, R

\* The temporal units that are looked for are delimiters the walk went past, and
\* the first byte if it went past that.
LEMMA Av1StartsAre ==
    ASSUME NEW b \in Seq(Byte)
    PROVE  /\ \A at : at \in Av1CarrierStarts(b) <=>
                        /\ at \in FeedWalk(b) /\ at \in FeedRead(b)
                        /\ at = 0 \/ ObuAt(b, at).kind = OBU_TEMPORAL_DELIMITER
           /\ Av1CarrierStarts(b) # {} => 0 \in Av1CarrierStarts(b)
<1>1. \A at : at \in Av1CarrierStarts(b) <=>
                /\ at \in FeedWalk(b) /\ at \in FeedRead(b)
                /\ at = 0 \/ ObuAt(b, at).kind = OBU_TEMPORAL_DELIMITER
  BY FeedWalkIs DEF Av1CarrierStarts
<1>2. ASSUME NEW at \in Av1CarrierStarts(b) PROVE 0 \in Av1CarrierStarts(b)
  <2>1. /\ 0 \in FeedWalk(b) /\ at \in FeedWalk(b) /\ at \in Nat
        /\ 0 < at => 0 \in FeedRead(b)
    BY <1>1, FeedWalkIs DEF IsWalk
  <2>. QED  BY <1>1, <2>1
<1>. QED  BY <1>1, <1>2

\* From where av1_boundaries stood in b it stands in the rest of b as it stood
\* in b, if no size there is wider than memory.
LEMMA DrainedStands ==
    ASSUME NEW b \in Seq(Byte), NEW lo \in FeedWalk(b),
           \A at \in FeedStands(b) : ObuAt(b, at).outcome # "toolarge"
    PROVE  LET h == Slice(b, lo, Len(b))
           IN  \A p : /\ p \in FeedStands(h) => lo + p \in FeedStands(b)
                      /\ p \in FeedObus(h) => lo + p \in FeedObus(b)
<1>. DEFINE h == Slice(b, lo, Len(b))
            W == FeedWalk(b)
            R == FeedRead(b)
            V == FeedWalk(h)
            Q == FeedRead(h)
<1>1. Len(b) \in Nat /\ lo \in 0..Len(b) /\ lo \in Nat /\ W \subseteq 0..Len(b)
  BY FeedWalkIs
<1>2. h \in Seq(Byte) /\ Len(h) = Len(b) - lo
  <2>1. Len(b) \in 0..Len(b)
    BY <1>1
  <2>. QED  BY <1>1, <2>1, SliceProperties
<1>3. /\ IsWalk(W, b, R, 0) /\ IsWalk(V, h, Q, 0) /\ Passes(h, Q) /\ V \subseteq 0..Len(h)
      /\ \A at : at \in FeedStands(b) <=> at \in W /\ at < Len(b)
      /\ \A at : at \in FeedStands(h) <=> at \in V /\ at < Len(h)
      /\ \A at : at \in FeedObus(b) <=> at \in W /\ at \in R
      /\ \A at : at \in FeedObus(h) <=> at \in V /\ at \in Q
  BY <1>2, FeedWalkIs
<1>4. ASSUME NEW p \in Q, lo + p \in W
      PROVE  lo + p \in R /\ ObuAt(b, lo + p).end = lo + ObuAt(h, p).end
  <2>1. p \in 0..(Len(b) - lo - 1) /\ ObuAt(h, p).outcome = "obu" /\ ObuAt(h, p).sized
    BY <1>2 DEF FeedRead, FeedReads
  <2>2. lo + p \in 0..(Len(b) - 1) /\ lo + p < Len(b) /\ Len(b) \in 0..Len(b) /\ lo \in 0..Len(b)
    BY <1>1, <2>1
  <2>3. /\ ObuAt(b, lo + p).outcome \in {"obu", "toolarge"} /\ ObuAt(b, lo + p).sized
        /\ ObuAt(b, lo + p).end = lo + ObuAt(h, p).end
    BY <2>1, <2>2, ObuInSlice
  <2>4. ObuAt(b, lo + p).outcome = "obu"
    BY <1>3, <1>4, <2>2, <2>3
  <2>. QED  BY <2>2, <2>3, <2>4 DEF FeedRead, FeedReads
<1>. HIDE DEF h, W, R, V, Q
<1>5. \A p \in V : lo + p \in W
  <2>1. lo \in W
    BY DEF W
  <2>. QED  BY <1>2, <1>3, <1>4, <2>1, WalkIntoWhole
<1>6. ASSUME NEW p \in V, p < Len(h) PROVE lo + p < Len(b)
  BY <1>1, <1>2, <1>3, <1>6
<1>. QED  BY <1>3, <1>4, <1>5, <1>6 DEF h

\* So what a drain leaves has one carrier, the open one, and still parses.
LEMMA Av1Drained ==
    ASSUME Kind = "Av1", NEW b \in Seq(Byte), ~Fails(b)
    PROVE  LET h == DropFront(b, PendingAt(b))
           IN  PendingAt(h) = 0 /\ ~Fails(h)
<1>. DEFINE T == CarrierStarts(b)
            lo == PendingAt(b)
            h == Slice(b, lo, Len(b))
            S == CarrierStarts(h)
<1>1. T = Av1CarrierStarts(b) /\ S = Av1CarrierStarts(h) /\ T \subseteq 0..Len(b)
  BY Av1StartsRange DEF CarrierStarts
<1>2. Len(b) \in Nat /\ lo \in 0..Len(b) /\ lo \in Nat
  BY LenProperties, PendingRange
<1>3. DropFront(b, lo) = h
  BY DEF DropFront, Slice
<1>4. h \in Seq(Byte) /\ Len(h) = Len(b) - lo
  <2>1. Len(b) \in 0..Len(b)
    BY <1>2
  <2>. QED  BY <1>2, <2>1, SliceProperties
<1>5. T # {} => lo \in T /\ \A x \in T : x <= lo
  <2>1. lo = IF T = {} THEN 0 ELSE Max(T)
    BY DEF PendingAt
  <2>. HIDE DEF T, lo
  <2>. QED  BY <1>1, <1>2, <2>1, MaxExists
<1>6. T = {} => lo = 0
  BY DEF PendingAt
<1>. HIDE DEF T, lo, S
<1>7. lo \in FeedWalk(b)
  <2>1. 0 \in FeedWalk(b)
    BY FeedWalkIs DEF IsWalk
  <2>. QED  BY <1>1, <1>5, <1>6, <2>1, Av1StartsAre
<1>8. \A at \in FeedStands(b) : ObuAt(b, at).outcome \notin {"forbidden", "toolarge"}
  BY DEF Fails
<1>9. \A p : /\ p \in FeedStands(h) => lo + p \in FeedStands(b)
             /\ p \in FeedObus(h) => lo + p \in FeedObus(b)
  BY <1>7, <1>8, DrainedStands
<1>10. ASSUME NEW p \in FeedStands(h)
       PROVE  /\ p \in 0..(Len(b) - lo - 1) /\ ObuAt(h, p).kind = ObuAt(b, lo + p).kind
              /\ ObuAt(h, p).outcome \in {"forbidden", "toolarge"} =>
                     ObuAt(b, lo + p).outcome \in {"forbidden", "toolarge"}
  <2>1. p \in 0..(Len(b) - lo - 1) /\ lo \in 0..Len(b) /\ Len(b) \in 0..Len(b)
    <3>1. p \in 0..Len(h) /\ p < Len(h)
      BY <1>4, FeedWalkIs
    <3>. QED  BY <1>2, <1>4, <3>1
  <2>. QED  BY <2>1, ObuInSlice
<1>11. ~Fails(h)
  BY <1>8, <1>9, <1>10 DEF Fails
<1>. HIDE DEF h
<1>12. ASSUME NEW p \in S PROVE p = 0
  <2>1. p \in FeedObus(h) /\ p \in FeedStands(h) /\ p \in Nat
        /\ (p = 0 \/ ObuAt(h, p).kind = OBU_TEMPORAL_DELIMITER)
    BY <1>1, <1>4, FeedWalkIs DEF Av1CarrierStarts, FeedObus
  <2>2. ASSUME p # 0 PROVE FALSE
    <3>1. lo + p \in FeedObus(b) /\ ObuAt(b, lo + p).kind = OBU_TEMPORAL_DELIMITER
      BY <1>9, <1>10, <2>1, <2>2
    <3>2. lo + p \in T
      BY <1>1, <3>1 DEF Av1CarrierStarts
    <3>3. lo + p <= lo
      BY <1>5, <3>2
    <3>. QED  BY <1>2, <2>1, <2>2, <3>3
  <2>. QED  BY <2>2
<1>13. PendingAt(h) = 0
  <2>1. CASE S = {}
    BY <2>1 DEF PendingAt, S
  <2>2. CASE S # {}
    <3>1. S \in SUBSET (0..Len(h)) /\ Len(h) \in Nat
      BY <1>1, <1>4, Av1StartsRange, LenProperties
    <3>2. Max(S) \in S
      BY <2>2, <3>1, MaxExists, Zenon
    <3>. QED  BY <1>12, <2>2, <3>2 DEF PendingAt, S
  <2>. QED  BY <2>1, <2>2
<1>. QED  BY <1>3, <1>11, <1>13 DEF lo

\* The loop of cut looks twice at most, for every stream, chunking and limit:
\* once the finished carriers are drained the open one begins at the first byte,
\* and bytes that parsed still parse.
THEOREM FeedOneDrainIsEnough == Spec => OneDrainIsEnough
<1>1. FeedInv /\ [Next]_vars => [Drain => PendingAt(held') = 0 /\ ~Fails(held')]_vars
  <2>. SUFFICES ASSUME FeedInv, Drain
                PROVE  PendingAt(held') = 0 /\ ~Fails(held')
    BY Zenon
  <2>1. held \in Seq(Byte) /\ held' = DropFront(held, PendingAt(held)) /\ ~Fails(held)
    BY DEF FeedInv, FieldsOK, Drain
  <2>2. CASE Kind = "Nal"
    <3>1. ~Fails(held')
      BY <2>2 DEF Fails
    <3>. QED  BY <2>1, <2>2, <3>1, NalDrained
  <2>3. CASE Kind = "Av1"
    BY <2>1, <2>3, Av1Drained
  <2>. QED  BY <2>2, <2>3, FeedAssumption
<1>. QED  BY <1>1, FeedInvariant, PTL DEF Spec, OneDrainIsEnough

-----------------------------------------------------------------------------
\* Once round the loop of cut the bytes are known to parse, so an Err comes
\* before anything was numbered or not at all.
ParsedInv == call = "cut" /\ out # << >> => ~Fails(held)

LEMMA ParsedInvariant == Spec => []ParsedInv
<1>1. Init => ParsedInv
  BY DEF Init, ParsedInv
<1>2. ASSUME ParsedInv, [Next]_vars, [Drain => PendingAt(held') = 0 /\ ~Fails(held')]_vars
      PROVE  ParsedInv'
  <2>1. CASE UNCHANGED vars
    BY <1>2, <2>1 DEF vars, ParsedInv
  <2>2. ASSUME NEW n \in Chunks, Push(n) PROVE ParsedInv'
    BY <2>2 DEF Push, ParsedInv
  <2>3. CASE Drain
    <3>1. held' # held => ~Fails(held')
      BY <1>2, <2>3 DEF vars
    <3>2. held' = held => ~Fails(held')
      BY <2>3 DEF Drain
    <3>. QED  BY <3>1, <3>2 DEF ParsedInv
  <2>4. CASE CutReturns \/ CutFails \/ WithinLimit \/ OverLimit
    BY <2>4 DEF CutReturns, CutFails, WithinLimit, OverLimit, Return, ParsedInv
  <2>5. CASE Finish
    <3>1. call' # "cut"
      BY <2>5 DEF Finish
    <3>. QED  BY <3>1 DEF ParsedInv
  <2>. QED  BY <1>2, <2>1, <2>2, <2>3, <2>4, <2>5 DEF Next, PushSteps, Done
<1>3. ParsedInv /\ [Next]_vars /\ [Drain => PendingAt(held') = 0 /\ ~Fails(held')]_vars
          => ParsedInv'
  BY <1>2
<1>. QED  BY <1>1, <1>3, FeedOneDrainIsEnough, PTL DEF Spec, OneDrainIsEnough

\* The carriers that come out are numbered from zero without a gap and count()
\* is how many came out: for every stream, chunking and limit, whatever was
\* dropped and whatever failed.
THEOREM FeedCountIsReturned == Spec => []CountIsReturned
<1>1. Init => CountIsReturned
  <2>. SUFFICES ASSUME Init PROVE CountIsReturned
    OBVIOUS
  <2>1. delivered = << >> /\ out = << >> /\ index = 0
    BY DEF Init
  <2>2. << >> \o << >> = << >> /\ Len(<< >>) = 0
    BY EmptySeq, ConcatEmptySeq
  <2>. QED  BY <2>1, <2>2 DEF CountIsReturned
<1>2. FeedInv /\ SpanInv /\ SpanInv' /\ ParsedInv /\ CountIsReturned /\ [Next]_vars => CountIsReturned'
  BY IndexStep DEF ParsedInv
<1>. QED  BY <1>1, <1>2, FeedInvariant, SpanInvariant, ParsedInvariant, PTL DEF Spec

-----------------------------------------------------------------------------
\* The first and the last offset Ascending lists.
LEMMA AscendingEnds ==
    ASSUME NEW n \in Nat, NEW S \in SUBSET (0..n)
    PROVE  LET s == Ascending(S)
           IN  /\ Len(s) \in Nat /\ (S = {} <=> Len(s) = 0)
               /\ \A k \in 1..Len(s) : s[k] \in S
               /\ \A x \in S : \E k \in 1..Len(s) : s[k] = x
               /\ \A i, j \in 1..Len(s) : i < j => s[i] < s[j]
               /\ S # {} => /\ 1 \in 1..Len(s) /\ Len(s) \in 1..Len(s)
                            /\ s[Len(s)] = Max(S) /\ \A x \in S : s[1] <= x
<1>. DEFINE s == Ascending(S)
            m == Cardinality(S)
<1>1. S \in SUBSET Nat /\ IsFiniteSet(0..n)
  BY FS_Interval
<1>2. IsFiniteSet(S)
  BY <1>1, FS_Subset
<1>3. /\ Len(s) = m /\ m \in Nat
      /\ \A k \in 1..m : s[k] \in S
      /\ \A x \in S : \E k \in 1..m : s[k] = x
      /\ \A i, j \in 1..m : i < j => s[i] < s[j]
  BY <1>1, <1>2, AscendingProperties, AscendingOnto
<1>. HIDE DEF s, m
<1>4. \A i, j \in 1..m : i <= j => s[i] <= s[j]
  <2>. SUFFICES ASSUME NEW i \in 1..m, NEW j \in 1..m, i <= j PROVE s[i] <= s[j]
    OBVIOUS
  <2>. DEFINE x == s[i]
              y == s[j]
  <2>1. x \in Nat /\ y \in Nat
    <3>1. x \in S /\ y \in S
      BY <1>3
    <3>. QED  BY <1>1, <3>1
  <2>2. i = j \/ i < j
    BY <1>3
  <2>3. x = y \/ x < y
    BY <1>3, <2>2
  <2>. HIDE DEF x, y
  <2>4. x <= y
    BY <2>1, <2>3
  <2>. QED  BY <2>4 DEF x, y
<1>5. ASSUME S # {}
      PROVE  /\ 1 \in 1..m /\ m \in 1..m /\ s[m] = Max(S) /\ \A x \in S : s[1] <= x
  <2>1. 1 \in 1..m /\ m \in 1..m
    <3>1. PICK x \in S : TRUE
      BY <1>5
    <3>2. PICK k \in 1..m : s[k] = x
      BY <1>3, <3>1
    <3>3. m \in Nat /\ k \in 1..m
      BY <1>3, <3>2
    <3>. QED  BY ONLY <3>3
  <2>2. \A x \in S : s[1] <= x /\ x <= s[m]
    BY <1>3, <1>4, <2>1
  <2>3. Max(S) \in S /\ \A x \in S : x <= Max(S)
    BY <1>5, MaxExists
  <2>4. s[m] \in S /\ s[m] \in Nat /\ Max(S) \in Nat
    BY <1>1, <1>3, <2>1, <2>3
  <2>5. s[m] <= Max(S) /\ Max(S) <= s[m]
    BY <2>2, <2>3, <2>4
  <2>. QED  BY <2>1, <2>2, <2>4, <2>5
<1>6. S = {} => m = 0
  BY <1>3
<1>. QED  BY <1>3, <1>5, <1>6 DEF s

\* What boundaries hands over, and the span of each.
LEMMA FoundIs ==
    ASSUME NEW b \in Seq(Byte)
    PROVE  LET s == Ascending(CarrierStarts(b))
               n == Len(s)
               found == Complete(b)
           IN  /\ n \in Nat /\ Len(found) = IF n = 0 THEN 0 ELSE n - 1
               /\ \A k \in 1..(n - 1) :
                     /\ found[k].start = s[k] /\ found[k].end = s[k + 1]
                     /\ found[k].keyframe = IsKeyframe(b, s[k], s[k + 1])
<1>. DEFINE S == CarrierStarts(b)
            s == Ascending(S)
            n == Len(s)
            found == Complete(b)
<1>1. Len(b) \in Nat /\ S \in SUBSET (0..Len(b))
  BY LenProperties, UnitStartsRange, Av1StartsRange DEF CarrierStarts
<1>2. n \in Nat
  <2>. HIDE DEF S
  <2>. QED  BY <1>1, AscendingEnds
<1>3. found = [k \in 1..(n - 1) |-> [start |-> s[k], end |-> s[k + 1],
                                     keyframe |-> IsKeyframe(b, s[k], s[k + 1])]]
  BY Zenon DEF Complete
<1>. HIDE DEF s, n, found
<1>4. Len(found) = IF n = 0 THEN 0 ELSE n - 1
  <2>1. CASE n = 0
    <3>1. 1..(n - 1) = {}
      BY <2>1
    <3>2. found = << >>
      BY <1>3, <3>1
    <3>. QED  BY <2>1, <3>2
  <2>2. CASE n # 0
    <3>1. n - 1 \in Nat
      BY <1>2, <2>2
    <3>. QED  BY <1>3, <2>2, <3>1
  <2>. QED  BY <2>1, <2>2
<1>5. \A k \in 1..(n - 1) : /\ found[k].start = s[k] /\ found[k].end = s[k + 1]
                            /\ found[k].keyframe = IsKeyframe(b, s[k], s[k + 1])
  BY <1>3
<1>. QED  BY <1>2, <1>4, <1>5 DEF s, n, found

-----------------------------------------------------------------------------
\* Spans that cover the bytes from a to z, each from where the one before it
\* ends.
Covers(s, a, z) ==
    IF Len(s) = 0 THEN a = z
    ELSE /\ s[1].from = a /\ s[Len(s)].to = z
         /\ \A k \in 2..Len(s) : s[k].from = s[k - 1].to

LEMMA CoversConcat ==
    ASSUME NEW s \in Seq(Span), NEW t \in Seq(Span), NEW a, NEW i, NEW z,
           Covers(s, a, i), Covers(t, i, z)
    PROVE  Covers(s \o t, a, z)
<1>. DEFINE m == Len(s)
            n == Len(t)
            u == s \o t
<1>1. m \in Nat /\ n \in Nat /\ Len(u) = m + n
  BY LenProperties, ConcatProperties
<1>2. \A k \in 1..(m + n) : u[k] = IF k <= m THEN s[k] ELSE t[k - m]
  BY ConcatProperties
<1>3. /\ m = 0 => a = i
      /\ m # 0 => /\ s[1].from = a /\ s[m].to = i
                  /\ \A k \in 2..m : s[k].from = s[k - 1].to
      /\ n = 0 => i = z
      /\ n # 0 => /\ t[1].from = i /\ t[n].to = z
                  /\ \A k \in 2..n : t[k].from = t[k - 1].to
  BY DEF Covers
<1>. HIDE DEF u, m, n
<1>4. CASE m = 0 /\ n = 0
  BY <1>1, <1>3, <1>4 DEF Covers, u
<1>5. CASE m = 0 /\ n # 0
  <2>1. \A k \in 1..n : u[k] = t[k]
    <3>1. \A k \in 1..n : k \in 1..(m + n) /\ ~(k <= m) /\ k - m = k
      BY <1>1, <1>5
    <3>. QED  BY <1>2, <3>1
  <2>2. 1 \in 1..n /\ n \in 1..n /\ \A k \in 2..n : k \in 1..n /\ k - 1 \in 1..n
    BY <1>1, <1>5
  <2>3. Len(u) = n
    BY <1>1, <1>5
  <2>. QED  BY <1>3, <1>5, <2>1, <2>2, <2>3 DEF Covers, u
<1>6. CASE m # 0 /\ n = 0
  <2>1. \A k \in 1..m : u[k] = s[k]
    <3>1. \A k \in 1..m : k \in 1..(m + n) /\ k <= m
      BY <1>1, <1>6
    <3>. QED  BY <1>2, <3>1
  <2>2. 1 \in 1..m /\ m \in 1..m /\ \A k \in 2..m : k \in 1..m /\ k - 1 \in 1..m
    BY <1>1, <1>6
  <2>3. Len(u) = m
    BY <1>1, <1>6
  <2>. QED  BY <1>3, <1>6, <2>1, <2>2, <2>3 DEF Covers, u
<1>7. CASE m # 0 /\ n # 0
  <2>1. \A k \in 1..m : u[k] = s[k]
    <3>1. \A k \in 1..m : k \in 1..(m + n) /\ k <= m
      BY <1>1, <1>7
    <3>. QED  BY <1>2, <3>1
  <2>2. \A k \in (m + 1)..(m + n) : u[k] = t[k - m]
    <3>1. \A k \in (m + 1)..(m + n) : k \in 1..(m + n) /\ ~(k <= m)
      BY <1>1, <1>7
    <3>. QED  BY <1>2, <3>1
  <2>3. u[1].from = a
    <3>1. 1 \in 1..m
      BY <1>1, <1>7
    <3>. QED  BY <1>3, <1>7, <2>1, <3>1
  <2>4. u[m + n].to = z
    <3>1. m + n \in (m + 1)..(m + n) /\ (m + n) - m = n
      BY <1>1, <1>7
    <3>. QED  BY <1>3, <1>7, <2>2, <3>1
  <2>5. ASSUME NEW k \in 2..(m + n) PROVE u[k].from = u[k - 1].to
    <3>1. CASE k <= m
      <4>1. k \in 2..m /\ k \in 1..m /\ k - 1 \in 1..m
        BY <1>1, <3>1
      <4>. QED  BY <1>3, <1>7, <2>1, <4>1
    <3>2. CASE k = m + 1
      <4>1. k \in (m + 1)..(m + n) /\ k - m = 1 /\ k - 1 = m /\ m \in 1..m
        BY <1>1, <1>7, <3>2
      <4>. QED  BY <1>3, <1>7, <2>1, <2>2, <4>1
    <3>3. CASE k > m + 1
      <4>1. /\ k \in (m + 1)..(m + n) /\ k - 1 \in (m + 1)..(m + n)
            /\ k - m \in 2..n /\ (k - 1) - m = (k - m) - 1
        BY <1>1, <3>3
      <4>. QED  BY <1>3, <1>7, <2>2, <4>1
    <3>. QED  BY <1>1, <3>1, <3>2, <3>3
  <2>6. Len(u) = m + n /\ m + n # 0
    BY <1>1, <1>7
  <2>. QED  BY <2>3, <2>4, <2>5, <2>6 DEF Covers, u
<1>. QED  BY <1>4, <1>5, <1>6, <1>7

\* What one round of cut hands over of a stream of OBUs covers the bytes it
\* drains: a first carrier always begins at the first byte held.
LEMMA Av1HandOver ==
    ASSUME Kind = "Av1", FeedInv, HandOver
    PROVE  \E t \in Seq(Span) : /\ spans' = spans \o t
                               /\ Covers(t, Base, Base + PendingAt(held))
<1>. DEFINE S == CarrierStarts(held)
            s == Ascending(S)
            n == Len(s)
            found == Complete(held)
            d == Len(found)
            t == [k \in 1..d |-> [from |-> Base + found[k].start, to |-> Base + found[k].end]]
<1>1. held \in Seq(Byte) /\ Len(held) \in Nat /\ Base \in Nat
  BY HeldIsWindow
<1>2. S \in SUBSET (0..Len(held)) /\ (S # {} => 0 \in S)
  BY <1>1, Av1StartsRange, Av1StartsAre DEF CarrierStarts
<1>3. /\ n \in Nat /\ (S = {} <=> n = 0)
      /\ \A k \in 1..n : s[k] \in S
      /\ S # {} => s[n] = Max(S) /\ \A x \in S : s[1] <= x
  <2>. HIDE DEF S
  <2>. QED  BY <1>1, <1>2, AscendingEnds
<1>4. PendingAt(held) = IF S = {} THEN 0 ELSE Max(S)
  BY Zenon DEF PendingAt
<1>5. /\ d = IF n = 0 THEN 0 ELSE n - 1
      /\ \A k \in 1..(n - 1) : found[k].start = s[k] /\ found[k].end = s[k + 1]
  BY <1>1, FoundIs
<1>6. spans' = spans \o t
  BY Zenon DEF HandOver
<1>. HIDE DEF S, s, n, found, d, Base
<1>7. \A k \in 1..n : s[k] \in 0..Len(held)
  BY <1>2, <1>3
<1>8. n # 0 => s[1] = 0
  <2>. SUFFICES ASSUME n # 0 PROVE s[1] = 0
    OBVIOUS
  <2>1. 1 \in 1..n
    BY <1>3
  <2>. QED  BY <1>2, <1>3, <1>7, <2>1
<1>9. d \in Nat /\ (n # 0 => d = n - 1) /\ (n = 0 => d = 0)
  BY <1>3, <1>5
<1>10. \A k \in 1..d : /\ k \in 1..n /\ k + 1 \in 1..n
                       /\ found[k].start = s[k] /\ found[k].end = s[k + 1]
  <2>1. \A k \in 1..d : k \in 1..n /\ k + 1 \in 1..n /\ k \in 1..(n - 1)
    BY <1>3, <1>9
  <2>. QED  BY <1>5, <2>1
<1>11. \A k \in 1..d : [from |-> Base + found[k].start, to |-> Base + found[k].end] \in Span
  <2>1. \A k \in 1..d : Base + found[k].start \in Nat /\ Base + found[k].end \in Nat
    BY <1>1, <1>7, <1>10
  <2>. QED  BY <2>1 DEF Span
<1>12. t \in Seq(Span) /\ Len(t) = d
  BY <1>9, <1>11
<1>13. \A k \in 1..d : t[k].from = Base + s[k] /\ t[k].to = Base + s[k + 1]
  BY <1>10
<1>. HIDE DEF t
<1>14. Covers(t, Base, Base + PendingAt(held))
  <2>1. CASE d = 0
    <3>1. n = 0 \/ n = 1
      BY <1>3, <1>9, <2>1
    <3>2. PendingAt(held) = 0
      BY <1>3, <1>4, <1>8, <3>1
    <3>. QED  BY <1>1, <1>12, <2>1, <3>2 DEF Covers
  <2>2. CASE d # 0
    <3>1. n # 0 /\ d = n - 1 /\ d + 1 = n /\ 1 \in 1..d /\ d \in 1..d
      BY <1>3, <1>9, <2>2
    <3>2. t[1].from = Base
      BY <1>1, <1>8, <1>13, <3>1
    <3>3. t[d].to = Base + PendingAt(held)
      BY <1>3, <1>4, <1>13, <3>1
    <3>4. \A k \in 2..d : t[k].from = t[k - 1].to
      <4>1. \A k \in 2..d : k \in 1..d /\ k - 1 \in 1..d /\ (k - 1) + 1 = k
        BY <1>9
      <4>. QED  BY <1>13, <4>1
    <3>. QED  BY <1>12, <2>2, <3>2, <3>3, <3>4 DEF Covers
  <2>. QED  BY <2>1, <2>2
<1>. QED  BY <1>6, <1>12, <1>14

CoverInv == dropped = 0 => Covers(spans, 0, Base)

LEMMA CoverStep ==
    ASSUME Kind = "Av1", FeedInv, FeedInv', SpanInv, CoverInv, [Next]_vars
    PROVE  CoverInv'
<1>1. /\ held \in Seq(Byte) /\ Len(held) \in Nat /\ Base \in Nat /\ Base + Len(held) = fed
      /\ fed \in Nat /\ dropped \in Nat /\ spans \in Seq(Span)
  BY HeldIsWindow DEF FeedInv, FieldsOK, SpanInv
<1>2. Base' = fed' - Len(held')
  BY DEF Base
<1>. HIDE DEF Base
<1>3. ASSUME UNCHANGED <<dropped, spans>>, Base' = Base PROVE CoverInv'
  BY <1>3 DEF CoverInv
<1>4. ASSUME NEW n \in Chunks, Push(n) PROVE CoverInv'
  <2>1. n \in Nat /\ Len(held') = Len(held) + n /\ fed' = fed + n
    <3>1. n \in Nat
      BY FeedAssumption
    <3>. QED  BY <1>4, <3>1, PushKeepsTail DEF FeedInv, Push
  <2>2. Base' = Base
    BY <1>1, <1>2, <2>1
  <2>. QED  BY <1>3, <1>4, <2>2 DEF Push
<1>5. ASSUME HandOver, dropped' = dropped, Base' = Base + PendingAt(held) PROVE CoverInv'
  <2>1. PICK t \in Seq(Span) : /\ spans' = spans \o t
                               /\ Covers(t, Base, Base + PendingAt(held))
    BY <1>5, Av1HandOver
  <2>. SUFFICES ASSUME dropped = 0 PROVE Covers(spans', 0, Base')
    BY <1>5 DEF CoverInv
  <2>2. Covers(spans, 0, Base)
    BY DEF CoverInv
  <2>. QED  BY <1>1, <1>5, <2>1, <2>2, CoversConcat
<1>6. CASE Drain
  <2>1. PendingAt(held) \in 0..Len(held)
    BY <1>1, PendingRange
  <2>2. Len(held') = Len(held) - PendingAt(held) /\ fed' = fed
    BY <1>6, <2>1, DrainKeepsTail DEF FeedInv, Drain
  <2>3. Base' = Base + PendingAt(held)
    BY <1>1, <1>2, <2>1, <2>2
  <2>. QED  BY <1>5, <1>6, <2>3 DEF Drain
<1>7. CASE CutReturns
  <2>1. PendingAt(held) = 0 /\ fed' = fed /\ Len(held') = Len(held)
    BY <1>7 DEF CutReturns
  <2>2. Base' = Base + PendingAt(held)
    BY <1>1, <1>2, <2>1
  <2>. QED  BY <1>5, <1>7, <2>2 DEF CutReturns
<1>8. CASE CutFails \/ OverLimit
  <2>1. dropped' = dropped + 1
    BY <1>8 DEF CutFails, OverLimit
  <2>. QED  BY <1>1, <2>1 DEF CoverInv
<1>9. CASE WithinLimit
  <2>1. Base' = Base
    <3>1. fed' = fed /\ held' = held
      BY <1>9 DEF WithinLimit, Return
    <3>. QED  BY <1>1, <1>2, <3>1
  <2>. QED  BY <1>3, <1>9, <2>1 DEF WithinLimit, Return
<1>10. CASE Finish /\ held = << >>
  <2>1. Base' = Base
    <3>1. fed' = fed /\ held' = held
      BY <1>10 DEF Finish
    <3>. QED  BY <1>1, <1>2, <3>1
  <2>. QED  BY <1>3, <1>10, <2>1 DEF Finish
<1>11. CASE Finish /\ held # << >>
  <2>. DEFINE d == [from |-> Base, to |-> fed]
  <2>1. spans' = Append(spans, d) /\ dropped' = dropped /\ fed' = fed /\ Len(held') = 0
    <3>1. held' = << >>
      BY <1>11 DEF Finish
    <3>. QED  BY <1>11, <3>1, EmptySeq DEF Finish
  <2>2. Base' = fed /\ d \in Span /\ d.from = Base /\ d.to = fed
    BY <1>1, <1>2, <2>1 DEF Span
  <2>. HIDE DEF d
  <2>. DEFINE t == <<d>>
  <2>3. t \in Seq(Span) /\ spans' = spans \o t
    BY <1>1, <2>1, <2>2, AppendIsConcat
  <2>4. Len(t) = 1 /\ t[1] = d /\ 2..1 = {}
    OBVIOUS
  <2>. HIDE DEF t
  <2>5. Covers(t, Base, fed)
    BY <2>2, <2>4 DEF Covers
  <2>6. dropped = 0 => Covers(spans', 0, fed)
    BY <1>1, <2>3, <2>5, CoversConcat DEF CoverInv
  <2>. QED  BY <2>1, <2>2, <2>6 DEF CoverInv
<1>12. CASE UNCHANGED vars
  <2>1. Base' = Base
    BY <1>1, <1>2, <1>12 DEF vars, Base
  <2>. QED  BY <1>3, <1>12, <2>1 DEF vars
<1>. QED
  BY <1>4, <1>6, <1>7, <1>8, <1>9, <1>10, <1>11, <1>12 DEF Next, PushSteps, Done

\* While nothing was dropped every byte of an AV1 stream rode on a carrier or is
\* held, from the first byte on: for every stream, even one that does not parse.
THEOREM Av1SpansTile ==
    ASSUME Kind = "Av1"
    PROVE  Spec => []SpansTile
<1>1. Init => CoverInv
  <2>. SUFFICES ASSUME Init PROVE CoverInv
    OBVIOUS
  <2>1. fed = 0 /\ Len(held) = 0 /\ Len(spans) = 0
    BY EmptySeq DEF Init
  <2>2. Base = 0
    BY <2>1 DEF Base
  <2>. QED  BY <2>1, <2>2 DEF CoverInv, Covers
<1>2. FeedInv /\ FeedInv' /\ SpanInv /\ CoverInv /\ [Next]_vars => CoverInv'
  BY CoverStep
<1>3. SpanInv /\ CoverInv => SpansTile
  <2>. SUFFICES ASSUME SpanInv, CoverInv, dropped = 0, spans # << >>
                PROVE  /\ spans[1].from = 0
                       /\ \A k \in 2..Len(spans) : spans[k].from = spans[k - 1].to
                       /\ spans[Len(spans)].to = Base
    BY DEF SpansTile
  <2>1. Len(spans) # 0
    BY EmptySeq DEF SpanInv
  <2>. QED  BY <2>1 DEF CoverInv, Covers
<1>. QED  BY <1>1, <1>2, <1>3, FeedInvariant, SpanInvariant, PTL DEF Spec

-----------------------------------------------------------------------------
\* The OBU of b at s has a size and is there when the first hi bytes are.
Seen(b, s, hi) == ObuAt(b, s).sized /\ ObuAt(b, s).end <= hi

\* What av1_boundaries goes past in a part of a stream that parses are the OBUs
\* of the stream that it has the whole of, and it never meets an Err there.
LEMMA ObuWindow ==
    ASSUME NEW b \in Seq(Byte), ~ScanFails(b), NEW hi \in 0..Len(b), NEW lo \in 0..hi,
           lo \in ScanStands(b)
    PROVE  LET h == Slice(b, lo, hi)
           IN  /\ \A p : p \in FeedObus(h) <=>
                            /\ p \in Nat /\ lo + p \in ObuStarts(b) /\ Seen(b, lo + p, hi)
               /\ \A p \in FeedObus(h) : ObuAt(h, p).kind = ObuAt(b, lo + p).kind
               /\ \A p \in FeedStands(h) : ObuAt(h, p).outcome \notin {"forbidden", "toolarge"}
<1>. DEFINE h == Slice(b, lo, hi)
            n == Len(b)
            W == ScanStands(b)
            R == Scanned(b)
            S == ObuStarts(b)
            V == FeedWalk(h)
            Q == FeedRead(h)
<1>1. /\ n \in Nat /\ S \subseteq 0..(n - 1)
      /\ \A p : p \in W <=> p \in S \/ p = n
      /\ \A s \in S : /\ ObuAt(b, s).outcome = "obu" /\ s \in R
                      /\ ObuAt(b, s).end \in (s + 1)..n
                      /\ ~ObuAt(b, s).sized => ObuAt(b, s).end = n
  BY ObuStartsAre
<1>2. hi \in Nat /\ hi <= n /\ lo \in Nat /\ lo <= hi
  BY <1>1
<1>3. h \in Seq(Byte) /\ Len(h) = hi - lo
  BY SliceProperties
<1>4. /\ IsWalk(W, b, R, 0) /\ Passes(b, R) /\ IsWalk(V, h, Q, 0) /\ Passes(h, Q)
      /\ \A p : p \in FeedStands(h) <=> p \in V /\ p < Len(h)
      /\ \A p : p \in FeedObus(h) <=> p \in V /\ p \in Q
      /\ V \subseteq 0..Len(h)
  BY <1>3, ScanWalk, FeedWalkIs
<1>5. \A p \in 0..(hi - lo - 1) :
         LET o == ObuAt(b, lo + p)
             q == ObuAt(h, p)
         IN  /\ q.kind = o.kind /\ q.sized = o.sized
             /\ o.outcome = "obu" /\ o.end <= hi /\ o.sized =>
                    q.outcome = "obu" /\ o.end = lo + q.end
             /\ q.outcome = "obu" /\ q.sized =>
                    o.outcome \in {"obu", "toolarge"} /\ o.end = lo + q.end
             /\ q.outcome \in {"forbidden", "toolarge"} =>
                    o.outcome \in {"forbidden", "toolarge"}
  BY ObuInSlice
<1>6. \A p : p \in Q <=> /\ p \in 0..(hi - lo - 1) /\ ObuAt(h, p).outcome = "obu"
                        /\ ObuAt(h, p).sized
  BY <1>3 DEF FeedRead, FeedReads
<1>. HIDE DEF h, n, W, R, S, V, Q
<1>7. ASSUME NEW p \in 0..(hi - lo - 1), lo + p \in W PROVE lo + p \in S
  <2>1. lo + p # n
    BY <1>1, <1>2
  <2>. QED  BY <1>1, <1>7, <2>1
<1>8. ASSUME NEW p \in Q, lo + p \in W
      PROVE  /\ lo + p \in R /\ ObuAt(b, lo + p).end = lo + ObuAt(h, p).end
  <2>1. p \in 0..(hi - lo - 1) /\ ObuAt(h, p).outcome = "obu" /\ ObuAt(h, p).sized
    BY <1>6
  <2>2. lo + p \in S
    BY <1>7, <1>8, <2>1
  <2>. QED  BY <1>1, <1>5, <2>1, <2>2
<1>9. ASSUME NEW s \in S, lo <= s, Seen(b, s, hi)
      PROVE  s - lo \in Q /\ ObuAt(b, s).end = lo + ObuAt(h, s - lo).end
  <2>. DEFINE p == s - lo
  <2>1. s \in 0..(n - 1) /\ ObuAt(b, s).end \in (s + 1)..n /\ ObuAt(b, s).outcome = "obu"
        /\ ObuAt(b, s).end <= hi /\ ObuAt(b, s).sized
    BY <1>1, <1>9 DEF Seen
  <2>2. s < hi
    BY <1>1, <1>2, <2>1
  <2>3. p \in 0..(hi - lo - 1) /\ lo + p = s
    BY <1>1, <1>2, <1>9, <2>1, <2>2
  <2>. HIDE DEF p
  <2>4. /\ ObuAt(h, p).outcome = "obu" /\ ObuAt(b, s).end = lo + ObuAt(h, p).end
        /\ ObuAt(h, p).sized
    BY <1>5, <2>1, <2>3
  <2>. QED  BY <1>6, <2>3, <2>4 DEF p
<1>10. ASSUME NEW s \in W, s \in R, lo <= s, ObuAt(b, s).end < hi
       PROVE  s - lo \in Q /\ ObuAt(b, s).end = lo + ObuAt(h, s - lo).end
  <2>1. s # n
    <3>1. s \in 0..(n - 1)
      BY <1>10 DEF R, n, Scanned
    <3>. QED  BY <1>1, <3>1
  <2>2. s \in S
    BY <1>1, <1>10, <2>1
  <2>3. ObuAt(b, s).end \in (s + 1)..n /\ s \in 0..(n - 1)
    BY <1>1, <2>2
  <2>4. ObuAt(b, s).end # n /\ ObuAt(b, s).end <= hi
    BY <1>1, <1>2, <1>10, <2>3
  <2>5. Seen(b, s, hi)
    BY <1>1, <2>2, <2>4 DEF Seen
  <2>. QED  BY <1>9, <1>10, <2>2, <2>5
<1>11. \A p \in V : lo + p \in W
  <2>1. lo \in W
    BY DEF W
  <2>2. \A p \in Q : lo + p \in W => lo + p \in R /\ ObuAt(b, lo + p).end = lo + ObuAt(h, p).end
    BY <1>8
  <2>. QED  BY ONLY b \in Seq(Byte), <1>3, <1>4, <2>1, <2>2, WalkIntoWhole
<1>12. \A s \in W : lo <= s /\ s < hi => s - lo \in V
  <2>. DEFINE a == lo
              z == hi
  <2>1. a \in W
    BY DEF W
  <2>2. \A s \in W : s \in R /\ a <= s /\ ObuAt(b, s).end < z =>
            s - a \in Q /\ ObuAt(b, s).end = a + ObuAt(h, s - a).end
    BY <1>10
  <2>3. z \in Nat /\ h \in Seq(Byte) /\ IsWalk(W, b, R, 0) /\ Passes(b, R) /\ IsWalk(V, h, Q, 0)
    BY <1>2, <1>3, <1>4
  <2>. HIDE DEF a, z
  <2>4. \A s \in W : a <= s /\ s < z => s - a \in V
    BY ONLY b \in Seq(Byte), <2>1, <2>2, <2>3, WholeIntoWalk
  <2>. QED  BY <2>4 DEF a, z
<1>13. ASSUME NEW p \in FeedStands(h) PROVE p \in 0..(hi - lo - 1) /\ lo + p \in S
  <2>1. p \in V /\ p \in 0..Len(h) /\ p < Len(h)
    BY <1>4
  <2>2. p \in 0..(hi - lo - 1)
    BY <1>2, <1>3, <2>1
  <2>. QED  BY <1>7, <1>11, <2>1, <2>2
<1>14. \A p \in FeedStands(h) : ObuAt(h, p).outcome \notin {"forbidden", "toolarge"}
  <2>. SUFFICES ASSUME NEW p \in FeedStands(h)
                PROVE  ObuAt(h, p).outcome \notin {"forbidden", "toolarge"}
    OBVIOUS
  <2>1. ObuAt(b, lo + p).outcome = "obu" /\ p \in 0..(hi - lo - 1)
    BY <1>1, <1>13
  <2>. QED  BY <1>5, <2>1
<1>15. ASSUME NEW p \in FeedObus(h)
       PROVE  /\ p \in Nat /\ lo + p \in S /\ Seen(b, lo + p, hi)
              /\ ObuAt(h, p).kind = ObuAt(b, lo + p).kind
  <2>1. p \in V /\ p \in Q
    BY <1>4
  <2>2. /\ p \in 0..(hi - lo - 1) /\ ObuAt(h, p).outcome = "obu" /\ ObuAt(h, p).sized
        /\ lo + p \in W
    BY <1>6, <1>11, <2>1
  <2>3. ObuAt(h, p).end \in (p + 1)..(hi - lo)
    <3>1. p \in 0..(Len(h) - 1) /\ Len(h) = hi - lo
      BY <1>3, <2>2
    <3>2. ObuAt(h, p).end \in (p + 1)..Len(h)
      BY <1>3, <2>2, <3>1, ObuRange
    <3>. QED  BY <3>1, <3>2
  <2>4. ObuAt(b, lo + p).end = lo + ObuAt(h, p).end /\ ObuAt(b, lo + p).sized
        /\ ObuAt(h, p).kind = ObuAt(b, lo + p).kind
    BY <1>5, <2>2
  <2>5. ObuAt(b, lo + p).end <= hi
    BY <1>2, <2>2, <2>3, <2>4
  <2>. QED  BY <1>7, <2>2, <2>4, <2>5 DEF Seen
<1>16. ASSUME NEW p \in Nat, lo + p \in S, Seen(b, lo + p, hi)
       PROVE  p \in FeedObus(h)
  <2>. DEFINE s == lo + p
  <2>1. s \in S /\ lo <= s /\ s - lo = p /\ s \in 0..(n - 1) /\ Seen(b, s, hi)
    BY <1>1, <1>2, <1>16
  <2>2. ObuAt(b, s).end \in (s + 1)..n /\ ObuAt(b, s).end <= hi
    BY <1>1, <2>1 DEF Seen
  <2>. HIDE DEF s
  <2>3. s < hi
    BY <1>1, <1>2, <2>1, <2>2
  <2>4. s - lo \in Q /\ s - lo \in V
    BY <1>1, <1>9, <1>12, <2>1, <2>3
  <2>. QED  BY <1>4, <2>1, <2>4
<1>. QED  BY <1>14, <1>15, <1>16 DEF h, S

-----------------------------------------------------------------------------
\* The temporal units of b: how many, where each begins and ends, and whether it
\* carries a sequence header.
Temporals(b)  == {at \in ObuStarts(b) : at = 0 \/ ObuAt(b, at).kind = OBU_TEMPORAL_DELIMITER}
TCount(b)     == Len(Ascending(Temporals(b)))
TStart(b, k)  == Ascending(Temporals(b))[k]
TEnd(b, k)    == IF k < TCount(b) THEN TStart(b, k + 1) ELSE Len(b)
HasSeq(b, lo, hi) ==
    \E at \in ObuStarts(b) : lo <= at /\ at < hi /\ ObuAt(b, at).kind = OBU_SEQUENCE_HEADER

LEMMA TemporalsAre ==
    ASSUME NEW b \in Seq(Byte), ~ScanFails(b)
    PROVE  /\ TCount(b) \in Nat /\ (TCount(b) = 0 <=> Len(b) = 0) /\ Len(b) \in Nat
           /\ \A k \in 1..TCount(b) :
                 /\ TStart(b, k) \in ObuStarts(b) /\ TStart(b, k) \in 0..(Len(b) - 1)
                 /\ TStart(b, k) \in Temporals(b) /\ TStart(b, k) \in ScanStands(b)
                 /\ k # 1 => ObuAt(b, TStart(b, k)).kind = OBU_TEMPORAL_DELIMITER
                 /\ k = 1 => TStart(b, k) = 0
           /\ \A x \in Temporals(b) : \E k \in 1..TCount(b) : TStart(b, k) = x
           /\ \A i, j \in 1..TCount(b) : i < j => TStart(b, i) < TStart(b, j)
<1>. DEFINE T == Temporals(b)
            N == TCount(b)
            t(k) == TStart(b, k)
<1>1. /\ Len(b) \in Nat /\ ObuStarts(b) \subseteq 0..(Len(b) - 1)
      /\ \A p : p \in ScanStands(b) <=> p \in ObuStarts(b) \/ p = Len(b)
      /\ Len(b) > 0 => 0 \in ObuStarts(b)
  BY ObuStartsAre
<1>2. T \in SUBSET (0..Len(b)) /\ T \subseteq ObuStarts(b) /\ T \subseteq 0..(Len(b) - 1)
  <2>1. \A p \in 0..(Len(b) - 1) : p \in 0..Len(b)
    BY <1>1
  <2>. QED  BY <1>1, <2>1 DEF Temporals
<1>3. /\ N \in Nat /\ (T = {} <=> N = 0)
      /\ \A k \in 1..N : t(k) \in T
      /\ \A x \in T : \E k \in 1..N : t(k) = x
      /\ \A i, j \in 1..N : i < j => t(i) < t(j)
      /\ T # {} => \A x \in T : t(1) <= x
  <2>. HIDE DEF T
  <2>1. LET s == Ascending(T)
        IN  /\ Len(s) \in Nat /\ (T = {} <=> Len(s) = 0)
            /\ \A k \in 1..Len(s) : s[k] \in T
            /\ \A x \in T : \E k \in 1..Len(s) : s[k] = x
            /\ \A i, j \in 1..Len(s) : i < j => s[i] < s[j]
            /\ T # {} => \A x \in T : s[1] <= x
    BY <1>1, <1>2, AscendingEnds
  <2>. QED  BY <2>1 DEF TCount, TStart, T
<1>4. Len(b) > 0 => 0 \in T
  BY <1>1 DEF Temporals
<1>5. \A x \in T : x # 0 => ObuAt(b, x).kind = OBU_TEMPORAL_DELIMITER
  BY DEF Temporals
<1>. HIDE DEF T, N, t
<1>6. N = 0 <=> Len(b) = 0
  <2>1. Len(b) = 0 => T = {}
    BY <1>2
  <2>. QED  BY <1>1, <1>3, <1>4, <2>1
<1>7. \A k \in 1..N : t(k) \in 0..(Len(b) - 1) /\ t(k) \in Nat
  <2>1. \A x \in T : x \in 0..(Len(b) - 1)
    BY <1>2
  <2>2. \A x \in 0..(Len(b) - 1) : x \in Nat
    BY <1>1
  <2>. QED  BY <1>3, <2>1, <2>2
<1>8. N # 0 => t(1) = 0
  <2>. SUFFICES ASSUME N # 0 PROVE t(1) = 0
    OBVIOUS
  <2>1. Len(b) > 0 /\ 1 \in 1..N
    BY <1>1, <1>3, <1>6
  <2>2. t(1) <= 0 /\ t(1) \in Nat
    BY <1>3, <1>4, <1>7, <2>1
  <2>. QED  BY <2>2
<1>9. ASSUME NEW k \in 1..N, k # 1 PROVE t(k) # 0
  <2>1. 1 \in 1..N /\ 1 < k /\ N # 0
    BY <1>3, <1>9
  <2>2. t(1) < t(k)
    BY <1>3, <2>1
  <2>. QED  BY <1>7, <1>8, <2>1, <2>2
<1>10. \A k \in 1..N : k = 1 => t(k) = 0
  <2>1. \A k \in 1..N : N # 0
    BY <1>3
  <2>. QED  BY <1>8, <2>1
<1>. QED  BY <1>1, <1>2, <1>3, <1>5, <1>6, <1>7, <1>9, <1>10 DEF T, N, t

LEMMA TEndRange ==
    ASSUME NEW b \in Seq(Byte), ~ScanFails(b), NEW k \in 1..TCount(b)
    PROVE  TEnd(b, k) \in (TStart(b, k) + 1)..Len(b)
<1>1. /\ TCount(b) \in Nat /\ Len(b) \in Nat
      /\ \A i \in 1..TCount(b) : TStart(b, i) \in 0..(Len(b) - 1)
      /\ \A i, j \in 1..TCount(b) : i < j => TStart(b, i) < TStart(b, j)
  BY TemporalsAre
<1>2. CASE k < TCount(b)
  <2>. DEFINE j == k + 1
  <2>1. j \in 1..TCount(b) /\ k < j /\ TEnd(b, k) = TStart(b, j)
    BY <1>1, <1>2 DEF TEnd
  <2>. HIDE DEF j
  <2>. QED  BY <1>1, <2>1
<1>3. CASE ~(k < TCount(b))
  BY <1>1, <1>3 DEF TEnd
<1>. QED  BY <1>2, <1>3

\* A unit of which the window has the first OBU has those before it in the
\* window whole.
LEMMA SeenBefore ==
    ASSUME NEW b \in Seq(Byte), ~ScanFails(b), NEW hi \in Nat,
           NEW i \in 1..TCount(b), NEW k \in 1..TCount(b), i <= k, Seen(b, TStart(b, k), hi)
    PROVE  Seen(b, TStart(b, i), hi)
<1>1. CASE i = k
  BY <1>1
<1>2. CASE i < k
  <2>. DEFINE s == TStart(b, i)
              q == TStart(b, k)
  <2>1. s \in ObuStarts(b) /\ q \in ObuStarts(b) /\ s < q /\ Seen(b, q, hi)
    BY <1>2, TemporalsAre
  <2>. HIDE DEF s, q
  <2>2. /\ ObuAt(b, s).end <= q /\ ObuAt(b, s).sized
        /\ ObuAt(b, s).end \in (s + 1)..Len(b) /\ ObuAt(b, q).end \in (q + 1)..Len(b)
        /\ s \in 0..(Len(b) - 1) /\ q \in 0..(Len(b) - 1) /\ Len(b) \in Nat
    BY <2>1, ObuStartsAre
  <2>3. ObuAt(b, s).end <= hi
    BY <2>1, <2>2 DEF Seen
  <2>. QED  BY <2>2, <2>3 DEF Seen, s
<1>3. i = k \/ i < k
  BY TemporalsAre
<1>. QED  BY <1>1, <1>2, <1>3

\* The part of b from lo to hi shows m temporal units, those behind the first n
\* of b, and all of b's behind those of which it has the first OBU.
ShowsUnits(b, lo, hi, n, m) ==
    LET h == Slice(b, lo, hi)
    IN  /\ Ascending(Av1CarrierStarts(h)) = [j \in 1..m |-> TStart(b, n + j) - lo]
        /\ \A k \in (n + 1)..TCount(b) : Seen(b, TStart(b, k), hi) <=> k <= n + m

\* The n-th temporal unit is the last before lo, where one begins, if there is
\* any.
UnitAt(b, lo, n) ==
    IF TCount(b) = 0 THEN n = 0 /\ lo = 0 ELSE n < TCount(b) /\ lo = TStart(b, n + 1)

LEMMA UnitsShown ==
    ASSUME NEW b \in Seq(Byte), ~ScanFails(b), NEW hi \in 0..Len(b), NEW lo \in 0..hi,
           NEW n \in Nat, UnitAt(b, lo, n)
    PROVE  \E m \in 0..(TCount(b) - n) : ShowsUnits(b, lo, hi, n, m)
<1>. DEFINE h == Slice(b, lo, hi)
            N == TCount(b)
            t(k) == TStart(b, k)
            C == Av1CarrierStarts(h)
            K == {k \in (n + 1)..N : Seen(b, t(k), hi)}
            m == IF K = {} THEN 0 ELSE Max(K) - n
            f == [j \in 1..m |-> t(n + j) - lo]
<1>1. /\ N \in Nat /\ (N = 0 <=> Len(b) = 0) /\ Len(b) \in Nat
      /\ \A k \in 1..N :
            /\ t(k) \in ObuStarts(b) /\ t(k) \in 0..(Len(b) - 1)
            /\ t(k) \in Temporals(b) /\ t(k) \in ScanStands(b)
            /\ k # 1 => ObuAt(b, t(k)).kind = OBU_TEMPORAL_DELIMITER
            /\ k = 1 => t(k) = 0
      /\ \A x \in Temporals(b) : \E k \in 1..N : t(k) = x
      /\ \A i, j \in 1..N : i < j => t(i) < t(j)
  BY TemporalsAre
<1>2. hi \in Nat /\ lo \in Nat /\ lo <= hi /\ hi <= Len(b)
  BY <1>1
<1>3. \A i \in 1..N : \A k \in 1..N : i <= k /\ Seen(b, t(k), hi) => Seen(b, t(i), hi)
  BY <1>2, SeenBefore
<1>4. lo \in ScanStands(b) /\ n <= N /\ (N # 0 => n < N /\ lo = t(n + 1))
  <2>1. CASE N = 0
    <3>1. lo = Len(b) /\ n = 0
      BY <1>1, <2>1 DEF UnitAt
    <3>2. lo \in ScanStands(b)
      BY <3>1, ObuStartsAre
    <3>. HIDE DEF N, t
    <3>. QED  BY <1>1, <2>1, <3>1, <3>2
  <2>2. CASE N # 0
    <3>1. n < N /\ lo = t(n + 1) /\ n + 1 \in 1..N
      BY <1>1, <2>2 DEF UnitAt
    <3>2. lo \in ScanStands(b)
      BY <1>1, <3>1
    <3>. QED  BY <1>1, <2>2, <3>1, <3>2
  <2>. QED  BY <2>1, <2>2
<1>5. /\ \A p : p \in FeedObus(h) <=>
                   p \in Nat /\ lo + p \in ObuStarts(b) /\ Seen(b, lo + p, hi)
      /\ \A p \in FeedObus(h) : ObuAt(h, p).kind = ObuAt(b, lo + p).kind
  BY <1>4, ObuWindow
<1>6. \A x : x \in C <=> x \in FeedObus(h) /\ (x = 0 \/ ObuAt(h, x).kind = OBU_TEMPORAL_DELIMITER)
  BY DEF Av1CarrierStarts
<1>. HIDE DEF h, N, t, C
<1>7. /\ m \in 0..(N - n)
      /\ \A k \in (n + 1)..N : Seen(b, t(k), hi) <=> k <= n + m
  <2>1. CASE K = {}
    <3>1. ASSUME NEW k \in (n + 1)..N PROVE ~Seen(b, t(k), hi) /\ ~(k <= n + 0)
      <4>1. ~Seen(b, t(k), hi)
        <5>1. k \notin K
          BY <2>1
        <5>. QED  BY <5>1
      <4>2. ~(k <= n + 0)
        BY <1>1
      <4>. QED  BY <4>1, <4>2
    <3>2. m = 0
      BY <2>1
    <3>. HIDE DEF m, K
    <3>. QED  BY <1>1, <1>4, <3>1, <3>2
  <2>2. CASE K # {}
    <3>1. K \in SUBSET (0..N)
      BY <1>1
    <3>2. Max(K) \in K /\ \A k \in K : k <= Max(K)
      <4>. HIDE DEF K
      <4>. QED  BY <1>1, <2>2, <3>1, MaxExists
    <3>3. m = Max(K) - n
      BY <2>2
    <3>4. n + m = Max(K) /\ m \in 0..(N - n)
      <4>. DEFINE x == Max(K)
      <4>1. x \in (n + 1)..N /\ m = x - n
        BY <3>2, <3>3
      <4>. HIDE DEF K, m, x
      <4>2. n + m = x /\ m \in 0..(N - n)
        BY <1>1, <1>4, <4>1
      <4>. QED  BY <4>2 DEF x
    <3>5. ASSUME NEW k \in (n + 1)..N PROVE Seen(b, t(k), hi) <=> k <= n + m
      <4>1. Seen(b, t(k), hi) => k <= n + m
        <5>1. Seen(b, t(k), hi) => k \in K
          OBVIOUS
        <5>. HIDE DEF K, m
        <5>. QED  BY <3>2, <3>4, <5>1
      <4>2. k <= n + m => Seen(b, t(k), hi)
        <5>1. Seen(b, t(Max(K)), hi) /\ Max(K) \in (n + 1)..N
          BY <3>2
        <5>. HIDE DEF K, m
        <5>2. k \in 1..N /\ Max(K) \in 1..N
          BY <1>1, <5>1
        <5>. QED  BY <1>3, <3>4, <5>1, <5>2
      <4>. QED  BY <4>1, <4>2
    <3>. QED  BY <3>4, <3>5
  <2>. QED  BY <2>1, <2>2
<1>. HIDE DEF m, K
<1>8. \A j \in 1..m : n + j \in (n + 1)..N /\ n + j \in 1..N /\ n + j <= n + m
  BY <1>1, <1>4, <1>7
<1>9. ASSUME NEW k \in (n + 1)..N PROVE t(k) \in Nat /\ lo <= t(k) /\ (k # n + 1 => lo < t(k))
  <2>1. k \in 1..N /\ n + 1 \in 1..N /\ N # 0
    BY <1>1, <1>4
  <2>2. k = n + 1 \/ n + 1 < k
    BY <1>1
  <2>3. t(k) \in Nat /\ t(n + 1) = lo
    BY <1>1, <1>4, <2>1
  <2>. QED  BY <1>1, <1>2, <2>1, <2>2, <2>3
<1>10. f \in [1..m -> Nat]
  <2>1. \A j \in 1..m : t(n + j) - lo \in Nat
    BY <1>2, <1>8, <1>9
  <2>. QED  BY <2>1
<1>11. ASSUME NEW i \in 1..m, NEW j \in 1..m, i < j PROVE f[i] < f[j]
  <2>1. n + i \in 1..N /\ n + j \in 1..N /\ n + i < n + j
    <3>. HIDE DEF f
    <3>1. m \in 0..(N - n) /\ N \in Nat
      BY <1>1, <1>7
    <3>2. i \in Nat /\ j \in Nat
      BY <3>1
    <3>. QED  BY <1>8, <1>11, <3>2
  <2>2. t(n + i) < t(n + j) /\ t(n + i) \in Nat /\ t(n + j) \in Nat
    BY <1>1, <1>8, <1>9, <2>1
  <2>3. f[i] = t(n + i) - lo /\ f[j] = t(n + j) - lo
    OBVIOUS
  <2>. HIDE DEF f
  <2>. QED  BY <1>2, <2>2, <2>3
<1>12. ASSUME NEW x \in C PROVE \E i \in 1..m : x = f[i]
  <2>1. /\ x \in Nat /\ lo + x \in ObuStarts(b) /\ Seen(b, lo + x, hi)
        /\ x = 0 \/ ObuAt(b, lo + x).kind = OBU_TEMPORAL_DELIMITER
    BY <1>5, <1>6
  <2>2. N # 0
    <3>1. Len(b) # 0
      <4>1. lo + x \in 0..(Len(b) - 1)
        BY <2>1, ObuStartsAre
      <4>. QED  BY <1>1, <4>1
    <3>. QED  BY <1>1, <3>1
  <2>3. lo + x \in Temporals(b)
    <3>1. n + 1 \in 1..N /\ lo = t(n + 1)
      BY <1>1, <1>4, <2>2
    <3>2. x = 0 => lo + x = lo
      BY <1>2
    <3>3. lo \in Temporals(b)
      BY <1>1, <3>1
    <3>. QED  BY <2>1, <3>2, <3>3 DEF Temporals
  <2>4. PICK k \in 1..N : t(k) = lo + x
    BY <1>1, <2>3
  <2>5. k \in (n + 1)..N
    <3>1. ~(k < n + 1)
      <4>. SUFFICES ASSUME k < n + 1 PROVE FALSE
        OBVIOUS
      <4>1. n + 1 \in 1..N /\ t(n + 1) = lo
        BY <1>1, <1>4, <2>2
      <4>2. t(k) < lo
        BY <1>1, <4>1
      <4>. QED  BY <1>2, <2>1, <2>4, <4>2
    <3>. QED  BY <1>1, <3>1
  <2>6. k <= n + m
    BY <1>7, <2>1, <2>4, <2>5
  <2>. DEFINE i == k - n
  <2>7. i \in 1..m /\ n + i = k
    BY <1>1, <1>7, <2>5, <2>6
  <2>. HIDE DEF i
  <2>8. f[i] = t(k) - lo
    BY <2>7
  <2>9. f[i] = x
    BY <1>2, <2>1, <2>4, <2>8
  <2>. QED  BY <2>7, <2>9
<1>13. ASSUME NEW i \in 1..m PROVE f[i] \in C
  <2>. DEFINE k == n + i
              x == t(k) - lo
  <2>1. k \in (n + 1)..N /\ k \in 1..N /\ Seen(b, t(k), hi)
    BY <1>7, <1>8
  <2>2. t(k) \in Nat /\ lo <= t(k) /\ (k # n + 1 => k # 1) /\ (k = n + 1 => t(k) = lo)
    <3>1. N # 0
      BY <1>1, <2>1
    <3>2. k # n + 1 => k # 1
      BY <1>1, <2>1
    <3>. QED  BY <1>4, <1>9, <2>1, <3>1, <3>2
  <2>3. f[i] = x
    OBVIOUS
  <2>. HIDE DEF k
  <2>4. x \in Nat /\ lo + x = t(k) /\ (k = n + 1 => x = 0)
    BY <1>2, <2>2
  <2>. HIDE DEF x, f
  <2>5. x \in FeedObus(h) /\ (x = 0 \/ ObuAt(h, x).kind = OBU_TEMPORAL_DELIMITER)
    BY <1>1, <1>5, <2>1, <2>2, <2>4
  <2>. QED  BY <1>6, <2>3, <2>5
<1>14. Ascending(C) = f
  <2>1. \A x : x \in C <=> \E i \in 1..m : x = f[i]
    BY <1>12, <1>13
  <2>2. m \in Nat /\ \A i, j \in 1..m : i < j => f[i] < f[j]
    BY <1>1, <1>7, <1>11
  <2>. HIDE DEF f
  <2>. QED  BY <1>10, <2>1, <2>2, AscendingUnique
<1>15. ShowsUnits(b, lo, hi, n, m)
  BY <1>7, <1>14 DEF ShowsUnits, h, C, t, N
<1>. QED  BY <1>7, <1>15 DEF N

\* Where the first n temporal units end an OBU begins, or the stream ends.
LEMMA UnitAtIs ==
    ASSUME NEW b \in Seq(Byte), ~ScanFails(b), NEW lo \in Nat, NEW n \in Nat, UnitAt(b, lo, n)
    PROVE  /\ lo \in ScanStands(b) /\ lo \in 0..Len(b) /\ TCount(b) \in Nat /\ Len(b) \in Nat
           /\ n \in 0..TCount(b)
           /\ TCount(b) # 0 => n < TCount(b) /\ lo = TStart(b, n + 1)
           /\ TCount(b) = 0 => n = 0 /\ lo = 0 /\ Len(b) = 0
           /\ \A k \in (n + 1)..TCount(b) : TStart(b, k) \in Nat /\ lo <= TStart(b, k)
<1>. DEFINE N == TCount(b)
            t(k) == TStart(b, k)
<1>1. /\ N \in Nat /\ (N = 0 <=> Len(b) = 0) /\ Len(b) \in Nat
      /\ \A k \in 1..N : t(k) \in 0..(Len(b) - 1) /\ t(k) \in ScanStands(b)
      /\ \A i, j \in 1..N : i < j => t(i) < t(j)
  BY TemporalsAre
<1>2. Len(b) \in ScanStands(b)
  BY ObuStartsAre
<1>3. (N = 0 => n = 0 /\ lo = 0) /\ (N # 0 => n < N /\ lo = t(n + 1))
  BY DEF UnitAt
<1>. HIDE DEF N, t
<1>4. CASE N = 0
  <2>1. (n + 1)..N = {} /\ n \in 0..N /\ lo = Len(b) /\ lo \in 0..Len(b)
    BY <1>1, <1>3, <1>4
  <2>. QED  BY <1>1, <1>2, <1>3, <1>4, <2>1 DEF N, t
<1>5. CASE N # 0
  <2>. DEFINE j == n + 1
  <2>1. j \in 1..N /\ lo = t(j) /\ n \in 0..N /\ n < N
    BY <1>1, <1>3, <1>5
  <2>2. ASSUME NEW k \in (n + 1)..N PROVE t(k) \in Nat /\ lo <= t(k)
    <3>1. k \in 1..N /\ (k = j \/ j < k)
      BY <1>1, <2>1
    <3>2. t(k) \in 0..(Len(b) - 1) /\ (t(k) = lo \/ lo < t(k))
      BY <1>1, <2>1, <3>1
    <3>. QED  BY <1>1, <3>2
  <2>3. lo \in ScanStands(b) /\ lo \in 0..(Len(b) - 1)
    BY <1>1, <2>1
  <2>4. lo \in 0..Len(b)
    BY <1>1, <2>3
  <2>. QED  BY <1>1, <1>5, <2>1, <2>2, <2>3, <2>4 DEF N, t
<1>. QED  BY <1>4, <1>5

\* The offsets a window shows: the last is where cut drains to.
LEMMA UnitPending ==
    ASSUME Kind = "Av1", NEW b \in Seq(Byte), ~ScanFails(b), NEW hi \in 0..Len(b),
           NEW lo \in 0..hi, NEW n \in Nat, UnitAt(b, lo, n), NEW m \in 0..(TCount(b) - n),
           ShowsUnits(b, lo, hi, n, m)
    PROVE  LET h == Slice(b, lo, hi)
               s == Ascending(CarrierStarts(h))
           IN  /\ Len(s) = m /\ h \in Seq(Byte) /\ Len(h) = hi - lo
               /\ \A j \in 1..m : s[j] = TStart(b, n + j) - lo /\ s[j] \in 0..Len(h)
               /\ PendingAt(h) = IF m = 0 THEN 0 ELSE TStart(b, n + m) - lo
<1>. DEFINE h == Slice(b, lo, hi)
            S == CarrierStarts(h)
            s == Ascending(S)
<1>1. lo \in Nat /\ Len(b) \in Nat /\ TCount(b) \in Nat /\ n \in 0..TCount(b) /\ hi \in Nat
  <2>1. Len(b) \in Nat
    BY LenProperties
  <2>2. lo \in Nat /\ hi \in Nat
    BY <2>1
  <2>. QED  BY <2>1, <2>2, UnitAtIs
<1>2. h \in Seq(Byte) /\ Len(h) = hi - lo /\ Len(h) \in Nat
  BY SliceProperties, LenProperties
<1>3. S = Av1CarrierStarts(h) /\ S \in SUBSET (0..Len(h))
  BY <1>2, Av1StartsRange DEF CarrierStarts
<1>4. s = [j \in 1..m |-> TStart(b, n + j) - lo]
  BY <1>3 DEF ShowsUnits
<1>5. m \in Nat
  BY <1>1
<1>6. Len(s) = m
  BY <1>4, <1>5
<1>7. PendingAt(h) = IF S = {} THEN 0 ELSE Max(S)
  BY Zenon DEF PendingAt
<1>. HIDE DEF h
<1>8. /\ (S = {} <=> Len(s) = 0) /\ (S # {} => s[Len(s)] = Max(S))
      /\ \A k \in 1..Len(s) : s[k] \in S
  <2>. HIDE DEF S
  <2>. QED  BY <1>2, <1>3, AscendingEnds
<1>. HIDE DEF S, s
<1>9. m # 0 => s[m] = TStart(b, n + m) - lo
  BY <1>4, <1>5
<1>10. \A j \in 1..m : s[j] = TStart(b, n + j) - lo /\ s[j] \in 0..Len(h)
  BY <1>3, <1>4, <1>6, <1>8
<1>. QED  BY <1>2, <1>6, <1>7, <1>8, <1>9, <1>10 DEF h, s, S

\* A temporal unit that a window has whole carries a sequence header there if it
\* does in the stream.
LEMMA UnitKey ==
    ASSUME NEW b \in Seq(Byte), ~ScanFails(b), NEW hi \in 0..Len(b), NEW lo \in 0..hi,
           lo \in ScanStands(b), NEW s \in Nat, NEW q \in ObuStarts(b), lo <= s, s <= q,
           Seen(b, q, hi)
    PROVE  (\E at \in FeedObus(Slice(b, lo, hi)) :
                /\ s - lo <= at /\ at < q - lo
                /\ ObuAt(Slice(b, lo, hi), at).kind = OBU_SEQUENCE_HEADER) <=> HasSeq(b, s, q)
<1>. DEFINE h == Slice(b, lo, hi)
<1>1. /\ \A p : p \in FeedObus(h) <=>
                   p \in Nat /\ lo + p \in ObuStarts(b) /\ Seen(b, lo + p, hi)
      /\ \A p \in FeedObus(h) : ObuAt(h, p).kind = ObuAt(b, lo + p).kind
  BY ObuWindow
<1>2. Len(b) \in Nat /\ hi \in Nat /\ lo \in Nat /\ q \in Nat
  BY ObuStartsAre
<1>. HIDE DEF h
<1>3. ASSUME NEW at \in FeedObus(h), s - lo <= at, at < q - lo,
             ObuAt(h, at).kind = OBU_SEQUENCE_HEADER
      PROVE  HasSeq(b, s, q)
  <2>. DEFINE x == lo + at
  <2>1. x \in ObuStarts(b) /\ at \in Nat /\ ObuAt(b, x).kind = OBU_SEQUENCE_HEADER
    BY <1>1, <1>3
  <2>2. s <= x /\ x < q
    BY <1>2, <1>3, <2>1
  <2>. HIDE DEF x
  <2>. QED  BY <2>1, <2>2 DEF HasSeq
<1>4. ASSUME NEW x \in ObuStarts(b), s <= x, x < q, ObuAt(b, x).kind = OBU_SEQUENCE_HEADER
      PROVE  \E at \in FeedObus(h) : /\ s - lo <= at /\ at < q - lo
                                     /\ ObuAt(h, at).kind = OBU_SEQUENCE_HEADER
  <2>1. /\ x \in Nat /\ ObuAt(b, x).end <= q /\ ObuAt(b, x).sized
        /\ ObuAt(b, x).end \in (x + 1)..Len(b) /\ ObuAt(b, q).end \in (q + 1)..Len(b)
    BY <1>4, ObuStartsAre
  <2>2. ObuAt(b, x).end <= hi
    BY <1>2, <2>1 DEF Seen
  <2>. DEFINE at == x - lo
  <2>3. at \in Nat /\ lo + at = x /\ s - lo <= at /\ at < q - lo
    BY <1>2, <1>4, <2>1
  <2>. HIDE DEF at
  <2>4. at \in FeedObus(h)
    BY <1>1, <2>1, <2>2, <2>3 DEF Seen
  <2>. QED  BY <1>1, <1>4, <2>3, <2>4
<1>. QED  BY <1>3, <1>4 DEF HasSeq, h

\* The k-th carrier a reader of the whole of b finds, and its place in b.
TemporalCarrier(b, k) ==
    Carried(k - 1, Slice(b, TStart(b, k), TEnd(b, k)), HasSeq(b, TStart(b, k), TEnd(b, k)))
TemporalPlace(b, k) == [from |-> TStart(b, k), to |-> TEnd(b, k)]

\* Carriers and their spans are the first that reader finds.
Follows(b, all, s) ==
    /\ Len(s) <= TCount(b)
    /\ \A k \in 1..Len(s) : s[k] = TemporalPlace(b, k) /\ all[k] = TemporalCarrier(b, k)

LEMMA FollowsConcat ==
    ASSUME NEW b \in Seq(Byte), NEW all \in Seq(Returned), NEW new \in Seq(Returned),
           NEW s \in Seq(Span), NEW t \in Seq(Span), Len(all) = Len(s), Len(new) = Len(t),
           Follows(b, all, s), Len(s) + Len(t) <= TCount(b),
           \A j \in 1..Len(t) : /\ t[j] = TemporalPlace(b, Len(s) + j)
                                /\ new[j] = TemporalCarrier(b, Len(s) + j)
    PROVE  Follows(b, all \o new, s \o t) /\ Len(s \o t) = Len(s) + Len(t)
<1>. DEFINE m == Len(s)
            n == Len(t)
            a == all \o new
            u == s \o t
<1>1. m \in Nat /\ n \in Nat /\ Len(u) = m + n
  BY LenProperties, ConcatProperties
<1>2. \A k \in 1..(m + n) : /\ a[k] = IF k <= m THEN all[k] ELSE new[k - m]
                            /\ u[k] = IF k <= m THEN s[k] ELSE t[k - m]
  BY ConcatProperties
<1>. HIDE DEF a, u, m, n
<1>3. ASSUME NEW k \in 1..(m + n)
      PROVE  u[k] = TemporalPlace(b, k) /\ a[k] = TemporalCarrier(b, k)
  <2>1. CASE k <= m
    <3>1. k \in 1..m /\ a[k] = all[k] /\ u[k] = s[k]
      BY <1>1, <1>2, <2>1
    <3>. QED  BY <3>1 DEF Follows, m
  <2>2. CASE k > m
    <3>1. k - m \in 1..n /\ a[k] = new[k - m] /\ u[k] = t[k - m] /\ m + (k - m) = k
      BY <1>1, <1>2, <2>2
    <3>2. /\ t[k - m] = TemporalPlace(b, m + (k - m))
          /\ new[k - m] = TemporalCarrier(b, m + (k - m))
      BY <3>1 DEF m, n
    <3>. QED  BY <3>1, <3>2
  <2>. QED  BY <1>1, <2>1, <2>2
<1>. QED  BY <1>1, <1>3 DEF Follows, a, u, m, n
\* What cut hands over of one carrier the bytes held show whole.
LEMMA NextUnit ==
    ASSUME Kind = "Av1", FeedInv, ~ScanFails(stream), NEW n \in Nat, UnitAt(stream, Base, n),
           NEW m \in 0..(TCount(stream) - n), ShowsUnits(stream, Base, fed, n, m),
           NEW j \in 1..m, j < m
    PROVE  LET s    == Ascending(CarrierStarts(held))
               from == s[j]
               to   == s[j + 1]
           IN  /\ n + j \in 1..TCount(stream)
               /\ from \in 0..Len(held) /\ to \in from..Len(held)
               /\ Carried(n + j - 1, Slice(held, from, to), IsKeyframe(held, from, to))
                      = TemporalCarrier(stream, n + j)
               /\ [from |-> Base + from, to |-> Base + to] = TemporalPlace(stream, n + j)
<1>. DEFINE s == Ascending(CarrierStarts(held))
            from == s[j]
            to == s[j + 1]
            k == n + j
            l == n + j + 1
            lo == Base
            N == TCount(stream)
            t(i) == TStart(stream, i)
<1>1. /\ stream \in Seq(Byte) /\ fed \in 0..Len(stream) /\ lo \in 0..fed /\ lo \in Nat
      /\ held = Slice(stream, lo, fed) /\ Len(held) \in Nat
  BY HeldIsWindow
<1>2. /\ lo \in ScanStands(stream) /\ N \in Nat /\ n \in 0..N
      /\ \A i \in (n + 1)..N : t(i) \in Nat /\ lo <= t(i)
  <2>. HIDE DEF lo
  <2>. QED  BY <1>1, UnitAtIs DEF lo
<1>3. k \in 1..N /\ k \in (n + 1)..N /\ l \in 1..N /\ l \in (n + 1)..N /\ l <= n + m
      /\ k < N /\ k < l /\ l = k + 1 /\ j + 1 \in 1..m
  BY <1>2
<1>4. \A i \in 1..m : s[i] = t(n + i) - lo /\ s[i] \in 0..Len(held)
  <2>. HIDE DEF lo, s
  <2>1. LET h == Slice(stream, lo, fed)
        IN  \A i \in 1..m : /\ Ascending(CarrierStarts(h))[i] = TStart(stream, n + i) - lo
                            /\ Ascending(CarrierStarts(h))[i] \in 0..Len(h)
    BY <1>1, UnitPending DEF lo
  <2>. QED  BY <1>1, <2>1 DEF s
<1>. HIDE DEF s
<1>5. from = t(k) - lo /\ to = t(l) - lo /\ from \in 0..Len(held) /\ to \in 0..Len(held)
  <2>1. s[j + 1] = t(n + (j + 1)) - lo /\ s[j + 1] \in 0..Len(held)
    BY <1>3, <1>4
  <2>2. n + (j + 1) = l
    BY <1>2
  <2>. QED  BY <1>4, <2>1, <2>2
<1>6. t(k) < t(l) /\ t(k) \in Nat /\ t(l) \in Nat /\ lo <= t(k) /\ t(l) \in ObuStarts(stream)
  <2>. HIDE DEF k, l, lo
  <2>. QED  BY <1>1, <1>2, <1>3, TemporalsAre
<1>7. TEnd(stream, k) = t(l)
  BY <1>3 DEF TEnd
<1>. HIDE DEF from, to
<1>8. to \in from..Len(held) /\ lo + from = t(k) /\ lo + to = t(l)
  <2>. HIDE DEF k, l, lo, t
  <2>. QED  BY <1>1, <1>5, <1>6
<1>9. Slice(held, from, to) = Slice(stream, t(k), t(l))
  <2>1. Slice(held, from, to) = Slice(stream, Base + from, Base + to)
    BY <1>5, <1>8, SliceOfHeld
  <2>. QED  BY <1>8, <2>1
<1>10. IsKeyframe(held, from, to) = HasSeq(stream, t(k), t(l))
  <2>. DEFINE a == t(k)
              q == t(l)
  <2>1. Seen(stream, q, fed)
    BY <1>3 DEF ShowsUnits
  <2>2. a \in Nat /\ q \in ObuStarts(stream) /\ lo <= a /\ a <= q
    BY <1>6
  <2>3. from = a - lo /\ to = q - lo
    BY <1>5
  <2>. HIDE DEF a, q, lo
  <2>4. (\E at \in FeedObus(Slice(stream, lo, fed)) :
            /\ a - lo <= at /\ at < q - lo
            /\ ObuAt(Slice(stream, lo, fed), at).kind = OBU_SEQUENCE_HEADER)
        <=> HasSeq(stream, a, q)
    BY <1>1, <1>2, <2>1, <2>2, UnitKey
  <2>5. (\E at \in FeedObus(held) : /\ from <= at /\ at < to
                                    /\ ObuAt(held, at).kind = OBU_SEQUENCE_HEADER)
        <=> HasSeq(stream, a, q)
    BY <1>1, <2>3, <2>4
  <2>6. IsKeyframe(held, from, to) = \E at \in FeedObus(held) :
            from <= at /\ at < to /\ ObuAt(held, at).kind = OBU_SEQUENCE_HEADER
    BY DEF IsKeyframe
  <2>7. HasSeq(stream, a, q) \in BOOLEAN
    BY DEF HasSeq
  <2>. QED  BY <2>5, <2>6, <2>7 DEF a, q
<1>11. n + j - 1 = k - 1
  BY DEF k
<1>. HIDE DEF k, l, lo, t
<1>12. Carried(n + j - 1, Slice(held, from, to), IsKeyframe(held, from, to))
          = TemporalCarrier(stream, k)
  BY <1>7, <1>9, <1>10, <1>11 DEF TemporalCarrier, t
<1>13. [from |-> lo + from, to |-> lo + to] = TemporalPlace(stream, k)
  BY <1>7, <1>8 DEF TemporalPlace, t
<1>. QED  BY <1>3, <1>5, <1>8, <1>12, <1>13 DEF k, lo, from, to, s, N

\* One round of cut, from where a feed stands that follows the reader.
LEMMA UnitHandOver ==
    ASSUME Kind = "Av1", FeedInv, SpanInv, CountIsReturned, HandOver,
           delivered' = delivered, stream' = stream, ~ScanFails(stream),
           Follows(stream, delivered \o out, spans), UnitAt(stream, Base, Len(spans))
    PROVE  \E m \in 0..(TCount(stream) - Len(spans)) :
               /\ ShowsUnits(stream, Base, fed, Len(spans), m)
               /\ PendingAt(held) =
                     IF m = 0 THEN 0 ELSE TStart(stream, Len(spans) + m) - Base
               /\ Len(spans') = Len(spans) + (IF m = 0 THEN 0 ELSE m - 1)
               /\ Follows(stream, delivered' \o out', spans')
<1>. DEFINE n == Len(spans)
            all == delivered \o out
            found == Complete(held)
            d == Len(found)
            new == [k \in 1..d |->
                      Carried(index + k - 1, Slice(held, found[k].start, found[k].end),
                              found[k].keyframe)]
            t == [k \in 1..d |-> [from |-> Base + found[k].start, to |-> Base + found[k].end]]
            s == Ascending(CarrierStarts(held))
<1>1. /\ stream \in Seq(Byte) /\ held \in Seq(Byte) /\ fed \in 0..Len(stream)
      /\ Base \in 0..fed /\ Base \in Nat /\ held = Slice(stream, Base, fed)
      /\ Len(held) \in Nat
  BY HeldIsWindow
<1>2. /\ delivered \in Seq(Returned) /\ out \in Seq(Returned) /\ spans \in Seq(Span)
      /\ all \in Seq(Returned) /\ Len(all) = n /\ n \in Nat
  BY ConcatProperties, LenProperties DEF SpanInv, SpansDisjoint
<1>3. n \in 0..TCount(stream) /\ TCount(stream) \in Nat
  <2>. HIDE DEF Base
  <2>. QED  BY <1>1, <1>2, UnitAtIs
<1>4. PICK m \in 0..(TCount(stream) - n) : ShowsUnits(stream, Base, fed, n, m)
  <2>. HIDE DEF Base, n
  <2>. QED  BY <1>1, <1>2, UnitsShown DEF n
<1>5. /\ Len(s) = m /\ m \in Nat
      /\ PendingAt(held) = IF m = 0 THEN 0 ELSE TStart(stream, n + m) - Base
  <2>. DEFINE lo == Base
  <2>1. lo \in 0..fed /\ held = Slice(stream, lo, fed) /\ ShowsUnits(stream, lo, fed, n, m)
        /\ UnitAt(stream, lo, n)
    BY <1>1, <1>4
  <2>. HIDE DEF lo, n, s
  <2>2. LET h == Slice(stream, lo, fed)
        IN  /\ Len(Ascending(CarrierStarts(h))) = m
            /\ PendingAt(h) = IF m = 0 THEN 0 ELSE TStart(stream, n + m) - lo
    BY <1>1, <1>2, <2>1, UnitPending
  <2>3. m \in Nat
    BY <1>3
  <2>. QED  BY <2>1, <2>2, <2>3 DEF s, lo
<1>6. /\ d = IF m = 0 THEN 0 ELSE m - 1
      /\ \A k \in 1..(m - 1) : /\ found[k].start = s[k] /\ found[k].end = s[k + 1]
                                /\ found[k].keyframe = IsKeyframe(held, s[k], s[k + 1])
  BY <1>1, <1>5, FoundIs
<1>7. new \in Seq(Returned) /\ Len(new) = d
  BY NewCarriers
<1>8. out' = out \o new /\ spans' = spans \o t
  BY Zenon DEF HandOver
<1>9. index = n
  BY <1>2 DEF CountIsReturned
<1>10. d \in Nat /\ \A j \in 1..d : j \in 1..(m - 1) /\ j \in 1..m /\ j < m
  <2>. HIDE DEF d
  <2>. QED  BY <1>5, <1>6
<1>11. ASSUME NEW j \in 1..d
       PROVE  /\ t[j] = TemporalPlace(stream, n + j) /\ new[j] = TemporalCarrier(stream, n + j)
              /\ t[j] \in Span
  <2>1. /\ j \in 1..m /\ j < m /\ found[j].start = s[j] /\ found[j].end = s[j + 1]
        /\ found[j].keyframe = IsKeyframe(held, s[j], s[j + 1])
    BY <1>6, <1>10
  <2>2. LET from == s[j]
            to   == s[j + 1]
        IN  /\ from \in 0..Len(held) /\ to \in from..Len(held)
            /\ Carried(n + j - 1, Slice(held, from, to), IsKeyframe(held, from, to))
                   = TemporalCarrier(stream, n + j)
            /\ [from |-> Base + from, to |-> Base + to] = TemporalPlace(stream, n + j)
    <3>. HIDE DEF n
    <3>. QED  BY <1>1, <1>2, <1>4, <2>1, NextUnit DEF n
  <2>3. new[j] = Carried(index + j - 1, Slice(held, found[j].start, found[j].end),
                         found[j].keyframe)
    BY Zenon
  <2>4. t[j] = [from |-> Base + found[j].start, to |-> Base + found[j].end]
    OBVIOUS
  <2>. HIDE DEF new, t, found, s, d, n, Base
  <2>5. t[j] \in Span
    <3>1. Base + s[j] \in Nat /\ Base + s[j + 1] \in Nat
      BY <1>1, <2>2
    <3>. QED  BY <2>1, <2>4, <3>1 DEF Span
  <2>. QED  BY <1>9, <2>1, <2>2, <2>3, <2>4, <2>5
<1>12. t \in Seq(Span) /\ Len(t) = d
  <2>1. \A j \in 1..d : [from |-> Base + found[j].start, to |-> Base + found[j].end] \in Span
    <3>1. \A j \in 1..d : t[j] = [from |-> Base + found[j].start, to |-> Base + found[j].end]
      OBVIOUS
    <3>. HIDE DEF t
    <3>. QED  BY <1>11, <3>1
  <2>. HIDE DEF d, found, Base
  <2>. QED  BY <1>10, <2>1
<1>. HIDE DEF t, new, d, n, found, s
<1>13. Follows(stream, all \o new, spans \o t) /\ Len(spans \o t) = n + d
  <2>1. n + d <= TCount(stream)
    BY <1>3, <1>5, <1>6
  <2>2. Len(spans) = n /\ Follows(stream, all, spans)
    BY DEF n
  <2>. HIDE DEF all
  <2>3. /\ Len(all) = Len(spans) /\ Len(new) = Len(t) /\ Len(spans) + Len(t) <= TCount(stream)
        /\ \A j \in 1..Len(t) : /\ t[j] = TemporalPlace(stream, Len(spans) + j)
                                /\ new[j] = TemporalCarrier(stream, Len(spans) + j)
    BY <1>2, <1>7, <1>11, <1>12, <2>1, <2>2
  <2>4. /\ Follows(stream, all \o new, spans \o t)
        /\ Len(spans \o t) = Len(spans) + Len(t)
    <3>1. /\ stream \in Seq(Byte) /\ all \in Seq(Returned) /\ new \in Seq(Returned)
          /\ spans \in Seq(Span) /\ t \in Seq(Span) /\ Follows(stream, all, spans)
      BY <1>1, <1>2, <1>7, <1>12, <2>2
    <3>. QED  BY ONLY <2>3, <3>1, FollowsConcat, ZenonT(40)
  <2>. QED  BY <1>12, <2>2, <2>4
<1>14. delivered' \o out' = all \o new
  <2>1. (delivered \o out) \o new = delivered \o (out \o new)
    BY <1>2, <1>7, ConcatAssociative, SMTT(30)
  <2>. QED  BY <1>8, <2>1, Zenon
<1>. QED
  BY <1>4, <1>5, <1>6, <1>8, <1>13, <1>14 DEF n

-----------------------------------------------------------------------------
\* Where a feed stands that has dropped nothing of a stream it can cut: n
\* carriers are out, the bytes held begin where the next one does, and when push
\* has looked at them there is no boundary in them but there.
Av1Following ==
    LET n == Len(spans)
    IN  /\ Follows(stream, delivered \o out, spans)
        /\ IF over
           THEN held = << >> /\ fed = Len(stream) /\ n = TCount(stream)
           ELSE /\ UnitAt(stream, Base, n)
                /\ n > 0 => Seen(stream, TStart(stream, n + 1), fed)
                /\ call # "cut" => PendingAt(held) = 0

Av1FollowInv == Readable(stream) /\ dropped = 0 => Av1Following

\* finish is the end of it.
OverInv == over => call = "idle"

LEMMA OverInvariant == Spec => []OverInv
<1>1. Init => OverInv
  BY DEF Init, OverInv
<1>2. OverInv /\ [Next]_vars => OverInv'
  BY DEF OverInv, Next, PushSteps, Push, Drain, CutReturns, CutFails, WithinLimit, OverLimit,
         Return, Finish, Done, vars
<1>. QED  BY <1>1, <1>2, PTL DEF Spec

LEMMA ReadableNeverFails ==
    ASSUME FeedInv, ~ScanFails(stream), NEW n \in Nat, UnitAt(stream, Base, n)
    PROVE  ~Fails(held)
<1>. DEFINE lo == Base
<1>1. /\ stream \in Seq(Byte) /\ fed \in 0..Len(stream) /\ lo \in 0..fed /\ lo \in Nat
      /\ held = Slice(stream, lo, fed) /\ UnitAt(stream, lo, n)
  BY HeldIsWindow
<1>. HIDE DEF lo
<1>2. lo \in ScanStands(stream)
  BY <1>1, UnitAtIs
<1>3. \A p \in FeedStands(held) : ObuAt(held, p).outcome \notin {"forbidden", "toolarge"}
  BY <1>1, <1>2, ObuWindow
<1>. QED  BY <1>3 DEF Fails

LEMMA Av1FollowInit ==
    ASSUME Kind = "Av1", Init
    PROVE  Av1FollowInv
<1>1. /\ stream \in Seq(Byte) /\ fed = 0 /\ held = << >> /\ call = "idle" /\ ~over
      /\ delivered = << >> /\ out = << >> /\ spans = << >>
  BY FeedAssumption DEF Init
<1>2. Len(<< >>) = 0 /\ << >> \in Seq(Byte)
  BY EmptySeq
<1>3. Base = 0
  <2>1. Len(held) = 0 /\ fed = 0
    BY <1>1, <1>2
  <2>. QED  BY <2>1 DEF Base
<1>. HIDE DEF Base
<1>4. PendingAt(held) = 0
  <2>1. PendingAt(held) \in 0..0
    BY <1>1, <1>2, PendingRange
  <2>. QED  BY <2>1
<1>. SUFFICES ASSUME ~ScanFails(stream) PROVE Av1Following
  BY DEF Av1FollowInv, Readable
<1>5. TCount(stream) \in Nat
  BY <1>1, TemporalsAre
<1>6. Follows(stream, delivered \o out, spans)
  BY <1>1, <1>2, <1>5 DEF Follows
<1>7. UnitAt(stream, 0, 0)
  <2>1. TCount(stream) # 0 => 1 \in 1..TCount(stream)
    BY <1>5
  <2>2. TCount(stream) # 0 => 0 < TCount(stream) /\ TStart(stream, 0 + 1) = 0
    BY <1>1, <1>5, <2>1, TemporalsAre
  <2>. QED  BY <2>2 DEF UnitAt
<1>. QED  BY <1>1, <1>2, <1>3, <1>4, <1>6, <1>7 DEF Av1Following

LEMMA Av1FollowPush ==
    ASSUME FeedInv, SpanInv, Av1Following, ~ScanFails(stream), NEW n \in Chunks, Push(n)
    PROVE  Av1Following'
<1>1. /\ ~over /\ over' = over /\ stream' = stream /\ spans' = spans /\ delivered' = delivered
      /\ out' = << >> /\ out = << >> /\ call' = "cut"
  BY DEF Push, SpanInv
<1>2. /\ stream \in Seq(Byte) /\ fed \in Nat /\ Len(held) \in Nat
  BY HeldIsWindow
<1>3. n \in Nat /\ Len(held') = Len(held) + n /\ fed' = fed + n
  <2>1. n \in Nat
    BY FeedAssumption
  <2>. QED  BY <2>1, PushKeepsTail DEF FeedInv, Push
<1>4. Base' = Base /\ Base \in Nat
  BY <1>2, <1>3, HeldIsWindow DEF Base
<1>5. Len(spans) \in Nat
  BY LenProperties DEF SpanInv
<1>. HIDE DEF Base
<1>6. /\ UnitAt(stream, Base, Len(spans)) /\ Follows(stream, delivered \o out, spans)
      /\ Len(spans) > 0 => Seen(stream, TStart(stream, Len(spans) + 1), fed)
  BY <1>1 DEF Av1Following
<1>7. ASSUME Len(spans) > 0 PROVE Seen(stream, TStart(stream, Len(spans) + 1), fed')
  <2>. DEFINE k == Len(spans) + 1
              s == TStart(stream, k)
  <2>1. Len(spans) < TCount(stream) /\ TCount(stream) \in Nat
    BY <1>2, <1>4, <1>5, <1>6, <1>7, UnitAtIs
  <2>2. k \in 1..TCount(stream)
    BY <1>5, <2>1
  <2>. HIDE DEF k
  <2>3. s \in ObuStarts(stream)
    BY <1>2, <2>2, TemporalsAre
  <2>4. Seen(stream, s, fed)
    BY <1>6, <1>7 DEF k
  <2>. HIDE DEF s
  <2>5. ObuAt(stream, s).end \in (s + 1)..Len(stream) /\ s \in Nat /\ Len(stream) \in Nat
    BY <1>2, <2>3, ObuStartsAre
  <2>6. Seen(stream, s, fed')
    BY <1>2, <1>3, <2>4, <2>5 DEF Seen
  <2>. QED  BY <2>6 DEF s, k
<1>. QED  BY <1>1, <1>4, <1>6, <1>7 DEF Av1Following

\* What a feed that follows the reader knows when it looks at the bytes held.
LEMMA Av1Looks ==
    ASSUME Kind = "Av1", FeedInv, SpanInv, CountIsReturned, Av1Following, ~ScanFails(stream),
           ~over, HandOver, delivered' = delivered, stream' = stream
    PROVE  \E m \in 0..(TCount(stream) - Len(spans)) :
               /\ ShowsUnits(stream, Base, fed, Len(spans), m)
               /\ PendingAt(held) =
                     IF m = 0 THEN 0 ELSE TStart(stream, Len(spans) + m) - Base
               /\ Len(spans') = Len(spans) + (IF m = 0 THEN 0 ELSE m - 1)
               /\ Follows(stream, delivered' \o out', spans')
  BY UnitHandOver DEF Av1Following

LEMMA Av1FollowDrain ==
    ASSUME Kind = "Av1", FeedInv, SpanInv, CountIsReturned, OverInv, Av1Following,
           ~ScanFails(stream), Drain
    PROVE  Av1Following'
<1>. DEFINE n == Len(spans)
            N == TCount(stream)
<1>1. /\ ~over /\ over' = over /\ stream' = stream /\ fed' = fed /\ delivered' = delivered
      /\ call' = "cut" /\ HandOver /\ PendingAt(held) > 0
  BY DEF Drain, OverInv
<1>2. /\ stream \in Seq(Byte) /\ held \in Seq(Byte) /\ Base \in Nat /\ Len(held) \in Nat
      /\ fed \in Nat
  BY HeldIsWindow
<1>3. PICK m \in 0..(N - n) :
          /\ ShowsUnits(stream, Base, fed, n, m)
          /\ PendingAt(held) = IF m = 0 THEN 0 ELSE TStart(stream, n + m) - Base
          /\ Len(spans') = n + (IF m = 0 THEN 0 ELSE m - 1)
          /\ Follows(stream, delivered' \o out', spans')
  BY <1>1, Av1Looks
<1>4. /\ N \in Nat /\ n \in Nat /\ m \in Nat /\ m # 0 /\ n + m <= N
  <2>1. UnitAt(stream, Base, n) /\ n \in Nat
    BY <1>1, LenProperties DEF Av1Following, SpanInv
  <2>. HIDE DEF Base, n
  <2>2. N \in Nat /\ n \in 0..N
    BY <1>2, <2>1, UnitAtIs
  <2>3. m # 0
    BY <1>1, <1>3
  <2>. HIDE DEF N
  <2>. QED  BY <2>1, <2>2, <2>3
<1>. HIDE DEF n, N
<1>. DEFINE k == n + m
<1>5. k \in 1..N /\ k \in (n + 1)..N /\ Len(spans') = k - 1 /\ k - 1 + 1 = k /\ N # 0
      /\ k - 1 < N /\ k <= n + m
  BY <1>3, <1>4
<1>6. PendingAt(held) = TStart(stream, k) - Base
  BY <1>3, <1>4
<1>7. TStart(stream, k) \in Nat
  <2>. HIDE DEF k
  <2>1. TStart(stream, k) \in 0..(Len(stream) - 1)
    BY <1>2, <1>5, TemporalsAre DEF N
  <2>. QED  BY <1>2, <2>1, LenProperties
<1>8. Base' = TStart(stream, k)
  <2>1. PendingAt(held) \in 0..Len(held)
    BY <1>2, PendingRange
  <2>2. Len(held') = Len(held) - PendingAt(held)
    BY <1>1, <2>1, DrainKeepsTail DEF FeedInv, Drain
  <2>3. Base' = Base + PendingAt(held)
    BY <1>1, <1>2, <2>1, <2>2 DEF Base
  <2>. HIDE DEF Base, k
  <2>. QED  BY <1>2, <1>6, <1>7, <2>3
<1>9. Seen(stream, TStart(stream, k), fed)
  BY <1>3, <1>5 DEF ShowsUnits, N
<1>. HIDE DEF Base, k
<1>10. UnitAt(stream, Base', k - 1)
  BY <1>5, <1>8 DEF UnitAt, N
<1>. QED  BY <1>1, <1>3, <1>5, <1>9, <1>10 DEF Av1Following

\* A feed that has no boundary pending sees one temporal unit begin at most.
LEMMA OneUnitOpen ==
    ASSUME NEW b \in Seq(Byte), ~ScanFails(b), NEW lo \in Nat, NEW n \in Nat,
           UnitAt(b, lo, n), NEW m \in 0..(TCount(b) - n), m # 0, TStart(b, n + m) - lo = 0
    PROVE  m = 1
<1>. DEFINE N == TCount(b)
            i == n + 1
            k == n + m
<1>1. N \in Nat /\ (N # 0 => lo = TStart(b, n + 1) /\ n < N)
  BY UnitAtIs
<1>2. m \in Nat /\ N # 0 /\ k \in 1..N /\ i \in 1..N /\ (m # 1 => i < k) /\ lo = TStart(b, i)
  BY <1>1
<1>. HIDE DEF i, k
<1>3. TStart(b, k) \in Nat /\ (i < k => TStart(b, i) < TStart(b, k))
  <2>1. TStart(b, k) \in 0..(Len(b) - 1)
    BY <1>2, TemporalsAre
  <2>. QED  BY <1>2, <2>1, TemporalsAre, LenProperties
<1>4. TStart(b, k) - lo = 0
  BY DEF k
<1>. QED  BY <1>2, <1>3, <1>4

LEMMA Av1FollowCutReturns ==
    ASSUME Kind = "Av1", FeedInv, SpanInv, CountIsReturned, OverInv, Av1Following,
           ~ScanFails(stream), CutReturns
    PROVE  Av1Following'
<1>1. /\ ~over /\ over' = over /\ stream' = stream /\ fed' = fed /\ delivered' = delivered
      /\ held' = held /\ HandOver /\ PendingAt(held) = 0
  BY DEF CutReturns, OverInv
<1>2. /\ UnitAt(stream, Base, Len(spans)) /\ stream \in Seq(Byte) /\ Base \in Nat
      /\ Len(spans) \in Nat
      /\ Len(spans) > 0 => Seen(stream, TStart(stream, Len(spans) + 1), fed)
  BY <1>1, HeldIsWindow, LenProperties DEF Av1Following, SpanInv
<1>3. Base' = Base
  BY <1>1 DEF Base
<1>. HIDE DEF Base
<1>4. PICK m \in 0..(TCount(stream) - Len(spans)) :
          /\ PendingAt(held) = IF m = 0 THEN 0 ELSE TStart(stream, Len(spans) + m) - Base
          /\ Len(spans') = Len(spans) + (IF m = 0 THEN 0 ELSE m - 1)
          /\ Follows(stream, delivered' \o out', spans')
  BY <1>1, Av1Looks
<1>5. m # 0 => m = 1
  BY <1>1, <1>2, <1>4, OneUnitOpen
<1>6. Len(spans') = Len(spans)
  BY <1>2, <1>4, <1>5
<1>. QED  BY <1>1, <1>2, <1>3, <1>4, <1>6 DEF Av1Following

LEMMA Av1FollowReturn ==
    ASSUME FeedInv, SpanInv, OverInv, Av1Following, WithinLimit
    PROVE  Av1Following'
<1>1. /\ ~over /\ over' = over /\ stream' = stream /\ fed' = fed /\ spans' = spans
      /\ held' = held /\ call = "settle" /\ delivered' = delivered \o out /\ out' = << >>
  BY DEF WithinLimit, Return, OverInv
<1>2. delivered' \o out' = delivered \o out
  BY <1>1, ConcatProperties, ConcatEmptySeq DEF SpanInv
<1>3. Base' = Base
  BY <1>1 DEF Base
<1>. HIDE DEF Base
<1>. QED  BY <1>1, <1>2, <1>3 DEF Av1Following

\* temporal_units, of bytes scan_obus reads.
LEMMA TemporalUnitsAre ==
    ASSUME NEW b \in Seq(Byte), ~ScanFails(b)
    PROVE  /\ TemporalUnits(b) \in Seq({TemporalUnits(b)[k] : k \in 1..TCount(b)})
           /\ Len(TemporalUnits(b)) = TCount(b) /\ TCount(b) \in Nat
           /\ \A k \in 1..TCount(b) :
                 /\ TemporalUnits(b)[k].start = TStart(b, k)
                 /\ TemporalUnits(b)[k].end = TEnd(b, k)
                 /\ TemporalUnits(b)[k].has_sequence_header
                        = HasSeq(b, TStart(b, k), TEnd(b, k))
<1>. DEFINE N == TCount(b)
            S == ObuStarts(b)
            opens == Ascending(Temporals(b))
            units == TemporalUnits(b)
            end(k) == IF k < Len(opens) THEN opens[k + 1] ELSE Len(b)
            own(k) == {at \in S : opens[k] <= at /\ at < end(k)}
<1>1. N \in Nat /\ Len(opens) = N
  BY TemporalsAre DEF TCount
<1>2. units = [k \in 1..Len(opens) |-> TemporalUnitOf(b, opens[k], end(k), own(k))]
  <2>1. units = TemporalUnitsAt(b, S, opens)
    BY DEF TemporalUnits, Temporals
  <2>. HIDE DEF units, S, opens
  <2>. QED  BY <2>1, Zenon DEF TemporalUnitsAt
<1>3. \A k \in 1..N : opens[k] = TStart(b, k) /\ end(k) = TEnd(b, k)
  BY DEF TStart, TEnd, TCount
<1>. HIDE DEF units
<1>4. Len(units) = N /\ \A k \in 1..N : units[k] = TemporalUnitOf(b, opens[k], end(k), own(k))
  <2>. HIDE DEF opens, end, own, N
  <2>. QED  BY <1>1, <1>2
<1>5. ASSUME NEW k \in 1..N
      PROVE  /\ units[k].start = TStart(b, k) /\ units[k].end = TEnd(b, k)
             /\ units[k].has_sequence_header = HasSeq(b, TStart(b, k), TEnd(b, k))
  <2>. DEFINE s == TStart(b, k)
              e == TEnd(b, k)
              mine == {at \in S : s <= at /\ at < e}
  <2>1. units[k] = TemporalUnitOf(b, s, e, mine)
    <3>1. opens[k] = s /\ end(k) = e
      BY <1>3
    <3>2. units[k] = TemporalUnitOf(b, opens[k], end(k), own(k))
      BY <1>4
    <3>3. own(k) = mine
      <4>. HIDE DEF opens, end, s, e, S
      <4>. QED  BY <3>1
    <3>. HIDE DEF opens, end, own, s, e, mine, units
    <3>. QED  BY <3>1, <3>2, <3>3
  <2>2. (\E at \in mine : ObuAt(b, at).kind = OBU_SEQUENCE_HEADER) = HasSeq(b, s, e)
    <3>. HIDE DEF s, e
    <3>. QED  BY DEF HasSeq
  <2>. HIDE DEF mine, s, e
  <2>3. /\ units[k].start = s /\ units[k].end = e
        /\ units[k].has_sequence_header
              = \E at \in mine : ObuAt(b, at).kind = OBU_SEQUENCE_HEADER
    <3>. HIDE DEF units
    <3>1. LET u == TemporalUnitOf(b, s, e, mine)
          IN  /\ u.start = s /\ u.end = e
              /\ u.has_sequence_header
                    = \E at \in mine : ObuAt(b, at).kind = OBU_SEQUENCE_HEADER
      BY DEF TemporalUnitOf
    <3>. QED  BY <2>1, <3>1
  <2>. QED  BY <2>2, <2>3 DEF s, e
<1>6. units \in Seq({units[k] : k \in 1..N})
  <2>1. units = [k \in 1..N |-> units[k]]
    <3>. HIDE DEF opens, end, own, N
    <3>. QED  BY <1>1, <1>2
  <2>. HIDE DEF N
  <2>. QED  BY <1>1, <2>1
<1>. QED  BY <1>1, <1>4, <1>5, <1>6 DEF units, N

\* The rest of b from where its last temporal unit begins is one temporal unit,
\* with the OBUs of that one.
LEMMA LastUnit ==
    ASSUME NEW b \in Seq(Byte), ~ScanFails(b), TCount(b) # 0
    PROVE  LET lo == TStart(b, TCount(b))
               h  == Slice(b, lo, Len(b))
           IN  /\ ~ScanFails(h) /\ h \in Seq(Byte) /\ TCount(h) = 1
               /\ HasSeq(h, TStart(h, 1), TEnd(h, 1)) <=> HasSeq(b, lo, Len(b))
<1>. DEFINE N == TCount(b)
            lo == TStart(b, N)
            h == Slice(b, lo, Len(b))
<1>1. /\ N \in Nat /\ Len(b) \in Nat /\ N \in 1..N
      /\ lo \in 0..(Len(b) - 1) /\ lo \in ScanStands(b)
      /\ \A x \in Temporals(b) : \E k \in 1..N : TStart(b, k) = x
      /\ \A k \in 1..N : k < N => TStart(b, k) < lo
      /\ \A k \in 1..N : TStart(b, k) \in 0..(Len(b) - 1)
  <2>1. N \in Nat /\ N \in 1..N
    BY TemporalsAre
  <2>. HIDE DEF N
  <2>. QED  BY <2>1, TemporalsAre DEF N
<1>. HIDE DEF lo
<1>2. h \in Seq(Byte) /\ Len(h) = Len(b) - lo /\ lo \in Nat
  <2>1. Len(b) \in 0..Len(b) /\ lo \in 0..Len(b) /\ lo \in Nat
    BY <1>1
  <2>2. h \in Seq(Byte) /\ Len(h) = Len(b) - lo
    BY <2>1, SliceProperties
  <2>. QED  BY <2>1, <2>2
<1>3. /\ ~ScanFails(h)
      /\ \A p : p \in ObuStarts(h) <=> p \in Nat /\ lo + p \in ObuStarts(b)
      /\ \A p \in ObuStarts(h) : ObuAt(h, p).kind = ObuAt(b, lo + p).kind
  BY <1>1, TailScan
<1>. HIDE DEF h, N
<1>4. /\ TCount(h) \in Nat /\ TCount(h) # 0
      /\ \A k \in 1..TCount(h) : /\ TStart(h, k) \in ObuStarts(h) /\ TStart(h, k) \in Nat
                                 /\ k # 1 => ObuAt(h, TStart(h, k)).kind = OBU_TEMPORAL_DELIMITER
                                 /\ k = 1 => TStart(h, k) = 0
      /\ \A i, j \in 1..TCount(h) : i < j => TStart(h, i) < TStart(h, j)
  <2>1. Len(h) # 0
    BY <1>1, <1>2
  <2>. QED  BY <1>2, <1>3, <2>1, TemporalsAre
<1>5. TCount(h) = 1
  <2>. SUFFICES ASSUME TCount(h) # 1 PROVE FALSE
    OBVIOUS
  <2>1. 2 \in 1..TCount(h) /\ 1 \in 1..TCount(h)
    BY <1>4
  <2>. DEFINE p == TStart(h, 2)
  <2>2. /\ p \in ObuStarts(h) /\ ObuAt(h, p).kind = OBU_TEMPORAL_DELIMITER
        /\ p \in Nat /\ p > 0
    BY <1>4, <2>1
  <2>. HIDE DEF p
  <2>3. lo + p \in Temporals(b)
    BY <1>3, <2>2 DEF Temporals
  <2>4. PICK k \in 1..N : TStart(b, k) = lo + p
    BY <1>1, <2>3
  <2>5. k = N \/ k < N
    BY <1>1
  <2>. QED  BY <1>1, <1>2, <2>2, <2>4, <2>5 DEF lo
<1>6. TStart(h, 1) = 0 /\ TEnd(h, 1) = Len(h)
  <2>1. 1 \in 1..TCount(h)
    BY <1>5
  <2>. QED  BY <1>4, <1>5, <2>1 DEF TEnd
<1>7. HasSeq(h, 0, Len(h)) => HasSeq(b, lo, Len(b))
  <2>. SUFFICES ASSUME NEW at \in ObuStarts(h), ObuAt(h, at).kind = OBU_SEQUENCE_HEADER
                PROVE  HasSeq(b, lo, Len(b))
    BY DEF HasSeq
  <2>. DEFINE x == lo + at
  <2>1. x \in ObuStarts(b) /\ ObuAt(b, x).kind = OBU_SEQUENCE_HEADER /\ at \in Nat
    BY <1>3
  <2>2. x \in 0..(Len(b) - 1)
    BY <2>1, ObuStartsAre
  <2>3. lo <= x /\ x < Len(b)
    BY <1>1, <1>2, <2>1, <2>2
  <2>. HIDE DEF x
  <2>. QED  BY <2>1, <2>3 DEF HasSeq
<1>8. HasSeq(b, lo, Len(b)) => HasSeq(h, 0, Len(h))
  <2>. SUFFICES ASSUME NEW x \in ObuStarts(b), lo <= x, x < Len(b),
                       ObuAt(b, x).kind = OBU_SEQUENCE_HEADER
                PROVE  HasSeq(h, 0, Len(h))
    BY DEF HasSeq
  <2>1. x \in 0..(Len(b) - 1)
    BY ObuStartsAre
  <2>. DEFINE at == x - lo
  <2>2. at \in Nat /\ lo + at = x /\ 0 <= at /\ at < Len(h)
    BY <1>1, <1>2, <2>1
  <2>. HIDE DEF at
  <2>3. at \in ObuStarts(h) /\ ObuAt(h, at).kind = OBU_SEQUENCE_HEADER
    BY <1>3, <2>2
  <2>. QED  BY <2>2, <2>3 DEF HasSeq
<1>. QED  BY <1>2, <1>3, <1>5, <1>6, <1>7, <1>8 DEF h, lo, N

\* Where the stream ends a feed has every temporal unit but the last one out.
LEMMA Av1AtTheEnd ==
    ASSUME Kind = "Av1", FeedInv, Readable(stream), NEW n \in Nat, UnitAt(stream, Base, n),
           PendingAt(held) = 0, fed = Len(stream), TCount(stream) # 0
    PROVE  n + 1 = TCount(stream)
<1>. DEFINE b == stream
            lo == Base
            hi == Len(b)
            N == TCount(b)
<1>1. /\ b \in Seq(Byte) /\ lo \in 0..hi /\ lo \in Nat /\ hi \in Nat /\ hi \in 0..hi
      /\ held = Slice(b, lo, hi) /\ UnitAt(b, lo, n)
  BY HeldIsWindow
<1>2. ~ScanFails(b)
  BY DEF Readable
<1>. HIDE DEF lo, hi
<1>3. PICK m \in 0..(N - n) : ShowsUnits(b, lo, hi, n, m)
  BY <1>1, <1>2, UnitsShown DEF hi
<1>4. PendingAt(held) = IF m = 0 THEN 0 ELSE TStart(b, n + m) - lo
  BY <1>1, <1>2, <1>3, UnitPending DEF hi
<1>5. m # 0 => m = 1
  BY <1>1, <1>2, <1>4, OneUnitOpen
<1>6. N \in Nat /\ n < N
  BY <1>1, <1>2, UnitAtIs
<1>. SUFFICES ASSUME n + 1 # N PROVE FALSE
  BY DEF N, b
<1>. DEFINE k == n + 2
<1>7. k \in (n + 1)..N /\ k \in 1..N /\ k # 1 /\ ~(k <= n + m)
  BY <1>5, <1>6
<1>. HIDE DEF k, N
<1>. DEFINE s == TStart(b, k)
<1>8. s \in ObuStarts(b) /\ ObuAt(b, s).kind = OBU_TEMPORAL_DELIMITER
  BY <1>1, <1>2, <1>7, TemporalsAre DEF N
<1>9. ObuAt(b, s).sized /\ ObuAt(b, s).end <= hi
  <2>. HIDE DEF s
  <2>1. ObuAt(b, s).sized
    BY <1>8 DEF Readable
  <2>2. ObuAt(b, s).end \in (s + 1)..Len(b) /\ s \in Nat
    BY <1>1, <1>2, <1>8, ObuStartsAre
  <2>. QED  BY <1>1, <2>1, <2>2 DEF hi
<1>10. Seen(b, s, hi)
  BY <1>9 DEF Seen
<1>. QED  BY <1>3, <1>7, <1>10 DEF ShowsUnits, N

-----------------------------------------------------------------------------
\* The carrier finish makes of the bytes held is the last that reader finds.
LEMMA LastCarrier ==
    ASSUME Kind = "Av1", FeedInv, Readable(stream), NEW n \in Nat, UnitAt(stream, Base, n),
           PendingAt(held) = 0, fed = Len(stream), held # << >>
    PROVE  /\ n + 1 = TCount(stream) /\ n + 1 \in 1..TCount(stream) /\ Base \in Nat
           /\ Carried(n, held, FinishKeyframe(held)) = TemporalCarrier(stream, n + 1)
           /\ [from |-> Base, to |-> fed] = TemporalPlace(stream, n + 1)
<1>. DEFINE b == stream
            lo == Base
            N == TCount(b)
<1>1. /\ b \in Seq(Byte) /\ lo \in Nat /\ Len(b) \in Nat /\ held \in Seq(Byte)
      /\ held = Slice(b, lo, Len(b)) /\ lo + Len(held) = Len(b) /\ Len(held) \in Nat
  BY HeldIsWindow
<1>2. ~ScanFails(b)
  BY DEF Readable
<1>3. Len(held) # 0
  BY <1>1, EmptySeq
<1>4. UnitAt(b, lo, n)
  OBVIOUS
<1>. HIDE DEF lo
<1>5. N # 0
  <2>1. Len(b) # 0
    BY <1>1, <1>3
  <2>. QED  BY <1>1, <1>2, <2>1, TemporalsAre
<1>6. n + 1 = N
  BY <1>5, Av1AtTheEnd
<1>7. lo = TStart(b, N) /\ N \in Nat /\ TEnd(b, N) = Len(b)
  <2>1. lo = TStart(b, n + 1) /\ N \in Nat
    BY <1>1, <1>2, <1>4, <1>5, UnitAtIs
  <2>2. TEnd(b, N) = Len(b)
    BY <2>1 DEF TEnd
  <2>. QED  BY <1>6, <2>1, <2>2
<1>8. /\ ~ScanFails(held) /\ TCount(held) = 1
      /\ HasSeq(held, TStart(held, 1), TEnd(held, 1)) <=> HasSeq(b, lo, Len(b))
  <2>1. LET p == TStart(b, TCount(b))
            h == Slice(b, p, Len(b))
        IN  /\ ~ScanFails(h) /\ TCount(h) = 1
            /\ HasSeq(h, TStart(h, 1), TEnd(h, 1)) <=> HasSeq(b, p, Len(b))
    BY <1>1, <1>2, <1>5, LastUnit
  <2>. QED  BY <1>1, <1>7, <2>1
<1>9. FinishKeyframe(held) = HasSeq(b, lo, Len(b))
  <2>1. TemporalUnits(held)[1].has_sequence_header
            = HasSeq(held, TStart(held, 1), TEnd(held, 1))
    <3>1. 1 \in 1..TCount(held)
      BY <1>8
    <3>. QED  BY <1>1, <1>8, <3>1, TemporalUnitsAre
  <2>2. FinishKeyframe(held)
            = (~ScanFails(held) /\ TemporalUnits(held)[1].has_sequence_header)
    BY Zenon DEF FinishKeyframe
  <2>3. HasSeq(held, TStart(held, 1), TEnd(held, 1)) \in BOOLEAN
        /\ HasSeq(b, lo, Len(b)) \in BOOLEAN
    BY DEF HasSeq
  <2>. QED  BY <1>8, <2>1, <2>2, <2>3, Zenon
<1>10. n = N - 1
  BY <1>6, <1>7
<1>. HIDE DEF N
<1>11. Carried(n, held, FinishKeyframe(held)) = TemporalCarrier(b, N)
  BY <1>1, <1>7, <1>9, <1>10 DEF TemporalCarrier
<1>12. [from |-> lo, to |-> fed] = TemporalPlace(b, N)
  BY <1>7 DEF TemporalPlace
<1>13. n + 1 \in 1..N
  BY <1>6, <1>7
<1>. QED  BY <1>1, <1>6, <1>11, <1>12, <1>13 DEF N, lo

LEMMA Av1FollowFinish ==
    ASSUME Kind = "Av1", FeedInv, SpanInv, CountIsReturned, Av1Following, Readable(stream), Finish
    PROVE  Av1Following'
<1>. DEFINE n == Len(spans)
            N == TCount(stream)
<1>1. /\ ~over /\ over' /\ stream' = stream /\ fed' = fed /\ fed = Len(stream)
      /\ call = "idle" /\ out = << >> /\ out' = << >> /\ ~ScanFails(stream)
  BY DEF Finish, SpanInv, Readable
<1>2. /\ stream \in Seq(Byte) /\ held \in Seq(Byte) /\ fed \in Nat /\ Base \in Nat
      /\ Len(held) \in Nat /\ Base + Len(held) = fed
  BY HeldIsWindow
<1>3. /\ UnitAt(stream, Base, n) /\ Follows(stream, delivered \o out, spans)
      /\ PendingAt(held) = 0
  BY <1>1 DEF Av1Following
<1>4. /\ delivered \in Seq(Returned) /\ spans \in Seq(Span) /\ n \in Nat
      /\ delivered \o out = delivered /\ Len(delivered) = n
  <2>1. /\ delivered \in Seq(Returned) /\ spans \in Seq(Span) /\ n \in Nat
        /\ Len(delivered) \in Nat /\ n = Len(delivered) + 0
    BY <1>1, LenProperties, EmptySeq DEF SpanInv, SpansDisjoint
  <2>2. delivered \o out = delivered
    BY <1>1, <2>1, ConcatEmptySeq
  <2>. QED  BY <2>1, <2>2
<1>. HIDE DEF Base
<1>5. CASE held = << >>
  <2>1. /\ Len(held) = 0 /\ held' = << >>
        /\ delivered' = delivered /\ spans' = spans
    BY <1>5, EmptySeq DEF Finish
  <2>2. Base = Len(stream)
    BY <1>1, <1>2, <2>1
  <2>3. n = N
    <3>1. N \in Nat /\ (N # 0 => n < N /\ Base = TStart(stream, n + 1)) /\ (N = 0 => n = 0)
      <4>. HIDE DEF n
      <4>. QED  BY <1>1, <1>2, <1>3, <1>4, UnitAtIs
    <3>2. CASE N # 0
      <4>. DEFINE k == n + 1
      <4>1. k \in 1..N /\ Base = TStart(stream, k)
        BY <1>4, <3>1, <3>2
      <4>. HIDE DEF k
      <4>2. TStart(stream, k) \in 0..(Len(stream) - 1)
        BY <1>1, <1>2, <4>1, TemporalsAre
      <4>. QED  BY <1>1, <1>2, <2>2, <4>1, <4>2
    <3>. QED  BY <3>1, <3>2
  <2>. QED  BY <1>1, <1>3, <2>1, <2>3 DEF Av1Following
<1>6. CASE held # << >>
  <2>. DEFINE c == Carried(index, held, FinishKeyframe(held))
              d == [from |-> Base, to |-> fed]
  <2>1. delivered' = Append(delivered, c) /\ spans' = Append(spans, d) /\ held' = << >>
    BY <1>6 DEF Finish
  <2>2. index = n
    BY <1>4 DEF CountIsReturned
  <2>3. /\ n + 1 = N /\ n + 1 \in 1..N
        /\ c = TemporalCarrier(stream, n + 1) /\ d = TemporalPlace(stream, n + 1)
    <3>. HIDE DEF n
    <3>. QED  BY <1>1, <1>3, <1>4, <1>6, <2>2, LastCarrier
  <2>4. c \in Returned /\ d \in Span
    <3>1. c \in Returned
      <4>1. index \in Nat
        BY <1>4, <2>2
      <4>. QED  BY <1>2, <4>1, FinishKeyframeType, CarriedIsReturned
    <3>. QED  BY <1>2, <3>1 DEF Span
  <2>. HIDE DEF c, d, n, N
  <2>5. /\ <<c>> \in Seq(Returned) /\ <<d>> \in Seq(Span) /\ Len(<<c>>) = 1 /\ Len(<<d>>) = 1
        /\ <<c>>[1] = c /\ <<d>>[1] = d
    BY <2>4
  <2>6. delivered' = delivered \o <<c>> /\ spans' = spans \o <<d>>
    BY <1>4, <2>1, <2>4, AppendIsConcat
  <2>7. Follows(stream, delivered \o <<c>>, spans \o <<d>>) /\ Len(spans \o <<d>>) = n + 1
    <3>. DEFINE new == <<c>>
                t == <<d>>
    <3>1. /\ new \in Seq(Returned) /\ t \in Seq(Span) /\ Len(delivered) = Len(spans)
          /\ Len(new) = Len(t) /\ Len(spans) + Len(t) <= TCount(stream) /\ Len(t) = 1
      BY <1>4, <2>3, <2>5 DEF n, N
    <3>2. \A j \in 1..Len(t) : /\ t[j] = TemporalPlace(stream, Len(spans) + j)
                               /\ new[j] = TemporalCarrier(stream, Len(spans) + j)
      BY <2>3, <2>5 DEF n
    <3>3. Follows(stream, delivered, spans)
      BY <1>3, <1>4
    <3>. HIDE DEF new, t
    <3>4. Follows(stream, delivered \o new, spans \o t)
          /\ Len(spans \o t) = Len(spans) + Len(t)
      BY ONLY <1>2, <1>4, <3>1, <3>2, <3>3, FollowsConcat, ZenonT(40)
    <3>. QED  BY <3>1, <3>4 DEF new, t, n
  <2>8. delivered' \o out' = delivered \o <<c>>
    <3>1. delivered \o <<c>> \in Seq(Returned)
      BY <1>4, <2>5, ConcatProperties
    <3>. QED  BY <1>1, <2>6, <3>1, ConcatEmptySeq
  <2>. QED  BY <1>1, <2>1, <2>3, <2>6, <2>7, <2>8 DEF Av1Following, N
<1>. QED  BY <1>5, <1>6

LEMMA Av1FollowStep ==
    ASSUME Kind = "Av1", FeedInv, SpanInv, CountIsReturned, OverInv, Av1FollowInv, [Next]_vars
    PROVE  Av1FollowInv'
<1>1. dropped \in Nat
  BY DEF FeedInv, FieldsOK
<1>2. stream' = stream
  BY DEF Next, PushSteps, Push, Drain, CutReturns, CutFails, WithinLimit, OverLimit,
         Return, Finish, Done, vars
<1>. SUFFICES ASSUME Readable(stream), dropped' = 0 PROVE Av1Following'
  <2>1. Readable(stream') <=> Readable(stream)
    BY <1>2
  <2>. QED  BY <2>1 DEF Av1FollowInv
<1>3. ~ScanFails(stream)
  BY DEF Readable
<1>4. ASSUME dropped' = dropped PROVE Av1Following
  BY <1>4 DEF Av1FollowInv
<1>5. ASSUME NEW n \in Chunks, Push(n) PROVE Av1Following'
  <2>1. dropped' = dropped
    BY <1>5 DEF Push
  <2>. QED  BY <1>3, <1>4, <1>5, <2>1, Av1FollowPush
<1>6. CASE Drain
  <2>1. dropped' = dropped
    BY <1>6 DEF Drain
  <2>. QED  BY <1>3, <1>4, <1>6, <2>1, Av1FollowDrain
<1>7. CASE CutReturns
  <2>1. dropped' = dropped
    BY <1>7 DEF CutReturns
  <2>. QED  BY <1>3, <1>4, <1>7, <2>1, Av1FollowCutReturns
<1>8. CASE CutFails \/ OverLimit
  <2>1. dropped' = dropped + 1
    BY <1>8 DEF CutFails, OverLimit
  <2>. QED  BY <1>1, <2>1
<1>9. CASE WithinLimit
  <2>1. dropped' = dropped
    BY <1>9 DEF WithinLimit
  <2>. QED  BY <1>4, <1>9, <2>1, Av1FollowReturn
<1>10. CASE Finish
  <2>1. dropped' = dropped
    BY <1>10 DEF Finish
  <2>. QED  BY <1>4, <1>10, <2>1, Av1FollowFinish
<1>11. CASE UNCHANGED vars
  <2>1. Base' = Base /\ dropped' = dropped
    BY <1>11 DEF vars, Base
  <2>2. PendingAt(held') = PendingAt(held)
    BY <1>11 DEF vars
  <2>3. Av1Following
    BY <1>4, <2>1
  <2>. HIDE DEF Base
  <2>. QED  BY <1>11, <2>1, <2>2, <2>3 DEF vars, Av1Following
<1>. QED
  BY <1>5, <1>6, <1>7, <1>8, <1>9, <1>10, <1>11 DEF Next, PushSteps, Done

\* Until something is dropped a feed of AV1 follows a reader of the whole
\* stream, carrier for carrier, when that is a stream a feed can cut.
THEOREM Av1FollowInvariant ==
    ASSUME Kind = "Av1"
    PROVE  Spec => []Av1FollowInv
<1>1. Init => Av1FollowInv
  BY Av1FollowInit
<1>2. FeedInv /\ SpanInv /\ CountIsReturned /\ OverInv /\ Av1FollowInv /\ [Next]_vars => Av1FollowInv'
  BY Av1FollowStep
<1>. QED
  BY <1>1, <1>2, FeedInvariant, SpanInvariant, FeedCountIsReturned, OverInvariant, PTL DEF Spec

\* temporal_units, as the carriers it makes, and where they begin.
LEMMA Av1FileReaderIs ==
    ASSUME Kind = "Av1", NEW b \in Seq(Byte), ~ScanFails(b)
    PROVE  /\ FileReader(b) = [k \in 1..TCount(b) |-> TemporalCarrier(b, k)]
           /\ Len(FileReader(b)) = TCount(b) /\ TCount(b) \in Nat
           /\ Starts(b) = Ascending(Temporals(b)) /\ Len(Starts(b)) = TCount(b)
           /\ \A k \in 1..TCount(b) : Starts(b)[k] = TStart(b, k)
<1>. DEFINE N == TCount(b)
            units == TemporalUnits(b)
<1>1. /\ N \in Nat /\ Len(units) = N /\ units \in Seq({units[k] : k \in 1..N})
      /\ \A k \in 1..N : /\ units[k].start = TStart(b, k) /\ units[k].end = TEnd(b, k)
                         /\ units[k].has_sequence_header = HasSeq(b, TStart(b, k), TEnd(b, k))
  BY TemporalUnitsAre
<1>2. FileReader(b) =
          [k \in 1..Len(units) |->
              Carried(k - 1, Slice(b, units[k].start, units[k].end), units[k].has_sequence_header)]
  <2>1. Kind # "Nal"
    OBVIOUS
  <2>. QED  BY <2>1, Zenon DEF FileReader
<1>3. Starts(b) = Ascending({u.start : u \in ToSet(units)})
  <2>1. Kind # "Nal"
    OBVIOUS
  <2>. QED  BY <2>1, Zenon DEF Starts
<1>4. \A x \in Temporals(b) : \E k \in 1..N : TStart(b, k) = x
  BY TemporalsAre
<1>5. \A k \in 1..N : TStart(b, k) \in Temporals(b)
  BY TemporalsAre
<1>6. DOMAIN units = 1..N
  <2>. DEFINE U == {units[k] : k \in 1..N}
  <2>1. units \in Seq(U)
    BY <1>1
  <2>. HIDE DEF U, units, N
  <2>. QED  BY <1>1, <2>1, LenProperties
<1>. HIDE DEF N, units
<1>7. {u.start : u \in ToSet(units)} = Temporals(b)
  <2>1. ToSet(units) = {units[k] : k \in 1..N}
    BY <1>6 DEF ToSet
  <2>2. \A k \in 1..N : units[k].start = TStart(b, k)
    BY <1>1
  <2>3. ASSUME NEW u \in ToSet(units) PROVE u.start \in Temporals(b)
    <3>1. PICK k \in 1..N : u = units[k]
      BY <2>1
    <3>. QED  BY <1>5, <2>2, <3>1
  <2>4. ASSUME NEW x \in Temporals(b) PROVE \E u \in ToSet(units) : u.start = x
    <3>1. PICK k \in 1..N : TStart(b, k) = x
      BY <1>4
    <3>2. units[k] \in ToSet(units)
      BY <2>1
    <3>. QED  BY <2>2, <3>1, <3>2
  <2>. QED  BY <2>3, <2>4
<1>8. FileReader(b) = [k \in 1..N |-> TemporalCarrier(b, k)]
  BY <1>1, <1>2 DEF TemporalCarrier
<1>9. Len([k \in 1..N |-> TemporalCarrier(b, k)]) = N
  BY <1>1
<1>. QED  BY <1>1, <1>3, <1>7, <1>8, <1>9 DEF N, TCount, TStart

\* While nothing was dropped the chunks do not show: for every AV1 stream that a
\* feed can cut and every way to chunk it, what has come out is the beginning of
\* what a reader of the whole file finds, and after finish it is all of it.
\* (tests/reference.rs, a_feed_finds_the_carriers_a_whole_stream_does.)
THEOREM Av1SameAsFileReader ==
    ASSUME Kind = "Av1"
    PROVE  Spec => []SameAsFileReader
<1>1. FeedInv /\ SpanInv /\ Av1FollowInv => SameAsFileReader
  <2>. SUFFICES ASSUME FeedInv, SpanInv, Av1FollowInv, call = "idle", dropped = 0,
                       Readable(stream)
                PROVE  LET whole == FileReader(stream)
                       IN  IF over THEN whole # << >> => delivered = whole
                                   ELSE IsPrefix(delivered, whole)
    BY DEF SameAsFileReader
  <2>. DEFINE whole == FileReader(stream)
              N == TCount(stream)
  <2>1. stream \in Seq(Byte) /\ ~ScanFails(stream)
    BY HeldIsWindow DEF Readable
  <2>2. /\ whole = [k \in 1..N |-> TemporalCarrier(stream, k)] /\ Len(whole) = N /\ N \in Nat
    BY <2>1, Av1FileReaderIs
  <2>. HIDE DEF whole, N
  <2>3. /\ delivered \in Seq(Returned) /\ out = << >> /\ delivered \o out = delivered
        /\ Len(delivered) = Len(spans) /\ Len(spans) \in Nat
    <3>1. /\ delivered \in Seq(Returned) /\ out = << >> /\ Len(spans) = Len(delivered) + Len(out)
          /\ Len(delivered) \in Nat
      BY LenProperties DEF SpanInv, SpansDisjoint
    <3>2. Len(spans) = Len(delivered)
      BY <3>1, EmptySeq
    <3>. QED  BY <3>1, <3>2, ConcatEmptySeq
  <2>. DEFINE Carriage == {TemporalCarrier(stream, k) : k \in 1..N}
  <2>4. whole \in Seq(Carriage)
    <3>1. whole \in [1..N -> Carriage]
      <4>1. \A k \in 1..N : TemporalCarrier(stream, k) \in Carriage
        OBVIOUS
      <4>. HIDE DEF Carriage
      <4>. QED  BY <2>2, <4>1
    <3>. HIDE DEF Carriage
    <3>. QED  BY <2>2, <3>1
  <2>. HIDE DEF Carriage
  <2>5. Follows(stream, delivered, spans)
    BY <2>3 DEF Av1FollowInv, Av1Following
  <2>6. Len(delivered) <= Len(whole) /\ \A k \in 1..Len(delivered) : delivered[k] = whole[k]
    BY <2>2, <2>3, <2>5 DEF Follows, N
  <2>7. IsPrefix(delivered, whole)
    BY ONLY <2>3, <2>4, <2>6, PrefixOf, ZenonT(40)
  <2>8. ASSUME over PROVE delivered = whole
    <3>1. Len(delivered) = Len(whole)
      BY <2>2, <2>3, <2>8 DEF Av1FollowInv, Av1Following, N
    <3>2. SubSeq(delivered, 1, Len(delivered)) = SubSeq(whole, 1, Len(whole))
      BY <2>7, <3>1 DEF IsPrefix
    <3>. QED  BY <2>3, <2>4, <3>2, SubSeqFull
  <2>. QED  BY <2>7, <2>8 DEF whole
<1>. QED
  BY <1>1, FeedInvariant, SpanInvariant, Av1FollowInvariant, PTL

-----------------------------------------------------------------------------
\* What a feed has seen that has looked at the bytes it holds: of the temporal
\* units behind the open one nothing that shows where the next begins.
LEMMA Av1Settled ==
    ASSUME Kind = "Av1", FeedInv, SpanInv, Av1Following, Readable(stream), ~over, call # "cut"
    PROVE  LET n == Len(spans)
               N == TCount(stream)
           IN  /\ N \in Nat /\ n \in 0..N /\ (N > 0 => n < N /\ Base = TStart(stream, n + 1))
               /\ \A k \in 2..N : ObuAt(stream, TStart(stream, k)).end <= fed <=> k <= n + 1
               /\ \A k \in 1..N : ObuAt(stream, TStart(stream, k)).end \in Nat
<1>. DEFINE b == stream
            n == Len(spans)
            N == TCount(b)
            t(k) == TStart(b, k)
            lo == Base
<1>1. /\ b \in Seq(Byte) /\ fed \in 0..Len(b) /\ lo \in 0..fed /\ lo \in Nat /\ fed \in Nat
      /\ held = Slice(b, lo, fed) /\ n \in Nat /\ ~ScanFails(b) /\ Len(b) \in Nat
  BY HeldIsWindow, LenProperties DEF SpanInv, Readable
<1>2. /\ UnitAt(b, lo, n) /\ PendingAt(held) = 0 /\ (n > 0 => Seen(b, t(n + 1), fed))
  BY DEF Av1Following
<1>. HIDE DEF b, n, lo
<1>3. /\ N \in Nat /\ n \in 0..N /\ (N # 0 => n < N /\ lo = t(n + 1))
  BY <1>1, <1>2, UnitAtIs
<1>4. PICK m \in 0..(N - n) : ShowsUnits(b, lo, fed, n, m)
  BY <1>1, <1>2, UnitsShown
<1>5. PendingAt(held) = IF m = 0 THEN 0 ELSE TStart(b, n + m) - lo
  BY <1>1, <1>2, <1>4, UnitPending
<1>6. m # 0 => m = 1
  BY <1>1, <1>2, <1>5, OneUnitOpen
<1>7. ASSUME NEW k \in 1..N
      PROVE  /\ ObuAt(b, t(k)).end \in Nat
             /\ k # 1 => (Seen(b, t(k), fed) <=> ObuAt(b, t(k)).end <= fed)
  <2>. DEFINE s == t(k)
  <2>1. s \in ObuStarts(b) /\ (k # 1 => ObuAt(b, s).kind = OBU_TEMPORAL_DELIMITER)
    BY <1>1, TemporalsAre
  <2>. HIDE DEF s
  <2>2. ObuAt(b, s).end \in (s + 1)..Len(b) /\ s \in Nat
    BY <1>1, <2>1, ObuStartsAre
  <2>3. k # 1 => ObuAt(b, s).sized
    BY <2>1 DEF Readable, b
  <2>. QED  BY <1>1, <2>2, <2>3 DEF Seen, s
<1>8. ASSUME NEW k \in 2..N PROVE ObuAt(b, t(k)).end <= fed <=> k <= n + 1
  <2>1. k \in 1..N /\ k # 1
    BY <1>3
  <2>2. CASE k <= n + 1
    <3>. DEFINE j == n + 1
    <3>1. n > 0 /\ j \in 1..N /\ k <= j
      BY <1>3, <2>1, <2>2
    <3>2. Seen(b, t(j), fed)
      BY <1>2, <3>1
    <3>. HIDE DEF j
    <3>3. Seen(b, t(k), fed)
      BY <1>1, <2>1, <3>1, <3>2, SeenBefore
    <3>. QED  BY <1>7, <2>1, <2>2, <3>3
  <2>3. CASE ~(k <= n + 1)
    <3>1. k \in (n + 1)..N /\ ~(k <= n + m)
      BY <1>3, <1>6, <2>1, <2>3
    <3>2. ~Seen(b, t(k), fed)
      BY <1>4, <3>1 DEF ShowsUnits
    <3>. QED  BY <1>7, <2>1, <2>3, <3>2
  <2>. QED  BY <2>2, <2>3
<1>9. N > 0 => n < N /\ lo = t(n + 1)
  BY <1>3
<1>. QED  BY <1>3, <1>7, <1>8, <1>9 DEF b, n, lo

\* A carrier is not kept back: for every AV1 stream that a feed can cut and every
\* chunking, it is out as soon as the bytes of the OBU that begins the next one
\* are in.
THEOREM Av1NothingKeptBack ==
    ASSUME Kind = "Av1"
    PROVE  Spec => []NothingKeptBack
<1>1. FeedInv /\ SpanInv /\ Av1FollowInv => NothingKeptBack
  <2>. DEFINE n == Len(spans)
              N == TCount(stream)
              starts == Starts(stream)
              shown == {k \in 2..Len(starts) : KnownAt(stream, starts[k]) <= fed}
  <2>. SUFFICES ASSUME FeedInv, SpanInv, Av1FollowInv, call = "idle", ~over, dropped = 0,
                       Readable(stream)
                PROVE  Len(delivered) = Cardinality(shown)
    BY DEF NothingKeptBack
  <2>1. stream \in Seq(Byte) /\ fed \in 0..Len(stream) /\ ~ScanFails(stream)
    BY HeldIsWindow DEF Readable
  <2>2. Len(starts) = N /\ \A k \in 1..N : starts[k] = TStart(stream, k)
    BY <2>1, Av1FileReaderIs
  <2>3. /\ N \in Nat /\ n \in 0..N /\ (N > 0 => n < N)
        /\ \A k \in 2..N : ObuAt(stream, TStart(stream, k)).end <= fed <=> k <= n + 1
    BY Av1Settled DEF Av1FollowInv
  <2>4. Len(delivered) = n
    <3>1. out = << >> /\ Len(spans) = Len(delivered) + Len(out) /\ Len(delivered) \in Nat
      BY LenProperties DEF SpanInv, SpansDisjoint
    <3>2. Len(spans) = Len(delivered)
      BY <3>1, EmptySeq
    <3>. QED  BY <3>2
  <2>5. ASSUME NEW k \in 2..N PROVE KnownAt(stream, starts[k]) <= fed <=> k <= n + 1
    <3>1. k \in 1..N
      BY <2>3
    <3>2. starts[k] = TStart(stream, k)
      BY <2>2, <3>1
    <3>3. KnownAt(stream, TStart(stream, k)) = ObuAt(stream, TStart(stream, k)).end
      BY DEF KnownAt
    <3>. QED  BY <2>3, <3>2, <3>3
  <2>. HIDE DEF n, N, starts
  <2>6. shown = 2..(n + 1)
    <3>1. \A k \in 2..(n + 1) : k \in 2..N
      BY <2>3
    <3>2. \A k \in shown : k \in 2..(n + 1)
      BY <2>2, <2>3, <2>5
    <3>3. \A k \in 2..(n + 1) : k \in shown
      BY <2>2, <2>3, <2>5, <3>1
    <3>. HIDE DEF shown
    <3>. QED  BY <3>2, <3>3
  <2>7. Cardinality(2..(n + 1)) = n
    <3>1. n \in Nat
      BY <2>3
    <3>2. Cardinality(2..(n + 1)) = IF 2 <= n + 1 THEN n + 1 - 2 + 1 ELSE 0
      BY <3>1, FS_Interval
    <3>. QED  BY <3>1, <3>2
  <2>. QED  BY <2>4, <2>6, <2>7
<1>. QED
  BY <1>1, FeedInvariant, SpanInvariant, Av1FollowInvariant, PTL

\* The limit is the caller's promise that no carrier is longer, and keeping it is
\* enough: of an AV1 stream that a feed can cut and whose carriers, each with the
\* first OBU of the next, fit in it nothing is dropped however the chunks fall.
THEOREM Av1RoomIsEnough ==
    ASSUME Kind = "Av1"
    PROVE  Spec => []RoomIsEnough
<1>1. Init => RoomIsEnough
  BY DEF Init, RoomIsEnough
<1>2. ASSUME FeedInv, SpanInv, Av1FollowInv, OverInv, RoomIsEnough, [Next]_vars
      PROVE  RoomIsEnough'
  <2>1. stream' = stream
    BY <1>2 DEF Next, PushSteps, Push, Drain, CutReturns, CutFails, WithinLimit, OverLimit,
                Return, Finish, Done, vars
  <2>2. dropped' = dropped \/ CutFails \/ OverLimit
    BY <1>2 DEF Next, PushSteps, Push, Drain, CutReturns, WithinLimit, Finish, Done, vars
  <2>3. CASE dropped' = dropped
    BY <1>2, <2>1, <2>3 DEF RoomIsEnough
  <2>4. CASE CutFails \/ OverLimit
    <3>. DEFINE starts == Starts(stream)
                n == Len(starts)
                need(k) == IF k < n THEN KnownAt(stream, starts[k + 1]) - 1 ELSE Len(stream)
                j == Len(spans) + 1
    <3>. SUFFICES ASSUME Readable(stream), n > 0,
                         \A k \in 1..n : need(k) - starts[k] <= Limit, dropped = 0
                  PROVE  FALSE
      <4>1. ~RoomIsEnough' => /\ Readable(stream) /\ n > 0
                              /\ KnownAt(stream, starts[1]) - 1 <= Limit
                              /\ \A k \in 1..n : need(k) - starts[k] <= Limit
        <5>1. Limit' = Limit
          BY DEF Limit
        <5>. QED  BY <2>1, <5>1 DEF RoomIsEnough
      <4>2. ~RoomIsEnough' => (RoomIsEnough => dropped = 0)
        BY <4>1 DEF RoomIsEnough
      <4>. QED  BY <1>2, <4>1, <4>2
    <3>0. Av1Following /\ ~ScanFails(stream)
      BY <1>2 DEF Av1FollowInv, Readable
    <3>1. ~over /\ call \in {"cut", "settle"}
      BY <1>2, <2>4 DEF CutFails, OverLimit, OverInv
    <3>2. /\ stream \in Seq(Byte) /\ fed \in 0..Len(stream) /\ Len(held) \in Nat /\ Limit \in Nat
          /\ Base \in Nat /\ Base + Len(held) = fed /\ Len(stream) \in Nat /\ fed \in Nat
          /\ Len(spans) \in Nat
      BY <1>2, HeldIsWindow, LimitType, LenProperties DEF SpanInv
    <3>3. OverLimit
      <4>1. UnitAt(stream, Base, Len(spans))
        BY <3>0, <3>1 DEF Av1Following
      <4>2. ~Fails(held)
        BY <1>2, <3>0, <3>2, <4>1, ReadableNeverFails
      <4>. QED  BY <2>4, <4>2 DEF CutFails
    <3>4. call = "settle" /\ Len(held) > Limit
      BY <3>3 DEF OverLimit
    <3>5. n = TCount(stream) /\ \A k \in 1..n : starts[k] = TStart(stream, k)
      BY <3>0, <3>2, Av1FileReaderIs
    <3>6. /\ n \in Nat /\ Len(spans) \in 0..n /\ Len(spans) < n
          /\ \A k \in 2..n : ObuAt(stream, TStart(stream, k)).end <= fed <=> k <= j
          /\ \A k \in 1..n : ObuAt(stream, TStart(stream, k)).end \in Nat
          /\ Base = TStart(stream, j)
      BY <1>2, <3>0, <3>1, <3>4, <3>5, Av1Settled
    <3>. HIDE DEF starts, n, Base
    <3>7. j \in 1..n
      BY <3>6
    <3>. HIDE DEF j
    <3>8. starts[j] = Base /\ need(j) - starts[j] <= Limit
      BY <3>5, <3>6, <3>7
    <3>9. need(j) \in Int /\ fed <= need(j)
      <4>1. CASE j < n
        <5>. DEFINE k == j + 1
        <5>1. k \in 1..n /\ k \in 2..n /\ ~(k <= j)
          BY <3>6, <3>7, <4>1
        <5>2. need(j) = KnownAt(stream, starts[k]) - 1
          BY <4>1
        <5>. HIDE DEF k, need
        <5>3. KnownAt(stream, starts[k]) = ObuAt(stream, TStart(stream, k)).end
          BY <3>5, <5>1 DEF KnownAt
        <5>4. ~(KnownAt(stream, starts[k]) <= fed) /\ KnownAt(stream, starts[k]) \in Nat
          BY <3>6, <5>1, <5>3
        <5>. QED  BY <3>2, <5>2, <5>4
      <4>2. CASE ~(j < n)
        <5>1. need(j) = Len(stream)
          BY <4>2
        <5>. HIDE DEF need
        <5>. QED  BY <3>2, <5>1
      <4>. QED  BY <4>1, <4>2
    <3>. HIDE DEF need
    <3>. QED  BY <3>2, <3>4, <3>8, <3>9
  <2>. QED  BY <2>2, <2>3, <2>4
<1>3. FeedInv /\ SpanInv /\ Av1FollowInv /\ OverInv /\ RoomIsEnough /\ [Next]_vars => RoomIsEnough'
  BY <1>2
<1>. QED
  BY <1>1, <1>3, FeedInvariant, SpanInvariant, Av1FollowInvariant, OverInvariant, PTL DEF Spec

-----------------------------------------------------------------------------
\* While nothing was dropped what the carriers cover has no gap: for every stream
\* and chunking, every byte from the first carrier on rode on a carrier or is
\* held.
THEOREM FeedSpansTile == Spec => []SpansTile
<1>1. CASE Kind = "Nal"
  BY <1>1, NalSpansTile
<1>2. CASE Kind = "Av1"
  BY <1>2, Av1SpansTile
<1>. QED  BY <1>1, <1>2, FeedAssumption

\* While nothing was dropped the chunks do not show: for every stream a feed can
\* cut and every way to chunk it, what has come out is the beginning of what a
\* reader of the whole file finds, number, keyframe and payloads alike, and after
\* finish it is all of it.
\* (tests/reference.rs, a_feed_finds_the_carriers_a_whole_stream_does.)
THEOREM FeedSameAsFileReader == Spec => []SameAsFileReader
<1>1. CASE Kind = "Nal"
  BY <1>1, NalSameAsFileReader
<1>2. CASE Kind = "Av1"
  BY <1>2, Av1SameAsFileReader
<1>. QED  BY <1>1, <1>2, FeedAssumption

\* A carrier is not kept back: for every stream a feed can cut and every chunking,
\* it is out as soon as the bytes that show where the next one begins are in.
THEOREM FeedNothingKeptBack == Spec => []NothingKeptBack
<1>1. CASE Kind = "Nal"
  BY <1>1, NalNothingKeptBack
<1>2. CASE Kind = "Av1"
  BY <1>2, Av1NothingKeptBack
<1>. QED  BY <1>1, <1>2, FeedAssumption

\* The limit is the caller's promise that no carrier is longer, and keeping it is
\* enough: of a stream a feed can cut whose carriers, each with the first bytes of
\* the next, fit in it nothing is dropped, however the chunks fall.
THEOREM FeedRoomIsEnough == Spec => []RoomIsEnough
<1>1. CASE Kind = "Nal"
  BY <1>1, NalRoomIsEnough
<1>2. CASE Kind = "Av1"
  BY <1>2, Av1RoomIsEnough
<1>. QED  BY <1>1, <1>2, FeedAssumption

-----------------------------------------------------------------------------
\* Whatever bytes a carrier is made of, its payloads are bytes.
LEMMA PayloadsType ==
    ASSUME NEW b \in Seq(Byte)
    PROVE  Payloads(b) \in Seq(Seq(Byte))
<1>0. << >> \in Seq(Seq(Byte))
  BY EmptySeq
<1>1. CASE Kind = "Nal"
  <2>. DEFINE codes == Ascending(StartCodes(b))
              nals == ScanNals(b)
              all == [k \in 1..Len(nals) |-> UserDataInNal(nals[k].bytes)]
  <2>1. Payloads(b) = FlattenSeq(all)
    BY <1>1, Zenon DEF Payloads, UserDataAnnexb
  <2>2. /\ codes \in Seq(StartCodes(b)) /\ Len(codes) \in Nat
    <3>1. StartCodes(b) \in SUBSET Nat /\ IsFiniteSet(StartCodes(b))
      <4>1. Len(b) \in Nat
        BY LenProperties
      <4>2. StartCodes(b) \in SUBSET (0..Len(b)) /\ IsFiniteSet(0..Len(b))
        BY <4>1, CodeRange, FS_Interval
      <4>. QED  BY <4>2, FS_Subset
    <3>. QED  BY <3>1, AscendingProperties
  <2>3. Len(nals) = Len(codes) /\ \A k \in 1..Len(codes) : nals[k].bytes = NalBytes(b, codes[k])
    <3>. HIDE DEF codes
    <3>1. nals = [k \in 1..Len(codes) |->
            [pad   |-> NalPad(b, codes[k]),   code |-> NalCode(b, codes[k]),
             start |-> NalStart(codes[k]),    end  |-> NalEnd(b, codes[k]),
             bytes |-> NalBytes(b, codes[k])]]
      BY DEF ScanNals, codes
    <3>. HIDE DEF nals
    <3>. QED  BY <2>2, <3>1
  <2>. HIDE DEF codes, nals
  <2>4. ASSUME NEW k \in 1..Len(nals) PROVE all[k] \in Seq(Seq(Byte))
    <3>1. codes[k] \in StartCodes(b)
      BY <2>2, <2>3, ElementOfSeq
    <3>2. NalBytes(b, codes[k]) \in Seq(Byte)
      <4>1. NalEnd(b, codes[k]) \in (codes[k] + 3)..Len(b) /\ codes[k] + 3 \in Nat
            /\ Len(b) \in Nat
        BY <3>1, NalEndReaches, CodeRange
      <4>2. NalEnd(b, codes[k]) \in 0..Len(b) /\ codes[k] + 3 \in 0..NalEnd(b, codes[k])
        BY <4>1
      <4>. QED  BY <4>2, SliceProperties DEF NalBytes, NalStart
    <3>. QED  BY <2>3, <3>2, UserDataType
  <2>5. all \in Seq(Seq(Seq(Byte)))
    BY <2>2, <2>3, <2>4, IsASeq
  <2>. QED  BY <2>1, <2>5, FlattenType
<1>2. CASE Kind # "Nal"
  <2>. DEFINE starts == Ascending(ObuStarts(b))
              mine(all) == IF all # << >> /\ IsPrefix(Uuid, all[1]) THEN all ELSE << >>
              found == [k \in 1..Len(starts) |-> mine(MetadataPayload(ObuAt(b, starts[k])))]
  <2>1. Payloads(b) = IF ScanFails(b) THEN << >> ELSE FlattenSeq(found)
    BY <1>2, Zenon DEF Payloads, UserDataObu
  <2>2. ASSUME ~ScanFails(b) PROVE found \in Seq(Seq(Seq(Byte)))
    <3>1. Len(b) \in Nat /\ ObuStarts(b) \subseteq 0..(Len(b) - 1)
          /\ \A s \in ObuStarts(b) : ObuAt(b, s).outcome = "obu"
      BY <2>2, ObuStartsAre
    <3>2. starts \in Seq(ObuStarts(b))
      <4>1. ObuStarts(b) \in SUBSET Nat /\ IsFiniteSet(ObuStarts(b))
        <5>1. IsFiniteSet(0..(Len(b) - 1)) /\ \A i \in 0..(Len(b) - 1) : i \in Nat
          BY <3>1, FS_Interval
        <5>. QED  BY <3>1, <5>1, FS_Subset
      <4>. QED  BY <4>1, AscendingProperties
    <3>. HIDE DEF starts
    <3>3. ASSUME NEW k \in 1..Len(starts) PROVE found[k] \in Seq(Seq(Byte))
      <4>. DEFINE all == MetadataPayload(ObuAt(b, starts[k]))
      <4>1. starts[k] \in ObuStarts(b)
        BY <3>2, ElementOfSeq
      <4>2. all \in Seq(Seq(Byte))
        BY <3>1, <4>1, MetadataIsBytes
      <4>. HIDE DEF all
      <4>3. mine(all) \in Seq(Seq(Byte))
        BY <1>0, <4>2
      <4>. QED  BY <4>3 DEF all
    <3>4. Len(starts) \in Nat
      BY <3>2, LenProperties
    <3>. HIDE DEF mine
    <3>. QED  BY <3>3, <3>4, IsASeq
  <2>. QED  BY <1>0, <2>1, <2>2, FlattenType
<1>. QED  BY <1>1, <1>2

\* The types of all a feed has and returns: numbers that count, spans of
\* offsets, flags, and payloads of bytes, for every stream, chunking and limit.
THEOREM FeedTypes == Spec => []TypeOK
<1>1. FeedInv /\ SpanInv => TypeOK
  <2>. SUFFICES ASSUME FeedInv, SpanInv PROVE TypeOK
    OBVIOUS
  <2>1. \A c \in Returned : c \in Carriers
    BY PayloadsType DEF Returned, Carriers
  <2>2. \A s \in Seq(Returned) : s \in Seq(Carriers)
    <3>. SUFFICES ASSUME NEW s \in Seq(Returned) PROVE s \in Seq(Carriers)
      OBVIOUS
    <3>1. Len(s) \in Nat /\ s \in [1..Len(s) -> Returned]
      BY LenProperties
    <3>2. s \in [1..Len(s) -> Carriers]
      BY <2>1, <3>1
    <3>. QED  BY <3>1, <3>2
  <2>. QED  BY <2>2 DEF FeedInv, SpanInv, TypeOK, Span
<1>. QED  BY <1>1, FeedInvariant, SpanInvariant, PTL
=============================================================================
