----------------------------- MODULE TrackProofs -----------------------------
(*****************************************************************************)
(* What is proved of a track: its header keeps its parameter sets through    *)
(* any number of conversions, a record that is cut is refused or has them    *)
(* all, no reader is told a width the samples do not have, and under what it *)
(* is told it reads the packet the encoder wrote, with the payloads put in.  *)
(* From the bottom up: sets behind their lengths are taken again; the record *)
(* build_avcc makes is the one its readers ask for; a record that is cut     *)
(* gives nothing that the whole one does not; each call leaves a packet that *)
(* reads as the one before, but for the SEI it put in.                       *)
(*****************************************************************************)
EXTENDS Track, FramingLemmas

-----------------------------------------------------------------------------
(*****************************************************************************)
(* NAL units behind start codes, and split_nals of them.                     *)
(*****************************************************************************)

-----------------------------------------------------------------------------
(*****************************************************************************)
(* parse_parameter_sets of parameter sets behind start codes.                *)
(*****************************************************************************)

\* A parameter set of one type, as one stands in a byte stream.
IsSet(nal, kind) == nal # << >> /\ nal[1] % 32 = kind
CleanSets(kind) == {nal \in CleanNals : IsSet(nal, kind)}

LEMMA CleanSetsAre ==
    ASSUME NEW kind, NEW sets \in Seq(CleanSets(kind))
    PROVE  sets \in Seq(CleanNals) /\ \A k \in 1..Len(sets) : IsSet(sets[k], kind)
<1>1. \A k \in 1..Len(sets) : sets[k] \in CleanNals /\ IsSet(sets[k], kind)
  <2>. SUFFICES ASSUME NEW k \in 1..Len(sets) PROVE sets[k] \in CleanNals /\ IsSet(sets[k], kind)
    OBVIOUS
  <2>1. sets[k] \in CleanSets(kind)
    BY ElementOfSeq
  <2>. QED  BY <2>1 DEF CleanSets
<1>2. Len(sets) \in Nat /\ sets = [k \in 1..Len(sets) |-> sets[k]]
  BY LenProperties
<1>3. [k \in 1..Len(sets) |-> sets[k]] \in Seq(CleanNals)
  BY <1>1, <1>2, IsASeq
<1>. QED  BY <1>1, <1>2, <1>3

\* Those of one type out of a stream.
LEMMA SetsOfTypeType ==
    ASSUME NEW b \in Seq(Byte), NEW kind
    PROVE  SetsOfType(SplitNals(b), kind) \in Seq(CleanSets(kind))
<1>. DEFINE nals == SplitNals(b)
            parts == [k \in 1..Len(nals) |->
                        IF nals[k] # << >> /\ nals[k][1] % 32 = kind THEN <<nals[k]>> ELSE << >>]
<1>1. Len(nals) \in Nat /\ \A k \in 1..Len(nals) : nals[k] \in CleanNals
  BY SplitNalsType
<1>. HIDE DEF nals
<1>2. ASSUME NEW k \in 1..Len(nals)
      PROVE  (IF nals[k] # << >> /\ nals[k][1] % 32 = kind THEN <<nals[k]>> ELSE << >>)
                \in Seq(CleanSets(kind))
  <2>. DEFINE nal == nals[k]
  <2>1. CASE nal # << >> /\ nal[1] % 32 = kind
    <3>1. nal \in CleanSets(kind)
      BY <1>1, <2>1 DEF CleanSets, IsSet
    <3>. HIDE DEF nal
    <3>2. <<nal>> \in Seq(CleanSets(kind))
      BY <3>1
    <3>. QED  BY <2>1, <3>2 DEF nal
  <2>2. CASE ~(nal # << >> /\ nal[1] % 32 = kind)
    <3>1. << >> \in Seq(CleanSets(kind))
      OBVIOUS
    <3>. QED  BY <2>2, <3>1
  <2>. QED  BY <2>1, <2>2
<1>3. parts \in Seq(Seq(CleanSets(kind)))
  BY <1>1, <1>2, IsASeq
<1>4. SetsOfType(nals, kind) = FlattenSeq(parts)
  BY DEF SetsOfType
<1>. HIDE DEF parts
<1>. QED  BY <1>3, <1>4, FlattenType DEF nals

\* Of NAL units of one type all are, of another none.
LEMMA AllOfType ==
    ASSUME NEW kind, NEW sets \in Seq(CleanSets(kind)), NEW other
    PROVE  SetsOfType(sets, other) = IF other = kind THEN sets ELSE << >>
<1>. DEFINE n == Len(sets)
            parts == [k \in 1..n |->
                        IF sets[k] # << >> /\ sets[k][1] % 32 = other THEN <<sets[k]>> ELSE << >>]
<1>1. /\ n \in Nat /\ sets \in Seq(CleanNals) 
      /\ \A k \in 1..n : sets[k] # << >> /\ sets[k][1] % 32 = kind
  BY CleanSetsAre, LenProperties DEF IsSet
<1>2. SetsOfType(sets, other) = FlattenSeq(parts)
  BY DEF SetsOfType
<1>3. CASE other = kind
  <2>. DEFINE t == [k \in 1..n |-> <<sets[k]>>]
  <2>1. parts = t
    BY <1>1, <1>3
  <2>2. \A k \in 1..n : <<sets[k]>> \in Seq(CleanNals)
    BY <1>1, ElementOfSeq
  <2>3. t \in Seq(Seq(CleanNals)) /\ Len(t) = n /\ \A k \in 1..n : t[k] = <<sets[k]>>
    BY <1>1, <2>2, IsASeq
  <2>. HIDE DEF t, parts
  <2>4. FlattenSeq(t) = sets
    BY <1>1, <2>3, FlattenSingles
  <2>. QED  BY <1>2, <1>3, <2>1, <2>4
<1>4. CASE other # kind
  <2>. DEFINE t == [k \in 1..n |-> << >>]
  <2>1. parts = t
    BY <1>1, <1>4
  <2>2. << >> \in Seq(CleanNals)
    OBVIOUS
  <2>3. t \in Seq(Seq(CleanNals)) /\ Len(t) = n /\ \A k \in 1..n : t[k] = << >>
    BY <1>1, <2>2, IsASeq
  <2>. HIDE DEF t, parts
  <2>4. FlattenSeq(t) = << >>
    BY <1>1, <2>3, FlattenEmpties
  <2>. QED  BY <1>2, <1>4, <2>1, <2>4
<1>. QED  BY <1>3, <1>4

LEMMA SetsOfConcat ==
    ASSUME NEW s \in Seq(CleanNals), NEW t \in Seq(CleanNals), NEW kind
    PROVE  SetsOfType(s \o t, kind) = SetsOfType(s, kind) \o SetsOfType(t, kind)
<1>. DEFINE part(nal) == IF nal # << >> /\ nal[1] % 32 = kind THEN <<nal>> ELSE << >>
            parts(nals) == [k \in 1..Len(nals) |-> part(nals[k])]
            u == s \o t
<1>1. /\ Len(s) \in Nat /\ Len(t) \in Nat /\ u \in Seq(CleanNals) /\ Len(u) = Len(s) + Len(t)
      /\ \A i \in 1..(Len(s) + Len(t)) : u[i] = IF i <= Len(s) THEN s[i] ELSE t[i - Len(s)]
  BY LenProperties, ConcatProperties
<1>2. ASSUME NEW nals \in Seq(CleanNals)
      PROVE  /\ SetsOfType(nals, kind) = FlattenSeq(parts(nals))
             /\ parts(nals) \in Seq(Seq(CleanNals)) /\ Len(parts(nals)) = Len(nals)
             /\ \A k \in 1..Len(nals) : parts(nals)[k] = part(nals[k])
  <2>1. Len(nals) \in Nat
    BY LenProperties
  <2>2. \A k \in 1..Len(nals) : part(nals[k]) \in Seq(CleanNals)
    <3>. SUFFICES ASSUME NEW k \in 1..Len(nals) PROVE part(nals[k]) \in Seq(CleanNals)
      OBVIOUS
    <3>. DEFINE nal == nals[k]
    <3>1. nal \in CleanNals
      BY ElementOfSeq
    <3>. HIDE DEF nal
    <3>2. <<nal>> \in Seq(CleanNals) /\ << >> \in Seq(CleanNals)
      BY <3>1
    <3>3. part(nal) \in Seq(CleanNals)
      BY <3>2
    <3>. QED  BY <3>3 DEF nal
  <2>3. SetsOfType(nals, kind) = FlattenSeq(parts(nals))
    BY DEF SetsOfType
  <2>. HIDE DEF part
  <2>4. parts(nals) \in Seq(Seq(CleanNals)) /\ Len(parts(nals)) = Len(nals)
    BY <2>1, <2>2, IsASeq
  <2>. QED  BY <2>3, <2>4
<1>. HIDE DEF part, u
<1>3. parts(u) = parts(s) \o parts(t)
  <2>. DEFINE p == parts(s)
              q == parts(t)
              r == parts(u)
              w == p \o q
              S == Seq(CleanNals)
  <2>1. /\ p \in Seq(S) /\ Len(p) = Len(s) /\ \A k \in 1..Len(s) : p[k] = part(s[k])
        /\ q \in Seq(S) /\ Len(q) = Len(t) /\ \A k \in 1..Len(t) : q[k] = part(t[k])
        /\ r \in Seq(S) /\ Len(r) = Len(u) /\ \A k \in 1..Len(u) : r[k] = part(u[k])
    BY <1>1, <1>2
  <2>. HIDE DEF p, q, r, S
  <2>2. /\ w \in Seq(S) /\ Len(w) = Len(p) + Len(q)
        /\ \A i \in 1..(Len(p) + Len(q)) : w[i] = IF i <= Len(p) THEN p[i] ELSE q[i - Len(p)]
    <3>1. p \in Seq(S) /\ q \in Seq(S)
      BY <2>1
    <3>. QED  BY <3>1, ConcatProperties
  <2>. HIDE DEF w
  <2>3. ASSUME NEW i \in 1..Len(r) PROVE r[i] = w[i]
    <3>1. i \in 1..(Len(s) + Len(t))
      BY <1>1, <2>1
    <3>2. CASE i <= Len(s)
      <4>1. i \in 1..Len(s)
        BY <1>1, <3>1, <3>2
      <4>. QED  BY <1>1, <2>1, <2>2, <3>1, <3>2, <4>1
    <3>3. CASE ~(i <= Len(s))
      <4>1. i - Len(s) \in 1..Len(t)
        BY <1>1, <3>1, <3>3
      <4>2. w[i] = q[i - Len(s)] /\ u[i] = t[i - Len(s)]
        BY <1>1, <2>1, <2>2, <3>1, <3>3
      <4>. QED  BY <1>1, <2>1, <3>1, <4>1, <4>2
    <3>. QED  BY <3>2, <3>3
  <2>4. r = w
    BY <1>1, <2>1, <2>2, <2>3, SeqEqual
  <2>. QED  BY <2>4 DEF p, q, r, w
<1>. DEFINE p == parts(s)
            q == parts(t)
<1>4. p \in Seq(Seq(CleanNals)) /\ q \in Seq(Seq(CleanNals))
  BY <1>2
<1>5. SetsOfType(s, kind) = FlattenSeq(p) /\ SetsOfType(t, kind) = FlattenSeq(q)
      /\ SetsOfType(u, kind) = FlattenSeq(p \o q)
  BY <1>1, <1>2, <1>3
<1>. HIDE DEF p, q
<1>6. FlattenSeq(p \o q) = FlattenSeq(p) \o FlattenSeq(q)
  BY <1>4, FlattenConcat
<1>. QED  BY <1>5, <1>6 DEF u

\* The sets written behind start codes are the sets read there.
LEMMA ParseStartCoded ==
    ASSUME NEW sps \in Seq(CleanSets(H264_SPS)), NEW pps \in Seq(CleanSets(H264_PPS))
    PROVE  ParseParameterSets(StartCoded(sps \o pps)) = [sps |-> sps, pps |-> pps]
<1>. DEFINE nals == sps \o pps
<1>1. sps \in Seq(CleanNals) /\ pps \in Seq(CleanNals)
  BY CleanSetsAre
<1>2. nals \in Seq(CleanNals)
  BY <1>1, ConcatProperties
<1>3. H264_SPS # H264_PPS
  BY DEF H264_SPS, H264_PPS
<1>4. SetsOfType(nals, H264_SPS) = sps
  <2>1. SetsOfType(sps, H264_SPS) = sps /\ SetsOfType(pps, H264_SPS) = << >>
    BY <1>3, AllOfType
  <2>3. SetsOfType(nals, H264_SPS) = SetsOfType(sps, H264_SPS) \o SetsOfType(pps, H264_SPS)
    BY <1>1, SetsOfConcat
  <2>. HIDE DEF nals
  <2>2. SetsOfType(nals, H264_SPS) = sps \o << >>
    BY <2>1, <2>3
  <2>. QED  BY <1>1, <2>2, ConcatEmptySeq
<1>5. SetsOfType(nals, H264_PPS) = pps
  <2>1. SetsOfType(sps, H264_PPS) = << >> /\ SetsOfType(pps, H264_PPS) = pps
    BY <1>3, AllOfType
  <2>3. SetsOfType(nals, H264_PPS) = SetsOfType(sps, H264_PPS) \o SetsOfType(pps, H264_PPS)
    BY <1>1, SetsOfConcat
  <2>. HIDE DEF nals
  <2>2. SetsOfType(nals, H264_PPS) = << >> \o pps
    BY <2>1, <2>3
  <2>. QED  BY <1>1, <2>2, ConcatEmptySeq
<1>. HIDE DEF nals
<1>6. SplitNals(StartCoded(nals)) = nals
  BY <1>2, SplitStartCoded
<1>. QED  BY <1>4, <1>5, <1>6 DEF ParseParameterSets, nals

-----------------------------------------------------------------------------
(***************************************************************************)
(* Lengths of two bytes.                                                   *)
(***************************************************************************)

LEMMA SetLengthIs ==
    ASSUME NEW b \in Seq(Byte), NEW at \in Nat, at + 2 <= Len(b)
    PROVE  /\ LengthAt(b, at, 2) = Radix * At(b, at) + At(b, at + 1)
           /\ LengthAt(b, at, 2) \in Nat
<1>. DEFINE x == At(b, at)
            y == At(b, at + 1)
            P(v) == v = [k \in 0..2 |-> IF k = 0 THEN 0 ELSE Radix * v[k - 1] + At(b, at + k - 1)]
            w == [k \in 0..2 |-> IF k = 0 THEN 0 ELSE IF k = 1 THEN x ELSE Radix * x + y]
<1>1. x \in Nat /\ y \in Nat
  <2>1. Len(b) \in Nat
    BY LenProperties
  <2>2. at \in 0..(Len(b) - 1) /\ at + 1 \in 0..(Len(b) - 1)
    BY <2>1
  <2>3. x \in Byte /\ y \in Byte
    BY <2>2, ByteAt
  <2>. HIDE DEF x, y
  <2>. QED  BY <2>3 DEF Byte
<1>2. at + 1 - 1 = at /\ at + 2 - 1 = at + 1
  OBVIOUS
<1>3. At(b, at + 1 - 1) = x /\ At(b, at + 2 - 1) = y
  BY <1>2
<1>. HIDE DEF x, y
<1>4. P(w)
  <2>1. w[0] = 0 /\ w[1] = x /\ w[2] = Radix * x + y
    OBVIOUS
  <2>2. ASSUME NEW k \in 0..2
        PROVE  w[k] = IF k = 0 THEN 0 ELSE Radix * w[k - 1] + At(b, at + k - 1)
    <3>. HIDE DEF w
    <3>1. k = 0 \/ k = 1 \/ k = 2
      OBVIOUS
    <3>2. CASE k = 0
      BY <2>1, <3>2
    <3>3. CASE k = 1
      <4>1. k - 1 = 0 /\ At(b, at + k - 1) = x
        BY <1>3, <3>3
      <4>. QED  BY <1>1, <2>1, <3>3, <4>1, RadixType
    <3>4. CASE k = 2
      <4>1. k - 1 = 1 /\ At(b, at + k - 1) = y
        BY <1>3, <3>4
      <4>. QED  BY <1>1, <2>1, <3>4, <4>1, RadixType
    <3>. QED  BY <3>1, <3>2, <3>3, <3>4
  <2>3. w = [k \in 0..2 |-> w[k]]
    OBVIOUS
  <2>. HIDE DEF w
  <2>. QED  BY <2>2, <2>3
<1>. DEFINE v == CHOOSE f : P(f)
<1>5. P(v)
  BY <1>4
<1>6. LengthAt(b, at, 2) = v[2]
  BY DEF LengthAt
<1>. HIDE DEF v
<1>7. v[0] = 0 /\ v[1] = Radix * v[0] + x /\ v[2] = Radix * v[1] + y
  <2>1. \A k \in 0..2 : v[k] = IF k = 0 THEN 0 ELSE Radix * v[k - 1] + At(b, at + k - 1)
    BY <1>5
  <2>2. v[0] = 0
    BY <2>1
  <2>3. v[1] = Radix * v[1 - 1] + At(b, at + 1 - 1) /\ v[2] = Radix * v[2 - 1] + At(b, at + 2 - 1)
    BY <2>1
  <2>. QED  BY <1>3, <2>2, <2>3
<1>8. v[1] = x
  BY <1>1, <1>7, RadixType
<1>9. v[2] = Radix * x + y
  BY <1>7, <1>8
<1>10. Radix * x + y \in Nat
  BY <1>1, RadixType
<1>. QED  BY <1>6, <1>9, <1>10 DEF x, y

\* What put_length writes, the reader of two bytes reads.
LEMMA SetLengthBytes ==
    ASSUME NEW n \in Nat, n < Values(SET_LENGTH)
    PROVE  /\ LengthBytes(n, SET_LENGTH) \in Seq(Byte) /\ Len(LengthBytes(n, SET_LENGTH)) = 2
           /\ Radix * LengthBytes(n, SET_LENGTH)[1] + LengthBytes(n, SET_LENGTH)[2] = n
<1>. DEFINE w == [k \in 1..2 |-> (n \div Values(2 - k)) % Radix]
            x == n \div Radix
            y == n % Radix
<1>1. LengthBytes(n, SET_LENGTH) = w
  BY DEF LengthBytes, SET_LENGTH
<1>2. x \in Nat /\ y \in 0..(Radix - 1) /\ Radix * x + y = n
  BY RadixType
<1>3. n < Radix * Radix
  BY ValuesAre DEF SET_LENGTH
<1>4. x < Radix
  BY <1>3, RadixType
<1>5. w[1] = x % Radix /\ w[2] = y
  <2>1. w[1] = (n \div Values(2 - 1)) % Radix /\ w[2] = (n \div Values(2 - 2)) % Radix
    OBVIOUS
  <2>2. Values(2 - 1) = Radix /\ Values(2 - 2) = 1
    BY ValuesAre
  <2>3. n \div 1 = n
    OBVIOUS
  <2>. QED  BY <2>1, <2>2, <2>3
<1>. HIDE DEF x, y
<1>6. x % Radix = x
  BY <1>2, <1>4, RadixType
<1>7. Len(w) = 2 /\ w = [k \in 1..2 |-> w[k]]
  OBVIOUS
<1>. HIDE DEF w
<1>8. w[1] \in Byte /\ w[2] \in Byte
  BY <1>2, <1>4, <1>5, <1>6, RadixType DEF Byte
<1>9. w \in Seq(Byte)
  <2>1. \A k \in 1..2 : w[k] \in Byte
    BY <1>8
  <2>2. [k \in 1..2 |-> w[k]] \in Seq(Byte)
    BY <2>1, IsASeq
  <2>. QED  BY <1>7, <2>2
<1>. QED  BY <1>1, <1>2, <1>5, <1>6, <1>7, <1>9

-----------------------------------------------------------------------------
(***************************************************************************)
(* The sets of a record, one after another.                                *)
(***************************************************************************)

LEMMA TakeSetsExists ==
    ASSUME NEW avcc, NEW before, NEW n \in Nat
    PROVE  \E f : f = [k \in 0..n |-> IF k = 0 THEN before ELSE TakeSet(avcc, f[k - 1])]
<1>. DEFINE P(m, f) == f = [k \in 0..m |-> IF k = 0 THEN before ELSE TakeSet(avcc, f[k - 1])]
            Good == {m \in 0..n : \E f : P(m, f)}
<1>1. 0 \in Good
  <2>. DEFINE f == [k \in 0..0 |-> before]
  <2>1. P(0, f)
    OBVIOUS
  <2>. HIDE DEF P
  <2>. QED  BY <2>1
<1>2. ASSUME NEW m \in 0..(n - 1), m \in Good PROVE m + 1 \in Good
  <2>1. PICK f : P(m, f)
    BY <1>2
  <2>. DEFINE g == [k \in 0..(m + 1) |-> IF k = m + 1 THEN TakeSet(avcc, f[m]) ELSE f[k]]
  <2>2. \A k \in 0..m : f[k] = IF k = 0 THEN before ELSE TakeSet(avcc, f[k - 1])
    BY <2>1
  <2>3. ASSUME NEW k \in 0..(m + 1)
        PROVE  g[k] = IF k = 0 THEN before ELSE TakeSet(avcc, g[k - 1])
    <3>1. CASE k = m + 1
      <4>1. k - 1 = m /\ k # 0 /\ m \in 0..(m + 1) /\ m # m + 1
        BY <3>1
      <4>2. g[k] = TakeSet(avcc, f[m]) /\ g[m] = f[m]
        BY <3>1, <4>1
      <4>. QED  BY <4>1, <4>2
    <3>2. CASE k # m + 1
      <4>1. k \in 0..m /\ (k # 0 => k - 1 \in 0..(m + 1) /\ k - 1 # m + 1)
        BY <3>2
      <4>2. g[k] = f[k] /\ (k # 0 => g[k - 1] = f[k - 1])
        BY <3>2, <4>1
      <4>. QED  BY <2>2, <4>1, <4>2
    <3>. QED  BY <3>1, <3>2
  <2>4. g = [k \in 0..(m + 1) |-> g[k]]
    OBVIOUS
  <2>. HIDE DEF g
  <2>5. P(m + 1, g)
    BY <2>3, <2>4
  <2>. HIDE DEF P
  <2>. QED  BY <2>5
<1>3. n \in Good
  <2>1. \A k \in 0..(n - 1) : k \in Good => k + 1 \in Good
    BY <1>2
  <2>. HIDE DEF Good
  <2>2. \A k \in 0..n : k \in Good
    BY <1>1, <2>1, Upwards
  <2>. QED  BY <2>2
<1>. QED  BY <1>3

\* The loop over the sets: none leaves what there was, and one more is one more
\* set taken.
LEMMA TakeSetsSteps ==
    ASSUME NEW avcc, NEW before, NEW n \in Nat
    PROVE  /\ TakeSets(avcc, before, 0) = before
           /\ TakeSets(avcc, before, n + 1) = TakeSet(avcc, TakeSets(avcc, before, n))
<1>. DEFINE P(m, f) == f = [k \in 0..m |-> IF k = 0 THEN before ELSE TakeSet(avcc, f[k - 1])]
            v(m) == CHOOSE f : P(m, f)
<1>1. ASSUME NEW m \in Nat
      PROVE  /\ TakeSets(avcc, before, m) = v(m)[m]
             /\ \A k \in 0..m : v(m)[k] = IF k = 0 THEN before ELSE TakeSet(avcc, v(m)[k - 1])
  <2>1. P(m, v(m))
    BY TakeSetsExists
  <2>2. TakeSets(avcc, before, m) = v(m)[m]
    BY DEF TakeSets
  <2>. HIDE DEF v
  <2>. QED  BY <2>1, <2>2
<1>. DEFINE f == v(n)
            g == v(n + 1)
<1>2. /\ TakeSets(avcc, before, n) = f[n]
      /\ \A k \in 0..n : f[k] = IF k = 0 THEN before ELSE TakeSet(avcc, f[k - 1])
  BY <1>1
<1>3. /\ TakeSets(avcc, before, n + 1) = g[n + 1]
      /\ \A k \in 0..(n + 1) : g[k] = IF k = 0 THEN before ELSE TakeSet(avcc, g[k - 1])
  <2>1. n + 1 \in Nat
    OBVIOUS
  <2>. HIDE DEF v
  <2>. QED  BY <1>1, <2>1
<1>4. TakeSets(avcc, before, 0) = before
  <2>. HIDE DEF v
  <2>1. TakeSets(avcc, before, 0) = v(0)[0] /\ v(0)[0] = before
    BY <1>1
  <2>. QED  BY <2>1
<1>. HIDE DEF v, f, g
<1>5. f[n] = g[n]
  <2>. DEFINE Good == {k \in 0..n : f[k] = g[k]}
  <2>1. 0 \in Good
    BY <1>2, <1>3
  <2>2. \A k \in 0..(n - 1) : k \in Good => k + 1 \in Good
    <3>. SUFFICES ASSUME NEW k \in 0..(n - 1), f[k] = g[k] PROVE f[k + 1] = g[k + 1]
      OBVIOUS
    <3>1. k + 1 \in 0..n /\ k + 1 \in 0..(n + 1) /\ k + 1 # 0 /\ (k + 1) - 1 = k
      OBVIOUS
    <3>2. f[k + 1] = TakeSet(avcc, f[(k + 1) - 1]) /\ g[k + 1] = TakeSet(avcc, g[(k + 1) - 1])
      BY <1>2, <1>3, <3>1
    <3>. QED  BY <3>1, <3>2
  <2>. HIDE DEF Good
  <2>3. \A k \in 0..n : k \in Good
    BY <2>1, <2>2, Upwards
  <2>. QED  BY <2>3 DEF Good
<1>6. g[n + 1] = TakeSet(avcc, g[n])
  <2>1. n + 1 \in 0..(n + 1) /\ n + 1 # 0 /\ (n + 1) - 1 = n
    OBVIOUS
  <2>2. g[n + 1] = TakeSet(avcc, g[(n + 1) - 1])
    BY <1>3, <2>1
  <2>. QED  BY <2>1, <2>2
<1>. QED  BY <1>2, <1>3, <1>4, <1>5, <1>6

\* These sets stand in a record from q[1] on, each behind its length.
SetsAt(avcc, q, sets) ==
    /\ q \in [1..(Len(sets) + 1) -> Nat]
    /\ \A k \in 1..Len(sets) :
        /\ q[k + 1] = q[k] + 2 + Len(sets[k]) /\ q[k + 1] <= Len(avcc)
        /\ LengthAt(avcc, q[k], 2) = Len(sets[k])
        /\ Slice(avcc, q[k] + 2, q[k + 1]) = sets[k]

LEMMA TakesSets ==
    ASSUME NEW avcc \in Seq(Byte), NEW T, NEW sets \in Seq(T), NEW nals \in Seq(T),
           NEW q, SetsAt(avcc, q, sets), \A k \in 1..Len(sets) : Len(sets[k]) \in Nat
    PROVE  TakeSets(avcc, Taken(nals, q[1]), Len(sets))
               = Taken(nals \o sets, q[Len(sets) + 1])
<1>. DEFINE n == Len(sets)
            before == Taken(nals, q[1])
            first(k) == SubSeq(sets, 1, k)
            Good == {k \in 0..n : TakeSets(avcc, before, k) = Taken(nals \o first(k), q[k + 1])}
<1>1. n \in Nat /\ \A k \in 1..n : sets[k] \in T
  BY LenProperties, ElementOfSeq
<1>2. 0 \in Good
  <2>1. first(0) = << >> /\ nals \o << >> = nals
    BY SubSeqEmpty, ConcatEmptySeq
  <2>2. TakeSets(avcc, before, 0) = before
    BY TakeSetsSteps
  <2>3. 0 \in 0..n /\ 0 + 1 = 1
    BY <1>1
  <2>. HIDE DEF first, before
  <2>4. TakeSets(avcc, before, 0) = Taken(nals \o first(0), q[0 + 1])
    BY <2>1, <2>2, <2>3 DEF before
  <2>. QED  BY <2>3, <2>4
<1>3. ASSUME NEW k \in 0..(n - 1), k \in Good PROVE k + 1 \in Good
  <2>. DEFINE j == k + 1
              u == first(k)
              e == sets[j]
              got == Taken(nals \o u, q[j])
  <2>1. j \in 1..n /\ j \in 0..n /\ j - 1 = k /\ 1 \in 1..n /\ k \in Nat /\ j \in 1..(n + 1)
    BY <1>1
  <2>2. TakeSets(avcc, before, k) = got
    BY <1>3
  <2>3. TakeSets(avcc, before, j) = TakeSet(avcc, TakeSets(avcc, before, k))
    BY <2>1, TakeSetsSteps
  <2>4. /\ q[j] \in Nat /\ q[j + 1] = q[j] + 2 + Len(e) /\ q[j + 1] <= Len(avcc)
        /\ LengthAt(avcc, q[j], 2) = Len(e)
        /\ Slice(avcc, q[j] + 2, q[j + 1]) = e /\ Len(e) \in Nat
    <3>. HIDE DEF j
    <3>. QED  BY <2>1 DEF SetsAt
  <2>5. u \in Seq(T) /\ e \in T
    <3>1. \A i \in 1..k : sets[i] \in T
      BY <1>1
    <3>2. u \in Seq(T)
      BY <1>1, <2>1, <3>1, SubSeqProperties
    <3>. QED  BY <1>1, <2>1, <3>2
  <2>6. first(j) = u \o <<e>>
    <3>1. SubSeq(sets, 1, j) = SubSeq(sets, 1, j - 1) \o <<sets[j]>>
      <4>. HIDE DEF j
      <4>. QED  BY <2>1, SubSeqRecursiveSecond
    <3>. QED  BY <2>1, <3>1
  <2>. HIDE DEF first, u, e, j
  <2>7. Append(nals \o u, e) = nals \o first(j)
    <3>1. nals \o u \in Seq(T) /\ <<e>> \in Seq(T)
      BY <2>5, ConcatProperties
    <3>2. Append(nals \o u, e) = (nals \o u) \o <<e>>
      BY <2>5, <3>1, AppendIsConcat
    <3>. DEFINE v == <<e>>
    <3>3. v \in Seq(T)
      BY <3>1
    <3>. HIDE DEF v
    <3>4. (nals \o u) \o v = nals \o (u \o v)
      BY <2>5, <3>3, ConcatAssociative, SMTT(60)
    <3>. QED  BY <2>6, <3>2, <3>4 DEF v
  <2>8. TakeSet(avcc, got) = Taken(Append(nals \o u, e), q[j + 1])
    <3>1. got.ok /\ got.nals = nals \o u /\ got.next = q[j]
      BY DEF Taken
    <3>. HIDE DEF got
    <3>. DEFINE start == got.next + SET_LENGTH
                end   == start + LengthAt(avcc, got.next, SET_LENGTH)
    <3>2. start = q[j] + 2 /\ end = q[j + 1]
      BY <2>4, <3>1 DEF SET_LENGTH
    <3>3. ~(start > Len(avcc)) /\ ~(end > Len(avcc))
      <4>1. Len(avcc) \in Nat
        BY LenProperties
      <4>. HIDE DEF start, end
      <4>. QED  BY <2>4, <3>2, <4>1
    <3>4. Slice(avcc, start, end) = e
      BY <2>4, <3>2
    <3>5. TakeSet(avcc, got) = Taken(Append(got.nals, Slice(avcc, start, end)), end)
      BY <3>1, <3>3, Zenon DEF TakeSet
    <3>. HIDE DEF start, end
    <3>. QED  BY <3>1, <3>2, <3>4, <3>5
  <2>. HIDE DEF got, before
  <2>9. TakeSets(avcc, before, j) = Taken(nals \o first(j), q[j + 1])
    BY <2>2, <2>3, <2>7, <2>8
  <2>. QED  BY <2>1, <2>9 DEF j
<1>4. n \in Good
  <2>1. \A k \in 0..(n - 1) : k \in Good => k + 1 \in Good
    BY <1>3
  <2>. HIDE DEF Good
  <2>2. \A k \in 0..n : k \in Good
    BY <1>1, <1>2, <2>1, Upwards
  <2>. QED  BY <1>1, <2>2
<1>5. first(n) = sets
  BY SubSeqFull
<1>. QED  BY <1>4, <1>5

\* Sets that each fit behind a length of two bytes, where a record has them
\* written out from `start` on.
LEMMA PrefixedAt ==
    ASSUME NEW avcc \in Seq(Byte), NEW sets \in Seq(Seq(Byte)),
           \A k \in 1..Len(sets) : SetFits(sets[k]),
           NEW start \in Nat, start + Len(Prefixed(sets, SET_LENGTH)) <= Len(avcc),
           \A i \in 0..(Len(Prefixed(sets, SET_LENGTH)) - 1) :
               At(avcc, start + i) = At(Prefixed(sets, SET_LENGTH), i)
    PROVE  \E q : /\ SetsAt(avcc, q, sets) /\ q[1] = start
                  /\ q[Len(sets) + 1] = start + Len(Prefixed(sets, SET_LENGTH))
<1>. DEFINE n == Len(sets)
            part(set) == LengthBytes(Len(set), SET_LENGTH) \o set
            parts == [k \in 1..n |-> LengthBytes(Len(sets[k]), SET_LENGTH) \o sets[k]]
            P == Prefixed(sets, SET_LENGTH)
<1>1. /\ n \in Nat /\ Len(avcc) \in Nat
      /\ \A k \in 1..n : sets[k] \in Seq(Byte) /\ Len(sets[k]) \in Nat
  BY LenProperties, ElementOfSeq
<1>2. ASSUME NEW set \in Seq(Byte), SetFits(set)
      PROVE  /\ part(set) \in Seq(Byte) /\ Len(part(set)) = 2 + Len(set) /\ Len(set) \in Nat
             /\ Radix * part(set)[1] + part(set)[2] = Len(set)
             /\ \A i \in 1..Len(set) : part(set)[2 + i] = set[i]
  <2>. DEFINE d == LengthBytes(Len(set), SET_LENGTH)
              w == d \o set
  <2>1. Len(set) \in Nat /\ Len(set) < Values(SET_LENGTH)
    BY <1>2, LenProperties DEF SetFits
  <2>2. d \in Seq(Byte) /\ Len(d) = 2 /\ Radix * d[1] + d[2] = Len(set)
    BY <2>1, SetLengthBytes
  <2>. HIDE DEF d
  <2>3. /\ w \in Seq(Byte) /\ Len(w) = Len(d) + Len(set)
        /\ \A i \in 1..(Len(d) + Len(set)) : w[i] = IF i <= Len(d) THEN d[i] ELSE set[i - Len(d)]
    <3>1. d \in Seq(Byte) /\ set \in Seq(Byte)
      BY <2>2
    <3>. QED  BY <3>1, ConcatProperties
  <2>. HIDE DEF w
  <2>4. w[1] = d[1] /\ w[2] = d[2]
    <3>1. 1 \in 1..(2 + Len(set)) /\ 2 \in 1..(2 + Len(set))
      BY <2>1
    <3>. QED  BY <2>2, <2>3, <3>1
  <2>5. \A i \in 1..Len(set) : w[2 + i] = set[i]
    <3>. SUFFICES ASSUME NEW i \in 1..Len(set) PROVE w[2 + i] = set[i]
      OBVIOUS
    <3>1. 2 + i \in 1..(2 + Len(set)) /\ ~(2 + i <= 2) /\ (2 + i) - 2 = i
      BY <2>1
    <3>. QED  BY <2>2, <2>3, <3>1
  <2>. QED  BY <2>1, <2>2, <2>3, <2>4, <2>5 DEF w, d
<1>3. /\ parts \in Seq(Seq(Byte)) /\ Len(parts) = n
      /\ \A k \in 1..n : parts[k] = part(sets[k])
  <2>1. \A k \in 1..n : part(sets[k]) \in Seq(Byte)
    BY <1>1, <1>2
  <2>2. parts \in Seq(Seq(Byte)) /\ Len(parts) = n
    BY <1>1, <2>1, IsASeq
  <2>. QED  BY <2>2
<1>4. P = FlattenSeq(parts)
  BY DEF Prefixed
<1>. HIDE DEF parts, P, part
<1>5. PICK o : Places(o, parts) /\ Laid(P, o, parts)
  BY <1>3, <1>4, FlattenPlaces
<1>6. Len(P) = o[n + 1] /\ o \in [1..(n + 1) -> Nat] /\ o[1] = 0
  BY <1>3, <1>5 DEF Places, Laid
<1>. DEFINE q == [k \in 1..(n + 1) |-> start + o[k]]
<1>7. q \in [1..(n + 1) -> Nat] /\ q[1] = start /\ q[n + 1] = start + Len(P)
  <2>1. 1 \in 1..(n + 1) /\ n + 1 \in 1..(n + 1)
    BY <1>1
  <2>. QED  BY <1>6, <2>1
<1>8. ASSUME NEW k \in 1..n
      PROVE  /\ q[k + 1] = q[k] + 2 + Len(sets[k]) /\ q[k + 1] <= Len(avcc)
             /\ LengthAt(avcc, q[k], 2) = Len(sets[k])
             /\ Slice(avcc, q[k] + 2, q[k + 1]) = sets[k]
  <2>. DEFINE set == sets[k]
              w == parts[k]
              m == Len(set)
              p == o[k]
              r == start + p
  <2>1. set \in Seq(Byte) /\ SetFits(set) /\ w = part(set)
    BY <1>1, <1>3
  <2>2. /\ Len(w) = 2 + m /\ m \in Nat /\ w \in Seq(Byte)
        /\ Radix * w[1] + w[2] = m /\ \A i \in 1..m : w[2 + i] = set[i]
    <3>. HIDE DEF set
    <3>. QED  BY <1>2, <2>1
  <2>3. p \in Nat /\ o[k + 1] = p + Len(w) /\ o[k + 1] <= Len(P) /\ Len(P) \in Nat
    <3>1. k \in 1..Len(parts) /\ o[Len(parts) + 1] = Len(P)
      BY <1>3, <1>6
    <3>2. /\ o[k] \in Nat /\ Len(parts[k]) \in Nat /\ o[k + 1] = o[k] + Len(parts[k])
          /\ o[k + 1] <= o[Len(parts) + 1] /\ o[Len(parts) + 1] \in Nat
      BY <1>3, <1>5, <3>1, PlaceInside
    <3>. QED  BY <3>1, <3>2
  <2>4. \A i \in 1..Len(w) : P[p + i] = w[i]
    BY <1>3, <1>5 DEF Laid
  <2>5. q[k] = r /\ q[k + 1] = start + o[k + 1]
    <3>1. k \in 1..(n + 1) /\ k + 1 \in 1..(n + 1)
      BY <1>1
    <3>. QED  BY <3>1
  <2>. HIDE DEF set, w, m, p, q
  <2>6. q[k + 1] = r + 2 + m /\ q[k + 1] <= Len(avcc) /\ r \in Nat
    <3>. DEFINE all == Len(P)
                l == Len(avcc)
                z == q[k + 1]
                y == o[k + 1]
    <3>1. start + all <= l
      BY DEF P
    <3>2. r = start + p /\ z = start + y
      BY <2>5
    <3>3. l \in Nat /\ m \in Nat /\ p \in Nat /\ y = p + (2 + m) /\ y <= all /\ all \in Nat
      BY <1>1, <2>2, <2>3
    <3>. HIDE DEF r, all, l, z, y
    <3>4. z = r + 2 + m /\ z <= l /\ r \in Nat
      BY <3>1, <3>2, <3>3
    <3>. QED  BY <3>4 DEF z, l
  <2>7. \A i \in 0..(Len(w) - 1) : At(avcc, r + i) = w[i + 1]
    <3>. SUFFICES ASSUME NEW i \in 0..(Len(w) - 1) PROVE At(avcc, r + i) = w[i + 1]
      OBVIOUS
    <3>1. p + i \in 0..(Len(P) - 1) /\ start + (p + i) = r + i /\ i + 1 \in 1..Len(w)
          /\ (p + i) + 1 = p + (i + 1)
      BY <2>2, <2>3
    <3>2. At(avcc, start + (p + i)) = At(P, p + i)
      BY <3>1 DEF P
    <3>3. At(P, p + i) = w[i + 1]
      <4>1. P[p + (i + 1)] = w[i + 1]
        BY <2>4, <3>1, Zenon
      <4>2. P[(p + i) + 1] = w[i + 1]
        BY <3>1, <4>1, Zenon
      <4>. QED  BY <4>2, Zenon DEF At
    <3>. QED  BY <3>1, <3>2, <3>3
  <2>. HIDE DEF r
  <2>8. LengthAt(avcc, r, 2) = m
    <3>1. 0 \in 0..(Len(w) - 1) /\ 1 \in 0..(Len(w) - 1)
      BY <2>2
    <3>2. At(avcc, r + 0) = w[0 + 1] /\ At(avcc, r + 1) = w[1 + 1]
      BY <2>7, <3>1
    <3>3. At(avcc, r) = w[1] /\ At(avcc, r + 1) = w[2]
      BY <2>6, <3>2
    <3>4. r + 2 <= Len(avcc)
      BY <1>1, <2>2, <2>6
    <3>5. LengthAt(avcc, r, 2) = Radix * At(avcc, r) + At(avcc, r + 1)
      BY <2>6, <3>4, SetLengthIs
    <3>. QED  BY <2>2, <3>3, <3>5
  <2>9. Slice(avcc, r + 2, q[k + 1]) = set
    <3>. DEFINE lo == r + 2
                hi == q[k + 1]
                s == Slice(avcc, lo, hi)
    <3>1. hi \in 0..Len(avcc) /\ lo \in 0..hi /\ hi - lo = m
      BY <1>1, <2>2, <2>6
    <3>2. s \in Seq(Byte) /\ Len(s) = m /\ \A i \in 0..(m - 1) : At(s, i) = At(avcc, lo + i)
      <4>. HIDE DEF lo, hi
      <4>. QED  BY <3>1, SliceProperties
    <3>3. ASSUME NEW i \in 1..m PROVE s[i] = set[i]
      <4>1. i - 1 \in 0..(m - 1) /\ (i - 1) + 1 = i /\ lo + (i - 1) = r + (i + 1)
            /\ i + 1 \in 0..(Len(w) - 1) /\ (i + 1) + 1 = 2 + i
        BY <2>2, <2>6
      <4>2. s[i] = At(avcc, r + (i + 1))
        <5>. HIDE DEF s, lo
        <5>1. At(s, i - 1) = At(avcc, lo + (i - 1))
          BY <3>2, <4>1
        <5>2. At(s, i - 1) = s[i]
          BY <4>1 DEF At
        <5>. QED  BY <4>1, <5>1, <5>2
      <4>3. At(avcc, r + (i + 1)) = w[2 + i]
        <5>1. At(avcc, r + (i + 1)) = w[(i + 1) + 1]
          BY <2>7, <4>1
        <5>. QED  BY <4>1, <5>1
      <4>. QED  BY <2>2, <4>2, <4>3
    <3>. HIDE DEF s
    <3>4. s = set
      <4>1. Len(s) = Len(set)
        BY <3>2 DEF m
      <4>. QED  BY <2>1, <3>2, <3>3, <4>1, SeqEqual
    <3>. QED  BY <3>4 DEF s
  <2>. QED  BY <2>5, <2>6, <2>8, <2>9 DEF set, m
<1>9. SetsAt(avcc, q, sets)
  <2>. HIDE DEF q
  <2>. QED  BY <1>7, <1>8 DEF SetsAt
<1>. QED  BY <1>7, <1>9 DEF P

-----------------------------------------------------------------------------
(***************************************************************************)
(* What build_avcc writes, avcc_to_annexb_extradata reads.                 *)
(***************************************************************************)

LEMMA SpsCountIs ==
    ASSUME NEW n \in Nat, n < SpsCounts
    PROVE  PutSpsCount(n) \in Byte /\ SpsCountOf(PutSpsCount(n)) = n
<1>1. SpsCounts \in 2..32 /\ 256 % SpsCounts = 0
  BY CountAssumption
<1>2. 256 - SpsCounts + n \in 0..255
  BY <1>1
<1>3. (256 - SpsCounts + n) % SpsCounts = n
  BY <1>1
<1>. QED  BY <1>2, <1>3 DEF PutSpsCount, SpsCountOf, Byte

LEMMA CountIs ==
    ASSUME NEW m \in Nat, m < PpsCounts
    PROVE  m % PpsCounts = m /\ m \in Byte
<1>1. PpsCounts \in 2..256
  BY CountAssumption
<1>2. m % PpsCounts = m
  BY <1>1
<1>. QED  BY <1>1, <1>2 DEF Byte

LEMMA PrefixedType ==
    ASSUME NEW sets \in Seq(Seq(Byte)), \A k \in 1..Len(sets) : SetFits(sets[k])
    PROVE  Prefixed(sets, SET_LENGTH) \in Seq(Byte)
<1>. DEFINE part(k) == LengthBytes(Len(sets[k]), SET_LENGTH) \o sets[k]
            parts == [k \in 1..Len(sets) |-> part(k)]
<1>1. ASSUME NEW k \in 1..Len(sets) PROVE part(k) \in Seq(Byte)
  <2>. DEFINE d == LengthBytes(Len(sets[k]), SET_LENGTH)
              set == sets[k]
  <2>1. set \in Seq(Byte) /\ SetFits(set)
    BY ElementOfSeq
  <2>2. Len(set) \in Nat /\ Len(set) < Values(SET_LENGTH)
    <3>. HIDE DEF set
    <3>. QED  BY <2>1, LenProperties DEF SetFits
  <2>3. d \in Seq(Byte)
    BY <2>2, SetLengthBytes
  <2>. HIDE DEF d, set
  <2>4. IsJoin(d \o set, d, set)
    BY <2>1, <2>3, JoinIs
  <2>. QED  BY <2>4 DEF d, set, IsJoin
<1>2. Len(sets) \in Nat
  BY LenProperties
<1>3. Prefixed(sets, SET_LENGTH) = FlattenSeq(parts)
  BY DEF Prefixed
<1>4. parts \in Seq(Seq(Byte))
  <2>. HIDE DEF part
  <2>. QED  BY <1>1, <1>2, IsASeq
<1>. HIDE DEF parts
<1>. QED  BY <1>3, <1>4, FlattenType

\* What build_avcc asks of the sets, a set at a time.
LEMMA BuildableIs ==
    ASSUME NEW sps \in Seq(Seq(Byte)), NEW pps \in Seq(Seq(Byte)), Buildable(sps, pps)
    PROVE  /\ Len(sps) \in Nat /\ Len(pps) \in Nat
           /\ Len(sps) >= 1 /\ Len(sps) < SpsCounts /\ Len(pps) < PpsCounts
           /\ sps[1] \in Seq(Byte) /\ Len(sps[1]) \in Nat /\ Len(sps[1]) >= 4
           /\ \A k \in 1..Len(sps) : SetFits(sps[k])
           /\ \A k \in 1..Len(pps) : SetFits(pps[k])
<1>. DEFINE S == Seq(Byte)
            w == sps \o pps
            m == Len(sps)
            n == Len(pps)
<1>1. m \in Nat /\ n \in Nat /\ m # 0
  BY LenProperties, EmptySeq DEF Buildable
<1>2. 1 \in 1..m
  BY <1>1
<1>3. sps[1] \in Seq(Byte)
  BY <1>2, ElementOfSeq
<1>4. Len(sps[1]) \in Nat
  BY <1>3, LenProperties
<1>5. sps \in Seq(S) /\ pps \in Seq(S)
  OBVIOUS
<1>. HIDE DEF S
<1>6. /\ Len(w) = m + n /\ w \in Seq(S)
      /\ \A i \in 1..(m + n) : w[i] = IF i <= m THEN sps[i] ELSE pps[i - m]
  BY <1>5, ConcatProperties
<1>7. \A i \in 1..(m + n) : SetFits(w[i])
  <2>1. DOMAIN w = 1..(m + n)
    BY <1>6, LenProperties
  <2>2. \A i \in DOMAIN w : w[i] \in ToSet(w)
    BY DEF ToSet
  <2>. HIDE DEF w
  <2>3. \A set \in ToSet(w) : SetFits(set)
    BY DEF Buildable, w
  <2>. QED  BY <2>1, <2>2, <2>3
<1>. HIDE DEF w
<1>8. ASSUME NEW k \in 1..m PROVE SetFits(sps[k])
  <2>1. k \in 1..(m + n) /\ k <= m
    BY <1>1
  <2>. QED  BY <1>6, <1>7, <2>1
<1>9. ASSUME NEW k \in 1..n PROVE SetFits(pps[k])
  <2>1. k + m \in 1..(m + n) /\ ~(k + m <= m) /\ (k + m) - m = k
    BY <1>1
  <2>. QED  BY <1>6, <1>7, <2>1
<1>. QED  BY <1>1, <1>3, <1>4, <1>8, <1>9 DEF Buildable

\* What a record begins with, and the sets it gives when they are taken out.
HoldsSets(avcc, sps, pps) ==
    /\ avcc \in Seq(Byte) /\ Len(avcc) \in Nat /\ Len(avcc) >= 7
    /\ At(avcc, 0) = 1 /\ At(avcc, 4) = 255
    /\ \E next : TakePps(avcc, TakeSps(avcc)) = Taken(sps \o pps, next)

\* A record build_avcc would write, with any bytes after the sets, holds them.
LEMMA RecordHolds ==
    ASSUME NEW sps \in Seq(Seq(Byte)), NEW pps \in Seq(Seq(Byte)), Buildable(sps, pps),
           NEW tail \in Seq(Byte)
    PROVE  Body(sps, pps) \in Seq(Byte) /\ HoldsSets(Body(sps, pps) \o tail, sps, pps)
<1>. DEFINE n == Len(sps)
            m == Len(pps)
            a0 == <<1>>
            a1 == Slice(sps[1], 1, 4)
            a2 == <<252 + 3, PutSpsCount(n)>>
            a3 == Prefixed(sps, SET_LENGTH)
            a4 == <<m % PpsCounts>>
            a5 == Prefixed(pps, SET_LENGTH)
            b1 == a0 \o a1
            b2 == b1 \o a2
            b3 == b2 \o a3
            b4 == b3 \o a4
            b5 == b4 \o a5
            avcc == b5 \o tail
<1>1. /\ n \in Nat /\ m \in Nat /\ n >= 1 /\ n < SpsCounts /\ m < PpsCounts
      /\ sps[1] \in Seq(Byte) /\ Len(sps[1]) \in Nat /\ Len(sps[1]) >= 4
      /\ \A k \in 1..n : SetFits(sps[k])
      /\ \A k \in 1..m : SetFits(pps[k])
  BY BuildableIs
<1>2. a0 \in Seq(Byte) /\ Len(a0) = 1 /\ At(a0, 0) = 1
  BY DEF Byte, At
<1>3. a1 \in Seq(Byte) /\ Len(a1) = 3
  <2>1. 4 \in 0..Len(sps[1]) /\ 1 \in 0..4 /\ 4 - 1 = 3
    BY <1>1
  <2>2. a1 \in Seq(Byte) /\ Len(a1) = 4 - 1
    BY <1>1, <2>1, SliceProperties
  <2>. QED  BY <2>1, <2>2
<1>4. a2 \in Seq(Byte) /\ Len(a2) = 2 /\ At(a2, 0) = 255 /\ SpsCountOf(At(a2, 1)) = n
  <2>. DEFINE c == PutSpsCount(n)
  <2>1. c \in Byte /\ SpsCountOf(c) = n
    BY <1>1, SpsCountIs
  <2>. HIDE DEF c
  <2>2. a2 = <<255, c>>
    BY DEF c
  <2>3. <<255, c>> \in Seq(Byte) /\ Len(<<255, c>>) = 2 /\ <<255, c>>[1] = 255 /\ <<255, c>>[2] = c
    BY <2>1 DEF Byte
  <2>. QED  BY <2>1, <2>2, <2>3 DEF At
<1>5. a3 \in Seq(Byte) /\ a5 \in Seq(Byte)
  BY <1>1, PrefixedType
<1>6. a4 \in Seq(Byte) /\ Len(a4) = 1 /\ At(a4, 0) = m
  <2>1. m % PpsCounts = m /\ m \in Byte
    BY <1>1, CountIs
  <2>2. <<m>> \in Seq(Byte) /\ Len(<<m>>) = 1 /\ <<m>>[1] = m
    BY <2>1
  <2>. QED  BY <2>1, <2>2 DEF At
<1>7. Body(sps, pps) = b5
  BY DEF Body
<1>. HIDE DEF a0, a1, a2, a3, a4, a5, b1, b2, b3, b4, b5, n, m, avcc
<1>8. /\ b1 \in Seq(Byte) /\ Len(b1) = 4 /\ At(b1, 0) = 1
  <2>1. IsJoin(b1, a0, a1)
    BY <1>2, <1>3, JoinIs DEF b1
  <2>2. 0 \in 0..(Len(a0) - 1)
    BY <1>2
  <2>. QED  BY <1>2, <1>3, <2>1, <2>2 DEF IsJoin
<1>9. /\ b2 \in Seq(Byte) /\ Len(b2) = 6 /\ At(b2, 0) = 1 /\ At(b2, 4) = 255
      /\ SpsCountOf(At(b2, 5)) = n
  <2>1. IsJoin(b2, b1, a2)
    BY <1>4, <1>8, JoinIs DEF b2
  <2>2. 0 \in 0..(Len(b1) - 1) /\ 0 \in 0..(Len(a2) - 1) /\ 1 \in 0..(Len(a2) - 1)
    BY <1>4, <1>8
  <2>3. At(b2, 0) = At(b1, 0) /\ At(b2, 4 + 0) = At(a2, 0) /\ At(b2, 4 + 1) = At(a2, 1)
    BY <1>8, <2>1, <2>2 DEF IsJoin
  <2>. QED  BY <1>4, <1>8, <2>1, <2>3 DEF IsJoin
<1>10. /\ b3 \in Seq(Byte) /\ Len(b3) = 6 + Len(a3) /\ Len(a3) \in Nat
       /\ \A i \in 0..5 : At(b3, i) = At(b2, i)
       /\ \A i \in 0..(Len(a3) - 1) : At(b3, 6 + i) = At(a3, i)
  <2>1. IsJoin(b3, b2, a3)
    BY <1>5, <1>9, JoinIs DEF b3
  <2>2. Len(b2) = 6 /\ 6 - 1 = 5
    BY <1>9
  <2>. QED  BY <2>1, <2>2 DEF IsJoin
<1>11. /\ b4 \in Seq(Byte) /\ Len(b4) = Len(b3) + 1
       /\ \A i \in 0..(Len(b3) - 1) : At(b4, i) = At(b3, i)
       /\ At(b4, Len(b3)) = m
  <2>1. IsJoin(b4, b3, a4)
    BY <1>6, <1>10, JoinIs DEF b4
  <2>2. 0 \in 0..(Len(a4) - 1) /\ Len(b3) + 0 = Len(b3)
    BY <1>6, <2>1 DEF IsJoin
  <2>. QED  BY <1>6, <2>1, <2>2 DEF IsJoin
<1>12. /\ b5 \in Seq(Byte) /\ Len(b5) = Len(b4) + Len(a5) /\ Len(a5) \in Nat
       /\ \A i \in 0..(Len(b4) - 1) : At(b5, i) = At(b4, i)
       /\ \A i \in 0..(Len(a5) - 1) : At(b5, Len(b4) + i) = At(a5, i)
  <2>1. IsJoin(b5, b4, a5)
    BY <1>5, <1>11, JoinIs DEF b5
  <2>. QED  BY <2>1 DEF IsJoin
<1>13. /\ avcc \in Seq(Byte) /\ Len(avcc) = Len(b5) + Len(tail) /\ Len(tail) \in Nat
       /\ \A i \in 0..(Len(b5) - 1) : At(avcc, i) = At(b5, i)
  <2>1. IsJoin(b5 \o tail, b5, tail)
    BY <1>12, JoinIs
  <2>. QED  BY <2>1 DEF IsJoin, avcc
<1>. DEFINE x == Len(a3)
            y == Len(a5)
<1>14. /\ Len(b3) = 6 + x /\ Len(b4) = 7 + x /\ Len(b5) = 7 + x + y
       /\ x \in Nat /\ y \in Nat /\ Len(avcc) \in Nat /\ 7 + x + y <= Len(avcc)
  <2>. HIDE DEF x, y
  <2>1. Len(b3) = 6 + x /\ x \in Nat
    BY <1>10 DEF x
  <2>2. Len(b4) = 7 + x
    BY <1>11, <2>1
  <2>3. Len(b5) = 7 + x + y /\ y \in Nat
    BY <1>12, <2>2 DEF y
  <2>. QED  BY <1>13, <2>1, <2>2, <2>3
<1>15. /\ \A i \in 0..(5 + x) : At(avcc, i) = At(b3, i)
       /\ At(avcc, 6 + x) = m
       /\ \A i \in 0..(y - 1) : At(avcc, 7 + x + i) = At(a5, i)
  <2>1. \A i \in 0..(6 + x) : At(avcc, i) = At(b4, i)
    <3>. SUFFICES ASSUME NEW i \in 0..(6 + x) PROVE At(avcc, i) = At(b4, i)
      OBVIOUS
    <3>1. i \in 0..(Len(b4) - 1) /\ i \in 0..(Len(b5) - 1)
      <4>. HIDE DEF x, y
      <4>. QED  BY <1>14
    <3>. QED  BY <1>12, <1>13, <3>1
  <2>2. ASSUME NEW i \in 0..(5 + x) PROVE At(avcc, i) = At(b3, i)
    <3>1. i \in 0..(Len(b3) - 1) /\ i \in 0..(6 + x)
      <4>. HIDE DEF x
      <4>. QED  BY <1>14
    <3>. QED  BY <1>11, <2>1, <3>1
  <2>3. At(avcc, 6 + x) = m
    <3>1. 6 + x \in 0..(6 + x)
      <4>. HIDE DEF x
      <4>. QED  BY <1>14
    <3>. QED  BY <1>11, <1>14, <2>1, <3>1
  <2>4. ASSUME NEW i \in 0..(y - 1) PROVE At(avcc, 7 + x + i) = At(a5, i)
    <3>1. 7 + x + i \in 0..(Len(b5) - 1) /\ i \in 0..(Len(a5) - 1)
      <4>1. i \in 0..(Len(a5) - 1)
        OBVIOUS
      <4>. HIDE DEF x, y
      <4>. QED  BY <1>14, <4>1
    <3>. QED  BY <1>12, <1>13, <1>14, <3>1
  <2>. HIDE DEF x, y
  <2>. QED  BY <2>2, <2>3, <2>4
<1>16. At(avcc, 0) = 1 /\ At(avcc, 4) = 255 /\ SpsCountOf(At(avcc, 5)) = n
  <2>1. \A i \in 0..5 : i \in 0..(5 + x)
    <3>. HIDE DEF x
    <3>. QED  BY <1>14
  <2>2. \A i \in 0..5 : At(avcc, i) = At(b2, i)
    BY <1>10, <1>15, <2>1
  <2>. QED  BY <1>9, <2>2
<1>17. TakeSps(avcc) = Taken(sps, 6 + x)
  <2>1. 6 + Len(a3) <= Len(avcc)
    <3>1. 6 + x <= Len(avcc)
      <4>. HIDE DEF x, y
      <4>. QED  BY <1>14
    <3>. QED  BY <3>1
  <2>2. \A i \in 0..(Len(a3) - 1) : At(avcc, 6 + i) = At(a3, i)
    <3>. SUFFICES ASSUME NEW i \in 0..(Len(a3) - 1) PROVE At(avcc, 6 + i) = At(a3, i)
      OBVIOUS
    <3>1. 6 + i \in 0..(5 + x)
      BY <1>14
    <3>. QED  BY <1>10, <1>15, <3>1
  <2>3. PICK q : SetsAt(avcc, q, sps) /\ q[1] = 6 /\ q[n + 1] = 6 + x
    <3>1. /\ avcc \in Seq(Byte) /\ 6 \in Nat /\ \A k \in 1..Len(sps) : SetFits(sps[k])
          /\ 6 + Len(Prefixed(sps, SET_LENGTH)) <= Len(avcc)
          /\ \A i \in 0..(Len(Prefixed(sps, SET_LENGTH)) - 1) :
                At(avcc, 6 + i) = At(Prefixed(sps, SET_LENGTH), i)
      BY <1>1, <1>13, <2>1, <2>2 DEF a3, n
    <3>. DEFINE six == 6
    <3>2. /\ six \in Nat /\ six + Len(Prefixed(sps, SET_LENGTH)) <= Len(avcc)
          /\ \A i \in 0..(Len(Prefixed(sps, SET_LENGTH)) - 1) :
                At(avcc, six + i) = At(Prefixed(sps, SET_LENGTH), i)
      BY <3>1
    <3>. HIDE DEF six
    <3>3. \E q : /\ SetsAt(avcc, q, sps) /\ q[1] = six
                 /\ q[Len(sps) + 1] = six + Len(Prefixed(sps, SET_LENGTH))
      BY <3>1, <3>2, PrefixedAt
    <3>. QED  BY <3>3 DEF six, a3, n
  <2>4. << >> \in Seq(Seq(Byte)) /\ \A k \in 1..Len(sps) : Len(sps[k]) \in Nat
    BY ElementOfSeq, LenProperties
  <2>5. TakeSets(avcc, Taken(<< >>, q[1]), Len(sps)) = Taken(<< >> \o sps, q[Len(sps) + 1])
    BY <1>13, <2>3, <2>4, TakesSets
  <2>6. << >> \o sps = sps
    BY ConcatEmptySeq
  <2>. HIDE DEF x
  <2>. QED  BY <1>16, <2>3, <2>5, <2>6 DEF TakeSps, n
<1>18. \E next : TakePps(avcc, Taken(sps, 6 + x)) = Taken(sps \o pps, next)
  <2>1. /\ 7 + x + Len(a5) <= Len(avcc) /\ 7 + x \in Nat
        /\ (6 + x) + 1 = 7 + x /\ ~(6 + x >= Len(avcc))
    <3>1. 7 + x + y <= Len(avcc) /\ 7 + x \in Nat /\ (6 + x) + 1 = 7 + x /\ ~(6 + x >= Len(avcc))
      <4>. HIDE DEF x, y
      <4>. QED  BY <1>14
    <3>. QED  BY <3>1
  <2>2. \A i \in 0..(Len(a5) - 1) : At(avcc, 7 + x + i) = At(a5, i)
    BY <1>15
  <2>. HIDE DEF x
  <2>. DEFINE start == 7 + x
  <2>3. start \in Nat /\ start + Len(a5) <= Len(avcc)
        /\ \A i \in 0..(Len(a5) - 1) : At(avcc, start + i) = At(a5, i)
    BY <2>1, <2>2
  <2>. HIDE DEF start
  <2>4. PICK q : SetsAt(avcc, q, pps) /\ q[1] = start
    <3>1. /\ avcc \in Seq(Byte) /\ \A k \in 1..Len(pps) : SetFits(pps[k])
          /\ start + Len(Prefixed(pps, SET_LENGTH)) <= Len(avcc)
          /\ \A i \in 0..(Len(Prefixed(pps, SET_LENGTH)) - 1) :
                At(avcc, start + i) = At(Prefixed(pps, SET_LENGTH), i)
      BY <1>1, <1>13, <2>3 DEF a5, m
    <3>2. \E q : /\ SetsAt(avcc, q, pps) /\ q[1] = start
                 /\ q[Len(pps) + 1] = start + Len(Prefixed(pps, SET_LENGTH))
      BY <2>3, <3>1, PrefixedAt
    <3>. QED  BY <3>2
  <2>5. \A k \in 1..Len(pps) : Len(pps[k]) \in Nat
    BY ElementOfSeq, LenProperties
  <2>6. TakeSets(avcc, Taken(sps, start), m) = Taken(sps \o pps, q[m + 1])
    BY <1>13, <2>4, <2>5, TakesSets DEF m
  <2>. DEFINE before == Taken(sps, 6 + x)
  <2>7. before.ok /\ before.nals = sps /\ before.next = 6 + x
    BY DEF Taken
  <2>. HIDE DEF before
  <2>8. TakePps(avcc, before) = TakeSets(avcc, Taken(sps, start), m)
    <3>1. before.next + 1 = start /\ At(avcc, before.next) = m /\ ~(before.next >= Len(avcc))
      BY <1>15, <2>1, <2>7 DEF start
    <3>. QED  BY <2>7, <3>1, Zenon DEF TakePps
  <2>. QED  BY <2>6, <2>8 DEF before
<1>. HIDE DEF x, y
<1>19. Len(avcc) >= 7
  BY <1>14
<1>20. HoldsSets(avcc, sps, pps)
  BY <1>13, <1>14, <1>16, <1>17, <1>18, <1>19 DEF HoldsSets
<1>. QED  BY <1>7, <1>12, <1>20 DEF avcc

-----------------------------------------------------------------------------
(***************************************************************************)
(* The fields build_avcc repeats are numbers, and its extension bytes.     *)
(***************************************************************************)

LEMMA BitType ==
    ASSUME NEW data \in Seq(Byte), NEW pos \in 0..(Bits(data) - 1)
    PROVE  Bit(data, pos) \in 0..1
<1>. DEFINE n == Len(data)
            byte == At(data, pos \div 8)
            e == 7 - (pos % 8)
<1>1. n \in Nat /\ pos \in 0..(8 * n - 1)
  BY LenProperties DEF Bits
<1>2. pos \div 8 \in 0..(n - 1)
  <2>. HIDE DEF n
  <2>. QED  BY <1>1
<1>3. byte \in Nat
  <2>1. byte \in Byte
    BY <1>2, ByteAt
  <2>. HIDE DEF byte
  <2>. QED  BY <2>1 DEF Byte
<1>4. e \in 0..7
  <2>1. pos % 8 \in 0..7
    BY <1>1
  <2>. QED  BY <2>1
<1>5. Bit(data, pos) = (byte \div 2 ^ e) % 2
  BY DEF Bit
<1>. HIDE DEF byte, e
<1>6. byte \div 2 ^ e \in Int
  <2>1. e = 0 \/ e = 1 \/ e = 2 \/ e = 3 \/ e = 4 \/ e = 5 \/ e = 6 \/ e = 7
    BY <1>4
  <2>2. /\ 2 ^ 0 = 1 /\ 2 ^ 1 = 2 /\ 2 ^ 2 = 4 /\ 2 ^ 3 = 8
        /\ 2 ^ 4 = 16 /\ 2 ^ 5 = 32 /\ 2 ^ 6 = 64 /\ 2 ^ 7 = 128
    OBVIOUS
  <2>3. ASSUME NEW x, x = 0 \/ x = 1 \/ x = 2 \/ x = 3 \/ x = 4 \/ x = 5 \/ x = 6 \/ x = 7
        PROVE  2 ^ x \in {1, 2, 4, 8, 16, 32, 64, 128}
    <3>1. CASE x = 0
      <4>1. 2 ^ x = 2 ^ 0
        BY <3>1, Zenon
      <4>. QED  BY <2>2, <4>1
    <3>2. CASE x = 1
      <4>1. 2 ^ x = 2 ^ 1
        BY <3>2, Zenon
      <4>. QED  BY <2>2, <4>1
    <3>3. CASE x = 2
      <4>1. 2 ^ x = 2 ^ 2
        BY <3>3, Zenon
      <4>. QED  BY <2>2, <4>1
    <3>4. CASE x = 3
      <4>1. 2 ^ x = 2 ^ 3
        BY <3>4, Zenon
      <4>. QED  BY <2>2, <4>1
    <3>5. CASE x = 4
      <4>1. 2 ^ x = 2 ^ 4
        BY <3>5, Zenon
      <4>. QED  BY <2>2, <4>1
    <3>6. CASE x = 5
      <4>1. 2 ^ x = 2 ^ 5
        BY <3>6, Zenon
      <4>. QED  BY <2>2, <4>1
    <3>7. CASE x = 6
      <4>1. 2 ^ x = 2 ^ 6
        BY <3>7, Zenon
      <4>. QED  BY <2>2, <4>1
    <3>8. CASE x = 7
      <4>1. 2 ^ x = 2 ^ 7
        BY <3>8, Zenon
      <4>. QED  BY <2>2, <4>1
    <3>. QED  BY <2>3, <3>1, <3>2, <3>3, <3>4, <3>5, <3>6, <3>7, <3>8
  <2>. DEFINE p == 2 ^ e
  <2>4. p \in {1, 2, 4, 8, 16, 32, 64, 128}
    BY <2>1, <2>3
  <2>. HIDE DEF p
  <2>5. byte \div p \in Int
    BY <1>3, <2>4
  <2>. QED  BY <2>5 DEF p
<1>. QED  BY <1>5, <1>6

\* The values of the first so many bits, one behind another.
SuffixValues(data, set, zeros, f) ==
    f = [k \in 0..zeros |-> IF k = 0 THEN 0 ELSE 2 * f[k - 1] + Bit(data, set + k)]

LEMMA SuffixExists ==
    ASSUME NEW data, NEW set, NEW zeros \in Nat
    PROVE  \E f : SuffixValues(data, set, zeros, f)
<1>. DEFINE P(m, f) == f = [k \in 0..m |-> IF k = 0 THEN 0 ELSE 2 * f[k - 1] + Bit(data, set + k)]
            Good == {m \in 0..zeros : \E f : P(m, f)}
<1>1. 0 \in Good
  <2>. DEFINE f == [k \in 0..0 |-> 0]
  <2>1. P(0, f)
    OBVIOUS
  <2>. HIDE DEF P
  <2>. QED  BY <2>1
<1>2. ASSUME NEW m \in 0..(zeros - 1), m \in Good PROVE m + 1 \in Good
  <2>1. PICK f : P(m, f)
    BY <1>2
  <2>. DEFINE more(x, k) == 2 * x + Bit(data, set + k)
              g == [k \in 0..(m + 1) |-> IF k = m + 1 THEN more(f[m], k) ELSE f[k]]
  <2>2. \A k \in 0..m : f[k] = IF k = 0 THEN 0 ELSE more(f[k - 1], k)
    BY <2>1
  <2>. HIDE DEF more
  <2>3. ASSUME NEW k \in 0..(m + 1)
        PROVE  g[k] = IF k = 0 THEN 0 ELSE more(g[k - 1], k)
    <3>1. CASE k = m + 1
      <4>1. k - 1 = m /\ k # 0 /\ m \in 0..(m + 1) /\ m # m + 1
        BY <3>1
      <4>2. g[k] = more(f[m], k) /\ g[m] = f[m]
        BY <3>1, <4>1
      <4>. QED  BY <4>1, <4>2
    <3>2. CASE k # m + 1
      <4>1. k \in 0..m /\ (k # 0 => k - 1 \in 0..(m + 1) /\ k - 1 # m + 1)
        BY <3>2
      <4>2. g[k] = f[k] /\ (k # 0 => g[k - 1] = f[k - 1])
        BY <3>2, <4>1
      <4>. QED  BY <2>2, <4>1, <4>2
    <3>. QED  BY <3>1, <3>2
  <2>4. g = [k \in 0..(m + 1) |-> g[k]]
    OBVIOUS
  <2>. HIDE DEF g
  <2>5. g = [k \in 0..(m + 1) |-> IF k = 0 THEN 0 ELSE more(g[k - 1], k)]
    BY <2>3, <2>4
  <2>6. P(m + 1, g)
    BY <2>5 DEF more
  <2>. HIDE DEF P
  <2>. QED  BY <2>6
<1>3. zeros \in Good
  <2>1. \A k \in 0..(zeros - 1) : k \in Good => k + 1 \in Good
    BY <1>2
  <2>. HIDE DEF Good
  <2>2. \A k \in 0..zeros : k \in Good
    BY <1>1, <2>1, Upwards
  <2>. QED  BY <2>2
<1>. QED  BY <1>3 DEF SuffixValues

LEMMA SuffixType ==
    ASSUME NEW data \in Seq(Byte), NEW set \in Nat, NEW zeros \in Nat, set + zeros < Bits(data)
    PROVE  Suffix(data, set, zeros) \in Nat
<1>. DEFINE v == CHOOSE f : SuffixValues(data, set, zeros, f)
            Good == {k \in 0..zeros : v[k] \in Nat}
<1>1. SuffixValues(data, set, zeros, v)
  BY SuffixExists
<1>2. Suffix(data, set, zeros) = v[zeros]
  BY Zenon DEF Suffix, SuffixValues
<1>3. Bits(data) \in Nat
  BY LenProperties DEF Bits
<1>. HIDE DEF v
<1>4. \A k \in 0..zeros : v[k] = IF k = 0 THEN 0 ELSE 2 * v[k - 1] + Bit(data, set + k)
  BY <1>1 DEF SuffixValues
<1>5. 0 \in Good
  BY <1>4
<1>6. ASSUME NEW k \in 0..(zeros - 1), v[k] \in Nat PROVE v[k + 1] \in Nat
  <2>1. set + (k + 1) \in 0..(Bits(data) - 1) /\ k + 1 \in 0..zeros /\ (k + 1) - 1 = k /\ k + 1 # 0
    BY <1>3
  <2>2. Bit(data, set + (k + 1)) \in 0..1
    BY <2>1, BitType
  <2>3. v[k + 1] = 2 * v[(k + 1) - 1] + Bit(data, set + (k + 1))
    BY <1>4, <2>1
  <2>. QED  BY <1>6, <2>1, <2>2, <2>3
<1>7. \A k \in 0..(zeros - 1) : k \in Good => k + 1 \in Good
  BY <1>6
<1>8. \A k \in 0..zeros : k \in Good
  <2>. HIDE DEF Good
  <2>. QED  BY <1>5, <1>7, Upwards
<1>. QED  BY <1>2, <1>8

\* What a read of a field returns.
Field == [value : Int, next : Int]
IsField(field) == field \in Field /\ (field # NoField => field.next \in Nat)

LEMMA UeType ==
    ASSUME NEW data \in Seq(Byte), NEW pos \in Nat
    PROVE  IsField(Ue(data, pos))
<1>. DEFINE ones == {p \in pos..(Bits(data) - 1) : Bit(data, p) = 1}
            set == Min(ones)
            zeros == set - pos
            got == Suffix(data, set, zeros)
<1>1. IsField(NoField)
  BY DEF IsField, Field, NoField
<1>2. CASE ones = {}
  BY <1>1, <1>2 DEF Ue
<1>3. CASE ones # {}
  <2>1. Bits(data) \in Nat
    BY LenProperties DEF Bits
  <2>2. ones \in SUBSET Nat
    BY <2>1
  <2>3. set \in ones
    <3>. HIDE DEF ones
    <3>. QED  BY <1>3, <2>2, MinExists
  <2>4. set \in Nat /\ zeros \in Nat
    <3>1. set \in pos..(Bits(data) - 1)
      BY <2>3
    <3>. HIDE DEF set
    <3>. QED  BY <2>1, <3>1
  <2>5. Ue(data, pos) = UeFrom(data, pos, set)
    BY <1>3 DEF Ue
  <2>. HIDE DEF set, ones
  <2>6. CASE zeros > 31 \/ set + zeros >= Bits(data)
    BY <1>1, <2>5, <2>6 DEF UeFrom
  <2>7. CASE ~(zeros > 31 \/ set + zeros >= Bits(data))
    <3>1. got \in Nat
      <4>1. set + zeros < Bits(data)
        BY <2>1, <2>4, <2>7
      <4>. QED  BY <2>4, <4>1, SuffixType
    <3>2. UeFrom(data, pos, set) = [value |-> 2 ^ zeros - 1 + got, next |-> set + zeros + 1]
      BY <2>7, Zenon DEF UeFrom
    <3>. HIDE DEF zeros, got
    <3>3. 2 ^ zeros \in Int
      BY <2>4
    <3>4. 2 ^ zeros - 1 + got \in Int /\ set + zeros + 1 \in Nat
      BY <2>4, <3>1, <3>3
    <3>. QED  BY <2>5, <3>2, <3>4 DEF IsField, Field
  <2>. QED  BY <2>6, <2>7
<1>. QED  BY <1>2, <1>3

LEMMA ThenType ==
    ASSUME NEW data \in Seq(Byte), NEW before, IsField(before), NEW skip \in Nat
    PROVE  IsField(Then(data, before, skip))
<1>1. CASE before = NoField \/ before.next + skip > Bits(data)
  BY <1>1 DEF Then, IsField, Field, NoField
<1>2. CASE ~(before = NoField \/ before.next + skip > Bits(data))
  <2>1. before.next + skip \in Nat
    BY <1>2 DEF IsField
  <2>2. Then(data, before, skip) = Ue(data, before.next + skip)
    BY <1>2 DEF Then
  <2>. QED  BY <2>1, <2>2, UeType
<1>. QED  BY <1>1, <1>2

LEMMA FormatsType ==
    ASSUME NEW nal \in Seq(Byte), Formats(nal) # NoFormats
    PROVE  Formats(nal)[1] \in Int /\ Formats(nal)[2] \in Int /\ Formats(nal)[3] \in Int
<1>. DEFINE rest == DropFront(nal, 1)
            rbsp == RemoveEmulationPrevention(rest)
            zero == [value |-> 0, next |-> 0]
            id == Then(rbsp, zero, 24)
            chroma == Then(rbsp, id, 0)
            skip == IF chroma.value = 3 THEN 1 ELSE 0
            luma == Then(rbsp, chroma, skip)
            depth == Then(rbsp, luma, 0)
<1>1. nal # << >> /\ Formats(nal) = FormatsFrom(rbsp, chroma)
  BY DEF Formats
<1>2. rbsp \in Seq(Byte)
  <2>1. Len(nal) \in Nat /\ Len(nal) # 0
    BY <1>1, LenProperties, EmptySeq
  <2>2. Len(nal) \in 0..Len(nal) /\ 1 \in 0..Len(nal)
    BY <2>1
  <2>3. rest = Slice(nal, 1, Len(nal))
    BY DEF DropFront, Slice
  <2>4. rest \in Seq(Byte)
    BY <2>2, <2>3, SliceProperties
  <2>. HIDE DEF rest
  <2>. QED  BY <2>4, RemoveType
<1>3. IsField(zero)
  BY DEF IsField, Field
<1>4. skip \in Nat /\ 24 \in Nat /\ 0 \in Nat
  OBVIOUS
<1>. HIDE DEF rest, rbsp, zero, skip
<1>5. IsField(id)
  BY <1>2, <1>3, <1>4, ThenType
<1>. HIDE DEF id
<1>6. IsField(chroma)
  BY <1>2, <1>4, <1>5, ThenType
<1>. HIDE DEF chroma
<1>7. IsField(luma)
  BY <1>2, <1>4, <1>6, ThenType
<1>. HIDE DEF luma
<1>8. IsField(depth)
  BY <1>2, <1>4, <1>7, ThenType
<1>9. FormatsFrom(rbsp, chroma) =
        IF depth = NoField THEN NoFormats
        ELSE <<chroma.value % 256, luma.value % 256, depth.value % 256>>
  BY Zenon DEF FormatsFrom, luma, skip
<1>. HIDE DEF depth
<1>10. chroma.value \in Int /\ luma.value \in Int /\ depth.value \in Int
  BY <1>6, <1>7, <1>8 DEF IsField, Field
<1>. QED  BY <1>1, <1>9, <1>10

LEMMA ExtensionType ==
    ASSUME NEW nal \in Seq(Byte), Formats(nal) # NoFormats
    PROVE  Extension(Formats(nal)) \in Seq(Byte)
<1>. DEFINE a == Formats(nal)[1]
            b == Formats(nal)[2]
            c == Formats(nal)[3]
<1>1. a \in Int /\ b \in Int /\ c \in Int
  BY FormatsType
<1>2. Extension(Formats(nal)) = <<252 + (a % 4), 248 + (b % 8), 248 + (c % 8), 0>>
  BY DEF Extension
<1>. HIDE DEF a, b, c
<1>3. 252 + (a % 4) \in Byte /\ 248 + (b % 8) \in Byte /\ 248 + (c % 8) \in Byte /\ 0 \in Byte
  BY <1>1 DEF Byte
<1>. DEFINE x == 252 + (a % 4)
            y == 248 + (b % 8)
            z == 248 + (c % 8)
<1>. HIDE DEF x, y, z
<1>4. x \in Byte /\ y \in Byte /\ z \in Byte /\ 0 \in Byte
  BY <1>3 DEF x, y, z
<1>5. <<x, y, z, 0>> \in Seq(Byte)
  BY <1>4
<1>. QED  BY <1>2, <1>5 DEF x, y, z

-----------------------------------------------------------------------------
(***************************************************************************)
(* A record that is cut: what is read of it is what is read of the whole.  *)
(***************************************************************************)

\* Sets taken out of bytes, so far.
IsTaken(got) == got.ok /\ got.nals \in Seq(Seq(Byte)) /\ got.next \in Nat

\* w is where avcc begins.
Begins(w, avcc) ==
    /\ w \in Seq(Byte) /\ avcc \in Seq(Byte) /\ Len(w) <= Len(avcc)
    /\ \A i \in 0..(Len(w) - 1) : At(w, i) = At(avcc, i)

LEMMA SliceBegins ==
    ASSUME NEW avcc \in Seq(Byte), NEW hi \in 0..Len(avcc)
    PROVE  Begins(Slice(avcc, 0, hi), avcc)
<1>. DEFINE w == Slice(avcc, 0, hi)
<1>1. Len(avcc) \in Nat
  BY LenProperties
<1>2. 0 \in 0..hi /\ hi - 0 = hi
  BY <1>1
<1>3. w \in Seq(Byte) /\ Len(w) = hi - 0 /\ \A i \in 0..(hi - 0 - 1) : At(w, i) = At(avcc, 0 + i)
  BY <1>2, SliceProperties
<1>. HIDE DEF w
<1>4. \A i \in 0..(Len(w) - 1) : At(w, i) = At(avcc, i)
  <2>. SUFFICES ASSUME NEW i \in 0..(Len(w) - 1) PROVE At(w, i) = At(avcc, i)
    OBVIOUS
  <2>1. i \in 0..(hi - 0 - 1) /\ 0 + i = i
    BY <1>1, <1>3
  <2>. QED  BY <1>3, <2>1
<1>5. Len(w) <= Len(avcc)
  BY <1>1, <1>2, <1>3
<1>. QED  BY <1>3, <1>4, <1>5 DEF w, Begins

LEMMA TakeSetCut ==
    ASSUME NEW w, NEW avcc, Begins(w, avcc), NEW before, before.ok => IsTaken(before),
           TakeSet(w, before).ok
    PROVE  /\ before.ok /\ IsTaken(TakeSet(w, before))
           /\ TakeSet(avcc, before) = TakeSet(w, before)
<1>. DEFINE next == before.next
            start == next + 2
            length == LengthAt(w, next, 2)
            end == start + length
            nals == before.nals
            set == Slice(w, start, end)
<1>1. SET_LENGTH = 2 /\ NotTaken.ok = FALSE
  BY DEF SET_LENGTH, NotTaken
<1>2. /\ before.ok /\ ~(start > Len(w)) /\ ~(end > Len(w))
      /\ TakeSet(w, before) = Taken(Append(nals, set), end)
  <2>1. TakeSet(w, before) =
            IF ~before.ok \/ start > Len(w) THEN NotTaken
            ELSE IF end > Len(w) THEN NotTaken
            ELSE Taken(Append(nals, set), end)
    BY <1>1, Zenon DEF TakeSet
  <2>. HIDE DEF start, end, set, nals
  <2>. QED  BY <1>1, <2>1
<1>3. /\ w \in Seq(Byte) /\ avcc \in Seq(Byte) /\ Len(w) \in Nat /\ Len(avcc) \in Nat
      /\ Len(w) <= Len(avcc) /\ \A i \in 0..(Len(w) - 1) : At(w, i) = At(avcc, i)
  BY LenProperties DEF Begins
<1>4. next \in Nat /\ nals \in Seq(Seq(Byte))
  BY <1>2 DEF IsTaken
<1>. HIDE DEF next, nals
<1>5. next + 2 <= Len(w) /\ next + 2 <= Len(avcc)
  BY <1>2, <1>3, <1>4
<1>6. length \in Nat /\ LengthAt(avcc, next, 2) = length
  <2>1. length = Radix * At(w, next) + At(w, next + 1) /\ length \in Nat
    BY <1>3, <1>4, <1>5, SetLengthIs
  <2>2. LengthAt(avcc, next, 2) = Radix * At(avcc, next) + At(avcc, next + 1)
    BY <1>3, <1>4, <1>5, SetLengthIs
  <2>3. next \in 0..(Len(w) - 1) /\ next + 1 \in 0..(Len(w) - 1)
    BY <1>3, <1>4, <1>5
  <2>4. At(w, next) = At(avcc, next) /\ At(w, next + 1) = At(avcc, next + 1)
    BY <1>3, <2>3
  <2>. QED  BY <2>1, <2>2, <2>4
<1>. HIDE DEF length
<1>7. /\ start \in 0..end /\ end \in 0..Len(w) /\ end \in 0..Len(avcc)
      /\ start \in Nat /\ end \in Nat
  BY <1>2, <1>3, <1>4, <1>6
<1>. HIDE DEF start, end
<1>8. set \in Seq(Byte)
  BY <1>3, <1>7, SliceProperties
<1>9. Slice(avcc, start, end) = set
  <2>. DEFINE s == Slice(avcc, start, end)
  <2>1. s \in Seq(Byte) /\ Len(s) = end - start
        /\ \A i \in 0..(end - start - 1) : At(s, i) = At(avcc, start + i)
    BY <1>3, <1>7, SliceProperties
  <2>2. Len(set) = end - start
        /\ \A i \in 0..(end - start - 1) : At(set, i) = At(w, start + i)
    BY <1>3, <1>7, SliceProperties
  <2>. HIDE DEF s, set
  <2>3. ASSUME NEW i \in 1..Len(s) PROVE s[i] = set[i]
    <3>1. i - 1 \in 0..(end - start - 1) /\ start + (i - 1) \in 0..(Len(w) - 1) /\ (i - 1) + 1 = i
      BY <1>3, <1>7, <2>1
    <3>2. At(s, i - 1) = At(set, i - 1)
      BY <1>3, <2>1, <2>2, <3>1
    <3>. QED  BY <3>1, <3>2 DEF At
  <2>4. s = set
    BY <1>8, <2>1, <2>2, <2>3, SeqEqual
  <2>. QED  BY <2>4 DEF s
<1>10. TakeSet(avcc, before) = Taken(Append(nals, set), end)
  <2>1. ~(start > Len(avcc)) /\ ~(end > Len(avcc))
    BY <1>3, <1>7
  <2>2. TakeSet(avcc, before) =
            IF ~before.ok \/ start > Len(avcc) THEN NotTaken
            ELSE IF end > Len(avcc) THEN NotTaken
            ELSE Taken(Append(nals, Slice(avcc, start, end)), end)
    BY <1>1, <1>6, Zenon DEF TakeSet, start, end, nals, next
  <2>. QED  BY <1>2, <1>9, <2>1, <2>2
<1>11. IsTaken(Taken(Append(nals, set), end))
  <2>. DEFINE S == Seq(Byte)
  <2>1. nals \in Seq(S) /\ set \in S
    BY <1>4, <1>8
  <2>. HIDE DEF S, set
  <2>2. Append(nals, set) \in Seq(S)
    BY <2>1, AppendProperties
  <2>. QED  BY <1>7, <2>2 DEF IsTaken, Taken, S
<1>. QED  BY <1>2, <1>10, <1>11

LEMMA TakeSetsCut ==
    ASSUME NEW w, NEW avcc, Begins(w, avcc), NEW before, IsTaken(before), NEW n \in Nat,
           TakeSets(w, before, n).ok
    PROVE  /\ IsTaken(TakeSets(w, before, n))
           /\ TakeSets(avcc, before, n) = TakeSets(w, before, n)
<1>. DEFINE of(k) == TakeSets(w, before, k)
            Same(k) == of(k).ok => IsTaken(of(k)) /\ TakeSets(avcc, before, k) = of(k)
            Good == {k \in 0..n : Same(k)}
<1>1. 0 \in Good
  <2>1. of(0) = before /\ TakeSets(avcc, before, 0) = before
    BY TakeSetsSteps
  <2>. QED  BY <2>1
<1>2. ASSUME NEW k \in 0..(n - 1), Same(k) PROVE Same(k + 1)
  <2>. DEFINE got == of(k)
  <2>1. /\ of(k + 1) = TakeSet(w, got)
        /\ TakeSets(avcc, before, k + 1) = TakeSet(avcc, TakeSets(avcc, before, k))
    BY TakeSetsSteps
  <2>2. got.ok => IsTaken(got) /\ TakeSets(avcc, before, k) = got
    BY <1>2
  <2>. SUFFICES ASSUME of(k + 1).ok
                PROVE  IsTaken(of(k + 1)) /\ TakeSets(avcc, before, k + 1) = of(k + 1)
    OBVIOUS
  <2>. HIDE DEF of, got
  <2>3. got.ok /\ IsTaken(TakeSet(w, got)) /\ TakeSet(avcc, got) = TakeSet(w, got)
    BY <2>1, <2>2, TakeSetCut
  <2>. QED  BY <2>1, <2>2, <2>3
<1>. HIDE DEF Same
<1>3. \A k \in 0..(n - 1) : k \in Good => k + 1 \in Good
  BY <1>2
<1>. HIDE DEF Good
<1>4. \A k \in 0..n : k \in Good
  BY <1>1, <1>3, Upwards
<1>. QED  BY <1>4 DEF Good, Same

\* A record read whole or cut: what avcc_to_annexb_extradata takes out of the
\* cut one it takes out of the whole one.
THEOREM RecordCut ==
    ASSUME NEW w, NEW avcc, Begins(w, avcc), AvccToAnnexbExtradata(w).ok
    PROVE  /\ AvccToAnnexbExtradata(w).bytes \in Seq(Byte)
           /\ \E nals \in Seq(Seq(Byte)) : AvccToAnnexbExtradata(w).bytes = StartCoded(nals)
           /\ AvccToAnnexbExtradata(avcc) = AvccToAnnexbExtradata(w)
<1>. DEFINE annexb(taken) ==
                IF ~taken.ok \/ taken.nals = << >> THEN Err ELSE Ok(StartCoded(taken.nals))
            sps == TakeSps(w)
            pps == TakePps(w, sps)
            n == SpsCountOf(At(w, 5))
            m == At(w, sps.next)
            none == Taken(<< >>, 6)
<1>1. \A v : AvccToAnnexbExtradata(v) = IF Len(v) < 6 THEN Err ELSE annexb(TakePps(v, TakeSps(v)))
  BY DEF AvccToAnnexbExtradata
<1>2. ~(Len(w) < 6) /\ annexb(pps).ok
  BY <1>1 DEF Err
<1>3. /\ w \in Seq(Byte) /\ avcc \in Seq(Byte) /\ Len(w) \in Nat /\ Len(avcc) \in Nat
      /\ Len(w) <= Len(avcc) /\ \A i \in 0..(Len(w) - 1) : At(w, i) = At(avcc, i)
  BY LenProperties DEF Begins
<1>4. pps.ok
  <2>. HIDE DEF pps
  <2>. QED  BY <1>2 DEF Err
<1>5. sps.ok /\ ~(sps.next >= Len(w)) /\ pps = TakeSets(w, Taken(sps.nals, sps.next + 1), m)
  <2>1. pps = IF ~sps.ok \/ sps.next >= Len(w) THEN NotTaken
              ELSE TakeSets(w, Taken(sps.nals, sps.next + 1), m)
    BY DEF TakePps
  <2>2. NotTaken.ok = FALSE
    BY DEF NotTaken
  <2>. HIDE DEF sps, pps, m
  <2>. QED  BY <1>4, <2>1, <2>2
<1>6. n \in Nat /\ At(avcc, 5) = At(w, 5)
  <2>1. 5 \in 0..(Len(w) - 1)
    BY <1>2, <1>3
  <2>2. At(w, 5) \in Byte
    BY <1>3, <2>1, ByteAt
  <2>3. SpsCounts \in 2..32
    BY CountAssumption
  <2>4. At(w, 5) % SpsCounts \in Nat
    <3>. DEFINE b == At(w, 5)
    <3>1. b \in 0..255
      BY <2>2 DEF Byte
    <3>. HIDE DEF b
    <3>2. b % SpsCounts \in Nat
      BY <2>3, <3>1
    <3>. QED  BY <3>2 DEF b
  <2>. QED  BY <1>3, <2>1, <2>4 DEF SpsCountOf
<1>7. IsTaken(sps) /\ TakeSps(avcc) = sps
  <2>1. sps = TakeSets(w, none, n) /\ TakeSps(avcc) = TakeSets(avcc, none, n)
    BY <1>6 DEF TakeSps
  <2>2. IsTaken(none)
    <3>1. << >> \in Seq(Seq(Byte)) /\ 6 \in Nat
      OBVIOUS
    <3>. QED  BY <3>1 DEF IsTaken, Taken
  <2>. HIDE DEF sps, n, none
  <2>. QED  BY <1>5, <1>6, <2>1, <2>2, TakeSetsCut
<1>. HIDE DEF sps, n, none
<1>. DEFINE before == Taken(sps.nals, sps.next + 1)
<1>8. sps.next \in 0..(Len(w) - 1) /\ sps.next \in Nat
  BY <1>3, <1>5, <1>7 DEF IsTaken
<1>9. m \in Nat /\ At(avcc, sps.next) = m /\ ~(sps.next >= Len(avcc))
  <2>1. m \in Byte
    BY <1>3, <1>8, ByteAt
  <2>. HIDE DEF m
  <2>2. At(w, sps.next) = m
    BY DEF m
  <2>. QED  BY <1>3, <1>8, <2>1, <2>2 DEF Byte
<1>10. IsTaken(before)
  BY <1>7 DEF IsTaken, Taken
<1>11. TakePps(avcc, sps) = TakeSets(avcc, before, m)
  BY <1>5, <1>9, Zenon DEF TakePps
<1>. HIDE DEF before, m
<1>12. IsTaken(pps) /\ TakePps(avcc, sps) = pps
  <2>1. pps = TakeSets(w, before, m)
    BY <1>5 DEF before
  <2>. HIDE DEF pps
  <2>. QED  BY <1>4, <1>9, <1>10, <1>11, <2>1, TakeSetsCut
<1>13. AvccToAnnexbExtradata(w) = annexb(pps) /\ AvccToAnnexbExtradata(avcc) = annexb(pps)
  <2>1. ~(Len(avcc) < 6)
    BY <1>2, <1>3
  <2>. HIDE DEF annexb
  <2>. QED  BY <1>1, <1>2, <1>7, <1>12, <2>1 DEF sps
<1>14. /\ annexb(pps).bytes \in Seq(Byte)
       /\ \E nals \in Seq(Seq(Byte)) : annexb(pps).bytes = StartCoded(nals)
  <2>1. annexb(pps) = Ok(StartCoded(pps.nals))
    <3>. HIDE DEF pps
    <3>. QED  BY <1>2 DEF Err
  <2>2. pps.nals \in Seq(Seq(Byte))
    BY <1>12 DEF IsTaken
  <2>. HIDE DEF pps, annexb
  <2>4. StartCoded(pps.nals) \in Seq(Byte)
    BY <2>2, StartCodedConcat
  <2>. QED  BY <2>1, <2>2, <2>4 DEF Ok
<1>. QED  BY <1>13, <1>14

\* The record build_avcc makes of sets out of a stream: whole, with lengths of
\* four bytes, and with those sets in it.
THEOREM BuiltReads ==
    ASSUME NEW sps \in Seq(CleanSets(H264_SPS)), NEW pps \in Seq(CleanSets(H264_PPS)),
           BuildAvcc(sps, pps).ok, NEW avcc, avcc = BuildAvcc(sps, pps).bytes
    PROVE  /\ avcc \in Seq(Byte) /\ Len(avcc) \in Nat /\ Len(avcc) >= 7
           /\ At(avcc, 0) = 1 /\ At(avcc, 4) = 255
           /\ AvccToAnnexbExtradata(avcc).ok
           /\ ParseParameterSets(AvccToAnnexbExtradata(avcc).bytes) = [sps |-> sps, pps |-> pps]
<1>. DEFINE formats == Formats(sps[1])
            body == Body(sps, pps)
            nals == sps \o pps
<1>1. sps \in Seq(CleanNals) /\ pps \in Seq(CleanNals)
  BY CleanSetsAre
<1>2. sps \in Seq(Seq(Byte)) /\ pps \in Seq(Seq(Byte))
  BY <1>1 DEF CleanNals
<1>3. Buildable(sps, pps)
  <2>1. ~Buildable(sps, pps) => BuildAvcc(sps, pps) = Err
    BY Zenon DEF BuildAvcc
  <2>. QED  BY <2>1 DEF Err
<1>4. PICK tail \in Seq(Byte) : avcc = body \o tail
  <2>1. CASE At(sps[1], 1) \in BASELINE_FAMILY
    <3>1. avcc = body
      <4>1. BuildAvcc(sps, pps) = Ok(body)
        BY <1>3, <2>1, Zenon DEF BuildAvcc
      <4>. QED  BY <4>1 DEF Ok
    <3>2. body \o << >> = body
      <4>1. << >> \in Seq(Byte)
        OBVIOUS
      <4>2. body \in Seq(Byte)
        BY <1>2, <1>3, <4>1, RecordHolds
      <4>. HIDE DEF body
      <4>. QED  BY <4>2, ConcatEmptySeq
    <3>3. << >> \in Seq(Byte)
      OBVIOUS
    <3>. HIDE DEF body
    <3>. QED  BY <3>1, <3>2, <3>3
  <2>2. CASE ~(At(sps[1], 1) \in BASELINE_FAMILY)
    <3>1. BuildAvcc(sps, pps) =
            IF formats = NoFormats THEN Err ELSE Ok(body \o Extension(formats))
      BY <1>3, <2>2, Zenon DEF BuildAvcc
    <3>2. formats # NoFormats
      <4>. HIDE DEF formats, body
      <4>. QED  BY <3>1 DEF Err
    <3>3. avcc = body \o Extension(formats)
      <4>. HIDE DEF formats, body
      <4>. QED  BY <3>1, <3>2 DEF Ok
    <3>4. sps[1] \in Seq(Byte)
      BY <1>2, <1>3, BuildableIs
    <3>5. Extension(formats) \in Seq(Byte)
      BY <3>2, <3>4, ExtensionType
    <3>. HIDE DEF formats, body
    <3>. QED  BY <3>3, <3>5
  <2>. QED  BY <2>1, <2>2
<1>5. /\ avcc \in Seq(Byte) /\ Len(avcc) \in Nat /\ Len(avcc) >= 7
      /\ At(avcc, 0) = 1 /\ At(avcc, 4) = 255
      /\ \E next : TakePps(avcc, TakeSps(avcc)) = Taken(nals, next)
  <2>1. HoldsSets(Body(sps, pps) \o tail, sps, pps)
    BY <1>2, <1>3, RecordHolds
  <2>. QED  BY <1>4, <2>1, Zenon DEF HoldsSets
<1>6. PICK next : TakePps(avcc, TakeSps(avcc)) = Taken(nals, next)
  BY <1>5
<1>. DEFINE taken == TakePps(avcc, TakeSps(avcc))
<1>7. taken.ok /\ taken.nals = nals
  <2>1. taken = Taken(nals, next)
    BY <1>6
  <2>. HIDE DEF taken, nals
  <2>. QED  BY <2>1 DEF Taken
<1>8. nals # << >>
  <2>1. Len(sps) \in Nat /\ Len(pps) \in Nat /\ Len(sps) >= 1
    BY <1>2, <1>3, BuildableIs
  <2>2. Len(nals) = Len(sps) + Len(pps)
    BY <1>1, ConcatProperties
  <2>. HIDE DEF nals
  <2>. QED  BY <2>1, <2>2, EmptySeq
<1>. HIDE DEF nals, body, formats
<1>9. AvccToAnnexbExtradata(avcc) = Ok(StartCoded(nals))
  <2>1. ~(Len(avcc) < 6)
    BY <1>5
  <2>2. AvccToAnnexbExtradata(avcc) =
            IF ~taken.ok \/ taken.nals = << >> THEN Err ELSE Ok(StartCoded(taken.nals))
    BY <2>1, Zenon DEF AvccToAnnexbExtradata
  <2>. HIDE DEF taken
  <2>. QED  BY <1>7, <1>8, <2>2
<1>10. ParseParameterSets(StartCoded(nals)) = [sps |-> sps, pps |-> pps]
  BY ParseStartCoded DEF nals
<1>. QED  BY <1>5, <1>9, <1>10 DEF Ok

-----------------------------------------------------------------------------
(***************************************************************************)
(* The header of a track.                                                  *)
(***************************************************************************)

\* The record the header is, or was before it was cut.
IsWhole(full) ==
    /\ full \in Seq(Byte) /\ Len(full) >= LeastRecord
    /\ DeclaredLengthSize(full) = Answer(framing)
    /\ SetsIn(framing, full) = SetsThen

\* The inductive invariant. Annex B is never cut; behind a record that is there
\* is a whole one with the sets of the stream and the width of its samples.
HeaderInv ==
    /\ origin \in Tracks
    /\ header \in Seq(Byte)
    /\ framing = AnnexB => made = "given" /\ SetsNow = SetsThen
    /\ framing # AnnexB =>
        /\ made # "cut" => IsWhole(header)
        /\ made = "cut" =>
            \E full : IsWhole(full) /\ \E l \in 0..(Len(full) - 1) : header = Slice(full, 0, l)

LEMMA WhereTheWidthIs == LengthSizeAt = 4 /\ LeastRecord = 7
BY TrackAssumption DEF LengthSizeAt, LeastRecord

LEMMA HeaderInit == Init => HeaderInv
<1>. SUFFICES ASSUME Init PROVE HeaderInv
  OBVIOUS
<1>1. /\ origin \in Tracks /\ header = origin.header /\ framing = origin.framing
      /\ made = "given"
  BY DEF Init
<1>2. /\ SetsIn(origin.framing, origin.header) = [sps |-> origin.sps, pps |-> origin.pps]
      /\ origin.header \in Seq(Byte)
      /\ origin.framing # AnnexB =>
            /\ Len(origin.header) >= LeastRecord
            /\ DeclaredLengthSize(origin.header) = Answer(origin.framing)
  BY <1>1, TrackAssumption
<1>3. SetsIn(framing, header) = SetsThen
  BY <1>1, <1>2 DEF SetsThen
<1>4. framing # AnnexB => IsWhole(header)
  BY <1>1, <1>2, <1>3 DEF IsWhole
<1>. QED  BY <1>1, <1>2, <1>3, <1>4 DEF HeaderInv, SetsNow

LEMMA MuxKeeps ==
    ASSUME HeaderInv, Mux PROVE HeaderInv'
<1>. DEFINE sets == ParseParameterSets(header)
            sps == SetsOfType(SplitNals(header), H264_SPS)
            pps == SetsOfType(SplitNals(header), H264_PPS)
            avcc == BuildAvcc(sps, pps)
            record == avcc.bytes
<1>1. /\ framing = AnnexB /\ avcc.ok /\ header' = record
      /\ framing' = LengthPrefixed(4) /\ made' = "built" /\ origin' = origin
  <2>1. sets.sps = sps /\ sets.pps = pps
    BY DEF ParseParameterSets
  <2>2. /\ framing = AnnexB /\ Muxed.ok /\ header' = Muxed.header
        /\ framing' = LengthPrefixed(4) /\ made' = "built" /\ origin' = origin
    BY DEF Mux
  <2>3. (Muxed.ok => avcc.ok) /\ Muxed.header = record
    BY <2>1 DEF Muxed
  <2>. QED  BY <2>2, <2>3
<1>2. sps \in Seq(CleanSets(H264_SPS)) /\ pps \in Seq(CleanSets(H264_PPS))
  BY SetsOfTypeType DEF HeaderInv
<1>3. [sps |-> sps, pps |-> pps] = SetsThen
  <2>1. ParseParameterSets(header) = [sps |-> sps, pps |-> pps]
    BY DEF ParseParameterSets
  <2>2. ParseParameterSets(header) = SetsThen
    BY <1>1 DEF HeaderInv, SetsNow, SetsIn
  <2>. QED  BY <2>1, <2>2
<1>. HIDE DEF sps, pps
<1>4. /\ record \in Seq(Byte) /\ Len(record) >= 7
      /\ At(record, 0) = 1 /\ At(record, 4) = 255
      /\ ParseParameterSets(AvccToAnnexbExtradata(record).bytes) = [sps |-> sps, pps |-> pps]
  BY <1>1, <1>2, BuiltReads
<1>. HIDE DEF record
<1>5. DeclaredLengthSize(record) = Answer(LengthPrefixed(4))
  <2>1. ~(Len(record) <= LengthSizeAt \/ At(record, 0) # 1)
    <3>1. Len(record) \in Nat
      BY <1>4, LenProperties
    <3>. QED  BY <1>4, <3>1, WhereTheWidthIs
  <2>2. Declared(At(record, LengthSizeAt)) = 4
    BY <1>4, WhereTheWidthIs DEF Declared
  <2>. QED  BY <2>1, <2>2 DEF DeclaredLengthSize
<1>6. framing' # AnnexB
  BY <1>1 DEF LengthPrefixed, AnnexB
<1>7. IsWhole(header)'
  <2>1. SetsThen' = SetsThen
    BY <1>1 DEF SetsThen
  <2>2. SetsIn(framing, header)' = SetsThen
    BY <1>1, <1>3, <1>4, <1>6 DEF SetsIn
  <2>. QED  BY <1>1, <1>4, <1>5, <2>1, <2>2, WhereTheWidthIs DEF IsWhole
<1>. QED  BY <1>1, <1>4, <1>6, <1>7 DEF HeaderInv

\* What a reader gets from a record that is read at all: bytes, and the sets of
\* the stream.
LEMMA ReadsTheSets ==
    ASSUME HeaderInv, framing # AnnexB, AvccToAnnexbExtradata(header).ok
    PROVE  AvccToAnnexbExtradata(header).bytes \in Seq(Byte) /\ SetsNow = SetsThen
<1>1. PICK full : IsWhole(full) /\ Begins(header, full)
  <2>1. CASE made # "cut"
    <3>1. IsWhole(header) /\ header \in Seq(Byte)
      BY <2>1 DEF HeaderInv
    <3>2. Begins(header, header)
      <4>1. Len(header) \in Nat
        BY <3>1, LenProperties
      <4>. QED  BY <3>1, <4>1 DEF Begins
    <3>. QED  BY <3>1, <3>2
  <2>2. CASE made = "cut"
    <3>1. PICK full : IsWhole(full) /\ \E l \in 0..(Len(full) - 1) : header = Slice(full, 0, l)
      BY <2>2 DEF HeaderInv
    <3>2. PICK l \in 0..(Len(full) - 1) : header = Slice(full, 0, l)
      BY <3>1
    <3>3. full \in Seq(Byte)
      BY <3>1 DEF IsWhole
    <3>4. l \in 0..Len(full)
      BY <3>3, LenProperties
    <3>5. Begins(Slice(full, 0, l), full)
      BY <3>3, <3>4, SliceBegins
    <3>. QED  BY <3>1, <3>2, <3>5
  <2>. QED  BY <2>1, <2>2
<1>2. /\ AvccToAnnexbExtradata(header).bytes \in Seq(Byte)
      /\ AvccToAnnexbExtradata(full) = AvccToAnnexbExtradata(header)
  BY <1>1, RecordCut
<1>3. SetsNow = SetsThen
  BY <1>1, <1>2 DEF SetsNow, SetsIn, IsWhole
<1>. QED  BY <1>2, <1>3

LEMMA DemuxKeeps ==
    ASSUME HeaderInv, Demux PROVE HeaderInv'
<1>. DEFINE annexb == AvccToAnnexbExtradata(header)
<1>1. /\ framing # AnnexB /\ annexb.ok /\ header' = annexb.bytes
      /\ framing' = AnnexB /\ made' = "given" /\ origin' = origin
  <2>1. /\ framing # AnnexB /\ Demuxed.ok /\ header' = Demuxed.header
        /\ framing' = AnnexB /\ made' = "given" /\ origin' = origin
    BY DEF Demux
  <2>2. (Demuxed.ok => annexb.ok) /\ Demuxed.header = annexb.bytes
    BY DEF Demuxed
  <2>. QED  BY <2>1, <2>2
<1>2. annexb.bytes \in Seq(Byte) /\ SetsNow = SetsThen
  BY <1>1, ReadsTheSets
<1>3. SetsThen' = SetsThen
  BY <1>1 DEF SetsThen
<1>4. SetsNow' = SetsThen
  BY <1>1, <1>2 DEF SetsNow, SetsIn
<1>. QED  BY <1>1, <1>2, <1>3, <1>4 DEF HeaderInv

LEMMA CutKeeps ==
    ASSUME HeaderInv, NEW l \in 0..(Len(header) - 1), Cut(l) PROVE HeaderInv'
<1>1. /\ framing # AnnexB /\ made # "cut" /\ header' = Slice(header, 0, l) /\ made' = "cut"
      /\ framing' = framing /\ origin' = origin
  BY DEF Cut
<1>2. IsWhole(header) /\ header \in Seq(Byte)
  BY <1>1 DEF HeaderInv
<1>3. header' \in Seq(Byte)
  <2>1. l \in 0..Len(header)
    BY <1>2, LenProperties
  <2>2. 0 \in 0..l
    BY <2>1
  <2>. QED  BY <1>1, <1>2, <2>1, <2>2, SliceProperties
<1>4. \A full : IsWhole(full)' <=> IsWhole(full)
  BY <1>1 DEF IsWhole, SetsThen
<1>5. \E full : IsWhole(full)' /\ \E k \in 0..(Len(full) - 1) : header' = Slice(full, 0, k)
  BY <1>1, <1>2, <1>4
<1>. QED  BY <1>1, <1>3, <1>5 DEF HeaderInv

LEMMA HeaderStaysKeeps ==
    ASSUME HeaderInv, UNCHANGED <<header, framing, made, origin>> PROVE HeaderInv'
<1>1. \A full : IsWhole(full)' <=> IsWhole(full)
  BY DEF IsWhole, SetsThen
<1>2. SetsNow' = SetsNow /\ SetsThen' = SetsThen
  BY DEF SetsNow, SetsThen
<1>. QED  BY <1>1, <1>2 DEF HeaderInv

LEMMA HeaderStep == HeaderInv /\ [Next]_vars => HeaderInv'
<1>. SUFFICES ASSUME HeaderInv, [Next]_vars PROVE HeaderInv'
  OBVIOUS
<1>1. CASE Mux
  BY <1>1, MuxKeeps
<1>2. CASE MuxRefused
  BY <1>2, HeaderStaysKeeps DEF MuxRefused, vars
<1>3. CASE Demux
  BY <1>3, DemuxKeeps
<1>4. CASE DemuxRefused
  BY <1>4, HeaderStaysKeeps DEF DemuxRefused, vars
<1>5. ASSUME NEW note \in Notes, Insert(note) PROVE HeaderInv'
  BY <1>5, HeaderStaysKeeps DEF Insert
<1>6. ASSUME NEW note \in Notes, InsertRefused(note) PROVE HeaderInv'
  BY <1>6, HeaderStaysKeeps DEF InsertRefused, vars
<1>7. ASSUME NEW l \in 0..(Len(header) - 1), Cut(l) PROVE HeaderInv'
  BY <1>7, CutKeeps
<1>8. CASE UNCHANGED vars
  BY <1>8, HeaderStaysKeeps DEF vars
<1>. QED  BY <1>1, <1>2, <1>3, <1>4, <1>5, <1>6, <1>7, <1>8 DEF Next

THEOREM HeaderHolds == Spec => []HeaderInv
<1>. QED  BY HeaderInit, HeaderStep, PTL DEF Spec

-----------------------------------------------------------------------------
(***************************************************************************)
(* What its readers are told.                                              *)
(***************************************************************************)

\* Through any number of conversions the header keeps the SPS and the PPS it
\* came with (parse_parameter_sets, build_avcc, avcc_to_annexb_extradata).
THEOREM TrackSetsKept == Spec => []SetsKept
<1>1. HeaderInv => SetsKept
  <2>. SUFFICES ASSUME HeaderInv, made # "cut" PROVE SetsNow = SetsThen
    BY DEF SetsKept
  <2>1. CASE framing = AnnexB
    BY <2>1 DEF HeaderInv
  <2>2. CASE framing # AnnexB
    BY <2>2 DEF HeaderInv, IsWhole, SetsNow
  <2>. QED  BY <2>1, <2>2
<1>. QED  BY HeaderHolds, <1>1, PTL

\* A record cut anywhere is refused by avcc_to_annexb_extradata or has all its
\* sets before the cut.
THEOREM TrackCutIsRefused == Spec => []CutIsRefused
<1>1. HeaderInv => CutIsRefused
  <2>. SUFFICES ASSUME HeaderInv, made = "cut", AvccToAnnexbExtradata(header).ok
                PROVE  SetsNow = SetsThen
    BY DEF CutIsRefused
  <2>1. framing # AnnexB
    BY DEF HeaderInv
  <2>. QED  BY <2>1, ReadsTheSets
<1>. QED  BY HeaderHolds, <1>1, PTL

LEMMA WholeDeclares ==
    ASSUME NEW full, IsWhole(full)
    PROVE  /\ full \in Seq(Byte) /\ Len(full) \in Nat /\ Len(full) >= 7 /\ At(full, 0) = 1
           /\ framing = LengthPrefixed(Declared(At(full, 4)))
<1>1. full \in Seq(Byte) /\ Len(full) \in Nat /\ Len(full) >= 7
  BY LenProperties, WhereTheWidthIs DEF IsWhole
<1>2. DeclaredLengthSize(full) = Answer(framing)
  BY DEF IsWhole
<1>3. At(full, 0) = 1
  <2>1. At(full, 0) # 1 => DeclaredLengthSize(full) = NoAnswer
    BY DEF DeclaredLengthSize
  <2>. QED  BY <1>2, <2>1 DEF Answer, NoAnswer
<1>4. DeclaredLengthSize(full) = Answer(LengthPrefixed(Declared(At(full, 4))))
  <2>1. ~(Len(full) <= 4)
    BY <1>1
  <2>. QED  BY <1>3, <2>1, WhereTheWidthIs, Zenon DEF DeclaredLengthSize
<1>5. framing = LengthPrefixed(Declared(At(full, 4)))
  BY <1>2, <1>4 DEF Answer
<1>. QED  BY <1>1, <1>3, <1>5

LEMMA HeaderDeclares == HeaderInv => WidthIsDeclared
<1>. SUFFICES ASSUME HeaderInv, framing # AnnexB
     PROVE  /\ \A kind \in Entries :
                  IF made = "cut" /\ Len(header) <= LengthSizeAt
                  THEN ~FramingOfEntry(kind, header).ok
                  ELSE FramingOfEntry(kind, header) = Answer(framing)
            /\ \A name \in Names :
                  IF made = "cut" /\ Len(header) < LeastRecord
                  THEN FramingOf(name, header) = Answer(AnnexB)
                  ELSE FramingOf(name, header) = Answer(framing)
  BY Zenon DEF WidthIsDeclared
<1>. DEFINE n == Len(header)
            width == Declared(At(header, 4))
<1>1. /\ n \in Nat
      /\ made # "cut" => n >= 7
      /\ n > 0 => At(header, 0) = 1
      /\ n > 4 => framing = LengthPrefixed(width)
  <2>1. CASE made # "cut"
    <3>1. IsWhole(header)
      BY <2>1 DEF HeaderInv
    <3>. QED  BY <3>1, WholeDeclares
  <2>2. CASE made = "cut"
    <3>1. PICK full : IsWhole(full) /\ \E l \in 0..(Len(full) - 1) : header = Slice(full, 0, l)
      BY <2>2 DEF HeaderInv
    <3>2. PICK l \in 0..(Len(full) - 1) : header = Slice(full, 0, l)
      BY <3>1
    <3>3. /\ full \in Seq(Byte) /\ Len(full) \in Nat /\ At(full, 0) = 1
          /\ framing = LengthPrefixed(Declared(At(full, 4)))
      BY <3>1, WholeDeclares
    <3>4. l \in 0..Len(full)
      BY <3>3
    <3>5. Begins(Slice(full, 0, l), full)
      BY <3>3, <3>4, SliceBegins
    <3>6. header \in Seq(Byte) /\ \A i \in 0..(n - 1) : At(header, i) = At(full, i)
      BY <3>2, <3>5 DEF Begins
    <3>7. n \in Nat
      BY <3>6, LenProperties
    <3>8. n > 0 => At(header, 0) = At(full, 0)
      BY <3>6, <3>7
    <3>9. n > 4 => At(header, 4) = At(full, 4)
      BY <3>6, <3>7
    <3>. HIDE DEF n
    <3>. QED  BY <2>2, <3>3, <3>7, <3>8, <3>9
  <2>. QED  BY <2>1, <2>2
<1>. HIDE DEF n
<1>2. DeclaredLengthSize(header) = IF n <= 4 THEN NoAnswer ELSE Answer(framing)
  <2>1. CASE n <= 4
    BY <2>1, WhereTheWidthIs DEF DeclaredLengthSize, n
  <2>2. CASE ~(n <= 4)
    <3>1. At(header, 0) = 1 /\ framing = LengthPrefixed(width)
      BY <1>1, <2>2
    <3>. QED  BY <2>2, <3>1, WhereTheWidthIs, Zenon DEF DeclaredLengthSize, n
  <2>. QED  BY <2>1, <2>2
<1>3. ASSUME NEW kind \in Entries
      PROVE  IF made = "cut" /\ Len(header) <= LengthSizeAt
             THEN ~FramingOfEntry(kind, header).ok
             ELSE FramingOfEntry(kind, header) = Answer(framing)
  <2>1. FramingOfEntry(kind, header) = DeclaredLengthSize(header)
    <3>1. kind # "av01"
      BY TrackAssumption DEF Entries
    <3>. QED  BY <3>1, Zenon DEF FramingOfEntry
  <2>2. ~NoAnswer.ok
    BY DEF NoAnswer
  <2>3. CASE n <= 4
    <3>1. made = "cut"
      BY <1>1, <2>3
    <3>2. ~FramingOfEntry(kind, header).ok
      BY <1>2, <2>1, <2>2, <2>3
    <3>3. Len(header) <= LengthSizeAt
      BY <2>3, WhereTheWidthIs DEF n
    <3>. QED  BY <3>1, <3>2, <3>3
  <2>4. CASE ~(n <= 4)
    BY <1>2, <2>1, <2>4, WhereTheWidthIs DEF n
  <2>. QED  BY <2>3, <2>4
<1>4. ASSUME NEW name \in Names
      PROVE  IF made = "cut" /\ Len(header) < LeastRecord
             THEN FramingOf(name, header) = Answer(AnnexB)
             ELSE FramingOf(name, header) = Answer(framing)
  <2>1. FramingOf(name, header) =
          IF ConfigurationRecord(header)
          THEN Answer(LengthPrefixed(RecordLengthSize(header))) ELSE Answer(AnnexB)
    <3>1. name \notin Av1Names
      BY TrackAssumption DEF Names, Av1Names
    <3>. QED  BY <3>1, Zenon DEF FramingOf
  <2>2. CASE n >= 7
    <3>1. n > 0 /\ n > 4 /\ n > LengthSizeAt /\ n >= LeastRecord /\ ~(n < LeastRecord)
      BY <1>1, <2>2, WhereTheWidthIs
    <3>2. ConfigurationRecord(header)
      BY <1>1, <3>1 DEF ConfigurationRecord, n
    <3>3. RecordLengthSize(header) = width
      BY <3>1, WhereTheWidthIs DEF RecordLengthSize, n
    <3>. QED  BY <1>1, <2>1, <3>1, <3>2, <3>3 DEF n
  <2>3. CASE ~(n >= 7)
    <3>1. made = "cut" /\ n < LeastRecord /\ ~(n >= LeastRecord)
      BY <1>1, <2>3, WhereTheWidthIs
    <3>2. ~ConfigurationRecord(header)
      BY <3>1 DEF ConfigurationRecord, n
    <3>. QED  BY <2>1, <3>1, <3>2 DEF n
  <2>. QED  BY <2>2, <2>3
<1>. QED  BY <1>3, <1>4

\* The width framing_of_entry and framing_of answer with is that of the samples,
\* or they do not take the header for a whole record.
THEOREM TrackWidthIsDeclared == Spec => []WidthIsDeclared
<1>. QED  BY HeaderHolds, HeaderDeclares, PTL

-----------------------------------------------------------------------------
(***************************************************************************)
(* The NAL units of the packet: those of the origin, and the notes before  *)
(* the first slice of them.                                                *)
(***************************************************************************)

Before == SubSeq(origin.nals, 1, FirstSlice(origin.nals) - 1)
Behind == SubSeq(origin.nals, FirstSlice(origin.nals), Len(origin.nals))
SeisPut == [k \in 1..Len(put) |-> WriteUserDataAt(put[k], 1)]
NalsNow == Before \o SeisPut \o Behind

\* Inductive: what the packet reads as, and that Annex B extradata is not taken
\* for a record.
PacketInv ==
    /\ origin \in Tracks /\ put \in Seq(Notes)
    /\ Reads(framing, packet, NalsNow)
    /\ framing = AnnexB => ~ConfigurationRecord(header)

LEMMA NoteIsSei ==
    ASSUME NEW note \in Notes
    PROVE  /\ note \in Seq(Byte)
           /\ WriteUserDataAt(note, 1) \in GoodNals /\ ~IsVcl(WriteUserDataAt(note, 1))
<1>. DEFINE sei == WriteUserDataAt(note, 1)
<1>1. note \in Seq(Byte) /\ Len(sei) < Values(4)
  BY TrackAssumption
<1>2. sei \in CleanNals /\ sei \in Seq(Byte) /\ ~IsVcl(sei)
  BY <1>1, SeiIs
<1>. QED  BY <1>1, <1>2 DEF GoodNals, ShortNals

LEMMA ValuesUpToFour == \A size \in 1..4 : Values(size) <= Values(4)
<1>1. \A n \in Nat : Values(n) \in Nat /\ Values(n + 1) = Radix * Values(n)
  BY ValuesGrow
<1>2. ASSUME NEW x \in Nat PROVE x <= Radix * x
  <2>1. Radix \in Nat /\ Radix >= 2
    BY RadixType
  <2>2. (Radix - 1) * x >= 0
    BY <2>1
  <2>3. Radix * x = (Radix - 1) * x + x
    BY <2>1
  <2>4. Radix * x \in Nat /\ (Radix - 1) * x \in Nat
    BY <2>1, <2>2
  <2>. HIDE DEF Values
  <2>. QED  BY <2>2, <2>3, <2>4
<1>3. Values(1) <= Values(1 + 1) /\ Values(2) <= Values(2 + 1) /\ Values(3) <= Values(3 + 1)
  BY <1>1, <1>2
<1>4. Values(1) \in Nat /\ Values(2) \in Nat /\ Values(3) \in Nat /\ Values(4) \in Nat
  BY <1>1
<1>5. 1 + 1 = 2 /\ 2 + 1 = 3 /\ 3 + 1 = 4
  OBVIOUS
<1>6. Values(1) <= Values(2) /\ Values(2) <= Values(3) /\ Values(3) <= Values(4)
  BY <1>3, <1>5
<1>. QED  BY <1>4, <1>6

LEMMA TrackWidths ==
    ASSUME NEW track \in Tracks
    PROVE  WidthOf(track.framing) \in 1..4
<1>. DEFINE h == track.header
<1>1. /\ h \in Seq(Byte)
      /\ track.framing # AnnexB =>
            Len(h) >= LeastRecord /\ DeclaredLengthSize(h) = Answer(track.framing)
  BY TrackAssumption
<1>. HIDE DEF h
<1>2. CASE track.framing = AnnexB
  BY <1>2 DEF WidthOf
<1>3. CASE track.framing # AnnexB
  <2>1. Len(h) \in Nat /\ 4 \in 0..(Len(h) - 1)
    BY <1>1, <1>3, LenProperties, WhereTheWidthIs
  <2>2. At(h, 4) \in Byte
    BY <1>1, <2>1, ByteAt
  <2>3. DeclaredLengthSize(h) = Answer(LengthPrefixed(Declared(At(h, 4))))
    <3>1. DeclaredLengthSize(h) # NoAnswer
      BY <1>1, <1>3 DEF Answer, NoAnswer
    <3>. QED  BY <3>1, WhereTheWidthIs, Zenon DEF DeclaredLengthSize
  <2>4. track.framing = LengthPrefixed(Declared(At(h, 4)))
    BY <1>1, <1>3, <2>3 DEF Answer
  <2>5. \A x \in Byte : (x % 4) + 1 \in 1..4
    BY DEF Byte
  <2>6. Declared(At(h, 4)) \in 1..4
    BY <2>2, <2>5, Zenon DEF Declared
  <2>. QED  BY <1>3, <2>4, <2>6 DEF WidthOf, LengthPrefixed
<1>. QED  BY <1>2, <1>3

LEMMA OriginParts ==
    ASSUME origin \in Tracks, put \in Seq(Notes)
    PROVE  /\ origin.nals \in Seq(GoodNals)
           /\ Before \in Seq(GoodNals) /\ Behind \in Seq(GoodNals)
           /\ origin.nals = Before \o Behind /\ BeforeSlices(Before, Behind)
           /\ SeisPut \in Seq(GoodNals) /\ Len(SeisPut) = Len(put) /\ Len(put) \in Nat
           /\ \A k \in 1..Len(SeisPut) : ~IsVcl(SeisPut[k])
<1>1. origin.nals \in Seq(GoodNals)
  <2>. DEFINE nals == origin.nals
  <2>1. nals \in Seq(Seq(Byte))
        /\ \A k \in 1..Len(nals) : CleanNal(nals[k]) /\ Len(nals[k]) < Values(4)
    <3>. DEFINE width == WidthOf(origin.framing)
    <3>1. nals \in Seq(Seq(Byte))
          /\ \A k \in 1..Len(nals) : CleanNal(nals[k]) /\ Len(nals[k]) < Values(width)
      BY TrackAssumption
    <3>2. width \in 1..4 /\ Values(width) <= Values(4) /\ Values(width) \in Nat /\ Values(4) \in Nat
      <4>1. width \in 1..4
        BY TrackWidths
      <4>. HIDE DEF width
      <4>2. Values(width) <= Values(4)
        BY <4>1, ValuesUpToFour, Zenon
      <4>3. \A n \in Nat : Values(n) \in Nat
        BY ValuesGrow, Zenon
      <4>4. width \in Nat /\ 4 \in Nat
        BY <4>1
      <4>. QED  BY <4>1, <4>2, <4>3, <4>4, Zenon
    <3>3. \A k \in 1..Len(nals) : Len(nals[k]) \in Nat
      BY <3>1
    <3>. HIDE DEF width, nals
    <3>. QED  BY <3>1, <3>2, <3>3
  <2>. HIDE DEF nals
  <2>2. ASSUME NEW k \in 1..Len(nals) PROVE nals[k] \in GoodNals
    <3>1. nals[k] \in Seq(Byte)
      BY <2>1
    <3>. QED  BY <2>1, <3>1 DEF GoodNals, CleanNals, ShortNals
  <2>3. nals \in Seq(GoodNals)
    BY <2>1, <2>2
  <2>. QED  BY <2>3 DEF nals
<1>2. /\ Before \in Seq(GoodNals) /\ Behind \in Seq(GoodNals)
      /\ origin.nals = Before \o Behind /\ BeforeSlices(Before, Behind)
  BY <1>1, PartedAtSlice DEF Before, Behind
<1>3. Len(put) \in Nat /\ \A k \in 1..Len(put) : put[k] \in Notes
  OBVIOUS
<1>4. \A k \in 1..Len(put) : WriteUserDataAt(put[k], 1) \in GoodNals
                             /\ ~IsVcl(WriteUserDataAt(put[k], 1))
  BY <1>3, NoteIsSei
<1>5. SeisPut \in Seq(GoodNals) /\ Len(SeisPut) = Len(put)
  BY <1>3, <1>4, IsASeq DEF SeisPut
<1>6. \A k \in 1..Len(SeisPut) : ~IsVcl(SeisPut[k])
  BY <1>4, <1>5 DEF SeisPut
<1>. QED  BY <1>1, <1>2, <1>3, <1>5, <1>6

LEMMA NalsNowType ==
    ASSUME origin \in Tracks, put \in Seq(Notes)
    PROVE  NalsNow \in Seq(GoodNals)
BY OriginParts, JoinOfThree DEF NalsNow

\* A packet of these NAL units, as it is written, reads as them.
LEMMA SpelledReads ==
    ASSUME NEW nals \in Seq(CleanNals), NEW how,
           how = AnnexB \/ \E size \in 1..4 : how = LengthPrefixed(size),
           \A k \in 1..Len(nals) : Len(nals[k]) < Values(WidthOf(how))
    PROVE  Reads(how, Spelled(how, nals), nals)
<1>1. nals \in Seq(Seq(Byte))
  BY DEF CleanNals
<1>2. CASE how = AnnexB
  <2>1. /\ StartCoded(nals) \in Seq(Byte) /\ SplitNals(StartCoded(nals)) = nals
    BY SplitStartCoded
  <2>2. AnnexB.how = "AnnexB"
    BY DEF AnnexB
  <2>. QED  BY <1>1, <1>2, <2>1, <2>2, Zenon DEF Reads, Spelled
<1>3. ASSUME NEW size \in 1..4, how = LengthPrefixed(size)
      PROVE  Reads(how, Spelled(how, nals), nals)
  <2>1. how # AnnexB /\ how.how = "LengthPrefixed" /\ how.length_size = size
    BY <1>3 DEF LengthPrefixed, AnnexB
  <2>2. \A k \in 1..Len(nals) : Len(nals[k]) < Values(size)
    BY <2>1 DEF WidthOf
  <2>3. SplitLengthPrefixed(Prefixed(nals, size), size) = Found(nals)
    BY <1>1, <2>2, SplitPrefixed
  <2>4. Prefixed(nals, size) \in Seq(Byte)
    BY <1>1, PrefixedConcat
  <2>. QED  BY <1>1, <2>1, <2>3, <2>4, Zenon DEF Reads, Spelled
<1>. QED  BY <1>2, <1>3

\* How the packets of a track are framed.
LEMMA FramingsAre ==
    ASSUME HeaderInv
    PROVE  framing = AnnexB \/ \E size \in 1..4 : framing = LengthPrefixed(size)
<1>1. SUFFICES ASSUME framing # AnnexB
               PROVE  \E size \in 1..4 : framing = LengthPrefixed(size)
  OBVIOUS
<1>2. PICK full : IsWhole(full)
  BY <1>1 DEF HeaderInv
<1>3. /\ full \in Seq(Byte) /\ Len(full) \in Nat /\ Len(full) >= 7
      /\ framing = LengthPrefixed(Declared(At(full, 4)))
  BY <1>2, WholeDeclares
<1>4. Declared(At(full, 4)) \in 1..4
  <2>1. 4 \in 0..(Len(full) - 1)
    BY <1>3
  <2>2. At(full, 4) \in Byte
    BY <1>3, <2>1, ByteAt
  <2>3. \A x \in Byte : (x % 4) + 1 \in 1..4
    BY DEF Byte
  <2>. QED  BY <2>2, <2>3, Zenon DEF Declared
<1>. QED  BY <1>3, <1>4

\* What is asked of a header that is not refused is the framing of the packet.
LEMMA AskedIs ==
    ASSUME HeaderInv, PacketInv
    PROVE  /\ Asked.ok => Asked.framing = framing
           /\ made # "cut" => Asked.ok
           /\ framing # AnnexB => Asked = FramingOfEntry("avc1", header)
<1>1. Codec = "H264" /\ "h264" \in Names /\ "avc1" \in Entries /\ "h264" \notin Av1Names
  BY TrackAssumption DEF Names, Entries, Av1Names
<1>2. \A how : Answer(how).ok /\ Answer(how).framing = how
  BY DEF Answer
<1>3. CASE framing = AnnexB
  <2>1. Asked = FramingOf("h264", header) /\ ~ConfigurationRecord(header)
    BY <1>3 DEF Asked, PacketInv
  <2>2. Asked = Answer(AnnexB)
    BY <1>1, <2>1, Zenon DEF FramingOf
  <2>. QED  BY <1>2, <1>3, <2>2, Zenon
<1>4. CASE framing # AnnexB
  <2>1. Asked = FramingOfEntry("avc1", header)
    BY <1>4 DEF Asked
  <2>2. IF made = "cut" /\ Len(header) <= LengthSizeAt THEN ~Asked.ok ELSE Asked = Answer(framing)
    BY <1>1, <1>4, <2>1, HeaderDeclares, Zenon DEF WidthIsDeclared
  <2>. QED  BY <1>2, <2>1, <2>2, Zenon
<1>. QED  BY <1>3, <1>4

LEMMA PacketInit ==
    ASSUME Init, HeaderInv PROVE PacketInv
<1>1. /\ origin \in Tracks /\ header = origin.header /\ framing = origin.framing
      /\ packet = Spelled(framing, origin.nals) /\ put = << >>
  BY DEF Init
<1>2. put \in Seq(Notes)
  BY <1>1
<1>3. NalsNow = origin.nals
  <2>1. /\ Before \in Seq(GoodNals) /\ Behind \in Seq(GoodNals) /\ SeisPut \in Seq(GoodNals)
        /\ origin.nals = Before \o Behind /\ Len(SeisPut) = Len(put)
    BY <1>1, <1>2, OriginParts
  <2>2. SeisPut = << >>
    BY <1>1, <2>1, EmptySeq
  <2>3. Before \o << >> = Before
    BY <2>1, ConcatEmptySeq
  <2>. QED  BY <2>1, <2>2, <2>3, Zenon DEF NalsNow
<1>4. /\ origin.nals \in Seq(CleanNals)
      /\ \A k \in 1..Len(origin.nals) : Len(origin.nals[k]) < Values(WidthOf(framing))
  <2>1. origin.nals \in Seq(GoodNals)
    BY <1>1, <1>2, OriginParts
  <2>. QED  BY <1>1, <2>1, GoodNalsAre, TrackAssumption
<1>5. Reads(framing, packet, NalsNow)
  BY <1>1, <1>3, <1>4, FramingsAre, SpelledReads
<1>6. framing = AnnexB => ~ConfigurationRecord(header)
  BY <1>1, TrackAssumption
<1>. QED  BY <1>1, <1>2, <1>5, <1>6 DEF PacketInv

LEMMA NalsStay ==
    ASSUME UNCHANGED <<put, origin>> PROVE NalsNow' = NalsNow
BY DEF NalsNow, SeisPut, Before, Behind

LEMMA MuxPacket ==
    ASSUME PacketInv, Mux PROVE PacketInv'
<1>1. /\ framing = AnnexB /\ framing' = LengthPrefixed(4)
      /\ Reframed(LengthPrefixed(4), packet).ok
      /\ packet' = Reframed(LengthPrefixed(4), packet).bytes
      /\ put' = put /\ origin' = origin
  <2>1. /\ framing = AnnexB /\ framing' = LengthPrefixed(4) /\ Muxed.ok /\ packet' = Muxed.packet
        /\ put' = put /\ origin' = origin
    BY DEF Mux
  <2>2. /\ Muxed.ok => Reframed(LengthPrefixed(4), packet).ok
        /\ Muxed.packet = Reframed(LengthPrefixed(4), packet).bytes
    BY DEF Muxed
  <2>. QED  BY <2>1, <2>2, Zenon
<1>2. NalsNow' = NalsNow
  BY <1>1, NalsStay
<1>3. NalsNow \in Seq(ShortNals)
  BY NalsNowType, GoodNalsAre DEF PacketInv
<1>4. Reads(LengthPrefixed(4), packet', NalsNow)
  BY <1>1, <1>3, ReframeReads DEF PacketInv
<1>5. framing' # AnnexB
  BY <1>1 DEF AnnexB, LengthPrefixed
<1>. QED  BY <1>1, <1>2, <1>4, <1>5, Zenon DEF PacketInv

\* What avcc_to_annexb_extradata answers opens with a start code.
LEMMA StartCodedIsNoRecord ==
    ASSUME NEW nals \in Seq(Seq(Byte))
    PROVE  ~ConfigurationRecord(StartCoded(nals))
<1>1. CASE nals = << >>
  <2>1. StartCoded(nals) = << >>
    <3>1. << >> \in Seq(Byte)
      OBVIOUS
    <3>. QED  BY <1>1, <3>1, StartCodedOne
  <2>2. ~(Len(<< >>) >= LeastRecord)
    BY WhereTheWidthIs
  <2>. QED  BY <2>1, <2>2, Zenon DEF ConfigurationRecord
<1>2. CASE nals # << >>
  <2>1. Len(nals) \in Nat /\ Len(nals) > 0
    BY <1>2, EmptySeq, LenProperties
  <2>. DEFINE rest == SubSeq(nals, 2, Len(nals))
              nal == nals[1]
  <2>2. nal \in Seq(Byte) /\ rest \in Seq(Seq(Byte)) /\ nals = <<nal>> \o rest
    <3>1. 0 \in 0..(Len(nals) - 1) /\ 0 + 1 = 1 /\ 0 + 2 = 2
      BY <2>1
    <3>2. SubSeq(nals, 1, Len(nals)) = nals
      BY AllOfList
    <3>. QED  BY <3>1, <3>2, OneAhead
  <2>. HIDE DEF nal, rest
  <2>3. StartCoded(nals) = CodedNal(nal) \o StartCoded(rest)
    <3>. DEFINE one == <<nal>>
    <3>1. one \in Seq(Seq(Byte)) /\ StartCoded(one) = CodedNal(nal)
      BY <2>2, StartCodedOne
    <3>2. nals = one \o rest
      BY <2>2
    <3>. HIDE DEF one
    <3>3. StartCoded(one \o rest) = StartCoded(one) \o StartCoded(rest)
      BY <2>2, <3>1, StartCodedConcat
    <3>. QED  BY <3>1, <3>2, <3>3, Zenon
  <2>4. /\ CodedNal(nal) \in Seq(Byte) /\ Len(CodedNal(nal)) = Len(nal) + 4
        /\ Len(nal) \in Nat /\ At(CodedNal(nal), 0) = 0 /\ StartCoded(rest) \in Seq(Byte)
    BY <2>2, CodedNalBytes, StartCodedConcat
  <2>5. At(CodedNal(nal) \o StartCoded(rest), 0) = 0
    <3>. DEFINE x == CodedNal(nal)
                y == StartCoded(rest)
    <3>. HIDE DEF x, y
    <3>1. IsJoin(x \o y, x, y)
      BY <2>4, JoinIs DEF x, y
    <3>2. 0 \in 0..(Len(x) - 1)
      BY <2>4 DEF x
    <3>3. At(x \o y, 0) = At(x, 0)
      BY <3>1, <3>2 DEF IsJoin
    <3>. QED  BY <2>4, <3>3, Zenon DEF x, y
  <2>6. At(StartCoded(nals), 0) # 1
    BY <2>3, <2>5
  <2>. QED  BY <2>6, Zenon DEF ConfigurationRecord
<1>. QED  BY <1>1, <1>2

LEMMA DemuxPacket ==
    ASSUME HeaderInv, PacketInv, Demux PROVE PacketInv'
<1>1. /\ framing # AnnexB /\ framing' = AnnexB
      /\ FramingOfEntry("avc1", header).ok /\ AvccToAnnexbExtradata(header).ok
      /\ header' = AvccToAnnexbExtradata(header).bytes
      /\ packet' = LengthPrefixedToAnnexb(packet,
                       FramingOfEntry("avc1", header).framing.length_size).bytes
      /\ put' = put /\ origin' = origin
  <2>1. /\ framing # AnnexB /\ framing' = AnnexB /\ Demuxed.ok
        /\ header' = Demuxed.header /\ packet' = Demuxed.packet
        /\ put' = put /\ origin' = origin
    BY DEF Demux
  <2>2. /\ Demuxed.ok => FramingOfEntry("avc1", header).ok /\ AvccToAnnexbExtradata(header).ok
        /\ Demuxed.header = AvccToAnnexbExtradata(header).bytes
        /\ Demuxed.packet = LengthPrefixedToAnnexb(packet,
                       FramingOfEntry("avc1", header).framing.length_size).bytes
    BY DEF Demuxed
  <2>. QED  BY <2>1, <2>2, Zenon
<1>2. NalsNow' = NalsNow
  BY <1>1, NalsStay
<1>3. NalsNow \in Seq(CleanNals)
  BY NalsNowType, GoodNalsAre DEF PacketInv
<1>4. FramingOfEntry("avc1", header).framing = framing
  BY <1>1, AskedIs
<1>5. PICK size \in 1..4 : framing = LengthPrefixed(size)
  BY <1>1, FramingsAre
<1>6. framing.length_size = size
  BY <1>5 DEF LengthPrefixed
<1>7. Reads(LengthPrefixed(size), packet, NalsNow)
  BY <1>5 DEF PacketInv
<1>8. packet' = StartCoded(NalsNow) /\ Reads(AnnexB, StartCoded(NalsNow), NalsNow)
  <2>1. LengthPrefixedToAnnexb(packet, size) = Ok(StartCoded(NalsNow))
        /\ Reads(AnnexB, StartCoded(NalsNow), NalsNow)
    BY <1>3, <1>7, BackReads
  <2>2. \A b : Ok(b).bytes = b
    BY DEF Ok
  <2>. QED  BY <1>1, <1>4, <1>6, <2>1, <2>2, Zenon
<1>9. ~ConfigurationRecord(header')
  <2>1. header \in Seq(Byte)
    BY DEF HeaderInv
  <2>2. Begins(header, header)
    BY <2>1, LenProperties DEF Begins
  <2>3. \E nals \in Seq(Seq(Byte)) : AvccToAnnexbExtradata(header).bytes = StartCoded(nals)
    BY <1>1, <2>2, RecordCut
  <2>. QED  BY <1>1, <2>3, StartCodedIsNoRecord
<1>. QED  BY <1>1, <1>2, <1>8, <1>9, Zenon DEF PacketInv

LEMMA InsertPacket ==
    ASSUME HeaderInv, PacketInv, NEW note \in Notes, Insert(note) PROVE PacketInv'
<1>. DEFINE sei == WriteUserDataAt(note, 1)
<1>1. /\ Inserted(note).ok /\ packet' = Inserted(note).bytes /\ put' = Append(put, note)
      /\ header' = header /\ framing' = framing /\ origin' = origin
  BY DEF Insert
<1>2. Asked.ok /\ Inserted(note) = InsertInto(framing, packet, note)
  <2>1. Asked.ok
    BY <1>1 DEF Inserted, Err
  <2>. QED  BY <2>1, AskedIs DEF Inserted
<1>3. NalsTemporalId(NalsNow) = 1
  BY TrackAssumption DEF NalsTemporalId, TemporalIdPlus1
<1>4. note \in Seq(Byte) /\ sei \in GoodNals /\ sei \in ShortNals
  BY NoteIsSei DEF GoodNals
<1>5. NalsNow \in Seq(CleanNals \cap ShortNals)
  BY NalsNowType, GoodNalsAre DEF PacketInv
<1>6. Reads(framing, packet', InsertAt(NalsNow, FirstSlice(NalsNow), sei))
  BY <1>1, <1>2, <1>3, <1>4, <1>5, InsertReads DEF PacketInv
<1>7. /\ Before \in Seq(GoodNals) /\ Behind \in Seq(GoodNals) /\ SeisPut \in Seq(GoodNals)
      /\ BeforeSlices(Before, Behind) /\ \A k \in 1..Len(SeisPut) : ~IsVcl(SeisPut[k])
      /\ Len(SeisPut) = Len(put) /\ Len(put) \in Nat
  BY OriginParts DEF PacketInv
<1>8. InsertAt(NalsNow, FirstSlice(NalsNow), sei) = Before \o Append(SeisPut, sei) \o Behind
  <2>. HIDE DEF sei
  <2>. QED  BY <1>4, <1>7, OneMoreNote DEF NalsNow
<1>9. SeisPut' = Append(SeisPut, sei)
  <2>1. put' \in Seq(Notes) /\ put \in Seq(Notes) /\ Len(put') = Len(put) + 1
    BY <1>1 DEF PacketInv
  <2>2. ASSUME NEW k \in 1..Len(put')
        PROVE  WriteUserDataAt(put'[k], 1) = Append(SeisPut, sei)[k]
    <3>1. CASE k = Len(put) + 1
      BY <1>1, <1>7, <2>1, <3>1
    <3>2. CASE k # Len(put) + 1
      <4>1. k \in 1..Len(put)
        BY <1>7, <2>1, <3>2
      <4>2. put'[k] = put[k]
        BY <1>1, <2>1, <4>1
      <4>3. Append(SeisPut, sei)[k] = SeisPut[k]
        BY <1>4, <1>7, <4>1
      <4>4. SeisPut[k] = WriteUserDataAt(put[k], 1)
        BY <4>1 DEF SeisPut
      <4>. QED  BY <4>2, <4>3, <4>4, Zenon
    <3>. QED  BY <3>1, <3>2
  <2>3. Append(SeisPut, sei) \in Seq(GoodNals) /\ Len(Append(SeisPut, sei)) = Len(put')
    BY <1>4, <1>7, <2>1
  <2>4. SeisPut' = [k \in 1..Len(put') |-> WriteUserDataAt(put'[k], 1)]
    BY DEF SeisPut
  <2>5. Append(SeisPut, sei) = [k \in 1..Len(put') |-> Append(SeisPut, sei)[k]]
    <3>. DEFINE s == Append(SeisPut, sei)
    <3>. HIDE DEF s
    <3>1. s \in Seq(GoodNals) /\ Len(s) = Len(put')
      BY <2>3 DEF s
    <3>2. s = [k \in 1..Len(put') |-> s[k]]
      BY <3>1
    <3>. QED  BY <3>2 DEF s
  <2>. QED  BY <2>2, <2>4, <2>5
<1>10. NalsNow' = InsertAt(NalsNow, FirstSlice(NalsNow), sei)
  <2>1. Before' = Before /\ Behind' = Behind
    BY <1>1 DEF Before, Behind
  <2>2. NalsNow' = Before' \o SeisPut' \o Behind'
    BY DEF NalsNow
  <2>. QED  BY <1>8, <1>9, <2>1, <2>2, Zenon
<1>11. put' \in Seq(Notes)
  BY <1>1 DEF PacketInv
<1>. QED  BY <1>1, <1>6, <1>10, <1>11, Zenon DEF PacketInv

LEMMA PacketStep == HeaderInv /\ PacketInv /\ [Next]_vars => PacketInv'
<1>. SUFFICES ASSUME HeaderInv, PacketInv, [Next]_vars PROVE PacketInv'
  OBVIOUS
<1>1. ASSUME UNCHANGED vars PROVE PacketInv'
  <2>1. put' = put /\ origin' = origin /\ framing' = framing /\ packet' = packet /\ header' = header
    BY <1>1 DEF vars
  <2>2. NalsNow' = NalsNow
    BY <2>1, NalsStay
  <2>. QED  BY <2>1, <2>2, Zenon DEF PacketInv
<1>2. ASSUME NEW length \in 0..(Len(header) - 1), Cut(length) PROVE PacketInv'
  <2>1. /\ put' = put /\ origin' = origin /\ framing' = framing /\ packet' = packet
        /\ framing # AnnexB
    BY <1>2 DEF Cut
  <2>2. NalsNow' = NalsNow
    BY <2>1, NalsStay
  <2>. QED  BY <2>1, <2>2, Zenon DEF PacketInv
<1>3. MuxRefused \/ DemuxRefused \/ (\E note \in Notes : InsertRefused(note)) => UNCHANGED vars
  BY Zenon DEF MuxRefused, DemuxRefused, InsertRefused
<1>. QED  BY <1>1, <1>2, <1>3, MuxPacket, DemuxPacket, InsertPacket, Zenon DEF Next

THEOREM TrackPacketHolds == Spec => []PacketInv
<1>1. Init => PacketInv
  BY HeaderInit, PacketInit
<1>. QED  BY <1>1, HeaderHolds, PacketStep, PTL DEF Spec

\* Who knows the header and a packet reads the NAL units the encoder wrote and
\* the payloads put in right before the first slice, whichever way they went
\* (Framing::insert, reframe, length_prefixed_to_annexb, framing_of and
\* framing_of_entry).
THEOREM TrackReadsUnderHeader == Spec => []ReadsUnderHeader
<1>1. HeaderInv /\ PacketInv => ReadsUnderHeader
  <2>. SUFFICES ASSUME HeaderInv, PacketInv PROVE ReadsUnderHeader
    OBVIOUS
  <2>1. /\ made # "cut" => Asked.ok
        /\ Asked.ok => Asked.framing = framing
    BY AskedIs
  <2>2. NalsOf(framing, packet) = NalsNow
    <3>1. CASE framing = AnnexB
      BY <3>1 DEF NalsOf, PacketInv, Reads, AnnexB
    <3>2. ASSUME NEW size \in 1..4, framing = LengthPrefixed(size) PROVE NalsOf(framing, packet) = NalsNow
      <4>1. framing # AnnexB /\ framing.how = "LengthPrefixed"
        BY <3>2 DEF LengthPrefixed, AnnexB
      <4>2. SplitLengthPrefixed(packet, framing.length_size) = Found(NalsNow)
        BY <4>1 DEF PacketInv, Reads
      <4>. QED  BY <4>1, <4>2 DEF NalsOf, Found
    <3>. QED  BY <3>1, <3>2, FramingsAre
  <2>. QED  BY <2>1, <2>2, Zenon DEF ReadsUnderHeader, NalsNow, Before, Behind, SeisPut
<1>. QED  BY <1>1, HeaderHolds, TrackPacketHolds, PTL
=============================================================================
