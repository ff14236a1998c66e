----------------------------- MODULE UnitLemmas -----------------------------
(***************************************************************************)
(* The units of a byte stream. What a reader of a window of it, its bytes  *)
(* from lo to hi, finds of the NAL units, access units and OBUs of the     *)
(* whole, and what the parsers of SEI messages and OBUs return. A feed     *)
(* looks at such a window every time it looks for boundaries, a file       *)
(* reader at the whole.                                                    *)
(***************************************************************************)
EXTENDS Sei, Obu, BytesLemmas

\* The start codes of a window are those of the stream that lie in it whole.
LEMMA SliceCodes ==
    ASSUME NEW b \in Seq(Byte), NEW hi \in 0..Len(b), NEW lo \in 0..hi, NEW c \in Int
    PROVE  c - lo \in StartCodes(Slice(b, lo, hi))
               <=> c \in StartCodes(b) /\ lo <= c /\ c + 3 <= hi
<1>. DEFINE h == Slice(b, lo, hi)
<1>1. Len(b) \in Nat /\ Len(h) = hi - lo
      /\ \A i \in 0..(hi - lo - 1) : At(h, i) = At(b, lo + i)
  BY LenProperties, SliceProperties
<1>. HIDE DEF h
<1>2. ASSUME lo <= c, c + 3 <= hi
      PROVE  At(h, c - lo) = At(b, c) /\ At(h, c - lo + 1) = At(b, c + 1)
             /\ At(h, c - lo + 2) = At(b, c + 2)
  <2>1. c - lo \in 0..(hi - lo - 1) /\ c - lo + 1 \in 0..(hi - lo - 1)
        /\ c - lo + 2 \in 0..(hi - lo - 1)
    BY <1>2
  <2>2. lo + (c - lo) = c /\ lo + (c - lo + 1) = c + 1 /\ lo + (c - lo + 2) = c + 2
    OBVIOUS
  <2>. QED  BY <1>1, <2>1, <2>2
<1>3. c - lo \in 0..(Len(h) - 3) <=> lo <= c /\ c + 3 <= hi
  BY <1>1
<1>4. lo <= c /\ c + 3 <= hi => c \in 0..(Len(b) - 3)
  BY <1>1
<1>. QED  BY <1>2, <1>3, <1>4 DEF StartCodes, h

\* Two start codes do not overlap.
LEMMA CodesApart ==
    ASSUME NEW b \in Seq(Byte), NEW c \in StartCodes(b), NEW d \in StartCodes(b), c < d
    PROVE  c + 3 <= d
<1>1. c \in Int /\ d \in Int
  BY DEF StartCodes
<1>2. At(b, c + 2) = 1 /\ At(b, d) = 0 /\ At(b, d + 1) = 0
  BY DEF StartCodes
<1>3. d # c + 2
  BY <1>2
<1>4. d # c + 1
  <2>. SUFFICES ASSUME d = c + 1 PROVE FALSE
    OBVIOUS
  <2>1. d + 1 = c + 2
    BY <1>1
  <2>. QED  BY <1>2, <2>1
<1>. QED  BY <1>1, <1>3, <1>4

LEMMA CodeRange ==
    ASSUME NEW b \in Seq(Byte), NEW c \in StartCodes(b)
    PROVE  /\ c \in Nat /\ c + 3 \in Nat /\ c + 3 <= Len(b) /\ Len(b) \in Nat
           /\ At(b, c) = 0 /\ At(b, c + 1) = 0 /\ At(b, c + 2) = 1
<1>1. Len(b) \in Nat
  BY LenProperties
<1>. QED  BY <1>1 DEF StartCodes

-----------------------------------------------------------------------------
\* Of what stands in b before hi, a byte that is not zero stands at p or later
\* and no start code between the code at c and that byte: p is inside the NAL,
\* as far as hi tells.
Reaches(b, c, p, hi) ==
    \E q \in p..(hi - 1) : /\ At(b, q) # 0
                           /\ \A e \in StartCodes(b) : ~(c < e /\ e <= q)

\* NalRef.end: the NAL ends behind its last byte that is not zero.
LEMMA NalEndReaches ==
    ASSUME NEW b \in Seq(Byte), NEW c \in StartCodes(b)
    PROVE  /\ NalEnd(b, c) \in (c + 3)..Len(b)
           /\ \A p \in Nat : c + 3 <= p => (p < NalEnd(b, c) <=> Reaches(b, c, p, Len(b)))
<1>. DEFINE X == {d \in StartCodes(b) : d > c} \cup {Len(b)}
            next == Min(X)
            end == NalEnd(b, c)
<1>1. c \in Nat /\ c + 3 \in Nat /\ c + 3 <= Len(b) /\ Len(b) \in Nat
  BY CodeRange
<1>2. X \in SUBSET Nat /\ X # {}
  BY <1>1 DEF StartCodes
<1>3. next \in X /\ \A d \in X : next <= d
  <2>. HIDE DEF X
  <2>. QED  BY <1>2, MinExists
<1>4. next \in Nat /\ c + 3 <= next /\ next <= Len(b)
  <2>1. \A d \in X : c + 3 <= d
    BY <1>1, CodesApart
  <2>2. Len(b) \in X
    OBVIOUS
  <2>. HIDE DEF X, next
  <2>. QED  BY <1>2, <1>3, <2>1, <2>2
<1>5. end = ZeroRun(b, c + 3, next)
  BY DEF NalEnd, NalStart
<1>6. /\ end \in (c + 3)..next
      /\ \A i \in end..(next - 1) : At(b, i) = 0
  <2>. HIDE DEF next, end
  <2>. QED  BY <1>1, <1>4, <1>5, ZeroRunRange
<1>7. c + 3 < end => At(b, end - 1) # 0
  <2>. HIDE DEF next, end
  <2>. QED  BY <1>1, <1>4, <1>5, ZeroRunStops
<1>8. \A e \in StartCodes(b) : c < e => next <= e
  BY <1>3
<1>9. next = Len(b) \/ (next \in StartCodes(b) /\ c < next)
  BY <1>3
<1>. HIDE DEF X, next, end
<1>10. ASSUME NEW p \in Nat, c + 3 <= p, p < end
       PROVE  Reaches(b, c, p, Len(b))
  <2>. DEFINE q == end - 1
  <2>1. q \in p..(Len(b) - 1) /\ At(b, q) # 0 /\ q < next /\ q \in Int
    BY <1>1, <1>4, <1>6, <1>7, <1>10
  <2>2. ASSUME NEW e \in StartCodes(b) PROVE ~(c < e /\ e <= q)
    <3>1. e \in Nat
      BY CodeRange
    <3>. HIDE DEF q
    <3>. QED  BY <1>4, <1>8, <2>1, <3>1
  <2>. QED  BY <2>1, <2>2 DEF Reaches
<1>11. ASSUME NEW p \in Nat, c + 3 <= p, Reaches(b, c, p, Len(b))
       PROVE  p < end
  <2>1. PICK q \in p..(Len(b) - 1) : /\ At(b, q) # 0
                                     /\ \A e \in StartCodes(b) : ~(c < e /\ e <= q)
    BY <1>11 DEF Reaches
  <2>2. q < next
    BY <1>1, <1>4, <1>9, <2>1
  <2>3. ~(end <= q)
    BY <1>1, <1>4, <1>6, <2>1, <2>2
  <2>. QED  BY <1>1, <1>4, <1>6, <2>1, <2>3
<1>12. end \in (c + 3)..Len(b)
  BY <1>1, <1>4, <1>6
<1>. QED  BY <1>10, <1>11, <1>12 DEF end

\* A window sees a NAL as far as its own end: a start code that is cut there has
\* only zeroes to show.
LEMMA ReachesInSlice ==
    ASSUME NEW b \in Seq(Byte), NEW hi \in 0..Len(b), NEW lo \in 0..hi,
           NEW c \in StartCodes(b), lo <= c, c + 3 <= hi, NEW p \in Nat, c + 3 <= p
    PROVE  Reaches(Slice(b, lo, hi), c - lo, p - lo, Len(Slice(b, lo, hi)))
               <=> Reaches(b, c, p, hi)
<1>. DEFINE h == Slice(b, lo, hi)
<1>1. Len(b) \in Nat /\ Len(h) = hi - lo /\ h \in Seq(Byte)
      /\ \A i \in 0..(hi - lo - 1) : At(h, i) = At(b, lo + i)
  BY LenProperties, SliceProperties
<1>2. \A e \in Int : e - lo \in StartCodes(h) <=> e \in StartCodes(b) /\ lo <= e /\ e + 3 <= hi
  BY SliceCodes
<1>3. c \in Nat
  BY CodeRange
<1>. HIDE DEF h
<1>4. ASSUME NEW q \in p..(hi - 1), At(b, q) # 0,
             \A e \in StartCodes(b) : ~(c < e /\ e <= q)
      PROVE  Reaches(h, c - lo, p - lo, Len(h))
  <2>. DEFINE r == q - lo
  <2>1. r \in (p - lo)..(Len(h) - 1) /\ At(h, r) # 0
    <3>1. r \in 0..(hi - lo - 1) /\ lo + r = q /\ r \in (p - lo)..(Len(h) - 1)
      BY <1>1, <1>3, <1>4
    <3>. QED  BY <1>1, <1>4, <3>1
  <2>2. ASSUME NEW e \in StartCodes(h) PROVE ~(c - lo < e /\ e <= r)
    <3>1. e \in Nat
      BY <1>1, CodeRange
    <3>2. e + lo \in StartCodes(b)
      <4>1. (e + lo) - lo = e /\ e + lo \in Int
        BY <3>1
      <4>. QED  BY <1>2, <4>1, <2>2
    <3>3. ~(c < e + lo /\ e + lo <= q)
      BY <1>4, <3>2
    <3>. QED  BY <1>3, <3>1, <3>3
  <2>. HIDE DEF r
  <2>. QED  BY <2>1, <2>2 DEF Reaches
<1>5. ASSUME NEW r \in (p - lo)..(Len(h) - 1), At(h, r) # 0,
             \A e \in StartCodes(h) : ~(c - lo < e /\ e <= r)
      PROVE  Reaches(b, c, p, hi)
  <2>. DEFINE q == r + lo
  <2>1. q \in p..(hi - 1) /\ q \in Nat /\ At(b, q) # 0
    <3>1. r \in 0..(hi - lo - 1) /\ lo + r = q /\ q \in p..(hi - 1)
      BY <1>1, <1>3
    <3>. QED  BY <1>1, <1>5, <3>1
  <2>2. ASSUME NEW e \in StartCodes(b), c < e, e <= q PROVE FALSE
    <3>1. e \in Nat /\ At(b, e) = 0 /\ At(b, e + 1) = 0 /\ At(b, e + 2) = 1
      BY CodeRange
    <3>2. q # e /\ q # e + 1
      BY <2>1, <3>1
    <3>3. e + 3 <= hi /\ lo <= e /\ e - lo <= r /\ c - lo < e - lo
      BY <1>3, <2>1, <2>2, <3>1, <3>2
    <3>4. e - lo \in StartCodes(h)
      BY <1>2, <3>1, <3>3
    <3>. QED  BY <1>5, <3>3, <3>4
  <2>. HIDE DEF q
  <2>. QED  BY <2>1, <2>2 DEF Reaches
<1>. QED  BY <1>4, <1>5 DEF Reaches, h

\* The NAL at c as a window shows it: its first bytes, as many as the window
\* reaches, and all of them if it reaches as far as the whole stream does.
LEMMA NalInSlice ==
    ASSUME NEW b \in Seq(Byte), NEW hi \in 0..Len(b), NEW lo \in 0..hi,
           NEW c \in StartCodes(b), lo <= c, c + 3 <= hi
    PROVE  LET nal  == NalBytes(b, c)
               seen == NalBytes(Slice(b, lo, hi), c - lo)
           IN  /\ nal \in Seq(Byte) /\ seen \in Seq(Byte)
               /\ Len(seen) \in Nat /\ Len(nal) \in Nat /\ Len(seen) <= Len(nal)
               /\ \A i \in 1..Len(seen) : seen[i] = nal[i]
               /\ \A i \in Nat : i < Len(seen) <=> Reaches(b, c, c + 3 + i, hi)
               /\ \A i \in Nat : i < Len(nal) <=> Reaches(b, c, c + 3 + i, Len(b))
               /\ (\A i \in Nat : Reaches(b, c, c + 3 + i, Len(b)) => Reaches(b, c, c + 3 + i, hi))
                      => seen = nal
<1>. DEFINE h == Slice(b, lo, hi)
            nal  == NalBytes(b, c)
            seen == NalBytes(h, c - lo)
            n == NalEnd(b, c) - (c + 3)
            m == NalEnd(h, c - lo) - (c - lo + 3)
<1>1. Len(b) \in Nat /\ Len(h) = hi - lo /\ h \in Seq(Byte) /\ Len(h) \in Nat
      /\ \A i \in 0..(hi - lo - 1) : At(h, i) = At(b, lo + i)
  BY LenProperties, SliceProperties
<1>2. c \in Nat /\ c + 3 <= Len(b) /\ c - lo \in Nat
  BY CodeRange
<1>3. c - lo \in StartCodes(h)
  BY <1>2, SliceCodes
<1>4. /\ NalEnd(b, c) \in (c + 3)..Len(b)
      /\ \A p \in Nat : c + 3 <= p => (p < NalEnd(b, c) <=> Reaches(b, c, p, Len(b)))
  BY NalEndReaches
<1>5. /\ NalEnd(h, c - lo) \in (c - lo + 3)..Len(h)
      /\ \A p \in Nat : c - lo + 3 <= p
                           => (p < NalEnd(h, c - lo) <=> Reaches(h, c - lo, p, Len(h)))
  <2>. HIDE DEF h
  <2>. QED  BY <1>1, <1>3, NalEndReaches
<1>6. /\ nal \in Seq(Byte) /\ Len(nal) = n /\ n \in Nat
      /\ \A i \in 0..(n - 1) : At(nal, i) = At(b, c + 3 + i)
  <2>1. NalEnd(b, c) \in 0..Len(b) /\ c + 3 \in 0..NalEnd(b, c) /\ n \in Nat
    BY <1>1, <1>2, <1>4
  <2>. QED  BY <2>1, SliceProperties DEF NalBytes, NalStart
<1>7. /\ seen \in Seq(Byte) /\ Len(seen) = m /\ m \in Nat
      /\ \A i \in 0..(m - 1) : At(seen, i) = At(h, c - lo + 3 + i)
  <2>1. NalEnd(h, c - lo) \in 0..Len(h) /\ c - lo + 3 \in 0..NalEnd(h, c - lo) /\ m \in Nat
    BY <1>1, <1>2, <1>5
  <2>. HIDE DEF h
  <2>. QED  BY <1>1, <2>1, SliceProperties DEF NalBytes, NalStart
<1>8. m <= hi - lo - (c - lo + 3)
  BY <1>1, <1>2, <1>5
<1>. HIDE DEF nal, seen, h
<1>9. ASSUME NEW i \in Nat
      PROVE  i < n <=> Reaches(b, c, c + 3 + i, Len(b))
  <2>. DEFINE p == c + 3 + i
  <2>1. p \in Nat /\ c + 3 <= p /\ (p < NalEnd(b, c) <=> i < n)
    BY <1>2, <1>4
  <2>. HIDE DEF p, n
  <2>2. p < NalEnd(b, c) <=> Reaches(b, c, p, Len(b))
    BY <1>4, <2>1
  <2>. QED  BY <2>1, <2>2 DEF p
<1>10. ASSUME NEW i \in Nat
       PROVE  i < m <=> Reaches(b, c, c + 3 + i, hi)
  <2>. DEFINE p == c + 3 + i
              q == c - lo + 3 + i
  <2>1. /\ q \in Nat /\ c - lo + 3 <= q /\ (q < NalEnd(h, c - lo) <=> i < m)
        /\ p \in Nat /\ c + 3 <= p /\ q = p - lo
    BY <1>2, <1>5
  <2>2. Reaches(h, c - lo, p - lo, Len(h)) <=> Reaches(b, c, p, hi)
    <3>. HIDE DEF p, q, m
    <3>. QED  BY <2>1, ReachesInSlice DEF h
  <2>. HIDE DEF p, q, m
  <2>3. q < NalEnd(h, c - lo) <=> Reaches(h, c - lo, q, Len(h))
    BY <1>5, <2>1
  <2>. QED  BY <2>1, <2>2, <2>3 DEF p
<1>. HIDE DEF m, n
<1>11. \A i \in Nat : Reaches(b, c, c + 3 + i, hi) => Reaches(b, c, c + 3 + i, Len(b))
  BY <1>1, <1>2 DEF Reaches
<1>12. m <= n
  <2>1. ~(n < m)
    BY <1>6, <1>9, <1>10, <1>11
  <2>. QED  BY <1>6, <1>7, <2>1
<1>13. ASSUME NEW i \in 1..m PROVE seen[i] = nal[i]
  <2>. DEFINE j == i - 1
  <2>1. j \in 0..(m - 1) /\ j \in 0..(n - 1) /\ c - lo + 3 + j \in 0..(hi - lo - 1)
        /\ lo + (c - lo + 3 + j) = c + 3 + j /\ j + 1 = i
    BY <1>2, <1>6, <1>7, <1>8, <1>12
  <2>. HIDE DEF j
  <2>2. At(seen, j) = At(b, c + 3 + j) /\ At(nal, j) = At(b, c + 3 + j)
    BY <1>1, <1>6, <1>7, <2>1
  <2>. QED  BY <2>1, <2>2 DEF At
<1>14. ASSUME \A i \in Nat : Reaches(b, c, c + 3 + i, Len(b)) => Reaches(b, c, c + 3 + i, hi)
       PROVE  seen = nal
  <2>1. ~(m < n)
    BY <1>7, <1>9, <1>10, <1>14
  <2>2. m = n
    BY <1>6, <1>7, <1>12, <2>1
  <2>. QED  BY <1>6, <1>7, <1>13, <2>2, SeqEqual
<1>. QED
  BY <1>6, <1>7, <1>9, <1>10, <1>12, <1>13, <1>14 DEF nal, seen, h

-----------------------------------------------------------------------------
\* The sets Boundaries is defined from.
Typed(b)   == {c \in StartCodes(b) : NalType(NalBytes(b, c)) # NoType}
Slices(b)  == {c \in Typed(b) : IsVcl(NalBytes(b, c))}
Openers(b) == {c \in Typed(b) : Opens(NalBytes(b, c))}

\* What a window shows of them: a NAL has a type as soon as its header is in,
\* and a slice opens an access unit once the bit after the header is.
TypeShows(b, c, hi)  == Reaches(b, c, c + 3 + (HeaderLen - 1), hi)
OpensShows(b, c, hi) ==
    TypeShows(b, c, hi) /\ (IsVcl(NalBytes(b, c)) => Reaches(b, c, c + 3 + HeaderLen, hi))
TypedIn(b, lo, hi)   == {c \in StartCodes(b) : lo <= c /\ TypeShows(b, c, hi)}
OpenersIn(b, lo, hi) == {c \in Openers(b) : lo <= c /\ OpensShows(b, c, hi)}

LEMMA HeaderLenType == HeaderLen \in 1..2
  BY CodecAssumption DEF HeaderLen

\* A NAL has a type when it is as long as its header.
LEMMA TypeOfLength ==
    ASSUME NEW nal \in Seq(Byte)
    PROVE  NalType(nal) # NoType <=> HeaderLen - 1 < Len(nal)
<1>1. Len(nal) \in Nat /\ HeaderLen \in 1..2
  BY LenProperties, HeaderLenType
<1>2. ASSUME HeaderLen - 1 < Len(nal) PROVE NalType(nal) # NoType
  <2>1. nal[1] \in Byte
    <3>1. 1 \in 1..Len(nal)
      BY <1>1, <1>2
    <3>. QED  BY <3>1, ElementOfSeq
  <2>. DEFINE x == nal[1]
  <2>2. x \in 0..255
    BY <2>1 DEF Byte
  <2>. HIDE DEF x
  <2>3. x % 32 \in Nat /\ (x \div 2) % 64 \in Nat
    BY <2>2
  <2>4. NalType(nal) = x % 32 \/ NalType(nal) = (x \div 2) % 64
    BY <1>1, <1>2 DEF NalType, x
  <2>. QED  BY <2>3, <2>4 DEF NoType
<1>. QED  BY <1>1, <1>2 DEF NalType

\* What the first bytes of a NAL say of it the whole NAL says as well.
LEMMA PrefixOfNal ==
    ASSUME NEW nal \in Seq(Byte), NEW seen \in Seq(Byte), Len(seen) <= Len(nal),
           \A i \in 1..Len(seen) : seen[i] = nal[i]
    PROVE  /\ NalType(seen) # NoType => NalType(seen) = NalType(nal)
           /\ NalType(seen) # NoType => (IsVcl(seen) <=> IsVcl(nal))
           /\ NalType(seen) # NoType =>
                  (Opens(seen) <=> Opens(nal) /\ (IsVcl(nal) => HeaderLen < Len(seen)))
<1>1. Len(nal) \in Nat /\ Len(seen) \in Nat /\ HeaderLen \in 1..2
  BY LenProperties, HeaderLenType
<1>2. SUFFICES ASSUME NalType(seen) # NoType
               PROVE  /\ NalType(seen) = NalType(nal)
                      /\ IsVcl(seen) <=> IsVcl(nal)
                      /\ Opens(seen) <=> Opens(nal) /\ (IsVcl(nal) => HeaderLen < Len(seen))
  OBVIOUS
<1>3. HeaderLen - 1 < Len(seen)
  BY <1>2, TypeOfLength
<1>4. seen[1] = nal[1] /\ ~(Len(seen) < HeaderLen) /\ ~(Len(nal) < HeaderLen)
  BY <1>1, <1>3
<1>5. NalType(seen) = NalType(nal)
  BY <1>4 DEF NalType
<1>6. IsVcl(seen) <=> IsVcl(nal)
  BY <1>5 DEF IsVcl
<1>7. FirstSliceOfPicture(seen) <=> FirstSliceOfPicture(nal) /\ HeaderLen < Len(seen)
  <2>1. HeaderLen < Len(seen) => seen[HeaderLen + 1] = nal[HeaderLen + 1]
    <3>1. HeaderLen < Len(seen) => HeaderLen + 1 \in 1..Len(seen)
      BY <1>1
    <3>. QED  BY <3>1
  <2>2. HeaderLen < Len(seen) => HeaderLen < Len(nal)
    BY <1>1
  <2>3. Len(seen) > HeaderLen <=> HeaderLen < Len(seen)
    BY <1>1
  <2>4. Len(nal) > HeaderLen <=> HeaderLen < Len(nal)
    BY <1>1
  <2>. QED  BY <2>1, <2>2, <2>3, <2>4 DEF FirstSliceOfPicture
<1>. QED  BY <1>5, <1>6, <1>7 DEF Opens

\* The start codes of a window's NALs that have a type, are slices, open an
\* access unit.
LEMMA WindowSets ==
    ASSUME NEW b \in Seq(Byte), NEW hi \in 0..Len(b), NEW lo \in 0..hi, NEW c \in Int
    PROVE  LET h == Slice(b, lo, hi)
           IN  /\ c - lo \in Typed(h) <=> c \in TypedIn(b, lo, hi)
               /\ c - lo \in Slices(h) <=> c \in TypedIn(b, lo, hi) /\ c \in Slices(b)
               /\ c - lo \in Openers(h) <=> c \in OpenersIn(b, lo, hi)
               /\ c \in TypedIn(b, lo, hi) => c \in Typed(b) /\ c + 3 <= hi
               /\ c \in TypedIn(b, lo, hi) =>
                      NalType(NalBytes(h, c - lo)) = NalType(NalBytes(b, c))
<1>. DEFINE h == Slice(b, lo, hi)
            nal  == NalBytes(b, c)
            seen == NalBytes(h, c - lo)
<1>1. c - lo \in StartCodes(h) <=> c \in StartCodes(b) /\ lo <= c /\ c + 3 <= hi
  BY SliceCodes
<1>. HIDE DEF h, nal, seen
<1>2. ASSUME c \in StartCodes(b), lo <= c, TypeShows(b, c, hi)
      PROVE  c + 3 <= hi
  <2>1. PICK q \in (c + 3 + (HeaderLen - 1))..(hi - 1) : TRUE
    BY <1>2 DEF TypeShows, Reaches
  <2>. QED  BY <2>1, HeaderLenType
<1>3. ASSUME c \in StartCodes(b), lo <= c, c + 3 <= hi
      PROVE  /\ NalType(seen) # NoType <=> TypeShows(b, c, hi)
             /\ NalType(seen) # NoType => /\ NalType(seen) = NalType(nal)
                                          /\ NalType(nal) # NoType
                                          /\ IsVcl(seen) <=> IsVcl(nal)
                                          /\ Opens(seen) <=> Opens(nal) /\ OpensShows(b, c, hi)
  <2>1. /\ nal \in Seq(Byte) /\ seen \in Seq(Byte) /\ Len(seen) <= Len(nal)
        /\ \A i \in 1..Len(seen) : seen[i] = nal[i]
        /\ \A i \in Nat : i < Len(seen) <=> Reaches(b, c, c + 3 + i, hi)
    BY <1>3, NalInSlice DEF nal, seen, h
  <2>2. NalType(seen) # NoType <=> HeaderLen - 1 < Len(seen)
    BY <2>1, TypeOfLength
  <2>3. HeaderLen - 1 \in Nat /\ HeaderLen \in Nat
    BY HeaderLenType
  <2>4. NalType(seen) # NoType <=> TypeShows(b, c, hi)
    BY <2>1, <2>2, <2>3 DEF TypeShows
  <2>5. HeaderLen < Len(seen) <=> Reaches(b, c, c + 3 + HeaderLen, hi)
    BY <2>1, <2>3
  <2>6. /\ NalType(seen) # NoType => NalType(seen) = NalType(nal)
        /\ NalType(seen) # NoType => (IsVcl(seen) <=> IsVcl(nal))
        /\ NalType(seen) # NoType =>
               (Opens(seen) <=> Opens(nal) /\ (IsVcl(nal) => HeaderLen < Len(seen)))
    BY <2>1, PrefixOfNal
  <2>. QED  BY <2>4, <2>5, <2>6, Zenon DEF OpensShows, nal
<1>4. c - lo \in Typed(h) <=> c - lo \in StartCodes(h) /\ NalType(seen) # NoType
  BY DEF Typed, seen
<1>5. c - lo \in Typed(h) <=> c \in TypedIn(b, lo, hi)
  BY <1>1, <1>2, <1>3, <1>4 DEF TypedIn
<1>6. c \in TypedIn(b, lo, hi) =>
         /\ c \in Typed(b) /\ c + 3 <= hi /\ NalType(seen) = NalType(nal)
         /\ IsVcl(seen) <=> IsVcl(nal)
         /\ Opens(seen) <=> Opens(nal) /\ OpensShows(b, c, hi)
  BY <1>2, <1>3 DEF TypedIn, Typed, nal
<1>7. c - lo \in Slices(h) <=> c \in TypedIn(b, lo, hi) /\ c \in Slices(b)
  BY <1>5, <1>6 DEF Slices, seen, nal
<1>8. c - lo \in Openers(h) <=> c \in OpenersIn(b, lo, hi)
  <2>1. c - lo \in Openers(h) <=> c \in TypedIn(b, lo, hi) /\ Opens(seen)
    BY <1>5 DEF Openers, seen
  <2>2. c \in OpenersIn(b, lo, hi) <=>
            c \in TypedIn(b, lo, hi) /\ c \in Typed(b) /\ Opens(nal) /\ OpensShows(b, c, hi)
    BY DEF OpenersIn, Openers, OpensShows, TypedIn, Typed, nal
  <2>. QED  BY <1>6, <2>1, <2>2
<1>. QED  BY <1>5, <1>6, <1>7, <1>8 DEF h, seen, nal

-----------------------------------------------------------------------------
\* The padding of a NAL reaches back to the last byte of the NAL before it that
\* is not zero, so no later NAL begins, padding and all, before an earlier one
\* has its start code.
LEMMA PadRange ==
    ASSUME NEW b \in Seq(Byte), NEW c \in StartCodes(b)
    PROVE  /\ NalPad(b, c) \in 0..c
           /\ \A i \in NalPad(b, c)..(c - 1) : At(b, i) = 0
           /\ 0 < NalPad(b, c) => At(b, NalPad(b, c) - 1) # 0
<1>1. c \in Nat /\ 0 \in Nat /\ 0 <= c
  BY CodeRange
<1>. QED  BY <1>1, ZeroRunRange, ZeroRunStops DEF NalPad

LEMMA PadBehindCode ==
    ASSUME NEW b \in Seq(Byte), NEW c \in StartCodes(b), NEW d \in StartCodes(b), c < d
    PROVE  c + 3 <= NalPad(b, d) /\ NalPad(b, c) < NalPad(b, d)
<1>1. c + 3 <= d /\ c \in Nat /\ d \in Nat /\ At(b, c + 2) = 1
  BY CodesApart, CodeRange
<1>2. NalPad(b, d) \in 0..d /\ \A i \in NalPad(b, d)..(d - 1) : At(b, i) = 0
  BY PadRange
<1>3. ~(NalPad(b, d) <= c + 2)
  <2>. SUFFICES ASSUME NalPad(b, d) <= c + 2 PROVE FALSE
    OBVIOUS
  <2>1. c + 2 \in NalPad(b, d)..(d - 1)
    BY <1>1, <1>2
  <2>2. At(b, c + 2) = 0
    BY <1>2, <2>1
  <2>. QED  BY <1>1, <2>2
<1>4. NalPad(b, c) \in 0..c
  BY PadRange
<1>. QED  BY <1>1, <1>2, <1>3, <1>4

\* No start code stands in the padding of another.
LEMMA NoCodeInPad ==
    ASSUME NEW b \in Seq(Byte), NEW c \in StartCodes(b), NEW d \in StartCodes(b),
           NalPad(b, c) <= d
    PROVE  c <= d
<1>1. c \in Nat /\ d \in Nat
  BY CodeRange
<1>2. d < c => d + 3 <= NalPad(b, c) /\ NalPad(b, c) \in 0..c
  BY PadBehindCode, PadRange
<1>. QED  BY <1>1, <1>2

LEMMA PadInSlice ==
    ASSUME NEW b \in Seq(Byte), NEW hi \in 0..Len(b), NEW lo \in 0..hi,
           NEW c \in StartCodes(b), lo <= NalPad(b, c), c + 3 <= hi
    PROVE  NalPad(Slice(b, lo, hi), c - lo) = NalPad(b, c) - lo
<1>. DEFINE h == Slice(b, lo, hi)
            z == NalPad(h, c - lo)
            p == NalPad(b, c)
<1>1. h \in Seq(Byte) /\ \A i \in 0..(hi - lo - 1) : At(h, i) = At(b, lo + i)
  BY SliceProperties
<1>2. /\ p \in 0..c /\ c \in Nat
      /\ \A i \in p..(c - 1) : At(b, i) = 0
      /\ 0 < p => At(b, p - 1) # 0
  BY PadRange, CodeRange
<1>3. c - lo \in StartCodes(h)
  BY <1>2, SliceCodes
<1>4. /\ z \in 0..(c - lo)
      /\ \A i \in z..(c - lo - 1) : At(h, i) = 0
      /\ 0 < z => At(h, z - 1) # 0
  <2>. HIDE DEF h
  <2>. QED  BY <1>1, <1>3, PadRange
<1>5. lo <= p
  OBVIOUS
<1>. HIDE DEF h, z, p
<1>6. ~(z + lo < p)
  <2>. SUFFICES ASSUME z + lo < p PROVE FALSE
    OBVIOUS
  <2>1. At(b, p - 1) # 0
    BY <1>2, <1>4
  <2>2. p - 1 - lo \in z..(c - lo - 1) /\ p - 1 - lo \in 0..(hi - lo - 1)
        /\ lo + (p - 1 - lo) = p - 1
    BY <1>2, <1>4
  <2>3. At(h, p - 1 - lo) = 0 /\ At(h, p - 1 - lo) = At(b, p - 1)
    BY <1>1, <1>4, <2>2
  <2>. QED  BY <2>1, <2>3
<1>7. ~(p < z + lo)
  <2>. SUFFICES ASSUME p < z + lo PROVE FALSE
    OBVIOUS
  <2>1. At(h, z - 1) # 0
    BY <1>2, <1>4, <1>5
  <2>2. z + lo - 1 \in p..(c - 1) /\ z - 1 \in 0..(hi - lo - 1) /\ lo + (z - 1) = z + lo - 1
    BY <1>2, <1>4, <1>5
  <2>3. At(b, z + lo - 1) = 0 /\ At(h, z - 1) = At(b, z + lo - 1)
    BY <1>1, <1>2, <2>2
  <2>. QED  BY <2>1, <2>3
<1>8. z = p - lo
  BY <1>2, <1>4, <1>6, <1>7
<1>. QED  BY <1>8 DEF z, p, h

\* The bytes before hi are all that the NAL at c has: the stream ends at hi, or
\* another NAL begins, padding and all, no later.
Whole(b, c, hi) ==
    hi = Len(b) \/ \E e \in StartCodes(b) : c < e /\ NalPad(b, e) <= hi

LEMMA WholeReaches ==
    ASSUME NEW b \in Seq(Byte), NEW hi \in 0..Len(b), NEW c \in StartCodes(b), Whole(b, c, hi)
    PROVE  /\ c + 3 <= hi
           /\ \A i \in Nat : Reaches(b, c, c + 3 + i, Len(b)) => Reaches(b, c, c + 3 + i, hi)
<1>1. c \in Nat /\ c + 3 <= Len(b) /\ Len(b) \in Nat
  BY CodeRange
<1>2. CASE hi = Len(b)
  BY <1>1, <1>2
<1>3. CASE hi # Len(b)
  <2>1. PICK e \in StartCodes(b) : c < e /\ NalPad(b, e) <= hi
    BY <1>3 DEF Whole
  <2>2. /\ NalPad(b, e) \in 0..e /\ e \in Nat /\ c + 3 <= NalPad(b, e)
        /\ \A i \in NalPad(b, e)..(e - 1) : At(b, i) = 0
    BY <2>1, PadRange, PadBehindCode, CodeRange
  <2>3. ASSUME NEW i \in Nat, Reaches(b, c, c + 3 + i, Len(b))
        PROVE  Reaches(b, c, c + 3 + i, hi)
    <3>1. PICK q \in (c + 3 + i)..(Len(b) - 1) : /\ At(b, q) # 0
                                                 /\ \A d \in StartCodes(b) : ~(c < d /\ d <= q)
      BY <2>3 DEF Reaches
    <3>2. q < e
      BY <1>1, <2>1, <2>2, <3>1
    <3>3. q < NalPad(b, e)
      BY <1>1, <2>2, <3>1, <3>2
    <3>4. q \in (c + 3 + i)..(hi - 1)
      BY <1>1, <2>1, <2>2, <3>1, <3>3
    <3>. QED  BY <3>1, <3>4 DEF Reaches
  <2>. QED  BY <2>1, <2>2, <2>3
<1>. QED  BY <1>2, <1>3

LEMMA TypedReaches ==
    ASSUME NEW b \in Seq(Byte), NEW c \in StartCodes(b)
    PROVE  /\ c \in Typed(b) <=> TypeShows(b, c, Len(b))
           /\ c \in Openers(b) => OpensShows(b, c, Len(b))
<1>. DEFINE nal == NalBytes(b, c)
<1>1. /\ Len(b) \in Nat /\ 0 \in 0..Len(b) /\ Len(b) \in 0..Len(b) /\ 0 <= c /\ c + 3 <= Len(b)
      /\ HeaderLen - 1 \in Nat /\ HeaderLen \in Nat
  BY CodeRange, HeaderLenType
<1>2. nal \in Seq(Byte) /\ \A i \in Nat : i < Len(nal) <=> Reaches(b, c, c + 3 + i, Len(b))
  BY <1>1, NalInSlice
<1>. HIDE DEF nal
<1>3. NalType(nal) # NoType <=> HeaderLen - 1 < Len(nal)
  BY <1>2, TypeOfLength
<1>4. c \in Typed(b) <=> TypeShows(b, c, Len(b))
  BY <1>1, <1>2, <1>3 DEF Typed, TypeShows, nal
<1>5. ASSUME c \in Openers(b) PROVE OpensShows(b, c, Len(b))
  <2>1. c \in Typed(b) /\ Opens(nal)
    BY <1>5 DEF Openers, nal
  <2>2. IsVcl(nal) => HeaderLen < Len(nal)
    <3>1. Len(nal) \in Nat
      BY <1>2, LenProperties
    <3>. QED  BY <1>1, <2>1, <3>1 DEF Opens, FirstSliceOfPicture
  <2>3. IsVcl(nal) => Reaches(b, c, c + 3 + HeaderLen, Len(b))
    BY <1>1, <1>2, <2>2
  <2>. QED  BY <1>4, <2>1, <2>3 DEF OpensShows, nal
<1>. QED  BY <1>4, <1>5

LEMMA WholeNal ==
    ASSUME NEW b \in Seq(Byte), NEW hi \in 0..Len(b), NEW lo \in 0..hi,
           NEW c \in StartCodes(b), lo <= c, Whole(b, c, hi)
    PROVE  /\ c + 3 <= hi
           /\ NalBytes(Slice(b, lo, hi), c - lo) = NalBytes(b, c)
           /\ c \in Typed(b) => c \in TypedIn(b, lo, hi)
           /\ c \in Openers(b) => c \in OpenersIn(b, lo, hi)
<1>1. /\ c + 3 <= hi
      /\ \A i \in Nat : Reaches(b, c, c + 3 + i, Len(b)) => Reaches(b, c, c + 3 + i, hi)
  BY WholeReaches
<1>2. NalBytes(Slice(b, lo, hi), c - lo) = NalBytes(b, c)
  BY <1>1, NalInSlice
<1>3. TypeShows(b, c, Len(b)) => TypeShows(b, c, hi)
  BY <1>1, HeaderLenType DEF TypeShows
<1>4. OpensShows(b, c, Len(b)) => OpensShows(b, c, hi)
  BY <1>1, <1>3, HeaderLenType DEF OpensShows
<1>. QED  BY <1>1, <1>2, <1>3, <1>4, TypedReaches DEF TypedIn, OpenersIn, Openers

\* Every NAL before one that shows in a window is whole in it.
LEMMA EarlierIsWhole ==
    ASSUME NEW b \in Seq(Byte), NEW hi \in 0..Len(b), NEW lo \in 0..hi,
           NEW c \in TypedIn(b, lo, hi), NEW d \in StartCodes(b), d < c
    PROVE  Whole(b, d, hi)
<1>1. c \in StartCodes(b) /\ c \in Nat /\ NalPad(b, c) \in 0..c
  BY CodeRange, PadRange DEF TypedIn
<1>2. c + 3 <= hi
  BY <1>1, WindowSets
<1>3. NalPad(b, c) <= hi
  BY <1>1, <1>2
<1>. QED  BY <1>1, <1>3 DEF Whole

-----------------------------------------------------------------------------
FirstFrom(b, lo, c)  == \A d \in Typed(b) : lo <= d => c <= d
SeenSlice(T, O, c)   == \E s \in T : s < c /\ \A o \in O : ~(s < o /\ o < c)

LEMMA BoundaryDef ==
    ASSUME NEW b, NEW c
    PROVE  c \in Boundaries(b) <=>
               \/ c \in Typed(b) /\ \A d \in Typed(b) : c <= d
               \/ c \in Openers(b) /\ SeenSlice(Slices(b), Openers(b), c)
<1>1. Boundaries(b) =
          {x \in Typed(b) : \A d \in Typed(b) : x <= d}
              \cup {x \in Openers(b) : \E s \in Slices(b) :
                                          s < x /\ \A o \in Openers(b) : ~(s < o /\ o < x)}
  BY Zenon DEF Boundaries, Typed, Slices, Openers
<1>. QED  BY <1>1 DEF SeenSlice

LEMMA BoundaryIsTyped ==
    ASSUME NEW b, NEW c \in Boundaries(b)
    PROVE  c \in Typed(b) /\ c \in StartCodes(b)
  BY BoundaryDef DEF Openers, Typed

LEMMA TypedInRange ==
    ASSUME NEW b \in Seq(Byte), NEW hi \in 0..Len(b), NEW lo \in 0..hi,
           NEW c \in TypedIn(b, lo, hi)
    PROVE  /\ c \in StartCodes(b) /\ c \in Typed(b) /\ c \in Nat /\ lo <= c /\ c + 3 <= hi
           /\ TypeShows(b, c, hi)
           /\ \A d \in Typed(b) : lo <= d /\ d < c =>
                 d \in TypedIn(b, lo, hi) /\ (d \in Openers(b) => d \in OpenersIn(b, lo, hi))
<1>1. c \in StartCodes(b) /\ c \in Nat /\ lo <= c /\ TypeShows(b, c, hi)
  BY CodeRange DEF TypedIn
<1>2. c \in Typed(b) /\ c + 3 <= hi
  BY <1>1, WindowSets
<1>3. ASSUME NEW d \in Typed(b), lo <= d, d < c
      PROVE  d \in TypedIn(b, lo, hi) /\ (d \in Openers(b) => d \in OpenersIn(b, lo, hi))
  <2>1. d \in StartCodes(b)
    BY DEF Typed
  <2>2. Whole(b, d, hi)
    BY <1>3, <2>1, EarlierIsWhole
  <2>. QED  BY <1>3, <2>1, <2>2, WholeNal
<1>. QED  BY <1>1, <1>2, <1>3

\* An access unit that begins behind the first NAL of a window, wherever the
\* window was opened, begins there in the stream.
LEMMA LaterBoundary ==
    ASSUME NEW b \in Seq(Byte), NEW hi \in 0..Len(b), NEW lo \in 0..hi, NEW c \in Int,
           c - lo \in Boundaries(Slice(b, lo, hi)),
           NEW d \in TypedIn(b, lo, hi), d < c
    PROVE  /\ c \in Boundaries(b) /\ c \in StartCodes(b) /\ c \in TypedIn(b, lo, hi)
           /\ OpensShows(b, c, hi) /\ lo <= NalPad(b, c)
<1>. DEFINE h == Slice(b, lo, hi)
<1>1. d \in StartCodes(b) /\ lo <= d /\ d \in Nat /\ d - lo \in Typed(h)
  <2>1. d \in StartCodes(b) /\ lo <= d /\ d \in Nat /\ d \in Int
    BY TypedInRange
  <2>. QED  BY <2>1, WindowSets
<1>2. ~(c - lo <= d - lo)
  BY <1>1
<1>. HIDE DEF h
<1>3. c - lo \in Openers(h) /\ SeenSlice(Slices(h), Openers(h), c - lo)
  BY <1>1, <1>2, BoundaryDef DEF h
<1>4. c \in OpenersIn(b, lo, hi)
  BY <1>3, WindowSets DEF h
<1>5. /\ c \in Openers(b) /\ lo <= c /\ OpensShows(b, c, hi) /\ c \in StartCodes(b)
      /\ c \in TypedIn(b, lo, hi)
  BY <1>4 DEF OpenersIn, Openers, Typed, OpensShows, TypedIn
<1>6. PICK r \in Slices(h) : r < c - lo /\ \A o \in Openers(h) : ~(r < o /\ o < c - lo)
  BY <1>3 DEF SeenSlice
<1>. DEFINE s == r + lo
<1>7. r \in Int /\ s \in Int /\ s - lo = r /\ s < c
  <2>1. r \in Int
    BY <1>6 DEF Slices, Typed, StartCodes
  <2>. QED  BY <1>6, <2>1
<1>. HIDE DEF s
<1>8. s \in TypedIn(b, lo, hi) /\ s \in Slices(b)
  BY <1>6, <1>7, WindowSets DEF h
<1>9. ASSUME NEW o \in Openers(b), s < o, o < c PROVE FALSE
  <2>1. o \in Typed(b) /\ o \in StartCodes(b)
    BY DEF Openers, Typed
  <2>2. o \in Nat
    BY <2>1, CodeRange
  <2>3. lo <= o
    BY <1>7, <1>8, <1>9, <2>2, TypedInRange
  <2>4. o \in OpenersIn(b, lo, hi)
    BY <1>5, <1>9, <2>1, <2>3, TypedInRange
  <2>5. o - lo \in Openers(h)
    BY <2>2, <2>4, WindowSets DEF h
  <2>6. r < o - lo /\ o - lo < c - lo
    BY <1>7, <1>9, <2>2
  <2>. QED  BY <1>6, <2>5, <2>6
<1>10. c \in Boundaries(b)
  BY <1>5, <1>7, <1>8, <1>9, BoundaryDef DEF SeenSlice
<1>11. lo <= NalPad(b, c)
  <2>1. d + 3 <= NalPad(b, c)
    BY <1>1, <1>5, PadBehindCode
  <2>2. NalPad(b, c) \in 0..c
    BY <1>5, PadRange
  <2>. QED  BY <1>1, <2>1, <2>2
<1>. QED  BY <1>5, <1>10, <1>11

-----------------------------------------------------------------------------
\* A window that opens where an access unit does, or at the start of the stream.
AtCarrier(b, lo) ==
    \A c \in Typed(b) : lo <= c /\ FirstFrom(b, lo, c) => c \in Boundaries(b)

\* As far as hi tells, an access unit of a stream read from lo begins at c.
Known(b, lo, c, hi) == TypeShows(b, c, hi) /\ (FirstFrom(b, lo, c) \/ OpensShows(b, c, hi))

LEMMA AtCarrierStart ==
    ASSUME NEW b \in Seq(Byte)
    PROVE  AtCarrier(b, 0)
<1>1. \A d \in Typed(b) : 0 <= d
  BY DEF Typed, StartCodes
<1>. QED  BY <1>1, BoundaryDef DEF AtCarrier, FirstFrom

LEMMA FromItsPad ==
    ASSUME NEW b \in Seq(Byte), NEW c \in Boundaries(b)
    PROVE  /\ AtCarrier(b, NalPad(b, c)) /\ FirstFrom(b, NalPad(b, c), c)
           /\ NalPad(b, c) <= c
<1>1. c \in Typed(b) /\ c \in StartCodes(b)
  BY BoundaryIsTyped
<1>2. NalPad(b, c) <= c /\ c \in Nat
  BY <1>1, PadRange, CodeRange
<1>3. FirstFrom(b, NalPad(b, c), c)
  BY <1>1, NoCodeInPad DEF FirstFrom, Typed
<1>4. ASSUME NEW d \in Typed(b), NalPad(b, c) <= d, FirstFrom(b, NalPad(b, c), d)
      PROVE  d \in Boundaries(b)
  <2>1. d \in Nat
    BY CodeRange DEF Typed
  <2>2. c <= d /\ d <= c
    BY <1>1, <1>2, <1>3, <1>4 DEF FirstFrom
  <2>3. c = d
    BY <1>2, <2>1, <2>2
  <2>. QED  BY <2>3
<1>. QED  BY <1>2, <1>3, <1>4 DEF AtCarrier

\* Such a window has the access units of the stream from its start on, as many
\* as show.
LEMMA BoundariesOfSlice ==
    ASSUME NEW b \in Seq(Byte), NEW hi \in 0..Len(b), NEW lo \in 0..hi, AtCarrier(b, lo),
           NEW c \in Int
    PROVE  c - lo \in Boundaries(Slice(b, lo, hi))
               <=> c \in Boundaries(b) /\ lo <= c /\ Known(b, lo, c, hi)
<1>. DEFINE h == Slice(b, lo, hi)
<1>1. ASSUME NEW d \in Int
      PROVE  /\ d - lo \in Typed(h) <=> d \in TypedIn(b, lo, hi)
             /\ d - lo \in Slices(h) <=> d \in TypedIn(b, lo, hi) /\ d \in Slices(b)
             /\ d - lo \in Openers(h) <=> d \in OpenersIn(b, lo, hi)
  BY WindowSets
<1>. HIDE DEF h
<1>2. ASSUME c \in TypedIn(b, lo, hi)
      PROVE  FirstFrom(b, lo, c) <=> \A d \in Typed(h) : c - lo <= d
  <2>1. ASSUME NEW d \in Typed(h), FirstFrom(b, lo, c) PROVE c - lo <= d
    <3>1. d \in Int /\ d + lo \in Int /\ (d + lo) - lo = d
      BY DEF Typed, StartCodes
    <3>2. d + lo \in Typed(b) /\ lo <= d + lo
      BY <1>1, <3>1, TypedInRange
    <3>3. c <= d + lo
      BY <2>1, <3>2 DEF FirstFrom
    <3>. QED  BY <3>1, <3>3
  <2>2. ASSUME NEW d \in Typed(b), lo <= d, \A e \in Typed(h) : c - lo <= e PROVE c <= d
    <3>1. d \in Int
      BY DEF Typed, StartCodes
    <3>2. SUFFICES ASSUME d < c PROVE FALSE
      BY <3>1
    <3>3. d - lo \in Typed(h)
      BY <1>1, <1>2, <2>2, <3>1, <3>2, TypedInRange
    <3>. QED  BY <2>2, <3>1, <3>2, <3>3
  <2>. QED  BY <2>1, <2>2 DEF FirstFrom
<1>3. ASSUME c - lo \in Boundaries(h)
      PROVE  c \in Boundaries(b) /\ lo <= c /\ Known(b, lo, c, hi)
  <2>1. c \in TypedIn(b, lo, hi)
    BY <1>1, <1>3, BoundaryIsTyped
  <2>2. lo <= c /\ c \in Typed(b) /\ TypeShows(b, c, hi)
    BY <2>1, TypedInRange
  <2>3. CASE FirstFrom(b, lo, c)
    BY <2>2, <2>3 DEF AtCarrier, Known
  <2>4. CASE ~FirstFrom(b, lo, c)
    <3>1. PICK d \in Typed(b) : lo <= d /\ ~(c <= d)
      BY <2>4 DEF FirstFrom
    <3>2. d < c
      BY <3>1 DEF Typed, StartCodes
    <3>3. d \in TypedIn(b, lo, hi)
      BY <2>1, <3>1, <3>2, TypedInRange
    <3>4. c \in Boundaries(b) /\ OpensShows(b, c, hi)
      BY <1>3, <3>2, <3>3, LaterBoundary DEF h
    <3>. QED  BY <2>2, <3>4 DEF Known
  <2>. QED  BY <2>3, <2>4
<1>4. ASSUME c \in Boundaries(b), lo <= c, Known(b, lo, c, hi)
      PROVE  c - lo \in Boundaries(h)
  <2>1. c \in Typed(b) /\ c \in StartCodes(b) /\ c \in TypedIn(b, lo, hi) /\ c - lo \in Typed(h)
    BY <1>1, <1>4, BoundaryIsTyped DEF Known, TypedIn
  <2>2. CASE FirstFrom(b, lo, c)
    BY <1>2, <2>1, <2>2, BoundaryDef
  <2>3. CASE ~FirstFrom(b, lo, c)
    <3>. DEFINE X == {d \in Typed(b) : lo <= d}
                t == Min(X)
    <3>1. OpensShows(b, c, hi)
      BY <1>4, <2>3 DEF Known
    <3>2. PICK d \in X : ~(c <= d)
      BY <2>3 DEF FirstFrom
    <3>3. X \in SUBSET Nat /\ X # {}
      BY <3>2 DEF Typed, StartCodes
    <3>4. t \in X /\ \A e \in X : t <= e
      <4>. HIDE DEF X
      <4>. QED  BY <3>3, MinExists
    <3>5. t \in Typed(b) /\ lo <= t /\ t \in Nat /\ FirstFrom(b, lo, t) /\ t < c
      <4>1. t \in Typed(b) /\ lo <= t /\ t \in Nat /\ d \in Nat /\ t <= d
        BY <3>2, <3>3, <3>4
      <4>2. FirstFrom(b, lo, t)
        BY <3>4 DEF FirstFrom
      <4>. HIDE DEF t
      <4>. QED  BY <3>2, <4>1, <4>2
    <3>. HIDE DEF t, X
    <3>6. t \in Boundaries(b)
      BY <3>5 DEF AtCarrier
    <3>7. c \in Openers(b) /\ SeenSlice(Slices(b), Openers(b), c)
      <4>1. ~(c <= t)
        BY <3>5
      <4>. QED  BY <1>4, <3>5, <4>1, BoundaryDef
    <3>8. PICK s \in Slices(b) : s < c /\ \A o \in Openers(b) : ~(s < o /\ o < c)
      BY <3>7 DEF SeenSlice
    <3>9. s \in Typed(b) /\ s \in Nat
      BY DEF Slices, Typed, StartCodes
    <3>10. ~(s < t)
      <4>. SUFFICES ASSUME s < t PROVE FALSE
        OBVIOUS
      <4>1. ~(t <= s)
        BY <3>5, <3>9
      <4>2. t \in Openers(b)
        BY <3>6, <3>9, <4>1, BoundaryDef
      <4>. QED  BY <3>5, <3>8, <4>2
    <3>11. s \in TypedIn(b, lo, hi)
      <4>1. lo <= s
        BY <3>5, <3>9, <3>10
      <4>. QED  BY <2>1, <3>8, <3>9, <4>1, TypedInRange
    <3>12. s - lo \in Slices(h)
      BY <1>1, <3>9, <3>11
    <3>13. c - lo \in Openers(h)
      <4>1. c \in OpenersIn(b, lo, hi)
        BY <1>4, <3>1, <3>7 DEF OpenersIn
      <4>. QED  BY <1>1, <4>1
    <3>14. ASSUME NEW o \in Openers(h), s - lo < o, o < c - lo PROVE FALSE
      <4>1. o \in Int /\ o + lo \in Int /\ (o + lo) - lo = o
        BY DEF Openers, Typed, StartCodes
      <4>2. o + lo \in Openers(b)
        BY <1>1, <4>1 DEF OpenersIn
      <4>3. s < o + lo /\ o + lo < c
        BY <3>9, <3>14, <4>1
      <4>. QED  BY <3>8, <4>2, <4>3
    <3>15. s - lo < c - lo
      BY <3>8, <3>9
    <3>16. SeenSlice(Slices(h), Openers(h), c - lo)
      BY <3>12, <3>14, <3>15 DEF SeenSlice
    <3>. QED  BY <3>13, <3>16, BoundaryDef
  <2>. QED  BY <2>2, <2>3
<1>. QED  BY <1>3, <1>4 DEF h

\* They show in order.
LEMMA KnownEarlier ==
    ASSUME NEW b \in Seq(Byte), NEW hi \in 0..Len(b), NEW lo \in 0..hi,
           NEW c \in StartCodes(b), lo <= c, TypeShows(b, c, hi),
           NEW d \in Boundaries(b), lo <= d, d < c
    PROVE  Known(b, lo, d, hi)
<1>1. c \in TypedIn(b, lo, hi) /\ d \in Typed(b) /\ d \in StartCodes(b) /\ d \in Nat
  BY BoundaryIsTyped, CodeRange DEF TypedIn
<1>2. d \in TypedIn(b, lo, hi) /\ (d \in Openers(b) => d \in OpenersIn(b, lo, hi))
  BY <1>1, TypedInRange
<1>3. ASSUME ~FirstFrom(b, lo, d) PROVE d \in Openers(b)
  <2>1. ~(\A e \in Typed(b) : d <= e)
    BY <1>3 DEF FirstFrom
  <2>. QED  BY <2>1, BoundaryDef
<1>. QED  BY <1>2, <1>3 DEF Known, TypedIn, OpenersIn

-----------------------------------------------------------------------------
\* The access units of a stream: at which code each begins, with its padding at
\* which byte, and where it ends.
Codes(b)      == Ascending(Boundaries(b))
Units(b)      == Len(Codes(b))
Pad(b, k)     == NalPad(b, Codes(b)[k])
UnitEnd(b, k) == IF k < Units(b) THEN Pad(b, k + 1) ELSE Len(b)

\* A slice of a keyframe stands between from and to.
KeyIn(b, from, to) ==
    \E s \in StartCodes(b) : /\ from <= s /\ s < to /\ IsVcl(NalBytes(b, s))
                             /\ IsKeyframeType(NalType(NalBytes(b, s)))

LEMMA CodesOfUnits ==
    ASSUME NEW b \in Seq(Byte)
    PROVE  /\ Units(b) \in Nat /\ Codes(b) \in [1..Units(b) -> Nat]
           /\ \A k \in 1..Units(b) : /\ Codes(b)[k] \in Boundaries(b)
                                     /\ Codes(b)[k] \in StartCodes(b) /\ Codes(b)[k] \in Nat
           /\ \A c \in Boundaries(b) : \E k \in 1..Units(b) : Codes(b)[k] = c
           /\ \A i, j \in 1..Units(b) : i < j => Codes(b)[i] < Codes(b)[j]
<1>. DEFINE S == Boundaries(b)
<1>1. \A c \in S : c \in StartCodes(b)
  BY BoundaryIsTyped
<1>2. S \in SUBSET (0..Len(b)) /\ Len(b) \in Nat
  BY <1>1, LenProperties DEF StartCodes
<1>. HIDE DEF S
<1>3. IsFiniteSet(0..Len(b)) /\ S \in SUBSET Nat
  BY <1>2, FS_Interval
<1>4. IsFiniteSet(S)
  BY <1>2, <1>3, FS_Subset
<1>5. /\ Codes(b) \in Seq(S) /\ Units(b) = Cardinality(S) /\ Units(b) \in Nat
      /\ \A i, j \in 1..Units(b) : i < j => Codes(b)[i] < Codes(b)[j]
  BY <1>3, <1>4, AscendingProperties DEF Codes, Units, S
<1>6. /\ \A k \in 1..Units(b) : Codes(b)[k] \in S
      /\ \A c \in S : \E k \in 1..Units(b) : Codes(b)[k] = c
  BY <1>3, <1>4, <1>5, AscendingOnto DEF Codes, S
<1>7. Codes(b) \in [1..Units(b) -> S]
  BY <1>5, LenProperties DEF Units
<1>8. Codes(b) \in [1..Units(b) -> Nat]
  BY <1>3, <1>7
<1>. QED  BY <1>1, <1>3, <1>5, <1>6, <1>8 DEF S

LEMMA PadsAscend ==
    ASSUME NEW b \in Seq(Byte)
    PROVE  /\ \A k \in 1..Units(b) : /\ Pad(b, k) \in Nat /\ Pad(b, k) <= Codes(b)[k]
                                     /\ Codes(b)[k] + 3 <= Len(b)
                                     /\ UnitEnd(b, k) \in Nat /\ UnitEnd(b, k) <= Len(b)
                                     /\ Codes(b)[k] + 3 <= UnitEnd(b, k)
           /\ \A i, j \in 1..Units(b) : i < j => Codes(b)[i] + 3 <= Pad(b, j)
           /\ \A i, j \in 1..Units(b) : i < j => Pad(b, i) < Pad(b, j)
           /\ Ascending(UnitStarts(b)) = [k \in 1..Units(b) |-> Pad(b, k)]
           /\ \A x : x \in UnitStarts(b) <=> \E k \in 1..Units(b) : x = Pad(b, k)
<1>. DEFINE n == Units(b)
            f == [k \in 1..n |-> Pad(b, k)]
<1>1. /\ n \in Nat
      /\ \A k \in 1..n : /\ Codes(b)[k] \in Boundaries(b)
                         /\ Codes(b)[k] \in StartCodes(b) /\ Codes(b)[k] \in Nat
      /\ \A c \in Boundaries(b) : \E k \in 1..n : Codes(b)[k] = c
      /\ \A i, j \in 1..n : i < j => Codes(b)[i] < Codes(b)[j]
  BY CodesOfUnits
<1>2. ASSUME NEW k \in 1..n
      PROVE  Pad(b, k) \in Nat /\ Pad(b, k) <= Codes(b)[k] /\ Codes(b)[k] + 3 <= Len(b)
  <2>1. NalPad(b, Codes(b)[k]) \in 0..Codes(b)[k] /\ Codes(b)[k] \in Nat
        /\ Codes(b)[k] + 3 <= Len(b)
    BY <1>1, PadRange, CodeRange
  <2>. QED  BY <2>1 DEF Pad
<1>3. ASSUME NEW i \in 1..n, NEW j \in 1..n, i < j
      PROVE  Codes(b)[i] + 3 <= Pad(b, j) /\ Pad(b, i) < Pad(b, j)
  BY <1>1, <1>3, PadBehindCode DEF Pad
<1>4. ASSUME NEW k \in 1..n
      PROVE  /\ UnitEnd(b, k) \in Nat /\ UnitEnd(b, k) <= Len(b)
             /\ Codes(b)[k] + 3 <= UnitEnd(b, k)
  <2>1. CASE k < n
    <3>1. k + 1 \in 1..n /\ k < k + 1
      BY <1>1, <2>1
    <3>2. /\ Pad(b, k + 1) \in Nat /\ Pad(b, k + 1) <= Codes(b)[k + 1]
          /\ Codes(b)[k + 1] + 3 <= Len(b) /\ Codes(b)[k + 1] \in Nat
      BY <1>1, <1>2, <3>1
    <3>3. Codes(b)[k] + 3 <= Pad(b, k + 1)
      BY <1>3, <3>1
    <3>4. UnitEnd(b, k) = Pad(b, k + 1)
      BY <2>1 DEF UnitEnd
    <3>5. Len(b) \in Nat
      BY LenProperties
    <3>. HIDE DEF n
    <3>. QED  BY <3>2, <3>3, <3>4, <3>5
  <2>2. CASE ~(k < n)
    BY <1>2, <2>2, LenProperties DEF UnitEnd
  <2>. QED  BY <2>1, <2>2
<1>5. \A x : x \in UnitStarts(b) <=> \E k \in 1..n : x = Pad(b, k)
  BY <1>1 DEF UnitStarts, Pad
<1>6. Ascending(UnitStarts(b)) = f
  <2>1. f \in [1..n -> Nat] /\ \A i, j \in 1..n : i < j => f[i] < f[j]
    BY <1>2, <1>3
  <2>2. \A x : x \in UnitStarts(b) <=> \E k \in 1..n : x = f[k]
    BY <1>5
  <2>. HIDE DEF f, n
  <2>. QED  BY <1>1, <2>1, <2>2, AscendingUnique
<1>. QED  BY <1>2, <1>3, <1>4, <1>5, <1>6

LEMMA AccessUnitsAre ==
    ASSUME NEW b \in Seq(Byte)
    PROVE  /\ Len(AccessUnits(b)) = Units(b) /\ DOMAIN AccessUnits(b) = 1..Units(b)
           /\ \A k \in 1..Units(b) :
                 /\ AccessUnits(b)[k].start = Pad(b, k)
                 /\ AccessUnits(b)[k].end = UnitEnd(b, k)
                 /\ AccessUnits(b)[k].keyframe = KeyIn(b, Codes(b)[k], UnitEnd(b, k))
<1>. DEFINE n == Units(b)
            slices(k) == {c \in StartCodes(b) : /\ Codes(b)[k] <= c /\ c < UnitEnd(b, k)
                                                /\ IsVcl(NalBytes(b, c))}
<1>1. AccessUnits(b) =
          [k \in 1..n |-> AccessUnitOf(b, Codes(b)[k], UnitEnd(b, k), slices(k))]
  BY DEF AccessUnits, AccessUnitsAt, Codes, Units, UnitEnd, Pad
<1>2. n \in Nat
  BY CodesOfUnits
<1>3. ASSUME NEW k \in 1..n
      PROVE  /\ AccessUnits(b)[k].start = Pad(b, k)
             /\ AccessUnits(b)[k].end = UnitEnd(b, k)
             /\ AccessUnits(b)[k].keyframe
                    = \E s \in slices(k) : IsKeyframeType(NalType(NalBytes(b, s)))
  <2>1. AccessUnits(b)[k] = AccessUnitOf(b, Codes(b)[k], UnitEnd(b, k), slices(k))
    BY <1>1
  <2>. HIDE DEF slices
  <2>. QED  BY <2>1 DEF AccessUnitOf, Pad
<1>4. ASSUME NEW k \in 1..n
      PROVE  (\E s \in slices(k) : IsKeyframeType(NalType(NalBytes(b, s))))
                 = KeyIn(b, Codes(b)[k], UnitEnd(b, k))
  BY DEF KeyIn
<1>5. Len(AccessUnits(b)) = n /\ DOMAIN AccessUnits(b) = 1..n
  <2>. HIDE DEF slices, n
  <2>. QED  BY <1>1, <1>2
<1>. QED  BY <1>3, <1>4, <1>5

\* A window that has an access unit whole sees whether it is a keyframe.
LEMMA KeyInSlice ==
    ASSUME NEW b \in Seq(Byte), NEW hi \in 0..Len(b), NEW lo \in 0..hi,
           NEW from \in Nat, NEW to \in Nat, lo <= from, to <= hi,
           to = Len(b) \/ \E e \in StartCodes(b) : to = NalPad(b, e)
    PROVE  KeyIn(Slice(b, lo, hi), from - lo, to - lo) = KeyIn(b, from, to)
<1>. DEFINE h == Slice(b, lo, hi)
<1>1. h \in Seq(Byte) /\ Len(b) \in Nat
  BY SliceProperties, LenProperties
<1>2. ASSUME NEW s \in StartCodes(b), from <= s, s < to
      PROVE  s \in Nat /\ s - lo \in StartCodes(h) /\ NalBytes(h, s - lo) = NalBytes(b, s)
  <2>1. s \in Nat /\ lo <= s
    BY <1>2, CodeRange
  <2>2. Whole(b, s, hi)
    <3>1. CASE to = Len(b)
      <4>1. hi = Len(b)
        BY <1>1, <3>1
      <4>. QED  BY <4>1 DEF Whole
    <3>2. CASE \E e \in StartCodes(b) : to = NalPad(b, e)
      <4>1. PICK e \in StartCodes(b) : to = NalPad(b, e)
        BY <3>2
      <4>2. NalPad(b, e) \in 0..e /\ e \in Nat
        BY PadRange, CodeRange
      <4>3. s < e /\ NalPad(b, e) <= hi
        BY <1>2, <2>1, <4>1, <4>2
      <4>. QED  BY <4>3 DEF Whole
    <3>. QED  BY <3>1, <3>2
  <2>3. s + 3 <= hi /\ NalBytes(h, s - lo) = NalBytes(b, s)
    BY <2>1, <2>2, WholeNal
  <2>. HIDE DEF h
  <2>. QED  BY <2>1, <2>3, SliceCodes DEF h
<1>3. ASSUME NEW r \in StartCodes(h), from - lo <= r, r < to - lo
      PROVE  r + lo \in StartCodes(b) /\ from <= r + lo /\ r + lo < to
             /\ NalBytes(h, r) = NalBytes(b, r + lo)
  <2>. DEFINE s == r + lo
  <2>1. r \in Nat
    BY <1>1, CodeRange
  <2>2. s \in Int /\ s - lo = r /\ from <= s /\ s < to
    BY <1>3, <2>1
  <2>. HIDE DEF s, h
  <2>3. s \in StartCodes(b)
    BY <2>2, SliceCodes DEF h
  <2>4. NalBytes(h, s - lo) = NalBytes(b, s)
    BY <1>2, <2>2, <2>3
  <2>. QED  BY <2>2, <2>3, <2>4 DEF s
<1>. HIDE DEF h
<1>4. KeyIn(b, from, to) => KeyIn(h, from - lo, to - lo)
  <2>. SUFFICES ASSUME NEW s \in StartCodes(b), from <= s, s < to, IsVcl(NalBytes(b, s)),
                       IsKeyframeType(NalType(NalBytes(b, s)))
                PROVE  KeyIn(h, from - lo, to - lo)
    BY DEF KeyIn
  <2>1. s \in Nat /\ s - lo \in StartCodes(h) /\ NalBytes(h, s - lo) = NalBytes(b, s)
    BY <1>2
  <2>2. from - lo <= s - lo /\ s - lo < to - lo
    BY <2>1
  <2>. QED  BY <2>1, <2>2 DEF KeyIn
<1>5. KeyIn(h, from - lo, to - lo) => KeyIn(b, from, to)
  BY <1>3 DEF KeyIn
<1>. QED  BY <1>4, <1>5 DEF KeyIn, h

-----------------------------------------------------------------------------
\* Where a window may open that is to show access units of the stream: at its
\* first byte, or where the next one after the first n begins.
OpensAt(b, lo, n) == (n = 0 /\ lo = 0) \/ (n < Units(b) /\ lo = Pad(b, n + 1))

LEMMA AheadOfWindow ==
    ASSUME NEW b \in Seq(Byte), NEW n \in 0..Units(b), NEW lo \in Nat, OpensAt(b, lo, n)
    PROVE  /\ AtCarrier(b, lo)
           /\ \A k \in 1..Units(b) : lo <= Codes(b)[k] <=> n < k
           /\ \A k \in (n + 1)..Units(b) : lo <= Pad(b, k)
<1>. DEFINE N == Units(b)
<1>1. /\ N \in Nat /\ \A k \in 1..N : Codes(b)[k] \in Boundaries(b) /\ Codes(b)[k] \in Nat
      /\ \A i, j \in 1..N : i < j => Codes(b)[i] < Codes(b)[j]
  BY CodesOfUnits
<1>2. /\ \A k \in 1..N : Pad(b, k) \in Nat /\ Pad(b, k) <= Codes(b)[k]
      /\ \A i, j \in 1..N : i < j => Codes(b)[i] + 3 <= Pad(b, j)
      /\ \A i, j \in 1..N : i < j => Pad(b, i) < Pad(b, j)
  BY PadsAscend
<1>. HIDE DEF N
<1>3. CASE n = 0 /\ lo = 0
  <2>1. \A k \in 1..N : 0 <= Codes(b)[k] /\ 0 < k /\ 0 <= Pad(b, k)
    BY <1>1, <1>2
  <2>. QED  BY <1>3, <2>1, AtCarrierStart DEF N
<1>4. CASE n < N /\ lo = Pad(b, n + 1)
  <2>. DEFINE p == n + 1
  <2>1. p \in 1..N /\ n \in Nat /\ \A k \in 1..N : n < k <=> p <= k
    BY <1>1, <1>4 DEF N
  <2>2. lo = Pad(b, p)
    BY <1>4
  <2>3. AtCarrier(b, lo)
    BY <1>1, <2>1, <2>2, FromItsPad DEF Pad
  <2>. HIDE DEF p
  <2>4. ASSUME NEW k \in 1..N, p <= k PROVE lo <= Pad(b, k) /\ lo <= Codes(b)[k]
    <3>1. Pad(b, p) \in Nat /\ Pad(b, k) \in Nat /\ Pad(b, k) <= Codes(b)[k]
          /\ Codes(b)[k] \in Nat
      BY <1>1, <1>2, <2>1
    <3>2. p = k \/ p < k
      BY <2>1, <2>4
    <3>3. p < k => Pad(b, p) < Pad(b, k)
      BY <1>2, <2>1
    <3>. QED  BY <2>2, <3>1, <3>2, <3>3
  <2>5. ASSUME NEW k \in 1..N, ~(p <= k) PROVE ~(lo <= Codes(b)[k])
    <3>1. k < p
      BY <2>1, <2>5
    <3>2. Codes(b)[k] + 3 <= Pad(b, p) /\ Codes(b)[k] \in Nat /\ Pad(b, p) \in Nat
      BY <1>1, <1>2, <2>1, <3>1
    <3>. QED  BY <2>2, <3>2
  <2>6. \A k \in p..N : k \in 1..N /\ p <= k
    BY <1>1, <2>1
  <2>. QED  BY <2>1, <2>3, <2>4, <2>5, <2>6 DEF N, p
<1>. QED  BY <1>3, <1>4 DEF OpensAt, N

\* The window's m access units are the next m of the stream, whose codes and
\* padding stand that far from where it opens.
ShowsNext(b, lo, hi, n, m) ==
    LET h == Slice(b, lo, hi)
    IN  /\ \A k \in (n + 1)..Units(b) : Known(b, lo, Codes(b)[k], hi) <=> k <= n + m
        /\ Units(h) = m
        /\ \A k \in 1..m : /\ Codes(h)[k] = Codes(b)[n + k] - lo
                           /\ Pad(h, k) = Pad(b, n + k) - lo
                           /\ lo <= Pad(b, n + k)
                           /\ Codes(b)[n + k] + 3 <= hi

LEMMA WindowUnits ==
    ASSUME NEW b \in Seq(Byte), NEW hi \in 0..Len(b), NEW lo \in 0..hi,
           NEW n \in 0..Units(b), OpensAt(b, lo, n)
    PROVE  \E m \in 0..(Units(b) - n) : ShowsNext(b, lo, hi, n, m)
<1>. DEFINE N == Units(b)
            h == Slice(b, lo, hi)
            c == Codes(b)
            K == {k \in n..N : k = n \/ Known(b, lo, c[k], hi)}
            m == Max(K) - n
            f == [k \in 1..m |-> c[n + k] - lo]
<1>1. /\ N \in Nat /\ n \in Nat /\ lo \in Nat
      /\ \A k \in 1..N : c[k] \in Boundaries(b) /\ c[k] \in Nat /\ c[k] \in StartCodes(b)
      /\ \A x \in Boundaries(b) : \E k \in 1..N : c[k] = x
      /\ \A i, j \in 1..N : i < j => c[i] < c[j]
  BY CodesOfUnits
<1>2. /\ AtCarrier(b, lo)
      /\ \A k \in 1..N : lo <= c[k] <=> n < k
      /\ \A k \in (n + 1)..N : lo <= Pad(b, k)
  BY <1>1, AheadOfWindow
<1>. HIDE DEF N, c, h
<1>3. ASSUME NEW j \in (n + 1)..N, NEW k \in (n + 1)..N, j < k, Known(b, lo, c[k], hi)
      PROVE  Known(b, lo, c[j], hi)
  <2>1. j \in 1..N /\ k \in 1..N /\ n < j /\ n < k
    BY <1>1
  <2>2. /\ c[j] \in Boundaries(b) /\ lo <= c[j] /\ c[j] < c[k]
        /\ c[k] \in StartCodes(b) /\ lo <= c[k] /\ TypeShows(b, c[k], hi)
    BY <1>1, <1>2, <1>3, <2>1 DEF Known
  <2>. QED  BY <2>2, KnownEarlier
<1>4. K \in SUBSET (0..N) /\ K # {}
  <2>1. n \in n..N /\ \A k \in n..N : k \in 0..N
    BY <1>1 DEF N
  <2>2. n \in K
    BY <2>1
  <2>3. \A k \in K : k \in n..N
    OBVIOUS
  <2>. HIDE DEF K
  <2>. QED  BY <2>1, <2>2, <2>3
<1>5. Max(K) \in K /\ \A k \in K : k <= Max(K)
  <2>. HIDE DEF K
  <2>. QED  BY <1>1, <1>4, MaxExists
<1>6. m \in 0..(N - n) /\ m \in Nat /\ n + m = Max(K)
  <2>1. Max(K) \in n..N
    BY <1>5
  <2>. HIDE DEF K
  <2>. QED  BY <1>1, <2>1
<1>7. \A k \in (n + 1)..N : Known(b, lo, c[k], hi) <=> k <= n + m
  <2>. SUFFICES ASSUME NEW k \in (n + 1)..N PROVE Known(b, lo, c[k], hi) <=> k <= n + m
    OBVIOUS
  <2>1. Known(b, lo, c[k], hi) => k <= n + m
    BY <1>1, <1>5, <1>6
  <2>2. ASSUME k <= n + m PROVE Known(b, lo, c[k], hi)
    <3>. DEFINE x == n + m
    <3>1. x \in (n + 1)..N /\ Known(b, lo, c[x], hi)
      <4>1. n + m \in K /\ n + m # n /\ n + m \in n..N
        BY <1>1, <1>5, <1>6, <2>2
      <4>. HIDE DEF m
      <4>. QED  BY <1>1, <4>1
    <3>2. k \in Nat /\ x \in Nat /\ k <= x
      BY <1>1, <1>6, <2>2
    <3>. HIDE DEF x
    <3>3. k = x \/ k < x
      BY <3>2
    <3>. QED  BY <1>3, <3>1, <3>3
  <2>. QED  BY <2>1, <2>2
<1>. HIDE DEF K, m
<1>8. ASSUME NEW k \in 1..m
      PROVE  /\ n + k \in 1..N /\ n + k \in (n + 1)..N /\ n < n + k
             /\ c[n + k] \in Nat /\ lo <= c[n + k] /\ lo <= Pad(b, n + k)
             /\ c[n + k] \in StartCodes(b) /\ c[n + k] \in Boundaries(b)
             /\ Known(b, lo, c[n + k], hi) /\ c[n + k] + 3 <= hi
  <2>. DEFINE j == n + k
  <2>1. j \in 1..N /\ j \in (n + 1)..N /\ n < j /\ j <= n + m
    BY <1>1, <1>6
  <2>. HIDE DEF j
  <2>2. /\ c[j] \in Nat /\ lo <= c[j] /\ lo <= Pad(b, j)
        /\ c[j] \in StartCodes(b) /\ c[j] \in Boundaries(b)
        /\ Known(b, lo, c[j], hi)
    BY <1>1, <1>2, <1>7, <2>1
  <2>3. c[j] \in TypedIn(b, lo, hi)
    BY <2>2 DEF TypedIn, Known
  <2>4. c[j] + 3 <= hi
    BY <2>3, TypedInRange
  <2>. QED  BY <2>1, <2>2, <2>4 DEF j
<1>9. f \in [1..m -> Nat] /\ \A i, j \in 1..m : i < j => f[i] < f[j]
  <2>1. \A k \in 1..m : c[n + k] - lo \in Nat
    BY <1>1, <1>8
  <2>2. ASSUME NEW i \in 1..m, NEW j \in 1..m, i < j PROVE c[n + i] - lo < c[n + j] - lo
    <3>1. n + i < n + j
      BY <1>1, <1>6, <2>2
    <3>2. c[n + i] < c[n + j] /\ c[n + i] \in Nat /\ c[n + j] \in Nat
      <4>. DEFINE p == n + i
                  q == n + j
      <4>1. p \in 1..N /\ q \in 1..N /\ p < q
        BY <1>8, <3>1
      <4>. HIDE DEF p, q
      <4>2. c[p] < c[q] /\ c[p] \in Nat /\ c[q] \in Nat
        BY <1>1, <4>1
      <4>. QED  BY <4>2 DEF p, q
    <3>. QED  BY <1>1, <3>2
  <2>. QED  BY <2>1, <2>2
<1>10. ASSUME NEW x PROVE x \in Boundaries(h) <=> \E i \in 1..m : x = f[i]
  <2>1. ASSUME x \in Boundaries(h) PROVE \E i \in 1..m : x = f[i]
    <3>1. h \in Seq(Byte)
      BY SliceProperties DEF h
    <3>2. x \in Nat
      BY <2>1, <3>1, BoundaryIsTyped, CodeRange
    <3>. DEFINE y == x + lo
    <3>3. y \in Int /\ y - lo = x
      BY <1>1, <3>2
    <3>. HIDE DEF y
    <3>4. y \in Boundaries(b) /\ lo <= y /\ Known(b, lo, y, hi)
      BY <1>2, <2>1, <3>3, BoundariesOfSlice DEF h
    <3>5. PICK k \in 1..N : c[k] = y
      BY <1>1, <3>4
    <3>6. n < k
      BY <1>2, <3>4, <3>5
    <3>7. k \in (n + 1)..N /\ k \in Nat
      BY <1>1, <3>6
    <3>8. k <= n + m
      BY <1>7, <3>4, <3>5, <3>7
    <3>9. k - n \in 1..m /\ n + (k - n) = k
      BY <1>1, <1>6, <3>7, <3>8
    <3>10. f[k - n] = c[k] - lo
      BY <3>9
    <3>. QED  BY <3>3, <3>5, <3>9, <3>10
  <2>2. ASSUME NEW i \in 1..m PROVE f[i] \in Boundaries(h)
    <3>1. c[n + i] \in Int /\ c[n + i] \in Boundaries(b) /\ lo <= c[n + i]
          /\ Known(b, lo, c[n + i], hi)
      BY <1>8
    <3>2. c[n + i] - lo \in Boundaries(h)
      BY <1>2, <3>1, BoundariesOfSlice DEF h
    <3>. QED  BY <3>2
  <2>. HIDE DEF f
  <2>. QED  BY <2>1, <2>2
<1>11. Cardinality(Boundaries(h)) = m /\ Codes(h) = f
  <2>. HIDE DEF f
  <2>. QED  BY <1>6, <1>9, <1>10, AscendingUnique DEF Codes
<1>12. Units(h) = m
  <2>1. f = [k \in 1..m |-> f[k]]
    OBVIOUS
  <2>. HIDE DEF f
  <2>2. Len(f) = m
    BY <1>6, <2>1
  <2>. QED  BY <1>11, <2>2 DEF Units
<1>13. ASSUME NEW k \in 1..m
       PROVE  Codes(h)[k] = c[n + k] - lo /\ Pad(h, k) = Pad(b, n + k) - lo
  <2>1. Codes(h)[k] = c[n + k] - lo
    BY <1>11
  <2>2. NalPad(h, c[n + k] - lo) = NalPad(b, c[n + k]) - lo
    <3>. DEFINE x == c[n + k]
    <3>1. x \in StartCodes(b) /\ lo <= NalPad(b, x) /\ x + 3 <= hi
      BY <1>8 DEF Pad, c
    <3>. HIDE DEF x
    <3>2. NalPad(h, x - lo) = NalPad(b, x) - lo
      BY <3>1, PadInSlice DEF h
    <3>. QED  BY <3>2 DEF x
  <2>. QED  BY <2>1, <2>2 DEF Pad, c
<1>14. ShowsNext(b, lo, hi, n, m)
  BY <1>7, <1>8, <1>12, <1>13 DEF ShowsNext, N, c, h
<1>. QED  BY <1>6, <1>14 DEF N

-----------------------------------------------------------------------------
(***************************************************************************)
(* What is read out of an SEI message is bytes.                            *)
(***************************************************************************)

\* What parse_sei returns a list of.
Message == [payload_type : Nat, payload : Seq(Byte)]

\* A field of ff bytes ends behind where it began.
LEMMA ReadFfRange ==
    ASSUME NEW data \in Seq(Byte), NEW at \in Nat, ReadFf(data, at) # NoValue
    PROVE  /\ ReadFf(data, at).value \in Nat
           /\ ReadFf(data, at).next \in (at + 1)..Len(data)
<1>. DEFINE ends == {i \in at..(Len(data) - 1) : At(data, i) # 255}
            end  == Min(ends)
<1>1. Len(data) \in Nat
  BY LenProperties
<1>2. /\ ends # {}
      /\ ReadFf(data, at) = [value |-> 255 * (end - at) + At(data, end), next |-> end + 1]
  BY DEF ReadFf
<1>3. ends \in SUBSET Nat /\ \A i \in ends : i \in at..(Len(data) - 1)
  BY <1>1
<1>. HIDE DEF ends
<1>4. end \in at..(Len(data) - 1)
  BY <1>2, <1>3, MinExists
<1>. HIDE DEF end
<1>5. At(data, end) \in 0..255
  <2>1. end \in 0..(Len(data) - 1)
    BY <1>1, <1>4
  <2>. QED  BY <2>1, ByteAt DEF Byte
<1>6. 255 * (end - at) + At(data, end) \in Nat /\ end + 1 \in (at + 1)..Len(data)
  <2>1. end - at \in Nat
    BY <1>4
  <2>2. \A m, n \in Nat : 255 * m + n \in Nat
    OBVIOUS
  <2>3. At(data, end) \in Nat
    <3>. DEFINE x == At(data, end)
    <3>1. x \in 0..255
      BY <1>5
    <3>. HIDE DEF x
    <3>2. x \in Nat
      BY <3>1
    <3>. QED  BY <3>2 DEF x
  <2>. QED  BY <1>1, <1>4, <2>1, <2>2, <2>3
<1>. QED  BY <1>2, <1>6

\* At an offset there is no message, or one and what follows where it ends.
LEMMA MessageAt ==
    ASSUME NEW data \in Seq(Byte), NEW at \in 0..Len(data)
    PROVE  \/ \A rest : MessagesAt(data, ReadFf(data, at), rest) = << >>
           \/ \E m \in Message, end \in (at + 1)..Len(data) :
                 \A rest : MessagesAt(data, ReadFf(data, at), rest) = <<m>> \o rest[end]
<1>. DEFINE type == ReadFf(data, at)
            size == ReadFf(data, type.next)
            end  == size.next + size.value
            m    == [payload_type |-> type.value, payload |-> Slice(data, size.next, end)]
<1>1. Len(data) \in Nat
  BY LenProperties
<1>2. ASSUME type # NoValue, size # NoValue, ~(end > Len(data))
      PROVE  m \in Message /\ end \in (at + 1)..Len(data)
  <2>1. type.value \in Nat /\ type.next \in (at + 1)..Len(data)
    BY <1>2, ReadFfRange
  <2>2. type.next \in Nat
    BY <2>1
  <2>3. size.value \in Nat /\ size.next \in (type.next + 1)..Len(data)
    BY <1>2, <2>2, ReadFfRange
  <2>. HIDE DEF type, size
  <2>4. end \in (at + 1)..Len(data) /\ end \in 0..Len(data) /\ size.next \in 0..end
    BY <1>1, <1>2, <2>1, <2>3
  <2>. HIDE DEF end
  <2>5. Slice(data, size.next, end) \in Seq(Byte)
    BY <2>4, SliceProperties
  <2>. QED  BY <2>1, <2>4, <2>5 DEF Message
<1>3. CASE type = NoValue
  BY <1>3 DEF MessagesAt
<1>4. CASE type # NoValue /\ (size = NoValue \/ end > Len(data))
  BY <1>4 DEF MessagesAt, Messages
<1>5. CASE type # NoValue /\ size # NoValue /\ ~(end > Len(data))
  <2>1. \A rest : MessagesAt(data, type, rest) = <<m>> \o rest[end]
    BY <1>5, Zenon DEF MessagesAt, Messages
  <2>. HIDE DEF m, end
  <2>. QED  BY <1>2, <1>5, <2>1
<1>. QED  BY <1>3, <1>4, <1>5

\* The messages from each of the last k offsets, for some f.
Parses(f, data, k) ==
    \A at \in (Len(data) - k)..Len(data) : f[at] = MessagesAt(data, ReadFf(data, at), f)

\* The walk of parse_sei: the messages from an offset on are the one that
\* stands there and those from where it ends.
LEMMA ParseIs ==
    ASSUME NEW data \in Seq(Byte)
    PROVE  \E g : /\ ParseSeiData(data) = g[0]
                  /\ \A at \in 0..Len(data) : g[at] = MessagesAt(data, ReadFf(data, at), g)
<1>. DEFINE n == Len(data)
            P(f) == f = [at \in 0..n |-> MessagesAt(data, ReadFf(data, at), f)]
            g == CHOOSE f : P(f)
<1>1. n \in Nat
  BY LenProperties
<1>2. << >> \in Seq(Message)
  BY EmptySeq
<1>3. ParseSeiData(data) = g[0]
  BY DEF ParseSeiData
<1>4. \E f : P(f)
  <2>. DEFINE Good == {k \in 0..n : \E f \in [(n - k)..n -> Seq(Message)] : Parses(f, data, k)}
  <2>1. ASSUME NEW k \in 0..(n + 1), NEW f, f \in [(n - k + 1)..n -> Seq(Message)],
               \A at \in (n - k + 1)..n : f[at] = MessagesAt(data, ReadFf(data, at), f),
               k \in 0..n
        PROVE  k \in Good
    <3>. DEFINE a == n - k
                one == MessagesAt(data, ReadFf(data, a), f)
                h == [i \in a..n |-> IF i = a THEN one ELSE f[i]]
    <3>1. a \in 0..n /\ a \in Nat
      BY <1>1, <2>1
    <3>2. one \in Seq(Message)
      <4>1. CASE \A rest : MessagesAt(data, ReadFf(data, a), rest) = << >>
        BY <1>2, <4>1
      <4>2. ASSUME NEW m \in Message, NEW end \in (a + 1)..Len(data),
                   \A rest : MessagesAt(data, ReadFf(data, a), rest) = <<m>> \o rest[end]
            PROVE  one \in Seq(Message)
        <5>1. f[end] \in Seq(Message)
          BY <1>1, <2>1, <4>2
        <5>2. <<m>> \in Seq(Message)
          OBVIOUS
        <5>3. one = <<m>> \o f[end]
          BY <4>2
        <5>. HIDE DEF one
        <5>. QED  BY <5>1, <5>2, <5>3, ConcatProperties
      <4>. QED  BY <3>1, <4>1, <4>2, MessageAt
    <3>3. \A i \in a..n : i = a \/ i \in (n - k + 1)..n
      BY <1>1, <2>1
    <3>4. h \in [a..n -> Seq(Message)]
      <4>. HIDE DEF one
      <4>. QED  BY <2>1, <3>2, <3>3
    <3>. HIDE DEF h
    <3>5. ASSUME NEW at \in a..n
          PROVE  /\ MessagesAt(data, ReadFf(data, at), h) = MessagesAt(data, ReadFf(data, at), f)
                 /\ h[at] = MessagesAt(data, ReadFf(data, at), f)
      <4>1. at \in 0..n
        BY <1>1, <3>1
      <4>2. h[at] = MessagesAt(data, ReadFf(data, at), f)
        <5>1. h[at] = IF at = a THEN one ELSE f[at]
          BY DEF h
        <5>. QED  BY <2>1, <3>3, <5>1
      <4>3. CASE \A rest : MessagesAt(data, ReadFf(data, at), rest) = << >>
        BY <4>2, <4>3
      <4>4. ASSUME NEW m \in Message, NEW end \in (at + 1)..Len(data),
                   \A rest : MessagesAt(data, ReadFf(data, at), rest) = <<m>> \o rest[end]
            PROVE  MessagesAt(data, ReadFf(data, at), h) = MessagesAt(data, ReadFf(data, at), f)
        <5>1. end \in a..n /\ end # a
          BY <1>1, <3>1
        <5>2. h[end] = f[end]
          BY <5>1 DEF h
        <5>. QED  BY <4>4, <5>2
      <4>. QED  BY <4>1, <4>2, <4>3, <4>4, MessageAt
    <3>6. Parses(h, data, k)
      BY <3>5 DEF Parses
    <3>. QED  BY <2>1, <3>4, <3>6
  <2>2. 0 \in Good
    <3>. DEFINE f == [i \in {} |-> << >>]
    <3>1. (n - 0 + 1)..n = {} /\ 0 \in 0..(n + 1) /\ 0 \in 0..n
      BY <1>1
    <3>2. f \in [(n - 0 + 1)..n -> Seq(Message)]
      BY <3>1
    <3>. HIDE DEF f, Good
    <3>. QED  BY <2>1, <3>1, <3>2
  <2>3. ASSUME NEW k \in 0..(n - 1), k \in Good PROVE k + 1 \in Good
    <3>1. PICK f \in [(n - k)..n -> Seq(Message)] : Parses(f, data, k)
      BY <2>3
    <3>2. n - (k + 1) + 1 = n - k /\ k + 1 \in 0..(n + 1) /\ k + 1 \in 0..n
      BY <1>1
    <3>3. \A at \in (n - k)..n : f[at] = MessagesAt(data, ReadFf(data, at), f)
      BY <3>1 DEF Parses
    <3>. HIDE DEF Good
    <3>. QED  BY <2>1, <3>1, <3>2, <3>3
  <2>4. n \in Good
    <3>. HIDE DEF Good
    <3>1. \A k \in 0..n : k \in Good
      BY <1>1, <2>2, <2>3, Upwards
    <3>. QED  BY <1>1, <3>1
  <2>5. PICK f \in [(n - n)..n -> Seq(Message)] : Parses(f, data, n)
    BY <2>4
  <2>6. n - n = 0
    BY <1>1
  <2>7. f \in [0..n -> Seq(Message)] /\ \A at \in 0..n : f[at] = MessagesAt(data, ReadFf(data, at), f)
    BY <2>5, <2>6 DEF Parses
  <2>8. P(f)
    BY <2>7
  <2>. QED  BY <2>8
<1>5. \A at \in 0..n : g[at] = MessagesAt(data, ReadFf(data, at), g)
  <2>1. P(g)
    BY <1>4
  <2>. HIDE DEF g
  <2>. QED  BY <2>1
<1>. HIDE DEF g
<1>. QED  BY <1>3, <1>5

\* What is parsed of any bytes is messages.
LEMMA ParseType ==
    ASSUME NEW data \in Seq(Byte)
    PROVE  ParseSeiData(data) \in Seq(Message)
<1>. DEFINE n == Len(data)
<1>1. n \in Nat
  BY LenProperties
<1>2. << >> \in Seq(Message)
  BY EmptySeq
<1>3. PICK g : /\ ParseSeiData(data) = g[0]
              /\ \A at \in 0..n : g[at] = MessagesAt(data, ReadFf(data, at), g)
  BY ParseIs
<1>5. \A at \in 0..n : g[at] = MessagesAt(data, ReadFf(data, at), g)
  BY <1>3
<1>. DEFINE Good == {k \in 0..n : g[n - k] \in Seq(Message)}
<1>6. ASSUME NEW k \in 0..n, \A j \in 0..(k - 1) : j \in Good
      PROVE  k \in Good
  <2>. DEFINE a == n - k
  <2>1. a \in 0..n
    BY <1>1
  <2>2. CASE \A rest : MessagesAt(data, ReadFf(data, a), rest) = << >>
    BY <1>2, <1>5, <2>1, <2>2
  <2>3. ASSUME NEW m \in Message, NEW end \in (a + 1)..Len(data),
               \A rest : MessagesAt(data, ReadFf(data, a), rest) = <<m>> \o rest[end]
        PROVE  k \in Good
    <3>1. n - end \in 0..(k - 1) /\ n - (n - end) = end
      BY <1>1, <2>1
    <3>2. g[end] \in Seq(Message)
      BY <1>6, <3>1
    <3>3. <<m>> \in Seq(Message)
      OBVIOUS
    <3>4. g[a] = <<m>> \o g[end]
      BY <1>5, <2>1, <2>3
    <3>5. g[a] \in Seq(Message)
      BY <3>2, <3>3, <3>4, ConcatProperties
    <3>. QED  BY <3>5
  <2>. QED  BY <2>1, <2>2, <2>3, MessageAt
<1>7. n \in Good
  <2>. HIDE DEF Good
  <2>1. \A k \in 0..n : k \in Good
    BY <1>1, <1>6, UpwardsFromBelow
  <2>. QED  BY <1>1, <2>1
<1>8. n - n = 0
  BY <1>1
<1>. QED  BY <1>3, <1>7, <1>8

\* The payloads taken off a NAL unit are bytes.
LEMMA UserDataType ==
    ASSUME NEW nal \in Seq(Byte)
    PROVE  UserDataInNal(nal) \in Seq(Seq(Byte))
<1>. DEFINE messages == ParseSei(nal)
            mine == [k \in 1..Len(messages) |->
                        IF IsUserData(messages[k]) THEN <<messages[k].payload>> ELSE << >>]
<1>1. << >> \in Seq(Seq(Byte))
  BY EmptySeq
<1>2. CASE ~IsPrefixSei(nal)
  BY <1>1, <1>2 DEF UserDataInNal
<1>3. CASE IsPrefixSei(nal)
  <2>1. Len(nal) \in Nat /\ HeaderLen \in 0..Len(nal)
    <3>1. NalType(nal) # NoType
      BY <1>3, CodecAssumption DEF IsPrefixSei, PREFIX_SEI, NoType
    <3>. QED  BY <3>1, LenProperties, HeaderLenType, TypeOfLength
  <2>2. messages \in Seq(Message)
    <3>1. Slice(nal, HeaderLen, Len(nal)) \in Seq(Byte)
      <4>1. Len(nal) \in 0..Len(nal)
        BY <2>1
      <4>. QED  BY <2>1, <4>1, SliceProperties
    <3>. QED  BY <3>1, RemoveType, StripType, ParseType DEF ParseSei, ParseSeiRbsp
  <2>3. UserDataInNal(nal) = FlattenSeq(mine)
    BY <1>3, Zenon DEF UserDataInNal
  <2>. HIDE DEF messages
  <2>4. ASSUME NEW k \in 1..Len(messages) PROVE mine[k] \in Seq(Seq(Byte))
    <3>1. messages[k] \in Message
      BY <2>2, ElementOfSeq
    <3>2. messages[k].payload \in Seq(Byte)
      BY <3>1 DEF Message
    <3>3. <<messages[k].payload>> \in Seq(Seq(Byte))
      BY <3>2
    <3>. QED  BY <1>1, <3>3
  <2>5. Len(messages) \in Nat
    BY <2>2, LenProperties
  <2>6. mine \in Seq(Seq(Seq(Byte)))
    BY <2>4, <2>5, IsASeq
  <2>. QED  BY <2>3, <2>6, FlattenType
<1>. QED  BY <1>2, <1>3


-----------------------------------------------------------------------------
\* f[i] is what the bytes of a leb128 from i on spell, for each of them.
Spells(f, b, at, last) ==
    \A i \in at..last :
        f[i] = IF i = last THEN At(b, i) ELSE (At(b, i) % 128) + 128 * f[i + 1]

Lebs(f, b, at, last) == f \in [at..last -> Nat] /\ Spells(f, b, at, last)

\* Its recursive function exists, made from its last byte backwards.
LEMMA LebsExists ==
    ASSUME NEW b \in Seq(Byte), NEW last \in 0..(Len(b) - 1), NEW at \in 0..last
    PROVE  \E f : Lebs(f, b, at, last)
<1>. DEFINE Good == {k \in 0..(last - at) : \E f : Lebs(f, b, last - k, last)}
<1>1. Len(b) \in Nat /\ last \in Nat /\ at \in Nat /\ last - at \in Nat
  BY LenProperties
<1>2. \A i \in at..last : At(b, i) \in Nat /\ At(b, i) % 128 \in Nat
  <2>. SUFFICES ASSUME NEW i \in at..last PROVE At(b, i) \in Nat /\ At(b, i) % 128 \in Nat
    OBVIOUS
  <2>1. At(b, i) \in Byte
    <3>1. i \in 0..(Len(b) - 1)
      BY <1>1
    <3>. QED  BY <3>1, ByteAt
  <2>2. \A n \in Nat : n % 128 \in Nat
    OBVIOUS
  <2>3. At(b, i) \in Nat
    <3>1. \A x \in Byte : x \in Nat
      BY DEF Byte
    <3>. QED  BY <2>1, <3>1
  <2>. QED  BY <2>2, <2>3
<1>3. 0 \in Good
  <2>. DEFINE f == [i \in last..last |-> At(b, last)]
  <2>1. At(b, last) \in Nat
    BY <1>1, <1>2
  <2>2. f \in [last..last -> Nat] /\ \A i \in last..last : i = last /\ f[i] = At(b, i)
    BY <1>1, <2>1
  <2>3. last - 0 = last /\ 0 \in 0..(last - at)
    BY <1>1
  <2>. HIDE DEF f
  <2>4. Lebs(f, b, last, last)
    BY <2>2 DEF Lebs, Spells
  <2>. QED  BY <2>3, <2>4
<1>4. ASSUME NEW k \in 0..((last - at) - 1), k \in Good
      PROVE  k + 1 \in Good
  <2>. DEFINE m == last - (k + 1)
  <2>1. /\ m \in at..last /\ m < last /\ m \in Nat /\ last - k = m + 1
        /\ k + 1 \in 0..(last - at)
    BY <1>1
  <2>2. PICK f : Lebs(f, b, m + 1, last)
    BY <1>4, <2>1
  <2>. HIDE DEF m
  <2>3. f \in [(m + 1)..last -> Nat] /\ m + 1 \in (m + 1)..last
    BY <1>1, <2>1, <2>2 DEF Lebs
  <2>. DEFINE g == [i \in m..last |-> IF i = m THEN (At(b, m) % 128) + 128 * f[m + 1] ELSE f[i]]
  <2>4. \A i \in m..last : i = m \/ i \in (m + 1)..last
    BY <2>1
  <2>5. (At(b, m) % 128) + 128 * f[m + 1] \in Nat
    <3>1. f[m + 1] \in Nat /\ At(b, m) % 128 \in Nat
      BY <1>2, <2>1, <2>3
    <3>. QED  BY <3>1
  <2>6. g \in [m..last -> Nat]
    BY <2>3, <2>4, <2>5
  <2>7. ASSUME NEW i \in m..last
        PROVE  g[i] = IF i = last THEN At(b, i) ELSE (At(b, i) % 128) + 128 * g[i + 1]
    <3>1. CASE i = m
      <4>1. m + 1 \in m..last /\ m + 1 # m /\ i # last
        BY <2>1, <3>1
      <4>. QED  BY <3>1, <4>1
    <3>2. CASE i # m
      <4>1. i \in (m + 1)..last /\ (i # last => i + 1 \in m..last /\ i + 1 # m)
        BY <2>1, <3>2
      <4>2. f[i] = IF i = last THEN At(b, i) ELSE (At(b, i) % 128) + 128 * f[i + 1]
        BY <2>2, <4>1 DEF Lebs, Spells
      <4>. QED  BY <3>2, <4>1, <4>2
    <3>. QED  BY <3>1, <3>2
  <2>. HIDE DEF g
  <2>8. Lebs(g, b, m, last)
    BY <2>6, <2>7 DEF Lebs, Spells
  <2>. QED  BY <2>1, <2>8 DEF m
<1>5. last - at \in Good
  <2>1. \A k \in 0..((last - at) - 1) : k \in Good => k + 1 \in Good
    BY <1>4
  <2>. HIDE DEF Good
  <2>2. \A k \in 0..(last - at) : k \in Good
    BY <1>1, <1>3, <2>1, Upwards
  <2>. QED  BY <1>1, <2>2
<1>6. last - (last - at) = at
  BY <1>1
<1>. QED  BY <1>5, <1>6

\* The bytes of b from at to last are those of d from to to end.
SpellAlike(b, at, last, d, to, end) ==
    /\ at \in Nat /\ last \in Nat /\ at <= last
    /\ to \in Nat /\ end \in Nat /\ end - to = last - at
    /\ \A k \in 0..(last - at) : At(b, last - k) = At(d, end - k)

\* What a leb128 spells depends on its bytes alone, wherever they stand.
LEMMA SpellsAgree ==
    ASSUME NEW b, NEW d, NEW at, NEW last, NEW to, NEW end,
           SpellAlike(b, at, last, d, to, end),
           NEW f, NEW g, Spells(f, b, at, last), Spells(g, d, to, end)
    PROVE  f[at] = g[to]
<1>. USE DEF SpellAlike
<1>. DEFINE Good == {k \in 0..(last - at) : f[last - k] = g[end - k]}
<1>1. last - at \in Nat /\ to <= end
  OBVIOUS
<1>2. 0 \in Good
  <2>1. last - 0 = last /\ end - 0 = end /\ last \in at..last /\ end \in to..end /\ 0 \in 0..(last - at)
    OBVIOUS
  <2>. QED  BY <2>1 DEF Spells
<1>3. ASSUME NEW k \in 0..((last - at) - 1), k \in Good PROVE k + 1 \in Good
  <2>1. /\ last - (k + 1) \in at..last /\ last - (k + 1) # last /\ (last - (k + 1)) + 1 = last - k
        /\ end - (k + 1) \in to..end /\ end - (k + 1) # end /\ (end - (k + 1)) + 1 = end - k
        /\ k + 1 \in 0..(last - at)
    OBVIOUS
  <2>2. f[last - (k + 1)] = (At(b, last - (k + 1)) % 128) + 128 * f[last - k]
    BY <2>1 DEF Spells
  <2>3. g[end - (k + 1)] = (At(d, end - (k + 1)) % 128) + 128 * g[end - k]
    BY <2>1 DEF Spells
  <2>. QED  BY <1>3, <2>1, <2>2, <2>3
<1>4. last - at \in Good
  <2>1. \A k \in 0..((last - at) - 1) : k \in Good => k + 1 \in Good
    BY <1>3
  <2>. HIDE DEF Good
  <2>2. \A k \in 0..(last - at) : k \in Good
    BY <1>1, <1>2, <2>1, Upwards
  <2>. QED  BY <1>1, <2>2
<1>5. last - (last - at) = at /\ end - (last - at) = to
  OBVIOUS
<1>. QED  BY <1>4, <1>5

LEMMA LebValueIs ==
    ASSUME NEW b \in Seq(Byte), NEW last \in 0..(Len(b) - 1), NEW at \in 0..last
    PROVE  \E f : /\ Lebs(f, b, at, last)
                  /\ LebValue(b, at, last) = [value |-> f[at], next |-> last + 1]
<1>. DEFINE P(f) == f = [i \in at..last |->
                           IF i = last THEN At(b, i) ELSE (At(b, i) % 128) + 128 * f[i + 1]]
            g == CHOOSE f : P(f)
<1>1. at \in Nat /\ last \in Nat /\ at <= last /\ last - at = last - at /\ Len(b) \in Nat
  BY LenProperties
<1>2. PICK f : Lebs(f, b, at, last)
  BY LebsExists
<1>3. P(f)
  BY <1>2 DEF Lebs, Spells
<1>4. P(g)
  BY <1>3
<1>5. LebValue(b, at, last) = [value |-> g[at], next |-> last + 1]
  BY DEF LebValue
<1>. HIDE DEF g
<1>6. Spells(g, b, at, last)
  BY <1>4 DEF Spells
<1>7. Spells(f, b, at, last)
  BY <1>2 DEF Lebs
<1>8. f[at] = g[at]
  <2>. DEFINE Same == \A k \in 0..(last - at) : At(b, last - k) = At(b, last - k)
  <2>1. Same
    OBVIOUS
  <2>. HIDE DEF P, Same
  <2>2. SpellAlike(b, at, last, b, at, last)
    BY <1>1, <2>1 DEF Same, SpellAlike
  <2>. QED  BY <1>6, <1>7, <2>2, SpellsAgree
<1>. QED  BY <1>2, <1>5, <1>8

-----------------------------------------------------------------------------
\* The bytes a leb128 at `at` may end in.
LebEnds(b, at) == {i \in at..(at + 7) : i < Len(b) /\ At(b, i) < 128}

\* A leb128 ends in the first of them.
LEMMA LebIs ==
    ASSUME NEW b \in Seq(Byte), NEW at \in Nat
    PROVE  \/ LebEnds(b, at) = {} /\ Leb128(b, at) = [value |-> -1, next |-> -1]
           \/ \E last \in LebEnds(b, at) :
                 /\ \A i \in LebEnds(b, at) : last <= i
                 /\ last \in 0..(Len(b) - 1) /\ at \in 0..last
                 /\ Leb128(b, at) = LebValue(b, at, last)
<1>. DEFINE S == LebEnds(b, at)
<1>1. Len(b) \in Nat
  BY LenProperties
<1>2. S \in SUBSET Nat /\ \A i \in S : i \in 0..(Len(b) - 1) /\ at \in 0..i
  BY <1>1 DEF LebEnds
<1>3. Leb128(b, at) = IF S = {} THEN [value |-> -1, next |-> -1] ELSE LebValue(b, at, Min(S))
  BY DEF Leb128, LebEnds
<1>. HIDE DEF S
<1>4. S # {} => Min(S) \in S /\ \A i \in S : Min(S) <= i
  BY <1>2, MinExists
<1>. QED  BY <1>2, <1>3, <1>4 DEF S

\* A value with the offset behind it, or neither.
LEMMA LebRange ==
    ASSUME NEW b \in Seq(Byte), NEW at \in Nat
    PROVE  \/ Leb128(b, at).value = -1
           \/ Leb128(b, at).value \in Nat /\ Leb128(b, at).next \in (at + 1)..Len(b)
<1>1. Len(b) \in Nat
  BY LenProperties
<1>2. CASE Leb128(b, at) = [value |-> -1, next |-> -1]
  BY <1>2
<1>3. ASSUME NEW last \in 0..(Len(b) - 1), at \in 0..last, Leb128(b, at) = LebValue(b, at, last)
      PROVE  Leb128(b, at).value \in Nat /\ Leb128(b, at).next \in (at + 1)..Len(b)
  <2>1. PICK f : /\ Lebs(f, b, at, last)
                 /\ LebValue(b, at, last) = [value |-> f[at], next |-> last + 1]
    BY <1>3, LebValueIs
  <2>2. f[at] \in Nat
    BY <1>3, <2>1 DEF Lebs
  <2>. QED  BY <1>1, <1>3, <2>1, <2>2
<1>. QED  BY <1>2, <1>3, LebIs

\* A part of the bytes that holds the whole of a leb128 shows it, and one that
\* holds less of it shows none.
LEMMA LebInSlice ==
    ASSUME NEW b \in Seq(Byte), NEW hi \in 0..Len(b), NEW lo \in 0..hi, NEW at \in Nat
    PROVE  LET h == Slice(b, lo, hi)
           IN  /\ Leb128(h, at).value # -1 =>
                     /\ Leb128(b, lo + at).value = Leb128(h, at).value
                     /\ Leb128(b, lo + at).next = lo + Leb128(h, at).next
               /\ Leb128(b, lo + at).value # -1 /\ Leb128(b, lo + at).next <= hi =>
                     Leb128(h, at).value # -1
<1>. DEFINE h == Slice(b, lo, hi)
            to == lo + at
<1>1. Len(b) \in Nat /\ lo \in Nat /\ hi \in Nat /\ to \in Nat /\ lo <= hi /\ hi <= Len(b)
  BY LenProperties
<1>2. /\ h \in Seq(Byte) /\ Len(h) = hi - lo
      /\ \A i \in 0..(hi - lo - 1) : At(h, i) = At(b, lo + i)
  BY SliceProperties
<1>. HIDE DEF h
<1>3. ASSUME NEW i \in LebEnds(h, at) PROVE lo + i \in LebEnds(b, to)
  <2>1. i \in at..(at + 7) /\ i < hi - lo /\ At(h, i) < 128 /\ i \in 0..(hi - lo - 1)
    BY <1>1, <1>2 DEF LebEnds
  <2>2. At(b, lo + i) < 128
    BY <1>2, <2>1
  <2>. QED  BY <1>1, <2>1, <2>2 DEF LebEnds
<1>4. ASSUME NEW i \in LebEnds(b, to), i < hi PROVE i - lo \in LebEnds(h, at)
  <2>1. i \in to..(to + 7) /\ At(b, i) < 128
    BY DEF LebEnds
  <2>2. i - lo \in 0..(hi - lo - 1) /\ lo + (i - lo) = i /\ i - lo \in at..(at + 7)
    BY <1>1, <1>4, <2>1
  <2>3. At(h, i - lo) < 128
    BY <1>2, <2>1, <2>2
  <2>. QED  BY <1>1, <1>2, <2>2, <2>3 DEF LebEnds
<1>5. ASSUME Leb128(h, at).value # -1
      PROVE  /\ Leb128(b, to).value = Leb128(h, at).value
             /\ Leb128(b, to).next = lo + Leb128(h, at).next
  <2>1. PICK l \in LebEnds(h, at) :
            /\ \A i \in LebEnds(h, at) : l <= i
            /\ l \in 0..(Len(h) - 1) /\ at \in 0..l
            /\ Leb128(h, at) = LebValue(h, at, l)
    BY <1>2, <1>5, LebIs
  <2>2. lo + l \in LebEnds(b, to)
    BY <1>3
  <2>3. PICK m \in LebEnds(b, to) :
            /\ \A i \in LebEnds(b, to) : m <= i
            /\ m \in 0..(Len(b) - 1) /\ to \in 0..m
            /\ Leb128(b, to) = LebValue(b, to, m)
    BY <1>1, <2>2, LebIs
  <2>4. m <= lo + l /\ m < hi
    BY <1>1, <1>2, <2>1, <2>2, <2>3
  <2>5. l <= m - lo
    BY <1>4, <2>1, <2>4
  <2>6. m = lo + l
    BY <1>1, <2>1, <2>3, <2>4, <2>5
  <2>7. PICK f : Lebs(f, h, at, l) /\ LebValue(h, at, l) = [value |-> f[at], next |-> l + 1]
    BY <1>2, <2>1, LebValueIs
  <2>8. PICK g : Lebs(g, b, to, m) /\ LebValue(b, to, m) = [value |-> g[to], next |-> m + 1]
    BY <2>3, LebValueIs
  <2>9. SpellAlike(h, at, l, b, to, m)
    <3>1. \A k \in 0..(l - at) : At(h, l - k) = At(b, m - k)
      <4>. SUFFICES ASSUME NEW k \in 0..(l - at) PROVE At(h, l - k) = At(b, m - k)
        OBVIOUS
      <4>1. l - k \in 0..(hi - lo - 1) /\ lo + (l - k) = m - k
        BY <1>1, <1>2, <2>1, <2>6
      <4>. QED  BY <1>2, <4>1
    <3>2. m - to = l - at
      BY <1>1, <2>1, <2>6
    <3>. QED  BY <1>1, <2>1, <2>3, <3>1, <3>2 DEF SpellAlike
  <2>10. f[at] = g[to]
    <3>. HIDE DEF to
    <3>1. Spells(f, h, at, l) /\ Spells(g, b, to, m)
      BY <2>7, <2>8 DEF Lebs
    <3>. QED  BY <2>9, <3>1, SpellsAgree
  <2>. QED  BY <1>1, <2>1, <2>3, <2>6, <2>7, <2>8, <2>10
<1>6. ASSUME Leb128(b, to).value # -1, Leb128(b, to).next <= hi
      PROVE  Leb128(h, at).value # -1
  <2>1. PICK m \in LebEnds(b, to) :
            /\ m \in 0..(Len(b) - 1) /\ to \in 0..m
            /\ Leb128(b, to) = LebValue(b, to, m)
    BY <1>1, <1>6, LebIs
  <2>2. Leb128(b, to).next = m + 1
    BY <2>1 DEF LebValue
  <2>3. LebEnds(h, at) # {}
    BY <1>1, <1>4, <1>6, <2>1, <2>2
  <2>4. PICK l \in LebEnds(h, at) :
            /\ l \in 0..(Len(h) - 1) /\ at \in 0..l
            /\ Leb128(h, at) = LebValue(h, at, l)
    BY <1>2, <2>3, LebIs
  <2>5. PICK f : Lebs(f, h, at, l) /\ LebValue(h, at, l) = [value |-> f[at], next |-> l + 1]
    BY <1>2, <2>4, LebValueIs
  <2>6. f[at] \in Nat
    BY <1>2, <2>4, <2>5 DEF Lebs
  <2>. QED  BY <2>4, <2>5, <2>6
<1>. QED  BY <1>5, <1>6 DEF h

-----------------------------------------------------------------------------
\* What an OBU is, part by part.
LEMMA ObuIs ==
    ASSUME NEW b, NEW at
    PROVE  LET header == At(b, at)
               body   == BodyAt(header, at)
               size   == SizeAt(b, header, body)
           IN  /\ ObuAt(b, at).outcome = Outcome(b, header, body, size)
               /\ ObuAt(b, at).kind = (header \div 8) % 16
               /\ ObuAt(b, at).sized = Sized(header)
               /\ ObuAt(b, at).end = size.next + size.value
  BY DEF ObuAt, ObuRead, ObuOf

LEMMA BodyIs ==
    ASSUME NEW header \in Byte
    PROVE  /\ \A at \in Nat : BodyAt(header, at) \in (at + 1)..(at + 2)
           /\ \A at, lo \in Nat : BodyAt(header, lo + at) = lo + BodyAt(header, at)
<1>. DEFINE more == (header \div 4) % 2
<1>1. more \in 0..1
  <2>1. \A n \in Nat : (n \div 4) % 2 \in 0..1
    OBVIOUS
  <2>2. \A x \in Byte : x \in Nat
    BY DEF Byte
  <2>. QED  BY <2>1, <2>2
<1>2. \A i : BodyAt(header, i) = (i + 1) + more
  BY DEF BodyAt
<1>. HIDE DEF more
<1>. QED  BY <1>1, <1>2

\* An OBU that is all there ends behind its header and inside the bytes.
LEMMA ObuRange ==
    ASSUME NEW b \in Seq(Byte), NEW at \in 0..(Len(b) - 1), ObuAt(b, at).outcome = "obu"
    PROVE  /\ ObuAt(b, at).end \in (at + 1)..Len(b)
           /\ ObuAt(b, at).sized \in BOOLEAN
           /\ ~ObuAt(b, at).sized => ObuAt(b, at).end = Len(b)
<1>. DEFINE header == At(b, at)
            body   == BodyAt(header, at)
            size   == SizeAt(b, header, body)
<1>1. Len(b) \in Nat /\ at \in Nat /\ header \in Byte
  BY LenProperties, ByteAt
<1>2. body \in (at + 1)..(at + 2) /\ body \in Nat
  <2>1. \A i \in Nat : BodyAt(header, i) \in (i + 1)..(i + 2)
    BY <1>1, BodyIs
  <2>2. body \in (at + 1)..(at + 2)
    BY <1>1, <2>1
  <2>. HIDE DEF body
  <2>. QED  BY <1>1, <2>2
<1>3. /\ Outcome(b, header, body, size) = "obu" /\ ObuAt(b, at).end = size.next + size.value
      /\ ObuAt(b, at).sized = Sized(header)
  BY ObuIs
<1>. HIDE DEF header, body
<1>4. ~(body > Len(b)) /\ size.value # -1 /\ ~(size.next + size.value > Len(b))
  <2>. HIDE DEF size
  <2>. QED  BY <1>3, Zenon DEF Outcome
<1>5. CASE Sized(header)
  <2>1. size = Leb128(b, body)
    BY <1>5 DEF SizeAt
  <2>. HIDE DEF size
  <2>2. size.value \in Nat /\ size.next \in (body + 1)..Len(b)
    BY <1>2, <1>4, <2>1, LebRange
  <2>. QED  BY <1>1, <1>2, <1>3, <1>4, <1>5, <2>2
<1>6. CASE ~Sized(header)
  <2>1. size = [value |-> Len(b) - body, next |-> body]
    BY <1>6 DEF SizeAt
  <2>. HIDE DEF size
  <2>2. size.next + size.value = Len(b)
    BY <1>1, <1>2, <2>1
  <2>3. Sized(header) \in BOOLEAN
    BY DEF Sized
  <2>. QED  BY <1>1, <1>2, <1>3, <1>4, <1>6, <2>2, <2>3
<1>. QED  BY <1>5, <1>6

\* What a part of the bytes shows of an OBU: its header; all of one with a size
\* that lies in it; nothing that is not so, but for a size that with the bytes
\* in front is too large; and no error the whole has not.
LEMMA ObuInSlice ==
    ASSUME NEW b \in Seq(Byte), NEW hi \in 0..Len(b), NEW lo \in 0..hi,
           NEW at \in 0..(hi - lo - 1)
    PROVE  LET o == ObuAt(b, lo + at)
               p == ObuAt(Slice(b, lo, hi), at)
           IN  /\ p.kind = o.kind /\ p.sized = o.sized
               /\ o.outcome = "obu" /\ o.end <= hi /\ (o.sized \/ hi = Len(b)) =>
                     p.outcome = "obu" /\ o.end = lo + p.end
               /\ p.outcome = "obu" /\ (p.sized \/ hi = Len(b)) =>
                     o.outcome \in {"obu", "toolarge"} /\ o.end = lo + p.end
               /\ p.outcome \in {"forbidden", "toolarge"} =>
                     o.outcome \in {"forbidden", "toolarge"}
<1>. DEFINE h == Slice(b, lo, hi)
            o == ObuAt(b, lo + at)
            p == ObuAt(h, at)
            header == At(h, at)
            body == BodyAt(header, at)
            psize == SizeAt(h, header, body)
            osize == SizeAt(b, header, lo + body)
<1>1. Len(b) \in Nat /\ lo \in Nat /\ hi \in Nat /\ at \in Nat /\ lo <= hi /\ hi <= Len(b)
  BY LenProperties
<1>2. h \in Seq(Byte) /\ Len(h) = hi - lo /\ header = At(b, lo + at)
  BY SliceProperties
<1>. HIDE DEF h
<1>3. header \in Byte
  <2>1. at \in 0..(Len(h) - 1)
    BY <1>2
  <2>. QED  BY <1>2, <2>1, ByteAt
<1>4. body \in Nat /\ BodyAt(header, lo + at) = lo + body
  <2>1. /\ \A i \in Nat : BodyAt(header, i) \in (i + 1)..(i + 2)
        /\ \A i, j \in Nat : BodyAt(header, j + i) = j + BodyAt(header, i)
    BY <1>3, BodyIs
  <2>2. body \in (at + 1)..(at + 2) /\ BodyAt(header, lo + at) = lo + body
    BY <1>1, <2>1
  <2>. HIDE DEF body
  <2>. QED  BY <1>1, <2>2
<1>5. /\ p.outcome = Outcome(h, header, body, psize) /\ p.kind = (header \div 8) % 16
      /\ p.sized = Sized(header) /\ p.end = psize.next + psize.value
  BY ObuIs
<1>6. /\ o.outcome = Outcome(b, header, lo + body, osize) /\ o.kind = (header \div 8) % 16
      /\ o.sized = Sized(header) /\ o.end = osize.next + osize.value
  BY <1>2, <1>4, ObuIs
<1>7. Sized(header) => psize = Leb128(h, body) /\ osize = Leb128(b, lo + body)
  BY DEF SizeAt
<1>8. ~Sized(header) => /\ psize = [value |-> Len(h) - body, next |-> body]
                        /\ osize = [value |-> Len(b) - (lo + body), next |-> lo + body]
  BY DEF SizeAt
<1>. HIDE DEF header, body, psize, osize, o, p
<1>9. ASSUME Sized(header)
      PROVE  /\ psize.value = -1 \/ (psize.value \in Nat /\ psize.next \in Nat)
             /\ osize.value = -1 \/ (osize.value \in Nat /\ osize.next \in Nat)
             /\ psize.value # -1 => osize.value = psize.value /\ osize.next = lo + psize.next
             /\ osize.value # -1 /\ osize.next <= hi => psize.value # -1
             /\ psize.value # -1 => body <= psize.next /\ psize.next <= Len(h)
  <2>1. /\ psize.value # -1 => osize.value = psize.value /\ osize.next = lo + psize.next
        /\ osize.value # -1 /\ osize.next <= hi => psize.value # -1
    BY <1>1, <1>4, <1>7, <1>9, LebInSlice DEF h
  <2>2. psize.value = -1 \/ (psize.value \in Nat /\ psize.next \in (body + 1)..Len(h))
    BY <1>2, <1>4, <1>7, <1>9, LebRange
  <2>3. osize.value = -1 \/ (osize.value \in Nat /\ osize.next \in (lo + body + 1)..Len(b))
    <3>1. lo + body \in Nat
      BY <1>1, <1>4
    <3>. QED  BY <1>7, <1>9, <3>1, LebRange
  <2>. QED  BY <1>1, <1>2, <1>4, <2>1, <2>2, <2>3
<1>10. ASSUME ~Sized(header)
       PROVE  /\ psize.value = Len(h) - body /\ psize.next + psize.value = Len(h)
              /\ osize.value = Len(b) - (lo + body) /\ osize.next + osize.value = Len(b)
  BY <1>1, <1>2, <1>4, <1>8, <1>10
<1>11. UsizeMax \in Nat
  BY UsizeAssumption
<1>12. ASSUME o.outcome = "obu", o.end <= hi, o.sized \/ hi = Len(b)
       PROVE  p.outcome = "obu" /\ o.end = lo + p.end
  <2>1. /\ ~(header >= 128) /\ ~(lo + body > Len(b)) /\ osize.value # -1
        /\ ~(osize.next + osize.value > UsizeMax) /\ ~(osize.next + osize.value > Len(b))
    BY <1>6, <1>12 DEF Outcome
  <2>2. CASE Sized(header)
    <3>1. osize.next <= hi
      BY <1>1, <1>6, <1>9, <1>12, <2>1, <2>2
    <3>2. psize.value # -1 /\ psize.value \in Nat /\ psize.next \in Nat
          /\ osize.value = psize.value /\ osize.next = lo + psize.next
          /\ body <= psize.next /\ psize.next <= Len(h)
      BY <1>9, <2>1, <2>2, <3>1
    <3>3. /\ ~(body > Len(h)) /\ ~(psize.next + psize.value > UsizeMax)
          /\ ~(psize.next + psize.value > Len(h)) /\ o.end = lo + p.end
      <4>. DEFINE v == psize.value
                  n == psize.next
      <4>1. v \in Nat /\ n \in Nat /\ osize.value = v /\ osize.next = lo + n /\ body <= n
        BY <3>2
      <4>2. p.end = n + v /\ o.end = (lo + n) + v
        BY <1>5, <1>6, <4>1
      <4>3. ~((lo + n) + v > UsizeMax)
        BY <2>1, <4>1
      <4>. HIDE DEF v, n
      <4>4. (lo + n) + v <= hi /\ (lo + n) + v <= UsizeMax
        BY <1>1, <1>11, <1>12, <4>1, <4>2, <4>3
      <4>5. ~(body > Len(h)) /\ ~(n + v > UsizeMax) /\ ~(n + v > Len(h))
        BY <1>1, <1>2, <1>4, <1>11, <4>1, <4>4
      <4>6. o.end = lo + p.end
        BY <1>1, <4>1, <4>2
      <4>. QED  BY <4>5, <4>6 DEF v, n
    <3>. QED  BY <1>5, <2>1, <3>2, <3>3 DEF Outcome
  <2>3. CASE ~Sized(header)
    <3>1. hi = Len(b)
      BY <1>6, <1>12, <2>3
    <3>2. psize.value = osize.value /\ psize.next + psize.value = Len(h)
      BY <1>1, <1>2, <1>4, <1>10, <2>3, <3>1
    <3>3. /\ ~(body > Len(h)) /\ ~(Len(h) > UsizeMax) /\ o.end = lo + p.end
      BY <1>1, <1>2, <1>4, <1>5, <1>6, <1>10, <1>11, <2>1, <2>3, <3>1, <3>2
    <3>4. ~(psize.next + psize.value > Len(h)) /\ ~(psize.next + psize.value > UsizeMax)
      BY <1>1, <1>2, <1>11, <3>2, <3>3
    <3>. QED  BY <1>5, <2>1, <3>2, <3>3, <3>4 DEF Outcome
  <2>. QED  BY <2>2, <2>3
<1>13. ASSUME p.outcome = "obu", p.sized \/ hi = Len(b)
       PROVE  o.outcome \in {"obu", "toolarge"} /\ o.end = lo + p.end
  <2>1. /\ ~(header >= 128) /\ ~(body > Len(h)) /\ psize.value # -1
        /\ ~(psize.next + psize.value > UsizeMax) /\ ~(psize.next + psize.value > Len(h))
    BY <1>5, <1>13 DEF Outcome
  <2>2. CASE Sized(header)
    <3>1. /\ osize.value # -1 /\ psize.value \in Nat /\ psize.next \in Nat
          /\ osize.value = psize.value /\ osize.next = lo + psize.next
      BY <1>9, <2>1, <2>2
    <3>2. /\ ~(lo + body > Len(b)) /\ ~(osize.next + osize.value > Len(b)) /\ o.end = lo + p.end
      <4>. DEFINE v == psize.value
                  n == psize.next
      <4>1. v \in Nat /\ n \in Nat /\ osize.value = v /\ osize.next = lo + n
        BY <3>1
      <4>2. p.end = n + v /\ o.end = (lo + n) + v /\ ~(n + v > Len(h))
        BY <1>5, <1>6, <2>1, <4>1
      <4>. HIDE DEF v, n
      <4>3. ~(lo + body > Len(b)) /\ ~((lo + n) + v > Len(b))
        BY <1>1, <1>2, <1>4, <2>1, <4>1, <4>2
      <4>4. o.end = lo + p.end
        BY <1>1, <4>1, <4>2
      <4>. QED  BY <4>1, <4>3, <4>4
    <3>. QED  BY <1>6, <2>1, <3>1, <3>2 DEF Outcome
  <2>3. CASE ~Sized(header)
    <3>1. hi = Len(b)
      BY <1>5, <1>13, <2>3
    <3>2. osize.value = psize.value /\ osize.next + osize.value = Len(b)
      BY <1>1, <1>2, <1>4, <1>10, <2>3, <3>1
    <3>3. ~(lo + body > Len(b)) /\ o.end = lo + p.end /\ ~(osize.next + osize.value > Len(b))
      BY <1>1, <1>2, <1>4, <1>5, <1>6, <1>10, <2>1, <2>3, <3>1, <3>2
    <3>. QED  BY <1>6, <2>1, <3>2, <3>3 DEF Outcome
  <2>. QED  BY <2>2, <2>3
<1>14. ASSUME p.outcome \in {"forbidden", "toolarge"}
       PROVE  o.outcome \in {"forbidden", "toolarge"}
  <2>1. CASE header >= 128
    BY <1>6, <2>1 DEF Outcome
  <2>2. CASE ~(header >= 128)
    <3>1. ~(body > Len(h)) /\ psize.value # -1 /\ psize.next + psize.value > UsizeMax
      BY <1>5, <1>14, <2>2 DEF Outcome
    <3>2. ~(lo + body > Len(b))
      BY <1>1, <1>2, <1>4, <3>1
    <3>3. osize.value # -1 /\ osize.next + osize.value > UsizeMax
      <4>1. CASE Sized(header)
        BY <1>1, <1>9, <1>11, <3>1, <4>1
      <4>2. CASE ~Sized(header)
        BY <1>1, <1>2, <1>4, <1>10, <1>11, <3>1, <3>2, <4>2
      <4>. QED  BY <4>1, <4>2
    <3>. QED  BY <1>6, <2>2, <3>2, <3>3 DEF Outcome
  <2>. QED  BY <2>1, <2>2
<1>. QED  BY <1>5, <1>6, <1>12, <1>13, <1>14 DEF h, o, p

\* The bytes of an OBU's own, from where its size field ends.
LEMMA ObuPayloadIs ==
    ASSUME NEW b, NEW at, ObuAt(b, at).outcome = "obu"
    PROVE  LET size == SizeAt(b, At(b, at), BodyAt(At(b, at), at))
           IN  ObuAt(b, at).payload = Slice(b, size.next, size.next + size.value)
  BY DEF ObuAt, ObuRead, ObuOf

\* An OBU that was read has the same payload in a slice.
LEMMA ObuPayloadInSlice ==
    ASSUME NEW b \in Seq(Byte), NEW hi \in 0..Len(b), NEW lo \in 0..hi,
           NEW at \in 0..(hi - lo - 1),
           ObuAt(b, lo + at).outcome = "obu", ObuAt(Slice(b, lo, hi), at).outcome = "obu",
           ObuAt(b, lo + at).sized \/ hi = Len(b)
    PROVE  ObuAt(Slice(b, lo, hi), at).payload = ObuAt(b, lo + at).payload
<1>. DEFINE h == Slice(b, lo, hi)
            header == At(h, at)
            body == BodyAt(header, at)
            psize == SizeAt(h, header, body)
            osize == SizeAt(b, header, lo + body)
<1>1. Len(b) \in Nat /\ lo \in Nat /\ hi \in Nat /\ at \in Nat /\ lo <= hi /\ hi <= Len(b)
  BY LenProperties
<1>2. /\ h \in Seq(Byte) /\ Len(h) = hi - lo /\ header = At(b, lo + at)
      /\ \A i \in 0..(hi - lo - 1) : At(h, i) = At(b, lo + i)
  BY SliceProperties
<1>3. ObuAt(h, at).outcome = "obu" /\ ObuAt(b, lo + at).outcome = "obu"
  OBVIOUS
<1>. HIDE DEF h
<1>4. header \in Byte
  <2>1. at \in 0..(Len(h) - 1)
    BY <1>2
  <2>. QED  BY <1>2, <2>1, ByteAt
<1>5. body \in Nat /\ BodyAt(header, lo + at) = lo + body
  <2>1. /\ \A i \in Nat : BodyAt(header, i) \in (i + 1)..(i + 2)
        /\ \A i, j \in Nat : BodyAt(header, j + i) = j + BodyAt(header, i)
    BY <1>4, BodyIs
  <2>2. body \in (at + 1)..(at + 2) /\ BodyAt(header, lo + at) = lo + body
    BY <1>1, <2>1
  <2>. HIDE DEF body
  <2>. QED  BY <1>1, <2>2
<1>6. /\ ObuAt(h, at).payload = Slice(h, psize.next, psize.next + psize.value)
      /\ ObuAt(b, lo + at).payload = Slice(b, osize.next, osize.next + osize.value)
      /\ Outcome(h, header, body, psize) = "obu"
      /\ ObuAt(b, lo + at).sized = Sized(header)
  BY <1>2, <1>3, <1>5, ObuIs, ObuPayloadIs
<1>7. Sized(header) => psize = Leb128(h, body) /\ osize = Leb128(b, lo + body)
  BY DEF SizeAt
<1>8. ~Sized(header) => /\ psize = [value |-> Len(h) - body, next |-> body]
                        /\ osize = [value |-> Len(b) - (lo + body), next |-> lo + body]
  BY DEF SizeAt
<1>9. Sized(header) \/ hi = Len(b)
  BY <1>6
<1>. DEFINE v == psize.value
            n == psize.next
<1>10. ~(body > Len(h)) /\ v # -1 /\ ~(n + v > Len(h))
  BY <1>6 DEF Outcome
<1>11. v \in Nat /\ n \in Nat /\ osize.value = v /\ osize.next = lo + n
  <2>1. CASE Sized(header)
    <3>1. v = -1 \/ (v \in Nat /\ n \in (body + 1)..Len(h))
      BY <1>2, <1>5, <1>7, <2>1, LebRange
    <3>2. v # -1 => osize.value = v /\ osize.next = lo + n
      BY <1>1, <1>5, <1>7, <2>1, LebInSlice DEF h
    <3>. HIDE DEF body, psize, osize, header
    <3>. QED  BY <1>1, <1>2, <1>5, <1>10, <3>1, <3>2
  <2>2. CASE ~Sized(header)
    <3>. HIDE DEF body, psize, osize, header
    <3>. QED  BY <1>1, <1>2, <1>5, <1>8, <1>9, <1>10, <2>2
  <2>. QED  BY <2>1, <2>2
<1>. HIDE DEF v, n
<1>12. n + v \in 0..Len(h) /\ n \in 0..(n + v)
  BY <1>1, <1>2, <1>10, <1>11
<1>13. lo + (n + v) \in 0..Len(b) /\ lo + n \in 0..(lo + (n + v)) /\ (lo + n) + v = lo + (n + v)
  BY <1>1, <1>2, <1>11, <1>12
<1>14. \A i \in 0..((n + v) - n - 1) : At(h, n + i) = At(b, (lo + n) + i)
  <2>. SUFFICES ASSUME NEW i \in 0..((n + v) - n - 1)
                PROVE  At(h, n + i) = At(b, (lo + n) + i)
    OBVIOUS
  <2>1. n + i \in 0..(hi - lo - 1) /\ lo + (n + i) = (lo + n) + i
    BY <1>1, <1>2, <1>11, <1>12
  <2>2. At(h, n + i) = At(b, lo + (n + i))
    BY <1>2, <2>1
  <2>. QED  BY <2>1, <2>2
<1>15. Slice(h, n, n + v) = Slice(b, lo + n, lo + (n + v))
  <2>1. (n + v) - n = (lo + (n + v)) - (lo + n)
    BY <1>1, <1>11
  <2>. QED  BY <1>2, <1>12, <1>13, <1>14, <2>1, SliceAlike
<1>16. ObuAt(h, at).payload = Slice(h, n, n + v)
       /\ ObuAt(b, lo + at).payload = Slice(b, lo + n, lo + (n + v))
  BY <1>6, <1>11, <1>13 DEF n, v
<1>. QED  BY <1>15, <1>16 DEF h

-----------------------------------------------------------------------------
\* A walk over the OBUs of b from a on that goes past those at R: it stands at a
\* and wherever one of those ends that it stood at, and in nothing it went past.
IsWalk(W, b, R, a) ==
    /\ a \in W /\ W \subseteq a..Len(b)
    /\ \A p \in W : p \in R => ObuAt(b, p).end \in W
    /\ \A p \in W : p # a => \E q \in W : q \in R /\ ObuAt(b, q).end = p
    /\ \A p, q \in W : p < q => p \in R /\ ObuAt(b, p).end <= q

Passes(b, R) == R \subseteq {at \in 0..(Len(b) - 1) : ObuAt(b, at).outcome = "obu"}

\* f[at] is where the walk from at stands, for each at not before a.
Walks(f, b, R, a) ==
    \A at \in a..Len(b) :
        f[at] = {at} \cup (IF at \in R THEN f[ObuAt(b, at).end] ELSE {})

LEMMA WalksExist ==
    ASSUME NEW b \in Seq(Byte), NEW R, Passes(b, R)
    PROVE  \E f \in [0..Len(b) -> SUBSET Nat] : Walks(f, b, R, 0)
<1>. DEFINE n == Len(b)
            Good == {k \in 0..n : \E f \in [(n - k)..n -> SUBSET Nat] : Walks(f, b, R, n - k)}
<1>1. n \in Nat
  BY LenProperties
<1>2. \A at \in R : at \in 0..(n - 1) /\ ObuAt(b, at).end \in (at + 1)..n
  BY ObuRange DEF Passes
<1>3. 0 \in Good
  <2>. DEFINE f == [i \in n..n |-> {n}]
  <2>1. n - 0 = n /\ 0 \in 0..n /\ f \in [n..n -> SUBSET Nat]
    BY <1>1
  <2>2. \A at \in n..n : f[at] = {at} /\ at \notin R
    BY <1>1, <1>2
  <2>. HIDE DEF f
  <2>3. Walks(f, b, R, n)
    BY <2>2 DEF Walks
  <2>. QED  BY <2>1, <2>3
<1>4. ASSUME NEW k \in 0..(n - 1), k \in Good
      PROVE  k + 1 \in Good
  <2>. DEFINE m == n - (k + 1)
  <2>1. m \in Nat /\ n - k = m + 1 /\ m < n /\ k + 1 \in 0..n
    BY <1>1
  <2>. HIDE DEF m
  <2>2. PICK f \in [(m + 1)..n -> SUBSET Nat] : Walks(f, b, R, m + 1)
    BY <1>4, <2>1
  <2>. DEFINE more == IF m \in R THEN f[ObuAt(b, m).end] ELSE {}
              g == [i \in m..n |-> IF i = m THEN {m} \cup more ELSE f[i]]
  <2>3. m \in R => ObuAt(b, m).end \in (m + 1)..n
    BY <1>2
  <2>4. more \in SUBSET Nat
    BY <2>2, <2>3
  <2>5. \A i \in m..n : i = m \/ i \in (m + 1)..n
    BY <1>1, <2>1
  <2>6. g \in [m..n -> SUBSET Nat]
    <3>. HIDE DEF more
    <3>. QED  BY <2>1, <2>2, <2>4, <2>5
  <2>7. ASSUME NEW at \in m..n
        PROVE  g[at] = {at} \cup (IF at \in R THEN g[ObuAt(b, at).end] ELSE {})
    <3>. DEFINE e == ObuAt(b, at).end
    <3>1. at \in R => e \in (at + 1)..n
      BY <1>2
    <3>. HIDE DEF e
    <3>2. at \in R => e \in m..n /\ e # m
      BY <1>1, <2>1, <3>1
    <3>3. at \in R => g[e] = f[e]
      BY <3>2
    <3>4. CASE at = m
      <4>1. g[at] = {at} \cup more
        BY <3>4
      <4>2. more = IF at \in R THEN g[e] ELSE {}
        BY <3>3, <3>4 DEF e
      <4>. QED  BY <4>1, <4>2 DEF e
    <3>5. CASE at # m
      <4>1. at \in (m + 1)..n /\ g[at] = f[at]
        BY <2>5, <3>5
      <4>2. f[at] = {at} \cup (IF at \in R THEN f[e] ELSE {})
        BY <2>2, <4>1 DEF Walks, e
      <4>. QED  BY <3>3, <4>1, <4>2 DEF e
    <3>. QED  BY <3>4, <3>5
  <2>. HIDE DEF g, more
  <2>8. Walks(g, b, R, m)
    BY <2>7 DEF Walks
  <2>. QED  BY <2>1, <2>6, <2>8 DEF m
<1>5. n \in Good
  <2>1. \A k \in 0..(n - 1) : k \in Good => k + 1 \in Good
    BY <1>4
  <2>. HIDE DEF Good
  <2>2. \A k \in 0..n : k \in Good
    BY <1>1, <1>3, <2>1, Upwards
  <2>. QED  BY <1>1, <2>2
<1>6. n - n = 0
  BY <1>1
<1>. QED  BY <1>5, <1>6

\* Every f of that kind is a walk from each of its offsets.
LEMMA WalkIs ==
    ASSUME NEW b \in Seq(Byte), NEW R, Passes(b, R), NEW f, Walks(f, b, R, 0)
    PROVE  IsWalk(f[0], b, R, 0)
<1>. DEFINE n == Len(b)
            end(p) == ObuAt(b, p).end
            Good == {k \in 0..n : IsWalk(f[n - k], b, R, n - k)}
<1>1. n \in Nat
  BY LenProperties
<1>2. \A at \in R : at \in 0..(n - 1) /\ end(at) \in (at + 1)..n
  BY ObuRange DEF Passes
<1>. HIDE DEF end
<1>3. \A at \in 0..n : f[at] = {at} \cup (IF at \in R THEN f[end(at)] ELSE {})
  BY DEF Walks, end
<1>4. ASSUME NEW k \in 0..n, \A j \in 0..(k - 1) : j \in Good
      PROVE  k \in Good
  <2>. DEFINE a == n - k
              W == f[a]
  <2>1. a \in 0..n /\ W = {a} \cup (IF a \in R THEN f[end(a)] ELSE {})
    BY <1>1, <1>3
  <2>2. CASE a \notin R
    <3>1. W = {a} /\ a \in a..n
      BY <2>1, <2>2
    <3>. HIDE DEF W, a
    <3>2. IsWalk(W, b, R, a)
      BY <2>1, <2>2, <3>1 DEF IsWalk
    <3>. QED  BY <3>2 DEF W, a
  <2>3. CASE a \in R
    <3>. DEFINE e == end(a)
                V == f[e]
    <3>1. e \in (a + 1)..n /\ W = {a} \cup V
      BY <1>2, <2>1, <2>3
    <3>2. IsWalk(V, b, R, e)
      <4>. DEFINE j == n - e
      <4>1. j \in 0..(k - 1) /\ n - j = e
        BY <1>1, <2>1, <3>1
      <4>2. j \in Good
        BY <1>4, <4>1
      <4>. HIDE DEF e, j
      <4>. QED  BY <4>1, <4>2
    <3>. HIDE DEF W, V, a, e
    <3>3. /\ e \in V /\ V \subseteq e..n
          /\ \A p \in V : p \in R => end(p) \in V
          /\ \A p \in V : p # e => \E q \in V : q \in R /\ end(q) = p
          /\ \A p, q \in V : p < q => p \in R /\ end(p) <= q
      BY <3>2 DEF IsWalk, end
    <3>4. end(a) = e
      BY DEF e
    <3>5. \A p \in V : e <= p /\ p # a /\ p \in a..n /\ p \in Nat
      BY <1>1, <2>1, <3>1, <3>3
    <3>6. a \in W /\ W \subseteq a..n
      BY <1>1, <2>1, <3>1, <3>5
    <3>7. \A p \in W : p \in R => end(p) \in W
      BY <3>1, <3>3, <3>4
    <3>8. \A p \in W : p # a => \E q \in W : q \in R /\ end(q) = p
      BY <2>3, <3>1, <3>3, <3>4
    <3>9. ASSUME NEW p \in W, NEW q \in W, p < q PROVE p \in R /\ end(p) <= q
      <4>1. CASE p = a
        <5>1. q \in V
          BY <2>1, <3>1, <3>9, <4>1
        <5>. QED  BY <2>3, <3>4, <3>5, <4>1, <5>1
      <4>2. CASE p # a
        <5>1. p \in V /\ q # a
          BY <2>1, <3>1, <3>5, <3>9, <4>2
        <5>. QED  BY <3>1, <3>3, <3>9, <5>1
      <4>. QED  BY <4>1, <4>2
    <3>10. IsWalk(W, b, R, a)
      BY <3>6, <3>7, <3>8, <3>9 DEF IsWalk, end
    <3>. QED  BY <3>10 DEF W, a
  <2>. QED  BY <2>2, <2>3
<1>5. n \in Good
  <2>. HIDE DEF Good
  <2>1. \A k \in 0..n : k \in Good
    BY <1>1, <1>4, UpwardsFromBelow
  <2>. QED  BY <1>1, <2>1
<1>6. n - n = 0
  BY <1>1
<1>. QED  BY <1>5, <1>6

\* A walk that goes past everything in front of the end reaches it.
LEMMA WalkReachesEnd ==
    ASSUME NEW b \in Seq(Byte), NEW R, Passes(b, R), NEW W, IsWalk(W, b, R, 0),
           \A p \in W : p = Len(b) \/ p \in R
    PROVE  Len(b) \in W
<1>1. Len(b) \in Nat /\ W \in SUBSET (0..Len(b)) /\ W # {}
  BY LenProperties DEF IsWalk
<1>2. PICK m \in W : \A x \in W : x <= m
  BY <1>1, MaxExists
<1>3. ASSUME m \in R PROVE FALSE
  <2>1. ObuAt(b, m).end \in (m + 1)..Len(b) /\ ObuAt(b, m).end \in W
    BY <1>2, <1>3, ObuRange DEF Passes, IsWalk
  <2>. QED  BY <1>1, <1>2, <2>1
<1>. QED  BY <1>2, <1>3

\* Two walks over bytes that lie lo apart: where the one from lo on stands the
\* other does too,
LEMMA WalkIntoWhole ==
    ASSUME NEW b \in Seq(Byte), NEW R, NEW W, IsWalk(W, b, R, 0),
           NEW h \in Seq(Byte), NEW Q, NEW V, IsWalk(V, h, Q, 0), Passes(h, Q),
           NEW lo \in W,
           \A p \in Q : lo + p \in W =>
               lo + p \in R /\ ObuAt(b, lo + p).end = lo + ObuAt(h, p).end
    PROVE  \A p \in V : lo + p \in W
<1>. DEFINE Good == {p \in 0..Len(h) : p \in V => lo + p \in W}
<1>1. Len(h) \in Nat /\ V \subseteq 0..Len(h) /\ lo \in Nat /\ lo + 0 = lo
  <2>1. Len(b) \in Nat /\ Len(h) \in Nat
    BY LenProperties
  <2>. QED  BY <2>1 DEF IsWalk
<1>2. ASSUME NEW p \in 0..Len(h), \A j \in 0..(p - 1) : j \in Good
      PROVE  p \in Good
  <2>. SUFFICES ASSUME p \in V, p # 0 PROVE lo + p \in W
    BY <1>1
  <2>1. PICK q \in V : q \in Q /\ ObuAt(h, q).end = p
    BY DEF IsWalk
  <2>2. q \in 0..(p - 1)
    BY <1>1, <2>1, ObuRange DEF Passes
  <2>3. lo + q \in W
    BY <1>2, <2>1, <2>2
  <2>4. lo + q \in R /\ ObuAt(b, lo + q).end = lo + p
    BY <2>1, <2>3
  <2>. QED  BY <2>3, <2>4 DEF IsWalk
<1>. HIDE DEF Good
<1>3. \A p \in 0..Len(h) : p \in Good
  BY <1>1, <1>2, UpwardsFromBelow
<1>. QED  BY <1>1, <1>3 DEF Good

\* and the other way round as far as the part goes.
LEMMA WholeIntoWalk ==
    ASSUME NEW b \in Seq(Byte), NEW R, NEW W, IsWalk(W, b, R, 0), Passes(b, R),
           NEW h \in Seq(Byte), NEW Q, NEW V, IsWalk(V, h, Q, 0),
           NEW lo \in W, NEW hi \in Nat,
           \A s \in W : s \in R /\ lo <= s /\ ObuAt(b, s).end < hi =>
               s - lo \in Q /\ ObuAt(b, s).end = lo + ObuAt(h, s - lo).end
    PROVE  \A s \in W : lo <= s /\ s < hi => s - lo \in V
<1>. DEFINE Good == {s \in 0..Len(b) : s \in W /\ lo <= s /\ s < hi => s - lo \in V}
<1>1. Len(b) \in Nat /\ W \subseteq 0..Len(b) /\ lo \in Nat /\ lo - lo = 0
  <2>1. Len(b) \in Nat
    BY LenProperties
  <2>. QED  BY <2>1 DEF IsWalk
<1>2. ASSUME NEW s \in 0..Len(b), \A j \in 0..(s - 1) : j \in Good
      PROVE  s \in Good
  <2>. SUFFICES ASSUME s \in W, lo <= s, s < hi PROVE s - lo \in V
    OBVIOUS
  <2>1. CASE s = lo
    BY <1>1, <2>1 DEF IsWalk
  <2>2. CASE s # lo
    <3>1. lo < s /\ s # 0
      BY <1>1, <2>2
    <3>2. PICK q \in W : q \in R /\ ObuAt(b, q).end = s
      BY <3>1 DEF IsWalk
    <3>3. q \in 0..(s - 1)
      BY <1>1, <3>2, ObuRange DEF Passes
    <3>4. lo <= q
      <4>1. q < lo => ObuAt(b, q).end <= lo
        BY DEF IsWalk
      <4>. QED  BY <1>1, <3>1, <3>2, <3>3, <4>1
    <3>5. q < hi
      BY <1>1, <3>3
    <3>6. q - lo \in V
      BY <1>2, <3>2, <3>3, <3>4, <3>5
    <3>7. q - lo \in Q /\ s = lo + ObuAt(h, q - lo).end
      BY <3>2, <3>4
    <3>8. ObuAt(h, q - lo).end \in V
      BY <3>6, <3>7 DEF IsWalk
    <3>9. ObuAt(h, q - lo).end = s - lo
      <4>. DEFINE e == ObuAt(h, q - lo).end
      <4>1. e \in Nat
        <5>1. V \subseteq 0..Len(h) /\ Len(h) \in Nat
          BY LenProperties DEF IsWalk
        <5>2. e \in V
          BY <3>8
        <5>. HIDE DEF e
        <5>. QED  BY <5>1, <5>2
      <4>2. s = lo + e
        BY <3>7
      <4>. HIDE DEF e
      <4>3. e = s - lo
        BY <1>1, <4>1, <4>2
      <4>. QED  BY <4>3 DEF e
    <3>. QED  BY <3>8, <3>9
  <2>. QED  BY <2>1, <2>2
<1>. HIDE DEF Good
<1>3. \A s \in 0..Len(b) : s \in Good
  BY <1>1, <1>2, UpwardsFromBelow
<1>. QED  BY <1>1, <1>3 DEF Good

-----------------------------------------------------------------------------
\* Where scan_obus stands, and what it goes past.
ScanStands(b) == Stands(b, LAMBDA p : ScanReads(b, p))
Scanned(b)    == {at \in 0..(Len(b) - 1) : ScanReads(b, at)}

LEMMA ScanWalk ==
    ASSUME NEW b \in Seq(Byte)
    PROVE  Passes(b, Scanned(b)) /\ IsWalk(ScanStands(b), b, Scanned(b), 0)
<1>. DEFINE P(f) == f = [at \in 0..Len(b) |->
                 {at} \cup (IF at < Len(b) /\ ScanReads(b, at) THEN f[ObuAt(b, at).end] ELSE {})]
            g == CHOOSE f : P(f)
            R == Scanned(b)
<1>1. Len(b) \in Nat
  BY LenProperties
<1>2. Passes(b, R)
  BY DEF Passes, Scanned, ScanReads
<1>3. \A at \in 0..Len(b) : at \in R <=> at < Len(b) /\ ScanReads(b, at)
  BY <1>1 DEF Scanned
<1>. HIDE DEF R
<1>4. PICK f \in [0..Len(b) -> SUBSET Nat] : Walks(f, b, R, 0)
  BY <1>2, WalksExist
<1>5. P(f)
  <2>1. \A at \in 0..Len(b) : f[at] =
            {at} \cup (IF at < Len(b) /\ ScanReads(b, at) THEN f[ObuAt(b, at).end] ELSE {})
    BY <1>3, <1>4 DEF Walks
  <2>. QED  BY <1>4, <2>1
<1>6. P(g)
  BY <1>5
<1>7. ScanStands(b) = (0..Len(b)) \cap g[0]
  BY DEF ScanStands, Stands
<1>. HIDE DEF g
<1>8. Walks(g, b, R, 0)
  BY <1>3, <1>6 DEF Walks
<1>9. IsWalk(g[0], b, R, 0)
  BY <1>2, <1>8, WalkIs
<1>10. ScanStands(b) = g[0]
  BY <1>7, <1>9 DEF IsWalk
<1>. QED  BY <1>2, <1>9, <1>10 DEF R

\* What a scan that returns its OBUs says of them: each was read, begins where
\* one before it ends or at the first byte, and only the last may have no size.
LEMMA ObuStartsAre ==
    ASSUME NEW b \in Seq(Byte), ~ScanFails(b)
    PROVE  /\ Len(b) \in Nat /\ ObuStarts(b) \subseteq 0..(Len(b) - 1)
           /\ \A p : p \in ScanStands(b) <=> p \in ObuStarts(b) \/ p = Len(b)
           /\ \A s \in ObuStarts(b) :
                 /\ ObuAt(b, s).outcome = "obu" /\ s \in Scanned(b)
                 /\ ObuAt(b, s).end \in (s + 1)..Len(b) /\ ObuAt(b, s).end \in ScanStands(b)
                 /\ ObuAt(b, s).sized \in BOOLEAN
                 /\ ~ObuAt(b, s).sized => ObuAt(b, s).end = Len(b)
           /\ \A s, q \in ObuStarts(b) : s < q => ObuAt(b, s).end <= q /\ ObuAt(b, s).sized
           /\ Len(b) > 0 => 0 \in ObuStarts(b)
<1>. DEFINE W == ScanStands(b)
            S == ObuStarts(b)
            R == Scanned(b)
<1>1. Len(b) \in Nat /\ Passes(b, R) /\ IsWalk(W, b, R, 0)
  BY LenProperties, ScanWalk
<1>2. S = W \ {Len(b)}
  BY Zenon DEF ObuStarts, ScanStands
<1>3. \A s \in S : ScanReads(b, s)
  BY DEF ScanFails
<1>. HIDE DEF W, S
<1>4. 0 \in W /\ W \subseteq 0..Len(b)
  BY <1>1 DEF IsWalk
<1>5. S \subseteq 0..(Len(b) - 1)
  <2>1. \A p \in 0..Len(b) : p # Len(b) => p \in 0..(Len(b) - 1)
    BY <1>1
  <2>. QED  BY <1>2, <1>4, <2>1
<1>6. \A s \in S : s \in R /\ ObuAt(b, s).outcome = "obu"
  BY <1>3, <1>5 DEF Scanned, ScanReads
<1>. HIDE DEF R
<1>7. Len(b) \in W
  <2>1. \A p \in W : p = Len(b) \/ p \in R
    BY <1>2, <1>6
  <2>. QED  BY <1>1, <2>1, WalkReachesEnd
<1>8. ASSUME NEW s \in S
      PROVE  /\ ObuAt(b, s).end \in (s + 1)..Len(b) /\ ObuAt(b, s).end \in W
             /\ ObuAt(b, s).sized \in BOOLEAN
             /\ ~ObuAt(b, s).sized => ObuAt(b, s).end = Len(b)
  <2>1. s \in 0..(Len(b) - 1) /\ s \in R /\ s \in W /\ ObuAt(b, s).outcome = "obu"
    BY <1>2, <1>5, <1>6
  <2>2. ObuAt(b, s).end \in W
    BY <1>1, <2>1 DEF IsWalk
  <2>. QED  BY <2>1, <2>2, ObuRange
<1>9. ASSUME NEW s \in S, NEW q \in S, s < q
      PROVE  ObuAt(b, s).end <= q /\ ObuAt(b, s).sized
  <2>1. ObuAt(b, s).end <= q
    BY <1>1, <1>2, <1>9 DEF IsWalk
  <2>2. q \in 0..(Len(b) - 1)
    BY <1>5
  <2>3. ObuAt(b, s).end # Len(b)
    BY <1>1, <2>1, <2>2
  <2>. QED  BY <1>8, <2>1, <2>3
<1>10. \A p : p \in W <=> p \in S \/ p = Len(b)
  BY <1>2, <1>7
<1>11. Len(b) > 0 => 0 \in S
  BY <1>1, <1>2, <1>4
<1>. QED  BY <1>1, <1>5, <1>6, <1>8, <1>9, <1>10, <1>11 DEF W, S, R

\* The rest of such bytes, from where the scan stood, scans as the whole did.
LEMMA TailScan ==
    ASSUME NEW b \in Seq(Byte), ~ScanFails(b), NEW lo \in ScanStands(b)
    PROVE  LET h == Slice(b, lo, Len(b))
           IN  /\ ~ScanFails(h)
               /\ \A p : p \in ObuStarts(h) <=> p \in Nat /\ lo + p \in ObuStarts(b)
               /\ \A p \in ObuStarts(h) : ObuAt(h, p).kind = ObuAt(b, lo + p).kind
<1>. DEFINE h == Slice(b, lo, Len(b))
            n == Len(b)
            W == ScanStands(b)
            R == Scanned(b)
            S == ObuStarts(b)
            V == ScanStands(h)
            Q == Scanned(h)
            P == ObuStarts(h)
<1>1. /\ n \in Nat /\ S \subseteq 0..(n - 1) /\ lo \in 0..n /\ lo \in Nat /\ n \in 0..n
      /\ \A p : p \in W <=> p \in S \/ p = n
      /\ \A s \in S : ObuAt(b, s).outcome = "obu" /\ s \in R /\ ObuAt(b, s).end \in (s + 1)..n
  <2>1. /\ n \in Nat /\ S \subseteq 0..(n - 1)
        /\ \A p : p \in W <=> p \in S \/ p = n
        /\ \A s \in S : ObuAt(b, s).outcome = "obu" /\ s \in R /\ ObuAt(b, s).end \in (s + 1)..n
    BY ObuStartsAre
  <2>. HIDE DEF n, S
  <2>2. lo \in S \/ lo = n
    BY <2>1
  <2>3. lo \in 0..n
    <3>1. n \in 0..n /\ \A x \in 0..(n - 1) : x \in 0..n
      BY <2>1
    <3>. QED  BY <2>1, <2>2, <3>1
  <2>4. lo \in Nat /\ n \in 0..n
    BY <2>1, <2>3
  <2>. QED  BY <2>1, <2>3, <2>4
<1>2. h \in Seq(Byte) /\ Len(h) = n - lo
  BY <1>1, SliceProperties
<1>3. /\ IsWalk(W, b, R, 0) /\ Passes(b, R) /\ IsWalk(V, h, Q, 0) /\ Passes(h, Q)
      /\ P = V \ {Len(h)}
  <2>1. P = V \ {Len(h)}
    BY Zenon DEF ObuStarts, ScanStands
  <2>. QED  BY <1>2, <2>1, ScanWalk
<1>4. \A p \in 0..(n - lo - 1) :
         LET o == ObuAt(b, lo + p)
             q == ObuAt(h, p)
         IN  /\ q.kind = o.kind
             /\ o.outcome = "obu" /\ o.end <= n => q.outcome = "obu" /\ o.end = lo + q.end
             /\ q.outcome = "obu" => o.outcome \in {"obu", "toolarge"} /\ o.end = lo + q.end
  <2>1. n \in 0..Len(b) /\ lo \in 0..n
    BY <1>1
  <2>2. n = Len(b)
    OBVIOUS
  <2>. HIDE DEF n
  <2>. QED  BY <2>1, <2>2, ObuInSlice
<1>5. ASSUME NEW p \in Q, lo + p \in W
      PROVE  lo + p \in R /\ ObuAt(b, lo + p).end = lo + ObuAt(h, p).end
  <2>1. p \in 0..(n - lo - 1) /\ ObuAt(h, p).outcome = "obu"
    BY <1>2 DEF Scanned, ScanReads
  <2>2. lo + p # n
    BY <1>1, <2>1
  <2>3. lo + p \in S
    BY <1>1, <1>5, <2>2
  <2>. QED  BY <1>1, <1>4, <2>1, <2>3
<1>6. ASSUME NEW s \in W, s \in R, lo <= s, ObuAt(b, s).end < n
      PROVE  s - lo \in Q /\ ObuAt(b, s).end = lo + ObuAt(h, s - lo).end
  <2>1. s \in 0..(n - 1) /\ ObuAt(b, s).outcome = "obu"
    BY <1>6 DEF Scanned, ScanReads
  <2>2. s - lo \in 0..(n - lo - 1) /\ lo + (s - lo) = s /\ ObuAt(b, s).end <= n
    <3>1. ObuAt(b, s).end \in Nat
      BY <1>1, <1>6, <2>1
    <3>. QED  BY <1>1, <1>6, <2>1, <3>1
  <2>3. ObuAt(h, s - lo).outcome = "obu" /\ ObuAt(b, s).end = lo + ObuAt(h, s - lo).end
    <3>. DEFINE p == s - lo
    <3>. HIDE DEF p
    <3>1. p \in 0..(n - lo - 1) /\ lo + p = s
      BY <2>2 DEF p
    <3>2. ObuAt(h, p).outcome = "obu" /\ ObuAt(b, s).end = lo + ObuAt(h, p).end
      BY <1>4, <2>1, <2>2, <3>1
    <3>. QED  BY <3>2 DEF p
  <2>. QED  BY <1>2, <2>2, <2>3 DEF Scanned, ScanReads
<1>. HIDE DEF h, n, W, R, S, V, Q, P
<1>7. \A p \in V : lo + p \in W
  <2>1. lo \in W
    BY DEF W
  <2>. QED  BY <1>2, <1>3, <1>5, <2>1, WalkIntoWhole
<1>8. \A s \in W : lo <= s /\ s < n => s - lo \in V
  <2>1. lo \in W
    BY DEF W
  <2>2. \A s \in W : s \in R /\ lo <= s /\ ObuAt(b, s).end < n =>
            s - lo \in Q /\ ObuAt(b, s).end = lo + ObuAt(h, s - lo).end
    BY <1>6
  <2>3. n \in Nat /\ h \in Seq(Byte) /\ IsWalk(W, b, R, 0) /\ Passes(b, R) /\ IsWalk(V, h, Q, 0)
    BY <1>1, <1>2, <1>3
  <2>. QED  BY ONLY b \in Seq(Byte), <2>1, <2>2, <2>3, WholeIntoWalk
<1>9. ASSUME NEW p \in P
      PROVE  p \in 0..(n - lo - 1) /\ p \in Nat /\ lo + p \in S
  <2>1. p \in V /\ p \in 0..Len(h) /\ p # Len(h) /\ Len(h) \in Nat
    BY <1>1, <1>2, <1>3 DEF IsWalk
  <2>2. p \in 0..(n - lo - 1) /\ p \in Nat /\ lo + p # n
    BY <1>1, <1>2, <2>1
  <2>. QED  BY <1>1, <1>7, <2>1, <2>2
<1>10. ASSUME NEW p \in Nat, lo + p \in S
       PROVE  p \in P
  <2>1. lo + p \in 0..(n - 1) /\ lo + p \in W
    BY <1>1, <1>10
  <2>2. lo <= lo + p /\ lo + p < n /\ (lo + p) - lo = p /\ p # n - lo
    BY <1>1, <2>1
  <2>3. p \in V
    BY <1>8, <2>1, <2>2
  <2>. QED  BY <1>2, <1>3, <2>2, <2>3
<1>11. ASSUME NEW p \in P
       PROVE  ObuAt(h, p).outcome = "obu" /\ ObuAt(h, p).kind = ObuAt(b, lo + p).kind
  <2>1. /\ p \in 0..(n - lo - 1) /\ ObuAt(b, lo + p).outcome = "obu"
        /\ ObuAt(b, lo + p).end \in ((lo + p) + 1)..n
    BY <1>1, <1>9
  <2>2. ObuAt(b, lo + p).end <= n
    BY <1>1, <2>1
  <2>. QED  BY <1>4, <2>1, <2>2
<1>12. ~ScanFails(h)
  BY <1>11 DEF ScanFails, ScanReads, P
<1>. QED  BY <1>9, <1>10, <1>11, <1>12 DEF h, n, S, P

\* The payload taken off a metadata OBU is bytes.
LEMMA MetadataIsBytes ==
    ASSUME NEW b \in Seq(Byte), NEW at \in 0..(Len(b) - 1), ObuAt(b, at).outcome = "obu"
    PROVE  MetadataPayload(ObuAt(b, at)) \in Seq(Seq(Byte))
<1>. DEFINE header == At(b, at)
            body   == BodyAt(header, at)
            size   == SizeAt(b, header, body)
            obu    == ObuAt(b, at)
            type   == Leb128(obu.payload, 0)
<1>1. Len(b) \in Nat /\ at \in Nat /\ header \in Byte
  BY LenProperties, ByteAt
<1>2. body \in Nat
  <2>1. \A i \in Nat : BodyAt(header, i) \in (i + 1)..(i + 2)
    BY <1>1, BodyIs
  <2>2. body \in (at + 1)..(at + 2)
    BY <1>1, <2>1
  <2>. HIDE DEF body
  <2>. QED  BY <1>1, <2>2
<1>3. /\ Outcome(b, header, body, size) = "obu"
      /\ obu.payload = Slice(b, size.next, size.next + size.value)
  <2>1. obu = ObuOf(b, header, size, Outcome(b, header, body, size))
    BY Zenon DEF ObuAt, ObuRead
  <2>. QED  BY <2>1 DEF ObuOf
<1>. HIDE DEF header, body, obu
<1>4. ~(body > Len(b)) /\ size.value # -1 /\ ~(size.next + size.value > Len(b))
  <2>. HIDE DEF size
  <2>. QED  BY <1>3, Zenon DEF Outcome
<1>5. size.value \in Nat /\ size.next \in Nat
  <2>1. CASE Sized(header)
    <3>1. size = Leb128(b, body)
      BY <2>1 DEF SizeAt
    <3>. HIDE DEF size
    <3>2. size.value \in Nat /\ size.next \in (body + 1)..Len(b)
      BY <1>2, <1>4, <3>1, LebRange
    <3>. QED  BY <1>1, <1>2, <3>2
  <2>2. CASE ~Sized(header)
    <3>1. size = [value |-> Len(b) - body, next |-> body]
      BY <2>2 DEF SizeAt
    <3>. HIDE DEF size
    <3>. QED  BY <1>1, <1>2, <1>4, <3>1
  <2>. QED  BY <2>1, <2>2
<1>6. obu.payload \in Seq(Byte)
  <2>. HIDE DEF size
  <2>1. size.next + size.value \in 0..Len(b) /\ size.next \in 0..(size.next + size.value)
    BY <1>1, <1>4, <1>5
  <2>. QED  BY <1>3, <2>1, SliceProperties
<1>. HIDE DEF size
<1>7. Len(obu.payload) \in Nat
  BY <1>6, LenProperties
<1>8. MetadataPayload(obu) = IF obu.kind = OBU_METADATA /\ type.value = MetadataType
                             THEN <<StripTrailingBits(DropFront(obu.payload, type.next))>>
                             ELSE << >>
  BY DEF MetadataPayload
<1>9. ASSUME type.value = MetadataType
      PROVE  DropFront(obu.payload, type.next) \in Seq(Byte)
  <2>1. MetadataType \in Nat
    BY SelectAssumption
  <2>2. type.next \in (0 + 1)..Len(obu.payload)
    BY <1>6, <1>9, <2>1, LebRange
  <2>. HIDE DEF type
  <2>3. type.next \in 0..Len(obu.payload) /\ Len(obu.payload) \in 0..Len(obu.payload)
    BY <1>7, <2>2
  <2>4. Slice(obu.payload, type.next, Len(obu.payload)) \in Seq(Byte)
    BY <1>6, <2>3, SliceProperties
  <2>. QED  BY <2>4 DEF Slice, DropFront
<1>. HIDE DEF type
<1>10. CASE obu.kind = OBU_METADATA /\ type.value = MetadataType
  <2>. DEFINE p == StripTrailingBits(DropFront(obu.payload, type.next))
  <2>1. p \in Seq(Byte)
    BY <1>9, <1>10, StripType
  <2>. HIDE DEF p
  <2>2. <<p>> \in Seq(Seq(Byte))
    BY <2>1
  <2>3. MetadataPayload(obu) = <<p>>
    BY <1>8, <1>10 DEF p
  <2>. QED  BY <2>2, <2>3 DEF obu
<1>11. CASE ~(obu.kind = OBU_METADATA /\ type.value = MetadataType)
  <2>1. << >> \in Seq(Seq(Byte))
    BY EmptySeq
  <2>2. MetadataPayload(obu) = << >>
    BY <1>8, <1>11
  <2>. QED  BY <2>1, <2>2 DEF obu
<1>. QED  BY <1>10, <1>11
=============================================================================
