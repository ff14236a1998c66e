---------------------------- MODULE FramingLemmas ----------------------------
(*****************************************************************************)
(* What the proofs about packets rest on: NAL units put behind start codes,  *)
(* or behind lengths, are read again; an SEI put in is read where it was     *)
(* put, and nothing else of the packet changes. Last come the loops that cut *)
(* bytes into units.                                                         *)
(*****************************************************************************)
EXTENDS Framing, Loops, UnitLemmas

-----------------------------------------------------------------------------
(*****************************************************************************)
(* NAL units of a byte stream: each is clean, and what split_nals finds in   *)
(* a stream that is made of two is what it finds in the one and in the       *)
(* other.                                                                    *)
(*****************************************************************************)

CleanNals == {nal \in Seq(Byte) : CleanNal(nal)}

\* What a scan finds is clean.
LEMMA NalIsClean ==
    ASSUME NEW b \in Seq(Byte), NEW c \in StartCodes(b)
    PROVE  CleanNal(NalBytes(b, c))
<1>. DEFINE X == {d \in StartCodes(b) : d > c} \cup {Len(b)}
            next == Min(X)
            end == NalEnd(b, c)
            nal == NalBytes(b, c)
<1>1. c \in Nat /\ c + 3 \in Nat /\ c + 3 <= Len(b) /\ Len(b) \in Nat
  BY CodeRange
<1>2. /\ end \in (c + 3)..Len(b) /\ end = ZeroRun(b, c + 3, next) /\ nal = Slice(b, c + 3, end)
  BY NalEndReaches DEF NalEnd, NalStart, NalBytes
<1>3. next \in X /\ \A d \in X : next <= d
  <2>1. X \in SUBSET Nat /\ X # {}
    BY <1>1, CodeRange
  <2>. HIDE DEF X
  <2>. QED  BY <2>1, MinExists
<1>4. next \in Nat /\ c + 3 <= next
  <2>1. CASE next = Len(b)
    BY <1>1, <2>1
  <2>2. CASE next \in StartCodes(b) /\ next > c
    <3>. DEFINE d == next
    <3>1. d \in StartCodes(b) /\ c < d
      BY <1>1, <2>2, CodeRange
    <3>. HIDE DEF d
    <3>2. d \in Nat /\ c + 3 <= d
      BY <3>1, CodesApart, CodeRange
    <3>. QED  BY <3>2 DEF d
  <2>. QED  BY <1>3, <2>1, <2>2
<1>5. \A d \in StartCodes(b) : d > c => next <= d
  BY <1>3
<1>. HIDE DEF next, end, nal
<1>6. /\ nal \in Seq(Byte) /\ Len(nal) = end - (c + 3)
      /\ \A i \in 0..(end - (c + 3) - 1) : At(nal, i) = At(b, (c + 3) + i)
  <2>1. end \in 0..Len(b) /\ c + 3 \in 0..end
    BY <1>1, <1>2
  <2>. QED  BY <1>2, <2>1, SliceProperties
<1>8. ASSUME nal # << >> PROVE At(nal, Len(nal) - 1) # 0
  <2>3. Len(nal) # 0
    BY <1>6, <1>8, EmptySeq
  <2>4. c + 3 < end
    BY <1>1, <1>2, <1>6, <2>3
  <2>1. At(b, end - 1) # 0
    BY <1>1, <1>2, <1>4, <2>4, ZeroRunStops
  <2>2. Len(nal) - 1 \in 0..(end - (c + 3) - 1) /\ (c + 3) + (Len(nal) - 1) = end - 1
    BY <1>1, <1>2, <1>6, <2>4
  <2>. QED  BY <1>6, <2>1, <2>2
<1>9. StartCodes(nal) = {}
  <2>. SUFFICES ASSUME NEW d \in StartCodes(nal) PROVE FALSE
    OBVIOUS
  <2>1. d \in Int /\ 0 <= d /\ d + 3 <= Len(nal)
    BY <1>1, <1>2, <1>6 DEF StartCodes
  <2>. DEFINE e == d + (c + 3)
  <2>2. e - (c + 3) = d /\ e \in Int /\ e > c
    BY <1>1, <2>1
  <2>3. end \in 0..Len(b) /\ c + 3 \in 0..end
    BY <1>1, <1>2
  <2>. HIDE DEF e
  <2>4. e - (c + 3) \in StartCodes(Slice(b, c + 3, end))
    BY <1>2, <2>2
  <2>5. e \in StartCodes(b) /\ e + 3 <= end
    BY <2>2, <2>3, <2>4, SliceCodes
  <2>6. next <= e
    BY <1>5, <2>2, <2>5
  <2>7. end <= next
    <3>1. ZeroRun(b, c + 3, next) \in (c + 3)..next
      BY <1>1, <1>4, ZeroRunRange
    <3>. QED  BY <1>1, <1>2, <1>4, <3>1
  <2>. QED  BY <1>2, <1>4, <2>2, <2>5, <2>6, <2>7
<1>. QED  BY <1>6, <1>8, <1>9 DEF CleanNal, nal

LEMMA CodesAre ==
    ASSUME NEW b \in Seq(Byte)
    PROVE  StartCodes(b) \in SUBSET Nat /\ IsFiniteSet(StartCodes(b))
<1>1. Len(b) \in Nat
  BY LenProperties
<1>2. StartCodes(b) \in SUBSET (0..(Len(b) - 3))
  BY DEF StartCodes
<1>3. IsFiniteSet(0..(Len(b) - 3))
  BY <1>1, FS_Interval
<1>. QED  BY <1>2, <1>3, FS_Subset

\* split_nals returns the bytes of each NAL, in order.
LEMMA SplitNalsIs ==
    ASSUME NEW b \in Seq(Byte)
    PROVE  LET codes == Ascending(StartCodes(b))
           IN  /\ Len(codes) \in Nat
               /\ SplitNals(b) = [k \in 1..Len(codes) |-> NalBytes(b, codes[k])]
               /\ Len(SplitNals(b)) = Len(codes)
               /\ \A k \in 1..Len(codes) : codes[k] \in StartCodes(b)
<1>. DEFINE codes == Ascending(StartCodes(b))
            scan == ScanNals(b)
            n == Len(codes)
            split == [k \in 1..n |-> NalBytes(b, codes[k])]
<1>1. codes \in Seq(StartCodes(b)) /\ n \in Nat
  BY CodesAre, AscendingProperties, LenProperties
<1>2. \A k \in 1..n : codes[k] \in StartCodes(b)
  BY <1>1, ElementOfSeq
<1>. HIDE DEF codes
<1>3. Len(scan) = n /\ \A k \in 1..n : scan[k].bytes = NalBytes(b, codes[k])
  BY <1>1 DEF ScanNals, codes
<1>4. SplitNals(b) = [k \in 1..Len(scan) |-> scan[k].bytes]
  BY DEF SplitNals
<1>. HIDE DEF scan
<1>5. SplitNals(b) = split
  BY <1>3, <1>4
<1>6. Len(split) = n
  BY <1>1
<1>. QED  BY <1>1, <1>2, <1>5, <1>6 DEF codes

LEMMA SplitNalsType ==
    ASSUME NEW b \in Seq(Byte)
    PROVE  /\ SplitNals(b) \in Seq(Seq(Byte)) /\ Len(SplitNals(b)) \in Nat
           /\ SplitNals(b) \in Seq(CleanNals)
<1>. DEFINE codes == Ascending(StartCodes(b))
            n == Len(codes)
            split == [k \in 1..n |-> NalBytes(b, codes[k])]
<1>1. /\ n \in Nat /\ SplitNals(b) = split
      /\ \A k \in 1..n : codes[k] \in StartCodes(b)
  BY SplitNalsIs
<1>. HIDE DEF codes
<1>2. ASSUME NEW c \in StartCodes(b)
      PROVE  /\ NalBytes(b, c) \in Seq(Byte)
             /\ NalBytes(b, c) \in CleanNals
  <2>1. NalBytes(b, c) \in Seq(Byte)
    <3>1. NalEnd(b, c) \in (c + 3)..Len(b) /\ c \in Nat /\ Len(b) \in Nat
      BY NalEndReaches, CodeRange
    <3>2. NalEnd(b, c) \in 0..Len(b) /\ c + 3 \in 0..NalEnd(b, c)
      BY <3>1
    <3>. QED  BY <3>2, SliceProperties DEF NalBytes, NalStart
  <2>. QED  BY <2>1, NalIsClean DEF CleanNals
<1>3. split \in Seq(Seq(Byte)) /\ Len(split) = n
  <2>1. \A k \in 1..n : NalBytes(b, codes[k]) \in Seq(Byte)
    BY <1>1, <1>2
  <2>. QED  BY <1>1, <2>1, IsASeq
<1>4. split \in Seq(CleanNals)
  <2>1. \A k \in 1..n : NalBytes(b, codes[k]) \in CleanNals
    BY <1>1, <1>2
  <2>. QED  BY <1>1, <2>1, IsASeq
<1>. QED  BY <1>1, <1>3, <1>4

\* A byte string that is nothing, or begins with a start code of three bytes or four.
OpensWithCode(y) == 0 \in StartCodes(y) \/ (At(y, 0) = 0 /\ 1 \in StartCodes(y))

\* Bytes behind others, as slices of the two.
LEMMA SlicesOfJoin ==
    ASSUME NEW x \in Seq(Byte), NEW y \in Seq(Byte)
    PROVE  LET n == Len(x)
               w == x \o y
           IN  /\ w \in Seq(Byte) /\ n \in Nat /\ Len(y) \in Nat /\ Len(w) = n + Len(y)
               /\ x = Slice(w, 0, n) /\ y = Slice(w, n, Len(w))
               /\ \A i \in 0..(n - 1) : At(w, i) = At(x, i)
               /\ \A i \in 0..(Len(y) - 1) : At(w, n + i) = At(y, i)
<1>. DEFINE n == Len(x)
            w == x \o y
            l == Len(y)
<1>1. /\ n \in Nat /\ l \in Nat /\ w \in Seq(Byte) /\ Len(w) = n + l
      /\ \A i \in 1..(n + l) : w[i] = IF i <= n THEN x[i] ELSE y[i - n]
  BY LenProperties, ConcatProperties
<1>. HIDE DEF n, w, l
<1>2. \A i \in 0..(n - 1) : At(w, i) = At(x, i)
  <2>. SUFFICES ASSUME NEW i \in 0..(n - 1) PROVE w[i + 1] = x[i + 1]
    BY DEF At
  <2>1. i + 1 \in 1..(n + l) /\ i + 1 <= n
    BY <1>1
  <2>. QED  BY <1>1, <2>1
<1>3. \A i \in 0..(l - 1) : At(w, n + i) = At(y, i)
  <2>. SUFFICES ASSUME NEW i \in 0..(l - 1) PROVE w[n + i + 1] = y[i + 1]
    BY DEF At
  <2>1. n + i + 1 \in 1..(n + l) /\ ~(n + i + 1 <= n) /\ (n + i + 1) - n = i + 1
    BY <1>1
  <2>. QED  BY <1>1, <2>1
<1>4. x = Slice(w, 0, n)
  <2>. DEFINE h == Slice(w, 0, n)
  <2>1. h \in Seq(Byte) /\ Len(h) = n - 0 /\ \A i \in 0..(n - 0 - 1) : At(h, i) = At(w, 0 + i)
    <3>1. n \in 0..Len(w) /\ 0 \in 0..n
      BY <1>1
    <3>. QED  BY <1>1, <3>1, SliceProperties
  <2>. HIDE DEF h
  <2>2. ASSUME NEW i \in 1..n PROVE h[i] = x[i]
    <3>1. i - 1 \in 0..(n - 1) /\ (i - 1) + 1 = i /\ 0 + (i - 1) = i - 1 /\ n - 0 - 1 = n - 1
      BY <1>1
    <3>2. At(h, i - 1) = At(w, i - 1) /\ At(w, i - 1) = At(x, i - 1)
      BY <1>2, <2>1, <3>1
    <3>. QED  BY <3>1, <3>2 DEF At
  <2>3. Len(h) = Len(x)
    BY <1>1, <2>1 DEF n
  <2>4. h = x
    <3>1. \A i \in 1..Len(h) : h[i] = x[i]
      BY <1>1, <2>1, <2>2
    <3>. QED  BY <2>1, <2>3, <3>1, SeqEqual
  <2>. QED  BY <2>4 DEF h
<1>5. y = Slice(w, n, Len(w))
  <2>. DEFINE h == Slice(w, n, Len(w))
  <2>1. h \in Seq(Byte) /\ Len(h) = Len(w) - n /\ \A i \in 0..(Len(w) - n - 1) : At(h, i) = At(w, n + i)
    <3>1. Len(w) \in 0..Len(w) /\ n \in 0..Len(w)
      BY <1>1
    <3>. QED  BY <1>1, <3>1, SliceProperties
  <2>. HIDE DEF h
  <2>2. ASSUME NEW i \in 1..l PROVE h[i] = y[i]
    <3>1. i - 1 \in 0..(l - 1) /\ (i - 1) + 1 = i /\ Len(w) - n - 1 = l - 1
      BY <1>1
    <3>2. At(h, i - 1) = At(w, n + (i - 1)) /\ At(w, n + (i - 1)) = At(y, i - 1)
      BY <1>3, <2>1, <3>1
    <3>. QED  BY <3>1, <3>2 DEF At
  <2>3. Len(h) = Len(y) /\ Len(h) = l
    BY <1>1, <2>1 DEF l
  <2>4. h = y
    <3>1. \A i \in 1..Len(h) : h[i] = y[i]
      BY <2>2, <2>3
    <3>. QED  BY <2>1, <2>3, <3>1, SeqEqual
  <2>. QED  BY <2>4 DEF h
<1>. QED  BY <1>1, <1>2, <1>3, <1>4, <1>5 DEF n, w, l

\* No start code and no NAL unit reaches across the place where bytes begin that
\* open with a start code.
LEMMA CodesOfJoin ==
    ASSUME NEW x \in Seq(Byte), NEW y \in Seq(Byte), y = << >> \/ OpensWithCode(y)
    PROVE  LET n == Len(x)
               w == x \o y
           IN  /\ \A c \in StartCodes(x) : /\ c \in StartCodes(w) /\ c + 3 <= n
                                          /\ NalBytes(w, c) = NalBytes(x, c)
               /\ \A c \in StartCodes(y) : /\ n + c \in StartCodes(w)
                                          /\ NalBytes(w, n + c) = NalBytes(y, c)
               /\ \A c \in StartCodes(w) : c \in StartCodes(x) \/ c - n \in StartCodes(y)
<1>. DEFINE n == Len(x)
            w == x \o y
            l == Len(y)
<1>1. /\ w \in Seq(Byte) /\ n \in Nat /\ l \in Nat /\ Len(w) = n + l
      /\ x = Slice(w, 0, n) /\ y = Slice(w, n, Len(w))
      /\ \A i \in 0..(l - 1) : At(w, n + i) = At(y, i)
  BY SlicesOfJoin
<1>. HIDE DEF w, n, l
<1>2. n \in 0..Len(w) /\ 0 \in 0..n /\ Len(w) \in 0..Len(w) /\ n \in 0..Len(w)
  BY <1>1
<1>3. \A c \in Nat : c \in StartCodes(x) <=> c \in StartCodes(w) /\ c + 3 <= n
  <2>. TAKE c \in Nat
  <2>1. c - 0 \in StartCodes(Slice(w, 0, n)) <=> c \in StartCodes(w) /\ 0 <= c /\ c + 3 <= n
    <3>1. c \in Int /\ w \in Seq(Byte)
      BY <1>1
    <3>. QED  BY <1>2, <3>1, SliceCodes
  <2>2. c - 0 = c /\ 0 <= c
    OBVIOUS
  <2>. QED  BY <1>1, <2>1, <2>2, Zenon
<1>4. \A c \in Nat : c - n \in StartCodes(y) <=> c \in StartCodes(w) /\ n <= c
  <2>. TAKE c \in Nat
  <2>1. c - n \in StartCodes(Slice(w, n, Len(w)))
            <=> c \in StartCodes(w) /\ n <= c /\ c + 3 <= Len(w)
    <3>1. c \in Int /\ w \in Seq(Byte)
      BY <1>1
    <3>. QED  BY <1>2, <3>1, SliceCodes
  <2>2. c \in StartCodes(w) => c + 3 <= Len(w)
    BY <1>1, CodeRange
  <2>. QED  BY <1>1, <2>1, <2>2, Zenon
<1>6. y = << >> => l = 0
  BY DEF l
<1>5. \/ l = 0
      \/ \E e \in StartCodes(w) : n <= e /\ e <= n + 1 /\ (e = n + 1 => At(w, n) = 0)
  <2>1. CASE 0 \in StartCodes(y)
    <3>1. n \in StartCodes(w)
      BY <1>1, <1>4, <2>1
    <3>. QED  BY <1>1, <3>1
  <2>2. CASE At(y, 0) = 0 /\ 1 \in StartCodes(y)
    <3>1. n + 1 \in StartCodes(w)
      <4>1. (n + 1) - n = 1 /\ n + 1 \in Nat
        BY <1>1
      <4>. QED  BY <1>4, <2>2, <4>1
    <3>2. At(w, n) = 0
      <4>1. 1 + 3 <= l
        BY <2>2, CodeRange DEF l
      <4>2. 0 \in 0..(l - 1) /\ n + 0 = n
        BY <1>1, <4>1
      <4>. QED  BY <1>1, <2>2, <4>2
    <3>. QED  BY <1>1, <3>1, <3>2
  <2>. QED  BY <1>6, <2>1, <2>2 DEF OpensWithCode
<1>7. ASSUME NEW c \in StartCodes(w), c < n PROVE c + 3 <= n
  <2>1. c \in Nat /\ c + 3 <= Len(w)
    BY <1>1, CodeRange
  <2>2. CASE l = 0
    BY <1>1, <2>1, <2>2
  <2>3. CASE l # 0
    <3>1. PICK e \in StartCodes(w) : n <= e /\ e <= n + 1 /\ (e = n + 1 => At(w, n) = 0)
      BY <1>5, <2>3
    <3>2. e \in Nat
      BY <1>1, CodeRange
    <3>3. c + 3 <= e
      BY <1>1, <1>7, <2>1, <3>1, <3>2, CodesApart
    <3>4. CASE e = n
      BY <3>3, <3>4
    <3>5. CASE e = n + 1
      <4>1. At(w, c + 2) = 1
        BY <1>1, CodeRange
      <4>2. c + 2 # n
        BY <3>1, <3>5, <4>1
      <4>. QED  BY <1>1, <2>1, <3>3, <3>5, <4>2
    <3>. QED  BY <1>1, <3>1, <3>2, <3>4, <3>5
  <2>. QED  BY <2>2, <2>3
<1>8. ASSUME NEW c \in StartCodes(x)
      PROVE  c \in StartCodes(w) /\ c + 3 <= n /\ NalBytes(w, c) = NalBytes(x, c)
  <2>1. c \in Nat
    BY CodeRange
  <2>2. c \in StartCodes(w) /\ c + 3 <= n
    BY <1>3, <2>1
  <2>3. Whole(w, c, n)
    <3>1. CASE l = 0
      <4>1. n = Len(w)
        BY <1>1, <3>1
      <4>. QED  BY <4>1 DEF Whole
    <3>2. CASE l # 0
      <4>1. PICK e \in StartCodes(w) : n <= e /\ e <= n + 1 /\ (e = n + 1 => At(w, n) = 0)
        BY <1>5, <3>2
      <4>2. e \in Nat
        BY <1>1, CodeRange
      <4>3. NalPad(w, e) <= n
        <5>1. CASE e = n
          <6>1. NalPad(w, e) \in 0..e
            BY <1>1, PadRange
          <6>. QED  BY <1>1, <5>1, <6>1
        <5>2. CASE e = n + 1
          <6>1. ZeroRun(w, 0, n + 1) = ZeroRun(w, 0, n)
            BY <1>1, <4>1, <5>2, ZeroRunNext
          <6>2. ZeroRun(w, 0, n) \in 0..n
            BY <1>1, ZeroRunRange
          <6>. QED  BY <1>1, <5>2, <6>1, <6>2 DEF NalPad
        <5>. QED  BY <1>1, <4>1, <4>2, <5>1, <5>2
      <4>4. c < e
        BY <1>1, <2>1, <2>2, <4>1, <4>2
      <4>. QED  BY <4>1, <4>3, <4>4 DEF Whole
    <3>. QED  BY <3>1, <3>2
  <2>4. NalBytes(Slice(w, 0, n), c - 0) = NalBytes(w, c)
    <3>1. 0 <= c
      BY <2>1
    <3>. QED  BY <1>1, <1>2, <2>2, <2>3, <3>1, WholeNal
  <2>5. c - 0 = c
    BY <2>1
  <2>. QED  BY <1>1, <2>2, <2>4, <2>5
<1>9. ASSUME NEW c \in StartCodes(y)
      PROVE  n + c \in StartCodes(w) /\ NalBytes(w, n + c) = NalBytes(y, c)
  <2>1. c \in Nat
    BY CodeRange
  <2>2. (n + c) - n = c /\ n + c \in Nat /\ n <= n + c
    BY <1>1, <2>1
  <2>3. n + c \in StartCodes(w)
    BY <1>4, <2>2
  <2>4. Whole(w, n + c, Len(w))
    BY DEF Whole
  <2>5. NalBytes(Slice(w, n, Len(w)), (n + c) - n) = NalBytes(w, n + c)
    BY <1>1, <1>2, <2>2, <2>3, <2>4, WholeNal
  <2>. QED  BY <1>1, <2>2, <2>3, <2>5
<1>10. ASSUME NEW c \in StartCodes(w) PROVE c \in StartCodes(x) \/ c - n \in StartCodes(y)
  <2>1. c \in Nat
    BY <1>1, CodeRange
  <2>. QED  BY <1>1, <1>3, <1>4, <1>7, <2>1
<1>. QED  BY <1>8, <1>9, <1>10 DEF n, w

\* So split_nals of bytes behind others finds the NAL units of the one and those of
\* the other.
LEMMA SplitNalsConcat ==
    ASSUME NEW x \in Seq(Byte), NEW y \in Seq(Byte), y = << >> \/ OpensWithCode(y)
    PROVE  SplitNals(x \o y) = SplitNals(x) \o SplitNals(y)
<1>. DEFINE w == x \o y
            n == Len(x)
            cx == Ascending(StartCodes(x))
            cy == Ascending(StartCodes(y))
            m == Len(cx)
            l == Len(cy)
            f == [k \in 1..(m + l) |-> IF k <= m THEN cx[k] ELSE n + cy[k - m]]
<1>1. w \in Seq(Byte) /\ n \in Nat
  BY ConcatProperties, LenProperties
<1>2. ASSUME NEW b \in Seq(Byte)
      PROVE  LET c == Ascending(StartCodes(b))
             IN  /\ Len(c) \in Nat
                 /\ \A i \in 1..Len(c) : c[i] \in StartCodes(b) /\ c[i] \in Nat
                 /\ \A i, j \in 1..Len(c) : i < j => c[i] < c[j]
                 /\ \A p \in StartCodes(b) : \E i \in 1..Len(c) : c[i] = p
  <2>1. StartCodes(b) \in SUBSET Nat /\ IsFiniteSet(StartCodes(b))
    BY CodesAre
  <2>. DEFINE S == StartCodes(b)
              c == Ascending(S)
  <2>. HIDE DEF S
  <2>2. /\ Len(c) = Cardinality(S) /\ Cardinality(S) \in Nat
        /\ \A i, j \in 1..Cardinality(S) : i < j => c[i] < c[j]
    BY <2>1, AscendingProperties DEF S
  <2>3. /\ \A k \in 1..Cardinality(S) : c[k] \in S
        /\ \A p \in S : \E k \in 1..Cardinality(S) : c[k] = p
    BY <2>1, AscendingOnto DEF S
  <2>4. S \subseteq Nat
    BY <2>1 DEF S
  <2>. HIDE DEF c
  <2>. QED  BY <2>2, <2>3, <2>4 DEF S, c
<1>3. /\ m \in Nat /\ l \in Nat
      /\ \A i \in 1..m : cx[i] \in StartCodes(x) /\ cx[i] \in Nat
      /\ \A i, j \in 1..m : i < j => cx[i] < cx[j]
      /\ \A p \in StartCodes(x) : \E i \in 1..m : cx[i] = p
      /\ \A i \in 1..l : cy[i] \in StartCodes(y) /\ cy[i] \in Nat
      /\ \A i, j \in 1..l : i < j => cy[i] < cy[j]
      /\ \A p \in StartCodes(y) : \E i \in 1..l : cy[i] = p
  BY <1>2
<1>4. /\ \A c \in StartCodes(x) : /\ c \in StartCodes(w) /\ c + 3 <= n
                                  /\ NalBytes(w, c) = NalBytes(x, c)
      /\ \A c \in StartCodes(y) : /\ n + c \in StartCodes(w)
                                  /\ NalBytes(w, n + c) = NalBytes(y, c)
      /\ \A c \in StartCodes(w) : c \in StartCodes(x) \/ c - n \in StartCodes(y)
  BY CodesOfJoin
<1>5. /\ SplitNals(x) = [k \in 1..m |-> NalBytes(x, cx[k])] /\ Len(SplitNals(x)) = m
      /\ SplitNals(y) = [k \in 1..l |-> NalBytes(y, cy[k])] /\ Len(SplitNals(y)) = l
  BY SplitNalsIs
<1>6. SplitNals(x) \in Seq(Seq(Byte)) /\ SplitNals(y) \in Seq(Seq(Byte))
  BY SplitNalsType
<1>7. ASSUME NEW c \in StartCodes(w) PROVE c \in Nat
  BY <1>1, <1>7, CodeRange
<1>. HIDE DEF w, n, cx, cy, m, l
<1>8. \A k \in 1..(m + l) : /\ k <= m => k \in 1..m
                            /\ ~(k <= m) => k - m \in 1..l
  BY <1>3
<1>9. f \in [1..(m + l) -> Nat]
  <2>. SUFFICES ASSUME NEW k \in 1..(m + l)
                PROVE  (IF k <= m THEN cx[k] ELSE n + cy[k - m]) \in Nat
    OBVIOUS
  <2>1. CASE k <= m
    BY <1>3, <1>8, <2>1
  <2>2. CASE ~(k <= m)
    <3>1. cy[k - m] \in Nat
      BY <1>3, <1>8, <2>2
    <3>. QED  BY <1>1, <2>2, <3>1
  <2>. QED  BY <2>1, <2>2
<1>10. \A k \in 1..m : k \in 1..(m + l) /\ f[k] = cx[k]
  BY <1>3
<1>11. \A k \in 1..l : m + k \in 1..(m + l) /\ f[m + k] = n + cy[k]
  <2>. TAKE k \in 1..l
  <2>1. m + k \in 1..(m + l) /\ ~(m + k <= m) /\ (m + k) - m = k
    BY <1>3
  <2>. QED  BY <2>1
<1>. HIDE DEF f
<1>12. \A i, j \in 1..(m + l) : i < j => f[i] < f[j]
  <2>. SUFFICES ASSUME NEW i \in 1..(m + l), NEW j \in 1..(m + l), i < j PROVE f[i] < f[j]
    OBVIOUS
  <2>1. CASE j <= m
    <3>1. i \in 1..m /\ j \in 1..m
      BY <1>3, <2>1
    <3>. QED  BY <1>3, <1>10, <3>1
  <2>2. CASE i <= m /\ ~(j <= m)
    <3>1. i \in 1..m /\ j - m \in 1..l /\ m + (j - m) = j
      BY <1>3, <2>2
    <3>2. f[i] = cx[i] /\ f[j] = n + cy[j - m]
      BY <1>10, <1>11, <3>1
    <3>3. cx[i] + 3 <= n /\ cx[i] \in Nat /\ cy[j - m] \in Nat
      BY <1>3, <1>4, <3>1
    <3>. QED  BY <1>1, <3>2, <3>3
  <2>3. CASE ~(i <= m)
    <3>1. i - m \in 1..l /\ j - m \in 1..l /\ i - m < j - m /\ m + (i - m) = i /\ m + (j - m) = j
      BY <1>3, <2>3
    <3>2. f[i] = n + cy[i - m] /\ f[j] = n + cy[j - m]
      BY <1>11, <3>1
    <3>3. cy[i - m] < cy[j - m] /\ cy[i - m] \in Nat /\ cy[j - m] \in Nat
      BY <1>3, <3>1
    <3>. QED  BY <1>1, <3>2, <3>3
  <2>. QED  BY <1>3, <2>1, <2>2, <2>3
<1>13. \A p : p \in StartCodes(w) <=> \E i \in 1..(m + l) : p = f[i]
  <2>. SUFFICES ASSUME NEW p PROVE p \in StartCodes(w) <=> \E i \in 1..(m + l) : p = f[i]
    OBVIOUS
  <2>1. ASSUME p \in StartCodes(w) PROVE \E i \in 1..(m + l) : p = f[i]
    <3>1. CASE p \in StartCodes(x)
      BY <1>3, <1>10, <3>1
    <3>2. CASE p - n \in StartCodes(y)
      <4>1. PICK i \in 1..l : cy[i] = p - n
        BY <1>3, <3>2
      <4>2. p = n + cy[i]
        <5>1. p \in Nat
          BY <1>7, <2>1
        <5>. QED  BY <1>1, <4>1, <5>1
      <4>. QED  BY <1>11, <4>1, <4>2
    <3>. QED  BY <1>4, <2>1, <3>1, <3>2
  <2>2. ASSUME NEW i \in 1..(m + l), p = f[i] PROVE p \in StartCodes(w)
    <3>1. CASE i <= m
      <4>1. i \in 1..m
        BY <1>8, <3>1
      <4>. QED  BY <1>3, <1>4, <1>10, <2>2, <4>1
    <3>2. CASE ~(i <= m)
      <4>1. i - m \in 1..l /\ m + (i - m) = i
        BY <1>3, <1>8, <3>2
      <4>2. f[i] = n + cy[i - m] /\ cy[i - m] \in StartCodes(y)
        BY <1>3, <1>11, <4>1
      <4>. QED  BY <1>4, <2>2, <4>2
    <3>. QED  BY <3>1, <3>2
  <2>. QED  BY <2>1, <2>2
<1>14. Ascending(StartCodes(w)) = f
  <2>1. m + l \in Nat
    BY <1>3
  <2>. QED  BY <1>9, <1>12, <1>13, <2>1, AscendingUnique
<1>15. Len(f) = m + l
  BY <1>3 DEF f
<1>16. SplitNals(w) = [k \in 1..(m + l) |-> NalBytes(w, f[k])] /\ Len(SplitNals(w)) = m + l
  BY <1>1, <1>14, <1>15, SplitNalsIs
<1>. DEFINE r == SplitNals(w)
            p == SplitNals(x)
            q == SplitNals(y)
            Q == Seq(Byte)
<1>17. r \in Seq(Q) /\ p \in Seq(Q) /\ q \in Seq(Q)
  BY <1>1, <1>6, SplitNalsType
<1>18. /\ Len(r) = Len(p) + Len(q) /\ Len(p) = m /\ Len(q) = l
       /\ \A k \in 1..(m + l) : r[k] = NalBytes(w, f[k])
       /\ \A k \in 1..m : p[k] = NalBytes(x, cx[k])
       /\ \A k \in 1..l : q[k] = NalBytes(y, cy[k])
  BY <1>5, <1>16
<1>. HIDE DEF r, p, q, Q
<1>19. \A k \in 1..Len(p) : r[k] = p[k]
  BY <1>3, <1>4, <1>10, <1>18
<1>20. \A k \in 1..Len(q) : r[Len(p) + k] = q[k]
  <2>. SUFFICES ASSUME NEW k \in 1..l PROVE r[m + k] = q[k]
    BY <1>18
  <2>1. m + k \in 1..(m + l) /\ f[m + k] = n + cy[k] /\ cy[k] \in StartCodes(y)
    BY <1>3, <1>11
  <2>. QED  BY <1>4, <1>18, <2>1
<1>21. Adjoined(r, p, q)
  BY <1>18, <1>19, <1>20 DEF Adjoined
<1>22. r = p \o q
  BY <1>17, <1>21, AdjoinedIs, Zenon
<1>. QED  BY <1>22 DEF r, p, q, w

\* One NAL unit behind a start code.
CodedNal(nal) == START_CODE \o nal

LEMMA CodedNalBytes ==
    ASSUME NEW nal \in Seq(Byte)
    PROVE  /\ CodedNal(nal) \in Seq(Byte) /\ Len(CodedNal(nal)) = Len(nal) + 4
           /\ Len(nal) \in Nat
           /\ At(CodedNal(nal), 0) = 0 /\ At(CodedNal(nal), 1) = 0
           /\ At(CodedNal(nal), 2) = 0 /\ At(CodedNal(nal), 3) = 1
           /\ \A i \in 0..(Len(nal) - 1) : At(CodedNal(nal), 4 + i) = At(nal, i)
<1>1. START_CODE \in Seq(Byte) /\ Len(START_CODE) = 4
  BY DEF START_CODE, Byte
<1>2. /\ At(START_CODE, 0) = 0 /\ At(START_CODE, 1) = 0
      /\ At(START_CODE, 2) = 0 /\ At(START_CODE, 3) = 1
  BY DEF START_CODE, At
<1>. DEFINE s == START_CODE
            w == s \o nal
<1>3. /\ w \in Seq(Byte) /\ Len(s) \in Nat /\ Len(nal) \in Nat /\ Len(w) = Len(s) + Len(nal)
      /\ \A i \in 0..(Len(s) - 1) : At(w, i) = At(s, i)
      /\ \A i \in 0..(Len(nal) - 1) : At(w, Len(s) + i) = At(nal, i)
  BY <1>1, SlicesOfJoin
<1>. HIDE DEF w, s
<1>4. Len(s) = 4 /\ At(s, 0) = 0 /\ At(s, 1) = 0 /\ At(s, 2) = 0 /\ At(s, 3) = 1
  BY <1>1, <1>2 DEF s
<1>5. 0 \in 0..3 /\ 1 \in 0..3 /\ 2 \in 0..3 /\ 3 \in 0..3
  OBVIOUS
<1>6. CodedNal(nal) = w
  BY DEF CodedNal, w, s
<1>7. /\ At(w, 0) = 0 /\ At(w, 1) = 0 /\ At(w, 2) = 0 /\ At(w, 3) = 1
      /\ \A i \in 0..(Len(nal) - 1) : At(w, 4 + i) = At(nal, i)
  <2>1. \A i \in 0..3 : At(w, i) = At(s, i)
    BY <1>3, <1>4
  <2>. QED  BY <1>3, <1>4, <1>5, <2>1
<1>. QED  BY <1>3, <1>4, <1>6, <1>7

LEMMA SplitOne ==
    ASSUME NEW nal \in CleanNals
    PROVE  /\ CodedNal(nal) \in Seq(Byte) /\ OpensWithCode(CodedNal(nal))
           /\ SplitNals(CodedNal(nal)) = <<nal>>
<1>. DEFINE w == CodedNal(nal)
            l == Len(nal)
<1>1. /\ w \in Seq(Byte) /\ Len(w) = l + 4 /\ l \in Nat
      /\ At(w, 0) = 0 /\ At(w, 1) = 0 /\ At(w, 2) = 0 /\ At(w, 3) = 1
      /\ \A i \in 0..(l - 1) : At(w, 4 + i) = At(nal, i)
  BY CodedNalBytes DEF CleanNals
<1>2. nal \in Seq(Byte) /\ (nal # << >> => At(nal, l - 1) # 0) /\ StartCodes(nal) = {}
  BY DEF CleanNals, CleanNal
<1>3. l # 0 => At(nal, l - 1) # 0
  BY <1>2 
<1>. HIDE DEF w, l
<1>4. 1 \in StartCodes(w)
  <2>1. 1 \in 0..(Len(w) - 3) /\ 1 + 1 = 2 /\ 1 + 2 = 3
    BY <1>1
  <2>. QED  BY <1>1, <2>1 DEF StartCodes
<1>5. ASSUME NEW c \in StartCodes(w) PROVE c = 1
  <2>1. /\ c \in Nat /\ c + 3 <= Len(w)
        /\ At(w, c) = 0 /\ At(w, c + 1) = 0 /\ At(w, c + 2) = 1
    BY <1>1, CodeRange
  <2>2. c # 0 /\ c # 3
    BY <1>1, <2>1
  <2>3. c # 2
    <3>1. ASSUME c = 2 PROVE FALSE
      <4>1. c + 1 = 3
        BY <3>1
      <4>. QED  BY <1>1, <2>1, <4>1
    <3>. QED  BY <3>1
  <2>4. ASSUME c >= 4 PROVE FALSE
    <3>1. c - 4 \in 0..(l - 3)
      BY <1>1, <2>1, <2>4
    <3>2. At(nal, c - 4) = 0 /\ At(nal, (c - 4) + 1) = 0 /\ At(nal, (c - 4) + 2) = 1
      <4>1. /\ c - 4 \in 0..(l - 1) /\ 4 + (c - 4) = c
            /\ (c - 4) + 1 \in 0..(l - 1) /\ 4 + ((c - 4) + 1) = c + 1
            /\ (c - 4) + 2 \in 0..(l - 1) /\ 4 + ((c - 4) + 2) = c + 2
        BY <1>1, <2>1, <3>1
      <4>. QED  BY <1>1, <2>1, <4>1
    <3>3. c - 4 \in StartCodes(nal)
      BY <3>1, <3>2 DEF StartCodes, l
    <3>. QED  BY <1>2, <3>3
  <2>. QED  BY <2>1, <2>2, <2>3, <2>4
<1>6. StartCodes(w) = {1}
  BY <1>4, <1>5
<1>7. Ascending(StartCodes(w)) = <<1>>
  <2>. DEFINE f == [k \in 1..1 |-> 1]
              S == {1}
  <2>1. 1 \in Nat /\ f \in [1..1 -> Nat] /\ \A i, j \in 1..1 : i < j => f[i] < f[j]
    OBVIOUS
  <2>3. \A x : x \in S <=> \E i \in 1..1 : x = f[i]
    OBVIOUS
  <2>4. f = <<1>> /\ S = {1}
    OBVIOUS
  <2>. HIDE DEF f, S
  <2>2. Ascending(S) = f
    BY <2>1, <2>3, AscendingUnique, Zenon
  <2>. QED  BY <1>6, <2>2, <2>4
<1>8. NalEnd(w, 1) = l + 4
  <2>1. {d \in StartCodes(w) : d > 1} \cup {Len(w)} = {Len(w)}
    BY <1>6
  <2>2. Min({Len(w)}) = Len(w)
    <3>1. {Len(w)} \in SUBSET Nat /\ Len(w) \in {Len(w)} /\ \A y \in {Len(w)} : Len(w) <= y
      BY <1>1
    <3>. QED  BY <3>1, MinIs
  <2>3. NalEnd(w, 1) = ZeroRun(w, 4, l + 4)
    <3>1. NalStart(1) = 4
      BY DEF NalStart
    <3>. QED  BY <1>1, <2>1, <2>2, <3>1 DEF NalEnd
  <2>4. ZeroRun(w, 4, l + 4) = l + 4
    <3>1. 4 < l + 4 => At(w, (l + 4) - 1) # 0
      <4>1. l > 0 => l - 1 \in 0..(l - 1) /\ 4 + (l - 1) = (l + 4) - 1
        BY <1>1
      <4>. QED  BY <1>1, <1>3, <4>1
    <3>2. /\ 4 \in Nat /\ l + 4 \in Nat /\ l + 4 \in 4..(l + 4)
          /\ \A i \in (l + 4)..((l + 4) - 1) : At(w, i) = 0
      BY <1>1
    <3>. QED  BY <3>1, <3>2, ZeroRunIs
  <2>. QED  BY <2>3, <2>4
<1>9. NalBytes(w, 1) = nal
  <2>. DEFINE h == Slice(w, 4, l + 4)
  <2>1. h \in Seq(Byte) /\ Len(h) = (l + 4) - 4 /\ \A i \in 0..((l + 4) - 4 - 1) : At(h, i) = At(w, 4 + i)
    <3>1. l + 4 \in 0..Len(w) /\ 4 \in 0..(l + 4)
      BY <1>1
    <3>. QED  BY <1>1, <3>1, SliceProperties
  <2>2. NalBytes(w, 1) = h
    <3>1. NalStart(1) = 4
      BY DEF NalStart
    <3>. QED  BY <1>8, <3>1 DEF NalBytes
  <2>. HIDE DEF h
  <2>3. ASSUME NEW i \in 1..l PROVE h[i] = nal[i]
    <3>1. i - 1 \in 0..(l - 1) /\ (i - 1) + 1 = i /\ (l + 4) - 4 - 1 = l - 1
      BY <1>1
    <3>2. At(h, i - 1) = At(nal, i - 1)
      BY <1>1, <2>1, <3>1
    <3>. QED  BY <3>1, <3>2 DEF At
  <2>4. Len(h) = Len(nal) /\ Len(h) = l
    BY <1>1, <2>1 DEF l
  <2>5. h = nal
    <3>1. \A i \in 1..Len(h) : h[i] = nal[i]
      BY <2>3, <2>4
    <3>. QED  BY <1>2, <2>1, <2>4, <3>1, SeqEqual
  <2>. QED  BY <2>2, <2>5
<1>10. SplitNals(w) = <<nal>>
  <2>1. Len(<<1>>) = 1 /\ <<1>>[1] = 1
    OBVIOUS
  <2>2. SplitNals(w) = [k \in 1..1 |-> NalBytes(w, <<1>>[k])]
    BY <1>1, <1>7, <2>1, SplitNalsIs
  <2>. DEFINE g == [k \in 1..1 |-> NalBytes(w, <<1>>[k])]
  <2>3. \A k \in 1..1 : NalBytes(w, <<1>>[k]) = nal
    BY <1>9
  <2>4. g = [k \in 1..1 |-> nal]
    BY <2>3
  <2>5. g = <<nal>>
    BY <2>4
  <2>. QED  BY <2>2, <2>5
<1>11. OpensWithCode(w)
  BY <1>1, <1>4 DEF OpensWithCode
<1>. QED  BY <1>1, <1>10, <1>11 DEF w

-----------------------------------------------------------------------------
(*****************************************************************************)
(* NAL units behind start codes are found again.                             *)
(*****************************************************************************)

\* A list up to some place, and one place further.
LEMMA OneFurther ==
    ASSUME NEW T, NEW s \in Seq(T), NEW k \in 0..(Len(s) - 1)
    PROVE  /\ SubSeq(s, 1, k) \in Seq(T) /\ s[k + 1] \in T /\ Len(SubSeq(s, 1, k)) = k
           /\ SubSeq(s, 1, k + 1) = Append(SubSeq(s, 1, k), s[k + 1])
           /\ SubSeq(s, 1, k + 1) = SubSeq(s, 1, k) \o <<s[k + 1]>>
<1>1. Len(s) \in Nat /\ k + 1 \in 1..Len(s) /\ k \in 0..Len(s)
  BY LenProperties
<1>2. s[k + 1] \in T
  BY <1>1, ElementOfSeq
<1>3. SubSeq(s, 1, k) \in Seq(T) /\ Len(SubSeq(s, 1, k)) = k
  BY <1>1
<1>4. SubSeq(s, 1, k + 1) = Append(SubSeq(s, 1, k), s[k + 1])
  BY <1>1, <1>2
<1>5. SubSeq(s, 1, k + 1) = SubSeq(s, 1, k) \o <<s[k + 1]>>
  BY <1>1, <1>2
<1>. QED  BY <1>2, <1>3, <1>4, <1>5

LEMMA AllOfList ==
    ASSUME NEW T, NEW s \in Seq(T)
    PROVE  SubSeq(s, 1, 0) = << >> /\ SubSeq(s, 1, Len(s)) = s
<1>1. SubSeq(s, 1, 0) = << >>
  OBVIOUS
<1>2. SubSeq(s, 1, Len(s)) = s
  BY SubSeqFull
<1>. QED  BY <1>1, <1>2

LEMMA SplitNothing == SplitNals(<< >>) = << >> /\ << >> \in Seq(Byte)
<1>. DEFINE S == StartCodes(<< >>)
            codes == Ascending(S)
            b == << >>
<1>1. b \in Seq(Byte) /\ Len(b) = 0
  OBVIOUS
<1>2. S = {}
  BY DEF StartCodes
<1>3. Len(codes) = 0 /\ Len(codes) \in Nat
  <2>1. S \in SUBSET Nat /\ IsFiniteSet(S) /\ Cardinality(S) = 0
    BY <1>2, FS_EmptySet
  <2>. QED  BY <2>1, AscendingProperties
<1>4. SplitNals(b) = [k \in 1..Len(codes) |-> NalBytes(b, codes[k])]
  BY <1>1, SplitNalsIs
<1>. HIDE DEF codes
<1>5. [k \in 1..Len(codes) |-> NalBytes(b, codes[k])] = << >>
  BY <1>3
<1>. QED  BY <1>1, <1>4, <1>5

\* NAL units behind start codes, list by list.
LEMMA StartCodedConcat ==
    ASSUME NEW s \in Seq(Seq(Byte)), NEW t \in Seq(Seq(Byte))
    PROVE  /\ StartCoded(s) \in Seq(Byte)
           /\ StartCoded(s \o t) = StartCoded(s) \o StartCoded(t)
<1>. DEFINE give == [nal \in Seq(Byte) |-> START_CODE \o nal]
            S == Seq(Byte)
<1>1. give \in [Seq(Byte) -> Seq(Byte)]
  <2>1. START_CODE \in Seq(Byte)
    BY DEF START_CODE, Byte
  <2>2. \A nal \in Seq(Byte) : START_CODE \o nal \in Seq(Byte)
    BY <2>1, ConcatProperties
  <2>. QED  BY <2>2
<1>2. ASSUME NEW r \in Seq(S) PROVE StartCoded(r) = Gathered(give, r)
  <2>1. \A k \in 1..Len(r) : r[k] \in S
    BY ElementOfSeq
  <2>2. \A k \in 1..Len(r) : give[r[k]] = START_CODE \o r[k]
    BY <2>1
  <2>. HIDE DEF give
  <2>3. [k \in 1..Len(r) |-> give[r[k]]] = [k \in 1..Len(r) |-> START_CODE \o r[k]]
    BY <2>2
  <2>. QED  BY <2>3 DEF StartCoded, Gathered
<1>3. s \o t \in Seq(S)
  BY ConcatProperties
<1>. HIDE DEF give
<1>4. /\ Gathered(give, s) \in Seq(Byte)
      /\ Gathered(give, s \o t) = Gathered(give, s) \o Gathered(give, t)
  BY <1>1, GatherConcat
<1>. QED  BY <1>2, <1>3, <1>4

LEMMA StartCodedOne ==
    ASSUME NEW nal \in Seq(Byte)
    PROVE  StartCoded(<<nal>>) = CodedNal(nal) /\ StartCoded(<< >>) = << >>
<1>. DEFINE give == [n \in Seq(Byte) |-> START_CODE \o n]
<1>1. give \in [Seq(Byte) -> Seq(Byte)] /\ give[nal] = CodedNal(nal)
  <2>1. START_CODE \in Seq(Byte)
    BY DEF START_CODE, Byte
  <2>2. \A n \in Seq(Byte) : START_CODE \o n \in Seq(Byte)
    BY <2>1, ConcatProperties
  <2>. QED  BY <2>2 DEF CodedNal
<1>2. [k \in 1..Len(<<nal>>) |-> give[<<nal>>[k]]] = [k \in 1..Len(<<nal>>) |-> START_CODE \o <<nal>>[k]]
  OBVIOUS
<1>3. [k \in 1..Len(<< >>) |-> give[<< >>[k]]] = [k \in 1..Len(<< >>) |-> START_CODE \o << >>[k]]
  OBVIOUS
<1>. HIDE DEF give
<1>4. Gathered(give, <<nal>>) = give[nal] /\ Gathered(give, << >>) = << >>
  BY <1>1, GatherOne
<1>. QED  BY <1>1, <1>2, <1>3, <1>4 DEF Gathered, StartCoded

\* NAL units out of a stream, written behind start codes, are what split_nals
\* finds there.
THEOREM SplitStartCoded ==
    ASSUME NEW nals \in Seq(CleanNals)
    PROVE  /\ nals \in Seq(Seq(Byte)) /\ StartCoded(nals) \in Seq(Byte)
           /\ SplitNals(StartCoded(nals)) = nals
           /\ nals = << >> \/ OpensWithCode(StartCoded(nals))
<1>. DEFINE p(k) == SubSeq(nals, 1, k)
            z == Len(nals)
            Opened(b) == b = << >> \/ OpensWithCode(b)
            Good == {k \in 0..z : /\ SplitNals(StartCoded(p(k))) = p(k)
                                  /\ k = 0 \/ OpensWithCode(StartCoded(p(k)))}
<1>0. CleanNals \subseteq Seq(Byte) /\ nals \in Seq(Seq(Byte)) /\ z \in Nat
  <2>1. CleanNals \subseteq Seq(Byte)
    BY DEF CleanNals
  <2>. QED  BY <2>1, SeqMonotonic, LenProperties
<1>1. 0 \in Good
  <2>1. p(0) = << >>
    BY AllOfList
  <2>2. StartCoded(<< >>) = << >>
    BY SplitNothing, StartCodedOne
  <2>. HIDE DEF p
  <2>3. SplitNals(StartCoded(p(0))) = p(0) /\ 0 \in 0..z
    BY <1>0, <2>1, <2>2, SplitNothing
  <2>. QED  BY <2>3
<1>2. ASSUME NEW k \in 0..(z - 1), k \in Good PROVE k + 1 \in Good
  <2>. DEFINE nal == nals[k + 1]
              x == StartCoded(p(k))
              y == CodedNal(nal)
              w == StartCoded(p(k + 1))
  <2>1. /\ p(k) \in Seq(CleanNals) /\ nal \in CleanNals /\ Len(p(k)) = k
        /\ p(k + 1) = p(k) \o <<nal>>
    BY OneFurther
  <2>2. p(k) \in Seq(Seq(Byte)) /\ nal \in Seq(Byte) /\ <<nal>> \in Seq(Seq(Byte))
    <3>1. p(k) \in Seq(Seq(Byte)) /\ nal \in Seq(Byte)
      BY <1>0, <2>1, SeqMonotonic
    <3>. QED  BY <3>1
  <2>3. SplitNals(x) = p(k) /\ (k = 0 \/ OpensWithCode(x)) /\ k + 1 \in 0..z
    BY <1>0, <1>2
  <2>. HIDE DEF p, nal
  <2>4. w = x \o y /\ x \in Seq(Byte)
    BY <2>1, <2>2, StartCodedConcat, StartCodedOne
  <2>5. y \in Seq(Byte) /\ OpensWithCode(y) /\ SplitNals(y) = <<nal>>
    BY <2>1, SplitOne
  <2>. HIDE DEF x, y, w
  <2>6. SplitNals(w) = p(k + 1)
    BY <2>1, <2>3, <2>4, <2>5, SplitNalsConcat
  <2>7. OpensWithCode(w)
    <3>1. CASE k = 0
      <4>1. x = << >>
        <5>1. p(k) = << >>
          BY <2>1, <3>1, EmptySeq
        <5>. QED  BY <2>2, <5>1, StartCodedOne DEF x
      <4>2. w = y
        BY <2>4, <2>5, <4>1, ConcatEmptySeq
      <4>. QED  BY <2>5, <4>2
    <3>2. CASE OpensWithCode(x)
      <4>1. /\ \A c \in StartCodes(x) : c \in StartCodes(w)
        BY <2>4, <2>5, CodesOfJoin
      <4>2. Len(x) \in Nat /\ \A i \in 0..(Len(x) - 1) : At(w, i) = At(x, i)
        BY <2>4, <2>5, SlicesOfJoin
      <4>3. 1 \in StartCodes(x) => At(w, 0) = At(x, 0)
        <5>1. 1 \in StartCodes(x) => 1 + 3 <= Len(x)
          BY <2>4, CodeRange
        <5>2. 1 + 3 <= Len(x) => 0 \in 0..(Len(x) - 1)
          BY <4>2
        <5>. QED  BY <4>2, <5>1, <5>2
      <4>. QED  BY <3>2, <4>1, <4>3 DEF OpensWithCode
    <3>. QED  BY <2>3, <3>1, <3>2
  <2>. QED  BY <2>3, <2>6, <2>7 DEF w
<1>3. \A k \in 0..z : k \in Good
  <2>. HIDE DEF Good
  <2>. QED  BY <1>0, <1>1, <1>2, Upwards
<1>4. z \in Good /\ p(z) = nals
  BY <1>0, <1>3, AllOfList
<1>5. z = 0 => nals = << >>
  BY EmptySeq
<1>6. SplitNals(StartCoded(p(z))) = p(z) /\ (z = 0 \/ OpensWithCode(StartCoded(p(z))))
  BY <1>4
<1>7. StartCoded(nals) \in Seq(Byte)
  BY <1>0, StartCodedConcat
<1>. HIDE DEF p, z
<1>. QED  BY <1>0, <1>4, <1>5, <1>6, <1>7

-----------------------------------------------------------------------------
(*****************************************************************************)
(* The digits of a length.                                                   *)
(*****************************************************************************)

\* A function that is built one place after another, each from the one before.
GoesUp(f, n, a, step) == f[0] = a /\ \A k \in 1..n : f[k] = step[<<k, f[k - 1]>>]

LEMMA CountsUp ==
    ASSUME NEW n \in Nat, NEW S, NEW a \in S, NEW step \in [(1..n) \X S -> S]
    PROVE  \E f \in [0..n -> S] : GoesUp(f, n, a, step)
<1>. DEFINE Built(f, z) == f[0] = a /\ \A k \in 1..z : f[k] = step[<<k, f[k - 1]>>]
            Good == {z \in 0..n : \E f \in [0..z -> S] : Built(f, z)}
<1>1. 0 \in Good
  <2>. DEFINE f == [k \in 0..0 |-> a]
  <2>1. f \in [0..0 -> S] /\ Built(f, 0) /\ 0 \in 0..n
    OBVIOUS
  <2>. QED  BY <2>1
<1>2. ASSUME NEW z \in 0..(n - 1), z \in Good PROVE z + 1 \in Good
  <2>1. PICK f \in [0..z -> S] : Built(f, z)
    BY <1>2
  <2>. DEFINE one == step[<<z + 1, f[z]>>]
              g == [k \in 0..(z + 1) |-> IF k = z + 1 THEN one ELSE f[k]]
  <2>2. z + 1 \in 1..n /\ z + 1 \in 0..n /\ f[z] \in S
    OBVIOUS
  <2>3. one \in S
    BY <2>2
  <2>. HIDE DEF one
  <2>4. \A k \in 0..(z + 1) : k = z + 1 \/ k \in 0..z
    OBVIOUS
  <2>5. g \in [0..(z + 1) -> S]
    BY <2>3, <2>4
  <2>6. \A k \in 0..z : g[k] = f[k]
    OBVIOUS
  <2>7. g[z + 1] = one
    OBVIOUS
  <2>. HIDE DEF g
  <2>8. ASSUME NEW k \in 1..(z + 1) PROVE g[k] = step[<<k, g[k - 1]>>]
    <3>1. k - 1 \in 0..z
      OBVIOUS
    <3>2. CASE k = z + 1
      <4>1. k - 1 = z
        BY <3>2
      <4>. QED  BY <2>6, <2>7, <3>1, <3>2, <4>1 DEF one
    <3>3. CASE k # z + 1
      <4>1. k \in 1..z /\ k \in 0..z
        BY <3>3
      <4>. QED  BY <2>1, <2>6, <3>1, <4>1
    <3>. QED  BY <3>2, <3>3
  <2>9. g[0] = a
    BY <2>1, <2>6
  <2>. QED  BY <2>2, <2>5, <2>8, <2>9
<1>3. \A z \in 0..n : z \in Good
  <2>. HIDE DEF Good
  <2>1. 0 \in Nat
    OBVIOUS
  <2>. QED  BY <1>1, <1>2, <2>1, Upwards
<1>4. PICK f \in [0..n -> S] : Built(f, n)
  BY <1>3
<1>. QED  BY <1>4 DEF GoesUp

\* A function that is built from its last place down: at a place that goes on
\* somewhere further it is made of what it is there, at any other it is given.
GoesOn(f, n, goes, further, step, given) ==
    \A at \in 0..n : f[at] = IF goes[at] THEN step[<<at, f[further[at]]>>] ELSE given[at]

LEMMA CountsDown ==
    ASSUME NEW n \in Nat, NEW S, NEW goes, NEW further, NEW given \in [0..n -> S],
           NEW step \in [(0..n) \X S -> S],
           \A at \in 0..n : goes[at] => further[at] \in (at + 1)..n
    PROVE  \E f \in [0..n -> S] : GoesOn(f, n, goes, further, step, given)
<1>. DEFINE Built(f, z) ==
                \A at \in (n - z)..n :
                    f[at] = IF goes[at] THEN step[<<at, f[further[at]]>>] ELSE given[at]
            Good == {z \in 0..n : \E f \in [(n - z)..n -> S] : Built(f, z)}
<1>1. ASSUME NEW z \in 0..n, NEW f, f \in [(n - z + 1)..n -> S],
             \A at \in (n - z + 1)..n :
                 f[at] = IF goes[at] THEN step[<<at, f[further[at]]>>] ELSE given[at]
      PROVE  z \in Good
  <2>. DEFINE a == n - z
              one == IF goes[a] THEN step[<<a, f[further[a]]>>] ELSE given[a]
              g == [k \in a..n |-> IF k = a THEN one ELSE f[k]]
  <2>1. a \in 0..n /\ a \in Nat
    OBVIOUS
  <2>2. one \in S
    <3>1. CASE goes[a]
      <4>1. further[a] \in (n - z + 1)..n
        BY <2>1, <3>1
      <4>2. f[further[a]] \in S
        BY <1>1, <4>1
      <4>. QED  BY <2>1, <3>1, <4>2
    <3>2. CASE ~goes[a]
      BY <2>1, <3>2
    <3>. QED  BY <3>1, <3>2
  <2>3. \A k \in a..n : k = a \/ k \in (n - z + 1)..n
    OBVIOUS
  <2>. HIDE DEF one
  <2>4. g \in [a..n -> S]
    BY <1>1, <2>2, <2>3
  <2>5. g[a] = one /\ \A k \in (n - z + 1)..n : g[k] = f[k]
    BY <2>1
  <2>. HIDE DEF g
  <2>6. ASSUME NEW at \in a..n
        PROVE  g[at] = IF goes[at] THEN step[<<at, g[further[at]]>>] ELSE given[at]
    <3>1. at \in 0..n
      BY <2>1
    <3>2. goes[at] => further[at] \in (n - z + 1)..n
      <4>1. goes[at] => further[at] \in (at + 1)..n
        BY <3>1
      <4>. QED  BY <4>1
    <3>3. CASE at = a
      <4>1. goes[at] => g[further[at]] = f[further[at]]
        BY <2>5, <3>2
      <4>. QED  BY <2>5, <3>3, <4>1 DEF one
    <3>4. CASE at # a
      <4>1. at \in (n - z + 1)..n
        BY <2>3, <3>4
      <4>2. goes[at] => g[further[at]] = f[further[at]]
        BY <2>5, <3>2
      <4>3. g[at] = f[at]
        BY <2>5, <4>1
      <4>. QED  BY <1>1, <4>1, <4>2, <4>3
    <3>. QED  BY <3>3, <3>4
  <2>7. Built(g, z)
    BY <2>6
  <2>. QED  BY <2>4, <2>7
<1>2. 0 \in Good
  <2>. DEFINE f == [i \in {} |-> 0]
  <2>1. (n - 0 + 1)..n = {} /\ 0 \in 0..n
    OBVIOUS
  <2>2. f \in [(n - 0 + 1)..n -> S]
    BY <2>1
  <2>. HIDE DEF f, Good
  <2>. QED  BY <1>1, <2>1, <2>2
<1>3. ASSUME NEW z \in 0..(n - 1), z \in Good PROVE z + 1 \in Good
  <2>1. PICK f \in [(n - z)..n -> S] : Built(f, z)
    BY <1>3
  <2>2. n - (z + 1) + 1 = n - z /\ z + 1 \in 0..n
    OBVIOUS
  <2>. HIDE DEF Good
  <2>. QED  BY <1>1, <2>1, <2>2
<1>4. n \in Good
  <2>. HIDE DEF Good
  <2>1. 0 \in Nat
    OBVIOUS
  <2>2. \A z \in 0..n : z \in Good
    BY <1>2, <1>3, <2>1, Upwards
  <2>. QED  BY <2>2
<1>5. PICK f \in [(n - n)..n -> S] : Built(f, n)
  BY <1>4
<1>6. n - n = 0
  OBVIOUS
<1>. QED  BY <1>5, <1>6 DEF GoesOn

-----------------------------------------------------------------------------
LEMMA RadixType == Radix \in Nat /\ Radix >= 2 /\ Radix <= 256
BY RadixAssumption

LEMMA CountIsNat ==
    ASSUME NEW c \in Nat
    PROVE  Radix * c \in Nat /\ (c > 0 => Radix * c > 0)
BY RadixType

Powers(f, n) == f[0] = 1 /\ \A k \in 1..n : f[k] = Radix * f[k - 1]

LEMMA ValuesIs ==
    ASSUME NEW n \in Nat
    PROVE  \E f \in [0..n -> Nat] : Powers(f, n) /\ Values(n) = f[n]
<1>. DEFINE P(c) == c = [k \in 0..n |-> IF k = 0 THEN 1 ELSE Radix * c[k - 1]]
            g == CHOOSE c : P(c)
            step == [p \in (1..n) \X Nat |-> Radix * p[2]]
<1>1. step \in [(1..n) \X Nat -> Nat]
  <2>1. \A p \in (1..n) \X Nat : Radix * p[2] \in Nat
    BY CountIsNat
  <2>. QED  BY <2>1
<1>2. PICK f \in [0..n -> Nat] : f[0] = 1 /\ \A k \in 1..n : f[k] = step[<<k, f[k - 1]>>]
  <2>. DEFINE S == Nat
              one == 1
  <2>1. one \in S
    OBVIOUS
  <2>2. step \in [(1..n) \X S -> S]
    BY <1>1
  <2>. HIDE DEF step, S, one
  <2>3. \E f \in [0..n -> S] : GoesUp(f, n, one, step)
    BY <2>1, <2>2, CountsUp
  <2>. QED  BY <2>3 DEF S, one, GoesUp
<1>3. \A k \in 1..n : f[k] = Radix * f[k - 1]
  <2>. TAKE k \in 1..n
  <2>1. k - 1 \in 0..n
    OBVIOUS
  <2>2. <<k, f[k - 1]>> \in (1..n) \X Nat
    BY <2>1
  <2>3. step[<<k, f[k - 1]>>] = Radix * f[k - 1]
    BY <2>2
  <2>. QED  BY <1>2, <2>3
<1>4. P(f)
  <2>1. \A k \in 0..n : k = 0 \/ k \in 1..n
    OBVIOUS
  <2>2. f = [k \in 0..n |-> f[k]]
    OBVIOUS
  <2>3. \A k \in 0..n : f[k] = IF k = 0 THEN 1 ELSE Radix * f[k - 1]
    BY <1>2, <1>3, <2>1
  <2>. QED  BY <2>2, <2>3
<1>5. P(g)
  BY <1>4
<1>6. Values(n) = g[n]
  BY DEF Values
<1>. HIDE DEF g
<1>7. \A k \in 0..n : g[k] = IF k = 0 THEN 1 ELSE Radix * g[k - 1]
  BY <1>5
<1>8. Powers(g, n)
  <2>1. 0 \in 0..n /\ \A k \in 1..n : k \in 0..n /\ k # 0
    OBVIOUS
  <2>. QED  BY <1>7, <2>1 DEF Powers
<1>. DEFINE Good == {k \in 0..n : g[k] = f[k]}
<1>9. 0 \in Good /\ 0 \in Nat
  BY <1>2, <1>8 DEF Powers
<1>10. ASSUME NEW k \in 0..(n - 1), k \in Good PROVE k + 1 \in Good
  <2>1. k + 1 \in 1..n /\ k + 1 \in 0..n /\ (k + 1) - 1 = k
    OBVIOUS
  <2>2. g[k + 1] = Radix * g[k] /\ f[k + 1] = Radix * f[k]
    BY <1>3, <1>8, <2>1 DEF Powers
  <2>. QED  BY <1>10, <2>1, <2>2
<1>11. \A k \in 0..n : k \in Good
  <2>. HIDE DEF Good
  <2>. QED  BY <1>9, <1>10, Upwards
<1>12. \A k \in 0..n : g[k] = f[k]
  BY <1>11
<1>13. Powers(f, n) /\ Values(n) = f[n]
  BY <1>2, <1>3, <1>6, <1>12 DEF Powers
<1>. QED  BY <1>13

LEMMA ValuesGrow ==
    /\ Values(0) = 1
    /\ \A n \in Nat : /\ Values(n) \in Nat /\ Values(n) > 0
                      /\ Values(n + 1) = Radix * Values(n)
<1>1. ASSUME NEW n \in Nat, NEW m \in n..(n + 1),
             NEW f \in [0..n -> Nat], Powers(f, n), NEW g \in [0..m -> Nat], Powers(g, m)
      PROVE  f[n] = g[n] /\ f[n] > 0
  <2>. DEFINE Good == {k \in 0..n : f[k] = g[k] /\ f[k] > 0}
  <2>1. 0 \in Good /\ 0 \in Nat
    BY <1>1 DEF Powers
  <2>2. ASSUME NEW k \in 0..(n - 1), k \in Good PROVE k + 1 \in Good
    <3>1. k + 1 \in 1..n /\ k + 1 \in 0..n /\ (k + 1) - 1 = k /\ k + 1 \in 1..m /\ k \in 0..n
      OBVIOUS
    <3>2. g[k + 1] = Radix * g[k] /\ f[k + 1] = Radix * f[k]
      BY <1>1, <3>1 DEF Powers
    <3>3. f[k] \in Nat /\ f[k] > 0 /\ f[k] = g[k]
      BY <2>2, <3>1
    <3>. QED  BY <3>1, <3>2, <3>3, CountIsNat
  <2>3. \A k \in 0..n : k \in Good
    <3>. HIDE DEF Good
    <3>. QED  BY <2>1, <2>2, Upwards
  <2>. QED  BY <2>3
<1>2. Values(0) = 1
  <2>1. 0 \in Nat
    OBVIOUS
  <2>. QED  BY <2>1, ValuesIs DEF Powers
<1>3. ASSUME NEW n \in Nat
      PROVE  /\ Values(n) \in Nat /\ Values(n) > 0
             /\ Values(n + 1) = Radix * Values(n)
  <2>1. PICK f \in [0..n -> Nat] : Powers(f, n) /\ Values(n) = f[n]
    BY ValuesIs
  <2>2. n + 1 \in Nat /\ n + 1 \in n..(n + 1) /\ n \in n..(n + 1) /\ n \in 0..n
    OBVIOUS
  <2>3. PICK g \in [0..(n + 1) -> Nat] : Powers(g, n + 1) /\ Values(n + 1) = g[n + 1]
    BY <2>2, ValuesIs
  <2>4. f[n] = g[n] /\ f[n] > 0
    BY <1>1, <2>1, <2>2, <2>3
  <2>5. g[n + 1] = Radix * g[n]
    <3>1. n + 1 \in 1..(n + 1) /\ (n + 1) - 1 = n
      OBVIOUS
    <3>. QED  BY <2>3, <3>1 DEF Powers
  <2>. QED  BY <2>1, <2>2, <2>3, <2>4, <2>5
<1>. QED  BY <1>2, <1>3

LEMMA ValuesAre == Values(0) = 1 /\ Values(1) = Radix /\ Values(2) = Radix * Radix
<1>1. Values(0 + 1) = Radix * Values(0) /\ Values(1 + 1) = Radix * Values(1) /\ Values(0) = 1
  BY ValuesGrow
<1>2. 0 + 1 = 1 /\ 1 + 1 = 2
  OBVIOUS
<1>3. Radix * 1 = Radix
  BY RadixType
<1>. QED  BY <1>1, <1>2, <1>3

LEMMA DivIs ==
    ASSUME NEW n \in Nat, NEW d \in Nat, NEW q \in Nat, NEW u \in Nat,
           d > 0, u < d, n = q * d + u
    PROVE  n \div d = q
OBVIOUS

LEMMA DivAgain ==
    ASSUME NEW n \in Nat, NEW v \in Nat, v > 0
    PROVE  n \div (Radix * v) = (n \div v) \div Radix
<1>. DEFINE a == n \div v
            u == n % v
            q == a \div Radix
            r == a % Radix
            d == Radix * v
            w == r * v + u
<1>1. a \in Nat /\ u \in Nat /\ u < v /\ n = v * a + u
  OBVIOUS
<1>. HIDE DEF a, u
<1>2. Radix \in Nat /\ Radix > 0
  BY RadixType
<1>3. q \in Nat /\ r \in Nat /\ r < Radix /\ a = Radix * q + r
  BY <1>1, <1>2
<1>. HIDE DEF q, r
<1>4. d \in Nat /\ d > 0
  BY <1>2, CountIsNat
<1>5. w \in Nat
  <2>1. r * v \in Nat
    BY <1>3
  <2>. QED  BY <1>1, <2>1
<1>6. w < d
  <2>1. r + 1 \in Nat /\ r + 1 <= Radix
    BY <1>2, <1>3
  <2>2. (r + 1) * v <= Radix * v
    BY <1>2, <2>1
  <2>3. (r + 1) * v = r * v + v
    BY <1>3
  <2>4. r * v \in Nat /\ (r + 1) * v \in Nat /\ d \in Nat
    BY <1>3, <1>4, <2>1
  <2>. QED  BY <1>1, <2>2, <2>3, <2>4
<1>7. n = q * d + w
  <2>1. v * a = v * (Radix * q + r)
    BY <1>3
  <2>2. v * (Radix * q + r) = q * d + r * v
    BY <1>2, <1>3
  <2>. QED  BY <1>1, <1>3, <1>4, <2>1, <2>2
<1>. HIDE DEF d, w
<1>8. n \div d = q
  BY <1>3, <1>4, <1>5, <1>6, <1>7, DivIs
<1>. QED  BY <1>8 DEF d, q, a

LEMMA LengthAtIs ==
    ASSUME NEW sample \in Seq(Byte), NEW size \in Nat, NEW at \in Nat,
           at + size <= Len(sample)
    PROVE  \E f \in [0..size -> Nat] :
              /\ LengthAt(sample, at, size) = f[size]
              /\ f[0] = 0
              /\ \A k \in 1..size : f[k] = Radix * f[k - 1] + At(sample, at + k - 1)
<1>. DEFINE P(c) == c = [k \in 0..size |->
                            IF k = 0 THEN 0 ELSE Radix * c[k - 1] + At(sample, at + k - 1)]
            g == CHOOSE c : P(c)
            step == [p \in (1..size) \X Nat |-> Radix * p[2] + At(sample, at + p[1] - 1)]
<1>1. \A k \in 1..size : At(sample, at + k - 1) \in Nat
  <2>. TAKE k \in 1..size
  <2>1. at + k - 1 \in 0..(Len(sample) - 1)
    BY LenProperties
  <2>2. At(sample, at + k - 1) \in Byte
    BY <2>1, ByteAt
  <2>3. \A byte \in Byte : byte \in Nat
    BY DEF Byte
  <2>. QED  BY <2>2, <2>3, Zenon
<1>2. step \in [(1..size) \X Nat -> Nat]
  <2>1. ASSUME NEW p \in (1..size) \X Nat
        PROVE  Radix * p[2] + At(sample, at + p[1] - 1) \in Nat
    <3>1. p[1] \in 1..size /\ p[2] \in Nat
      OBVIOUS
    <3>2. Radix * p[2] \in Nat /\ At(sample, at + p[1] - 1) \in Nat
      BY <1>1, <3>1, CountIsNat
    <3>. QED  BY <3>2
  <2>. QED  BY <2>1
<1>3. \E f \in [0..size -> Nat] : GoesUp(f, size, 0, step)
  <2>. DEFINE S == Nat
              a == 0
  <2>1. a \in S /\ step \in [(1..size) \X S -> S]
    BY <1>2
  <2>. HIDE DEF step, S, a
  <2>2. \E f \in [0..size -> S] : GoesUp(f, size, a, step)
    BY <2>1, CountsUp
  <2>. QED  BY <2>2 DEF S, a
<1>4. PICK f \in [0..size -> Nat] : GoesUp(f, size, 0, step)
  BY <1>3
<1>5. f[0] = 0 /\ \A k \in 1..size : f[k] = Radix * f[k - 1] + At(sample, at + k - 1)
  <2>1. f[0] = 0
    BY <1>4 DEF GoesUp
  <2>2. ASSUME NEW k \in 1..size
        PROVE  f[k] = Radix * f[k - 1] + At(sample, at + k - 1)
    <3>1. k - 1 \in 0..size
      OBVIOUS
    <3>2. <<k, f[k - 1]>> \in (1..size) \X Nat
      BY <3>1
    <3>3. step[<<k, f[k - 1]>>] = Radix * f[k - 1] + At(sample, at + k - 1)
      BY <3>2
    <3>. QED  BY <1>4, <3>3 DEF GoesUp
  <2>. QED  BY <2>1, <2>2
<1>6. P(f)
  <2>1. \A k \in 0..size : k = 0 \/ k \in 1..size
    OBVIOUS
  <2>2. f = [k \in 0..size |-> f[k]]
    OBVIOUS
  <2>3. \A k \in 0..size :
           f[k] = IF k = 0 THEN 0 ELSE Radix * f[k - 1] + At(sample, at + k - 1)
    BY <1>5, <2>1
  <2>. QED  BY <2>2, <2>3
<1>7. P(g)
  BY <1>6
<1>8. LengthAt(sample, at, size) = g[size]
  BY DEF LengthAt
<1>. HIDE DEF g
<1>9. \A k \in 0..size :
         g[k] = IF k = 0 THEN 0 ELSE Radix * g[k - 1] + At(sample, at + k - 1)
  BY <1>7
<1>. DEFINE Good == {k \in 0..size : g[k] = f[k]}
<1>10. 0 \in Good /\ 0 \in Nat
  BY <1>5, <1>9
<1>11. ASSUME NEW k \in 0..(size - 1), k \in Good PROVE k + 1 \in Good
  <2>1. k + 1 \in 1..size /\ k + 1 \in 0..size /\ (k + 1) - 1 = k /\ k + 1 # 0
    OBVIOUS
  <2>2. g[k + 1] = Radix * g[k] + At(sample, at + (k + 1) - 1)
    BY <1>9, <2>1
  <2>3. f[k + 1] = Radix * f[k] + At(sample, at + (k + 1) - 1)
    BY <1>5, <2>1
  <2>. QED  BY <1>11, <2>1, <2>2, <2>3
<1>12. \A k \in 0..size : k \in Good
  <2>. HIDE DEF Good
  <2>. QED  BY <1>10, <1>11, Upwards
<1>13. g[size] = f[size]
  BY <1>12
<1>. QED  BY <1>5, <1>8, <1>13

LEMMA LengthIsNat ==
    ASSUME NEW sample \in Seq(Byte), NEW size \in Nat, NEW at \in Nat,
           at + size <= Len(sample)
    PROVE  LengthAt(sample, at, size) \in Nat
<1>1. PICK f \in [0..size -> Nat] : LengthAt(sample, at, size) = f[size]
  BY LengthAtIs
<1>. QED  BY <1>1

LEMMA DivLess ==
    ASSUME NEW n \in Nat, NEW v \in Nat, n < v
    PROVE  n \div v = 0
OBVIOUS

LEMMA DivNat ==
    ASSUME NEW n \in Nat, NEW v \in Nat, v > 0
    PROVE  n \div v \in Nat
OBVIOUS

LEMMA LengthBytesAre ==
    ASSUME NEW n \in Nat, NEW size \in Nat
    PROVE  /\ LengthBytes(n, size) \in Seq(Byte) /\ Len(LengthBytes(n, size)) = size
           /\ \A k \in 1..size :
                 LengthBytes(n, size)[k] = (n \div Values(size - k)) % Radix
<1>1. ASSUME NEW k \in 1..size PROVE (n \div Values(size - k)) % Radix \in Byte
  <2>1. size - k \in Nat
    OBVIOUS
  <2>2. Values(size - k) \in Nat /\ Values(size - k) > 0
    BY <2>1, ValuesGrow
  <2>. DEFINE a == n \div Values(size - k)
  <2>3. a \in Nat
    BY <2>2
  <2>. HIDE DEF a
  <2>4. a % Radix \in 0..255
    BY <2>3, RadixType
  <2>. QED  BY <2>4 DEF a, Byte
<1>. QED  BY <1>1 DEF LengthBytes

\* A length written is the length read.
LEMMA LengthRead ==
    ASSUME NEW sample \in Seq(Byte), NEW size \in Nat, NEW at \in Nat,
           at + size <= Len(sample), NEW n \in Nat, n < Values(size),
           \A k \in 1..size : At(sample, at + k - 1) = LengthBytes(n, size)[k]
    PROVE  LengthAt(sample, at, size) = n
<1>1. PICK f \in [0..size -> Nat] :
              /\ LengthAt(sample, at, size) = f[size]
              /\ f[0] = 0
              /\ \A k \in 1..size : f[k] = Radix * f[k - 1] + At(sample, at + k - 1)
  BY LengthAtIs
<1>. DEFINE Good == {k \in 0..size : f[k] = n \div Values(size - k)}
<1>2. 0 \in Good /\ 0 \in Nat
  <2>1. size - 0 = size /\ Values(size) \in Nat
    BY ValuesGrow
  <2>2. n \div Values(size) = 0
    BY <2>1, DivLess
  <2>. QED  BY <1>1, <2>1, <2>2
<1>3. ASSUME NEW k \in 0..(size - 1), k \in Good PROVE k + 1 \in Good
  <2>. DEFINE m == size - (k + 1)
              v == Values(m)
              a == n \div v
  <2>1. m \in Nat /\ size - k = m + 1 /\ k + 1 \in 1..size /\ (k + 1) - 1 = k
    OBVIOUS
  <2>. HIDE DEF m
  <2>2. v \in Nat /\ v > 0 /\ Values(size - k) = Radix * v
    BY <2>1, ValuesGrow
  <2>. HIDE DEF v
  <2>3. f[k] = a \div Radix
    <3>1. n \div (Radix * v) = (n \div v) \div Radix
      BY <2>2, DivAgain
    <3>2. f[k] = n \div Values(size - k)
      BY <1>3
    <3>. QED  BY <2>2, <3>1, <3>2
  <2>4. a \in Nat
    <3>1. v \in Nat /\ v > 0
      BY <2>2
    <3>. QED  BY <3>1, DivNat
  <2>5. At(sample, at + (k + 1) - 1) = a % Radix
    <3>1. LengthBytes(n, size)[k + 1] = (n \div Values(size - (k + 1))) % Radix
      BY <2>1, LengthBytesAre
    <3>. QED  BY <2>1, <3>1 DEF m, v
  <2>6. f[k + 1] = Radix * f[k] + At(sample, at + (k + 1) - 1)
    BY <1>1, <2>1
  <2>. HIDE DEF a
  <2>7. Radix * (a \div Radix) + (a % Radix) = a
    BY <2>4, RadixType
  <2>8. f[k + 1] = a
    BY <2>3, <2>5, <2>6, <2>7
  <2>9. k + 1 \in 0..size
    OBVIOUS
  <2>. QED  BY <2>8, <2>9 DEF a, v, m
<1>4. \A k \in 0..size : k \in Good
  <2>. HIDE DEF Good
  <2>. QED  BY <1>2, <1>3, Upwards
<1>5. f[size] = n \div Values(size - size)
  BY <1>4
<1>6. Values(size - size) = 1
  BY ValuesGrow
<1>7. n \div 1 = n
  OBVIOUS
<1>. QED  BY <1>1, <1>5, <1>6, <1>7

-----------------------------------------------------------------------------
(*****************************************************************************)
(* A walk over a sample depends on what is in front of it only, and finds    *)
(* the NAL units behind their lengths again.                                 *)
(*****************************************************************************)

\* So many bytes are the same in two places.
SameBytes(b, at, d, to, size) == \A k \in 1..size : At(b, at + k - 1) = At(d, to + k - 1)

LEMMA LengthAlike ==
    ASSUME NEW b \in Seq(Byte), NEW d \in Seq(Byte), NEW size \in Nat,
           NEW at \in Nat, at + size <= Len(b), NEW to \in Nat, to + size <= Len(d),
           SameBytes(b, at, d, to, size)
    PROVE  LengthAt(b, at, size) = LengthAt(d, to, size)
<1>1. PICK f \in [0..size -> Nat] :
              /\ LengthAt(b, at, size) = f[size]
              /\ f[0] = 0
              /\ \A k \in 1..size : f[k] = Radix * f[k - 1] + At(b, at + k - 1)
  BY LengthAtIs
<1>2. PICK g \in [0..size -> Nat] :
              /\ LengthAt(d, to, size) = g[size]
              /\ g[0] = 0
              /\ \A k \in 1..size : g[k] = Radix * g[k - 1] + At(d, to + k - 1)
  BY LengthAtIs
<1>. DEFINE Good == {k \in 0..size : f[k] = g[k]}
<1>3. 0 \in Good /\ 0 \in Nat
  BY <1>1, <1>2
<1>4. ASSUME NEW k \in 0..(size - 1), k \in Good PROVE k + 1 \in Good
  <2>1. k + 1 \in 1..size /\ k + 1 \in 0..size /\ (k + 1) - 1 = k
    OBVIOUS
  <2>2. f[k + 1] = Radix * f[k] + At(b, at + (k + 1) - 1)
    BY <1>1, <2>1
  <2>3. g[k + 1] = Radix * g[k] + At(d, to + (k + 1) - 1)
    BY <1>2, <2>1
  <2>4. At(b, at + (k + 1) - 1) = At(d, to + (k + 1) - 1)
    BY <2>1 DEF SameBytes
  <2>. QED  BY <1>4, <2>1, <2>2, <2>3, <2>4
<1>5. \A k \in 0..size : k \in Good
  <2>. HIDE DEF Good
  <2>. QED  BY <1>3, <1>4, Upwards
<1>6. f[size] = g[size]
  BY <1>5
<1>. QED  BY <1>1, <1>2, <1>6

-----------------------------------------------------------------------------
\* Taking a length-prefixed sample apart, place by place.
Walked == [ok : BOOLEAN, nals : Seq(Seq(Byte))]

EndAt(s, at, size) == at + size + LengthAt(s, at, size)

Cuts(f, s, size) ==
    \A at \in 0..Len(s) :
        f[at] = IF at = Len(s) THEN Found(<< >>)
                ELSE IF at + size > Len(s) THEN Refused
                ELSE NalsFrom(s, at + size, EndAt(s, at, size), f)

LEMMA WalkedType ==
    /\ Found(<< >>) \in Walked /\ Refused \in Walked
    /\ \A x \in Walked, nal \in Seq(Byte) : [x EXCEPT !.nals = <<nal>> \o @] \in Walked
<1>1. << >> \in Seq(Seq(Byte))
  OBVIOUS
<1>2. ASSUME NEW x \in Walked, NEW nal \in Seq(Byte)
      PROVE  [x EXCEPT !.nals = <<nal>> \o @] \in Walked
  <2>1. x.nals \in Seq(Seq(Byte)) /\ <<nal>> \in Seq(Seq(Byte))
    BY DEF Walked
  <2>2. <<nal>> \o x.nals \in Seq(Seq(Byte))
    BY <2>1, ConcatProperties
  <2>. DEFINE more == <<nal>> \o x.nals
  <2>. HIDE DEF more
  <2>3. more \in Seq(Seq(Byte))
    BY <2>2 DEF more
  <2>4. [x EXCEPT !.nals = more] \in Walked
    BY <2>3 DEF Walked
  <2>. QED  BY <2>4 DEF more
<1>. QED  BY <1>1, <1>2 DEF Found, Refused, Walked

LEMMA CutsExist ==
    ASSUME NEW s \in Seq(Byte), NEW size \in 1..4
    PROVE  \E f \in [0..Len(s) -> Walked] : Cuts(f, s, size)
<1>. DEFINE n == Len(s)
            end(at) == EndAt(s, at, size)
            ends == {at \in 0..n : at + size <= n /\ end(at) <= n}
            goes == [at \in 0..n |-> at \in ends]
            further == [at \in 0..n |-> end(at)]
            given == [at \in 0..n |-> IF at = n THEN Found(<< >>) ELSE Refused]
            nal(at) == Slice(s, at + size, end(at))
            put(at, x) == [x EXCEPT !.nals = <<nal(at)>> \o @]
            step == [p \in (0..n) \X Walked |-> IF p[1] \in ends THEN put(p[1], p[2]) ELSE p[2]]
<1>0. n \in Nat /\ size \in Nat
  BY LenProperties
<1>1. \A at \in 0..n : at + size <= n => LengthAt(s, at, size) \in Nat
  BY <1>0, LengthIsNat
<1>2. \A at \in ends : /\ end(at) \in (at + size)..n /\ nal(at) \in Seq(Byte)
                       /\ end(at) \in (at + 1)..n
  <2>. TAKE at \in ends
  <2>1. end(at) \in (at + size)..n
    BY <1>0, <1>1 DEF EndAt
  <2>2. end(at) \in 0..n /\ at + size \in 0..end(at) /\ end(at) \in (at + 1)..n
    BY <1>0, <2>1
  <2>3. nal(at) \in Seq(Byte)
    BY <2>2, SliceProperties
  <2>. QED  BY <2>1, <2>2, <2>3
<1>3. given \in [0..n -> Walked]
  BY WalkedType
<1>4. step \in [(0..n) \X Walked -> Walked]
  <2>1. ASSUME NEW p \in (0..n) \X Walked
        PROVE  (IF p[1] \in ends THEN put(p[1], p[2]) ELSE p[2]) \in Walked
    <3>1. p[1] \in 0..n /\ p[2] \in Walked
      OBVIOUS
    <3>2. CASE p[1] \in ends
      <4>1. nal(p[1]) \in Seq(Byte)
        BY <1>2, <3>2
      <4>. HIDE DEF nal, ends
      <4>2. put(p[1], p[2]) \in Walked
        BY <3>1, <4>1, WalkedType
      <4>. QED  BY <3>2, <4>2
    <3>3. CASE p[1] \notin ends
      BY <3>1, <3>3
    <3>. QED  BY <3>2, <3>3
  <2>. HIDE DEF put, ends
  <2>. QED  BY <2>1
<1>5. \A at \in 0..n : goes[at] => further[at] \in (at + 1)..n
  BY <1>2
<1>6. \E f \in [0..n -> Walked] : GoesOn(f, n, goes, further, step, given)
  <2>. HIDE DEF goes, further, step, given, n
  <2>. QED  BY <1>0, <1>3, <1>4, <1>5, CountsDown
<1>7. PICK f \in [0..n -> Walked] : GoesOn(f, n, goes, further, step, given)
  BY <1>6
<1>8. Cuts(f, s, size)
  <2>1. ASSUME NEW at \in 0..n
        PROVE  f[at] = IF at = n THEN Found(<< >>)
                       ELSE IF at + size > n THEN Refused
                       ELSE NalsFrom(s, at + size, end(at), f)
    <3>1. f[at] = IF goes[at] THEN step[<<at, f[further[at]]>>] ELSE given[at]
      <4>. HIDE DEF goes, further, step, given, n
      <4>. QED  BY <1>7 DEF GoesOn
    <3>2. CASE at \in ends
      <4>1. end(at) \in 0..n /\ further[at] = end(at) /\ goes[at] /\ at # n /\ ~(at + size > n)
        <5>1. end(at) \in (at + size)..n /\ at + size <= n
          BY <1>2, <3>2
        <5>2. further[at] = end(at) /\ goes[at]
          BY <3>2
        <5>. HIDE DEF end, further, goes, n
        <5>. QED  BY <1>0, <5>1, <5>2
      <4>2. f[end(at)] \in Walked /\ <<at, f[end(at)]>> \in (0..n) \X Walked
        BY <4>1
      <4>3. step[<<at, f[end(at)]>>] = put(at, f[end(at)])
        <5>. HIDE DEF put, ends, n
        <5>. QED  BY <3>2, <4>2
      <4>4. f[at] = put(at, f[end(at)])
        <5>. HIDE DEF put, end, goes, further, step, given
        <5>. QED  BY <3>1, <4>1, <4>3
      <4>5. NalsFrom(s, at + size, end(at), f) = put(at, f[end(at)])
        <5>1. ~(end(at) > Len(s))
          BY <1>0, <3>2
        <5>. HIDE DEF end
        <5>. QED  BY <5>1 DEF NalsFrom
      <4>. HIDE DEF put, end, n
      <4>. QED  BY <4>1, <4>4, <4>5
    <3>3. CASE at \notin ends
      <4>1. f[at] = IF at = n THEN Found(<< >>) ELSE Refused
        <5>1. ~goes[at] /\ given[at] = IF at = n THEN Found(<< >>) ELSE Refused
          BY <3>3
        <5>. HIDE DEF goes, further, step, given, n
        <5>. QED  BY <3>1, <5>1
      <4>2. at + size > n \/ end(at) > n
        <5>1. at + size \in Nat
          BY <1>0
        <5>2. at + size <= n => end(at) \in Nat
          <6>1. at + size <= n => LengthAt(s, at, size) \in Nat
            BY <1>1
          <6>. QED  BY <1>0, <6>1 DEF EndAt
        <5>. HIDE DEF end, n
        <5>. QED  BY <1>0, <3>3, <5>1, <5>2
      <4>3. end(at) > n => NalsFrom(s, at + size, end(at), f) = Refused
        BY DEF NalsFrom
      <4>. HIDE DEF end, n
      <4>. QED  BY <4>1, <4>2, <4>3
    <3>. QED  BY <3>2, <3>3
  <2>. QED  BY <2>1 DEF Cuts
<1>. QED  BY <1>7, <1>8

Ahead(f, n, g, y) == \A at \in 0..Len(y) : f[n + at] = g[at]

\* A sample taken apart is taken apart alike behind other bytes.
LEMMA CutsAgree ==
    ASSUME NEW x \in Seq(Byte), NEW y \in Seq(Byte), NEW size \in 1..4,
           NEW f, Cuts(f, x \o y, size), NEW g, Cuts(g, y, size)
    PROVE  Ahead(f, Len(x), g, y)
<1>. DEFINE n == Len(x)
            z == Len(y)
            w == x \o y
            Good == {k \in 0..z : f[n + (z - k)] = g[z - k]}
<1>1. /\ w \in Seq(Byte) /\ n \in Nat /\ z \in Nat /\ Len(w) = n + z /\ size \in Nat
      /\ \A i \in 0..(z - 1) : At(w, n + i) = At(y, i)
  BY SlicesOfJoin
<1>2. Cuts(f, w, size)
  OBVIOUS
<1>. HIDE DEF w, n, z
<1>3. ASSUME NEW k \in 0..z, \A j \in 0..(k - 1) : j \in Good PROVE k \in Good
  <2>. DEFINE at == z - k
  <2>1. at \in 0..z /\ n + at \in 0..(n + z)
    BY <1>1
  <2>2. f[n + at] = IF n + at = n + z THEN Found(<< >>)
                    ELSE IF n + at + size > n + z THEN Refused
                    ELSE NalsFrom(w, n + at + size, EndAt(w, n + at, size), f)
    BY <1>1, <1>2, <2>1 DEF Cuts
  <2>3. g[at] = IF at = z THEN Found(<< >>)
                ELSE IF at + size > z THEN Refused
                ELSE NalsFrom(y, at + size, EndAt(y, at, size), g)
    BY <2>1 DEF Cuts, z
  <2>. HIDE DEF at
  <2>4. f[n + at] = g[at]
    <3>1. CASE at = z
      BY <1>1, <2>1, <2>2, <2>3, <3>1
    <3>2. CASE at # z /\ at + size > z
      BY <1>1, <2>1, <2>2, <2>3, <3>2
    <3>3. CASE at # z /\ at + size <= z
      <4>. DEFINE length == LengthAt(y, at, size)
                  end == at + size + length
      <4>1. length \in Nat
        BY <1>1, <2>1, <3>3, LengthIsNat DEF z
      <4>2. LengthAt(w, n + at, size) = length
        <5>. DEFINE to == n + at
        <5>1. SameBytes(y, at, w, to, size)
          <6>1. ASSUME NEW i \in 1..size PROVE At(y, at + i - 1) = At(w, to + i - 1)
            <7>1. at + i - 1 \in 0..(z - 1) /\ to + i - 1 = n + (at + i - 1)
              BY <1>1, <2>1, <3>3
            <7>. QED  BY <1>1, <7>1
          <6>. QED  BY <6>1 DEF SameBytes
        <5>2. to \in Nat /\ at \in Nat /\ to + size <= Len(w) /\ at + size <= Len(y)
          BY <1>1, <2>1, <3>3 DEF z
        <5>. HIDE DEF to
        <5>3. LengthAt(y, at, size) = LengthAt(w, to, size)
          BY <1>1, <5>1, <5>2, LengthAlike
        <5>. QED  BY <5>3 DEF to
      <4>. HIDE DEF length
      <4>3. EndAt(y, at, size) = end /\ EndAt(w, n + at, size) = n + end /\ end \in Nat
        BY <1>1, <2>1, <4>1, <4>2 DEF EndAt, length
      <4>4. f[n + at] = NalsFrom(w, n + at + size, n + end, f)
        BY <1>1, <2>1, <2>2, <3>3, <4>3
      <4>5. g[at] = NalsFrom(y, at + size, end, g)
        BY <1>1, <2>1, <2>3, <3>3, <4>3
      <4>6. CASE end > z
        <5>1. n + end > Len(w) /\ end > Len(y)
          BY <1>1, <4>3, <4>6 DEF z
        <5>. HIDE DEF end
        <5>. QED  BY <4>4, <4>5, <5>1 DEF NalsFrom
      <4>7. CASE end <= z
        <5>1. ~(n + end > Len(w)) /\ ~(end > Len(y))
          BY <1>1, <4>3, <4>7 DEF z
        <5>2. f[n + end] = g[end]
          <6>1. z - end \in 0..(k - 1) /\ z - (z - end) = end
            BY <1>1, <2>1, <4>1, <4>3, <4>7 DEF at
          <6>. HIDE DEF end
          <6>. QED  BY <1>3, <6>1
        <5>3. Slice(w, n + at + size, n + end) = Slice(y, at + size, end)
          <6>. DEFINE lo == n + at + size
                      hi == n + end
                      from == at + size
          <6>1. /\ hi \in 0..Len(w) /\ lo \in 0..hi /\ end \in 0..Len(y) /\ from \in 0..end
                /\ hi - lo = end - from
            BY <1>1, <2>1, <4>1, <4>3, <4>7 DEF z
          <6>2. \A i \in 0..(hi - lo - 1) : At(w, lo + i) = At(y, from + i)
            <7>. TAKE i \in 0..(hi - lo - 1)
            <7>1. from + i \in 0..(z - 1) /\ lo + i = n + (from + i)
              BY <1>1, <2>1, <4>1, <4>3, <4>7
            <7>. QED  BY <1>1, <7>1
          <6>. HIDE DEF lo, hi, end, from
          <6>3. Slice(w, lo, hi) = Slice(y, from, end)
            BY <1>1, <6>1, <6>2, SliceAlike
          <6>. QED  BY <6>3 DEF lo, hi, from
        <5>. HIDE DEF end
        <5>. QED  BY <4>4, <4>5, <5>1, <5>2, <5>3 DEF NalsFrom
      <4>. HIDE DEF end
      <4>8. end <= z \/ end > z
        BY <1>1, <4>3
      <4>. QED  BY <4>6, <4>7, <4>8
    <3>4. at + size <= z \/ at + size > z
      BY <1>1, <2>1
    <3>. QED  BY <3>1, <3>2, <3>3, <3>4
  <2>. QED  BY <2>4 DEF at
<1>4. \A k \in 0..z : k \in Good
  <2>. HIDE DEF Good
  <2>. QED  BY <1>1, <1>3, UpwardsFromBelow
<1>5. \A at \in 0..z : f[n + at] = g[at]
  <2>. TAKE at \in 0..z
  <2>1. z - at \in 0..z /\ z - (z - at) = at
    BY <1>1
  <2>. QED  BY <1>4, <2>1
<1>. QED  BY <1>5 DEF n, z, Ahead

\* What split_length_prefixed finds.
LEMMA SplitIs ==
    ASSUME NEW s \in Seq(Byte), NEW size \in 1..4, NEW f, Cuts(f, s, size)
    PROVE  SplitLengthPrefixed(s, size) = f[0]
<1>. DEFINE P(c) == c = [at \in 0..Len(s) |->
                            IF at = Len(s) THEN Found(<< >>)
                            ELSE IF at + size > Len(s) THEN Refused
                            ELSE NalsFrom(s, at + size,
                                          at + size + LengthAt(s, at, size), c)]
            g == CHOOSE c : P(c)
<1>1. PICK h \in [0..Len(s) -> Walked] : Cuts(h, s, size)
  BY CutsExist
<1>2. P(h)
  <2>1. h = [at \in 0..Len(s) |-> h[at]]
    OBVIOUS
  <2>2. \A at \in 0..Len(s) :
           h[at] = IF at = Len(s) THEN Found(<< >>)
                   ELSE IF at + size > Len(s) THEN Refused
                   ELSE NalsFrom(s, at + size, at + size + LengthAt(s, at, size), h)
    BY <1>1 DEF Cuts, EndAt
  <2>. QED  BY <2>1, <2>2
<1>3. P(g)
  BY <1>2
<1>4. SplitLengthPrefixed(s, size) = g[0]
  BY DEF SplitLengthPrefixed, WidthOk
<1>. HIDE DEF g
<1>5. Cuts(g, s, size)
  BY <1>3 DEF Cuts, EndAt
<1>6. << >> \o s = s /\ << >> \in Seq(Byte) /\ Len(<< >>) = 0 /\ Len(s) \in Nat
  BY ConcatEmptySeq
<1>7. \A at \in 0..Len(s) : f[0 + at] = g[at]
  <2>. DEFINE x == << >>
  <2>. HIDE DEF x
  <2>1. x \in Seq(Byte) /\ Len(x) = 0 /\ Cuts(f, x \o s, size)
    BY <1>6 DEF x
  <2>2. Ahead(f, Len(x), g, s)
    BY <1>5, <2>1, CutsAgree
  <2>. QED  BY <2>1, <2>2 DEF Ahead
<1>8. f[0 + 0] = g[0] /\ 0 + 0 = 0
  BY <1>6, <1>7
<1>. QED  BY <1>4, <1>8

LEMMA SplitType ==
    ASSUME NEW s \in Seq(Byte), NEW size \in Nat
    PROVE  SplitLengthPrefixed(s, size) \in Walked
<1>1. CASE size \in 1..4
  <2>1. PICK f \in [0..Len(s) -> Walked] : Cuts(f, s, size)
    BY <1>1, CutsExist
  <2>2. SplitLengthPrefixed(s, size) = f[0]
    BY <1>1, <2>1, SplitIs
  <2>3. 0 \in 0..Len(s)
    BY LenProperties
  <2>. QED  BY <2>1, <2>2, <2>3
<1>2. CASE size \notin 1..4
  <2>1. SplitLengthPrefixed(s, size) = Refused
    BY <1>2 DEF SplitLengthPrefixed, WidthOk
  <2>. QED  BY <2>1, WalkedType
<1>. QED  BY <1>1, <1>2

\* A NAL unit behind its length.
PrefixedNal(nal, size) == LengthBytes(Len(nal), size) \o nal

LEMMA PrefixedNalBytes ==
    ASSUME NEW nal \in Seq(Byte), NEW size \in Nat
    PROVE  /\ PrefixedNal(nal, size) \in Seq(Byte) /\ Len(nal) \in Nat
           /\ Len(PrefixedNal(nal, size)) = size + Len(nal)
           /\ \A k \in 1..size : PrefixedNal(nal, size)[k] = LengthBytes(Len(nal), size)[k]
           /\ \A i \in 0..(Len(nal) - 1) : At(PrefixedNal(nal, size), size + i) = At(nal, i)
<1>. DEFINE x == LengthBytes(Len(nal), size)
<1>1. Len(nal) \in Nat
  BY LenProperties
<1>2. x \in Seq(Byte) /\ Len(x) = size
  BY <1>1, LengthBytesAre
<1>. HIDE DEF x
<1>3. /\ x \o nal \in Seq(Byte) /\ Len(x \o nal) = size + Len(nal)
      /\ \A i \in 0..(size - 1) : At(x \o nal, i) = At(x, i)
      /\ \A i \in 0..(Len(nal) - 1) : At(x \o nal, size + i) = At(nal, i)
  BY <1>2, SlicesOfJoin
<1>4. \A k \in 1..size : (x \o nal)[k] = x[k]
  <2>. TAKE k \in 1..size
  <2>1. k - 1 \in 0..(size - 1) /\ (k - 1) + 1 = k
    OBVIOUS
  <2>2. At(x \o nal, k - 1) = At(x, k - 1)
    BY <1>3, <2>1
  <2>. QED  BY <2>1, <2>2 DEF At
<1>. QED  BY <1>1, <1>3, <1>4 DEF PrefixedNal, x

\* The walk reads a NAL unit behind its length and goes on behind it.
LEMMA SplitAhead ==
    ASSUME NEW nal \in Seq(Byte), NEW size \in 1..4, Len(nal) < Values(size),
           NEW y \in Seq(Byte)
    PROVE  SplitLengthPrefixed(PrefixedNal(nal, size) \o y, size)
               = [SplitLengthPrefixed(y, size) EXCEPT !.nals = <<nal>> \o @]
<1>. DEFINE x == PrefixedNal(nal, size)
            w == x \o y
            n == size + Len(nal)
<1>1. size \in Nat /\ Len(nal) \in Nat /\ n \in Nat /\ Len(y) \in Nat
  BY LenProperties
<1>2. /\ x \in Seq(Byte) /\ Len(x) = n
      /\ \A k \in 1..size : x[k] = LengthBytes(Len(nal), size)[k]
      /\ \A i \in 0..(Len(nal) - 1) : At(x, size + i) = At(nal, i)
  BY <1>1, PrefixedNalBytes
<1>. HIDE DEF x
<1>3. /\ w \in Seq(Byte) /\ Len(w) = n + Len(y)
      /\ \A i \in 0..(n - 1) : At(w, i) = At(x, i)
  BY <1>2, SlicesOfJoin
<1>4. PICK f \in [0..Len(w) -> Walked] : Cuts(f, w, size)
  BY <1>3, CutsExist
<1>5. PICK g \in [0..Len(y) -> Walked] : Cuts(g, y, size)
  BY CutsExist
<1>6. SplitLengthPrefixed(w, size) = f[0] /\ SplitLengthPrefixed(y, size) = g[0]
  <2>1. SplitLengthPrefixed(w, size) = f[0]
    BY <1>3, <1>4, SplitIs
  <2>2. SplitLengthPrefixed(y, size) = g[0]
    BY <1>5, SplitIs
  <2>. QED  BY <2>1, <2>2
<1>7. f[n] = g[0]
  <2>. HIDE DEF n
  <2>1. Ahead(f, Len(x), g, y)
    <3>1. Cuts(f, x \o y, size) /\ Cuts(g, y, size) /\ x \in Seq(Byte)
      BY <1>2, <1>4, <1>5
    <3>2. size \in 1..4 /\ y \in Seq(Byte)
      OBVIOUS
    <3>. QED  BY <3>1, <3>2, CutsAgree, Zenon
  <2>2. Len(x) + 0 = n /\ 0 \in 0..Len(y)
    BY <1>1, <1>2
  <2>3. f[Len(x) + 0] = g[0]
    BY <2>1, <2>2, Zenon DEF Ahead
  <2>. QED  BY <2>2, <2>3, Zenon
<1>. HIDE DEF w, n
<1>8. \A k \in 1..size : At(w, 0 + k - 1) = LengthBytes(Len(nal), size)[k]
  <2>. TAKE k \in 1..size
  <2>1. k - 1 \in 0..(n - 1) /\ 0 + k - 1 = k - 1 /\ (k - 1) + 1 = k
    BY <1>1 DEF n
  <2>2. At(w, k - 1) = At(x, k - 1)
    BY <1>3, <2>1
  <2>3. At(x, k - 1) = x[k]
    BY <2>1 DEF At
  <2>. QED  BY <1>2, <2>1, <2>2, <2>3
<1>9. LengthAt(w, 0, size) = Len(nal)
  <2>1. 0 \in Nat /\ 0 + size <= Len(w)
    BY <1>1, <1>3 DEF n
  <2>. QED  BY <1>1, <1>3, <1>8, <2>1, LengthRead
<1>10. Slice(w, size, n) = nal
  <2>1. Slice(nal, 0, Len(nal)) = nal
    BY SubSeqFull DEF Slice
  <2>2. Slice(w, size, n) = Slice(nal, 0, Len(nal))
    <3>1. /\ n \in 0..Len(w) /\ size \in 0..n /\ Len(nal) \in 0..Len(nal) /\ 0 \in 0..Len(nal)
          /\ n - size = Len(nal) - 0
      BY <1>1, <1>3 DEF n
    <3>2. \A i \in 0..(n - size - 1) : At(w, size + i) = At(nal, 0 + i)
      <4>. TAKE i \in 0..(n - size - 1)
      <4>1. size + i \in 0..(n - 1) /\ i \in 0..(Len(nal) - 1) /\ 0 + i = i
        BY <1>1 DEF n
      <4>. QED  BY <1>2, <1>3, <4>1
    <3>. QED  BY <1>3, <3>1, <3>2, SliceAlike
  <2>. QED  BY <2>1, <2>2
<1>11. f[0] = [g[0] EXCEPT !.nals = <<nal>> \o @]
  <2>1. /\ 0 \in 0..Len(w) /\ 0 # Len(w) /\ ~(0 + size > Len(w)) /\ ~(n > Len(w))
        /\ 0 + size = size
    BY <1>1, <1>3 DEF n
  <2>2. EndAt(w, 0, size) = n
    BY <1>1, <1>9 DEF EndAt, n
  <2>3. f[0] = NalsFrom(w, size, n, f)
    BY <1>4, <2>1, <2>2 DEF Cuts
  <2>4. NalsFrom(w, size, n, f) = [f[n] EXCEPT !.nals = <<Slice(w, size, n)>> \o @]
    BY <2>1 DEF NalsFrom
  <2>. QED  BY <1>7, <1>10, <2>3, <2>4
<1>. QED  BY <1>6, <1>11 DEF w, x

LEMMA PrefixedConcat ==
    ASSUME NEW s \in Seq(Seq(Byte)), NEW t \in Seq(Seq(Byte)), NEW size \in Nat
    PROVE  /\ Prefixed(s, size) \in Seq(Byte)
           /\ Prefixed(s \o t, size) = Prefixed(s, size) \o Prefixed(t, size)
<1>. DEFINE give == [nal \in Seq(Byte) |-> PrefixedNal(nal, size)]
            S == Seq(Byte)
<1>1. give \in [Seq(Byte) -> Seq(Byte)]
  BY PrefixedNalBytes
<1>2. ASSUME NEW r \in Seq(S) PROVE Prefixed(r, size) = Gathered(give, r)
  <2>1. \A k \in 1..Len(r) : r[k] \in S
    BY ElementOfSeq
  <2>2. \A k \in 1..Len(r) : give[r[k]] = LengthBytes(Len(r[k]), size) \o r[k]
    BY <2>1 DEF PrefixedNal
  <2>. HIDE DEF give
  <2>3. [k \in 1..Len(r) |-> give[r[k]]]
            = [k \in 1..Len(r) |-> LengthBytes(Len(r[k]), size) \o r[k]]
    BY <2>2
  <2>. QED  BY <2>3 DEF Prefixed, Gathered
<1>3. s \o t \in Seq(S)
  BY ConcatProperties
<1>. HIDE DEF give
<1>4. /\ Gathered(give, s) \in Seq(Byte)
      /\ Gathered(give, s \o t) = Gathered(give, s) \o Gathered(give, t)
  BY <1>1, GatherConcat
<1>. QED  BY <1>2, <1>3, <1>4

LEMMA PrefixedOne ==
    ASSUME NEW nal \in Seq(Byte), NEW size \in Nat
    PROVE  Prefixed(<<nal>>, size) = PrefixedNal(nal, size) /\ Prefixed(<< >>, size) = << >>
<1>. DEFINE give == [n \in Seq(Byte) |-> PrefixedNal(n, size)]
            S == Seq(Byte)
<1>1. give \in [Seq(Byte) -> Seq(Byte)] /\ give[nal] = PrefixedNal(nal, size)
  BY PrefixedNalBytes
<1>2. ASSUME NEW r \in Seq(S) PROVE Prefixed(r, size) = Gathered(give, r)
  <2>1. \A k \in 1..Len(r) : r[k] \in S
    BY ElementOfSeq
  <2>2. \A k \in 1..Len(r) : give[r[k]] = LengthBytes(Len(r[k]), size) \o r[k]
    BY <2>1 DEF PrefixedNal
  <2>. HIDE DEF give
  <2>3. [k \in 1..Len(r) |-> give[r[k]]]
            = [k \in 1..Len(r) |-> LengthBytes(Len(r[k]), size) \o r[k]]
    BY <2>2
  <2>. QED  BY <2>3 DEF Prefixed, Gathered
<1>. HIDE DEF give
<1>3. Gathered(give, <<nal>>) = give[nal] /\ Gathered(give, << >>) = << >>
  BY <1>1, GatherOne
<1>4. <<nal>> \in Seq(S) /\ << >> \in Seq(S)
  OBVIOUS
<1>. QED  BY <1>1, <1>2, <1>3, <1>4

\* The rest of a list, and its first.
LEMMA OneAhead ==
    ASSUME NEW T, NEW s \in Seq(T), NEW k \in 0..(Len(s) - 1)
    PROVE  /\ SubSeq(s, k + 2, Len(s)) \in Seq(T) /\ s[k + 1] \in T
           /\ SubSeq(s, k + 1, Len(s)) = <<s[k + 1]>> \o SubSeq(s, k + 2, Len(s))
<1>. DEFINE n == Len(s)
            x == s[k + 1]
            t == SubSeq(s, k + 2, n)
            w == SubSeq(s, k + 1, n)
<1>1. n \in Nat /\ k + 1 \in 1..n /\ x \in T
  BY LenProperties, ElementOfSeq
<1>2. t \in Seq(T) /\ Len(t) = n - k - 1 /\ \A i \in 1..(n - k - 1) : t[i] = s[k + 1 + i]
  BY <1>1
<1>3. w \in Seq(T) /\ Len(w) = n - k /\ \A i \in 1..(n - k) : w[i] = s[k + i]
  BY <1>1
<1>. HIDE DEF n, x, t, w
<1>4. <<x>> \in Seq(T) /\ Len(<<x>>) = 1 /\ <<x>>[1] = x
  BY <1>1
<1>5. Adjoined(w, <<x>>, t)
  <2>1. w[1] = x
    BY <1>1, <1>3 DEF x
  <2>2. \A i \in 1..(n - k - 1) : w[1 + i] = t[i]
    <3>. TAKE i \in 1..(n - k - 1)
    <3>1. 1 + i \in 1..(n - k) /\ k + (1 + i) = k + 1 + i
      BY <1>1
    <3>2. w[1 + i] = s[k + (1 + i)] /\ t[i] = s[k + 1 + i]
      BY <1>2, <1>3, <3>1
    <3>. QED  BY <3>1, <3>2
  <2>3. \A i \in 1..1 : i = 1
    OBVIOUS
  <2>. QED  BY <1>1, <1>2, <1>3, <1>4, <2>1, <2>2, <2>3 DEF Adjoined
<1>6. w = <<x>> \o t
  BY <1>2, <1>3, <1>4, <1>5, AdjoinedIs, Zenon
<1>. QED  BY <1>1, <1>2, <1>6 DEF w, x, t, n

LEMMA PutIntoRecord ==
    ASSUME NEW a, NEW b, NEW c
    PROVE  [[ok |-> a, nals |-> b] EXCEPT !.nals = c] = [ok |-> a, nals |-> c]
OBVIOUS

\* NAL units written behind their lengths are what split_length_prefixed finds
\* there.
THEOREM SplitPrefixed ==
    ASSUME NEW nals \in Seq(Seq(Byte)), NEW size \in 1..4,
           \A k \in 1..Len(nals) : Len(nals[k]) < Values(size)
    PROVE  SplitLengthPrefixed(Prefixed(nals, size), size) = Found(nals)
<1>. DEFINE z == Len(nals)
            t(k) == SubSeq(nals, k + 1, z)
            Good == {k \in 0..z : SplitLengthPrefixed(Prefixed(t(z - k), size), size)
                                      = Found(t(z - k))}
<1>1. z \in Nat /\ size \in Nat
  BY LenProperties
<1>2. 0 \in Good
  <2>1. z - 0 = z /\ t(z) = << >> /\ 0 \in 0..z
    BY <1>1
  <2>2. Prefixed(<< >>, size) = << >> /\ << >> \in Seq(Byte)
    <3>1. << >> \in Seq(Byte)
      OBVIOUS
    <3>. QED  BY <1>1, <3>1, PrefixedOne
  <2>3. SplitLengthPrefixed(<< >>, size) = Found(<< >>)
    <3>1. PICK f \in [0..Len(<< >>) -> Walked] : Cuts(f, << >>, size)
      BY <2>2, CutsExist
    <3>2. SplitLengthPrefixed(<< >>, size) = f[0]
      BY <2>2, <3>1, SplitIs
    <3>3. f[0] = Found(<< >>)
      <4>1. Len(<< >>) = 0 /\ 0 \in 0..0
        OBVIOUS
      <4>. QED  BY <3>1, <4>1 DEF Cuts
    <3>. QED  BY <3>2, <3>3
  <2>. HIDE DEF t
  <2>. QED  BY <2>1, <2>2, <2>3
<1>3. ASSUME NEW k \in 0..(z - 1), k \in Good PROVE k + 1 \in Good
  <2>. DEFINE j == z - (k + 1)
              nal == nals[j + 1]
              rest == t(z - k)
  <2>1. j \in 0..(z - 1) /\ z - k = j + 1 /\ j + 1 \in 1..z /\ k + 1 \in 0..z
    BY <1>1
  <2>2. rest \in Seq(Seq(Byte)) /\ nal \in Seq(Byte) /\ t(j) = <<nal>> \o rest
    <3>1. (j + 1) + 1 = j + 2
      BY <2>1
    <3>. HIDE DEF j
    <3>. QED  BY <2>1, <3>1, OneAhead
  <2>3. Len(nal) < Values(size)
    BY <2>1
  <2>4. SplitLengthPrefixed(Prefixed(rest, size), size) = Found(rest)
    BY <1>3
  <2>. HIDE DEF nal, rest, t, j
  <2>5. <<nal>> \in Seq(Seq(Byte))
    BY <2>2
  <2>6. /\ Prefixed(<<nal>> \o rest, size) = PrefixedNal(nal, size) \o Prefixed(rest, size)
        /\ Prefixed(rest, size) \in Seq(Byte)
    <3>1. Prefixed(<<nal>> \o rest, size) = Prefixed(<<nal>>, size) \o Prefixed(rest, size)
      BY <1>1, <2>2, <2>5, PrefixedConcat
    <3>2. Prefixed(<<nal>>, size) = PrefixedNal(nal, size)
      BY <1>1, <2>2, PrefixedOne
    <3>3. Prefixed(rest, size) \in Seq(Byte)
      BY <1>1, <2>2, PrefixedConcat
    <3>. QED  BY <3>1, <3>2, <3>3, Zenon
  <2>7. SplitLengthPrefixed(PrefixedNal(nal, size) \o Prefixed(rest, size), size)
            = [SplitLengthPrefixed(Prefixed(rest, size), size) EXCEPT !.nals = <<nal>> \o @]
    BY <2>2, <2>3, <2>6, SplitAhead
  <2>8. [Found(rest) EXCEPT !.nals = <<nal>> \o @] = Found(<<nal>> \o rest)
    <3>. DEFINE more == <<nal>> \o rest
    <3>. HIDE DEF more
    <3>1. Found(rest).nals = rest
      BY DEF Found
    <3>2. [[ok |-> TRUE, nals |-> rest] EXCEPT !.nals = more] = [ok |-> TRUE, nals |-> more]
      BY PutIntoRecord, Zenon
    <3>3. [Found(rest) EXCEPT !.nals = more] = Found(more)
      BY <3>2 DEF Found
    <3>. QED  BY <3>1, <3>3 DEF more
  <2>9. SplitLengthPrefixed(Prefixed(t(j), size), size) = Found(t(j))
    BY <2>2, <2>4, <2>6, <2>7, <2>8, Zenon
  <2>. QED  BY <2>1, <2>9 DEF j
<1>4. \A k \in 0..z : k \in Good
  <2>. HIDE DEF Good
  <2>1. 0 \in Nat
    OBVIOUS
  <2>. QED  BY <1>1, <1>2, <1>3, <2>1, Upwards
<1>5. z - z = 0 /\ z \in 0..z
  BY <1>1
<1>6. t(0) = nals
  <2>1. 0 + 1 = 1
    OBVIOUS
  <2>. QED  BY <2>1, SubSeqFull
<1>7. SplitLengthPrefixed(Prefixed(t(0), size), size) = Found(t(0))
  <2>. HIDE DEF t
  <2>. QED  BY <1>4, <1>5
<1>. HIDE DEF t
<1>. QED  BY <1>6, <1>7

\* A digit taken off a number.
LEMMA DigitOff ==
    ASSUME NEW q \in Nat, NEW d \in Nat, d < Radix
    PROVE  (Radix * q + d) \div Radix = q /\ (Radix * q + d) % Radix = d
<1>. DEFINE n == Radix * q + d
            r == n % Radix
            p == n \div Radix
<1>1. Radix \in Nat /\ Radix > 0
  BY RadixType
<1>2. Radix * q \in Nat /\ q * Radix = Radix * q
  BY <1>1, CountIsNat
<1>3. n \in Nat /\ n = q * Radix + d
  BY <1>2
<1>. HIDE DEF n
<1>4. n \div Radix = q
  BY <1>1, <1>3, DivIs
<1>5. r \in Nat /\ p \in Nat /\ n = Radix * p + r
  BY <1>1, <1>3
<1>6. n = Radix * q + d
  BY DEF n
<1>. HIDE DEF r, p
<1>7. r = d
  <2>1. p = q
    BY <1>4 DEF p
  <2>. QED  BY <1>2, <1>5, <1>6, <2>1
<1>. QED  BY <1>4, <1>7 DEF n, r

\* A length read, written again, has the bytes that stood there, when each of them
\* is a digit.
LEMMA LengthSpelt ==
    ASSUME NEW sample \in Seq(Byte), NEW size \in Nat, NEW at \in Nat,
           at + size <= Len(sample), \A k \in 1..size : At(sample, at + k - 1) < Radix
    PROVE  \A k \in 1..size :
              LengthBytes(LengthAt(sample, at, size), size)[k] = At(sample, at + k - 1)
<1>. DEFINE n == LengthAt(sample, at, size)
            d(k) == At(sample, at + k - 1)
<1>1. PICK f \in [0..size -> Nat] :
              /\ n = f[size]
              /\ f[0] = 0
              /\ \A k \in 1..size : f[k] = Radix * f[k - 1] + d(k)
  BY LengthAtIs
<1>2. n \in Nat
  BY <1>1
<1>3. \A k \in 1..size : d(k) \in Nat /\ d(k) < Radix
  <2>. TAKE k \in 1..size
  <2>1. at + k - 1 \in 0..(Len(sample) - 1)
    BY LenProperties
  <2>2. At(sample, at + k - 1) \in Byte
    BY <2>1, ByteAt
  <2>3. \A byte \in Byte : byte \in Nat
    BY DEF Byte
  <2>4. At(sample, at + k - 1) \in Nat
    BY <2>2, <2>3, Zenon
  <2>. QED  BY <2>4
<1>. HIDE DEF n, d
<1>. DEFINE Good == {j \in 0..size : n \div Values(j) = f[size - j]}
<1>4. 0 \in Good /\ 0 \in Nat
  <2>1. Values(0) = 1 /\ size - 0 = size
    BY ValuesGrow
  <2>2. n \div 1 = n
    BY <1>2
  <2>. QED  BY <1>1, <2>1, <2>2
<1>5. ASSUME NEW j \in 0..(size - 1), j \in Good PROVE j + 1 \in Good
  <2>. DEFINE v == Values(j)
              k == size - j
  <2>0. j \in Nat
    OBVIOUS
  <2>1. v \in Nat /\ v > 0 /\ Values(j + 1) = Radix * v
    BY <2>0, ValuesGrow
  <2>2. k \in 1..size /\ size - (j + 1) = k - 1 /\ k - 1 \in 0..size /\ j + 1 \in 0..size
    OBVIOUS
  <2>3. n \div v = f[k]
    BY <1>5
  <2>. HIDE DEF v, k
  <2>4. n \div (Radix * v) = (n \div v) \div Radix
    BY <1>2, <2>1, DivAgain
  <2>5. f[k] = Radix * f[k - 1] + d(k) /\ f[k - 1] \in Nat
    BY <1>1, <2>2
  <2>6. f[k] \div Radix = f[k - 1]
    BY <1>3, <2>2, <2>5, DigitOff
  <2>. QED  BY <2>1, <2>2, <2>3, <2>4, <2>6
<1>6. \A j \in 0..size : j \in Good
  <2>. HIDE DEF Good
  <2>. QED  BY <1>4, <1>5, Upwards
<1>7. ASSUME NEW k \in 1..size PROVE LengthBytes(n, size)[k] = d(k)
  <2>1. LengthBytes(n, size)[k] = (n \div Values(size - k)) % Radix
    BY <1>2, LengthBytesAre
  <2>2. size - k \in 0..size /\ size - (size - k) = k
    OBVIOUS
  <2>3. n \div Values(size - k) = f[k]
    BY <1>6, <2>2
  <2>4. f[k] = Radix * f[k - 1] + d(k) /\ f[k - 1] \in Nat
    BY <1>1
  <2>5. f[k] % Radix = d(k)
    BY <1>3, <2>4, DigitOff
  <2>. QED  BY <2>1, <2>3, <2>5
<1>. QED  BY <1>7 DEF n, d

\* The bytes of a length and of the NAL behind it.
LEMMA LengthAndNal ==
    ASSUME NEW s \in Seq(Byte), NEW size \in 1..4, NEW at \in Nat,
           at + size <= Len(s), EndAt(s, at, size) <= Len(s),
           \A i \in 0..(Len(s) - 1) : At(s, i) < Radix
    PROVE  /\ EndAt(s, at, size) \in (at + 1)..Len(s)
           /\ Slice(s, at + size, EndAt(s, at, size)) \in Seq(Byte)
           /\ Slice(s, at, EndAt(s, at, size)) \in Seq(Byte)
           /\ Slice(s, at, EndAt(s, at, size))
                 = PrefixedNal(Slice(s, at + size, EndAt(s, at, size)), size)
<1>. DEFINE n == LengthAt(s, at, size)
            e == EndAt(s, at, size)
            nal == Slice(s, at + size, e)
            w == Slice(s, at, e)
            p == LengthBytes(n, size)
<1>1. n \in Nat /\ size \in Nat /\ e = at + size + n /\ Len(s) \in Nat
  <2>1. size \in Nat /\ Len(s) \in Nat
    BY LenProperties
  <2>. QED  BY <2>1, LengthIsNat DEF EndAt
<1>2. \A k \in 1..size : p[k] = At(s, at + k - 1)
  <2>1. \A k \in 1..size : At(s, at + k - 1) < Radix
    <3>. TAKE k \in 1..size
    <3>1. at + k - 1 \in 0..(Len(s) - 1)
      BY <1>1
    <3>. QED  BY <3>1
  <2>. QED  BY <1>1, <2>1, LengthSpelt
<1>3. p \in Seq(Byte) /\ Len(p) = size
  BY <1>1, LengthBytesAre
<1>. HIDE DEF n, e, p
<1>4. e \in (at + 1)..Len(s) /\ at + size \in 0..e /\ at \in 0..e /\ e \in 0..Len(s)
  BY <1>1 DEF e
<1>5. /\ nal \in Seq(Byte) /\ Len(nal) = n
      /\ \A i \in 0..(n - 1) : At(nal, i) = At(s, at + size + i)
  <2>1. /\ nal \in Seq(Byte) /\ Len(nal) = e - (at + size)
        /\ \A i \in 0..(e - (at + size) - 1) : At(nal, i) = At(s, at + size + i)
    BY <1>4, SliceProperties
  <2>. QED  BY <1>1, <2>1
<1>6. /\ w \in Seq(Byte) /\ Len(w) = size + n
      /\ \A i \in 0..(size + n - 1) : At(w, i) = At(s, at + i)
  <2>1. /\ w \in Seq(Byte) /\ Len(w) = e - at
        /\ \A i \in 0..(e - at - 1) : At(w, i) = At(s, at + i)
    BY <1>4, SliceProperties
  <2>. QED  BY <1>1, <2>1
<1>. HIDE DEF nal, w
<1>7. Adjoined(w, p, nal)
  <2>1. \A i \in 1..size : w[i] = p[i]
    <3>. TAKE i \in 1..size
    <3>1. i - 1 \in 0..(size + n - 1) /\ (i - 1) + 1 = i /\ at + (i - 1) = at + i - 1
      BY <1>1
    <3>2. At(w, i - 1) = At(s, at + i - 1)
      BY <1>6, <3>1
    <3>. QED  BY <1>2, <3>1, <3>2 DEF At
  <2>2. \A i \in 1..n : w[size + i] = nal[i]
    <3>. TAKE i \in 1..n
    <3>1. /\ i - 1 \in 0..(n - 1) /\ size + i - 1 \in 0..(size + n - 1)
          /\ (i - 1) + 1 = i /\ (size + i - 1) + 1 = size + i
          /\ at + (size + i - 1) = at + size + (i - 1)
      BY <1>1
    <3>2. At(w, size + i - 1) = At(s, at + (size + i - 1))
      BY <1>6, <3>1
    <3>3. At(nal, i - 1) = At(s, at + size + (i - 1))
      BY <1>5, <3>1
    <3>. QED  BY <3>1, <3>2, <3>3 DEF At
  <2>. QED  BY <1>1, <1>3, <1>5, <1>6, <2>1, <2>2 DEF Adjoined
<1>8. w = p \o nal
  BY <1>3, <1>5, <1>6, <1>7, AdjoinedIs, Zenon
<1>9. w = PrefixedNal(nal, size)
  BY <1>5, <1>8 DEF PrefixedNal, p
<1>. QED  BY <1>4, <1>5, <1>6, <1>9 DEF e, nal, w

\* Two slices that meet are one.
LEMMA SlicesMeet ==
    ASSUME NEW b \in Seq(Byte), NEW at \in 0..Len(b), NEW e \in at..Len(b)
    PROVE  Slice(b, at, e) \o Slice(b, e, Len(b)) = Slice(b, at, Len(b))
<1>. DEFINE m == at + 1
            z == Len(b)
<1>1. m \in 1..(z + 1) /\ e \in (m - 1)..z /\ z \in e..z
  BY LenProperties
<1>. HIDE DEF m
<1>2. SubSeq(b, m, e) \o SubSeq(b, e + 1, z) = SubSeq(b, m, z)
  BY <1>1, ConcatAdjacentSubSeq
<1>. QED  BY <1>2 DEF Slice, m

\* A sample that comes apart is its NAL units behind their lengths: a length has
\* one spelling.
LEMMA SplitSpelt ==
    ASSUME NEW s \in Seq(Byte), NEW size \in 1..4, \A i \in 0..(Len(s) - 1) : At(s, i) < Radix,
           SplitLengthPrefixed(s, size).ok
    PROVE  Prefixed(SplitLengthPrefixed(s, size).nals, size) = s
<1>. DEFINE z == Len(s)
<1>1. PICK f \in [0..Len(s) -> Walked] : Cuts(f, s, size)
  BY CutsExist
<1>2. SplitLengthPrefixed(s, size) = f[0]
  BY <1>1, SplitIs
<1>. DEFINE Same(at) == f[at].ok => Prefixed(f[at].nals, size) = Slice(s, at, z)
            Good == {k \in 0..z : Same(z - k)}
<1>3. z \in Nat /\ size \in Nat
  BY LenProperties
<1>4. ASSUME NEW k \in 0..z, \A j \in 0..(k - 1) : j \in Good PROVE k \in Good
  <2>. DEFINE at == z - k
              e == EndAt(s, at, size)
              nal == Slice(s, at + size, e)
  <2>1. at \in 0..z /\ at \in Nat
    BY <1>3
  <2>2. f[at] = IF at = z THEN Found(<< >>)
                ELSE IF at + size > z THEN Refused
                ELSE NalsFrom(s, at + size, e, f)
    BY <1>1, <2>1 DEF Cuts
  <2>3. CASE at = z
    <3>1. f[at].nals = << >>
      BY <2>2, <2>3 DEF Found
    <3>2. Prefixed(<< >>, size) = << >>
      <4>1. << >> \in Seq(Byte)
        OBVIOUS
      <4>. QED  BY <1>3, <4>1, PrefixedOne
    <3>3. Slice(s, z, z) = << >>
      BY <1>3, SubSeqEmpty DEF Slice
    <3>. QED  BY <2>3, <3>1, <3>2, <3>3
  <2>4. CASE at # z /\ (at + size > z \/ e > z)
    <3>1. f[at] = Refused
      BY <2>2, <2>4 DEF NalsFrom
    <3>. QED  BY <3>1 DEF Refused
  <2>5. CASE at # z /\ ~(at + size > z) /\ ~(e > z)
    <3>1. f[at] = [f[e] EXCEPT !.nals = <<nal>> \o @]
      BY <2>2, <2>5 DEF NalsFrom
    <3>. HIDE DEF at
    <3>2. at + size <= z /\ e <= z
      <4>1. at + size \in Nat
        BY <1>3, <2>1
      <4>2. e \in Nat
        <5>1. at + size <= Len(s)
          BY <1>3, <2>5, <4>1
        <5>2. LengthAt(s, at, size) \in Nat
          BY <1>3, <2>1, <5>1, LengthIsNat
        <5>. QED  BY <4>1, <5>2 DEF EndAt
      <4>. QED  BY <1>3, <2>5, <4>1, <4>2
    <3>3. /\ e \in (at + 1)..z /\ nal \in Seq(Byte)
          /\ Slice(s, at, e) \in Seq(Byte) /\ Slice(s, at, e) = PrefixedNal(nal, size)
      BY <2>1, <3>2, LengthAndNal
    <3>. HIDE DEF e, nal
    <3>4. e \in 0..z /\ z - e \in 0..(k - 1) /\ z - (z - e) = e
      BY <1>3, <2>1, <3>3 DEF at
    <3>5. Same(e)
      BY <1>4, <3>4
    <3>. DEFINE rest == f[e].nals
    <3>6. rest \in Seq(Seq(Byte)) /\ f[e] = [ok |-> f[e].ok, nals |-> rest]
      <4>1. f[e] \in Walked
        BY <3>4
      <4>. QED  BY <4>1 DEF Walked
    <3>. DEFINE y == f[e].ok
    <3>7. f[at].ok = f[e].ok /\ f[at].nals = <<nal>> \o rest
      <4>. DEFINE more == <<nal>> \o rest
      <4>. HIDE DEF y, more, rest
      <4>1. f[e] = [ok |-> y, nals |-> rest]
        BY <3>6 DEF y
      <4>2. [f[e] EXCEPT !.nals = <<nal>> \o @] = [f[e] EXCEPT !.nals = <<nal>> \o f[e].nals]
        OBVIOUS
      <4>3. f[e].nals = rest
        BY DEF rest
      <4>4. f[at] = [[ok |-> y, nals |-> rest] EXCEPT !.nals = more]
        BY <3>1, <4>1, <4>2, <4>3, Zenon DEF more
      <4>5. f[at] = [ok |-> y, nals |-> more]
        BY <4>4, PutIntoRecord, Zenon
      <4>6. f[at].ok = y /\ f[at].nals = more
        BY <4>5
      <4>. QED  BY <4>6 DEF y, more
    <3>. HIDE DEF rest
    <3>8. ASSUME f[at].ok PROVE Prefixed(f[at].nals, size) = Slice(s, at, z)
      <4>1. Prefixed(rest, size) = Slice(s, e, z)
        BY <3>5, <3>7, <3>8 DEF rest
      <4>2. <<nal>> \in Seq(Seq(Byte))
        BY <3>3
      <4>3. Prefixed(<<nal>> \o rest, size) = Prefixed(<<nal>>, size) \o Prefixed(rest, size)
        BY <1>3, <3>6, <4>2, PrefixedConcat
      <4>4. Prefixed(<<nal>>, size) = Slice(s, at, e)
        BY <1>3, <3>3, PrefixedOne
      <4>5. Slice(s, at, e) \o Slice(s, e, z) = Slice(s, at, z)
        <5>1. at \in 0..Len(s) /\ e \in at..Len(s)
          BY <2>1, <3>3
        <5>. QED  BY <5>1, SlicesMeet
      <4>. QED  BY <3>7, <4>1, <4>3, <4>4, <4>5, Zenon
    <3>9. Same(at)
      BY <3>8
    <3>. QED  BY <3>9 DEF at
  <2>. QED  BY <2>3, <2>4, <2>5
<1>5. \A k \in 0..z : k \in Good
  <2>. HIDE DEF Good
  <2>. QED  BY <1>3, <1>4, UpwardsFromBelow
<1>6. Same(0)
  <2>1. z \in 0..z /\ z - z = 0
    BY <1>3
  <2>. QED  BY <1>5, <2>1
<1>7. Slice(s, 0, z) = s
  <2>1. 0 + 1 = 1
    OBVIOUS
  <2>. QED  BY <2>1, SubSeqFull DEF Slice
<1>. QED  BY <1>2, <1>6, <1>7

-----------------------------------------------------------------------------
(*****************************************************************************)
(* An SEI of this crate is one NAL unit without a start code, and no         *)
(* slice.                                                                    *)
(*****************************************************************************)

\* Bytes behind bytes.
IsJoin(w, x, y) ==
    /\ w \in Seq(Byte) /\ x \in Seq(Byte) /\ y \in Seq(Byte)
    /\ Len(x) \in Nat /\ Len(y) \in Nat /\ Len(w) = Len(x) + Len(y)
    /\ x = Slice(w, 0, Len(x)) /\ y = Slice(w, Len(x), Len(w))
    /\ \A i \in 0..(Len(x) - 1) : At(w, i) = At(x, i)
    /\ \A i \in 0..(Len(y) - 1) : At(w, Len(x) + i) = At(y, i)

LEMMA JoinIs ==
    ASSUME NEW x \in Seq(Byte), NEW y \in Seq(Byte)
    PROVE  IsJoin(x \o y, x, y)
BY SlicesOfJoin DEF IsJoin

-----------------------------------------------------------------------------
\* An SEI as write_user_data_at writes it.
Rbsp(payload) == PutFf(USER_DATA_UNREGISTERED) \o PutFf(Len(payload)) \o payload \o <<128>>

LEMMA PutFfType ==
    ASSUME NEW value \in Nat
    PROVE  /\ PutFf(value) \in Seq(Byte) /\ value \div 255 \in Nat /\ value % 255 \in Byte
           /\ Len(PutFf(value)) = (value \div 255) + 1
           /\ \A i \in 1..(value \div 255) : PutFf(value)[i] = 255
           /\ PutFf(value)[(value \div 255) + 1] = value % 255
<1>. DEFINE n == value \div 255
            x == [i \in 1..n |-> 255]
            r == value % 255
<1>1. n \in Nat /\ r \in 0..254
  OBVIOUS
<1>. HIDE DEF n, r
<1>2. r \in Byte /\ 255 \in Byte
  BY <1>1 DEF Byte
<1>3. x \in Seq(Byte) /\ Len(x) = n /\ \A i \in 1..n : x[i] = 255
  BY <1>1, <1>2
<1>4. <<r>> \in Seq(Byte) /\ Len(<<r>>) = 1 /\ <<r>>[1] = r
  BY <1>2
<1>. HIDE DEF x
<1>. DEFINE y == <<r>>
<1>5. y \in Seq(Byte) /\ Len(y) = 1 /\ y[1] = r
  BY <1>4
<1>. HIDE DEF y
<1>. DEFINE w == x \o y
<1>6. IsJoin(w, x, y)
  BY <1>3, <1>5, JoinIs
<1>7. PutFf(value) = w
  BY DEF PutFf, w, x, y, n, r
<1>. HIDE DEF w
<1>8. /\ w \in Seq(Byte) /\ Len(w) = n + 1
      /\ \A i \in 1..n : w[i] = 255
      /\ w[n + 1] = r
  <2>1. w \in Seq(Byte) /\ Len(w) = n + 1
    BY <1>1, <1>3, <1>5, <1>6 DEF IsJoin
  <2>2. ASSUME NEW i \in 1..n PROVE w[i] = 255
    <3>1. i - 1 \in 0..(n - 1) /\ (i - 1) + 1 = i
      BY <1>1
    <3>2. At(w, i - 1) = At(x, i - 1)
      BY <1>3, <1>6, <3>1 DEF IsJoin
    <3>. QED  BY <1>3, <3>1, <3>2 DEF At
  <2>3. At(w, n + 0) = At(y, 0)
    <3>1. 0 \in 0..(1 - 1)
      OBVIOUS
    <3>. QED  BY <1>3, <1>5, <1>6, <3>1 DEF IsJoin
  <2>4. n + 0 + 1 = n + 1 /\ 0 + 1 = 1
    BY <1>1
  <2>5. w[n + 1] = r
    BY <1>5, <2>3, <2>4 DEF At
  <2>. QED  BY <2>1, <2>2, <2>5
<1>. QED  BY <1>1, <1>2, <1>7, <1>8, Zenon DEF n, r

LEMMA PutFfBytes ==
    ASSUME NEW value \in Nat
    PROVE  PutFf(value) \in Seq(Byte) /\ Len(PutFf(value)) \in Nat /\ Len(PutFf(value)) >= 1
<1>. DEFINE n == value \div 255
<1>1. PutFf(value) \in Seq(Byte) /\ n \in Nat /\ Len(PutFf(value)) = n + 1
  BY PutFfType
<1>. HIDE DEF n
<1>. QED  BY <1>1

LEMMA RbspType ==
    ASSUME NEW payload \in Seq(Byte)
    PROVE  /\ Rbsp(payload) \in Seq(Byte) /\ Len(Rbsp(payload)) \in Nat
           /\ Len(Rbsp(payload)) >= 2
           /\ Rbsp(payload)[Len(Rbsp(payload))] = 128
<1>. DEFINE a == PutFf(USER_DATA_UNREGISTERED)
            c == PutFf(Len(payload))
            d == <<128>>
            u == a \o c
            v == u \o payload
            w == v \o d
<1>1. a \in Seq(Byte) /\ Len(a) \in Nat /\ Len(a) >= 1
  <2>1. USER_DATA_UNREGISTERED \in Nat
    BY DEF USER_DATA_UNREGISTERED
  <2>. QED  BY <2>1, PutFfBytes
<1>2. c \in Seq(Byte) /\ Len(c) \in Nat /\ Len(c) >= 1
  <2>1. Len(payload) \in Nat
    BY LenProperties
  <2>. QED  BY <2>1, PutFfBytes
<1>3. d \in Seq(Byte) /\ Len(d) = 1 /\ d[1] = 128
  BY DEF Byte
<1>. HIDE DEF a, c, d
<1>4. u \in Seq(Byte) /\ Len(u) = Len(a) + Len(c)
  BY <1>1, <1>2, ConcatProperties
<1>. HIDE DEF u
<1>5. v \in Seq(Byte) /\ Len(v) = Len(u) + Len(payload) /\ Len(payload) \in Nat
  BY <1>4, ConcatProperties, LenProperties
<1>. HIDE DEF v
<1>6. IsJoin(w, v, d)
  BY <1>3, <1>5, JoinIs
<1>7. Rbsp(payload) = w
  BY DEF Rbsp, w, v, u, a, c, d
<1>. HIDE DEF w
<1>8. Len(v) \in Nat /\ Len(v) >= 1
  BY <1>1, <1>2, <1>4, <1>5
<1>9. w \in Seq(Byte) /\ Len(w) = Len(v) + 1
  BY <1>3, <1>6 DEF IsJoin
<1>10. w[Len(v) + 1] = 128
  <2>1. 0 \in 0..(1 - 1) /\ Len(v) + 0 + 1 = Len(v) + 1 /\ 0 + 1 = 1
    BY <1>8
  <2>2. At(w, Len(v) + 0) = At(d, 0)
    BY <1>3, <1>6, <2>1 DEF IsJoin
  <2>. QED  BY <1>3, <2>1, <2>2 DEF At
<1>11. Len(w) \in Nat /\ Len(w) >= 2 /\ w[Len(w)] = 128
  BY <1>8, <1>9, <1>10
<1>. QED  BY <1>7, <1>9, <1>11, Zenon

LEMMA SeiHeaderIs ==
    ASSUME NEW id \in 1..7
    PROVE  /\ SeiHeader(id) \in Seq(Byte) /\ Len(SeiHeader(id)) = HeaderLen
           /\ \A k \in 1..HeaderLen : SeiHeader(id)[k] # 0
           /\ SeiHeader(id)[1] = IF Codec = "H264" THEN 6 ELSE 78
           /\ Codec # "H264" => SeiHeader(id)[2] = id
<1>1. AtLeastOne(id) % 8 = id
  BY DEF AtLeastOne
<1>2. CASE Codec = "H264"
  BY <1>2 DEF SeiHeader, HeaderLen, Byte
<1>3. CASE Codec # "H264"
  <2>1. SeiHeader(id) = <<78, id>> /\ HeaderLen = 2
    BY <1>1, <1>3 DEF SeiHeader, HeaderLen
  <2>2. 78 \in Byte /\ id \in Byte /\ id # 0
    BY DEF Byte
  <2>. QED  BY <1>3, <2>1, <2>2
<1>. QED  BY <1>2, <1>3

\* The SEI is a NAL unit as split_nals finds them, and no slice; it says the
\* temporal id it was given.
LEMMA SeiIs ==
    ASSUME NEW payload \in Seq(Byte), NEW id \in 1..7
    PROVE  LET sei == WriteUserDataAt(payload, id)
           IN  /\ sei \in CleanNals /\ sei \in Seq(Byte)
               /\ NalType(sei) = PREFIX_SEI /\ ~IsVcl(sei)
               /\ TemporalIdPlus1(sei) = IF Codec = "H264" THEN 1 ELSE id
               /\ Slice(sei, HeaderLen, Len(sei)) = InsertEmulationPrevention(Rbsp(payload))
<1>. DEFINE h == SeiHeader(id)
            s == Rbsp(payload)
            e == InsertEmulationPrevention(s)
            w == h \o e
            n == HeaderLen
<1>1. /\ h \in Seq(Byte) /\ Len(h) = n /\ n \in 1..2
      /\ \A k \in 1..n : h[k] # 0
      /\ h[1] = IF Codec = "H264" THEN 6 ELSE 78
      /\ Codec # "H264" => h[2] = id
  BY SeiHeaderIs, HeaderLenType
<1>2. s \in Seq(Byte) /\ Len(s) \in Nat /\ Len(s) >= 2 /\ s[Len(s)] = 128
  BY RbspType
<1>3. Escapes(e, s)
  BY <1>2, EscapesAll
<1>. HIDE DEF h, s, e
<1>4. /\ e \in Seq(Byte) /\ Len(e) \in Nat /\ Len(e) >= 2 /\ e[Len(e)] = 128
      /\ \A i \in 1..(Len(e) - 2) : e[i] = 0 /\ e[i + 1] = 0 => e[i + 2] > 2
  BY <1>2, <1>3, LenProperties DEF Escapes
<1>0. IsJoin(w, h, e)
  BY <1>1, <1>4, JoinIs
<1>6. WriteUserDataAt(payload, id) = w
  BY DEF WriteUserDataAt, w, h, e, s, Rbsp
<1>. HIDE DEF w, n
<1>5. /\ w \in Seq(Byte) /\ Len(w) = n + Len(e) /\ e = Slice(w, n, Len(w))
      /\ \A i \in 0..(n - 1) : At(w, i) = At(h, i)
      /\ \A i \in 0..(Len(e) - 1) : At(w, n + i) = At(e, i)
  BY <1>0, <1>1 DEF IsJoin
<1>7. w[1] = h[1] /\ (n = 2 => w[2] = h[2])
  <2>1. At(w, 0) = At(h, 0) /\ (n = 2 => At(w, 1) = At(h, 1))
    BY <1>1, <1>5
  <2>2. 0 + 1 = 1 /\ 1 + 1 = 2
    OBVIOUS
  <2>. QED  BY <2>1, <2>2 DEF At
<1>8. At(w, Len(w) - 1) # 0
  <2>1. Len(e) - 1 \in 0..(Len(e) - 1) /\ Len(w) - 1 = n + (Len(e) - 1)
        /\ (Len(e) - 1) + 1 = Len(e)
    BY <1>1, <1>4, <1>5
  <2>2. At(w, Len(w) - 1) = At(e, Len(e) - 1)
    BY <1>5, <2>1
  <2>3. At(e, Len(e) - 1) = 128
    BY <1>4, <2>1 DEF At
  <2>. QED  BY <2>2, <2>3
<1>9. StartCodes(w) = {}
  <2>1. ASSUME NEW c \in StartCodes(w) PROVE FALSE
    <3>1. /\ c \in Nat /\ c + 3 <= Len(w) /\ Len(w) \in Nat
          /\ At(w, c) = 0 /\ At(w, c + 1) = 0 /\ At(w, c + 2) = 1
      BY <1>5, CodeRange
    <3>2. CASE c < n
      <4>1. c \in 0..(n - 1) /\ c + 1 \in 1..n
        BY <1>1, <3>1, <3>2
      <4>2. At(h, c) # 0
        BY <1>1, <4>1 DEF At
      <4>. QED  BY <1>5, <3>1, <4>1, <4>2
    <3>3. CASE c >= n
      <4>. DEFINE i == c - n
      <4>1. /\ i \in Nat /\ i + 3 <= Len(e) /\ n + i = c /\ n + (i + 1) = c + 1
            /\ n + (i + 2) = c + 2
            /\ i \in 0..(Len(e) - 1) /\ i + 1 \in 0..(Len(e) - 1) /\ i + 2 \in 0..(Len(e) - 1)
        BY <1>1, <1>4, <1>5, <3>1, <3>3
      <4>. HIDE DEF i
      <4>2. At(e, i) = 0 /\ At(e, i + 1) = 0 /\ At(e, i + 2) = 1
        BY <1>5, <3>1, <4>1
      <4>3. /\ i + 1 \in 1..(Len(e) - 2) /\ (i + 1) + 1 = i + 1 + 1
            /\ (i + 1) + 2 = (i + 2) + 1
        BY <1>4, <4>1
      <4>4. e[i + 1] = 0 /\ e[(i + 1) + 1] = 0 /\ e[(i + 1) + 2] = 1
        BY <4>2, <4>3 DEF At
      <4>. QED  BY <1>4, <4>3, <4>4
    <3>. QED  BY <1>1, <3>1, <3>2, <3>3
  <2>. QED  BY <2>1
<1>10. w \in CleanNals
  BY <1>5, <1>8, <1>9 DEF CleanNals, CleanNal
<1>11. NalType(w) = PREFIX_SEI
  <2>1. ~(Len(w) < HeaderLen)
    BY <1>1, <1>4, <1>5 DEF n
  <2>2. (6 % 32 = 6) /\ (78 \div 2 = 39) /\ (39 % 64 = 39)
    OBVIOUS
  <2>. QED  BY <1>1, <1>7, <2>1, <2>2 DEF NalType, PREFIX_SEI
<1>12. ~IsVcl(w)
  <2>1. PREFIX_SEI \notin (IF Codec = "H264" THEN 1..5 ELSE 0..31)
    <3>1. CASE Codec = "H264"
      <4>1. 6 \notin 1..5
        OBVIOUS
      <4>. QED  BY <3>1, <4>1, Zenon DEF PREFIX_SEI
    <3>2. CASE Codec # "H264"
      <4>1. 39 \notin 0..31
        OBVIOUS
      <4>. QED  BY <3>2, <4>1, Zenon DEF PREFIX_SEI
    <3>. QED  BY <3>1, <3>2
  <2>. QED  BY <1>11, <2>1, Zenon DEF IsVcl, IsVclType
<1>13. TemporalIdPlus1(w) = IF Codec = "H264" THEN 1 ELSE id
  <2>1. CASE Codec = "H264"
    BY <2>1 DEF TemporalIdPlus1
  <2>2. CASE Codec # "H264"
    <3>1. n = 2
      BY <2>2 DEF n, HeaderLen
    <3>2. w[2] = id
      BY <1>1, <1>7, <2>2, <3>1
    <3>3. AtLeastOne(id % 8) = id
      BY DEF AtLeastOne
    <3>4. ~(Len(w) < 2)
      BY <1>4, <1>5, <3>1
    <3>. QED  BY <2>2, <3>2, <3>3, <3>4 DEF TemporalIdPlus1
  <2>. QED  BY <2>1, <2>2
<1>. QED  BY <1>5, <1>6, <1>10, <1>11, <1>12, <1>13 DEF e, s, n

-----------------------------------------------------------------------------
(*****************************************************************************)
(* Where the first access unit has its SEI, and what stands before and       *)
(* after that place.                                                         *)
(*****************************************************************************)

-----------------------------------------------------------------------------
\* Where an SEI goes.
LEMMA CodesInOrder ==
    ASSUME NEW b \in Seq(Byte)
    PROVE  LET c == Ascending(StartCodes(b))
           IN  /\ Len(c) \in Nat
               /\ \A i \in 1..Len(c) : c[i] \in StartCodes(b) /\ c[i] \in Nat
               /\ \A i, j \in 1..Len(c) : i < j => c[i] < c[j]
               /\ \A p \in StartCodes(b) : \E i \in 1..Len(c) : c[i] = p
<1>1. StartCodes(b) \in SUBSET Nat /\ IsFiniteSet(StartCodes(b))
  BY CodesAre
<1>. DEFINE S == StartCodes(b)
            c == Ascending(S)
<1>. HIDE DEF S
<1>2. /\ Len(c) = Cardinality(S) /\ Cardinality(S) \in Nat
      /\ \A i, j \in 1..Cardinality(S) : i < j => c[i] < c[j]
  BY <1>1, AscendingProperties DEF S
<1>3. /\ \A k \in 1..Cardinality(S) : c[k] \in S
      /\ \A p \in S : \E k \in 1..Cardinality(S) : c[k] = p
  BY <1>1, AscendingOnto DEF S
<1>4. S \subseteq Nat
  BY <1>1 DEF S
<1>. HIDE DEF c
<1>. QED  BY <1>2, <1>3, <1>4 DEF S, c

LEMMA SliceHasType ==
    ASSUME NEW nal, IsVcl(nal)
    PROVE  NalType(nal) # NoType
<1>1. NoType \notin 1..5 /\ NoType \notin 0..31
  BY DEF NoType
<1>2. CASE Codec = "H264"
  BY <1>1, <1>2, Zenon DEF IsVcl, IsVclType
<1>3. CASE Codec # "H264"
  BY <1>1, <1>3, Zenon DEF IsVcl, IsVclType
<1>. QED  BY <1>2, <1>3

\* The first access unit has the first slice, if there is one.
LEMMA FirstUnit ==
    ASSUME NEW b \in Seq(Byte), AccessUnits(b) # << >>
    PROVE  LET au == AccessUnits(b)[1]
           IN  /\ Slices(b) = {} => au.insert_at = Len(b) /\ au.temporal_id_plus1 = 1
               /\ \A s \in Slices(b) : (\A d \in Slices(b) : s <= d) =>
                     /\ au.insert_at = NalCode(b, s)
                     /\ au.temporal_id_plus1 = TemporalIdPlus1(NalBytes(b, s))
<1>. DEFINE n == Units(b)
            own(k) == {c \in StartCodes(b) : /\ Codes(b)[k] <= c /\ c < UnitEnd(b, k)
                                             /\ IsVcl(NalBytes(b, c))}
            S == Slices(b)
            au == AccessUnits(b)[1]
            end == UnitEnd(b, 1)
            opens == Codes(b)[1]
<1>1. AccessUnits(b) =
          [k \in 1..n |-> AccessUnitOf(b, Codes(b)[k], UnitEnd(b, k), own(k))]
  BY DEF AccessUnits, AccessUnitsAt, Codes, Units, UnitEnd, Pad
<1>2. n \in Nat /\ 1 \in 1..n
  <2>1. n \in Nat
    BY CodesOfUnits
  <2>2. n # 0
    <3>1. ASSUME n = 0 PROVE FALSE
      <4>. HIDE DEF own
      <4>1. AccessUnits(b) = << >>
        BY <1>1, <3>1
      <4>. QED  BY <4>1
    <3>. QED  BY <3>1
  <2>. HIDE DEF n
  <2>. QED  BY <2>1, <2>2
<1>3. au = AccessUnitOf(b, opens, end, own(1))
  <2>. HIDE DEF own, n
  <2>. QED  BY <1>1, <1>2
<1>4. /\ opens \in StartCodes(b) /\ opens \in Nat /\ opens \in Boundaries(b)
      /\ \A k \in 1..n : Codes(b)[k] \in Boundaries(b) /\ Codes(b)[k] \in StartCodes(b)
      /\ \A k \in 2..n : opens < Codes(b)[k]
      /\ \A c \in Boundaries(b) : opens <= c
  <2>. HIDE DEF n
  <2>1. /\ \A k \in 1..n : /\ Codes(b)[k] \in Boundaries(b)
                           /\ Codes(b)[k] \in StartCodes(b) /\ Codes(b)[k] \in Nat
        /\ \A c \in Boundaries(b) : \E k \in 1..n : Codes(b)[k] = c
        /\ \A i, j \in 1..n : i < j => Codes(b)[i] < Codes(b)[j]
    BY CodesOfUnits DEF n
  <2>2. \A k \in 2..n : k \in 1..n /\ 1 < k
    BY <1>2
  <2>3. ASSUME NEW c \in Boundaries(b) PROVE opens <= c
    <3>1. PICK k \in 1..n : Codes(b)[k] = c
      BY <2>1
    <3>2. k = 1 \/ 1 < k
      BY <1>2
    <3>. QED  BY <1>2, <2>1, <3>1, <3>2
  <2>. QED  BY <1>2, <2>1, <2>2, <2>3
<1>5. \A d \in Typed(b) : d \in Nat /\ opens <= d
  <2>. DEFINE T == Typed(b)
  <2>1. T \in SUBSET Nat
    BY CodesAre DEF Typed
  <2>2. opens \in T
    BY <1>4, BoundaryIsTyped
  <2>3. Min(T) \in T /\ \A y \in T : Min(T) <= y
    <3>. HIDE DEF T
    <3>. QED  BY <2>1, <2>2, MinExists
  <2>4. Min(T) \in Boundaries(b)
    BY <2>3, BoundaryDef
  <2>5. opens <= Min(T)
    BY <1>4, <2>4
  <2>. HIDE DEF T, opens
  <2>6. ASSUME NEW d \in T PROVE d \in Nat /\ opens <= d
    <3>. DEFINE m == Min(T)
    <3>1. m \in Nat /\ d \in Nat /\ m <= d /\ opens <= m
      BY <2>1, <2>3, <2>5
    <3>2. opens \in Nat
      BY <1>4
    <3>. HIDE DEF m
    <3>. QED  BY <3>1, <3>2
  <2>. QED  BY <2>6 DEF T
<1>6. /\ S \subseteq Typed(b) /\ \A s \in S : s \in StartCodes(b) /\ IsVcl(NalBytes(b, s))
      /\ \A c \in StartCodes(b) : IsVcl(NalBytes(b, c)) => c \in S
  BY SliceHasType DEF Slices, Typed
<1>7. 2 \in 1..n =>
          \E s \in S : s < Codes(b)[2]
  <2>. HAVE 2 \in 1..n
  <2>1. opens < Codes(b)[2] /\ Codes(b)[2] \in Boundaries(b)
    <3>1. 2 \in 2..n
      BY <1>2
    <3>. QED  BY <1>4, <3>1
  <2>2. opens \in Typed(b) /\ opens \in Nat /\ Codes(b)[2] \in Nat
    <3>1. opens \in Typed(b) /\ Codes(b)[2] \in Typed(b)
      BY <1>4, <2>1, BoundaryIsTyped
    <3>. QED  BY <1>5, <3>1
  <2>3. SeenSlice(Slices(b), Openers(b), Codes(b)[2])
    <3>1. ~(Codes(b)[2] <= opens)
      <4>. HIDE DEF opens
      <4>. QED  BY <2>1, <2>2
    <3>. QED  BY <2>1, <2>2, <3>1, BoundaryDef
  <2>. QED  BY <2>3 DEF SeenSlice
<1>8. end = IF 2 \in 1..n THEN NalPad(b, Codes(b)[2]) ELSE Len(b)
  <2>1. (1 < n <=> 2 \in 1..n) /\ 1 + 1 = 2
    BY <1>2
  <2>. QED  BY <2>1 DEF UnitEnd, Pad
<1>. HIDE DEF n, end, opens, S
<1>9. CASE S = {}
  <2>1. own(1) = {}
    BY <1>6, <1>9
  <2>2. end = Len(b)
    BY <1>7, <1>8, <1>9
  <2>. HIDE DEF own
  <2>3. au.insert_at = Len(b) /\ au.temporal_id_plus1 = 1
    BY <1>3, <2>1, <2>2 DEF AccessUnitOf
  <2>. QED  BY <1>9, <2>3 DEF S
<1>10. ASSUME NEW s \in S, \A d \in S : s <= d
       PROVE  /\ au.insert_at = NalCode(b, s)
              /\ au.temporal_id_plus1 = TemporalIdPlus1(NalBytes(b, s))
  <2>1. s \in StartCodes(b) /\ IsVcl(NalBytes(b, s)) /\ s \in Typed(b) /\ s \in Nat /\ opens <= s
    BY <1>5, <1>6
  <2>2. s < end
    <3>1. CASE 2 \in 1..n
      <4>1. PICK r \in S : r < Codes(b)[2]
        BY <1>7, <3>1
      <4>2. s < Codes(b)[2] /\ Codes(b)[2] \in StartCodes(b)
        <5>1. r \in Nat /\ s <= r /\ Codes(b)[2] \in StartCodes(b)
          BY <1>4, <1>5, <1>6, <1>10, <3>1
        <5>2. Codes(b)[2] \in Nat
          BY <5>1, CodeRange
        <5>. QED  BY <2>1, <4>1, <5>1, <5>2
      <4>3. s + 3 <= NalPad(b, Codes(b)[2])
        BY <2>1, <4>2, PadBehindCode
      <4>4. NalPad(b, Codes(b)[2]) \in Nat
        <5>1. Codes(b)[2] \in Nat /\ NalPad(b, Codes(b)[2]) \in 0..Codes(b)[2]
          BY <4>2, PadRange, CodeRange
        <5>. QED  BY <5>1
      <4>. QED  BY <1>8, <2>1, <3>1, <4>3, <4>4
    <3>2. CASE 2 \notin 1..n
      <4>1. s + 3 <= Len(b) /\ Len(b) \in Nat
        BY <2>1, CodeRange
      <4>. QED  BY <1>8, <2>1, <3>2, <4>1
    <3>. QED  BY <3>1, <3>2
  <2>3. s \in own(1)
    BY <2>1, <2>2 DEF end, opens
  <2>4. own(1) \in SUBSET Nat /\ \A y \in own(1) : s <= y
    <3>1. \A y \in own(1) : y \in S
      BY <1>6
    <3>. HIDE DEF own
    <3>2. \A y \in own(1) : y \in Nat /\ s <= y
      BY <1>5, <1>6, <1>10, <3>1
    <3>. QED  BY <3>2
  <2>. HIDE DEF own
  <2>5. Min(own(1)) = s /\ own(1) # {}
    BY <2>3, <2>4, MinIs
  <2>. QED  BY <1>3, <2>5 DEF AccessUnitOf
<1>. QED  BY <1>9, <1>10 DEF S

-----------------------------------------------------------------------------
\* Lists in two parts.
LEMMA TwoParts ==
    ASSUME NEW T, NEW u \in Seq(T), NEW v \in Seq(T), NEW w, w = u \o v
    PROVE  /\ w \in Seq(T) /\ Len(u) \in Nat /\ Len(v) \in Nat /\ Len(w) = Len(u) + Len(v)
           /\ SubSeq(w, 1, Len(u)) = u
           /\ SubSeq(w, Len(u) + 1, Len(w)) = v
           /\ \A k \in 1..Len(u) : w[k] = u[k]
           /\ \A k \in 1..Len(v) : w[Len(u) + k] = v[k]
<1>. DEFINE n == Len(u)
            m == Len(v)
            x == SubSeq(w, 1, n)
            y == SubSeq(w, n + 1, Len(w))
<1>1. /\ w \in Seq(T) /\ n \in Nat /\ m \in Nat /\ Len(w) = n + m
      /\ \A k \in 1..n : w[k] = u[k]
      /\ \A k \in 1..m : w[n + k] = v[k]
  <2>1. u \o v \in Seq(T) /\ n \in Nat /\ m \in Nat /\ Len(u \o v) = n + m
    BY ConcatProperties, LenProperties
  <2>2. /\ \A k \in 1..n : (u \o v)[k] = u[k]
        /\ \A k \in 1..m : (u \o v)[n + k] = v[k]
    OBVIOUS
  <2>. QED  BY <2>1, <2>2, Zenon
<1>. HIDE DEF n, m
<1>2. x \in Seq(T) /\ Len(x) = n /\ \A k \in 1..n : x[k] = w[k]
  BY <1>1
<1>3. y \in Seq(T) /\ Len(y) = m /\ \A k \in 1..m : y[k] = w[n + k]
  <2>1. n + 1 \in 1..(Len(w) + 1) /\ Len(w) - (n + 1) + 1 = m
    BY <1>1
  <2>. QED  BY <1>1, <2>1
<1>. HIDE DEF x, y
<1>4. x = u
  BY <1>1, <1>2, SeqEqual DEF n
<1>5. y = v
  BY <1>1, <1>3, SeqEqual DEF m
<1>. QED  BY <1>1, <1>4, <1>5 DEF n, m, x, y

LEMMA PutAt ==
    ASSUME NEW T, NEW u \in Seq(T), NEW v \in Seq(T), NEW e \in T, NEW w, w = u \o v
    PROVE  InsertAt(w, Len(u) + 1, e) = u \o <<e>> \o v
<1>1. SubSeq(w, 1, Len(u)) = u /\ SubSeq(w, Len(u) + 1, Len(w)) = v /\ Len(u) \in Nat
  BY TwoParts
<1>2. (Len(u) + 1) - 1 = Len(u)
  BY <1>1
<1>. QED  BY <1>1, <1>2, Zenon DEF InsertAt

\* A list of NAL units has no slice in its first part, and its second part
\* begins with one.
BeforeSlices(u, v) ==
    /\ \A k \in 1..Len(u) : ~IsVcl(u[k])
    /\ Len(v) > 0 => IsVcl(v[1])

LEMMA FirstSliceIs ==
    ASSUME NEW T, NEW u \in Seq(T), NEW v \in Seq(T), BeforeSlices(u, v), NEW w, w = u \o v
    PROVE  FirstSlice(w) = Len(u) + 1
<1>. DEFINE n == Len(u)
            S == {k \in 1..Len(w) : IsVcl(w[k])} \cup {Len(w) + 1}
<1>1. /\ n \in Nat /\ Len(v) \in Nat /\ Len(w) = n + Len(v)
      /\ \A k \in 1..n : w[k] = u[k]
      /\ \A k \in 1..Len(v) : w[n + k] = v[k]
  BY TwoParts
<1>. HIDE DEF n
<1>2. S \in SUBSET Nat
  BY <1>1
<1>3. n + 1 \in S
  <2>1. CASE Len(v) = 0
    BY <1>1, <2>1
  <2>2. CASE Len(v) > 0
    <3>1. 1 \in 1..Len(v) /\ n + 1 \in 1..Len(w)
      BY <1>1, <2>2
    <3>2. IsVcl(w[n + 1])
      BY <1>1, <2>2, <3>1 DEF BeforeSlices
    <3>. QED  BY <3>1, <3>2
  <2>. QED  BY <1>1, <2>1, <2>2
<1>4. \A k \in S : n + 1 <= k
  <2>1. ASSUME NEW k \in S, ~(n + 1 <= k) PROVE FALSE
    <3>1. k \in 1..n
      BY <1>1, <2>1
    <3>2. k # Len(w) + 1 /\ IsVcl(w[k])
      BY <1>1, <2>1, <3>1
    <3>3. w[k] = u[k] /\ ~IsVcl(u[k])
      BY <1>1, <3>1 DEF BeforeSlices, n
    <3>. QED  BY <3>2, <3>3
  <2>. QED  BY <2>1
<1>. HIDE DEF S
<1>5. Min(S) = n + 1
  BY <1>2, <1>3, <1>4, MinIs
<1>. QED  BY <1>5 DEF S, n, FirstSlice

\* And any list is in two such parts.
LEMMA PartsExist ==
    ASSUME NEW T, NEW w \in Seq(T)
    PROVE  \E u, v \in Seq(T) : w = u \o v /\ BeforeSlices(u, v)
<1>. DEFINE S == {k \in 1..Len(w) : IsVcl(w[k])} \cup {Len(w) + 1}
            f == Min(S)
            u == SubSeq(w, 1, f - 1)
            v == SubSeq(w, f, Len(w))
<1>1. Len(w) \in Nat
  BY LenProperties
<1>2. S \in SUBSET Nat /\ S # {} /\ \A k \in S : k \in 1..(Len(w) + 1)
  BY <1>1
<1>3. f \in S /\ \A k \in S : f <= k
  <2>. HIDE DEF S
  <2>. QED  BY <1>2, MinExists
<1>4. f \in 1..(Len(w) + 1)
  BY <1>2, <1>3
<1>5. /\ \A k \in 1..Len(w) : IsVcl(w[k]) => f <= k
      /\ f \in 1..Len(w) => IsVcl(w[f])
  <2>1. \A k \in 1..Len(w) : IsVcl(w[k]) => k \in S
    OBVIOUS
  <2>2. f = Len(w) + 1 \/ IsVcl(w[f])
    BY <1>3
  <2>. HIDE DEF f
  <2>. QED  BY <1>1, <1>3, <2>1, <2>2
<1>. HIDE DEF S, f
<1>6. /\ u \in Seq(T) /\ Len(u) = f - 1 /\ \A k \in 1..(f - 1) : u[k] = w[k]
  BY <1>1, <1>4
<1>7. /\ v \in Seq(T) /\ Len(v) = Len(w) - f + 1
      /\ \A k \in 1..(Len(w) - f + 1) : v[k] = w[f - 1 + k]
  BY <1>1, <1>4
<1>. HIDE DEF u, v
<1>8. Adjoined(w, u, v)
  BY <1>1, <1>4, <1>6, <1>7 DEF Adjoined
<1>9. w = u \o v
  BY <1>6, <1>7, <1>8, AdjoinedIs, Zenon
<1>10. BeforeSlices(u, v)
  <2>1. ASSUME NEW k \in 1..Len(u) PROVE ~IsVcl(u[k])
    <3>1. k \in 1..(f - 1) /\ k \in 1..Len(w) /\ ~(f <= k)
      BY <1>1, <1>4, <1>6
    <3>. QED  BY <1>5, <1>6, <3>1
  <2>2. Len(v) > 0 => IsVcl(v[1])
    <3>1. HAVE Len(v) > 0
    <3>2. f \in 1..Len(w) /\ 1 \in 1..(Len(w) - f + 1) /\ f - 1 + 1 = f
      BY <1>1, <1>4, <1>7, <3>1
    <3>3. v[1] = w[f - 1 + 1]
      BY <1>7, <3>2
    <3>. QED  BY <1>5, <3>2, <3>3
  <2>. QED  BY <2>1, <2>2 DEF BeforeSlices
<1>. QED  BY <1>6, <1>7, <1>9, <1>10

\* The bytes before a place and those from it on.
LEMMA CutBytes ==
    ASSUME NEW b \in Seq(Byte), NEW at \in 0..Len(b)
    PROVE  /\ Slice(b, 0, at) \in Seq(Byte) /\ DropFront(b, at) \in Seq(Byte)
           /\ Len(Slice(b, 0, at)) = at /\ Len(DropFront(b, at)) = Len(b) - at
           /\ DropFront(b, at) = Slice(b, at, Len(b))
           /\ b = Slice(b, 0, at) \o DropFront(b, at)
           /\ at \in Nat /\ Len(b) \in Nat
<1>. DEFINE u == Slice(b, 0, at)
            v == DropFront(b, at)
<1>1. Len(b) \in Nat /\ at \in Nat /\ at <= Len(b)
  BY LenProperties
<1>2. u \in Seq(Byte) /\ Len(u) = at /\ \A k \in 1..at : u[k] = b[k]
  BY <1>1 DEF Slice
<1>3. v \in Seq(Byte) /\ Len(v) = Len(b) - at /\ \A k \in 1..(Len(b) - at) : v[k] = b[at + k]
  BY <1>1 DEF DropFront
<1>4. v = Slice(b, at, Len(b))
  BY DEF DropFront, Slice
<1>. HIDE DEF u, v
<1>5. Adjoined(b, u, v)
  BY <1>1, <1>2, <1>3 DEF Adjoined
<1>6. b = u \o v
  BY <1>2, <1>3, <1>5, AdjoinedIs, Zenon
<1>. QED  BY <1>1, <1>2, <1>3, <1>4, <1>6 DEF u, v

\* Where the first slice of a stream stands, behind its padding, or the end of
\* the stream: there an SEI goes.
Place(b, at) ==
    /\ at \in 0..Len(b)
    /\ Slices(b) = {} => at = Len(b)
    /\ \A s \in Slices(b) : (\A d \in Slices(b) : s <= d) => at = NalCode(b, s)

\* What stands on either side of it.
Parts(b, u, v) ==
    /\ u \in Seq(Byte) /\ v \in Seq(Byte) /\ b = u \o v
    /\ v = << >> \/ OpensWithCode(v)
    /\ BeforeSlices(SplitNals(u), SplitNals(v))

LEMMA SlicesAre ==
    ASSUME NEW b
    PROVE  /\ Slices(b) \subseteq StartCodes(b)
           /\ \A c \in StartCodes(b) : IsVcl(NalBytes(b, c)) <=> c \in Slices(b)
BY SliceHasType DEF Slices, Typed

LEMMA PlaceExists ==
    ASSUME NEW b \in Seq(Byte)
    PROVE  \/ Slices(b) = {} /\ Place(b, Len(b))
           \/ \E s \in Slices(b) : /\ \A d \in Slices(b) : s <= d
                                   /\ Place(b, NalCode(b, s))
<1>. DEFINE S == Slices(b)
<1>1. S \in SUBSET Nat
  BY SlicesAre, CodesAre
<1>2. CASE S = {}
  <2>1. Len(b) \in 0..Len(b)
    BY LenProperties
  <2>. QED  BY <1>2, <2>1 DEF Place
<1>3. CASE S # {}
  <2>. DEFINE s == Min(S)
  <2>1. s \in S /\ \A d \in S : s <= d
    <3>. HIDE DEF S
    <3>. QED  BY <1>1, <1>3, MinExists
  <2>2. s \in StartCodes(b)
    BY <2>1, SlicesAre
  <2>. HIDE DEF s
  <2>3. s \in Nat /\ s + 3 <= Len(b) /\ Len(b) \in Nat /\ NalPad(b, s) \in 0..s
    BY <2>2, CodeRange, PadRange
  <2>4. NalCode(b, s) \in 0..Len(b)
    BY <2>3 DEF NalCode
  <2>5. ASSUME NEW r \in S, \A d \in S : r <= d PROVE r = s
    <3>1. r <= s /\ s <= r /\ r \in Nat
      BY <1>1, <2>1, <2>5
    <3>. QED  BY <2>3, <3>1
  <2>. HIDE DEF S
  <2>6. Place(b, NalCode(b, s))
    BY <1>3, <2>4, <2>5 DEF Place, S
  <2>. QED  BY <2>1, <2>6 DEF S
<1>. QED  BY <1>2, <1>3

LEMMA SplitElement ==
    ASSUME NEW b \in Seq(Byte), NEW k \in 1..Len(SplitNals(b))
    PROVE  \E c \in StartCodes(b) : SplitNals(b)[k] = NalBytes(b, c)
<1>. DEFINE codes == Ascending(StartCodes(b))
<1>1. /\ Len(codes) \in Nat
      /\ SplitNals(b) = [i \in 1..Len(codes) |-> NalBytes(b, codes[i])]
      /\ Len(SplitNals(b)) = Len(codes)
      /\ \A i \in 1..Len(codes) : codes[i] \in StartCodes(b)
  BY SplitNalsIs
<1>. HIDE DEF codes
<1>. QED  BY <1>1

\* The first NAL unit of a stream that opens with a start code.
LEMMA SplitFirst ==
    ASSUME NEW v \in Seq(Byte), NEW c \in StartCodes(v), c \in {0, 1}
    PROVE  Len(SplitNals(v)) > 0 /\ SplitNals(v)[1] = NalBytes(v, c)
<1>. DEFINE codes == Ascending(StartCodes(v))
<1>1. /\ Len(codes) \in Nat
      /\ SplitNals(v) = [i \in 1..Len(codes) |-> NalBytes(v, codes[i])]
      /\ Len(SplitNals(v)) = Len(codes)
  BY SplitNalsIs
<1>2. /\ \A i \in 1..Len(codes) : codes[i] \in StartCodes(v) /\ codes[i] \in Nat
      /\ \A i, j \in 1..Len(codes) : i < j => codes[i] < codes[j]
      /\ \A p \in StartCodes(v) : \E i \in 1..Len(codes) : codes[i] = p
  BY CodesInOrder
<1>. HIDE DEF codes
<1>3. PICK i \in 1..Len(codes) : codes[i] = c
  BY <1>2
<1>4. 1 \in 1..Len(codes)
  BY <1>1, <1>3
<1>5. codes[1] = c
  <2>1. ASSUME codes[1] # c PROVE FALSE
    <3>1. i # 1 /\ 1 < i
      BY <1>1, <1>3, <2>1
    <3>2. codes[1] < c /\ codes[1] \in Nat /\ codes[1] \in StartCodes(v)
      BY <1>2, <1>3, <1>4, <3>1
    <3>3. codes[1] = 0 /\ c = 1
      BY <3>2
    <3>4. At(v, 0 + 2) = 1 /\ At(v, 1 + 1) = 0
      BY <3>2, <3>3, CodeRange
    <3>5. 0 + 2 = 1 + 1
      OBVIOUS
    <3>. QED  BY <3>4, <3>5
  <2>. QED  BY <2>1
<1>. QED  BY <1>1, <1>4, <1>5

\* The NAL unit at the place is the first slice, in what stands from there on.
LEMMA FirstAtPlace ==
    ASSUME NEW b \in Seq(Byte), NEW at, Place(b, at),
           NEW s \in Slices(b), \A d \in Slices(b) : s <= d
    PROVE  /\ OpensWithCode(DropFront(b, at)) /\ at <= s
           /\ Len(SplitNals(DropFront(b, at))) > 0
           /\ SplitNals(DropFront(b, at))[1] = NalBytes(b, s)
<1>. DEFINE u == Slice(b, 0, at)
            v == DropFront(b, at)
<1>1. /\ u \in Seq(Byte) /\ v \in Seq(Byte) /\ Len(u) = at /\ Len(v) = Len(b) - at
      /\ b = u \o v /\ v = Slice(b, at, Len(b)) /\ at \in Nat /\ Len(b) \in Nat
  BY CutBytes DEF Place
<1>2. at = NalCode(b, s)
  BY DEF Place
<1>3. s \in StartCodes(b) /\ IsVcl(NalBytes(b, s))
  BY SlicesAre
<1>4. /\ s \in Nat /\ s + 3 <= Len(b) /\ NalPad(b, s) \in 0..s
      /\ \A i \in NalPad(b, s)..(s - 1) : At(b, i) = 0
  BY <1>3, CodeRange, PadRange
<1>5. at \in 0..Len(b) /\ (at = s \/ (at = s - 1 /\ At(b, s - 1) = 0))
  <2>1. CASE s > NalPad(b, s)
    <3>1. s - 1 \in NalPad(b, s)..(s - 1)
      BY <1>4, <2>1
    <3>. QED  BY <1>1, <1>2, <1>4, <2>1, <3>1 DEF NalCode
  <2>2. CASE ~(s > NalPad(b, s))
    BY <1>1, <1>2, <1>4, <2>2 DEF NalCode
  <2>. QED  BY <2>1, <2>2
<1>. DEFINE c == s - at
<1>6. c \in {0, 1} /\ at <= s /\ Len(b) \in 0..Len(b) /\ s \in Int /\ at + c = s
  BY <1>1, <1>4, <1>5
<1>7. c \in StartCodes(v)
  BY <1>1, <1>3, <1>4, <1>5, <1>6, SliceCodes
<1>8. OpensWithCode(v)
  <2>1. c = 1 => At(v, 0) = 0
    <3>1. HAVE c = 1
    <3>2. at = s - 1 /\ At(b, s - 1) = 0 /\ 0 \in 0..(Len(b) - at - 1) /\ at + 0 = s - 1
      BY <1>1, <1>4, <1>5, <3>1
    <3>3. At(Slice(b, at, Len(b)), 0) = At(b, at + 0)
      <4>1. at \in 0..Len(b) /\ Len(b) \in 0..Len(b)
        BY <1>1, <1>5
      <4>. QED  BY <3>2, <4>1, SliceProperties
    <3>. HIDE DEF u, v
    <3>. QED  BY <1>1, <3>2, <3>3
  <2>. QED  BY <1>6, <1>7, <2>1 DEF OpensWithCode
<1>. HIDE DEF u, v, c
<1>9. NalBytes(b, at + c) = NalBytes(v, c)
  BY <1>1, <1>7, <1>8, CodesOfJoin
<1>10. Len(SplitNals(v)) > 0 /\ SplitNals(v)[1] = NalBytes(v, c)
  BY <1>1, <1>6, <1>7, SplitFirst
<1>. QED  BY <1>6, <1>8, <1>9, <1>10 DEF v

LEMMA PartsAtPlace ==
    ASSUME NEW b \in Seq(Byte), NEW at, Place(b, at)
    PROVE  Parts(b, Slice(b, 0, at), DropFront(b, at))
<1>. DEFINE u == Slice(b, 0, at)
            v == DropFront(b, at)
<1>1. /\ u \in Seq(Byte) /\ v \in Seq(Byte) /\ Len(u) = at /\ Len(v) = Len(b) - at
      /\ b = u \o v /\ v = Slice(b, at, Len(b)) /\ at \in Nat /\ Len(b) \in Nat
  BY CutBytes DEF Place
<1>2. CASE Slices(b) = {}
  <2>1. Len(v) = 0
    BY <1>1, <1>2 DEF Place
  <2>. HIDE DEF u, v
  <2>2. v = << >>
    BY <1>1, <2>1, EmptySeq
  <2>3. u = b
    BY <1>1, <2>2, ConcatEmptySeq
  <2>4. SplitNals(v) = << >> /\ Len(SplitNals(v)) = 0
    BY <2>2, SplitNothing
  <2>5. ASSUME NEW k \in 1..Len(SplitNals(b)) PROVE ~IsVcl(SplitNals(b)[k])
    <3>1. PICK c \in StartCodes(b) : SplitNals(b)[k] = NalBytes(b, c)
      BY SplitElement
    <3>. QED  BY <1>2, <3>1, SlicesAre
  <2>6. BeforeSlices(SplitNals(u), SplitNals(v))
    BY <2>3, <2>4, <2>5 DEF BeforeSlices
  <2>7. Parts(b, u, v)
    BY <1>1, <2>2, <2>6, Zenon DEF Parts
  <2>. QED  BY <2>7 DEF u, v
<1>3. CASE Slices(b) # {}
  <2>1. PICK s \in Slices(b) : \A d \in Slices(b) : s <= d
    BY <1>3, PlaceExists
  <2>2. s \in StartCodes(b) /\ IsVcl(NalBytes(b, s)) /\ s \in Nat
    BY <2>1, SlicesAre, CodeRange
  <2>3. OpensWithCode(v) /\ at <= s /\ Len(SplitNals(v)) > 0 /\ SplitNals(v)[1] = NalBytes(b, s)
    BY <2>1, FirstAtPlace
  <2>. HIDE DEF u, v
  <2>4. \A d \in StartCodes(u) : /\ d \in StartCodes(b) /\ d + 3 <= at
                                  /\ NalBytes(b, d) = NalBytes(u, d)
    BY <1>1, <2>3, CodesOfJoin
  <2>10. ASSUME NEW k \in 1..Len(SplitNals(u)) PROVE ~IsVcl(SplitNals(u)[k])
    <3>1. PICK d \in StartCodes(u) : SplitNals(u)[k] = NalBytes(u, d)
      BY <1>1, SplitElement
    <3>2. d \in StartCodes(b) /\ d + 3 <= at /\ NalBytes(b, d) = NalBytes(u, d) /\ d \in Nat
      BY <1>1, <2>4, CodeRange
    <3>3. ~(s <= d)
      BY <1>1, <2>2, <2>3, <3>2
    <3>4. d \notin Slices(b)
      BY <2>1, <3>3
    <3>. QED  BY <3>1, <3>2, <3>4, SlicesAre
  <2>12. BeforeSlices(SplitNals(u), SplitNals(v))
    BY <2>2, <2>3, <2>10 DEF BeforeSlices
  <2>13. Parts(b, u, v)
    BY <1>1, <2>3, <2>12, Zenon DEF Parts
  <2>. QED  BY <2>13 DEF u, v
<1>. QED  BY <1>2, <1>3

LEMMA InsertsWhenUnits ==
    ASSUME NEW b, NEW sei
    PROVE  InsertSeiAnnexb(b, sei) =
               IF AccessUnits(b) = << >> THEN Err
               ELSE Ok(Spliced(b, AccessUnits(b)[1].insert_at, START_CODE \o sei))
BY DEF InsertSeiAnnexb

\* The place of the first access unit is that of the first slice.
LEMMA UnitPlace ==
    ASSUME NEW b \in Seq(Byte), AccessUnits(b) # << >>
    PROVE  /\ Place(b, AccessUnits(b)[1].insert_at)
           /\ UnitsTemporalId(AccessUnits(b)) = NalsTemporalId(SplitNals(b))
<1>. DEFINE au == AccessUnits(b)[1]
            at == au.insert_at
            u == Slice(b, 0, at)
            v == DropFront(b, at)
            nals == SplitNals(b)
<1>1. /\ Slices(b) = {} => at = Len(b) /\ au.temporal_id_plus1 = 1
      /\ \A s \in Slices(b) : (\A d \in Slices(b) : s <= d) =>
            at = NalCode(b, s) /\ au.temporal_id_plus1 = TemporalIdPlus1(NalBytes(b, s))
  BY FirstUnit
<1>2. UnitsTemporalId(AccessUnits(b)) = au.temporal_id_plus1
  BY DEF UnitsTemporalId
<1>. HIDE DEF au, at
<1>3. Place(b, at)
  BY <1>1, PlaceExists DEF Place
<1>4. Parts(b, u, v)
  BY <1>3, PartsAtPlace
<1>. HIDE DEF u, v
<1>5. /\ nals = SplitNals(u) \o SplitNals(v)
      /\ SplitNals(u) \in Seq(Seq(Byte)) /\ SplitNals(v) \in Seq(Seq(Byte))
      /\ BeforeSlices(SplitNals(u), SplitNals(v))
  BY <1>4, SplitNalsConcat, SplitNalsType, Zenon DEF Parts
<1>. DEFINE n == Len(SplitNals(u))
<1>6. FirstSlice(nals) = n + 1
  <2>. HIDE DEF nals
  <2>. QED  BY <1>5, FirstSliceIs
<1>7. /\ n \in Nat /\ Len(SplitNals(v)) \in Nat /\ Len(nals) = n + Len(SplitNals(v))
      /\ \A k \in 1..Len(SplitNals(v)) : nals[n + k] = SplitNals(v)[k]
  <2>. HIDE DEF nals
  <2>. QED  BY <1>5, TwoParts
<1>. HIDE DEF nals, n
<1>8. CASE Slices(b) = {}
  <2>1. at = Len(b) /\ au.temporal_id_plus1 = 1
    BY <1>1, <1>8
  <2>2. SplitNals(v) = << >> /\ Len(SplitNals(v)) = 0
    <3>1. Len(v) = 0 /\ v \in Seq(Byte)
      BY <1>3, <2>1, CutBytes DEF Place, v
    <3>2. v = << >>
      BY <3>1, EmptySeq
    <3>. QED  BY <3>2, SplitNothing
  <2>3. FirstSlice(nals) > Len(nals)
    BY <1>6, <1>7, <2>2
  <2>4. NalsTemporalId(nals) = 1
    BY <2>3 DEF NalsTemporalId
  <2>. QED  BY <1>2, <1>3, <2>1, <2>4 DEF at, au, nals
<1>9. CASE Slices(b) # {}
  <2>1. PICK s \in Slices(b) : \A d \in Slices(b) : s <= d
    BY <1>9, PlaceExists
  <2>2. at = NalCode(b, s) /\ au.temporal_id_plus1 = TemporalIdPlus1(NalBytes(b, s))
    BY <1>1, <2>1
  <2>3. Len(SplitNals(v)) > 0 /\ SplitNals(v)[1] = NalBytes(b, s)
    BY <1>3, <2>1, FirstAtPlace DEF v
  <2>4. nals[n + 1] = NalBytes(b, s) /\ ~(n + 1 > Len(nals))
    BY <1>7, <2>3
  <2>5. NalsTemporalId(nals) = TemporalIdPlus1(NalBytes(b, s))
    BY <1>6, <2>4 DEF NalsTemporalId
  <2>. QED  BY <1>2, <1>3, <2>2, <2>5 DEF at, au, nals
<1>. QED  BY <1>8, <1>9

-----------------------------------------------------------------------------
(*****************************************************************************)
(* One more NAL unit in a packet, and a packet in the other framing.         *)
(*****************************************************************************)

LEMMA JoinOfThree ==
    ASSUME NEW T, NEW x \in Seq(T), NEW y \in Seq(T), NEW z \in Seq(T)
    PROVE  /\ x \o y \o z = x \o (y \o z)
           /\ x \o y \o z \in Seq(T) /\ y \o z \in Seq(T)
OBVIOUS

LEMMA JoinOfThreeBytes ==
    ASSUME NEW x \in Seq(Byte), NEW y \in Seq(Byte), NEW z \in Seq(Byte)
    PROVE  /\ x \o y \o z = x \o (y \o z)
           /\ x \o y \o z \in Seq(Byte) /\ y \o z \in Seq(Byte)
BY JoinOfThree, Zenon

LEMMA JoinOfThreeUnits ==
    ASSUME NEW x \in Seq(Seq(Byte)), NEW y \in Seq(Seq(Byte)), NEW z \in Seq(Seq(Byte))
    PROVE  /\ x \o y \o z = x \o (y \o z)
           /\ x \o y \o z \in Seq(Seq(Byte)) /\ y \o z \in Seq(Seq(Byte))
BY JoinOfThree, Zenon

LEMMA PutAtPlace ==
    ASSUME NEW u \in Seq(Byte), NEW v \in Seq(Byte), v = << >> \/ OpensWithCode(v),
           BeforeSlices(SplitNals(u), SplitNals(v)), NEW sei \in CleanNals
    PROVE  LET b == u \o v
               w == u \o CodedNal(sei) \o v
           IN  /\ w \in Seq(Byte)
               /\ SplitNals(w) = InsertAt(SplitNals(b), FirstSlice(SplitNals(b)), sei)
<1>. DEFINE b == u \o v
            e == CodedNal(sei)
            w == u \o e \o v
            nals == SplitNals(b)
<1>1. sei \in Seq(Byte)
  BY DEF CleanNals
<1>2. e \in Seq(Byte) /\ OpensWithCode(e) /\ SplitNals(e) = <<sei>>
  BY SplitOne
<1>. HIDE DEF e
<1>3. e \o v \in Seq(Byte) /\ w = u \o (e \o v) /\ w \in Seq(Byte)
  BY <1>2, JoinOfThreeBytes, Zenon
<1>4. SplitNals(e \o v) = <<sei>> \o SplitNals(v)
  BY <1>2, SplitNalsConcat, Zenon
<1>5. OpensWithCode(e \o v)
  <2>1. Len(e) \in Nat /\ Len(v) \in Nat /\ Len(e \o v) = Len(e) + Len(v)
        /\ \A i \in 0..(Len(e) - 1) : At(e \o v, i) = At(e, i)
    BY <1>2, SlicesOfJoin
  <2>2. \A c \in StartCodes(e) : c \in StartCodes(e \o v)
    BY <1>2, CodesOfJoin
  <2>3. \A c \in StartCodes(e) : c >= 0 /\ c + 2 < Len(e)
    BY <2>1 DEF StartCodes
  <2>4. 1 \in StartCodes(e) => At(e \o v, 0) = At(e, 0)
    BY <2>1, <2>3
  <2>. QED  BY <1>2, <2>2, <2>4, Zenon DEF OpensWithCode
<1>6. SplitNals(w) = SplitNals(u) \o (<<sei>> \o SplitNals(v))
  <2>. HIDE DEF w
  <2>. QED  BY <1>3, <1>4, <1>5, SplitNalsConcat, Zenon
<1>7. nals = SplitNals(u) \o SplitNals(v)
  BY SplitNalsConcat, Zenon
<1>8. SplitNals(u) \in Seq(Seq(Byte)) /\ SplitNals(v) \in Seq(Seq(Byte))
  BY SplitNalsType
<1>9. FirstSlice(nals) = Len(SplitNals(u)) + 1
  BY <1>7, <1>8, FirstSliceIs
<1>10. InsertAt(nals, Len(SplitNals(u)) + 1, sei) = SplitNals(u) \o <<sei>> \o SplitNals(v)
  <2>. DEFINE p == SplitNals(u)
              q == SplitNals(v)
  <2>1. p \in Seq(Seq(Byte)) /\ q \in Seq(Seq(Byte)) /\ nals = p \o q
    BY <1>7, <1>8
  <2>. HIDE DEF p, q, nals
  <2>2. InsertAt(nals, Len(p) + 1, sei) = p \o <<sei>> \o q
    BY <1>1, <2>1, PutAt
  <2>. QED  BY <2>2 DEF p, q
<1>11. SplitNals(u) \o <<sei>> \o SplitNals(v) = SplitNals(u) \o (<<sei>> \o SplitNals(v))
  <2>1. <<sei>> \in Seq(Seq(Byte))
    BY <1>1
  <2>. DEFINE p == SplitNals(u)
              q == SplitNals(v)
              one == <<sei>>
  <2>2. p \in Seq(Seq(Byte)) /\ q \in Seq(Seq(Byte)) /\ one \in Seq(Seq(Byte))
    BY <1>8, <2>1
  <2>. HIDE DEF p, q, one
  <2>3. p \o one \o q = p \o (one \o q)
    BY <2>2, JoinOfThreeUnits, Zenon
  <2>. QED  BY <2>3, Zenon DEF p, q, one
<1>12. SplitNals(w) = InsertAt(nals, FirstSlice(nals), sei)
  <2>. HIDE DEF w, nals
  <2>. QED  BY <1>6, <1>9, <1>10, <1>11, Zenon
<1>. QED  BY <1>3, <1>12, Zenon DEF e

LEMMA AnnexbInserted ==
    ASSUME NEW b \in Seq(Byte), NEW sei \in CleanNals, InsertSeiAnnexb(b, sei).ok
    PROVE  \E at : /\ Place(b, at)
                   /\ AccessUnits(b) # << >> /\ at = AccessUnits(b)[1].insert_at
                   /\ InsertSeiAnnexb(b, sei).bytes
                        = Slice(b, 0, at) \o CodedNal(sei) \o DropFront(b, at)
                   /\ InsertSeiAnnexb(b, sei).bytes \in Seq(Byte)
                   /\ SplitNals(InsertSeiAnnexb(b, sei).bytes)
                        = InsertAt(SplitNals(b), FirstSlice(SplitNals(b)), sei)
<1>. DEFINE at == AccessUnits(b)[1].insert_at
            u == Slice(b, 0, at)
            v == DropFront(b, at)
            w == u \o CodedNal(sei) \o v
<1>1. AccessUnits(b) # << >>
  BY InsertsWhenUnits DEF Err
<1>2. InsertSeiAnnexb(b, sei).bytes = w
  <2>1. InsertSeiAnnexb(b, sei) = Ok(Spliced(b, at, START_CODE \o sei))
    BY <1>1, InsertsWhenUnits, Zenon
  <2>2. Ok(Spliced(b, at, START_CODE \o sei)).bytes = Spliced(b, at, START_CODE \o sei)
    BY DEF Ok
  <2>3. Spliced(b, at, START_CODE \o sei) = w
    BY Zenon DEF Spliced, CodedNal
  <2>. QED  BY <2>1, <2>2, <2>3, Zenon
<1>3. Place(b, at)
  BY <1>1, UnitPlace, Zenon
<1>4. Parts(b, u, v)
  BY <1>3, PartsAtPlace, Zenon
<1>5. w \in Seq(Byte) /\ SplitNals(w) = InsertAt(SplitNals(b), FirstSlice(SplitNals(b)), sei)
  <2>. HIDE DEF u, v
  <2>1. b = u \o v
    BY <1>4, Zenon DEF Parts
  <2>2. /\ w \in Seq(Byte)
        /\ SplitNals(w) = InsertAt(SplitNals(u \o v), FirstSlice(SplitNals(u \o v)), sei)
    BY <1>4, PutAtPlace, Zenon DEF Parts
  <2>. QED  BY <2>1, <2>2, Zenon
<1>. QED  BY <1>1, <1>2, <1>3, <1>5, Zenon

\* What reads these NAL units out of these bytes.
Reads(how, b, nals) ==
    /\ b \in Seq(Byte) /\ nals \in Seq(Seq(Byte))
    /\ \/ how.how = "AnnexB" /\ SplitNals(b) = nals
       \/ /\ how.how = "LengthPrefixed" /\ how.length_size \in 1..4
          /\ SplitLengthPrefixed(b, how.length_size) = Found(nals)

ShortNals == {nal \in Seq(Byte) : Len(nal) < Values(4)}

LEMMA FirstIsNat ==
    ASSUME NEW T, NEW nals \in Seq(T)
    PROVE  FirstSlice(nals) \in 1..(Len(nals) + 1)
<1>1. PICK u \in Seq(T), v \in Seq(T) : nals = u \o v /\ BeforeSlices(u, v)
  BY PartsExist
<1>2. FirstSlice(nals) = Len(u) + 1
  BY <1>1, FirstSliceIs
<1>3. Len(nals) = Len(u) + Len(v) /\ Len(u) \in Nat /\ Len(v) \in Nat
  BY <1>1, TwoParts
<1>. QED  BY <1>2, <1>3

LEMMA TemporalIds ==
    ASSUME NEW nals \in Seq(Seq(Byte))
    PROVE  NalsTemporalId(nals) \in 1..7
<1>. DEFINE first == FirstSlice(nals)
<1>1. first \in 1..(Len(nals) + 1)
  BY FirstIsNat
<1>2. NalsTemporalId(nals) = IF first > Len(nals) THEN 1 ELSE TemporalIdPlus1(nals[first])
  BY DEF NalsTemporalId
<1>. HIDE DEF first
<1>3. ASSUME NEW nal \in Seq(Byte)
      PROVE  TemporalIdPlus1(nal) \in 1..7
  <2>1. CASE Codec = "H264" \/ Len(nal) < 2
    BY <2>1 DEF TemporalIdPlus1
  <2>2. CASE ~(Codec = "H264" \/ Len(nal) < 2)
    <3>1. Len(nal) \in Nat /\ ~(Len(nal) < 2) /\ 2 \in 1..Len(nal)
      BY <2>2
    <3>3. nal[2] \in Nat
      <4>1. nal[2] \in Byte
        BY <3>1
      <4>2. \A x \in Byte : x \in Nat
        BY DEF Byte
      <4>. QED  BY <4>1, <4>2, Zenon
    <3>2. nal[2] % 8 \in 0..7
      <4>1. \A n \in Nat : n % 8 \in 0..7
        OBVIOUS
      <4>. QED  BY <3>3, <4>1, Zenon
    <3>. QED  BY <2>2, <3>2 DEF TemporalIdPlus1, AtLeastOne
  <2>. QED  BY <2>1, <2>2
<1>4. CASE first > Len(nals)
  BY <1>2, <1>4
<1>5. CASE ~(first > Len(nals))
  <2>1. nals[first] \in Seq(Byte)
    BY <1>1, <1>5
  <2>. QED  BY <1>2, <1>3, <1>5, <2>1
<1>. QED  BY <1>4, <1>5

\* One more element, put in before the first slice.
LEMMA PutBeforeSlice ==
    ASSUME NEW T, NEW nals \in Seq(T), NEW e \in T
    PROVE  \E u, v \in Seq(T) :
              /\ nals = u \o v /\ BeforeSlices(u, v)
              /\ FirstSlice(nals) = Len(u) + 1
              /\ InsertAt(nals, FirstSlice(nals), e) = u \o <<e>> \o v
              /\ InsertAt(nals, FirstSlice(nals), e) \in Seq(T)
<1>1. PICK u \in Seq(T), v \in Seq(T) : nals = u \o v /\ BeforeSlices(u, v)
  BY PartsExist
<1>2. FirstSlice(nals) = Len(u) + 1
  BY <1>1, FirstSliceIs
<1>3. InsertAt(nals, Len(u) + 1, e) = u \o <<e>> \o v
  BY <1>1, PutAt
<1>4. u \o <<e>> \o v \in Seq(T)
  <2>. DEFINE one == <<e>>
  <2>1. one \in Seq(T)
    OBVIOUS
  <2>. HIDE DEF one
  <2>2. u \o one \o v \in Seq(T)
    BY <2>1, JoinOfThree, Zenon
  <2>. QED  BY <2>2, Zenon DEF one
<1>. QED  BY <1>1, <1>2, <1>3, <1>4, Zenon

LEMMA SampleReads ==
    ASSUME NEW nals \in Seq(ShortNals), NEW size, SampleOf(nals, size).ok
    PROVE  Reads(LengthPrefixed(size), SampleOf(nals, size).bytes, nals)
<1>1. /\ size \in 1..4 /\ \A k \in 1..Len(nals) : Fits(Len(nals[k]), size)
      /\ SampleOf(nals, size) = Ok(Prefixed(nals, size))
  BY DEF SampleOf, WidthOk, Err
<1>2. nals \in Seq(Seq(Byte)) /\ \A k \in 1..Len(nals) : Len(nals[k]) < Values(4)
  BY DEF ShortNals
<1>3. \A k \in 1..Len(nals) : Len(nals[k]) < Values(size)
  <2>1. CASE size = 4
    BY <1>2, <2>1
  <2>2. CASE size # 4
    BY <1>1, <2>2 DEF Fits
  <2>. QED  BY <2>1, <2>2
<1>4. SplitLengthPrefixed(Prefixed(nals, size), size) = Found(nals)
  BY <1>1, <1>2, <1>3, SplitPrefixed
<1>5. Prefixed(nals, size) \in Seq(Byte)
  BY <1>1, <1>2, PrefixedConcat
<1>6. SampleOf(nals, size).bytes = Prefixed(nals, size)
  BY <1>1 DEF Ok
<1>. QED  BY <1>1, <1>2, <1>4, <1>5, <1>6, Zenon DEF Reads, LengthPrefixed

LEMMA ReframeReads ==
    ASSUME NEW b, NEW nals \in Seq(ShortNals), Reads(AnnexB, b, nals), NEW size,
           Reframed(LengthPrefixed(size), b).ok
    PROVE  Reads(LengthPrefixed(size), Reframed(LengthPrefixed(size), b).bytes, nals)
<1>1. Reframed(LengthPrefixed(size), b) = SampleOf(SplitNals(b), size)
  BY DEF Reframed, LengthPrefixed, AnnexbToLengthPrefixed
<1>2. SplitNals(b) = nals
  BY DEF Reads, AnnexB
<1>3. SampleOf(nals, size).ok
  BY <1>1, <1>2
<1>. QED  BY <1>1, <1>2, <1>3, SampleReads, Zenon

LEMMA BackReads ==
    ASSUME NEW b, NEW nals \in Seq(CleanNals), NEW size,
           Reads(LengthPrefixed(size), b, nals)
    PROVE  /\ LengthPrefixedToAnnexb(b, size) = Ok(StartCoded(nals))
           /\ Reads(AnnexB, StartCoded(nals), nals)
<1>1. SplitLengthPrefixed(b, size) = Found(nals)
  BY DEF Reads, LengthPrefixed
<1>2. LengthPrefixedToAnnexb(b, size) = Ok(StartCoded(nals))
  BY <1>1 DEF LengthPrefixedToAnnexb, Found
<1>3. /\ nals \in Seq(Seq(Byte)) /\ StartCoded(nals) \in Seq(Byte)
      /\ SplitNals(StartCoded(nals)) = nals
  BY SplitStartCoded
<1>4. AnnexB.how = "AnnexB"
  BY DEF AnnexB
<1>. QED  BY <1>2, <1>3, <1>4, Zenon DEF Reads

\* Framing::insert: the packet then reads as it did, with the SEI of the payload
\* right before the first slice, and with that slice's temporal id.
THEOREM InsertReads ==
    ASSUME NEW how, NEW b, NEW nals \in Seq(CleanNals \cap ShortNals), Reads(how, b, nals),
           NEW note \in Seq(Byte),
           WriteUserDataAt(note, NalsTemporalId(nals)) \in ShortNals,
           InsertInto(how, b, note).ok
    PROVE  Reads(how, InsertInto(how, b, note).bytes,
                 InsertAt(nals, FirstSlice(nals), WriteUserDataAt(note, NalsTemporalId(nals))))
<1>. DEFINE id == NalsTemporalId(nals)
            sei == WriteUserDataAt(note, id)
            more == InsertAt(nals, FirstSlice(nals), sei)
<1>1. nals \in Seq(Seq(Byte)) /\ nals \in Seq(ShortNals) /\ b \in Seq(Byte)
  BY DEF Reads, ShortNals
<1>2. id \in 1..7
  BY <1>1, TemporalIds
<1>. HIDE DEF id
<1>3. sei \in CleanNals /\ sei \in Seq(Byte) /\ sei \in ShortNals
  BY <1>2, SeiIs DEF id
<1>. HIDE DEF sei
<1>4. more \in Seq(Seq(Byte)) /\ more \in Seq(ShortNals)
  BY <1>1, <1>3, PutBeforeSlice
<1>. HIDE DEF more
<1>5. CASE how.how = "AnnexB" /\ SplitNals(b) = nals
  <2>1. InsertInto(how, b, note)
           = InsertSeiAnnexb(b, WriteUserDataAt(note, UnitsTemporalId(AccessUnits(b))))
    BY <1>5 DEF InsertInto
  <2>2. AccessUnits(b) # << >>
    BY <2>1, InsertsWhenUnits DEF Err
  <2>3. UnitsTemporalId(AccessUnits(b)) = id
    BY <1>1, <1>5, <2>2, UnitPlace, Zenon DEF id
  <2>4. InsertInto(how, b, note) = InsertSeiAnnexb(b, sei) /\ InsertSeiAnnexb(b, sei).ok
    BY <2>1, <2>3, Zenon DEF sei
  <2>5. InsertSeiAnnexb(b, sei).bytes \in Seq(Byte)
        /\ SplitNals(InsertSeiAnnexb(b, sei).bytes) = InsertAt(SplitNals(b), FirstSlice(SplitNals(b)), sei)
    BY <1>1, <1>3, <2>4, AnnexbInserted
  <2>6. SplitNals(InsertInto(how, b, note).bytes) = more
    BY <1>5, <2>4, <2>5, Zenon DEF more
  <2>. QED  BY <1>4, <1>5, <2>4, <2>5, <2>6, Zenon DEF Reads, more, sei, id
<1>6. CASE /\ how.how = "LengthPrefixed" /\ how.length_size \in 1..4
           /\ SplitLengthPrefixed(b, how.length_size) = Found(nals)
  <2>. DEFINE size == how.length_size
  <2>1. InsertInto(how, b, note) = InsertSeiLengthPrefixed(Found(nals), size, sei)
    BY <1>6 DEF InsertInto, Found, sei, id
  <2>2. InsertSeiLengthPrefixed(Found(nals), size, sei) = SampleOf(more, size)
    BY DEF InsertSeiLengthPrefixed, Found, more
  <2>. HIDE DEF size
  <2>3. Reads(LengthPrefixed(size), SampleOf(more, size).bytes, more)
    BY <1>4, <2>1, <2>2, SampleReads
  <2>4. SampleOf(more, size).bytes \in Seq(Byte)
        /\ SplitLengthPrefixed(SampleOf(more, size).bytes, size) = Found(more)
    BY <2>3 DEF Reads, LengthPrefixed
  <2>. QED  BY <1>4, <1>6, <2>1, <2>2, <2>4, Zenon DEF Reads, more, sei, id, size
<1>. QED  BY <1>5, <1>6, Zenon DEF Reads

\* One more before the first slice of a list that has such already.
LEMMA OneMoreNote ==
    ASSUME NEW T, NEW u \in Seq(T), NEW n \in Seq(T), NEW v \in Seq(T), NEW e \in T,
           BeforeSlices(u, v), \A k \in 1..Len(n) : ~IsVcl(n[k])
    PROVE  LET nals == u \o n \o v
           IN  /\ nals \in Seq(T)
               /\ FirstSlice(nals) = Len(u) + Len(n) + 1
               /\ InsertAt(nals, FirstSlice(nals), e) = u \o Append(n, e) \o v
<1>. DEFINE p == u \o n
            nals == p \o v
<1>1. /\ p \in Seq(T) /\ Len(u) \in Nat /\ Len(n) \in Nat /\ Len(p) = Len(u) + Len(n)
      /\ \A k \in 1..Len(u) : p[k] = u[k]
      /\ \A k \in 1..Len(n) : p[Len(u) + k] = n[k]
  BY TwoParts
<1>. HIDE DEF p
<1>2. BeforeSlices(p, v)
  <2>1. ASSUME NEW k \in 1..Len(p) PROVE ~IsVcl(p[k])
    <3>1. CASE k <= Len(u)
      <4>1. k \in 1..Len(u)
        BY <1>1, <3>1
      <4>. QED  BY <1>1, <4>1 DEF BeforeSlices
    <3>2. CASE ~(k <= Len(u))
      <4>1. k - Len(u) \in 1..Len(n) /\ Len(u) + (k - Len(u)) = k
        BY <1>1, <3>2
      <4>2. p[Len(u) + (k - Len(u))] = n[k - Len(u)] /\ ~IsVcl(n[k - Len(u)])
        BY <1>1, <4>1
      <4>. QED  BY <4>1, <4>2
    <3>. QED  BY <3>1, <3>2
  <2>. QED  BY <2>1 DEF BeforeSlices
<1>3. nals \in Seq(T)
  BY <1>1
<1>4. FirstSlice(nals) = Len(p) + 1
  BY <1>1, <1>2, FirstSliceIs
<1>5. InsertAt(nals, Len(p) + 1, e) = p \o <<e>> \o v
  BY <1>1, PutAt
<1>6. p \o <<e>> = u \o Append(n, e)
  <2>. DEFINE one == <<e>>
  <2>1. one \in Seq(T) /\ Append(n, e) = n \o one
    OBVIOUS
  <2>. HIDE DEF one
  <2>2. u \o n \o one = u \o (n \o one)
    <3>. HIDE DEF p, nals
    <3>. QED  BY <2>1
  <2>. QED  BY <2>1, <2>2, Zenon DEF p, one
<1>. QED  BY <1>1, <1>3, <1>4, <1>5, <1>6, Zenon DEF p

\* A list parted at its first slice.
LEMMA PartedAtSlice ==
    ASSUME NEW T, NEW nals \in Seq(T)
    PROVE  LET u == SubSeq(nals, 1, FirstSlice(nals) - 1)
               v == SubSeq(nals, FirstSlice(nals), Len(nals))
           IN  /\ u \in Seq(T) /\ v \in Seq(T) /\ nals = u \o v /\ BeforeSlices(u, v)
               /\ FirstSlice(nals) = Len(u) + 1
<1>1. PICK u \in Seq(T), v \in Seq(T) : nals = u \o v /\ BeforeSlices(u, v)
  BY PartsExist
<1>2. FirstSlice(nals) = Len(u) + 1
  BY <1>1, FirstSliceIs
<1>3. /\ Len(u) \in Nat
      /\ SubSeq(nals, 1, Len(u)) = u /\ SubSeq(nals, Len(u) + 1, Len(nals)) = v
  BY <1>1, TwoParts
<1>4. SubSeq(nals, 1, FirstSlice(nals) - 1) = u
      /\ SubSeq(nals, FirstSlice(nals), Len(nals)) = v
  <2>1. FirstSlice(nals) - 1 = Len(u)
    BY <1>2, <1>3
  <2>. QED  BY <1>2, <1>3, <2>1, Zenon
<1>. QED  BY <1>1, <1>2, <1>4, Zenon

GoodNals == CleanNals \cap ShortNals

LEMMA GoodNalsAre ==
    ASSUME NEW nals \in Seq(GoodNals)
    PROVE  /\ nals \in Seq(CleanNals) /\ nals \in Seq(ShortNals)
           /\ nals \in Seq(CleanNals \cap ShortNals) /\ nals \in Seq(Seq(Byte))
BY DEF GoodNals, CleanNals

\* read_ff of what put_ff wrote.
LEMMA ReadFfIs ==
    ASSUME NEW data \in Seq(Byte), NEW value \in Nat, NEW at \in Nat,
           at + Len(PutFf(value)) <= Len(data),
           \A i \in 1..Len(PutFf(value)) : At(data, at + i - 1) = PutFf(value)[i]
    PROVE  ReadFf(data, at) = [value |-> value, next |-> at + Len(PutFf(value))]
<1>. DEFINE q == value \div 255
            ends == {i \in at..(Len(data) - 1) : At(data, i) # 255}
            end == at + q
<1>1. /\ q \in Nat /\ value % 255 \in Byte /\ Len(PutFf(value)) = q + 1
      /\ \A i \in 1..q : PutFf(value)[i] = 255
      /\ PutFf(value)[q + 1] = value % 255
      /\ Len(data) \in Nat
  BY PutFfType, LenProperties
<1>2. value = 255 * q + (value % 255) /\ value % 255 < 255
  OBVIOUS
<1>. DEFINE r == value % 255
            w == PutFf(value)
<1>. HIDE DEF q, r, w
<1>3. At(data, end) = r /\ r # 255
  <2>1. q + 1 \in 1..Len(w) /\ at + (q + 1) - 1 = end
    BY <1>1 DEF w
  <2>. QED  BY <1>1, <1>2, <2>1 DEF w, r
<1>4. \A i \in at..(end - 1) : At(data, i) = 255
  <2>1. ASSUME NEW i \in at..(end - 1) PROVE At(data, i) = 255
    <3>. DEFINE j == i - at + 1
    <3>1. j \in 1..q /\ j \in 1..Len(w) /\ at + j - 1 = i
      BY <1>1 DEF w
    <3>. HIDE DEF j
    <3>2. w[j] = 255 /\ At(data, at + j - 1) = w[j]
      BY <1>1, <3>1 DEF w
    <3>. QED  BY <3>1, <3>2
  <2>. QED  BY <2>1
<1>5. end \in ends /\ \A i \in ends : end <= i
  BY <1>1, <1>3, <1>4 DEF w
<1>6. ends \in SUBSET Nat
  BY <1>1
<1>7. ReadFf(data, at) = [value |-> 255 * (Min(ends) - at) + At(data, Min(ends)),
                          next |-> Min(ends) + 1]
  BY <1>5 DEF ReadFf
<1>. HIDE DEF ends
<1>8. Min(ends) = end
  BY <1>5, <1>6, MinIs
<1>9. 255 * (end - at) + At(data, end) = value /\ end + 1 = at + Len(w)
  BY <1>1, <1>2, <1>3 DEF w, r
<1>. QED  BY <1>7, <1>8, <1>9 DEF w

\* A field at the end of the data is not there.
LEMMA ReadFfAtEnd ==
    ASSUME NEW data \in Seq(Byte)
    PROVE  ReadFf(data, Len(data)) = NoValue
<1>1. Len(data) \in Nat
  BY LenProperties
<1>2. {i \in Len(data)..(Len(data) - 1) : At(data, i) # 255} = {}
  BY <1>1
<1>. QED  BY <1>2 DEF ReadFf

\* The trailing bits come off, and nothing else.
LEMMA StripIs ==
    ASSUME NEW data \in Seq(Byte)
    PROVE  StripTrailingBits(data \o <<128>>) = data
<1>. DEFINE one == <<128>>
            b == data \o one
            n == Len(data)
<1>1. one \in Seq(Byte) /\ Len(one) = 1 /\ At(one, 0) = 128
  BY DEF Byte, At
<1>. HIDE DEF one
<1>2. IsJoin(b, data, one)
  BY <1>1, JoinIs
<1>. HIDE DEF b
<1>3. /\ n \in Nat /\ Len(b) = n + 1 /\ At(b, n) = 128 /\ b \in Seq(Byte)
      /\ data = Slice(b, 0, n)
  <2>1. 0 \in 0..(Len(one) - 1) /\ n + 0 = n /\ n \in Nat
    BY <1>1, LenProperties
  <2>. QED  BY <1>1, <1>2, <2>1 DEF IsJoin
<1>4. ZeroRun(b, 0, n + 1) = n + 1
  <2>1. n + 1 \in Nat /\ n + 1 \in 0..(n + 1) /\ 0 \in Nat
        /\ \A i \in (n + 1)..((n + 1) - 1) : At(b, i) = 0
    BY <1>3
  <2>2. (n + 1) - 1 = n /\ At(b, (n + 1) - 1) # 0
    BY <1>3
  <2>. QED  BY <2>1, <2>2, ZeroRunIs
<1>5. n + 1 > 0 /\ (n + 1) - 1 = n
  BY <1>3
<1>6. StripTrailingBits(b) = Slice(b, 0, n)
  BY <1>3, <1>4, <1>5 DEF StripTrailingBits
<1>. QED  BY <1>3, <1>6 DEF b, one

\* Reading gives back the payload an SEI was made of, whatever is in it.
THEOREM SeiRoundTrip ==
    ASSUME NEW payload \in Seq(Byte), IsPrefix(Uuid, payload), NEW id \in 1..7
    PROVE  UserDataInNal(WriteUserDataAt(payload, id)) = <<payload>>
<1>. DEFINE sei == WriteUserDataAt(payload, id)
            type == PutFf(USER_DATA_UNREGISTERED)
            size == PutFf(Len(payload))
            head == type \o size
            data == head \o payload
            n == Len(head)
            message == [payload_type |-> USER_DATA_UNREGISTERED, payload |-> payload]
<1>1. /\ type \in Seq(Byte) /\ size \in Seq(Byte) /\ Len(payload) \in Nat
      /\ Len(type) \in Nat /\ Len(size) \in Nat
  <2>1. USER_DATA_UNREGISTERED \in Nat /\ Len(payload) \in Nat
    BY LenProperties DEF USER_DATA_UNREGISTERED
  <2>. QED  BY <2>1, PutFfBytes
<1>. HIDE DEF type, size
<1>2. IsJoin(head, type, size) /\ head \in Seq(Byte)
  BY <1>1, JoinIs
<1>. HIDE DEF head
<1>3. IsJoin(data, head, payload) /\ data \in Seq(Byte)
  BY <1>2, JoinIs
<1>4. Rbsp(payload) = data \o <<128>>
  BY DEF Rbsp, data, head, type, size
<1>. HIDE DEF data
<1>5. ParseSei(sei) = ParseSeiData(data)
  <2>. DEFINE rbsp == Rbsp(payload)
              wire == InsertEmulationPrevention(rbsp)
  <2>1. Slice(sei, HeaderLen, Len(sei)) = wire
    BY SeiIs
  <2>2. RemoveEmulationPrevention(wire) = rbsp
    <3>1. rbsp \in Seq(Byte)
      BY RbspType
    <3>. HIDE DEF rbsp
    <3>2. Escapes(wire, rbsp)
      BY <3>1, EscapesAll
    <3>. QED  BY <3>2, Zenon DEF Escapes
  <2>3. StripTrailingBits(rbsp) = data
    BY <1>3, <1>4, StripIs
  <2>. HIDE DEF rbsp, wire, sei
  <2>. QED  BY <2>1, <2>2, <2>3, Zenon DEF ParseSei, ParseSeiRbsp
<1>6. /\ Len(head) = Len(type) + Len(size) /\ Len(data) = n + Len(payload) /\ n \in Nat
      /\ payload = Slice(data, n, Len(data))
      /\ \A i \in 0..(n - 1) : At(data, i) = At(head, i)
      /\ \A i \in 0..(Len(type) - 1) : At(head, i) = At(type, i)
      /\ \A i \in 0..(Len(size) - 1) : At(head, Len(type) + i) = At(size, i)
  BY <1>2, <1>3, Zenon DEF IsJoin
<1>7. ReadFf(data, 0) = [value |-> USER_DATA_UNREGISTERED, next |-> Len(type)]
  <2>1. USER_DATA_UNREGISTERED \in Nat
    BY DEF USER_DATA_UNREGISTERED
  <2>2. ASSUME NEW i \in 1..Len(type) PROVE At(data, 0 + i - 1) = type[i]
    <3>1. i - 1 \in 0..(Len(type) - 1) /\ i - 1 \in 0..(n - 1) /\ 0 + i - 1 = i - 1
      BY <1>1, <1>6
    <3>2. At(data, i - 1) = At(type, i - 1)
      BY <1>6, <3>1
    <3>3. At(type, i - 1) = type[i]
      BY <1>1 DEF At
    <3>. QED  BY <3>1, <3>2, <3>3
  <2>3. 0 + Len(type) <= Len(data) /\ 0 \in Nat /\ 0 + Len(type) = Len(type)
    BY <1>1, <1>6
  <2>. QED  BY <1>3, <2>1, <2>2, <2>3, ReadFfIs DEF type
<1>8. ReadFf(data, Len(type)) = [value |-> Len(payload), next |-> n]
  <2>1. ASSUME NEW i \in 1..Len(size) PROVE At(data, Len(type) + i - 1) = size[i]
    <3>. DEFINE j == i - 1
    <3>1. j \in 0..(Len(size) - 1) /\ Len(type) + j \in 0..(n - 1)
          /\ Len(type) + i - 1 = Len(type) + j
      BY <1>1, <1>6
    <3>2. size[i] = At(size, j)
      BY <1>1 DEF At
    <3>. HIDE DEF j
    <3>3. At(data, Len(type) + j) = At(size, j)
      BY <1>6, <3>1
    <3>. QED  BY <3>1, <3>2, <3>3
  <2>2. Len(type) + Len(size) <= Len(data) /\ Len(type) + Len(size) = n
    BY <1>1, <1>6
  <2>. QED  BY <1>1, <1>3, <2>1, <2>2, ReadFfIs DEF size
<1>9. PICK g : /\ ParseSeiData(data) = g[0]
              /\ \A at \in 0..Len(data) : g[at] = MessagesAt(data, ReadFf(data, at), g)
  BY <1>3, ParseIs
<1>10. Len(data) \in Nat /\ 0 \in 0..Len(data) /\ Len(data) \in 0..Len(data)
       /\ n + Len(payload) = Len(data)
  BY <1>1, <1>6
<1>11. g[Len(data)] = << >>
  <2>1. ReadFf(data, Len(data)) = NoValue
    BY <1>3, ReadFfAtEnd
  <2>. QED  BY <1>9, <1>10, <2>1 DEF MessagesAt
<1>12. g[0] = <<message>> \o g[Len(data)]
  <2>1. ~(n + Len(payload) > Len(data))
    BY <1>10
  <2>2. ReadFf(data, 0) # NoValue /\ ReadFf(data, Len(type)) # NoValue
    <3>1. Len(payload) # -1 /\ USER_DATA_UNREGISTERED # -1
      BY <1>1 DEF USER_DATA_UNREGISTERED
    <3>. QED  BY <1>7, <1>8, <3>1 DEF NoValue
  <2>3. ReadFf(data, 0).next = Len(type) /\ ReadFf(data, 0).value = USER_DATA_UNREGISTERED
        /\ ReadFf(data, Len(type)).next = n /\ ReadFf(data, Len(type)).value = Len(payload)
    BY <1>7, <1>8
  <2>4. g[0] = MessagesAt(data, ReadFf(data, 0), g)
    BY <1>9, <1>10
  <2>5. MessagesAt(data, ReadFf(data, 0), g) = Messages(data, ReadFf(data, 0), ReadFf(data, Len(type)), g)
    BY <2>2, <2>3, Zenon DEF MessagesAt
  <2>6. Messages(data, ReadFf(data, 0), ReadFf(data, Len(type)), g)
           = <<[payload_type |-> USER_DATA_UNREGISTERED, payload |-> Slice(data, n, Len(data))]>>
                 \o g[Len(data)]
    <3>. DEFINE end == ReadFf(data, Len(type)).next + ReadFf(data, Len(type)).value
    <3>1. end = Len(data)
      BY <1>10, <2>3
    <3>2. Len(data) > Len(data) <=> FALSE
      BY <1>10
    <3>. QED  BY <2>2, <2>3, <3>1, <3>2, Zenon DEF Messages
  <2>. QED  BY <1>6, <2>4, <2>5, <2>6, Zenon
<1>13. ParseSei(sei) = <<message>>
  <2>1. <<message>> \o << >> = <<message>>
    OBVIOUS
  <2>. QED  BY <1>5, <1>9, <1>11, <1>12, <2>1, Zenon
<1>14. UserDataInNal(sei) = FlattenSeq(<<<<payload>>>>)
  <2>1. IsPrefixSei(sei)
    BY SeiIs DEF IsPrefixSei
  <2>2. IsUserData(message)
    BY DEF IsUserData
  <2>. DEFINE messages == ParseSei(sei)
  <2>3. UserDataInNal(sei) = FlattenSeq([k \in 1..Len(messages) |->
                IF IsUserData(messages[k]) THEN <<messages[k].payload>> ELSE << >>])
    BY <2>1, Zenon DEF UserDataInNal
  <2>4. Len(messages) = 1 /\ messages[1] = message
    BY <1>13
  <2>. HIDE DEF messages, message
  <2>5. message.payload = payload
    BY DEF message
  <2>6. [k \in 1..Len(messages) |->
                IF IsUserData(messages[k]) THEN <<messages[k].payload>> ELSE << >>]
           = <<<<payload>>>>
    <3>1. \A k \in 1..1 : (IF IsUserData(messages[k]) THEN <<messages[k].payload>> ELSE << >>)
                             = <<payload>>
      BY <2>2, <2>4, <2>5
    <3>2. 1..Len(messages) = 1..1
      BY <2>4
    <3>3. <<<<payload>>>> = [k \in 1..1 |-> <<payload>>]
      OBVIOUS
    <3>. QED  BY <3>1, <3>2, <3>3, Zenon
  <2>. QED  BY <2>3, <2>6
<1>15. FlattenSeq(<<<<payload>>>>) = <<payload>>
  <2>. DEFINE s == <<payload>>
              t == <<<<payload>>>>
  <2>1. s \in Seq(Seq(Byte)) /\ Len(s) = 1 /\ Len(t) = 1 /\ t[1] = <<s[1]>>
        /\ t \in Seq(Seq(Seq(Byte)))
    OBVIOUS
  <2>. HIDE DEF s, t
  <2>2. \A k \in 1..Len(s) : t[k] = <<s[k]>>
    BY <2>1
  <2>3. FlattenSeq(t) = s
    BY <2>1, <2>2, FlattenSingles
  <2>. QED  BY <2>3 DEF s, t
<1>. QED  BY <1>14, <1>15, Zenon DEF sei

\* f[v] is what put_leb128 appends for v, for each v up to n.
LebPuts(f, n) ==
    \A v \in 0..n : f[v] = IF v < 128 THEN <<v>> ELSE <<128 + (v % 128)>> \o f[v \div 128]

LEMMA LebPutsAgree ==
    ASSUME NEW n \in Nat, NEW m \in Nat, NEW f, NEW g, LebPuts(f, n), LebPuts(g, m)
    PROVE  \A v \in 0..n : v <= m => f[v] = g[v]
<1>. DEFINE Good == {v \in 0..n : v <= m => f[v] = g[v]}
<1>1. ASSUME NEW v \in 0..n, \A j \in 0..(v - 1) : j \in Good
      PROVE  v \in Good
  <2>1. SUFFICES ASSUME v <= m PROVE f[v] = g[v]
    OBVIOUS
  <2>2. /\ f[v] = IF v < 128 THEN <<v>> ELSE <<128 + (v % 128)>> \o f[v \div 128]
        /\ g[v] = IF v < 128 THEN <<v>> ELSE <<128 + (v % 128)>> \o g[v \div 128]
    BY <2>1 DEF LebPuts
  <2>3. CASE v < 128
    BY <2>2, <2>3
  <2>4. CASE ~(v < 128)
    <3>1. v \div 128 \in 0..(v - 1) /\ v \div 128 <= m
      BY <2>1, <2>4
    <3>2. f[v \div 128] = g[v \div 128]
      BY <1>1, <3>1
    <3>. QED  BY <2>2, <2>4, <3>2, Zenon
  <2>. QED  BY <2>3, <2>4
<1>. HIDE DEF Good
<1>2. \A v \in 0..n : v \in Good
  BY <1>1, UpwardsFromBelow
<1>. QED  BY <1>2 DEF Good

LEMMA LebPutsMeet ==
    ASSUME NEW n \in Nat, NEW m \in 0..n, NEW f, NEW g, LebPuts(f, n), LebPuts(g, m)
    PROVE  f[m] = g[m]
<1>1. m \in Nat /\ m <= m
  OBVIOUS
<1>2. \A v \in 0..n : v <= m => f[v] = g[v]
  BY <1>1, LebPutsAgree
<1>. QED  BY <1>1, <1>2

LEMMA LebPutsExist ==
    ASSUME NEW n \in Nat
    PROVE  \E f \in [0..n -> Seq(Byte)] : LebPuts(f, n)
<1>. DEFINE P(k) == \E f \in [0..k -> Seq(Byte)] : LebPuts(f, k)
            Good == {k \in 0..n : P(k)}
<1>1. 0 \in Good
  <2>. DEFINE f == [v \in 0..0 |-> <<v>>]
  <2>1. \A v \in 0..0 : <<v>> \in Seq(Byte) /\ v < 128
    BY DEF Byte
  <2>2. f \in [0..0 -> Seq(Byte)]
    BY <2>1
  <2>3. LebPuts(f, 0)
    BY <2>1 DEF LebPuts
  <2>. HIDE DEF f
  <2>. QED  BY <2>2, <2>3
<1>2. ASSUME NEW k \in 0..(n - 1), k \in Good PROVE k + 1 \in Good
  <2>1. PICK f \in [0..k -> Seq(Byte)] : LebPuts(f, k)
    BY <1>2
  <2>. DEFINE m == k + 1
              one == IF m < 128 THEN <<m>> ELSE <<128 + (m % 128)>> \o f[m \div 128]
              h == [v \in 0..m |-> IF v = m THEN one ELSE f[v]]
  <2>2. one \in Seq(Byte)
    <3>1. CASE m < 128
      BY <3>1 DEF Byte
    <3>2. CASE ~(m < 128)
      <4>1. m \div 128 \in 0..k /\ 128 + (m % 128) \in Byte
        BY <3>2 DEF Byte
      <4>2. f[m \div 128] \in Seq(Byte) /\ <<128 + (m % 128)>> \in Seq(Byte)
        BY <4>1
      <4>3. one = <<128 + (m % 128)>> \o f[m \div 128]
        BY <3>2
      <4>. HIDE DEF one
      <4>. QED  BY <4>2, <4>3, ConcatProperties
    <3>. QED  BY <3>1, <3>2
  <2>3. h \in [0..m -> Seq(Byte)]
    <3>. HIDE DEF one
    <3>. QED  BY <2>2
  <2>4. ASSUME NEW v \in 0..m
        PROVE  h[v] = IF v < 128 THEN <<v>> ELSE <<128 + (v % 128)>> \o h[v \div 128]
    <3>1. ~(v < 128) => v \div 128 \in 0..k /\ v \div 128 # m /\ v \div 128 \in 0..m
      OBVIOUS
    <3>2. ~(v < 128) => h[v \div 128] = f[v \div 128]
      <4>. HIDE DEF one
      <4>. QED  BY <3>1
    <3>3. CASE v = m
      <4>1. h[v] = one
        <5>. HIDE DEF one
        <5>. QED  BY <3>3
      <4>. HIDE DEF h
      <4>. QED  BY <3>2, <3>3, <4>1
    <3>4. CASE v # m
      <4>1. v \in 0..k
        BY <3>4
      <4>2. h[v] = f[v]
        <5>. HIDE DEF one
        <5>. QED  BY <3>4
      <4>3. f[v] = IF v < 128 THEN <<v>> ELSE <<128 + (v % 128)>> \o f[v \div 128]
        BY <2>1, <4>1 DEF LebPuts
      <4>. HIDE DEF h
      <4>. QED  BY <3>2, <4>2, <4>3
    <3>. QED  BY <3>3, <3>4
  <2>. HIDE DEF h
  <2>5. LebPuts(h, m)
    BY <2>4 DEF LebPuts
  <2>. QED  BY <2>3, <2>5
<1>. HIDE DEF P, Good
<1>3. \A k \in 0..n : k \in Good
  BY <1>1, <1>2, Upwards
<1>. QED  BY <1>3 DEF Good, P

\* put_leb128, a byte at a time.
LEMMA PutLebIs ==
    ASSUME NEW v \in Nat
    PROVE  /\ PutLeb128(v) \in Seq(Byte)
           /\ v \div 128 \in Nat
           /\ PutLeb128(v) = IF v < 128 THEN <<v>>
                             ELSE <<128 + (v % 128)>> \o PutLeb128(v \div 128)
<1>1. ASSUME NEW n \in Nat
      PROVE  \E f \in [0..n -> Seq(Byte)] : LebPuts(f, n) /\ PutLeb128(n) = f[n]
  <2>. DEFINE P(f) == f = [v0 \in 0..n |-> IF v0 < 128 THEN <<v0>>
                              ELSE <<128 + (v0 % 128)>> \o f[v0 \div 128]]
              g == CHOOSE f : P(f)
  <2>1. PICK f \in [0..n -> Seq(Byte)] : LebPuts(f, n)
    BY LebPutsExist
  <2>2. P(f)
    BY <2>1 DEF LebPuts
  <2>3. P(g)
    BY <2>2
  <2>4. PutLeb128(n) = g[n]
    BY DEF PutLeb128
  <2>. HIDE DEF g
  <2>5. LebPuts(g, n)
    BY <2>3 DEF LebPuts
  <2>6. f[n] = g[n]
    BY <2>1, <2>5, LebPutsAgree
  <2>. QED  BY <2>1, <2>4, <2>6
<1>2. PICK f \in [0..v -> Seq(Byte)] : LebPuts(f, v) /\ PutLeb128(v) = f[v]
  BY <1>1
<1>3. v \div 128 \in 0..v /\ v \div 128 \in Nat /\ v \in 0..v
  OBVIOUS
<1>4. PICK g \in [0..(v \div 128) -> Seq(Byte)] :
         LebPuts(g, v \div 128) /\ PutLeb128(v \div 128) = g[v \div 128]
  BY <1>1, <1>3
<1>5. f[v \div 128] = g[v \div 128]
  <2>. DEFINE q == v \div 128
  <2>1. q \in 0..v /\ q \in Nat /\ q <= q
    BY <1>3
  <2>. HIDE DEF q
  <2>2. LebPuts(f, v) /\ LebPuts(g, q)
    BY <1>2, <1>4 DEF q
  <2>5. f[q] = g[q]
    BY <2>1, <2>2, LebPutsMeet
  <2>. QED  BY <2>5 DEF q
<1>6. f[v] = IF v < 128 THEN <<v>> ELSE <<128 + (v % 128)>> \o f[v \div 128]
  BY <1>2, <1>3 DEF LebPuts
<1>7. f[v] \in Seq(Byte)
  BY <1>2, <1>3
<1>. QED  BY <1>2, <1>3, <1>4, <1>5, <1>6, <1>7, Zenon

\* What follows is read of any bytes that spell v.
LebShape(w) ==
    /\ w \in Seq(Byte) /\ Len(w) \in Nat /\ Len(w) >= 1
    /\ w[Len(w)] < 128
    /\ \A i \in 1..(Len(w) - 1) : w[i] >= 128

LebSpells(v, w) ==
    \A b, at, f : at \in Nat /\ Spells(f, b, at, at + Len(w) - 1)
                    /\ (\A i \in 1..Len(w) : At(b, at + i - 1) = w[i]) => f[at] = v

LebSpelt(v) == LebShape(PutLeb128(v)) /\ LebSpells(v, PutLeb128(v))

LEMMA LebSpeltAll ==
    ASSUME NEW n \in Nat
    PROVE  LebSpelt(n)
<1>. DEFINE Good == {v \in 0..n : LebSpelt(v)}
<1>1. ASSUME NEW v \in 0..n, \A j \in 0..(v - 1) : j \in Good
      PROVE  LebSpelt(v)
  <2>. DEFINE w == PutLeb128(v)
  <2>1. CASE v < 128
    <3>0. v \in Nat
      OBVIOUS
    <3>1. w = <<v>>
      BY <2>1, <3>0, PutLebIs
    <3>2. LebShape(w)
      BY <2>1, <3>1 DEF LebShape, Byte
    <3>3. ASSUME NEW b, NEW at \in Nat, NEW f, Spells(f, b, at, at + Len(w) - 1),
                 \A i \in 1..Len(w) : At(b, at + i - 1) = w[i]
          PROVE  f[at] = v
      <4>1. Len(w) = 1 /\ w[1] = v /\ at + Len(w) - 1 = at /\ 1 \in 1..Len(w) /\ at + 1 - 1 = at
        BY <3>1
      <4>2. At(b, at) = v
        BY <3>3, <4>1
      <4>3. Spells(f, b, at, at) /\ at \in at..at
        BY <3>3, <4>1
      <4>4. f[at] = At(b, at)
        BY <4>3 DEF Spells
      <4>. QED  BY <4>2, <4>4
    <3>4. LebSpells(v, w)
      <4>. HIDE DEF w
      <4>. QED  BY <3>3 DEF LebSpells
    <3>. QED  BY <3>2, <3>4 DEF LebSpelt
  <2>2. CASE ~(v < 128)
    <3>. DEFINE q == v \div 128
                r == v % 128
                one == <<128 + r>>
                t == PutLeb128(q)
    <3>1. /\ q \in 0..(v - 1) /\ q \in Nat /\ r \in 0..127 /\ v = 128 * q + r
          /\ (128 + r) % 128 = r /\ 128 + r \in Byte
      BY <2>2 DEF Byte
    <3>2. w = one \o t
      <4>1. v \in Nat
        OBVIOUS
      <4>2. w = IF v < 128 THEN <<v>> ELSE one \o t
        BY <4>1, PutLebIs, Zenon
      <4>. QED  BY <2>2, <4>2, Zenon
    <3>3. LebShape(t) /\ LebSpells(q, t)
      BY <1>1, <3>1 DEF LebSpelt
    <3>. HIDE DEF q, r
    <3>4. one \in Seq(Byte) /\ Len(one) = 1 /\ one[1] = 128 + r
      BY <3>1
    <3>. HIDE DEF one, t, w
    <3>5. /\ w \in Seq(Byte) /\ Len(w) = 1 + Len(t) /\ w[1] = 128 + r
          /\ \A i \in 1..Len(t) : w[1 + i] = t[i]
      <4>1. t \in Seq(Byte)
        BY <3>3 DEF LebShape
      <4>2. /\ w \in Seq(Byte) /\ Len(w) = Len(one) + Len(t)
            /\ \A i \in 1..Len(one) : w[i] = one[i]
            /\ \A i \in 1..Len(t) : w[Len(one) + i] = t[i]
        <5>1. \A x \in Seq(Byte), y \in Seq(Byte) : \A z : z = x \o y =>
                  /\ z \in Seq(Byte) /\ Len(z) = Len(x) + Len(y)
                  /\ \A i \in 1..Len(x) : z[i] = x[i]
                  /\ \A i \in 1..Len(y) : z[Len(x) + i] = y[i]
          BY TwoParts
        <5>2. one \in Seq(Byte)
          BY <3>4
        <5>3. one \o t = w
          BY <3>2
        <5>4. w = one \o t =>
                  /\ w \in Seq(Byte) /\ Len(w) = Len(one) + Len(t)
                  /\ \A i \in 1..Len(one) : w[i] = one[i]
                  /\ \A i \in 1..Len(t) : w[Len(one) + i] = t[i]
          BY <4>1, <5>1, <5>2
        <5>. QED  BY <3>2, <5>4
      <4>. QED  BY <3>4, <4>2
    <3>6. LebShape(w)
      <4>1. Len(t) \in Nat /\ Len(t) >= 1 /\ t[Len(t)] < 128
            /\ \A i \in 1..(Len(t) - 1) : t[i] >= 128
        BY <3>3 DEF LebShape
      <4>2. w[Len(w)] < 128
        BY <3>5, <4>1
      <4>3. ASSUME NEW i \in 1..(Len(w) - 1) PROVE w[i] >= 128
        <5>1. CASE i = 1
          BY <3>1, <3>5, <5>1
        <5>2. CASE i # 1
          <6>. DEFINE j == i - 1
          <6>1. j \in 1..(Len(t) - 1) /\ j \in 1..Len(t) /\ 1 + j = i
            BY <3>5, <4>1, <5>2
          <6>. HIDE DEF j
          <6>2. w[1 + j] = t[j] /\ t[j] >= 128
            BY <3>5, <4>1, <6>1
          <6>. QED  BY <6>1, <6>2
        <5>. QED  BY <5>1, <5>2
      <4>. QED  BY <3>5, <4>1, <4>2, <4>3 DEF LebShape
    <3>7. ASSUME NEW b, NEW at \in Nat, NEW f, Spells(f, b, at, at + Len(w) - 1),
                 \A i \in 1..Len(w) : At(b, at + i - 1) = w[i]
          PROVE  f[at] = v
      <4>. DEFINE last == at + Len(w) - 1
                  next == at + 1
      <4>1. Len(t) \in Nat /\ Len(t) >= 1
        BY <3>3 DEF LebShape
      <4>2. next \in Nat /\ last = next + Len(t) - 1 /\ last \in Nat /\ next <= last
        BY <3>5, <4>1
      <4>3. \A i \in at..last : f[i] = IF i = last THEN At(b, i) ELSE (At(b, i) % 128) + 128 * f[i + 1]
        BY <3>7 DEF Spells
      <4>4. Spells(f, b, next, next + Len(t) - 1)
        <5>1. \A i \in next..last : i \in at..last
          BY <4>2
        <5>. HIDE DEF last, next
        <5>2. \A i \in next..last : f[i] = IF i = last THEN At(b, i) ELSE (At(b, i) % 128) + 128 * f[i + 1]
          BY <4>3, <5>1, Zenon
        <5>. QED  BY <4>2, <5>2 DEF Spells
      <4>5. \A i \in 1..Len(t) : At(b, next + i - 1) = t[i]
        <5>1. ASSUME NEW i \in 1..Len(t) PROVE At(b, next + i - 1) = t[i]
          <6>1. 1 + i \in 1..Len(w) /\ next + i - 1 = at + (1 + i) - 1 /\ w[1 + i] = t[i]
            BY <3>5, <4>1
          <6>2. At(b, at + (1 + i) - 1) = w[1 + i]
            BY <3>7, <6>1
          <6>. QED  BY <6>1, <6>2
        <5>. QED  BY <5>1
      <4>6. f[next] = q
        BY <3>3, <4>2, <4>4, <4>5 DEF LebSpells
      <4>7. At(b, at) = 128 + r
        <5>1. 1 \in 1..Len(w) /\ at + 1 - 1 = at
          BY <3>5, <4>1
        <5>. QED  BY <3>5, <3>7, <5>1
      <4>8. at \in at..last /\ at # last
        BY <4>2
      <4>9. f[at] = (At(b, at) % 128) + 128 * f[at + 1]
        <5>. HIDE DEF last
        <5>. QED  BY <4>3, <4>8
      <4>. QED  BY <3>1, <4>6, <4>7, <4>9
    <3>8. LebSpells(v, w)
      BY <3>7 DEF LebSpells
    <3>. QED  BY <3>6, <3>8 DEF LebSpelt, w
  <2>. QED  BY <2>1, <2>2
<1>2. \A v \in 0..n : (\A j \in 0..(v - 1) : j \in Good) => v \in Good
  BY <1>1
<1>. HIDE DEF Good
<1>3. \A v \in 0..n : v \in Good
  BY <1>2, UpwardsFromBelow
<1>. QED  BY <1>3 DEF Good

\* leb128 of what put_leb128 wrote.
LEMMA LebReads ==
    ASSUME NEW b \in Seq(Byte), NEW at \in Nat, NEW v \in Nat, Len(PutLeb128(v)) <= 8,
           at + Len(PutLeb128(v)) <= Len(b),
           \A i \in 1..Len(PutLeb128(v)) : At(b, at + i - 1) = PutLeb128(v)[i]
    PROVE  Leb128(b, at) = [value |-> v, next |-> at + Len(PutLeb128(v))]
<1>. DEFINE w == PutLeb128(v)
            last == at + Len(w) - 1
            ends == LebEnds(b, at)
<1>1. LebShape(w) /\ LebSpells(v, w)
  BY LebSpeltAll DEF LebSpelt
<1>2. \A i \in 1..Len(w) : At(b, at + i - 1) = w[i]
  OBVIOUS
<1>3. Len(w) <= 8 /\ at + Len(w) <= Len(b)
  OBVIOUS
<1>. HIDE DEF w
<1>4. /\ Len(w) \in Nat /\ Len(w) >= 1 /\ w[Len(w)] < 128 /\ Len(b) \in Nat
      /\ \A i \in 1..(Len(w) - 1) : w[i] >= 128
  BY <1>1, LenProperties DEF LebShape
<1>5. last \in at..(at + 7) /\ last < Len(b) /\ last \in Nat /\ last + 1 = at + Len(w)
  BY <1>3, <1>4
<1>6. At(b, last) < 128
  <2>1. Len(w) \in 1..Len(w)
    BY <1>4
  <2>. QED  BY <1>2, <1>4, <2>1
<1>7. ASSUME NEW i \in at..(last - 1) PROVE ~(At(b, i) < 128)
  <2>. DEFINE j == i - at + 1
  <2>1. j \in 1..(Len(w) - 1) /\ j \in 1..Len(w) /\ at + j - 1 = i
    BY <1>4
  <2>. HIDE DEF j
  <2>2. At(b, at + j - 1) = w[j] /\ w[j] >= 128
    BY <1>2, <1>4, <2>1
  <2>3. w[j] \in Nat
    <3>1. w[j] \in Byte
      BY <1>1, <2>1 DEF LebShape
    <3>2. \A x \in Byte : x \in Nat
      BY DEF Byte
    <3>. QED  BY <3>1, <3>2
  <2>. QED  BY <2>1, <2>2, <2>3
<1>8. last \in ends /\ \A i \in ends : last <= i
  BY <1>5, <1>6, <1>7 DEF LebEnds
<1>9. PICK least \in ends : /\ \A i \in ends : least <= i
                            /\ least \in 0..(Len(b) - 1) /\ at \in 0..least
                            /\ Leb128(b, at) = LebValue(b, at, least)
  BY <1>8, LebIs
<1>10. least = last
  <2>. HIDE DEF last, ends
  <2>1. least <= last /\ last <= least
    BY <1>8, <1>9
  <2>. QED  BY <1>5, <1>9, <2>1
<1>11. PICK f : Lebs(f, b, at, last) /\ LebValue(b, at, last) = [value |-> f[at], next |-> last + 1]
  <2>1. last \in 0..(Len(b) - 1) /\ at \in 0..last
    BY <1>9, <1>10
  <2>. HIDE DEF last
  <2>. QED  BY <2>1, LebValueIs
<1>12. f[at] = v
  <2>1. Spells(f, b, at, at + Len(w) - 1)
    BY <1>11 DEF Lebs
  <2>. QED  BY <1>1, <1>2, <2>1 DEF LebSpells
<1>13. Leb128(b, at) = [value |-> v, next |-> at + Len(w)]
  BY <1>5, <1>9, <1>10, <1>11, <1>12
<1>. QED  BY <1>13 DEF w

\* There is one walk from the first byte.
LEMMA WalkUnique ==
    ASSUME NEW b \in Seq(Byte), NEW R, Passes(b, R),
           NEW W, IsWalk(W, b, R, 0), NEW V, IsWalk(V, b, R, 0)
    PROVE  W = V
<1>1. ASSUME NEW p \in R PROVE 0 + p = p /\ ObuAt(b, p).end = 0 + ObuAt(b, p).end
  <2>1. p \in 0..(Len(b) - 1) /\ ObuAt(b, p).outcome = "obu"
    BY DEF Passes
  <2>2. ObuAt(b, p).end \in (p + 1)..Len(b)
    BY <2>1, ObuRange
  <2>. QED  BY <2>1, <2>2
<1>2. Len(b) \in Nat /\ 0 \in W /\ 0 \in V /\ W \subseteq 0..Len(b) /\ V \subseteq 0..Len(b)
  BY LenProperties DEF IsWalk
<1>3. \A p \in V : 0 + p \in W
  <2>1. \A p \in R : 0 + p \in W => 0 + p \in R /\ ObuAt(b, 0 + p).end = 0 + ObuAt(b, p).end
    BY <1>1
  <2>. QED  BY <1>2, <2>1, WalkIntoWhole
<1>4. \A p \in W : 0 + p \in V
  <2>1. \A p \in R : 0 + p \in V => 0 + p \in R /\ ObuAt(b, 0 + p).end = 0 + ObuAt(b, p).end
    BY <1>1
  <2>. QED  BY <1>2, <2>1, WalkIntoWhole
<1>5. \A p \in 0..Len(b) : 0 + p = p
  BY <1>2
<1>6. \A p \in V : p \in W
  <2>1. \A p \in V : p \in 0..Len(b)
    BY <1>2
  <2>. QED  BY <1>3, <1>5, <2>1
<1>7. \A p \in W : p \in V
  <2>1. \A p \in W : p \in 0..Len(b)
    BY <1>2
  <2>. QED  BY <1>4, <1>5, <2>1
<1>. QED  BY <1>6, <1>7

\* Starts of OBUs, each read and each where one before it ends, are those that
\* a scan returns.
LEMMA ScanIs ==
    ASSUME NEW b \in Seq(Byte), NEW S, S \subseteq Scanned(b), 0 \in S \cup {Len(b)},
           \A s \in S : ObuAt(b, s).end \in S \cup {Len(b)},
           \A p \in S \cup {Len(b)} : p # 0 => \E q \in S : ObuAt(b, q).end = p,
           \A s \in S, q \in S \cup {Len(b)} : s < q => ObuAt(b, s).end <= q
    PROVE  ObuStarts(b) = S /\ ~ScanFails(b)
<1>. DEFINE V == S \cup {Len(b)}
            R == Scanned(b)
<1>1. Len(b) \in Nat /\ \A s \in S : s \in R /\ s \in 0..(Len(b) - 1) /\ ScanReads(b, s)
  BY LenProperties DEF Scanned
<1>2. Passes(b, R) /\ IsWalk(ScanStands(b), b, R, 0)
  BY ScanWalk
<1>3. V \subseteq 0..Len(b) /\ Len(b) \notin R
  <2>1. Len(b) \notin 0..(Len(b) - 1) /\ Len(b) \in 0..Len(b)
    BY <1>1
  <2>2. \A s \in 0..(Len(b) - 1) : s \in 0..Len(b)
    BY <1>1
  <2>3. Len(b) \notin R
    BY <2>1 DEF Scanned
  <2>. HIDE DEF R
  <2>. QED  BY <1>1, <2>1, <2>2, <2>3
<1>4. IsWalk(V, b, R, 0)
  <2>1. \A p \in V : p \in R => ObuAt(b, p).end \in V
    BY <1>3
  <2>2. \A p \in V : p # 0 => \E q \in V : q \in R /\ ObuAt(b, q).end = p
    BY <1>1
  <2>3. \A p, q \in V : p < q => p \in R /\ ObuAt(b, p).end <= q
    <3>. SUFFICES ASSUME NEW p \in V, NEW q \in V, p < q
                  PROVE  p \in R /\ ObuAt(b, p).end <= q
      OBVIOUS
    <3>1. p # Len(b)
      BY <1>1, <1>3
    <3>. QED  BY <1>1, <3>1
  <2>. QED  BY <1>3, <2>1, <2>2, <2>3 DEF IsWalk
<1>5. ScanStands(b) = V
  <2>. HIDE DEF V, R
  <2>. QED  BY <1>2, <1>4, WalkUnique
<1>6. ObuStarts(b) = ScanStands(b) \ {Len(b)}
  BY Zenon DEF ObuStarts, ScanStands
<1>7. ObuStarts(b) = S
  BY <1>1, <1>5, <1>6
<1>. QED  BY <1>1, <1>7 DEF ScanFails

\* An OBU of b and the same OBU of a part of b that begins at lo.
SameObu(b, at, h, p, lo) ==
    /\ ObuAt(b, at).outcome = "obu" /\ ObuAt(h, p).outcome = "obu"
    /\ ObuAt(b, at).kind = ObuAt(h, p).kind /\ ObuAt(b, at).sized = ObuAt(h, p).sized
    /\ ObuAt(b, at).end = lo + ObuAt(h, p).end
    /\ ObuAt(b, at).payload = ObuAt(h, p).payload

LEMMA SameInPart ==
    ASSUME NEW b \in Seq(Byte), NEW hi \in 0..Len(b), NEW lo \in 0..hi,
           NEW at \in 0..(hi - lo - 1), ObuAt(b, lo + at).outcome = "obu",
           ObuAt(b, lo + at).end <= hi, ObuAt(b, lo + at).sized \/ hi = Len(b)
    PROVE  SameObu(b, lo + at, Slice(b, lo, hi), at, lo)
<1>1. ObuAt(Slice(b, lo, hi), at).outcome = "obu"
  BY ObuInSlice
<1>. QED  BY <1>1, ObuInSlice, ObuPayloadInSlice DEF SameObu

LEMMA SameInWhole ==
    ASSUME NEW b \in Seq(Byte), Len(b) <= UsizeMax, NEW hi \in 0..Len(b), NEW lo \in 0..hi,
           NEW at \in 0..(hi - lo - 1), ObuAt(Slice(b, lo, hi), at).outcome = "obu",
           ObuAt(Slice(b, lo, hi), at).sized \/ hi = Len(b)
    PROVE  SameObu(b, lo + at, Slice(b, lo, hi), at, lo)
<1>. DEFINE h == Slice(b, lo, hi)
            o == ObuAt(b, lo + at)
            p == ObuAt(h, at)
<1>1. Len(b) \in Nat /\ lo \in Nat /\ hi \in Nat /\ UsizeMax \in Nat /\ hi <= Len(b)
  BY LenProperties, UsizeAssumption
<1>2. h \in Seq(Byte) /\ Len(h) = hi - lo
  BY SliceProperties
<1>3. /\ p.kind = o.kind /\ p.sized = o.sized
      /\ o.outcome \in {"obu", "toolarge"} /\ o.end = lo + p.end
  BY ObuInSlice
<1>4. p.end \in (at + 1)..(hi - lo)
  <2>1. at \in 0..(Len(h) - 1) /\ p.outcome = "obu"
    BY <1>2
  <2>. HIDE DEF h
  <2>. QED  BY <1>2, <2>1, ObuRange
<1>5. o.end <= Len(b)
  <2>. HIDE DEF o, p
  <2>. QED  BY <1>1, <1>3, <1>4
<1>6. o.outcome # "toolarge"
  <2>. DEFINE header == At(b, lo + at)
              body == BodyAt(header, lo + at)
              size == SizeAt(b, header, body)
  <2>1. o.outcome = Outcome(b, header, body, size) /\ o.end = size.next + size.value
    BY ObuIs
  <2>. HIDE DEF header, body, size, o
  <2>2. o.outcome = "toolarge" => o.end > UsizeMax
    BY <2>1 DEF Outcome
  <2>3. o.end \in Nat
    <3>. HIDE DEF p
    <3>. QED  BY <1>1, <1>3, <1>4
  <2>. QED  BY <1>1, <1>5, <2>2, <2>3
<1>7. o.outcome = "obu" /\ p.outcome = "obu" /\ (o.sized \/ hi = Len(b))
  BY <1>3, <1>6
<1>8. p.payload = o.payload
  BY <1>7, ObuPayloadInSlice
<1>. QED  BY <1>3, <1>7, <1>8 DEF SameObu

\* Bytes a scan returns, with no OBU that goes on into what follows.
Closed(x) ==
    /\ x \in Seq(Byte) /\ ~ScanFails(x)
    /\ \A s \in ObuStarts(x) : ObuAt(x, s).sized

\* A scan of such bytes and of others behind them returns the OBUs of both.
LEMMA ObusOfJoin ==
    ASSUME NEW x, Closed(x), NEW y \in Seq(Byte), ~ScanFails(y),
           NEW w, w = x \o y, Len(w) <= UsizeMax
    PROVE  /\ w \in Seq(Byte) /\ ~ScanFails(w)
           /\ ObuStarts(w) = ObuStarts(x) \cup {Len(x) + q : q \in ObuStarts(y)}
           /\ \A s \in ObuStarts(x) : SameObu(w, s, x, s, 0)
           /\ \A q \in ObuStarts(y) : SameObu(w, Len(x) + q, y, q, Len(x))
<1>. DEFINE n == Len(x)
            m == Len(y)
            A == ObuStarts(x)
            B == ObuStarts(y)
            S == A \cup {n + q : q \in B}
<1>1. x \in Seq(Byte) /\ ~ScanFails(x) /\ \A s \in A : ObuAt(x, s).sized
  BY DEF Closed
<1>2. /\ w \in Seq(Byte) /\ n \in Nat /\ m \in Nat /\ Len(w) = n + m
      /\ SubSeq(w, 1, n) = x /\ SubSeq(w, n + 1, Len(w)) = y
  BY <1>1, TwoParts
<1>3. Slice(w, 0, n) = x /\ Slice(w, n, n + m) = y
  BY <1>2 DEF Slice
<1>4. /\ A \subseteq 0..(n - 1)
      /\ \A p : p \in ScanStands(x) <=> p \in A \/ p = n
      /\ \A s \in A : ObuAt(x, s).outcome = "obu" /\ ObuAt(x, s).end \in (s + 1)..n
                      /\ ObuAt(x, s).end \in ScanStands(x)
      /\ n > 0 => 0 \in A
  BY <1>1, ObuStartsAre
<1>5. /\ B \subseteq 0..(m - 1)
      /\ \A p : p \in ScanStands(y) <=> p \in B \/ p = m
      /\ \A s \in B : ObuAt(y, s).outcome = "obu" /\ ObuAt(y, s).end \in (s + 1)..m
                      /\ ObuAt(y, s).end \in ScanStands(y)
      /\ m > 0 => 0 \in B
  BY ObuStartsAre
<1>6. /\ IsWalk(ScanStands(x), x, Scanned(x), 0) /\ IsWalk(ScanStands(y), y, Scanned(y), 0)
  BY <1>1, ScanWalk
<1>. HIDE DEF n, m, A, B
<1>7. ASSUME NEW s \in A PROVE SameObu(w, s, x, s, 0)
  <2>1. s \in 0..(n - 0 - 1) /\ 0 + s = s /\ n \in 0..Len(w) /\ 0 \in 0..n
    BY <1>2, <1>4
  <2>2. ObuAt(x, s).outcome = "obu" /\ ObuAt(x, s).sized
    BY <1>1, <1>4
  <2>3. SameObu(w, 0 + s, Slice(w, 0, n), s, 0)
    BY <1>2, <1>3, <2>1, <2>2, SameInWhole
  <2>. QED  BY <1>3, <2>1, <2>3
<1>8. ASSUME NEW q \in B PROVE SameObu(w, n + q, y, q, n)
  <2>1. q \in 0..((n + m) - n - 1) /\ n + m \in 0..Len(w) /\ n \in 0..(n + m) /\ n + m = Len(w)
    BY <1>2, <1>5
  <2>2. ObuAt(y, q).outcome = "obu"
    BY <1>5
  <2>3. SameObu(w, n + q, Slice(w, n, n + m), q, n)
    BY <1>2, <1>3, <2>1, <2>2, SameInWhole
  <2>. QED  BY <1>3, <2>3
<1>9. /\ \A s \in A : s \in 0..(n - 1) /\ s \in S
                      /\ ObuAt(w, s).outcome = "obu" /\ ObuAt(w, s).end = ObuAt(x, s).end
      /\ \A q \in B : q \in 0..(m - 1) /\ n + q \in S
                      /\ ObuAt(w, n + q).outcome = "obu" /\ ObuAt(w, n + q).end = n + ObuAt(y, q).end
  <2>1. ASSUME NEW s \in A
        PROVE  /\ s \in 0..(n - 1) /\ s \in S
               /\ ObuAt(w, s).outcome = "obu" /\ ObuAt(w, s).end = ObuAt(x, s).end
    <3>1. ObuAt(w, s).outcome = "obu" /\ ObuAt(w, s).end = 0 + ObuAt(x, s).end
      BY <1>7 DEF SameObu
    <3>2. ObuAt(x, s).end \in (s + 1)..n /\ s \in 0..(n - 1)
      BY <1>4
    <3>. QED  BY <1>2, <3>1, <3>2
  <2>2. ASSUME NEW q \in B
        PROVE  /\ q \in 0..(m - 1) /\ n + q \in S
               /\ ObuAt(w, n + q).outcome = "obu" /\ ObuAt(w, n + q).end = n + ObuAt(y, q).end
    BY <1>5, <1>8 DEF SameObu
  <2>. QED  BY <2>1, <2>2
<1>10. S \subseteq Scanned(w)
  <2>1. \A s \in A : s \in Scanned(w)
    BY <1>2, <1>9 DEF Scanned, ScanReads
  <2>2. \A q \in B : n + q \in Scanned(w)
    BY <1>2, <1>9 DEF Scanned, ScanReads
  <2>. QED  BY <2>1, <2>2
<1>11. n \in S \cup {Len(w)} /\ 0 \in S \cup {Len(w)}
  <2>1. n \in S \cup {Len(w)}
    <3>1. CASE m = 0
      BY <1>2, <3>1
    <3>2. CASE m # 0
      <4>1. 0 \in B /\ n + 0 = n
        BY <1>2, <1>5, <3>2
      <4>. QED  BY <4>1
    <3>. QED  BY <3>1, <3>2
  <2>2. CASE n = 0
    BY <2>1, <2>2
  <2>3. CASE n # 0
    <3>1. n > 0
      BY <1>2, <2>3
    <3>2. 0 \in A
      BY <1>4, <3>1
    <3>. QED  BY <2>1, <3>2
  <2>. QED  BY <2>1, <2>2, <2>3
<1>12. ASSUME NEW s \in S PROVE ObuAt(w, s).end \in S \cup {Len(w)}
  <2>1. CASE s \in A
    <3>1. ObuAt(x, s).end \in A \/ ObuAt(x, s).end = n
      BY <1>4, <2>1
    <3>. QED  BY <1>9, <1>11, <2>1, <3>1
  <2>2. ASSUME NEW q \in B, s = n + q PROVE ObuAt(w, s).end \in S \cup {Len(w)}
    <3>1. ObuAt(y, q).end \in B \/ ObuAt(y, q).end = m
      BY <1>5
    <3>. QED  BY <1>2, <1>9, <2>2, <3>1
  <2>. QED  BY <2>1, <2>2
<1>13. ASSUME NEW p \in S \cup {Len(w)}, p # 0 PROVE \E q \in S : ObuAt(w, q).end = p
  <2>1. ASSUME p \in A \/ p = n
        PROVE  \E q \in S : ObuAt(w, q).end = p
    <3>1. p \in ScanStands(x)
      BY <1>4, <2>1
    <3>2. PICK q \in ScanStands(x) : q \in Scanned(x) /\ ObuAt(x, q).end = p
      BY <1>6, <1>13, <3>1 DEF IsWalk
    <3>3. q # n
      <4>1. q \in 0..(Len(x) - 1)
        BY <3>2 DEF Scanned
      <4>2. q \in 0..(n - 1)
        BY <4>1 DEF n
      <4>. QED  BY <1>2, <4>2
    <3>4. q \in A
      BY <1>4, <3>2, <3>3
    <3>. QED  BY <1>9, <3>2, <3>4
  <2>2. ASSUME NEW r \in B \cup {m}, r # 0, p = n + r
        PROVE  \E q \in S : ObuAt(w, q).end = p
    <3>1. r \in ScanStands(y)
      BY <1>5
    <3>2. PICK q \in ScanStands(y) : q \in Scanned(y) /\ ObuAt(y, q).end = r
      BY <1>6, <2>2, <3>1 DEF IsWalk
    <3>3. q # m
      <4>1. q \in 0..(Len(y) - 1)
        BY <3>2 DEF Scanned
      <4>2. q \in 0..(m - 1)
        BY <4>1 DEF m
      <4>. QED  BY <1>2, <4>2
    <3>4. q \in B
      BY <1>5, <3>2, <3>3
    <3>. QED  BY <1>9, <2>2, <3>2, <3>4
  <2>3. p \in A \/ p = n \/ \E r \in B \cup {m} : r # 0 /\ p = n + r
    <3>1. CASE p \in A
      BY <3>1
    <3>2. ASSUME NEW r \in B \cup {m}, p = n + r
          PROVE  p = n \/ \E e \in B \cup {m} : e # 0 /\ p = n + e
      <4>1. r = 0 => p = n
        BY <1>2, <3>2
      <4>. QED  BY <3>2, <4>1
    <3>3. p \in A \/ \E r \in B \cup {m} : p = n + r
      BY <1>2
    <3>. QED  BY <3>1, <3>2, <3>3
  <2>. QED  BY <2>1, <2>2, <2>3
<1>14. ASSUME NEW s \in S, NEW q \in S \cup {Len(w)}, s < q PROVE ObuAt(w, s).end <= q
  <2>1. CASE s \in A
    <3>1. ObuAt(w, s).end = ObuAt(x, s).end /\ ObuAt(x, s).end \in (s + 1)..n
      BY <1>4, <1>9, <2>1
    <3>2. CASE q \in A
      <4>1. s \in ScanStands(x) /\ q \in ScanStands(x)
        BY <1>4, <2>1, <3>2
      <4>2. ObuAt(x, s).end <= q
        BY <1>6, <1>14, <4>1 DEF IsWalk
      <4>. QED  BY <3>1, <4>2
    <3>3. CASE q \notin A
      <4>1. q \in Nat /\ n <= q
        BY <1>2, <1>5, <3>3
      <4>. QED  BY <1>2, <3>1, <4>1
    <3>. QED  BY <3>2, <3>3
  <2>2. ASSUME NEW r \in B, s = n + r PROVE ObuAt(w, s).end <= q
    <3>1. ObuAt(w, s).end = n + ObuAt(y, r).end /\ ObuAt(y, r).end \in (r + 1)..m /\ r \in 0..(m - 1)
      BY <1>5, <1>9, <2>2
    <3>2. CASE q \in A
      <4>1. q \in 0..(n - 1)
        BY <1>4, <3>2
      <4>. QED  BY <1>2, <1>14, <2>2, <3>1, <4>1
    <3>3. ASSUME NEW e \in B \cup {m}, q = n + e PROVE ObuAt(w, s).end <= q
      <4>1. r < e
        BY <1>2, <1>5, <1>14, <2>2, <3>1, <3>3
      <4>2. r \in ScanStands(y) /\ e \in ScanStands(y)
        BY <1>5
      <4>3. ObuAt(y, r).end <= e /\ e \in 0..m
        BY <1>2, <1>5, <1>6, <4>1, <4>2 DEF IsWalk
      <4>. QED  BY <1>2, <3>1, <3>3, <4>3
    <3>. QED  BY <1>2, <3>2, <3>3
  <2>. QED  BY <2>1, <2>2
<1>15. ObuStarts(w) = S /\ ~ScanFails(w)
  <2>. HIDE DEF S
  <2>. QED  BY <1>2, <1>10, <1>11, <1>12, <1>13, <1>14, ScanIs
<1>. QED  BY <1>2, <1>7, <1>8, <1>15 DEF A, B, n

\* The OBUs ahead of where the scan stood, when each has a size.
LEMMA HeadScan ==
    ASSUME NEW b \in Seq(Byte), ~ScanFails(b), NEW lo \in ScanStands(b),
           \A s \in ObuStarts(b) : s < lo => ObuAt(b, s).sized
    PROVE  LET x == Slice(b, 0, lo)
           IN  /\ Closed(x) /\ Len(x) = lo /\ lo \in 0..Len(b)
               /\ ObuStarts(x) = {s \in ObuStarts(b) : s < lo}
               /\ \A s \in ObuStarts(x) : SameObu(b, s, x, s, 0)
<1>. DEFINE n == Len(b)
            A == ObuStarts(b)
            x == Slice(b, 0, lo)
            S == {s \in A : s < lo}
<1>1. /\ n \in Nat /\ A \subseteq 0..(n - 1)
      /\ \A p : p \in ScanStands(b) <=> p \in A \/ p = n
      /\ \A s \in A : ObuAt(b, s).outcome = "obu" /\ ObuAt(b, s).end \in (s + 1)..n
                      /\ ObuAt(b, s).end \in ScanStands(b)
      /\ n > 0 => 0 \in A
  BY ObuStartsAre
<1>2. IsWalk(ScanStands(b), b, Scanned(b), 0)
  BY ScanWalk
<1>. HIDE DEF A
<1>3. lo \in 0..n /\ lo \in Nat
  <2>1. lo \in A \/ lo = n
    BY <1>1
  <2>. HIDE DEF n
  <2>2. n \in 0..n /\ \A s \in 0..(n - 1) : s \in 0..n
    BY <1>1
  <2>3. lo \in 0..n
    BY <1>1, <2>1, <2>2
  <2>. QED  BY <2>3
<1>4. x \in Seq(Byte) /\ Len(x) = lo
  <2>1. 0 \in 0..lo /\ lo - 0 = lo
    BY <1>3
  <2>. QED  BY <1>3, <2>1, SliceProperties
<1>. HIDE DEF x, n
<1>5. ASSUME NEW s \in S
      PROVE  /\ s \in 0..(lo - 1) /\ SameObu(b, s, x, s, 0)
             /\ ObuAt(x, s).outcome = "obu" /\ ObuAt(x, s).end = ObuAt(b, s).end
             /\ ObuAt(x, s).end <= lo /\ ObuAt(x, s).end \in (s + 1)..n /\ ObuAt(x, s).sized
  <2>1. s \in A /\ s < lo /\ s \in 0..(n - 1) /\ ObuAt(b, s).sized
    BY <1>1 DEF A
  <2>2. ObuAt(b, s).end <= lo
    <3>1. s \in ScanStands(b)
      BY <1>1, <2>1
    <3>. QED  BY <1>2, <2>1, <3>1 DEF IsWalk
  <2>3. s \in 0..(lo - 0 - 1) /\ 0 + s = s /\ 0 \in 0..lo /\ s \in 0..(lo - 1)
    BY <1>1, <1>3, <2>1
  <2>4. SameObu(b, 0 + s, Slice(b, 0, lo), s, 0)
    BY <1>1, <1>3, <2>1, <2>2, <2>3, SameInPart DEF n
  <2>5. SameObu(b, s, x, s, 0)
    BY <2>3, <2>4 DEF x
  <2>6. ObuAt(b, s).end \in (s + 1)..n /\ ObuAt(b, s).end = 0 + ObuAt(x, s).end
    BY <1>1, <2>1, <2>5 DEF SameObu
  <2>7. SameObu(b, s, Slice(b, 0, lo), s, 0)
    BY <2>3, <2>4
  <2>8. ObuAt(x, s).end = ObuAt(b, s).end
    <3>1. ObuAt(x, s).end \in (s + 1)..lo
      <4>1. s \in 0..(Len(x) - 1) /\ ObuAt(x, s).outcome = "obu"
        BY <1>4, <2>3, <2>5 DEF SameObu
      <4>. QED  BY <1>4, <4>1, ObuRange
    <3>. QED  BY <1>1, <2>6, <3>1
  <2>. QED  BY <2>1, <2>2, <2>3, <2>5, <2>6, <2>8 DEF SameObu
<1>6. S \subseteq Scanned(x)
  BY <1>4, <1>5 DEF Scanned, ScanReads
<1>7. \A p \in S \cup {lo} : p \in ScanStands(b) /\ p <= lo
  BY <1>1, <1>3
<1>8. \A p \in ScanStands(b) : p <= lo => p \in S \cup {lo}
  <2>. SUFFICES ASSUME NEW p \in ScanStands(b), p <= lo PROVE p \in S \cup {lo}
    OBVIOUS
  <2>1. p \in A \/ p = n
    BY <1>1
  <2>2. \A s \in 0..(n - 1) : s \in Nat
    OBVIOUS
  <2>3. p \in Nat
    BY <1>1, <2>1, <2>2
  <2>. QED  BY <1>3, <1>1, <2>1, <2>3
<1>9. 0 \in S \cup {lo}
  <2>1. 0 \in ScanStands(b) /\ 0 <= lo
    BY <1>2, <1>3 DEF IsWalk
  <2>. QED  BY <1>8, <2>1
<1>10. ASSUME NEW s \in S PROVE ObuAt(x, s).end \in S \cup {lo}
  <2>1. ObuAt(b, s).end \in ScanStands(b) /\ ObuAt(b, s).end <= lo
    BY <1>1, <1>5
  <2>. QED  BY <1>5, <1>8, <2>1
<1>11. ASSUME NEW p \in S \cup {lo}, p # 0 PROVE \E q \in S : ObuAt(x, q).end = p
  <2>1. PICK q \in ScanStands(b) : q \in Scanned(b) /\ ObuAt(b, q).end = p
    BY <1>2, <1>7, <1>11 DEF IsWalk
  <2>2. q \in A
    <3>1. q \in 0..(Len(b) - 1)
      BY <2>1 DEF Scanned
    <3>2. q # n
      BY <1>1, <3>1 DEF n
    <3>. QED  BY <1>1, <2>1, <3>2
  <2>3. q < lo
    <3>1. p \in (q + 1)..n /\ q \in 0..(n - 1)
      BY <1>1, <2>1, <2>2
    <3>. QED  BY <1>1, <1>3, <1>7, <3>1
  <2>. QED  BY <1>5, <2>1, <2>2, <2>3
<1>12. ASSUME NEW s \in S, NEW q \in S \cup {lo}, s < q PROVE ObuAt(x, s).end <= q
  <2>1. ObuAt(b, s).end <= q
    BY <1>2, <1>7, <1>12 DEF IsWalk
  <2>. QED  BY <1>5, <2>1
<1>13. ObuStarts(x) = S /\ ~ScanFails(x)
  <2>. HIDE DEF S
  <2>. QED  BY <1>4, <1>6, <1>9, <1>10, <1>11, <1>12, ScanIs
<1>14. Closed(x)
  BY <1>4, <1>5, <1>13 DEF Closed
<1>. QED  BY <1>3, <1>4, <1>5, <1>13, <1>14 DEF x, A, n

\* An OBU on its own is one OBU.
LEMMA OneObu ==
    ASSUME NEW b \in Seq(Byte), ~ScanFails(b), NEW s \in ObuStarts(b)
    PROVE  LET h == Slice(b, s, ObuAt(b, s).end)
           IN  /\ h \in Seq(Byte) /\ ~ScanFails(h) /\ ObuStarts(h) = {0}
               /\ SameObu(b, s, h, 0, s)
               /\ ObuAt(h, 0).end = Len(h) /\ Len(h) = ObuAt(b, s).end - s
<1>. DEFINE e == ObuAt(b, s).end
            h == Slice(b, s, e)
<1>1. /\ Len(b) \in Nat /\ s \in 0..(Len(b) - 1) /\ e \in (s + 1)..Len(b)
      /\ ObuAt(b, s).outcome = "obu" /\ (ObuAt(b, s).sized \/ e = Len(b))
  BY ObuStartsAre
<1>. HIDE DEF e
<1>2. e \in 0..Len(b) /\ s \in 0..e /\ 0 \in 0..(e - s - 1) /\ s + 0 = s /\ s \in Nat
      /\ e - s \in Nat /\ e - s > 0 /\ e <= e
  BY <1>1
<1>3. h \in Seq(Byte) /\ Len(h) = e - s
  BY <1>2, SliceProperties
<1>4. SameObu(b, s + 0, Slice(b, s, e), 0, s)
  <2>1. ObuAt(b, s + 0).outcome = "obu" /\ ObuAt(b, s + 0).end = e
        /\ (ObuAt(b, s + 0).sized \/ e = Len(b))
    BY <1>1, <1>2 DEF e
  <2>. QED  BY <1>2, <2>1, SameInPart
<1>5. SameObu(b, s, h, 0, s)
  BY <1>2, <1>4
<1>. HIDE DEF h
<1>6. ObuAt(h, 0).outcome = "obu" /\ e = s + ObuAt(h, 0).end
  BY <1>5 DEF SameObu, e
<1>7. 0 \in 0..(Len(h) - 1) /\ Len(h) # 0
  BY <1>2, <1>3
<1>8. ObuAt(h, 0).end \in (0 + 1)..Len(h)
  BY <1>3, <1>6, <1>7, ObuRange
<1>9. ObuAt(h, 0).end = Len(h)
  BY <1>1, <1>2, <1>3, <1>6, <1>8
<1>10. {0} \subseteq Scanned(h)
  BY <1>6, <1>7 DEF Scanned, ScanReads
<1>11. ObuStarts(h) = {0} /\ ~ScanFails(h)
  <2>1. \A s0 \in {0}, q \in {0} \cup {Len(h)} : s0 < q => ObuAt(h, s0).end <= q
    BY <1>2, <1>3, <1>9
  <2>2. \A p \in {0} \cup {Len(h)} : p # 0 => \E q \in {0} : ObuAt(h, q).end = p
    BY <1>9
  <2>. QED  BY <1>3, <1>9, <1>10, <2>1, <2>2, ScanIs
<1>. QED  BY <1>3, <1>5, <1>9, <1>11 DEF e, h

\* What user_data keeps of an OBU.
MineOf(obu) ==
    LET all == MetadataPayload(obu)
    IN  IF all # << >> /\ IsPrefix(Uuid, all[1]) THEN all ELSE << >>

LEMMA MineIs ==
    ASSUME NEW b, NEW at, NEW h, NEW p, NEW lo, SameObu(b, at, h, p, lo)
    PROVE  MineOf(ObuAt(b, at)) = MineOf(ObuAt(h, p))
<1>1. ObuAt(b, at).kind = ObuAt(h, p).kind /\ ObuAt(b, at).payload = ObuAt(h, p).payload
  BY DEF SameObu
<1>2. MetadataPayload(ObuAt(b, at)) = MetadataPayload(ObuAt(h, p))
  BY <1>1 DEF MetadataPayload
<1>. QED  BY <1>2 DEF MineOf

LEMMA MineType ==
    ASSUME NEW b \in Seq(Byte), NEW at \in 0..(Len(b) - 1), ObuAt(b, at).outcome = "obu"
    PROVE  MineOf(ObuAt(b, at)) \in Seq(Seq(Byte))
<1>1. MetadataPayload(ObuAt(b, at)) \in Seq(Seq(Byte))
  BY MetadataIsBytes
<1>. QED  BY <1>1 DEF MineOf

\* The OBUs of a scan, in order.
LEMMA ObuListIs ==
    ASSUME NEW b \in Seq(Byte), ~ScanFails(b)
    PROVE  LET a == Ascending(ObuStarts(b))
           IN  /\ ObuStarts(b) \in SUBSET Nat /\ IsFiniteSet(ObuStarts(b))
               /\ Len(a) = Cardinality(ObuStarts(b)) /\ Len(a) \in Nat
               /\ a \in [1..Len(a) -> Nat] /\ a \in Seq(Nat)
               /\ \A k \in 1..Len(a) : a[k] \in ObuStarts(b)
               /\ \A p \in ObuStarts(b) : \E k \in 1..Len(a) : a[k] = p
               /\ \A i, j \in 1..Len(a) : i < j => a[i] < a[j]
<1>. DEFINE S == ObuStarts(b)
            a == Ascending(S)
<1>1. Len(b) \in Nat /\ S \subseteq 0..(Len(b) - 1)
  BY ObuStartsAre
<1>. HIDE DEF S
<1>2. S \in SUBSET Nat /\ IsFiniteSet(S)
  <2>1. IsFiniteSet(0..(Len(b) - 1))
    BY <1>1, FS_Interval
  <2>2. IsFiniteSet(S)
    BY <1>1, <2>1, FS_Subset
  <2>3. \A x \in 0..(Len(b) - 1) : x \in Nat
    OBVIOUS
  <2>. QED  BY <1>1, <2>2, <2>3
<1>3. /\ a \in Seq(S) /\ Len(a) = Cardinality(S) /\ Cardinality(S) \in Nat
      /\ \A i, j \in 1..Cardinality(S) : i < j => a[i] < a[j]
  BY <1>2, AscendingProperties
<1>4. /\ \A k \in 1..Cardinality(S) : a[k] \in S
      /\ \A p \in S : \E k \in 1..Cardinality(S) : a[k] = p
  BY <1>2, AscendingOnto
<1>. HIDE DEF a
<1>5. a \in [1..Len(a) -> Nat] /\ a \in Seq(Nat)
  <2>1. Len(a) \in Nat /\ a = [k \in 1..Len(a) |-> a[k]]
    BY <1>3, LenProperties
  <2>2. \A k \in 1..Len(a) : a[k] \in Nat
    BY <1>2, <1>3, <1>4
  <2>3. a \in [1..Len(a) -> Nat]
    BY <2>1, <2>2
  <2>. QED  BY <1>2, <1>3, <2>3, SeqMonotonic
<1>. QED  BY <1>2, <1>3, <1>4, <1>5 DEF S, a

\* user_data, OBU by OBU.
LEMMA UserDataObuIs ==
    ASSUME NEW b \in Seq(Byte), ~ScanFails(b)
    PROVE  LET a == Ascending(ObuStarts(b))
           IN  UserDataObu(b) = FlattenSeq([k \in 1..Len(a) |-> MineOf(ObuAt(b, a[k]))])
  BY DEF UserDataObu, MineOf

LEMMA FlattenOne ==
    ASSUME NEW T, NEW e \in Seq(T)
    PROVE  FlattenSeq(<<e>>) = e
<1>1. << >> \in Seq(Seq(T)) /\ << >> \in Seq(T) /\ Append(<< >>, e) = <<e>> /\ << >> \o e = e
  OBVIOUS
<1>2. FlattenSeq(<< >>) = << >>
  <2>. DEFINE t == << >>
  <2>1. t \in Seq(Seq(T)) /\ \A k \in 1..Len(t) : t[k] = << >>
    OBVIOUS
  <2>. HIDE DEF t
  <2>2. FlattenSeq(t) = << >>
    BY <2>1, FlattenEmpties
  <2>. QED  BY <2>2 DEF t
<1>3. FlattenSeq(Append(<< >>, e)) = FlattenSeq(<< >>) \o e
  BY <1>1, FlattenAppend
<1>. QED  BY <1>1, <1>2, <1>3

LEMMA UserDataOfOne ==
    ASSUME NEW h \in Seq(Byte), ~ScanFails(h), ObuStarts(h) = {0}
    PROVE  /\ UserDataObu(h) = MineOf(ObuAt(h, 0))
           /\ UserDataObu(h) \in Seq(Seq(Byte))
<1>. DEFINE a == Ascending({0})
            m == MineOf(ObuAt(h, 0))
            give == [k \in 1..Len(a) |-> MineOf(ObuAt(h, a[k]))]
<1>1. a = <<0>>
  <2>1. <<0>> \in [1..1 -> Nat] /\ \A i, j \in 1..1 : i < j => <<0>>[i] < <<0>>[j]
    OBVIOUS
  <2>2. \A x : x \in {0} <=> \E i \in 1..1 : x = <<0>>[i]
    OBVIOUS
  <2>. QED  BY <2>1, <2>2, AscendingUnique
<1>2. UserDataObu(h) = FlattenSeq(give)
  BY UserDataObuIs
<1>3. m \in Seq(Seq(Byte))
  <2>1. 0 \in 0..(Len(h) - 1) /\ ObuAt(h, 0).outcome = "obu"
    BY ObuStartsAre
  <2>. QED  BY <2>1, MineType
<1>. HIDE DEF m
<1>4. give = <<m>>
  <2>1. Len(a) = 1 /\ a[1] = 0
    BY <1>1
  <2>. HIDE DEF a
  <2>2. \A k \in 1..Len(a) : MineOf(ObuAt(h, a[k])) = m
    BY <2>1 DEF m
  <2>3. give = [k \in 1..1 |-> m]
    BY <2>1, <2>2
  <2>. HIDE DEF give
  <2>. QED  BY <2>3
<1>. HIDE DEF give
<1>. QED  BY <1>2, <1>3, <1>4, FlattenOne DEF m

\* An OBU of a scan on its own gives what it gives in its place.
LEMMA UserDataSlice ==
    ASSUME NEW b \in Seq(Byte), ~ScanFails(b), NEW s \in ObuStarts(b)
    PROVE  /\ UserDataObu(Slice(b, s, ObuAt(b, s).end)) = MineOf(ObuAt(b, s))
           /\ MineOf(ObuAt(b, s)) \in Seq(Seq(Byte))
<1>. DEFINE h == Slice(b, s, ObuAt(b, s).end)
<1>1. h \in Seq(Byte) /\ ~ScanFails(h) /\ ObuStarts(h) = {0} /\ SameObu(b, s, h, 0, s)
  BY OneObu
<1>. HIDE DEF h
<1>2. UserDataObu(h) = MineOf(ObuAt(h, 0)) /\ UserDataObu(h) \in Seq(Seq(Byte))
  BY <1>1, UserDataOfOne
<1>3. MineOf(ObuAt(b, s)) = MineOf(ObuAt(h, 0))
  BY <1>1, MineIs
<1>. QED  BY <1>2, <1>3 DEF h

-----------------------------------------------------------------------------
\* A metadata OBU is one OBU, of that kind, with a size, and gives back the
\* payload it was written for: write_metadata and user_data of obu.rs.
THEOREM MetadataRoundTrip ==
    ASSUME NEW payload \in Seq(Byte), IsPrefix(Uuid, payload), MetadataFits(payload)
    PROVE  LET o == WriteMetadata(payload)
           IN  /\ Closed(o) /\ ObuStarts(o) = {0} /\ Len(o) > 0
               /\ ObuAt(o, 0).kind = OBU_METADATA /\ ObuAt(o, 0).end = Len(o)
               /\ UserDataObu(o) = <<payload>>
<1>. DEFINE M == PutLeb128(MetadataType)
            mp == M \o payload
            body == mp \o <<128>>
            P == PutLeb128(Len(body))
            head == <<42>>
            hp == head \o P
            o == hp \o body
<1>1. OBU_METADATA * 8 + 2 = 42
  BY DEF OBU_METADATA
<1>2. WriteMetadata(payload) = o
  BY <1>1 DEF WriteMetadata
<1>3. Len(M) <= 8 /\ Len(P) <= 8 /\ Len(o) <= UsizeMax
  BY <1>2 DEF MetadataFits
<1>4. M \in Seq(Byte) /\ MetadataType \in Nat
  BY PutLebIs, SelectAssumption
<1>5. <<128>> \in Seq(Byte) /\ head \in Seq(Byte) /\ Len(head) = 1 /\ head[1] = 42
      /\ 42 \in Byte /\ Len(<<128>>) = 1 /\ 1 \in 1..1
  BY DEF Byte
<1>. DEFINE t == <<128>>
<1>. HIDE DEF M, t
<1>6. /\ mp \in Seq(Byte) /\ Len(mp) = Len(M) + Len(payload)
      /\ SubSeq(mp, 1, Len(M)) = M /\ Len(M) \in Nat /\ Len(payload) \in Nat
  BY <1>4, TwoParts
<1>7. t \in Seq(Byte) /\ Len(t) = 1
  BY <1>5 DEF t
<1>. DEFINE bd == mp \o t
            pt == payload \o t
<1>8. body = bd
  BY DEF t
<1>9. bd = M \o pt /\ pt \in Seq(Byte)
  <2>1. M \o payload \o t = M \o (payload \o t) /\ payload \o t \in Seq(Byte)
    BY <1>4, <1>7, JoinOfThreeBytes
  <2>. QED  BY <2>1
<1>. HIDE DEF mp, bd, pt
<1>10. /\ bd \in Seq(Byte) /\ Len(bd) = Len(M) + Len(pt) /\ Len(bd) \in Nat /\ Len(pt) \in Nat
       /\ SubSeq(bd, Len(M) + 1, Len(bd)) = pt /\ \A k \in 1..Len(M) : bd[k] = M[k]
  BY <1>4, <1>9, TwoParts
<1>11. P = PutLeb128(Len(bd)) /\ P \in Seq(Byte)
  BY <1>8, <1>10, PutLebIs
<1>. HIDE DEF P, head
<1>12. /\ hp \in Seq(Byte) /\ Len(hp) = 1 + Len(P) /\ Len(P) \in Nat
       /\ hp[1] = 42 /\ \A k \in 1..Len(P) : hp[1 + k] = P[k]
  <2>1. /\ hp \in Seq(Byte) /\ Len(hp) = Len(head) + Len(P) /\ Len(P) \in Nat
        /\ \A k \in 1..Len(head) : hp[k] = head[k]
        /\ \A k \in 1..Len(P) : hp[Len(head) + k] = P[k]
    <3>1. hp = head \o P
      OBVIOUS
    <3>. HIDE DEF hp
    <3>2. head \in Seq(Byte) /\ P \in Seq(Byte)
      BY <1>5, <1>11
    <3>3. hp = head \o P =>
            /\ hp \in Seq(Byte) /\ Len(hp) = Len(head) + Len(P) /\ Len(P) \in Nat
            /\ \A k \in 1..Len(head) : hp[k] = head[k]
            /\ \A k \in 1..Len(P) : hp[Len(head) + k] = P[k]
      BY <3>2, TwoParts
    <3>. QED  BY <3>1, <3>3
  <2>. QED  BY <1>5, <2>1
<1>13. o = hp \o bd
  BY <1>8
<1>. HIDE DEF hp, o
<1>14. /\ o \in Seq(Byte) /\ Len(o) = Len(hp) + Len(bd)
       /\ SubSeq(o, Len(hp) + 1, Len(o)) = bd
       /\ \A k \in 1..Len(hp) : o[k] = hp[k]
  <2>1. hp \in Seq(Byte) /\ bd \in Seq(Byte)
    BY <1>10, <1>12
  <2>2. o = hp \o bd =>
            /\ o \in Seq(Byte) /\ Len(o) = Len(hp) + Len(bd)
            /\ SubSeq(o, Len(hp) + 1, Len(o)) = bd
            /\ \A k \in 1..Len(hp) : o[k] = hp[k]
    BY <2>1, TwoParts
  <2>. QED  BY <1>13, <2>2
<1>15. /\ At(o, 0) = 42 /\ Len(o) = 1 + Len(P) + Len(bd) /\ Len(o) \in Nat
       /\ \A k \in 1..Len(P) : At(o, 1 + k - 1) = P[k]
  <2>1. o[1] = 42 /\ \A k \in 1..Len(P) : o[1 + k] = P[k]
    BY <1>12, <1>14
  <2>2. 0 + 1 = 1 /\ \A k \in 1..Len(P) : (1 + k - 1) + 1 = 1 + k
    BY <1>12
  <2>3. At(o, 0) = 42 /\ \A k \in 1..Len(P) : At(o, 1 + k - 1) = P[k]
    BY <2>1, <2>2 DEF At
  <2>. QED  BY <1>10, <1>12, <1>14, <2>3
<1>16. Leb128(o, 1) = [value |-> Len(bd), next |-> 1 + Len(P)]
  <2>1. Len(PutLeb128(Len(bd))) <= 8 /\ 1 + Len(PutLeb128(Len(bd))) <= Len(o)
    BY <1>3, <1>10, <1>11, <1>12, <1>15
  <2>2. \A k \in 1..Len(PutLeb128(Len(bd))) : At(o, 1 + k - 1) = PutLeb128(Len(bd))[k]
    BY <1>11, <1>15
  <2>3. Len(bd) \in Nat /\ 1 \in Nat
    BY <1>10
  <2>4. Leb128(o, 1) = [value |-> Len(bd), next |-> 1 + Len(PutLeb128(Len(bd)))]
    BY <1>14, <2>1, <2>2, <2>3, LebReads
  <2>. QED  BY <1>11, <2>4
<1>. DEFINE size == SizeAt(o, 42, 1)
<1>17. /\ BodyAt(42, 0) = 1 /\ Sized(42) /\ (42 \div 8) % 16 = OBU_METADATA
       /\ size = [value |-> Len(bd), next |-> 1 + Len(P)]
  <2>1. Sized(42) /\ BodyAt(42, 0) = 1 /\ (42 \div 8) % 16 = OBU_METADATA
    BY DEF Sized, BodyAt, OBU_METADATA
  <2>. QED  BY <1>16, <2>1 DEF SizeAt
<1>18. size.next + size.value = Len(o) /\ size.value # -1 /\ size.next = 1 + Len(P)
  BY <1>10, <1>12, <1>15, <1>17
<1>19. /\ ObuAt(o, 0).outcome = Outcome(o, 42, 1, size)
       /\ ObuAt(o, 0).kind = OBU_METADATA /\ ObuAt(o, 0).sized
       /\ ObuAt(o, 0).end = Len(o)
  BY <1>15, <1>17, <1>18, ObuIs
<1>20. Outcome(o, 42, 1, size) = "obu"
  <2>1. Len(o) <= UsizeMax /\ UsizeMax \in Nat /\ ~(1 > Len(o)) /\ ~(42 >= 128)
        /\ ~(Len(o) > UsizeMax) /\ ~(Len(o) > Len(o))
    <3>1. Len(o) <= UsizeMax
      BY <1>3
    <3>. QED  BY <1>10, <1>12, <1>15, <3>1, UsizeAssumption
  <2>. HIDE DEF size
  <2>. QED  BY <1>18, <2>1 DEF Outcome
<1>21. ObuAt(o, 0).payload = bd
  <2>1. ObuAt(o, 0).outcome = "obu"
    BY <1>19, <1>20
  <2>2. ObuAt(o, 0).payload = Slice(o, size.next, size.next + size.value)
    BY <1>15, <1>17, <2>1, ObuPayloadIs
  <2>3. size.next = Len(hp)
    BY <1>12, <1>18
  <2>. HIDE DEF size
  <2>. QED  BY <1>14, <1>18, <2>2, <2>3 DEF Slice
<1>. HIDE DEF size
<1>22. Leb128(bd, 0) = [value |-> MetadataType, next |-> Len(M)]
  <2>1. \A k \in 1..Len(M) : At(bd, 0 + k - 1) = M[k]
    <3>1. \A k \in 1..Len(M) : (0 + k - 1) + 1 = k
      BY <1>6
    <3>. QED  BY <1>10, <3>1 DEF At
  <2>2. 0 + Len(M) <= Len(bd) /\ 0 + Len(M) = Len(M)
    BY <1>6, <1>10
  <2>3. Leb128(bd, 0) = [value |-> MetadataType, next |-> 0 + Len(PutLeb128(MetadataType))]
    BY <1>3, <1>4, <1>10, <2>1, <2>2, LebReads DEF M
  <2>. QED  BY <2>2, <2>3 DEF M
<1>23. MetadataPayload(ObuAt(o, 0)) = <<payload>>
  <2>1. DropFront(bd, Len(M)) = pt
    BY <1>10 DEF DropFront
  <2>2. StripTrailingBits(pt) = payload
    BY StripIs DEF pt, t
  <2>. QED  BY <1>19, <1>21, <1>22, <2>1, <2>2 DEF MetadataPayload
<1>24. MineOf(ObuAt(o, 0)) = <<payload>>
  <2>1. <<payload>> # << >> /\ <<payload>>[1] = payload
    OBVIOUS
  <2>. QED  BY <1>23, <2>1 DEF MineOf
<1>25. 0 \in Scanned(o) /\ Len(o) > 0
  BY <1>10, <1>12, <1>15, <1>19, <1>20 DEF Scanned, ScanReads
<1>26. ObuStarts(o) = {0} /\ ~ScanFails(o)
  <2>1. \A s \in {0}, q \in {0} \cup {Len(o)} : s < q => ObuAt(o, s).end <= q
    BY <1>15, <1>19
  <2>2. \A p \in {0} \cup {Len(o)} : p # 0 => \E q \in {0} : ObuAt(o, q).end = p
    BY <1>19
  <2>3. \A s \in {0} : ObuAt(o, s).end \in {0} \cup {Len(o)}
    BY <1>19
  <2>. QED  BY <1>14, <1>25, <2>1, <2>2, <2>3, ScanIs
<1>27. Closed(o)
  BY <1>14, <1>19, <1>26 DEF Closed
<1>28. UserDataObu(o) = <<payload>>
  BY <1>14, <1>24, <1>26, UserDataOfOne
<1>. QED  BY <1>2, <1>19, <1>25, <1>26, <1>27, <1>28

-----------------------------------------------------------------------------
(*****************************************************************************)
(* Where a metadata OBU is put: in front of the picture, which a frame or    *)
(* the delimiter of the next temporal unit begins.                           *)
(*****************************************************************************)

\* b is the OBUs before the picture and those from the picture on.
ObuParts(b, x, y) ==
    /\ Closed(x) /\ y \in Seq(Byte) /\ ~ScanFails(y) /\ b = x \o y
    /\ \A s \in ObuStarts(x) :
          /\ ObuAt(x, s).kind \notin FRAME_OBUS
          /\ s # 0 => ObuAt(x, s).kind # OBU_TEMPORAL_DELIMITER
    /\ y # << >> =>
          \/ ObuAt(y, 0).kind \in FRAME_OBUS
          \/ x # << >> /\ ObuAt(y, 0).kind = OBU_TEMPORAL_DELIMITER

Delimiters(b) == {at \in ObuStarts(b) : at = 0 \/ ObuAt(b, at).kind = OBU_TEMPORAL_DELIMITER}

\* The first temporal unit ends where the second begins, or at the end.
LEMMA FirstTemporalUnit ==
    ASSUME NEW b \in Seq(Byte), ~ScanFails(b), b # << >>
    PROVE  \E end : /\ TemporalUnits(b)[1].insert_at =
                           LET frames == {at \in ObuStarts(b) :
                                             at < end /\ ObuAt(b, at).kind \in FRAME_OBUS}
                           IN  IF frames = {} THEN end ELSE Min(frames)
                    /\ end \in Nat /\ end > 0 /\ \A p \in Delimiters(b) : p # 0 => end <= p
                    /\ end = Len(b) \/ end \in Delimiters(b)
<1>. DEFINE A == ObuStarts(b)
            S == Delimiters(b)
            a == Ascending(S)
            m == Cardinality(S)
            end == IF 1 < Len(a) THEN a[1 + 1] ELSE Len(b)
            own == {at \in A : a[1] <= at /\ at < end}
            frames == {at \in A : at < end /\ ObuAt(b, at).kind \in FRAME_OBUS}
<1>1. /\ Len(b) \in Nat /\ A \subseteq 0..(Len(b) - 1) /\ 0 \in A /\ Len(b) > 0
      /\ A \in SUBSET Nat /\ IsFiniteSet(A)
  <2>1. Len(b) \in Nat /\ Len(b) > 0
    BY LenProperties, EmptySeq
  <2>. QED  BY <2>1, ObuStartsAre, ObuListIs
<1>2. S = {at \in A : at = 0 \/ ObuAt(b, at).kind = OBU_TEMPORAL_DELIMITER}
  BY DEF Delimiters
<1>3. TemporalUnits(b) = TemporalUnitsAt(b, A, a)
  BY <1>2 DEF TemporalUnits
<1>4. 0 \in S /\ S \subseteq A /\ S \in SUBSET Nat
  BY <1>1, <1>2
<1>. HIDE DEF S
<1>5. IsFiniteSet(S)
  BY <1>1, <1>4, FS_Subset
<1>6. /\ a \in Seq(S) /\ Len(a) = m /\ m \in Nat
      /\ \A i, j \in 1..m : i < j => a[i] < a[j]
      /\ \A k \in 1..m : a[k] \in S
      /\ \A p \in S : \E k \in 1..m : a[k] = p
  BY <1>4, <1>5, AscendingProperties, AscendingOnto
<1>. HIDE DEF a, m, A
<1>7. \A k \in 1..m : a[k] \in Nat
  BY <1>4, <1>6
<1>8. m >= 1 /\ a[1] = 0
  <2>1. PICK k \in 1..m : a[k] = 0
    BY <1>4, <1>6
  <2>2. 1 \in 1..m /\ m >= 1
    BY <1>6
  <2>3. k = 1
    <3>1. k # 1 => a[1] < a[k]
      BY <1>6, <2>2
    <3>. QED  BY <1>7, <2>1, <2>2, <3>1
  <2>. QED  BY <2>1, <2>2, <2>3
<1>9. 1 \in 1..Len(a)
  BY <1>6, <1>8
<1>10. TemporalUnits(b)[1] = TemporalUnitOf(b, a[1], end, own)
  <2>. DEFINE till(k) == IF k < Len(a) THEN a[k + 1] ELSE Len(b)
              unit(k) == TemporalUnitOf(b, a[k], till(k), {at \in A : a[k] <= at /\ at < till(k)})
  <2>1. TemporalUnitsAt(b, A, a) = [k \in 1..Len(a) |-> unit(k)]
    BY DEF TemporalUnitsAt
  <2>2. unit(1) = TemporalUnitOf(b, a[1], end, own)
    OBVIOUS
  <2>. HIDE DEF unit, own, end
  <2>. QED  BY <1>3, <1>9, <2>1, <2>2
<1>11. ASSUME NEW p \in S, p # 0 PROVE 1 < Len(a) /\ a[2] <= p
  <2>1. PICK k \in 1..m : a[k] = p
    BY <1>6
  <2>2. k # 1
    BY <1>8, <1>11, <2>1
  <2>3. 2 \in 1..m /\ (k = 2 \/ 2 < k)
    BY <1>6, <2>2
  <2>4. k = 2 \/ a[2] < a[k]
    BY <1>6, <2>3
  <2>. QED  BY <1>6, <1>7, <2>1, <2>3, <2>4
<1>12. 1 < Len(a) => a[2] \in S /\ a[2] > 0 /\ a[2] \in Nat
  <2>. SUFFICES ASSUME 1 < Len(a) PROVE a[2] \in S /\ a[2] > 0 /\ a[2] \in Nat
    OBVIOUS
  <2>1. 1 \in 1..m /\ 2 \in 1..m
    BY <1>6
  <2>. QED  BY <1>6, <1>7, <1>8, <2>1
<1>13. /\ end \in Nat /\ end > 0 /\ (end = Len(b) \/ end \in S)
       /\ \A p \in S : p # 0 => end <= p
  <2>1. 1 + 1 = 2
    OBVIOUS
  <2>. QED  BY <1>1, <1>11, <1>12, <2>1
<1>. HIDE DEF end
<1>14. TemporalUnits(b)[1].insert_at = IF frames = {} THEN end ELSE Min(frames)
  <2>1. {at \in own : ObuAt(b, at).kind \in FRAME_OBUS} = frames
    <3>1. \A at \in A : a[1] <= at
      BY <1>1, <1>8 DEF A
    <3>. QED  BY <3>1
  <2>2. TemporalUnitOf(b, a[1], end, own).insert_at
            = LET f == {at \in own : ObuAt(b, at).kind \in FRAME_OBUS}
              IN  IF f = {} THEN end ELSE Min(f)
    <3>. HIDE DEF own, frames
    <3>. QED  BY DEF TemporalUnitOf
  <2>. HIDE DEF own, frames
  <2>. QED  BY <1>10, <2>1, <2>2
<1>. QED  BY <1>13, <1>14 DEF A, S

LEMMA InsertAtParts ==
    ASSUME NEW x, NEW y, NEW b, ObuParts(b, x, y), Len(b) <= UsizeMax
    PROVE  /\ b \in Seq(Byte) /\ ~ScanFails(b) /\ Len(x) \in 0..Len(b)
           /\ Slice(b, 0, Len(x)) = x /\ DropFront(b, Len(x)) = y
           /\ b # << >> => TemporalUnits(b)[1].insert_at = Len(x)
<1>. DEFINE n == Len(x)
            A == ObuStarts(b)
<1>1. /\ x \in Seq(Byte) /\ Closed(x) /\ y \in Seq(Byte) /\ ~ScanFails(y) /\ b = x \o y
      /\ ~ScanFails(x)
  BY DEF ObuParts, Closed
<1>2. b = x \o y =>
         /\ b \in Seq(Byte) /\ n \in Nat /\ Len(y) \in Nat /\ Len(b) = n + Len(y)
         /\ SubSeq(b, 1, n) = x /\ SubSeq(b, n + 1, Len(b)) = y
  BY <1>1, TwoParts
<1>3. /\ b \in Seq(Byte) /\ n \in Nat /\ Len(y) \in Nat /\ Len(b) = n + Len(y)
      /\ Slice(b, 0, n) = x /\ DropFront(b, n) = y
  BY <1>1, <1>2 DEF Slice, DropFront
<1>4. /\ ~ScanFails(b)
      /\ A = ObuStarts(x) \cup {n + q : q \in ObuStarts(y)}
      /\ \A s \in ObuStarts(x) : SameObu(b, s, x, s, 0)
      /\ \A q \in ObuStarts(y) : SameObu(b, n + q, y, q, n)
  BY <1>1, ObusOfJoin
<1>5. /\ ObuStarts(x) \subseteq 0..(n - 1) /\ (n > 0 => 0 \in ObuStarts(x))
      /\ ObuStarts(y) \subseteq 0..(Len(y) - 1) /\ (Len(y) > 0 => 0 \in ObuStarts(y))
      /\ A \subseteq 0..(Len(b) - 1)
  BY <1>1, <1>3, <1>4, ObuStartsAre
<1>6. /\ \A s \in ObuStarts(x) :
            /\ s < n /\ ObuAt(b, s).kind \notin FRAME_OBUS
            /\ s # 0 => ObuAt(b, s).kind # OBU_TEMPORAL_DELIMITER
      /\ \A s \in A : s < n => s \in ObuStarts(x)
  <2>1. \A s \in ObuStarts(x) : ObuAt(b, s).kind = ObuAt(x, s).kind
    BY <1>4 DEF SameObu
  <2>2. \A s \in ObuStarts(x) : s < n
    BY <1>3, <1>5
  <2>3. \A q \in ObuStarts(y) : ~(n + q < n)
    BY <1>3, <1>5
  <2>. QED  BY <1>4, <2>1, <2>2, <2>3 DEF ObuParts
<1>7. y # << >> =>
         /\ n \in A /\ n < Len(b)
         /\ \/ ObuAt(b, n).kind \in FRAME_OBUS
            \/ n > 0 /\ ObuAt(b, n).kind = OBU_TEMPORAL_DELIMITER
  <2>. SUFFICES ASSUME y # << >>
                PROVE  /\ n \in A /\ n < Len(b)
                       /\ \/ ObuAt(b, n).kind \in FRAME_OBUS
                          \/ n > 0 /\ ObuAt(b, n).kind = OBU_TEMPORAL_DELIMITER
    OBVIOUS
  <2>1. Len(y) > 0
    BY <1>1, EmptySeq, <1>3
  <2>2. 0 \in ObuStarts(y) /\ n + 0 = n
    BY <1>3, <1>5, <2>1
  <2>3. n \in A /\ ObuAt(b, n).kind = ObuAt(y, 0).kind
    BY <1>4, <2>2 DEF SameObu
  <2>4. x # << >> => n > 0
    BY <1>1, <1>3, EmptySeq
  <2>. QED  BY <1>3, <2>1, <2>3, <2>4 DEF ObuParts
<1>8. y = << >> => Len(b) = n
  BY <1>3
<1>. HIDE DEF n, A
<1>9. ASSUME b # << >> PROVE TemporalUnits(b)[1].insert_at = n
  <2>1. PICK end : /\ TemporalUnits(b)[1].insert_at =
                           LET frames == {at \in A :
                                             at < end /\ ObuAt(b, at).kind \in FRAME_OBUS}
                           IN  IF frames = {} THEN end ELSE Min(frames)
                   /\ end \in Nat /\ end > 0 /\ \A p \in Delimiters(b) : p # 0 => end <= p
                   /\ end = Len(b) \/ end \in Delimiters(b)
    BY <1>3, <1>4, <1>9, FirstTemporalUnit DEF A
  <2>. DEFINE frames == {at \in A : at < end /\ ObuAt(b, at).kind \in FRAME_OBUS}
  <2>2. \A p : p \in Delimiters(b) <=>
                  p \in A /\ (p = 0 \/ ObuAt(b, p).kind = OBU_TEMPORAL_DELIMITER)
    BY DEF Delimiters, A
  <2>3. n <= end
    <3>1. CASE end = Len(b)
      BY <1>3, <3>1 DEF n
    <3>2. CASE end \in Delimiters(b)
      <4>1. end \in A /\ ObuAt(b, end).kind = OBU_TEMPORAL_DELIMITER
        BY <2>1, <2>2, <3>2
      <4>2. end \notin ObuStarts(x)
        BY <1>6, <2>1, <4>1
      <4>3. ~(end < n)
        BY <1>6, <4>1, <4>2
      <4>. QED  BY <1>3, <2>1, <4>3 DEF n
    <3>. QED  BY <2>1, <3>1, <3>2
  <2>4. \A at \in frames : n <= at /\ at \in Nat
    <3>. SUFFICES ASSUME NEW at \in A, ObuAt(b, at).kind \in FRAME_OBUS PROVE n <= at /\ at \in Nat
      OBVIOUS
    <3>1. ~(at < n)
      BY <1>6
    <3>. QED  BY <1>3, <1>5, <3>1 DEF n
  <2>5. CASE n \in A /\ ObuAt(b, n).kind \in FRAME_OBUS
    <3>1. n # end
      <4>1. CASE end = Len(b)
        BY <1>3, <1>5, <2>5, <4>1 DEF n
      <4>2. CASE end \in Delimiters(b)
        <5>1. ObuAt(b, end).kind = OBU_TEMPORAL_DELIMITER
          BY <2>1, <2>2, <4>2
        <5>2. OBU_TEMPORAL_DELIMITER \notin FRAME_OBUS
          BY DEF OBU_TEMPORAL_DELIMITER, FRAME_OBUS
        <5>. QED  BY <2>5, <5>1, <5>2
      <4>. QED  BY <2>1, <4>1, <4>2
    <3>2. n \in frames
      BY <1>3, <2>1, <2>3, <2>5, <3>1 DEF n
    <3>3. frames \in SUBSET Nat
      BY <2>4
    <3>. HIDE DEF frames
    <3>4. Min(frames) = n
      BY <2>4, <3>2, <3>3, MinIs
    <3>5. TemporalUnits(b)[1].insert_at = IF frames = {} THEN end ELSE Min(frames)
      BY <2>1 DEF frames
    <3>. QED  BY <3>2, <3>4, <3>5
  <2>6. CASE ~(n \in A /\ ObuAt(b, n).kind \in FRAME_OBUS)
    <3>1. end = n
      <4>1. CASE y = << >>
        <5>1. end \notin A
          <6>0. end \in A => end < n
            <7>1. end \in A => end \in 0..(n - 1)
              BY <1>5, <1>8, <4>1
            <7>2. n \in Nat
              BY <1>3 DEF n
            <7>. QED  BY <2>1, <7>1, <7>2
          <6>1. end \in A => end \in ObuStarts(x) /\ end # 0
            BY <1>6, <2>1, <6>0
          <6>2. end \in A => ObuAt(b, end).kind = OBU_TEMPORAL_DELIMITER \/ end = Len(b)
            BY <2>1, <2>2
          <6>3. Len(b) \notin A
            BY <1>3, <1>5
          <6>. QED  BY <1>6, <6>1, <6>2, <6>3
        <5>. QED  BY <1>8, <2>1, <2>2, <4>1, <5>1
      <4>2. CASE y # << >>
        <5>1. n \in Delimiters(b) /\ n # 0
          BY <1>7, <2>2, <2>6, <4>2
        <5>. QED  BY <1>3, <2>1, <2>3, <5>1 DEF n
      <4>. QED  BY <4>1, <4>2
    <3>2. frames = {}
      <4>. SUFFICES ASSUME NEW at \in frames PROVE FALSE
        OBVIOUS
      <4>1. n <= at /\ at \in Nat /\ at < end
        BY <2>4
      <4>. QED  BY <1>3, <3>1, <4>1 DEF n
    <3>3. TemporalUnits(b)[1].insert_at = IF frames = {} THEN end ELSE Min(frames)
      BY <2>1 DEF frames
    <3>. HIDE DEF frames
    <3>. QED  BY <3>1, <3>2, <3>3
  <2>. QED  BY <2>5, <2>6
<1>10. n \in 0..Len(b)
  BY <1>3 DEF n
<1>. QED  BY <1>3, <1>4, <1>9, <1>10 DEF n

-----------------------------------------------------------------------------
(*****************************************************************************)
(* Where an SEI goes in a start-coded packet is the seam of two parts, and   *)
(* behind the SEI it is that again: an SEI ends in no zero.                  *)
(*****************************************************************************)

\* The place in front of the first slice is the seam of two parts, when the bytes
\* before it do not end in a zero.
LEMMA PlaceOfJoin ==
    ASSUME NEW u \in Seq(Byte), NEW v \in Seq(Byte), v = << >> \/ OpensWithCode(v),
           BeforeSlices(SplitNals(u), SplitNals(v)),
           u # << >> => At(u, Len(u) - 1) # 0
    PROVE  Place(u \o v, Len(u))
<1>. DEFINE n == Len(u)
            w == u \o v
<1>1. /\ w \in Seq(Byte) /\ n \in Nat /\ Len(v) \in Nat /\ Len(w) = n + Len(v)
      /\ \A i \in 0..(n - 1) : At(w, i) = At(u, i)
      /\ \A i \in 0..(Len(v) - 1) : At(w, n + i) = At(v, i)
  BY SlicesOfJoin
<1>2. /\ \A c \in StartCodes(u) : NalBytes(w, c) = NalBytes(u, c)
      /\ \A c \in StartCodes(v) : n + c \in StartCodes(w) /\ NalBytes(w, n + c) = NalBytes(v, c)
      /\ \A c \in StartCodes(w) : c \in StartCodes(u) \/ c - n \in StartCodes(v)
  BY CodesOfJoin
<1>3. /\ Slices(w) \subseteq StartCodes(w)
      /\ \A c \in StartCodes(w) : IsVcl(NalBytes(w, c)) <=> c \in Slices(w)
  BY SlicesAre
<1>4. \A c \in StartCodes(u) : ~IsVcl(NalBytes(u, c))
  <2>. SUFFICES ASSUME NEW c \in StartCodes(u) PROVE ~IsVcl(NalBytes(u, c))
    OBVIOUS
  <2>. DEFINE a == Ascending(StartCodes(u))
  <2>1. PICK i \in 1..Len(a) : a[i] = c
    BY CodesInOrder
  <2>2. SplitNals(u) = [k \in 1..Len(a) |-> NalBytes(u, a[k])] /\ Len(SplitNals(u)) = Len(a)
    BY SplitNalsIs
  <2>. HIDE DEF a
  <2>. QED  BY <2>1, <2>2 DEF BeforeSlices
<1>5. StartCodes(v) \subseteq Nat /\ StartCodes(w) \subseteq Nat
  BY <1>1, CodesAre
<1>. HIDE DEF w
<1>6. \A s \in Slices(w) : s - n \in StartCodes(v)
  BY <1>2, <1>3, <1>4
<1>7. CASE v = << >>
  <2>1. Len(v) = 0 /\ StartCodes(v) = {}
    <3>1. Len(v) = 0
      BY <1>7
    <3>. QED  BY <3>1 DEF StartCodes
  <2>2. Slices(w) = {} /\ Len(w) = n
    BY <1>1, <1>6, <2>1
  <2>. QED  BY <1>1, <2>2 DEF Place, w
<1>8. CASE v # << >>
  <2>1. PICK c \in {0, 1} : /\ c \in StartCodes(v) /\ (c = 1 => At(v, 0) = 0 /\ 0 \notin StartCodes(v))
    BY <1>8 DEF OpensWithCode
  <2>2. IsVcl(NalBytes(v, c))
    <3>1. Len(SplitNals(v)) > 0 /\ SplitNals(v)[1] = NalBytes(v, c)
      BY <2>1, SplitFirst
    <3>. QED  BY <3>1 DEF BeforeSlices
  <2>3. n + c \in Slices(w)
    BY <1>2, <1>3, <2>1, <2>2
  <2>4. ASSUME NEW s \in Slices(w) PROVE n + c <= s
    <3>1. s - n \in StartCodes(v) /\ s - n \in Nat /\ s \in Nat
      BY <1>3, <1>5, <1>6
    <3>. QED  BY <1>1, <2>1, <3>1
  <2>5. Len(v) > 0 /\ n \in 0..Len(w)
    <3>1. Len(v) # 0
      BY <1>8, EmptySeq
    <3>. QED  BY <1>1, <3>1
  <2>6. ZeroRun(w, 0, n) = n
    <3>1. CASE n = 0
      BY <1>1, <3>1, ZeroRunRange
    <3>2. CASE n # 0
      <4>1. At(w, n - 1) # 0 /\ n - 1 \in Nat /\ (n - 1) + 1 = n
        <5>1. u # << >> /\ n - 1 \in 0..(n - 1)
          BY <1>1, <3>2
        <5>. QED  BY <1>1, <5>1
      <4>. QED  BY <4>1, ZeroRunNext
    <3>. QED  BY <3>1, <3>2
  <2>7. NalCode(w, n + c) = n
    <3>1. CASE c = 0
      <4>1. n + c = n
        BY <1>1, <3>1
      <4>. QED  BY <1>1, <2>6, <4>1 DEF NalCode, NalPad
    <3>2. CASE c = 1
      <4>1. At(w, n) = 0
        <5>1. At(w, n + 0) = At(v, 0) /\ n + 0 = n
          BY <1>1, <2>5
        <5>. QED  BY <2>1, <3>2, <5>1
      <4>2. ZeroRun(w, 0, n + 1) = n
        BY <1>1, <2>6, <4>1, ZeroRunNext
      <4>. QED  BY <1>1, <3>2, <4>2 DEF NalCode, NalPad
    <3>. QED  BY <3>1, <3>2
  <2>8. \A s \in Slices(w) : (\A d \in Slices(w) : s <= d) => n = NalCode(w, s)
    <3>. SUFFICES ASSUME NEW s \in Slices(w), \A d \in Slices(w) : s <= d
                  PROVE  n = NalCode(w, s)
      OBVIOUS
    <3>1. s <= n + c /\ n + c <= s /\ s \in Nat /\ n + c \in Nat
      BY <1>1, <1>3, <1>5, <2>1, <2>3, <2>4
    <3>2. s = n + c
      BY <3>1
    <3>. QED  BY <2>7, <3>2
  <2>9. Slices(w) # {}
    BY <2>3
  <2>. QED  BY <2>5, <2>8, <2>9 DEF Place, w
<1>. QED  BY <1>7, <1>8

LEMMA OnePlace ==
    ASSUME NEW b \in Seq(Byte), NEW p, Place(b, p), NEW q, Place(b, q)
    PROVE  p = q
<1>1. CASE Slices(b) = {}
  BY <1>1 DEF Place
<1>2. CASE Slices(b) # {}
  <2>1. PICK s \in Slices(b) : \A d \in Slices(b) : s <= d
    BY <1>2, PlaceExists
  <2>. QED  BY <2>1 DEF Place
<1>. QED  BY <1>1, <1>2

\* A NAL unit behind its start code ends in no zero.
LEMMA CodedNalEnd ==
    ASSUME NEW nal \in CleanNals
    PROVE  At(CodedNal(nal), Len(CodedNal(nal)) - 1) # 0
<1>1. /\ nal \in Seq(Byte) /\ Len(nal) \in Nat /\ Len(CodedNal(nal)) = Len(nal) + 4
      /\ At(CodedNal(nal), 3) = 1
      /\ \A i \in 0..(Len(nal) - 1) : At(CodedNal(nal), 4 + i) = At(nal, i)
  BY CodedNalBytes DEF CleanNals
<1>2. CASE Len(nal) = 0
  BY <1>1, <1>2
<1>3. CASE Len(nal) # 0
  <2>1. nal # << >>
    BY <1>3
  <2>2. At(nal, Len(nal) - 1) # 0
    BY <2>1 DEF CleanNals, CleanNal
  <2>3. Len(nal) - 1 \in 0..(Len(nal) - 1) /\ 4 + (Len(nal) - 1) = Len(CodedNal(nal)) - 1
    BY <1>1, <1>3
  <2>. QED  BY <1>1, <2>2, <2>3
<1>. QED  BY <1>2, <1>3

\* One SEI more at the seam, and the seam behind it.
LEMMA SeamMoves ==
    ASSUME NEW m \in Seq(Byte), NEW y \in Seq(Byte), NEW b, b = m \o y, Place(b, Len(m)),
           NEW sei \in CleanNals, ~IsVcl(sei)
    PROVE  /\ (m \o CodedNal(sei)) \o y \in Seq(Byte)
           /\ Place((m \o CodedNal(sei)) \o y, Len(m \o CodedNal(sei)))
<1>. DEFINE c == CodedNal(sei)
            u == m \o c
<1>1. /\ c \in Seq(Byte) /\ OpensWithCode(c) /\ SplitNals(c) = <<sei>>
      /\ At(c, Len(c) - 1) # 0 /\ Len(c) \in Nat /\ Len(c) >= 4
  BY SplitOne, CodedNalEnd, CodedNalBytes DEF CleanNals
<1>. HIDE DEF c
<1>2. /\ b \in Seq(Byte) /\ Slice(b, 0, Len(m)) = m /\ DropFront(b, Len(m)) = y
  <2>1. b = m \o y => /\ b \in Seq(Byte) /\ Len(m) \in 0..Len(b) /\ Len(m) \in Nat
                      /\ m = Slice(b, 0, Len(m)) /\ y = Slice(b, Len(m), Len(b))
    BY SlicesOfJoin, ConcatProperties
  <2>2. b \in Seq(Byte) /\ Len(m) \in 0..Len(b) /\ m = Slice(b, 0, Len(m))
        /\ y = Slice(b, Len(m), Len(b))
    BY <2>1
  <2>3. DropFront(b, Len(m)) = Slice(b, Len(m), Len(b))
    BY <2>2, CutBytes
  <2>. QED  BY <2>2, <2>3, Zenon
<1>3. (y = << >> \/ OpensWithCode(y)) /\ BeforeSlices(SplitNals(m), SplitNals(y))
  <2>1. Parts(b, m, y)
    BY <1>2, PartsAtPlace
  <2>. QED  BY <2>1 DEF Parts
<1>4. SplitNals(u) = SplitNals(m) \o <<sei>>
  BY <1>1, SplitNalsConcat
<1>5. u \in Seq(Byte) /\ Len(u) = Len(m) + Len(c) /\ Len(m) \in Nat
      /\ \A i \in 0..(Len(c) - 1) : At(u, Len(m) + i) = At(c, i)
  BY <1>1, SlicesOfJoin
<1>6. At(u, Len(u) - 1) # 0
  <2>1. Len(c) - 1 \in 0..(Len(c) - 1) /\ Len(m) + (Len(c) - 1) = Len(u) - 1
    BY <1>1, <1>5
  <2>. QED  BY <1>1, <1>5, <2>1
<1>. HIDE DEF u
<1>7. BeforeSlices(SplitNals(u), SplitNals(y))
  <2>. DEFINE p == SplitNals(m)
              r == SplitNals(u)
  <2>1. p \in Seq(Seq(Byte)) /\ sei \in Seq(Byte)
    BY SplitNalsType DEF CleanNals
  <2>2. r = p \o <<sei>>
    BY <1>4
  <2>3. \A k \in 1..Len(p) : ~IsVcl(p[k])
    BY <1>3 DEF BeforeSlices
  <2>. HIDE DEF p, r
  <2>4. r = Append(p, sei)
    BY <2>1, <2>2
  <2>5. ASSUME NEW k \in 1..Len(r) PROVE ~IsVcl(r[k])
    <3>1. Len(r) = Len(p) + 1 /\ Len(p) \in Nat
      BY <2>1, <2>4
    <3>2. CASE k \in 1..Len(p)
      <4>1. r[k] = p[k]
        BY <2>1, <2>4, <3>2
      <4>. QED  BY <2>3, <3>2, <4>1
    <3>3. CASE k = Len(p) + 1
      <4>1. r[k] = sei
        BY <2>1, <2>4, <3>3
      <4>. QED  BY <4>1
    <3>. QED  BY <3>1, <3>2, <3>3
  <2>. QED  BY <1>3, <2>5 DEF BeforeSlices, r
<1>8. Place(u \o y, Len(u))
  BY <1>3, <1>5, <1>6, <1>7, PlaceOfJoin
<1>9. u \o y \in Seq(Byte)
  BY <1>5, ConcatProperties
<1>. QED  BY <1>8, <1>9, Zenon DEF u, c

\* A set of offsets listed, and the same for another set of the same order.
LEMMA AscendingImage ==
    ASSUME NEW S \in SUBSET Nat, IsFiniteSet(S), NEW T \in SUBSET Nat, NEW g \in [S -> T],
           \A x, y \in S : x < y => g[x] < g[y],
           \A t \in T : \E x \in S : g[x] = t
    PROVE  /\ Len(Ascending(T)) = Len(Ascending(S)) /\ Len(Ascending(S)) \in Nat
           /\ \A k \in 1..Len(Ascending(S)) :
                 /\ Ascending(S)[k] \in S /\ Ascending(T)[k] = g[Ascending(S)[k]]
           /\ \A x \in S : \E k \in 1..Len(Ascending(S)) : Ascending(S)[k] = x
<1>. DEFINE a == Ascending(S)
            n == Len(a)
            f == [k \in 1..n |-> g[a[k]]]
<1>1. n = Cardinality(S) /\ n \in Nat /\ \A i, j \in 1..n : i < j => a[i] < a[j]
  BY AscendingProperties
<1>2. (\A k \in 1..n : a[k] \in S) /\ \A x \in S : \E k \in 1..n : a[k] = x
  BY <1>1, AscendingOnto
<1>. HIDE DEF a, n
<1>3. f \in [1..n -> Nat]
  <2>1. \A k \in 1..n : g[a[k]] \in Nat
    BY <1>2
  <2>. QED  BY <2>1
<1>4. \A i, j \in 1..n : i < j => f[i] < f[j]
  BY <1>1, <1>2
<1>5. \A x : x \in T <=> \E i \in 1..n : x = f[i]
  <2>1. ASSUME NEW x \in T PROVE \E i \in 1..n : x = f[i]
    <3>1. PICK y \in S : g[y] = x
      OBVIOUS
    <3>2. PICK i \in 1..n : a[i] = y
      BY <1>2
    <3>. QED  BY <3>1, <3>2
  <2>2. \A i \in 1..n : f[i] \in T
    BY <1>2
  <2>. QED  BY <2>1, <2>2
<1>6. Ascending(T) = f
  <2>1. n \in Nat
    BY <1>1
  <2>. HIDE DEF f
  <2>. QED  BY <2>1, <1>3, <1>4, <1>5, AscendingUnique, Zenon
<1>7. Len(f) = n
  BY <1>1
<1>. QED  BY <1>1, <1>2, <1>6, <1>7 DEF a, n

\* What carriers that begin at these places say of a key: that one of those from
\* this beginning to the next is one.
FlagsOn(opens, keys) ==
    [k \in 1..Len(opens) |->
        \E j \in keys : opens[k] <= j /\ (k < Len(opens) => j < opens[k + 1])]

LEMMA FlagsAlike ==
    ASSUME NEW S \in SUBSET Nat, IsFiniteSet(S), NEW T \in SUBSET Nat, NEW g \in [S -> T],
           \A x, y \in S : x < y => g[x] < g[y],
           \A t \in T : \E x \in S : g[x] = t,
           NEW K \in SUBSET Nat, NEW L \in SUBSET Nat, NEW h \in [K -> L],
           \A l \in L : \E j \in K : h[j] = l,
           \A x \in S, j \in K : x <= j <=> g[x] <= h[j]
    PROVE  FlagsOn(Ascending(S), K) = FlagsOn(Ascending(T), L)
<1>. DEFINE a == Ascending(S)
            d == Ascending(T)
            n == Len(a)
            P(k, j) == a[k] <= j /\ (k < n => j < a[k + 1])
            Q(k, l) == d[k] <= l /\ (k < n => l < d[k + 1])
<1>1. Len(d) = n /\ n \in Nat /\ \A k \in 1..n : a[k] \in S /\ d[k] = g[a[k]]
  BY AscendingImage
<1>. HIDE DEF a, d, n
<1>2. ASSUME NEW k \in 1..n, NEW j \in K PROVE P(k, j) <=> Q(k, h[j])
  <2>1. a[k] <= j <=> d[k] <= h[j]
    BY <1>1
  <2>2. ASSUME k < n PROVE j < a[k + 1] <=> h[j] < d[k + 1]
    <3>1. k + 1 \in 1..n
      BY <1>1, <2>2
    <3>2. a[k + 1] <= j <=> d[k + 1] <= h[j]
      <4>1. a[k + 1] \in S /\ d[k + 1] = g[a[k + 1]]
        BY <1>1, <3>1
      <4>. QED  BY <4>1, Zenon
    <3>3. a[k + 1] \in Nat /\ j \in Nat /\ d[k + 1] \in Nat /\ h[j] \in Nat
      BY <1>1, <3>1
    <3>. QED  BY <3>2, <3>3
  <2>. QED  BY <2>1, <2>2
<1>3. ASSUME NEW k \in 1..n PROVE (\E j \in K : P(k, j)) <=> (\E l \in L : Q(k, l))
  <2>1. ASSUME NEW j \in K, P(k, j) PROVE \E l \in L : Q(k, l)
    <3>1. h[j] \in L /\ Q(k, h[j])
      BY <1>2, <2>1
    <3>. HIDE DEF Q
    <3>. QED  BY <3>1
  <2>2. ASSUME NEW l \in L, Q(k, l) PROVE \E j \in K : P(k, j)
    <3>1. PICK j \in K : h[j] = l
      OBVIOUS
    <3>2. P(k, j)
      BY <1>2, <2>2, <3>1
    <3>. HIDE DEF P
    <3>. QED  BY <3>2
  <2>. HIDE DEF P, Q
  <2>. QED  BY <2>1, <2>2
<1>4. [k \in 1..n |-> \E j \in K : P(k, j)] = [k \in 1..n |-> \E l \in L : Q(k, l)]
  <2>. DEFINE p(k) == \E j \in K : P(k, j)
              q(k) == \E l \in L : Q(k, l)
  <2>1. \A k \in 1..n : p(k) = q(k)
    BY <1>3
  <2>. HIDE DEF p, q
  <2>2. [k \in 1..n |-> p(k)] = [k \in 1..n |-> q(k)]
    BY <2>1, Zenon
  <2>. QED  BY <2>2 DEF p, q
<1>5. FlagsOn(a, K) = [k \in 1..n |-> \E j \in K : P(k, j)]
      /\ FlagsOn(d, L) = [k \in 1..n |-> \E l \in L : Q(k, l)]
  BY <1>1, Zenon DEF FlagsOn, n
<1>. QED  BY <1>4, <1>5, Zenon DEF a, d

LEMMA FlagsOfNone ==
    ASSUME NEW S \in SUBSET Nat, IsFiniteSet(S), NEW K
    PROVE  FlagsOn(Ascending(S), K) = << >> <=> S = {}
<1>. DEFINE a == Ascending(S)
            n == Len(a)
<1>1. n = Cardinality(S) /\ n \in Nat
  BY AscendingProperties
<1>2. \A x \in S : \E k \in 1..n : a[k] = x
  BY <1>1, AscendingOnto
<1>3. Len(FlagsOn(a, K)) = n
  BY <1>1 DEF FlagsOn
<1>4. S = {} <=> n = 0
  <2>1. S = {} => n = 0
    BY <1>1, FS_EmptySet
  <2>2. n = 0 => S = {}
    BY <1>2
  <2>. QED  BY <2>1, <2>2
<1>5. n = 0 => FlagsOn(a, K) = << >>
  <2>. HIDE DEF a
  <2>. QED  BY DEF FlagsOn
<1>. QED  BY <1>3, <1>4, <1>5

\* The keyframe flags of access units say whether a slice of a keyframe stands
\* between a boundary and the next.
KeyCodes(b) ==
    {c \in StartCodes(b) : IsVcl(NalBytes(b, c)) /\ IsKeyframeType(NalType(NalBytes(b, c)))}

LEMMA CodesFlags ==
    ASSUME NEW b \in Seq(Byte)
    PROVE  [k \in 1..Len(AccessUnits(b)) |-> AccessUnits(b)[k].keyframe]
               = FlagsOn(Ascending(Boundaries(b)), KeyCodes(b))
<1>. DEFINE n == Units(b)
            own(k) == {c \in StartCodes(b) : /\ Codes(b)[k] <= c /\ c < UnitEnd(b, k)
                                             /\ IsVcl(NalBytes(b, c))}
            unit(k) == AccessUnitOf(b, Codes(b)[k], UnitEnd(b, k), own(k))
            flag(k) == \E j \in KeyCodes(b) : Codes(b)[k] <= j /\ (k < n => j < Codes(b)[k + 1])
<1>1. AccessUnits(b) = [k \in 1..n |-> unit(k)]
  BY DEF AccessUnits, AccessUnitsAt, Codes, Units, UnitEnd, Pad
<1>2. /\ n \in Nat
      /\ \A k \in 1..n : Codes(b)[k] \in StartCodes(b) /\ Codes(b)[k] \in Nat
      /\ \A i, j \in 1..n : i < j => Codes(b)[i] < Codes(b)[j]
  BY CodesOfUnits
<1>3. ASSUME NEW k \in 1..n, NEW c \in StartCodes(b)
      PROVE  c < UnitEnd(b, k) <=> (k < n => c < Codes(b)[k + 1])
  <2>1. CASE k < n
    <3>1. k + 1 \in 1..n /\ UnitEnd(b, k) = NalPad(b, Codes(b)[k + 1])
      BY <1>2, <2>1 DEF UnitEnd, Pad
    <3>. DEFINE d == Codes(b)[k + 1]
    <3>2. d \in StartCodes(b) /\ d \in Nat /\ c \in Nat
      BY <1>2, <3>1, CodesAre
    <3>. HIDE DEF d
    <3>3. c < d => c + 3 <= NalPad(b, d)
      BY <3>2, PadBehindCode
    <3>4. NalPad(b, d) \in 0..d
      BY <3>2, PadRange
    <3>. QED  BY <2>1, <3>1, <3>2, <3>3, <3>4 DEF d
  <2>2. CASE ~(k < n)
    <3>1. UnitEnd(b, k) = Len(b)
      BY <2>2 DEF UnitEnd
    <3>2. c + 3 <= Len(b) /\ c \in Nat /\ Len(b) \in Nat
      BY CodeRange, CodesAre, LenProperties
    <3>. QED  BY <2>2, <3>1, <3>2
  <2>. QED  BY <2>1, <2>2
<1>4. ASSUME NEW k \in 1..n PROVE unit(k).keyframe <=> flag(k)
  <2>1. unit(k).keyframe = \E s \in own(k) : IsKeyframeType(NalType(NalBytes(b, s)))
    BY Zenon DEF AccessUnitOf
  <2>2. \A s : s \in own(k) <=> /\ s \in StartCodes(b) /\ Codes(b)[k] <= s
                                /\ (k < n => s < Codes(b)[k + 1]) /\ IsVcl(NalBytes(b, s))
    BY <1>3
  <2>. HIDE DEF own, n
  <2>. QED  BY <2>1, <2>2 DEF KeyCodes
<1>5. \A k \in 1..n : unit(k).keyframe \in BOOLEAN
  BY Zenon DEF AccessUnitOf
<1>6. \A k \in 1..n : unit(k).keyframe = flag(k)
  BY <1>4, <1>5
<1>7. FlagsOn(Ascending(Boundaries(b)), KeyCodes(b)) = [k \in 1..n |-> flag(k)]
  BY Zenon DEF FlagsOn, Codes, Units
<1>. HIDE DEF unit, flag, n
<1>8. Len(AccessUnits(b)) = n /\ \A k \in 1..n : AccessUnits(b)[k] = unit(k)
  BY <1>1, <1>2
<1>9. [k \in 1..Len(AccessUnits(b)) |-> AccessUnits(b)[k].keyframe] = [k \in 1..n |-> flag(k)]
  BY <1>6, <1>8
<1>. QED  BY <1>7, <1>9, Zenon

\* The boundaries of units of which these have a type, these are slices and these
\* are openers (Boundaries).
Bounds(X, S, O) == {c \in X : \A d \in X : c <= d} \cup {c \in O : SeenSlice(S, O, c)}

LEMMA BoundsIs ==
    ASSUME NEW b
    PROVE  Boundaries(b) = Bounds(Typed(b), Slices(b), Openers(b))
<1>1. \A c : c \in Boundaries(b) <=> c \in Bounds(Typed(b), Slices(b), Openers(b))
  BY BoundaryDef DEF Bounds
<1>. QED  BY <1>1, Zenon

\* Units without a slice among them are moved, m to the back, past no slice: every
\* slice stands behind a, and what stands behind a stands there m further.
Moved(Z, W, a, m) == \A k \in Nat : k > a => (k \in Z <=> k + m \in W)
After(Z, a) == \A k \in Z : k > a

LEMMA SeenMoved ==
    ASSUME NEW a \in Nat, NEW m \in Nat,
           NEW S \in SUBSET Nat, NEW O \in SUBSET Nat, NEW SS \in SUBSET Nat, NEW OO \in SUBSET Nat,
           After(S, a), After(SS, a + m), Moved(S, SS, a, m), Moved(O, OO, a, m),
           NEW c \in Nat
    PROVE  /\ SeenSlice(S, O, c) => c > a
           /\ SeenSlice(SS, OO, c) => c > a + m
           /\ c > a => (SeenSlice(S, O, c) <=> SeenSlice(SS, OO, c + m))
<1>1. SeenSlice(S, O, c) => c > a
  BY DEF SeenSlice, After
<1>2. SeenSlice(SS, OO, c) => c > a + m
  <2>. SUFFICES ASSUME SeenSlice(SS, OO, c) PROVE c > a + m
    OBVIOUS
  <2>1. PICK s \in SS : s < c
    BY DEF SeenSlice
  <2>2. s > a + m /\ s \in Nat
    BY <2>1 DEF After
  <2>. QED  BY <2>1, <2>2
<1>3. ASSUME c > a, SeenSlice(S, O, c) PROVE SeenSlice(SS, OO, c + m)
  <2>1. PICK s \in S : s < c /\ \A o \in O : ~(s < o /\ o < c)
    BY <1>3 DEF SeenSlice
  <2>2. s \in Nat /\ s > a
    BY <2>1 DEF After
  <2>3. s + m \in SS /\ s + m < c + m
    BY <2>1, <2>2 DEF Moved
  <2>4. ASSUME NEW o \in OO, s + m < o, o < c + m PROVE FALSE
    <3>1. o - m \in Nat /\ o - m > a /\ (o - m) + m = o /\ s < o - m /\ o - m < c
      BY <2>2, <2>4
    <3>2. o - m \in O
      BY <3>1 DEF Moved
    <3>. QED  BY <2>1, <3>1, <3>2
  <2>. QED  BY <2>3, <2>4 DEF SeenSlice
<1>4. ASSUME c > a, SeenSlice(SS, OO, c + m) PROVE SeenSlice(S, O, c)
  <2>1. PICK t \in SS : t < c + m /\ \A o \in OO : ~(t < o /\ o < c + m)
    BY <1>4 DEF SeenSlice
  <2>. DEFINE s == t - m
  <2>2. t > a + m /\ t \in Nat
    BY <2>1 DEF After
  <2>3. s \in Nat /\ s > a /\ s + m = t /\ s < c
    BY <2>1, <2>2
  <2>. HIDE DEF s
  <2>4. s \in S
    BY <2>1, <2>3 DEF Moved
  <2>5. ASSUME NEW o \in O, s < o, o < c PROVE FALSE
    <3>1. o \in Nat /\ o > a /\ t < o + m /\ o + m < c + m
      BY <2>2, <2>3, <2>5
    <3>2. o + m \in OO
      BY <3>1 DEF Moved
    <3>. QED  BY <2>1, <3>1, <3>2
  <2>. QED  BY <2>3, <2>4, <2>5 DEF SeenSlice
<1>. QED  BY <1>1, <1>2, <1>3, <1>4

\* The first of what is in a set, and those behind a beginning of it, moved.
LEMMA FlagsMoved ==
    ASSUME NEW a \in Nat, NEW m \in Nat,
           NEW X \in SUBSET Nat, IsFiniteSet(X), X # {}, NEW S \in SUBSET X, NEW O \in SUBSET X,
           NEW XX \in SUBSET Nat, XX # {}, NEW SS \in SUBSET XX, NEW OO \in SUBSET XX,
           NEW K \in SUBSET S, NEW KK \in SUBSET SS,
           After(S, a), After(SS, a + m),
           Moved(S, SS, a, m), Moved(O, OO, a, m), Moved(K, KK, a, m)
    PROVE  FlagsOn(Ascending(Bounds(X, S, O)), K) = FlagsOn(Ascending(Bounds(XX, SS, OO)), KK)
<1>. DEFINE B == Bounds(X, S, O)
            BB == Bounds(XX, SS, OO)
<1>0. /\ S \in SUBSET Nat /\ O \in SUBSET Nat /\ SS \in SUBSET Nat /\ OO \in SUBSET Nat
      /\ K \in SUBSET Nat /\ KK \in SUBSET Nat
  OBVIOUS
<1>1. PICK t \in X : \A d \in X : t <= d
  BY MinExists
<1>2. PICK tt \in XX : \A d \in XX : tt <= d
  BY MinExists
<1>3. t \in Nat /\ tt \in Nat
  OBVIOUS
<1>. DEFINE In(c)  == c \in O /\ SeenSlice(S, O, c)
            InN(c) == c \in OO /\ SeenSlice(SS, OO, c)
<1>4. \A c : c \in B <=> c = t \/ In(c)
  <2>1. \A c : (c \in X /\ \A d \in X : c <= d) <=> c = t
    <3>1. ASSUME NEW c \in X, \A d \in X : c <= d PROVE c = t
      <4>1. c <= t /\ t <= c /\ c \in Nat
        BY <1>1, <3>1
      <4>. QED  BY <1>3, <4>1
    <3>. QED  BY <1>1, <3>1
  <2>. QED  BY <2>1 DEF Bounds
<1>5. \A c : c \in BB <=> c = tt \/ InN(c)
  <2>1. \A c : (c \in XX /\ \A d \in XX : c <= d) <=> c = tt
    <3>1. ASSUME NEW c \in XX, \A d \in XX : c <= d PROVE c = tt
      <4>1. c <= tt /\ tt <= c /\ c \in Nat
        BY <1>2, <3>1
      <4>. QED  BY <1>3, <4>1
    <3>. QED  BY <1>2, <3>1
  <2>. QED  BY <2>1 DEF Bounds
<1>6. ASSUME NEW c, In(c) PROVE c \in Nat /\ c > a /\ t < c /\ InN(c + m)
  <2>1. c \in Nat
    BY <1>0, <1>6
  <2>2. c > a /\ SeenSlice(SS, OO, c + m)
    BY <1>0, <1>6, <2>1, SeenMoved
  <2>3. c + m \in OO
    BY <1>6, <2>1, <2>2 DEF Moved
  <2>4. t < c
    <3>1. PICK s \in S : s < c
      BY <1>6 DEF SeenSlice
    <3>2. s \in X /\ s \in Nat
      BY <1>0, <3>1
    <3>3. t <= s
      BY <1>1, <3>2
    <3>. QED  BY <1>3, <2>1, <3>1, <3>2, <3>3
  <2>. QED  BY <2>1, <2>2, <2>3, <2>4
<1>7. ASSUME NEW e, InN(e) PROVE e \in Nat /\ e - m \in Nat /\ tt < e /\ In(e - m)
  <2>1. e \in Nat
    BY <1>0, <1>7
  <2>2. e > a + m
    BY <1>0, <1>7, <2>1, SeenMoved
  <2>3. e - m \in Nat /\ e - m > a /\ (e - m) + m = e
    BY <2>1, <2>2
  <2>. DEFINE c == e - m
  <2>. HIDE DEF c
  <2>4. c \in Nat /\ c > a /\ c + m = e
    BY <2>3 DEF c
  <2>5. SeenSlice(S, O, c)
    BY <1>0, <1>7, <2>4, SeenMoved
  <2>6. c \in O
    BY <1>7, <2>4 DEF Moved
  <2>7. tt < e
    <3>1. PICK s \in SS : s < e
      BY <1>7 DEF SeenSlice
    <3>2. s \in XX /\ s \in Nat
      BY <1>0, <3>1
    <3>3. tt <= s
      BY <1>2, <3>2
    <3>. QED  BY <1>3, <2>1, <3>1, <3>2, <3>3
  <2>. QED  BY <2>1, <2>4, <2>5, <2>6, <2>7 DEF c
<1>8. B \in SUBSET Nat /\ BB \in SUBSET Nat /\ IsFiniteSet(B)
  <2>1. B \subseteq X
    BY <1>4
  <2>2. BB \subseteq XX
    BY <1>5
  <2>. QED  BY <2>1, <2>2, FS_Subset
<1>. HIDE DEF B, BB, In, InN
<1>. DEFINE to(c) == IF c = t THEN tt ELSE c + m
            g == [c \in B |-> to(c)]
            h == [j \in K |-> j + m]
<1>9. g \in [B -> BB]
  <2>1. \A c \in B : to(c) \in BB
    BY <1>4, <1>5, <1>6
  <2>. QED  BY <2>1
<1>10. h \in [K -> KK]
  <2>1. ASSUME NEW j \in K PROVE j + m \in KK
    <3>1. j \in Nat /\ j > a
      BY <1>0 DEF After
    <3>. QED  BY <3>1 DEF Moved
  <2>. QED  BY <2>1
<1>11. \A x, y \in B : x < y => g[x] < g[y]
  <2>1. ASSUME NEW x \in B, NEW y \in B, x < y PROVE to(x) < to(y)
    <3>1. y # t
      <4>1. x = t \/ t < x
        BY <1>4, <1>6
      <4>2. x \in Nat /\ y \in Nat
        BY <1>8
      <4>. QED  BY <1>3, <2>1, <4>1, <4>2
    <3>2. In(y) /\ y \in Nat
      BY <1>4, <1>6, <3>1
    <3>3. InN(y + m)
      BY <1>6, <3>2
    <3>4. tt < y + m
      BY <1>7, <3>3
    <3>5. x \in Nat
      BY <1>8
    <3>. QED  BY <2>1, <3>1, <3>2, <3>4, <3>5
  <2>. QED  BY <2>1
<1>12. \A e \in BB : \E c \in B : g[c] = e
  <2>1. ASSUME NEW e \in BB PROVE \E c \in B : to(c) = e
    <3>1. CASE e = tt
      <4>1. t \in B /\ to(t) = tt
        BY <1>4
      <4>. QED  BY <3>1, <4>1
    <3>2. CASE InN(e)
      <4>1. In(e - m) /\ e - m \in Nat /\ e \in Nat
        BY <1>7, <3>2
      <4>2. e - m \in B /\ t < e - m
        BY <1>4, <1>6, <4>1
      <4>3. to(e - m) = e
        BY <1>3, <4>1, <4>2
      <4>. QED  BY <4>2, <4>3
    <3>. QED  BY <1>5, <3>1, <3>2
  <2>. QED  BY <2>1
<1>13. \A l \in KK : \E j \in K : h[j] = l
  <2>1. ASSUME NEW l \in KK PROVE l - m \in K /\ (l - m) + m = l
    <3>1. l \in Nat /\ l > a + m
      BY <1>0 DEF After
    <3>2. l - m \in Nat /\ l - m > a /\ (l - m) + m = l
      BY <3>1
    <3>. QED  BY <3>2 DEF Moved
  <2>. QED  BY <2>1
<1>14. \A x \in B, j \in K : x <= j <=> g[x] <= h[j]
  <2>1. ASSUME NEW x \in B, NEW j \in K PROVE x <= j <=> to(x) <= j + m
    <3>1. j \in X /\ j \in Nat /\ j + m \in KK
      BY <1>0, <1>10
    <3>2. t <= j
      BY <1>1, <3>1
    <3>3. tt <= j + m
      BY <1>2, <3>1
    <3>4. x \in Nat
      BY <1>8
    <3>. QED  BY <3>1, <3>2, <3>3, <3>4
  <2>. QED  BY <2>1
<1>. HIDE DEF g, h, to
<1>15. K \in SUBSET Nat /\ KK \in SUBSET Nat
  BY <1>0
<1>16. FlagsOn(Ascending(B), K) = FlagsOn(Ascending(BB), KK)
  BY <1>8, <1>9, <1>10, <1>11, <1>12, <1>13, <1>14, <1>15, FlagsAlike
<1>. QED  BY <1>16, Zenon DEF B, BB

\* The same of a list of NAL units, by their numbers.
TypedAt(n)   == {k \in 1..Len(n) : NalType(n[k]) # NoType}
SlicesAt(n)  == {k \in TypedAt(n) : IsVcl(n[k])}
OpenersAt(n) == {k \in TypedAt(n) : Opens(n[k])}
KeysAt(n)    == {k \in SlicesAt(n) : IsKeyframeType(NalType(n[k]))}
BoundsAt(n)  == Bounds(TypedAt(n), SlicesAt(n), OpenersAt(n))
NalFlags(n)  == FlagsOn(Ascending(BoundsAt(n)), KeysAt(n))

LEMMA NalFlagsIs ==
    ASSUME NEW b \in Seq(Byte)
    PROVE  [k \in 1..Len(AccessUnits(b)) |-> AccessUnits(b)[k].keyframe] = NalFlags(SplitNals(b))
<1>. DEFINE c == Ascending(StartCodes(b))
            n == SplitNals(b)
            N == Len(c)
<1>1. /\ N \in Nat /\ Len(n) = N
      /\ \A k \in 1..N : n[k] = NalBytes(b, c[k])
  BY SplitNalsIs
<1>2. /\ \A i \in 1..N : c[i] \in StartCodes(b) /\ c[i] \in Nat
      /\ \A i, j \in 1..N : i < j => c[i] < c[j]
      /\ \A p \in StartCodes(b) : \E i \in 1..N : c[i] = p
  BY CodesInOrder
<1>. HIDE DEF c, n, N
<1>3. \A i, j \in 1..N : c[i] < c[j] <=> i < j
  <2>1. ASSUME NEW i \in 1..N, NEW j \in 1..N, c[i] < c[j], ~(i < j) PROVE FALSE
    <3>1. i = j \/ j < i
      BY <1>1, <2>1
    <3>2. c[i] \in Nat /\ c[j] \in Nat
      BY <1>2
    <3>3. i = j => c[i] = c[j]
      OBVIOUS
    <3>4. j < i => c[j] < c[i]
      BY <1>2
    <3>. QED  BY <2>1, <3>1, <3>2, <3>3, <3>4
  <2>. QED  BY <1>2, <2>1
<1>4. \A i, j \in 1..N : c[i] <= c[j] <=> i <= j
  <2>1. ASSUME NEW i \in 1..N, NEW j \in 1..N PROVE c[i] <= c[j] <=> i <= j
    <3>1. c[i] \in Nat /\ c[j] \in Nat /\ i \in Nat /\ j \in Nat
      BY <1>1, <1>2
    <3>2. c[j] < c[i] <=> j < i
      BY <1>3
    <3>. QED  BY <3>1, <3>2
  <2>. QED  BY <2>1
<1>5. \A k \in 1..N : /\ k \in TypedAt(n) <=> c[k] \in Typed(b)
                      /\ k \in SlicesAt(n) <=> c[k] \in Slices(b)
                      /\ k \in OpenersAt(n) <=> c[k] \in Openers(b)
                      /\ k \in KeysAt(n) <=> c[k] \in KeyCodes(b)
  <2>1. ASSUME NEW k \in 1..N
        PROVE  /\ k \in TypedAt(n) <=> c[k] \in Typed(b)
               /\ k \in SlicesAt(n) <=> c[k] \in Slices(b)
               /\ k \in OpenersAt(n) <=> c[k] \in Openers(b)
               /\ k \in KeysAt(n) <=> c[k] \in KeyCodes(b)
    <3>1. n[k] = NalBytes(b, c[k]) /\ c[k] \in StartCodes(b) /\ k \in 1..Len(n)
      BY <1>1, <1>2
    <3>2. IsVcl(n[k]) => NalType(n[k]) # NoType
      BY SliceHasType
    <3>3. k \in TypedAt(n) <=> c[k] \in Typed(b)
      BY <3>1 DEF TypedAt, Typed
    <3>4. k \in SlicesAt(n) <=> c[k] \in Slices(b)
      BY <3>1, <3>3 DEF SlicesAt, Slices
    <3>5. k \in OpenersAt(n) <=> c[k] \in Openers(b)
      BY <3>1, <3>3 DEF OpenersAt, Openers
    <3>6. k \in KeysAt(n) <=> c[k] \in KeyCodes(b)
      BY <3>1, <3>2, <3>3, <3>4 DEF KeysAt, KeyCodes, SlicesAt, TypedAt
    <3>. QED  BY <3>3, <3>4, <3>5, <3>6
  <2>. QED  BY <2>1
<1>6. /\ Typed(b) \subseteq StartCodes(b) /\ Slices(b) \subseteq StartCodes(b)
      /\ Openers(b) \subseteq StartCodes(b) /\ KeyCodes(b) \subseteq StartCodes(b)
      /\ StartCodes(b) \in SUBSET Nat /\ Boundaries(b) \subseteq StartCodes(b)
  BY CodesAre, BoundaryIsTyped DEF Typed, Slices, Openers, KeyCodes
<1>7. /\ TypedAt(n) \subseteq 1..N /\ SlicesAt(n) \subseteq 1..N /\ OpenersAt(n) \subseteq 1..N
      /\ KeysAt(n) \subseteq 1..N /\ BoundsAt(n) \subseteq 1..N
  BY <1>1 DEF TypedAt, SlicesAt, OpenersAt, KeysAt, BoundsAt, Bounds
<1>8. \A k \in 1..N : SeenSlice(SlicesAt(n), OpenersAt(n), k) <=> SeenSlice(Slices(b), Openers(b), c[k])
  <2>1. ASSUME NEW k \in 1..N, SeenSlice(SlicesAt(n), OpenersAt(n), k)
        PROVE  SeenSlice(Slices(b), Openers(b), c[k])
    <3>1. PICK s \in SlicesAt(n) : s < k /\ \A o \in OpenersAt(n) : ~(s < o /\ o < k)
      BY <2>1 DEF SeenSlice
    <3>2. s \in 1..N /\ c[s] \in Slices(b) /\ c[s] < c[k]
      BY <1>3, <1>5, <1>7, <3>1
    <3>3. ASSUME NEW p \in Openers(b), c[s] < p, p < c[k] PROVE FALSE
      <4>1. PICK o \in 1..N : c[o] = p
        BY <1>2, <1>6
      <4>2. o \in OpenersAt(n) /\ s < o /\ o < k
        BY <1>3, <1>5, <3>2, <3>3, <4>1
      <4>. QED  BY <3>1, <4>2
    <3>. QED  BY <3>2, <3>3 DEF SeenSlice
  <2>2. ASSUME NEW k \in 1..N, SeenSlice(Slices(b), Openers(b), c[k])
        PROVE  SeenSlice(SlicesAt(n), OpenersAt(n), k)
    <3>1. PICK p \in Slices(b) : p < c[k] /\ \A o \in Openers(b) : ~(p < o /\ o < c[k])
      BY <2>2 DEF SeenSlice
    <3>2. PICK s \in 1..N : c[s] = p
      BY <1>2, <1>6
    <3>3. s \in SlicesAt(n) /\ s < k
      BY <1>3, <1>5, <3>1, <3>2
    <3>4. ASSUME NEW o \in OpenersAt(n), s < o, o < k PROVE FALSE
      <4>1. o \in 1..N
        BY <1>7
      <4>2. c[o] \in Openers(b) /\ p < c[o] /\ c[o] < c[k]
        BY <1>3, <1>5, <3>2, <3>4, <4>1
      <4>. QED  BY <3>1, <4>2
    <3>. QED  BY <3>3, <3>4 DEF SeenSlice
  <2>. QED  BY <2>1, <2>2
<1>9. \A k \in 1..N : k \in BoundsAt(n) <=> c[k] \in Boundaries(b)
  <2>1. ASSUME NEW k \in 1..N PROVE k \in BoundsAt(n) <=> c[k] \in Boundaries(b)
    <3>1. (\A d \in TypedAt(n) : k <= d) <=> (\A d \in Typed(b) : c[k] <= d)
      <4>1. ASSUME \A d \in TypedAt(n) : k <= d, NEW d \in Typed(b) PROVE c[k] <= d
        <5>1. PICK i \in 1..N : c[i] = d
          BY <1>2, <1>6
        <5>. QED  BY <1>4, <1>5, <4>1, <5>1
      <4>2. ASSUME \A d \in Typed(b) : c[k] <= d, NEW d \in TypedAt(n) PROVE k <= d
        <5>1. d \in 1..N
          BY <1>7
        <5>. QED  BY <1>4, <1>5, <4>2, <5>1
      <4>. QED  BY <4>1, <4>2
    <3>. QED  BY <1>5, <1>8, <3>1, BoundaryDef DEF BoundsAt, Bounds
  <2>. QED  BY <2>1
<1>. DEFINE S == BoundsAt(n)
            T == Boundaries(b)
            K == KeysAt(n)
            L == KeyCodes(b)
            g == [k \in S |-> c[k]]
            h == [k \in K |-> c[k]]
<1>10. S \in SUBSET Nat /\ IsFiniteSet(S) /\ T \in SUBSET Nat /\ K \in SUBSET Nat /\ L \in SUBSET Nat
  <2>1. IsFiniteSet(1..N)
    BY <1>1, FS_Interval
  <2>2. 1..N \subseteq Nat
    BY <1>1
  <2>3. S \subseteq 1..N /\ K \subseteq 1..N
    BY <1>7
  <2>4. IsFiniteSet(S)
    BY <2>1, <2>3, FS_Subset
  <2>. QED  BY <1>6, <2>2, <2>3, <2>4
<1>11. g \in [S -> T] /\ h \in [K -> L]
  BY <1>5, <1>7, <1>9
<1>12. \A x, y \in S : x < y => g[x] < g[y]
  BY <1>3, <1>7
<1>13. \A t \in T : \E x \in S : g[x] = t
  <2>1. ASSUME NEW t \in T PROVE \E x \in S : c[x] = t
    <3>1. PICK i \in 1..N : c[i] = t
      BY <1>2, <1>6
    <3>. QED  BY <1>9, <3>1
  <2>. QED  BY <2>1
<1>14. \A l \in L : \E j \in K : h[j] = l
  <2>1. ASSUME NEW l \in L PROVE \E j \in K : c[j] = l
    <3>1. PICK i \in 1..N : c[i] = l
      BY <1>2, <1>6
    <3>. QED  BY <1>5, <3>1
  <2>. QED  BY <2>1
<1>15. \A x \in S, j \in K : x <= j <=> g[x] <= h[j]
  BY <1>4, <1>7
<1>. HIDE DEF S, T, K, L, g, h
<1>16. FlagsOn(Ascending(S), K) = FlagsOn(Ascending(T), L)
  BY <1>10, <1>11, <1>12, <1>13, <1>14, <1>15, FlagsAlike
<1>17. NalFlags(n) = FlagsOn(Ascending(T), L)
  BY <1>16, Zenon DEF NalFlags, S, K
<1>. QED  BY <1>17, CodesFlags, Zenon DEF T, L, n

\* Units without a slice, put before the first slice of a list.
LEMMA ListMoved ==
    ASSUME NEW T, NEW u \in Seq(T), NEW n \in Seq(T), NEW v \in Seq(T)
    PROVE  LET z == u \o v
               w == u \o n \o v
           IN  /\ Len(u) \in Nat /\ Len(n) \in Nat /\ Len(v) \in Nat
               /\ Len(z) = Len(u) + Len(v) /\ Len(w) = (Len(u) + Len(n)) + Len(v)
               /\ \A k \in 1..Len(u) : z[k] = u[k] /\ w[k] = u[k]
               /\ \A k \in 1..Len(n) : w[Len(u) + k] = n[k]
               /\ \A k \in 1..Len(v) : z[Len(u) + k] = v[k] /\ w[(Len(u) + Len(n)) + k] = v[k]
<1>. DEFINE z == u \o v
            un == u \o n
            w == un \o v
<1>1. un \in Seq(T)
  BY ConcatProperties
<1>. HIDE DEF un
<1>2. z = u \o v => /\ Len(u) \in Nat /\ Len(v) \in Nat /\ Len(z) = Len(u) + Len(v)
                    /\ \A k \in 1..Len(u) : z[k] = u[k]
                    /\ \A k \in 1..Len(v) : z[Len(u) + k] = v[k]
  <2>. HIDE DEF z
  <2>. QED  BY TwoParts
<1>3. un = u \o n => /\ Len(u) \in Nat /\ Len(n) \in Nat /\ Len(un) = Len(u) + Len(n)
                     /\ \A k \in 1..Len(u) : un[k] = u[k]
                     /\ \A k \in 1..Len(n) : un[Len(u) + k] = n[k]
  BY TwoParts
<1>4. w = un \o v => /\ Len(w) = Len(un) + Len(v)
                     /\ \A k \in 1..Len(un) : w[k] = un[k]
                     /\ \A k \in 1..Len(v) : w[Len(un) + k] = v[k]
  <2>. HIDE DEF w
  <2>. QED  BY <1>1, TwoParts
<1>5. un = u \o n /\ z = u \o v /\ w = un \o v
  BY DEF un
<1>. HIDE DEF z, w
<1>6. \A k \in 1..Len(u) : w[k] = u[k]
  <2>1. \A k \in 1..Len(u) : k \in 1..Len(un)
    BY <1>3, <1>5
  <2>. QED  BY <1>3, <1>4, <1>5, <2>1
<1>7. \A k \in 1..Len(n) : w[Len(u) + k] = n[k]
  <2>1. \A k \in 1..Len(n) : Len(u) + k \in 1..Len(un)
    BY <1>3, <1>5
  <2>. QED  BY <1>3, <1>4, <1>5, <2>1
<1>8. /\ Len(u) \in Nat /\ Len(n) \in Nat /\ Len(v) \in Nat
      /\ Len(z) = Len(u) + Len(v) /\ Len(w) = (Len(u) + Len(n)) + Len(v)
      /\ \A k \in 1..Len(u) : z[k] = u[k] /\ w[k] = u[k]
      /\ \A k \in 1..Len(n) : w[Len(u) + k] = n[k]
      /\ \A k \in 1..Len(v) : z[Len(u) + k] = v[k] /\ w[(Len(u) + Len(n)) + k] = v[k]
  BY <1>2, <1>3, <1>4, <1>5, <1>6, <1>7, Zenon
<1>. QED  BY <1>8, Zenon DEF z, w, un

LEMMA NalFlagsKept ==
    ASSUME NEW T, NEW u \in Seq(T), NEW n \in Seq(T), NEW v \in Seq(T),
           \A k \in 1..Len(u) : ~IsVcl(u[k]), \A k \in 1..Len(n) : ~IsVcl(n[k]),
           NalFlags(u \o v) # << >>
    PROVE  NalFlags(u \o n \o v) = NalFlags(u \o v)
<1>. DEFINE z == u \o v
            w == u \o n \o v
            a == Len(u)
            m == Len(n)
<1>1. /\ a \in Nat /\ m \in Nat /\ Len(v) \in Nat
      /\ Len(z) = a + Len(v) /\ Len(w) = (a + m) + Len(v)
      /\ \A k \in 1..a : z[k] = u[k] /\ w[k] = u[k]
      /\ \A k \in 1..m : w[a + k] = n[k]
      /\ \A k \in 1..Len(v) : z[a + k] = v[k] /\ w[(a + m) + k] = v[k]
  BY ListMoved
<1>2. NalFlags(z) # << >> /\ (\A k \in 1..a : ~IsVcl(u[k])) /\ \A k \in 1..m : ~IsVcl(n[k])
  OBVIOUS
<1>. HIDE DEF z, w, a, m
<1>3. \A k \in Nat : k > a => /\ k \in 1..Len(z) <=> k + m \in 1..Len(w)
                              /\ k \in 1..Len(z) => w[k + m] = z[k]
  <2>1. ASSUME NEW k \in Nat, k > a
        PROVE  /\ k \in 1..Len(z) <=> k + m \in 1..Len(w)
               /\ k \in 1..Len(z) => w[k + m] = z[k]
    <3>1. k \in 1..Len(z) <=> k + m \in 1..Len(w)
      BY <1>1, <2>1
    <3>2. ASSUME k \in 1..Len(z) PROVE w[k + m] = z[k]
      <4>. DEFINE i == k - a
      <4>1. i \in 1..Len(v) /\ a + i = k /\ (a + m) + i = k + m
        BY <1>1, <2>1, <3>2
      <4>. HIDE DEF i
      <4>. QED  BY <1>1, <4>1
    <3>. QED  BY <3>1, <3>2
  <2>. QED  BY <2>1
<1>4. ASSUME NEW k \in 1..Len(z), k <= a PROVE ~IsVcl(z[k]) /\ k \in 1..Len(w) /\ w[k] = z[k]
  <2>1. k \in 1..a
    BY <1>1, <1>4
  <2>. QED  BY <1>1, <1>2, <2>1
<1>5. ASSUME NEW k \in 1..Len(w), k <= a + m PROVE ~IsVcl(w[k])
  <2>1. CASE k <= a
    <3>1. k \in 1..a
      BY <1>1, <2>1
    <3>. QED  BY <1>1, <1>2, <3>1
  <2>2. CASE a < k
    <3>. DEFINE i == k - a
    <3>1. i \in 1..m /\ a + i = k
      BY <1>1, <1>5, <2>2
    <3>. HIDE DEF i
    <3>. QED  BY <1>1, <1>2, <3>1
  <2>. QED  BY <1>1, <2>1, <2>2
<1>6. /\ Moved(TypedAt(z), TypedAt(w), a, m) /\ Moved(SlicesAt(z), SlicesAt(w), a, m)
      /\ Moved(OpenersAt(z), OpenersAt(w), a, m) /\ Moved(KeysAt(z), KeysAt(w), a, m)
  <2>1. ASSUME NEW k \in Nat, k > a
        PROVE  /\ k \in TypedAt(z) <=> k + m \in TypedAt(w)
               /\ k \in SlicesAt(z) <=> k + m \in SlicesAt(w)
               /\ k \in OpenersAt(z) <=> k + m \in OpenersAt(w)
               /\ k \in KeysAt(z) <=> k + m \in KeysAt(w)
    <3>1. /\ k \in 1..Len(z) <=> k + m \in 1..Len(w)
          /\ k \in 1..Len(z) => w[k + m] = z[k]
      BY <1>3, <2>1
    <3>2. k \in TypedAt(z) <=> k + m \in TypedAt(w)
      BY <3>1 DEF TypedAt
    <3>3. k \in TypedAt(z) => w[k + m] = z[k]
      BY <3>1 DEF TypedAt
    <3>4. k \in SlicesAt(z) <=> k + m \in SlicesAt(w)
      BY <3>2, <3>3 DEF SlicesAt
    <3>5. k \in OpenersAt(z) <=> k + m \in OpenersAt(w)
      BY <3>2, <3>3 DEF OpenersAt
    <3>6. k \in SlicesAt(z) => w[k + m] = z[k]
      BY <3>3 DEF SlicesAt
    <3>7. k \in KeysAt(z) <=> k + m \in KeysAt(w)
      BY <3>4, <3>6 DEF KeysAt
    <3>. QED  BY <3>2, <3>4, <3>5, <3>7
  <2>. QED  BY <2>1 DEF Moved
<1>7. After(SlicesAt(z), a)
  <2>1. ASSUME NEW k \in SlicesAt(z) PROVE k > a
    <3>1. k \in 1..Len(z) /\ IsVcl(z[k])
      BY DEF SlicesAt, TypedAt
    <3>2. ~(k <= a)
      BY <1>4, <3>1
    <3>. QED  BY <1>1, <3>1, <3>2
  <2>. QED  BY <2>1 DEF After
<1>8. After(SlicesAt(w), a + m)
  <2>1. ASSUME NEW k \in SlicesAt(w) PROVE k > a + m
    <3>1. k \in 1..Len(w) /\ IsVcl(w[k])
      BY DEF SlicesAt, TypedAt
    <3>2. ~(k <= a + m)
      BY <1>5, <3>1
    <3>. QED  BY <1>1, <3>1, <3>2
  <2>. QED  BY <2>1 DEF After
<1>9. /\ TypedAt(z) \in SUBSET Nat /\ IsFiniteSet(TypedAt(z))
      /\ TypedAt(w) \in SUBSET Nat
      /\ SlicesAt(z) \in SUBSET TypedAt(z) /\ OpenersAt(z) \in SUBSET TypedAt(z)
      /\ SlicesAt(w) \in SUBSET TypedAt(w) /\ OpenersAt(w) \in SUBSET TypedAt(w)
      /\ KeysAt(z) \in SUBSET SlicesAt(z) /\ KeysAt(w) \in SUBSET SlicesAt(w)
  <2>1. Len(z) \in Nat /\ Len(w) \in Nat
    BY <1>1
  <2>2. IsFiniteSet(1..Len(z))
    BY <2>1, FS_Interval
  <2>3. TypedAt(z) \subseteq 1..Len(z) /\ TypedAt(w) \subseteq 1..Len(w)
    BY DEF TypedAt
  <2>4. IsFiniteSet(TypedAt(z))
    BY <2>2, <2>3, FS_Subset
  <2>. QED  BY <2>1, <2>3, <2>4 DEF SlicesAt, OpenersAt, KeysAt
<1>10. TypedAt(z) # {}
  <2>1. SUFFICES ASSUME TypedAt(z) = {} PROVE FALSE
    OBVIOUS
  <2>2. BoundsAt(z) = {}
    BY <1>9, <2>1 DEF BoundsAt, Bounds
  <2>3. BoundsAt(z) \in SUBSET Nat /\ IsFiniteSet(BoundsAt(z))
    BY <1>9, <2>1, <2>2
  <2>4. NalFlags(z) = << >>
    BY <2>2, <2>3, FlagsOfNone DEF NalFlags
  <2>. QED  BY <1>2, <2>4
<1>11. TypedAt(w) # {}
  <2>1. PICK k \in TypedAt(z) : TRUE
    BY <1>10
  <2>2. k \in 1..Len(z) /\ NalType(z[k]) # NoType /\ k \in Nat
    BY <1>9 DEF TypedAt
  <2>3. CASE k <= a
    <3>1. k \in 1..Len(w) /\ w[k] = z[k]
      BY <1>4, <2>2, <2>3
    <3>. QED  BY <2>2, <3>1 DEF TypedAt
  <2>4. CASE k > a
    BY <1>6, <2>1, <2>2, <2>4 DEF Moved
  <2>. QED  BY <1>1, <2>2, <2>3, <2>4
<1>12. FlagsOn(Ascending(Bounds(TypedAt(z), SlicesAt(z), OpenersAt(z))), KeysAt(z))
         = FlagsOn(Ascending(Bounds(TypedAt(w), SlicesAt(w), OpenersAt(w))), KeysAt(w))
  <2>1. a \in Nat /\ m \in Nat
    BY <1>1
  <2>. QED  BY <2>1, <1>6, <1>7, <1>8, <1>9, <1>10, <1>11, FlagsMoved
<1>13. NalFlags(z) = NalFlags(w)
  BY <1>12, Zenon DEF NalFlags, BoundsAt
<1>. QED  BY <1>13, Zenon DEF z, w

\* Temporal units the same way: D and H are where they begin and where the sequence
\* headers stand, E and I where they do with m bytes more at a. The first begins at
\* the first byte, the others behind a.
Shifted(D, E, H, I, a, m) ==
    /\ \A k \in D : k # 0 => k >= a /\ k + m \in E
    /\ \A e \in E : e # 0 => e >= m /\ e - m \in D /\ e - m # 0
    /\ \A j \in H : (j < a => j \in I) /\ (~(j < a) => j + m \in I)
    /\ \A i \in I : (i < a /\ i \in H) \/ (i >= a + m /\ i - m \in H)

LEMMA FlagsShifted ==
    ASSUME NEW a \in Nat, NEW m \in Nat,
           NEW D \in SUBSET Nat, IsFiniteSet(D), 0 \in D, NEW E \in SUBSET Nat, 0 \in E,
           NEW H \in SUBSET Nat, NEW I \in SUBSET Nat, Shifted(D, E, H, I, a, m)
    PROVE  FlagsOn(Ascending(D), H) = FlagsOn(Ascending(E), I)
<1>0. /\ \A k \in D : k # 0 => k >= a /\ k + m \in E
      /\ \A e \in E : e # 0 => e >= m /\ e - m \in D /\ e - m # 0
      /\ \A j \in H : (j < a => j \in I) /\ (~(j < a) => j + m \in I)
      /\ \A i \in I : (i < a /\ i \in H) \/ (i >= a + m /\ i - m \in H)
  BY Zenon DEF Shifted
<1>. DEFINE to(k)   == IF k = 0 THEN 0 ELSE k + m
            past(j) == IF j < a THEN j ELSE j + m
            g == [k \in D |-> to(k)]
            h == [j \in H |-> past(j)]
<1>1. g \in [D -> E]
  <2>1. \A k \in D : to(k) \in E
    BY <1>0
  <2>. QED  BY <2>1
<1>2. h \in [H -> I]
  <2>1. \A j \in H : past(j) \in I
    BY <1>0
  <2>. QED  BY <2>1
<1>3. \A x, y \in D : x < y => g[x] < g[y]
  <2>1. ASSUME NEW x \in D, NEW y \in D, x < y PROVE to(x) < to(y)
    <3>1. x \in Nat /\ y \in Nat
      OBVIOUS
    <3>. QED  BY <2>1, <3>1
  <2>. QED  BY <2>1
<1>4. \A e \in E : \E k \in D : g[k] = e
  <2>1. ASSUME NEW e \in E PROVE \E k \in D : to(k) = e
    <3>1. CASE e = 0
      <4>1. 0 \in D /\ to(0) = e
        BY <3>1
      <4>. QED  BY <4>1
    <3>2. CASE e # 0
      <4>1. e - m \in D /\ e - m # 0 /\ e \in Nat
        BY <1>0, <3>2
      <4>2. to(e - m) = e
        BY <4>1
      <4>. QED  BY <4>1, <4>2
    <3>. QED  BY <3>1, <3>2
  <2>. QED  BY <2>1
<1>5. \A i \in I : \E j \in H : h[j] = i
  <2>1. ASSUME NEW i \in I PROVE \E j \in H : past(j) = i
    <3>0. i \in Nat
      OBVIOUS
    <3>1. CASE i < a /\ i \in H
      BY <3>1
    <3>2. CASE i >= a + m /\ i - m \in H
      <4>1. past(i - m) = i
        BY <3>0, <3>2
      <4>. QED  BY <3>2, <4>1
    <3>. QED  BY <1>0, <3>1, <3>2
  <2>. QED  BY <2>1
<1>6. \A x \in D, j \in H : x <= j <=> g[x] <= h[j]
  <2>1. ASSUME NEW x \in D, NEW j \in H PROVE x <= j <=> to(x) <= past(j)
    <3>1. x \in Nat /\ j \in Nat /\ (x = 0 \/ x >= a)
      BY <1>0
    <3>. QED  BY <3>1
  <2>. QED  BY <2>1
<1>. HIDE DEF g, h
<1>7. IsFiniteSet(D) /\ D \in SUBSET Nat /\ E \in SUBSET Nat /\ H \in SUBSET Nat /\ I \in SUBSET Nat
  OBVIOUS
<1>. QED  BY <1>1, <1>2, <1>3, <1>4, <1>5, <1>6, <1>7, FlagsAlike

\* The sequence headers of a packet.
Headers(b) == {at \in ObuStarts(b) : ObuAt(b, at).kind = OBU_SEQUENCE_HEADER}

LEMMA DelimitersAre ==
    ASSUME NEW b \in Seq(Byte), ~ScanFails(b)
    PROVE  /\ Delimiters(b) \in SUBSET Nat /\ IsFiniteSet(Delimiters(b))
           /\ Headers(b) \in SUBSET Nat
           /\ b # << >> => 0 \in Delimiters(b)
           /\ b = << >> => Delimiters(b) = {}
<1>1. ObuStarts(b) \in SUBSET Nat /\ IsFiniteSet(ObuStarts(b))
  BY ObuListIs
<1>2. Delimiters(b) \subseteq ObuStarts(b) /\ Headers(b) \subseteq ObuStarts(b)
  BY DEF Delimiters, Headers
<1>3. IsFiniteSet(Delimiters(b))
  BY <1>1, <1>2, FS_Subset
<1>4. /\ Len(b) \in Nat /\ ObuStarts(b) \subseteq 0..(Len(b) - 1)
      /\ Len(b) > 0 => 0 \in ObuStarts(b)
  BY ObuStartsAre
<1>5. b # << >> => 0 \in Delimiters(b)
  <2>1. b # << >> => Len(b) > 0
    BY <1>4, EmptySeq
  <2>. QED  BY <1>4, <2>1 DEF Delimiters
<1>6. b = << >> => Delimiters(b) = {}
  <2>1. b = << >> => Len(b) = 0
    OBVIOUS
  <2>. QED  BY <1>2, <1>4, <2>1
<1>. QED  BY <1>1, <1>2, <1>3, <1>5, <1>6

\* The flags of temporal units say whether a sequence header stands between a
\* beginning and the next.
LEMMA TemporalFlags ==
    ASSUME NEW b \in Seq(Byte), ~ScanFails(b)
    PROVE  [k \in 1..Len(TemporalUnits(b)) |-> TemporalUnits(b)[k].has_sequence_header]
               = FlagsOn(Ascending(Delimiters(b)), Headers(b))
<1>. DEFINE d == Ascending(Delimiters(b))
            n == Len(d)
            end(k) == IF k < n THEN d[k + 1] ELSE Len(b)
            own(k) == {at \in ObuStarts(b) : d[k] <= at /\ at < end(k)}
            unit(k) == TemporalUnitOf(b, d[k], end(k), own(k))
            flag(k) == \E j \in Headers(b) : d[k] <= j /\ (k < n => j < d[k + 1])
<1>1. TemporalUnits(b) = [k \in 1..n |-> unit(k)]
  BY DEF TemporalUnits, TemporalUnitsAt, Delimiters
<1>2. n \in Nat
  BY DelimitersAre, AscendingProperties
<1>3. /\ Len(b) \in Nat /\ ObuStarts(b) \subseteq 0..(Len(b) - 1)
  BY ObuStartsAre
<1>4. ASSUME NEW k \in 1..n PROVE unit(k).has_sequence_header <=> flag(k)
  <2>1. unit(k).has_sequence_header = \E at \in own(k) : ObuAt(b, at).kind = OBU_SEQUENCE_HEADER
    BY Zenon DEF TemporalUnitOf
  <2>2. \A at : at \in own(k) <=> /\ at \in ObuStarts(b) /\ d[k] <= at
                                  /\ (k < n => at < d[k + 1])
    <3>1. \A at \in ObuStarts(b) : at < Len(b)
      BY <1>3
    <3>. QED  BY <3>1
  <2>. HIDE DEF own, n, d
  <2>. QED  BY <2>1, <2>2 DEF Headers
<1>5. \A k \in 1..n : unit(k).has_sequence_header \in BOOLEAN
  BY Zenon DEF TemporalUnitOf
<1>6. \A k \in 1..n : unit(k).has_sequence_header = flag(k)
  BY <1>4, <1>5
<1>7. FlagsOn(d, Headers(b)) = [k \in 1..n |-> flag(k)]
  BY Zenon DEF FlagsOn
<1>. HIDE DEF unit, flag, n, d
<1>8. Len(TemporalUnits(b)) = n /\ \A k \in 1..n : TemporalUnits(b)[k] = unit(k)
  BY <1>1, <1>2
<1>9. [k \in 1..Len(TemporalUnits(b)) |-> TemporalUnits(b)[k].has_sequence_header]
          = [k \in 1..n |-> flag(k)]
  BY <1>6, <1>8
<1>. QED  BY <1>7, <1>9, Zenon DEF d

\* OBUs of metadata put between the two parts of a packet.
LEMMA ObuFlagsKept ==
    ASSUME NEW x, NEW f, NEW y, NEW b, NEW w, ObuParts(b, x, y), Closed(f),
           ObuParts(w, x \o f, y), Len(b) <= UsizeMax, Len(w) <= UsizeMax, b # << >>,
           \A q \in ObuStarts(f) : ObuAt(f, q).kind = OBU_METADATA
    PROVE  FlagsOn(Ascending(Delimiters(b)), Headers(b)) = FlagsOn(Ascending(Delimiters(w)), Headers(w))
<1>. DEFINE xf == x \o f
            a == Len(x)
            m == Len(f)
<1>1. /\ Closed(x) /\ y \in Seq(Byte) /\ ~ScanFails(y) /\ b = x \o y
      /\ \A s \in ObuStarts(x) : s # 0 => ObuAt(x, s).kind # OBU_TEMPORAL_DELIMITER
      /\ y # << >> => ObuAt(y, 0).kind \in FRAME_OBUS \/ x # << >>
  BY DEF ObuParts
<1>2. Closed(xf) /\ w = xf \o y
  BY DEF ObuParts
<1>3. /\ x \in Seq(Byte) /\ f \in Seq(Byte) /\ ~ScanFails(f) /\ ~ScanFails(x)
      /\ a \in Nat /\ m \in Nat /\ Len(y) \in Nat
  <2>1. x \in Seq(Byte) /\ f \in Seq(Byte) /\ ~ScanFails(f) /\ ~ScanFails(x)
    BY <1>1 DEF Closed
  <2>. QED  BY <1>1, <2>1, LenProperties
<1>4. xf \in Seq(Byte) /\ Len(xf) = a + m
  BY <1>3, ConcatProperties
<1>5. Len(w) = (a + m) + Len(y) /\ Len(b) = a + Len(y) /\ b \in Seq(Byte) /\ w \in Seq(Byte)
  <2>. HIDE DEF xf
  <2>1. Len(w) = Len(xf) + Len(y) /\ w \in Seq(Byte)
    BY <1>1, <1>2, <1>4, ConcatProperties
  <2>2. Len(b) = a + Len(y) /\ b \in Seq(Byte)
    BY <1>1, <1>3, ConcatProperties
  <2>. QED  BY <1>4, <2>1, <2>2
<1>6. /\ ~ScanFails(b)
      /\ ObuStarts(b) = ObuStarts(x) \cup {a + q : q \in ObuStarts(y)}
      /\ \A s \in ObuStarts(x) : SameObu(b, s, x, s, 0)
      /\ \A q \in ObuStarts(y) : SameObu(b, a + q, y, q, a)
  BY <1>1, ObusOfJoin
<1>. HIDE DEF xf
<1>7. /\ ~ScanFails(w)
      /\ ObuStarts(w) = ObuStarts(xf) \cup {(a + m) + q : q \in ObuStarts(y)}
      /\ \A s \in ObuStarts(xf) : SameObu(w, s, xf, s, 0)
      /\ \A q \in ObuStarts(y) : SameObu(w, (a + m) + q, y, q, a + m)
  <2>. DEFINE l == Len(xf)
  <2>1. /\ ~ScanFails(w)
        /\ ObuStarts(w) = ObuStarts(xf) \cup {l + q : q \in ObuStarts(y)}
        /\ \A s \in ObuStarts(xf) : SameObu(w, s, xf, s, 0)
        /\ \A q \in ObuStarts(y) : SameObu(w, l + q, y, q, l)
    BY <1>1, <1>2, ObusOfJoin
  <2>2. l = a + m
    BY <1>4
  <2>. HIDE DEF l, a, m
  <2>. QED  BY <2>1, <2>2
<1>8. /\ ObuStarts(xf) = ObuStarts(x) \cup {a + q : q \in ObuStarts(f)}
      /\ \A s \in ObuStarts(x) : SameObu(xf, s, x, s, 0)
      /\ \A q \in ObuStarts(f) : SameObu(xf, a + q, f, q, a)
  <2>1. Len(xf) <= UsizeMax
    <3>1. UsizeMax \in Nat
      BY UsizeAssumption
    <3>. QED  BY <1>3, <1>4, <1>5, <3>1
  <2>. QED  BY <1>1, <1>3, <2>1, ObusOfJoin DEF xf
<1>9. /\ ObuStarts(x) \subseteq 0..(a - 1) /\ ObuStarts(f) \subseteq 0..(m - 1)
      /\ ObuStarts(y) \subseteq 0..(Len(y) - 1)
      /\ Len(x) > 0 => 0 \in ObuStarts(x)
  <2>1. ObuStarts(x) \subseteq 0..(a - 1) /\ (Len(x) > 0 => 0 \in ObuStarts(x))
    BY <1>3, ObuStartsAre
  <2>2. ObuStarts(f) \subseteq 0..(m - 1)
    BY <1>3, ObuStartsAre
  <2>3. ObuStarts(y) \subseteq 0..(Len(y) - 1)
    BY <1>1, ObuStartsAre
  <2>. QED  BY <2>1, <2>2, <2>3
<1>. DEFINE KB(p) == ObuAt(b, p).kind
            KW(p) == ObuAt(w, p).kind
            KX(p) == ObuAt(x, p).kind
            KY(p) == ObuAt(y, p).kind
<1>10. /\ \A s \in ObuStarts(x) : KB(s) = KX(s) /\ KW(s) = KX(s)
       /\ \A q \in ObuStarts(f) : KW(a + q) = OBU_METADATA
       /\ \A q \in ObuStarts(y) : KB(a + q) = KY(q) /\ KW((a + m) + q) = KY(q)
  <2>1. \A s \in ObuStarts(x) : KB(s) = KX(s) /\ KW(s) = KX(s)
    BY <1>6, <1>7, <1>8 DEF SameObu
  <2>2. ASSUME NEW q \in ObuStarts(f) PROVE KW(a + q) = OBU_METADATA
    <3>1. a + q \in ObuStarts(xf)
      BY <1>8
    <3>2. KW(a + q) = ObuAt(xf, a + q).kind
      BY <1>7, <3>1 DEF SameObu
    <3>3. ObuAt(xf, a + q).kind = ObuAt(f, q).kind
      BY <1>8 DEF SameObu
    <3>. QED  BY <3>2, <3>3
  <2>3. \A q \in ObuStarts(y) : KB(a + q) = KY(q) /\ KW((a + m) + q) = KY(q)
    BY <1>6, <1>7 DEF SameObu
  <2>. QED  BY <2>1, <2>2, <2>3
<1>11. OBU_METADATA # OBU_TEMPORAL_DELIMITER /\ OBU_METADATA # OBU_SEQUENCE_HEADER
       /\ OBU_TEMPORAL_DELIMITER \notin FRAME_OBUS
  BY DEF OBU_METADATA, OBU_TEMPORAL_DELIMITER, OBU_SEQUENCE_HEADER, FRAME_OBUS
<1>12. \A s \in ObuStarts(x) : s # 0 => KX(s) # OBU_TEMPORAL_DELIMITER
  BY <1>1
<1>13. a = 0 /\ 0 \in ObuStarts(y) => KY(0) # OBU_TEMPORAL_DELIMITER
  <2>. SUFFICES ASSUME a = 0, 0 \in ObuStarts(y) PROVE KY(0) # OBU_TEMPORAL_DELIMITER
    OBVIOUS
  <2>1. x = << >>
    BY <1>3, EmptySeq
  <2>2. y # << >>
    <3>1. 0 \in 0..(Len(y) - 1)
      BY <1>9
    <3>2. Len(y) # 0
      BY <1>3, <3>1
    <3>. QED  BY <3>2
  <2>. QED  BY <1>1, <1>11, <2>1, <2>2
<1>. DEFINE D == Delimiters(b)
            E == Delimiters(w)
            H == Headers(b)
            I == Headers(w)
<1>14. /\ \A p : p \in D <=> p \in ObuStarts(b) /\ (p = 0 \/ KB(p) = OBU_TEMPORAL_DELIMITER)
       /\ \A p : p \in E <=> p \in ObuStarts(w) /\ (p = 0 \/ KW(p) = OBU_TEMPORAL_DELIMITER)
       /\ \A p : p \in H <=> p \in ObuStarts(b) /\ KB(p) = OBU_SEQUENCE_HEADER
       /\ \A p : p \in I <=> p \in ObuStarts(w) /\ KW(p) = OBU_SEQUENCE_HEADER
  BY DEF Delimiters, Headers
<1>15. /\ D \in SUBSET Nat /\ IsFiniteSet(D) /\ 0 \in D /\ H \in SUBSET Nat
  BY <1>5, <1>6, DelimitersAre
<1>16. E \in SUBSET Nat /\ 0 \in E /\ I \in SUBSET Nat
  <2>1. w # << >>
    <3>1. Len(b) # 0
      BY <1>5, EmptySeq
    <3>2. Len(w) # 0
      BY <1>3, <1>5, <3>1
    <3>. QED  BY <3>2
  <2>. QED  BY <1>5, <1>7, <2>1, DelimitersAre
<1>17. /\ \A p \in ObuStarts(b) : p \in ObuStarts(x) \/ \E q \in ObuStarts(y) : p = a + q
       /\ \A s \in ObuStarts(x) : s \in ObuStarts(b) /\ s \in ObuStarts(w)
       /\ \A q \in ObuStarts(y) : a + q \in ObuStarts(b) /\ (a + m) + q \in ObuStarts(w)
       /\ \A p \in ObuStarts(w) : \/ p \in ObuStarts(x)
                                  \/ \E q \in ObuStarts(f) : p = a + q
                                  \/ \E q \in ObuStarts(y) : p = (a + m) + q
  BY <1>6, <1>7, <1>8
<1>. HIDE DEF KB, KW, KX, KY, D, E, H, I, a, m
<1>18. ASSUME NEW k \in D, k # 0 PROVE k >= a /\ k + m \in E
  <2>1. k \in ObuStarts(b) /\ KB(k) = OBU_TEMPORAL_DELIMITER
    BY <1>14, <1>18
  <2>2. k \notin ObuStarts(x)
    BY <1>10, <1>12, <1>18, <2>1
  <2>3. PICK q \in ObuStarts(y) : k = a + q
    BY <1>17, <2>1, <2>2
  <2>4. q \in Nat
    BY <1>9
  <2>5. (a + m) + q \in ObuStarts(w) /\ KW((a + m) + q) = OBU_TEMPORAL_DELIMITER
    BY <1>10, <1>17, <2>1, <2>3
  <2>6. k + m = (a + m) + q /\ k >= a
    BY <1>3, <2>3, <2>4 DEF a, m
  <2>7. k + m \in E
    BY <1>14, <2>5, <2>6
  <2>. QED  BY <2>6, <2>7
<1>19. ASSUME NEW e \in E, e # 0 PROVE e >= m /\ e - m \in D /\ e - m # 0
  <2>1. e \in ObuStarts(w) /\ KW(e) = OBU_TEMPORAL_DELIMITER
    BY <1>14, <1>19
  <2>2. e \notin ObuStarts(x)
    BY <1>10, <1>12, <1>19, <2>1
  <2>3. ~\E q \in ObuStarts(f) : e = a + q
    BY <1>10, <1>11, <2>1
  <2>4. PICK q \in ObuStarts(y) : e = (a + m) + q
    BY <1>17, <2>1, <2>2, <2>3
  <2>5. q \in Nat
    BY <1>9
  <2>6. e - m = a + q /\ e >= m
    BY <1>3, <2>4, <2>5 DEF a, m
  <2>7. KY(q) = OBU_TEMPORAL_DELIMITER
    BY <1>10, <2>1, <2>4
  <2>8. a + q \in ObuStarts(b) /\ KB(a + q) = OBU_TEMPORAL_DELIMITER
    BY <1>10, <1>17, <2>7
  <2>9. a + q \in D
    BY <1>14, <2>8
  <2>10. a + q # 0
    <3>1. a + q = 0 => a = 0 /\ q = 0
      BY <1>3, <2>5 DEF a
    <3>. QED  BY <1>13, <2>7, <3>1
  <2>. QED  BY <2>6, <2>9, <2>10
<1>20. ASSUME NEW j \in H PROVE (j < a => j \in I) /\ (~(j < a) => j + m \in I)
  <2>1. j \in ObuStarts(b) /\ KB(j) = OBU_SEQUENCE_HEADER
    BY <1>14
  <2>2. CASE j \in ObuStarts(x)
    <3>1. j < a
      BY <1>3, <1>9, <2>2 DEF a
    <3>2. j \in I
      BY <1>10, <1>14, <1>17, <2>1, <2>2
    <3>. QED  BY <3>1, <3>2
  <2>3. CASE \E q \in ObuStarts(y) : j = a + q
    <3>1. PICK q \in ObuStarts(y) : j = a + q
      BY <2>3
    <3>2. q \in Nat
      BY <1>9
    <3>3. ~(j < a) /\ j + m = (a + m) + q
      BY <1>3, <3>1, <3>2 DEF a, m
    <3>4. (a + m) + q \in I
      BY <1>10, <1>14, <1>17, <2>1, <3>1
    <3>. QED  BY <3>3, <3>4
  <2>. QED  BY <1>17, <2>1, <2>2, <2>3
<1>21. ASSUME NEW i \in I PROVE (i < a /\ i \in H) \/ (i >= a + m /\ i - m \in H)
  <2>1. i \in ObuStarts(w) /\ KW(i) = OBU_SEQUENCE_HEADER
    BY <1>14
  <2>2. CASE i \in ObuStarts(x)
    <3>1. i < a
      BY <1>3, <1>9, <2>2 DEF a
    <3>2. i \in H
      BY <1>10, <1>14, <1>17, <2>1, <2>2
    <3>. QED  BY <3>1, <3>2
  <2>3. ~\E q \in ObuStarts(f) : i = a + q
    BY <1>10, <1>11, <2>1
  <2>4. CASE \E q \in ObuStarts(y) : i = (a + m) + q
    <3>1. PICK q \in ObuStarts(y) : i = (a + m) + q
      BY <2>4
    <3>2. q \in Nat
      BY <1>9
    <3>3. i >= a + m /\ i - m = a + q
      BY <1>3, <3>1, <3>2 DEF a, m
    <3>4. a + q \in H
      BY <1>10, <1>14, <1>17, <2>1, <3>1
    <3>. QED  BY <3>3, <3>4
  <2>. QED  BY <1>17, <2>1, <2>2, <2>3, <2>4
<1>22. a \in Nat /\ m \in Nat
  BY <1>3 DEF a, m
<1>23. Shifted(D, E, H, I, a, m)
  BY <1>18, <1>19, <1>20, <1>21, Zenon DEF Shifted
<1>24. FlagsOn(Ascending(D), H) = FlagsOn(Ascending(E), I)
  BY <1>15, <1>16, <1>22, <1>23, FlagsShifted
<1>. QED  BY <1>24, Zenon DEF D, E, H, I

-----------------------------------------------------------------------------
(*****************************************************************************)
(* The loops: what scan_nals, access_units and temporal_units return, going  *)
(* through the bytes a round at a time, is what Annexb, H26x and Obu say.    *)
(*****************************************************************************)


\* A fold over 1..n goes by the sets it has left, of which it takes the largest
\* number out; of those it meets only 1..k matter. Goes is that recursion, from
\* start, with one round of access_units or of temporal_units for each of the items.
Round(codec, b, round, item) ==
    IF codec = "h26x" THEN AfterNal(b, round, item) ELSE AfterObu(b, round, item)

Goes(it, codec, b, nals, start, k) ==
    it = [s \in SUBSET (1..k) |->
             IF s = {} THEN start ELSE Round(codec, b, it[s \ {Max(s)}], nals[Max(s)])]

\* The largest number of 1..(k + 1), and what is left without it.
LEMMA MaxOfUpTo ==
    ASSUME NEW k \in Nat
    PROVE  /\ Max(1..(k + 1)) = k + 1
           /\ \A s \in SUBSET (1..(k + 1)) : k + 1 \in s => Max(s) = k + 1
           /\ (1..(k + 1)) \ {k + 1} = 1..k
<1>1. ASSUME NEW s \in SUBSET (1..(k + 1)), k + 1 \in s PROVE Max(s) = k + 1
  <2>. DEFINE P(x) == x \in s /\ \A y \in s : x >= y
              m == CHOOSE x : P(x)
  <2>1. P(k + 1)
    BY <1>1
  <2>2. P(m)
    BY <2>1
  <2>. HIDE DEF P, m
  <2>3. m = k + 1
    <3>1. m \in s /\ \A y \in s : m >= y
      BY <2>2 DEF P
    <3>2. m >= k + 1 /\ m \in 1..(k + 1)
      BY <3>1, <1>1
    <3>. QED  BY <3>2
  <2>4. Max(s) = m
    BY Zenon DEF Max, m, P
  <2>. QED  BY <2>3, <2>4
<1>2. Max(1..(k + 1)) = k + 1
  BY <1>1
<1>3. (1..(k + 1)) \ {k + 1} = 1..k
  OBVIOUS
<1>. QED  BY <1>1, <1>2, <1>3

\* There is such a recursion for every number of rounds.
LEMMA FoldExists ==
    ASSUME NEW codec, NEW b, NEW nals, NEW start, NEW n \in Nat
    PROVE  \E it : Goes(it, codec, b, nals, start, n)
<1>. DEFINE Good == {k \in 0..n : \E it : Goes(it, codec, b, nals, start, k)}
<1>1. 0 \in Good
  <2>. DEFINE it == [s \in SUBSET (1..0) |-> start]
  <2>1. 1..0 = {}
    OBVIOUS
  <2>2. it = [s \in SUBSET (1..0) |->
                 IF s = {} THEN start ELSE Round(codec, b, it[s \ {Max(s)}], nals[Max(s)])]
    <3>1. \A s \in SUBSET (1..0) : s = {}
      BY <2>1
    <3>. QED  BY <3>1
  <2>3. Goes(it, codec, b, nals, start, 0)
    BY <2>2 DEF Goes
  <2>. QED  BY <2>3
<1>2. ASSUME NEW k \in 0..(n - 1), k \in Good PROVE k + 1 \in Good
  <2>1. PICK f : Goes(f, codec, b, nals, start, k)
    BY <1>2
  <2>. DEFINE new(s) == Round(codec, b, f[s \ {k + 1}], nals[k + 1])
              g == [s \in SUBSET (1..(k + 1)) |-> IF k + 1 \in s THEN new(s) ELSE f[s]]
              round(h, s) == IF s = {} THEN start ELSE Round(codec, b, h[s \ {Max(s)}], nals[Max(s)])
  <2>2. \A s \in SUBSET (1..(k + 1)) : k + 1 \notin s => s \in SUBSET (1..k)
    OBVIOUS
  <2>3. \A s \in SUBSET (1..k) : s \in SUBSET (1..(k + 1)) /\ k + 1 \notin s
    OBVIOUS
  <2>. HIDE DEF new
  <2>4. \A s \in SUBSET (1..k) : g[s] = f[s]
    BY <2>3
  <2>5. \A s \in SUBSET (1..k) : f[s] = round(f, s)
    BY <2>1 DEF Goes
  <2>6. \A s \in SUBSET (1..(k + 1)) : k + 1 \in s => g[s] = new(s)
    OBVIOUS
  <2>. HIDE DEF g
  <2>7. ASSUME NEW s \in SUBSET (1..(k + 1)) PROVE g[s] = round(g, s)
    <3>1. CASE k + 1 \in s
      <4>0. k \in Nat
        OBVIOUS
      <4>1. Max(s) = k + 1 /\ s # {}
        BY <3>1, <4>0, MaxOfUpTo, Zenon
      <4>2. s \ {k + 1} \in SUBSET (1..k)
        OBVIOUS
      <4>3. g[s \ {k + 1}] = f[s \ {k + 1}]
        BY <2>4, <4>2
      <4>4. new(s) = Round(codec, b, g[s \ {k + 1}], nals[k + 1])
        BY <4>3, Zenon DEF new
      <4>. QED  BY <2>6, <3>1, <4>1, <4>4, Zenon
    <3>2. CASE k + 1 \notin s
      <4>1. s \in SUBSET (1..k)
        BY <2>2, <3>2
      <4>2. s \ {Max(s)} \in SUBSET (1..k)
        BY <4>1
      <4>3. g[s] = f[s] /\ f[s] = round(f, s) /\ g[s \ {Max(s)}] = f[s \ {Max(s)}]
        BY <2>4, <2>5, <4>1, <4>2
      <4>. QED  BY <4>3, Zenon
    <3>. QED  BY <3>1, <3>2
  <2>8. g = [s \in SUBSET (1..(k + 1)) |-> round(g, s)]
    <3>1. g = [s \in SUBSET (1..(k + 1)) |-> g[s]]
      BY Zenon DEF g
    <3>. HIDE DEF round
    <3>. QED  BY <2>7, <3>1
  <2>9. Goes(g, codec, b, nals, start, k + 1)
    BY <2>8, Zenon DEF Goes
  <2>. QED  BY <2>9
<1>. HIDE DEF Good
<1>3. n \in Good
  BY <1>1, <1>2, Upwards
<1>. QED  BY <1>3 DEF Good

\* The same, round after round: r[k] is what k rounds leave.
Rounds(r, codec, b, nals, start, n) ==
    r[0] = start /\ \A k \in 1..n : r[k] = Round(codec, b, r[k - 1], nals[k])

\* The recursion over sets is the loop over rounds.
LEMMA FoldRounds ==
    ASSUME NEW codec, NEW b, NEW nals, NEW start, NEW n \in Nat,
           NEW it, Goes(it, codec, b, nals, start, n)
    PROVE  \E r : Rounds(r, codec, b, nals, start, n) /\ r[n] = it[1..n]
<1>. DEFINE r == [k \in 0..n |-> it[1..k]]
<1>3. r[0] = start
  <2>1. 1..0 = {} /\ {} \in SUBSET (1..n) /\ 0 \in 0..n
    OBVIOUS
  <2>2. it[{}] = start
    BY <2>1 DEF Goes
  <2>. QED  BY <2>1, <2>2
<1>4. ASSUME NEW k \in 1..n PROVE r[k] = Round(codec, b, r[k - 1], nals[k])
  <2>1. k - 1 \in Nat /\ k - 1 \in 0..n /\ k \in 0..n /\ (k - 1) + 1 = k
    OBVIOUS
  <2>2. Max(1..k) = k /\ (1..k) \ {k} = 1..(k - 1)
    BY <2>1, MaxOfUpTo
  <2>3. 1..k \in SUBSET (1..n) /\ 1..k # {}
    <3>1. \A x \in 1..k : x \in 1..n
      OBVIOUS
    <3>2. 1 \in 1..k
      OBVIOUS
    <3>. HIDE DEF r
    <3>. QED  BY <3>1, <3>2, Zenon
  <2>4. it[1..k] = Round(codec, b, it[(1..k) \ {Max(1..k)}], nals[Max(1..k)])
    BY <2>3, Zenon DEF Goes
  <2>5. it[1..k] = Round(codec, b, it[1..(k - 1)], nals[k])
    BY <2>2, <2>4, Zenon
  <2>6. r[k] = it[1..k] /\ r[k - 1] = it[1..(k - 1)]
    BY <2>1
  <2>. QED  BY <2>5, <2>6, Zenon
<1>5. r[n] = it[1..n]
  OBVIOUS
<1>. HIDE DEF r
<1>6. Rounds(r, codec, b, nals, start, n)
  BY <1>3, <1>4 DEF Rounds
<1>. QED  BY <1>5, <1>6

\* The fold of access_units, and the rounds it is.
AllNals(b, nals, start) == FoldLeft(LAMBDA round, nal : AfterNal(b, round, nal), start, nals)

LEMMA FoldNals ==
    ASSUME NEW b, NEW nals, NEW start, NEW n \in Nat, DOMAIN nals = 1..n
    PROVE  \E r : /\ r[0] = start
                  /\ \A k \in 1..n : r[k] = AfterNal(b, r[k - 1], nals[k])
                  /\ AllNals(b, nals, start) = r[n]
<1>. DEFINE one(h, s) == IF s = {} THEN start ELSE AfterNal(b, h[s \ {Max(s)}], nals[Max(s)])
            P(h) == h = [s \in SUBSET (1..n) |-> one(h, s)]
            it == CHOOSE h : P(h)
<1>1. \A h, s : one(h, s) = IF s = {} THEN start
                           ELSE Round("h26x", b, h[s \ {Max(s)}], nals[Max(s)])
  BY Zenon DEF Round
<1>2. \A h : P(h) <=> Goes(h, "h26x", b, nals, start, n)
  <2>. TAKE h
  <2>. DEFINE two(s) == IF s = {} THEN start
                        ELSE Round("h26x", b, h[s \ {Max(s)}], nals[Max(s)])
  <2>1. \A s : one(h, s) = two(s)
    BY <1>1, Zenon
  <2>2. Goes(h, "h26x", b, nals, start, n) <=> h = [s \in SUBSET (1..n) |-> two(s)]
    BY Zenon DEF Goes
  <2>. HIDE DEF one, two
  <2>. QED  BY <2>1, <2>2
<1>3. AllNals(b, nals, start) = it[1..n]
  BY Zenon DEF AllNals, FoldLeft, MapThenFoldSet
<1>4. Goes(it, "h26x", b, nals, start, n)
  <2>1. \E h : P(h)
    BY <1>2, FoldExists, Zenon
  <2>2. P(it)
    BY <2>1, Zenon
  <2>. QED  BY <1>2, <2>2, Zenon
<1>. HIDE DEF it
<1>5. PICK r : Rounds(r, "h26x", b, nals, start, n) /\ r[n] = it[1..n]
  BY <1>4, FoldRounds
<1>6. r[0] = start /\ \A k \in 1..n : r[k] = AfterNal(b, r[k - 1], nals[k])
  BY <1>5, Zenon DEF Rounds, Round
<1>. QED  BY <1>3, <1>5, <1>6, Zenon

\* The list s holds the members of S, in ascending order.
Lists(s, S) ==
    /\ s \in Seq(Nat)
    /\ \A i, j \in 1..Len(s) : i < j => s[i] < s[j]
    /\ \A x : x \in S <=> \E i \in 1..Len(s) : x = s[i]

\* What lists a set in order is the one sequence that does.
LEMMA ListsOne ==
    ASSUME NEW s, NEW S, Lists(s, S)
    PROVE  Ascending(S) = s
<1>1. /\ Len(s) \in Nat /\ s \in [1..Len(s) -> Nat]
      /\ \A i, j \in 1..Len(s) : i < j => s[i] < s[j]
      /\ \A x : x \in S <=> \E i \in 1..Len(s) : x = s[i]
  BY LenProperties DEF Lists
<1>2. \A n \in Nat : \A f \in [1..n -> Nat] :
          (\A i, j \in 1..n : i < j => f[i] < f[j])
              /\ (\A x : x \in S <=> \E i \in 1..n : x = f[i]) => Ascending(S) = f
  BY AscendingUnique
<1>. QED  BY <1>1, <1>2, Zenon

\* A sequence with an element in front of it.
LEMMA InFront ==
    ASSUME NEW T, NEW x \in T, NEW s \in Seq(T)
    PROVE  /\ <<x>> \o s \in Seq(T) /\ Len(<<x>> \o s) = 1 + Len(s) /\ (<<x>> \o s)[1] = x
           /\ \A k \in 1..Len(s) : (<<x>> \o s)[1 + k] = s[k]
<1>1. <<x>> \in Seq(T) /\ Len(<<x>>) = 1 /\ <<x>>[1] = x /\ Len(s) \in Nat
  BY LenProperties
<1>2. <<x>> \o s \in Seq(T) /\ Len(<<x>> \o s) = Len(<<x>>) + Len(s)
  BY <1>1, ConcatProperties
<1>3. \A k \in 1..Len(s) : (<<x>> \o s)[1 + k] = s[k]
  OBVIOUS
<1>4. (<<x>> \o s)[1] = x
  OBVIOUS
<1>. QED  BY <1>1, <1>2, <1>3, <1>4

\* An element smaller than the listed ones goes in front.
LEMMA ListsMore ==
    ASSUME NEW s, NEW S, Lists(s, S), NEW x \in Nat, \A y \in S : x < y
    PROVE  Lists(<<x>> \o s, {x} \cup S)
<1>. DEFINE t == <<x>> \o s
<1>1. s \in Seq(Nat) /\ Len(s) \in Nat /\ <<x>> \in Seq(Nat) /\ Len(<<x>>) = 1 /\ <<x>>[1] = x
  BY LenProperties DEF Lists
<1>2. /\ t \in Seq(Nat) /\ Len(t) = 1 + Len(s) /\ t[1] = x
      /\ \A k \in 1..Len(s) : t[1 + k] = s[k]
  <2>1. s \in Seq(Nat) /\ x \in Nat
    BY <1>1
  <2>2. /\ <<x>> \o s \in Seq(Nat) /\ Len(<<x>> \o s) = 1 + Len(s) /\ (<<x>> \o s)[1] = x
        /\ \A k \in 1..Len(s) : (<<x>> \o s)[1 + k] = s[k]
    BY <2>1, InFront
  <2>. QED  BY <2>2, Zenon
<1>. HIDE DEF t
<1>3. \A k \in 1..Len(t) : k = 1 \/ (k - 1 \in 1..Len(s) /\ t[k] = s[k - 1])
  <2>. TAKE k \in 1..Len(t)
  <2>1. k # 1 => k - 1 \in 1..Len(s) /\ 1 + (k - 1) = k
    BY <1>1, <1>2
  <2>. QED  BY <1>2, <2>1
<1>4. \A k \in 1..Len(s) : s[k] \in S /\ s[k] \in Nat
  BY <1>1 DEF Lists
<1>5. \A i, j \in 1..Len(t) : i < j => t[i] < t[j]
  <2>. TAKE i, j \in 1..Len(t)
  <2>. HAVE i < j
  <2>1. j - 1 \in 1..Len(s) /\ t[j] = s[j - 1]
    BY <1>1, <1>2, <1>3
  <2>2. CASE i = 1
    BY <1>2, <1>4, <2>1, <2>2
  <2>3. CASE i # 1
    <3>1. i - 1 \in 1..Len(s) /\ t[i] = s[i - 1] /\ i - 1 < j - 1
      BY <1>3, <2>3
    <3>. QED  BY <2>1, <3>1 DEF Lists
  <2>. QED  BY <2>2, <2>3
<1>6. \A y : y \in {x} \cup S <=> \E i \in 1..Len(t) : y = t[i]
  <2>1. ASSUME NEW y, y \in S PROVE \E i \in 1..Len(t) : y = t[i]
    <3>1. PICK k \in 1..Len(s) : y = s[k]
      BY <2>1 DEF Lists
    <3>2. 1 + k \in 1..Len(t) /\ t[1 + k] = y
      BY <1>1, <1>2, <3>1
    <3>. QED  BY <3>2
  <2>2. 1 \in 1..Len(t)
    BY <1>1, <1>2
  <2>3. ASSUME NEW i \in 1..Len(t) PROVE t[i] \in {x} \cup S
    BY <1>2, <1>3, <1>4
  <2>. QED  BY <1>2, <2>1, <2>2, <2>3
<1>. QED  BY <1>2, <1>5, <1>6 DEF Lists, t

\* The start codes from at on, and the code CodesLoop looks for at at.
CodesFrom(b, at) == {c \in StartCodes(b) : at <= c}

CodeAt(b, at) == Slice(b, at, at + 3) = <<0, 0, 1>>

\* Three bytes that are the start code's, and three that are not.
LEMMA CodeAtIs ==
    ASSUME NEW b \in Seq(Byte), NEW at \in Nat, at + 2 < Len(b)
    PROVE  CodeAt(b, at) <=> at \in StartCodes(b)
<1>. DEFINE s == Slice(b, at, at + 3)
<1>1. Len(b) \in Nat /\ at + 3 \in 0..Len(b) /\ at \in 0..(at + 3) /\ (at + 3) - at = 3
  BY LenProperties
<1>2. /\ s \in Seq(Byte) /\ Len(s) = 3
      /\ \A i \in 0..2 : At(s, i) = At(b, at + i)
  <2>1. /\ s \in Seq(Byte) /\ Len(s) = (at + 3) - at
        /\ \A i \in 0..((at + 3) - at - 1) : At(s, i) = At(b, at + i)
    BY <1>1, SliceProperties
  <2>. HIDE DEF s
  <2>. QED  BY <1>1, <2>1
<1>. HIDE DEF s
<1>3. At(s, 0) = At(b, at) /\ At(s, 1) = At(b, at + 1) /\ At(s, 2) = At(b, at + 2)
  <2>1. 0 \in 0..2 /\ 1 \in 0..2 /\ 2 \in 0..2 /\ at + 0 = at
    OBVIOUS
  <2>2. At(s, 0) = At(b, at + 0) /\ At(s, 1) = At(b, at + 1) /\ At(s, 2) = At(b, at + 2)
    BY <1>2, <2>1
  <2>. QED  BY <2>1, <2>2
<1>4. s = <<0, 0, 1>> <=> s[1] = 0 /\ s[2] = 0 /\ s[3] = 1
  BY <1>2
<1>5. s = <<0, 0, 1>> <=> At(s, 0) = 0 /\ At(s, 1) = 0 /\ At(s, 2) = 1
  BY <1>4 DEF At
<1>6. at \in StartCodes(b) <=> At(b, at) = 0 /\ At(b, at + 1) = 0 /\ At(b, at + 2) = 1
  <2>1. at \in 0..(Len(b) - 3)
    BY <1>1
  <2>. QED  BY <2>1 DEF StartCodes
<1>. QED  BY <1>3, <1>5, <1>6 DEF CodeAt, s

\* scan_nals' first loop, from every offset it may stand at.
Hunts(f, b) ==
    \A at \in 0..(Len(b) + 2) :
        f[at] = IF at + 2 >= Len(b) THEN << >>
                ELSE IF CodeAt(b, at) THEN <<at>> \o f[at + 3]
                ELSE f[at + 1]

\* There is such a function of every b.
LEMMA HuntsExist ==
    ASSUME NEW b \in Seq(Byte)
    PROVE  \E f \in [0..(Len(b) + 2) -> Seq(Nat)] : Hunts(f, b)
<1>. DEFINE n == Len(b) + 2
            goes == [at \in 0..n |-> at + 2 < Len(b)]
            further == [at \in 0..n |-> IF CodeAt(b, at) THEN at + 3 ELSE at + 1]
            given == [at \in 0..n |-> << >>]
            put(at, x) == IF CodeAt(b, at) THEN <<at>> \o x ELSE x
            step == [p \in (0..n) \X Seq(Nat) |-> put(p[1], p[2])]
<1>0. n \in Nat /\ Len(b) \in Nat
  BY LenProperties
<1>1. \A at \in 0..n : goes[at] => further[at] \in (at + 1)..n
  <2>. TAKE at \in 0..n
  <2>1. (goes[at] <=> at + 2 < Len(b)) /\ (further[at] = at + 3 \/ further[at] = at + 1)
    OBVIOUS
  <2>2. at \in Int /\ at >= 0 /\ n = Len(b) + 2
    BY <1>0
  <2>. HIDE DEF goes, further, n
  <2>. QED  BY <1>0, <2>1, <2>2
<1>2. << >> \in Seq(Nat)
  BY EmptySeq
<1>3. given \in [0..n -> Seq(Nat)]
  BY <1>2
<1>4. \A at \in 0..n, x \in Seq(Nat) : put(at, x) \in Seq(Nat)
  <2>. TAKE at \in 0..n, x \in Seq(Nat)
  <2>1. at \in Nat
    BY <1>0
  <2>2. <<at>> \o x \in Seq(Nat)
    BY <2>1, InFront
  <2>. QED  BY <2>2
<1>5. step \in [(0..n) \X Seq(Nat) -> Seq(Nat)]
  <2>1. \A p \in (0..n) \X Seq(Nat) : p[1] \in 0..n /\ p[2] \in Seq(Nat)
    OBVIOUS
  <2>. HIDE DEF put, n
  <2>. QED  BY <1>4, <2>1
<1>6. \E f \in [0..n -> Seq(Nat)] : GoesOn(f, n, goes, further, step, given)
  <2>. HIDE DEF goes, further, step, given, n
  <2>. QED  BY <1>0, <1>1, <1>3, <1>5, CountsDown
<1>7. PICK f \in [0..n -> Seq(Nat)] : GoesOn(f, n, goes, further, step, given)
  BY <1>6
<1>8. ASSUME NEW at \in 0..n
      PROVE  f[at] = IF at + 2 >= Len(b) THEN << >>
                     ELSE IF CodeAt(b, at) THEN <<at>> \o f[at + 3]
                     ELSE f[at + 1]
  <2>1. f[at] = IF goes[at] THEN step[<<at, f[further[at]]>>] ELSE given[at]
    <3>. HIDE DEF goes, further, step, given, n
    <3>. QED  BY <1>7 DEF GoesOn
  <2>2. CASE at + 2 < Len(b)
    <3>1. goes[at] /\ further[at] \in 0..n
      <4>1. goes[at]
        BY <2>2
      <4>. HIDE DEF goes, further
      <4>. QED  BY <1>0, <1>1, <4>1
    <3>2. f[further[at]] \in Seq(Nat) /\ <<at, f[further[at]]>> \in (0..n) \X Seq(Nat)
      <4>. HIDE DEF further, n
      <4>. QED  BY <3>1
    <3>3. step[<<at, f[further[at]]>>] = put(at, f[further[at]])
      <4>. HIDE DEF put, n, further
      <4>. QED  BY <3>2
    <3>4. f[at] = put(at, f[further[at]])
      <4>. HIDE DEF goes, further, step, given, n, put
      <4>. QED  BY <2>1, <3>1, <3>3
    <3>5. ~(at + 2 >= Len(b))
      BY <1>0, <2>2
    <3>6. CASE CodeAt(b, at)
      <4>1. further[at] = at + 3
        BY <3>6
      <4>2. put(at, f[at + 3]) = <<at>> \o f[at + 3]
        BY <3>6, Zenon
      <4>. HIDE DEF further, put, n
      <4>. QED  BY <3>4, <3>5, <3>6, <4>1, <4>2, Zenon
    <3>7. CASE ~CodeAt(b, at)
      <4>1. further[at] = at + 1
        BY <3>7
      <4>2. put(at, f[at + 1]) = f[at + 1]
        BY <3>7, Zenon
      <4>. HIDE DEF further, put, n
      <4>. QED  BY <3>4, <3>5, <3>7, <4>1, <4>2, Zenon
    <3>. QED  BY <3>6, <3>7
  <2>3. CASE ~(at + 2 < Len(b))
    <3>1. ~goes[at] /\ given[at] = << >>
      BY <2>3
    <3>2. at + 2 >= Len(b)
      <4>1. at \in Int
        BY <1>0
      <4>. HIDE DEF n
      <4>. QED  BY <1>0, <2>3, <4>1
    <3>. HIDE DEF goes, further, step, given, n
    <3>. QED  BY <2>1, <3>1, <3>2
  <2>. QED  BY <2>2, <2>3
<1>9. Hunts(f, b)
  BY <1>8 DEF Hunts
<1>. QED  BY <1>7, <1>9

\* From an offset on, the loop finds the codes that stand there and beyond.
LEMMA HuntsLists ==
    ASSUME NEW b \in Seq(Byte), NEW f, Hunts(f, b)
    PROVE  Lists(f[0], StartCodes(b))
<1>. DEFINE n == Len(b) + 2
            Good == {k \in 0..n : Lists(f[n - k], CodesFrom(b, n - k))}
<1>0. n \in Nat /\ Len(b) \in Nat /\ n = Len(b) + 2
  BY LenProperties
<1>1. ASSUME NEW k \in 0..n, \A j \in 0..(k - 1) : j \in Good PROVE k \in Good
  <2>. DEFINE at == n - k
  <2>1. at \in 0..n /\ at \in Nat /\ n - at = k
    BY <1>0
  <2>2. f[at] = IF at + 2 >= Len(b) THEN << >>
                ELSE IF CodeAt(b, at) THEN <<at>> \o f[at + 3] ELSE f[at + 1]
    <3>. HIDE DEF at
    <3>. QED  BY <2>1 DEF Hunts
  <2>3. \A z \in (at + 1)..n : Lists(f[z], CodesFrom(b, z))
    <3>. TAKE z \in (at + 1)..n
    <3>1. n - z \in 0..(k - 1) /\ n - (n - z) = z
      BY <1>0
    <3>2. n - z \in Good
      BY <1>1, <3>1
    <3>3. Lists(f[n - (n - z)], CodesFrom(b, n - (n - z)))
      <4>. DEFINE i == n - z
      <4>. HIDE DEF i
      <4>1. i \in Good
        BY <3>2 DEF i
      <4>2. Lists(f[n - i], CodesFrom(b, n - i))
        BY <4>1
      <4>. QED  BY <4>2 DEF i
    <3>. QED  BY <3>1, <3>3
  <2>. HIDE DEF at, n
  <2>4. Lists(f[at], CodesFrom(b, at))
    <3>1. CASE at + 2 >= Len(b)
      <4>1. CodesFrom(b, at) = {}
        <5>1. \A c \in StartCodes(b) : ~(at <= c)
          BY <1>0, <2>1, <3>1, CodeRange
        <5>. QED  BY <5>1 DEF CodesFrom
      <4>2. f[at] = << >>
        BY <2>2, <3>1
      <4>3. << >> \in Seq(Nat) /\ Len(<< >>) = 0 /\ 1..0 = {}
        BY EmptySeq
      <4>. QED  BY <4>1, <4>2, <4>3 DEF Lists
    <3>2. CASE ~(at + 2 >= Len(b)) /\ CodeAt(b, at)
      <4>1. at + 3 \in (at + 1)..n /\ at + 2 < Len(b)
        BY <1>0, <2>1, <3>2
      <4>2. at \in StartCodes(b)
        BY <2>1, <3>2, <4>1, CodeAtIs
      <4>3. CodesFrom(b, at) = {at} \cup CodesFrom(b, at + 3)
        <5>1. ASSUME NEW c \in StartCodes(b) PROVE at <= c <=> c = at \/ at + 3 <= c
          <6>1. c \in Nat
            BY CodeRange
          <6>2. at < c => at + 3 <= c
            BY <4>2, CodesApart
          <6>. QED  BY <2>1, <6>1, <6>2
        <5>. QED  BY <4>2, <5>1 DEF CodesFrom
      <4>4. \A y \in CodesFrom(b, at + 3) : at < y
        <5>1. \A y \in StartCodes(b) : at + 3 <= y => at < y
          BY <2>1, CodeRange
        <5>. QED  BY <5>1 DEF CodesFrom
      <4>5. Lists(<<at>> \o f[at + 3], {at} \cup CodesFrom(b, at + 3))
        BY <2>1, <2>3, <4>1, <4>4, ListsMore
      <4>6. f[at] = <<at>> \o f[at + 3]
        BY <2>2, <3>2, Zenon
      <4>. QED  BY <4>3, <4>5, <4>6, Zenon
    <3>3. CASE ~(at + 2 >= Len(b)) /\ ~CodeAt(b, at)
      <4>1. at + 1 \in (at + 1)..n /\ at + 2 < Len(b)
        BY <1>0, <2>1, <3>3
      <4>2. at \notin StartCodes(b)
        BY <2>1, <3>3, <4>1, CodeAtIs
      <4>3. CodesFrom(b, at) = CodesFrom(b, at + 1)
        <5>1. ASSUME NEW c \in StartCodes(b) PROVE at <= c <=> at + 1 <= c
          <6>1. c \in Nat /\ c # at
            BY <4>2, CodeRange
          <6>. QED  BY <2>1, <6>1
        <5>. QED  BY <5>1 DEF CodesFrom
      <4>4. f[at] = f[at + 1]
        BY <2>2, <3>3, Zenon
      <4>. QED  BY <2>3, <4>1, <4>3, <4>4
    <3>. QED  BY <3>1, <3>2, <3>3
  <2>. QED  BY <2>4 DEF at
<1>2. n \in Good
  <2>. HIDE DEF Good, n
  <2>1. \A k \in 0..n : k \in Good
    BY <1>0, <1>1, UpwardsFromBelow
  <2>. QED  BY <1>0, <2>1
<1>3. Lists(f[n - n], CodesFrom(b, n - n))
  BY <1>2
<1>4. n - n = 0
  BY <1>0
<1>5. CodesFrom(b, 0) = StartCodes(b)
  <2>1. \A c \in StartCodes(b) : 0 <= c
    BY CodeRange
  <2>. QED  BY <2>1 DEF CodesFrom
<1>. QED  BY <1>3, <1>4, <1>5

\* The first loop of scan_nals finds the start codes, in order.
LEMMA CodesLoopIs ==
    ASSUME NEW b \in Seq(Byte)
    PROVE  CodesLoop(b) = Ascending(StartCodes(b))
<1>. DEFINE P(c) == c = [at \in 0..(Len(b) + 2) |->
                            IF at + 2 >= Len(b) THEN << >>
                            ELSE IF Slice(b, at, at + 3) = <<0, 0, 1>> THEN <<at>> \o c[at + 3]
                            ELSE c[at + 1]]
            g == CHOOSE c : P(c)
<1>1. PICK h \in [0..(Len(b) + 2) -> Seq(Nat)] : Hunts(h, b)
  BY HuntsExist
<1>2. P(h)
  <2>1. h = [at \in 0..(Len(b) + 2) |-> h[at]]
    OBVIOUS
  <2>2. \A at \in 0..(Len(b) + 2) :
           h[at] = IF at + 2 >= Len(b) THEN << >>
                   ELSE IF Slice(b, at, at + 3) = <<0, 0, 1>> THEN <<at>> \o h[at + 3]
                   ELSE h[at + 1]
    BY <1>1, Zenon DEF Hunts, CodeAt
  <2>. DEFINE body(at) == IF at + 2 >= Len(b) THEN << >>
                          ELSE IF Slice(b, at, at + 3) = <<0, 0, 1>> THEN <<at>> \o h[at + 3]
                          ELSE h[at + 1]
  <2>3. \A at \in 0..(Len(b) + 2) : h[at] = body(at)
    BY <2>2, Zenon
  <2>4. h = [at \in 0..(Len(b) + 2) |-> body(at)]
    <3>. HIDE DEF body
    <3>. QED  BY <2>1, <2>3
  <2>. QED  BY <2>4, Zenon
<1>3. P(g)
  BY <1>2, Zenon
<1>4. CodesLoop(b) = g[0]
  BY Zenon DEF CodesLoop
<1>. HIDE DEF g
<1>5. Hunts(g, b)
  <2>. DEFINE body(at) == IF at + 2 >= Len(b) THEN << >>
                          ELSE IF Slice(b, at, at + 3) = <<0, 0, 1>> THEN <<at>> \o g[at + 3]
                          ELSE g[at + 1]
  <2>1. g = [at \in 0..(Len(b) + 2) |-> body(at)]
    BY <1>3, Zenon
  <2>. HIDE DEF body
  <2>2. \A at \in 0..(Len(b) + 2) : g[at] = body(at)
    BY <2>1
  <2>. QED  BY <2>2, Zenon DEF Hunts, CodeAt, body
<1>6. Lists(g[0], StartCodes(b))
  BY <1>5, HuntsLists
<1>7. Ascending(StartCodes(b)) = g[0]
  BY <1>6, ListsOne, Zenon
<1>. QED  BY <1>4, <1>7

\* Where the padding before the next code begins, the NAL ends: the code's walk
\* back to the start of the stream stops behind the NAL's own start code.
LEMMA EndIsPad ==
    ASSUME NEW b \in Seq(Byte), NEW c \in StartCodes(b), NEW d \in StartCodes(b), c < d
    PROVE  ZeroRun(b, c + 3, d) = Max({NalPad(b, d), c + 3})
<1>1. c \in Nat /\ d \in Nat /\ c + 3 \in Nat /\ c + 3 <= d
  BY CodeRange, CodesApart
<1>2. c + 3 <= NalPad(b, d) /\ NalPad(b, d) \in 0..d
  BY PadBehindCode, PadRange
<1>3. ZeroRun(b, c + 3, d) = NalPad(b, d)
  <2>1. /\ \A i \in NalPad(b, d)..(d - 1) : At(b, i) = 0
        /\ 0 < NalPad(b, d) => At(b, NalPad(b, d) - 1) # 0
    BY PadRange
  <2>2. NalPad(b, d) \in (c + 3)..d /\ (c + 3 < NalPad(b, d) => At(b, NalPad(b, d) - 1) # 0)
    BY <1>1, <1>2, <2>1
  <2>. QED  BY <1>1, <2>1, <2>2, ZeroRunIs
<1>4. Max({NalPad(b, d), c + 3}) = NalPad(b, d)
  <2>. DEFINE S == {NalPad(b, d), c + 3}
  <2>1. S \in SUBSET (0..d) /\ S # {}
    BY <1>1, <1>2
  <2>2. Max(S) \in S /\ \A y \in S : y <= Max(S)
    <3>. HIDE DEF S
    <3>. QED  BY <1>1, <2>1, MaxExists
  <2>. QED  BY <1>1, <1>2, <2>2
<1>. QED  BY <1>3, <1>4

\* The last NAL ends where the zeroes at the end of the bytes begin.
LEMMA EndOfLast ==
    ASSUME NEW b \in Seq(Byte), NEW c \in StartCodes(b), \A d \in StartCodes(b) : d <= c
    PROVE  NalEnd(b, c) = ZeroRun(b, c + 3, Len(b))
<1>1. Len(b) \in Nat /\ c \in Nat /\ StartCodes(b) \subseteq Nat
  BY CodeRange
<1>2. {d \in StartCodes(b) : d > c} = {}
  <2>1. \A d \in StartCodes(b) : ~(d > c)
    BY <1>1
  <2>. QED  BY <2>1
<1>3. Min({Len(b)}) = Len(b)
  <2>1. {Len(b)} \in SUBSET Nat /\ Len(b) \in {Len(b)} /\ \A y \in {Len(b)} : Len(b) <= y
    BY <1>1
  <2>. QED  BY <2>1, MinIs
<1>4. {d \in StartCodes(b) : d > c} \cup {Len(b)} = {Len(b)}
  BY <1>2
<1>. QED  BY <1>3, <1>4, Zenon DEF NalEnd, NalStart

\* Any other ends where the zeroes before the next code begin.
LEMMA EndOfInner ==
    ASSUME NEW b \in Seq(Byte), NEW c \in StartCodes(b), NEW e \in StartCodes(b), c < e,
           \A d \in StartCodes(b) : d > c => e <= d
    PROVE  NalEnd(b, c) = ZeroRun(b, c + 3, e)
<1>. DEFINE S == {d \in StartCodes(b) : d > c} \cup {Len(b)}
<1>1. Len(b) \in Nat /\ c \in Nat /\ StartCodes(b) \subseteq Nat /\ e + 3 <= Len(b) /\ e \in Nat
  BY CodeRange
<1>2. S \in SUBSET Nat /\ e \in S
  BY <1>1
<1>3. \A y \in S : e <= y
  BY <1>1
<1>4. Min(S) = e
  <2>. HIDE DEF S
  <2>. QED  BY <1>2, <1>3, MinIs
<1>. QED  BY <1>4, Zenon DEF NalEnd, NalStart

\* scan_nals, a code at a time, says of each what Annexb says of it.
THEOREM ScanLoopIs ==
    ASSUME NEW b \in Seq(Byte)
    PROVE  ScanLoop(b) = ScanNals(b)
<1>. DEFINE a == Ascending(StartCodes(b))
            n == Len(a)
            end(k) == IF k = n THEN ZeroRun(b, a[k] + 3, Len(b))
                      ELSE Max({ZeroRun(b, 0, a[k + 1]), a[k] + 3})
<1>1. /\ n \in Nat
      /\ \A k \in 1..n : a[k] \in StartCodes(b) /\ a[k] \in Nat
      /\ \A i, j \in 1..n : i < j => a[i] < a[j]
      /\ \A p \in StartCodes(b) : \E i \in 1..n : a[i] = p
  BY CodesInOrder
<1>2. ASSUME NEW k \in 1..n PROVE end(k) = NalEnd(b, a[k])
  <2>. HIDE DEF a, n
  <2>1. CASE k = n
    <3>1. \A d \in StartCodes(b) : d <= a[k]
      <4>. TAKE d \in StartCodes(b)
      <4>1. PICK i \in 1..n : a[i] = d
        BY <1>1
      <4>2. i = k \/ i < k
        BY <1>1, <2>1
      <4>. QED  BY <1>1, <4>1, <4>2
    <3>2. NalEnd(b, a[k]) = ZeroRun(b, a[k] + 3, Len(b))
      BY <1>1, <3>1, EndOfLast
    <3>. QED  BY <2>1, <3>2
  <2>2. CASE k # n
    <3>1. k + 1 \in 1..n /\ k < k + 1
      BY <1>1, <2>2
    <3>2. a[k] < a[k + 1] /\ a[k + 1] \in StartCodes(b) /\ a[k] \in StartCodes(b)
      BY <1>1, <3>1
    <3>3. \A d \in StartCodes(b) : d > a[k] => a[k + 1] <= d
      <4>. TAKE d \in StartCodes(b)
      <4>. HAVE d > a[k]
      <4>1. PICK i \in 1..n : a[i] = d
        BY <1>1
      <4>2. a[i] \in Nat /\ a[k] \in Nat /\ a[k + 1] \in Nat
        BY <1>1, <3>1
      <4>3. i > k
        <5>1. ~(i = k) /\ ~(i < k)
          BY <1>1, <4>1, <4>2
        <5>. QED  BY <1>1, <5>1
      <4>4. i = k + 1 \/ k + 1 < i
        BY <1>1, <4>3
      <4>5. a[k + 1] = a[i] \/ a[k + 1] < a[i]
        BY <1>1, <3>1, <4>4
      <4>. QED  BY <4>1, <4>2, <4>5
    <3>4. NalEnd(b, a[k]) = ZeroRun(b, a[k] + 3, a[k + 1])
      BY <3>2, <3>3, EndOfInner
    <3>5. NalEnd(b, a[k]) = Max({NalPad(b, a[k + 1]), a[k] + 3})
      BY <3>2, <3>4, EndIsPad
    <3>. QED  BY <2>2, <3>5, Zenon DEF NalPad
  <2>. QED  BY <2>1, <2>2
<1>. DEFINE one(k) == [pad |-> ZeroRun(b, 0, a[k]),
                       code |-> IF a[k] > ZeroRun(b, 0, a[k]) THEN a[k] - 1 ELSE a[k],
                       start |-> a[k] + 3, end |-> end(k), bytes |-> Slice(b, a[k] + 3, end(k))]
            two(k) == [pad   |-> NalPad(b, a[k]),   code |-> NalCode(b, a[k]),
                       start |-> NalStart(a[k]),    end  |-> NalEnd(b, a[k]),
                       bytes |-> NalBytes(b, a[k])]
<1>3. ASSUME NEW k \in 1..n PROVE one(k) = two(k)
  <2>1. end(k) = NalEnd(b, a[k])
    BY <1>2
  <2>. HIDE DEF end, a, n
  <2>. QED  BY <2>1, Zenon DEF NalPad, NalCode, NalStart, NalBytes
<1>4. CodesLoop(b) = a
  BY CodesLoopIs
<1>5. ScanLoop(b) = [k \in 1..n |-> one(k)]
  BY <1>4, Zenon DEF ScanLoop
<1>6. ScanNals(b) = [k \in 1..n |-> two(k)]
  BY Zenon DEF ScanNals
<1>. HIDE DEF one, two, n
<1>. QED  BY <1>3, <1>5, <1>6, Zenon

\* seen_slice at a NAL: a slice has come since the last boundary before it, which
\* is to say that one stands before the NAL with no opener between.
LEMMA SeenSliceIs ==
    ASSUME NEW b \in Seq(Byte), NEW c \in StartCodes(b), NEW e \in Boundaries(b), e < c,
           \A d \in Boundaries(b) : d < c => d <= e
    PROVE  (\E s \in Slices(b) : e <= s /\ s < c) <=> SeenSlice(Slices(b), Openers(b), c)
<1>1. c \in Nat /\ e \in Nat /\ e \in Typed(b) /\ e \in StartCodes(b)
  BY BoundaryIsTyped, CodeRange
<1>2. Slices(b) \subseteq Typed(b) /\ Openers(b) \subseteq Typed(b) /\ Typed(b) \subseteq Nat
  BY CodeRange DEF Slices, Openers, Typed
<1>3. ASSUME NEW s \in Slices(b), e <= s, s < c PROVE SeenSlice(Slices(b), Openers(b), c)
  <2>. DEFINE M == {o \in Openers(b) : s < o /\ o < c}
  <2>1. s \in Nat /\ M \in SUBSET Nat
    BY <1>2
  <2>2. M = {}
    <3>. SUFFICES ASSUME M # {} PROVE FALSE
      OBVIOUS
    <3>. DEFINE o == Min(M)
    <3>1. o \in M /\ \A y \in M : o <= y
      <4>. HIDE DEF M
      <4>. QED  BY <2>1, MinExists
    <3>. HIDE DEF o
    <3>2. o \in Openers(b) /\ s < o /\ o < c /\ o \in Nat
      BY <1>2, <3>1
    <3>3. \A p \in Openers(b) : ~(s < p /\ p < o)
      <4>. TAKE p \in Openers(b)
      <4>1. p \in Nat
        BY <1>2
      <4>2. s < p /\ p < o => p \in M
        BY <1>1, <3>2, <4>1
      <4>. HIDE DEF M
      <4>. QED  BY <3>1, <3>2, <4>1, <4>2
    <3>4. SeenSlice(Slices(b), Openers(b), o)
      BY <3>2, <3>3 DEF SeenSlice
    <3>5. o \in Boundaries(b)
      BY <3>2, <3>4, BoundaryDef
    <3>6. o <= e
      BY <3>2, <3>5
    <3>. QED  BY <1>1, <1>3, <2>1, <3>2, <3>6
  <2>3. \A o \in Openers(b) : ~(s < o /\ o < c)
    BY <2>2
  <2>. QED  BY <1>3, <2>3 DEF SeenSlice
<1>4. ASSUME SeenSlice(Slices(b), Openers(b), c) PROVE \E s \in Slices(b) : e <= s /\ s < c
  <2>1. PICK s \in Slices(b) : s < c /\ \A o \in Openers(b) : ~(s < o /\ o < c)
    BY <1>4 DEF SeenSlice
  <2>2. s \in Nat /\ s \in Typed(b)
    BY <1>2
  <2>3. e <= s
    <3>1. CASE \A d \in Typed(b) : e <= d
      BY <2>2, <3>1
    <3>2. CASE e \in Openers(b)
      <4>1. ~(s < e /\ e < c)
        BY <2>1, <3>2
      <4>. QED  BY <1>1, <2>2, <4>1
    <3>. QED  BY <3>1, <3>2, BoundaryDef
  <2>. QED  BY <2>1, <2>3
<1>. QED  BY <1>3, <1>4

\* What the loop has of the unit that opens at i, of the q it has opened, when the
\* slices of T have come by.
OwnOf(b, i, q, T) ==
    {s \in T : Codes(b)[i] <= s /\ (i < q => s < Codes(b)[i + 1])}
SlicePlace(b, S) == IF S = {} THEN NoPlace ELSE NalCode(b, Min(S))
IdOf(b, S)    == IF S = {} THEN 1 ELSE TemporalIdPlus1(NalBytes(b, Min(S)))
KeyOf(b, S)   == \E s \in S : IsKeyframeType(NalType(NalBytes(b, s)))
UnitWith(start_, end_, insert_, keyframe_, id_) ==
    [start |-> start_, end |-> end_, insert_at |-> insert_, keyframe |-> keyframe_,
     temporal_id_plus1 |-> id_]
SoFar(b, i, q, S) ==
    UnitWith(Pad(b, i), IF i < q THEN Pad(b, i + 1) ELSE Len(b),
             SlicePlace(b, S), KeyOf(b, S), IdOf(b, S))

Shows(round, b, q, T) ==
    /\ round.out = [i \in 1..q |-> SoFar(b, i, q, OwnOf(b, i, q, T))]
    /\ round.seen_slice = (q > 0 /\ \E s \in T : Codes(b)[q] <= s)

\* The fields of a unit, and the unit with a slice put down to it.
LEMMA UnitWithIs ==
    ASSUME NEW a, NEW e, NEW p, NEW k, NEW t
    PROVE  /\ UnitWith(a, e, p, k, t).start = a /\ UnitWith(a, e, p, k, t).end = e
           /\ UnitWith(a, e, p, k, t).insert_at = p /\ UnitWith(a, e, p, k, t).keyframe = k
           /\ UnitWith(a, e, p, k, t).temporal_id_plus1 = t
  BY DEF UnitWith

LEMMA UnitSliced ==
    ASSUME NEW a, NEW e, NEW p, NEW k, NEW t, NEW nal
    PROVE  WithSlice(UnitWith(a, e, p, k, t), nal)
               = UnitWith(a, e, IF p = NoPlace THEN nal.code ELSE p,
                      k \/ IsKeyframeType(NalType(nal.bytes)),
                      IF p = NoPlace THEN TemporalIdPlus1(nal.bytes) ELSE t)
<1>. DEFINE u == UnitWith(a, e, p, k, t)
            x == nal.code
            y == TemporalIdPlus1(nal.bytes)
            z == IsKeyframeType(NalType(nal.bytes))
            f == IF p = NoPlace THEN x ELSE p
            g == IF p = NoPlace THEN y ELSE t
            h == k \/ z
<1>1. u.insert_at = p /\ u.keyframe = k /\ u.temporal_id_plus1 = t
  BY UnitWithIs
<1>2. WithSlice(u, nal) =
         [u EXCEPT !.insert_at = IF u.insert_at = NoPlace THEN x ELSE u.insert_at,
                   !.temporal_id_plus1 =
                      IF u.insert_at = NoPlace THEN y ELSE u.temporal_id_plus1,
                   !.keyframe = u.keyframe \/ z]
  <2>. HIDE DEF u
  <2>. QED  BY Zenon DEF WithSlice
<1>. HIDE DEF x, y, z
<1>3. WithSlice(u, nal) = [u EXCEPT !.insert_at = f, !.temporal_id_plus1 = g, !.keyframe = h]
  <2>. HIDE DEF u
  <2>. QED  BY <1>1, <1>2, Zenon
<1>. HIDE DEF f, g, h
<1>4. [u EXCEPT !.insert_at = f, !.temporal_id_plus1 = g, !.keyframe = h]
          = [[[u EXCEPT !.insert_at = f] EXCEPT !.temporal_id_plus1 = g] EXCEPT !.keyframe = h]
  <2>. HIDE DEF u
  <2>. QED  OBVIOUS
<1>. DEFINE v == UnitWith(a, e, f, k, t)
            w == UnitWith(a, e, f, k, g)
<1>5. [u EXCEPT !.insert_at = f] = v
  BY DEF UnitWith
<1>6. [v EXCEPT !.temporal_id_plus1 = g] = w
  BY DEF UnitWith
<1>7. [w EXCEPT !.keyframe = h] = UnitWith(a, e, f, h, g)
  BY DEF UnitWith
<1>. HIDE DEF u, v, w
<1>8. WithSlice(u, nal) = UnitWith(a, e, f, h, g)
  BY <1>3, <1>4, <1>5, <1>6, <1>7
<1>. QED  BY <1>8, Zenon DEF u, f, g, h, x, y, z

\* One slice more, behind the others.
LEMMA OneSlice ==
    ASSUME NEW b \in Seq(Byte), NEW S \in SUBSET Slices(b), NEW s \in Slices(b),
           \A t \in S : t < s
    PROVE  /\ SlicePlace(b, S \cup {s}) =
                  IF SlicePlace(b, S) = NoPlace THEN NalCode(b, s) ELSE SlicePlace(b, S)
           /\ IdOf(b, S \cup {s}) =
                  IF SlicePlace(b, S) = NoPlace THEN TemporalIdPlus1(NalBytes(b, s)) ELSE IdOf(b, S)
           /\ KeyOf(b, S \cup {s}) = (KeyOf(b, S) \/ IsKeyframeType(NalType(NalBytes(b, s))))
<1>1. /\ Slices(b) \subseteq StartCodes(b) /\ Slices(b) \subseteq Nat
      /\ \A t \in Slices(b) : NalCode(b, t) # NoPlace
  <2>1. Slices(b) \subseteq StartCodes(b)
    BY SlicesAre
  <2>2. ASSUME NEW t \in StartCodes(b) PROVE t \in Nat /\ NalCode(b, t) # NoPlace
    <3>1. t \in Nat /\ NalPad(b, t) \in 0..t
      BY CodeRange, PadRange
    <3>. HIDE DEF NalPad
    <3>. QED  BY <3>1 DEF NalCode, NoPlace
  <2>. QED  BY <2>1, <2>2
<1>2. KeyOf(b, S \cup {s}) = (KeyOf(b, S) \/ IsKeyframeType(NalType(NalBytes(b, s))))
  BY Zenon DEF KeyOf
<1>3. CASE S = {}
  <2>1. S \cup {s} = {s} /\ S \cup {s} # {}
    BY <1>3
  <2>2. Min(S \cup {s}) = s
    <3>1. {s} \in SUBSET Nat /\ s \in {s} /\ \A y \in {s} : s <= y
      BY <1>1
    <3>. QED  BY <2>1, <3>1, MinIs
  <2>3. SlicePlace(b, S) = NoPlace
    BY <1>3 DEF SlicePlace
  <2>. QED  BY <1>2, <2>1, <2>2, <2>3, Zenon DEF SlicePlace, IdOf
<1>4. CASE S # {}
  <2>. DEFINE m == Min(S)
  <2>1. m \in S /\ \A y \in S : m <= y
    BY <1>1, <1>4, MinExists
  <2>. HIDE DEF m
  <2>2. Min(S \cup {s}) = m
    <3>1. S \cup {s} \in SUBSET Nat /\ m \in S \cup {s} /\ m \in Nat /\ s \in Nat /\ m < s
      BY <1>1, <2>1
    <3>2. \A y \in S \cup {s} : m <= y
      BY <2>1, <3>1
    <3>. QED  BY <3>1, <3>2, MinIs
  <2>3. SlicePlace(b, S) = NalCode(b, m) /\ NalCode(b, m) # NoPlace
    BY <1>1, <1>4, <2>1 DEF SlicePlace, m
  <2>4. S \cup {s} # {}
    BY <1>4
  <2>5. SlicePlace(b, S \cup {s}) = NalCode(b, m) /\ IdOf(b, S \cup {s}) = TemporalIdPlus1(NalBytes(b, m))
    BY <2>2, <2>4, Zenon DEF SlicePlace, IdOf
  <2>6. IdOf(b, S) = TemporalIdPlus1(NalBytes(b, m))
    BY <1>4, Zenon DEF IdOf, m
  <2>. QED  BY <1>2, <2>3, <2>5, <2>6, Zenon
<1>. QED  BY <1>3, <1>4

\* A slice put down to the last unit that is open.
LEMMA SliceNext ==
    ASSUME NEW b \in Seq(Byte), NEW q \in 1..Units(b), NEW T \in SUBSET Slices(b),
           NEW round, Shows(round, b, q, T), NEW s \in Slices(b), \A t \in T : t < s,
           Codes(b)[q] <= s, NEW nal, nal.code = NalCode(b, s), nal.bytes = NalBytes(b, s)
    PROVE  Shows([out |-> [round.out EXCEPT ![q] = WithSlice(@, nal)], seen_slice |-> TRUE],
                 b, q, T \cup {s})
<1>. DEFINE own(i) == OwnOf(b, i, q, T)
            more(i) == OwnOf(b, i, q, T \cup {s})
            next == [out |-> [round.out EXCEPT ![q] = WithSlice(@, nal)], seen_slice |-> TRUE]
<1>1. /\ Units(b) \in Nat /\ q \in Nat /\ q > 0
      /\ \A i \in 1..Units(b) : Codes(b)[i] \in Nat
      /\ \A i, j \in 1..Units(b) : i < j => Codes(b)[i] < Codes(b)[j]
  BY CodesOfUnits
<1>2. s \in Nat
  BY CodeRange, SlicesAre
<1>3. \A i \in 1..q : i # q => more(i) = own(i)
  <2>. TAKE i \in 1..q
  <2>. HAVE i # q
  <2>1. i < q /\ i + 1 \in 1..Units(b) /\ (i + 1 = q \/ i + 1 < q)
    BY <1>1
  <2>2. Codes(b)[i + 1] <= Codes(b)[q] /\ Codes(b)[i + 1] \in Nat /\ Codes(b)[q] \in Nat
    BY <1>1, <2>1
  <2>3. ~(s < Codes(b)[i + 1])
    BY <1>2, <2>2
  <2>. QED  BY <2>1, <2>3 DEF OwnOf
<1>4. more(q) = own(q) \cup {s}
  <2>1. ~(q < q)
    BY <1>1
  <2>. QED  BY <2>1 DEF OwnOf
<1>5. own(q) \in SUBSET Slices(b) /\ \A t \in own(q) : t < s
  BY DEF OwnOf
<1>. HIDE DEF own, more
<1>6. SoFar(b, q, q, more(q)) = WithSlice(SoFar(b, q, q, own(q)), nal)
  <2>1. /\ SlicePlace(b, more(q)) =
               IF SlicePlace(b, own(q)) = NoPlace THEN nal.code ELSE SlicePlace(b, own(q))
        /\ IdOf(b, more(q)) =
               IF SlicePlace(b, own(q)) = NoPlace THEN TemporalIdPlus1(nal.bytes) ELSE IdOf(b, own(q))
        /\ KeyOf(b, more(q)) = (KeyOf(b, own(q)) \/ IsKeyframeType(NalType(nal.bytes)))
    <3>. DEFINE S == own(q)
    <3>. HIDE DEF S
    <3>1. S \in SUBSET Slices(b) /\ \A t \in S : t < s
      BY <1>5 DEF S
    <3>2. /\ SlicePlace(b, S \cup {s}) =
                  IF SlicePlace(b, S) = NoPlace THEN NalCode(b, s) ELSE SlicePlace(b, S)
          /\ IdOf(b, S \cup {s}) =
                  IF SlicePlace(b, S) = NoPlace THEN TemporalIdPlus1(NalBytes(b, s)) ELSE IdOf(b, S)
          /\ KeyOf(b, S \cup {s}) = (KeyOf(b, S) \/ IsKeyframeType(NalType(NalBytes(b, s))))
      BY <3>1, OneSlice, Zenon
    <3>. QED  BY <1>4, <3>2, Zenon DEF S
  <2>. DEFINE a == Pad(b, q)
              e == IF q < q THEN Pad(b, q + 1) ELSE Len(b)
              p == SlicePlace(b, own(q))
              k == KeyOf(b, own(q))
              t == IdOf(b, own(q))
  <2>2. SoFar(b, q, q, own(q)) = UnitWith(a, e, p, k, t)
    BY DEF SoFar
  <2>3. SoFar(b, q, q, more(q)) = UnitWith(a, e, SlicePlace(b, more(q)), KeyOf(b, more(q)), IdOf(b, more(q)))
    BY DEF SoFar
  <2>. HIDE DEF a, e, p, k, t
  <2>4. WithSlice(UnitWith(a, e, p, k, t), nal)
            = UnitWith(a, e, IF p = NoPlace THEN nal.code ELSE p,
                   k \/ IsKeyframeType(NalType(nal.bytes)),
                   IF p = NoPlace THEN TemporalIdPlus1(nal.bytes) ELSE t)
    BY UnitSliced
  <2>5. /\ SlicePlace(b, more(q)) = IF p = NoPlace THEN nal.code ELSE p
        /\ IdOf(b, more(q)) = IF p = NoPlace THEN TemporalIdPlus1(nal.bytes) ELSE t
        /\ KeyOf(b, more(q)) = (k \/ IsKeyframeType(NalType(nal.bytes)))
    BY <2>1, Zenon DEF p, k, t
  <2>. QED  BY <2>2, <2>3, <2>4, <2>5, Zenon
<1>7. round.out = [i \in 1..q |-> SoFar(b, i, q, own(i))]
  BY Zenon DEF Shows, own
<1>8. next.out = [i \in 1..q |-> SoFar(b, i, q, more(i))]
  <2>. DEFINE f(i) == SoFar(b, i, q, own(i))
              g(i) == SoFar(b, i, q, more(i))
              w(x) == WithSlice(x, nal)
  <2>1. \A i \in 1..q : g(i) = IF i = q THEN w(f(q)) ELSE f(i)
    BY <1>3, <1>6, Zenon
  <2>2. next.out = [round.out EXCEPT ![q] = w(round.out[q])]
    OBVIOUS
  <2>3. round.out = [i \in 1..q |-> f(i)] /\ q \in 1..q
    BY <1>1, <1>7
  <2>. HIDE DEF f, g, w, next
  <2>4. next.out = [i \in 1..q |-> g(i)]
    BY <2>1, <2>2, <2>3
  <2>. QED  BY <2>4 DEF g
<1>9. next.seen_slice = (q > 0 /\ \E t \in T \cup {s} : Codes(b)[q] <= t)
  <2>1. q > 0 /\ \E t \in T \cup {s} : Codes(b)[q] <= t
    BY <1>1
  <2>2. next.seen_slice = TRUE
    OBVIOUS
  <2>. QED  BY <2>1, <2>2, Zenon
<1>. HIDE DEF next
<1>10. Shows(next, b, q, T \cup {s})
  BY <1>8, <1>9, Zenon DEF Shows, more
<1>. QED  BY <1>10 DEF next

\* Append to a sequence that is given by its elements.
LEMMA AppendIs ==
    ASSUME NEW q \in Nat, NEW f, f = [i \in 1..q |-> f[i]], NEW e
    PROVE  /\ Len(f) = q
           /\ Append(f, e) = [i \in 1..(q + 1) |-> IF i = q + 1 THEN e ELSE f[i]]
<1>. DEFINE T == {f[i] : i \in 1..q} \cup {e}
            g == [i \in 1..(q + 1) |-> IF i = q + 1 THEN e ELSE f[i]]
<1>1. \A i \in 1..q : f[i] \in T
  OBVIOUS
<1>2. e \in T
  OBVIOUS
<1>. HIDE DEF T
<1>3. f \in [1..q -> T]
  BY <1>1
<1>4. f \in Seq(T) /\ Len(f) = q
  BY <1>3
<1>5. /\ Append(f, e) \in Seq(T) /\ Len(Append(f, e)) = q + 1
      /\ \A i \in 1..q : Append(f, e)[i] = f[i]
      /\ Append(f, e)[q + 1] = e
  BY <1>2, <1>4, AppendProperties
<1>6. g \in Seq(T) /\ Len(g) = q + 1 /\ \A i \in 1..(q + 1) : g[i] = IF i = q + 1 THEN e ELSE f[i]
  <2>1. \A i \in 1..(q + 1) : (IF i = q + 1 THEN e ELSE f[i]) \in T
    <3>1. \A i \in 1..(q + 1) : i = q + 1 \/ i \in 1..q
      OBVIOUS
    <3>. QED  BY <1>1, <1>2, <3>1
  <2>2. g \in [1..(q + 1) -> T]
    BY <2>1
  <2>3. \A i \in 1..(q + 1) : g[i] = IF i = q + 1 THEN e ELSE f[i]
    OBVIOUS
  <2>. HIDE DEF g
  <2>. QED  BY <2>2, <2>3
<1>. HIDE DEF g
<1>7. \A i \in 1..(q + 1) : Append(f, e)[i] = g[i]
  <2>1. \A i \in 1..(q + 1) : i = q + 1 \/ (i # q + 1 /\ i \in 1..q)
    OBVIOUS
  <2>. QED  BY <1>5, <1>6, <2>1
<1>8. Append(f, e) = g
  BY <1>5, <1>6, <1>7, SeqEqual
<1>. QED  BY <1>4, <1>8 DEF g

\* A unit opened behind the others.
LEMMA OpensNext ==
    ASSUME NEW b \in Seq(Byte), NEW q \in 0..(Units(b) - 1), NEW T \in SUBSET Slices(b),
           \A t \in T : t < Codes(b)[q + 1],
           NEW round, Shows(round, b, q, T), NEW nal, nal.pad = Pad(b, q + 1)
    PROVE  Shows([out |-> Append(Ended(round.out, nal.pad), OpenUnit(b, nal)),
                  seen_slice |-> FALSE], b, q + 1, T)
<1>. DEFINE own(i) == OwnOf(b, i, q, T)
            more(i) == OwnOf(b, i, q + 1, T)
            f(i) == SoFar(b, i, q, own(i))
            g(i) == SoFar(b, i, q + 1, more(i))
            e == Pad(b, q + 1)
            ended == Ended(round.out, e)
            next == [out |-> Append(Ended(round.out, nal.pad), OpenUnit(b, nal)),
                     seen_slice |-> FALSE]
<1>1. /\ Units(b) \in Nat /\ q \in Nat /\ q + 1 \in 1..Units(b)
      /\ \A i \in 1..Units(b) : Codes(b)[i] \in Nat
      /\ \A i, j \in 1..Units(b) : i < j => Codes(b)[i] < Codes(b)[j]
  BY CodesOfUnits
<1>2. T \subseteq Nat /\ \A t \in T : ~(Codes(b)[q + 1] <= t)
  <2>1. T \subseteq Nat
    BY CodeRange, SlicesAre
  <2>2. Codes(b)[q + 1] \in Nat
    BY <1>1
  <2>. QED  BY <2>1, <2>2
<1>3. \A i \in 1..q : more(i) = own(i)
  <2>. TAKE i \in 1..q
  <2>1. i < q + 1
    BY <1>1
  <2>2. i < q \/ i + 1 = q + 1
    BY <1>1
  <2>3. \A t \in T : t < Codes(b)[i + 1] \/ i < q
    BY <2>2
  <2>4. \A t \in T : (i < q => t < Codes(b)[i + 1]) <=> (i < q + 1 => t < Codes(b)[i + 1])
    BY <2>1, <2>3
  <2>. QED  BY <2>4 DEF OwnOf
<1>4. more(q + 1) = {}
  BY <1>2 DEF OwnOf
<1>. HIDE DEF own, more
<1>5. \A i \in 1..q : i # q => g(i) = f(i)
  <2>. TAKE i \in 1..q
  <2>. HAVE i # q
  <2>1. i < q /\ i < q + 1
    BY <1>1
  <2>2. more(i) = own(i)
    BY <1>3
  <2>. QED  BY <2>1, <2>2, Zenon DEF SoFar
<1>6. q > 0 => g(q) = [f(q) EXCEPT !.end = e]
  <2>. SUFFICES ASSUME q > 0 PROVE g(q) = [f(q) EXCEPT !.end = e]
    OBVIOUS
  <2>1. more(q) = own(q) /\ q < q + 1 /\ ~(q < q)
    BY <1>1, <1>3
  <2>. DEFINE a == Pad(b, q)
              p == SlicePlace(b, own(q))
              k == KeyOf(b, own(q))
              t == IdOf(b, own(q))
  <2>2. f(q) = UnitWith(a, Len(b), p, k, t)
    BY <2>1, Zenon DEF SoFar
  <2>3. g(q) = UnitWith(a, e, p, k, t)
    BY <2>1, Zenon DEF SoFar
  <2>. HIDE DEF a, p, k, t, e, f, g
  <2>4. [UnitWith(a, Len(b), p, k, t) EXCEPT !.end = e] = UnitWith(a, e, p, k, t)
    BY DEF UnitWith
  <2>. QED  BY <2>2, <2>3, <2>4
<1>7. g(q + 1) = OpenUnit(b, nal)
  <2>1. ~(q + 1 < q + 1)
    BY <1>1
  <2>2. SlicePlace(b, {}) = NoPlace /\ IdOf(b, {}) = 1 /\ KeyOf(b, {}) = FALSE
    BY DEF SlicePlace, IdOf, KeyOf
  <2>3. g(q + 1) = UnitWith(Pad(b, q + 1), Len(b), NoPlace, FALSE, 1)
    BY <1>4, <2>1, <2>2, Zenon DEF SoFar
  <2>. HIDE DEF g
  <2>. QED  BY <2>3 DEF UnitWith, OpenUnit
<1>8. round.out = [i \in 1..q |-> f(i)]
  BY Zenon DEF Shows, own
<1>. HIDE DEF f, g
<1>9. ended = [i \in 1..q |-> g(i)]
  <2>1. CASE q = 0
    <3>1. 1..q = {}
      BY <2>1
    <3>2. round.out = << >>
      BY <1>8, <3>1
    <3>3. ended = << >>
      BY <3>2, Zenon DEF Ended
    <3>. HIDE DEF ended
    <3>. QED  BY <3>1, <3>3
  <2>2. CASE q > 0
    <3>1. q \in 1..q /\ DOMAIN round.out = 1..q /\ round.out # << >> /\ Len(round.out) = q
      BY <1>1, <1>8, <2>2
    <3>2. ended = [round.out EXCEPT ![q] = [round.out[q] EXCEPT !.end = e]]
      <4>. HIDE DEF e
      <4>. QED  BY <3>1 DEF Ended
    <3>. HIDE DEF ended
    <3>3. round.out[q] = f(q)
      BY <1>8, <3>1
    <3>4. ended = [round.out EXCEPT ![q] = g(q)]
      <4>. HIDE DEF e
      <4>. QED  BY <1>6, <2>2, <3>2, <3>3
    <3>. QED  BY <1>5, <1>8, <3>1, <3>4
  <2>. QED  BY <1>1, <2>1, <2>2
<1>. HIDE DEF ended, e
<1>10. Append(ended, OpenUnit(b, nal)) = [i \in 1..(q + 1) |-> g(i)]
  <2>1. ended = [i \in 1..q |-> ended[i]] /\ \A i \in 1..q : ended[i] = g(i)
    BY <1>9
  <2>2. Append(ended, OpenUnit(b, nal))
            = [i \in 1..(q + 1) |-> IF i = q + 1 THEN OpenUnit(b, nal) ELSE ended[i]]
    BY <1>1, <2>1, AppendIs
  <2>3. \A i \in 1..(q + 1) : i = q + 1 \/ (i # q + 1 /\ i \in 1..q)
    BY <1>1
  <2>4. \A i \in 1..(q + 1) : (IF i = q + 1 THEN OpenUnit(b, nal) ELSE ended[i]) = g(i)
    BY <1>7, <2>1, <2>3
  <2>. QED  BY <2>2, <2>4
<1>11. next.out = [i \in 1..(q + 1) |-> g(i)]
  <2>1. next.out = Append(Ended(round.out, nal.pad), OpenUnit(b, nal))
    OBVIOUS
  <2>2. Ended(round.out, nal.pad) = ended
    BY Zenon DEF ended, e
  <2>. HIDE DEF next
  <2>. QED  BY <1>10, <2>1, <2>2
<1>12. next.seen_slice = (q + 1 > 0 /\ \E t \in T : Codes(b)[q + 1] <= t)
  <2>1. ~(\E t \in T : Codes(b)[q + 1] <= t) /\ next.seen_slice = FALSE
    BY <1>2
  <2>. QED  BY <2>1, Zenon
<1>. HIDE DEF next
<1>13. Shows(next, b, q + 1, T)
  BY <1>11, <1>12, Zenon DEF Shows, g, more
<1>. QED  BY <1>13 DEF next

\* The loop has come by the code c in its first k rounds.
ComeBy(b, k, c) == \E j \in 1..k : Ascending(StartCodes(b))[j] = c
Come(b, k)      == {s \in Slices(b) : ComeBy(b, k, s)}
Opened(b, k, q) == \A i \in 1..Units(b) : i <= q <=> ComeBy(b, k, Codes(b)[i])
Holds(round, b, k) ==
    \E q \in 0..Units(b) : Opened(b, k, q) /\ Shows(round, b, q, Come(b, k))

\* The k-th code is the one that comes by in round k.
LEMMA ComeByIs ==
    ASSUME NEW b \in Seq(Byte), NEW k \in 1..Len(Ascending(StartCodes(b))), NEW c,
           c = Ascending(StartCodes(b))[k]
    PROVE  /\ c \in StartCodes(b)
           /\ \A d \in StartCodes(b) : ComeBy(b, k - 1, d) <=> d < c
           /\ \A d \in StartCodes(b) : ComeBy(b, k, d) <=> d < c \/ d = c
<1>. DEFINE a == Ascending(StartCodes(b))
            n == Len(a)
<1>1. /\ n \in Nat
      /\ \A i \in 1..n : a[i] \in StartCodes(b) /\ a[i] \in Nat
      /\ \A i, j \in 1..n : i < j => a[i] < a[j]
      /\ \A p \in StartCodes(b) : \E i \in 1..n : a[i] = p
  BY CodesInOrder
<1>2. k \in 1..n /\ c = a[k]
  OBVIOUS
<1>3. \A m, d : ComeBy(b, m, d) <=> \E j \in 1..m : a[j] = d
  BY DEF ComeBy
<1>. HIDE DEF a, n
<1>4. c \in StartCodes(b) /\ c \in Nat
  BY <1>1, <1>2
<1>5. ASSUME NEW d \in StartCodes(b)
      PROVE  (ComeBy(b, k - 1, d) <=> d < c) /\ (ComeBy(b, k, d) <=> d < c \/ d = c)
  <2>1. PICK i \in 1..n : a[i] = d
    BY <1>1
  <2>2. \A j \in 1..n : a[j] = d => j = i
    <3>. TAKE j \in 1..n
    <3>1. a[i] \in Nat /\ a[j] \in Nat /\ (i < j => a[i] < a[j]) /\ (j < i => a[j] < a[i])
      BY <1>1
    <3>. QED  BY <1>1, <2>1, <3>1
  <2>3. d < c <=> i < k
    <3>1. a[i] \in Nat /\ a[k] \in Nat /\ (i < k => a[i] < a[k]) /\ (k < i => a[k] < a[i])
      BY <1>1, <1>2
    <3>2. i = k => a[i] = a[k]
      OBVIOUS
    <3>. QED  BY <1>1, <1>2, <2>1, <3>1, <3>2
  <2>4. d = c <=> i = k
    BY <1>2, <2>1, <2>2
  <2>5. k - 1 \in Nat /\ k \in Nat
    BY <1>1, <1>2
  <2>6. ComeBy(b, k - 1, d) <=> i \in 1..(k - 1)
    <3>1. \A j \in 1..(k - 1) : j \in 1..n
      BY <1>1, <1>2
    <3>. QED  BY <1>3, <2>1, <2>2, <2>5, <3>1
  <2>7. ComeBy(b, k, d) <=> i \in 1..k
    <3>1. \A j \in 1..k : j \in 1..n
      BY <1>1, <1>2
    <3>. QED  BY <1>3, <2>1, <2>2, <2>5, <3>1
  <2>. QED  BY <1>1, <1>2, <2>1, <2>3, <2>4, <2>6, <2>7
<1>. QED  BY <1>4, <1>5

\* The round's question, whether a unit begins here, is the closed form's.
LEMMA BoundaryAsked ==
    ASSUME NEW b \in Seq(Byte), NEW c \in Typed(b), NEW q \in 0..Units(b),
           \A i \in 1..Units(b) : i <= q <=> Codes(b)[i] < c,
           NEW round, Shows(round, b, q, {s \in Slices(b) : s < c}),
           NEW nal, nal.bytes = NalBytes(b, c)
    PROVE  /\ Boundary(round, nal) <=> c \in Boundaries(b)
           /\ q = 0 => c \in Boundaries(b)
<1>. DEFINE T == {s \in Slices(b) : s < c}
<1>1. /\ Units(b) \in Nat /\ q \in Nat
      /\ \A i \in 1..Units(b) : Codes(b)[i] \in Boundaries(b) /\ Codes(b)[i] \in Nat
      /\ \A i, j \in 1..Units(b) : i < j => Codes(b)[i] < Codes(b)[j]
      /\ \A d \in Boundaries(b) : \E i \in 1..Units(b) : Codes(b)[i] = d
  BY CodesOfUnits
<1>2. c \in StartCodes(b) /\ c \in Nat /\ Typed(b) \subseteq Nat
  BY CodeRange DEF Typed
<1>3. round.out = [i \in 1..q |-> SoFar(b, i, q, OwnOf(b, i, q, T))]
  BY Zenon DEF Shows
<1>4. CASE q = 0
  <2>1. round.out = << >>
    <3>1. 1..q = {}
      BY <1>4
    <3>. HIDE DEF T
    <3>. QED  BY <1>3, <3>1
  <2>2. c \in Boundaries(b)
    <3>. DEFINE m == Min(Typed(b))
    <3>1. m \in Typed(b) /\ \A d \in Typed(b) : m <= d
      BY <1>2, MinExists
    <3>. HIDE DEF m
    <3>2. m \in Boundaries(b)
      BY <3>1, BoundaryDef
    <3>3. PICK i \in 1..Units(b) : Codes(b)[i] = m
      BY <1>1, <3>2
    <3>4. ~(m < c)
      BY <1>1, <1>4, <3>3
    <3>5. m = c
      BY <1>2, <3>1, <3>4
    <3>. QED  BY <3>2, <3>5
  <2>. QED  BY <2>1, <2>2 DEF Boundary
<1>5. CASE q > 0
  <2>. DEFINE e == Codes(b)[q]
  <2>1. q \in 1..Units(b) /\ e \in Boundaries(b) /\ e \in Nat /\ e < c
    BY <1>1, <1>5
  <2>2. \A d \in Boundaries(b) : d < c => d <= e
    <3>. TAKE d \in Boundaries(b)
    <3>. HAVE d < c
    <3>1. PICK i \in 1..Units(b) : Codes(b)[i] = d
      BY <1>1
    <3>2. i = q \/ i < q
      BY <1>1, <3>1
    <3>. QED  BY <1>1, <2>1, <3>1, <3>2
  <2>3. round.out # << >>
    <3>1. DOMAIN round.out = 1..q /\ 1 \in 1..q
      BY <1>1, <1>3, <1>5
    <3>. QED  BY <3>1
  <2>4. round.seen_slice <=> \E s \in Slices(b) : e <= s /\ s < c
    <3>1. round.seen_slice = (q > 0 /\ \E t \in T : e <= t)
      BY Zenon DEF Shows
    <3>2. (\E t \in T : e <= t) <=> \E s \in Slices(b) : e <= s /\ s < c
      BY Zenon
    <3>. HIDE DEF T, e
    <3>. QED  BY <1>5, <3>1, <3>2, Zenon
  <2>. HIDE DEF e
  <2>5. (\E s \in Slices(b) : e <= s /\ s < c) <=> SeenSlice(Slices(b), Openers(b), c)
    BY <1>2, <2>1, <2>2, SeenSliceIs
  <2>6. ~\A d \in Typed(b) : c <= d
    BY <1>2, <2>1, BoundaryIsTyped
  <2>7. c \in Openers(b) <=> Opens(nal.bytes)
    BY DEF Openers
  <2>8. c \in Boundaries(b) <=> c \in Openers(b) /\ SeenSlice(Slices(b), Openers(b), c)
    BY <2>6, BoundaryDef
  <2>9. Boundary(round, nal) <=> round.seen_slice /\ Opens(nal.bytes)
    BY <2>3, Zenon DEF Boundary
  <2>10. Boundary(round, nal) <=> c \in Boundaries(b)
    BY <2>4, <2>5, <2>7, <2>8, <2>9, Zenon
  <2>11. q # 0
    BY <1>5
  <2>. QED  BY <2>10, <2>11, Zenon
<1>. QED  BY <1>1, <1>4, <1>5

\* A round of access_units.
LEMMA NalRound ==
    ASSUME NEW b \in Seq(Byte), NEW k \in 1..Len(Ascending(StartCodes(b))),
           NEW round, Holds(round, b, k - 1)
    PROVE  Holds(AfterNal(b, round, ScanNals(b)[k]), b, k)
<1>. DEFINE c == Ascending(StartCodes(b))[k]
            nal == ScanNals(b)[k]
            T == Come(b, k - 1)
            begun == [out |-> Append(Ended(round.out, nal.pad), OpenUnit(b, nal)),
                      seen_slice |-> FALSE]
            opened == IF Boundary(round, nal) THEN begun ELSE round
            last == Len(opened.out)
            sliced == [out |-> [opened.out EXCEPT ![last] = WithSlice(@, nal)],
                       seen_slice |-> TRUE]
            after == AfterNal(b, round, nal)
<1>. SUFFICES Holds(after, b, k)
  OBVIOUS
<1>1. /\ c \in StartCodes(b)
      /\ \A d \in StartCodes(b) : ComeBy(b, k - 1, d) <=> d < c
      /\ \A d \in StartCodes(b) : ComeBy(b, k, d) <=> d < c \/ d = c
  BY ComeByIs
<1>2. nal.pad = NalPad(b, c) /\ nal.code = NalCode(b, c) /\ nal.bytes = NalBytes(b, c)
  BY DEF ScanNals
<1>3. after = IF NalType(nal.bytes) = NoType THEN round
              ELSE IF ~IsVcl(nal.bytes) THEN opened ELSE sliced
  <2>. HIDE DEF nal
  <2>. QED  BY Zenon DEF AfterNal
<1>4. /\ Units(b) \in Nat
      /\ \A i \in 1..Units(b) : /\ Codes(b)[i] \in Boundaries(b) /\ Codes(b)[i] \in Nat
                                /\ Codes(b)[i] \in StartCodes(b)
      /\ \A i, j \in 1..Units(b) : i < j => Codes(b)[i] < Codes(b)[j]
      /\ \A d \in Boundaries(b) : \E i \in 1..Units(b) : Codes(b)[i] = d
  BY CodesOfUnits
<1>5. Slices(b) \subseteq StartCodes(b) /\ Slices(b) \subseteq Nat /\ c \in Nat
  BY <1>1, SlicesAre, CodeRange
<1>. HIDE DEF c, nal
<1>6. T = {s \in Slices(b) : s < c} /\ Come(b, k) = {s \in Slices(b) : s < c \/ s = c}
  BY <1>1, <1>5 DEF Come
<1>7. PICK q \in 0..Units(b) : Opened(b, k - 1, q) /\ Shows(round, b, q, T)
  BY DEF Holds
<1>8. \A i \in 1..Units(b) : i <= q <=> Codes(b)[i] < c
  BY <1>1, <1>4, <1>7 DEF Opened
<1>. HIDE DEF T, opened, sliced, begun, after
<1>9. CASE NalType(nal.bytes) = NoType
  <2>1. c \notin Typed(b)
    BY <1>2, <1>9 DEF Typed
  <2>2. c \notin Slices(b) /\ c \notin Boundaries(b)
    BY <2>1, BoundaryIsTyped DEF Slices
  <2>3. Come(b, k) = T
    BY <1>6, <2>2
  <2>4. Opened(b, k, q)
    BY <1>1, <1>4, <1>8, <2>2 DEF Opened
  <2>5. after = round
    BY <1>3, <1>9
  <2>. QED  BY <1>7, <2>3, <2>4, <2>5 DEF Holds
<1>10. CASE NalType(nal.bytes) # NoType
  <2>1. c \in Typed(b)
    BY <1>1, <1>2, <1>10 DEF Typed
  <2>2. (Boundary(round, nal) <=> c \in Boundaries(b)) /\ (q = 0 => c \in Boundaries(b))
    <3>1. Shows(round, b, q, {s \in Slices(b) : s < c})
      BY <1>6, <1>7
    <3>. QED  BY <1>2, <1>8, <2>1, <3>1, BoundaryAsked
  <2>3. \E p \in 1..Units(b) : /\ \A i \in 1..Units(b) : i <= p <=> Codes(b)[i] <= c
                               /\ Shows(opened, b, p, T)
    <3>1. CASE c \in Boundaries(b)
      <4>1. PICK i \in 1..Units(b) : Codes(b)[i] = c
        BY <1>4, <3>1
      <4>2. i = q + 1 /\ q \in 0..(Units(b) - 1)
        <5>1. ~(i <= q)
          BY <1>4, <1>8, <4>1
        <5>2. ~(q + 1 < i)
          <6>. SUFFICES ASSUME q + 1 < i PROVE FALSE
            OBVIOUS
          <6>1. q + 1 \in 1..Units(b)
            BY <1>4
          <6>2. Codes(b)[q + 1] < c
            BY <1>4, <4>1, <6>1
          <6>3. q + 1 <= q
            BY <1>8, <6>1, <6>2
          <6>. QED  BY <6>3
        <5>. QED  BY <1>4, <5>1, <5>2
      <4>3. nal.pad = Pad(b, q + 1) /\ \A t \in T : t < Codes(b)[q + 1]
        BY <1>2, <1>6, <4>1, <4>2 DEF Pad
      <4>4. T \in SUBSET Slices(b)
        BY <1>6
      <4>5. Shows(begun, b, q + 1, T)
        BY <1>7, <4>2, <4>3, <4>4, OpensNext, Zenon DEF begun
      <4>6. opened = begun
        BY <2>2, <3>1, Zenon DEF opened
      <4>7. \A j \in 1..Units(b) : j <= q + 1 <=> Codes(b)[j] <= c
        <5>. TAKE j \in 1..Units(b)
        <5>1. j = i \/ j < i \/ i < j
          BY <1>4
        <5>2. Codes(b)[j] \in Nat /\ (j < i => Codes(b)[j] < c) /\ (i < j => c < Codes(b)[j])
          BY <1>4, <4>1
        <5>. QED  BY <1>4, <1>5, <4>1, <4>2, <5>1, <5>2
      <4>8. q + 1 \in 1..Units(b)
        BY <1>4, <4>2
      <4>. QED  BY <4>5, <4>6, <4>7, <4>8
    <3>2. CASE c \notin Boundaries(b)
      <4>1. q \in 1..Units(b)
        BY <1>4, <2>2, <3>2
      <4>2. opened = round
        BY <2>2, <3>2, Zenon DEF opened
      <4>3. \A i \in 1..Units(b) : i <= q <=> Codes(b)[i] <= c
        BY <1>4, <1>5, <1>8, <3>2
      <4>. QED  BY <1>7, <4>1, <4>2, <4>3
    <3>. QED  BY <3>1, <3>2
  <2>4. PICK p \in 1..Units(b) : /\ \A i \in 1..Units(b) : i <= p <=> Codes(b)[i] <= c
                                 /\ Shows(opened, b, p, T)
    BY <2>3
  <2>5. Opened(b, k, p) /\ p \in 0..Units(b)
    <3>1. \A i \in 1..Units(b) : Codes(b)[i] <= c <=> ComeBy(b, k, Codes(b)[i])
      BY <1>1, <1>4, <1>5
    <3>. QED  BY <1>4, <2>4, <3>1 DEF Opened
  <2>6. CASE ~IsVcl(nal.bytes)
    <3>1. c \notin Slices(b)
      BY <1>2, <2>6 DEF Slices
    <3>2. Come(b, k) = T
      BY <1>6, <3>1
    <3>3. after = opened
      BY <1>3, <1>10, <2>6, Zenon
    <3>. QED  BY <2>4, <2>5, <3>2, <3>3 DEF Holds
  <2>7. CASE IsVcl(nal.bytes)
    <3>1. c \in Slices(b)
      BY <1>2, <2>1, <2>7 DEF Slices
    <3>2. Come(b, k) = T \cup {c} /\ T \in SUBSET Slices(b) /\ \A t \in T : t < c
      BY <1>6, <3>1
    <3>3. Codes(b)[p] <= c
      BY <1>4, <2>4
    <3>4. Shows([out |-> [opened.out EXCEPT ![p] = WithSlice(@, nal)], seen_slice |-> TRUE],
                b, p, T \cup {c})
      BY <1>2, <2>4, <3>1, <3>2, <3>3, SliceNext
    <3>5. last = p
      <4>1. opened.out = [i \in 1..p |-> SoFar(b, i, p, OwnOf(b, i, p, T))]
        BY <2>4, Zenon DEF Shows
      <4>. QED  BY <1>4, <4>1
    <3>6. after = sliced
      BY <1>3, <1>10, <2>7, Zenon
    <3>7. Shows(after, b, p, Come(b, k))
      BY <3>2, <3>4, <3>5, <3>6 DEF sliced
    <3>. QED  BY <2>5, <3>7 DEF Holds
  <2>. QED  BY <2>6, <2>7
<1>. QED  BY <1>9, <1>10

\* The slices between a boundary and the next are those before the next one's
\* padding.
LEMMA OwnIs ==
    ASSUME NEW b \in Seq(Byte), NEW k \in 1..Units(b)
    PROVE  OwnOf(b, k, Units(b), Slices(b)) =
               {c \in StartCodes(b) : /\ Codes(b)[k] <= c /\ c < UnitEnd(b, k)
                                      /\ IsVcl(NalBytes(b, c))}
<1>1. /\ Units(b) \in Nat
      /\ \A i \in 1..Units(b) : Codes(b)[i] \in StartCodes(b) /\ Codes(b)[i] \in Nat
  BY CodesOfUnits
<1>2. /\ Slices(b) \subseteq StartCodes(b)
      /\ \A c \in StartCodes(b) : IsVcl(NalBytes(b, c)) <=> c \in Slices(b)
  BY SlicesAre
<1>3. ASSUME NEW c \in StartCodes(b)
      PROVE  c < UnitEnd(b, k) <=> (k < Units(b) => c < Codes(b)[k + 1])
  <2>1. c \in Nat /\ c + 3 <= Len(b) /\ Len(b) \in Nat
    BY CodeRange
  <2>2. CASE k < Units(b)
    <3>. DEFINE d == Codes(b)[k + 1]
    <3>1. d \in StartCodes(b) /\ d \in Nat
      BY <1>1, <2>2
    <3>. HIDE DEF d
    <3>2. UnitEnd(b, k) = NalPad(b, d)
      BY <2>2, Zenon DEF UnitEnd, Pad, d
    <3>3. NalPad(b, d) \in 0..d
      BY <3>1, PadRange
    <3>4. c < d => c < NalPad(b, d)
      <4>1. c < d => c + 3 <= NalPad(b, d)
        BY <3>1, PadBehindCode
      <4>. QED  BY <2>1, <3>3, <4>1
    <3>5. c < UnitEnd(b, k) <=> c < d
      BY <2>1, <3>1, <3>2, <3>3, <3>4
    <3>. QED  BY <2>2, <3>5 DEF d
  <2>3. CASE ~(k < Units(b))
    <3>1. UnitEnd(b, k) = Len(b)
      BY <2>3 DEF UnitEnd
    <3>. QED  BY <2>1, <2>3, <3>1
  <2>. QED  BY <2>2, <2>3
<1>4. \A c : c \in OwnOf(b, k, Units(b), Slices(b)) <=>
             /\ c \in Slices(b) /\ Codes(b)[k] <= c
             /\ (k < Units(b) => c < Codes(b)[k + 1])
  BY DEF OwnOf
<1>. QED  BY <1>2, <1>3, <1>4, Zenon

\* access_units, a NAL at a time, returns the units H26x says the bytes have.
THEOREM AccessUnitsLoopIs ==
    ASSUME NEW b \in Seq(Byte)
    PROVE  AccessUnitsLoop(b) = AccessUnits(b)
<1>. DEFINE a == Ascending(StartCodes(b))
            n == Len(a)
            nals == ScanNals(b)
            start == [out |-> << >>, seen_slice |-> FALSE]
            U == Units(b)
            own(k) == OwnOf(b, k, U, Slices(b))
<1>1. n \in Nat /\ \A p \in StartCodes(b) : \E i \in 1..n : a[i] = p
  BY CodesInOrder
<1>2. DOMAIN nals = 1..n
  BY DEF ScanNals
<1>3. PICK r : /\ r[0] = start
               /\ \A k \in 1..n : r[k] = AfterNal(b, r[k - 1], nals[k])
               /\ AllNals(b, nals, start) = r[n]
  <2>. HIDE DEF nals, start, n
  <2>. QED  BY <1>1, <1>2, FoldNals
<1>4. AccessUnitsLoop(b) = Placed(r[n].out)
  <2>1. ScanLoop(b) = nals
    BY ScanLoopIs
  <2>. QED  BY <1>3, <2>1, Zenon DEF AccessUnitsLoop, AllNals
<1>5. U \in Nat /\ \A i \in 1..U : Codes(b)[i] \in StartCodes(b)
  BY CodesOfUnits
<1>6. Holds(r[0], b, 0)
  <2>1. 0 \in 0..U /\ 1..0 = {}
    BY <1>5
  <2>2. Opened(b, 0, 0)
    <3>1. \A i \in 1..U : ~(i <= 0)
      BY <1>5
    <3>2. \A c : ~ComeBy(b, 0, c)
      BY <2>1 DEF ComeBy
    <3>. QED  BY <3>1, <3>2 DEF Opened
  <2>3. start.out = << >> /\ start.seen_slice = FALSE
    OBVIOUS
  <2>4. Shows(start, b, 0, Come(b, 0))
    <3>1. << >> = [i \in 1..0 |-> SoFar(b, i, 0, OwnOf(b, i, 0, Come(b, 0)))]
      BY <2>1
    <3>2. start.seen_slice = (0 > 0 /\ \E s \in Come(b, 0) : Codes(b)[0] <= s)
      <4>1. ~(0 > 0)
        OBVIOUS
      <4>. HIDE DEF start
      <4>. QED  BY <2>3, <4>1, Zenon
    <3>. HIDE DEF start
    <3>. QED  BY <2>3, <3>1, <3>2, Zenon DEF Shows
  <2>. HIDE DEF start
  <2>. QED  BY <1>3, <2>1, <2>2, <2>4 DEF Holds
<1>7. \A k \in 0..n : Holds(r[k], b, k)
  <2>. DEFINE Good == {k \in 0..n : Holds(r[k], b, k)}
  <2>. HIDE DEF n, nals, start
  <2>1. 0 \in Good
    BY <1>1, <1>6
  <2>2. ASSUME NEW k \in 0..(n - 1), k \in Good PROVE k + 1 \in Good
    <3>1. k + 1 \in 1..n /\ (k + 1) - 1 = k /\ k + 1 \in 0..n
      BY <1>1
    <3>2. Holds(r[(k + 1) - 1], b, (k + 1) - 1)
      BY <2>2, <3>1
    <3>. DEFINE m == k + 1
    <3>. HIDE DEF m
    <3>3. m \in 1..n /\ Holds(r[m - 1], b, m - 1)
      BY <3>1, <3>2 DEF m
    <3>4. Holds(AfterNal(b, r[m - 1], ScanNals(b)[m]), b, m)
      BY <3>3, NalRound DEF n
    <3>5. Holds(r[m], b, m)
      BY <1>3, <3>3, <3>4, Zenon DEF nals
    <3>. QED  BY <3>1, <3>5 DEF m
  <2>3. 0 \in Nat /\ \A k \in 0..(n - 1) : k \in Good => k + 1 \in Good
    BY <2>2
  <2>. HIDE DEF Good
  <2>4. \A k \in 0..n : k \in Good
    BY <1>1, <2>1, <2>3, Upwards
  <2>. QED  BY <2>4 DEF Good
<1>. HIDE DEF start, nals
<1>8. r[n].out = [k \in 1..U |-> SoFar(b, k, U, own(k))]
  <2>1. \A c \in StartCodes(b) : ComeBy(b, n, c)
    BY <1>1 DEF ComeBy
  <2>2. Come(b, n) = Slices(b)
    BY <2>1, SlicesAre DEF Come
  <2>3. Holds(r[n], b, n)
    <3>. HIDE DEF n
    <3>. QED  BY <1>1, <1>7
  <2>. HIDE DEF n
  <2>4. PICK q \in 0..U : Opened(b, n, q) /\ Shows(r[n], b, q, Come(b, n))
    BY <2>3 DEF Holds
  <2>5. q = U
    <3>1. \A i \in 1..U : i <= q
      BY <1>5, <2>1, <2>4 DEF Opened
    <3>2. U > 0 => U <= q
      BY <1>5, <3>1
    <3>. QED  BY <1>5, <3>2
  <2>. QED  BY <2>2, <2>4, <2>5, Zenon DEF Shows
<1>. DEFINE slices(k) == {c \in StartCodes(b) : /\ Codes(b)[k] <= c /\ c < UnitEnd(b, k)
                                                /\ IsVcl(NalBytes(b, c))}
            one(k) == AccessUnitOf(b, Codes(b)[k], UnitEnd(b, k), slices(k))
            out == r[n].out
            two(k) == [out[k] EXCEPT !.insert_at = IF out[k].insert_at = NoPlace THEN out[k].end
                                                   ELSE out[k].insert_at]
<1>9. AccessUnits(b) = [k \in 1..U |-> one(k)]
  BY DEF AccessUnits, AccessUnitsAt, Codes, Units, UnitEnd, Pad
<1>10. Placed(out) = [k \in 1..Len(out) |-> two(k)]
  <2>. HIDE DEF out
  <2>. QED  BY Zenon DEF Placed
<1>11. Len(out) = U /\ \A k \in 1..U : out[k] = SoFar(b, k, U, own(k))
  <2>. HIDE DEF own, out
  <2>. QED  BY <1>5, <1>8 DEF out
<1>12. ASSUME NEW k \in 1..U PROVE two(k) = one(k)
  <2>1. own(k) = slices(k)
    BY OwnIs
  <2>. DEFINE S == slices(k)
              e == UnitEnd(b, k)
  <2>. HIDE DEF own, out, slices
  <2>2. out[k] = UnitWith(Pad(b, k), e, SlicePlace(b, S), KeyOf(b, S), IdOf(b, S))
    BY <1>11, <2>1, Zenon DEF SoFar, UnitEnd
  <2>3. one(k) = UnitWith(Pad(b, k), e, IF S = {} THEN e ELSE NalCode(b, Min(S)),
                      KeyOf(b, S), IdOf(b, S))
    BY Zenon DEF AccessUnitOf, UnitWith, Pad, KeyOf, IdOf
  <2>4. S # {} => NalCode(b, Min(S)) # NoPlace
    <3>. SUFFICES ASSUME S # {} PROVE NalCode(b, Min(S)) # NoPlace
      OBVIOUS
    <3>1. S \subseteq StartCodes(b)
      BY DEF slices
    <3>2. S \in SUBSET Nat
      BY <3>1, CodeRange
    <3>. DEFINE m == Min(S)
    <3>. HIDE DEF S
    <3>3. m \in StartCodes(b)
      BY <3>1, <3>2, MinExists
    <3>. HIDE DEF m
    <3>4. m \in Nat /\ NalPad(b, m) \in 0..m
      BY <3>3, CodeRange, PadRange
    <3>5. NalCode(b, m) # NoPlace
      <4>. HIDE DEF NalPad
      <4>. QED  BY <3>4 DEF NalCode, NoPlace
    <3>. QED  BY <3>5 DEF m
  <2>. DEFINE p == SlicePlace(b, S)
              g == IF p = NoPlace THEN e ELSE p
              x == Pad(b, k)
              y == KeyOf(b, S)
              z == IdOf(b, S)
  <2>5. g = IF S = {} THEN e ELSE NalCode(b, Min(S))
    BY <2>4, Zenon DEF SlicePlace
  <2>6. out[k].insert_at = p /\ out[k].end = e
    BY <2>2, UnitWithIs
  <2>7. two(k) = [out[k] EXCEPT !.insert_at = g]
    <3>. HIDE DEF p
    <3>. QED  BY <2>6, Zenon
  <2>8. one(k) = UnitWith(x, e, g, y, z)
    BY <2>3, <2>5, Zenon
  <2>9. out[k] = UnitWith(x, e, p, y, z)
    BY <2>2
  <2>. HIDE DEF x, y, z, p, g, e, S, one, two
  <2>10. [UnitWith(x, e, p, y, z) EXCEPT !.insert_at = g] = UnitWith(x, e, g, y, z)
    BY DEF UnitWith
  <2>. QED  BY <2>7, <2>8, <2>9, <2>10
<1>. HIDE DEF one, two, out
<1>13. Placed(out) = AccessUnits(b)
  BY <1>9, <1>10, <1>11, <1>12
<1>. QED  BY <1>4, <1>13 DEF out

\* The fold of temporal_units, and the rounds it is.
AllObus(b, starts, first) == FoldLeft(LAMBDA units, at : AfterObu(b, units, at), first, starts)

LEMMA FoldObus ==
    ASSUME NEW b, NEW starts, NEW first, NEW n \in Nat, DOMAIN starts = 1..n
    PROVE  \E r : /\ r[0] = first
                  /\ \A k \in 1..n : r[k] = AfterObu(b, r[k - 1], starts[k])
                  /\ AllObus(b, starts, first) = r[n]
<1>. DEFINE one(h, s) == IF s = {} THEN first
                         ELSE AfterObu(b, h[s \ {Max(s)}], starts[Max(s)])
            P(h) == h = [s \in SUBSET (1..n) |-> one(h, s)]
            it == CHOOSE h : P(h)
<1>1. \A h, s : one(h, s) = IF s = {} THEN first
                           ELSE Round("av1", b, h[s \ {Max(s)}], starts[Max(s)])
  <2>1. "av1" # "h26x"
    OBVIOUS
  <2>. QED  BY <2>1, Zenon DEF Round
<1>2. \A h : P(h) <=> Goes(h, "av1", b, starts, first, n)
  <2>. TAKE h
  <2>. DEFINE two(s) == IF s = {} THEN first
                        ELSE Round("av1", b, h[s \ {Max(s)}], starts[Max(s)])
  <2>1. \A s : one(h, s) = two(s)
    BY <1>1, Zenon
  <2>2. Goes(h, "av1", b, starts, first, n) <=> h = [s \in SUBSET (1..n) |-> two(s)]
    BY Zenon DEF Goes
  <2>. HIDE DEF one, two
  <2>. QED  BY <2>1, <2>2
<1>3. AllObus(b, starts, first) = it[1..n]
  BY Zenon DEF AllObus, FoldLeft, MapThenFoldSet
<1>4. Goes(it, "av1", b, starts, first, n)
  <2>1. \E h : P(h)
    BY <1>2, FoldExists, Zenon
  <2>2. P(it)
    BY <2>1, Zenon
  <2>. QED  BY <1>2, <2>2, Zenon
<1>. HIDE DEF it
<1>5. PICK r : Rounds(r, "av1", b, starts, first, n) /\ r[n] = it[1..n]
  BY <1>4, FoldRounds
<1>6. r[0] = first /\ \A k \in 1..n : r[k] = AfterObu(b, r[k - 1], starts[k])
  <2>1. "av1" # "h26x"
    OBVIOUS
  <2>. QED  BY <1>5, <2>1, Zenon DEF Rounds, Round
<1>. QED  BY <1>3, <1>5, <1>6, Zenon

\* The same of temporal_units: what the loop has of the unit that opens at i, of
\* the q it has opened, when the OBUs of T have come by.
DelimiterList(b) == Ascending(Delimiters(b))
OwnObus(b, i, q, T) ==
    {s \in T : DelimiterList(b)[i] <= s /\ (i < q => s < DelimiterList(b)[i + 1])}
FramesOf(b, S) == {s \in S : ObuAt(b, s).kind \in FRAME_OBUS}
FrameOf(b, S)  == IF FramesOf(b, S) = {} THEN NoPlace ELSE Min(FramesOf(b, S))
HeaderIn(b, S) == \E s \in S : ObuAt(b, s).kind = OBU_SEQUENCE_HEADER
TimeUnitWith(start_, end_, insert_, header_) ==
    [start |-> start_, end |-> end_, insert_at |-> insert_, has_sequence_header |-> header_]
TimeSoFar(b, i, q, S) ==
    TimeUnitWith(DelimiterList(b)[i], IF i < q THEN DelimiterList(b)[i + 1] ELSE Len(b),
                 FrameOf(b, S), HeaderIn(b, S))
ShowsTime(units, b, q, T) ==
    units = [i \in 1..q |-> TimeSoFar(b, i, q, OwnObus(b, i, q, T))]

\* The places at which temporal units open, in order.
LEMMA OpensAre ==
    ASSUME NEW b \in Seq(Byte), ~ScanFails(b)
    PROVE  LET V == Len(DelimiterList(b))
           IN  /\ V \in Nat
               /\ \A i \in 1..V : DelimiterList(b)[i] \in Delimiters(b) /\ DelimiterList(b)[i] \in Nat
               /\ \A i, j \in 1..V : i < j => DelimiterList(b)[i] < DelimiterList(b)[j]
               /\ \A d \in Delimiters(b) : \E i \in 1..V : DelimiterList(b)[i] = d
<1>1. Delimiters(b) \in SUBSET Nat /\ IsFiniteSet(Delimiters(b))
  BY DelimitersAre
<1>2. /\ DelimiterList(b) \in Seq(Delimiters(b))
      /\ Len(DelimiterList(b)) = Cardinality(Delimiters(b)) /\ Cardinality(Delimiters(b)) \in Nat
      /\ \A i, j \in 1..Cardinality(Delimiters(b)) : i < j => DelimiterList(b)[i] < DelimiterList(b)[j]
  BY <1>1, AscendingProperties DEF DelimiterList
<1>3. /\ \A k \in 1..Cardinality(Delimiters(b)) : DelimiterList(b)[k] \in Delimiters(b)
      /\ \A x \in Delimiters(b) : \E k \in 1..Cardinality(Delimiters(b)) : DelimiterList(b)[k] = x
  BY <1>1, AscendingOnto DEF DelimiterList
<1>. QED  BY <1>1, <1>2, <1>3

\* One OBU more, behind the others.
LEMMA OneObuMore ==
    ASSUME NEW b, NEW S \in SUBSET Nat, NEW s \in Nat, \A t \in S : t < s
    PROVE  /\ FrameOf(b, S \cup {s}) =
                  IF ObuAt(b, s).kind \in FRAME_OBUS /\ FrameOf(b, S) = NoPlace THEN s
                  ELSE FrameOf(b, S)
           /\ HeaderIn(b, S \cup {s})
                  = (HeaderIn(b, S) \/ ObuAt(b, s).kind = OBU_SEQUENCE_HEADER)
<1>. DEFINE F == FramesOf(b, S)
            G == FramesOf(b, S \cup {s})
<1>1. HeaderIn(b, S \cup {s}) = (HeaderIn(b, S) \/ ObuAt(b, s).kind = OBU_SEQUENCE_HEADER)
  BY Zenon DEF HeaderIn
<1>2. /\ F \in SUBSET Nat /\ \A t \in F : t < s
      /\ G = IF ObuAt(b, s).kind \in FRAME_OBUS THEN F \cup {s} ELSE F
  BY DEF FramesOf
<1>. HIDE DEF F, G
<1>3. FrameOf(b, S) = (IF F = {} THEN NoPlace ELSE Min(F))
      /\ FrameOf(b, S \cup {s}) = (IF G = {} THEN NoPlace ELSE Min(G))
  BY Zenon DEF FrameOf, F, G
<1>4. CASE ObuAt(b, s).kind \in FRAME_OBUS
  <2>1. G = F \cup {s} /\ G # {} /\ s \in G /\ G \in SUBSET Nat
    BY <1>2, <1>4
  <2>2. CASE F = {}
    <3>1. \A y \in G : s <= y
      BY <2>1, <2>2
    <3>2. Min(G) = s
      BY <2>1, <3>1, MinIs
    <3>. QED  BY <1>1, <1>3, <1>4, <2>1, <2>2, <3>2, Zenon
  <2>3. CASE F # {}
    <3>. DEFINE m == Min(F)
    <3>1. m \in F /\ \A y \in F : m <= y
      BY <1>2, <2>3, MinExists
    <3>. HIDE DEF m
    <3>2. m \in G /\ \A y \in G : m <= y
      <4>1. m \in Nat /\ m < s
        BY <1>2, <3>1
      <4>. QED  BY <2>1, <3>1, <4>1
    <3>3. Min(G) = m
      BY <2>1, <3>2, MinIs
    <3>4. m # NoPlace
      <4>1. m \in Nat
        BY <1>2, <3>1
      <4>. QED  BY <4>1 DEF NoPlace
    <3>. QED  BY <1>1, <1>3, <2>1, <2>3, <3>3, <3>4, Zenon DEF m
  <2>. QED  BY <2>2, <2>3
<1>5. CASE ~(ObuAt(b, s).kind \in FRAME_OBUS)
  <2>1. G = F
    BY <1>2, <1>5
  <2>2. FrameOf(b, S \cup {s}) = FrameOf(b, S)
    BY <1>3, <2>1
  <2>3. (IF ObuAt(b, s).kind \in FRAME_OBUS /\ FrameOf(b, S) = NoPlace THEN s ELSE FrameOf(b, S))
            = FrameOf(b, S)
    BY <1>5, Zenon
  <2>. QED  BY <1>1, <2>2, <2>3, Zenon
<1>. QED  BY <1>4, <1>5

\* An OBU put down to the unit that is open.
WithObu(unit, b, at) ==
    [unit EXCEPT !.has_sequence_header = @ \/ ObuAt(b, at).kind = OBU_SEQUENCE_HEADER,
                 !.insert_at = IF ObuAt(b, at).kind \in FRAME_OBUS /\ @ = NoPlace THEN at ELSE @]

\* An OBU put down to the last unit that is open.
LEMMA ObuNext ==
    ASSUME NEW b \in Seq(Byte), ~ScanFails(b), NEW q \in 1..Len(DelimiterList(b)),
           NEW T \in SUBSET ObuStarts(b), NEW units, ShowsTime(units, b, q, T),
           NEW s \in ObuStarts(b), \A t \in T : t < s, DelimiterList(b)[q] <= s
    PROVE  ShowsTime([units EXCEPT ![q] = WithObu(@, b, s)], b, q, T \cup {s})
<1>. DEFINE V == Len(DelimiterList(b))
            D == DelimiterList(b)
            own(i) == OwnObus(b, i, q, T)
            more(i) == OwnObus(b, i, q, T \cup {s})
<1>1. /\ V \in Nat /\ q \in Nat /\ q > 0
      /\ \A i \in 1..V : D[i] \in Nat
      /\ \A i, j \in 1..V : i < j => D[i] < D[j]
  BY OpensAre
<1>2. s \in Nat /\ ObuStarts(b) \subseteq Nat
  BY ObuStartsAre
<1>3. \A i \in 1..q : i # q => more(i) = own(i)
  <2>. TAKE i \in 1..q
  <2>. HAVE i # q
  <2>1. i < q /\ i + 1 \in 1..V /\ (i + 1 = q \/ i + 1 < q)
    BY <1>1
  <2>2. D[i + 1] <= D[q] /\ D[i + 1] \in Nat /\ D[q] \in Nat
    BY <1>1, <2>1
  <2>3. ~(s < D[i + 1])
    BY <1>2, <2>2
  <2>. QED  BY <2>1, <2>3 DEF OwnObus
<1>4. more(q) = own(q) \cup {s}
  <2>1. ~(q < q)
    BY <1>1
  <2>. QED  BY <2>1 DEF OwnObus
<1>5. own(q) \in SUBSET Nat /\ \A t \in own(q) : t < s
  BY <1>2 DEF OwnObus
<1>. HIDE DEF own, more
<1>6. TimeSoFar(b, q, q, more(q)) = WithObu(TimeSoFar(b, q, q, own(q)), b, s)
  <2>. DEFINE S == own(q)
              a == D[q]
              e == IF q < q THEN D[q + 1] ELSE Len(b)
              p == FrameOf(b, S)
              h == HeaderIn(b, S)
              x == IF ObuAt(b, s).kind \in FRAME_OBUS /\ p = NoPlace THEN s ELSE p
              y == h \/ ObuAt(b, s).kind = OBU_SEQUENCE_HEADER
              u == TimeUnitWith(a, e, p, h)
  <2>1. FrameOf(b, S \cup {s}) = x /\ HeaderIn(b, S \cup {s}) = y
    <3>. HIDE DEF S
    <3>1. S \in SUBSET Nat /\ \A t \in S : t < s
      BY <1>5 DEF S
    <3>. QED  BY <1>2, <3>1, OneObuMore
  <2>2. TimeSoFar(b, q, q, S) = u
    BY DEF TimeSoFar
  <2>3. TimeSoFar(b, q, q, more(q)) = TimeUnitWith(a, e, x, y)
    BY <1>4, <2>1, Zenon DEF TimeSoFar
  <2>4. u.has_sequence_header = h /\ u.insert_at = p
    BY DEF TimeUnitWith
  <2>5. WithObu(u, b, s) = [u EXCEPT !.has_sequence_header = y, !.insert_at = x]
    <3>. HIDE DEF u, p, h
    <3>. QED  BY <2>4, Zenon DEF WithObu
  <2>. HIDE DEF a, e, p, h, x, y
  <2>6. [u EXCEPT !.has_sequence_header = y, !.insert_at = x] = TimeUnitWith(a, e, x, y)
    <3>. DEFINE v == [u EXCEPT !.has_sequence_header = y]
    <3>1. v = TimeUnitWith(a, e, p, y)
      BY DEF TimeUnitWith
    <3>2. [TimeUnitWith(a, e, p, y) EXCEPT !.insert_at = x] = TimeUnitWith(a, e, x, y)
      BY DEF TimeUnitWith
    <3>3. [u EXCEPT !.has_sequence_header = y, !.insert_at = x] = [v EXCEPT !.insert_at = x]
      OBVIOUS
    <3>. HIDE DEF u, v
    <3>. QED  BY <3>1, <3>2, <3>3, Zenon
  <2>. QED  BY <2>2, <2>3, <2>5, <2>6, Zenon
<1>7. units = [i \in 1..q |-> TimeSoFar(b, i, q, own(i))]
  BY Zenon DEF ShowsTime, own
<1>. DEFINE next == [units EXCEPT ![q] = WithObu(@, b, s)]
            f(i) == TimeSoFar(b, i, q, own(i))
            g(i) == TimeSoFar(b, i, q, more(i))
            w(x) == WithObu(x, b, s)
<1>8. \A i \in 1..q : g(i) = IF i = q THEN w(f(q)) ELSE f(i)
  BY <1>3, <1>6, Zenon
<1>9. next = [units EXCEPT ![q] = w(units[q])]
  OBVIOUS
<1>10. units = [i \in 1..q |-> f(i)] /\ q \in 1..q
  BY <1>1, <1>7
<1>. HIDE DEF f, g, w, next
<1>11. next = [i \in 1..q |-> g(i)]
  BY <1>8, <1>9, <1>10
<1>. QED  BY <1>11, Zenon DEF ShowsTime, g, more, next

\* A unit opened behind the others.
LEMMA TimeOpensNext ==
    ASSUME NEW b \in Seq(Byte), ~ScanFails(b), NEW q \in 0..(Len(DelimiterList(b)) - 1),
           NEW T \in SUBSET ObuStarts(b), NEW units, ShowsTime(units, b, q, T),
           NEW s, s = DelimiterList(b)[q + 1], \A t \in T : t < s
    PROVE  ShowsTime(Append(Ended(units, s), OpenTemporalUnit(b, s)), b, q + 1, T)
<1>. DEFINE V == Len(DelimiterList(b))
            D == DelimiterList(b)
            own(i) == OwnObus(b, i, q, T)
            more(i) == OwnObus(b, i, q + 1, T)
            f(i) == TimeSoFar(b, i, q, own(i))
            g(i) == TimeSoFar(b, i, q + 1, more(i))
            ended == Ended(units, s)
            new == OpenTemporalUnit(b, s)
<1>1. /\ V \in Nat /\ q \in Nat /\ q + 1 \in 1..V
      /\ \A i \in 1..V : D[i] \in Nat
      /\ \A i, j \in 1..V : i < j => D[i] < D[j]
  BY OpensAre
<1>2. T \subseteq Nat /\ s \in Nat /\ \A t \in T : ~(D[q + 1] <= t)
  <2>1. T \subseteq Nat
    BY ObuStartsAre
  <2>2. D[q + 1] \in Nat
    BY <1>1
  <2>. QED  BY <2>1, <2>2
<1>3. \A i \in 1..q : more(i) = own(i)
  <2>. TAKE i \in 1..q
  <2>1. i < q + 1
    BY <1>1
  <2>2. i < q \/ i + 1 = q + 1
    BY <1>1
  <2>3. \A t \in T : t < D[i + 1] \/ i < q
    BY <2>2
  <2>4. \A t \in T : (i < q => t < D[i + 1]) <=> (i < q + 1 => t < D[i + 1])
    BY <2>1, <2>3
  <2>. QED  BY <2>4 DEF OwnObus
<1>4. more(q + 1) = {}
  BY <1>2 DEF OwnObus
<1>. HIDE DEF own, more
<1>5. \A i \in 1..q : i # q => g(i) = f(i)
  <2>. TAKE i \in 1..q
  <2>. HAVE i # q
  <2>1. i < q /\ i < q + 1
    BY <1>1
  <2>2. more(i) = own(i)
    BY <1>3
  <2>. QED  BY <2>1, <2>2, Zenon DEF TimeSoFar
<1>6. q > 0 => g(q) = [f(q) EXCEPT !.end = s]
  <2>. SUFFICES ASSUME q > 0 PROVE g(q) = [f(q) EXCEPT !.end = s]
    OBVIOUS
  <2>1. more(q) = own(q) /\ q < q + 1 /\ ~(q < q)
    BY <1>1, <1>3
  <2>. DEFINE a == D[q]
              p == FrameOf(b, own(q))
              h == HeaderIn(b, own(q))
  <2>2. f(q) = TimeUnitWith(a, Len(b), p, h)
    BY <2>1, Zenon DEF TimeSoFar
  <2>3. g(q) = TimeUnitWith(a, s, p, h)
    BY <2>1, Zenon DEF TimeSoFar
  <2>. HIDE DEF a, p, h, f, g
  <2>4. [TimeUnitWith(a, Len(b), p, h) EXCEPT !.end = s] = TimeUnitWith(a, s, p, h)
    BY DEF TimeUnitWith
  <2>. QED  BY <2>2, <2>3, <2>4
<1>7. g(q + 1) = new
  <2>1. ~(q + 1 < q + 1)
    BY <1>1
  <2>2. FrameOf(b, {}) = NoPlace /\ HeaderIn(b, {}) = FALSE
    BY DEF FrameOf, FramesOf, HeaderIn
  <2>3. g(q + 1) = TimeUnitWith(s, Len(b), NoPlace, FALSE)
    BY <1>4, <2>1, <2>2, Zenon DEF TimeSoFar
  <2>. HIDE DEF g
  <2>. QED  BY <2>3 DEF TimeUnitWith, OpenTemporalUnit
<1>8. units = [i \in 1..q |-> f(i)]
  BY Zenon DEF ShowsTime, own
<1>. HIDE DEF f, g, new
<1>9. ended = [i \in 1..q |-> g(i)]
  <2>1. CASE q = 0
    <3>1. 1..q = {}
      BY <2>1
    <3>2. units = << >>
      BY <1>8, <3>1
    <3>3. ended = << >>
      BY <3>2, Zenon DEF Ended
    <3>. HIDE DEF ended
    <3>. QED  BY <3>1, <3>3
  <2>2. CASE q > 0
    <3>1. q \in 1..q /\ DOMAIN units = 1..q /\ units # << >> /\ Len(units) = q
      BY <1>1, <1>8, <2>2
    <3>2. ended = [units EXCEPT ![q] = [units[q] EXCEPT !.end = s]]
      BY <3>1 DEF Ended
    <3>. HIDE DEF ended
    <3>3. units[q] = f(q)
      BY <1>8, <3>1
    <3>4. ended = [units EXCEPT ![q] = g(q)]
      BY <1>6, <2>2, <3>2, <3>3
    <3>. QED  BY <1>5, <1>8, <3>1, <3>4
  <2>. QED  BY <1>1, <2>1, <2>2
<1>. HIDE DEF ended
<1>10. Append(ended, new) = [i \in 1..(q + 1) |-> g(i)]
  <2>1. ended = [i \in 1..q |-> ended[i]] /\ \A i \in 1..q : ended[i] = g(i)
    BY <1>9
  <2>2. Append(ended, new) = [i \in 1..(q + 1) |-> IF i = q + 1 THEN new ELSE ended[i]]
    BY <1>1, <2>1, AppendIs
  <2>3. \A i \in 1..(q + 1) : i = q + 1 \/ (i # q + 1 /\ i \in 1..q)
    BY <1>1
  <2>4. \A i \in 1..(q + 1) : (IF i = q + 1 THEN new ELSE ended[i]) = g(i)
    BY <1>7, <2>1, <2>3
  <2>. QED  BY <2>2, <2>4
<1>11. ShowsTime(Append(ended, new), b, q + 1, T)
  BY <1>10, Zenon DEF ShowsTime, g, more
<1>. QED  BY <1>11 DEF ended, new

\* The loop has come by the OBU at s in its first k rounds.
ComeByObu(b, k, s) == \E j \in 1..k : Ascending(ObuStarts(b))[j] = s
ComeObus(b, k)     == {s \in ObuStarts(b) : ComeByObu(b, k, s)}
HoldsTime(units, b, k) ==
    \E q \in 0..Len(DelimiterList(b)) :
        /\ \A i \in 1..Len(DelimiterList(b)) : i <= q <=> ComeByObu(b, k, DelimiterList(b)[i])
        /\ ShowsTime(units, b, q, ComeObus(b, k))

\* The k-th OBU is the one that comes by in round k.
LEMMA ComeByObuIs ==
    ASSUME NEW b \in Seq(Byte), ~ScanFails(b), NEW k \in 1..Len(Ascending(ObuStarts(b)))
    PROVE  LET s == Ascending(ObuStarts(b))[k]
           IN  /\ s \in ObuStarts(b)
               /\ \A d \in ObuStarts(b) : ComeByObu(b, k - 1, d) <=> d < s
               /\ \A d \in ObuStarts(b) : ComeByObu(b, k, d) <=> d < s \/ d = s
<1>. DEFINE a == Ascending(ObuStarts(b))
            n == Len(a)
<1>1. /\ n \in Nat /\ ObuStarts(b) \subseteq Nat
      /\ \A i \in 1..n : a[i] \in ObuStarts(b)
      /\ \A p \in ObuStarts(b) : \E i \in 1..n : a[i] = p
      /\ \A i, j \in 1..n : i < j => a[i] < a[j]
  BY ObuListIs
<1>. SUFFICES ASSUME NEW d \in ObuStarts(b)
              PROVE  /\ a[k] \in ObuStarts(b)
                     /\ ComeByObu(b, k - 1, d) <=> d < a[k]
                     /\ ComeByObu(b, k, d) <=> d < a[k] \/ d = a[k]
  BY <1>1
<1>2. PICK i \in 1..n : a[i] = d
  BY <1>1
<1>3. a[k] \in ObuStarts(b) /\ a[k] \in Nat /\ d \in Nat
  BY <1>1
<1>4. \A m \in 0..n : ComeByObu(b, m, d) <=> i <= m
  <2>. TAKE m \in 0..n
  <2>1. \A j \in 1..m : j \in 1..n /\ (a[j] = d => j = i)
    <3>. TAKE j \in 1..m
    <3>1. j \in 1..n
      BY <1>1
    <3>2. j < i \/ i < j \/ i = j
      BY <1>1, <3>1
    <3>3. (j < i => a[j] < a[i]) /\ (i < j => a[i] < a[j]) /\ a[j] \in Nat
      BY <1>1, <3>1
    <3>. QED  BY <1>2, <1>3, <3>1, <3>2, <3>3
  <2>2. i <= m => i \in 1..m
    BY <1>1
  <2>3. \A j \in 1..m : j <= m
    BY <1>1
  <2>. HIDE DEF n
  <2>. QED  BY <1>2, <2>1, <2>2, <2>3, Zenon DEF ComeByObu
<1>5. k \in 0..n /\ k - 1 \in 0..n /\ k \in 1..n
  BY <1>1
<1>6. (i <= k - 1 <=> i < k) /\ (i <= k <=> i < k \/ i = k) /\ (i < k \/ i = k \/ k < i)
  BY <1>1
<1>7. (i < k => d < a[k]) /\ (k < i => a[k] < d) /\ (i = k => d = a[k])
  BY <1>1, <1>2, <1>5
<1>. HIDE DEF a, n
<1>. QED  BY <1>3, <1>4, <1>5, <1>6, <1>7

\* A round of temporal_units.
LEMMA ObuRound ==
    ASSUME NEW b \in Seq(Byte), ~ScanFails(b), NEW k \in 1..Len(Ascending(ObuStarts(b))),
           NEW units, HoldsTime(units, b, k - 1)
    PROVE  HoldsTime(AfterObu(b, units, Ascending(ObuStarts(b))[k]), b, k)
<1>. DEFINE s == Ascending(ObuStarts(b))[k]
            V == Len(DelimiterList(b))
            D == DelimiterList(b)
            T == ComeObus(b, k - 1)
            kind == ObuAt(b, s).kind
            new == Append(Ended(units, s), OpenTemporalUnit(b, s))
            opened == IF units = << >> \/ kind = OBU_TEMPORAL_DELIMITER THEN new ELSE units
            after == AfterObu(b, units, s)
<1>. SUFFICES HoldsTime(after, b, k)
  OBVIOUS
<1>1. /\ s \in ObuStarts(b)
      /\ \A d \in ObuStarts(b) : ComeByObu(b, k - 1, d) <=> d < s
      /\ \A d \in ObuStarts(b) : ComeByObu(b, k, d) <=> d < s \/ d = s
  BY ComeByObuIs
<1>2. /\ V \in Nat
      /\ \A i \in 1..V : D[i] \in Delimiters(b) /\ D[i] \in Nat
      /\ \A i, j \in 1..V : i < j => D[i] < D[j]
      /\ \A d \in Delimiters(b) : \E i \in 1..V : D[i] = d
  BY OpensAre
<1>3. /\ ObuStarts(b) \subseteq Nat /\ s \in Nat
      /\ Delimiters(b) \subseteq ObuStarts(b)
      /\ s \in Delimiters(b) <=> s = 0 \/ kind = OBU_TEMPORAL_DELIMITER
      /\ 0 \in ObuStarts(b)
  <2>1. ObuStarts(b) \subseteq 0..(Len(b) - 1) /\ Len(b) \in Nat
        /\ (Len(b) > 0 => 0 \in ObuStarts(b))
    BY ObuStartsAre
  <2>. HIDE DEF s
  <2>2. Len(b) > 0
    BY <1>1, <2>1
  <2>. QED  BY <1>1, <2>1, <2>2 DEF Delimiters
<1>. HIDE DEF s
<1>4. T = {d \in ObuStarts(b) : d < s} /\ ComeObus(b, k) = T \cup {s}
  BY <1>1 DEF ComeObus
<1>5. PICK q \in 0..V : /\ \A i \in 1..V : i <= q <=> ComeByObu(b, k - 1, D[i])
                        /\ ShowsTime(units, b, q, T)
  BY DEF HoldsTime
<1>6. \A i \in 1..V : i <= q <=> D[i] < s
  BY <1>1, <1>2, <1>3, <1>5
<1>. HIDE DEF T, D
<1>7. units = << >> <=> q = 0
  <2>. DEFINE f(i) == TimeSoFar(b, i, q, OwnObus(b, i, q, T))
  <2>1. units = [i \in 1..q |-> f(i)]
    BY <1>5, Zenon DEF ShowsTime
  <2>. HIDE DEF f
  <2>2. CASE q = 0
    <3>1. 1..q = {}
      BY <2>2
    <3>2. units = << >>
      BY <2>1, <3>1
    <3>. QED  BY <2>2, <3>2
  <2>3. CASE q > 0
    <3>1. DOMAIN units = 1..q /\ 1 \in 1..q
      BY <1>2, <2>1, <2>3
    <3>2. units # << >>
      BY <3>1
    <3>. QED  BY <2>3, <3>2
  <2>. QED  BY <1>2, <2>2, <2>3
<1>8. q = 0 <=> s = 0
  <2>1. PICK i \in 1..V : D[i] = 0
    <3>1. 0 \in Delimiters(b)
      BY <1>3 DEF Delimiters
    <3>. QED  BY <1>2, <3>1
  <2>2. i = 1
    <3>1. 1 \in 1..V /\ D[1] \in Nat /\ (1 < i => D[1] < D[i])
      BY <1>2
    <3>. QED  BY <1>2, <2>1, <3>1
  <2>3. 1 <= q <=> 0 < s
    BY <1>6, <2>1, <2>2
  <2>. QED  BY <1>2, <1>3, <2>3
<1>9. opened = IF s \in Delimiters(b) THEN new ELSE units
  <2>1. (units = << >> \/ kind = OBU_TEMPORAL_DELIMITER) <=> s \in Delimiters(b)
    BY <1>3, <1>7, <1>8
  <2>. HIDE DEF new, kind
  <2>. QED  BY <2>1, Zenon DEF opened
<1>. HIDE DEF opened, new
<1>10. \E p \in 1..V : (\A i \in 1..V : i <= p <=> D[i] <= s) /\ ShowsTime(opened, b, p, T)
  <2>1. CASE s \in Delimiters(b)
    <3>1. PICK i \in 1..V : D[i] = s
      BY <1>2, <2>1
    <3>2. i = q + 1 /\ q \in 0..(V - 1)
      <4>1. ~(i <= q)
        BY <1>2, <1>6, <3>1
      <4>2. ~(q + 1 < i)
        <5>. SUFFICES ASSUME q + 1 < i PROVE FALSE
          OBVIOUS
        <5>1. q + 1 \in 1..V
          BY <1>2
        <5>2. D[q + 1] < s
          BY <1>2, <3>1, <5>1
        <5>3. q + 1 <= q
          BY <1>6, <5>1, <5>2
        <5>. QED  BY <5>3
      <4>. QED  BY <1>2, <4>1, <4>2
    <3>3. s = DelimiterList(b)[q + 1] /\ (\A t \in T : t < s) /\ T \in SUBSET ObuStarts(b)
      BY <1>4, <3>1, <3>2 DEF D
    <3>4. ShowsTime(new, b, q + 1, T)
      BY <1>5, <3>2, <3>3, TimeOpensNext, Zenon DEF new
    <3>5. \A j \in 1..V : j <= q + 1 <=> D[j] <= s
      <4>. TAKE j \in 1..V
      <4>1. j = i \/ j < i \/ i < j
        BY <1>2
      <4>2. D[j] \in Nat /\ (j < i => D[j] < s) /\ (i < j => s < D[j])
        BY <1>2, <3>1
      <4>. QED  BY <1>2, <1>3, <3>1, <3>2, <4>1, <4>2
    <3>6. q + 1 \in 1..V
      BY <1>2, <3>2
    <3>. QED  BY <1>9, <2>1, <3>4, <3>5, <3>6
  <2>2. CASE s \notin Delimiters(b)
    <3>1. q \in 1..V
      BY <1>2, <1>3, <1>8, <2>2
    <3>2. \A i \in 1..V : i <= q <=> D[i] <= s
      BY <1>2, <1>3, <1>6, <2>2
    <3>. QED  BY <1>5, <1>9, <2>2, <3>1, <3>2
  <2>. QED  BY <2>1, <2>2
<1>11. PICK p \in 1..V : (\A i \in 1..V : i <= p <=> D[i] <= s) /\ ShowsTime(opened, b, p, T)
  BY <1>10
<1>12. ShowsTime([opened EXCEPT ![p] = WithObu(@, b, s)], b, p, T \cup {s})
  <2>1. T \in SUBSET ObuStarts(b) /\ \A t \in T : t < s
    BY <1>4
  <2>2. DelimiterList(b)[p] <= s
    BY <1>2, <1>11 DEF D
  <2>. QED  BY <1>1, <1>11, <2>1, <2>2, ObuNext
<1>13. after = [opened EXCEPT ![p] = WithObu(@, b, s)]
  <2>. DEFINE f(i) == TimeSoFar(b, i, p, OwnObus(b, i, p, T))
              frame == kind \in FRAME_OBUS
              header == kind = OBU_SEQUENCE_HEADER
              u == opened[p]
  <2>1. opened = [i \in 1..p |-> f(i)]
    BY <1>11, Zenon DEF ShowsTime
  <2>2. DOMAIN opened = 1..p /\ Len(opened) = p /\ p \in 1..p /\ u = f(p)
    <3>. HIDE DEF f
    <3>. QED  BY <1>2, <2>1
  <2>3. after = [opened EXCEPT
                    ![Len(opened)].has_sequence_header = @ \/ header,
                    ![Len(opened)].insert_at = IF frame /\ @ = NoPlace THEN s ELSE @]
    BY Zenon DEF AfterObu, opened, new
  <2>4. \E x, e, y, h : u = TimeUnitWith(x, e, y, h)
    BY <2>2, Zenon DEF TimeSoFar
  <2>5. PICK x, e, y, h : u = TimeUnitWith(x, e, y, h)
    BY <2>4
  <2>. HIDE DEF f, frame, header, after, kind
  <2>. DEFINE v == [u EXCEPT !.has_sequence_header = u.has_sequence_header \/ header]
              one == [opened EXCEPT ![p] = v]
              w == [v EXCEPT !.insert_at = IF frame /\ v.insert_at = NoPlace THEN s ELSE v.insert_at]
  <2>6. after = [one EXCEPT ![p].insert_at = IF frame /\ @ = NoPlace THEN s ELSE @]
    BY <2>2, <2>3
  <2>7. one[p] = v /\ after = [opened EXCEPT ![p] = w]
    <3>1. one[p] = v
      BY <2>2
    <3>2. after = [one EXCEPT ![p] = w]
      <4>. HIDE DEF one, v
      <4>. QED  BY <2>6, <3>1
    <3>3. [one EXCEPT ![p] = w] = [opened EXCEPT ![p] = w]
      <4>. HIDE DEF w, v
      <4>. QED  BY <2>2
    <3>. QED  BY <3>1, <3>2, <3>3
  <2>8. v.insert_at = u.insert_at
    BY <2>5 DEF TimeUnitWith
  <2>9. w = WithObu(u, b, s)
    <3>1. WithObu(u, b, s)
              = [u EXCEPT !.has_sequence_header = @ \/ header,
                          !.insert_at = IF frame /\ @ = NoPlace THEN s ELSE @]
      BY Zenon DEF WithObu, header, frame, kind
    <3>. HIDE DEF u
    <3>2. [u EXCEPT !.has_sequence_header = @ \/ header,
                    !.insert_at = IF frame /\ @ = NoPlace THEN s ELSE @] = w
      BY <2>8
    <3>. QED  BY <3>1, <3>2, Zenon
  <2>. HIDE DEF w, one
  <2>. QED  BY <2>7, <2>9
<1>14. \A i \in 1..V : i <= p <=> ComeByObu(b, k, DelimiterList(b)[i])
  <2>1. \A i \in 1..V : D[i] <= s <=> ComeByObu(b, k, D[i])
    BY <1>1, <1>2, <1>3
  <2>. QED  BY <1>11, <2>1 DEF D
<1>15. p \in 0..V
  BY <1>2
<1>. QED  BY <1>4, <1>12, <1>13, <1>14, <1>15 DEF HoldsTime

\* temporal_units, an OBU at a time, returns the units Obu says the bytes have.
THEOREM TemporalUnitsLoopIs ==
    ASSUME NEW b \in Seq(Byte), ~ScanFails(b)
    PROVE  TemporalUnitsLoop(b) = TemporalUnits(b)
<1>. DEFINE starts == ObuStarts(b)
            a == Ascending(starts)
            n == Len(a)
            D == DelimiterList(b)
            V == Len(D)
            own(k) == OwnObus(b, k, V, starts)
<1>1. n \in Nat /\ DOMAIN a = 1..n /\ \A p \in starts : \E i \in 1..n : a[i] = p
  BY ObuListIs
<1>2. PICK r : /\ r[0] = << >>
               /\ \A k \in 1..n : r[k] = AfterObu(b, r[k - 1], a[k])
               /\ AllObus(b, a, << >>) = r[n]
  <2>. DEFINE first == << >>
  <2>. HIDE DEF a, n, first
  <2>1. DOMAIN a = 1..n /\ n \in Nat
    BY <1>1
  <2>2. \E r : /\ r[0] = first
               /\ \A k \in 1..n : r[k] = AfterObu(b, r[k - 1], a[k])
               /\ AllObus(b, a, first) = r[n]
    BY <2>1, FoldObus
  <2>. QED  BY <2>2 DEF first
<1>3. TemporalUnitsLoop(b) = Placed(r[n])
  BY <1>2, Zenon DEF TemporalUnitsLoop, AllObus
<1>4. V \in Nat /\ \A i \in 1..V : D[i] \in starts
  BY OpensAre DEF Delimiters
<1>5. HoldsTime(r[0], b, 0)
  <2>1. 0 \in 0..V /\ 1..0 = {}
    BY <1>4
  <2>2. \A i \in 1..V : i <= 0 <=> ComeByObu(b, 0, D[i])
    <3>1. \A i \in 1..V : ~(i <= 0)
      BY <1>4
    <3>2. \A c : ~ComeByObu(b, 0, c)
      BY <2>1 DEF ComeByObu
    <3>. QED  BY <3>1, <3>2
  <2>3. ShowsTime(<< >>, b, 0, ComeObus(b, 0))
    <3>1. << >> = [i \in 1..0 |-> TimeSoFar(b, i, 0, OwnObus(b, i, 0, ComeObus(b, 0)))]
      BY <2>1
    <3>. QED  BY <3>1, Zenon DEF ShowsTime
  <2>. QED  BY <1>2, <2>1, <2>2, <2>3 DEF HoldsTime
<1>6. \A k \in 0..n : HoldsTime(r[k], b, k)
  <2>. DEFINE Good == {k \in 0..n : HoldsTime(r[k], b, k)}
  <2>. HIDE DEF n
  <2>1. 0 \in Good
    BY <1>1, <1>5
  <2>2. ASSUME NEW k \in 0..(n - 1), k \in Good PROVE k + 1 \in Good
    <3>1. k + 1 \in 1..n /\ (k + 1) - 1 = k /\ k + 1 \in 0..n
      BY <1>1
    <3>2. HoldsTime(r[(k + 1) - 1], b, (k + 1) - 1)
      BY <2>2, <3>1
    <3>. DEFINE m == k + 1
    <3>. HIDE DEF m
    <3>3. m \in 1..n /\ HoldsTime(r[m - 1], b, m - 1)
      BY <3>1, <3>2 DEF m
    <3>4. HoldsTime(AfterObu(b, r[m - 1], a[m]), b, m)
      BY <3>3, ObuRound DEF n
    <3>5. HoldsTime(r[m], b, m)
      BY <1>2, <3>3, <3>4, Zenon
    <3>. QED  BY <3>1, <3>5 DEF m
  <2>3. 0 \in Nat /\ \A k \in 0..(n - 1) : k \in Good => k + 1 \in Good
    BY <2>2
  <2>. HIDE DEF Good
  <2>4. \A k \in 0..n : k \in Good
    BY <1>1, <2>1, <2>3, Upwards
  <2>. QED  BY <2>4 DEF Good
<1>7. r[n] = [k \in 1..V |-> TimeSoFar(b, k, V, own(k))]
  <2>1. \A c \in starts : ComeByObu(b, n, c)
    BY <1>1 DEF ComeByObu
  <2>2. ComeObus(b, n) = starts
    BY <2>1 DEF ComeObus
  <2>3. HoldsTime(r[n], b, n)
    <3>. HIDE DEF n
    <3>. QED  BY <1>1, <1>6
  <2>. HIDE DEF n
  <2>4. PICK q \in 0..V : /\ \A i \in 1..V : i <= q <=> ComeByObu(b, n, D[i])
                          /\ ShowsTime(r[n], b, q, ComeObus(b, n))
    BY <2>3 DEF HoldsTime
  <2>5. q = V
    <3>1. \A i \in 1..V : i <= q
      BY <1>4, <2>1, <2>4
    <3>2. V > 0 => V <= q
      BY <1>4, <3>1
    <3>. QED  BY <1>4, <3>2
  <2>. QED  BY <2>2, <2>4, <2>5, Zenon DEF ShowsTime
<1>. DEFINE end(k) == IF k < V THEN D[k + 1] ELSE Len(b)
            mine(k) == {at \in starts : D[k] <= at /\ at < end(k)}
            one(k) == TemporalUnitOf(b, D[k], end(k), mine(k))
            out == r[n]
            two(k) == [out[k] EXCEPT !.insert_at = IF out[k].insert_at = NoPlace THEN out[k].end
                                                   ELSE out[k].insert_at]
<1>8. TemporalUnits(b) = [k \in 1..V |-> one(k)]
  BY Zenon DEF TemporalUnits, TemporalUnitsAt, DelimiterList, Delimiters
<1>9. Placed(out) = [k \in 1..Len(out) |-> two(k)]
  <2>. HIDE DEF out
  <2>. QED  BY Zenon DEF Placed
<1>10. Len(out) = V /\ \A k \in 1..V : out[k] = TimeSoFar(b, k, V, own(k))
  <2>. HIDE DEF own, out
  <2>. QED  BY <1>4, <1>7 DEF out
<1>11. ASSUME NEW k \in 1..V PROVE two(k) = one(k)
  <2>1. own(k) = mine(k)
    <3>1. Len(b) \in Nat /\ starts \subseteq 0..(Len(b) - 1)
      BY ObuStartsAre
    <3>2. \A at \in starts : at < end(k) <=> (k < V => at < D[k + 1])
      BY <3>1
    <3>. QED  BY <3>2 DEF OwnObus
  <2>. DEFINE S == mine(k)
              e == end(k)
              F == FramesOf(b, S)
              x == D[k]
              p == FrameOf(b, S)
              g == IF p = NoPlace THEN e ELSE p
              y == HeaderIn(b, S)
  <2>2. out[k] = TimeUnitWith(x, e, p, y)
    <3>. HIDE DEF own, out, mine
    <3>. QED  BY <1>10, <2>1, Zenon DEF TimeSoFar
  <2>3. one(k) = TimeUnitWith(x, e, IF F = {} THEN e ELSE Min(F), y)
    <3>. HIDE DEF mine, end
    <3>. QED  BY Zenon DEF TemporalUnitOf, TimeUnitWith, HeaderIn, FramesOf
  <2>4. F # {} => Min(F) # NoPlace
    <3>. SUFFICES ASSUME F # {} PROVE Min(F) # NoPlace
      OBVIOUS
    <3>1. F \in SUBSET Nat
      <4>1. starts \subseteq Nat
        BY ObuStartsAre
      <4>. QED  BY <4>1 DEF FramesOf
    <3>. HIDE DEF F
    <3>. DEFINE m == Min(F)
    <3>2. m \in F
      BY <3>1, MinExists
    <3>. HIDE DEF m
    <3>3. m # NoPlace
      BY <3>1, <3>2 DEF NoPlace
    <3>. QED  BY <3>3 DEF m
  <2>5. g = IF F = {} THEN e ELSE Min(F)
    <3>. HIDE DEF mine, end
    <3>. QED  BY <2>4, Zenon DEF FrameOf
  <2>6. out[k].insert_at = p /\ out[k].end = e
    <3>. HIDE DEF x, e, p, y, out
    <3>. QED  BY <2>2 DEF TimeUnitWith
  <2>7. two(k) = [out[k] EXCEPT !.insert_at = g]
    <3>. HIDE DEF p, out
    <3>. QED  BY <2>6, Zenon
  <2>8. one(k) = TimeUnitWith(x, e, g, y)
    BY <2>3, <2>5, Zenon
  <2>. HIDE DEF x, y, p, g, e, F, S, one, two, out
  <2>9. [TimeUnitWith(x, e, p, y) EXCEPT !.insert_at = g] = TimeUnitWith(x, e, g, y)
    BY DEF TimeUnitWith
  <2>. QED  BY <2>2, <2>7, <2>8, <2>9
<1>. HIDE DEF one, two, out
<1>12. Placed(out) = TemporalUnits(b)
  BY <1>8, <1>9, <1>10, <1>11
<1>. QED  BY <1>3, <1>12 DEF out
=============================================================================
