---------------------------- MODULE SpliceProofs ----------------------------
(***************************************************************************)
(* What is proved of Splice: a packet holds the units its encoder wrote,   *)
(* with those of the payloads right before its picture, whatever framing   *)
(* it is in, and so its payloads read back, repeat the temporal id of the  *)
(* picture and are all that was added.                                     *)
(***************************************************************************)
EXTENDS Splice, FramingLemmas

\* The units of the encoder's packet, and those before and from its picture on.
First   == UnitsOf(origin.framing, origin.bytes)
FirstAt == PictureAt(origin.framing, First)
Ahead0  == SubSeq(First, 1, FirstAt - 1)
Behind0 == SubSeq(First, FirstAt, Len(First))

\* The unit of a payload, and those of the payloads put in.
UnitOf(note) == IF origin.framing = Av1 THEN WriteMetadata(note)
                ELSE WriteUserDataAt(note, NalsTemporalId(First))
UnitsPut == [k \in 1..Len(put) |-> UnitOf(put[k])]
UnitsNow == Ahead0 \o UnitsPut \o Behind0

LEMMA FramingKinds ==
    /\ AnnexB.how = "AnnexB" /\ Av1.how = "Av1" /\ AnnexB # Av1
    /\ AnnexB \in PacketFramings /\ Av1 \in PacketFramings
    /\ \A size : /\ LengthPrefixed(size).how = "LengthPrefixed"
                 /\ LengthPrefixed(size).length_size = size
                 /\ LengthPrefixed(size) # AnnexB /\ LengthPrefixed(size) # Av1
    /\ \A size \in 1..4 : LengthPrefixed(size) \in PacketFramings
    /\ \A how \in PacketFramings :
          \/ how = AnnexB
          \/ how = Av1
          \/ \E size \in 1..4 : how = LengthPrefixed(size)
BY DEF PacketFramings, AnnexB, Av1, LengthPrefixed

\* What a program is told of the framing is the framing.
LEMMA AskedIs ==
    ASSUME NEW how \in PacketFramings
    PROVE  /\ AskedAsPad(how) = how
           /\ how.how = "LengthPrefixed" => AskedAsTrack(how) = how
<1>. DEFINE name == IF how = Av1 THEN "av1" ELSE IF Codec = "H264" THEN "h264" ELSE "hevc"
            kind == IF Codec = "H264" THEN "avc1" ELSE "hvc1"
<1>1. /\ how # Av1 => name \in Names /\ name \notin Av1Names
      /\ how = Av1 => name \in Av1Names /\ name \notin Names
      /\ kind \in Entries /\ kind # "av01"
  <2>1. kind \in Entries /\ kind # "av01"
    BY DEF Entries
  <2>2. "av1" \in Av1Names /\ "av1" \notin Names
    BY DEF Names, Av1Names
  <2>3. Codec = "H264" => "h264" \in Names /\ "h264" \notin Av1Names
    BY DEF Names, Av1Names
  <2>4. Codec # "H264" => "hevc" \in Names /\ "hevc" \notin Av1Names
    BY DEF Names, Av1Names
  <2>5. /\ how = Av1 => name = "av1"
        /\ how # Av1 /\ Codec = "H264" => name = "h264"
        /\ how # Av1 /\ Codec # "H264" => name = "hevc"
    OBVIOUS
  <2>. HIDE DEF name, kind
  <2>. QED  BY <2>1, <2>2, <2>3, <2>4, <2>5
<1>2. AskedAsPad(how) = FramingOf(name, Header(how)).framing
      /\ AskedAsTrack(how) = FramingOfEntry(kind, Header(how)).framing
  BY DEF AskedAsPad, AskedAsTrack
<1>. HIDE DEF name, kind
<1>3. \A x : Answer(x).framing = x
  BY DEF Answer
<1>4. CASE how = Av1
  <2>1. FramingOf(name, Header(how)) = Answer(Av1)
    BY <1>1, <1>4, Zenon DEF FramingOf
  <2>. QED  BY <1>2, <1>3, <1>4, <2>1, FramingKinds
<1>5. CASE how = AnnexB
  <2>1. Header(how) = << >>
    BY <1>5 DEF Header, AnnexB
  <2>2. ~ConfigurationRecord(<< >>)
    BY DEF ConfigurationRecord, LeastRecord
  <2>3. name \in Names /\ name \notin Av1Names
    BY <1>1, <1>5, FramingKinds
  <2>4. FramingOf(name, Header(how)) = Answer(AnnexB)
    BY <2>1, <2>2, <2>3 DEF FramingOf
  <2>. QED  BY <1>2, <1>3, <1>5, <2>4, FramingKinds
<1>6. ASSUME NEW size \in 1..4, how = LengthPrefixed(size)
      PROVE  AskedAsPad(how) = how /\ AskedAsTrack(how) = how
  <2>. DEFINE h == Header(how)
  <2>1. /\ Len(h) = LeastRecord /\ At(h, 0) = 1 /\ At(h, LengthSizeAt) = 252 + (size - 1)
        /\ Len(h) > LengthSizeAt /\ LengthSizeAt \in Nat
    <3>1. how.how = "LengthPrefixed" /\ how.length_size = size
      BY <1>6 DEF LengthPrefixed
    <3>. QED  BY <3>1 DEF Header, LeastRecord, LengthSizeAt, At
  <2>. HIDE DEF h
  <2>2. Declared(At(h, LengthSizeAt)) = size
    BY <2>1 DEF Declared
  <2>3. ConfigurationRecord(h) /\ RecordLengthSize(h) = size
    <3>1. LeastRecord \in Nat
      BY DEF LeastRecord
    <3>. QED  BY <2>1, <2>2, <3>1 DEF ConfigurationRecord, RecordLengthSize
  <2>4. name \in Names /\ name \notin Av1Names
    BY <1>1, <1>6, FramingKinds
  <2>5. FramingOf(name, h) = Answer(how)
    BY <1>6, <2>3, <2>4 DEF FramingOf
  <2>6. DeclaredLengthSize(h) = Answer(how)
    BY <1>6, <2>1, <2>2 DEF DeclaredLengthSize
  <2>7. FramingOfEntry(kind, h) = Answer(how)
    BY <1>1, <2>6 DEF FramingOfEntry
  <2>. QED  BY <1>2, <1>3, <2>5, <2>7, Zenon DEF h
<1>. QED  BY <1>4, <1>5, <1>6, FramingKinds

-----------------------------------------------------------------------------
\* What stays as it is with every call.
PutInv ==
    /\ origin \in Packets /\ origin.framing \in PacketFramings /\ origin.bytes \in Seq(Byte)
    /\ framing \in PacketFramings /\ (framing = Av1 <=> origin.framing = Av1)
    /\ put \in Seq(Notes) /\ Len(put) <= MaxPut
    /\ (moved \in BOOLEAN) /\ (~moved => framing = origin.framing)

LEMMA PutInit == Init => PutInv
<1>. SUFFICES ASSUME Init PROVE PutInv
  OBVIOUS
<1>1. origin \in Packets /\ framing = origin.framing /\ put = << >> /\ moved = FALSE
  BY DEF Init
<1>2. origin.framing \in PacketFramings /\ origin.bytes \in Seq(Byte)
  BY <1>1, PacketsAssumption
<1>3. << >> \in Seq(Notes) /\ Len(<< >>) <= MaxPut
  BY NotesAssumption
<1>. QED  BY <1>1, <1>2, <1>3 DEF PutInv

LEMMA PutStep == PutInv /\ [Next]_vars => PutInv'
<1>. SUFFICES ASSUME PutInv, [Next]_vars PROVE PutInv'
  OBVIOUS
<1>1. ASSUME UNCHANGED calls PROVE PutInv'
  BY <1>1 DEF PutInv, calls
<1>2. ASSUME NEW note \in Notes, Insert(note) PROVE PutInv'
  <2>1. /\ put' = Append(put, note) /\ Len(put) < MaxPut
        /\ framing' = framing /\ origin' = origin /\ moved' = moved
    BY <1>2 DEF Insert
  <2>2. put' \in Seq(Notes) /\ Len(put') <= MaxPut
    BY <2>1, NotesAssumption DEF PutInv
  <2>. QED  BY <2>1, <2>2 DEF PutInv
<1>3. ASSUME NEW size \in Widths, Reframe(LengthPrefixed(size)) PROVE PutInv'
  <2>1. /\ put' = put /\ framing = AnnexB /\ framing' = LengthPrefixed(size)
        /\ origin' = origin /\ moved' = TRUE /\ Reframed(LengthPrefixed(size), packet).ok
    BY <1>3 DEF Reframe
  <2>2. size \in 1..4
    BY <2>1, FramingKinds DEF Reframed, AnnexbToLengthPrefixed, SampleOf, WidthOk, Err
  <2>3. framing' \in PacketFramings /\ framing' # Av1 /\ framing # Av1
    BY <2>1, <2>2, FramingKinds
  <2>. QED  BY <2>1, <2>3 DEF PutInv
<1>4. ASSUME Back PROVE PutInv'
  <2>1. /\ put' = put /\ framing.how = "LengthPrefixed" /\ framing' = AnnexB
        /\ origin' = origin /\ moved' = TRUE
    BY <1>4 DEF Back
  <2>2. framing # Av1 /\ framing' # Av1 /\ framing' \in PacketFramings
    BY <2>1, FramingKinds
  <2>. QED  BY <2>1, <2>2 DEF PutInv
<1>5. (\E note \in Notes : InsertRefused(note)) => UNCHANGED calls
  BY DEF InsertRefused
<1>6. (\E size \in Widths : ReframeRefused(LengthPrefixed(size))) => UNCHANGED calls
  BY DEF ReframeRefused
<1>7. BackRefused \/ UNCHANGED vars => UNCHANGED calls
  BY DEF BackRefused, vars, calls
<1>. QED  BY <1>1, <1>2, <1>3, <1>4, <1>5, <1>6, <1>7, Zenon DEF Next, InsertStep, ReframeStep

\* The packet stays in one of the framings the code knows, AV1 or not as it
\* began, through every call.
THEOREM SplicePutHolds == Spec => []PutInv
BY PutInit, PutStep, PTL DEF Spec

-----------------------------------------------------------------------------
\* Packets of NAL units.

LEMMA PictureIsSlice ==
    ASSUME NEW how, how # Av1, NEW nals
    PROVE  PictureAt(how, nals) = FirstSlice(nals)
BY Zenon DEF PictureAt, FirstSlice, IsPicture

LEMMA UnitsRead ==
    ASSUME NEW how, NEW b, NEW nals, Reads(how, b, nals)
    PROVE  UnitsOf(how, b) = nals /\ b \in Seq(Byte)
<1>1. b \in Seq(Byte)
  BY DEF Reads
<1>2. CASE how.how = "AnnexB" /\ SplitNals(b) = nals
  BY <1>1, <1>2 DEF UnitsOf
<1>3. CASE how.how = "LengthPrefixed" /\ SplitLengthPrefixed(b, how.length_size) = Found(nals)
  <2>1. UnitsOf(how, b) = SampleUnits(Found(nals))
    BY <1>3 DEF UnitsOf
  <2>2. SampleUnits(Found(nals)) = nals
    BY DEF SampleUnits, Found
  <2>. QED  BY <1>1, <2>1, <2>2
<1>. QED  BY <1>1, <1>2, <1>3, Zenon DEF Reads

\* The units of a packet that comes apart are what it reads as.
LEMMA ReadsUnits ==
    ASSUME NEW how \in PacketFramings, how # Av1, NEW b \in Seq(Byte)
    PROVE  /\ UnitsOf(how, b) \in Seq(Seq(Byte))
           /\ how = AnnexB => Reads(how, b, UnitsOf(how, b))
           /\ SplitLengthPrefixed(b, how.length_size).ok /\ how # AnnexB =>
                  Reads(how, b, UnitsOf(how, b))
<1>1. CASE how = AnnexB
  <2>1. how.how = "AnnexB" /\ UnitsOf(how, b) = SplitNals(b)
    BY <1>1, FramingKinds DEF UnitsOf
  <2>2. SplitNals(b) \in Seq(Seq(Byte))
    BY SplitNalsType
  <2>. QED  BY <1>1, <2>1, <2>2, Zenon DEF Reads
<1>2. ASSUME NEW size \in 1..4, how = LengthPrefixed(size)
      PROVE  /\ UnitsOf(how, b) \in Seq(Seq(Byte))
             /\ SplitLengthPrefixed(b, how.length_size).ok => Reads(how, b, UnitsOf(how, b))
             /\ how # AnnexB
  <2>. DEFINE split == SplitLengthPrefixed(b, size)
  <2>1. how.how = "LengthPrefixed" /\ how.length_size = size /\ how # AnnexB
    BY <1>2, FramingKinds
  <2>2. split \in Walked
    BY SplitType
  <2>3. UnitsOf(how, b) = SampleUnits(split)
    BY <2>1 DEF UnitsOf
  <2>. HIDE DEF split
  <2>4. SampleUnits(split) \in Seq(Seq(Byte)) /\ (split.ok => split = Found(SampleUnits(split)))
    BY <2>2 DEF SampleUnits, Walked, Found
  <2>. QED  BY <2>1, <2>3, <2>4, Zenon DEF Reads, split
<1>. QED  BY <1>1, <1>2, FramingKinds

\* The units of the origin, and a payload's.
LEMMA OriginNals ==
    ASSUME PutInv, framing # Av1
    PROVE  /\ First \in Seq(GoodNals) /\ Ahead0 \in Seq(GoodNals) /\ Behind0 \in Seq(GoodNals)
           /\ First = Ahead0 \o Behind0 /\ BeforeSlices(Ahead0, Behind0)
           /\ FirstAt = FirstSlice(First) /\ FirstAt = Len(Ahead0) + 1
           /\ NalsTemporalId(First) \in 1..7
<1>1. origin \in Packets /\ origin.framing # Av1 /\ origin.framing \in PacketFramings
      /\ origin.bytes \in Seq(Byte)
  BY DEF PutInv
<1>2. First \in Seq(Seq(Byte))
  BY <1>1, ReadsUnits DEF First
<1>3. Encoded(First)
  BY <1>1, PacketsAssumption DEF First
<1>4. First \in Seq(GoodNals)
  <2>. DEFINE s == First
  <2>1. s \in Seq(Seq(Byte)) /\ \A k \in 1..Len(s) : CleanNal(s[k]) /\ Len(s[k]) < Values(4)
    BY <1>2, <1>3 DEF Encoded, Short
  <2>. HIDE DEF s
  <2>2. ASSUME NEW k \in 1..Len(s) PROVE s[k] \in GoodNals
    <3>1. s[k] \in Seq(Byte)
      BY <2>1
    <3>. QED  BY <2>1, <3>1 DEF GoodNals, CleanNals, ShortNals
  <2>3. s \in Seq(GoodNals)
    BY <2>1, <2>2
  <2>. QED  BY <2>3 DEF s
<1>5. FirstAt = FirstSlice(First)
  BY <1>1, PictureIsSlice DEF FirstAt
<1>6. /\ Ahead0 \in Seq(GoodNals) /\ Behind0 \in Seq(GoodNals)
      /\ First = Ahead0 \o Behind0 /\ BeforeSlices(Ahead0, Behind0)
      /\ FirstSlice(First) = Len(Ahead0) + 1
  <2>. DEFINE s == First
              u == SubSeq(s, 1, FirstSlice(s) - 1)
              v == SubSeq(s, FirstSlice(s), Len(s))
  <2>1. u = Ahead0 /\ v = Behind0
    BY <1>5 DEF Ahead0, Behind0
  <2>2. s \in Seq(GoodNals)
    BY <1>4
  <2>. HIDE DEF s
  <2>3. u \in Seq(GoodNals) /\ v \in Seq(GoodNals) /\ s = u \o v /\ BeforeSlices(u, v)
        /\ FirstSlice(s) = Len(u) + 1
    BY <2>2, PartedAtSlice
  <2>. HIDE DEF u, v
  <2>. QED  BY <2>1, <2>3, Zenon DEF s
<1>7. NalsTemporalId(First) \in 1..7
  BY <1>2, TemporalIds
<1>. QED  BY <1>4, <1>5, <1>6, <1>7

LEMMA SeisPut ==
    ASSUME PutInv, framing # Av1
    PROVE  /\ \A note \in Notes :
                 /\ UnitOf(note) = WriteUserDataAt(note, NalsTemporalId(First))
                 /\ note \in Seq(Byte) /\ UnitOf(note) \in GoodNals /\ ~IsVcl(UnitOf(note))
                 /\ TemporalIdPlus1(UnitOf(note))
                        = IF Codec = "H264" THEN 1 ELSE NalsTemporalId(First)
           /\ UnitsPut \in Seq(GoodNals) /\ Len(UnitsPut) = Len(put) /\ Len(put) \in Nat
           /\ \A k \in 1..Len(put) : UnitsPut[k] = UnitOf(put[k]) /\ put[k] \in Notes
           /\ \A k \in 1..Len(UnitsPut) : ~IsVcl(UnitsPut[k])
<1>1. ASSUME NEW note \in Notes
      PROVE  /\ UnitOf(note) = WriteUserDataAt(note, NalsTemporalId(First))
             /\ note \in Seq(Byte) /\ UnitOf(note) \in GoodNals /\ ~IsVcl(UnitOf(note))
             /\ TemporalIdPlus1(UnitOf(note))
                    = IF Codec = "H264" THEN 1 ELSE NalsTemporalId(First)
  <2>. DEFINE id == NalsTemporalId(First)
              sei == WriteUserDataAt(note, id)
  <2>1. id \in 1..7
    BY OriginNals
  <2>2. UnitOf(note) = sei
    BY DEF UnitOf, PutInv
  <2>. HIDE DEF id
  <2>3. note \in Seq(Byte) /\ Len(sei) < Values(4)
    BY <2>1, NotesAssumption DEF Short
  <2>4. sei \in CleanNals /\ sei \in Seq(Byte) /\ ~IsVcl(sei)
        /\ TemporalIdPlus1(sei) = IF Codec = "H264" THEN 1 ELSE id
    BY <2>1, <2>3, SeiIs
  <2>5. sei \in GoodNals
    BY <2>3, <2>4 DEF GoodNals, ShortNals
  <2>. HIDE DEF sei
  <2>. QED  BY <2>2, <2>3, <2>4, <2>5, Zenon DEF id, sei
<1>2. Len(put) \in Nat /\ \A k \in 1..Len(put) : put[k] \in Notes
  BY DEF PutInv
<1>3. UnitsPut \in Seq(GoodNals) /\ Len(UnitsPut) = Len(put)
  BY <1>1, <1>2, IsASeq DEF UnitsPut
<1>4. \A k \in 1..Len(put) : UnitsPut[k] = UnitOf(put[k])
  BY DEF UnitsPut
<1>. QED  BY <1>1, <1>2, <1>3, <1>4

LEMMA NowAreNals ==
    ASSUME PutInv, framing # Av1
    PROVE  /\ UnitsNow \in Seq(GoodNals)
           /\ FirstSlice(UnitsNow) = Len(Ahead0) + Len(put) + 1
           /\ NalsTemporalId(UnitsNow) = NalsTemporalId(First)
<1>1. /\ First \in Seq(GoodNals) /\ Ahead0 \in Seq(GoodNals) /\ Behind0 \in Seq(GoodNals)
      /\ First = Ahead0 \o Behind0 /\ BeforeSlices(Ahead0, Behind0)
      /\ FirstSlice(First) = Len(Ahead0) + 1
  BY OriginNals
<1>2. /\ UnitsPut \in Seq(GoodNals) /\ Len(UnitsPut) = Len(put) /\ Len(put) \in Nat
      /\ \A k \in 1..Len(UnitsPut) : ~IsVcl(UnitsPut[k])
  BY SeisPut
<1>. DEFINE u == Ahead0
            n == UnitsPut
            v == Behind0
            w == u \o n \o v
            f == u \o v
            p == u \o n
<1>. HIDE DEF u, n, v
<1>3. w = UnitsNow /\ f = First
  BY <1>1, Zenon DEF u, n, v, UnitsNow
<1>4. u \in Seq(GoodNals) /\ n \in Seq(GoodNals) /\ v \in Seq(GoodNals)
      /\ \A k \in 1..Len(n) : ~IsVcl(n[k])
  BY <1>1, <1>2 DEF u, n, v
<1>5. w \in Seq(GoodNals)
  BY <1>4, JoinOfThree, Zenon
<1>6. FirstSlice(w) = Len(u) + Len(n) + 1
  <2>1. BeforeSlices(u, v)
    BY <1>1 DEF u, v
  <2>2. \A e \in GoodNals : FirstSlice(w) = Len(u) + Len(n) + 1
    BY <1>4, <2>1, OneMoreNote
  <2>3. \E e : e \in GoodNals
    <3>1. StartCodes(<< >>) = {} /\ << >> \in Seq(Byte) /\ Len(<< >>) = 0
      BY DEF StartCodes
    <3>2. Values(4) > 0
      BY ValuesGrow
    <3>3. << >> \in GoodNals
      BY <3>1, <3>2 DEF GoodNals, CleanNals, CleanNal, ShortNals
    <3>. QED  BY <3>3
  <2>. QED  BY <2>2, <2>3
<1>7. /\ Len(u) \in Nat /\ Len(n) \in Nat /\ Len(v) \in Nat
      /\ Len(p) = Len(u) + Len(n) /\ Len(f) = Len(u) + Len(v) /\ p \in Seq(GoodNals)
      /\ \A k \in 1..Len(v) : f[Len(u) + k] = v[k]
  BY <1>4, TwoParts
<1>8. /\ Len(w) = Len(p) + Len(v) /\ \A k \in 1..Len(v) : w[Len(p) + k] = v[k]
  <2>. HIDE DEF p
  <2>1. w = p \o v /\ p \in Seq(GoodNals)
    BY <1>7 DEF p
  <2>. HIDE DEF w
  <2>. QED  BY <1>4, <2>1, TwoParts
<1>9. FirstSlice(f) = Len(u) + 1
  BY <1>1, <1>3 DEF u
<1>. HIDE DEF w, f, p
<1>10. NalsTemporalId(w) = NalsTemporalId(f)
  <2>1. CASE Len(v) = 0
    <3>1. FirstSlice(w) > Len(w) /\ FirstSlice(f) > Len(f)
      BY <1>6, <1>7, <1>8, <1>9, <2>1
    <3>. QED  BY <3>1, Zenon DEF NalsTemporalId
  <2>2. CASE Len(v) # 0
    <3>1. ~(FirstSlice(w) > Len(w)) /\ ~(FirstSlice(f) > Len(f))
          /\ 1 \in 1..Len(v) /\ FirstSlice(w) = Len(p) + 1 /\ FirstSlice(f) = Len(u) + 1
      BY <1>6, <1>7, <1>8, <1>9, <2>2
    <3>2. w[FirstSlice(w)] = v[1] /\ f[FirstSlice(f)] = v[1]
      BY <1>7, <1>8, <3>1
    <3>. QED  BY <3>1, <3>2, Zenon DEF NalsTemporalId
  <2>. QED  BY <2>1, <2>2
<1>. QED  BY <1>2, <1>3, <1>5, <1>6, <1>10, Zenon DEF u, n

\* The units of what was put in, by one payload more.
LEMMA UnitsGrow ==
    ASSUME PutInv, NEW T, UnitsPut \in Seq(T), NEW note, UnitOf(note) \in T,
           put' = Append(put, note), origin' = origin
    PROVE  /\ UnitsPut' = Append(UnitsPut, UnitOf(note))
           /\ UnitsNow' = Ahead0 \o Append(UnitsPut, UnitOf(note)) \o Behind0
<1>1. Len(put) \in Nat /\ Len(put') = Len(put) + 1 /\ Len(UnitsPut) = Len(put)
      /\ UnitsPut = [k \in 1..Len(put) |-> UnitOf(put[k])]
  <2>1. Len(put) \in Nat /\ Len(put') = Len(put) + 1
    BY DEF PutInv
  <2>2. UnitsPut = [k \in 1..Len(put) |-> UnitOf(put[k])]
    BY DEF UnitsPut
  <2>3. Len(UnitsPut) = Len(put)
    BY <2>1, <2>2, LenProperties
  <2>. QED  BY <2>1, <2>2, <2>3
<1>2. First' = First /\ Ahead0' = Ahead0 /\ Behind0' = Behind0
  BY DEF First, Ahead0, Behind0, FirstAt
<1>3. \A x : UnitOf(x)' = UnitOf(x)
  BY <1>2 DEF UnitOf
<1>4. UnitsPut' = [k \in 1..(Len(put) + 1) |-> UnitOf(put'[k])]
  BY <1>1, <1>3 DEF UnitsPut
<1>. DEFINE s == Append(UnitsPut, UnitOf(note))
<1>5. /\ s \in Seq(T) /\ Len(s) = Len(put) + 1
      /\ s[Len(put) + 1] = UnitOf(note)
      /\ \A k \in 1..Len(put) : s[k] = UnitsPut[k]
  BY <1>1
<1>. HIDE DEF s
<1>6. ASSUME NEW k \in 1..(Len(put) + 1) PROVE UnitOf(put'[k]) = s[k]
  <2>1. CASE k = Len(put) + 1
    <3>1. put'[k] = note
      BY <1>1, <2>1 DEF PutInv
    <3>2. s[k] = UnitOf(note)
      BY <1>5, <2>1
    <3>3. UnitOf(put'[k]) = UnitOf(note)
      BY <3>1
    <3>. QED  BY <3>2, <3>3
  <2>2. CASE k # Len(put) + 1
    <3>1. k \in 1..Len(put) /\ put'[k] = put[k]
      BY <1>1, <2>2 DEF PutInv
    <3>2. UnitsPut[k] = UnitOf(put[k])
      BY <1>1, <3>1
    <3>. QED  BY <1>5, <3>1, <3>2, Zenon
  <2>. QED  BY <2>1, <2>2
<1>7. s = [k \in 1..(Len(put) + 1) |-> s[k]]
  BY <1>5
<1>8. UnitsPut' = s
  BY <1>4, <1>6, <1>7
<1>9. UnitsNow' = Ahead0' \o UnitsPut' \o Behind0'
  BY DEF UnitsNow
<1>. QED  BY <1>2, <1>8, <1>9, Zenon DEF s

\* Inductive: what a reader finds in a packet of NAL units.
NalInv == framing # Av1 => packet \in Seq(Byte) /\ UnitsOf(framing, packet) = UnitsNow

LEMMA NalInit ==
    ASSUME Init, PutInv PROVE NalInv
<1>. SUFFICES ASSUME framing # Av1 PROVE packet \in Seq(Byte) /\ UnitsOf(framing, packet) = UnitsNow
  BY DEF NalInv
<1>1. framing = origin.framing /\ packet = origin.bytes /\ put = << >>
  BY DEF Init
<1>2. UnitsOf(framing, packet) = First
  BY <1>1 DEF First
<1>3. UnitsPut = << >>
  <2>1. UnitsPut \in Seq(GoodNals) /\ Len(UnitsPut) = Len(put)
    BY SeisPut
  <2>. QED  BY <1>1, <2>1, EmptySeq
<1>4. Ahead0 \in Seq(GoodNals) /\ First = Ahead0 \o Behind0
  BY OriginNals
<1>5. Ahead0 \o << >> = Ahead0
  BY <1>4, ConcatEmptySeq
<1>6. UnitsNow = First
  BY <1>3, <1>4, <1>5, Zenon DEF UnitsNow
<1>7. packet \in Seq(Byte)
  BY <1>1 DEF PutInv
<1>. QED  BY <1>2, <1>6, <1>7

LEMMA UnitsStay ==
    ASSUME UNCHANGED <<put, origin>> PROVE UnitsNow' = UnitsNow
BY DEF UnitsNow, UnitsPut, UnitOf, Ahead0, Behind0, FirstAt, First

LEMMA InsertNals ==
    ASSUME PutInv, NalInv, framing # Av1, NEW note \in Notes, Insert(note)
    PROVE  NalInv'
<1>. DEFINE sei == UnitOf(note)
<1>1. /\ AskedAsPad(framing) = framing
      /\ InsertInto(framing, packet, note).ok /\ packet' = InsertInto(framing, packet, note).bytes
      /\ put' = Append(put, note) /\ framing' = framing /\ origin' = origin
  <2>1. AskedAsPad(framing) = framing
    BY AskedIs DEF PutInv
  <2>. QED  BY <2>1 DEF Insert
<1>2. packet \in Seq(Byte) /\ UnitsOf(framing, packet) = UnitsNow /\ framing \in PacketFramings
  BY DEF NalInv, PutInv
<1>3. Reads(framing, packet, UnitsNow)
  <2>1. framing # AnnexB => SplitLengthPrefixed(packet, framing.length_size).ok
    <3>1. SUFFICES ASSUME framing # AnnexB, ~SplitLengthPrefixed(packet, framing.length_size).ok
                   PROVE  FALSE
      OBVIOUS
    <3>2. framing.how = "LengthPrefixed"
      BY <1>2, <3>1, FramingKinds
    <3>3. InsertInto(framing, packet, note) = Err
      BY <3>1, <3>2 DEF InsertInto, InsertSeiLengthPrefixed
    <3>. QED  BY <1>1, <3>3 DEF Err
  <2>. QED  BY <1>2, <2>1, ReadsUnits
<1>4. /\ UnitsNow \in Seq(GoodNals) /\ UnitsNow \in Seq(CleanNals \cap ShortNals)
      /\ NalsTemporalId(UnitsNow) = NalsTemporalId(First)
  BY NowAreNals DEF GoodNals
<1>5. /\ sei = WriteUserDataAt(note, NalsTemporalId(UnitsNow))
      /\ note \in Seq(Byte) /\ sei \in GoodNals /\ sei \in ShortNals
  BY <1>4, SeisPut DEF GoodNals
<1>6. Reads(framing, packet', InsertAt(UnitsNow, FirstSlice(UnitsNow), sei))
  <2>. HIDE DEF sei
  <2>. QED  BY <1>1, <1>3, <1>4, <1>5, InsertReads
<1>7. /\ Ahead0 \in Seq(GoodNals) /\ Behind0 \in Seq(GoodNals) /\ UnitsPut \in Seq(GoodNals)
      /\ BeforeSlices(Ahead0, Behind0) /\ \A k \in 1..Len(UnitsPut) : ~IsVcl(UnitsPut[k])
  BY OriginNals, SeisPut
<1>8. InsertAt(UnitsNow, FirstSlice(UnitsNow), sei) = Ahead0 \o Append(UnitsPut, sei) \o Behind0
  <2>. DEFINE u == Ahead0
              n == UnitsPut
              v == Behind0
              w == u \o n \o v
  <2>1. u \in Seq(GoodNals) /\ v \in Seq(GoodNals) /\ n \in Seq(GoodNals) /\ sei \in GoodNals
        /\ BeforeSlices(u, v) /\ \A k \in 1..Len(n) : ~IsVcl(n[k])
    BY <1>5, <1>7
  <2>. HIDE DEF sei, u, n, v
  <2>2. InsertAt(w, FirstSlice(w), sei) = u \o Append(n, sei) \o v
    BY <2>1, OneMoreNote
  <2>3. w = UnitsNow
    BY Zenon DEF UnitsNow, u, n, v
  <2>. HIDE DEF w
  <2>. QED  BY <2>2, <2>3, Zenon DEF u, n, v
<1>9. UnitsNow' = Ahead0 \o Append(UnitsPut, sei) \o Behind0
  BY <1>1, <1>5, <1>7, UnitsGrow
<1>10. Reads(framing', packet', UnitsNow')
  BY <1>1, <1>6, <1>8, <1>9, Zenon
<1>11. UnitsOf(framing', packet') = UnitsNow' /\ packet' \in Seq(Byte)
  BY <1>10, UnitsRead
<1>. QED  BY <1>11 DEF NalInv

LEMMA ReframeNals ==
    ASSUME PutInv, NalInv, NEW size, Reframe(LengthPrefixed(size))
    PROVE  NalInv'
<1>1. /\ framing = AnnexB /\ framing' = LengthPrefixed(size)
      /\ Reframed(LengthPrefixed(size), packet).ok
      /\ packet' = Reframed(LengthPrefixed(size), packet).bytes
      /\ put' = put /\ origin' = origin
  BY DEF Reframe
<1>2. framing # Av1 /\ framing \in PacketFramings
  BY <1>1, FramingKinds
<1>3. packet \in Seq(Byte) /\ UnitsOf(framing, packet) = UnitsNow
  BY <1>2 DEF NalInv
<1>4. Reads(AnnexB, packet, UnitsNow)
  BY <1>1, <1>2, <1>3, ReadsUnits
<1>5. UnitsNow \in Seq(ShortNals)
  BY <1>2, NowAreNals, GoodNalsAre
<1>6. Reads(framing', packet', UnitsNow)
  BY <1>1, <1>4, <1>5, ReframeReads
<1>7. UnitsNow' = UnitsNow
  BY <1>1, UnitsStay
<1>8. UnitsOf(framing', packet') = UnitsNow' /\ packet' \in Seq(Byte)
  BY <1>6, <1>7, UnitsRead
<1>. QED  BY <1>8 DEF NalInv

LEMMA BackNals ==
    ASSUME PutInv, NalInv, Back
    PROVE  NalInv'
<1>1. /\ framing.how = "LengthPrefixed" /\ framing' = AnnexB
      /\ LengthPrefixedToAnnexb(packet, AskedAsTrack(framing).length_size).ok
      /\ packet' = LengthPrefixedToAnnexb(packet, AskedAsTrack(framing).length_size).bytes
      /\ put' = put /\ origin' = origin
  BY DEF Back
<1>2. framing # Av1 /\ framing # AnnexB /\ framing \in PacketFramings
  BY <1>1, FramingKinds DEF PutInv
<1>3. PICK size \in 1..4 : framing = LengthPrefixed(size) /\ framing.length_size = size
  BY <1>2, FramingKinds
<1>4. AskedAsTrack(framing).length_size = size
  BY <1>1, <1>2, <1>3, AskedIs
<1>5. packet \in Seq(Byte) /\ UnitsOf(framing, packet) = UnitsNow
  BY <1>2 DEF NalInv
<1>6. LengthPrefixedToAnnexb(packet, size).ok /\ packet' = LengthPrefixedToAnnexb(packet, size).bytes
  BY <1>1, <1>4
<1>7. SplitLengthPrefixed(packet, framing.length_size).ok
  BY <1>3, <1>6 DEF LengthPrefixedToAnnexb, Err
<1>8. Reads(LengthPrefixed(size), packet, UnitsNow)
  BY <1>2, <1>3, <1>5, <1>7, ReadsUnits
<1>9. UnitsNow \in Seq(CleanNals)
  BY <1>2, NowAreNals, GoodNalsAre
<1>10. packet' = StartCoded(UnitsNow) /\ Reads(AnnexB, StartCoded(UnitsNow), UnitsNow)
  <2>1. LengthPrefixedToAnnexb(packet, size) = Ok(StartCoded(UnitsNow))
        /\ Reads(AnnexB, StartCoded(UnitsNow), UnitsNow)
    BY <1>8, <1>9, BackReads
  <2>2. \A b : Ok(b).bytes = b
    BY DEF Ok
  <2>. QED  BY <1>6, <2>1, <2>2, Zenon
<1>11. UnitsNow' = UnitsNow
  BY <1>1, UnitsStay
<1>12. UnitsOf(framing', packet') = UnitsNow' /\ packet' \in Seq(Byte)
  <2>1. Reads(framing', packet', UnitsNow)
    BY <1>1, <1>10, Zenon
  <2>. QED  BY <1>11, <2>1, UnitsRead
<1>. QED  BY <1>12 DEF NalInv

LEMMA NalStep == PutInv /\ NalInv /\ [Next]_vars => NalInv'
<1>. SUFFICES ASSUME PutInv, NalInv, [Next]_vars PROVE NalInv'
  OBVIOUS
<1>1. ASSUME UNCHANGED calls PROVE NalInv'
  <2>1. framing' = framing /\ packet' = packet /\ put' = put /\ origin' = origin
    BY <1>1 DEF calls
  <2>2. UnitsNow' = UnitsNow
    BY <2>1, UnitsStay
  <2>. QED  BY <2>1, <2>2, Zenon DEF NalInv
<1>2. ASSUME NEW note \in Notes, Insert(note) PROVE NalInv'
  <2>1. framing' = framing
    BY <1>2 DEF Insert
  <2>2. CASE framing = Av1
    BY <2>1, <2>2 DEF NalInv
  <2>. QED  BY <1>2, <2>2, InsertNals
<1>3. (\E note \in Notes : InsertRefused(note)) => UNCHANGED calls
  BY DEF InsertRefused
<1>4. (\E size \in Widths : ReframeRefused(LengthPrefixed(size))) => UNCHANGED calls
  BY DEF ReframeRefused
<1>5. BackRefused \/ UNCHANGED vars => UNCHANGED calls
  BY DEF BackRefused, vars, calls
<1>. QED  BY <1>1, <1>2, <1>3, <1>4, <1>5, ReframeNals, BackNals, Zenon
          DEF Next, InsertStep, ReframeStep

\* Of the NAL units of a packet no call loses, changes or moves one: they are
\* the encoder's, with an SEI for every payload put in before the first slice
\* (insert_sei_annexb, insert_sei_length_prefixed, both reframings).
THEOREM SpliceNalHolds == Spec => []NalInv
<1>1. Init => NalInv
  BY PutInit, NalInit
<1>. QED  BY <1>1, SplicePutHolds, NalStep, PTL DEF Spec

\* The SEI of a payload repeats the temporal id of the slice it stands before,
\* of every packet and through every change of framing (Framing::insert, the
\* temporal id it takes from access_units or from the slice of a sample).
THEOREM SpliceTemporalIdRepeats == Spec => []TemporalIdRepeats
<1>1. ASSUME PutInv, NalInv PROVE TemporalIdRepeats
  <2>. DEFINE nals == UnitsOf(framing, packet)
              first == PictureAt(framing, nals)
              id == IF first > Len(nals) THEN 1 ELSE TemporalIdPlus1(nals[first])
  <2>1. SUFFICES ASSUME framing # Av1, NEW k \in (first - Len(put))..(first - 1)
                 PROVE  TemporalIdPlus1(nals[k]) = id
    BY DEF TemporalIdRepeats
  <2>2. nals = UnitsNow
    BY <1>1, <2>1 DEF NalInv
  <2>3. first = FirstSlice(UnitsNow)
    BY <2>1, <2>2, PictureIsSlice
  <2>4. id = NalsTemporalId(First)
    <3>1. id = NalsTemporalId(UnitsNow)
      BY <2>2, <2>3, Zenon DEF NalsTemporalId
    <3>. QED  BY <1>1, <2>1, <3>1, NowAreNals
  <2>. HIDE DEF nals, first, id
  <2>5. /\ Ahead0 \in Seq(GoodNals) /\ Behind0 \in Seq(GoodNals)
        /\ first = Len(Ahead0) + Len(put) + 1
    BY <1>1, <2>1, <2>3, OriginNals, NowAreNals
  <2>6. /\ UnitsPut \in Seq(GoodNals) /\ Len(UnitsPut) = Len(put) /\ Len(put) \in Nat
        /\ \A j \in 1..Len(put) : UnitsPut[j] = UnitOf(put[j]) /\ put[j] \in Notes
        /\ \A note \in Notes : TemporalIdPlus1(UnitOf(note))
                                   = IF Codec = "H264" THEN 1 ELSE NalsTemporalId(First)
    BY <1>1, <2>1, SeisPut
  <2>. DEFINE u == Ahead0
              n == UnitsPut
              v == Behind0
              p == u \o n
              w == p \o v
              j == k - Len(u)
  <2>7. w = UnitsNow
    BY Zenon DEF UnitsNow
  <2>. HIDE DEF u, n, v
  <2>8. u \in Seq(GoodNals) /\ n \in Seq(GoodNals) /\ v \in Seq(GoodNals)
    BY <2>5, <2>6 DEF u, n, v
  <2>9. /\ p \in Seq(GoodNals) /\ Len(u) \in Nat /\ Len(n) \in Nat /\ Len(p) = Len(u) + Len(n)
        /\ \A i \in 1..Len(n) : p[Len(u) + i] = n[i]
    BY <2>8, TwoParts
  <2>. HIDE DEF p
  <2>10. \A i \in 1..Len(p) : w[i] = p[i]
    BY <2>8, <2>9, TwoParts
  <2>. HIDE DEF w
  <2>11. /\ j \in 1..Len(n) /\ k \in 1..Len(p) /\ Len(u) + j = k /\ j \in 1..Len(put)
    BY <2>5, <2>6, <2>9 DEF u, n
  <2>12. w[k] = UnitOf(put[j]) /\ put[j] \in Notes
    <3>1. w[k] = n[j]
      BY <2>9, <2>10, <2>11
    <3>. HIDE DEF j
    <3>. QED  BY <2>6, <2>11, <3>1 DEF n
  <2>13. TemporalIdPlus1(nals[k]) = IF Codec = "H264" THEN 1 ELSE NalsTemporalId(First)
    <3>. HIDE DEF j
    <3>. QED  BY <2>2, <2>6, <2>7, <2>12, Zenon
  <2>14. Codec = "H264" => NalsTemporalId(First) = 1
    BY DEF NalsTemporalId, TemporalIdPlus1
  <2>. QED  BY <2>4, <2>13, <2>14
<1>. QED  BY <1>1, SplicePutHolds, SpliceNalHolds, PTL

-----------------------------------------------------------------------------
\* Packets of OBUs.

\* The OBUs of bytes that a scan returns.
LEMMA ObuBytesAre ==
    ASSUME NEW b \in Seq(Byte), ~ScanFails(b)
    PROVE  LET u == ObuBytes(b)
               a == Ascending(ObuStarts(b))
           IN  /\ u \in Seq(Seq(Byte)) /\ Len(u) = Len(a) /\ Len(a) \in Nat
               /\ u = [k \in 1..Len(a) |-> Slice(b, a[k], ObuAt(b, a[k]).end)]
               /\ \A k \in 1..Len(a) :
                     /\ a[k] \in ObuStarts(b) /\ SameObu(b, a[k], u[k], 0, a[k])
                     /\ u[k] = Slice(b, a[k], ObuAt(b, a[k]).end)
                     /\ UserDataObu(u[k]) = MineOf(ObuAt(b, a[k]))
                     /\ UserDataObu(u[k]) \in Seq(Seq(Byte))
                     /\ k = 1 <=> a[k] = 0
<1>. DEFINE A == ObuStarts(b)
            a == Ascending(A)
            u == ObuBytes(b)
            piece(k) == Slice(b, a[k], ObuAt(b, a[k]).end)
<1>1. u = [k \in 1..Len(a) |-> piece(k)]
  BY DEF ObuBytes
<1>2. /\ Len(a) \in Nat /\ a \in [1..Len(a) -> Nat]
      /\ \A k \in 1..Len(a) : a[k] \in A
      /\ \A p \in A : \E k \in 1..Len(a) : a[k] = p
      /\ \A i, j \in 1..Len(a) : i < j => a[i] < a[j]
  BY ObuListIs
<1>. HIDE DEF a, u
<1>3. ASSUME NEW k \in 1..Len(a)
      PROVE  /\ piece(k) \in Seq(Byte) /\ SameObu(b, a[k], piece(k), 0, a[k])
             /\ UserDataObu(piece(k)) = MineOf(ObuAt(b, a[k]))
             /\ UserDataObu(piece(k)) \in Seq(Seq(Byte))
  <2>1. a[k] \in A
    BY <1>2
  <2>2. piece(k) \in Seq(Byte) /\ SameObu(b, a[k], piece(k), 0, a[k])
    BY <2>1, OneObu
  <2>. QED  BY <2>1, <2>2, UserDataSlice
<1>4. ASSUME NEW k \in 1..Len(a) PROVE k = 1 <=> a[k] = 0
  <2>1. 0 \in A
    <3>1. a[k] \in A /\ A \subseteq 0..(Len(b) - 1) /\ Len(b) \in Nat
      BY <1>2, ObuStartsAre
    <3>2. Len(b) > 0
      <4>1. a[k] \in 0..(Len(b) - 1)
        BY <3>1
      <4>. HIDE DEF A
      <4>. QED  BY <3>1, <4>1
    <3>. QED  BY <3>2, ObuStartsAre
  <2>2. PICK j \in 1..Len(a) : a[j] = 0
    BY <1>2, <2>1
  <2>3. 1 \in 1..Len(a) /\ a[1] \in Nat /\ a[k] \in Nat
    BY <1>2
  <2>4. j = 1
    <3>1. j # 1 => a[1] < a[j]
      BY <1>2, <2>3
    <3>. QED  BY <2>2, <2>3, <3>1
  <2>5. k # 1 => a[1] < a[k]
    BY <1>2, <2>3
  <2>. QED  BY <2>2, <2>3, <2>4, <2>5
<1>5. \A k \in 1..Len(a) : u[k] = piece(k)
  BY <1>1
<1>6. u \in Seq(Seq(Byte)) /\ Len(u) = Len(a)
  <2>1. \A k \in 1..Len(a) : piece(k) \in Seq(Byte)
    BY <1>3
  <2>. HIDE DEF piece
  <2>. QED  BY <1>1, <1>2, <2>1
<1>7. \A k \in 1..Len(a) :
         /\ a[k] \in A /\ SameObu(b, a[k], u[k], 0, a[k])
         /\ u[k] = piece(k)
         /\ UserDataObu(u[k]) = MineOf(ObuAt(b, a[k]))
         /\ UserDataObu(u[k]) \in Seq(Seq(Byte))
         /\ k = 1 <=> a[k] = 0
  <2>. HIDE DEF piece, A
  <2>. QED  BY <1>2, <1>3, <1>4, <1>5
<1>. QED  BY <1>1, <1>2, <1>6, <1>7 DEF a, u

\* user_data of a temporal unit is that of its OBUs, one after another.
LEMMA PayloadsOfObus ==
    ASSUME NEW b \in Seq(Byte), ~ScanFails(b)
    PROVE  LET u == ObuBytes(b)
           IN  UserDataObu(b) = FlattenSeq([k \in 1..Len(u) |-> UserDataObu(u[k])])
<1>. DEFINE a == Ascending(ObuStarts(b))
            u == ObuBytes(b)
            f == [k \in 1..Len(a) |-> MineOf(ObuAt(b, a[k]))]
            g == [k \in 1..Len(u) |-> UserDataObu(u[k])]
<1>1. UserDataObu(b) = FlattenSeq(f)
  BY UserDataObuIs
<1>2. Len(u) = Len(a) /\ \A k \in 1..Len(a) : UserDataObu(u[k]) = MineOf(ObuAt(b, a[k]))
  BY ObuBytesAre
<1>. HIDE DEF a, u
<1>3. f = g
  BY <1>2
<1>. HIDE DEF f, g
<1>4. UserDataObu(b) = FlattenSeq(g)
  BY <1>1, <1>3
<1>. QED  BY <1>4 DEF g, u

LEMMA ObuBytesJoin ==
    ASSUME NEW x, Closed(x), NEW y \in Seq(Byte), ~ScanFails(y),
           NEW w, w = x \o y, Len(w) <= UsizeMax
    PROVE  LET a == Ascending(ObuStarts(x))
               b == Ascending(ObuStarts(y))
               d == Ascending(ObuStarts(w))
           IN  /\ ObuBytes(w) = ObuBytes(x) \o ObuBytes(y)
               /\ Len(d) = Len(a) + Len(b)
               /\ \A k \in 1..Len(b) : d[Len(a) + k] = Len(x) + b[k]
<1>. DEFINE n == Len(x)
            A == ObuStarts(x)
            B == ObuStarts(y)
            D == ObuStarts(w)
            a == Ascending(A)
            b == Ascending(B)
            p == Len(a)
            q == Len(b)
            f == [k \in 1..(p + q) |-> IF k <= p THEN a[k] ELSE n + b[k - p]]
<1>1. x \in Seq(Byte) /\ ~ScanFails(x)
  BY DEF Closed
<1>2. w = x \o y =>
         /\ w \in Seq(Byte) /\ n \in Nat /\ Len(y) \in Nat /\ Len(w) = n + Len(y)
         /\ SubSeq(w, 1, n) = x /\ SubSeq(w, n + 1, Len(w)) = y
         /\ \A k \in 1..n : w[k] = x[k]
         /\ \A k \in 1..Len(y) : w[n + k] = y[k]
  BY <1>1, TwoParts
<1>3. /\ w \in Seq(Byte) /\ n \in Nat /\ Len(y) \in Nat /\ Len(w) = n + Len(y)
      /\ \A k \in 1..n : w[k] = x[k]
      /\ \A k \in 1..Len(y) : w[n + k] = y[k]
  BY <1>2
<1>4. /\ ~ScanFails(w) /\ D = A \cup {n + s : s \in B}
      /\ \A s \in A : SameObu(w, s, x, s, 0)
      /\ \A s \in B : SameObu(w, n + s, y, s, n)
  BY ObusOfJoin
<1>5. /\ p \in Nat /\ a \in [1..p -> Nat] /\ \A k \in 1..p : a[k] \in A
      /\ \A s \in A : \E k \in 1..p : a[k] = s
      /\ \A i, j \in 1..p : i < j => a[i] < a[j]
  BY <1>1, ObuListIs
<1>6. /\ q \in Nat /\ b \in [1..q -> Nat] /\ \A k \in 1..q : b[k] \in B
      /\ \A s \in B : \E k \in 1..q : b[k] = s
      /\ \A i, j \in 1..q : i < j => b[i] < b[j]
  BY ObuListIs
<1>7. /\ \A s \in A : s \in 0..(n - 1) /\ ObuAt(x, s).end \in (s + 1)..n
      /\ \A s \in B : s \in 0..(Len(y) - 1) /\ ObuAt(y, s).end \in (s + 1)..Len(y)
  BY <1>1, ObuStartsAre
<1>8. /\ ObuBytes(x) = [k \in 1..p |-> Slice(x, a[k], ObuAt(x, a[k]).end)]
      /\ ObuBytes(x) \in Seq(Seq(Byte)) /\ Len(ObuBytes(x)) = p
  BY <1>1, ObuBytesAre
<1>9. /\ ObuBytes(y) = [k \in 1..q |-> Slice(y, b[k], ObuAt(y, b[k]).end)]
      /\ ObuBytes(y) \in Seq(Seq(Byte)) /\ Len(ObuBytes(y)) = q
  BY ObuBytesAre
<1>10. /\ ObuBytes(w) = [k \in 1..Len(Ascending(D)) |->
                            Slice(w, Ascending(D)[k], ObuAt(w, Ascending(D)[k]).end)]
       /\ ObuBytes(w) \in Seq(Seq(Byte))
  BY <1>3, <1>4, ObuBytesAre
<1>. HIDE DEF a, b, p, q, n, A, B, D
<1>11. p + q \in Nat /\ f \in [1..(p + q) -> Nat]
  <2>1. \A k \in 1..(p + q) : k <= p => k \in 1..p
    BY <1>5
  <2>2. \A k \in 1..(p + q) : ~(k <= p) => k - p \in 1..q
    BY <1>5, <1>6
  <2>3. \A k \in 1..(p + q) : k <= p => a[k] \in Nat
    BY <1>5, <2>1
  <2>4. \A k \in 1..(p + q) : ~(k <= p) => n + b[k - p] \in Nat
    BY <1>3, <1>6, <2>2
  <2>. DEFINE val(k) == IF k <= p THEN a[k] ELSE n + b[k - p]
  <2>5. \A k \in 1..(p + q) : val(k) \in Nat
    BY <2>3, <2>4
  <2>6. f = [k \in 1..(p + q) |-> val(k)]
    OBVIOUS
  <2>7. p + q \in Nat
    BY <1>5, <1>6
  <2>. HIDE DEF val, f
  <2>. QED  BY <2>5, <2>6, <2>7
<1>12. /\ \A k \in 1..p : f[k] = a[k] /\ k \in 1..(p + q)
       /\ \A k \in 1..q : f[p + k] = n + b[k] /\ p + k \in 1..(p + q)
  <2>1. \A k \in 1..p : f[k] = a[k] /\ k \in 1..(p + q)
    BY <1>5, <1>6
  <2>2. ASSUME NEW k \in 1..q PROVE f[p + k] = n + b[k] /\ p + k \in 1..(p + q)
    <3>1. p + k \in 1..(p + q) /\ ~(p + k <= p) /\ (p + k) - p = k
      BY <1>5, <1>6
    <3>. QED  BY <3>1
  <2>. QED  BY <2>1, <2>2
<1>13. \A k \in 1..(p + q) : k \in 1..p \/ \E j \in 1..q : k = p + j
  <2>. SUFFICES ASSUME NEW k \in 1..(p + q), k \notin 1..p PROVE \E j \in 1..q : k = p + j
    OBVIOUS
  <2>1. k - p \in 1..q /\ k = p + (k - p)
    BY <1>5, <1>6
  <2>. QED  BY <2>1
<1>. HIDE DEF f
<1>14. \A i, j \in 1..(p + q) : i < j => f[i] < f[j]
  <2>. SUFFICES ASSUME NEW i \in 1..(p + q), NEW j \in 1..(p + q), i < j PROVE f[i] < f[j]
    OBVIOUS
  <2>1. CASE i \in 1..p /\ j \in 1..p
    BY <1>5, <1>12, <2>1
  <2>2. ASSUME i \in 1..p, NEW e \in 1..q, j = p + e PROVE f[i] < f[j]
    <3>1. a[i] \in 0..(n - 1) /\ b[e] \in Nat
      BY <1>5, <1>6, <1>7, <2>2
    <3>. QED  BY <1>3, <1>12, <2>2, <3>1 DEF n
  <2>3. ASSUME NEW d \in 1..q, NEW e \in 1..q, i = p + d, j = p + e PROVE f[i] < f[j]
    <3>1. d < e
      BY <1>5, <2>3
    <3>2. b[d] < b[e] /\ b[d] \in Nat /\ b[e] \in Nat
      BY <1>6, <3>1
    <3>. QED  BY <1>3, <1>12, <2>3, <3>2 DEF n
  <2>4. ~(j \in 1..p /\ i \notin 1..p)
    BY <1>5
  <2>. QED  BY <1>13, <2>1, <2>2, <2>3, <2>4
<1>15. \A s : s \in D <=> \E i \in 1..(p + q) : s = f[i]
  <2>1. \A s \in A : \E i \in 1..(p + q) : s = f[i]
    BY <1>5, <1>12
  <2>2. \A s \in B : \E i \in 1..(p + q) : n + s = f[i]
    BY <1>6, <1>12
  <2>3. \A i \in 1..(p + q) : f[i] \in D
    <3>1. \A i \in 1..p : f[i] \in D
      BY <1>4, <1>5, <1>12
    <3>2. \A j \in 1..q : f[p + j] \in D
      BY <1>4, <1>6, <1>12
    <3>. QED  BY <1>13, <3>1, <3>2
  <2>. QED  BY <1>4, <2>1, <2>2, <2>3
<1>16. Ascending(D) = f
  BY <1>11, <1>14, <1>15, AscendingUnique
<1>17. Len(f) = p + q
  <2>. DEFINE m == p + q
  <2>1. m \in Nat /\ f \in [1..m -> Nat]
    BY <1>11
  <2>. HIDE DEF m
  <2>2. DOMAIN f = 1..m /\ f \in Seq(Nat)
    BY <2>1
  <2>3. Len(f) = m
    BY <2>1, <2>2, LenProperties
  <2>. QED  BY <2>3 DEF m
<1>. DEFINE piece(k) == Slice(w, f[k], ObuAt(w, f[k]).end)
<1>18. ObuBytes(w) = [k \in 1..(p + q) |-> piece(k)]
  BY <1>10, <1>16, <1>17
<1>19. /\ \A i \in 0..(n - 1) : At(w, i) = At(x, i)
       /\ \A i \in 0..(Len(y) - 1) : At(w, n + i) = At(y, i)
  <2>1. ASSUME NEW i \in 0..(n - 1) PROVE At(w, i) = At(x, i)
    <3>1. i + 1 \in 1..n
      BY <1>3 DEF n
    <3>. QED  BY <1>3, <3>1 DEF n, At
  <2>2. ASSUME NEW i \in 0..(Len(y) - 1) PROVE At(w, n + i) = At(y, i)
    <3>1. i + 1 \in 1..Len(y) /\ n + (i + 1) = (n + i) + 1
      BY <1>3 DEF n
    <3>. QED  BY <1>3, <3>1 DEF n, At
  <2>. QED  BY <2>1, <2>2
<1>20. ASSUME NEW k \in 1..p PROVE piece(k) = ObuBytes(x)[k]
  <2>. DEFINE s == a[k]
              e == ObuAt(x, s).end
  <2>1. s \in A /\ s \in 0..(n - 1) /\ e \in (s + 1)..n /\ f[k] = s
    BY <1>5, <1>7, <1>12
  <2>2. ObuAt(w, s).end = 0 + e
    BY <1>4, <2>1 DEF SameObu
  <2>. HIDE DEF s, e
  <2>3. ObuAt(w, s).end = e /\ e \in 0..Len(x) /\ e \in 0..Len(w) /\ s \in 0..e
    BY <1>3, <2>1, <2>2 DEF n
  <2>4. \A i \in 0..(e - s - 1) : At(x, s + i) = At(w, s + i)
    <3>. SUFFICES ASSUME NEW i \in 0..(e - s - 1) PROVE At(x, s + i) = At(w, s + i)
      OBVIOUS
    <3>1. s + i \in 0..(n - 1)
      BY <1>3, <2>1, <2>3 DEF n
    <3>. QED  BY <1>19, <3>1
  <2>5. Slice(x, s, e) = Slice(w, s, e)
    <3>1. /\ x \in Seq(Byte) /\ w \in Seq(Byte)
          /\ e \in 0..Len(x) /\ e \in 0..Len(w) /\ s \in 0..e /\ e - s = e - s
      BY <1>1, <1>3, <2>3
    <3>. QED  BY <2>4, <3>1, SliceAlike
  <2>6. ObuBytes(x)[k] = Slice(x, s, e)
    BY <1>8 DEF s, e
  <2>. QED  BY <2>1, <2>3, <2>5, <2>6
<1>21. ASSUME NEW k \in 1..q PROVE piece(p + k) = ObuBytes(y)[k]
  <2>. DEFINE s == b[k]
              e == ObuAt(y, s).end
              m == Len(y)
  <2>1. s \in B /\ s \in 0..(m - 1) /\ e \in (s + 1)..m /\ f[p + k] = n + s
    BY <1>6, <1>7, <1>12
  <2>2. ObuAt(w, n + s).end = n + e
    BY <1>4, <2>1 DEF SameObu
  <2>3. n \in Nat /\ m \in Nat /\ Len(w) = n + m
    BY <1>3 DEF n
  <2>4. \A i \in 0..(m - 1) : At(w, n + i) = At(y, i)
    BY <1>19
  <2>5. ObuBytes(y)[k] = Slice(y, s, e)
    BY <1>9
  <2>. HIDE DEF s, e
  <2>6. e \in 0..m /\ s \in 0..e /\ n + e \in 0..Len(w) /\ n + s \in 0..(n + e)
        /\ e - s = (n + e) - (n + s)
    BY <2>1, <2>3
  <2>7. \A i \in 0..(e - s - 1) : At(y, s + i) = At(w, (n + s) + i)
    <3>. SUFFICES ASSUME NEW i \in 0..(e - s - 1) PROVE At(y, s + i) = At(w, (n + s) + i)
      OBVIOUS
    <3>1. s + i \in 0..(m - 1) /\ n + (s + i) = (n + s) + i
      BY <2>1, <2>3
    <3>2. At(w, n + (s + i)) = At(y, s + i)
      BY <2>4, <3>1
    <3>. QED  BY <3>1, <3>2
  <2>8. Slice(y, s, e) = Slice(w, n + s, n + e)
    BY <1>3, <2>6, <2>7, SliceAlike
  <2>. QED  BY <2>1, <2>2, <2>5, <2>8
<1>. HIDE DEF piece
<1>22. Adjoined(ObuBytes(w), ObuBytes(x), ObuBytes(y))
  <2>1. Len(ObuBytes(w)) = p + q
    BY <1>10, <1>16, <1>17, <1>3, <1>4, ObuBytesAre DEF D
  <2>2. \A k \in 1..p : ObuBytes(w)[k] = ObuBytes(x)[k]
    BY <1>12, <1>18, <1>20
  <2>3. \A k \in 1..q : ObuBytes(w)[p + k] = ObuBytes(y)[k]
    BY <1>12, <1>18, <1>21
  <2>. QED  BY <1>8, <1>9, <2>1, <2>2, <2>3 DEF Adjoined
<1>23. ObuBytes(w) = ObuBytes(x) \o ObuBytes(y)
  BY <1>8, <1>9, <1>10, <1>22, AdjoinedIs
<1>. QED  BY <1>12, <1>16, <1>17, <1>23 DEF a, b, p, q, n, A, B, D

\* The picture of AV1 begins behind the OBUs before it.
LEMMA PictureAtParts ==
    ASSUME NEW x, NEW y, NEW b, ObuParts(b, x, y), Len(b) <= UsizeMax
    PROVE  /\ ObuBytes(b) = ObuBytes(x) \o ObuBytes(y)
           /\ ObuBytes(x) \in Seq(Seq(Byte)) /\ ObuBytes(y) \in Seq(Seq(Byte))
           /\ PictureAt(Av1, ObuBytes(b)) = Len(ObuBytes(x)) + 1
<1>. DEFINE u == ObuBytes(x)
            v == ObuBytes(y)
            w == ObuBytes(b)
            a == Ascending(ObuStarts(x))
            d == Ascending(ObuStarts(y))
            n == Len(u)
            m == Len(v)
            S == {k \in 1..Len(w) : IsPicture(Av1, w, k)} \cup {Len(w) + 1}
<1>1. x \in Seq(Byte) /\ Closed(x) /\ ~ScanFails(x) /\ y \in Seq(Byte) /\ ~ScanFails(y) /\ b = x \o y
  BY DEF ObuParts, Closed
<1>2. w = u \o v
  BY <1>1, ObuBytesJoin
<1>3. /\ u \in Seq(Seq(Byte)) /\ n = Len(a) /\ n \in Nat
      /\ \A k \in 1..n : /\ a[k] \in ObuStarts(x) /\ SameObu(x, a[k], u[k], 0, a[k])
                         /\ k = 1 <=> a[k] = 0
  BY <1>1, ObuBytesAre
<1>4. /\ v \in Seq(Seq(Byte)) /\ m = Len(d) /\ m \in Nat
      /\ \A k \in 1..m : /\ d[k] \in ObuStarts(y) /\ SameObu(y, d[k], v[k], 0, d[k])
                         /\ k = 1 <=> d[k] = 0
  BY <1>1, ObuBytesAre
<1>5. w = u \o v =>
         /\ w \in Seq(Seq(Byte)) /\ Len(w) = n + m
         /\ \A k \in 1..n : w[k] = u[k]
         /\ \A k \in 1..m : w[n + k] = v[k]
  <2>. HIDE DEF u, v, w
  <2>1. u \in Seq(Seq(Byte)) /\ v \in Seq(Seq(Byte))
    BY <1>3, <1>4
  <2>. QED  BY <2>1, TwoParts
<1>6. x # << >> => n >= 1
  <2>. SUFFICES ASSUME x # << >> PROVE n >= 1
    OBVIOUS
  <2>1. 0 \in ObuStarts(x)
    BY <1>1, EmptySeq, LenProperties, ObuStartsAre
  <2>2. PICK k \in 1..Len(a) : a[k] = 0
    BY <1>1, <2>1, ObuListIs
  <2>. QED  BY <1>3, <2>2
<1>7. /\ y # << >> => m >= 1
      /\ y = << >> => m = 0
  <2>1. ASSUME y # << >> PROVE m >= 1
    <3>1. 0 \in ObuStarts(y)
      BY <1>1, <2>1, EmptySeq, LenProperties, ObuStartsAre
    <3>2. PICK k \in 1..Len(d) : d[k] = 0
      BY <1>1, <3>1, ObuListIs
    <3>. QED  BY <1>4, <3>2
  <2>2. ASSUME y = << >> PROVE m = 0
    <3>1. m # 0 => d[1] \in ObuStarts(y)
      BY <1>4
    <3>2. ObuStarts(y) \subseteq 0..(Len(y) - 1) /\ Len(y) = 0
      BY <1>1, <2>2, ObuStartsAre
    <3>. QED  BY <3>1, <3>2
  <2>. QED  BY <2>1, <2>2
<1>. HIDE DEF u, v, w, a, d
<1>8. \A k \in 1..n : ~IsPicture(Av1, w, k)
  <2>. SUFFICES ASSUME NEW k \in 1..n PROVE ~IsPicture(Av1, w, k)
    OBVIOUS
  <2>1. w[k] = u[k] /\ ObuAt(u[k], 0).kind = ObuAt(x, a[k]).kind /\ a[k] \in ObuStarts(x)
    BY <1>2, <1>3, <1>5 DEF SameObu
  <2>2. k > 1 => a[k] # 0
    BY <1>3
  <2>. QED  BY <2>1, <2>2 DEF IsPicture, ObuParts
<1>9. m >= 1 => IsPicture(Av1, w, n + 1)
  <2>. SUFFICES ASSUME m >= 1 PROVE IsPicture(Av1, w, n + 1)
    OBVIOUS
  <2>1. 1 \in 1..m /\ y # << >>
    BY <1>4, <1>7
  <2>2. d[1] = 0 /\ SameObu(y, d[1], v[1], 0, d[1]) /\ w[n + 1] = v[1]
    BY <1>2, <1>4, <1>5, <2>1
  <2>3. ObuAt(w[n + 1], 0).kind = ObuAt(y, 0).kind
    BY <2>2 DEF SameObu
  <2>4. x # << >> => n + 1 > 1
    BY <1>3, <1>6
  <2>. QED  BY <2>1, <2>3, <2>4 DEF IsPicture, ObuParts
<1>10. n + 1 \in S /\ S \subseteq Nat
  <2>1. m = 0 => Len(w) + 1 = n + 1
    BY <1>2, <1>3, <1>4, <1>5
  <2>2. m >= 1 => n + 1 \in 1..Len(w)
    BY <1>2, <1>3, <1>4, <1>5
  <2>3. m = 0 \/ m >= 1
    BY <1>4
  <2>4. Len(w) + 1 \in Nat
    BY <1>2, <1>3, <1>4, <1>5
  <2>. QED  BY <1>9, <2>1, <2>2, <2>3, <2>4
<1>11. \A k \in S : n + 1 <= k
  <2>. SUFFICES ASSUME NEW k \in S PROVE n + 1 <= k
    OBVIOUS
  <2>1. CASE k = Len(w) + 1
    BY <1>2, <1>3, <1>4, <1>5, <2>1
  <2>2. CASE k \in 1..Len(w) /\ IsPicture(Av1, w, k)
    <3>1. k \notin 1..n
      BY <1>8, <2>2
    <3>. QED  BY <1>3, <2>2, <3>1
  <2>. QED  BY <2>1, <2>2
<1>. HIDE DEF S
<1>12. Min(S) = n + 1
  BY <1>10, <1>11, MinIs
<1>13. PictureAt(Av1, w) = n + 1
  BY <1>12 DEF PictureAt, S
<1>. QED  BY <1>2, <1>3, <1>4, <1>13 DEF u, v, w

LEMMA PartsOfUnit ==
    ASSUME NEW b \in Seq(Byte), ~ScanFails(b), SizedBeforePicture(ObuBytes(b))
    PROVE  \E x, y : ObuParts(b, x, y)
<1>. DEFINE u == ObuBytes(b)
            A == ObuStarts(b)
            a == Ascending(A)
            n == Len(a)
            S == {k \in 1..Len(u) : IsPicture(Av1, u, k)} \cup {Len(u) + 1}
            at == PictureAt(Av1, u)
            lo == IF at <= n THEN a[at] ELSE Len(b)
            x == Slice(b, 0, lo)
            y == Slice(b, lo, Len(b))
<1>1. /\ u \in Seq(Seq(Byte)) /\ Len(u) = n /\ n \in Nat
      /\ \A k \in 1..n : /\ a[k] \in A /\ SameObu(b, a[k], u[k], 0, a[k])
                         /\ k = 1 <=> a[k] = 0
  BY ObuBytesAre
<1>2. /\ a \in [1..n -> Nat]
      /\ \A s \in A : \E k \in 1..n : a[k] = s
      /\ \A i, j \in 1..n : i < j => a[i] < a[j]
  BY ObuListIs
<1>3. /\ Len(b) \in Nat /\ A \subseteq 0..(Len(b) - 1)
      /\ \A p : p \in ScanStands(b) <=> p \in A \/ p = Len(b)
  BY ObuStartsAre
<1>. HIDE DEF u, a, n, A
<1>4. at \in S /\ \A k \in S : at <= k
  <2>1. S \subseteq Nat /\ S # {}
    BY <1>1
  <2>2. at = Min(S)
    BY DEF PictureAt
  <2>. HIDE DEF S, at
  <2>. QED  BY <2>1, <2>2, MinExists
<1>5. /\ at \in 1..(n + 1) /\ at \in Nat
      /\ at <= n => IsPicture(Av1, u, at)
      /\ \A k \in 1..n : k < at => ~IsPicture(Av1, u, k)
  <2>. HIDE DEF at
  <2>1. at \in 1..(n + 1) /\ at \in Nat /\ (at <= n => IsPicture(Av1, u, at))
    BY <1>1, <1>4
  <2>2. ASSUME NEW k \in 1..n, k < at, IsPicture(Av1, u, k) PROVE FALSE
    <3>1. k \in S
      BY <1>1, <2>2
    <3>. QED  BY <1>4, <2>1, <2>2, <3>1
  <2>. QED  BY <2>1, <2>2
<1>. HIDE DEF S, at
<1>6. \A k \in 1..n : a[k] < lo => k < at
  <2>. SUFFICES ASSUME NEW k \in 1..n, a[k] < lo, ~(k < at) PROVE FALSE
    OBVIOUS
  <2>1. at \in 1..n /\ at <= n /\ (at = k \/ at < k)
    BY <1>1, <1>5
  <2>2. at = k \/ a[at] < a[k]
    BY <1>2, <2>1
  <2>. QED  BY <1>2, <2>1, <2>2
<1>7. lo \in ScanStands(b)
  BY <1>1, <1>3, <1>5
<1>8. \A s \in A : s < lo =>
         /\ ObuAt(b, s).sized
         /\ ObuAt(b, s).kind \notin FRAME_OBUS
         /\ s # 0 => ObuAt(b, s).kind # OBU_TEMPORAL_DELIMITER
  <2>. SUFFICES ASSUME NEW s \in A, s < lo
                PROVE  /\ ObuAt(b, s).sized
                       /\ ObuAt(b, s).kind \notin FRAME_OBUS
                       /\ s # 0 => ObuAt(b, s).kind # OBU_TEMPORAL_DELIMITER
    OBVIOUS
  <2>1. PICK k \in 1..n : a[k] = s
    BY <1>2
  <2>2. k < at
    BY <1>6, <2>1
  <2>3. ~IsPicture(Av1, u, k) /\ ObuAt(u[k], 0).sized
    BY <1>1, <1>5, <2>2 DEF SizedBeforePicture, u, at
  <2>4. ObuAt(b, s).sized = ObuAt(u[k], 0).sized /\ ObuAt(b, s).kind = ObuAt(u[k], 0).kind
    BY <1>1, <2>1 DEF SameObu
  <2>5. s # 0 => k > 1
    BY <1>1, <2>1
  <2>. QED  BY <2>3, <2>4, <2>5 DEF IsPicture
<1>. HIDE DEF lo
<1>9. /\ Closed(x) /\ Len(x) = lo /\ lo \in 0..Len(b)
      /\ ObuStarts(x) = {s \in A : s < lo}
      /\ \A s \in ObuStarts(x) : SameObu(b, s, x, s, 0)
  BY <1>7, <1>8, HeadScan DEF A
<1>10. /\ ~ScanFails(y)
       /\ \A p : p \in ObuStarts(y) <=> p \in Nat /\ lo + p \in A
       /\ \A p \in ObuStarts(y) : ObuAt(y, p).kind = ObuAt(b, lo + p).kind
  BY <1>7, TailScan DEF A
<1>11. y \in Seq(Byte) /\ y = DropFront(b, lo) /\ b = x \o y
  BY <1>9, CutBytes
<1>. HIDE DEF x, y
<1>12. \A s \in ObuStarts(x) :
          /\ ObuAt(x, s).kind \notin FRAME_OBUS
          /\ s # 0 => ObuAt(x, s).kind # OBU_TEMPORAL_DELIMITER
  BY <1>8, <1>9 DEF SameObu
<1>13. ASSUME y # << >>
       PROVE  \/ ObuAt(y, 0).kind \in FRAME_OBUS
              \/ x # << >> /\ ObuAt(y, 0).kind = OBU_TEMPORAL_DELIMITER
  <2>1. 0 \in ObuStarts(y)
    BY <1>10, <1>11, <1>13, EmptySeq, LenProperties, ObuStartsAre
  <2>2. lo + 0 = lo /\ lo + 0 \in A /\ ObuAt(y, 0).kind = ObuAt(b, lo + 0).kind
    BY <1>9, <1>10, <2>1
  <2>3. at <= n /\ a[at] = lo
    <3>1. lo # Len(b)
      BY <1>3, <2>2
    <3>. QED  BY <3>1 DEF lo
  <2>4. at \in 1..n
    BY <1>1, <1>5, <2>3
  <2>5. ObuAt(y, 0).kind = ObuAt(u[at], 0).kind
    BY <1>1, <2>2, <2>3, <2>4 DEF SameObu
  <2>6. at > 1 => lo # 0
    BY <1>1, <2>3, <2>4
  <2>7. lo # 0 => x # << >>
    BY <1>9
  <2>. QED  BY <1>5, <2>3, <2>5, <2>6, <2>7 DEF IsPicture
<1>. QED  BY <1>9, <1>10, <1>11, <1>12, <1>13 DEF ObuParts

\* A metadata OBU goes between the two and stays before the picture.
LEMMA OneMoreObu ==
    ASSUME NEW b, NEW x, NEW y, ObuParts(b, x, y), Len(b) <= UsizeMax,
           NEW note \in Seq(Byte), IsPrefix(Uuid, note), MetadataFits(note),
           b # << >>, Len(b) + Len(WriteMetadata(note)) <= UsizeMax
    PROVE  LET o == WriteMetadata(note)
               w == (x \o o) \o y
           IN  /\ InsertInto(Av1, b, note) = Ok(w)
               /\ ObuParts(w, x \o o, y) /\ w # << >>
               /\ Len(w) = Len(b) + Len(o)
               /\ ObuBytes(x \o o) = ObuBytes(x) \o <<o>> /\ ObuBytes(o) = <<o>>
<1>. DEFINE o == WriteMetadata(note)
            xo == x \o o
            w == xo \o y
<1>1. x \in Seq(Byte) /\ Closed(x) /\ y \in Seq(Byte) /\ ~ScanFails(y) /\ b = x \o y /\ ~ScanFails(x)
  BY DEF ObuParts, Closed
<1>2. /\ Closed(o) /\ ObuStarts(o) = {0} /\ Len(o) > 0 /\ o \in Seq(Byte) /\ ~ScanFails(o)
      /\ ObuAt(o, 0).kind = OBU_METADATA /\ ObuAt(o, 0).end = Len(o)
  <2>1. /\ Closed(o) /\ ObuStarts(o) = {0} /\ Len(o) > 0
        /\ ObuAt(o, 0).kind = OBU_METADATA /\ ObuAt(o, 0).end = Len(o)
    BY MetadataRoundTrip
  <2>. HIDE DEF o
  <2>. QED  BY <2>1 DEF Closed
<1>3. /\ b \in Seq(Byte) /\ ~ScanFails(b) /\ Len(x) \in 0..Len(b)
      /\ Slice(b, 0, Len(x)) = x /\ DropFront(b, Len(x)) = y
      /\ TemporalUnits(b)[1].insert_at = Len(x)
  BY InsertAtParts
<1>4. InsertInto(Av1, b, note) = Ok(w)
  <2>1. InsertInto(Av1, b, note) = InsertMetadataObu(b, o)
    BY FramingKinds DEF InsertInto
  <2>2. InsertMetadataObu(b, o) = Ok(Spliced(b, Len(x), o))
    BY <1>3 DEF InsertMetadataObu
  <2>3. Spliced(b, Len(x), o) = Slice(b, 0, Len(x)) \o o \o DropFront(b, Len(x))
    BY DEF Spliced
  <2>. HIDE DEF o
  <2>. QED  BY <1>3, <2>1, <2>2, <2>3
<1>5. Len(b) + Len(o) <= UsizeMax
  OBVIOUS
<1>. HIDE DEF o
<1>6. xo \in Seq(Byte) /\ Len(xo) = Len(x) + Len(o) /\ Len(x) \in Nat /\ Len(o) \in Nat /\ Len(y) \in Nat
      /\ Len(b) = Len(x) + Len(y)
  BY <1>1, <1>2, ConcatProperties, LenProperties
<1>. HIDE DEF xo
<1>7. w \in Seq(Byte) /\ Len(w) = Len(xo) + Len(y)
  BY <1>1, <1>6, ConcatProperties
<1>8. UsizeMax \in Nat /\ Len(xo) <= UsizeMax /\ Len(w) = Len(b) + Len(o)
      /\ Len(b) \in Nat
  BY <1>5, <1>6, <1>7, UsizeAssumption
<1>. HIDE DEF w
<1>9. /\ ~ScanFails(xo) /\ ObuStarts(xo) = ObuStarts(x) \cup {Len(x) + q : q \in ObuStarts(o)}
      /\ \A s \in ObuStarts(x) : SameObu(xo, s, x, s, 0)
      /\ \A q \in ObuStarts(o) : SameObu(xo, Len(x) + q, o, q, Len(x))
  BY <1>1, <1>2, <1>8, ObusOfJoin DEF xo
<1>10. ObuStarts(xo) = ObuStarts(x) \cup {Len(x)} /\ SameObu(xo, Len(x), o, 0, Len(x))
  <2>1. Len(x) + 0 = Len(x)
    BY <1>6
  <2>. QED  BY <1>2, <1>9, <2>1
<1>11. Closed(xo)
  BY <1>1, <1>2, <1>6, <1>9, <1>10 DEF Closed, SameObu
<1>12. ASSUME NEW s \in ObuStarts(xo)
       PROVE  /\ ObuAt(xo, s).kind \notin FRAME_OBUS
              /\ s # 0 => ObuAt(xo, s).kind # OBU_TEMPORAL_DELIMITER
  <2>1. CASE s \in ObuStarts(x)
    BY <1>9, <2>1 DEF SameObu, ObuParts
  <2>2. CASE s = Len(x)
    BY <1>2, <1>10, <2>2 DEF SameObu, OBU_METADATA, FRAME_OBUS, OBU_TEMPORAL_DELIMITER
  <2>. QED  BY <1>10, <2>1, <2>2
<1>13. xo # << >> /\ w # << >>
  <2>1. Len(xo) > 0 /\ Len(w) > 0
    BY <1>2, <1>6, <1>7
  <2>. QED  BY <2>1
<1>14. ObuParts(w, xo, y)
  BY <1>1, <1>11, <1>12, <1>13 DEF ObuParts, w
<1>15. ObuBytes(xo) = ObuBytes(x) \o ObuBytes(o)
  BY <1>1, <1>2, <1>8, ObuBytesJoin DEF xo
<1>16. ObuBytes(o) = <<o>>
  <2>. DEFINE a == Ascending(ObuStarts(o))
  <2>1. a = <<0>>
    <3>1. <<0>> \in [1..1 -> Nat] /\ \A i, j \in 1..1 : i < j => <<0>>[i] < <<0>>[j]
      OBVIOUS
    <3>2. \A z : z \in {0} <=> \E i \in 1..1 : z = <<0>>[i]
      OBVIOUS
    <3>. QED  BY <1>2, <3>1, <3>2, AscendingUnique
  <2>2. ObuBytes(o) = [k \in 1..Len(a) |-> Slice(o, a[k], ObuAt(o, a[k]).end)]
    BY <1>2, ObuBytesAre
  <2>3. Len(a) = 1 /\ a[1] = 0
    BY <2>1
  <2>. HIDE DEF a
  <2>4. Slice(o, 0, Len(o)) = o
    <3>1. << >> \o o = o /\ << >> \in Seq(Byte) /\ Len(<< >>) = 0
      BY <1>2
    <3>2. SubSeq(o, 1, Len(o)) = o
      BY <1>2
    <3>. QED  BY <3>2 DEF Slice
  <2>5. \A k \in 1..Len(a) : Slice(o, a[k], ObuAt(o, a[k]).end) = o
    BY <1>2, <2>3, <2>4
  <2>6. ObuBytes(o) = [k \in 1..1 |-> o]
    BY <2>2, <2>3, <2>5
  <2>. QED  BY <2>6
<1>. QED  BY <1>4, <1>8, <1>13, <1>14, <1>15, <1>16 DEF w, xo, o

\* Closed bytes one after another, and none at all.
LEMMA ClosedJoin ==
    ASSUME NEW x, Closed(x), NEW y, Closed(y), NEW w, w = x \o y, Len(w) <= UsizeMax
    PROVE  Closed(w) /\ ObuBytes(w) = ObuBytes(x) \o ObuBytes(y)
<1>1. x \in Seq(Byte) /\ y \in Seq(Byte) /\ ~ScanFails(y)
  BY DEF Closed
<1>2. /\ w \in Seq(Byte) /\ ~ScanFails(w)
      /\ ObuStarts(w) = ObuStarts(x) \cup {Len(x) + q : q \in ObuStarts(y)}
      /\ \A s \in ObuStarts(x) : SameObu(w, s, x, s, 0)
      /\ \A q \in ObuStarts(y) : SameObu(w, Len(x) + q, y, q, Len(x))
  BY <1>1, ObusOfJoin
<1>3. ASSUME NEW s \in ObuStarts(w) PROVE ObuAt(w, s).sized
  <2>1. CASE s \in ObuStarts(x)
    BY <1>2, <2>1 DEF SameObu, Closed
  <2>2. ASSUME NEW q \in ObuStarts(y), s = Len(x) + q PROVE ObuAt(w, s).sized
    BY <1>2, <2>2 DEF SameObu, Closed
  <2>. QED  BY <1>2, <2>1, <2>2
<1>4. ObuBytes(w) = ObuBytes(x) \o ObuBytes(y)
  BY <1>1, ObuBytesJoin
<1>. QED  BY <1>2, <1>3, <1>4 DEF Closed

LEMMA ClosedEmpty == Closed(<< >>) /\ ObuBytes(<< >>) = << >>
<1>. DEFINE b == << >>
            a == Ascending(ObuStarts(b))
<1>1. b \in Seq(Byte) /\ Len(b) = 0
  OBVIOUS
<1>. HIDE DEF b
<1>2. ObuStarts(b) = {} /\ ~ScanFails(b)
  <2>. DEFINE S == {}
  <2>1. /\ S \subseteq Scanned(b) /\ 0 \in S \cup {Len(b)}
        /\ \A s \in S : ObuAt(b, s).end \in S \cup {Len(b)}
        /\ \A p \in S \cup {Len(b)} : p # 0 => \E q \in S : ObuAt(b, q).end = p
        /\ \A s \in S, q \in S \cup {Len(b)} : s < q => ObuAt(b, s).end <= q
    BY <1>1
  <2>. HIDE DEF S
  <2>2. ObuStarts(b) = S /\ ~ScanFails(b)
    BY <1>1, <2>1, ScanIs
  <2>. QED  BY <2>2 DEF S
<1>3. Len(a) \in Nat /\ \A k \in 1..Len(a) : a[k] \in ObuStarts(b)
  BY <1>1, <1>2, ObuListIs
<1>4. ObuBytes(b) \in Seq(Seq(Byte)) /\ Len(ObuBytes(b)) = Len(a)
  BY <1>1, <1>2, ObuBytesAre
<1>. HIDE DEF a
<1>5. Len(a) = 0
  <2>1. Len(a) >= 1 => 1 \in 1..Len(a)
    BY <1>3
  <2>. QED  BY <1>2, <1>3, <2>1
<1>6. ObuBytes(b) = << >>
  BY <1>4, <1>5, EmptySeq
<1>. QED  BY <1>1, <1>2, <1>6 DEF Closed, b

\* Nothing is put into a unit that does not parse.
LEMMA RefusedUnit ==
    ASSUME NEW b, NEW note, ScanFails(b) \/ b = << >>
    PROVE  ~InsertInto(Av1, b, note).ok
<1>1. InsertInto(Av1, b, note) = InsertMetadataObu(b, WriteMetadata(note))
  BY FramingKinds DEF InsertInto
<1>. QED  BY <1>1 DEF InsertMetadataObu, Err

\* b is b0 with units between its two parts.
PutBetween(b0, b, units) ==
    \E x, y : /\ ObuParts(b0, x, y)
              /\ ObuParts(b, x \o FlattenSeq(units), y)
              /\ ObuBytes(x \o FlattenSeq(units)) = ObuBytes(x) \o units
              /\ Closed(FlattenSeq(units)) /\ ObuBytes(FlattenSeq(units)) = units

LEMMA BetweenGrows ==
    ASSUME NEW b0, NEW b, NEW units \in Seq(Seq(Byte)), PutBetween(b0, b, units),
           Len(b) <= UsizeMax, b # << >>,
           NEW note \in Seq(Byte), IsPrefix(Uuid, note), MetadataFits(note),
           Len(b) + Len(WriteMetadata(note)) <= UsizeMax
    PROVE  \E w : /\ InsertInto(Av1, b, note) = Ok(w)
                  /\ w \in Seq(Byte) /\ w # << >>
                  /\ Len(w) = Len(b) + Len(WriteMetadata(note))
                  /\ PutBetween(b0, w, Append(units, WriteMetadata(note)))
<1>1. PICK x, y : /\ ObuParts(b0, x, y)
                  /\ ObuParts(b, x \o FlattenSeq(units), y)
                  /\ ObuBytes(x \o FlattenSeq(units)) = ObuBytes(x) \o units
                  /\ Closed(FlattenSeq(units)) /\ ObuBytes(FlattenSeq(units)) = units
  BY DEF PutBetween
<1>. DEFINE o == WriteMetadata(note)
            f == FlattenSeq(units)
            m == x \o f
            w == (m \o o) \o y
<1>2. Closed(o) /\ o \in Seq(Byte)
  <2>1. Closed(o)
    BY MetadataRoundTrip
  <2>. HIDE DEF o
  <2>. QED  BY <2>1 DEF Closed
<1>3. x \in Seq(Byte) /\ f \in Seq(Byte) /\ ~ScanFails(x)
  BY <1>1, FlattenType DEF ObuParts, Closed
<1>4. ObuBytes(x) \in Seq(Seq(Byte))
  BY <1>3, ObuBytesAre
<1>5. /\ InsertInto(Av1, b, note) = Ok(w)
      /\ ObuParts(w, m \o o, y) /\ w # << >> /\ Len(w) = Len(b) + Len(o)
      /\ ObuBytes(m \o o) = ObuBytes(m) \o <<o>> /\ ObuBytes(o) = <<o>>
  <2>1. ObuParts(b, m, y)
    BY <1>1
  <2>. HIDE DEF m, f
  <2>. QED  BY <2>1, OneMoreObu
<1>6. FlattenSeq(Append(units, o)) = f \o o
  BY <1>2, FlattenAppend
<1>7. x \o (f \o o) = m \o o
  <2>1. x \in Seq(Byte) /\ f \in Seq(Byte) /\ o \in Seq(Byte)
    BY <1>2, <1>3
  <2>. HIDE DEF w, f, o
  <2>. QED  BY <2>1, JoinOfThreeBytes
<1>8. x \o FlattenSeq(Append(units, o)) = m \o o
  BY <1>6, <1>7
<1>9. (ObuBytes(x) \o units) \o <<o>> = ObuBytes(x) \o Append(units, o)
  <2>. DEFINE u == ObuBytes(x)
              e == <<o>>
  <2>1. o \in Seq(Byte)
    BY <1>2
  <2>2. u \in Seq(Seq(Byte))
    BY <1>4
  <2>. HIDE DEF o, u
  <2>3. e \in Seq(Seq(Byte)) /\ units \o e = Append(units, o)
    BY <2>1
  <2>. HIDE DEF e
  <2>4. (u \o units) \o e = u \o (units \o e)
    <3>1. e \in Seq(Seq(Byte)) /\ units \in Seq(Seq(Byte))
      BY <2>3
    <3>. HIDE DEF m, w, f
    <3>. QED  BY <2>2, <3>1, JoinOfThreeUnits, Zenon
  <2>. QED  BY <2>3, <2>4 DEF u, e
<1>10. w \in Seq(Byte)
  <2>. HIDE DEF w, m, o
  <2>1. Closed(m \o o) /\ y \in Seq(Byte) /\ w = (m \o o) \o y
    BY <1>5 DEF ObuParts
  <2>2. m \o o \in Seq(Byte)
    BY <2>1 DEF Closed
  <2>. QED  BY <2>1, <2>2, ConcatProperties
<1>11. ObuBytes(m \o o) = ObuBytes(x) \o Append(units, o)
  BY <1>1, <1>5, <1>9, Zenon
<1>12. Closed(f \o o) /\ ObuBytes(f \o o) = Append(units, o)
  <2>1. Len(f \o o) <= UsizeMax
    <3>1. y \in Seq(Byte)
      BY <1>1 DEF ObuParts
    <3>. HIDE DEF f, o
    <3>2. /\ Len(x) \in Nat /\ Len(f) \in Nat /\ Len(o) \in Nat /\ Len(y) \in Nat
          /\ f \o o \in Seq(Byte) /\ Len(f \o o) = Len(f) + Len(o)
          /\ m \in Seq(Byte) /\ Len(m) = Len(x) + Len(f)
      BY <1>2, <1>3, <3>1, ConcatProperties, LenProperties
    <3>3. b = m \o y
      BY <1>1 DEF ObuParts, f
    <3>. HIDE DEF m
    <3>4. Len(b) = Len(m) + Len(y)
      BY <3>1, <3>2, <3>3, ConcatProperties
    <3>5. Len(b) + Len(o) <= UsizeMax /\ UsizeMax \in Nat
      BY UsizeAssumption DEF o
    <3>. QED  BY <3>2, <3>4, <3>5
  <2>2. Closed(f)
    BY <1>1
  <2>. HIDE DEF o, f, m, w
  <2>3. Closed(f \o o) /\ ObuBytes(f \o o) = ObuBytes(f) \o ObuBytes(o)
    BY <1>2, <2>1, <2>2, ClosedJoin
  <2>4. ObuBytes(f) = units
    BY <1>1 DEF f
  <2>5. units \o <<o>> = Append(units, o)
    BY <1>2
  <2>. QED  BY <1>5, <2>3, <2>4, <2>5, Zenon
<1>13. PutBetween(b0, w, Append(units, o))
  <2>0. Closed(FlattenSeq(Append(units, o))) /\ ObuBytes(FlattenSeq(Append(units, o))) = Append(units, o)
    BY <1>6, <1>12, Zenon
  <2>. HIDE DEF w, m, o
  <2>1. /\ ObuParts(b0, x, y)
        /\ ObuParts(w, x \o FlattenSeq(Append(units, o)), y)
        /\ ObuBytes(x \o FlattenSeq(Append(units, o))) = ObuBytes(x) \o Append(units, o)
    BY <1>1, <1>5, <1>8, <1>11, Zenon
  <2>. QED  BY <2>0, <2>1, Zenon DEF PutBetween
<1>. HIDE DEF w
<1>. QED  BY <1>5, <1>10, <1>13

\* The origin as it is.
LEMMA BetweenNothing ==
    ASSUME NEW b, NEW x, NEW y, ObuParts(b, x, y)
    PROVE  PutBetween(b, b, << >>)
<1>1. x \in Seq(Byte) /\ ~ScanFails(x) /\ FlattenSeq(<< >>) = << >>
  <2>. DEFINE t == << >>
  <2>1. t \in Seq(Seq(Byte)) /\ \A k \in 1..Len(t) : t[k] = << >>
    OBVIOUS
  <2>. HIDE DEF t
  <2>2. FlattenSeq(t) = << >>
    BY <2>1, FlattenEmpties
  <2>. QED  BY <2>2 DEF ObuParts, Closed, t
<1>2. ObuBytes(x) \in Seq(Seq(Byte))
  BY <1>1, ObuBytesAre
<1>3. x \o << >> = x /\ ObuBytes(x) \o << >> = ObuBytes(x)
  <2>. DEFINE u == ObuBytes(x)
  <2>1. u \in Seq(Seq(Byte))
    BY <1>2
  <2>. HIDE DEF u
  <2>2. u \o << >> = u
    BY <2>1, ConcatEmptySeq
  <2>. QED  BY <1>1, <2>2, ConcatEmptySeq DEF u
<1>. QED  BY <1>1, <1>3, ClosedEmpty, Zenon DEF PutBetween

\* What is left of memory for one payload less.
LEMMA RoomShrinks ==
    ASSUME NEW U \in Nat, NEW c \in Nat, NEW r \in Nat, r >= 1, NEW l \in Nat, NEW g \in Nat,
           c + r * l <= U, c + r * g <= U
    PROVE  c + g <= U /\ (c + g) + (r - 1) * l <= U
<1>1. r * l = (r - 1) * l + l /\ r * g = (r - 1) * g + g
  OBVIOUS
<1>2. (r - 1) * l \in Nat /\ (r - 1) * g \in Nat
  OBVIOUS
<1>3. CASE l >= g
  BY <1>1, <1>2, <1>3
<1>5. c + g <= U
  BY <1>1, <1>2
<1>4. CASE l < g
  <2>1. (r - 1) * l <= (r - 1) * g
    BY <1>4
  <2>. QED  BY <1>1, <1>2, <2>1
<1>. QED  BY <1>3, <1>4, <1>5

\* Inductive: a packet of OBUs is the encoder's with what was put in between its
\* two parts, or nothing could be put into it. The rest is left of memory.
Av1Inv == framing = Av1 =>
    /\ packet \in Seq(Byte) /\ Len(packet) <= UsizeMax
    /\ UnitsPut \in Seq(Seq(Byte))
    /\ \A note \in Notes :
          Len(packet) + (MaxPut - Len(put)) * Len(WriteMetadata(note)) <= UsizeMax
    /\ \/ /\ ScanFails(packet) \/ packet = << >>
          /\ packet = origin.bytes /\ put = << >>
       \/ packet # << >> /\ PutBetween(origin.bytes, packet, UnitsPut)

\* A payload in an OBU of its own.
LEMMA MetadataPut ==
    ASSUME PutInv, framing = Av1, NEW note \in Notes
    PROVE  /\ UnitOf(note) = WriteMetadata(note) /\ note \in Seq(Byte)
           /\ IsPrefix(Uuid, note) /\ MetadataFits(note)
           /\ WriteMetadata(note) \in Seq(Byte) /\ Len(WriteMetadata(note)) \in Nat
           /\ UserDataObu(UnitOf(note)) = <<note>>
<1>1. note \in Seq(Byte) /\ IsPrefix(Uuid, note) /\ MetadataFits(note)
  BY NotesAssumption
<1>2. UnitOf(note) = WriteMetadata(note)
  BY DEF UnitOf, PutInv
<1>. DEFINE o == WriteMetadata(note)
<1>3. Closed(o) /\ UserDataObu(o) = <<note>>
  BY <1>1, MetadataRoundTrip
<1>. HIDE DEF o
<1>4. o \in Seq(Byte) /\ Len(o) \in Nat
  BY <1>3 DEF Closed
<1>. QED  BY <1>1, <1>2, <1>3, <1>4 DEF o

LEMMA NothingPut ==
    ASSUME put = << >>
    PROVE  UnitsPut = << >> /\ UnitsPut \in Seq(Seq(Byte))
BY DEF UnitsPut

LEMMA Av1Init ==
    ASSUME Init, PutInv PROVE Av1Inv
<1>. SUFFICES ASSUME framing = Av1
              PROVE  /\ packet \in Seq(Byte) /\ Len(packet) <= UsizeMax
                     /\ UnitsPut \in Seq(Seq(Byte))
                     /\ \/ /\ ScanFails(packet) \/ packet = << >>
                           /\ packet = origin.bytes /\ put = << >>
                        \/ packet # << >> /\ PutBetween(origin.bytes, packet, UnitsPut)
                     /\ \A note \in Notes :
                           Len(packet) + (MaxPut - Len(put)) * Len(WriteMetadata(note)) <= UsizeMax
  BY DEF Av1Inv
<1>1. packet = origin.bytes /\ put = << >> /\ origin.framing = Av1 /\ origin \in Packets
      /\ packet \in Seq(Byte)
  BY DEF Init, PutInv
<1>2. UnitsPut = << >> /\ UnitsPut \in Seq(Seq(Byte))
  BY <1>1, NothingPut
<1>3. MaxPut - Len(put) = MaxPut
  BY <1>1, NotesAssumption
<1>4. Len(packet) <= UsizeMax
      /\ \A note \in Notes :
            Len(packet) + (MaxPut - Len(put)) * Len(WriteMetadata(note)) <= UsizeMax
  BY <1>1, <1>3, MemoryAssumption
<1>5. SizedBeforePicture(ObuBytes(packet))
  <2>1. UnitsOf(Av1, packet) = ObuBytes(packet)
    BY FramingKinds DEF UnitsOf
  <2>. QED  BY <1>1, <2>1, PacketsAssumption
<1>6. CASE ~ScanFails(packet) /\ packet # << >>
  <2>1. PutBetween(packet, packet, << >>)
    <3>1. PICK x, y : ObuParts(packet, x, y)
      BY <1>1, <1>5, <1>6, PartsOfUnit
    <3>. QED  BY <3>1, BetweenNothing
  <2>2. PutBetween(origin.bytes, packet, UnitsPut)
    BY <1>1, <1>2, <2>1
  <2>. QED  BY <1>1, <1>2, <1>4, <1>6, <2>2
<1>. QED  BY <1>1, <1>2, <1>4, <1>6

LEMMA Av1Insert ==
    ASSUME PutInv, Av1Inv, framing = Av1, NEW note \in Notes, Insert(note)
    PROVE  Av1Inv'
<1>. DEFINE o == WriteMetadata(note)
<1>1. /\ AskedAsPad(framing) = framing /\ Len(put) < MaxPut
      /\ InsertInto(Av1, packet, note).ok /\ packet' = InsertInto(Av1, packet, note).bytes
      /\ put' = Append(put, note) /\ framing' = framing /\ origin' = origin
  <2>1. AskedAsPad(framing) = framing
    BY AskedIs DEF PutInv
  <2>. QED  BY <2>1 DEF Insert
<1>2. ~ScanFails(packet) /\ packet # << >>
  BY <1>1, RefusedUnit
<1>3. /\ packet \in Seq(Byte) /\ Len(packet) <= UsizeMax
      /\ UnitsPut \in Seq(Seq(Byte))
      /\ PutBetween(origin.bytes, packet, UnitsPut)
      /\ \A n \in Notes :
            Len(packet) + (MaxPut - Len(put)) * Len(WriteMetadata(n)) <= UsizeMax
  BY <1>2 DEF Av1Inv
<1>4. /\ UnitOf(note) = o /\ note \in Seq(Byte)
      /\ IsPrefix(Uuid, note) /\ MetadataFits(note)
      /\ o \in Seq(Byte) /\ Len(o) \in Nat
  BY MetadataPut
<1>5. \A n \in Notes : Len(WriteMetadata(n)) \in Nat
  BY MetadataPut
<1>6. Len(put) \in Nat /\ Len(put') = Len(put) + 1 /\ MaxPut \in Nat /\ Len(packet) \in Nat
      /\ UsizeMax \in Nat
  BY <1>1, <1>3, NotesAssumption, UsizeAssumption DEF PutInv
<1>. DEFINE r == MaxPut - Len(put)
<1>7. r \in Nat /\ r >= 1 /\ MaxPut - Len(put') = r - 1
  BY <1>1, <1>6
<1>. HIDE DEF o, r
<1>8. \A n \in Notes : Len(packet) + r * Len(WriteMetadata(n)) <= UsizeMax
  BY <1>3 DEF r
<1>9. Len(packet) + Len(o) <= UsizeMax
      /\ \A n \in Notes : (Len(packet) + Len(o)) + (r - 1) * Len(WriteMetadata(n)) <= UsizeMax
  <2>1. Len(packet) + r * Len(o) <= UsizeMax
    BY <1>8 DEF o
  <2>2. ASSUME NEW n \in Notes
        PROVE  /\ Len(packet) + Len(o) <= UsizeMax
               /\ (Len(packet) + Len(o)) + (r - 1) * Len(WriteMetadata(n)) <= UsizeMax
    <3>1. Len(packet) + r * Len(WriteMetadata(n)) <= UsizeMax /\ Len(WriteMetadata(n)) \in Nat
      BY <1>5, <1>8
    <3>. QED  BY <1>4, <1>6, <1>7, <2>1, <3>1, RoomShrinks
  <2>. QED  BY <2>2
<1>10. PICK w : /\ InsertInto(Av1, packet, note) = Ok(w)
                /\ w \in Seq(Byte) /\ w # << >>
                /\ Len(w) = Len(packet) + Len(o)
                /\ PutBetween(origin.bytes, w, Append(UnitsPut, o))
  BY <1>2, <1>3, <1>4, <1>9, BetweenGrows DEF o
<1>11. packet' = w
  <2>1. Ok(w).bytes = w
    BY DEF Ok
  <2>. QED  BY <1>1, <1>10, <2>1, Zenon
<1>12. UnitsPut' = Append(UnitsPut, o) /\ UnitsPut' \in Seq(Seq(Byte))
  <2>1. UnitOf(note) \in Seq(Byte)
    BY <1>4
  <2>2. UnitsPut' = Append(UnitsPut, UnitOf(note))
    BY <1>1, <1>3, <2>1, UnitsGrow
  <2>3. Append(UnitsPut, o) \in Seq(Seq(Byte))
    BY <1>3, <1>4
  <2>. QED  BY <1>4, <2>2, <2>3, Zenon
<1>13. PutBetween(origin.bytes', packet', UnitsPut')
  BY <1>1, <1>10, <1>11, <1>12, Zenon
<1>14. \A n \in Notes :
          Len(packet') + (MaxPut - Len(put')) * Len(WriteMetadata(n)) <= UsizeMax
  BY <1>7, <1>9, <1>10, <1>11
<1>15. packet' \in Seq(Byte) /\ packet' # << >> /\ Len(packet') <= UsizeMax
  BY <1>9, <1>10, <1>11
<1>. QED  BY <1>12, <1>13, <1>14, <1>15, Zenon DEF Av1Inv

LEMMA Av1Stays ==
    ASSUME Av1Inv, UNCHANGED <<framing, packet, put, origin>> PROVE Av1Inv'
<1>1. UnitsPut' = UnitsPut
  BY DEF UnitsPut, UnitOf, First
<1>. QED  BY <1>1, Zenon DEF Av1Inv

LEMMA Av1Step == PutInv /\ Av1Inv /\ [Next]_vars => Av1Inv'
<1>. SUFFICES ASSUME PutInv, Av1Inv, [Next]_vars PROVE Av1Inv'
  OBVIOUS
<1>1. ASSUME UNCHANGED calls PROVE Av1Inv'
  BY <1>1, Av1Stays DEF calls
<1>2. ASSUME NEW note \in Notes, Insert(note) PROVE Av1Inv'
  <2>1. framing' = framing
    BY <1>2 DEF Insert
  <2>2. CASE framing # Av1
    BY <2>1, <2>2 DEF Av1Inv
  <2>. QED  BY <1>2, <2>2, Av1Insert
<1>3. ASSUME NEW size, Reframe(LengthPrefixed(size)) PROVE Av1Inv'
  <2>1. framing' # Av1
    BY <1>3, FramingKinds DEF Reframe
  <2>. QED  BY <2>1 DEF Av1Inv
<1>4. ASSUME Back PROVE Av1Inv'
  <2>1. framing' # Av1
    BY <1>4, FramingKinds DEF Back
  <2>. QED  BY <2>1 DEF Av1Inv
<1>5. (\E note \in Notes : InsertRefused(note)) => UNCHANGED calls
  BY DEF InsertRefused
<1>6. (\E size \in Widths : ReframeRefused(LengthPrefixed(size))) => UNCHANGED calls
  BY DEF ReframeRefused
<1>7. BackRefused \/ UNCHANGED vars => UNCHANGED calls
  BY DEF BackRefused, vars, calls
<1>. QED  BY <1>1, <1>2, <1>3, <1>4, <1>5, <1>6, <1>7, Zenon
          DEF Next, InsertStep, ReframeStep

\* The same of a packet of OBUs, byte for byte: what scan_obus and
\* temporal_units find in it is the encoder's, with a metadata OBU for every
\* payload between what stands before the first frame and the rest
\* (insert_metadata_obu).
THEOREM SpliceAv1Holds == Spec => []Av1Inv
<1>1. Init => Av1Inv
  BY PutInit, Av1Init
<1>. QED  BY <1>1, SplicePutHolds, Av1Step, PTL DEF Spec

-----------------------------------------------------------------------------
\* Packets of all framings.

LEMMA NoPicture == PictureAt(Av1, << >>) = 1
<1>. DEFINE u == << >>
            S == {k \in 1..Len(u) : IsPicture(Av1, u, k)} \cup {Len(u) + 1}
<1>1. S = {1}
  OBVIOUS
<1>2. PictureAt(Av1, u) = Min(S)
  BY DEF PictureAt
<1>. HIDE DEF S
<1>3. 1 \in S /\ (\A k \in S : 1 <= k) /\ S \subseteq Nat
  BY <1>1
<1>4. Min(S) = 1
  BY <1>3, MinIs
<1>. QED  BY <1>2, <1>4

LEMMA CutInTwo ==
    ASSUME NEW T, NEW u \in Seq(T), NEW v \in Seq(T), NEW w, w = u \o v
    PROVE  /\ SubSeq(w, 1, (Len(u) + 1) - 1) = u
           /\ SubSeq(w, Len(u) + 1, Len(w)) = v
<1>1. /\ SubSeq(w, 1, Len(u)) = u /\ SubSeq(w, Len(u) + 1, Len(w)) = v /\ Len(u) \in Nat
  BY TwoParts
<1>2. (Len(u) + 1) - 1 = Len(u)
  BY <1>1
<1>. QED  BY <1>1, <1>2

LEMMA ObusNow ==
    ASSUME PutInv, Av1Inv, framing = Av1
    PROVE  /\ UnitsOf(framing, packet) = UnitsNow
           /\ Ahead0 \in Seq(Seq(Byte)) /\ Behind0 \in Seq(Seq(Byte))
           /\ First = Ahead0 \o Behind0
           /\ UnitsPut \in Seq(Seq(Byte)) /\ Len(UnitsPut) = Len(put) /\ Len(put) \in Nat
           /\ PictureAt(framing, UnitsNow) = Len(Ahead0) + Len(put) + 1
<1>1. /\ origin.framing = Av1 /\ origin.bytes \in Seq(Byte) /\ origin \in Packets
      /\ Len(put) \in Nat
  BY DEF PutInv
<1>2. /\ UnitsOf(Av1, packet) = ObuBytes(packet)
      /\ First = ObuBytes(origin.bytes) /\ FirstAt = PictureAt(Av1, First)
  BY <1>1, FramingKinds DEF UnitsOf, First, FirstAt
<1>3. packet \in Seq(Byte) /\ Len(packet) <= UsizeMax /\ UnitsPut \in Seq(Seq(Byte))
  BY DEF Av1Inv
<1>4. Len(UnitsPut) = Len(put)
  BY <1>1, LenProperties DEF UnitsPut
<1>5. ASSUME ScanFails(packet) \/ packet = << >>, packet = origin.bytes, put = << >>
      PROVE  /\ UnitsOf(framing, packet) = UnitsNow
             /\ Ahead0 \in Seq(Seq(Byte)) /\ Behind0 \in Seq(Seq(Byte))
             /\ First = Ahead0 \o Behind0
             /\ PictureAt(framing, UnitsNow) = Len(Ahead0) + Len(put) + 1
  <2>1. ObuBytes(packet) = << >>
    <3>1. CASE ScanFails(packet)
      BY <3>1 DEF ObuBytes
    <3>2. CASE ~ScanFails(packet)
      <4>. DEFINE a == Ascending(ObuStarts(packet))
      <4>1. /\ ObuBytes(packet) \in Seq(Seq(Byte)) /\ Len(ObuBytes(packet)) = Len(a) /\ Len(a) \in Nat
            /\ \A k \in 1..Len(a) : a[k] \in ObuStarts(packet)
        BY <1>3, <3>2, ObuBytesAre
      <4>. HIDE DEF a
      <4>2. ObuStarts(packet) \subseteq 0..(Len(packet) - 1) /\ Len(packet) = 0
        BY <1>3, <1>5, <3>2, ObuStartsAre
      <4>3. Len(a) # 0 => 1 \in 1..Len(a)
        BY <4>1
      <4>4. ObuStarts(packet) = {}
        BY <4>2
      <4>5. Len(ObuBytes(packet)) = 0
        BY <4>1, <4>3, <4>4
      <4>. QED  BY <4>1, <4>5, EmptySeq
    <3>. QED  BY <3>1, <3>2
  <2>2. First = << >> /\ FirstAt = 1
    BY <1>2, <1>5, <2>1, NoPicture
  <2>3. Ahead0 = << >> /\ Behind0 = << >>
    BY <2>2 DEF Ahead0, Behind0
  <2>4. UnitsPut = << >>
    BY <1>5, NothingPut
  <2>5. << >> \o << >> = << >> /\ << >> \in Seq(Seq(Byte))
    OBVIOUS
  <2>6. UnitsNow = << >>
    BY <2>3, <2>4, <2>5, Zenon DEF UnitsNow
  <2>7. Len(Ahead0) + Len(put) + 1 = 1
    BY <1>5, <2>3
  <2>. QED  BY <1>2, <2>1, <2>2, <2>3, <2>5, <2>6, <2>7, NoPicture, Zenon
<1>6. ASSUME packet # << >>, PutBetween(origin.bytes, packet, UnitsPut)
      PROVE  /\ UnitsOf(framing, packet) = UnitsNow
             /\ Ahead0 \in Seq(Seq(Byte)) /\ Behind0 \in Seq(Seq(Byte))
             /\ First = Ahead0 \o Behind0
             /\ PictureAt(framing, UnitsNow) = Len(Ahead0) + Len(put) + 1
  <2>1. PICK x, y : /\ ObuParts(origin.bytes, x, y)
                    /\ ObuParts(packet, x \o FlattenSeq(UnitsPut), y)
                    /\ ObuBytes(x \o FlattenSeq(UnitsPut)) = ObuBytes(x) \o UnitsPut
    BY <1>6 DEF PutBetween
  <2>. DEFINE u == ObuBytes(x)
              v == ObuBytes(y)
              n == UnitsPut
              un == u \o n
  <2>2. Len(origin.bytes) <= UsizeMax
    BY <1>1, MemoryAssumption
  <2>3. /\ First = u \o v /\ u \in Seq(Seq(Byte)) /\ v \in Seq(Seq(Byte))
        /\ FirstAt = Len(u) + 1
    BY <1>2, <2>1, <2>2, PictureAtParts
  <2>4. /\ ObuBytes(packet) = un \o v
        /\ PictureAt(Av1, ObuBytes(packet)) = Len(un) + 1
    BY <1>3, <2>1, PictureAtParts
  <2>5. n \in Seq(Seq(Byte))
    BY <1>3
  <2>. HIDE DEF u, v
  <2>6. Ahead0 = u /\ Behind0 = v
    <3>. DEFINE w == First
    <3>1. w = u \o v
      BY <2>3
    <3>2. w = u \o v => /\ SubSeq(w, 1, (Len(u) + 1) - 1) = u
                        /\ SubSeq(w, Len(u) + 1, Len(w)) = v
      <4>. HIDE DEF w
      <4>1. u \in Seq(Seq(Byte)) /\ v \in Seq(Seq(Byte))
        BY <2>3
      <4>. QED  BY <4>1, CutInTwo
    <3>. QED  BY <2>3, <3>1, <3>2 DEF Ahead0, Behind0
  <2>. HIDE DEF n
  <2>7. UnitsNow = un \o v
    BY <2>6, Zenon DEF UnitsNow, n
  <2>8. Len(un) = Len(u) + Len(n)
    BY <2>3, <2>5, ConcatProperties
  <2>9. Len(n) = Len(put)
    BY <1>4 DEF n
  <2>. HIDE DEF un
  <2>10. PictureAt(framing, UnitsNow) = Len(Ahead0) + Len(put) + 1
    BY <2>4, <2>6, <2>7, <2>8, <2>9
  <2>. QED  BY <1>2, <2>3, <2>4, <2>6, <2>7, <2>10, Zenon
<1>. QED  BY <1>1, <1>3, <1>4, <1>5, <1>6, Zenon DEF Av1Inv

\* What a reader finds in a packet, whatever its framing.
LEMMA UnitsHold ==
    ASSUME PutInv, NalInv, Av1Inv
    PROVE  /\ UnitsOf(framing, packet) = UnitsNow
           /\ Ahead0 \in Seq(Seq(Byte)) /\ Behind0 \in Seq(Seq(Byte))
           /\ First = Ahead0 \o Behind0
           /\ UnitsPut \in Seq(Seq(Byte)) /\ Len(UnitsPut) = Len(put) /\ Len(put) \in Nat
           /\ PictureAt(framing, UnitsNow) = Len(Ahead0) + Len(put) + 1
<1>1. CASE framing = Av1
  BY <1>1, ObusNow
<1>2. CASE framing # Av1
  <2>1. UnitsOf(framing, packet) = UnitsNow
    BY <1>2 DEF NalInv
  <2>2. \A s : s \in Seq(GoodNals) => s \in Seq(Seq(Byte))
    <3>1. GoodNals \subseteq Seq(Byte)
      BY DEF GoodNals, CleanNals
    <3>. HIDE DEF GoodNals
    <3>. QED  BY <3>1
  <2>3. /\ Ahead0 \in Seq(GoodNals) /\ Behind0 \in Seq(GoodNals) /\ First = Ahead0 \o Behind0
    BY <1>2, OriginNals
  <2>4. UnitsPut \in Seq(GoodNals) /\ Len(UnitsPut) = Len(put) /\ Len(put) \in Nat
    BY <1>2, SeisPut
  <2>5. PictureAt(framing, UnitsNow) = Len(Ahead0) + Len(put) + 1
    BY <1>2, PictureIsSlice, NowAreNals
  <2>. QED  BY <2>1, <2>2, <2>3, <2>4, <2>5
<1>. QED  BY <1>1, <1>2

-----------------------------------------------------------------------------
\* user_data, of any bytes, gives payloads.
LEMMA UserDataObuType ==
    ASSUME NEW b \in Seq(Byte)
    PROVE  UserDataObu(b) \in Seq(Seq(Byte))
<1>1. CASE ScanFails(b)
  BY <1>1 DEF UserDataObu
<1>2. CASE ~ScanFails(b)
  <2>. DEFINE u == ObuBytes(b)
              a == Ascending(ObuStarts(b))
              g == [k \in 1..Len(u) |-> UserDataObu(u[k])]
  <2>1. UserDataObu(b) = FlattenSeq(g)
    BY <1>2, PayloadsOfObus
  <2>2. /\ Len(u) = Len(a) /\ Len(a) \in Nat
        /\ \A k \in 1..Len(a) : UserDataObu(u[k]) \in Seq(Seq(Byte))
    BY <1>2, ObuBytesAre
  <2>. HIDE DEF u, a
  <2>3. g \in Seq(Seq(Seq(Byte)))
    BY <2>2, IsASeq
  <2>. HIDE DEF g
  <2>. QED  BY <2>1, <2>3, FlattenType
<1>. QED  BY <1>1, <1>2

\* What payloads_in_nal takes off the units of a packet.
Give == [unit \in Seq(Byte) |-> PayloadsInNal(framing, unit)]

LEMMA GiveType == Give \in [Seq(Byte) -> Seq(Seq(Byte))]
<1>1. ASSUME NEW unit \in Seq(Byte) PROVE PayloadsInNal(framing, unit) \in Seq(Seq(Byte))
  BY UserDataType, UserDataObuType DEF PayloadsInNal
<1>. QED  BY <1>1 DEF Give

LEMMA GiveConcat ==
    \A s, t \in Seq(Seq(Byte)) : Gathered(Give, s \o t) = Gathered(Give, s) \o Gathered(Give, t)
BY GiveType, GatherUnits, Zenon

LEMMA PayloadsOfGathered ==
    ASSUME NEW units \in Seq(Seq(Byte))
    PROVE  PayloadsOf(units) = Gathered(Give, units)
<1>. DEFINE f == [k \in 1..Len(units) |-> PayloadsInNal(framing, units[k])]
            g == [k \in 1..Len(units) |-> Give[units[k]]]
<1>1. \A k \in 1..Len(units) : PayloadsInNal(framing, units[k]) = Give[units[k]]
  BY DEF Give
<1>2. f = g
  BY <1>1
<1>3. PayloadsOf(units) = FlattenSeq(f)
  BY DEF PayloadsOf
<1>. HIDE DEF f, g
<1>4. PayloadsOf(units) = FlattenSeq(g)
  BY <1>2, <1>3
<1>. QED  BY <1>4 DEF Gathered, g

\* Framing::payloads gives what payloads_in_nal gives of its units.
LEMMA PayloadsAreOfUnits ==
    ASSUME framing \in PacketFramings, packet \in Seq(Byte)
    PROVE  PayloadsIn(framing, packet) = PayloadsOf(UnitsOf(framing, packet))
<1>1. CASE framing = Av1
  <2>. DEFINE u == ObuBytes(packet)
  <2>1. PayloadsIn(framing, packet) = UserDataObu(packet) /\ UnitsOf(framing, packet) = u
    BY <1>1, FramingKinds DEF PayloadsIn, UnitsOf
  <2>2. PayloadsOf(u) = FlattenSeq([k \in 1..Len(u) |-> UserDataObu(u[k])])
    BY <1>1, Zenon DEF PayloadsOf, PayloadsInNal
  <2>3. CASE ~ScanFails(packet)
    BY <2>1, <2>2, <2>3, PayloadsOfObus
  <2>4. CASE ScanFails(packet)
    <3>1. u = << >> /\ UserDataObu(packet) = << >>
      BY <2>4 DEF ObuBytes, UserDataObu
    <3>2. << >> \in Seq(Seq(Byte))
      OBVIOUS
    <3>3. PayloadsOf(<< >>) = << >>
      <4>1. PayloadsOf(<< >>) = Gathered(Give, << >>)
        BY <3>2, PayloadsOfGathered
      <4>2. Gathered(Give, << >>) = << >>
        BY <3>2, GiveType, GatherOne
      <4>. QED  BY <4>1, <4>2
    <3>. QED  BY <2>1, <3>1, <3>3
  <2>. QED  BY <2>3, <2>4
<1>2. CASE framing = AnnexB
  <2>. DEFINE nals == ScanNals(packet)
              u == SplitNals(packet)
  <2>1. /\ PayloadsIn(framing, packet) =
              FlattenSeq([k \in 1..Len(nals) |-> UserDataInNal(nals[k].bytes)])
        /\ UnitsOf(framing, packet) = u
    BY <1>2, FramingKinds DEF PayloadsIn, UnitsOf, UserDataAnnexb
  <2>2. framing # Av1
    BY <1>2, FramingKinds
  <2>3. PayloadsOf(u) = FlattenSeq([k \in 1..Len(u) |-> UserDataInNal(u[k])])
    BY <2>2, Zenon DEF PayloadsOf, PayloadsInNal
  <2>4. u = [k \in 1..Len(nals) |-> nals[k].bytes] /\ Len(nals) \in Nat
    <3>. DEFINE codes == Ascending(StartCodes(packet))
    <3>1. Len(codes) \in Nat
      BY SplitNalsIs
    <3>2. nals = [k \in 1..Len(codes) |->
            [pad   |-> NalPad(packet, codes[k]),   code |-> NalCode(packet, codes[k]),
             start |-> NalStart(codes[k]),    end  |-> NalEnd(packet, codes[k]),
             bytes |-> NalBytes(packet, codes[k])]]
      BY DEF ScanNals
    <3>3. u = [k \in 1..Len(nals) |-> nals[k].bytes]
      BY DEF SplitNals
    <3>. HIDE DEF codes, nals, u
    <3>. QED  BY <3>1, <3>2, <3>3
  <2>. HIDE DEF u, nals
  <2>5. Len(u) = Len(nals) /\ \A k \in 1..Len(nals) : u[k] = nals[k].bytes
    BY <2>4, LenProperties
  <2>6. [k \in 1..Len(u) |-> UserDataInNal(u[k])]
            = [k \in 1..Len(nals) |-> UserDataInNal(nals[k].bytes)]
    BY <2>5
  <2>. QED  BY <2>1, <2>3, <2>6, Zenon
<1>3. ASSUME NEW size \in 1..4, framing = LengthPrefixed(size)
      PROVE  PayloadsIn(framing, packet) = PayloadsOf(UnitsOf(framing, packet))
  <2>. DEFINE split == SplitLengthPrefixed(packet, size)
              u == SampleUnits(split)
  <2>1. /\ PayloadsIn(framing, packet) = UserDataLengthPrefixed(packet, size)
        /\ UnitsOf(framing, packet) = u /\ framing # Av1
    BY <1>3, FramingKinds DEF PayloadsIn, UnitsOf
  <2>2. PayloadsOf(u) = FlattenSeq([k \in 1..Len(u) |-> UserDataInNal(u[k])])
    BY <2>1, Zenon DEF PayloadsOf, PayloadsInNal
  <2>3. CASE split.ok
    <3>1. u = split.nals
      BY <2>3 DEF SampleUnits
    <3>2. UserDataLengthPrefixed(packet, size)
              = FlattenSeq([k \in 1..Len(split.nals) |-> UserDataInNal(split.nals[k])])
      BY <2>3, Zenon DEF UserDataLengthPrefixed
    <3>. HIDE DEF u, split
    <3>. QED  BY <2>1, <2>2, <3>1, <3>2, Zenon
  <2>4. CASE ~split.ok
    <3>1. u = << >> /\ UserDataLengthPrefixed(packet, size) = << >>
      BY <2>4 DEF SampleUnits, UserDataLengthPrefixed
    <3>2. << >> \in Seq(Seq(Byte))
      OBVIOUS
    <3>3. PayloadsOf(<< >>) = << >>
      <4>1. PayloadsOf(<< >>) = Gathered(Give, << >>)
        BY <3>2, PayloadsOfGathered
      <4>2. Gathered(Give, << >>) = << >>
        BY <3>2, GiveType, GatherOne
      <4>. QED  BY <4>1, <4>2
    <3>. HIDE DEF u, split
    <3>. QED  BY <2>1, <3>1, <3>3, Zenon
  <2>. QED  BY <2>3, <2>4
<1>. QED  BY <1>1, <1>2, <1>3, FramingKinds

\* The payload of a unit that was put in.
LEMMA PayloadOfPut ==
    ASSUME PutInv, NEW note \in Notes
    PROVE  PayloadsInNal(framing, UnitOf(note)) = <<note>>
<1>1. CASE framing = Av1
  BY <1>1, MetadataPut DEF PayloadsInNal
<1>2. CASE framing # Av1
  <2>1. NalsTemporalId(First) \in 1..7
    BY <1>2, OriginNals
  <2>2. UnitOf(note) = WriteUserDataAt(note, NalsTemporalId(First)) /\ note \in Seq(Byte)
    BY <1>2, SeisPut
  <2>3. IsPrefix(Uuid, note)
    BY NotesAssumption
  <2>4. UserDataInNal(UnitOf(note)) = <<note>>
    BY <2>1, <2>2, <2>3, SeiRoundTrip
  <2>. QED  BY <1>2, <2>4 DEF PayloadsInNal
<1>. QED  BY <1>1, <1>2

LEMMA PayloadsPut ==
    ASSUME PutInv, UnitsPut \in Seq(Seq(Byte)), Len(UnitsPut) = Len(put)
    PROVE  PayloadsOf(UnitsPut) = put
<1>. DEFINE t == [k \in 1..Len(UnitsPut) |-> PayloadsInNal(framing, UnitsPut[k])]
<1>1. /\ put \in Seq(Notes) /\ Len(put) \in Nat
      /\ \A k \in 1..Len(put) : put[k] \in Notes /\ UnitsPut[k] = UnitOf(put[k])
  BY DEF PutInv, UnitsPut
<1>2. Notes \subseteq Seq(Byte)
  BY NotesAssumption
<1>3. put \in Seq(Seq(Byte))
  BY <1>1, <1>2
<1>4. \A k \in 1..Len(put) : PayloadsInNal(framing, UnitsPut[k]) = <<put[k]>>
  BY <1>1, PayloadOfPut
<1>5. Len(t) = Len(put) /\ \A k \in 1..Len(put) : t[k] = <<put[k]>>
  BY <1>1, <1>4
<1>6. t \in Seq(Seq(Seq(Byte)))
  <2>1. \A k \in 1..Len(put) : <<put[k]>> \in Seq(Seq(Byte))
    BY <1>1, <1>2
  <2>2. t = [k \in 1..Len(put) |-> <<put[k]>>]
    BY <1>4
  <2>. HIDE DEF t
  <2>. QED  BY <1>1, <2>1, <2>2
<1>7. PayloadsOf(UnitsPut) = FlattenSeq(t)
  BY DEF PayloadsOf
<1>. HIDE DEF t
<1>8. FlattenSeq(t) = put
  BY <1>3, <1>5, <1>6, FlattenSingles
<1>. QED  BY <1>7, <1>8

\* Every payload put into a packet comes out of it again, in order, between the
\* ones the encoder's own units hold, and nothing else: Framing::insert and
\* Framing::payloads, for packets of every framing, of any units and through
\* every change of framing (config.rs; sei.rs and obu.rs, user_data).
THEOREM SpliceReadsBack == Spec => []ReadsBack
<1>1. ASSUME PutInv, NalInv, Av1Inv PROVE ReadsBack
  <2>1. /\ UnitsOf(framing, packet) = UnitsNow
        /\ Ahead0 \in Seq(Seq(Byte)) /\ Behind0 \in Seq(Seq(Byte))
        /\ UnitsPut \in Seq(Seq(Byte)) /\ Len(UnitsPut) = Len(put)
    BY <1>1, UnitsHold
  <2>2. framing \in PacketFramings /\ packet \in Seq(Byte)
    BY <1>1 DEF PutInv, NalInv, Av1Inv
  <2>3. PayloadsIn(framing, packet) = PayloadsOf(UnitsNow)
    BY <2>1, <2>2, PayloadsAreOfUnits
  <2>. DEFINE u == Ahead0
              n == UnitsPut
              v == Behind0
              un == u \o n
              w == un \o v
  <2>4. u \in Seq(Seq(Byte)) /\ n \in Seq(Seq(Byte)) /\ v \in Seq(Seq(Byte))
    BY <2>1
  <2>5. w = UnitsNow
    BY Zenon DEF UnitsNow
  <2>6. PayloadsOf(n) = put
    BY <1>1, <2>1, PayloadsPut
  <2>. HIDE DEF u, n, v
  <2>7. un \in Seq(Seq(Byte))
    BY <2>4, ConcatProperties
  <2>8. w \in Seq(Seq(Byte))
    <3>. HIDE DEF un
    <3>. QED  BY <2>4, <2>7, ConcatProperties
  <2>9. Gathered(Give, un) = Gathered(Give, u) \o Gathered(Give, n)
    BY <2>4, GiveConcat, Zenon
  <2>10. Gathered(Give, w) = Gathered(Give, un) \o Gathered(Give, v)
    <3>. HIDE DEF un
    <3>. QED  BY <2>4, <2>7, GiveConcat, Zenon
  <2>. HIDE DEF un, w
  <2>11. /\ PayloadsOf(w) = Gathered(Give, w) /\ PayloadsOf(u) = Gathered(Give, u)
         /\ PayloadsOf(v) = Gathered(Give, v) /\ PayloadsOf(n) = Gathered(Give, n)
    BY <2>4, <2>8, PayloadsOfGathered
  <2>12. PayloadsOf(w) = PayloadsOf(u) \o put \o PayloadsOf(v)
    BY <2>6, <2>9, <2>10, <2>11, Zenon
  <2>13. PayloadsIn(framing, packet) = PayloadsOf(Ahead0) \o put \o PayloadsOf(Behind0)
    BY <2>3, <2>5, <2>12, Zenon DEF u, v
  <2>. QED  BY <2>13, Zenon DEF ReadsBack, Ahead0, Behind0, First, FirstAt
<1>. QED  BY <1>1, SplicePutHolds, SpliceNalHolds, SpliceAv1Holds, PTL

-----------------------------------------------------------------------------
\* The steps of a packet are steps of Carrier.

\* The units before the picture, with the payloads that were put in behind
\* them, and the units from the picture on.
UnitsBefore(how, ahead, notes) ==
    [k \in 1..(Len(ahead) + Len(notes)) |->
        IF k <= Len(ahead) THEN Unit(how, ahead[k]) ELSE C!Note(notes[k - Len(ahead)])]
UnitsFrom(how, behind) == [k \in 1..Len(behind) |-> Unit(how, behind[k])]

LEMMA UnitByKind ==
    ASSUME NEW how, NEW other, how = Av1 <=> other = Av1, NEW x
    PROVE  Unit(how, x) = Unit(other, x)
<1>1. PayloadsInNal(how, x) = PayloadsInNal(other, x)
  BY DEF PayloadsInNal
<1>. QED  BY <1>1, Zenon DEF Unit

LEMMA UnitType ==
    ASSUME NEW how, NEW x \in Seq(Byte)
    PROVE  Unit(how, x) \in C!Units
<1>. DEFINE mine == PayloadsInNal(how, x)
<1>1. mine \in Seq(Seq(Byte))
  BY UserDataType, UserDataObuType DEF PayloadsInNal
<1>2. Unit(how, x) = IF Len(mine) = 1 THEN [note |-> TRUE,  bytes |-> mine[1]]
                                      ELSE [note |-> FALSE, bytes |-> x]
  BY DEF Unit
<1>. HIDE DEF mine
<1>3. Len(mine) = 1 => mine[1] \in Seq(Byte)
  <2>1. Len(mine) = 1 => 1 \in 1..Len(mine)
    OBVIOUS
  <2>. QED  BY <1>1, <2>1, ElementOfSeq
<1>. DEFINE B == Seq(Byte)
<1>4. x \in B /\ (Len(mine) = 1 => mine[1] \in B)
  BY <1>3
<1>. HIDE DEF B
<1>5. Unit(how, x) \in [note : BOOLEAN, bytes : B]
  BY <1>2, <1>4
<1>. QED  BY <1>5 DEF C!Units, B

LEMMA NoteType ==
    ASSUME NEW payload \in Notes
    PROVE  C!Note(payload) \in C!Units
<1>1. payload \in Seq(Byte)
  BY NotesAssumption
<1>. DEFINE B == Seq(Byte)
<1>2. payload \in B
  BY <1>1
<1>. HIDE DEF B
<1>3. C!Note(payload) \in [note : BOOLEAN, bytes : B]
  BY <1>2 DEF C!Note
<1>. QED  BY <1>3 DEF C!Units, B

LEMMA UnitsBeforeAre ==
    ASSUME NEW how, NEW ahead \in Seq(Seq(Byte)), NEW notes \in Seq(Notes)
    PROVE  /\ UnitsBefore(how, ahead, notes) \in Seq(C!Units)
           /\ Len(UnitsBefore(how, ahead, notes)) = Len(ahead) + Len(notes)
<1>. DEFINE m == Len(ahead)
            n == Len(notes)
            U == C!Units
            val(k) == IF k <= m THEN Unit(how, ahead[k]) ELSE C!Note(notes[k - m])
<1>1. m \in Nat /\ n \in Nat
  OBVIOUS
<1>2. \A payload \in Notes : C!Note(payload) \in U
  BY NoteType
<1>3. ASSUME NEW k \in 1..(m + n) PROVE val(k) \in U
  <2>1. CASE k <= m
    <3>1. ahead[k] \in Seq(Byte)
      <4>1. k \in 1..m
        BY <1>1, <2>1
      <4>. QED  BY <4>1, ElementOfSeq
    <3>2. Unit(how, ahead[k]) \in U
      BY <3>1, UnitType
    <3>. QED  BY <2>1, <3>2
  <2>2. CASE ~(k <= m)
    <3>1. k - m \in 1..n
      BY <1>1, <2>2
    <3>2. notes[k - m] \in Notes
      BY <3>1, ElementOfSeq
    <3>3. C!Note(notes[k - m]) \in U
      BY <1>2, <3>2
    <3>. QED  BY <2>2, <3>3
  <2>. QED  BY <2>1, <2>2
<1>4. UnitsBefore(how, ahead, notes) = [k \in 1..(m + n) |-> val(k)]
  BY DEF UnitsBefore
<1>. HIDE DEF val, U, m, n
<1>5. m + n \in Nat
  BY <1>1
<1>. DEFINE l == m + n
<1>. HIDE DEF l
<1>6. l \in Nat /\ \A k \in 1..l : val(k) \in U
  BY <1>3, <1>5 DEF l
<1>7. [k \in 1..l |-> val(k)] \in Seq(U) /\ Len([k \in 1..l |-> val(k)]) = l
  BY <1>6, IsASeq
<1>. QED  BY <1>4, <1>7 DEF l, U, m, n

LEMMA UnitsBeforeGrow ==
    ASSUME NEW how, NEW ahead \in Seq(Seq(Byte)), NEW notes \in Seq(Notes), NEW payload \in Notes
    PROVE  UnitsBefore(how, ahead, Append(notes, payload))
               = Append(UnitsBefore(how, ahead, notes), C!Note(payload))
<1>. DEFINE m == Len(ahead)
            n == Len(notes)
            more == Append(notes, payload)
            f == UnitsBefore(how, ahead, notes)
            g == UnitsBefore(how, ahead, more)
            e == C!Note(payload)
            h == Append(f, e)
<1>1. m \in Nat /\ n \in Nat /\ more \in Seq(Notes) /\ Len(more) = n + 1
      /\ more[n + 1] = payload /\ \A k \in 1..n : more[k] = notes[k]
  OBVIOUS
<1>2. f \in Seq(C!Units) /\ Len(f) = m + n
  BY UnitsBeforeAre
<1>3. g = [k \in 1..(m + (n + 1)) |-> IF k <= m THEN Unit(how, ahead[k]) ELSE C!Note(more[k - m])]
  BY <1>1 DEF UnitsBefore
<1>4. f = [k \in 1..(m + n) |-> IF k <= m THEN Unit(how, ahead[k]) ELSE C!Note(notes[k - m])]
  BY DEF UnitsBefore
<1>. HIDE DEF f, g, more, m, n, e
<1>5. DOMAIN h = 1..(m + (n + 1)) /\ h[m + n + 1] = e /\ \A k \in 1..(m + n) : h[k] = f[k]
  <2>1. Len(f) = m + n /\ f \in Seq(C!Units)
    BY <1>2
  <2>. QED  BY <1>1, <2>1
<1>6. ASSUME NEW k \in 1..(m + (n + 1)) PROVE g[k] = h[k]
  <2>1. CASE k = m + n + 1
    <3>1. ~(k <= m) /\ k - m = n + 1
      BY <1>1, <2>1
    <3>. QED  BY <1>1, <1>3, <1>5, <2>1, <3>1 DEF e
  <2>2. CASE k # m + n + 1
    <3>1. k \in 1..(m + n)
      BY <1>1, <2>2
    <3>2. ~(k <= m) => k - m \in 1..n
      BY <1>1, <3>1
    <3>. QED  BY <1>1, <1>3, <1>4, <1>5, <3>1, <3>2
  <2>. QED  BY <2>1, <2>2
<1>7. g \in Seq(C!Units) /\ Len(g) = m + (n + 1)
  BY <1>1, UnitsBeforeAre DEF g, m
<1>8. h \in Seq(C!Units) /\ Len(h) = m + (n + 1)
  <2>1. e \in C!Units
    BY NoteType DEF e
  <2>. QED  BY <1>1, <1>2, <2>1
<1>9. g = h
  <2>. HIDE DEF h
  <2>. QED  BY <1>6, <1>7, <1>8, SeqEqual
<1>. QED  BY <1>9 DEF f, g, more, e

LEMMA SeenIs ==
    ASSUME PutInv, NalInv, Av1Inv
    PROVE  Seen(framing, packet) = [before  |-> UnitsBefore(origin.framing, Ahead0, put),
                                    picture |-> UnitsFrom(origin.framing, Behind0)]
<1>. DEFINE u == Ahead0
            n == UnitsPut
            v == Behind0
            un == u \o n
            w == un \o v
            m == Len(u)
            p == Len(put)
            at == m + p + 1
            how == origin.framing
<1>1. /\ UnitsOf(framing, packet) = UnitsNow
      /\ u \in Seq(Seq(Byte)) /\ v \in Seq(Seq(Byte))
      /\ n \in Seq(Seq(Byte)) /\ Len(n) = p /\ p \in Nat
      /\ PictureAt(framing, UnitsNow) = at
  BY UnitsHold
<1>2. w = UnitsNow
  BY Zenon DEF UnitsNow
<1>3. framing = Av1 <=> how = Av1
  BY DEF PutInv
<1>4. \A k \in 1..p : n[k] = UnitOf(put[k]) /\ put[k] \in Notes
  BY DEF UnitsPut, PutInv
<1>. HIDE DEF u, n, v, m, p, how
<1>5. /\ un \in Seq(Seq(Byte)) /\ m \in Nat /\ Len(n) \in Nat /\ Len(un) = m + Len(n)
      /\ \A k \in 1..m : un[k] = u[k]
      /\ \A k \in 1..Len(n) : un[m + k] = n[k]
  <2>1. u \in Seq(Seq(Byte)) /\ n \in Seq(Seq(Byte))
    BY <1>1
  <2>2. un = u \o n =>
           /\ un \in Seq(Seq(Byte)) /\ Len(u) \in Nat /\ Len(n) \in Nat
           /\ Len(un) = Len(u) + Len(n)
           /\ \A k \in 1..Len(u) : un[k] = u[k]
           /\ \A k \in 1..Len(n) : un[Len(u) + k] = n[k]
    <3>. HIDE DEF un
    <3>. QED  BY <2>1, TwoParts
  <2>. QED  BY <2>2 DEF m
<1>. HIDE DEF un
<1>6. /\ Len(v) \in Nat /\ Len(w) = Len(un) + Len(v)
      /\ \A k \in 1..Len(un) : w[k] = un[k]
      /\ \A k \in 1..Len(v) : w[Len(un) + k] = v[k]
  <2>1. un \in Seq(Seq(Byte)) /\ v \in Seq(Seq(Byte))
    BY <1>1, <1>5
  <2>2. w = un \o v =>
           /\ Len(v) \in Nat /\ Len(w) = Len(un) + Len(v)
           /\ \A k \in 1..Len(un) : w[k] = un[k]
           /\ \A k \in 1..Len(v) : w[Len(un) + k] = v[k]
    <3>. HIDE DEF w
    <3>. QED  BY <2>1, TwoParts
  <2>. QED  BY <2>2
<1>. HIDE DEF w
<1>7. at - 1 = m + p /\ Len(w) - at + 1 = Len(v) /\ at = Len(un) + 1 /\ Len(un) = m + p
      /\ at \in Nat
  BY <1>1, <1>5, <1>6
<1>8. Seen(framing, packet)
          = [before  |-> [k \in 1..(at - 1) |-> Unit(framing, w[k])],
             picture |-> [k \in 1..(Len(w) - at + 1) |-> Unit(framing, w[at + k - 1])]]
  BY <1>1, <1>2, Zenon DEF Seen
<1>. HIDE DEF at
<1>9. \A x : Unit(framing, x) = Unit(how, x)
  BY <1>3, UnitByKind
<1>10. \A note \in Notes : Unit(framing, UnitOf(note)) = C!Note(note)
  <2>. SUFFICES ASSUME NEW note \in Notes PROVE Unit(framing, UnitOf(note)) = C!Note(note)
    OBVIOUS
  <2>1. PayloadsInNal(framing, UnitOf(note)) = <<note>>
    BY PayloadOfPut
  <2>2. Len(<<note>>) = 1 /\ <<note>>[1] = note
    OBVIOUS
  <2>. QED  BY <2>1, <2>2, Zenon DEF Unit, C!Note
<1>11. [k \in 1..(at - 1) |-> Unit(framing, w[k])] = UnitsBefore(how, u, put)
  <2>. DEFINE val(k) == IF k <= m THEN Unit(how, u[k]) ELSE C!Note(put[k - m])
  <2>1. ASSUME NEW k \in 1..(m + p) PROVE Unit(framing, w[k]) = val(k)
    <3>1. CASE k <= m
      <4>1. k \in 1..m /\ k \in 1..Len(un)
        BY <1>5, <1>7, <3>1
      <4>2. w[k] = u[k]
        BY <1>5, <1>6, <4>1
      <4>. QED  BY <1>9, <3>1, <4>2
    <3>2. CASE ~(k <= m)
      <4>1. k - m \in 1..p /\ k \in 1..Len(un) /\ m + (k - m) = k
        BY <1>1, <1>5, <1>7, <3>2
      <4>2. w[k] = n[k - m]
        BY <1>1, <1>5, <1>6, <4>1
      <4>3. n[k - m] = UnitOf(put[k - m]) /\ put[k - m] \in Notes
        BY <1>4, <4>1
      <4>. QED  BY <1>10, <3>2, <4>2, <4>3
    <3>. QED  BY <3>1, <3>2
  <2>2. UnitsBefore(how, u, put) = [k \in 1..(m + p) |-> val(k)]
    BY DEF UnitsBefore, m, p
  <2>. HIDE DEF val
  <2>3. [k \in 1..(m + p) |-> Unit(framing, w[k])] = [k \in 1..(m + p) |-> val(k)]
    BY <2>1
  <2>. QED  BY <1>7, <2>2, <2>3
<1>12. [k \in 1..(Len(w) - at + 1) |-> Unit(framing, w[at + k - 1])] = UnitsFrom(how, v)
  <2>1. ASSUME NEW k \in 1..Len(v) PROVE Unit(framing, w[at + k - 1]) = Unit(how, v[k])
    <3>1. at + k - 1 = Len(un) + k
      BY <1>1, <1>5, <1>7
    <3>. QED  BY <1>6, <1>9, <3>1
  <2>2. [k \in 1..Len(v) |-> Unit(framing, w[at + k - 1])] = [k \in 1..Len(v) |-> Unit(how, v[k])]
    BY <2>1
  <2>. QED  BY <1>7, <2>2 DEF UnitsFrom
<1>. QED  BY <1>8, <1>11, <1>12, Zenon DEF u, v, how

SeenInv == seen = Seen(framing, packet)

\* Putting payloads into a packet is what Carrier says of it, whatever the
\* framing and through every change of it (Framing::insert, Framing::reframe,
\* length_prefixed_to_annexb; config.rs, "Everything else in the packet is
\* copied through exactly as the encoder wrote it").
THEOREM SpliceImplementsCarrier == Spec => ImplementsCarrier
<1>. DEFINE Inv == PutInv /\ NalInv /\ Av1Inv /\ SeenInv
            Shown == seen = [before  |-> UnitsBefore(origin.framing, Ahead0, put),
                             picture |-> UnitsFrom(origin.framing, Behind0)]
<1>1. Inv => Shown
  BY SeenIs DEF SeenInv
<1>2. Init => SeenInv
  BY DEF Init, SeenInv
<1>3. SeenInv /\ [Next]_vars => SeenInv'
  <2>1. Next => SeenInv'
    BY DEF Next, SeenInv
  <2>2. SeenInv /\ UNCHANGED vars => SeenInv'
    BY DEF SeenInv, vars
  <2>. QED  BY <2>1, <2>2
<1>4. ASSUME Inv PROVE C!Init
  <2>1. Shown
    BY <1>1, <1>4
  <2>2. Ahead0 \in Seq(Seq(Byte)) /\ Behind0 \in Seq(Seq(Byte)) /\ put \in Seq(Notes)
    BY <1>4, UnitsHold DEF PutInv
  <2>3. UnitsBefore(origin.framing, Ahead0, put) \in Seq(C!Units)
    BY <2>2, UnitsBeforeAre
  <2>4. UnitsFrom(origin.framing, Behind0) \in Seq(C!Units)
    <3>. DEFINE v == Behind0
                how == origin.framing
                U == C!Units
    <3>1. v \in Seq(Seq(Byte)) /\ Len(v) \in Nat
      BY <2>2
    <3>. HIDE DEF v, how
    <3>2. \A k \in 1..Len(v) : Unit(how, v[k]) \in U
      <4>1. \A k \in 1..Len(v) : v[k] \in Seq(Byte)
        BY <3>1, ElementOfSeq
      <4>. QED  BY <4>1, UnitType
    <3>. HIDE DEF U
    <3>3. [k \in 1..Len(v) |-> Unit(how, v[k])] \in Seq(U)
      BY <3>1, <3>2, IsASeq
    <3>. QED  BY <3>3 DEF UnitsFrom, v, how, U
  <2>. QED  BY <2>1, <2>3, <2>4 DEF C!Init
<1>5. ASSUME Inv, Inv', [Next]_vars PROVE [C!Next]_<<seen.before, seen.picture>>
  <2>1. Shown /\ Shown'
    <3>1. Shown
      BY <1>1, <1>5
    <3>2. Inv' => Shown'
      BY <1>1, PTL
    <3>. QED  BY <1>5, <3>1, <3>2
  <2>2. ASSUME UNCHANGED <<origin, put>>
        PROVE  UNCHANGED <<seen.before, seen.picture>>
    <3>1. Ahead0' = Ahead0 /\ Behind0' = Behind0
      BY <2>2 DEF Ahead0, Behind0, FirstAt, First
    <3>2. seen' = seen
      BY <2>1, <2>2, <3>1, Zenon
    <3>. QED  BY <3>2
  <2>3. ASSUME NEW note \in Notes, Insert(note)
        PROVE  C!Insert(note)
    <3>1. put' = Append(put, note) /\ origin' = origin
      BY <2>3 DEF Insert
    <3>2. Ahead0' = Ahead0 /\ Behind0' = Behind0
      BY <3>1 DEF Ahead0, Behind0, FirstAt, First
    <3>3. Ahead0 \in Seq(Seq(Byte)) /\ put \in Seq(Notes)
      BY <1>5, UnitsHold DEF PutInv
    <3>4. UnitsBefore(origin.framing, Ahead0, Append(put, note))
              = Append(UnitsBefore(origin.framing, Ahead0, put), C!Note(note))
      BY <3>3, UnitsBeforeGrow
    <3>5. seen' = [before  |-> Append(UnitsBefore(origin.framing, Ahead0, put), C!Note(note)),
                   picture |-> UnitsFrom(origin.framing, Behind0)]
      BY <2>1, <3>1, <3>2, <3>4, Zenon
    <3>6. seen'.before = Append(seen.before, C!Note(note)) /\ seen'.picture = seen.picture
      BY <2>1, <3>5
    <3>. QED  BY <3>6 DEF C!Insert
  <2>4. (\E note \in Notes : InsertRefused(note)) \/ BackRefused \/ UNCHANGED vars
            \/ (\E size \in Widths : ReframeRefused(LengthPrefixed(size)))
          => UNCHANGED <<origin, put>>
    BY DEF InsertRefused, BackRefused, ReframeRefused, vars, calls
  <2>5. Back \/ (\E size \in Widths : Reframe(LengthPrefixed(size))) => UNCHANGED <<origin, put>>
    BY DEF Back, Reframe
  <2>. QED  BY <1>5, <2>2, <2>3, <2>4, <2>5, Zenon DEF Next, InsertStep, ReframeStep, C!Next
<1>6. Spec => []Inv
  BY <1>2, <1>3, SplicePutHolds, SpliceNalHolds, SpliceAv1Holds, PTL DEF Spec
<1>7. Spec => C!Spec
  BY <1>4, <1>5, <1>6, PTL DEF Spec, C!Spec
<1>. QED  BY <1>7, PTL DEF ImplementsCarrier

-----------------------------------------------------------------------------
\* Every byte of the encoder's is kept.

\* What BytesKept asks: the encoder's bytes up to at, the units put in, one
\* after another, the encoder's bytes from there.
Kept(b, w, at, units) ==
    /\ b \in Seq(Byte) /\ at \in 0..Len(b)
    /\ Joined(framing, units) \in Seq(Byte)
    /\ w = Slice(b, 0, at) \o Joined(framing, units) \o DropFront(b, at)
    /\ UnitsOf(framing, Joined(framing, units)) = units

PlaceOf(how, b) == OffsetOf(how, b, PictureAt(how, UnitsOf(how, b)))

LEMMA KeptIs ==
    ASSUME Len(UnitsPut) = Len(put),
           put # << >> => Kept(origin.bytes, packet, PlaceOf(framing, origin.bytes), UnitsPut)
    PROVE  BytesKept
<1>. SUFFICES ASSUME ~moved, put # << >> PROVE
        LET b  == origin.bytes
            at == OffsetOf(framing, b, PictureAt(framing, UnitsOf(framing, b)))
            middle == Slice(packet, at, Len(packet) - (Len(b) - at))
            units  == UnitsOf(framing, middle)
        IN  /\ packet = Slice(b, 0, at) \o middle \o DropFront(b, at)
            /\ Len(units) = Len(put)
            /\ middle = Joined(framing, units)
  BY Zenon DEF BytesKept
<1>. DEFINE b  == origin.bytes
            at == PlaceOf(framing, b)
            m  == Joined(framing, UnitsPut)
            x  == Slice(b, 0, at)
            y  == DropFront(b, at)
<1>1. /\ b \in Seq(Byte) /\ at \in 0..Len(b) /\ m \in Seq(Byte)
      /\ packet = x \o m \o y /\ UnitsOf(framing, m) = UnitsPut
  BY DEF Kept
<1>2. /\ x \in Seq(Byte) /\ y \in Seq(Byte) /\ Len(x) = at /\ Len(y) = Len(b) - at
      /\ at \in Nat /\ Len(b) \in Nat
  BY <1>1, CutBytes
<1>. DEFINE middle == Slice(packet, at, Len(packet) - (Len(b) - at))
<1>3. middle = m
  <2>. DEFINE n == Len(y)
              e == at + Len(m)
  <2>0. x \in Seq(Byte) /\ m \in Seq(Byte) /\ y \in Seq(Byte)
    BY <1>1, <1>2
  <2>1. n = Len(b) - at
    BY <1>2
  <2>2. packet = x \o m \o y
    BY <1>1
  <2>. HIDE DEF at, m, x, y
  <2>3. Len(m) \in Nat /\ n \in Nat /\ e \in Nat
    BY <1>1, <1>2
  <2>. DEFINE xm == x \o m
  <2>. HIDE DEF xm
  <2>4. xm \in Seq(Byte) /\ Len(xm) = e /\ SubSeq(xm, at + 1, Len(xm)) = m
    <3>1. xm = x \o m => /\ xm \in Seq(Byte) /\ Len(xm) = Len(x) + Len(m)
                         /\ SubSeq(xm, Len(x) + 1, Len(xm)) = m
      BY <2>0, TwoParts
    <3>. QED  BY <1>2, <3>1 DEF xm
  <2>5. packet = xm \o y
    BY <2>2 DEF xm
  <2>6. /\ packet \in Seq(Byte) /\ Len(packet) = e + n /\ SubSeq(packet, 1, e) = xm
    <3>1. packet = xm \o y => /\ packet \in Seq(Byte) /\ Len(packet) = Len(xm) + Len(y)
                              /\ SubSeq(packet, 1, Len(xm)) = xm
      BY <2>0, <2>4, TwoParts
    <3>. QED  BY <2>4, <2>5, <3>1
  <2>7. Len(packet) - (Len(b) - at) = e
    BY <2>1, <2>3, <2>6
  <2>8. SubSeq(packet, at + 1, e) = SubSeq(xm, at + 1, e)
    <3>. HIDE DEF e, n
    <3>1. \A i \in 1..e : packet[i] = xm[i]
      BY <2>3, <2>4, <2>6
    <3>. QED  BY <1>2, <2>3, <2>4, <2>6, <3>1
  <2>. QED  BY <2>4, <2>7, <2>8 DEF Slice
<1>4. PlaceOf(framing, b) = OffsetOf(framing, b, PictureAt(framing, UnitsOf(framing, b)))
  BY DEF PlaceOf
<1>. HIDE DEF m, x, y
<1>5. UnitsOf(framing, middle) = UnitsPut
  BY <1>1, <1>3, Zenon
<1>6. packet = x \o middle \o y /\ middle = Joined(framing, UnitsOf(framing, middle))
  BY <1>1, <1>3, <1>5, Zenon DEF m
<1>7. packet = Slice(b, 0, at) \o middle \o DropFront(b, at)
  BY <1>6, Zenon DEF x, y
<1>. HIDE DEF middle
<1>8. Len(UnitsOf(framing, middle)) = Len(put)
  BY <1>5
<1>. QED  BY <1>4, <1>6, <1>7, <1>8, Zenon DEF at, middle, b

\* The picture of AV1 begins at the seam.
LEMMA PlaceOfObus ==
    ASSUME NEW x, NEW y, NEW b, ObuParts(b, x, y), Len(b) <= UsizeMax
    PROVE  PlaceOf(Av1, b) = Len(x)
<1>. DEFINE a == Ascending(ObuStarts(x))
            c == Ascending(ObuStarts(y))
            d == Ascending(ObuStarts(b))
<1>1. x \in Seq(Byte) /\ Closed(x) /\ ~ScanFails(x) /\ y \in Seq(Byte) /\ ~ScanFails(y) /\ b = x \o y
  BY DEF ObuParts, Closed
<1>2. /\ Len(d) = Len(a) + Len(c)
      /\ \A k \in 1..Len(c) : d[Len(a) + k] = Len(x) + c[k]
  BY <1>1, ObuBytesJoin
<1>3. /\ b \in Seq(Byte) /\ ~ScanFails(b)
  BY InsertAtParts
<1>4. Len(d) = Cardinality(ObuStarts(b))
  BY <1>3, ObuListIs
<1>5. /\ Len(a) \in Nat /\ Len(ObuBytes(x)) = Len(a)
  BY <1>1, ObuBytesAre
<1>6. /\ Len(c) \in Nat /\ \A k \in 1..Len(c) : k = 1 <=> c[k] = 0
      /\ \A k \in 1..Len(c) : c[k] \in ObuStarts(y)
      /\ \A p \in ObuStarts(y) : \E k \in 1..Len(c) : c[k] = p
  BY <1>1, ObuBytesAre, ObuListIs
<1>7. PictureAt(Av1, UnitsOf(Av1, b)) = Len(a) + 1
  BY <1>5, PictureAtParts, FramingKinds DEF UnitsOf
<1>8. PlaceOf(Av1, b) = IF Len(a) + 1 > Len(d) THEN Len(b) ELSE d[Len(a) + 1]
  BY <1>4, <1>7, FramingKinds DEF PlaceOf, OffsetOf
<1>. HIDE DEF a, c, d
<1>9. Len(x) \in Nat /\ Len(y) \in Nat /\ Len(b) = Len(x) + Len(y)
  BY <1>1, ConcatProperties, LenProperties
<1>10. CASE Len(c) = 0
  <2>1. Len(y) = 0
    <3>1. Len(y) > 0 => 0 \in ObuStarts(y)
      BY <1>1, <1>9, ObuStartsAre
    <3>2. 0 \notin ObuStarts(y)
      <4>1. \A k \in 1..Len(c) : FALSE
        BY <1>10
      <4>. QED  BY <1>6, <4>1
    <3>. QED  BY <1>9, <3>1, <3>2
  <2>. QED  BY <1>2, <1>5, <1>8, <1>9, <1>10, <2>1
<1>11. CASE Len(c) # 0
  <2>1. 1 \in 1..Len(c)
    BY <1>6, <1>11
  <2>2. c[1] = 0 /\ d[Len(a) + 1] = Len(x) + c[1]
    BY <1>2, <1>6, <2>1
  <2>. QED  BY <1>2, <1>5, <1>6, <1>8, <1>9, <2>1, <2>2
<1>. QED  BY <1>10, <1>11

LEMMA Av1Kept ==
    ASSUME PutInv, Av1Inv, framing = Av1 PROVE BytesKept
<1>1. /\ UnitsPut \in Seq(Seq(Byte)) /\ Len(UnitsPut) = Len(put)
      /\ origin.bytes \in Seq(Byte) /\ Len(packet) <= UsizeMax
  BY ObusNow DEF PutInv, Av1Inv
<1>2. ASSUME put # << >>
      PROVE  Kept(origin.bytes, packet, PlaceOf(framing, origin.bytes), UnitsPut)
  <2>. DEFINE b0 == origin.bytes
              f  == FlattenSeq(UnitsPut)
  <2>1. PICK x, y : /\ ObuParts(b0, x, y) /\ ObuParts(packet, x \o f, y)
                    /\ Closed(f) /\ ObuBytes(f) = UnitsPut
    BY <1>2 DEF Av1Inv, PutBetween
  <2>2. f \in Seq(Byte) /\ x \in Seq(Byte) /\ y \in Seq(Byte) /\ packet = x \o f \o y
        /\ b0 = x \o y
    BY <2>1 DEF Closed, ObuParts
  <2>. HIDE DEF f
  <2>3. Len(b0) <= UsizeMax
    <3>1. origin \in Packets /\ origin.framing = Av1
      BY DEF PutInv
    <3>. QED  BY <3>1, MemoryAssumption
  <2>4. Slice(b0, 0, Len(x)) = x /\ DropFront(b0, Len(x)) = y /\ Len(x) \in 0..Len(b0)
    BY <2>1, <2>3, InsertAtParts
  <2>5. PlaceOf(framing, b0) = Len(x)
    BY <2>1, <2>3, PlaceOfObus
  <2>6. Joined(framing, UnitsPut) = f /\ UnitsOf(framing, f) = UnitsPut
    BY <2>1, FramingKinds DEF Joined, UnitsOf, f
  <2>. QED  BY <1>1, <2>2, <2>4, <2>5, <2>6, Zenon DEF Kept
<1>. QED  BY <1>1, <1>2, KeptIs

\* The start code of the first slice is where OffsetOf says.
LEMMA PlaceOfNals ==
    ASSUME NEW b \in Seq(Byte)
    PROVE  Place(b, PlaceOf(AnnexB, b)) /\ PlaceOf(AnnexB, b) \in 0..Len(b)
<1>. DEFINE a == Ascending(StartCodes(b))
            nals == SplitNals(b)
            scan == ScanNals(b)
            k == FirstSlice(nals)
<1>1. /\ Len(a) \in Nat
      /\ \A i \in 1..Len(a) : a[i] \in StartCodes(b) /\ a[i] \in Nat
      /\ \A i, j \in 1..Len(a) : i < j => a[i] < a[j]
      /\ \A p \in StartCodes(b) : \E i \in 1..Len(a) : a[i] = p
  BY CodesInOrder
<1>2. /\ nals = [i \in 1..Len(a) |-> NalBytes(b, a[i])] /\ Len(nals) = Len(a)
      /\ nals \in Seq(Seq(Byte))
  BY SplitNalsIs, SplitNalsType
<1>3. Len(scan) = Len(a) /\ \A i \in 1..Len(a) : scan[i].code = NalCode(b, a[i])
  <2>. DEFINE r(i) == [pad   |-> NalPad(b, a[i]),   code |-> NalCode(b, a[i]),
                       start |-> NalStart(a[i]),    end  |-> NalEnd(b, a[i]),
                       bytes |-> NalBytes(b, a[i])]
  <2>1. scan = [i \in 1..Len(a) |-> r(i)]
    BY DEF ScanNals
  <2>2. \A i : r(i).code = NalCode(b, a[i])
    OBVIOUS
  <2>. HIDE DEF r, a, scan
  <2>. QED  BY <1>1, <2>1, <2>2, LenProperties
<1>4. PlaceOf(AnnexB, b) = IF k > Len(scan) THEN Len(b) ELSE scan[k].code
  <2>1. PictureAt(AnnexB, nals) = k /\ UnitsOf(AnnexB, b) = nals
    BY PictureIsSlice, FramingKinds DEF UnitsOf
  <2>. HIDE DEF nals, k, scan
  <2>2. PlaceOf(AnnexB, b) = OffsetOf(AnnexB, b, k)
    BY <2>1 DEF PlaceOf
  <2>. QED  BY <2>2, FramingKinds DEF OffsetOf, scan
<1>5. /\ Slices(b) \subseteq StartCodes(b)
      /\ \A c \in StartCodes(b) : IsVcl(NalBytes(b, c)) <=> c \in Slices(b)
  BY SlicesAre
<1>. HIDE DEF a, nals, scan
<1>6. PICK u, v \in Seq(Seq(Byte)) : nals = u \o v /\ BeforeSlices(u, v)
  BY <1>2, PartsExist
<1>7. k = Len(u) + 1
  BY <1>6, FirstSliceIs
<1>8. /\ Len(u) \in Nat /\ Len(v) \in Nat /\ Len(a) = Len(u) + Len(v)
      /\ \A i \in 1..Len(u) : ~IsVcl(nals[i])
      /\ Len(v) > 0 => IsVcl(nals[k])
  <2>1. nals = u \o v => /\ Len(u) \in Nat /\ Len(v) \in Nat /\ Len(nals) = Len(u) + Len(v)
                         /\ \A i \in 1..Len(u) : nals[i] = u[i]
                         /\ \A i \in 1..Len(v) : nals[Len(u) + i] = v[i]
    BY <1>6, TwoParts
  <2>2. Len(v) > 0 => nals[Len(u) + 1] = v[1]
    BY <1>6, <2>1
  <2>. HIDE DEF k
  <2>. QED  BY <1>2, <1>6, <1>7, <2>1, <2>2 DEF BeforeSlices
<1>. HIDE DEF k
<1>9. CASE Len(v) = 0
  <2>1. \A c \in Slices(b) : FALSE
    <3>. SUFFICES ASSUME NEW c \in Slices(b) PROVE FALSE
      OBVIOUS
    <3>1. PICK i \in 1..Len(a) : a[i] = c
      BY <1>1, <1>5
    <3>2. IsVcl(nals[i]) /\ i \in 1..Len(u)
      BY <1>2, <1>5, <1>8, <1>9, <3>1
    <3>. QED  BY <1>8, <3>2
  <2>2. PlaceOf(AnnexB, b) = Len(b) /\ Len(b) \in Nat
    BY <1>3, <1>4, <1>7, <1>8, <1>9
  <2>. QED  BY <2>1, <2>2 DEF Place
<1>10. CASE Len(v) # 0
  <2>1. k \in 1..Len(a)
    BY <1>7, <1>8, <1>10
  <2>2. PlaceOf(AnnexB, b) = NalCode(b, a[k])
    BY <1>3, <1>4, <2>1
  <2>3. a[k] \in Slices(b)
    BY <1>1, <1>2, <1>5, <1>8, <1>10, <2>1
  <2>4. ASSUME NEW c \in Slices(b) PROVE a[k] <= c
    <3>1. PICK i \in 1..Len(a) : a[i] = c
      BY <1>1, <1>5
    <3>2. i \notin 1..Len(u)
      BY <1>2, <1>5, <1>8, <3>1
    <3>3. i = k \/ k < i
      BY <1>7, <1>8, <3>1, <3>2
    <3>. QED  BY <1>1, <2>1, <3>1, <3>3
  <2>5. \E s \in Slices(b) : (\A d \in Slices(b) : s <= d) /\ Place(b, NalCode(b, s))
    BY <2>3, PlaceExists
  <2>6. PICK s \in Slices(b) : (\A d \in Slices(b) : s <= d) /\ Place(b, NalCode(b, s))
    BY <2>5
  <2>7. s = a[k]
    <3>1. s <= a[k] /\ a[k] <= s /\ s \in Nat /\ a[k] \in Nat
      BY <1>1, <1>5, <2>1, <2>3, <2>4, <2>6, CodesAre
    <3>. QED  BY <3>1
  <2>. QED  BY <2>2, <2>6, <2>7 DEF Place
<1>. QED  BY <1>8, <1>9, <1>10

AheadNow == Slice(origin.bytes, 0, PlaceOf(AnnexB, origin.bytes)) \o StartCoded(UnitsPut)
BehindNow == DropFront(origin.bytes, PlaceOf(AnnexB, origin.bytes))

\* Inductive: the bytes of a start-coded packet that was never reframed.
AnnexbInv == ~moved /\ framing = AnnexB =>
    packet = AheadNow \o BehindNow /\ Place(packet, Len(AheadNow))

LEMMA AnnexbBytes ==
    ASSUME PutInv, framing = AnnexB, ~moved
    PROVE  /\ origin.framing = AnnexB /\ origin.bytes \in Seq(Byte)
           /\ Slice(origin.bytes, 0, PlaceOf(AnnexB, origin.bytes)) \in Seq(Byte)
           /\ BehindNow \in Seq(Byte)
           /\ origin.bytes = Slice(origin.bytes, 0, PlaceOf(AnnexB, origin.bytes)) \o BehindNow
           /\ Place(origin.bytes, PlaceOf(AnnexB, origin.bytes))
           /\ PlaceOf(AnnexB, origin.bytes) \in 0..Len(origin.bytes)
           /\ UnitsPut \in Seq(GoodNals) /\ UnitsPut \in Seq(Seq(Byte)) /\ UnitsPut \in Seq(CleanNals)
           /\ StartCoded(UnitsPut) \in Seq(Byte)
           /\ AheadNow \in Seq(Byte)
<1>1. origin.framing = AnnexB /\ origin.bytes \in Seq(Byte) /\ framing # Av1
  BY FramingKinds DEF PutInv
<1>2. /\ Place(origin.bytes, PlaceOf(AnnexB, origin.bytes))
      /\ PlaceOf(AnnexB, origin.bytes) \in 0..Len(origin.bytes)
  BY <1>1, PlaceOfNals
<1>3. /\ Slice(origin.bytes, 0, PlaceOf(AnnexB, origin.bytes)) \in Seq(Byte)
      /\ BehindNow \in Seq(Byte)
      /\ origin.bytes = Slice(origin.bytes, 0, PlaceOf(AnnexB, origin.bytes)) \o BehindNow
  BY <1>1, <1>2, CutBytes DEF BehindNow
<1>4. UnitsPut \in Seq(GoodNals) /\ UnitsPut \in Seq(Seq(Byte)) /\ UnitsPut \in Seq(CleanNals)
  BY <1>1, SeisPut, GoodNalsAre
<1>5. StartCoded(UnitsPut) \in Seq(Byte)
  BY <1>4, StartCodedConcat
<1>6. AheadNow \in Seq(Byte)
  BY <1>3, <1>5, ConcatProperties DEF AheadNow
<1>. QED  BY <1>1, <1>2, <1>3, <1>4, <1>5, <1>6

LEMMA AnnexbInit ==
    ASSUME Init, PutInv PROVE AnnexbInv
<1>. SUFFICES ASSUME ~moved, framing = AnnexB
              PROVE  packet = AheadNow \o BehindNow /\ Place(packet, Len(AheadNow))
  BY DEF AnnexbInv
<1>. DEFINE at == PlaceOf(AnnexB, origin.bytes)
            x == Slice(origin.bytes, 0, at)
<1>1. packet = origin.bytes /\ put = << >>
  BY DEF Init
<1>2. /\ x \in Seq(Byte) /\ origin.bytes = x \o BehindNow /\ Place(origin.bytes, at)
      /\ at \in 0..Len(origin.bytes) /\ origin.bytes \in Seq(Byte)
  BY AnnexbBytes
<1>3. UnitsPut = << >>
  <2>1. UnitsPut \in Seq(GoodNals) /\ Len(UnitsPut) = Len(put)
    BY SeisPut, FramingKinds
  <2>. QED  BY <1>1, <2>1, EmptySeq
<1>4. StartCoded(UnitsPut) = << >>
  <2>1. StartCoded(<< >>) = << >>
    <3>1. << >> \in Seq(Byte)
      OBVIOUS
    <3>. QED  BY <3>1, StartCodedOne, Zenon
  <2>. QED  BY <1>3, <2>1
<1>5. AheadNow = x
  BY <1>2, <1>4, ConcatEmptySeq DEF AheadNow
<1>6. Len(x) = at
  BY <1>2, CutBytes
<1>. QED  BY <1>1, <1>2, <1>5, <1>6

LEMMA AnnexbPut ==
    ASSUME PutInv, NalInv, AnnexbInv, ~moved, framing = AnnexB, NEW note \in Notes, Insert(note)
    PROVE  AnnexbInv'
<1>. DEFINE sei == UnitOf(note)
            m == AheadNow
            y == BehindNow
<1>1. /\ InsertInto(framing, packet, note).ok /\ packet' = InsertInto(framing, packet, note).bytes
      /\ put' = Append(put, note) /\ framing' = framing /\ origin' = origin /\ moved' = moved
  <2>1. AskedAsPad(framing) = framing
    BY AskedIs DEF PutInv
  <2>. QED  BY <2>1 DEF Insert
<1>2. /\ m \in Seq(Byte) /\ y \in Seq(Byte) /\ packet = m \o y /\ Place(packet, Len(m))
      /\ packet \in Seq(Byte) /\ framing # Av1 /\ framing.how = "AnnexB"
  <2>1. packet \in Seq(Byte) /\ framing # Av1 /\ framing.how = "AnnexB"
    BY FramingKinds DEF NalInv
  <2>. QED  BY <2>1, AnnexbBytes DEF AnnexbInv
<1>3. /\ UnitsOf(framing, packet) = UnitsNow
      /\ NalsTemporalId(UnitsNow) = NalsTemporalId(First)
  BY <1>2, NowAreNals DEF NalInv
<1>4. sei = WriteUserDataAt(note, NalsTemporalId(First)) /\ sei \in GoodNals /\ ~IsVcl(sei)
      /\ sei \in CleanNals /\ sei \in Seq(Byte)
  BY <1>2, SeisPut DEF GoodNals, CleanNals
<1>. DEFINE got == WriteUserDataAt(note, UnitsTemporalId(AccessUnits(packet)))
<1>5. InsertInto(framing, packet, note) = InsertSeiAnnexb(packet, got)
  BY <1>2 DEF InsertInto
<1>6. AccessUnits(packet) # << >>
  BY <1>1, <1>5, InsertsWhenUnits DEF Err
<1>7. got = sei
  <2>1. UnitsOf(framing, packet) = SplitNals(packet)
    BY <1>2 DEF UnitsOf
  <2>2. UnitsTemporalId(AccessUnits(packet)) = NalsTemporalId(First)
    BY <1>2, <1>3, <1>6, <2>1, UnitPlace
  <2>. HIDE DEF sei
  <2>. QED  BY <1>4, <2>2
<1>. HIDE DEF sei, got, m, y
<1>8. PICK at : /\ Place(packet, at)
                /\ InsertSeiAnnexb(packet, sei).bytes
                     = Slice(packet, 0, at) \o CodedNal(sei) \o DropFront(packet, at)
  <2>1. InsertSeiAnnexb(packet, sei).ok
    BY <1>1, <1>5, <1>7
  <2>. QED  BY <1>2, <1>4, <2>1, AnnexbInserted
<1>9. at = Len(m)
  BY <1>2, <1>8, OnePlace
<1>10. Slice(packet, 0, Len(m)) = m /\ DropFront(packet, Len(m)) = y
  <2>1. packet = m \o y => /\ Len(m) \in 0..Len(packet)
                           /\ m = Slice(packet, 0, Len(m)) /\ y = Slice(packet, Len(m), Len(packet))
    BY <1>2, SlicesOfJoin
  <2>2. DropFront(packet, Len(m)) = Slice(packet, Len(m), Len(packet))
    BY <1>2, <2>1, CutBytes
  <2>. QED  BY <1>2, <2>1, <2>2
<1>11. packet' = (m \o CodedNal(sei)) \o y
  BY <1>1, <1>5, <1>7, <1>8, <1>9, <1>10, Zenon
<1>12. Place(packet', Len(m \o CodedNal(sei)))
  BY <1>2, <1>4, <1>11, SeamMoves
<1>13. AheadNow' = m \o CodedNal(sei) /\ BehindNow' = y
  <2>. DEFINE x == Slice(origin.bytes, 0, PlaceOf(AnnexB, origin.bytes))
              p == StartCoded(UnitsPut)
              c == CodedNal(sei)
  <2>1. UnitsPut \in Seq(Seq(Byte)) /\ x \in Seq(Byte) /\ p \in Seq(Byte)
    BY AnnexbBytes
  <2>2. UnitsPut' = Append(UnitsPut, sei)
    BY <1>1, <1>4, <2>1, UnitsGrow DEF sei
  <2>3. StartCoded(Append(UnitsPut, sei)) = p \o c
    <3>. DEFINE t == UnitsPut
                e == <<sei>>
    <3>1. t \in Seq(Seq(Byte)) /\ e \in Seq(Seq(Byte)) /\ Append(t, sei) = t \o e
      BY <1>4, <2>1
    <3>2. StartCoded(e) = c
      BY <1>4, StartCodedOne
    <3>. HIDE DEF t, e, c
    <3>3. StartCoded(t \o e) = StartCoded(t) \o StartCoded(e)
      BY <3>1, StartCodedConcat
    <3>. QED  BY <3>1, <3>2, <3>3 DEF t
  <2>4. AheadNow' = x \o StartCoded(UnitsPut') /\ BehindNow' = BehindNow
    BY <1>1 DEF AheadNow, BehindNow, PlaceOf, OffsetOf
  <2>5. c \in Seq(Byte)
    BY <1>4, CodedNalBytes
  <2>. HIDE DEF x, p, c
  <2>6. x \o (p \o c) = (x \o p) \o c
    BY <2>1, <2>5, JoinOfThreeBytes, Zenon
  <2>7. AheadNow = x \o p
    BY Zenon DEF AheadNow, x, p
  <2>. QED  BY <2>2, <2>3, <2>4, <2>6, <2>7, Zenon DEF m, y, c
<1>. QED  BY <1>11, <1>12, <1>13, Zenon DEF AnnexbInv

LEMMA AnnexbStep == PutInv /\ NalInv /\ AnnexbInv /\ [Next]_vars => AnnexbInv'
<1>. SUFFICES ASSUME PutInv, NalInv, AnnexbInv, [Next]_vars PROVE AnnexbInv'
  OBVIOUS
<1>1. ASSUME UNCHANGED calls PROVE AnnexbInv'
  <2>1. framing' = framing /\ packet' = packet /\ put' = put /\ origin' = origin /\ moved' = moved
    BY <1>1 DEF calls
  <2>2. AheadNow' = AheadNow /\ BehindNow' = BehindNow
    BY <2>1 DEF AheadNow, BehindNow, PlaceOf, OffsetOf, UnitsPut, UnitOf, First
  <2>. QED  BY <2>1, <2>2, Zenon DEF AnnexbInv
<1>2. ASSUME NEW note \in Notes, Insert(note) PROVE AnnexbInv'
  <2>1. framing' = framing /\ moved' = moved
    BY <1>2 DEF Insert
  <2>2. CASE moved \/ framing # AnnexB
    BY <2>1, <2>2 DEF AnnexbInv
  <2>. QED  BY <1>2, <2>2, AnnexbPut
<1>3. ASSUME moved' = TRUE PROVE AnnexbInv'
  BY <1>3 DEF AnnexbInv
<1>4. (\E note \in Notes : InsertRefused(note)) => UNCHANGED calls
  BY DEF InsertRefused
<1>5. (\E size \in Widths : ReframeRefused(LengthPrefixed(size))) => UNCHANGED calls
  BY DEF ReframeRefused
<1>6. BackRefused \/ UNCHANGED vars => UNCHANGED calls
  BY DEF BackRefused, vars, calls
<1>7. Back \/ (\E size \in Widths : Reframe(LengthPrefixed(size))) => moved' = TRUE
  BY DEF Back, Reframe
<1>. QED  BY <1>1, <1>2, <1>3, <1>4, <1>5, <1>6, <1>7, Zenon
          DEF Next, InsertStep, ReframeStep

LEMMA AnnexbKept ==
    ASSUME PutInv, AnnexbInv, framing = AnnexB PROVE BytesKept
<1>. SUFFICES ASSUME ~moved PROVE BytesKept
  BY Zenon DEF BytesKept
<1>1. Len(UnitsPut) = Len(put)
  BY SeisPut, FramingKinds
<1>2. Kept(origin.bytes, packet, PlaceOf(framing, origin.bytes), UnitsPut)
  <2>1. Joined(framing, UnitsPut) = StartCoded(UnitsPut)
        /\ UnitsOf(framing, StartCoded(UnitsPut)) = SplitNals(StartCoded(UnitsPut))
    BY FramingKinds DEF Joined, UnitsOf
  <2>2. SplitNals(StartCoded(UnitsPut)) = UnitsPut
    BY AnnexbBytes, SplitStartCoded
  <2>3. packet = Slice(origin.bytes, 0, PlaceOf(AnnexB, origin.bytes)) \o StartCoded(UnitsPut)
                    \o DropFront(origin.bytes, PlaceOf(AnnexB, origin.bytes))
    BY Zenon DEF AnnexbInv, AheadNow, BehindNow
  <2>4. /\ origin.bytes \in Seq(Byte) /\ StartCoded(UnitsPut) \in Seq(Byte)
        /\ PlaceOf(AnnexB, origin.bytes) \in 0..Len(origin.bytes)
    BY AnnexbBytes
  <2>. QED  BY <2>1, <2>2, <2>3, <2>4, Zenon DEF Kept
<1>. QED  BY <1>1, <1>2, KeptIs

\* Inductive: the bytes of a sample that was never reframed.
SampleInv ==
    ~moved /\ framing.how = "LengthPrefixed" =>
        /\ put = << >> => packet = origin.bytes
        /\ put # << >> =>
              /\ SplitLengthPrefixed(origin.bytes, framing.length_size).ok
              /\ packet = Prefixed(UnitsNow, framing.length_size)
              /\ \A k \in 1..Len(UnitsPut) : Len(UnitsPut[k]) < Values(framing.length_size)

LEMMA SampleFraming ==
    ASSUME PutInv, framing.how = "LengthPrefixed"
    PROVE  /\ framing \in PacketFramings /\ framing # Av1 /\ framing # AnnexB
           /\ framing.length_size \in 1..4 /\ framing.length_size \in Nat
           /\ framing = LengthPrefixed(framing.length_size)
<1>1. framing \in PacketFramings /\ framing # Av1 /\ framing # AnnexB
  BY FramingKinds DEF PutInv
<1>2. PICK size \in 1..4 : framing = LengthPrefixed(size) /\ framing.length_size = size
  BY <1>1, FramingKinds
<1>. QED  BY <1>1, <1>2

\* A sample of so many units, of which none was refused.
LEMMA SampleFits ==
    ASSUME NEW nals \in Seq(ShortNals), NEW size \in 1..4, SampleOf(nals, size).ok
    PROVE  /\ SampleOf(nals, size).bytes = Prefixed(nals, size)
           /\ \A k \in 1..Len(nals) : Len(nals[k]) < Values(size)
<1>1. SampleOf(nals, size) = Ok(Prefixed(nals, size)) /\ \A k \in 1..Len(nals) : Fits(Len(nals[k]), size)
  BY DEF SampleOf, Err
<1>2. SampleOf(nals, size).bytes = Prefixed(nals, size)
  BY <1>1 DEF Ok
<1>3. ASSUME NEW k \in 1..Len(nals) PROVE Len(nals[k]) < Values(size)
  <2>1. nals[k] \in ShortNals
    BY ElementOfSeq
  <2>2. Len(nals[k]) < Values(4)
    BY <2>1 DEF ShortNals
  <2>3. Fits(Len(nals[k]), size)
    BY <1>1
  <2>. QED  BY <2>2, <2>3 DEF Fits
<1>. QED  BY <1>2, <1>3

LEMMA SamplePut ==
    ASSUME PutInv, NalInv, SampleInv, ~moved, framing.how = "LengthPrefixed",
           NEW note \in Notes, Insert(note), NalInv', PutInv'
    PROVE  SampleInv'
<1>. DEFINE size == framing.length_size
            sei == UnitOf(note)
            split == SplitLengthPrefixed(packet, size)
            more == InsertAt(UnitsNow, FirstSlice(UnitsNow), sei)
<1>1. /\ framing \in PacketFramings /\ framing # Av1 /\ framing # AnnexB
      /\ size \in 1..4 /\ size \in Nat /\ framing = LengthPrefixed(size)
  BY SampleFraming
<1>2. /\ InsertInto(framing, packet, note).ok /\ packet' = InsertInto(framing, packet, note).bytes
      /\ put' = Append(put, note) /\ framing' = framing /\ origin' = origin /\ moved' = moved
  <2>1. AskedAsPad(framing) = framing
    BY AskedIs DEF PutInv
  <2>. QED  BY <2>1 DEF Insert
<1>3. packet \in Seq(Byte) /\ UnitsOf(framing, packet) = UnitsNow
  BY <1>1 DEF NalInv
<1>4. /\ UnitsNow \in Seq(GoodNals) /\ NalsTemporalId(UnitsNow) = NalsTemporalId(First)
      /\ UnitsNow \in Seq(ShortNals)
  BY <1>1, NowAreNals, GoodNalsAre
<1>5. sei = WriteUserDataAt(note, NalsTemporalId(UnitsNow)) /\ sei \in GoodNals /\ sei \in ShortNals
  BY <1>1, <1>4, SeisPut DEF GoodNals
<1>. DEFINE got == InsertSeiLengthPrefixed(split, size, WriteUserDataAt(note, NalsTemporalId(split.nals)))
<1>6. InsertInto(framing, packet, note) = got
  BY DEF InsertInto
<1>7. split.ok
  <2>1. got.ok
    BY <1>2, <1>6
  <2>. QED  BY <2>1 DEF InsertSeiLengthPrefixed, Err
<1>8. split.nals = UnitsNow
  <2>1. UnitsOf(framing, packet) = SampleUnits(split)
    BY DEF UnitsOf
  <2>. QED  BY <1>3, <1>7, <2>1 DEF SampleUnits
<1>9. got = InsertSeiLengthPrefixed(split, size, sei)
  BY <1>5, <1>8
<1>. HIDE DEF sei
<1>10. /\ packet' = Prefixed(more, size)
       /\ \A k \in 1..Len(more) : Len(more[k]) < Values(size)
  <2>1. got.ok /\ packet' = got.bytes
    BY <1>2, <1>6
  <2>2. more \in Seq(ShortNals)
    BY <1>4, <1>5, PutBeforeSlice
  <2>. HIDE DEF got, split, size, more
  <2>3. got = SampleOf(more, size)
    BY <1>7, <1>8, <1>9, Zenon DEF InsertSeiLengthPrefixed, more
  <2>. QED  BY <1>1, <2>1, <2>2, <2>3, SampleFits
<1>. HIDE DEF split, more, got
<1>. DEFINE u == Ahead0
            n == UnitsPut
            v == Behind0
<1>11. u \in Seq(GoodNals) /\ v \in Seq(GoodNals) /\ n \in Seq(GoodNals)
      /\ BeforeSlices(u, v) /\ \A k \in 1..Len(n) : ~IsVcl(n[k])
  BY <1>1, OriginNals, SeisPut
<1>12. UnitsPut' = Append(n, sei) /\ UnitsNow' = u \o Append(n, sei) \o v
  BY <1>2, <1>5, <1>11, UnitsGrow DEF sei
<1>13. UnitsNow = u \o n \o v
  BY Zenon DEF UnitsNow
<1>. HIDE DEF u, n, v
<1>14. more = u \o Append(n, sei) \o v
  <2>. DEFINE w == u \o n \o v
  <2>0. u \in Seq(GoodNals) /\ v \in Seq(GoodNals) /\ n \in Seq(GoodNals) /\ sei \in GoodNals
        /\ BeforeSlices(u, v) /\ \A k \in 1..Len(n) : ~IsVcl(n[k])
    BY <1>5, <1>11
  <2>1. InsertAt(w, FirstSlice(w), sei) = u \o Append(n, sei) \o v
    BY <2>0, OneMoreNote
  <2>. HIDE DEF w
  <2>2. w = UnitsNow
    BY <1>13, Zenon DEF w
  <2>. QED  BY <2>1, <2>2, Zenon DEF more
<1>15. UnitsNow' = more
  BY <1>12, <1>14, Zenon
<1>16. ASSUME NEW k \in 1..Len(UnitsPut') PROVE Len(UnitsPut'[k]) < Values(size)
  <2>. DEFINE s == Append(n, sei)
  <2>1. s \in Seq(GoodNals) /\ UnitsPut' = s /\ more = u \o s \o v
    BY <1>5, <1>11, <1>12, <1>14
  <2>. HIDE DEF s
  <2>. DEFINE us == u \o s
  <2>. HIDE DEF us
  <2>2. us \in Seq(GoodNals) /\ Len(us) = Len(u) + Len(s)
        /\ \A i \in 1..Len(s) : us[Len(u) + i] = s[i]
    <3>1. us = u \o s => us \in Seq(GoodNals) /\ Len(us) = Len(u) + Len(s)
                         /\ \A i \in 1..Len(s) : us[Len(u) + i] = s[i]
      BY <1>11, <2>1, TwoParts
    <3>. QED  BY <3>1 DEF us
  <2>3. more = us \o v => Len(more) = Len(us) + Len(v) /\ \A i \in 1..Len(us) : more[i] = us[i]
    <3>1. us \in Seq(GoodNals) /\ v \in Seq(GoodNals)
      BY <1>11, <2>2
    <3>. HIDE DEF more
    <3>. QED  BY <3>1, TwoParts
  <2>4. more = us \o v
    BY <2>1 DEF us
  <2>5. Len(u) \in Nat /\ Len(s) \in Nat /\ Len(v) \in Nat /\ k \in 1..Len(s)
    BY <1>11, <2>1, LenProperties
  <2>6. Len(u) + k \in 1..Len(us) /\ Len(u) + k \in 1..Len(more)
    BY <2>2, <2>3, <2>4, <2>5
  <2>7. more[Len(u) + k] = s[k]
    BY <2>2, <2>3, <2>4, <2>5, <2>6
  <2>. QED  BY <1>10, <2>1, <2>6, <2>7
<1>17. SplitLengthPrefixed(origin.bytes, size).ok
  <2>1. CASE put = << >>
    BY <1>7, <2>1 DEF SampleInv, split
  <2>2. CASE put # << >>
    BY <2>2 DEF SampleInv
  <2>. QED  BY <2>1, <2>2
<1>18. put' # << >>
  <2>1. Len(put') = Len(put) + 1 /\ Len(put) \in Nat
    BY <1>2 DEF PutInv
  <2>. QED  BY <2>1
<1>19. /\ SplitLengthPrefixed(origin'.bytes, framing'.length_size).ok
       /\ packet' = Prefixed(UnitsNow', framing'.length_size)
       /\ \A k \in 1..Len(UnitsPut') : Len(UnitsPut'[k]) < Values(framing'.length_size)
  BY <1>2, <1>10, <1>15, <1>16, <1>17, Zenon
<1>. QED  BY <1>18, <1>19, Zenon DEF SampleInv

LEMMA SampleInit ==
    ASSUME Init PROVE SampleInv
<1>1. packet = origin.bytes /\ put = << >>
  BY DEF Init
<1>. QED  BY <1>1 DEF SampleInv

LEMMA SampleStep == PutInv /\ NalInv /\ SampleInv /\ [Next]_vars => SampleInv'
<1>. SUFFICES ASSUME PutInv, NalInv, SampleInv, [Next]_vars PROVE SampleInv'
  OBVIOUS
<1>0. PutInv' /\ NalInv'
  BY PutStep, NalStep
<1>1. ASSUME UNCHANGED calls PROVE SampleInv'
  <2>1. framing' = framing /\ packet' = packet /\ put' = put /\ origin' = origin /\ moved' = moved
    BY <1>1 DEF calls
  <2>2. UnitsNow' = UnitsNow /\ UnitsPut' = UnitsPut
    <3>1. UnitsNow' = UnitsNow
      BY <2>1, UnitsStay
    <3>2. UnitsPut' = UnitsPut
      BY <2>1 DEF UnitsPut, UnitOf, First
    <3>. QED  BY <3>1, <3>2
  <2>. QED  BY <2>1, <2>2, Zenon DEF SampleInv
<1>2. ASSUME NEW note \in Notes, Insert(note) PROVE SampleInv'
  <2>1. framing' = framing /\ moved' = moved
    BY <1>2 DEF Insert
  <2>2. CASE moved \/ framing.how # "LengthPrefixed"
    BY <2>1, <2>2 DEF SampleInv
  <2>. QED  BY <1>0, <1>2, <2>2, SamplePut
<1>3. ASSUME moved' = TRUE PROVE SampleInv'
  BY <1>3 DEF SampleInv
<1>4. (\E note \in Notes : InsertRefused(note)) => UNCHANGED calls
  BY DEF InsertRefused
<1>5. (\E size \in Widths : ReframeRefused(LengthPrefixed(size))) => UNCHANGED calls
  BY DEF ReframeRefused
<1>6. BackRefused \/ UNCHANGED vars => UNCHANGED calls
  BY DEF BackRefused, vars, calls
<1>7. Back \/ (\E size \in Widths : Reframe(LengthPrefixed(size))) => moved' = TRUE
  BY DEF Back, Reframe
<1>. QED  BY <1>1, <1>2, <1>3, <1>4, <1>5, <1>6, <1>7, Zenon
          DEF Next, InsertStep, ReframeStep

\* A sample of the encoder's that comes apart is its NAL units behind their
\* lengths.
LEMMA SampleSpelt ==
    ASSUME NEW p \in Packets, p.framing.how = "LengthPrefixed",
           p.framing.length_size \in 1..4, p.bytes \in Seq(Byte),
           NEW split, split = SplitLengthPrefixed(p.bytes, p.framing.length_size), split.ok
    PROVE  p.bytes = Prefixed(split.nals, p.framing.length_size)
<1>1. CASE Radix < 256
  BY <1>1, SpellingAssumption
<1>2. CASE Radix = 256
  <2>1. ASSUME NEW i \in 0..(Len(p.bytes) - 1) PROVE At(p.bytes, i) < Radix
    <3>1. At(p.bytes, i) \in Byte
      BY ByteAt
    <3>2. \A byte \in Byte : byte < 256
      BY DEF Byte
    <3>. QED  BY <1>2, <3>1, <3>2
  <2>. QED  BY <2>1, SplitSpelt
<1>. QED  BY <1>1, <1>2, RadixType

LEMMA SampleKept ==
    ASSUME PutInv, SampleInv, framing.how = "LengthPrefixed" PROVE BytesKept
<1>. SUFFICES ASSUME ~moved PROVE BytesKept
  BY Zenon DEF BytesKept
<1>. DEFINE size == framing.length_size
            b == origin.bytes
            u == Ahead0
            n == UnitsPut
            v == Behind0
<1>1. /\ framing \in PacketFramings /\ framing # Av1
      /\ size \in 1..4 /\ size \in Nat /\ framing = LengthPrefixed(size)
      /\ origin.framing = framing /\ b \in Seq(Byte) /\ origin \in Packets
  BY SampleFraming DEF PutInv
<1>2. Len(n) = Len(put)
  BY <1>1, SeisPut
<1>3. /\ u \in Seq(Seq(Byte)) /\ v \in Seq(Seq(Byte)) /\ n \in Seq(Seq(Byte))
      /\ First = u \o v
  <2>1. /\ Ahead0 \in Seq(GoodNals) /\ Behind0 \in Seq(GoodNals) /\ UnitsPut \in Seq(GoodNals)
        /\ First = Ahead0 \o Behind0
    BY <1>1, OriginNals, SeisPut
  <2>. QED  BY <2>1, GoodNalsAre
<1>4. ASSUME put # << >>
      PROVE  Kept(origin.bytes, packet, PlaceOf(framing, origin.bytes), UnitsPut)
  <2>. DEFINE split == SplitLengthPrefixed(b, size)
              pu == Prefixed(u, size)
              pn == Prefixed(n, size)
              pv == Prefixed(v, size)
  <2>1. /\ split.ok /\ packet = Prefixed(UnitsNow, size)
        /\ \A k \in 1..Len(n) : Len(n[k]) < Values(size)
    BY <1>4 DEF SampleInv
  <2>2. First = split.nals
    BY <1>1, <2>1 DEF First, UnitsOf, SampleUnits
  <2>3. b = Prefixed(First, size)
    <3>1. origin.framing.how = "LengthPrefixed" /\ origin.framing.length_size = size
      BY <1>1
    <3>. QED  BY <1>1, <2>1, <2>2, <3>1, SampleSpelt
  <2>4. PlaceOf(framing, b) = Len(pu)
    <3>1. UnitsOf(framing, b) = First /\ PictureAt(framing, First) = FirstAt
      BY <1>1, Zenon DEF First, FirstAt
    <3>2. PlaceOf(framing, b) = Len(Prefixed(SubSeq(First, 1, FirstAt - 1), size))
      BY <3>1 DEF PlaceOf, OffsetOf
    <3>. QED  BY <3>2, Zenon DEF Ahead0
  <2>5. UnitsOf(framing, pn) = n
    <3>1. SplitLengthPrefixed(pn, size) = Found(n)
      BY <1>1, <1>3, <2>1, SplitPrefixed
    <3>2. UnitsOf(framing, pn) = SampleUnits(SplitLengthPrefixed(pn, size))
      BY DEF UnitsOf
    <3>3. SampleUnits(Found(n)) = n
      BY DEF SampleUnits, Found
    <3>. QED  BY <3>1, <3>2, <3>3, Zenon
  <2>6. Joined(framing, UnitsPut) = pn
    BY DEF Joined
  <2>7. UnitsNow = u \o n \o v
    BY Zenon DEF UnitsNow
  <2>. HIDE DEF u, n, v, size, split
  <2>8. pu \in Seq(Byte) /\ pn \in Seq(Byte) /\ pv \in Seq(Byte)
    BY <1>1, <1>3, PrefixedConcat
  <2>9. b = pu \o pv
    <3>1. Prefixed(u \o v, size) = pu \o pv
      BY <1>1, <1>3, PrefixedConcat
    <3>. QED  BY <1>3, <2>3, <3>1
  <2>10. packet = pu \o pn \o pv
    <3>1. u \o n \in Seq(Seq(Byte))
      BY <1>3, ConcatProperties
    <3>2. Prefixed(u \o n, size) = pu \o pn
      BY <1>1, <1>3, PrefixedConcat
    <3>. DEFINE un == u \o n
    <3>. HIDE DEF un
    <3>3. un \in Seq(Seq(Byte)) /\ Prefixed(un, size) = pu \o pn
      BY <3>1, <3>2 DEF un
    <3>4. Prefixed(un \o v, size) = Prefixed(un, size) \o pv
      BY <1>1, <1>3, <3>3, PrefixedConcat
    <3>5. packet = Prefixed(un \o v, size)
      BY <2>1, <2>7, Zenon DEF un
    <3>. QED  BY <3>3, <3>4, <3>5, Zenon
  <2>. HIDE DEF pu, pn, pv
  <2>11. Slice(b, 0, Len(pu)) = pu /\ DropFront(b, Len(pu)) = pv /\ Len(pu) \in 0..Len(b)
    <3>. HIDE DEF b
    <3>1. b = pu \o pv => /\ Len(pu) \in 0..Len(b)
                          /\ pu = Slice(b, 0, Len(pu)) /\ pv = Slice(b, Len(pu), Len(b))
      BY <2>8, SlicesOfJoin, ConcatProperties
    <3>2. Len(pu) \in 0..Len(b) /\ pu = Slice(b, 0, Len(pu)) /\ pv = Slice(b, Len(pu), Len(b))
      BY <2>9, <3>1
    <3>3. DropFront(b, Len(pu)) = Slice(b, Len(pu), Len(b))
      BY <1>1, <3>2, CutBytes
    <3>. QED  BY <3>2, <3>3, Zenon
  <2>12. Joined(framing, UnitsPut) \in Seq(Byte)
    BY <2>6, <2>8
  <2>13. UnitsOf(framing, Joined(framing, UnitsPut)) = UnitsPut
    BY <2>5, <2>6, Zenon DEF n
  <2>14. packet = Slice(b, 0, Len(pu)) \o Joined(framing, UnitsPut) \o DropFront(b, Len(pu))
    BY <2>6, <2>10, <2>11, Zenon
  <2>. QED  BY <1>1, <2>4, <2>11, <2>12, <2>13, <2>14, Zenon DEF Kept, b
<1>5. Len(UnitsPut) = Len(put)
  BY <1>2
<1>. QED  BY <1>4, <1>5, KeptIs

\* Of the bytes the encoder wrote none is lost, changed or moved to the other side
\* of the payloads, in whatever framing, and between its two parts stand the units
\* of the payloads and nothing else (insert_sei_annexb, insert_sei_length_prefixed,
\* insert_metadata_obu: "copied through untouched").
THEOREM SpliceBytesKept == Spec => []BytesKept
<1>1. Init => AnnexbInv
  BY PutInit, AnnexbInit
<1>2. Spec => []AnnexbInv
  BY <1>1, SplicePutHolds, SpliceNalHolds, AnnexbStep, PTL DEF Spec
<1>3. Init => SampleInv
  BY SampleInit
<1>4. Spec => []SampleInv
  BY <1>3, SplicePutHolds, SpliceNalHolds, SampleStep, PTL DEF Spec
<1>5. PutInv /\ Av1Inv /\ AnnexbInv /\ SampleInv => BytesKept
  <2>. SUFFICES ASSUME PutInv, Av1Inv, AnnexbInv, SampleInv PROVE BytesKept
    OBVIOUS
  <2>1. framing = AnnexB \/ framing = Av1 \/ framing.how = "LengthPrefixed"
    BY FramingKinds DEF PutInv
  <2>. QED  BY <2>1, AnnexbKept, Av1Kept, SampleKept
<1>. QED  BY <1>2, <1>4, <1>5, SplicePutHolds, SpliceAv1Holds, PTL

\* The keyframe flags of a packet in NAL units are those of the list of its units.
LEMMA FlagsOfNals ==
    ASSUME NEW how \in PacketFramings, how # Av1, NEW b \in Seq(Byte),
           UnitsOf(how, b) \in Seq(CleanNals)
    PROVE  Flags(how, b) = NalFlags(UnitsOf(how, b))
<1>. DEFINE nals == UnitsOf(how, b)
            s == IF how = AnnexB THEN b ELSE StartCoded(nals)
            flags(a) == [k \in 1..Len(AccessUnits(a)) |-> AccessUnits(a)[k].keyframe]
<1>1. s \in Seq(Byte) /\ SplitNals(s) = nals
  <2>1. CASE how = AnnexB
    <3>1. how.how = "AnnexB"
      BY <2>1, FramingKinds
    <3>. QED  BY <2>1, <3>1 DEF UnitsOf
  <2>2. CASE how # AnnexB
    <3>. HIDE DEF nals
    <3>1. nals \in Seq(CleanNals)
      BY DEF nals
    <3>. QED  BY <2>2, <3>1, SplitStartCoded
  <2>. QED  BY <2>1, <2>2
<1>2. Flags(how, b) = flags(s)
  BY DEF Flags
<1>. HIDE DEF s, nals
<1>3. flags(s) = NalFlags(nals)
  BY <1>1, NalFlagsIs
<1>. QED  BY <1>2, <1>3, Zenon DEF nals

LEMMA NalCarriers ==
    ASSUME PutInv, NalInv, framing # Av1 PROVE CarriersKept
<1>. DEFINE u == Ahead0
            n == UnitsPut
            v == Behind0
<1>1. /\ u \in Seq(GoodNals) /\ v \in Seq(GoodNals) /\ n \in Seq(GoodNals)
      /\ First \in Seq(GoodNals) /\ First = u \o v
      /\ \A k \in 1..Len(u) : ~IsVcl(u[k])
      /\ \A k \in 1..Len(n) : ~IsVcl(n[k])
  BY OriginNals, SeisPut DEF BeforeSlices
<1>2. UnitsNow = u \o n \o v /\ UnitsNow \in Seq(GoodNals)
  BY NowAreNals DEF UnitsNow
<1>. HIDE DEF u, n, v
<1>3. First \in Seq(CleanNals) /\ UnitsNow \in Seq(CleanNals)
  BY <1>1, <1>2, GoodNalsAre
<1>4. /\ origin.framing \in PacketFramings /\ origin.framing # Av1 /\ origin.bytes \in Seq(Byte)
      /\ framing \in PacketFramings
  BY DEF PutInv
<1>5. Flags(origin.framing, origin.bytes) = NalFlags(First)
  <2>1. UnitsOf(origin.framing, origin.bytes) = First
    BY DEF First
  <2>. QED  BY <1>3, <1>4, <2>1, FlagsOfNals
<1>6. Flags(framing, packet) = NalFlags(UnitsNow)
  <2>1. packet \in Seq(Byte) /\ UnitsOf(framing, packet) = UnitsNow
    BY DEF NalInv
  <2>. QED  BY <1>3, <1>4, <2>1, FlagsOfNals
<1>7. NalFlags(u \o v) # << >> => NalFlags(u \o n \o v) = NalFlags(u \o v)
  BY <1>1, NalFlagsKept
<1>8. NalFlags(First) # << >> => NalFlags(UnitsNow) = NalFlags(First)
  BY <1>1, <1>2, <1>7, Zenon
<1>. QED  BY <1>5, <1>6, <1>8, Zenon DEF CarriersKept

LEMMA FlagsOfObus ==
    ASSUME NEW b \in Seq(Byte)
    PROVE  /\ ScanFails(b) => Flags(Av1, b) = << >>
           /\ ~ScanFails(b) => Flags(Av1, b) = FlagsOn(Ascending(Delimiters(b)), Headers(b))
<1>. DEFINE flags == [k \in 1..Len(TemporalUnits(b)) |-> TemporalUnits(b)[k].has_sequence_header]
<1>1. Flags(Av1, b) = IF ScanFails(b) THEN << >> ELSE flags
  BY DEF Flags
<1>2. ~ScanFails(b) => flags = FlagsOn(Ascending(Delimiters(b)), Headers(b))
  BY TemporalFlags
<1>. HIDE DEF flags
<1>. QED  BY <1>1, <1>2, Zenon

LEMMA MetadataBetween ==
    ASSUME PutInv, framing = Av1, NEW f, Closed(f), ObuBytes(f) = UnitsPut
    PROVE  \A q \in ObuStarts(f) : ObuAt(f, q).kind = OBU_METADATA
<1>. DEFINE a == Ascending(ObuStarts(f))
            units == ObuBytes(f)
<1>1. f \in Seq(Byte) /\ ~ScanFails(f)
  BY DEF Closed
<1>2. /\ Len(units) = Len(a)
      /\ \A k \in 1..Len(a) : SameObu(f, a[k], units[k], 0, a[k])
  BY <1>1, ObuBytesAre
<1>3. \A q \in ObuStarts(f) : \E k \in 1..Len(a) : a[k] = q
  BY <1>1, ObuListIs
<1>4. Len(UnitsPut) = Len(put) /\ \A k \in 1..Len(put) : UnitsPut[k] = UnitOf(put[k]) /\ put[k] \in Notes
  BY DEF PutInv, UnitsPut
<1>. HIDE DEF a, units
<1>5. units = UnitsPut
  BY DEF units
<1>6. ASSUME NEW q \in ObuStarts(f) PROVE ObuAt(f, q).kind = OBU_METADATA
  <2>1. PICK k \in 1..Len(a) : a[k] = q
    BY <1>3
  <2>2. ObuAt(f, q).kind = ObuAt(units[k], 0).kind
    BY <1>2, <2>1 DEF SameObu
  <2>3. k \in 1..Len(put)
    BY <1>2, <1>4, <1>5
  <2>4. units[k] = UnitOf(put[k]) /\ put[k] \in Notes
    BY <1>4, <1>5, <2>3
  <2>. DEFINE note == put[k]
  <2>. HIDE DEF note
  <2>5. note \in Notes /\ units[k] = UnitOf(note)
    BY <2>4 DEF note
  <2>6. /\ UnitOf(note) = WriteMetadata(note) /\ note \in Seq(Byte)
        /\ IsPrefix(Uuid, note) /\ MetadataFits(note)
    BY <2>5, MetadataPut
  <2>7. ObuAt(WriteMetadata(note), 0).kind = OBU_METADATA
    BY <2>6, MetadataRoundTrip
  <2>. QED  BY <2>2, <2>5, <2>6, <2>7
<1>. QED  BY <1>6

LEMMA Av1Carriers ==
    ASSUME PutInv, Av1Inv, framing = Av1 PROVE CarriersKept
<1>. DEFINE b == origin.bytes
            flags(w) == FlagsOn(Ascending(Delimiters(w)), Headers(w))
<1>1. /\ origin.framing = Av1 /\ b \in Seq(Byte) /\ origin \in Packets
      /\ packet \in Seq(Byte) /\ Len(packet) <= UsizeMax
  BY DEF PutInv, Av1Inv
<1>2. Len(b) <= UsizeMax
  BY <1>1, MemoryAssumption
<1>. SUFFICES ASSUME Flags(Av1, b) # << >> PROVE Flags(Av1, packet) = Flags(Av1, b)
  BY <1>1, Zenon DEF CarriersKept
<1>3. ~ScanFails(b) /\ Flags(Av1, b) = flags(b)
  BY <1>1, FlagsOfObus
<1>4. b # << >>
  <2>. SUFFICES ASSUME b = << >> PROVE FALSE
    OBVIOUS
  <2>1. Delimiters(b) = {} /\ Delimiters(b) \in SUBSET Nat /\ IsFiniteSet(Delimiters(b))
    BY <1>1, <1>3, DelimitersAre
  <2>2. flags(b) = << >>
    <3>. HIDE DEF b
    <3>. QED  BY <2>1, FlagsOfNone
  <2>. QED  BY <1>3, <2>2
<1>5. CASE packet = b
  BY <1>5
<1>6. CASE PutBetween(b, packet, UnitsPut)
  <2>. DEFINE f == FlattenSeq(UnitsPut)
  <2>1. PICK x, y : /\ ObuParts(b, x, y) /\ ObuParts(packet, x \o f, y)
                    /\ Closed(f) /\ ObuBytes(f) = UnitsPut
    BY <1>6 DEF PutBetween
  <2>. HIDE DEF f, b
  <2>2. \A q \in ObuStarts(f) : ObuAt(f, q).kind = OBU_METADATA
    BY <2>1, MetadataBetween
  <2>3. flags(b) = flags(packet)
    BY <1>1, <1>2, <1>4, <2>1, <2>2, ObuFlagsKept
  <2>4. ~ScanFails(packet)
    BY <1>1, <2>1, InsertAtParts
  <2>5. Flags(Av1, packet) = flags(packet)
    BY <1>1, <2>4, FlagsOfObus
  <2>. QED  BY <1>3, <2>3, <2>5, Zenon
<1>. QED  BY <1>5, <1>6 DEF Av1Inv

\* A payload put into a packet makes no access unit or temporal unit of its own and
\* cuts none in two: a packet has as many as the encoder's, with the same of them
\* keyframes, in whatever framing (insert_sei_annexb, insert_sei_length_prefixed,
\* insert_metadata_obu, reframe).
THEOREM SpliceCarriersKept == Spec => []CarriersKept
<1>1. PutInv /\ NalInv /\ Av1Inv => CarriersKept
  BY NalCarriers, Av1Carriers
<1>. QED  BY <1>1, SplicePutHolds, SpliceNalHolds, SpliceAv1Holds, PTL

-----------------------------------------------------------------------------
\* The loops that cut a packet into NAL units, access units and temporal units,
\* and a packet twice over, return what Annexb, H26x and Obu say of its bytes.
THEOREM SpliceUnitLoops == Spec => []UnitLoops
<1>1. ASSUME PutInv, NalInv, Av1Inv PROVE UnitLoops
  <2>. DEFINE twice == packet \o packet
  <2>1. framing \in PacketFramings /\ packet \in Seq(Byte)
    BY <1>1 DEF PutInv, NalInv, Av1Inv
  <2>2. twice \in Seq(Byte)
    BY <2>1, ConcatProperties
  <2>. HIDE DEF twice
  <2>. DEFINE annexb == IF framing = AnnexB THEN twice ELSE StartCoded(UnitsOf(framing, twice))
  <2>3. CASE framing = Av1
    <3>1. ~ScanFails(twice) => TemporalUnitsLoop(twice) = TemporalUnits(twice)
      BY <2>2, TemporalUnitsLoopIs
    <3>. QED  BY <2>3, <3>1, Zenon DEF UnitLoops, twice
  <2>4. CASE framing # Av1
    <3>1. annexb \in Seq(Byte)
      <4>1. UnitsOf(framing, twice) \in Seq(Seq(Byte))
        BY <2>1, <2>2, <2>4, ReadsUnits
      <4>2. StartCoded(UnitsOf(framing, twice)) \in Seq(Byte)
        BY <4>1, StartCodedConcat
      <4>. QED  BY <2>2, <4>2
    <3>. HIDE DEF annexb
    <3>2. ScanLoop(annexb) = ScanNals(annexb) /\ AccessUnitsLoop(annexb) = AccessUnits(annexb)
      BY <3>1, ScanLoopIs, AccessUnitsLoopIs
    <3>. QED  BY <2>4, <3>2, Zenon DEF UnitLoops, twice, annexb
  <2>. QED  BY <2>3, <2>4
<1>. QED  BY <1>1, SplicePutHolds, SpliceNalHolds, SpliceAv1Holds, PTL
=============================================================================
