------------------------------- MODULE Splice -------------------------------
(***************************************************************************)
(* One packet on its way through programs that put payloads into it and    *)
(* hand it on in the other framing: Framing::insert, Framing::reframe and  *)
(* length_prefixed_to_annexb, called in any order on what the call before  *)
(* returned, with the framing framing_of or framing_of_entry answers. A    *)
(* call that is an Err leaves the caller with the packet it had.           *)
(***************************************************************************)
EXTENDS Framing, Loops

CONSTANTS
    Packets,    \* the packets an encoder may hand over, with their framing
    Widths,     \* the lengths of the samples they may be reframed into
    Notes,      \* the payloads a caller may put in
    MaxPut      \* bound of the model: how many are put in

PacketFramings == {AnnexB, Av1} \cup {LengthPrefixed(size) : size \in 1..4}

-----------------------------------------------------------------------------
\* What a packet holds, for a reader who takes it apart unit by unit: nothing,
\* when it does not come apart.

SampleUnits(split) == IF split.ok THEN split.nals ELSE << >>

ObuBytes(b) ==
    LET slices(starts) ==
            [k \in 1..Len(starts) |-> Slice(b, starts[k], ObuAt(b, starts[k]).end)]
    IN  IF ScanFails(b) THEN << >> ELSE slices(Ascending(ObuStarts(b)))

UnitsOf(how, b) ==
    CASE how.how = "AnnexB"         -> SplitNals(b)
      [] how.how = "LengthPrefixed" -> SampleUnits(SplitLengthPrefixed(b, how.length_size))
      [] how.how = "Av1"            -> ObuBytes(b)

\* The unit the picture begins with: a slice, a frame, or in AV1 the delimiter
\* of the next temporal unit. One past the last if there is none.
IsPicture(how, units, k) ==
    IF how = Av1
    THEN \/ ObuAt(units[k], 0).kind \in FRAME_OBUS
         \/ k > 1 /\ ObuAt(units[k], 0).kind = OBU_TEMPORAL_DELIMITER
    ELSE IsVcl(units[k])

PictureAt(how, units) ==
    Min({k \in 1..Len(units) : IsPicture(how, units, k)} \cup {Len(units) + 1})

\* What is asked of the packets and the payloads. The NAL units of a sample
\* are as an encoder writes them, a NAL unit with or without the payload has
\* less than 2^32 bytes: put_length casts the rest of a longer length away.
Short(nal) == Len(nal) < Values(4)

Encoded(units) == \A k \in 1..Len(units) : CleanNal(units[k]) /\ Short(units[k])

\* In AV1 only the last OBU of the picture may go without a size: what is put
\* behind an OBU without one becomes part of it.
SizedBeforePicture(units) ==
    \A k \in 1..Len(units) : k < PictureAt(Av1, units) => ObuAt(units[k], 0).sized

ASSUME PacketsAssumption ==
    /\ Packets \subseteq [framing : PacketFramings, bytes : Seq(Byte)]
    /\ \A p \in Packets : p.framing # Av1 => Encoded(UnitsOf(p.framing, p.bytes))
    /\ \A p \in Packets : p.framing = Av1 => SizedBeforePicture(UnitsOf(Av1, p.bytes))

ASSUME NotesAssumption ==
    /\ Widths \subseteq Nat
    /\ Notes \subseteq Seq(Byte) /\ \A note \in Notes : IsPrefix(Uuid, note)
    /\ \A note \in Notes, id \in 1..7 : Short(WriteUserDataAt(note, id))
    /\ \A note \in Notes : MetadataFits(note)
    /\ MaxPut \in Nat

\* A packet fits memory with all that is put into it.
ASSUME MemoryAssumption ==
    \A p \in Packets : p.framing = Av1 =>
        /\ Len(p.bytes) <= UsizeMax
        /\ \A note \in Notes : Len(p.bytes) + MaxPut * Len(WriteMetadata(note)) <= UsizeMax

\* A length has one spelling. With fewer values than a byte has, that is asked of
\* the samples that come apart.
ASSUME SpellingAssumption ==
    Radix < 256 => \A p \in Packets :
        LET split == SplitLengthPrefixed(p.bytes, p.framing.length_size)
        IN  p.framing.how = "LengthPrefixed" /\ split.ok =>
                p.bytes = Prefixed(split.nals, p.framing.length_size)

VARIABLES
    framing,    \* the Framing of the packet
    packet,     \* its bytes
    origin,     \* history: the packet the encoder handed over
    put,        \* history: the payloads put in, in order
    moved,      \* history: the packet has been reframed
    seen        \* history: what a reader finds who takes the packet apart

calls == <<framing, packet, origin, put, moved>>
vars  == <<framing, packet, origin, put, moved, seen>>

-----------------------------------------------------------------------------
\* A unit as Carrier has it: a payload of the caller's, or bytes of its own.
Unit(how, bytes) ==
    LET unit(mine) == IF Len(mine) = 1 THEN [note |-> TRUE,  bytes |-> mine[1]]
                                       ELSE [note |-> FALSE, bytes |-> bytes]
    IN  unit(PayloadsInNal(how, bytes))

Seen(how, b) ==
    LET parted(units, at) ==
            [before  |-> [k \in 1..(at - 1) |-> Unit(how, units[k])],
             picture |-> [k \in 1..(Len(units) - at + 1) |-> Unit(how, units[at + k - 1])]]
        parts(units) == parted(units, PictureAt(how, units))
    IN  parts(UnitsOf(how, b))

-----------------------------------------------------------------------------
\* The stream's out-of-band header: nothing, or a record as the standard has it,
\* no longer than it has to be, with lengthSizeMinusOne in the byte after level or
\* in the last but one. A program asks it for the framing, by the name of the
\* codec or by the kind of the sample entry.
Header(how) ==
    LET length == IF Codec = "H264" THEN 7 ELSE 23
        field  == IF Codec = "H264" THEN 5 ELSE 22
    IN  IF how.how # "LengthPrefixed" THEN << >>
        ELSE [k \in 1..length |-> IF k = 1 THEN 1
                                  ELSE IF k = field THEN 252 + (how.length_size - 1) ELSE 0]

AskedAsPad(how) ==
    FramingOf(IF how = Av1 THEN "av1" ELSE IF Codec = "H264" THEN "h264" ELSE "hevc",
              Header(how)).framing

AskedAsTrack(how) ==
    FramingOfEntry(IF Codec = "H264" THEN "avc1" ELSE "hvc1", Header(how)).framing

-----------------------------------------------------------------------------
Init ==
    /\ origin \in Packets
    /\ framing = origin.framing /\ packet = origin.bytes
    /\ put = << >> /\ moved = FALSE
    /\ seen = Seen(framing, packet)

-----------------------------------------------------------------------------
Insert(note) ==
    /\ Len(put) < MaxPut
    /\ LET spliced == InsertInto(AskedAsPad(framing), packet, note)
       IN  spliced.ok /\ packet' = spliced.bytes
    /\ put' = Append(put, note)
    /\ UNCHANGED <<framing, origin, moved>>

InsertRefused(note) ==
    /\ ~InsertInto(AskedAsPad(framing), packet, note).ok
    /\ UNCHANGED calls

\* Framing::reframe of a start-coded packet, and length_prefixed_to_annexb of
\* a sample.
Reframe(to) ==
    /\ framing = AnnexB
    /\ LET reframed == Reframed(to, packet)
       IN  reframed.ok /\ packet' = reframed.bytes
    /\ framing' = to
    /\ moved' = TRUE
    /\ UNCHANGED <<origin, put>>

ReframeRefused(to) ==
    /\ framing = AnnexB
    /\ ~Reframed(to, packet).ok
    /\ UNCHANGED calls

Back ==
    /\ framing.how = "LengthPrefixed"
    /\ LET annexb == LengthPrefixedToAnnexb(packet, AskedAsTrack(framing).length_size)
       IN  annexb.ok /\ packet' = annexb.bytes
    /\ framing' = AnnexB
    /\ moved' = TRUE
    /\ UNCHANGED <<origin, put>>

BackRefused ==
    /\ framing.how = "LengthPrefixed"
    /\ ~LengthPrefixedToAnnexb(packet, AskedAsTrack(framing).length_size).ok
    /\ UNCHANGED calls

InsertStep  == \E note \in Notes : Insert(note) \/ InsertRefused(note)
ReframeStep == \E size \in Widths :
                   Reframe(LengthPrefixed(size)) \/ ReframeRefused(LengthPrefixed(size))

Next ==
    /\ InsertStep \/ ReframeStep \/ Back \/ BackRefused
    /\ seen' = Seen(framing', packet')

Spec == Init /\ [][Next]_vars

-----------------------------------------------------------------------------
\* Properties.

C == INSTANCE Carrier WITH
        Bytes   <- Seq(Byte),
        before  <- seen.before,
        picture <- seen.picture

\* Every insert adds one unit, that payload, right before the picture and
\* behind what was there, and no call changes, loses or reorders any other:
\* config.rs, "Everything else in the packet is copied through exactly as the
\* encoder wrote it", for all framings and through every change of framing.
ImplementsCarrier == C!Spec

\* Framing::payloads gives back the packet's own payloads and those put in, in
\* order and byte for byte, and nothing else.
\* (tests/reference.rs, payloads_woven_into_a_stream_read_back_byte_for_byte.)
PayloadsOf(units) ==
    FlattenSeq([k \in 1..Len(units) |-> PayloadsInNal(framing, units[k])])
ReadsBack ==
    LET first == UnitsOf(origin.framing, origin.bytes)
        at    == PictureAt(origin.framing, first)
    IN  PayloadsIn(framing, packet)
            = PayloadsOf(SubSeq(first, 1, at - 1)) \o put \o PayloadsOf(SubSeq(first, at, Len(first)))

\* The offset of the unit that is the k-th of the origin: a NAL's is that of
\* its start code with its zero_byte, behind the padding before it.
OffsetOf(how, b, k) ==
    CASE how.how = "AnnexB" ->
            IF k > Len(ScanNals(b)) THEN Len(b) ELSE ScanNals(b)[k].code
      [] how.how = "LengthPrefixed" ->
            Len(Prefixed(SubSeq(UnitsOf(how, b), 1, k - 1), how.length_size))
      [] how.how = "Av1" ->
            IF k > Cardinality(ObuStarts(b)) THEN Len(b) ELSE Ascending(ObuStarts(b))[k]

\* Units one after another, with nothing between them.
Joined(how, units) ==
    CASE how.how = "AnnexB"         -> StartCoded(units)
      [] how.how = "LengthPrefixed" -> Prefixed(units, how.length_size)
      [] how.how = "Av1"            -> FlattenSeq(units)

\* Every byte of the encoder's is still there, in its order and on its side of
\* the payloads, and between its two parts there is a unit for each payload and
\* no padding: that stays with what it trailed (sei.rs, "copied through
\* untouched").
BytesKept ==
    LET b  == origin.bytes
        at == OffsetOf(framing, b, PictureAt(framing, UnitsOf(framing, b)))
        middle == Slice(packet, at, Len(packet) - (Len(b) - at))
        units  == UnitsOf(framing, middle)
    IN  ~moved /\ put # << >> =>
            /\ packet = Slice(b, 0, at) \o middle \o DropFront(b, at)
            /\ Len(units) = Len(put)
            /\ middle = Joined(framing, units)

\* The keyframe flags of the access units or temporal units of a packet.
Flags(how, b) ==
    LET units  == AccessUnits(IF how = AnnexB THEN b ELSE StartCoded(UnitsOf(how, b)))
        tunits == TemporalUnits(b)
    IN  IF how = Av1
        THEN IF ScanFails(b) THEN << >>
             ELSE [k \in 1..Len(tunits) |-> tunits[k].has_sequence_header]
        ELSE [k \in 1..Len(units) |-> units[k].keyframe]

\* A payload never makes a carrier of its own or cuts one in two: the packet
\* has the carriers it had, with the same keyframe flags.
\* (tests/reference.rs, weaving_adds_nothing_but_the_payloads.)
CarriersKept ==
    LET flags == Flags(origin.framing, origin.bytes)
    IN  flags # << >> => Flags(framing, packet) = flags

\* The loops that cut bytes into units return what Annexb, H26x and Obu say, of
\* every packet a call returns: the start codes found one after another are all
\* there are, and seen_slice, reset and set again along the way, comes to the
\* same units as looking at the whole packet at once. A second picture after
\* the first, as two packets make it, included.
UnitLoops ==
    LET twice == packet \o packet
    IN  IF framing = Av1
        THEN ~ScanFails(twice) => TemporalUnitsLoop(twice) = TemporalUnits(twice)
        ELSE LET annexb == IF framing = AnnexB THEN twice
                           ELSE StartCoded(UnitsOf(framing, twice))
             IN  /\ ScanLoop(annexb) = ScanNals(annexb)
                 /\ AccessUnitsLoop(annexb) = AccessUnits(annexb)

\* An SEI stands before the first slice and repeats its temporal id, whether
\* the packet was framed by start codes or by lengths when it was put in.
TemporalIdRepeats ==
    LET nals  == UnitsOf(framing, packet)
        first == PictureAt(framing, nals)
        id    == IF first > Len(nals) THEN 1 ELSE TemporalIdPlus1(nals[first])
    IN  framing # Av1 =>
            \A k \in (first - Len(put))..(first - 1) : TemporalIdPlus1(nals[k]) = id
=============================================================================
