------------------------------- MODULE Track --------------------------------
(***************************************************************************)
(* An H.264 stream on its way into a container and out of it again: its    *)
(* out-of-band header and one of its packets. A muxer builds a record out  *)
(* of the parameter sets and writes samples with lengths of four bytes; a  *)
(* reader has the record and nothing else to go by; a record may reach it  *)
(* cut short. The calls are those of config.rs, in any order.              *)
(***************************************************************************)
EXTENDS Framing, Records

CONSTANTS
    Tracks,     \* the streams there are, as an encoder or a container has them
    Notes,      \* the payloads a caller may put in
    MaxPut      \* bound of the model: how many are put in

\* The parameter sets a reader ends up with who has this header.
SetsIn(how, extradata) ==
    IF how = AnnexB THEN ParseParameterSets(extradata)
    ELSE ParseParameterSets(AvccToAnnexbExtradata(extradata).bytes)

\* The bytes of a length in such a packet, or of the longest there is.
WidthOf(how) == IF how = AnnexB THEN 4 ELSE how.length_size

\* A track has its record whole, one that declares the width of its samples,
\* and extradata that is Annex B does not look like a record; its NAL units are
\* as an encoder writes them and fit the lengths before them. They and the SEIs
\* of the notes have less than the 2^32 bytes at which a length of four loses its
\* upper digits.
ASSUME TrackAssumption ==
    /\ Codec = "H264"
    /\ \A track \in Tracks :
        /\ track.framing \in Framings /\ track.framing.how # "Av1"
        /\ SetsIn(track.framing, track.header) = [sps |-> track.sps, pps |-> track.pps]
        /\ track.framing # AnnexB =>
                /\ Len(track.header) >= LeastRecord
                /\ DeclaredLengthSize(track.header) = Answer(track.framing)
        /\ track.framing = AnnexB => ~ConfigurationRecord(track.header)
        /\ track.header \in Seq(Byte) /\ track.nals \in Seq(Seq(Byte))
        /\ track.sps \in Seq(Seq(Byte)) /\ track.pps \in Seq(Seq(Byte))
        /\ track.formats \in Seq(Nat)
        /\ \A k \in 1..Len(track.nals) :
                /\ CleanNal(track.nals[k])
                /\ Len(track.nals[k]) < Values(WidthOf(track.framing))
    /\ Notes \subseteq Seq(Byte)
    /\ \A note \in Notes : IsPrefix(Uuid, note) /\ Len(WriteUserDataAt(note, 1)) < Values(4)
    /\ MaxPut \in Nat

VARIABLES
    header,     \* the stream's extradata: Annex B, or the record of its track
    packet,     \* one packet of the stream
    framing,    \* history: how whoever wrote the packet framed it
    made,       \* history: whether the header was given, built here, or cut
    put,        \* history: the payloads put into the packet, in order
    origin      \* history: the stream as it was, with the sets of its header,
                \* the formats its first SPS was made with and the NAL units of
                \* its packet

vars == <<header, packet, framing, made, put, origin>>

Spelled(how, nals) == IF how = AnnexB THEN StartCoded(nals) ELSE Prefixed(nals, how.length_size)

Init ==
    /\ origin \in Tracks
    /\ header = origin.header /\ framing = origin.framing
    /\ packet = Spelled(framing, origin.nals)
    /\ made = "given" /\ put = << >>

-----------------------------------------------------------------------------
\* Into a container: build_avcc of parse_parameter_sets, and reframe.
Muxed ==
    LET sets   == ParseParameterSets(header)
        avcc   == BuildAvcc(sets.sps, sets.pps)
        sample == Reframed(LengthPrefixed(4), packet)
    IN  [ok |-> avcc.ok /\ sample.ok, header |-> avcc.bytes, packet |-> sample.bytes]

Mux ==
    /\ framing = AnnexB
    /\ LET muxed == Muxed
       IN  muxed.ok /\ header' = muxed.header /\ packet' = muxed.packet
    /\ framing' = LengthPrefixed(4)
    /\ made' = "built"
    /\ UNCHANGED <<put, origin>>

MuxRefused ==
    /\ framing = AnnexB /\ ~Muxed.ok
    /\ UNCHANGED vars

\* Out of it: avcc_to_annexb_extradata, and length_prefixed_to_annexb with the
\* width framing_of_entry answers.
Demuxed ==
    LET asked  == FramingOfEntry("avc1", header)
        annexb == AvccToAnnexbExtradata(header)
        unit   == LengthPrefixedToAnnexb(packet, asked.framing.length_size)
    IN  [ok |-> asked.ok /\ annexb.ok /\ unit.ok, header |-> annexb.bytes, packet |-> unit.bytes]

Demux ==
    /\ framing # AnnexB
    /\ LET demuxed == Demuxed
       IN  demuxed.ok /\ header' = demuxed.header /\ packet' = demuxed.packet
    /\ framing' = AnnexB
    /\ made' = "given"
    /\ UNCHANGED <<put, origin>>

DemuxRefused ==
    /\ framing # AnnexB /\ ~Demuxed.ok
    /\ UNCHANGED vars

\* A pad asks by the name of the codec, a track by its sample entry.
Asked == IF framing = AnnexB THEN FramingOf("h264", header) ELSE FramingOfEntry("avc1", header)

Inserted(note) == IF Asked.ok THEN InsertInto(Asked.framing, packet, note) ELSE Err

Insert(note) ==
    /\ Len(put) < MaxPut
    /\ LET inserted == Inserted(note)
       IN  inserted.ok /\ packet' = inserted.bytes
    /\ put' = Append(put, note)
    /\ UNCHANGED <<header, framing, made, origin>>

InsertRefused(note) ==
    /\ ~Inserted(note).ok
    /\ UNCHANGED vars

\* A fault: the record reaches its reader without its last bytes.
Cut(length) ==
    /\ framing # AnnexB /\ made # "cut"
    /\ header' = Slice(header, 0, length)
    /\ made' = "cut"
    /\ UNCHANGED <<packet, framing, put, origin>>

Next ==
    \/ Mux \/ MuxRefused \/ Demux \/ DemuxRefused
    \/ \E note \in Notes : Insert(note) \/ InsertRefused(note)
    \/ \E length \in 0..(Len(header) - 1) : Cut(length)

Spec == Init /\ [][Next]_vars

-----------------------------------------------------------------------------
\* Properties.

SetsNow  == SetsIn(framing, header)
SetsThen == [sps |-> origin.sps, pps |-> origin.pps]

\* avcc_to_annexb_extradata is "the inverse of build_avcc": through any number
\* of conversions the header has the SPS and the PPS it came with, byte for
\* byte and in order, and no others. (config.rs, extradata_round_trips_through_the_avcc,
\* a_high_profile_record_keeps_its_sets_past_the_extension_bytes.)
SetsKept == made # "cut" => SetsNow = SetsThen

\* A record cut anywhere is refused, or has all its sets before the cut: a
\* reader never goes on with some of them.
\* (config.rs, a_truncated_record_is_refused_not_panicked.)
CutIsRefused == made = "cut" /\ AvccToAnnexbExtradata(header).ok => SetsNow = SetsThen

\* framing_of_entry answers with the width the samples were written with or,
\* when the record was cut before it, not at all; framing_of answers with that
\* width too, or takes a record too short to be one for Annex B. Neither ever
\* answers with another width. (config.rs,
\* a_record_a_sample_entry_promised_and_did_not_deliver_is_an_error and
\* the_two_ways_of_asking_differ_where_a_track_needs_them_to.)
WidthIsDeclared ==
    framing # AnnexB =>
        /\ \A kind \in Entries :
            LET entry == FramingOfEntry(kind, header)
            IN  IF made = "cut" /\ Len(header) <= LengthSizeAt THEN ~entry.ok
                ELSE entry = Answer(framing)
        /\ \A name \in Names :
            LET pad == FramingOf(name, header)
            IN  IF made = "cut" /\ Len(header) < LeastRecord THEN pad = Answer(AnnexB)
                ELSE pad = Answer(framing)

NalsOf(how, b) ==
    IF how = AnnexB THEN SplitNals(b) ELSE SplitLengthPrefixed(b, how.length_size).nals

\* Who knows the header and a packet and nothing else reads the NAL units the
\* encoder wrote, and the payloads put in right before the first slice,
\* whichever way the packet has gone between them.
ReadsUnderHeader ==
    LET first == FirstSlice(origin.nals)
        notes == [k \in 1..Len(put) |-> WriteUserDataAt(put[k], 1)]
    IN  /\ made # "cut" => Asked.ok
        /\ Asked.ok => NalsOf(Asked.framing, packet) =
                SubSeq(origin.nals, 1, first - 1) \o notes
                    \o SubSeq(origin.nals, first, Len(origin.nals))

\* What a header says of the stream without its SPS being read is what the
\* first SPS says: profile and level "in either spelling" (sps.rs), the codec
\* string made of them, and in a record built here the chroma format and the bit
\* depths the SPS was written with (tests/reference.rs,
\* the_record_ffmpeg_writes_is_the_record_this_builds).
HeaderSaysTheSps ==
    made # "cut" /\ origin.sps # << >> =>
        LET sps == origin.sps[1]
            extension == DropFront(header, Len(header) - 4)
        IN  /\ ProfileLevel(header) = ProfileAndLevel(sps)
            /\ framing # AnnexB => AvcCodec(header) = Slice(sps, 1, 4)
            /\ framing # AnnexB => AvcCodecFrom(At(sps, 1), At(sps, 3), header) = Slice(sps, 1, 4)
            /\ made = "built" /\ origin.formats # << >> =>
                extension = [k \in 1..3 |-> origin.formats[k] + (IF k = 1 THEN 252 ELSE 248)] \o <<0>>
=============================================================================
