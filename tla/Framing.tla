------------------------------ MODULE Framing ------------------------------
(***************************************************************************)
(* config.rs, Framing: how the packets of a stream are framed, a payload   *)
(* put into one packet and read out of it, and the parts of sei.rs that    *)
(* work on length-prefixed samples.                                        *)
(***************************************************************************)
EXTENDS Sei, LengthPrefix, Obu

\* The values of Framing. The codec is the constant of H26x.
AnnexB               == [how |-> "AnnexB", length_size |-> 0]
LengthPrefixed(size) == [how |-> "LengthPrefixed", length_size |-> size]
Av1                  == [how |-> "Av1", length_size |-> 0]

Framings == [how : {"AnnexB", "LengthPrefixed", "Av1"}, length_size : Nat]

-----------------------------------------------------------------------------
\* Which framing a stream has. A record opens with its version, 1, and declares
\* the width of a length at a place that depends on the codec.

LengthSizeAt == IF Codec = "H264" THEN 4 ELSE 21
LeastRecord  == IF Codec = "H264" THEN 7 ELSE 23

Declared(byte) == (byte % 4) + 1

\* avcc_length_size, hvcc_length_size: too short a record is read as four.
RecordLengthSize(record) ==
    IF Len(record) > LengthSizeAt THEN Declared(At(record, LengthSizeAt)) ELSE 4

\* configuration_record
ConfigurationRecord(extradata) ==
    Len(extradata) >= LeastRecord /\ At(extradata, 0) = 1

\* What a call that answers with a framing returns.
Answer(framing) == [ok |-> TRUE, framing |-> framing]
NoAnswer        == [ok |-> FALSE, framing |-> AnnexB]

\* framing_of's names of the codec and the kinds of its sample entries, and
\* those of AV1. Any other name is an UnknownCodec.
Names   == IF Codec = "H264" THEN {"h264", "avc1", "avc3"} ELSE {"hevc", "h265", "hvc1", "hev1"}
Entries == IF Codec = "H264" THEN {"avc1", "avc3"} ELSE {"hvc1", "hev1"}
Av1Names == {"av1", "av01"}

\* framing_of: a guess, from the extradata.
FramingOf(name, extradata) ==
    CASE name \in Names /\ ConfigurationRecord(extradata) ->
            Answer(LengthPrefixed(RecordLengthSize(extradata)))
      [] name \in Names /\ ~ConfigurationRecord(extradata) -> Answer(AnnexB)
      [] name \in Av1Names                                 -> Answer(Av1)
      [] OTHER                                             -> NoAnswer

\* A slip: the field that is not there read as framing_of reads it.
SlipDefaultsToFour(record) ==
    IF record = << >> \/ At(record, 0) # 1 THEN NoAnswer
    ELSE Answer(LengthPrefixed(RecordLengthSize(record)))

\* declared_length_size: what does not open with version 1 or ends before the
\* field declares nothing.
DeclaredLengthSize(record) ==
    IF Len(record) <= LengthSizeAt \/ At(record, 0) # 1 THEN NoAnswer
    ELSE Answer(LengthPrefixed(Declared(At(record, LengthSizeAt))))

\* framing_of_entry: the entry's word, and its record's.
FramingOfEntry(kind, config) ==
    CASE kind \in Entries -> DeclaredLengthSize(config)
      [] kind = "av01"    -> Answer(Av1)
      [] OTHER            -> NoAnswer

-----------------------------------------------------------------------------
\* One packet.

\* The first slice of a list of NAL units, or one past the last of them.
FirstSlice(nals) ==
    Min({k \in 1..Len(nals) : IsVcl(nals[k])} \cup {Len(nals) + 1})

\* insert_sei_length_prefixed
InsertSeiLengthPrefixed(split, length_size, sei) ==
    IF ~split.ok THEN Err
    ELSE SampleOf(InsertAt(split.nals, FirstSlice(split.nals), sei), length_size)

\* A slip: an SEI always of the base layer.
SlipBaseLayer(units) == 1

\* The temporal id an SEI has to repeat: that of the first access unit, or of
\* the first slice of a sample.
UnitsTemporalId(units) == IF units = << >> THEN 1 ELSE units[1].temporal_id_plus1
NalsTemporalId(nals) ==
    LET first == FirstSlice(nals)
    IN  IF first > Len(nals) THEN 1 ELSE TemporalIdPlus1(nals[first])

\* Framing::insert
InsertInto(framing, packet, payload) ==
    LET sample(split) ==
            InsertSeiLengthPrefixed(split, framing.length_size,
                WriteUserDataAt(payload, NalsTemporalId(split.nals)))
    IN  CASE framing.how = "AnnexB" ->
               InsertSeiAnnexb(packet,
                   WriteUserDataAt(payload, UnitsTemporalId(AccessUnits(packet))))
          [] framing.how = "LengthPrefixed" ->
               sample(SplitLengthPrefixed(packet, framing.length_size))
          [] framing.how = "Av1" -> InsertMetadataObu(packet, WriteMetadata(payload))

\* user_data_length_prefixed
UserDataLengthPrefixed(sample, length_size) ==
    LET payloads(split) ==
            IF split.ok
            THEN FlattenSeq([k \in 1..Len(split.nals) |-> UserDataInNal(split.nals[k])])
            ELSE << >>
    IN  payloads(SplitLengthPrefixed(sample, length_size))

\* Framing::payloads: a packet that does not parse has none.
PayloadsIn(framing, packet) ==
    CASE framing.how = "AnnexB"         -> UserDataAnnexb(packet)
      [] framing.how = "LengthPrefixed" -> UserDataLengthPrefixed(packet, framing.length_size)
      [] framing.how = "Av1"            -> UserDataObu(packet)

\* Framing::payloads_in_nal
PayloadsInNal(framing, nal) ==
    IF framing = Av1 THEN UserDataObu(nal) ELSE UserDataInNal(nal)

\* Framing::reframe, of an Annex B access unit.
Reframed(framing, annexb) ==
    IF framing.how = "LengthPrefixed" THEN AnnexbToLengthPrefixed(annexb, framing.length_size)
    ELSE Ok(annexb)
=============================================================================
