------------------------------ MODULE Records -------------------------------
(***************************************************************************)
(* config.rs and codec_string.rs: the H.264 decoder configuration record   *)
(* (avcC) built out of parameter sets, the parameter sets taken out of it, *)
(* and what it says of the stream.                                         *)
(***************************************************************************)
EXTENDS Sps, LengthPrefix

CONSTANTS
    SpsCounts,  \* how many values the count of SPS has, 32 in the code
    PpsCounts   \* how many the count of PPS has, 256 in the code

\* The count of SPS is the low bits of a byte, so it has a power of two values.
ASSUME CountAssumption ==
    /\ SpsCounts \in 2..32 /\ 256 % SpsCounts = 0
    /\ PpsCounts \in 2..256

BASELINE_FAMILY == {66, 77, 88}

\* The count of SPS as a byte, its other bits set.
PutSpsCount(n)     == (256 - SpsCounts) + n
SpsCountOf(byte)   == byte % SpsCounts

\* A set of a record stands behind a length of two bytes.
SET_LENGTH == 2
SetFits(set) == Len(set) < Values(SET_LENGTH)

\* The NAL units of one type, in order.
SetsOfType(nals, kind) ==
    FlattenSeq([k \in 1..Len(nals) |->
        IF nals[k] # << >> /\ nals[k][1] % 32 = kind THEN <<nals[k]>> ELSE << >>])

\* parse_parameter_sets
ParseParameterSets(annexb) ==
    LET sets(nals) == [sps |-> SetsOfType(nals, H264_SPS), pps |-> SetsOfType(nals, H264_PPS)]
    IN  sets(SplitNals(annexb))

-----------------------------------------------------------------------------
\* A slip: the count of PPS not looked at.
SlipManyPps(sps, pps) ==
    /\ sps # << >> /\ Len(sps[1]) >= 4
    /\ pps # << >>
    /\ Len(sps) < SpsCounts
    /\ \A set \in ToSet(sps \o pps) : SetFits(set)

\* build_avcc: what it refuses.
Buildable(sps, pps) ==
    /\ sps # << >> /\ Len(sps[1]) >= 4
    /\ pps # << >>
    /\ Len(sps) < SpsCounts /\ Len(pps) < PpsCounts
    /\ \A set \in ToSet(sps \o pps) : SetFits(set)

\* The extension of a profile outside the baseline family, from these formats.
Extension(formats) ==
    <<252 + (formats[1] % 4), 248 + (formats[2] % 8), 248 + (formats[3] % 8), 0>>

Body(sps, pps) ==
    <<1>> \o Slice(sps[1], 1, 4) \o <<252 + 3, PutSpsCount(Len(sps))>>
        \o Prefixed(sps, SET_LENGTH) \o <<Len(pps) % PpsCounts>> \o Prefixed(pps, SET_LENGTH)

BuildAvcc(sps, pps) ==
    LET extended(formats) ==
            IF formats = NoFormats THEN Err ELSE Ok(Body(sps, pps) \o Extension(formats))
    IN  IF ~Buildable(sps, pps) THEN Err
        ELSE IF At(sps[1], 1) \in BASELINE_FAMILY THEN Ok(Body(sps, pps))
        ELSE extended(Formats(sps[1]))

-----------------------------------------------------------------------------
\* Sets taken one after another out of a record: those so far, and where the
\* next begins; or not ok, when the record ends first.
Taken(nals, next) == [ok |-> TRUE, nals |-> nals, next |-> next]
NotTaken          == [ok |-> FALSE, nals |-> << >>, next |-> 0]

\* A slip: the set of a record that ends inside it left out.
SlipStopsShort(avcc, before) ==
    LET start == before.next + SET_LENGTH
        end   == start + LengthAt(avcc, before.next, SET_LENGTH)
    IN  IF ~before.ok THEN NotTaken
        ELSE IF start > Len(avcc) THEN before
        ELSE IF end > Len(avcc) THEN before
        ELSE Taken(Append(before.nals, Slice(avcc, start, end)), end)

TakeSet(avcc, before) ==
    LET start == before.next + SET_LENGTH
        end   == start + LengthAt(avcc, before.next, SET_LENGTH)
    IN  IF ~before.ok \/ start > Len(avcc) THEN NotTaken
        ELSE IF end > Len(avcc) THEN NotTaken
        ELSE Taken(Append(before.nals, Slice(avcc, start, end)), end)

TakeSets(avcc, before, count) ==
    LET after[k \in 0..count] == IF k = 0 THEN before ELSE TakeSet(avcc, after[k - 1])
    IN  after[count]

\* The SPS, and then the PPS behind their count.
TakeSps(avcc) == TakeSets(avcc, Taken(<< >>, 6), SpsCountOf(At(avcc, 5)))
TakePps(avcc, sps) ==
    IF ~sps.ok \/ sps.next >= Len(avcc) THEN NotTaken
    ELSE TakeSets(avcc, Taken(sps.nals, sps.next + 1), At(avcc, sps.next))

\* avcc_to_annexb_extradata
AvccToAnnexbExtradata(avcc) ==
    LET annexb(taken) ==
            IF ~taken.ok \/ taken.nals = << >> THEN Err ELSE Ok(StartCoded(taken.nals))
    IN  IF Len(avcc) < 6 THEN Err ELSE annexb(TakePps(avcc, TakeSps(avcc)))

-----------------------------------------------------------------------------
\* codec_string.rs: the three bytes a codec string spells, in hexadecimal. With
\* none it is the bare name of the codec.
AvcCodec(avcc) == IF Len(avcc) < 4 THEN << >> ELSE Slice(avcc, 1, 4)
AvcCodecFrom(profile, level, avcc) ==
    <<profile, IF Len(avcc) < 3 THEN 0 ELSE At(avcc, 2), level>>
=============================================================================
