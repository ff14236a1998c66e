-------------------------------- MODULE H26x --------------------------------
(***************************************************************************)
(* h26x.rs: what a NAL unit of H.264 or HEVC is, and where one access unit *)
(* of an Annex B stream ends and the next begins.                          *)
(***************************************************************************)
EXTENDS Annexb

CONSTANT Codec

ASSUME CodecAssumption == Codec \in {"H264", "H265"}

HeaderLen == IF Codec = "H264" THEN 1 ELSE 2

\* None: the NAL is too short to have a type.
NoType == -1

NalType(nal) ==
    IF Len(nal) < HeaderLen THEN NoType
    ELSE IF Codec = "H264" THEN nal[1] % 32
    ELSE (nal[1] \div 2) % 64

IsVclType(kind) ==
    kind \in (IF Codec = "H264" THEN 1..5 ELSE 0..31)

IsVcl(nal) == IsVclType(NalType(nal))

IsKeyframeType(kind) ==
    kind \in (IF Codec = "H264" THEN {5} ELSE 16..23)

StartsAccessUnit(kind) ==
    kind \in (IF Codec = "H264" THEN 6..9 \cup 13..18 ELSE 32..35 \cup 39..47)

PREFIX_SEI == IF Codec = "H264" THEN 6 ELSE 39

IsPrefixSei(nal) == NalType(nal) = PREFIX_SEI

AtLeastOne(n) == IF n = 0 THEN 1 ELSE n

SeiHeader(temporal_id_plus1) ==
    IF Codec = "H264" THEN <<6>>
    ELSE <<78, AtLeastOne(temporal_id_plus1) % 8>>

TemporalIdPlus1(nal) ==
    IF Codec = "H264" \/ Len(nal) < 2 THEN 1 ELSE AtLeastOne(nal[2] % 8)

\* The bit after the header: first_mb_in_slice is zero, or
\* first_slice_segment_in_pic_flag is set.
FirstSliceOfPicture(nal) ==
    Len(nal) > HeaderLen /\ nal[HeaderLen + 1] >= 128

\* A NAL that opens an access unit when it turns up after a slice.
Opens(nal) ==
    IF IsVcl(nal) THEN FirstSliceOfPicture(nal)
                  ELSE StartsAccessUnit(NalType(nal))

\* A slip: a boundary at every opener, a slice before it or not.
SlipForgetsSlices(b) ==
    LET typed == {c \in StartCodes(b) : NalType(NalBytes(b, c)) # NoType}
    IN  {c \in typed : \A d \in typed : c <= d}
            \cup {c \in typed : Opens(NalBytes(b, c))}

(***************************************************************************)
(* The NALs an access unit begins at: the first that has a type, and every *)
(* opener that comes after a slice. seen_slice says that a slice stands    *)
(* between the NAL and the last boundary before it; an opener after that   *)
(* slice would itself have been a boundary, so it says as well that a      *)
(* slice stands before the NAL with no opener between.                     *)
(***************************************************************************)
Boundaries(b) ==
    LET typed   == {c \in StartCodes(b) : NalType(NalBytes(b, c)) # NoType}
        slices  == {c \in typed : IsVcl(NalBytes(b, c))}
        openers == {c \in typed : Opens(NalBytes(b, c))}
        seen_slice(c) ==
            \E s \in slices : s < c /\ \A o \in openers : ~(s < o /\ o < c)
    IN  {c \in typed : \A d \in typed : c <= d} \cup {c \in openers : seen_slice(c)}

\* AccessUnit.start of every access unit of b.
UnitStarts(b) == {NalPad(b, c) : c \in Boundaries(b)}

\* Slips: insert_at behind the picture, and at the padding before its start code.
SlipInsertsBehind(b, c, end, slices) ==
    [start     |-> NalPad(b, c),
     end       |-> end,
     insert_at |-> end,
     keyframe  |-> \E s \in slices : IsKeyframeType(NalType(NalBytes(b, s))),
     temporal_id_plus1 |->
         IF slices = {} THEN 1 ELSE TemporalIdPlus1(NalBytes(b, Min(slices)))]
SlipInsertsAtPad(b, c, end, slices) ==
    [SlipInsertsBehind(b, c, end, slices)
        EXCEPT !.insert_at = IF slices = {} THEN end ELSE NalPad(b, Min(slices))]

\* The access unit that opens at c, with the slices that are its own.
AccessUnitOf(b, c, end, slices) ==
    [start     |-> NalPad(b, c),
     end       |-> end,
     insert_at |-> IF slices = {} THEN end ELSE NalCode(b, Min(slices)),
     keyframe  |-> \E s \in slices : IsKeyframeType(NalType(NalBytes(b, s))),
     temporal_id_plus1 |->
         IF slices = {} THEN 1 ELSE TemporalIdPlus1(NalBytes(b, Min(slices)))]

AccessUnitsAt(b, opens) ==
    [k \in 1..Len(opens) |->
        LET end == IF k < Len(opens) THEN NalPad(b, opens[k + 1]) ELSE Len(b)
        IN  AccessUnitOf(b, opens[k], end,
                   {c \in StartCodes(b) : opens[k] <= c /\ c < end /\ IsVcl(NalBytes(b, c))})]

AccessUnits(b) == AccessUnitsAt(b, Ascending(Boundaries(b)))
=============================================================================
