-------------------------------- MODULE Sps ---------------------------------
(***************************************************************************)
(* sps.rs: the bits of a sequence parameter set and the few fields of it a *)
(* decoder configuration record repeats.                                   *)
(*                                                                         *)
(* A BitReader is the offset of its next bit. A read returns the value and *)
(* where the reader then stands, or no value when the bits run out.        *)
(***************************************************************************)
EXTENDS Ep, Annexb

H264_SPS == 7
H264_PPS == 8

Bits(data) == 8 * Len(data)

\* BitReader::bit, of the bit that is there.
Bit(data, pos) == (At(data, pos \div 8) \div 2 ^ (7 - (pos % 8))) % 2

NoField == [value |-> -1, next |-> -1]

\* The zeroes bits after the set bit at `set`, first bit most significant.
Suffix(data, set, zeros) ==
    LET value[k \in 0..zeros] ==
            IF k = 0 THEN 0 ELSE 2 * value[k - 1] + Bit(data, set + k)
    IN  value[zeros]

\* A slip: the suffix read without the value of its length.
SlipNoPrefix(data, pos, set) ==
    LET zeros == set - pos
    IN  IF zeros > 31 \/ set + zeros >= Bits(data) THEN NoField
        ELSE [value |-> Suffix(data, set, zeros), next |-> set + zeros + 1]

\* ue, whose first set bit is at `set`.
UeFrom(data, pos, set) ==
    LET zeros == set - pos
    IN  IF zeros > 31 \/ set + zeros >= Bits(data) THEN NoField
        ELSE [value |-> 2 ^ zeros - 1 + Suffix(data, set, zeros), next |-> set + zeros + 1]

\* BitReader::ue
Ue(data, pos) ==
    LET ones == {p \in pos..(Bits(data) - 1) : Bit(data, p) = 1}
    IN  IF ones = {} THEN NoField ELSE UeFrom(data, pos, Min(ones))

\* The field after another one.
Then(data, before, skip) ==
    IF before = NoField \/ before.next + skip > Bits(data) THEN NoField
    ELSE Ue(data, before.next + skip)

\* formats: None when the bits run out. The narrowing to a byte keeps what the
\* record asks of the values, their last bits.
NoFormats == << >>
FormatsFrom(rbsp, chroma) ==
    LET luma  == Then(rbsp, chroma, IF chroma.value = 3 THEN 1 ELSE 0)
        depth == Then(rbsp, luma, 0)
    IN  IF depth = NoField THEN NoFormats
        ELSE <<chroma.value % 256, luma.value % 256, depth.value % 256>>

Formats(nal) ==
    LET rbsp == RemoveEmulationPrevention(DropFront(nal, 1))
        id   == Then(rbsp, [value |-> 0, next |-> 0], 24)
    IN  IF nal = << >> THEN NoFormats ELSE FormatsFrom(rbsp, Then(rbsp, id, 0))

\* A profile and a level, where there are four bytes to read them from.
ProfileAndLevel(b) == IF Len(b) < 4 THEN << >> ELSE <<At(b, 1), At(b, 3)>>

\* profile_level: of a record, or of the first SPS of Annex B extradata.
ProfileLevel(extradata) ==
    LET of(sps) == IF sps = << >> THEN << >> ELSE ProfileAndLevel(sps[1])
    IN  IF extradata # << >> /\ At(extradata, 0) = 1 THEN ProfileAndLevel(extradata)
        ELSE of(SelectSeq(SplitNals(extradata),
                          LAMBDA nal : nal # << >> /\ nal[1] % 32 = H264_SPS))
=============================================================================
