---------------------------- MODULE LengthPrefix ----------------------------
(***************************************************************************)
(* annexb.rs: the other framing, a length before each NAL unit, and the    *)
(* way from one framing to the other. length_size is the number of bytes   *)
(* of a length.                                                            *)
(***************************************************************************)
EXTENDS Annexb

CONSTANT
    Radix       \* how many values a byte of a length has, 256 in the code;
                \* fewer let short NAL units be too long for a length

ASSUME RadixAssumption == Radix \in 2..256

\* check_length_size
WidthOk(length_size) == length_size \in 1..4

\* How many values so many bytes have.
Values(bytes) ==
    LET count[k \in 0..bytes] == IF k = 0 THEN 1 ELSE Radix * count[k - 1]
    IN  count[bytes]

\* A slip: the first length that is too wide let by.
SlipFitsAtLimit(length, length_size) == length_size < 4 => length <= Values(length_size)

\* put_length: what it refuses, and the bytes it appends. The cast to u8 keeps
\* the last digits of a length that is too wide.
Fits(length, length_size) == length_size < 4 => length < Values(length_size)

LengthBytes(length, length_size) ==
    [k \in 1..length_size |-> (length \div Values(length_size - k)) % Radix]

\* Each of these NAL units behind its length.
Prefixed(nals, length_size) ==
    FlattenSeq([k \in 1..Len(nals) |-> LengthBytes(Len(nals[k]), length_size) \o nals[k]])

\* A sample of these NAL units, or Err when one of them is refused.
SampleOf(nals, length_size) ==
    IF WidthOk(length_size) /\ \A k \in 1..Len(nals) : Fits(Len(nals[k]), length_size)
    THEN Ok(Prefixed(nals, length_size))
    ELSE Err

AnnexbToLengthPrefixed(b, length_size) == SampleOf(SplitNals(b), length_size)

\* The length that stands at `at`.
LengthAt(sample, at, length_size) ==
    LET value[k \in 0..length_size] ==
            IF k = 0 THEN 0 ELSE Radix * value[k - 1] + At(sample, at + k - 1)
    IN  value[length_size]

\* What a walk over NAL units found: the units, or not ok when it was refused.
Found(nals) == [ok |-> TRUE,  nals |-> nals]
Refused     == [ok |-> FALSE, nals |-> << >>]

\* The NAL from start to end and those of rest after it.
NalsFrom(sample, start, end, rest) ==
    IF end > Len(sample) THEN Refused
    ELSE [rest[end] EXCEPT !.nals = <<Slice(sample, start, end)>> \o @]

\* split_length_prefixed: refused when a length or a NAL overruns the sample.
SplitLengthPrefixed(sample, length_size) ==
    LET from[at \in 0..Len(sample)] ==
            IF at = Len(sample) THEN Found(<< >>)
            ELSE IF at + length_size > Len(sample) THEN Refused
            ELSE NalsFrom(sample, at + length_size,
                          at + length_size + LengthAt(sample, at, length_size), from)
    IN  IF WidthOk(length_size) THEN from[0] ELSE Refused

\* Each of these NAL units behind a start code.
StartCoded(nals) == FlattenSeq([k \in 1..Len(nals) |-> START_CODE \o nals[k]])

LengthPrefixedToAnnexb(sample, length_size) ==
    LET annexb(split) == IF split.ok THEN Ok(StartCoded(split.nals)) ELSE Err
    IN  annexb(SplitLengthPrefixed(sample, length_size))
=============================================================================
