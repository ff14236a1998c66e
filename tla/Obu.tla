-------------------------------- MODULE Obu ---------------------------------
(***************************************************************************)
(* obu.rs: the OBUs of a low-overhead AV1 stream, its temporal units, and  *)
(* the metadata OBUs that carry payloads of the caller's own.              *)
(***************************************************************************)
EXTENDS Select

CONSTANT UsizeMax  \* usize::MAX of the build

ASSUME UsizeAssumption == UsizeMax \in Nat

OBU_SEQUENCE_HEADER    == 1
OBU_TEMPORAL_DELIMITER == 2
OBU_METADATA           == 5
FRAME_OBUS             == {3, 4, 6, 7}

\* leb128: seven bits a byte, least significant first, eight bytes at most.
\* A value of -1 is Err: past the end, or a ninth byte.
LebValue(b, at, last) ==
    LET value[i \in at..last] ==
            IF i = last THEN At(b, i) ELSE (At(b, i) % 128) + 128 * value[i + 1]
    IN  [value |-> value[at], next |-> last + 1]

Leb128(b, at) ==
    LET ends == {i \in at..(at + 7) : i < Len(b) /\ At(b, i) < 128}
    IN  IF ends = {} THEN [value |-> -1, next |-> -1] ELSE LebValue(b, at, Min(ends))

PutLeb128(value) ==
    LET put[v \in 0..value] ==
            IF v < 128 THEN <<v>> ELSE <<128 + (v % 128)>> \o put[v \div 128]
    IN  put[value]

\* The header byte: its size field, and where its OBU's bytes begin.
Sized(header)      == (header \div 2) % 2 = 1
BodyAt(header, at) == (at + 1) + ((header \div 4) % 2)

SizeAt(b, header, body) ==
    IF Sized(header) THEN Leb128(b, body) ELSE [value |-> Len(b) - body, next |-> body]

\* What scan_obus makes of an OBU: "obu", or what stops the scan, which is the
\* forbidden bit, bytes that end too soon, a size that does not parse or a size
\* wider than memory.
Outcome(b, header, body, size) ==
    IF header >= 128                            THEN "forbidden"
    ELSE IF body > Len(b)                       THEN "truncated"
    ELSE IF size.value = -1                     THEN "badsize"
    ELSE IF size.next + size.value > UsizeMax   THEN "toolarge"
    ELSE IF size.next + size.value > Len(b)     THEN "truncated"
    ELSE "obu"

ObuOf(b, header, size, outcome) ==
    [outcome |-> outcome,
     kind    |-> (header \div 8) % 16,
     sized   |-> Sized(header),
     end     |-> size.next + size.value,
     payload |-> IF outcome # "obu" THEN << >>
                 ELSE Slice(b, size.next, size.next + size.value)]

ObuRead(b, header, body, size) ==
    ObuOf(b, header, size, Outcome(b, header, body, size))

\* The OBU whose header is at `at`, as scan_obus reads it.
ObuAt(b, at) ==
    LET header == At(b, at)
        body   == BodyAt(header, at)
    IN  ObuRead(b, header, body, SizeAt(b, header, body))

(***************************************************************************)
(* The offsets at which a loop over the OBUs of b stands: the first byte,  *)
(* and wherever an OBU ends that it stood at and could read. reads(at) is  *)
(* what the loop needs of an OBU to go on past it.                         *)
(***************************************************************************)
Stands(b, reads(_)) ==
    LET from[at \in 0..Len(b)] ==
            {at} \cup (IF at < Len(b) /\ reads(at) THEN from[ObuAt(b, at).end] ELSE {})
    IN  (0..Len(b)) \cap from[0]

ScanReads(b, at) == ObuAt(b, at).outcome = "obu"

\* The starts of the OBUs of b, and whether scan_obus returns them or an Err.
ObuStarts(b)  == Stands(b, LAMBDA p : ScanReads(b, p)) \ {Len(b)}
ScanFails(b)  == \E at \in ObuStarts(b) : ~ScanReads(b, at)

MetadataPayload(obu) ==
    LET type == Leb128(obu.payload, 0)
    IN  IF obu.kind = OBU_METADATA /\ type.value = MetadataType
        THEN <<StripTrailingBits(DropFront(obu.payload, type.next))>>
        ELSE << >>

\* user_data: bytes that do not parse hold none.
UserDataObu(b) ==
    LET starts     == Ascending(ObuStarts(b))
        mine(all)  == IF all # << >> /\ IsPrefix(Uuid, all[1]) THEN all ELSE << >>
    IN  IF ScanFails(b) THEN << >>
        ELSE FlattenSeq([k \in 1..Len(starts) |-> mine(MetadataPayload(ObuAt(b, starts[k])))])

\* The trailing bits left off.
SlipNoTrailingBits(payload) ==
    LET body == PutLeb128(MetadataType) \o payload
    IN  <<OBU_METADATA * 8 + 2>> \o PutLeb128(Len(body)) \o body

\* write_metadata
WriteMetadata(payload) ==
    LET body == PutLeb128(MetadataType) \o payload \o <<128>>
    IN  <<OBU_METADATA * 8 + 2>> \o PutLeb128(Len(body)) \o body

\* The size fields it writes are no longer than leb128 reads, and the OBU fits
\* memory.
MetadataFits(payload) ==
    /\ Len(PutLeb128(MetadataType)) <= 8
    /\ Len(PutLeb128(Len(PutLeb128(MetadataType) \o payload \o <<128>>))) <= 8
    /\ Len(WriteMetadata(payload)) <= UsizeMax

\* A unit of b, with the OBUs that are its own.
TemporalUnitOf(b, start, end, own) ==
    LET frames == {at \in own : ObuAt(b, at).kind \in FRAME_OBUS}
    IN  [start     |-> start,
         end       |-> end,
         insert_at |-> IF frames = {} THEN end ELSE Min(frames),
         has_sequence_header |-> \E at \in own : ObuAt(b, at).kind = OBU_SEQUENCE_HEADER]

TemporalUnitsAt(b, starts, opens) ==
    [k \in 1..Len(opens) |->
        LET end == IF k < Len(opens) THEN opens[k + 1] ELSE Len(b)
        IN  TemporalUnitOf(b, opens[k], end, {at \in starts : opens[k] <= at /\ at < end})]

\* temporal_units, of bytes scan_obus reads.
TemporalUnits(b) ==
    LET starts == ObuStarts(b)
    IN  TemporalUnitsAt(b, starts,
            Ascending({at \in starts : at = 0 \/ ObuAt(b, at).kind = OBU_TEMPORAL_DELIMITER}))

\* insert_metadata_obu: before the first frame of the first temporal unit.
InsertMetadataObu(unit, obu) ==
    IF ScanFails(unit) \/ unit = << >> THEN Err
    ELSE Ok(Spliced(unit, TemporalUnits(unit)[1].insert_at, obu))
=============================================================================
