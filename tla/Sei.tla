-------------------------------- MODULE Sei ---------------------------------
(***************************************************************************)
(* sei.rs: the user_data_unregistered SEI messages of an H.264 or HEVC     *)
(* stream, read out of it and spliced into it.                             *)
(***************************************************************************)
EXTENDS H26x, Ep, Select

USER_DATA_UNREGISTERED == 5

\* read_ff(data, at): the value and where it ended, or no value when the data
\* ends first. Its checked_add cannot overflow below 2^24 bytes of ff.
NoValue == [value |-> -1, next |-> -1]
ReadFf(data, at) ==
    LET ends == {i \in at..(Len(data) - 1) : At(data, i) # 255}
    IN  IF ends = {} THEN NoValue
        ELSE [value |-> 255 * (Min(ends) - at) + At(data, Min(ends)),
              next  |-> Min(ends) + 1]

PutFf(value) == [i \in 1..(value \div 255) |-> 255] \o <<value % 255>>

\* The message whose fields these are and, after it, rest of where it ends; or
\* nothing when a field ran out or the payload does not fit.
Messages(data, type, size, rest) ==
    LET end == size.next + size.value
    IN  IF size = NoValue \/ end > Len(data) THEN << >>
        ELSE <<[payload_type |-> type.value, payload |-> Slice(data, size.next, end)]>>
                 \o rest[end]

MessagesAt(data, type, rest) ==
    IF type = NoValue THEN << >> ELSE Messages(data, type, ReadFf(data, type.next), rest)

\* The messages of an RBSP. The first that does not fit ends the list, and
\* what is left is ignored.
ParseSeiData(data) ==
    LET from[at \in 0..Len(data)] == MessagesAt(data, ReadFf(data, at), from)
    IN  from[0]

ParseSeiRbsp(rbsp) == ParseSeiData(StripTrailingBits(rbsp))

ParseSei(nal) ==
    ParseSeiRbsp(RemoveEmulationPrevention(Slice(nal, HeaderLen, Len(nal))))

\* A slip: nothing escaped.
SlipUnescaped(payload, temporal_id_plus1) ==
    SeiHeader(temporal_id_plus1)
        \o PutFf(USER_DATA_UNREGISTERED) \o PutFf(Len(payload)) \o payload \o <<128>>

\* write_user_data_at: one message, the stop bit, escapes, header.
WriteUserDataAt(payload, temporal_id_plus1) ==
    LET rbsp == PutFf(USER_DATA_UNREGISTERED) \o PutFf(Len(payload)) \o payload \o <<128>>
    IN  SeiHeader(temporal_id_plus1) \o InsertEmulationPrevention(rbsp)

IsUserData(message) ==
    message.payload_type = USER_DATA_UNREGISTERED /\ IsPrefix(Uuid, message.payload)

UserDataInNal(nal) ==
    LET mine(messages) ==
            FlattenSeq([k \in 1..Len(messages) |->
                IF IsUserData(messages[k]) THEN <<messages[k].payload>> ELSE << >>])
    IN  IF IsPrefixSei(nal) THEN mine(ParseSei(nal)) ELSE << >>

UserDataAnnexb(b) ==
    LET payloads(nals) == FlattenSeq([k \in 1..Len(nals) |-> UserDataInNal(nals[k].bytes)])
    IN  payloads(ScanNals(b))

\* A slip: before everything the first access unit holds.
SlipInsertsFirst(au, sei) ==
    LET insert(units) ==
            IF units = << >> THEN Err ELSE Ok(Spliced(au, units[1].start, START_CODE \o sei))
    IN  insert(AccessUnits(au))

\* insert_sei_annexb: before the first slice of the first access unit.
InsertSeiAnnexb(au, sei) ==
    LET insert(units) ==
            IF units = << >> THEN Err ELSE Ok(Spliced(au, units[1].insert_at, START_CODE \o sei))
    IN  insert(AccessUnits(au))
=============================================================================
