-------------------------------- MODULE Weave -------------------------------
(***************************************************************************)
(* A writer and a feed: a stream into which somebody has put a payload per *)
(* carrier, read by Feed as its bytes arrive. tests/reference.rs weaves    *)
(* its streams this way, with access_units or temporal_units for the       *)
(* places and write_user_data_at or write_metadata for the payloads.       *)
(***************************************************************************)
EXTENDS Feed

CONSTANT Sources    \* the streams an encoder may write

ASSUME WeaveAssumption == Sources \subseteq Seq(Byte)

\* The carriers of a stream, the payload of each, and the bytes that hold it.
Spots(b) == IF Kind = "Nal" THEN AccessUnits(b)
            ELSE IF ScanFails(b) THEN << >> ELSE TemporalUnits(b)

Payload(k) == Uuid \o <<k - 1>>

Carrying(spot, payload) ==
    IF Kind = "Nal" THEN START_CODE \o WriteUserDataAt(payload, spot.temporal_id_plus1)
                    ELSE WriteMetadata(payload)

\* b with every carrier's payload before its picture.
WovenAt(b, spots) ==
    LET at(k) == IF k = 0 THEN 0 ELSE IF k > Len(spots) THEN Len(b) ELSE spots[k].insert_at
    IN  Slice(b, 0, at(1))
            \o FlattenSeq([k \in 1..Len(spots) |->
                   Carrying(spots[k], Payload(k)) \o Slice(b, at(k), at(k + 1))])

\* The woven stream of every source.
Woven == [b \in Sources |-> WovenAt(b, Spots(b))]
WovenStreams == {Woven[b] : b \in Sources}

\* A metadata OBU put behind an OBU without a size field is inside it. That is
\* where it goes in a temporal unit without a frame that ends in such an OBU.
Swallows(b, spot) ==
    /\ Kind = "Av1" /\ spot.insert_at = Len(b)
    /\ \E at \in ObuStarts(b) : ~ObuAt(b, at).sized

\* What a reader is to find in a carrier of b once its payload is in.
CarrierOf(b, k, spot) ==
    LET own(from, to) == Payloads(Slice(b, from, to))
    IN  [index    |-> k - 1,
         keyframe |-> IF Kind = "Nal" THEN spot.keyframe ELSE spot.has_sequence_header,
         payloads |-> own(spot.start, spot.insert_at)
                          \o (IF Swallows(b, spot) THEN << >> ELSE <<Payload(k)>>)
                          \o own(spot.insert_at, spot.end)]

Expected == [b \in Sources |->
                LET spots == Spots(b) IN [k \in 1..Len(spots) |-> CarrierOf(b, k, spots[k])]]

-----------------------------------------------------------------------------
\* Properties.

\* Whoever weaves a payload into every carrier and whoever reads the woven
\* stream as it grows mean the same carriers: each comes out with the payload
\* put into it, among its own and in its place, with the number and the keyframe
\* flag it had, whatever the chunks, and after finish they all have. The one
\* payload that does not come out is one put behind an OBU without a size.
\* (tests/reference.rs, payloads_woven_into_a_stream_read_back_byte_for_byte and
\* a_feed_finds_the_carriers_a_whole_stream_does.)
WovenComesOut ==
    call = "idle" /\ dropped = 0 =>
        \A b \in Sources :
            stream = Woven[b] /\ Expected[b] # << >> =>
                IF over THEN delivered = Expected[b] ELSE IsPrefix(delivered, Expected[b])

\* The last temporal unit of which an OBU can be read, or the first byte.
LastStart(b) ==
    Max({0} \cup {at \in ObuStarts(b) :
                     ScanReads(b, at) /\ ObuAt(b, at).kind = OBU_TEMPORAL_DELIMITER})

\* An AV1 stream that ends inside an OBU: every carrier but the last comes out
\* as if the stream had ended where the last begins, and the last with nothing
\* read in it, be it whole but for the delimiter behind it.
\* (obu.rs, "Bytes that do not parse hold none"; feed.rs, finish.)
TruncatedLosesOnlyTheLast ==
    over /\ dropped = 0 /\ stream # << >> /\ ScanFails(stream) /\ ~Fails(stream) =>
        LET whole == FileReader(Slice(stream, 0, LastStart(stream)))
        IN  delivered = Append(whole, [index |-> Len(whole), keyframe |-> FALSE, payloads |-> << >>])
=============================================================================
