------------------------------ MODULE FeedDocs ------------------------------
(***************************************************************************)
(* What the comments of feed.rs and h26x.rs say of a feed and the code     *)
(* does not do. Each is checked by a run of its own, which finds the case. *)
(***************************************************************************)
EXTENDS Feed

\* feed.rs:10, "every carrier the bytes have finished comes out": however the
\* stream goes on, a temporal unit is out once the next one is known to begin.
FinishedComeOut ==
    call = "idle" /\ ~over =>
        LET starts == Ascending(Av1CarrierStarts(stream))
        IN  Len(delivered) >=
                Cardinality({k \in 2..Len(starts) : KnownAt(stream, starts[k]) <= fed})

\* feed.rs:15, "the feed resynchronises on the next start code or OBU": what it
\* starts a carrier with, after a drop as before one, is an OBU of the stream.
StartsAtObu ==
    \A k \in 2..Len(spans) : spans[k].from \in ObuStarts(stream)

\* feed.rs:98, dropped() is "how many carriers were given up on for growing past
\* the limit": no more than the stream has carriers that long.
DroppedCountsCarriers ==
    LET starts == Starts(stream)
        n      == Len(starts)
        length(k) == (IF k < n THEN starts[k + 1] ELSE Len(stream)) - starts[k]
    IN  dropped <= Cardinality({k \in 1..n : length(k) > Limit})

\* feed.rs:39, index is a carrier's "place in decode order, from zero": of
\* whatever comes out, after a drop as before one.
IndexIsDecodeOrder ==
    \A k \in 1..Len(delivered) : delivered[k].index = DecodePlace(spans[k])

\* h26x.rs:87, the types that do not open an access unit "are the ones that
\* belong to the access unit they follow": an HEVC suffix SEI, type 40, belongs
\* to the picture it follows, so no carrier after the first begins with one.
SuffixFollows ==
    \A k \in 2..Len(spans) :
        LET codes == {c \in StartCodes(stream) : NalPad(stream, c) = spans[k].from}
        IN  \A c \in codes : NalType(NalBytes(stream, c)) # 40
=============================================================================
