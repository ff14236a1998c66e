-------------------------------- MODULE Feed --------------------------------
(***************************************************************************)
(* feed.rs: a growing stream cut into carriers (access units, temporal     *)
(* units) as its bytes arrive.                                             *)
(*                                                                         *)
(* A caller pushes the stream in chunks of any size and calls finish at    *)
(* its end. push runs in the steps of the code: extend the held bytes, cut *)
(* (look for boundaries, hand over what is finished, drain, look again),   *)
(* then the limit. `call` is where the push in progress stands, and        *)
(* nothing else moves until it has returned.                               *)
(***************************************************************************)
EXTENDS Sei, Obu

CONSTANTS
    Kind,       \* StreamKind: "Nal" (with Codec) or "Av1"
    Requested,  \* the limit asked of with_limit
    Floor,      \* the least limit it grants, 64 in the code
    Streams,    \* the byte streams a caller may read
    Chunks      \* the sizes of the chunks it reads them in

ASSUME FeedAssumption ==
    /\ Kind \in {"Nal", "Av1"}
    /\ Requested \in Nat
    /\ Floor \in Nat /\ Floor >= 3
    /\ Streams \subseteq Seq(Byte)
    /\ Chunks \subseteq Nat

VARIABLES
    stream,     \* the whole stream, of which the caller has pushed
    fed,        \* the first so many bytes
    held,       \* the carrier being read
    index,      \* how many carriers have been numbered
    dropped,    \* how many were given up on
    call,       \* "idle", or the step of push to take next
    out,        \* what the push in progress has found
    delivered,  \* what push and finish have returned, in order
    over,       \* finish has been called
    spans       \* history: the place in the stream of every carrier in
                \* delivered and then in out

fields == <<held, index, dropped>>
vars   == <<stream, fed, held, index, dropped, call, out, delivered, over, spans>>

Limit == IF Requested < Floor THEN Floor ELSE Requested

-----------------------------------------------------------------------------
\* av1_boundaries goes on only past an OBU that has a size and is all there.
FeedReads(b, at)  == ObuAt(b, at).outcome = "obu" /\ ObuAt(b, at).sized
FeedStands(b)     == Stands(b, LAMBDA p : FeedReads(b, p)) \ {Len(b)}
FeedObus(b)       == {at \in FeedStands(b) : FeedReads(b, at)}
\* Slips: an OBU that is not all there taken for a start, and a sequence header
\* for the start of a temporal unit.
SlipUnreadStarts(b) ==
    {at \in FeedStands(b) : at = 0 \/ ObuAt(b, at).kind = OBU_TEMPORAL_DELIMITER}
SlipSequenceStarts(b) ==
    {at \in FeedObus(b) :
        at = 0 \/ ObuAt(b, at).kind \in {OBU_TEMPORAL_DELIMITER, OBU_SEQUENCE_HEADER}}

Av1CarrierStarts(b) ==
    {at \in FeedObus(b) : at = 0 \/ ObuAt(b, at).kind = OBU_TEMPORAL_DELIMITER}

\* A slip: a boundary looked for one byte short of the end of what is held.
SlipLateStarts(b) ==
    LET seen == IF b = << >> THEN b ELSE Slice(b, 0, Len(b) - 1)
    IN  IF Kind = "Nal" THEN UnitStarts(seen) ELSE Av1CarrierStarts(seen)

\* boundaries: where the carriers in b begin. All but the last are complete
\* and the last is the one still open.
CarrierStarts(b) == IF Kind = "Nal" THEN UnitStarts(b) ELSE Av1CarrierStarts(b)

\* Slips: draining to where the first carrier ends, or to where the last
\* finished one begins.
SlipFirstPending(b) ==
    LET later == CarrierStarts(b) \ {0}
    IN  IF later = {} THEN 0 ELSE Min(later)
SlipKeepsLast(b) ==
    LET starts == CarrierStarts(b)
    IN  IF Cardinality(starts) < 2 THEN 0 ELSE Max(starts \ {Max(starts)})

PendingAt(b) == IF CarrierStarts(b) = {} THEN 0 ELSE Max(CarrierStarts(b))

\* boundaries: Err.
Fails(b) ==
    Kind = "Av1" /\ \E at \in FeedStands(b) :
                        ObuAt(b, at).outcome \in {"forbidden", "toolarge"}

IsKeyframe(b, start, end) ==
    IF Kind = "Nal"
    THEN \E u \in ToSet(AccessUnits(b)) : u.start = start /\ u.keyframe
    ELSE \E at \in FeedObus(b) : /\ start <= at /\ at < end
                                 /\ ObuAt(b, at).kind = OBU_SEQUENCE_HEADER

\* Slips: the open carrier handed over with the others, and a carrier that ends
\* a byte before the next.
SlipOpenCarrier(b) ==
    LET starts == Ascending(CarrierStarts(b))
        ends(k) == IF k < Len(starts) THEN starts[k + 1] ELSE Len(b)
    IN  [k \in 1..Len(starts) |->
            [start |-> starts[k], end |-> ends(k), keyframe |-> IsKeyframe(b, starts[k], ends(k))]]
SlipShortCarrier(b) ==
    LET starts == Ascending(CarrierStarts(b))
    IN  [k \in 1..(Len(starts) - 1) |->
            [start    |-> starts[k],
             end      |-> starts[k + 1] - 1,
             keyframe |-> IsKeyframe(b, starts[k], starts[k + 1])]]

Complete(b) ==
    LET starts == Ascending(CarrierStarts(b))
    IN  [k \in 1..(Len(starts) - 1) |->
            [start    |-> starts[k],
             end      |-> starts[k + 1],
             keyframe |-> IsKeyframe(b, starts[k], starts[k + 1])]]

\* A slip: the first payload of a carrier and no other.
SlipOnePayload(b) ==
    LET all == IF Kind = "Nal" THEN UserDataAnnexb(b) ELSE UserDataObu(b)
    IN  IF all = << >> THEN all ELSE <<all[1]>>

\* carried: the payloads taken off one finished carrier.
Payloads(b) == IF Kind = "Nal" THEN UserDataAnnexb(b) ELSE UserDataObu(b)

\* A slip: the count of carriers before this one taken for one too many.
SlipCountsFromOne(i, b, keyframe) ==
    [index |-> i - 1, keyframe |-> keyframe, payloads |-> Payloads(b)]

Carried(i, b, keyframe) ==
    [index |-> i, keyframe |-> keyframe, payloads |-> Payloads(b)]

FinishKeyframe(b) ==
    IF Kind = "Nal"
    THEN AccessUnits(b) # << >> /\ AccessUnits(b)[1].keyframe
    ELSE ~ScanFails(b) /\ TemporalUnits(b)[1].has_sequence_header

-----------------------------------------------------------------------------
\* The offset in the stream of the first byte held.
Base == fed - Len(held)

Init ==
    /\ stream \in Streams
    /\ fed = 0
    /\ held = << >> /\ index = 0 /\ dropped = 0
    /\ call = "idle" /\ out = << >>
    /\ delivered = << >> /\ over = FALSE
    /\ spans = << >>

\* push, up to the call of cut.
Push(n) ==
    /\ call = "idle" /\ ~over
    /\ fed + n <= Len(stream)
    /\ held' = held \o SubSeq(stream, fed + 1, fed + n)
    /\ fed'  = fed + n
    /\ out'  = << >>
    /\ call' = "cut"
    /\ UNCHANGED <<stream, index, dropped, delivered, over, spans>>

\* cut, once round its loop: what boundaries found is handed over, and either
\* its bytes are drained and the loop looks again, or there were none.
HandOver ==
    LET found == Complete(held)
    IN  /\ out' = out \o [k \in 1..Len(found) |->
                    Carried(index + k - 1, Slice(held, found[k].start, found[k].end),
                            found[k].keyframe)]
        /\ index' = index + Len(found)
        /\ spans' = spans \o [k \in 1..Len(found) |->
                        [from |-> Base + found[k].start, to |-> Base + found[k].end]]

Drain ==
    /\ call = "cut" /\ ~Fails(held) /\ PendingAt(held) > 0
    /\ HandOver
    /\ held' = DropFront(held, PendingAt(held))
    /\ UNCHANGED <<stream, fed, dropped, call, delivered, over>>

CutReturns ==
    /\ call = "cut" /\ ~Fails(held) /\ PendingAt(held) = 0
    /\ HandOver
    /\ call' = "settle"
    /\ UNCHANGED <<stream, fed, held, dropped, delivered, over>>

\* boundaries is an Err: what cut had found is lost with it, push lets go of
\* every byte and counts a drop.
CutFails ==
    /\ call = "cut" /\ Fails(held)
    /\ held' = << >>
    /\ dropped' = dropped + 1
    /\ out' = << >>
    /\ spans' = SubSeq(spans, 1, Len(delivered))
    /\ call' = "settle"
    /\ UNCHANGED <<stream, fed, index, delivered, over>>

\* A slip: cut called once more instead of returning.
SlipCutsAgain ==
    /\ delivered' = delivered \o out
    /\ out'  = << >>
    /\ call' = "cut"
    /\ UNCHANGED <<stream, fed, index, over, spans>>

\* push, after cut: the limit, and the return.
Return ==
    /\ delivered' = delivered \o out
    /\ out'  = << >>
    /\ call' = "idle"
    /\ UNCHANGED <<stream, fed, index, over, spans>>

\* Slips around the limit: not asked at all; asked with >= for >; the last
\* three bytes' place taken by the first three; a dropped carrier numbered.
SlipNoLimit ==
    /\ call = "settle"
    /\ Return
    /\ UNCHANGED <<held, dropped>>
SlipAtLimit ==
    /\ call = "settle" /\ Len(held) >= Limit
    /\ held' = DropFront(held, Len(held) - 3)
    /\ dropped' = dropped + 1
    /\ Return
SlipKeepsFirst ==
    /\ call = "settle" /\ Len(held) > Limit
    /\ held' = SubSeq(held, 1, 3)
    /\ dropped' = dropped + 1
    /\ Return
SlipNumbersDropped ==
    /\ call = "settle" /\ Len(held) > Limit
    /\ held' = DropFront(held, Len(held) - 3)
    /\ dropped' = dropped + 1
    /\ index' = index + 1
    /\ delivered' = delivered \o out /\ out' = << >>
    /\ call' = "idle"
    /\ UNCHANGED <<stream, fed, over, spans>>

WithinLimit ==
    /\ call = "settle" /\ Len(held) <= Limit
    /\ Return
    /\ UNCHANGED <<held, dropped>>

OverLimit ==
    /\ call = "settle" /\ Len(held) > Limit
    /\ held' = DropFront(held, Len(held) - 3)
    /\ dropped' = dropped + 1
    /\ Return

\* finish, when the caller knows the stream is over.
Finish ==
    /\ call = "idle" /\ ~over
    /\ fed = Len(stream)
    /\ over' = TRUE
    /\ IF held = << >>
       THEN UNCHANGED <<held, index, delivered, spans>>
       ELSE /\ delivered' = Append(delivered, Carried(index, held, FinishKeyframe(held)))
            /\ spans' = Append(spans, [from |-> Base, to |-> fed])
            /\ index' = index + 1
            /\ held'  = << >>
    /\ UNCHANGED <<stream, fed, dropped, call, out>>

Done == over /\ UNCHANGED vars

PushSteps == Drain \/ CutReturns \/ CutFails \/ WithinLimit \/ OverLimit

Next == (\E n \in Chunks : Push(n)) \/ PushSteps \/ Finish \/ Done

\* A call that has started is run to its end; nobody has to make one.
Spec == Init /\ [][Next]_vars /\ WF_vars(PushSteps)

-----------------------------------------------------------------------------
\* Properties.

Carriers == [index : Nat, keyframe : BOOLEAN, payloads : Seq(Seq(Byte))]

FieldsOK ==
    /\ stream \in Streams
    /\ fed \in 0..Len(stream)
    /\ held \in Seq(Byte)
    /\ index \in Nat /\ dropped \in Nat
    /\ call \in {"idle", "cut", "settle"}
    /\ over \in BOOLEAN

TypeOK ==
    /\ FieldsOK
    /\ out \in Seq(Carriers) /\ delivered \in Seq(Carriers)
    /\ spans \in Seq([from : Nat, to : Nat])

\* The bytes held are the last bytes pushed, in their order and without a gap,
\* through every drain, error and drop: what push appends and cut takes away
\* never loses a byte from the middle.
HeldIsTail == Len(held) <= fed /\ held = SubSeq(stream, Base + 1, fed)

\* footprint() never passes the limit once a push has returned, and while one
\* runs it passes by the chunk at most: the comment on Feed.held.
FootprintBounded ==
    /\ call = "idle" => Len(held) <= Limit
    /\ \E n \in Chunks \cup {0} : Len(held) <= Limit + n

\* count() is how many carriers have come out so far and their numbers are the
\* ones below it, in order: an error or a drop takes no number that had been
\* given to a carrier nobody got. What the numbers are not is IndexTrailsPlace.
CountIsReturned ==
    LET all == delivered \o out
    IN  /\ index = Len(all)
        /\ \A k \in 1..Len(all) : all[k].index = k - 1

\* The loop of cut looks twice at most: once the finished carriers are drained
\* the open one begins at the first byte and the bytes still parse. So an Err
\* never comes after carriers have been numbered.
OneDrainIsEnough == [][Drain => PendingAt(held') = 0 /\ ~Fails(held')]_vars

\* Every step of a push brings it nearer its end: the bytes that can still be
\* drained, and then the two steps that are left.
Rank == IF call = "cut" THEN 2 + Len(held) ELSE IF call = "settle" THEN 1 ELSE 0
StepsShrink == [][PushSteps => Rank' \in Nat /\ Rank' < Rank]_vars

\* Every call of push returns.
CallReturns == (call # "idle") ~> (call = "idle")

-----------------------------------------------------------------------------
\* What a reader with the whole of b in memory finds: access_units or
\* temporal_units, and the payloads of each carrier.
FileReader(b) ==
    IF Kind = "Nal"
    THEN LET units == AccessUnits(b)
         IN  [k \in 1..Len(units) |->
                Carried(k - 1, Slice(b, units[k].start, units[k].end), units[k].keyframe)]
    ELSE LET units == TemporalUnits(b)
         IN  IF ScanFails(b) THEN << >>
             ELSE [k \in 1..Len(units) |->
                    Carried(k - 1, Slice(b, units[k].start, units[k].end),
                            units[k].has_sequence_header)]

\* Where the carriers of b begin for that reader, in order.
Starts(b) == Ascending(IF Kind = "Nal" THEN UnitStarts(b)
                       ELSE {u.start : u \in ToSet(TemporalUnits(b))})

\* A stream a feed can cut: one that parses, with a size in every OBU but
\* perhaps a last one that is no delimiter (av1_boundaries' own comment).
Readable(b) ==
    Kind = "Av1" => /\ ~ScanFails(b)
                    /\ \A at \in ObuStarts(b) :
                          ObuAt(b, at).sized \/ ObuAt(b, at).kind # OBU_TEMPORAL_DELIMITER

\* How many bytes have to be there for the carrier of b that begins at start to
\* be known for one: the header of its first NAL, with the bit after it for a
\* slice, up to the first byte there that is not zero, for zeroes that what is
\* held ends in may be padding and no part of a NAL; or the whole of its first
\* OBU.
KnownAt(b, start) ==
    IF Kind = "Av1" THEN ObuAt(b, start).end
    ELSE LET c    == CHOOSE c \in Boundaries(b) : NalPad(b, c) = start
             nal  == NalBytes(b, c)
             last == NalStart(c) + HeaderLen - (IF IsVcl(nal) /\ Opens(nal) THEN 0 ELSE 1)
         IN  1 + Min({i \in last..(Len(b) - 1) : At(b, i) # 0})

\* The place in decode order of the carrier a span ends: how many carriers of
\* the stream begin before that end, the one itself not counted.
DecodePlace(span) == Cardinality({at \in ToSet(Starts(stream)) : at < span.to}) - 1

\* Carried.index is the place in decode order while nothing was dropped. It goes
\* on counting after a drop as if the carriers let go had not been there: it
\* falls behind their place, by two for each drop at the most (the carrier too
\* long and the next, of which the cut may take the start code), and it never
\* runs ahead, however often one long carrier is cut. A stream in which a reader
\* of the whole file finds no carrier has no places.
IndexTrailsPlace ==
    Starts(stream) # << >> =>
        \A k \in 1..Len(delivered) :
            LET place == DecodePlace(spans[k])
            IN  delivered[k].index \in (place - 2 * dropped)..place

\* While nothing was dropped the chunks do not show: what has come out is the
\* beginning of what a reader of the whole file finds, number, keyframe and
\* payloads alike, and after finish it is all of it.
\* (tests/reference.rs, a_feed_finds_the_carriers_a_whole_stream_does.)
SameAsFileReader ==
    call = "idle" /\ dropped = 0 /\ Readable(stream) =>
        LET whole == FileReader(stream)
        IN  IF over THEN whole # << >> => delivered = whole
                    ELSE IsPrefix(delivered, whole)

\* A carrier is not kept back: it is out as soon as the bytes that show where
\* the next one begins are in.
NothingKeptBack ==
    call = "idle" /\ ~over /\ dropped = 0 /\ Readable(stream) =>
        LET starts == Starts(stream)
        IN  Len(delivered) =
                Cardinality({k \in 2..Len(starts) : KnownAt(stream, starts[k]) <= fed})

InOrder(s, end) ==
    \A k \in 1..Len(s) : /\ s[k].from < s[k].to /\ s[k].to <= end
                         /\ \A j \in 1..(k - 1) : s[j].to <= s[k].from

\* No byte rides on two carriers, and none that rode on one is still held,
\* whatever was dropped and whatever failed.
SpansDisjoint ==
    /\ InOrder(spans, Base)
    /\ Len(spans) = Len(delivered) + Len(out)

\* A carrier that has come out was made of one run of the stream's own bytes:
\* nothing a drain, an error or a drop does to the bytes held joins bytes that
\* were apart in the stream into a carrier.
CarriersAreSpans ==
    LET all == delivered \o out
    IN  \A k \in 1..Len(all) :
            all[k].payloads = Payloads(Slice(stream, spans[k].from, spans[k].to))

\* While nothing was dropped every byte from the first carrier on rode on a
\* carrier or is held: what carriers cover has no gap.
SpansTile ==
    LET starts == Starts(stream)
        first  == IF Kind = "Nal" THEN starts[1] ELSE 0
    IN  dropped = 0 /\ starts # << >> /\ spans # << >> =>
            /\ spans[1].from = first
            /\ \A k \in 2..Len(spans) : spans[k].from = spans[k - 1].to
            /\ spans[Len(spans)].to = Base

\* Room for every carrier and for the first bytes of the next one is enough
\* for none to be given up on, however the chunks fall.
RoomIsEnough ==
    LET starts == Starts(stream)
        n == Len(starts)
        need(k) == IF k < n THEN KnownAt(stream, starts[k + 1]) - 1 ELSE Len(stream)
    IN  /\ Readable(stream)
        /\ n > 0 /\ KnownAt(stream, starts[1]) - 1 <= Limit
        /\ \A k \in 1..n : need(k) - starts[k] <= Limit
        => dropped = 0

\* After a drop the feed falls in step with the stream again: every carrier
\* push returns ends where a carrier of the whole stream ends.
EndsAtBoundary ==
    \A k \in 1..Len(spans) :
        (over /\ k = Len(spans)) \/ spans[k].to \in ToSet(Starts(stream))

\* Whatever was dropped, a carrier's payloads are those of the NAL units of the
\* whole stream whose start codes it covers: none is cut short, made up out of
\* the rest of a carrier that was let go, or taken off a neighbour.
PayloadsIntact ==
    \A k \in 1..Len(delivered) :
        LET codes == Ascending({c \in StartCodes(stream) : spans[k].from <= c /\ c < spans[k].to})
        IN  delivered[k].payloads =
                FlattenSeq([i \in 1..Len(codes) |-> UserDataInNal(NalBytes(stream, codes[i]))])
=============================================================================
