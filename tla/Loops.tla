------------------------------- MODULE Loops --------------------------------
(***************************************************************************)
(* The loops of annexb.rs, h26x.rs and obu.rs that cut bytes into NAL      *)
(* units, access units and temporal units, a round at a time, as the code  *)
(* goes through them. Annexb, H26x and Obu state what they return; here is *)
(* how, so that the two can be compared.                                   *)
(***************************************************************************)
EXTENDS H26x, Obu

-----------------------------------------------------------------------------
\* scan_nals: the start codes, left to right, three bytes on past each.
CodesLoop(b) ==
    LET from[at \in 0..(Len(b) + 2)] ==
            IF at + 2 >= Len(b) THEN << >>
            ELSE IF Slice(b, at, at + 3) = <<0, 0, 1>> THEN <<at>> \o from[at + 3]
            ELSE from[at + 1]
    IN  from[0]

\* scan_nals: the second loop. An end is where the padding before the next code
\* begins, but not before the NAL does.
ScanLoop(b) ==
    LET codes  == CodesLoop(b)
        pad(k) == ZeroRun(b, 0, codes[k])
        end(k) == IF k = Len(codes) THEN ZeroRun(b, codes[k] + 3, Len(b))
                                    ELSE Max({pad(k + 1), codes[k] + 3})
    IN  [k \in 1..Len(codes) |->
            [pad   |-> pad(k), code |-> IF codes[k] > pad(k) THEN codes[k] - 1 ELSE codes[k],
             start |-> codes[k] + 3, end |-> end(k), bytes |-> Slice(b, codes[k] + 3, end(k))]]

-----------------------------------------------------------------------------
\* insert_at of a unit without a place yet: usize::MAX.
NoPlace == -1

\* The units so far, the last of them ended where the next begins.
Ended(units, end) ==
    IF units = << >> THEN units ELSE [units EXCEPT ![Len(units)].end = end]

\* What follows both loops: a unit with no place takes its own end.
Placed(units) ==
    [k \in 1..Len(units) |->
        [units[k] EXCEPT !.insert_at = IF @ = NoPlace THEN units[k].end ELSE @]]

-----------------------------------------------------------------------------
\* access_units. A round of its loop leaves the units so far and seen_slice.
OpenUnit(b, nal) ==
    [start |-> nal.pad, end |-> Len(b), insert_at |-> NoPlace, keyframe |-> FALSE,
     temporal_id_plus1 |-> 1]

Boundary(round, nal) == round.out = << >> \/ (round.seen_slice /\ Opens(nal.bytes))

\* A slice put down to the unit that is open.
WithSlice(unit, nal) ==
    LET first == unit.insert_at = NoPlace
    IN  [unit EXCEPT
            !.insert_at = IF first THEN nal.code ELSE @,
            !.temporal_id_plus1 = IF first THEN TemporalIdPlus1(nal.bytes) ELSE @,
            !.keyframe = @ \/ IsKeyframeType(NalType(nal.bytes))]

AfterNal(b, round, nal) ==
    LET opened == IF Boundary(round, nal)
                  THEN [out |-> Append(Ended(round.out, nal.pad), OpenUnit(b, nal)),
                        seen_slice |-> FALSE]
                  ELSE round
        last   == Len(opened.out)
    IN  IF NalType(nal.bytes) = NoType THEN round
        ELSE IF ~IsVcl(nal.bytes) THEN opened
        ELSE [out |-> [opened.out EXCEPT ![last] = WithSlice(@, nal)], seen_slice |-> TRUE]

AccessUnitsLoop(b) ==
    Placed(FoldLeft(LAMBDA round, nal : AfterNal(b, round, nal),
                    [out |-> << >>, seen_slice |-> FALSE], ScanLoop(b)).out)

-----------------------------------------------------------------------------
\* temporal_units, of the OBUs of b.
OpenTemporalUnit(b, at) ==
    [start |-> at, end |-> Len(b), insert_at |-> NoPlace, has_sequence_header |-> FALSE]

AfterObu(b, units, at) ==
    LET kind   == ObuAt(b, at).kind
        opened == IF units = << >> \/ kind = OBU_TEMPORAL_DELIMITER
                  THEN Append(Ended(units, at), OpenTemporalUnit(b, at)) ELSE units
    IN  [opened EXCEPT
            ![Len(opened)].has_sequence_header = @ \/ kind = OBU_SEQUENCE_HEADER,
            ![Len(opened)].insert_at = IF kind \in FRAME_OBUS /\ @ = NoPlace THEN at ELSE @]

TemporalUnitsLoop(b) ==
    Placed(FoldLeft(LAMBDA units, at : AfterObu(b, units, at), << >>, Ascending(ObuStarts(b))))
=============================================================================
