------------------------------ MODULE MCSplice ------------------------------
(***************************************************************************)
(* Splice on small packets of HEVC in both framings and of AV1.            *)
(***************************************************************************)
EXTENDS Splice

\* Every concatenation of at most n members of pieces.
Concatenations(pieces, n) ==
    {FlattenSeq(s) : s \in UNION {[1..k -> pieces] : k \in 0..n}}

Uuid1 == <<200>>

\* The second is escaped, ends in a zero, and makes a NAL too long for a length
\* of two digits.
Notes2 == {<<200>>, <<200, 0, 0, 3, 0>>}

\* NAL units. The trailing picture is not of the first temporal layer; the
\* stump has no type.
Cra     == <<42, 1, 175>>
Trail   == <<2, 3, 208>>
Mine    == WriteUserDataAt(<<200, 7>>, 1)
Theirs  == WriteUserDataAt(<<201, 7>>, 1)
Stump   == <<42>>

AnnexBs ==
    Concatenations({START_CODE \o Cra, <<0, 0, 1>> \o Trail, <<0, 0, 1>> \o Mine, <<0>>}, 3)
        \cup Concatenations({<<0, 0, 1>> \o Trail, <<0, 0, 1>> \o Stump,
                             START_CODE \o Theirs, <<9>>}, 3)

\* Three samples end in the middle of a length or of a NAL.
Samples ==
    {SampleOf(nals, 2).bytes :
        nals \in UNION {[1..k -> {Cra, Trail, Mine, Stump, << >>}] : k \in 0..3}}
        \cup {<<0>>, <<0, 2, 9>>, SampleOf(<<Mine, Cra>>, 2).bytes \o <<0>>}

\* OBUs.
Delimiter == <<18, 0>>
Sequence  == <<10, 1, 16>>
Frame     == <<50, 2, 18, 0>>
Own       == WriteMetadata(<<200, 7>>)
LastFrame == <<48, 5>>
Forbidden == <<128>>

Av1s == Concatenations({Delimiter, Sequence, Frame, Own}, 3)
            \cup {b \o end : b \in Concatenations({Delimiter, Sequence, Own}, 2),
                             end \in {LastFrame, Forbidden}}

Av1Packets == [framing : {Av1}, bytes : Av1s]
SmallPackets ==
    Av1Packets
        \cup [framing : {AnnexB}, bytes : AnnexBs]
        \cup [framing : {LengthPrefixed(2)}, bytes : Samples]

\* The notes of a packet fit a width of four and not all of them one of two;
\* none is no width.
SmallWidths == {0, 2, 4}
=============================================================================
