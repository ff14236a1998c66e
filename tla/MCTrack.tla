------------------------------ MODULE MCTrack -------------------------------
(***************************************************************************)
(* Track on headers of a few parameter sets, start-coded and in records of *)
(* every width, with lengths in base three and counts below four.          *)
(***************************************************************************)
EXTENDS Track

Uuid1 == <<200>>
\* The NAL of the second is just too long for a length of two digits.
Notes2 == {<<200, 7>>, <<200, 1, 2, 3, 4>>}

Lists(elements, n) == UNION {[1..k -> elements] : k \in 0..n}

-----------------------------------------------------------------------------
\* Parameter sets. The last three are too short to be an SPS, too short for its
\* formats, and too long for a record.
SpsA     == <<103, 66, 192, 30, 171>>
SpsB     == <<103, 77, 64, 31, 5>>
PpsA     == <<104, 238>>
PpsB     == <<104, 206, 56>>
SpsShort == <<103, 66, 192>>
SpsStump == <<103, 100, 0, 31, 64>>
SpsLong  == SpsA \o <<1, 2, 3, 4>>
Aud      == <<9, 240>>

\* An SPS of a high profile as an encoder writes it, a bit at a time.
Bin(v, width) == [k \in 1..width |-> (v \div 2 ^ (width - k)) % 2]
Exponent(v)   == Max({z \in 0..8 : 2 ^ z <= v + 1})
PutUe(v)      == [k \in 1..Exponent(v) |-> 0] \o Bin(v + 1, Exponent(v) + 1)
Packed(bits)  ==
    LET bit(i) == IF i <= Len(bits) THEN bits[i] ELSE 0
    IN  [k \in 1..((Len(bits) + 7) \div 8) |->
            FoldSet(LAMBDA i, sum : sum + bit(8 * (k - 1) + i) * 2 ^ (8 - i), 0, 1..8)]
SpsHigh(id, formats) ==
    <<103, 100, 0, 31>> \o
        Packed(PutUe(id) \o PutUe(formats[1]) \o (IF formats[1] = 3 THEN <<0>> ELSE << >>)
                   \o PutUe(formats[2]) \o PutUe(formats[3]) \o <<1>>)

-----------------------------------------------------------------------------
\* NAL units of packets, alone and together, one longer than two digits spell.
Idr    == <<101, 136>>
Next2  == <<101, 64>>
Long   == <<101, 136, 1, 2, 3, 4, 5, 6, 7, 8>>
Theirs == <<6, 5, 1, 201, 128>>
Usual  == <<Idr, Next2>>
Others == {<< >>, <<Aud>>, <<SpsA, PpsA, Idr>>, <<Long>>, <<Theirs, Idr>>}

OfType(nals, kind) == SelectSeq(nals, LAMBDA nal : nal[1] % 32 = kind)

Track1(extradata, how, sets, formats, nals) ==
    [header |-> extradata, framing |-> how, nals |-> nals, formats |-> formats,
     sps |-> OfType(sets, 7), pps |-> OfType(sets, 8)]

\* Streams of an encoder: extradata with padding behind every set or none.
Padded(sets, pad) == FlattenSeq([k \in 1..Len(sets) |-> START_CODE \o sets[k] \o pad])
Encoded(sets, formats, nals) == Track1(StartCoded(sets), AnnexB, sets, formats, nals)

FormatsHigh == {<<1, 0, 0>>, <<3, 6, 0>>, <<2, 2, 5>>, <<0, 0, 1>>}

Encoders ==
    {Encoded(sets, << >>, Usual) : sets \in Lists({SpsA, SpsB, PpsA, PpsB}, 3)}
        \cup {Encoded(<<SpsA, PpsA>>, << >>, nals) : nals \in Others}
        \cup {Encoded(<<SpsHigh(id, f), SpsA, PpsA>>, f, Usual) :
                id \in {0, 4}, f \in FormatsHigh}
        \cup {Encoded(<<sps, PpsA>>, << >>, Usual) : sps \in {SpsShort, SpsStump, SpsLong}}
        \cup {Encoded(<<SpsA, SpsB, SpsB, SpsA, PpsA>>, << >>, Usual),
              Encoded(<<SpsB, PpsA, PpsB, PpsA, PpsA>>, << >>, Usual),
              Encoded(<<Aud, SpsA, Aud, PpsB>>, << >>, Usual),
              Track1(Padded(<<SpsA, PpsA>>, <<0, 0>>), AnnexB, <<SpsA, PpsA>>, << >>, Usual)}

\* Tracks of a container: records another writer wrote, of any width, some with
\* bytes after the sets and some with no set at all.
Record(width, sps, pps, after) ==
    <<1>> \o (IF sps = << >> THEN <<66, 0, 30>> ELSE Slice(sps[1], 1, 4))
        \o <<252 + width - 1, 252 + Len(sps)>> \o Prefixed(sps, 2)
        \o <<Len(pps)>> \o Prefixed(pps, 2) \o after
Written(width, sps, pps, after, nals) ==
    Track1(Record(width, sps, pps, after), LengthPrefixed(width), sps \o pps, << >>, nals)

Containers ==
    {Written(width, sps, <<PpsB>>, after, Usual) :
        width \in 1..4, sps \in Lists({SpsA, SpsB}, 2), after \in {<< >>, <<253, 248, 248, 0>>}}
        \cup {Written(width, << >>, << >>, << >>, Usual) : width \in {2, 4}}
        \cup {Written(4, <<SpsA>>, <<PpsA>>, << >>, nals) : nals \in Others}

SmallTracks == Encoders \cup Containers
=============================================================================
