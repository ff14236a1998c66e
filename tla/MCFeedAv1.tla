----------------------------- MODULE MCFeedAv1 -----------------------------
(***************************************************************************)
(* Feed on small AV1 streams.                                              *)
(***************************************************************************)
EXTENDS FeedDocs, Weave

\* Every concatenation of at most n members of pieces.
Concatenations(pieces, n) ==
    {FlattenSeq(s) : s \in UNION {[1..k -> pieces] : k \in 0..n}}

Uuid1 == <<200>>

\* OBUs. SizedDelimiter is what writers write; the sequence header's payload
\* and the frame's read as a header if a feed loses its place.
Delimiter == <<18, 0>>
Sequence  == <<10, 1, 16>>
Frame     == <<50, 2, 18, 0>>
Extended  == <<54, 0, 1, 10>>
LastFrame == <<48, 5>>
Mine      == WriteMetadata(<<200, 7>>)
Theirs    == WriteMetadata(<<201, 128>>)
Forbidden == <<128>>
TooLarge  == <<50, 255, 127>>

WholeAv1 == Concatenations({Delimiter, Sequence, Frame, Mine}, 4)
                \cup Concatenations({Delimiter, Extended, LastFrame, Theirs}, 4)

\* Some with a payload in every temporal unit. The last sequence header runs to
\* the end of the stream.
LastSequence == <<8, 16>>
EncodedAv1 == {b \o end : b \in Concatenations({Delimiter, Sequence, Frame, Mine}, 3),
                          end \in {<< >>, Delimiter, LastFrame, LastSequence}}

\* And a stream that ends anywhere, with payloads before the end.
WholeFile == Delimiter \o Sequence \o Mine \o Frame \o Delimiter \o Mine \o Extended
CutAv1    == {Slice(WholeFile, 0, length) : length \in 0..Len(WholeFile)}

WholeWovenAndCut == WholeAv1 \cup WovenStreams \cup CutAv1

BadAv1 == Concatenations({Delimiter, Mine, Forbidden}, 4)
                \cup Concatenations({Delimiter, Sequence, Mine, TooLarge}, 3)
\* A frame with room for more than the limit, and delimiters in what it holds.
LongFrame == <<50, 12>> \o [i \in 1..12 |-> IF i % 2 = 1 THEN 18 ELSE 0]
HidesHeaders == {Delimiter \o Frame \o Delimiter \o LongFrame \o Delimiter \o Frame}

AnySize == {1, 2, 3, 5, 9, 24}

=============================================================================
