----------------------------- MODULE MCFeedNal -----------------------------
(***************************************************************************)
(* Feed on small H.264 and HEVC streams.                                   *)
(***************************************************************************)
EXTENDS FeedDocs, Weave

\* Every concatenation of at most n members of pieces.
Concatenations(pieces, n) ==
    {FlattenSeq(s) : s \in UNION {[1..k -> pieces] : k \in 0..n}}

Uuid1 == <<200>>

\* Messages, for the codec at hand.
Sei(payload) == <<0, 0, 1>> \o WriteUserDataAt(payload, 1)
Mine      == Sei(<<200, 7>>)
MineZeros == Sei(<<200, 0, 0, 1>>)
Theirs    == Sei(<<201, 7>>)

\* NAL units of H.264, each after a start code.
Delimiter == <<0, 0, 1, 9, 240>>
IdrFirst  == <<0, 0, 0, 1, 101, 136>>
IdrNext   == <<0, 0, 1, 101, 64>>
PFirst    == <<0, 0, 1, 65, 154>>
Filler    == <<0, 0, 1, 12, 255, 128>>

Whole264 == Concatenations({IdrFirst, IdrNext, Mine, <<0>>}, 4)
                \cup Concatenations({PFirst, Delimiter, Filler, Theirs}, 3)

\* Some of them with a payload in every carrier, in front of the payloads of
\* the encoder's own or behind them.
Encoded264 == Concatenations({IdrFirst, IdrNext, PFirst, Mine}, 3)
Whole264AndWoven == Whole264 \cup WovenStreams

\* NAL units of HEVC. The stump is too short to have a type.
CraFirst  == <<0, 0, 0, 1, 42, 1, 175>>
CraNext   == <<0, 0, 1, 42, 1, 32>>
Trail     == <<0, 0, 1, 2, 2, 208>>
Suffix    == <<0, 0, 1, 80, 1, 128>>
Stump     == <<0, 0, 1, 42>>

\* One SEI with two messages, in a picture with another after it.
TwoMessages == <<0, 0, 1, 78, 1, 5, 1, 200, 5, 1, 200, 128>> \o Trail \o Trail

Long265 == Concatenations({CraFirst, CraNext, MineZeros, <<0>>}, 3)
                \cup Concatenations({Trail, Stump, Mine}, 3) \cup {TwoMessages}

\* A picture, what follows it, and the next picture.
SuffixBetween == {CraFirst \o Suffix \o Trail}

\* One carrier, more than twice as long as the limit of the run.
OneLong == {Trail \o [i \in 1..20 |-> 255] \o Trail}

AnySize == {1, 2, 3, 5, 9, 24}

\* Spec with its fairness spelled out: PushSteps is enabled exactly when a call
\* is in progress (were it not, TLC would report a deadlock), so this is what
\* WF_vars(PushSteps) says. TLC evaluates ENABLED without caching what the
\* parsers return, which is out of its reach here.
RunSpec == Init /\ [][Next]_vars /\ ([]<>(call = "idle") \/ []<><<PushSteps>>_vars)
=============================================================================
