------------------------------- MODULE Bytes -------------------------------
(***************************************************************************)
(* Byte strings as the crate's slices are used: offsets count from zero,   *)
(* a TLA+ sequence counts from one, and only this module knows both.       *)
(***************************************************************************)
EXTENDS Integers, Sequences, FiniteSets, SequencesExt, FiniteSetsExt

Byte == 0..255

\* b[i]
At(b, i) == b[i + 1]

\* &b[i..j]
Slice(b, i, j) == SubSeq(b, i + 1, j)

\* b.drain(..k): what is left of b.
DropFront(b, k) == SubSeq(b, k + 1, Len(b))

\* b with more put in at offset at.
Spliced(b, at, more) == Slice(b, 0, at) \o more \o DropFront(b, at)

\* What a call that makes bytes returns: Ok(bytes) or Err.
Ok(bytes) == [ok |-> TRUE, bytes |-> bytes]
Err       == [ok |-> FALSE, bytes |-> << >>]

\* Where the run of zero bytes that ends at offset `at` begins, looking no
\* further back than `floor`: one past the last non-zero byte between them.
ZeroRun(b, floor, at) ==
    Max({floor} \cup {i + 1 : i \in {j \in floor..(at - 1) : At(b, j) # 0}})

\* b without its zero padding and then without one 0x80: the
\* rbsp_trailing_bits of an SEI and the trailing_bits of an OBU.
StripTrailingBits(b) ==
    LET end == ZeroRun(b, 0, Len(b))
    IN  IF end > 0 /\ At(b, end - 1) = 128 THEN Slice(b, 0, end - 1)
                                           ELSE Slice(b, 0, end)

\* A finite set of offsets in ascending order: at k stands the member with k - 1
\* members below it.
Below(S, x)  == {y \in S : y < x}
Ascending(S) ==
    [k \in 1..Cardinality(S) |-> CHOOSE x \in S : Cardinality(Below(S, x)) = k - 1]
=============================================================================
