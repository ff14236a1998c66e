--------------------------------- MODULE Ep ---------------------------------
(***************************************************************************)
(* ep.rs over whole byte strings: what its two loops return. The loops     *)
(* themselves, a byte at a time, are EpLoop, which checks that they agree. *)
(***************************************************************************)
EXTENDS Bytes

\* remove_emulation_prevention drops the byte at i of the wire: a 3 after two
\* zeroes. A dropped byte is not zero, so the count of zeroes the code resets
\* is the length of the run of zeroes before i.
IsEscape(wire, i) == i >= 2 /\ Slice(wire, i - 2, i + 1) = <<0, 0, 3>>

RemoveEmulationPrevention(wire) ==
    LET kept == Ascending({i \in 0..(Len(wire) - 1) : ~IsEscape(wire, i)})
    IN  [k \in 1..Len(kept) |-> At(wire, kept[k])]

\* insert_emulation_prevention puts a 3 before the byte at i of the rbsp. The
\* count of zeroes restarts at every 3, so in a run of zeroes there is one
\* after each pair.
\* (A slip beside it: a count of zeroes that does not restart.)
SlipNoRestart(rbsp, i) == At(rbsp, i) <= 3 /\ i - ZeroRun(rbsp, 0, i) >= 2

NeedsEscape(rbsp, i) ==
    LET zeros == i - ZeroRun(rbsp, 0, i)
    IN  At(rbsp, i) <= 3 /\ zeros >= 2 /\ zeros % 2 = 0

InsertEmulationPrevention(rbsp) ==
    FlattenSeq([k \in 1..Len(rbsp) |->
        IF NeedsEscape(rbsp, k - 1) THEN <<3, rbsp[k]>> ELSE <<rbsp[k]>>])
=============================================================================
