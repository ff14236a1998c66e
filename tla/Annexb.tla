------------------------------- MODULE Annexb -------------------------------
(***************************************************************************)
(* annexb.rs: the NAL units of an Annex B byte stream.                     *)
(*                                                                         *)
(* The code scans left to right and skips three bytes past a start code.   *)
(* Two matches of 00 00 01 cannot overlap, so the codes it finds are all   *)
(* the offsets at which 00 00 01 stands, and a NAL is named by the offset  *)
(* of its code.                                                            *)
(***************************************************************************)
EXTENDS Bytes

START_CODE == <<0, 0, 0, 1>>

StartCodes(b) ==
    {i \in 0..(Len(b) - 3) : At(b, i) = 0 /\ At(b, i + 1) = 0 /\ At(b, i + 2) = 1}

\* NalRef.pad, .code and .start of the NAL whose 00 00 01 is at c.
NalPad(b, c)   == ZeroRun(b, 0, c)
NalCode(b, c)  == IF c > NalPad(b, c) THEN c - 1 ELSE c
NalStart(c)    == c + 3

\* NalRef.end: before the zeroes that lead to the next start code, or that
\* pad the stream out. The 01 before the NAL stops the code's walk back, so
\* its (*next).max(*start) is the floor of the run.
NalEnd(b, c) ==
    LET next == Min({d \in StartCodes(b) : d > c} \cup {Len(b)})
    IN  ZeroRun(b, NalStart(c), next)

NalBytes(b, c) == Slice(b, NalStart(c), NalEnd(b, c))

ScanNals(b) ==
    LET codes == Ascending(StartCodes(b))
    IN  [k \in 1..Len(codes) |->
            [pad   |-> NalPad(b, codes[k]),   code |-> NalCode(b, codes[k]),
             start |-> NalStart(codes[k]),    end  |-> NalEnd(b, codes[k]),
             bytes |-> NalBytes(b, codes[k])]]

\* split_nals
SplitNals(b) ==
    LET bytes(nals) == [k \in 1..Len(nals) |-> nals[k].bytes]
    IN  bytes(ScanNals(b))

\* A NAL unit as an encoder writes one: no start code in it, and no zero last
\* (a scan takes either for the end of it).
CleanNal(nal) ==
    /\ nal \in Seq(Byte)
    /\ nal # << >> => At(nal, Len(nal) - 1) # 0
    /\ StartCodes(nal) = {}
=============================================================================
