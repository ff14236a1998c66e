------------------------------- MODULE EpLoop -------------------------------
(***************************************************************************)
(* ep.rs, a byte at a time: insert_emulation_prevention's loop writes the  *)
(* wire, and remove_emulation_prevention's loop reads it back. Neither     *)
(* looks past the byte it is at, so the reader may follow the writer: each *)
(* reachable state with nothing left to read is one call of both functions *)
(* on the rbsp so far.                                                     *)
(***************************************************************************)
EXTENDS Ep

CONSTANTS
    Payload,    \* the bytes a payload is made of
    MaxLen      \* bound of the model on its length

ASSUME EpLoopAssumption == Payload \subseteq Byte /\ MaxLen \in Nat

VARIABLES
    rbsp,       \* what has been written so far
    wzeros,     \* insert_emulation_prevention: zeros
    wire,       \* insert_emulation_prevention: out
    at,         \* how much of the wire has been read
    rzeros,     \* remove_emulation_prevention: zeros
    back        \* remove_emulation_prevention: out

vars == <<rbsp, wzeros, wire, at, rzeros, back>>

Init ==
    /\ rbsp = << >> /\ wzeros = 0 /\ wire = << >>
    /\ at = 0 /\ rzeros = 0 /\ back = << >>

-----------------------------------------------------------------------------
\* One round of the writer's loop.
Zeros(zeros, byte) == IF byte = 0 THEN zeros + 1 ELSE 0

CaughtUp == at = Len(wire)

Write(byte) ==
    /\ CaughtUp /\ Len(rbsp) < MaxLen
    /\ rbsp' = Append(rbsp, byte)
    /\ UNCHANGED <<at, rzeros, back>>

\* Slips: a 3 that is not escaped, and a third zero let by.
SlipPlainThree(byte) ==
    /\ Write(byte)
    /\ ~(wzeros >= 2 /\ byte <= 2)
    /\ wire' = Append(wire, byte)
    /\ wzeros' = Zeros(wzeros, byte)
SlipThirdZero(byte) ==
    /\ Write(byte)
    /\ ~(wzeros > 2 /\ byte <= 3)
    /\ wire' = Append(wire, byte)
    /\ wzeros' = Zeros(wzeros, byte)

Plain(byte) ==
    /\ Write(byte)
    /\ ~(wzeros >= 2 /\ byte <= 3)
    /\ wire' = Append(wire, byte)
    /\ wzeros' = Zeros(wzeros, byte)

\* A slip: one zero taken for two.
SlipEagerEscape(byte) ==
    /\ Write(byte)
    /\ wzeros >= 1 /\ byte <= 3
    /\ wire' = Append(Append(wire, 3), byte)
    /\ wzeros' = Zeros(0, byte)

Escaped(byte) ==
    /\ Write(byte)
    /\ wzeros >= 2 /\ byte <= 3
    /\ wire' = Append(Append(wire, 3), byte)
    /\ wzeros' = Zeros(0, byte)

\* One round of the reader's loop.
Keep ==
    /\ ~CaughtUp
    /\ LET byte == wire[at + 1]
       IN  /\ ~(rzeros >= 2 /\ byte = 3)
           /\ back' = Append(back, byte)
           /\ rzeros' = Zeros(rzeros, byte)
    /\ at' = at + 1
    /\ UNCHANGED <<rbsp, wzeros, wire>>

Drop ==
    /\ ~CaughtUp
    /\ rzeros >= 2 /\ wire[at + 1] = 3
    /\ rzeros' = 0
    /\ at' = at + 1
    /\ UNCHANGED <<rbsp, wzeros, wire, back>>

Next == (\E byte \in Payload : Plain(byte) \/ Escaped(byte)) \/ Keep \/ Drop

Spec == Init /\ [][Next]_vars

-----------------------------------------------------------------------------
\* Properties.

TypeOK ==
    /\ rbsp \in Seq(Byte) /\ wire \in Seq(Byte) /\ back \in Seq(Byte)
    /\ wzeros \in Nat /\ rzeros \in Nat
    /\ at \in 0..Len(wire)

\* What the reader gets back is what the writer was given, whatever it was:
\* ep.rs, "reading undoes it; writing does it".
RoundTrip == CaughtUp => back = rbsp

\* On the wire no two zeroes are followed by a 0, 1 or 2: no payload grows a
\* start code in the middle of itself. (That a 3 after two zeroes is never one
\* of the payload's is RoundTrip.)
NoStartCode ==
    \A i \in 1..(Len(wire) - 2) : wire[i] = 0 /\ wire[i + 1] = 0 => wire[i + 2] > 2

\* A payload with no 00 00 0x in it goes out byte for byte.
Clear(b) ==
    \A i \in 1..(Len(b) - 2) : b[i] = 0 /\ b[i + 1] = 0 => b[i + 2] > 3
EscapesOnlyWhenNeeded == Clear(rbsp) => wire = rbsp

\* The loops return what Ep says, the operators the rest of the models use.
ClosedForms ==
    CaughtUp => /\ wire = InsertEmulationPrevention(rbsp)
                /\ back = RemoveEmulationPrevention(wire)
=============================================================================
