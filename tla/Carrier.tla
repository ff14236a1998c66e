------------------------------ MODULE Carrier ------------------------------
(***************************************************************************)
(* What putting payloads into a packet promises, whatever the framing: a   *)
(* packet is the units before its picture and the units from the picture   *)
(* on. A payload is added behind everything that stands before the picture *)
(* and nothing else changes, neither then nor when the packet is reframed. *)
(***************************************************************************)
EXTENDS Sequences

CONSTANTS
    Notes,      \* the payloads a caller may put in
    Bytes       \* what any other unit holds

VARIABLES
    before,     \* the units before the picture
    picture     \* the picture, and what follows it

Units == [note : BOOLEAN, bytes : Bytes]

Note(payload) == [note |-> TRUE, bytes |-> payload]

Init == before \in Seq(Units) /\ picture \in Seq(Units)

Insert(payload) ==
    /\ before' = Append(before, Note(payload))
    /\ UNCHANGED picture

Next == \E payload \in Notes : Insert(payload)

Spec == Init /\ [][Next]_<<before, picture>>
=============================================================================
