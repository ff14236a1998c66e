------------------------------ MODULE MCEpLoop ------------------------------
(***************************************************************************)
(* Every payload of up to MaxLen of the bytes ep.rs tells apart: 0, the    *)
(* three others that have to be escaped, and the least that need not be.   *)
(***************************************************************************)
EXTENDS EpLoop

ToldApart == 0..4
=============================================================================
