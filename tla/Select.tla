------------------------------- MODULE Select -------------------------------
(***************************************************************************)
(* lib.rs: which of a carrier's payloads are the caller's own.             *)
(*                                                                         *)
(* Uuid stands for the sixteen bytes such a payload opens with: the code   *)
(* only ever asks whether a payload starts with them, so their number is   *)
(* left open. MetadataType is the type of the AV1 metadata OBUs.           *)
(***************************************************************************)
EXTENDS Bytes

CONSTANTS Uuid, MetadataType

ASSUME SelectAssumption ==
    /\ Uuid \in Seq(Byte) /\ Len(Uuid) > 0
    /\ MetadataType \in Nat
=============================================================================
