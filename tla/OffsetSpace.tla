---------------------------- MODULE OffsetSpace ----------------------------
(***************************************************************************)
(* The offsets of a stream: 64-bit in the code, 0 .. MaxOffset here.  The  *)
(* last one is the exhausted end of the space and is never acknowledged.   *)
(***************************************************************************)
EXTENDS Naturals

CONSTANT MaxOffset          \* u64::MAX

ASSUME MaxOffsetAssumption == MaxOffset \in Nat \ {0}

Offsets == 0 .. MaxOffset
=============================================================================
