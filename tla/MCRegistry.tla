----------------------------- MODULE MCRegistry -----------------------------
(* Registry for TLC. *)
EXTENDS Registry, TLC

CONSTANTS d1, d2

DeviceSymmetry == Permutations(Device)
=============================================================================
