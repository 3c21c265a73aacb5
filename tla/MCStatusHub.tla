----------------------------- MODULE MCStatusHub -----------------------------
(* StatusHub for TLC. *)
EXTENDS StatusHub

CONSTANTS s1, s2, d1, d2

OneEach == [s \in Stream |-> IF s = s1 THEN d1 ELSE d2]
=============================================================================
