---------------------------- MODULE MCLinkServer ----------------------------
(* LinkServer for TLC. *)
EXTENDS LinkServer, TLC

CONSTANTS c1, c2, c3, n1, n2, t1, t2, x1, x2, d1, d2

AllOrNothing == {{}, Capability}
Everything == {Capability}
MayFail == {TRUE, FALSE}
Succeeds == {TRUE}

\* Calls are interchangeable, and so are values of the same kind.
Symmetry == Permutations(Call) \cup Permutations(Nonce)
              \cup Permutations(Token) \cup Permutations(Secret)
=============================================================================
