----------------------------- MODULE MCEdgeSync -----------------------------
(* EdgeSync for TLC. *)
EXTENDS EdgeSync

CONSTANTS c1, c2

InOrder == [signed |-> TRUE, payload |-> "matching", grant |-> "none"]
WithGrant == [InOrder EXCEPT !.grant = "valid"]
Unsigned == [InOrder EXCEPT !.signed = FALSE]

AllInOrder == [c \in Command |-> InOrder]
OneGrant == [AllInOrder EXCEPT ![c1] = WithGrant]
GrantAndUnsigned == [OneGrant EXCEPT ![c2] = Unsigned]
=============================================================================
