------------------------------ MODULE MCPaneHub ------------------------------
(* PaneHub for TLC.  Streams, devices and sessions are interchangeable. *)
EXTENDS PaneHub, TLC

Symmetry == Permutations(Stream) \cup Permutations(Device) \cup Permutations(Session)
=============================================================================
