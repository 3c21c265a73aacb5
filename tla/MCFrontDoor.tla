----------------------------- MODULE MCFrontDoor -----------------------------
(* FrontDoor with bytes of two bits, and machines with and without a network. *)
EXTENDS FrontDoor

If(ip, v4, loopback, linkLocal) ==
    [ip |-> ip, v4 |-> v4, loopback |-> loopback, linkLocal |-> linkLocal]

Networks ==
    {<<If(<<7>>, TRUE, TRUE, FALSE)>>,
     <<If(<<7>>, TRUE, TRUE, FALSE), If(<<8>>, FALSE, FALSE, FALSE),
       If(<<9, 46, 9>>, TRUE, FALSE, FALSE), If(<<9, 46, 8>>, TRUE, FALSE, FALSE)>>}

Name == <<104>>
=============================================================================
