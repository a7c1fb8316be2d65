------------------------------ MODULE MCLookup ------------------------------
(* A ring of three, or of two that a third node joins, on a circle of 8.   *)
EXTENDS ChordLookup

MCNode == {0, 1, 4}
MCPair == {0, 4}
MCKey == {1, 2, 6}
=============================================================================
