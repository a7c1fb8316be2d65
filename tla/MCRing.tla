------------------------------- MODULE MCRing -------------------------------
(***************************************************************************)
(* Three hosts on a circle of eight identifiers; host 1 founds the ring    *)
(* and the others join through it.                                         *)
(***************************************************************************)
EXTENDS ChordRing

MCNode == {1, 3, 6}

MCJoinPoint == [n \in MCNode |-> 1]

MCNoFingers == [n \in MCNode |-> {}]
=============================================================================
