------------------------------- MODULE MCQuery -------------------------------
(***************************************************************************)
(* Three hosts on a circle of eight identifiers, one of which looks up one *)
(* key; host 1 founds the ring and the others join through it.             *)
(*                                                                         *)
(* With spans of 4, host 2 has a finger that starts at 6, which belongs to *)
(* host 1, and host 1 one at 5, of which host 2 cannot tell.               *)
(***************************************************************************)
EXTENDS ChordQuery

MCNode == {1, 2, 4}

MCJoinPoint == [n \in MCNode |-> 1]

MCNoFingers == [n \in MCNode |-> {}]
MCFingers == [n \in MCNode |-> IF n = 4 THEN {} ELSE {4}]
=============================================================================
