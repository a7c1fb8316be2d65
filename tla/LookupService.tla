---------------------------- MODULE LookupService ----------------------------
(***************************************************************************)
(* What the lookup API promises an application: query(key) returns the     *)
(* node responsible for the key, the first member at or after it on the    *)
(* circle.                                                                 *)
(***************************************************************************)
EXTENDS RingArith

CONSTANTS Node, Key, NULL

VARIABLES
  members,    \* the nodes of the ring
  call,       \* the key each node is looking up, or NULL
  answer      \* what each node's last lookup returned: NULL, or the key and host

Init ==
  /\ members \in (SUBSET Node) \ {{}}
  /\ call = [n \in Node |-> NULL]
  /\ answer = [n \in Node |-> NULL]

Ask(n) ==
  /\ n \in members
  /\ call[n] = NULL
  /\ \E k \in Key : call' = [call EXCEPT ![n] = k]
  /\ answer' = [answer EXCEPT ![n] = NULL]
  /\ UNCHANGED members

Answer(n) ==
  /\ call[n] # NULL
  /\ answer' = [answer EXCEPT
       ![n] = [key |-> call[n], host |-> Owner(members, call[n])]]
  /\ call' = [call EXCEPT ![n] = NULL]
  /\ UNCHANGED members

\* The caller's timeout expires: no host is returned.
GiveUp(n) ==
  /\ call[n] # NULL
  /\ call' = [call EXCEPT ![n] = NULL]
  /\ UNCHANGED <<members, answer>>

\* A node joins between calls.
Grow ==
  /\ call = [n \in Node |-> NULL]
  /\ \E n \in Node \ members : members' = members \cup {n}
  /\ UNCHANGED <<call, answer>>

Next == Grow \/ \E n \in Node : Ask(n) \/ Answer(n) \/ GiveUp(n)

Spec == Init /\ [][Next]_<<members, call, answer>>
=============================================================================
