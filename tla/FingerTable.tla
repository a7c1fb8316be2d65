----------------------------- MODULE FingerTable -----------------------------
(***************************************************************************)
(* getSuccessorOf(): where a host sends a lookup, by its finger table.  A  *)
(* table is a function from the first keys of the fingers to nodes, NULL   *)
(* where the map has no entry.                                             *)
(***************************************************************************)
EXTENDS RingArith

CONSTANT NULL    \* the null pointer; no entry

Entries(table) == {s \in DOMAIN table : table[s] # NULL}

MaxOf(S) == CHOOSE s \in S : \A t \in S : t <= s
MinOf(S) == CHOOSE s \in S : \A t \in S : s <= t

\* Stepping back from the largest entry leaves the table.  libstdc++'s
\* iterator re-enters its tree at the second or the third largest entry, or at
\* the only one (with two entries it may also read past the map; not modelled).
SteppedOut(table) ==
  {table[s] : s \in
     {e \in Entries(table) : /\ Cardinality({f \in Entries(table) : f > e}) <= 2
                             /\ Entries(table) # {e} => e # MaxOf(Entries(table))}}

\* The hosts it may return for a key; `succ' is the successor.  It walks the
\* table from the largest first key down to one below the key, then steps back.
GetSuccessorOf(table, succ, key) ==
  LET below == {s \in Entries(table) : s < key}
      above == Entries(table) \ below
  IN IF below = {} THEN {succ}
     ELSE IF above = {} THEN SteppedOut(table)
     ELSE IF MinOf(above) = MaxOf(Entries(table)) THEN {succ}
     ELSE {table[MinOf(above)]}
=============================================================================
