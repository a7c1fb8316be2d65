------------------------------ MODULE RingArith ------------------------------
(***************************************************************************)
(* The identifier circle: the arithmetic on 32-bit unsigned integers that  *)
(* decides which node owns a key and where the fingers of a node start.    *)
(*                                                                         *)
(* A node is identified with its hashedId.  RingSize is                    *)
(* 2^CHORD_LENGTH_BIT, which is also 2^32, the modulus of unsigned int; it *)
(* is a parameter so that TLC can use a small circle.                      *)
(***************************************************************************)
EXTENDS Integers, FiniteSets

CONSTANT RingSize        \* 2^CHORD_LENGTH_BIT

ASSUME RingSizeAssumption == RingSize \in Nat \ {0}

Ident == 0 .. RingSize - 1

UINT_MAX == RingSize - 1

(***************************************************************************)
(* isInSuccessor(key) with its default start (hashedId) and end            *)
(* (successor->hashedId): every call in the program uses the defaults.     *)
(***************************************************************************)
NeverWraps(key, start, end) == key > start /\ key <= end

ForgetsTheLowArc(key, start, end) ==
  \/ key > start /\ key <= end
  \/ start > end /\ key > start

IsInSuccessor(key, start, end) ==
  \/ key > start /\ key <= end
  \/ start > end /\ key <= end
  \/ start > end /\ key > start

\* How far ahead of their node the fingers start: 2^i for i < CHORD_LENGTH_BIT.
Span == {p \in Ident : \E i \in 0 .. RingSize : p = 2 ^ i}

(***************************************************************************)
(* The first key of the finger of a node n whose span is p (a power of 2), *)
(* with the code's own guard against exceeding UINT_MAX.                   *)
(***************************************************************************)
SaturatingStart(n, p) == IF UINT_MAX - p < n THEN UINT_MAX ELSE n + p

FingerStart(n, p) ==
  IF UINT_MAX - p < n
  THEN n - (UINT_MAX - p)
  ELSE n + p

-----------------------------------------------------------------------------
(* Reference definitions, in terms of distance round the circle.           *)

\* Steps clockwise from a to b.
Clockwise(a, b) == IF a <= b THEN b - a ELSE RingSize - a + b

\* key lies in the half-open arc that starts after `start' and ends at `end'.
InArc(key, start, end) ==
  /\ key # start
  /\ Clockwise(start, key) <= Clockwise(start, end)

\* The member of S met first when walking clockwise from just after n.
NextOn(S, n) ==
  IF S \ {n} = {}
  THEN n
  ELSE CHOOSE s \in S \ {n} :
         \A t \in S \ {n} : Clockwise(n, s) <= Clockwise(n, t)

\* The member of S met first when walking counter-clockwise from n.
PreviousOn(S, n) ==
  IF S \ {n} = {}
  THEN n
  ELSE CHOOSE s \in S \ {n} :
         \A t \in S \ {n} : Clockwise(s, n) <= Clockwise(t, n)

\* The members of S met on the way clockwise from n to m, with both.
UpTo(S, n, m) == {t \in S : Clockwise(n, t) <= Clockwise(n, m)}

\* The node of S that is responsible for key: the first at or after it.
Owner(S, key) == IF key \in S THEN key ELSE NextOn(S, key)
=============================================================================
