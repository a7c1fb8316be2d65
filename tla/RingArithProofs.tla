--------------------------- MODULE RingArithProofs ---------------------------
(***************************************************************************)
(* The arithmetic of the identifier circle, for a circle of any size, and  *)
(* what getSuccessorOf() returns.                                          *)
(***************************************************************************)
EXTENDS FingerTable, WellFoundedInduction, FiniteSetTheorems, TLAPS

USE DEF Ident

\* The two comparisons and two wrap-around cases of isInSuccessor() decide
\* exactly whether the key lies in the arc from just after `start' to `end',
\* also for the empty arc of a node that is its own successor.
THEOREM IsInSuccessorExact ==
  \A key, start, end \in Ident : IsInSuccessor(key, start, end) <=> InArc(key, start, end)
  BY RingSizeAssumption DEF IsInSuccessor, InArc, Clockwise

\* If no other member lies between each of two nodes and its successor, then
\* at most one of the two holds a given key to be its successor's: a lookup
\* walking an ideal ring is answered by one node only.
THEOREM OneAnswerer ==
  ASSUME NEW a \in Ident, NEW nextA \in Ident, NEW b \in Ident, NEW nextB \in Ident,
         NEW key \in Ident,
         a # b,
         Clockwise(a, nextA) <= Clockwise(a, b),
         Clockwise(b, nextB) <= Clockwise(b, a)
  PROVE  ~ (IsInSuccessor(key, a, nextA) /\ IsInSuccessor(key, b, nextB))
  <1>1. InArc(key, a, nextA) => Clockwise(a, key) <= Clockwise(a, b)
    BY RingSizeAssumption DEF InArc, Clockwise
  <1>2. InArc(key, b, nextB) => Clockwise(b, key) <= Clockwise(b, a)
    BY RingSizeAssumption DEF InArc, Clockwise
  <1>3. SUFFICES ASSUME InArc(key, a, nextA), InArc(key, b, nextB)
                 PROVE  FALSE
    BY IsInSuccessorExact
  <1>4. key # a /\ key # b /\ Clockwise(a, key) <= Clockwise(a, b)
        /\ Clockwise(b, key) <= Clockwise(b, a)
    BY <1>1, <1>2, <1>3 DEF InArc
  <1> QED
    BY <1>4, RingSizeAssumption DEF Clockwise

\* The first key of a finger stays on the circle, and it is the power of two
\* ahead of the node, or one further when the sum passes UINT_MAX.
THEOREM FingerStartExact ==
  \A n, p \in Ident :
    /\ FingerStart(n, p) \in Ident
    /\ FingerStart(n, p) =
         IF n + p < RingSize THEN n + p ELSE n + p - RingSize + 1
  BY RingSizeAssumption DEF FingerStart, UINT_MAX

-----------------------------------------------------------------------------
(* The member that follows a point of the circle.                          *)

\* Every set of naturals has a least element.
LEMMA Smallest ==
  ASSUME NEW T \in SUBSET Nat, T # {}
  PROVE  \E x \in T : \A y \in T : x <= y
  <1> DEFINE R == OpToRel(<, Nat)
  <1>1. \E x \in T : \A y \in T : ~ (<<y, x>> \in R)
    BY NatLessThanWellFounded, WFMin
  <1>2. ASSUME NEW x \in Nat, NEW y \in Nat
        PROVE  <<y, x>> \in R <=> y < x
    BY DEF OpToRel
  <1> HIDE DEF R
  <1>3. PICK x \in T : \A y \in T : ~ (<<y, x>> \in R)
    BY <1>1
  <1>4. ASSUME NEW y \in T
        PROVE  x <= y
    <2>1. x \in Nat /\ y \in Nat
      OBVIOUS
    <2>2. ~ (y < x)
      BY <1>2, <1>3, <2>1
    <2> QED
      BY <2>1, <2>2
  <1> QED
    BY <1>4

\* Distances round the circle: what the proofs below need of Clockwise.
LEMMA ClockwiseType ==
  ASSUME NEW a \in Ident, NEW b \in Ident
  PROVE  Clockwise(a, b) \in Ident /\ Clockwise(a, b) \in Nat
  BY RingSizeAssumption DEF Clockwise

LEMMA ClockwiseInjective ==
  ASSUME NEW a \in Ident, NEW b \in Ident, NEW c \in Ident,
         Clockwise(a, b) = Clockwise(a, c)
  PROVE  b = c
  BY RingSizeAssumption DEF Clockwise

\* A point on the way from a to c divides the way.
LEMMA ClockwiseAdds ==
  ASSUME NEW a \in Ident, NEW b \in Ident, NEW c \in Ident,
         Clockwise(a, b) <= Clockwise(a, c)
  PROVE  Clockwise(a, c) = Clockwise(a, b) + Clockwise(b, c)
  BY RingSizeAssumption DEF Clockwise

\* NextOn(S, n) is the member of S that comes first after n.
LEMMA NextOnFirst ==
  ASSUME NEW S \in SUBSET Ident, NEW n \in Ident, S \ {n} # {}
  PROVE  /\ NextOn(S, n) \in S \ {n}
         /\ \A t \in S \ {n} : Clockwise(n, NextOn(S, n)) <= Clockwise(n, t)
  <1> DEFINE T == {Clockwise(n, t) : t \in S \ {n}}
  <1>1. T \in SUBSET Nat /\ T # {}
    BY ClockwiseType
  <1>2. \E x \in T : \A y \in T : x <= y
    BY <1>1, Smallest
  <1>3. \E s \in S \ {n} : \A t \in S \ {n} : Clockwise(n, s) <= Clockwise(n, t)
    BY <1>2
  <1> QED
    BY <1>3 DEF NextOn

LEMMA NextOnMember ==
  ASSUME NEW S \in SUBSET Ident, NEW n \in S
  PROVE  NextOn(S, n) \in S
  <1>1. CASE S \ {n} = {}
    BY <1>1 DEF NextOn
  <1>2. CASE S \ {n} # {}
    BY <1>2, NextOnFirst
  <1> QED
    BY <1>1, <1>2

\* PreviousOn(S, n) is the member of S that comes last before n.
LEMMA PreviousOnLast ==
  ASSUME NEW S \in SUBSET Ident, NEW n \in Ident, S \ {n} # {}
  PROVE  /\ PreviousOn(S, n) \in S \ {n}
         /\ \A t \in S \ {n} : Clockwise(PreviousOn(S, n), n) <= Clockwise(t, n)
  <1> DEFINE T == {Clockwise(t, n) : t \in S \ {n}}
  <1>1. T \in SUBSET Nat /\ T # {}
    BY ClockwiseType
  <1>2. \E x \in T : \A y \in T : x <= y
    BY <1>1, Smallest
  <1>3. \E s \in S \ {n} : \A t \in S \ {n} : Clockwise(s, n) <= Clockwise(t, n)
    BY <1>2
  <1> QED
    BY <1>3 DEF PreviousOn

\* The member before the next one is the member itself,
LEMMA PreviousOfNext ==
  ASSUME NEW S \in SUBSET Ident, NEW n \in S, S # {n}
  PROVE  /\ NextOn(S, n) \in S \ {n}
         /\ S # {NextOn(S, n)}
         /\ PreviousOn(S, NextOn(S, n)) = n
  <1> DEFINE s == NextOn(S, n)
             p == PreviousOn(S, s)
  <1>1. s \in S \ {n} /\ \A t \in S \ {n} : Clockwise(n, s) <= Clockwise(n, t)
    BY NextOnFirst
  <1>2. p \in S \ {s} /\ \A t \in S \ {s} : Clockwise(p, s) <= Clockwise(t, s)
    BY <1>1, PreviousOnLast
  <1> HIDE DEF s, p
  <1>3. Clockwise(p, s) <= Clockwise(n, s)
    BY <1>1, <1>2
  <1>4. p # n => Clockwise(n, s) <= Clockwise(n, p)
    BY <1>1, <1>2
  <1>5. p = n
    BY <1>1, <1>2, <1>3, <1>4, RingSizeAssumption DEF Clockwise
  <1> QED
    BY <1>1, <1>5 DEF s, p

\* so that no two members have the same one next.
LEMMA NextOnInjective ==
  ASSUME NEW S \in SUBSET Ident, NEW a \in S, NEW b \in S, S # {a},
         NextOn(S, a) = NextOn(S, b)
  PROVE  a = b
  <1>1. S # {b}
    BY PreviousOfNext
  <1> QED
    BY <1>1, PreviousOfNext

\* Walking on from member to member leads further from s until it leads to s.
LEMMA NextOnAdvances ==
  ASSUME NEW S \in SUBSET Ident, NEW s \in S, NEW a \in S, NextOn(S, a) # s
  PROVE  /\ NextOn(S, a) \in S
         /\ Clockwise(s, a) < Clockwise(s, NextOn(S, a))
  <1> DEFINE b == NextOn(S, a)
  <1>1. S \ {a} # {}
    BY DEF NextOn
  <1>2. b \in S \ {a} /\ \A t \in S \ {a} : Clockwise(a, b) <= Clockwise(a, t)
    BY <1>1, NextOnFirst
  <1>3. b # s /\ (s # a => Clockwise(a, b) <= Clockwise(a, s))
    BY <1>2
  <1> HIDE DEF b
  <1>4. Clockwise(s, a) < Clockwise(s, b)
    BY <1>2, <1>3, RingSizeAssumption DEF Clockwise
  <1> QED
    BY <1>2, <1>4 DEF b

\* Hence every set of members that is closed under such steps as do not lead
\* to s contains the member before s.
LEMMA WalkComesRound ==
  ASSUME NEW S \in SUBSET Ident, NEW s \in S, NEW A, A \cap S # {},
         \A a \in A \cap S : NextOn(S, a) # s => NextOn(S, a) \in A
  PROVE  \E p \in A \cap S : NextOn(S, p) = s
  <1> SUFFICES ASSUME \A p \in A \cap S : NextOn(S, p) # s
               PROVE  FALSE
    OBVIOUS
  <1> DEFINE T == {RingSize - Clockwise(s, a) : a \in A \cap S}
  <1>1. \A a \in S : RingSize - Clockwise(s, a) \in Nat
    BY RingSizeAssumption DEF Clockwise
  <1>2. T \in SUBSET Nat /\ T # {}
    BY <1>1
  <1>3. PICK x \in T : \A y \in T : x <= y
    BY <1>2, Smallest
  <1>4. PICK a \in A \cap S : x = RingSize - Clockwise(s, a)
    BY <1>3
  <1> DEFINE b == NextOn(S, a)
  <1>5. b \in A \cap S /\ Clockwise(s, a) < Clockwise(s, b)
    BY <1>4, NextOnAdvances
  <1>6. x <= RingSize - Clockwise(s, b)
    BY <1>3, <1>5
  <1>7. Clockwise(s, a) \in Nat /\ Clockwise(s, b) \in Nat
    BY <1>4, <1>5, ClockwiseType
  <1> HIDE DEF b, T
  <1> QED
    BY <1>4, <1>5, <1>6, <1>7, RingSizeAssumption

\* The member that holds a key to be its successor's names the right host.
LEMMA AnswerIsOwner ==
  ASSUME NEW S \in SUBSET Ident, NEW n \in S, S \ {n} # {}, NEW key \in Ident,
         IsInSuccessor(key, n, NextOn(S, n))
  PROVE  NextOn(S, n) = Owner(S, key)
  <1> DEFINE s == NextOn(S, n)
  <1>1. s \in S \ {n} /\ \A t \in S \ {n} : Clockwise(n, s) <= Clockwise(n, t)
    BY NextOnFirst
  <1>2. key # n /\ Clockwise(n, key) <= Clockwise(n, s)
    BY <1>1, IsInSuccessorExact DEF InArc
  <1>3. Clockwise(n, s) = Clockwise(n, key) + Clockwise(key, s)
    BY <1>1, <1>2, ClockwiseAdds
  <1> HIDE DEF s
  <1>4. CASE key \in S
    <2>1. Clockwise(n, s) <= Clockwise(n, key)
      BY <1>1, <1>2, <1>4
    <2>2. Clockwise(n, key) \in Nat /\ Clockwise(n, s) \in Nat
      BY <1>1, ClockwiseType
    <2>3. Clockwise(n, key) = Clockwise(n, s)
      BY <1>2, <2>1, <2>2
    <2>4. key = s
      BY <1>1, <2>3, ClockwiseInjective
    <2> QED
      BY <1>4, <2>4 DEF Owner, s
  <1>5. CASE key \notin S
    <2> DEFINE o == NextOn(S, key)
    <2>1. S \ {key} = S
      BY <1>5
    <2>2. o \in S /\ Clockwise(key, o) <= Clockwise(key, s)
      BY <1>1, <2>1, NextOnFirst
    <2> HIDE DEF o
    <2>3. o # n /\ Clockwise(n, o) <= Clockwise(n, s)
      BY <1>1, <1>2, <1>3, <2>2, RingSizeAssumption DEF Clockwise
    <2>4. Clockwise(n, s) <= Clockwise(n, o)
      BY <1>1, <2>2, <2>3
    <2>5. Clockwise(n, o) \in Nat /\ Clockwise(n, s) \in Nat
      BY <1>1, <2>2, ClockwiseType
    <2>6. Clockwise(n, o) = Clockwise(n, s)
      BY <2>3, <2>4, <2>5
    <2>7. o = s
      BY <1>1, <2>2, <2>6, ClockwiseInjective
    <2> QED
      BY <1>5, <2>7 DEF Owner, o, s
  <1> QED
    BY <1>4, <1>5

\* Somebody holds a key to be its successor's: the last member before the key.
LEMMA SomebodyAnswers ==
  ASSUME NEW S \in SUBSET Ident, NEW key \in Ident, S \ {key} # {},
         \A n \in S : S \ {n} # {}
  PROVE  \E n \in S : IsInSuccessor(key, n, NextOn(S, n))
  <1> DEFINE T == {Clockwise(t, key) : t \in S \ {key}}
  <1>1. T \in SUBSET Nat /\ T # {}
    BY ClockwiseType
  <1>2. \E x \in T : \A y \in T : x <= y
    BY <1>1, Smallest
  <1>3. PICK n \in S \ {key} : \A t \in S \ {key} : Clockwise(n, key) <= Clockwise(t, key)
    BY <1>2
  <1> DEFINE s == NextOn(S, n)
  <1>4. s \in S \ {n}
    BY NextOnFirst
  <1> HIDE DEF s
  <1>5. Clockwise(n, key) <= Clockwise(n, s)
    <2> SUFFICES ASSUME Clockwise(n, s) < Clockwise(n, key)
                 PROVE  FALSE
      BY <1>4, RingSizeAssumption DEF Clockwise
    <2>1. s # key
      BY <1>4, RingSizeAssumption DEF Clockwise
    <2>2. Clockwise(n, key) <= Clockwise(s, key)
      BY <1>3, <1>4, <2>1
    <2> QED
      BY <1>4, <2>1, <2>2, RingSizeAssumption DEF Clockwise
  <1>6. IsInSuccessor(key, n, s)
    BY <1>4, <1>5, IsInSuccessorExact DEF InArc
  <1> QED
    BY <1>6 DEF s

\* How far round the circle a query for key travels from the host that asked:
\* all the way for the key that is its own id.
Reach(n, key) == IF key = n THEN RingSize ELSE Clockwise(n, key)

LEMMA ReachAhead ==
  ASSUME NEW n \in Ident, NEW key \in Ident
  PROVE  Clockwise(n, n) < Reach(n, key)
  BY RingSizeAssumption DEF Clockwise, Reach

\* A query that has not gone past its key, at a member that does not hold the
\* key to be its successor's, goes to that successor without passing the key,
\* or the host that asked.
LEMMA QueryStep ==
  ASSUME NEW S \in SUBSET Ident, NEW n \in S, NEW t \in S, NEW key \in Ident,
         S \ {t} # {},
         Clockwise(n, t) < Reach(n, key),
         ~ IsInSuccessor(key, t, NextOn(S, t))
  PROVE  /\ NextOn(S, t) \in S \ {n, t}
         /\ Clockwise(n, NextOn(S, t)) < Reach(n, key)
  <1> DEFINE s == NextOn(S, t)
  <1>1. s \in S \ {t} /\ \A u \in S \ {t} : Clockwise(t, s) <= Clockwise(t, u)
    BY NextOnFirst
  <1>2. key = t \/ ~ (Clockwise(t, key) <= Clockwise(t, s))
    BY <1>1, IsInSuccessorExact DEF InArc
  <1>3. n # t => Clockwise(t, s) <= Clockwise(t, n)
    BY <1>1
  <1> HIDE DEF s
  <1>4. n = t => s # n /\ Clockwise(n, s) < Reach(n, key)
    BY <1>1, <1>2, RingSizeAssumption DEF Clockwise, Reach
  <1>5. n # t => s # n /\ Clockwise(n, s) < Reach(n, key)
    BY <1>1, <1>2, <1>3, RingSizeAssumption DEF Clockwise, Reach
  <1> QED
    BY <1>1, <1>4, <1>5 DEF s

\* The only member of a ring of one is responsible for every key.
LEMMA AloneIsOwner ==
  ASSUME NEW S \in SUBSET Ident, NEW n \in S, S \ {n} = {}, NEW key \in Ident
  PROVE  NextOn(S, n) = n /\ Owner(S, key) = n
  <1>1. NextOn(S, n) = n
    BY DEF NextOn
  <1>2. CASE key = n
    BY <1>1, <1>2 DEF Owner
  <1>3. CASE key # n
    <2>1. key \notin S /\ S \ {key} # {} /\ \A t \in S : t = n
      BY <1>3
    <2>2. NextOn(S, key) \in S
      BY <2>1, NextOnFirst
    <2> QED
      BY <1>1, <2>1, <2>2 DEF Owner
  <1> QED
    BY <1>1, <1>2, <1>3

-----------------------------------------------------------------------------
(* The places of members, counted round the circle.                        *)

LEMMA IdentFinite == ASSUME NEW S \in SUBSET Ident PROVE IsFiniteSet(S)
  <1>1. IsFiniteSet(0 .. RingSize - 1)
    BY FS_Interval, RingSizeAssumption
  <1> QED
    BY <1>1, FS_Subset

\* On the way from n to n there is only n,
LEMMA UpToItself ==
  ASSUME NEW S \in SUBSET Ident, NEW n \in S
  PROVE  Cardinality(UpTo(S, n, n)) = 1
  <1>1. \A t \in S : Clockwise(n, t) <= Clockwise(n, n) <=> t = n
    BY RingSizeAssumption DEF Clockwise
  <1>2. UpTo(S, n, n) = {n}
    BY <1>1 DEF UpTo
  <1> QED
    BY <1>2, FS_Singleton

\* each step to the next member adds that one,
LEMMA UpToNext ==
  ASSUME NEW S \in SUBSET Ident, NEW n \in S, NEW m \in S, NextOn(S, m) # n
  PROVE  Cardinality(UpTo(S, n, NextOn(S, m))) = Cardinality(UpTo(S, n, m)) + 1
  <1> DEFINE s == NextOn(S, m)
  <1>1. S \ {m} # {} /\ s \in S /\ s # n
    BY NextOnMember DEF NextOn
  <1>2. s \in S \ {m} /\ \A t \in S \ {m} : Clockwise(m, s) <= Clockwise(m, t)
    BY <1>1, NextOnFirst
  <1>3. Clockwise(n, m) < Clockwise(n, s)
    BY <1>1, NextOnAdvances
  <1> HIDE DEF s
  <1>4. \A t \in S : Clockwise(n, t) <= Clockwise(n, s) <=>
                       t = s \/ Clockwise(n, t) <= Clockwise(n, m)
    <2> SUFFICES ASSUME NEW t \in S
                 PROVE  Clockwise(n, t) <= Clockwise(n, s) <=>
                          t = s \/ Clockwise(n, t) <= Clockwise(n, m)
      OBVIOUS
    <2>1. t = m \/ Clockwise(m, s) <= Clockwise(m, t)
      BY <1>2
    <2>2. m = n \/ Clockwise(m, s) <= Clockwise(m, n)
      BY <1>2
    <2> QED
      BY <1>1, <1>2, <1>3, <2>1, <2>2, RingSizeAssumption DEF Clockwise
  <1>5. UpTo(S, n, s) = UpTo(S, n, m) \cup {s} /\ s \notin UpTo(S, n, m)
    <2>1. ~ (Clockwise(n, s) <= Clockwise(n, m))
      BY <1>1, <1>3, ClockwiseType
    <2> QED
      BY <1>1, <1>4, <2>1 DEF UpTo
  <1>6. IsFiniteSet(UpTo(S, n, m))
    BY IdentFinite DEF UpTo
  <1> QED
    BY <1>5, <1>6, FS_AddElement DEF s

\* and when the next member is n the way has led to all of them.
LEMMA UpToLast ==
  ASSUME NEW S \in SUBSET Ident, NEW n \in S, NEW m \in S, NextOn(S, m) = n
  PROVE  UpTo(S, n, m) = S
  <1>1. CASE S \ {m} = {}
    <2>1. n = m /\ S = {m}
      BY <1>1
    <2> QED
      BY <2>1, RingSizeAssumption DEF UpTo, Clockwise
  <1>2. CASE S \ {m} # {}
    <2>1. n # m /\ \A t \in S \ {m} : Clockwise(m, n) <= Clockwise(m, t)
      BY <1>2, NextOnFirst
    <2>2. \A t \in S : Clockwise(n, t) <= Clockwise(n, m)
      BY <2>1, RingSizeAssumption DEF Clockwise
    <2> QED
      BY <2>2 DEF UpTo
  <1> QED
    BY <1>1, <1>2
-----------------------------------------------------------------------------
(* getSuccessorOf().                                                       *)

\* Without fingers a lookup goes to the successor,
LEMMA HopWithoutFingers ==
  ASSUME NEW table, Entries(table) = {}, NEW succ, NEW key
  PROVE  GetSuccessorOf(table, succ, key) = {succ}
  BY DEF GetSuccessorOf

\* and always to the successor or to a host of the table, wherever the walk of
\* the table ends.
LEMMA HopsFromTable ==
  ASSUME NEW table, DOMAIN table \in SUBSET Ident, NEW Hosts, NEW succ \in Hosts,
         \A s \in Entries(table) : table[s] \in Hosts, NEW key
  PROVE  GetSuccessorOf(table, succ, key) \subseteq Hosts
  <1> DEFINE above == Entries(table) \ {s \in Entries(table) : s < key}
  <1>1. SteppedOut(table) \subseteq Hosts
    BY DEF SteppedOut
  <1>2. above # {} => MinOf(above) \in above
    <2>1. above \in SUBSET Nat
      BY DEF Entries
    <2> HIDE DEF above
    <2> QED
      BY <2>1, Smallest DEF MinOf
  <1>3. above # {} => table[MinOf(above)] \in Hosts
    BY <1>2
  <1> QED
    BY <1>1, <1>3 DEF GetSuccessorOf
=============================================================================
