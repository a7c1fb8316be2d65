--------------------------- MODULE RingCallsProofs ---------------------------
(***************************************************************************)
(* Lookups and maps in one ring that grows, of any size and for any number *)
(* of calls and losses.  Lookups are what ChordLookupProofs says of them,  *)
(* and a map lists hosts by their places in the ring, each of them unless  *)
(* its answer was lost or is late.                                         *)
(***************************************************************************)
EXTENDS RingCalls, ChordLookupProofs

-----------------------------------------------------------------------------
(* Lookups beside maps: what the calls for maps do to the lookups.         *)

CallsInv == LookupInv /\ newcomer \in Node \cup {NULL}

LEMMA CallsInitInv == CallsInit => CallsInv
  BY LookupInitInv DEF CallsInit, Map!Init, CallsInv

\* A map counts as a call, and its datagrams are lost at the same bound.
LEMMA MapStepCounts ==
  ASSUME CallsInv, MapStep, UNCHANGED lookupOwn
  PROVE  /\ UNCHANGED <<members, call, waiting, answer, sendTimers,
                        successorResponseQueue, fingers, net>>
         /\ calls' \in 0 .. MaxCalls /\ lost' \in 0 .. MaxLoss
         /\ newcomer' \in Node \cup {NULL}
  <1>1. calls \in 0 .. MaxCalls /\ lost \in 0 .. MaxLoss /\ newcomer \in Node \cup {NULL}
    BY DEF CallsInv, LookupInv, TypeOK
  <1>2. ASSUME NEW n \in Node, MapCall(n)
        PROVE  UNCHANGED <<members, newcomer, lost>> /\ calls' \in 0 .. MaxCalls
    BY <1>1, <1>2, ConstantsAssumption DEF MapCall, Map!StartMap
  <1>3. ASSUME NEW n \in Node, Map!ReturnMap(n) \/ Map!Join(n)
        PROVE  UNCHANGED <<members, calls, lost>> /\ newcomer' \in Node \cup {NULL}
    BY <1>1, <1>3 DEF Map!ReturnMap, Map!Join
  <1>4. ASSUME NEW m \in mapNet, Map!Receive(m)
        PROVE  UNCHANGED <<members, newcomer, calls, lost>>
    BY <1>4 DEF Map!Receive, Map!QueryBack, Map!AnswerQuery, Map!TakeResponse
  <1>5. ASSUME NEW m \in mapNet, Map!Lose(m)
        PROVE  UNCHANGED <<members, newcomer, calls>> /\ lost' \in 0 .. MaxLoss
    BY <1>1, <1>5, ConstantsAssumption DEF Map!Lose
  <1> QED
    BY <1>1, <1>2, <1>3, <1>4, <1>5 DEF MapStep, lookupOwn

LEMMA CountsKeepLookups ==
  ASSUME LookupInv, calls' \in 0 .. MaxCalls, lost' \in 0 .. MaxLoss,
         UNCHANGED <<members, call, waiting, answer, sendTimers,
                     successorResponseQueue, fingers, net>>
  PROVE  LookupInv'
  <1>1. TypeOK'
    BY DEF LookupInv, TypeOK
  <1>2. NoFingers' /\ CallersAreMembers' /\ NetIsRight' /\ members' # {}
    BY DEF LookupInv, NoFingers, CallersAreMembers, NetIsRight, OnItsWay, IsRight
  <1>3. QueuesAreRight' /\ TimersMatch'
    BY QueuesKept, TimersKept DEF LookupInv
  <1> QED
    BY <1>1, <1>2, <1>3 DEF LookupInv

\* Every step is a step of ChordLookup, or one that it does not see.
LEMMA CallsStep ==
  ASSUME CallsInv, Plain, [CallsNext]_callsVars
  PROVE  CallsInv' /\ [Service!Next]_<<members, call, answer>>
  <1>1. CASE LookupStep /\ UNCHANGED mapOwn
    <2>1. Next
      BY <1>1 DEF LookupStep, Lookup, Next
    <2> QED
      BY <1>1, <2>1, LookupStepInv, ServiceStep DEF CallsInv, mapOwn
  <1>2. CASE MapStep /\ UNCHANGED lookupOwn
    BY <1>2, MapStepCounts, CountsKeepLookups DEF CallsInv
  <1>3. CASE Map!Settle /\ Grow(newcomer)
    <2>1. newcomer \in Node /\ newcomer' = NULL
      BY <1>3 DEF Map!Settle, CallsInv
    <2>2. Next
      BY <1>3, <2>1 DEF Next
    <2> QED
      BY <2>1, <2>2, LookupStepInv, ServiceStep DEF CallsInv
  <1>4. CASE UNCHANGED callsVars
    BY <1>4, LookupStepInv, ServiceStep DEF callsVars, mapOwn, CallsInv
  <1> QED
    BY <1>1, <1>2, <1>3, <1>4 DEF CallsNext

\* The inductive invariant holds in every state of a ring that is also asked
\* for maps.
THEOREM CallsInvariance ==
  ASSUME Plain
  PROVE  CallsSpec => []CallsInv
  <1>1. CallsInv /\ [CallsNext]_callsVars => CallsInv'
    BY CallsStep
  <1> QED
    BY <1>1, CallsInitInv, PTL DEF CallsSpec

\* Beside maps as well every variable of a lookup keeps its type, and a lookup
\* is resent exactly while the query() that sent it waits.
THEOREM CallsResendCorrect ==
  ASSUME Plain
  PROVE  CallsSpec => [](TypeOK /\ ResendsWhileWaiting)
  <1>1. CallsInv => TypeOK /\ ResendsWhileWaiting
    BY DEF CallsInv, LookupInv, TimersMatch, ResendsWhileWaiting
  <1> QED
    BY <1>1, CallsInvariance, PTL

\* Each query() that returns a host returns the node responsible for its key,
\* also when the same hosts are asked for maps and others join in between.
THEOREM CallsCorrect ==
  ASSUME Plain
  PROVE  CallsSpec => AnswersAreRight
  <1>1. CallsInv /\ [CallsNext]_callsVars => [Service!Next]_<<members, call, answer>>
    BY CallsStep
  <1>2. CallsInit => Service!Init
    BY ServiceInit DEF CallsInit
  <1>3. CallsSpec => Service!Init /\ [][Service!Next]_<<members, call, answer>>
    BY <1>1, <1>2, CallsInvariance, PTL DEF CallsSpec
  <1> QED
    BY <1>3 DEF AnswersAreRight, Service!Spec

-----------------------------------------------------------------------------
(* Maps.                                                                   *)

IsQuery(m) == m.type = "CHORD_MAP_QUERY"
IsResponse(m) == m.type = "CHORD_MAP_RESPONSE"

\* A host's query is one datagram, which goes from member to member until it is
\* back or lost; until then the host is mapping.
OneQuery ==
  \A m \in mapNet : IsQuery(m) =>
    /\ state[m.sender] = "MAPPING_CHORD"
    /\ m.to \in members
    /\ \A d \in mapNet : IsQuery(d) /\ d.sender = m.sender => d = m

\* Nothing is queued between two calls, and only a host that the ring passes
\* through gets its query back.
HostsMap ==
  \A n \in Node :
    /\ state[n] = "SERVICING" => chordMapResponseQueue[n] = <<>>
    /\ state[n] = "MAPPING_COMPLETED" => n \in members

\* The number of an answer is the place of the host that gave it.
InPlace(n, r) == r.responder \in members /\ Map!Place(n, r.responder) = r.seq

\* The number of a query is that of the members it has left behind.
PassedOn(n, m) ==
  m.seq + 1 = IF m.to = n THEN Cardinality(members) + 1 ELSE Map!Place(n, m.to)

PlacesMatch ==
  \A n \in members : undisturbed[n] =>
    /\ \A m \in mapNet : IsQuery(m) /\ m.sender = n => PassedOn(n, m)
    /\ \A m \in mapNet : IsResponse(m) /\ m.to = n => InPlace(n, m)
    /\ \A i \in DOMAIN chordMapResponseQueue[n] : InPlace(n, chordMapResponseQueue[n][i])

\* The numbers whose answers are neither queued nor on their way.
Queued(n) == {chordMapResponseQueue[n][i].seq : i \in DOMAIN chordMapResponseQueue[n]}
Coming(n) == {m.seq : m \in {d \in mapNet : IsResponse(d) /\ d.to = n}}
Missing(n, seq) == (2 .. seq) \ (Queued(n) \cup Coming(n))

\* Every host that a query has passed has answered it.
AnswersCount ==
  \A m \in mapNet : IsQuery(m) => Cardinality(Missing(m.sender, m.seq)) <= lost

MapInv ==
  /\ MapTypeOK
  /\ shown = [n \in Node |-> shown[n]]
  /\ OneQuery
  /\ HostsMap
  /\ PlacesMatch
  /\ AnswersCount

\* A step of the maps, as the composition takes it.
MapMove ==
  \/ MapStep
  \/ Map!Settle
  \/ LookupStep /\ UNCHANGED mapOwn

\* The circle of the maps is that of the lookups.
LEMMA SameCircle ==
  /\ \A a, b : Map!Clockwise(a, b) = Clockwise(a, b)
  /\ \A S, n : Map!NextOn(S, n) = NextOn(S, n)
  /\ \A S, n, m : Map!UpTo(S, n, m) = UpTo(S, n, m)
  BY DEF Map!Clockwise, Clockwise, Map!NextOn, NextOn, Map!UpTo, UpTo

LEMMA SameCardinality == \A S : Map!Cardinality(S) = Cardinality(S)
  BY DEF Map!Cardinality, Cardinality

LEMMA MapTypes ==
  ASSUME MapInv
  PROVE  /\ Node \in SUBSET Ident /\ members \in SUBSET Node /\ members \in SUBSET Ident
         /\ IsFiniteSet(members) /\ NULL \notin Node
         /\ state \in [Node -> {"SERVICING", "MAPPING_CHORD", "MAPPING_COMPLETED"}]
         /\ undisturbed \in [Node -> BOOLEAN]
         /\ chordMapResponseQueue \in
              [Node -> Seq([seq : 2 .. MaxHops + 1, responder : Node])]
         /\ lost \in 0 .. MaxLoss /\ calls \in 0 .. MaxCalls
         /\ newcomer \in (Node \ members) \cup {NULL}
  <1>1. Node \in SUBSET Ident /\ members \in SUBSET Node /\ NULL \notin Node
    BY ConstantsAssumption DEF MapInv, MapTypeOK, Map!TypeOK
  <1> QED
    BY <1>1, IdentFinite DEF MapInv, MapTypeOK, Map!TypeOK

LEMMA MapDatagrams ==
  ASSUME MapInv, NEW m \in mapNet
  PROVE  /\ m \in Map!Datagram /\ m.to \in Node
         /\ IsQuery(m) \/ IsResponse(m)
         /\ IsQuery(m) => m.sender \in Node /\ m.seq \in 1 .. MaxHops + 1
         /\ IsResponse(m) => m.responder \in Node /\ m.seq \in 2 .. MaxHops + 1
  <1>1. m \in Map!Datagram
    BY DEF MapInv, MapTypeOK, Map!TypeOK
  <1>2. CASE m \in [type : {"CHORD_MAP_QUERY"}, to : Node, seq : 1 .. MaxHops + 1,
                    sender : Node]
    BY <1>1, <1>2 DEF IsQuery, IsResponse
  <1>3. CASE m \in [type : {"CHORD_MAP_RESPONSE"}, to : Node, seq : 2 .. MaxHops + 1,
                    responder : Node]
    BY <1>1, <1>3 DEF IsQuery, IsResponse
  <1> QED
    BY <1>1, <1>2, <1>3 DEF Map!Datagram

\* A host whose call sends a query has a member next.
LEMMA StartsAtMember ==
  ASSUME MapInv, NEW n \in Node, MapCall(n)
  PROVE  /\ NextOn(members, n) \in members \ {n} /\ Map!successor[n] = NextOn(members, n)
         /\ mapNet' = mapNet \cup {Map!ChordMapQuery(NextOn(members, n), 1, n)}
         /\ \A m \in mapNet : ~ (IsQuery(m) /\ m.sender = n)
  <1>1. Map!successor[n] = NextOn(members, n) /\ NextOn(members, n) # n
    BY SameCircle DEF MapCall, Map!StartMap, Map!successor
  <1>2. members \ {n} # {}
    BY <1>1 DEF NextOn
  <1>3. NextOn(members, n) \in members \ {n}
    BY <1>2, NextOnFirst, MapTypes
  <1>4. \A m \in mapNet : ~ (IsQuery(m) /\ m.sender = n)
    BY DEF MapCall, Map!StartMap, MapInv, OneQuery
  <1> QED
    BY <1>1, <1>3, <1>4 DEF MapCall, Map!StartMap

\* A host that answers a query is a member, and passes it to the next one.
LEMMA AnswersAtMember ==
  ASSUME MapInv, NEW m \in mapNet, Map!AnswerQuery(m.to, m)
  PROVE  LET next == NextOn(members, m.to)
             query == Map!ChordMapQuery(next, m.seq + 1, m.sender)
             response == Map!ChordMapResponse(m.sender, m.seq + 1, m.to)
         IN /\ IsQuery(m) /\ m.to # m.sender /\ m.seq \in 1 .. MaxHops
            /\ m.to \in members /\ next \in members
            /\ response \in mapNet'
            /\ \A d \in mapNet' : \/ d \in mapNet /\ d # m
                                  \/ d = response
                                  \/ d = query
            /\ \A d \in mapNet : d # m => d \in mapNet'
  <1>1. IsQuery(m) /\ m.to # m.sender /\ m.seq \in 1 .. MaxHops
    BY MapDatagrams, HopsAssumption DEF Map!AnswerQuery, IsQuery
  <1>2. m.to \in members /\ Map!successor[m.to] = NextOn(members, m.to)
    BY <1>1, SameCircle DEF MapInv, OneQuery, Map!successor, Map!Present
  <1>3. NextOn(members, m.to) \in members
    BY <1>2, NextOnMember, MapTypes
  <1>4. mapNet' \subseteq (mapNet \ {m})
            \cup {Map!ChordMapResponse(m.sender, m.seq + 1, m.to)}
            \cup {Map!ChordMapQuery(NextOn(members, m.to), m.seq + 1, m.sender)}
    BY <1>2 DEF Map!AnswerQuery, Map!Deliverable, Map!NextHosts, Map!Raised
  <1>5. /\ mapNet \ {m} \subseteq mapNet'
        /\ Map!ChordMapResponse(m.sender, m.seq + 1, m.to) \in mapNet'
    BY DEF Map!AnswerQuery
  <1> QED
    BY <1>1, <1>2, <1>3, <1>4, <1>5

\* Lookups leave the ring and the maps alone, and share their bounds.
LEMMA LookupCounts ==
  ASSUME MapInv, LookupStep, UNCHANGED mapOwn
  PROVE  UNCHANGED <<members, mapOwn>> /\ calls' \in 0 .. MaxCalls /\ lost' \in lost .. MaxLoss
  <1>1. calls \in 0 .. MaxCalls /\ lost \in 0 .. MaxLoss
    BY MapTypes
  <1>2. ASSUME NEW n \in Node, Lookup(n)
        PROVE  UNCHANGED <<members, lost>> /\ calls' \in 0 .. MaxCalls
    BY <1>1, <1>2, ConstantsAssumption DEF Lookup, Ask
  <1>3. ASSUME NEW n \in Node,
               QueryReturns(n) \/ GiveUp(n) \/ ResendTimedOut(n) \/ UpdateFingers(n)
        PROVE  UNCHANGED <<members, calls, lost>>
    BY <1>3 DEF QueryReturns, AnswerAtOnce, SendQuery, PopResponse, GiveUp,
                ResendTimedOut, UpdateFingers, callVars
  <1>4. ASSUME NEW m \in net, Receive(m)
        PROVE  UNCHANGED <<members, calls, lost>>
    BY <1>4 DEF Receive, QueryLoopedBack, AnswerWithSuccessor, ForwardQuery,
                HandleSuccessorResponse, HandleFingerResponse, callVars
  <1>5. ASSUME NEW m \in net, Lose(m)
        PROVE  UNCHANGED <<members, calls>> /\ lost' \in lost .. MaxLoss
    BY <1>1, <1>5, ConstantsAssumption DEF Lose, callVars
  <1>6. lost \in lost .. MaxLoss
    BY <1>1
  <1> QED
    BY <1>1, <1>2, <1>3, <1>4, <1>5, <1>6 DEF LookupStep

\* Every line of a map is an answer with its number, or the host itself as the
\* first one.
LEMMA CollectedLines ==
  ASSUME MapInv, NEW n \in Node, NEW k \in DOMAIN Map!Collected(n)
  PROVE  \/ k = 1 /\ Map!Collected(n)[k] = n
         \/ \E i \in DOMAIN chordMapResponseQueue[n] :
              /\ chordMapResponseQueue[n][i].seq = k
              /\ Map!Collected(n)[k] = chordMapResponseQueue[n][i].responder
  <1> DEFINE q == chordMapResponseQueue[n]
             has(i) == i \in DOMAIN q /\ q[i].seq = k
             last == CHOOSE i \in DOMAIN q :
                       q[i].seq = k /\ \A j \in DOMAIN q : q[j].seq = k => j <= i
  <1>1. q \in Seq([seq : 2 .. MaxHops + 1, responder : Node])
    BY MapTypes
  <1>2. Len(q) \in Nat /\ DOMAIN q = 1 .. Len(q)
    BY <1>1, LenProperties
  <1>3. /\ k \in {1} \cup {q[i].seq : i \in DOMAIN q}
        /\ Map!Collected(n)[k] = IF \E i \in DOMAIN q : q[i].seq = k
                                 THEN q[last].responder ELSE n
    BY DEF Map!Collected
  <1>4. CASE \E i \in DOMAIN q : q[i].seq = k
    <2> DEFINE T == {Len(q) - i : i \in {j \in DOMAIN q : q[j].seq = k}}
    <2>1. T \in SUBSET Nat /\ T # {}
      <3>1. \A i \in DOMAIN q : Len(q) - i \in Nat
        BY <1>2
      <3> HIDE DEF q
      <3> QED
        BY <1>4, <3>1
    <2>2. PICK x \in T : \A y \in T : x <= y
      BY <2>1, Smallest
    <2>3. PICK i \in DOMAIN q : q[i].seq = k /\ x = Len(q) - i
      BY <2>2
    <2>4. \A j \in DOMAIN q : q[j].seq = k => j <= i
      <3> SUFFICES ASSUME NEW j \in DOMAIN q, q[j].seq = k
                   PROVE  j <= i
        OBVIOUS
      <3>1. Len(q) - i <= Len(q) - j
        BY <2>2, <2>3
      <3> QED
        BY <1>2, <2>3, <3>1
    <2>5. last \in DOMAIN q /\ q[last].seq = k
      BY <2>3, <2>4
    <2> QED
      BY <1>3, <1>4, <2>5
  <1>5. CASE ~ \E i \in DOMAIN q : q[i].seq = k
    <2>1. k = 1
      BY <1>3, <1>5
    <2> QED
      BY <1>3, <1>5, <2>1
  <1> QED
    BY <1>4, <1>5

LEMMA CollectedType ==
  ASSUME MapInv, NEW n \in Node
  PROVE  /\ Map!Collected(n) \in [DOMAIN Map!Collected(n) -> Node]
         /\ DOMAIN Map!Collected(n) \subseteq 1 .. MaxHops + 1
  <1>1. chordMapResponseQueue[n] \in Seq([seq : 2 .. MaxHops + 1, responder : Node])
    BY MapTypes
  <1>2. \A i \in DOMAIN chordMapResponseQueue[n] :
          /\ chordMapResponseQueue[n][i].seq \in 2 .. MaxHops + 1
          /\ chordMapResponseQueue[n][i].responder \in Node
    <2> SUFFICES ASSUME NEW i \in DOMAIN chordMapResponseQueue[n]
                 PROVE  chordMapResponseQueue[n][i] \in
                          [seq : 2 .. MaxHops + 1, responder : Node]
      OBVIOUS
    <2> QED
      BY <1>1, ElementOfSeq, LenProperties
  <1>3. \A k \in DOMAIN Map!Collected(n) :
          Map!Collected(n)[k] \in Node /\ k \in 1 .. MaxHops + 1
    BY <1>2, CollectedLines, HopsAssumption
  <1>4. Map!Collected(n) = [k \in DOMAIN Map!Collected(n) |-> Map!Collected(n)[k]]
    BY DEF Map!Collected
  <1> QED
    BY <1>3, <1>4

LEMMA MapTypeStep ==
  ASSUME MapInv, MapMove
  PROVE  MapTypeOK' /\ shown' = [n \in Node |-> shown'[n]]
  <1> USE DEF MapTypeOK, Map!TypeOK
  <1>1. MapTypeOK /\ shown = [n \in Node |-> shown[n]]
    BY DEF MapInv
  <1>2. ASSUME NEW n \in Node, MapCall(n)
        PROVE  MapTypeOK' /\ shown' = [i \in Node |-> shown'[i]]
    <2>1. Map!ChordMapQuery(NextOn(members, n), 1, n) \in Map!Datagram
      BY StartsAtMember, <1>1, <1>2, HopsAssumption DEF Map!ChordMapQuery, Map!Datagram
    <2>2. mapNet' \subseteq Map!Datagram
      BY <1>1, <1>2, <2>1, StartsAtMember
    <2>3. calls' \in 0 .. MaxCalls
      BY <1>1, <1>2, ConstantsAssumption DEF MapCall, Map!StartMap
    <2>4. /\ shown' = [i \in Node |-> IF i = n THEN NULL ELSE shown[i]]
          /\ state' \in [Node -> {"SERVICING", "MAPPING_CHORD", "MAPPING_COMPLETED"}]
          /\ undisturbed' \in [Node -> BOOLEAN]
      BY <1>1, <1>2 DEF MapCall, Map!StartMap
    <2>5. \A i \in Node : shown'[i] # NULL => shown'[i] = shown[i]
      BY <2>4
    <2> QED
      BY <1>1, <1>2, <2>2, <2>3, <2>4, <2>5 DEF MapCall, Map!StartMap
  <1>3. ASSUME NEW n \in Node, Map!ReturnMap(n)
        PROVE  MapTypeOK' /\ shown' = [i \in Node |-> shown'[i]]
    <2>1. shown' = [i \in Node |-> IF i = n THEN Map!Collected(n) ELSE shown[i]]
      BY <1>1, <1>3 DEF Map!ReturnMap
    <2>2. \A i \in Node : shown'[i] # NULL =>
            /\ shown'[i] \in [DOMAIN shown'[i] -> Node]
            /\ DOMAIN shown'[i] \subseteq 1 .. MaxHops + 1
      BY <1>1, <2>1, CollectedType
    <2>3. chordMapResponseQueue' \in
            [Node -> Seq([seq : 2 .. MaxHops + 1, responder : Node])]
      BY <1>1, <1>3, EmptySeq DEF Map!ReturnMap
    <2>4. state' \in [Node -> {"SERVICING", "MAPPING_CHORD", "MAPPING_COMPLETED"}]
      BY <1>1, <1>3 DEF Map!ReturnMap
    <2> QED
      BY <1>1, <1>3, <2>1, <2>2, <2>3, <2>4 DEF Map!ReturnMap
  <1>4. ASSUME NEW n \in Node, Map!Join(n)
        PROVE  MapTypeOK' /\ shown' = [i \in Node |-> shown'[i]]
    BY <1>1, <1>4 DEF Map!Join
  <1>5. ASSUME NEW m \in mapNet, Map!QueryBack(m.to, m)
        PROVE  MapTypeOK' /\ shown' = [i \in Node |-> shown'[i]]
    <2>1. state' \in [Node -> {"SERVICING", "MAPPING_CHORD", "MAPPING_COMPLETED"}]
      BY <1>1, <1>5 DEF Map!QueryBack
    <2> QED
      BY <1>1, <1>5, <2>1 DEF Map!QueryBack
  <1>6. ASSUME NEW m \in mapNet, Map!AnswerQuery(m.to, m)
        PROVE  MapTypeOK' /\ shown' = [i \in Node |-> shown'[i]]
    <2> DEFINE next == NextOn(members, m.to)
    <2>1. /\ m.seq \in 1 .. MaxHops /\ m.to \in Node /\ m.sender \in Node
          /\ m.to # m.sender /\ next \in Node
      BY <1>6, AnswersAtMember, MapDatagrams, MapTypes
    <2>2. Map!ChordMapQuery(next, m.seq + 1, m.sender) \in Map!Datagram
      BY <2>1, HopsAssumption DEF Map!ChordMapQuery, Map!Datagram
    <2>3. Map!ChordMapResponse(m.sender, m.seq + 1, m.to) \in Map!Datagram
      BY <2>1, HopsAssumption DEF Map!ChordMapResponse, Map!Datagram
    <2>4. mapNet' \subseteq Map!Datagram
      BY <1>1, <1>6, <2>2, <2>3, AnswersAtMember
    <2> QED
      BY <1>1, <1>6, <2>4 DEF Map!AnswerQuery
  <1>7. ASSUME NEW m \in mapNet, Map!TakeResponse(m.to, m)
        PROVE  MapTypeOK' /\ shown' = [i \in Node |-> shown'[i]]
    <2> DEFINE r == [seq |-> m.seq, responder |-> m.responder]
    <2>1. r \in [seq : 2 .. MaxHops + 1, responder : Node] /\ m.to \in Node
      BY <1>7, MapDatagrams DEF Map!TakeResponse, IsResponse
    <2>2. Append(chordMapResponseQueue[m.to], r) \in
            Seq([seq : 2 .. MaxHops + 1, responder : Node])
      BY <2>1, MapTypes, AppendProperties
    <2>3. chordMapResponseQueue' \in
            [Node -> Seq([seq : 2 .. MaxHops + 1, responder : Node])]
      BY <1>1, <1>7, <2>1, <2>2 DEF Map!TakeResponse, Map!PushChordMapResponse
    <2> QED
      BY <1>1, <1>7, <2>3 DEF Map!TakeResponse
  <1>8. ASSUME NEW m \in mapNet, Map!Lose(m)
        PROVE  MapTypeOK' /\ shown' = [i \in Node |-> shown'[i]]
    <2>1. lost' \in 0 .. MaxLoss
      BY <1>1, <1>8, ConstantsAssumption DEF Map!Lose
    <2> QED
      BY <1>1, <1>8, <2>1 DEF Map!Lose
  <1>9. CASE Map!Settle
    BY <1>1, <1>9, ConstantsAssumption DEF Map!Settle
  <1>10. CASE LookupStep /\ UNCHANGED mapOwn
    <2>1. UNCHANGED <<members, mapOwn>> /\ calls' \in 0 .. MaxCalls /\ lost' \in lost .. MaxLoss
      BY <1>10, LookupCounts
    <2>2. lost' \in 0 .. MaxLoss
      BY <2>1, MapTypes
    <2> QED
      BY <1>1, <2>1, <2>2 DEF mapOwn
  <1> QED
    BY <1>2, <1>3, <1>4, <1>5, <1>6, <1>7, <1>8, <1>9, <1>10
    DEF MapMove, MapStep, Map!Receive

\* How places change from member to member.
LEMMA Places ==
  ASSUME MapInv, NEW n \in members, NEW t \in members
  PROVE  /\ Map!Place(n, n) = 1
         /\ NextOn(members, t) # n =>
              Map!Place(n, NextOn(members, t)) = Map!Place(n, t) + 1
         /\ NextOn(members, t) = n => Map!Place(n, t) = Cardinality(members)
         /\ Map!Place(n, t) \in Nat
  <1>1. \A m : Map!Place(n, m) = Cardinality(UpTo(members, n, m))
    <2>1. members \cup {n} = members
      OBVIOUS
    <2> QED
      BY <2>1, SameCircle, SameCardinality DEF Map!Place
  <1>2. members \in SUBSET Ident /\ IsFiniteSet(members)
    BY MapTypes
  <1>3. Cardinality(UpTo(members, n, t)) \in Nat
    <2>1. UpTo(members, n, t) \subseteq members
      BY DEF UpTo
    <2> QED
      BY <1>2, <2>1, FS_Subset, FS_CardinalityType
  <1> QED
    BY <1>1, <1>2, <1>3, UpToItself, UpToNext, UpToLast

LEMMA MapHostsStep ==
  ASSUME MapInv, MapMove
  PROVE  OneQuery' /\ HostsMap'
  <1>1. /\ OneQuery /\ HostsMap
        /\ state \in [Node -> {"SERVICING", "MAPPING_CHORD", "MAPPING_COMPLETED"}]
        /\ chordMapResponseQueue \in
             [Node -> Seq([seq : 2 .. MaxHops + 1, responder : Node])]
        /\ \A m \in mapNet : m.to \in Node /\ (IsQuery(m) => m.sender \in Node)
    BY MapTypes, MapDatagrams DEF MapInv
  <1>2. ASSUME NEW n \in Node, MapCall(n)
        PROVE  OneQuery' /\ HostsMap'
    <2> DEFINE q == Map!ChordMapQuery(NextOn(members, n), 1, n)
    <2>1. /\ q.to \in members /\ q.sender = n
          /\ mapNet' = mapNet \cup {q}
          /\ \A m \in mapNet : ~ (IsQuery(m) /\ m.sender = n)
      BY <1>2, StartsAtMember DEF Map!ChordMapQuery
    <2> HIDE DEF q
    <2>2. UNCHANGED <<members, chordMapResponseQueue>>
      BY <1>2 DEF MapCall, Map!StartMap
    <2>3. state' = [state EXCEPT ![n] = "MAPPING_CHORD"]
      BY <1>2 DEF MapCall, Map!StartMap
    <2>4. HostsMap'
      BY <1>1, <2>2, <2>3 DEF HostsMap
    <2>5. OneQuery'
      BY <1>1, <2>1, <2>2, <2>3 DEF OneQuery, IsQuery
    <2> QED
      BY <2>4, <2>5
  <1>3. ASSUME NEW n \in Node, Map!ReturnMap(n)
        PROVE  OneQuery' /\ HostsMap'
    <2>1. \A m \in mapNet : IsQuery(m) => m.sender # n
      BY <1>1, <1>3 DEF Map!ReturnMap, OneQuery
    <2>2. OneQuery'
      BY <1>1, <1>3, <2>1 DEF Map!ReturnMap, OneQuery, IsQuery
    <2>3. HostsMap'
      BY <1>1, <1>3 DEF Map!ReturnMap, HostsMap
    <2> QED
      BY <2>2, <2>3
  <1>4. ASSUME NEW n \in Node, Map!Join(n)
        PROVE  OneQuery' /\ HostsMap'
    BY <1>1, <1>4 DEF Map!Join, OneQuery, HostsMap, IsQuery
  <1>5. ASSUME NEW m \in mapNet, Map!QueryBack(m.to, m)
        PROVE  OneQuery' /\ HostsMap'
    <2>1. /\ IsQuery(m) /\ m.sender = m.to /\ m.to \in members /\ m.to \in Node
          /\ state[m.to] = "MAPPING_CHORD"
          /\ \A d \in mapNet' : d \in mapNet /\ (IsQuery(d) => d.sender # m.to)
      BY <1>1, <1>5 DEF Map!QueryBack, OneQuery, IsQuery
    <2>2. state' = [state EXCEPT ![m.to] = "MAPPING_COMPLETED"]
      BY <1>1, <1>5, <2>1 DEF Map!QueryBack
    <2>3. UNCHANGED <<members, chordMapResponseQueue>>
      BY <1>5 DEF Map!QueryBack
    <2>4. OneQuery'
      BY <1>1, <2>1, <2>2, <2>3 DEF OneQuery, IsQuery
    <2>5. HostsMap'
      BY <1>1, <2>1, <2>2, <2>3 DEF HostsMap
    <2> QED
      BY <2>4, <2>5
  <1>6. ASSUME NEW m \in mapNet, Map!AnswerQuery(m.to, m)
        PROVE  OneQuery' /\ HostsMap'
    <2> DEFINE next == NextOn(members, m.to)
               query == Map!ChordMapQuery(next, m.seq + 1, m.sender)
               response == Map!ChordMapResponse(m.sender, m.seq + 1, m.to)
    <2>1. /\ IsQuery(m) /\ next \in members
          /\ \A d \in mapNet' : \/ d \in mapNet /\ d # m
                                \/ d = response
                                \/ d = query
      BY <1>6, AnswersAtMember
    <2>2. UNCHANGED <<members, state, chordMapResponseQueue>>
      BY <1>6 DEF Map!AnswerQuery
    <2>3. ~ IsQuery(response) /\ query.to = next /\ query.sender = m.sender
      BY DEF IsQuery, Map!ChordMapQuery, Map!ChordMapResponse
    <2> HIDE DEF query, response
    <2>4. \A d \in mapNet' : IsQuery(d) =>
            (d \in mapNet /\ d.sender # m.sender) \/ d = query
      BY <1>1, <2>1, <2>3 DEF OneQuery
    <2>5. OneQuery'
      BY <1>1, <2>1, <2>2, <2>3, <2>4 DEF OneQuery, IsQuery
    <2> QED
      BY <1>1, <2>2, <2>5 DEF HostsMap
  <1>7. ASSUME NEW m \in mapNet, Map!TakeResponse(m.to, m)
        PROVE  OneQuery' /\ HostsMap'
    <2>1. OneQuery'
      BY <1>1, <1>7 DEF Map!TakeResponse, OneQuery, IsQuery
    <2>2. HostsMap'
      BY <1>1, <1>7 DEF Map!TakeResponse, HostsMap
    <2> QED
      BY <2>1, <2>2
  <1>8. ASSUME NEW m \in mapNet, Map!Lose(m)
        PROVE  OneQuery' /\ HostsMap'
    BY <1>1, <1>8 DEF Map!Lose, OneQuery, HostsMap, IsQuery
  <1>9. CASE Map!Settle
    BY <1>1, <1>9 DEF Map!Settle, OneQuery, HostsMap, IsQuery
  <1>10. CASE LookupStep /\ UNCHANGED mapOwn
    BY <1>1, <1>10, LookupCounts DEF mapOwn, OneQuery, HostsMap, IsQuery
  <1> QED
    BY <1>2, <1>3, <1>4, <1>5, <1>6, <1>7, <1>8, <1>9, <1>10
    DEF MapMove, MapStep, Map!Receive

\* What stays in place while the members do not change.
LEMMA StayInPlace ==
  ASSUME UNCHANGED members
  PROVE  /\ \A n, r : InPlace(n, r)' <=> InPlace(n, r)
         /\ \A n, m : PassedOn(n, m)' <=> PassedOn(n, m)
  BY DEF InPlace, PassedOn, Map!Place, Map!UpTo, Map!Clockwise

\* A query of n, sent on from n or from the member t, is where its number says.
LEMMA SentInPlace ==
  ASSUME MapInv, NEW n \in members, NEW t \in members, NEW q,
         q.to = NextOn(members, t), q.seq = Map!Place(n, t)
  PROVE  PassedOn(n, q)
  <1>1. CASE NextOn(members, t) = n
    BY <1>1, Places DEF PassedOn
  <1>2. CASE NextOn(members, t) # n
    BY <1>2, Places DEF PassedOn
  <1> QED
    BY <1>1, <1>2

LEMMA MapPlacesStep ==
  ASSUME MapInv, MapMove
  PROVE  PlacesMatch'
  <1>1. /\ PlacesMatch /\ OneQuery /\ HostsMap
        /\ members \in SUBSET Node
        /\ undisturbed \in [Node -> BOOLEAN]
        /\ chordMapResponseQueue \in
             [Node -> Seq([seq : 2 .. MaxHops + 1, responder : Node])]
        /\ \A m \in mapNet : m.to \in Node /\ (IsQuery(m) => m.sender \in Node)
    BY MapTypes, MapDatagrams DEF MapInv
  <1>2. ASSUME NEW c \in Node, MapCall(c)
        PROVE  PlacesMatch'
    <2> DEFINE q == Map!ChordMapQuery(NextOn(members, c), 1, c)
    <2>1. /\ mapNet' = mapNet \cup {q}
          /\ \A m \in mapNet : ~ (IsQuery(m) /\ m.sender = c)
      BY <1>2, StartsAtMember
    <2>2. /\ UNCHANGED <<members, chordMapResponseQueue>>
          /\ undisturbed' = [undisturbed EXCEPT ![c] = @ \/ ~ Map!Outstanding(c)]
          /\ state[c] = "SERVICING"
      BY <1>2 DEF MapCall, Map!StartMap
    <2>3. IsQuery(q) /\ ~ IsResponse(q) /\ q.sender = c
          /\ q.to = NextOn(members, c) /\ q.seq = 1
      BY DEF Map!ChordMapQuery, IsQuery, IsResponse
    <2> HIDE DEF q
    <2> SUFFICES ASSUME NEW n \in members, undisturbed'[n]
                 PROVE  /\ \A m \in mapNet' : IsQuery(m) /\ m.sender = n => PassedOn(n, m)
                        /\ \A m \in mapNet' : IsResponse(m) /\ m.to = n => InPlace(n, m)
                        /\ \A i \in DOMAIN chordMapResponseQueue[n] :
                             InPlace(n, chordMapResponseQueue[n][i])
      BY <2>2, StayInPlace DEF PlacesMatch, IsQuery, IsResponse
    <2>4. CASE undisturbed[n]
      <3>1. c = n => PassedOn(n, q)
        BY <2>3, Places, SentInPlace
      <3> QED
        BY <1>1, <2>1, <2>3, <2>4, <3>1 DEF PlacesMatch
    <2>5. CASE ~ undisturbed[n]
      <3>1. n = c /\ ~ Map!Outstanding(c)
        BY <1>1, <2>2, <2>5
      <3>2. chordMapResponseQueue[n] = <<>>
        BY <1>1, <2>2, <3>1 DEF HostsMap
      <3>3. \A m \in mapNet : ~ (IsResponse(m) /\ m.to = n)
        BY <3>1 DEF Map!Outstanding, IsResponse
      <3>4. PassedOn(n, q)
        BY <2>3, <3>1, Places, SentInPlace
      <3> QED
        BY <2>1, <2>3, <3>1, <3>2, <3>3, <3>4
    <2> QED
      BY <2>4, <2>5
  <1>3. ASSUME NEW c \in Node, Map!ReturnMap(c)
        PROVE  PlacesMatch'
    <2>1. UNCHANGED <<members, mapNet, undisturbed>>
      BY <1>3 DEF Map!ReturnMap
    <2>2. \A n \in members : \A i \in DOMAIN chordMapResponseQueue'[n] :
            /\ i \in DOMAIN chordMapResponseQueue[n]
            /\ chordMapResponseQueue'[n][i] = chordMapResponseQueue[n][i]
      BY <1>1, <1>3 DEF Map!ReturnMap
    <2> QED
      BY <1>1, <2>1, <2>2, StayInPlace DEF PlacesMatch, IsQuery, IsResponse
  <1>4. ASSUME UNCHANGED <<members, undisturbed, chordMapResponseQueue>>,
               mapNet' \subseteq mapNet
        PROVE  PlacesMatch'
    BY <1>1, <1>4, StayInPlace DEF PlacesMatch, IsQuery, IsResponse
  <1>5. ASSUME NEW m \in mapNet, Map!AnswerQuery(m.to, m)
        PROVE  PlacesMatch'
    <2> DEFINE next == NextOn(members, m.to)
               query == Map!ChordMapQuery(next, m.seq + 1, m.sender)
               response == Map!ChordMapResponse(m.sender, m.seq + 1, m.to)
    <2>1. /\ IsQuery(m) /\ next \in members /\ m.to \in members /\ m.to # m.sender
          /\ m.seq \in 1 .. MaxHops
          /\ \A d \in mapNet' : \/ d \in mapNet /\ d # m
                                \/ d = response
                                \/ d = query
      BY <1>5, AnswersAtMember
    <2>2. UNCHANGED <<members, undisturbed, chordMapResponseQueue>>
      BY <1>5 DEF Map!AnswerQuery
    <2>3. /\ ~ IsQuery(response) /\ response.to = m.sender
          /\ response.responder = m.to /\ response.seq = m.seq + 1
          /\ ~ IsResponse(query) /\ query.to = next /\ query.sender = m.sender
          /\ query.seq = m.seq + 1
      BY DEF IsQuery, IsResponse, Map!ChordMapQuery, Map!ChordMapResponse
    <2> HIDE DEF query, response
    <2> SUFFICES ASSUME NEW n \in members, undisturbed[n]
                 PROVE  /\ \A d \in mapNet' : IsQuery(d) /\ d.sender = n => PassedOn(n, d)
                        /\ \A d \in mapNet' : IsResponse(d) /\ d.to = n => InPlace(n, d)
                        /\ \A i \in DOMAIN chordMapResponseQueue[n] :
                             InPlace(n, chordMapResponseQueue[n][i])
      BY <2>2, StayInPlace DEF PlacesMatch, IsQuery, IsResponse
    <2>4. m.sender = n => Map!Place(n, m.to) = m.seq + 1
      <3>1. m.sender = n => PassedOn(n, m)
        BY <1>1, <2>1 DEF PlacesMatch
      <3> QED
        BY <2>1, <3>1 DEF PassedOn
    <2>5. m.sender = n => PassedOn(n, query) /\ InPlace(n, response)
      BY <2>1, <2>3, <2>4, SentInPlace DEF InPlace
    <2> QED
      BY <1>1, <2>1, <2>3, <2>5 DEF PlacesMatch
  <1>6. ASSUME NEW m \in mapNet, Map!TakeResponse(m.to, m)
        PROVE  PlacesMatch'
    <2> DEFINE r == [seq |-> m.seq, responder |-> m.responder]
               queue == chordMapResponseQueue[m.to]
    <2>1. /\ UNCHANGED <<members, undisturbed>> /\ mapNet' \subseteq mapNet
          /\ IsResponse(m) /\ m.to \in Node
      BY <1>1, <1>6 DEF Map!TakeResponse, IsResponse
    <2>2. /\ queue \in Seq([seq : 2 .. MaxHops + 1, responder : Node])
          /\ r \in [seq : 2 .. MaxHops + 1, responder : Node]
      BY <1>1, <2>1, MapDatagrams
    <2>3. /\ DOMAIN queue = 1 .. Len(queue) /\ Len(queue) \in Nat
          /\ DOMAIN Append(queue, r) = 1 .. Len(queue) + 1
          /\ \A i \in 1 .. Len(queue) : Append(queue, r)[i] = queue[i]
          /\ Append(queue, r)[Len(queue) + 1] = r
      BY <2>2, AppendProperties, LenProperties
    <2>4. \A n \in Node :
            \/ chordMapResponseQueue'[n] = chordMapResponseQueue[n]
            \/ n = m.to /\ chordMapResponseQueue'[n] = Append(queue, r)
      BY <1>1, <1>6 DEF Map!TakeResponse, Map!PushChordMapResponse
    <2> HIDE DEF queue
    <2> SUFFICES ASSUME NEW n \in members, undisturbed[n]
                 PROVE  \A i \in DOMAIN chordMapResponseQueue'[n] :
                          InPlace(n, chordMapResponseQueue'[n][i])
      BY <1>1, <2>1, StayInPlace DEF PlacesMatch, IsQuery, IsResponse
    <2>5. n = m.to => InPlace(n, r)
      BY <1>1, <2>1 DEF PlacesMatch, InPlace
    <2>6. n = m.to => \A i \in 1 .. Len(queue) + 1 : InPlace(n, Append(queue, r)[i])
      <3> SUFFICES ASSUME n = m.to, NEW i \in 1 .. Len(queue) + 1
                   PROVE  InPlace(n, Append(queue, r)[i])
        OBVIOUS
      <3>1. i \in 1 .. Len(queue) \/ i = Len(queue) + 1
        BY <2>3
      <3>2. \A j \in 1 .. Len(queue) : InPlace(n, queue[j])
        BY <1>1, <2>3 DEF PlacesMatch, queue
      <3> HIDE DEF r
      <3> QED
        BY <2>3, <2>5, <3>1, <3>2
    <2> HIDE DEF r
    <2> QED
      BY <1>1, <2>3, <2>4, <2>6 DEF PlacesMatch
  <1>7. CASE Map!Settle
    <2>1. \A n \in Node : undisturbed'[n] <=> ~ Map!Outstanding(n)
      BY <1>7 DEF Map!Settle
    <2>2. UNCHANGED <<mapNet, chordMapResponseQueue>> /\ members' \subseteq Node
      BY <1>7, MapTypes DEF Map!Settle
    <2>3. \A n \in Node : ~ Map!Outstanding(n) =>
            /\ \A m \in mapNet : ~ (IsQuery(m) /\ m.sender = n)
            /\ \A m \in mapNet : ~ (IsResponse(m) /\ m.to = n)
            /\ chordMapResponseQueue[n] = <<>>
      BY <1>1 DEF Map!Outstanding, OneQuery, HostsMap, IsResponse
    <2>4. \A n \in members' : undisturbed'[n] =>
            /\ \A m \in mapNet' : ~ (IsQuery(m) /\ m.sender = n)
            /\ \A m \in mapNet' : ~ (IsResponse(m) /\ m.to = n)
            /\ DOMAIN chordMapResponseQueue'[n] = {}
      BY <2>1, <2>2, <2>3
    <2> QED
      BY <2>4 DEF PlacesMatch, IsQuery, IsResponse
  <1>8. ASSUME NEW c \in Node, Map!Join(c)
        PROVE  PlacesMatch'
    BY <1>4, <1>8 DEF Map!Join
  <1>9. ASSUME NEW m \in mapNet, Map!QueryBack(m.to, m) \/ Map!Lose(m)
        PROVE  PlacesMatch'
    BY <1>4, <1>9 DEF Map!QueryBack, Map!Lose
  <1>10. CASE LookupStep /\ UNCHANGED mapOwn
    BY <1>4, <1>10, LookupCounts DEF mapOwn
  <1> QED
    BY <1>2, <1>3, <1>5, <1>6, <1>7, <1>8, <1>9, <1>10
    DEF MapMove, MapStep, Map!Receive

LEMMA MissingFinite ==
  ASSUME NEW n, NEW seq \in Nat
  PROVE  IsFiniteSet(Missing(n, seq)) /\ Cardinality(Missing(n, seq)) \in Nat
  <1>1. IsFiniteSet(2 .. seq)
    BY FS_Interval
  <1>2. Missing(n, seq) \subseteq 2 .. seq
    BY DEF Missing
  <1> QED
    BY <1>1, <1>2, FS_Subset, FS_CardinalityType

\* Answers that are not lost, nor any other, keep the count.
LEMMA CountKept ==
  ASSUME MapInv, MapTypeOK', lost' >= lost,
         \A d \in mapNet' : IsQuery(d) =>
           \/ Missing(d.sender, d.seq)' = {}
           \/ \E m \in mapNet : /\ IsQuery(m)
                                /\ Missing(d.sender, d.seq)' \subseteq Missing(m.sender, m.seq)
  PROVE  AnswersCount'
  <1>1. lost \in Nat /\ lost' \in Nat
    BY ConstantsAssumption DEF MapInv, MapTypeOK, Map!TypeOK
  <1> SUFFICES ASSUME NEW d \in mapNet', IsQuery(d)
               PROVE  Cardinality(Missing(d.sender, d.seq)') <= lost'
    BY DEF AnswersCount, IsQuery
  <1>2. CASE Missing(d.sender, d.seq)' = {}
    BY <1>1, <1>2, FS_EmptySet
  <1>3. ASSUME NEW m \in mapNet, IsQuery(m),
               Missing(d.sender, d.seq)' \subseteq Missing(m.sender, m.seq)
        PROVE  Cardinality(Missing(d.sender, d.seq)') <= lost'
    <2> DEFINE B == Missing(m.sender, m.seq)
               A == Missing(d.sender, d.seq)'
    <2>1. IsFiniteSet(B) /\ Cardinality(B) \in Nat
      BY <1>3, MissingFinite, MapDatagrams
    <2>2. Cardinality(B) <= lost
      BY <1>3 DEF MapInv, AnswersCount
    <2>3. A \subseteq B
      BY <1>3
    <2> HIDE DEF A, B
    <2>4. Cardinality(A) <= Cardinality(B) /\ Cardinality(A) \in Nat
      BY <2>1, <2>3, FS_Subset, FS_CardinalityType
    <2> QED
      BY <1>1, <2>1, <2>2, <2>4 DEF A
  <1> QED
    BY <1>2, <1>3

\* One more is missing when an answer is lost.
LEMMA CountOfLost ==
  ASSUME MapInv, NEW l \in mapNet, Map!Lose(l), NEW d \in mapNet', IsQuery(d)
  PROVE  Cardinality(Missing(d.sender, d.seq)') <= lost'
  <1> DEFINE B == Missing(d.sender, d.seq)
             A == Missing(d.sender, d.seq)'
  <1>1. d \in mapNet /\ lost' = lost + 1 /\ lost \in Nat
    BY MapTypes, ConstantsAssumption DEF Map!Lose
  <1>2. A \subseteq B \cup {l.seq}
    BY DEF Map!Lose, Missing, Queued, Coming, IsResponse
  <1>3. IsFiniteSet(B) /\ Cardinality(B) \in Nat /\ Cardinality(B) <= lost
    BY <1>1, MissingFinite, MapDatagrams DEF MapInv, AnswersCount
  <1> HIDE DEF A, B
  <1>4. /\ IsFiniteSet(B \cup {l.seq})
        /\ Cardinality(B \cup {l.seq}) \in Nat
        /\ Cardinality(B \cup {l.seq}) <= Cardinality(B) + 1
    <2>1. CASE l.seq \in B
      <3>1. B \cup {l.seq} = B
        BY <2>1
      <3>2. Cardinality(B) <= Cardinality(B) + 1
        BY <1>3
      <3> QED
        BY <1>3, <3>1, <3>2, Zenon
    <2>2. CASE l.seq \notin B
      BY <1>3, <2>2, FS_AddElement
    <2> QED
      BY <2>1, <2>2
  <1>5. Cardinality(A) <= Cardinality(B \cup {l.seq}) /\ Cardinality(A) \in Nat
    BY <1>2, <1>4, FS_Subset, FS_CardinalityType
  <1> QED
    BY <1>1, <1>3, <1>4, <1>5 DEF A

LEMMA MapCountStep ==
  ASSUME MapInv, MapMove
  PROVE  AnswersCount'
  <1> DEFINE Smaller(d, m) == Missing(d.sender, d.seq)' \subseteq Missing(m.sender, m.seq)
  <1>1. MapTypeOK'
    BY MapTypeStep
  <1>2. /\ OneQuery /\ HostsMap /\ AnswersCount /\ lost >= lost
        /\ chordMapResponseQueue \in
             [Node -> Seq([seq : 2 .. MaxHops + 1, responder : Node])]
        /\ \A m \in mapNet : m.to \in Node /\ (IsQuery(m) => m.sender \in Node)
    <2>1. OneQuery /\ HostsMap /\ AnswersCount
      BY DEF MapInv
    <2>2. lost \in Nat
      BY MapTypes, ConstantsAssumption
    <2>3. \A m \in mapNet : m.to \in Node /\ (IsQuery(m) => m.sender \in Node)
      BY MapDatagrams
    <2>4. lost >= lost
      BY <2>2
    <2>5. chordMapResponseQueue \in
            [Node -> Seq([seq : 2 .. MaxHops + 1, responder : Node])]
      BY MapTypes
    <2> QED
      BY <2>1, <2>3, <2>4, <2>5, Zenon
  <1>3. ASSUME NEW c \in Node, MapCall(c)
        PROVE  AnswersCount'
    <2> PICK q : q = Map!ChordMapQuery(NextOn(members, c), 1, c)
      OBVIOUS
    <2>1. mapNet' = mapNet \cup {q}
      BY <1>3, StartsAtMember
    <2>2. UNCHANGED <<lost, chordMapResponseQueue>>
      BY <1>3 DEF MapCall, Map!StartMap
    <2>3. ~ IsResponse(q) /\ q.seq = 1
      BY DEF IsResponse, Map!ChordMapQuery
    <2>4. \A d \in mapNet : IsQuery(d) => Smaller(d, d)
      BY <2>1, <2>2 DEF Missing, Queued, Coming, IsResponse
    <2>5. Missing(q.sender, q.seq)' = {}
      BY <2>3 DEF Missing
    <2> QED
      BY <1>1, <1>2, <2>1, <2>2, <2>4, <2>5, CountKept
  <1>4. ASSUME NEW c \in Node, Map!ReturnMap(c)
        PROVE  AnswersCount'
    <2>1. UNCHANGED <<lost, mapNet>>
      BY <1>4 DEF Map!ReturnMap
    <2>2. \A d \in mapNet : IsQuery(d) => d.sender # c
      BY <1>2, <1>4 DEF Map!ReturnMap, OneQuery
    <2>3. \A n \in Node : n # c => chordMapResponseQueue'[n] = chordMapResponseQueue[n]
      BY <1>2, <1>4 DEF Map!ReturnMap
    <2>4. \A d \in mapNet : IsQuery(d) => Smaller(d, d)
      BY <1>2, <2>1, <2>2, <2>3 DEF Missing, Queued, Coming, IsResponse
    <2> QED
      BY <1>1, <1>2, <2>1, <2>4, CountKept
  <1>5. ASSUME UNCHANGED <<chordMapResponseQueue, mapNet>>, lost' >= lost
        PROVE  AnswersCount'
    <2>1. \A d \in mapNet : IsQuery(d) => Smaller(d, d)
      BY <1>5 DEF Missing, Queued, Coming, IsResponse
    <2> QED
      BY <1>1, <1>5, <2>1, CountKept
  <1>6. ASSUME NEW m \in mapNet, Map!QueryBack(m.to, m)
        PROVE  AnswersCount'
    <2>1. /\ UNCHANGED <<lost, chordMapResponseQueue>> /\ mapNet' = mapNet \ {m}
          /\ ~ IsResponse(m)
      BY <1>6 DEF Map!QueryBack, IsResponse
    <2>2. \A d \in mapNet : IsQuery(d) => Smaller(d, d)
      BY <2>1 DEF Missing, Queued, Coming, IsResponse
    <2> QED
      BY <1>1, <1>2, <2>1, <2>2, CountKept
  <1>7. ASSUME NEW m \in mapNet, Map!AnswerQuery(m.to, m)
        PROVE  AnswersCount'
    <2> PICK query : query = Map!ChordMapQuery(NextOn(members, m.to), m.seq + 1, m.sender)
      OBVIOUS
    <2> PICK response : response = Map!ChordMapResponse(m.sender, m.seq + 1, m.to)
      OBVIOUS
    <2>1. /\ IsQuery(m) /\ m.seq \in 1 .. MaxHops
          /\ response \in mapNet'
          /\ \A d \in mapNet' : \/ d \in mapNet /\ d # m
                                \/ d = response
                                \/ d = query
          /\ \A d \in mapNet : d # m => d \in mapNet'
      BY <1>7, AnswersAtMember
    <2>2. UNCHANGED <<lost, chordMapResponseQueue>>
      BY <1>7 DEF Map!AnswerQuery
    <2>3. /\ IsResponse(response) /\ ~ IsQuery(response) /\ response.to = m.sender
          /\ response.seq = m.seq + 1 /\ ~ IsResponse(m)
          /\ query.sender = m.sender /\ query.seq = m.seq + 1
      BY <2>1 DEF IsQuery, IsResponse, Map!ChordMapQuery, Map!ChordMapResponse
    <2>4. \A n : Queued(n)' = Queued(n) /\ Coming(n) \subseteq Coming(n)'
      BY <2>1, <2>2, <2>3 DEF Queued, Coming, IsResponse
    <2>5. m.seq + 1 \in Coming(m.sender)'
      BY <2>1, <2>3 DEF Coming, IsResponse
    <2>6. Smaller(query, m)
      <3>1. \A k \in 2 .. m.seq + 1 : k = m.seq + 1 \/ k \in 2 .. m.seq
        BY <2>1
      <3> QED
        BY <2>3, <2>4, <2>5, <3>1 DEF Missing
    <2>7. \A d \in mapNet : Smaller(d, d)
      BY <2>4 DEF Missing
    <2> QED
      BY <1>1, <1>2, <2>1, <2>2, <2>3, <2>6, <2>7, CountKept
  <1>8. ASSUME NEW m \in mapNet, Map!TakeResponse(m.to, m)
        PROVE  AnswersCount'
    <2> DEFINE r == [seq |-> m.seq, responder |-> m.responder]
               queue == chordMapResponseQueue[m.to]
    <2>1. /\ UNCHANGED <<lost, state>> /\ mapNet' = mapNet \ {m}
          /\ IsResponse(m) /\ ~ IsQuery(m) /\ m.to \in Node
      BY <1>2, <1>8 DEF Map!TakeResponse, IsResponse, IsQuery
    <2>2. /\ queue \in Seq([seq : 2 .. MaxHops + 1, responder : Node])
          /\ r \in [seq : 2 .. MaxHops + 1, responder : Node]
      BY <1>2, <2>1, MapDatagrams
    <2>3. /\ DOMAIN queue = 1 .. Len(queue) /\ Len(queue) \in Nat
          /\ DOMAIN Append(queue, r) = 1 .. Len(queue) + 1
          /\ \A i \in 1 .. Len(queue) : Append(queue, r)[i] = queue[i]
          /\ Append(queue, r)[Len(queue) + 1] = r
      BY <2>2, AppendProperties, LenProperties
    <2>4. /\ \A n \in Node \ {m.to} :
               chordMapResponseQueue'[n] = chordMapResponseQueue[n]
          /\ state[m.to] = "MAPPING_CHORD" =>
               chordMapResponseQueue'[m.to] = Append(queue, r)
      BY <1>2, <1>8 DEF Map!TakeResponse, Map!PushChordMapResponse
    <2>5. ASSUME NEW d \in mapNet, IsQuery(d)
          PROVE  Smaller(d, d)
      <3>1. CASE d.sender # m.to
        BY <1>2, <2>1, <2>4, <2>5, <3>1 DEF Missing, Queued, Coming, IsResponse
      <3>2. CASE d.sender = m.to
        <4>1. chordMapResponseQueue'[m.to] = Append(queue, r)
          BY <1>2, <2>4, <2>5, <3>2 DEF OneQuery
        <4>2. Queued(m.to) \subseteq Queued(m.to)' /\ m.seq \in Queued(m.to)'
          <5>1. \A i \in DOMAIN queue : i \in DOMAIN Append(queue, r)
                                        /\ Append(queue, r)[i] = queue[i]
            BY <2>3
          <5>2. Len(queue) + 1 \in DOMAIN Append(queue, r) /\ r.seq = m.seq
            BY <2>3
          <5> HIDE DEF r
          <5> QED
            BY <2>3, <4>1, <5>1, <5>2 DEF Queued
        <4>3. Coming(m.to) \subseteq Coming(m.to)' \cup {m.seq}
          BY <2>1 DEF Coming, IsResponse
        <4> QED
          BY <3>2, <4>2, <4>3 DEF Missing
      <3> QED
        BY <3>1, <3>2
    <2> QED
      BY <1>1, <1>2, <2>1, <2>5, CountKept
  <1>9. ASSUME NEW m \in mapNet, Map!Lose(m)
        PROVE  AnswersCount'
    BY <1>9, CountOfLost DEF AnswersCount, IsQuery
  <1>10. CASE Map!Settle
    BY <1>2, <1>5, <1>10 DEF Map!Settle
  <1>11. ASSUME NEW c \in Node, Map!Join(c)
         PROVE  AnswersCount'
    BY <1>2, <1>5, <1>11 DEF Map!Join
  <1>12. CASE LookupStep /\ UNCHANGED mapOwn
    <2>1. UNCHANGED <<chordMapResponseQueue, mapNet>> /\ lost' >= lost
      BY <1>12, LookupCounts, MapTypes DEF mapOwn
    <2> QED
      BY <1>5, <2>1
  <1> QED
    BY <1>3, <1>4, <1>6, <1>7, <1>8, <1>9, <1>10, <1>11, <1>12
    DEF MapMove, MapStep, Map!Receive

LEMMA MapInitInv == CallsInit => MapInv
  <1> SUFFICES ASSUME CallsInit
               PROVE  MapInv
    OBVIOUS
  <1> USE DEF CallsInit, Map!Init
  <1>1. 0 \in 0 .. MaxCalls /\ 0 \in 0 .. MaxLoss
    BY ConstantsAssumption
  <1>2. MapTypeOK
    BY <1>1, ConstantsAssumption, EmptySeq DEF MapTypeOK, Map!TypeOK
  <1>3. OneQuery /\ HostsMap /\ AnswersCount
    BY DEF OneQuery, HostsMap, AnswersCount
  <1>4. \A n \in Node : DOMAIN chordMapResponseQueue[n] = {}
    OBVIOUS
  <1>5. members \subseteq Node
    BY ConstantsAssumption
  <1>6. PlacesMatch
    BY <1>4, <1>5 DEF PlacesMatch
  <1>7. shown = [n \in Node |-> shown[n]]
    OBVIOUS
  <1> QED
    BY <1>2, <1>3, <1>6, <1>7 DEF MapInv

LEMMA MapInvStep == MapInv /\ [CallsNext]_callsVars => MapInv'
  <1> SUFFICES ASSUME MapInv, [CallsNext]_callsVars
               PROVE  MapInv'
    OBVIOUS
  <1>1. CASE CallsNext
    <2>1. MapMove
      BY <1>1 DEF CallsNext, MapMove
    <2> QED
      BY <2>1, MapTypeStep, MapHostsStep, MapPlacesStep, MapCountStep DEF MapInv
  <1>2. CASE UNCHANGED callsVars
    <2>1. UNCHANGED <<members, newcomer, state, chordMapResponseQueue, shown, mapNet,
                      calls, lost, undisturbed>>
      BY <1>2 DEF callsVars, vars, callVars, mapOwn
    <2>2. MapTypeOK'
      BY <2>1 DEF MapInv, MapTypeOK, Map!TypeOK
    <2>3. OneQuery' /\ HostsMap'
      BY <2>1 DEF MapInv, OneQuery, HostsMap, IsQuery
    <2>4. PlacesMatch'
      BY <2>1, StayInPlace DEF MapInv, PlacesMatch, IsQuery, IsResponse
    <2>5. AnswersCount'
      BY <2>1 DEF MapInv, AnswersCount, Missing, Queued, Coming, IsQuery, IsResponse
    <2> QED
      BY <2>1, <2>2, <2>3, <2>4, <2>5 DEF MapInv
  <1> QED
    BY <1>1, <1>2

LEMMA MapInvariance == CallsSpec => []MapInv
  BY MapInitInv, MapInvStep, PTL DEF CallsSpec

\* Types of the variables of getChordMap(), beside lookups: no number, of a
\* query, an answer or a line of a map, passes the hosts there can be.
THEOREM MapTypeCorrect == CallsSpec => []MapTypeOK
  <1>1. MapInv => MapTypeOK
    BY DEF MapInv
  <1> QED
    BY <1>1, MapInvariance, PTL

LEMMA ReturnedMapIsRight ==
  ASSUME MapInv, MapMove, NEW n \in Node, shown[n] = NULL, shown'[n] # NULL,
         undisturbed[n], NEW k \in DOMAIN shown'[n]
  PROVE  shown'[n][k] \in members /\ Map!Place(n, shown'[n][k]) = k
  <1>1. state[n] = "MAPPING_COMPLETED" /\ shown'[n] = Map!Collected(n)
    <2>1. shown = [i \in Node |-> shown[i]]
      BY DEF MapInv
    <2>2. \A c \in Node : ~ MapCall(c)
      BY <2>1 DEF MapCall, Map!StartMap
    <2>3. ~ UNCHANGED shown
      OBVIOUS
    <2>4. PICK c \in Node : Map!ReturnMap(c)
      BY <2>2, <2>3, LookupCounts
      DEF MapMove, MapStep, mapOwn, Map!Join, Map!Receive, Map!QueryBack,
          Map!AnswerQuery, Map!TakeResponse, Map!Lose, Map!Settle
    <2>5. c = n
      BY <2>1, <2>4 DEF Map!ReturnMap
    <2> QED
      BY <2>1, <2>4, <2>5 DEF Map!ReturnMap
  <1>2. n \in members
    BY <1>1 DEF MapInv, HostsMap
  <1>3. CASE k = 1 /\ Map!Collected(n)[k] = n
    BY <1>1, <1>2, <1>3, Places
  <1>4. ASSUME NEW i \in DOMAIN chordMapResponseQueue[n],
               chordMapResponseQueue[n][i].seq = k,
               Map!Collected(n)[k] = chordMapResponseQueue[n][i].responder
        PROVE  shown'[n][k] \in members /\ Map!Place(n, shown'[n][k]) = k
    <2>1. InPlace(n, chordMapResponseQueue[n][i])
      BY <1>2 DEF MapInv, PlacesMatch
    <2> QED
      BY <1>1, <1>4, <2>1 DEF InPlace
  <1> QED
    BY <1>1, <1>3, <1>4, CollectedLines

\* The map that getChordMap() returns lists hosts by their places in the ring,
\* whatever answers overtook others, were lost, or come from earlier calls.
THEOREM MapCorrect == CallsSpec => MapIsRight
  <1> DEFINE Right ==
        \A n \in Node : shown[n] = NULL /\ shown'[n] # NULL /\ undisturbed[n] =>
          \A k \in DOMAIN shown'[n] :
            shown'[n][k] \in members /\ Map!Place(n, shown'[n][k]) = k
  <1>1. MapInv /\ [CallsNext]_callsVars => [Right]_(Map!vars)
    <2> SUFFICES ASSUME MapInv, [CallsNext]_callsVars
                 PROVE  Right \/ UNCHANGED Map!vars
      OBVIOUS
    <2>1. CASE CallsNext
      <3>1. MapMove
        BY <2>1 DEF CallsNext, MapMove
      <3> QED
        BY <3>1, ReturnedMapIsRight
    <2>2. CASE UNCHANGED callsVars
      BY <2>2 DEF callsVars, vars, callVars, mapOwn, Map!vars
    <2> QED
      BY <2>1, <2>2
  <1> QED
    BY <1>1, MapInvariance, PTL DEF CallsSpec, MapIsRight, Map!MapIsRight

\* When the query of a host is back.
LEMMA MappingEnds ==
  ASSUME MapInv, MapMove, NEW n \in Node, state[n] = "MAPPING_CHORD",
         state'[n] # "MAPPING_CHORD"
  PROVE  \E m \in mapNet : IsQuery(m) /\ m.to = n /\ m.sender = n
  <1>1. state \in [Node -> {"SERVICING", "MAPPING_CHORD", "MAPPING_COMPLETED"}]
    BY MapTypes
  <1>2. ASSUME NEW c \in Node, MapCall(c) \/ Map!ReturnMap(c)
        PROVE  state'[n] = state[n] \/ c = n
    BY <1>1, <1>2 DEF MapCall, Map!StartMap, Map!ReturnMap
  <1>3. \A c \in Node : ~ MapCall(c) /\ ~ Map!ReturnMap(c)
    <2>1. ~ MapCall(n) /\ ~ Map!ReturnMap(n)
      BY DEF MapCall, Map!StartMap, Map!ReturnMap
    <2> QED
      BY <1>2, <2>1
  <1>4. ~ UNCHANGED state
    OBVIOUS
  <1>5. PICK m \in mapNet : Map!QueryBack(m.to, m)
    BY <1>3, <1>4, LookupCounts
    DEF MapMove, MapStep, mapOwn, Map!Join, Map!Receive, Map!AnswerQuery,
        Map!TakeResponse, Map!Lose, Map!Settle
  <1>6. m.to = n
    BY <1>1, <1>5 DEF Map!QueryBack
  <1> QED
    BY <1>5, <1>6 DEF Map!QueryBack, IsQuery

LEMMA EndedMapIsWhole ==
  ASSUME MapInv, MapMove, NEW n \in Node, state[n] = "MAPPING_CHORD",
         state'[n] # "MAPPING_CHORD", undisturbed[n]
  PROVE  Cardinality(Missing(n, Cardinality(members))) <= lost
  <1>1. PICK m \in mapNet : IsQuery(m) /\ m.to = n /\ m.sender = n
    BY MappingEnds
  <1>2. n \in members /\ PassedOn(n, m)
    BY <1>1 DEF MapInv, OneQuery, PlacesMatch
  <1>3. m.seq = Cardinality(members)
    <2>1. m.seq \in Nat /\ Cardinality(members) \in Nat
      BY <1>1, MapTypes, MapDatagrams, FS_CardinalityType
    <2> QED
      BY <1>1, <1>2, <2>1 DEF PassedOn
  <1> QED
    BY <1>1, <1>3 DEF MapInv, AnswersCount

\* When the query is back, no more answers are neither queued nor coming than
\* datagrams were lost.
THEOREM MapWholeCorrect == CallsSpec => MapIsWhole
  <1> DEFINE Whole ==
        \A n \in Node :
          state[n] = "MAPPING_CHORD" /\ state'[n] # "MAPPING_CHORD" /\ undisturbed[n] =>
            LET queued == {r.seq : r \in Map!Range(chordMapResponseQueue[n])}
                coming == {m.seq : m \in {d \in mapNet :
                                            d.type = "CHORD_MAP_RESPONSE" /\ d.to = n}}
            IN Map!Cardinality((2 .. Map!Cardinality(members)) \ (queued \cup coming)) <= lost
  <1>1. MapInv /\ [CallsNext]_callsVars => [Whole]_(Map!vars)
    <2> SUFFICES ASSUME MapInv, [CallsNext]_callsVars
                 PROVE  Whole \/ UNCHANGED Map!vars
      OBVIOUS
    <2>1. CASE CallsNext
      <3>1. MapMove
        BY <2>1 DEF CallsNext, MapMove
      <3>2. \A n : {r.seq : r \in Map!Range(chordMapResponseQueue[n])} = Queued(n)
        BY DEF Map!Range, Queued
      <3>3. \A n : {m.seq : m \in {d \in mapNet :
                      d.type = "CHORD_MAP_RESPONSE" /\ d.to = n}} = Coming(n)
        BY DEF Coming, IsResponse
      <3> QED
        BY <3>1, <3>2, <3>3, EndedMapIsWhole, SameCardinality DEF Missing
    <2>2. CASE UNCHANGED callsVars
      BY <2>2 DEF callsVars, vars, callVars, mapOwn, Map!vars
    <2> QED
      BY <2>1, <2>2
  <1> QED
    BY <1>1, MapInvariance, PTL DEF CallsSpec, MapIsWhole, Map!MapIsWhole
=============================================================================
