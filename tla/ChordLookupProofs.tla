-------------------------- MODULE ChordLookupProofs --------------------------
(***************************************************************************)
(* Lookups return the responsible node in every ring, of any size, that    *)
(* grows while no response is parked, with any number of calls and of      *)
(* lost, reordered and repeated datagrams, as long as the finger job has   *)
(* not begun to run (with fingers they do not).  Then rings whose finger   *)
(* job runs.                                                               *)
(***************************************************************************)
EXTENDS ChordLookup, RingArithProofs, SequenceTheorems

USE DEF Ident

\* A query in flight has not gone past its key, nor come back.
OnItsWay(m) ==
  /\ m.sender \in members /\ m.to \in members /\ m.to # m.sender
  /\ m.searchTerm \in Key
  /\ Clockwise(m.sender, m.to) < Reach(m.sender, m.searchTerm)

IsRight(r) ==
  r.searchTerm \in Key /\ r.responder \in Node /\ r.responder = Owner(members, r.searchTerm)

RightResponse ==
  {r \in [searchTerm : Key, responder : Node] : r.responder = Owner(members, r.searchTerm)}

NoFingers ==
  /\ fingers = [n \in Node |-> [s \in Ident |-> NULL]]
  /\ \A m \in net : m.type \in {"SUCCESSOR_QUERY", "SUCCESSOR_RESPONSE"}

CallersAreMembers == \A n \in Node : call[n] # NULL => n \in members

NetIsRight ==
  \A m \in net : /\ m.type = "SUCCESSOR_QUERY" => OnItsWay(m)
                 /\ m.type = "SUCCESSOR_RESPONSE" => IsRight(m)

QueuesAreRight == successorResponseQueue \in [Node -> Seq(RightResponse)]

\* One timer while query() waits, for its key; none otherwise.
TimersMatch ==
  \A n \in Node :
    /\ n \notin waiting => sendTimers[n] = {}
    /\ n \in waiting => sendTimers[n] # {}
    /\ \A t \in sendTimers[n] :
         t.term = call[n] /\ t.msg.type = "SUCCESSOR_QUERY" /\ OnItsWay(t.msg)

LookupInv ==
  /\ TypeOK
  /\ members # {}
  /\ NoFingers
  /\ CallersAreMembers
  /\ NetIsRight
  /\ QueuesAreRight
  /\ TimersMatch

\* The rings and calls of the theorems.
Plain == UseFingers = FALSE /\ GrowDrained = TRUE

-----------------------------------------------------------------------------
(* The pointers.                                                           *)

LEMMA MembersAreIdents == LookupInv => members \in SUBSET Ident /\ members \subseteq Node
  BY ConstantsAssumption DEF LookupInv, TypeOK

LEMMA SuccessorIs ==
  ASSUME LookupInv, NEW n \in members
  PROVE  /\ n \in Ident
         /\ successor[n] = NextOn(members, n)
         /\ successor[n] \in members
         /\ members \ {n} = {} <=> successor[n] = n
  <1>1. successor[n] = NextOn(members, n)
    BY DEF successor
  <1>2. CASE members \ {n} = {}
    BY <1>1, <1>2, MembersAreIdents DEF NextOn
  <1>3. CASE members \ {n} # {}
    BY <1>1, <1>3, MembersAreIdents, NextOnFirst
  <1> QED
    BY <1>1, <1>2, <1>3, MembersAreIdents

\* Without fingers the next hop is the successor.
LEMMA NextHop ==
  ASSUME LookupInv, NEW n \in Node, NEW key \in Ident
  PROVE  GetSuccessorOf(fingers[n], successor[n], key) = {successor[n]}
  <1>1. Entries(fingers[n]) = {}
    BY DEF LookupInv, NoFingers, Entries
  <1> QED
    BY <1>1, HopWithoutFingers

\* Where a member sends a query, its own or another's, that it cannot answer.
LEMMA HopIsOnItsWay ==
  ASSUME LookupInv, NEW n \in members, NEW t \in members, NEW key \in Key,
         successor[t] # t,
         Clockwise(n, t) < Reach(n, key),
         ~ IsInSuccessor(key, t, successor[t])
  PROVE  /\ successor[t] \in members \ {n}
         /\ Clockwise(n, successor[t]) < Reach(n, key)
  BY MembersAreIdents, SuccessorIs, QueryStep, ConstantsAssumption

\* What a member answers, at once or to another.
LEMMA AnswerIsRight ==
  ASSUME LookupInv, NEW n \in members, NEW key \in Key,
         successor[n] = n \/ IsInSuccessor(key, n, successor[n])
  PROVE  successor[n] = Owner(members, key)
  <1>1. CASE successor[n] = n
    BY <1>1, MembersAreIdents, SuccessorIs, AloneIsOwner, ConstantsAssumption
  <1>2. CASE successor[n] # n
    BY <1>2, MembersAreIdents, SuccessorIs, AnswerIsOwner, ConstantsAssumption
  <1> QED
    BY <1>1, <1>2

LEMMA WayBegins ==
  ASSUME NEW n \in Ident, NEW key \in Ident
  PROVE  Clockwise(n, n) < Reach(n, key)
  BY RingSizeAssumption DEF Clockwise, Reach

-----------------------------------------------------------------------------
(* The actions, one lemma each: it preserves the invariant.                *)

LEMMA LookupInitInv == Init => LookupInv
  <1> SUFFICES ASSUME Init
               PROVE  LookupInv
    OBVIOUS
  <1> USE DEF Init
  <1>1. TypeOK
    BY ConstantsAssumption DEF TypeOK
  <1>2. members # {} /\ NoFingers /\ CallersAreMembers /\ NetIsRight /\ TimersMatch
    BY ConstantsAssumption DEF NoFingers, CallersAreMembers, NetIsRight, TimersMatch
  <1>3. QueuesAreRight
    BY DEF QueuesAreRight
  <1> QED
    BY <1>1, <1>2, <1>3 DEF LookupInv

\* A step that keeps the ring and the fingers and adds to the network at most
\* one datagram, a query on its way or a response that is right.
LEMMA NetworkStep ==
  ASSUME LookupInv, UNCHANGED <<members, fingers>>, NEW q,
         net' \subseteq net \cup {q},
         \/ q.type = "SUCCESSOR_QUERY" /\ OnItsWay(q)
         \/ q.type = "SUCCESSOR_RESPONSE" /\ IsRight(q)
  PROVE  NoFingers' /\ NetIsRight'
  BY DEF LookupInv, NoFingers, NetIsRight, OnItsWay, IsRight

\* One that adds none.
LEMMA NothingSent ==
  ASSUME LookupInv, UNCHANGED <<members, fingers>>, net' \subseteq net
  PROVE  NoFingers' /\ NetIsRight'
  BY DEF LookupInv, NoFingers, NetIsRight, OnItsWay, IsRight

LEMMA QueuesKept ==
  ASSUME LookupInv, UNCHANGED <<members, successorResponseQueue>>
  PROVE  QueuesAreRight'
  BY DEF LookupInv, QueuesAreRight, RightResponse

LEMMA TimersKept ==
  ASSUME LookupInv, UNCHANGED <<members, waiting, sendTimers>>,
         \A n \in waiting : call'[n] = call[n]
  PROVE  TimersMatch'
  BY DEF LookupInv, TimersMatch, OnItsWay

LEMMA AskInv ==
  ASSUME LookupInv, NEW n \in Node, Ask(n)
  PROVE  LookupInv'
  <1>1. PICK k \in Key : call' = [call EXCEPT ![n] = k]
    BY DEF Ask
  <1>2. k # NULL /\ n \in members /\ call[n] = NULL /\ n \notin waiting
    BY ConstantsAssumption DEF Ask, LookupInv, TypeOK
  <1>3. calls' \in 0 .. MaxCalls
    BY ConstantsAssumption DEF Ask, LookupInv, TypeOK
  <1>4. TypeOK'
    BY <1>1, <1>2, <1>3 DEF Ask, LookupInv, TypeOK
  <1>5. CallersAreMembers' /\ members' # {}
    BY <1>1, <1>2 DEF Ask, LookupInv, TypeOK, CallersAreMembers
  <1>6. TimersMatch'
    BY <1>1, <1>2, TimersKept DEF Ask, LookupInv, TypeOK
  <1> QED
    BY <1>4, <1>5, <1>6, NothingSent, QueuesKept DEF Ask, LookupInv

LEMMA AnswerAtOnceInv ==
  ASSUME LookupInv, NEW n \in Node, AnswerAtOnce(n)
  PROVE  LookupInv'
  <1> USE DEF AnswerAtOnce, Return
  <1>1. n \in members /\ call[n] \in Key /\ n \notin waiting
    BY DEF LookupInv, TypeOK, CallersAreMembers
  <1>2. successor[n] \in Node
    BY <1>1, SuccessorIs, MembersAreIdents
  <1> HIDE DEF successor
  <1>3. TypeOK'
    BY <1>1, <1>2 DEF LookupInv, TypeOK
  <1>4. CallersAreMembers' /\ members' # {}
    BY DEF LookupInv, TypeOK, CallersAreMembers
  <1>5. TimersMatch'
    BY <1>1, TimersKept DEF LookupInv, TypeOK
  <1> QED
    BY <1>3, <1>4, <1>5, NothingSent, QueuesKept DEF LookupInv

LEMMA SendQueryInv ==
  ASSUME LookupInv, NEW n \in Node, SendQuery(n)
  PROVE  LookupInv'
  <1> DEFINE q == Query("SUCCESSOR_QUERY", successor[n], call[n], n)
             timer == [term |-> call[n], msg |-> q]
  <1>1. n \in members /\ call[n] \in Key /\ n \notin waiting /\ sendTimers[n] = {}
    BY DEF SendQuery, LookupInv, TypeOK, CallersAreMembers, TimersMatch
  <1>2. call[n] \in Ident /\ GetSuccessorOf(fingers[n], successor[n], call[n]) = {successor[n]}
    BY <1>1, NextHop, ConstantsAssumption
  <1>3. q.type = "SUCCESSOR_QUERY" /\ OnItsWay(q)
    BY <1>1, <1>2, SuccessorIs, WayBegins, HopIsOnItsWay DEF SendQuery, OnItsWay, Query
  <1>4. q \in Datagram /\ q.searchTerm = call[n]
    BY <1>1, <1>2, SuccessorIs, MembersAreIdents DEF Query, Datagram
  <1>5. /\ net' \subseteq net \cup {q}
        /\ sendTimers' = [sendTimers EXCEPT ![n] = {timer}]
        /\ waiting' = waiting \cup {n}
        /\ UNCHANGED <<members, call, answer, calls, successorResponseQueue, fingers, lost>>
    BY <1>1, <1>2, <1>4 DEF SendQuery, Deliverable, PushSendTimer
  <1> HIDE DEF q
  <1>6. timer \in [term : Key, msg : {m \in Datagram : m.type = "SUCCESSOR_QUERY"}]
        /\ timer.term = call[n] /\ timer.msg = q
    BY <1>1, <1>3, <1>4
  <1> HIDE DEF timer
  <1>7. /\ sendTimers' \in [Node -> SUBSET [term : Key,
                               msg : {m \in Datagram : m.type = "SUCCESSOR_QUERY"}]]
        /\ net' \in SUBSET Datagram
    BY <1>4, <1>5, <1>6 DEF LookupInv, TypeOK
  <1>8. waiting' \in SUBSET {i \in Node : call'[i] # NULL}
    BY <1>1, <1>5, ConstantsAssumption DEF LookupInv, TypeOK
  <1>9. TypeOK'
    BY <1>5, <1>7, <1>8 DEF LookupInv, TypeOK
  <1>10. CallersAreMembers' /\ members' # {}
    BY <1>5 DEF LookupInv, CallersAreMembers
  <1>11. TimersMatch'
    BY <1>3, <1>5, <1>6 DEF LookupInv, TypeOK, TimersMatch, OnItsWay
  <1> QED
    BY <1>3, <1>5, <1>9, <1>10, <1>11, NetworkStep, QueuesKept DEF LookupInv

\* The first response in the queue is right, and so are those behind it.
LEMMA HeadIsRight ==
  ASSUME LookupInv, NEW n \in Node, successorResponseQueue[n] # <<>>
  PROVE  /\ Head(successorResponseQueue[n]) \in RightResponse
         /\ Tail(successorResponseQueue[n]) \in Seq(RightResponse)
  <1>1. successorResponseQueue[n] \in Seq(RightResponse)
    BY DEF LookupInv, QueuesAreRight
  <1> QED
    BY <1>1, HeadTailProperties

LEMMA RightIsTyped == RightResponse \subseteq [searchTerm : Key, responder : Node]
  BY DEF RightResponse

LEMMA PopResponseInv ==
  ASSUME LookupInv, NEW n \in Node, PopResponse(n)
  PROVE  LookupInv'
  <1> DEFINE q == successorResponseQueue[n]
  <1>1. n \in members /\ n \in waiting /\ call[n] \in Key
    BY DEF PopResponse, LookupInv, TypeOK, CallersAreMembers
  <1>2. /\ q # <<>>
        /\ successorResponseQueue' = [successorResponseQueue EXCEPT ![n] = Tail(q)]
        /\ UNCHANGED <<members, calls, fingers, net, lost>>
    BY DEF PopResponse
  <1>3. \/ UNCHANGED <<call, answer, waiting, sendTimers>>
        \/ /\ \E a \in [key : Key, host : Node] : answer' = [answer EXCEPT ![n] = a]
           /\ call' = [call EXCEPT ![n] = NULL]
           /\ waiting' = waiting \ {n}
           /\ sendTimers' = [sendTimers EXCEPT ![n] = {}]
    <2>1. Head(q).responder \in Node
      BY <1>2, HeadIsRight, RightIsTyped
    <2>2. UnsetSendTimer(n) = {}
      BY DEF UnsetSendTimer, LookupInv, TimersMatch
    <2>3. [key |-> call[n], host |-> Head(q).responder] \in [key : Key, host : Node]
      BY <1>1, <2>1
    <2> QED
      BY <2>2, <2>3 DEF PopResponse, Return
  <1>4. /\ q \in Seq([searchTerm : Key, responder : Node])
        /\ Tail(q) \in Seq([searchTerm : Key, responder : Node])
        /\ Tail(q) \in Seq(RightResponse)
    <2>1. q \in Seq([searchTerm : Key, responder : Node])
      BY DEF LookupInv, TypeOK
    <2> QED
      BY <2>1, <1>2, HeadIsRight, HeadTailProperties
  <1> HIDE DEF q
  <1>5. /\ successorResponseQueue' \in [Node -> Seq([searchTerm : Key, responder : Node])]
        /\ QueuesAreRight'
    BY <1>2, <1>4 DEF LookupInv, TypeOK, QueuesAreRight, RightResponse
  <1>6. /\ call' \in [Node -> Key \cup {NULL}]
        /\ waiting' \in SUBSET {i \in Node : call'[i] # NULL}
        /\ answer' \in [Node -> [key : Key, host : Node] \cup {NULL}]
    <2>1. call' \in [Node -> Key \cup {NULL}]
          /\ waiting' \in SUBSET {i \in Node : call'[i] # NULL}
      BY <1>3 DEF LookupInv, TypeOK
    <2>2. answer' \in [Node -> [key : Key, host : Node] \cup {NULL}]
      <3> DEFINE A == [key : Key, host : Node] \cup {NULL}
      <3>1. answer \in [Node -> A]
        BY DEF LookupInv, TypeOK
      <3>2. answer' = answer \/ \E a \in A : answer' = [answer EXCEPT ![n] = a]
        BY <1>3
      <3> HIDE DEF A
      <3>3. answer' \in [Node -> A]
        BY <3>1, <3>2
      <3> QED
        BY <3>3 DEF A
    <2> QED
      BY <2>1, <2>2
  <1>7. TypeOK'
    BY <1>2, <1>3, <1>5, <1>6 DEF LookupInv, TypeOK
  <1>8. CallersAreMembers' /\ members' # {}
    BY <1>2, <1>3 DEF LookupInv, TypeOK, CallersAreMembers
  <1>9. TimersMatch'
    BY <1>2, <1>3 DEF LookupInv, TypeOK, TimersMatch, OnItsWay
  <1> QED
    BY <1>2, <1>5, <1>7, <1>8, <1>9, NothingSent DEF LookupInv

LEMMA GiveUpInv ==
  ASSUME LookupInv, NEW n \in Node, GiveUp(n)
  PROVE  LookupInv'
  <1>1. /\ call' = [call EXCEPT ![n] = NULL]
        /\ waiting' = waiting \ {n}
        /\ sendTimers' = [sendTimers EXCEPT ![n] = {}]
        /\ UNCHANGED <<members, answer, calls, successorResponseQueue, fingers, net, lost>>
    BY DEF GiveUp, UnsetSendTimer, LookupInv, TimersMatch
  <1>2. TypeOK'
    BY <1>1 DEF LookupInv, TypeOK
  <1>3. CallersAreMembers' /\ members' # {}
    BY <1>1 DEF LookupInv, TypeOK, CallersAreMembers
  <1>4. TimersMatch'
    BY <1>1 DEF LookupInv, TypeOK, TimersMatch, OnItsWay
  <1> QED
    BY <1>1, <1>2, <1>3, <1>4, NothingSent, QueuesKept DEF LookupInv

\* A saved query is as far on its way as it was when it was sent.
LEMMA ResendTimedOutInv ==
  ASSUME LookupInv, NEW n \in Node, ResendTimedOut(n)
  PROVE  LookupInv'
  <1>1. PICK t \in sendTimers[n] : net' = net \cup Deliverable(n, {t.msg})
    BY DEF ResendTimedOut
  <1>2. t.msg \in Datagram /\ t.msg.type = "SUCCESSOR_QUERY" /\ OnItsWay(t.msg)
    BY DEF LookupInv, TypeOK, TimersMatch
  <1>3. /\ net' \subseteq net \cup {t.msg}
        /\ UNCHANGED <<members, callVars, successorResponseQueue, fingers, lost>>
    BY <1>1 DEF ResendTimedOut, Deliverable
  <1>4. TypeOK'
    BY <1>2, <1>3 DEF LookupInv, TypeOK, callVars
  <1>5. CallersAreMembers' /\ members' # {} /\ TimersMatch'
    BY <1>3, TimersKept DEF LookupInv, CallersAreMembers, callVars
  <1> QED
    BY <1>2, <1>3, <1>4, <1>5, NetworkStep, QueuesKept DEF LookupInv

\* A handler that keeps the queues of responses.
LEMMA HandledInv ==
  ASSUME LookupInv, NEW m \in net, NEW q \in Datagram,
         \/ q.type = "SUCCESSOR_QUERY" /\ OnItsWay(q)
         \/ q.type = "SUCCESSOR_RESPONSE" /\ IsRight(q),
         net' \subseteq net \cup {q},
         UNCHANGED <<members, callVars, successorResponseQueue, fingers, lost>>
  PROVE  LookupInv'
  <1>1. TypeOK'
    BY DEF LookupInv, TypeOK, callVars
  <1>2. CallersAreMembers' /\ members' # {} /\ TimersMatch'
    BY TimersKept DEF LookupInv, CallersAreMembers, callVars
  <1> QED
    BY <1>1, <1>2, NetworkStep, QueuesKept DEF LookupInv

\* What a handler may assume of a query it is given.
LEMMA QueryReceived ==
  ASSUME LookupInv, NEW m \in net, m.type = "SUCCESSOR_QUERY"
  PROVE  /\ m.to \in members /\ m.sender \in members /\ m.searchTerm \in Key
         /\ m.to # m.sender /\ successor[m.to] # m.to
         /\ m \in [type : {"SUCCESSOR_QUERY", "FINGER_QUERY"}, to : Node,
                   searchTerm : Ident, sender : Node]
         /\ Clockwise(m.sender, m.to) < Reach(m.sender, m.searchTerm)
  <1>1. OnItsWay(m)
    BY DEF LookupInv, NetIsRight
  <1>2. m \in [type : {"SUCCESSOR_QUERY", "FINGER_QUERY"}, to : Node,
               searchTerm : Ident, sender : Node]
    BY DEF LookupInv, TypeOK, Datagram
  <1>3. members \ {m.to} # {}
    BY <1>1 DEF OnItsWay
  <1> QED
    BY <1>1, <1>2, <1>3, SuccessorIs DEF OnItsWay

LEMMA AnswerWithSuccessorInv ==
  ASSUME LookupInv, NEW m \in net, AnswerWithSuccessor(m.to, m)
  PROVE  LookupInv'
  <1>1. m.type = "SUCCESSOR_QUERY"
    BY DEF AnswerWithSuccessor, LookupInv, NoFingers
  <1> DEFINE q == Response("SUCCESSOR_RESPONSE", m.sender, m.searchTerm, successor[m.to])
  <1>2. successor[m.to] = Owner(members, m.searchTerm)
    BY <1>1, QueryReceived, AnswerIsRight DEF AnswerWithSuccessor
  <1>3. successor[m.to] \in Node
    BY <1>1, QueryReceived, SuccessorIs, MembersAreIdents
  <1>4. q.type = "SUCCESSOR_RESPONSE" /\ IsRight(q)
    BY <1>1, <1>2, <1>3, QueryReceived DEF Response, IsRight
  <1>5. q \in Datagram
    BY <1>1, <1>3, QueryReceived, MembersAreIdents, ConstantsAssumption DEF Response, Datagram
  <1>6. net' \subseteq net \cup {q}
    BY <1>1 DEF AnswerWithSuccessor, Responder
  <1> HIDE DEF q
  <1> QED
    BY <1>4, <1>5, <1>6, HandledInv DEF AnswerWithSuccessor

LEMMA ForwardQueryInv ==
  ASSUME LookupInv, NEW m \in net, ForwardQuery(m.to, m)
  PROVE  LookupInv'
  <1>1. m.type = "SUCCESSOR_QUERY"
    BY DEF ForwardQuery, LookupInv, NoFingers
  <1> DEFINE q == [m EXCEPT !.to = successor[m.to]]
  <1>2. GetSuccessorOf(fingers[m.to], successor[m.to], m.searchTerm) = {successor[m.to]}
    BY <1>1, QueryReceived, NextHop, MembersAreIdents
  <1>3. /\ successor[m.to] \in members \ {m.sender}
        /\ Clockwise(m.sender, successor[m.to]) < Reach(m.sender, m.searchTerm)
    BY <1>1, QueryReceived, HopIsOnItsWay DEF ForwardQuery
  <1>4. q \in Datagram /\ q.type = "SUCCESSOR_QUERY" /\ q.sender = m.sender
        /\ q.searchTerm = m.searchTerm /\ q.to = successor[m.to]
    BY <1>1, <1>3, QueryReceived, MembersAreIdents DEF Datagram
  <1>5. OnItsWay(q)
    BY <1>1, <1>3, <1>4, QueryReceived DEF OnItsWay
  <1>6. net' \subseteq net \cup {q}
    BY <1>1, <1>2 DEF ForwardQuery, Deliverable
  <1> HIDE DEF q
  <1> QED
    BY <1>4, <1>5, <1>6, HandledInv DEF ForwardQuery

LEMMA HandleSuccessorResponseInv ==
  ASSUME LookupInv, NEW m \in net, HandleSuccessorResponse(m.to, m)
  PROVE  LookupInv'
  <1> DEFINE r == [searchTerm |-> m.searchTerm, responder |-> m.responder]
             n == m.to
  <1>1. n \in Node
    BY DEF LookupInv, TypeOK, Datagram
  <1>2. r \in RightResponse /\ r \in [searchTerm : Key, responder : Node]
    BY DEF HandleSuccessorResponse, LookupInv, NetIsRight, IsRight, RightResponse
  <1>3. /\ successorResponseQueue' =
             [successorResponseQueue EXCEPT ![n] = Append(successorResponseQueue[n], r)]
        /\ net' \subseteq net
        /\ UNCHANGED <<members, callVars, fingers, lost>>
    BY DEF HandleSuccessorResponse, Park
  <1> HIDE DEF r, n
  <1>4. /\ Append(successorResponseQueue[n], r) \in Seq([searchTerm : Key, responder : Node])
        /\ Append(successorResponseQueue[n], r) \in Seq(RightResponse)
    BY <1>1, <1>2, AppendProperties DEF LookupInv, TypeOK, QueuesAreRight
  <1>5. /\ successorResponseQueue' \in [Node -> Seq([searchTerm : Key, responder : Node])]
        /\ successorResponseQueue' \in [Node -> Seq(RightResponse)]
    BY <1>1, <1>3, <1>4 DEF LookupInv, TypeOK, QueuesAreRight
  <1>6. QueuesAreRight'
    BY <1>3, <1>5 DEF QueuesAreRight, RightResponse
  <1>7. TypeOK'
    BY <1>3, <1>5 DEF LookupInv, TypeOK, callVars
  <1>8. CallersAreMembers' /\ members' # {} /\ TimersMatch'
    BY <1>3, TimersKept DEF LookupInv, CallersAreMembers, callVars
  <1> QED
    BY <1>3, <1>6, <1>7, <1>8, NothingSent DEF LookupInv

LEMMA LoseInv ==
  ASSUME LookupInv, NEW m \in net, Lose(m)
  PROVE  LookupInv'
  <1>1. lost' \in 0 .. MaxLoss
    BY ConstantsAssumption DEF Lose, LookupInv, TypeOK
  <1>2. TypeOK'
    BY <1>1 DEF Lose, LookupInv, TypeOK, callVars
  <1>3. CallersAreMembers' /\ members' # {} /\ TimersMatch'
    BY TimersKept DEF Lose, LookupInv, CallersAreMembers, callVars
  <1> QED
    BY <1>2, <1>3, NothingSent, QueuesKept DEF Lose, LookupInv

\* Nothing is in flight, saved or parked that was right before the ring grew.
LEMMA GrowInv ==
  ASSUME LookupInv, Plain, NEW n \in Node, Grow(n)
  PROVE  LookupInv'
  <1>1. /\ net = {} /\ net' = {}
        /\ waiting = {} /\ waiting' = {}
        /\ \A i \in Node : sendTimers[i] = {}
        /\ members' = members \cup {n}
        /\ UNCHANGED <<callVars, successorResponseQueue, fingers, lost>>
    BY DEF Grow, LookupInv, TypeOK, TimersMatch, callVars
  <1>2. \A i \in Node : successorResponseQueue[i] = <<>>
    BY DEF Grow, Plain
  <1>3. TypeOK' /\ members' # {} /\ NoFingers' /\ CallersAreMembers'
    BY <1>1 DEF LookupInv, TypeOK, NoFingers, CallersAreMembers, callVars
  <1>4. NetIsRight' /\ TimersMatch'
    BY <1>1 DEF NetIsRight, TimersMatch, callVars
  <1>5. QueuesAreRight'
    <2>1. \A S : <<>> \in Seq(S)
      OBVIOUS
    <2>2. successorResponseQueue' \in [Node -> Seq(RightResponse')]
      BY <1>1, <1>2, <2>1 DEF LookupInv, TypeOK
    <2> QED
      BY <2>2 DEF QueuesAreRight
  <1> QED
    BY <1>3, <1>4, <1>5 DEF LookupInv

LEMMA LookupStutterInv ==
  ASSUME LookupInv, UNCHANGED vars
  PROVE  LookupInv'
  <1>1. TypeOK'
    BY DEF vars, callVars, LookupInv, TypeOK
  <1>2. CallersAreMembers' /\ members' # {} /\ TimersMatch'
    BY TimersKept DEF vars, callVars, LookupInv, CallersAreMembers
  <1> QED
    BY <1>1, <1>2, NothingSent, QueuesKept DEF vars, LookupInv

-----------------------------------------------------------------------------
(* The specification.                                                      *)

LEMMA ReceiveInv ==
  ASSUME LookupInv, NEW m \in net, Receive(m)
  PROVE  LookupInv'
  <1>1. ~ QueryLoopedBack(m.to, m)
    BY QueryReceived DEF QueryLoopedBack
  <1>2. ~ HandleFingerResponse(m.to, m)
    BY DEF HandleFingerResponse, LookupInv, NoFingers
  <1> QED
    BY <1>1, <1>2, AnswerWithSuccessorInv, ForwardQueryInv, HandleSuccessorResponseInv
       DEF Receive

LEMMA LookupStepInv ==
  ASSUME LookupInv, Plain, [Next]_vars
  PROVE  LookupInv'
  <1>1. ASSUME NEW n \in Node, Ask(n) \/ QueryReturns(n) \/ GiveUp(n)
        PROVE  LookupInv'
    BY <1>1, AskInv, AnswerAtOnceInv, SendQueryInv, PopResponseInv, GiveUpInv
       DEF QueryReturns
  <1>2. ASSUME NEW n \in Node, ResendTimedOut(n) \/ UpdateFingers(n) \/ Grow(n)
        PROVE  LookupInv'
    BY <1>2, ResendTimedOutInv, GrowInv DEF UpdateFingers, Plain
  <1>3. ASSUME NEW m \in net, Receive(m) \/ Lose(m)
        PROVE  LookupInv'
    BY <1>3, ReceiveInv, LoseInv
  <1>4. CASE UNCHANGED vars
    BY <1>4, LookupStutterInv
  <1> QED
    BY <1>1, <1>2, <1>3, <1>4 DEF Next

\* The inductive invariant holds in every state.
THEOREM LookupInvariance ==
  ASSUME Plain
  PROVE  Spec => []LookupInv
  <1>1. LookupInv /\ [Next]_vars => LookupInv'
    BY LookupStepInv
  <1> QED
    BY <1>1, LookupInitInv, PTL DEF Spec

\* Every variable keeps its type; in particular query() waits only while a
\* call runs.
THEOREM LookupTypeCorrect ==
  ASSUME Plain
  PROVE  Spec => []TypeOK
  <1>1. LookupInv => TypeOK
    BY DEF LookupInv
  <1> QED
    BY <1>1, LookupInvariance, PTL

\* A lookup is resent exactly while the query() that sent it waits.
THEOREM ResendCorrect ==
  ASSUME Plain
  PROVE  Spec => []ResendsWhileWaiting
  <1>1. LookupInv => ResendsWhileWaiting
    BY DEF LookupInv, TimersMatch, ResendsWhileWaiting
  <1> QED
    BY <1>1, LookupInvariance, PTL

-----------------------------------------------------------------------------
(* Lookups implement LookupService: a call is answered in the step in      *)
(* which query() returns, and every other step stutters.                   *)

LEMMA ServiceInit == Init => Service!Init
  BY ConstantsAssumption DEF Init, Service!Init

LEMMA ReturnIsAnswer ==
  ASSUME NEW n \in Node, call[n] # NULL, UNCHANGED members,
         Return(n, Owner(members, call[n]))
  PROVE  Service!Answer(n)
  BY DEF Return, Service!Answer, Service!Owner, Service!NextOn, Service!Clockwise,
         Owner, NextOn, Clockwise

LEMMA ServiceStep ==
  ASSUME LookupInv, Plain, [Next]_vars
  PROVE  [Service!Next]_<<members, call, answer>>
  <1>1. ASSUME NEW n \in Node, Ask(n)
        PROVE  Service!Ask(n)
    BY <1>1 DEF Ask, Service!Ask
  <1>2. ASSUME NEW n \in Node, AnswerAtOnce(n)
        PROVE  Service!Answer(n)
    <2>1. n \in members /\ call[n] \in Key
      BY <1>2 DEF AnswerAtOnce, LookupInv, TypeOK, CallersAreMembers
    <2>2. successor[n] = Owner(members, call[n])
      BY <1>2, <2>1, AnswerIsRight DEF AnswerAtOnce
    <2> QED
      BY <1>2, <2>2, ReturnIsAnswer DEF AnswerAtOnce
  <1>3. ASSUME NEW n \in Node, PopResponse(n)
        PROVE  Service!Answer(n) \/ UNCHANGED <<members, call, answer>>
    <2> DEFINE sr == Head(successorResponseQueue[n])
    <2>1. sr \in RightResponse
      BY <1>3, HeadIsRight DEF PopResponse
    <2>2. CASE IsForMe(n, sr)
      <3>1. sr.responder = Owner(members, call[n])
        BY <2>1, <2>2 DEF RightResponse, IsForMe
      <3>2. call[n] # NULL
        BY <1>3 DEF PopResponse, LookupInv, TypeOK
      <3> QED
        BY <1>3, <2>2, <3>1, <3>2, ReturnIsAnswer DEF PopResponse
    <2>3. CASE ~ IsForMe(n, sr)
      BY <1>3, <2>3 DEF PopResponse
    <2> QED
      BY <2>2, <2>3
  <1>4. ASSUME NEW n \in Node, GiveUp(n)
        PROVE  Service!GiveUp(n)
    BY <1>4 DEF GiveUp, Service!GiveUp, LookupInv, TypeOK
  <1>5. ASSUME NEW n \in Node, Grow(n)
        PROVE  Service!Grow
    BY <1>5 DEF Grow, Service!Grow, callVars
  <1>6. ASSUME NEW n \in Node, SendQuery(n) \/ ResendTimedOut(n) \/ UpdateFingers(n)
        PROVE  UNCHANGED <<members, call, answer>>
    BY <1>6 DEF SendQuery, ResendTimedOut, UpdateFingers, callVars
  <1>7. ASSUME NEW m \in net, Receive(m) \/ Lose(m)
        PROVE  UNCHANGED <<members, call, answer>>
    BY <1>7 DEF Receive, QueryLoopedBack, AnswerWithSuccessor, ForwardQuery,
                HandleSuccessorResponse, HandleFingerResponse, Lose, callVars
  <1>8. CASE UNCHANGED vars
    BY <1>8 DEF vars, callVars
  <1> QED
    BY <1>1, <1>2, <1>3, <1>4, <1>5, <1>6, <1>7, <1>8 DEF Next, QueryReturns, Service!Next

\* Each query() that returns a host returns the node responsible for its key.
THEOREM LookupsCorrect ==
  ASSUME Plain
  PROVE  Spec => AnswersAreRight
  <1>1. LookupInv /\ [Next]_vars => [Service!Next]_<<members, call, answer>>
    BY ServiceStep
  <1>2. Spec => Service!Init /\ [][Service!Next]_<<members, call, answer>>
    BY <1>1, ServiceInit, LookupInvariance, PTL DEF Spec
  <1> QED
    BY <1>2 DEF AnswersAreRight, Service!Spec

-----------------------------------------------------------------------------
(* The finger table in a ring of any size that grows: lookups use it while *)
(* it is filled in any order, and after nodes have joined.                 *)

\* What may wait in the queue of a node: the node itself answers a query that
\* came back to it.
MayAnswer(n) ==
  {r \in [searchTerm : Key, responder : Node] :
     r.responder \in {n} \cup OwnersSoFar(r.searchTerm)}

\* A datagram between members; a response names the responsible node.
Sound(m) ==
  /\ m.to \in members
  /\ m.type \in {"SUCCESSOR_QUERY", "FINGER_QUERY"} => m.sender \in members
  /\ m.type \in {"SUCCESSOR_RESPONSE", "FINGER_RESPONSE"} =>
       m.responder \in members /\ m.responder = Owner(members, m.searchTerm)
  /\ m.type \in {"SUCCESSOR_QUERY", "SUCCESSOR_RESPONSE"} => m.searchTerm \in Key

NetIsSound == \A m \in net : Sound(m)

SavedAreSound == \A n \in Node : \A t \in sendTimers[n] : Sound(t.msg)

QueuesMayAnswer == \A n \in Node : successorResponseQueue[n] \in Seq(MayAnswer(n))

EntriesAreMembers == \A n \in Node : \A s \in Entries(fingers[n]) : fingers[n][s] \in members

FingerInv ==
  /\ TypeOK
  /\ Founders \subseteq members
  /\ CallersAreMembers
  /\ NetIsSound
  /\ SavedAreSound
  /\ QueuesMayAnswer
  /\ EntriesAreMembers
  /\ FingersAreRight
  /\ OwnerOrAsker

LEMMA OwnerNow ==
  ASSUME FingerInv, NEW key
  PROVE  Owner(members, key) \in OwnersSoFar(key)
  BY DEF FingerInv, OwnersSoFar

\* A node that was responsible stays among those that were.
LEMMA OwnersStay ==
  ASSUME FingerInv, members \subseteq members', NEW key
  PROVE  OwnersSoFar(key) \subseteq OwnersSoFar(key)'
  BY DEF OwnersSoFar

LEMMA MemberSuccessor ==
  ASSUME FingerInv, NEW n \in members, NEW key \in Ident
  PROVE  /\ n \in Node /\ successor[n] \in members /\ successor[n] \in Node
         /\ successor[n] = n \/ IsInSuccessor(key, n, successor[n]) =>
              successor[n] = Owner(members, key)
  <1>1. successor[n] = NextOn(members, n) /\ members \in SUBSET Ident
    BY ConstantsAssumption DEF successor, FingerInv, TypeOK
  <1>2. members \subseteq Node
    BY DEF FingerInv, TypeOK
  <1>3. CASE members \ {n} = {}
    BY <1>1, <1>2, <1>3, AloneIsOwner
  <1>4. CASE members \ {n} # {}
    <2>1. n \in Ident /\ members \in SUBSET Ident
      BY <1>1
    <2>2. NextOn(members, n) \in members \ {n}
      BY <1>4, <2>1, NextOnFirst
    <2>3. IsInSuccessor(key, n, NextOn(members, n)) => NextOn(members, n) = Owner(members, key)
      BY <1>1, <1>4, AnswerIsOwner
    <2> QED
      BY <1>1, <1>2, <2>2, <2>3
  <1> QED
    BY <1>3, <1>4

\* The entries of a table that is defined for all identifiers.
LEMMA EntriesOf ==
  ASSUME NEW table \in [Ident -> Node \cup {NULL}]
  PROVE  \A s : s \in Entries(table) <=> s \in Ident /\ table[s] # NULL
  BY DEF Entries

\* A lookup is only ever passed to a member, wherever the walk of the table ends.
LEMMA HopsAreMembers ==
  ASSUME FingerInv, NEW n \in members, NEW key \in Ident
  PROVE  /\ GetSuccessorOf(fingers[n], successor[n], key) \in SUBSET members
         /\ GetSuccessorOf(fingers[n], successor[n], key) \in SUBSET Node
  <1>1. DOMAIN fingers[n] \in SUBSET Ident
    BY MemberSuccessor DEF FingerInv, TypeOK
  <1>2. \A s \in Entries(fingers[n]) : fingers[n][s] \in members
    BY MemberSuccessor DEF FingerInv, EntriesAreMembers
  <1>3. successor[n] \in members
    BY MemberSuccessor
  <1>4. GetSuccessorOf(fingers[n], successor[n], key) \subseteq members
    BY <1>1, <1>2, <1>3, HopsFromTable
  <1>5. members \subseteq Node
    BY DEF FingerInv, TypeOK
  <1> QED
    BY <1>4, <1>5

\* Steps that add to the network at most one datagram, which is sound.
LEMMA SoundStep ==
  ASSUME FingerInv, UNCHANGED members, NEW q, net' \subseteq net \cup {q}, Sound(q)
  PROVE  NetIsSound'
  BY DEF FingerInv, NetIsSound, Sound

LEMMA FewerSound ==
  ASSUME FingerInv, UNCHANGED members, net' \subseteq net
  PROVE  NetIsSound'
  BY DEF FingerInv, NetIsSound, Sound

\* What a step keeps that leaves the variables concerned alone.
LEMMA FingerKept ==
  ASSUME FingerInv, UNCHANGED members
  PROVE  /\ Founders \subseteq members'
         /\ UNCHANGED call => CallersAreMembers'
         /\ UNCHANGED successorResponseQueue => QueuesMayAnswer'
         /\ UNCHANGED fingers => FingersAreRight' /\ EntriesAreMembers'
         /\ UNCHANGED answer => OwnerOrAsker'
         /\ UNCHANGED sendTimers => SavedAreSound'
  BY DEF FingerInv, QueuesMayAnswer, MayAnswer, OwnersSoFar, FingersAreRight, Entries,
         EntriesAreMembers, OwnerOrAsker, CallersAreMembers, SavedAreSound, Sound

LEMMA FingerInitInv == Init => FingerInv
  <1> SUFFICES ASSUME Init
               PROVE  FingerInv
    OBVIOUS
  <1>1. TypeOK
    BY LookupInitInv DEF LookupInv
  <1>2. /\ NetIsSound /\ SavedAreSound /\ FingersAreRight /\ OwnerOrAsker
        /\ EntriesAreMembers /\ CallersAreMembers /\ Founders \subseteq members
    BY DEF Init, NetIsSound, SavedAreSound, FingersAreRight, Entries, OwnerOrAsker,
           EntriesAreMembers, CallersAreMembers
  <1>3. QueuesMayAnswer
    BY DEF Init, QueuesMayAnswer
  <1> QED
    BY <1>1, <1>2, <1>3 DEF FingerInv

LEMMA AskFinger ==
  ASSUME FingerInv, NEW n \in Node, Ask(n)
  PROVE  FingerInv'
  <1>1. PICK k \in Key : call' = [call EXCEPT ![n] = k]
    BY DEF Ask
  <1>2. k # NULL
    BY ConstantsAssumption
  <1>3. calls' \in 0 .. MaxCalls
    BY ConstantsAssumption DEF Ask, FingerInv, TypeOK
  <1>4. TypeOK'
    BY <1>1, <1>2, <1>3 DEF Ask, FingerInv, TypeOK
  <1>5. OwnerOrAsker'
    <2>1. answer' = [answer EXCEPT ![n] = NULL] /\ \A key : OwnersSoFar(key)' = OwnersSoFar(key)
      BY DEF Ask, OwnersSoFar
    <2> QED
      BY <2>1 DEF FingerInv, TypeOK, OwnerOrAsker
  <1>6. CallersAreMembers'
    BY <1>1 DEF Ask, FingerInv, TypeOK, CallersAreMembers
  <1> QED
    BY <1>4, <1>5, <1>6, FingerKept, FewerSound DEF Ask, FingerInv

LEMMA ReturnFinger ==
  ASSUME FingerInv, NEW n \in Node, call[n] \in Key, NEW host \in Node,
         host \in {n} \cup OwnersSoFar(call[n]), Return(n, host), UNCHANGED members
  PROVE  /\ OwnerOrAsker' /\ CallersAreMembers'
         /\ call' \in [Node -> Key \cup {NULL}]
         /\ call' = [call EXCEPT ![n] = NULL]
         /\ answer' \in [Node -> [key : Key, host : Node] \cup {NULL}]
  <1> DEFINE a == [key |-> call[n], host |-> host]
             A == [key : Key, host : Node] \cup {NULL}
  <1>1. a \in A /\ a.key = call[n] /\ a.host = host
    OBVIOUS
  <1>2. answer \in [Node -> A] /\ call \in [Node -> Key \cup {NULL}]
    BY DEF FingerInv, TypeOK
  <1>3. answer' = [answer EXCEPT ![n] = a] /\ call' = [call EXCEPT ![n] = NULL]
    BY DEF Return
  <1> HIDE DEF a, A
  <1>4. answer' \in [Node -> A] /\ call' \in [Node -> Key \cup {NULL}]
    BY <1>1, <1>2, <1>3
  <1>5. OwnerOrAsker' /\ CallersAreMembers'
    BY <1>1, <1>2, <1>3 DEF FingerInv, OwnerOrAsker, OwnersSoFar, CallersAreMembers
  <1> QED
    BY <1>3, <1>4, <1>5 DEF A

LEMMA AnswerAtOnceFinger ==
  ASSUME FingerInv, NEW n \in Node, AnswerAtOnce(n)
  PROVE  FingerInv'
  <1>1. call[n] \in Key /\ call[n] \in Ident
    BY ConstantsAssumption DEF AnswerAtOnce, FingerInv, TypeOK
  <1>2. successor[n] \in Node /\ successor[n] \in OwnersSoFar(call[n])
    <2>1. n \in members
      BY DEF AnswerAtOnce, FingerInv, CallersAreMembers
    <2> QED
      BY <1>1, <2>1, MemberSuccessor, OwnerNow DEF AnswerAtOnce
  <1>3. /\ Return(n, successor[n]) /\ n \notin waiting
        /\ UNCHANGED <<members, waiting, sendTimers, successorResponseQueue, fingers,
                       net, calls, lost>>
    BY DEF AnswerAtOnce
  <1>4. /\ OwnerOrAsker' /\ CallersAreMembers'
        /\ call' \in [Node -> Key \cup {NULL}]
        /\ call' = [call EXCEPT ![n] = NULL]
        /\ answer' \in [Node -> [key : Key, host : Node] \cup {NULL}]
    BY <1>1, <1>2, <1>3, ReturnFinger
  <1>5. TypeOK'
    BY <1>3, <1>4 DEF FingerInv, TypeOK
  <1> QED
    BY <1>3, <1>4, <1>5, FingerKept, FewerSound DEF FingerInv

LEMMA SendQueryFinger ==
  ASSUME FingerInv, NEW n \in Node, SendQuery(n)
  PROVE  FingerInv'
  <1>1. call[n] \in Key /\ call[n] \in Ident /\ n \in members
    BY ConstantsAssumption DEF SendQuery, FingerInv, TypeOK, CallersAreMembers
  <1>2. PICK to \in GetSuccessorOf(fingers[n], successor[n], call[n]) :
          LET q == Query("SUCCESSOR_QUERY", to, call[n], n) IN
          /\ net' = net \cup Deliverable(n, {q})
          /\ sendTimers' = [sendTimers EXCEPT ![n] = PushSendTimer(n, q)]
    BY DEF SendQuery
  <1> DEFINE q == Query("SUCCESSOR_QUERY", to, call[n], n)
             timer == [term |-> call[n], msg |-> q]
             Timer == [term : Key, msg : {m \in Datagram : m.type = "SUCCESSOR_QUERY"}]
  <1>3. /\ q \in Datagram /\ q.type = "SUCCESSOR_QUERY" /\ q.searchTerm = call[n]
        /\ Sound(q)
    BY <1>1, HopsAreMembers DEF Query, Datagram, Sound
  <1>4. /\ waiting' = waiting \cup {n} /\ call[n] # NULL
        /\ UNCHANGED <<members, call, answer, calls, successorResponseQueue, fingers, lost>>
    BY DEF SendQuery
  <1>5. /\ net' \subseteq net \cup {q}
        /\ sendTimers' \in [Node -> SUBSET Timer]
        /\ SavedAreSound'
    <2>1. sendTimers \in [Node -> SUBSET Timer]
      BY DEF FingerInv, TypeOK
    <2>2. timer \in Timer /\ timer.msg = q
      BY <1>1, <1>3
    <2>3. /\ net' = net \cup Deliverable(n, {q})
          /\ sendTimers' = [sendTimers EXCEPT ![n] = {t \in sendTimers[n] : t.term # call[n]} \cup {timer}]
      BY <1>2, <1>3 DEF PushSendTimer
    <2> HIDE DEF q, timer, Timer
    <2>4. sendTimers' \in [Node -> SUBSET Timer]
      BY <2>1, <2>2, <2>3
    <2>5. SavedAreSound'
      BY <1>3, <1>4, <2>1, <2>2, <2>3 DEF FingerInv, SavedAreSound, Sound
    <2> QED
      BY <2>3, <2>4, <2>5 DEF Deliverable
  <1> HIDE DEF q, timer
  <1>6. TypeOK'
    BY <1>3, <1>5, <1>4 DEF FingerInv, TypeOK
  <1>7. NetIsSound'
    BY <1>3, <1>4, <1>5, SoundStep
  <1> QED
    BY <1>5, <1>4, <1>6, <1>7, FingerKept DEF FingerInv

LEMMA MayAnswerIsTyped == \A n : MayAnswer(n) \subseteq [searchTerm : Key, responder : Node]
  BY DEF MayAnswer

LEMMA PopResponseFinger ==
  ASSUME FingerInv, NEW n \in Node, PopResponse(n)
  PROVE  FingerInv'
  <1> DEFINE q == successorResponseQueue[n]
             R == [searchTerm : Key, responder : Node]
             sr == Head(q)
  <1>1. n \in waiting /\ call[n] \in Key /\ q # <<>>
    BY DEF PopResponse, FingerInv, TypeOK
  <1>2. q \in Seq(MayAnswer(n)) /\ q \in Seq(R)
    BY DEF FingerInv, TypeOK, QueuesMayAnswer
  <1>3. sr \in MayAnswer(n) /\ Tail(q) \in Seq(MayAnswer(n)) /\ Tail(q) \in Seq(R)
    BY <1>1, <1>2, HeadTailProperties
  <1>4. /\ successorResponseQueue' = [successorResponseQueue EXCEPT ![n] = Tail(q)]
        /\ UNCHANGED <<members, calls, fingers, net, lost>>
    BY DEF PopResponse
  <1>5. \/ UNCHANGED <<call, answer, waiting, sendTimers>>
        \/ /\ Return(n, sr.responder)
           /\ sr.searchTerm = call[n]
           /\ waiting' = waiting \ {n}
           /\ sendTimers' = [sendTimers EXCEPT ![n] = {t \in sendTimers[n] : t.term # call[n]}]
    BY DEF PopResponse, IsForMe, UnsetSendTimer
  <1>6. sr.responder \in Node /\ sr.responder \in {n} \cup OwnersSoFar(sr.searchTerm)
    BY <1>3 DEF MayAnswer
  <1> HIDE DEF q, sr
  <1>7. /\ successorResponseQueue' \in [Node -> Seq(R)]
        /\ QueuesMayAnswer'
    BY <1>3, <1>4 DEF FingerInv, TypeOK, QueuesMayAnswer, MayAnswer, OwnersSoFar
  <1>8. CASE UNCHANGED <<call, answer, waiting, sendTimers>>
    <2>1. TypeOK'
      BY <1>4, <1>7, <1>8 DEF FingerInv, TypeOK
    <2> QED
      BY <1>4, <1>7, <1>8, <2>1, FingerKept, FewerSound DEF FingerInv
  <1>9. CASE /\ Return(n, sr.responder)
             /\ sr.searchTerm = call[n]
             /\ waiting' = waiting \ {n}
             /\ sendTimers' = [sendTimers EXCEPT ![n] = {t \in sendTimers[n] : t.term # call[n]}]
    <2>1. /\ OwnerOrAsker' /\ CallersAreMembers'
          /\ call' \in [Node -> Key \cup {NULL}]
          /\ call' = [call EXCEPT ![n] = NULL]
          /\ answer' \in [Node -> [key : Key, host : Node] \cup {NULL}]
      BY <1>1, <1>4, <1>6, <1>9, ReturnFinger
    <2>2. /\ sendTimers' \in [Node -> SUBSET [term : Key,
                                  msg : {m \in Datagram : m.type = "SUCCESSOR_QUERY"}]]
          /\ SavedAreSound'
      BY <1>4, <1>9 DEF FingerInv, TypeOK, SavedAreSound, Sound
    <2>3. waiting' \in SUBSET {i \in Node : call'[i] # NULL}
      BY <1>9, <2>1 DEF FingerInv, TypeOK
    <2>4. TypeOK'
      BY <1>4, <1>7, <2>1, <2>2, <2>3 DEF FingerInv, TypeOK
    <2> QED
      BY <1>4, <1>7, <2>1, <2>2, <2>4, FingerKept, FewerSound DEF FingerInv
  <1> QED
    BY <1>5, <1>8, <1>9

LEMMA GiveUpFinger ==
  ASSUME FingerInv, NEW n \in Node, GiveUp(n)
  PROVE  FingerInv'
  <1>1. /\ call' = [call EXCEPT ![n] = NULL]
        /\ waiting' = waiting \ {n}
        /\ sendTimers' = [sendTimers EXCEPT ![n] = {t \in sendTimers[n] : t.term # call[n]}]
        /\ UNCHANGED <<members, answer, calls, successorResponseQueue, fingers, net, lost>>
    BY DEF GiveUp, UnsetSendTimer
  <1>2. TypeOK'
    BY <1>1 DEF FingerInv, TypeOK
  <1>3. SavedAreSound' /\ CallersAreMembers'
    BY <1>1 DEF FingerInv, TypeOK, SavedAreSound, Sound, CallersAreMembers
  <1> QED
    BY <1>1, <1>2, <1>3, FingerKept, FewerSound DEF FingerInv

\* A step that sends or takes one datagram and touches neither calls nor queues.
LEMMA SentFinger ==
  ASSUME FingerInv, NEW q \in Datagram, net' \subseteq net \cup {q}, Sound(q),
         UNCHANGED <<members, callVars, successorResponseQueue, fingers, lost>>
  PROVE  FingerInv'
  <1>1. TypeOK'
    BY DEF FingerInv, TypeOK, callVars
  <1> QED
    BY <1>1, SoundStep, FingerKept DEF FingerInv, callVars

LEMMA ResendTimedOutFinger ==
  ASSUME FingerInv, NEW n \in Node, ResendTimedOut(n)
  PROVE  FingerInv'
  <1>1. PICK t \in sendTimers[n] : net' = net \cup Deliverable(n, {t.msg})
    BY DEF ResendTimedOut
  <1>2. t.msg \in Datagram /\ Sound(t.msg)
    BY DEF FingerInv, TypeOK, SavedAreSound
  <1>3. /\ net' \subseteq net \cup {t.msg}
        /\ UNCHANGED <<members, callVars, successorResponseQueue, fingers, lost>>
    BY <1>1 DEF ResendTimedOut, Deliverable
  <1> QED
    BY <1>2, <1>3, SentFinger

\* The fingers set at once are the ones the successor is responsible for.
LEMMA UpdateFingersFinger ==
  ASSUME FingerInv, NEW n \in Node, UpdateFingers(n)
  PROVE  FingerInv'
  <1> DEFINE starts == {FingerStart(n, p) : p \in Span}
             mine == {s \in starts : IsInSuccessor(s, n, successor[n])}
             asked == {Query("FINGER_QUERY", successor[n], s, n) : s \in starts \ mine}
  <1>1. starts \in SUBSET Ident
    <2>1. Span \subseteq Ident
      BY Zenon DEF Span
    <2>2. n \in Ident
      BY ConstantsAssumption
    <2>3. \A p \in Span : FingerStart(n, p) \in Ident
      BY <2>1, <2>2, FingerStartExact
    <2> QED
      BY <2>3, Zenon
  <1>2. /\ successor[n] \in Node /\ successor[n] \in members /\ n \in members
        /\ \A s \in mine : successor[n] \in OwnersSoFar(s)
    <2>1. n \in members /\ 0 \in Ident
      BY RingSizeAssumption DEF UpdateFingers
    <2>2. successor[n] \in members /\ successor[n] \in Node
      BY <2>1, MemberSuccessor
    <2>3. ASSUME NEW s \in Ident, IsInSuccessor(s, n, successor[n])
          PROVE  successor[n] \in OwnersSoFar(s)
      BY <2>1, <2>3, MemberSuccessor, OwnerNow
    <2> HIDE DEF starts
    <2> QED
      BY <1>1, <2>1, <2>2, <2>3
  <1>3. \A q \in asked : q \in Datagram /\ Sound(q)
    BY <1>1, <1>2 DEF Query, Datagram, Sound
  <1>4. /\ fingers' = [fingers EXCEPT
             ![n] = [s \in Ident |-> IF s \in mine THEN successor[n] ELSE fingers[n][s]]]
        /\ net' = net \cup asked
        /\ UNCHANGED <<members, callVars, successorResponseQueue, lost>>
    BY DEF UpdateFingers
  <1> HIDE DEF mine, asked
  <1>5. fingers \in [Node -> [Ident -> Node \cup {NULL}]]
    BY DEF FingerInv, TypeOK
  <1> DEFINE row == [s \in Ident |-> IF s \in mine THEN successor[n] ELSE fingers[n][s]]
  <1>6. row \in [Ident -> Node \cup {NULL}]
    BY <1>2, <1>5
  <1>7. \A s \in Ident : row[s] # NULL => row[s] \in OwnersSoFar(s) /\ row[s] \in members
    BY <1>2, <1>5, EntriesOf DEF FingerInv, FingersAreRight, EntriesAreMembers
  <1> HIDE DEF row
  <1>8. fingers' \in [Node -> [Ident -> Node \cup {NULL}]]
    BY <1>4, <1>5, <1>6 DEF row
  <1>9. FingersAreRight' /\ EntriesAreMembers'
    <2>1. \A i \in Node : \A s \in Ident :
            fingers'[i][s] # NULL =>
              fingers'[i][s] \in OwnersSoFar(s) /\ fingers'[i][s] \in members
      BY <1>4, <1>5, <1>7, EntriesOf DEF FingerInv, FingersAreRight, EntriesAreMembers, row
    <2>2. \A s : OwnersSoFar(s)' = OwnersSoFar(s)
      BY <1>4 DEF OwnersSoFar
    <2>3. \A i \in Node : \A s \in Entries(fingers'[i]) : s \in Ident /\ fingers'[i][s] # NULL
      BY <1>8, EntriesOf
    <2> QED
      BY <1>4, <2>1, <2>2, <2>3 DEF FingersAreRight, EntriesAreMembers
  <1>10. TypeOK'
    BY <1>3, <1>4, <1>8 DEF FingerInv, TypeOK, callVars
  <1>11. NetIsSound'
    BY <1>3, <1>4 DEF FingerInv, NetIsSound, Sound
  <1> QED
    BY <1>4, <1>9, <1>10, <1>11, FingerKept DEF FingerInv, callVars

\* Parking a response that the node may give as its answer.
LEMMA ParkFinger ==
  ASSUME FingerInv, NEW n \in Node, NEW term \in Key, NEW responder \in Node,
         responder \in {n} \cup OwnersSoFar(term), Park(n, term, responder),
         net' \subseteq net, UNCHANGED <<members, callVars, fingers, lost>>
  PROVE  FingerInv'
  <1> DEFINE r == [searchTerm |-> term, responder |-> responder]
             R == [searchTerm : Key, responder : Node]
             q == successorResponseQueue[n]
  <1>1. r \in MayAnswer(n) /\ r \in R
    BY DEF MayAnswer
  <1>2. successorResponseQueue' = [successorResponseQueue EXCEPT ![n] = Append(q, r)]
    BY DEF Park
  <1>3. q \in Seq(MayAnswer(n)) /\ q \in Seq(R)
    BY DEF FingerInv, TypeOK, QueuesMayAnswer
  <1> HIDE DEF r, q
  <1>4. Append(q, r) \in Seq(MayAnswer(n)) /\ Append(q, r) \in Seq(R)
    BY <1>1, <1>3, AppendProperties
  <1>5. /\ successorResponseQueue' \in [Node -> Seq(R)]
        /\ QueuesMayAnswer'
    BY <1>2, <1>4 DEF FingerInv, TypeOK, QueuesMayAnswer, MayAnswer, OwnersSoFar
  <1>6. TypeOK'
    BY <1>5 DEF FingerInv, TypeOK, callVars
  <1> QED
    BY <1>5, <1>6, FingerKept, FewerSound DEF FingerInv, callVars

LEMMA ReceivedFinger ==
  ASSUME FingerInv, NEW m \in net
  PROVE  /\ m \in Datagram /\ Sound(m) /\ m.to \in Node /\ m.searchTerm \in Ident
         /\ m.type \in {"SUCCESSOR_QUERY", "FINGER_QUERY"} => m.sender \in Node
         /\ m.type \in {"SUCCESSOR_RESPONSE", "FINGER_RESPONSE"} => m.responder \in Node
  BY DEF FingerInv, TypeOK, NetIsSound, Datagram

LEMMA AnswerWithSuccessorFinger ==
  ASSUME FingerInv, NEW m \in net, AnswerWithSuccessor(m.to, m)
  PROVE  FingerInv'
  <1> DEFINE type == IF m.type = "FINGER_QUERY" THEN "FINGER_RESPONSE"
                     ELSE "SUCCESSOR_RESPONSE"
             q == Response(type, m.sender, m.searchTerm, successor[m.to])
  <1>1. /\ successor[m.to] \in Node /\ successor[m.to] \in members
        /\ successor[m.to] = Owner(members, m.searchTerm)
        /\ m.sender \in members
    BY ReceivedFinger, MemberSuccessor DEF AnswerWithSuccessor, Sound
  <1>2. q \in Datagram /\ q.responder = successor[m.to] /\ q.searchTerm = m.searchTerm
    BY <1>1, ReceivedFinger DEF AnswerWithSuccessor, Response, Datagram
  <1>3. Sound(q)
    BY <1>1, ReceivedFinger DEF AnswerWithSuccessor, Response, Sound
  <1>4. net' \subseteq net \cup {q}
    BY DEF AnswerWithSuccessor, Responder
  <1> HIDE DEF q
  <1> QED
    BY <1>2, <1>3, <1>4, SentFinger DEF AnswerWithSuccessor

LEMMA ForwardQueryFinger ==
  ASSUME FingerInv, NEW m \in net, ForwardQuery(m.to, m)
  PROVE  FingerInv'
  <1>1. CASE m.type = "FINGER_QUERY"
    <2>1. net' = net \ {m}
      BY <1>1 DEF ForwardQuery
    <2> QED
      BY <1>1, <2>1, ReceivedFinger, SentFinger DEF ForwardQuery
  <1>2. CASE m.type = "SUCCESSOR_QUERY"
    <2>1. PICK to \in GetSuccessorOf(fingers[m.to], successor[m.to], m.searchTerm) :
            net' = (net \ {m}) \cup Deliverable(m.to, {[m EXCEPT !.to = to]})
      BY <1>2 DEF ForwardQuery
    <2>2. m \in [type : {"SUCCESSOR_QUERY", "FINGER_QUERY"}, to : Node,
                 searchTerm : Ident, sender : Node]
      BY <1>2, ReceivedFinger DEF Datagram
    <2>3. to \in Node /\ to \in members
      BY ReceivedFinger, HopsAreMembers DEF Sound
    <2> DEFINE q == [m EXCEPT !.to = to]
    <2>4. q \in Datagram /\ q.type = "SUCCESSOR_QUERY" /\ Sound(q)
      BY <1>2, <2>2, <2>3, ReceivedFinger DEF Datagram, Sound
    <2>5. net' \subseteq net \cup {q}
      BY <2>1 DEF Deliverable
    <2> HIDE DEF q
    <2> QED
      BY <1>2, <2>4, <2>5, ReceivedFinger, SentFinger DEF ForwardQuery
  <1> QED
    BY <1>1, <1>2 DEF ForwardQuery

LEMMA HandleFingerResponseFinger ==
  ASSUME FingerInv, NEW m \in net, HandleFingerResponse(m.to, m)
  PROVE  FingerInv'
  <1>1. /\ m.to \in Node /\ m.searchTerm \in Ident /\ m.responder \in Node
        /\ m.responder \in members /\ m.responder \in OwnersSoFar(m.searchTerm)
    BY ReceivedFinger, OwnerNow DEF HandleFingerResponse, Sound
  <1>2. /\ fingers' = [fingers EXCEPT ![m.to][m.searchTerm] = m.responder]
        /\ net' \subseteq net
        /\ UNCHANGED <<members, callVars, successorResponseQueue, lost>>
    BY DEF HandleFingerResponse
  <1>3. TypeOK'
    BY <1>1, <1>2 DEF FingerInv, TypeOK, callVars
  <1>4. FingersAreRight' /\ EntriesAreMembers'
    <2>1. /\ fingers \in [Node -> [Ident -> Node \cup {NULL}]]
          /\ fingers' \in [Node -> [Ident -> Node \cup {NULL}]]
      BY <1>3 DEF FingerInv, TypeOK
    <2>2. \A i \in Node : \A s \in Ident :
            \/ fingers'[i][s] = fingers[i][s]
            \/ i = m.to /\ s = m.searchTerm /\ fingers'[i][s] = m.responder
      BY <1>1, <1>2, <2>1
    <2>3. \A i \in Node : \A s \in Ident :
            fingers'[i][s] # NULL =>
              fingers'[i][s] \in OwnersSoFar(s) /\ fingers'[i][s] \in members
      BY <1>1, <2>1, <2>2, EntriesOf DEF FingerInv, FingersAreRight, EntriesAreMembers
    <2>4. \A s : OwnersSoFar(s)' = OwnersSoFar(s)
      BY <1>2 DEF OwnersSoFar
    <2>5. \A i \in Node : \A s \in Entries(fingers'[i]) : s \in Ident /\ fingers'[i][s] # NULL
      BY <2>1, EntriesOf
    <2> QED
      BY <1>2, <2>3, <2>4, <2>5 DEF FingersAreRight, EntriesAreMembers
  <1> QED
    BY <1>2, <1>3, <1>4, FingerKept, FewerSound DEF FingerInv, callVars

LEMMA ReceiveFinger ==
  ASSUME FingerInv, NEW m \in net, Receive(m)
  PROVE  FingerInv'
  <1>1. CASE QueryLoopedBack(m.to, m)
    <2>1. net' \subseteq net
      BY <1>1 DEF QueryLoopedBack
    <2> QED
      BY <1>1, <2>1, ReceivedFinger, ParkFinger DEF QueryLoopedBack, Sound
  <1>2. CASE HandleSuccessorResponse(m.to, m)
    <2>1. net' \subseteq net
      BY <1>2 DEF HandleSuccessorResponse
    <2> QED
      BY <1>2, <2>1, ReceivedFinger, ParkFinger, OwnerNow DEF HandleSuccessorResponse, Sound
  <1> QED
    BY <1>1, <1>2, AnswerWithSuccessorFinger, ForwardQueryFinger, HandleFingerResponseFinger
       DEF Receive

LEMMA LoseFinger ==
  ASSUME FingerInv, NEW m \in net, Lose(m)
  PROVE  FingerInv'
  <1>1. lost' \in 0 .. MaxLoss
    BY ConstantsAssumption DEF Lose, FingerInv, TypeOK
  <1>2. TypeOK'
    BY <1>1 DEF Lose, FingerInv, TypeOK, callVars
  <1>3. net' \subseteq net
    BY DEF Lose
  <1> QED
    BY <1>2, <1>3, FingerKept, FewerSound DEF Lose, FingerInv, callVars

\* A member more: what was right before stays right so far.
LEMMA GrowFinger ==
  ASSUME FingerInv, NEW n \in Node, Grow(n)
  PROVE  FingerInv'
  <1>1. /\ members' = members \cup {n} /\ net' = {}
        /\ UNCHANGED <<call, waiting, answer, sendTimers, calls, successorResponseQueue,
                       fingers, lost>>
    BY DEF Grow, callVars
  <1>2. TypeOK' /\ Founders \subseteq members' /\ CallersAreMembers' /\ NetIsSound'
    BY <1>1 DEF FingerInv, TypeOK, CallersAreMembers, NetIsSound
  <1>3. \A key : OwnersSoFar(key) \subseteq OwnersSoFar(key)'
    BY <1>1, OwnersStay
  <1>4. FingersAreRight' /\ EntriesAreMembers' /\ OwnerOrAsker'
    BY <1>1, <1>3 DEF FingerInv, FingersAreRight, EntriesAreMembers, Entries, OwnerOrAsker
  <1>5. SavedAreSound'
    BY <1>1 DEF FingerInv, TypeOK, SavedAreSound, Sound
  <1>6. QueuesMayAnswer'
    <2>1. \A i : MayAnswer(i) \subseteq MayAnswer(i)'
      BY <1>3 DEF MayAnswer
    <2>2. ASSUME NEW i \in Node
          PROVE  successorResponseQueue'[i] \in Seq(MayAnswer(i)')
      BY <1>1, <2>1 DEF FingerInv, QueuesMayAnswer
    <2> QED
      BY <2>2 DEF QueuesMayAnswer
  <1> QED
    BY <1>2, <1>4, <1>5, <1>6 DEF FingerInv

LEMMA StutterFinger ==
  ASSUME FingerInv, UNCHANGED vars
  PROVE  FingerInv'
  <1>1. TypeOK'
    BY DEF vars, callVars, FingerInv, TypeOK
  <1> QED
    BY <1>1, FingerKept, FewerSound DEF vars, callVars, FingerInv

LEMMA FingerStepInv ==
  ASSUME FingerInv, [Next]_vars
  PROVE  FingerInv'
  <1>1. ASSUME NEW n \in Node, Ask(n) \/ QueryReturns(n) \/ GiveUp(n)
        PROVE  FingerInv'
    BY <1>1, AskFinger, AnswerAtOnceFinger, SendQueryFinger, PopResponseFinger, GiveUpFinger
       DEF QueryReturns
  <1>2. ASSUME NEW n \in Node, ResendTimedOut(n) \/ UpdateFingers(n) \/ Grow(n)
        PROVE  FingerInv'
    BY <1>2, ResendTimedOutFinger, UpdateFingersFinger, GrowFinger
  <1>3. ASSUME NEW m \in net, Receive(m) \/ Lose(m)
        PROVE  FingerInv'
    BY <1>3, ReceiveFinger, LoseFinger
  <1>4. CASE UNCHANGED vars
    BY <1>4, StutterFinger
  <1> QED
    BY <1>1, <1>2, <1>3, <1>4 DEF Next

\* The inductive invariant holds in every state.
THEOREM FingerInvariance == Spec => []FingerInv
  <1>1. Init => FingerInv
    BY FingerInitInv
  <1>2. FingerInv /\ [Next]_vars => FingerInv'
    BY FingerStepInv
  <1> QED
    BY <1>1, <1>2, PTL DEF Spec

\* In every state of a ring that grows each entry of a finger table names the
\* node responsible for the first key of its finger, or one that was so before
\* others joined: UpdateFingers and the responses to its queries agree.
THEOREM FingersCorrect == Spec => []FingersAreRight
  <1>1. FingerInv => FingersAreRight
    BY DEF FingerInv
  <1> QED
    BY <1>1, FingerInvariance, PTL

\* However lookups hop along the fingers, and wherever the walk of the table
\* ends, query() returns the node responsible for the key or the asker itself.
THEOREM OwnerOrAskerCorrect == Spec => []OwnerOrAsker
  <1>1. FingerInv => OwnerOrAsker
    BY DEF FingerInv
  <1> QED
    BY <1>1, FingerInvariance, PTL
=============================================================================
