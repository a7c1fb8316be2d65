--------------------------- MODULE ChordRingProofs ---------------------------
(***************************************************************************)
(* Safety of ring maintenance for any set of hosts, any circle, any number *)
(* of lost, reordered and late datagrams, and both settings of the two     *)
(* environment switches.                                                   *)
(***************************************************************************)
EXTENDS ChordRing, RingArithProofs

USE DEF Ident

\* A host that has not finished joining holds no pointer and no timer.
OutsideIsBlank ==
  \A n \in Node : status[n] # "SERVICING" =>
    /\ successor[n] = NULL
    /\ predecessor[n] = NULL
    /\ sendTimers[n] = {}

MembersHaveSuccessor ==
  \A n \in Node : status[n] = "SERVICING" => successor[n] # NULL

\* A join that has not failed has a trial left.
TrialsRemain ==
  \A n \in Node : status[n] \in {"INITIALIZED", "WAITING_TO_JOIN"} =>
    timeoutCount[n] < JOIN_TRIALS

\* Only members are named in datagrams that can set a predecessor, and none
\* is named to itself.
UpdatesNameMembers ==
  \A m \in net : m.type = "UPDATE_PREDECESSOR" =>
    m.predecessor # m.to /\ status[m.predecessor] = "SERVICING"

RequestsNameMembers ==
  \A m \in net : m.type = "STABILIZE_REQUEST" =>
    m.sender # m.to /\ status[m.sender] = "SERVICING"

AcksGoToMembers ==
  \A m \in net : m.type = "UPDATE_PREDECESSOR_ACK" => status[m.to] = "SERVICING"

\* A timer saves the announcement of its own node, keyed with its own id,
\* and is the only one.
TimersAreMine ==
  \A n \in Node : \A t \in sendTimers[n] :
    /\ t.term = n /\ t.msg.predecessor = n /\ t.msg.to # n
    /\ sendTimers[n] = {t}

\* While the timer runs, all announcements in flight are copies of its own.
UpdatesAreSaved ==
  \A m \in net : m.type = "UPDATE_PREDECESSOR" =>
    \A t \in sendTimers[m.predecessor] : t.msg.to = m.to

\* While the timer runs, an acknowledgement in flight means it was heard.
AcksFollowNotice ==
  \A m \in net : m.type = "UPDATE_PREDECESSOR_ACK" =>
    \A t \in sendTimers[m.to] : Heard(m.to, t.msg.to)

\* A worker notifies of a predecessor it has.
TellersHavePredecessor ==
  \A n \in telling : status[n] = "SERVICING" /\ predecessor[n] # NULL

Inv ==
  /\ TypeOK
  /\ OutsideIsBlank
  /\ MembersHaveSuccessor
  /\ TrialsRemain
  /\ PredecessorHasJoined
  /\ UpdatesNameMembers
  /\ RequestsNameMembers
  /\ AcksGoToMembers
  /\ TimersAreMine
  /\ UpdatesAreSaved
  /\ AcksFollowNotice
  /\ TellersHavePredecessor

-----------------------------------------------------------------------------
(* Datagrams.                                                              *)

\* What each handler may assume of the datagram it is given.
LEMMA DatagramFields ==
  ASSUME NEW m \in Datagram
  PROVE  /\ m.to \in Node
         /\ m.type \in Lookups => m.sender \in Node
         /\ m.type \in Lookups \ {"FINGER_QUERY"} => m.searchTerm \in SearchTerm
         /\ m.type \in {"FINGER_QUERY", "FINGER_RESPONSE"} => m.searchTerm \in FingerTerm
         /\ m.type = "SUCCESSOR_RESPONSE" => m.searchTerm \in SearchTerm /\ m.responder \in Node
         /\ m.type = "FINGER_RESPONSE" => m.responder \in Node
         /\ m.type = "UPDATE_PREDECESSOR" => m.predecessor \in Node /\ m \in Update
         /\ m.type = "UPDATE_PREDECESSOR_ACK" => m.hashedId \in Node
         /\ m.type = "STABILIZE_REQUEST" => m.sender \in Node
         /\ m.type = "STABILIZE_RESPONSE" => m.predecessor \in Node
  BY DEF Datagram, Update, Lookups, SearchTerm, SuccessorQuery, SuccessorResponse

\* The three kinds of query.
LEMMA LookupFields ==
  ASSUME NEW m \in Datagram, m.type \in Lookups
  PROVE  /\ m = SuccessorQuery(m.type, m.to, m.searchTerm, m.sender)
         /\ m.type = "JOIN_SUCCESSOR_QUERY" => m.searchTerm = m.sender
         /\ m.type = "SUCCESSOR_QUERY" => m.searchTerm \in Key
         /\ m.type = "FINGER_QUERY" => m.searchTerm \in FingerTerm
  BY DEF Datagram, Update, Lookups, SuccessorQuery, SuccessorResponse

\* Every datagram the program builds is well formed: for any two hosts,
LEMMA DatagramsBuilt ==
  ASSUME NEW a \in Node, NEW b \in Node
  PROVE  /\ SuccessorQuery("JOIN_SUCCESSOR_QUERY", a, b, b) \in Datagram
         /\ UpdatePredecessor(a, b) \in Datagram
         /\ UpdatePredecessor(a, b) \in Update
         /\ UpdatePredecessorAck(a, b) \in Datagram
         /\ StabilizeRequest(a, b) \in Datagram
         /\ StabilizeResponse(a, b) \in Datagram
  BY DEF Datagram, Update, UpdatePredecessor,
         UpdatePredecessorAck, StabilizeRequest, StabilizeResponse

\* the query for a key or a finger,
LEMMA KeyQueryBuilt ==
  ASSUME NEW a \in Node, NEW b \in Node, NEW k \in Key
  PROVE  SuccessorQuery("SUCCESSOR_QUERY", a, k, b) \in Datagram
  BY DEF Datagram, SuccessorQuery

LEMMA FingerQueryBuilt ==
  ASSUME NEW a \in Node, NEW b \in Node, NEW k \in FingerTerm
  PROVE  SuccessorQuery("FINGER_QUERY", a, k, b) \in Datagram
  BY DEF Datagram, SuccessorQuery

\* the answer to a query, whoever it names, and the query forwarded.
LEMMA AnswersBuilt ==
  ASSUME NEW m \in Datagram, m.type \in Lookups, NEW a \in Node
  PROVE  /\ Answer(m, a) \in Datagram
         /\ Answer(m, a).type \in {"SUCCESSOR_RESPONSE", "FINGER_RESPONSE"}
         /\ [m EXCEPT !.to = a] \in Datagram
  <1>1. m.sender \in Node
    BY DatagramFields
  <1>2. [m EXCEPT !.to = a] = SuccessorQuery(m.type, a, m.searchTerm, m.sender)
    BY LookupFields DEF SuccessorQuery
  <1> USE DEF Answer, ResponseTo
  <1>3. Answer(m, a).type \in {"SUCCESSOR_RESPONSE", "FINGER_RESPONSE"}
    BY DEF SuccessorResponse
  <1>4. CASE m.type = "JOIN_SUCCESSOR_QUERY"
    <2>1. Answer(m, a) = SuccessorResponse("SUCCESSOR_RESPONSE", m.sender, m.sender, a)
      BY <1>4, LookupFields
    <2> QED
      BY <1>1, <1>2, <1>3, <1>4, <2>1, LookupFields, DatagramsBuilt DEF Datagram
  <1>5. CASE m.type = "SUCCESSOR_QUERY"
    <2>1. m.searchTerm \in Key
      BY <1>5, LookupFields
    <2>2. Answer(m, a) \in Datagram
      BY <1>1, <1>5, <2>1 DEF Datagram, SuccessorResponse
    <2>3. [m EXCEPT !.to = a] \in Datagram
      BY <1>1, <1>2, <1>5, <2>1, KeyQueryBuilt
    <2> QED
      BY <1>3, <2>2, <2>3
  <1>6. CASE m.type = "FINGER_QUERY"
    <2>1. m.searchTerm \in FingerTerm
      BY <1>6, LookupFields
    <2>2. Answer(m, a) \in Datagram
      BY <1>1, <1>6, <2>1 DEF Datagram, SuccessorResponse
    <2>3. [m EXCEPT !.to = a] \in Datagram
      BY <1>1, <1>2, <1>6, <2>1, FingerQueryBuilt
    <2> QED
      BY <1>3, <2>2, <2>3
  <1> QED
    BY <1>4, <1>5, <1>6 DEF Lookups

\* The ids of the hosts are on the circle.
LEMMA NodesAreIdents == Node \subseteq Ident
  BY ConstantsAssumption

\* So are the first keys of the fingers.
LEMMA FingerTermsAreIdents == FingerTerm \subseteq Ident
  <1> SUFFICES ASSUME NEW n \in Node, NEW p \in FingerSpans[n]
               PROVE  FingerStart(n, p) \in Ident
    BY DEF FingerTerm, FingerStarts
  <1>1. n \in Ident /\ p \in Ident
    BY ConstantsAssumption DEF Span
  <1> QED
    BY <1>1, RingSizeAssumption DEF FingerStart, UINT_MAX

-----------------------------------------------------------------------------
(* The actions, one lemma each: it preserves the invariant.                *)

LEMMA InitInv == Init => Inv
  BY ConstantsAssumption
     DEF Init, Inv, TypeOK, OutsideIsBlank, MembersHaveSuccessor,
         TrialsRemain, PredecessorHasJoined, UpdatesNameMembers, RequestsNameMembers,
         AcksGoToMembers, TimersAreMine, UpdatesAreSaved, AcksFollowNotice,
         TellersHavePredecessor

\* The types of the variables that the parts of the invariant speak of.
PointersTyped ==
  /\ status \in [Node -> {"INITIALIZED", "WAITING_TO_JOIN", "SERVICING",
                          "SERVICE_FAILED"}]
  /\ successor \in [Node -> Node \cup {NULL}]
  /\ predecessor \in [Node -> Node \cup {NULL}]
  /\ sendTimers \in [Node -> SUBSET [term : Ident, msg : Update]]
  /\ telling \in SUBSET Node
  /\ notified \in [Node -> SUBSET Node]
  /\ NULL \notin Node

LEMMA PointerTypes == Inv => PointersTyped
  BY ConstantsAssumption DEF Inv, TypeOK, PointersTyped

\* Datagrams that set no predecessor and remove no timer.
Harmless == Lookups \cup {"SUCCESSOR_RESPONSE", "FINGER_RESPONSE", "STABILIZE_RESPONSE"}

\* A step that touches no pointer, timer or status and adds to the network
\* only such datagrams.
LEMMA HarmlessStep ==
  ASSUME Inv, TypeOK',
         \A q \in net' \ net : q.type \in Harmless,
         UNCHANGED <<status, successor, predecessor, timeoutCount, sendTimers,
                     telling, notified>>
  PROVE  Inv'
  <1> USE DEF Harmless, Lookups
  <1>1. OutsideIsBlank' /\ MembersHaveSuccessor' /\ TrialsRemain'
    BY DEF Inv, OutsideIsBlank, MembersHaveSuccessor, TrialsRemain
  <1>2. PredecessorHasJoined' /\ TellersHavePredecessor'
    BY DEF Inv, PredecessorHasJoined, Members, TellersHavePredecessor
  <1>3. UpdatesNameMembers' /\ RequestsNameMembers' /\ AcksGoToMembers'
    BY DEF Inv, UpdatesNameMembers, RequestsNameMembers, AcksGoToMembers
  <1>4. TimersAreMine' /\ UpdatesAreSaved' /\ AcksFollowNotice'
    BY DEF Inv, TimersAreMine, UpdatesAreSaved, AcksFollowNotice, Heard
  <1> QED
    BY <1>1, <1>2, <1>3, <1>4 DEF Inv

LEMMA CreateRingInv ==
  ASSUME Inv, NEW n \in Node, CreateRing(n)
  PROVE  Inv'
  <1> USE DEF CreateRing
  <1>1. TypeOK'
    BY DEF Inv, TypeOK
  <1>2. OutsideIsBlank' /\ MembersHaveSuccessor' /\ TrialsRemain'
    BY ConstantsAssumption
       DEF Inv, TypeOK, OutsideIsBlank, MembersHaveSuccessor, TrialsRemain
  <1>3. PredecessorHasJoined' /\ TellersHavePredecessor'
    BY DEF Inv, TypeOK, PredecessorHasJoined, TellersHavePredecessor, Members
  <1>4. UpdatesNameMembers' /\ RequestsNameMembers' /\ AcksGoToMembers'
    BY DatagramFields
       DEF Inv, TypeOK, UpdatesNameMembers, RequestsNameMembers, AcksGoToMembers
  <1>5. TimersAreMine' /\ UpdatesAreSaved' /\ AcksFollowNotice'
    BY DEF Inv, TimersAreMine, UpdatesAreSaved, AcksFollowNotice, Heard
  <1> QED
    BY <1>1, <1>2, <1>3, <1>4, <1>5 DEF Inv

LEMMA StartJoinInv ==
  ASSUME Inv, NEW n \in Node, StartJoin(n)
  PROVE  Inv'
  <1> DEFINE q == JoinQuery(n)
  <1>1. q \in Datagram /\ q.type = "JOIN_SUCCESSOR_QUERY"
    BY DatagramsBuilt, ConstantsAssumption DEF JoinQuery, SuccessorQuery
  <1>2. net' \subseteq net \cup {q}
    BY DEF StartJoin, Sent
  <1> HIDE DEF q
  <1>3. TypeOK'
    BY <1>1, <1>2 DEF StartJoin, Inv, TypeOK
  <1>4. OutsideIsBlank' /\ MembersHaveSuccessor' /\ TrialsRemain'
    BY DEF StartJoin, Inv, TypeOK, OutsideIsBlank, MembersHaveSuccessor, TrialsRemain
  <1>5. PredecessorHasJoined' /\ TellersHavePredecessor'
    BY DEF StartJoin, Inv, TypeOK, PredecessorHasJoined, TellersHavePredecessor, Members
  <1>6. UpdatesNameMembers' /\ RequestsNameMembers' /\ AcksGoToMembers'
    BY <1>1, <1>2, DatagramFields
       DEF StartJoin, Inv, TypeOK, UpdatesNameMembers, RequestsNameMembers, AcksGoToMembers
  <1>7. UNCHANGED <<predecessor, sendTimers, telling, notified>>
    BY DEF StartJoin
  <1>8. TimersAreMine' /\ UpdatesAreSaved' /\ AcksFollowNotice'
    BY <1>1, <1>2, <1>7 DEF Inv, TimersAreMine, UpdatesAreSaved, AcksFollowNotice, Heard
  <1> QED
    BY <1>3, <1>4, <1>5, <1>6, <1>8 DEF Inv

LEMMA JoinTimeoutInv ==
  ASSUME Inv, NEW n \in Node, JoinTimeout(n)
  PROVE  Inv'
  <1> DEFINE q == JoinQuery(n)
  <1>1. q \in Datagram /\ q.type = "JOIN_SUCCESSOR_QUERY"
    BY DatagramsBuilt, ConstantsAssumption DEF JoinQuery, SuccessorQuery
  <1>2. net' \subseteq net \cup {q}
    BY DEF JoinTimeout, Sent
  <1> HIDE DEF q
  <1>3. status' \in [Node -> {"INITIALIZED", "WAITING_TO_JOIN", "SERVICING", "SERVICE_FAILED"}]
        /\ \A a \in Node : status'[a] = "SERVICING" <=> status[a] = "SERVICING"
    BY DEF JoinTimeout, Inv, TypeOK
  <1>4. timeoutCount' \in [Node -> 0 .. JOIN_TRIALS] /\ TrialsRemain'
    BY ConstantsAssumption DEF JoinTimeout, OutOfTrials, Inv, TypeOK, TrialsRemain
  <1>5. TypeOK'
    BY <1>1, <1>2, <1>3, <1>4 DEF JoinTimeout, Inv, TypeOK
  <1>6. OutsideIsBlank' /\ MembersHaveSuccessor'
    BY <1>3 DEF JoinTimeout, Inv, OutsideIsBlank, MembersHaveSuccessor
  <1>7. PredecessorHasJoined' /\ TellersHavePredecessor'
    BY <1>3 DEF JoinTimeout, Inv, TypeOK, PredecessorHasJoined, TellersHavePredecessor,
                Members
  <1>8. UpdatesNameMembers' /\ RequestsNameMembers' /\ AcksGoToMembers'
    BY <1>1, <1>2, <1>3, DatagramFields
       DEF Inv, TypeOK, UpdatesNameMembers, RequestsNameMembers, AcksGoToMembers
  <1>9. TimersAreMine' /\ UpdatesAreSaved' /\ AcksFollowNotice'
    BY <1>1, <1>2 DEF JoinTimeout, Inv, TimersAreMine, UpdatesAreSaved, AcksFollowNotice, Heard
  <1> QED
    BY <1>4, <1>5, <1>6, <1>7, <1>8, <1>9 DEF Inv

LEMMA JoinStrayInv ==
  ASSUME Inv, NEW n \in Node, NEW m \in net, JoinStray(n, m)
  PROVE  Inv'
  <1> DEFINE q == JoinQuery(n)
  <1>1. q \in Datagram /\ q.type = "JOIN_SUCCESSOR_QUERY"
    BY DatagramsBuilt, ConstantsAssumption DEF JoinQuery, SuccessorQuery
  <1>2. net' \subseteq net \cup {q}
    BY DEF JoinStray, Replied
  <1>3. TypeOK'
    BY <1>1, <1>2 DEF JoinStray, Inv, TypeOK, nodeVars
  <1> QED
    BY <1>1, <1>2, <1>3, HarmlessStep DEF JoinStray, nodeVars, Harmless, Lookups

LEMMA JoinResponseInv ==
  ASSUME Inv, NEW n \in Node, NEW m \in net, m.to = n,
         JoinResponse(n, m)
  PROVE  Inv'
  <1> DEFINE up == UpdatePredecessor(m.responder, n)
             timer == [term |-> n, msg |-> up]
  <1>1. m.responder \in Node /\ NULL \notin Node
    BY DatagramFields, ConstantsAssumption DEF JoinResponse, Inv, TypeOK
  <1>2. /\ up \in Datagram /\ up \in Update
        /\ up.type = "UPDATE_PREDECESSOR" /\ up.predecessor = n /\ up.to = m.responder
    BY <1>1, DatagramsBuilt DEF UpdatePredecessor
  <1>3. sendTimers[n] = {} /\ status[n] # "SERVICING"
    BY DEF JoinResponse, Inv, OutsideIsBlank
  <1>4. /\ m.responder = n => net' \subseteq net /\ sendTimers' = sendTimers
        /\ m.responder # n =>
             /\ net' \subseteq net \cup {up}
             /\ sendTimers' = [sendTimers EXCEPT ![n] = {timer}]
    BY <1>3 DEF JoinResponse, Replied, PushSendTimer
  <1>5. timer \in [term : Ident, msg : Update] /\ timer.term = n /\ timer.msg = up
    BY <1>2, NodesAreIdents
  <1>6. /\ status' = [status EXCEPT ![n] = "SERVICING"]
        /\ successor' = [successor EXCEPT ![n] = m.responder]
        /\ timeoutCount' = [timeoutCount EXCEPT ![n] = 0]
        /\ UNCHANGED <<substate, predecessor, telling, notified, fingers,
                       successorResponseQueue, lost>>
    BY DEF JoinResponse
  <1> HIDE DEF up, timer
  <1>7. sendTimers' \in [Node -> SUBSET [term : Ident, msg : Update]]
    BY <1>4, <1>5, PointerTypes DEF PointersTyped
  <1>8. timeoutCount' \in [Node -> 0 .. JOIN_TRIALS]
    BY <1>6, ConstantsAssumption DEF Inv, TypeOK
  <1>9. TypeOK'
    BY <1>1, <1>2, <1>4, <1>6, <1>7, <1>8 DEF Inv, TypeOK
  <1>10. \A a \in Node : status[a] = "SERVICING" => status'[a] = "SERVICING"
    BY <1>6 DEF Inv, TypeOK
  <1>11. OutsideIsBlank' /\ MembersHaveSuccessor' /\ TrialsRemain'
    BY <1>1, <1>4, <1>6, ConstantsAssumption
       DEF Inv, TypeOK, OutsideIsBlank, MembersHaveSuccessor, TrialsRemain
  <1>12. PredecessorHasJoined' /\ TellersHavePredecessor'
    BY <1>6, <1>10 DEF Inv, TypeOK, PredecessorHasJoined, TellersHavePredecessor, Members
  <1>13. UpdatesNameMembers'
    BY <1>1, <1>2, <1>4, <1>6, <1>10, DatagramFields DEF Inv, TypeOK, UpdatesNameMembers
  <1>14. RequestsNameMembers' /\ AcksGoToMembers'
    BY <1>2, <1>4, <1>10, DatagramFields
       DEF Inv, TypeOK, RequestsNameMembers, AcksGoToMembers
  <1>15. TimersAreMine'
    <2>1. \A a \in Node \ {n} : sendTimers'[a] = sendTimers[a]
      BY <1>4, PointerTypes DEF PointersTyped
    <2>2. sendTimers'[n] \in {{}, {timer}} /\ (m.responder = n => sendTimers'[n] = {})
      BY <1>3, <1>4, PointerTypes DEF PointersTyped
    <2> QED
      BY <1>2, <1>5, <2>1, <2>2 DEF Inv, TimersAreMine
  <1>16. UpdatesAreSaved'
    <2> SUFFICES ASSUME NEW u \in net', u.type = "UPDATE_PREDECESSOR",
                        NEW t \in sendTimers'[u.predecessor]
                 PROVE  t.msg.to = u.to
      BY DEF UpdatesAreSaved
    <2>1. CASE u \in net
      <3>1. u.predecessor \in Node \ {n}
        BY <1>3, <2>1, DatagramFields DEF Inv, TypeOK, UpdatesNameMembers
      <3>2. t \in sendTimers[u.predecessor]
        BY <1>4, <3>1, PointerTypes DEF PointersTyped
      <3> QED
        BY <2>1, <3>2 DEF Inv, UpdatesAreSaved
    <2>2. CASE m.responder # n /\ u = up
      <3>1. sendTimers'[n] = {timer}
        BY <1>4, <2>2, PointerTypes DEF PointersTyped
      <3> QED
        BY <1>2, <1>5, <2>2, <3>1
    <2> QED
      BY <1>4, <2>1, <2>2
  <1>17. AcksFollowNotice'
    BY <1>2, <1>3, <1>4, <1>6, DatagramFields
       DEF Inv, TypeOK, AcksFollowNotice, Heard, AcksGoToMembers
  <1> QED
    BY <1>9, <1>11, <1>12, <1>13, <1>14, <1>15, <1>16, <1>17 DEF Inv

LEMMA ResendTimedOutInv ==
  ASSUME Inv, NEW n \in Node, NEW t, ResendTimedOut(n, t)
  PROVE  Inv'
  <1>1. /\ t \in [term : Ident, msg : Update]
        /\ t.msg.predecessor = n /\ t.msg.to # n /\ status[n] = "SERVICING"
        /\ t \in sendTimers[n]
    BY DEF ResendTimedOut, WorkerFree, Inv, TypeOK, TimersAreMine
  <1>2. t.msg \in Datagram /\ t.msg.type = "UPDATE_PREDECESSOR"
    BY <1>1 DEF Datagram, Update
  <1>3. net' \subseteq net \cup {t.msg} /\ UNCHANGED nodeVars /\ UNCHANGED lost
    BY DEF ResendTimedOut, Sent
  <1>4. TypeOK'
    BY <1>2, <1>3 DEF Inv, TypeOK, nodeVars
  <1>5. OutsideIsBlank' /\ MembersHaveSuccessor' /\ TrialsRemain'
    BY <1>3 DEF Inv, OutsideIsBlank, MembersHaveSuccessor, TrialsRemain, nodeVars
  <1>6. PredecessorHasJoined' /\ TellersHavePredecessor'
    BY <1>3 DEF Inv, PredecessorHasJoined, TellersHavePredecessor, Members, nodeVars
  <1>7. UpdatesNameMembers' /\ RequestsNameMembers' /\ AcksGoToMembers'
    BY <1>1, <1>2, <1>3
       DEF Inv, UpdatesNameMembers, RequestsNameMembers, AcksGoToMembers, nodeVars
  <1>8. TimersAreMine' /\ AcksFollowNotice'
    BY <1>2, <1>3 DEF Inv, TimersAreMine, AcksFollowNotice, Heard, nodeVars
  <1>9. \A u \in sendTimers[n] : u.msg.to = t.msg.to
    BY <1>1 DEF Inv, TimersAreMine
  <1>10. UpdatesAreSaved'
    BY <1>1, <1>2, <1>3, <1>9 DEF Inv, UpdatesAreSaved, nodeVars
  <1> QED
    BY <1>4, <1>5, <1>6, <1>7, <1>8, <1>10 DEF Inv

LEMMA StabilizeAloneInv ==
  ASSUME Inv, NEW n \in Node, StabilizeAlone(n)
  PROVE  Inv'
  <1> USE DEF StabilizeAlone
  <1>1. TypeOK'
    BY DEF Inv, TypeOK
  <1>2. OutsideIsBlank' /\ MembersHaveSuccessor' /\ TrialsRemain'
    BY DEF Inv, TypeOK, OutsideIsBlank, MembersHaveSuccessor, TrialsRemain
  <1>3. PredecessorHasJoined' /\ TellersHavePredecessor'
    BY DEF Inv, PredecessorHasJoined, TellersHavePredecessor, Members
  <1>4. UpdatesNameMembers' /\ RequestsNameMembers' /\ AcksGoToMembers'
    BY DEF Inv, UpdatesNameMembers, RequestsNameMembers, AcksGoToMembers
  <1>5. TimersAreMine' /\ UpdatesAreSaved' /\ AcksFollowNotice'
    BY DEF Inv, TimersAreMine, UpdatesAreSaved, AcksFollowNotice, Heard
  <1> QED
    BY <1>1, <1>2, <1>3, <1>4, <1>5 DEF Inv

LEMMA StabilizeWithSuccessorInv ==
  ASSUME Inv, NEW n \in Node, StabilizeWithSuccessor(n)
  PROVE  Inv'
  <1> DEFINE q == StabilizeRequest(successor[n], n)
  <1>1. successor[n] \in Node /\ successor[n] # n /\ status[n] = "SERVICING"
    BY DEF StabilizeWithSuccessor, WorkerFree, Inv, TypeOK
  <1>2. /\ q \in Datagram /\ q.type = "STABILIZE_REQUEST"
        /\ q.to = successor[n] /\ q.sender = n
    BY <1>1, DatagramsBuilt DEF StabilizeRequest
  <1>3. /\ net' \subseteq net \cup {q}
        /\ substate' = [substate EXCEPT ![n] = "STABILIZING"]
        /\ UNCHANGED <<status, successor, predecessor, timeoutCount,
                       sendTimers, telling, notified, fingers,
                       successorResponseQueue, lost>>
    BY DEF StabilizeWithSuccessor, Sent
  <1> HIDE DEF q
  <1>4. TypeOK'
    BY <1>2, <1>3 DEF Inv, TypeOK
  <1>5. OutsideIsBlank' /\ MembersHaveSuccessor' /\ TrialsRemain'
    BY <1>3 DEF Inv, OutsideIsBlank, MembersHaveSuccessor, TrialsRemain
  <1>6. PredecessorHasJoined' /\ TellersHavePredecessor'
    BY <1>3 DEF Inv, PredecessorHasJoined, TellersHavePredecessor, Members
  <1>7. UpdatesNameMembers' /\ RequestsNameMembers' /\ AcksGoToMembers'
    BY <1>1, <1>2, <1>3 DEF Inv, UpdatesNameMembers, RequestsNameMembers, AcksGoToMembers
  <1>8. TimersAreMine' /\ UpdatesAreSaved' /\ AcksFollowNotice'
    BY <1>2, <1>3 DEF Inv, TimersAreMine, UpdatesAreSaved, AcksFollowNotice, Heard
  <1> QED
    BY <1>4, <1>5, <1>6, <1>7, <1>8 DEF Inv

LEMMA HandleUpdatePredecessorInv ==
  ASSUME Inv, NEW n \in Node, NEW m \in net, m.to = n,
         WorkerFree(n), HandleUpdatePredecessor(n, m)
  PROVE  Inv'
  <1> DEFINE p == m.predecessor
             ack == UpdatePredecessorAck(p, AckId(n, m))
  <1>1. /\ p \in Node /\ p # n /\ status[p] = "SERVICING"
        /\ \A t \in sendTimers[p] : t.msg.to = n
    BY DatagramFields
       DEF HandleUpdatePredecessor, Inv, TypeOK, UpdatesNameMembers, UpdatesAreSaved
  <1>2. ack \in Datagram /\ ack.type = "UPDATE_PREDECESSOR_ACK" /\ ack.to = p
    BY <1>1, DatagramsBuilt DEF AckId, UpdatePredecessorAck
  <1>3. /\ net' \subseteq net \cup {ack}
        /\ predecessor' = [predecessor EXCEPT ![n] = p]
        /\ telling' = telling \cup {n}
        /\ status[n] = "SERVICING" /\ n \notin telling
        /\ UNCHANGED <<status, substate, successor, timeoutCount, sendTimers, notified,
                       fingers, successorResponseQueue, lost>>
    BY DEF HandleUpdatePredecessor, Replied, WorkerFree
  <1> HIDE DEF p, ack
  <1>4. TypeOK'
    <2>1. predecessor' \in [Node -> Node \cup {NULL}] /\ telling' \in SUBSET Node
      BY <1>1, <1>3, PointerTypes DEF PointersTyped
    <2> QED
      BY <1>2, <1>3, <2>1 DEF Inv, TypeOK
  <1>5. OutsideIsBlank' /\ MembersHaveSuccessor' /\ TrialsRemain'
    BY <1>3 DEF Inv, TypeOK, OutsideIsBlank, MembersHaveSuccessor, TrialsRemain
  <1>6. PredecessorHasJoined' /\ TellersHavePredecessor'
    BY <1>1, <1>3, ConstantsAssumption
       DEF Inv, TypeOK, PredecessorHasJoined, TellersHavePredecessor, Members
  <1>7. UpdatesNameMembers' /\ RequestsNameMembers' /\ AcksGoToMembers'
    BY <1>1, <1>2, <1>3 DEF Inv, UpdatesNameMembers, RequestsNameMembers, AcksGoToMembers
  <1>8. TimersAreMine' /\ UpdatesAreSaved'
    BY <1>2, <1>3 DEF Inv, TimersAreMine, UpdatesAreSaved
  <1>9. \A a, to \in Node : Heard(a, to) => Heard(a, to)'
    BY <1>3, PointerTypes DEF Heard, PointersTyped
  <1>10. Heard(p, n)'
    BY <1>3, PointerTypes DEF Heard, PointersTyped
  <1>11. AcksFollowNotice'
    <2> SUFFICES ASSUME NEW a \in net', a.type = "UPDATE_PREDECESSOR_ACK",
                        NEW t \in sendTimers[a.to]
                 PROVE  Heard(a.to, t.msg.to)'
      BY <1>3 DEF AcksFollowNotice
    <2>1. CASE a \in net
      <3>1. Heard(a.to, t.msg.to)
        BY <2>1 DEF Inv, AcksFollowNotice
      <3>2. a.to \in Node /\ t.msg.to \in Node
        BY <2>1, DatagramFields DEF Inv, TypeOK, Update
      <3> QED
        BY <1>9, <3>1, <3>2
    <2>2. CASE a = ack
      BY <1>1, <1>2, <1>10, <2>2
    <2> QED
      BY <1>3, <2>1, <2>2
  <1> QED
    BY <1>4, <1>5, <1>6, <1>7, <1>8, <1>11 DEF Inv

\* The notification names the predecessor, which is the newcomer while the
\* worker is telling.
LEMMA PushNotificationInv ==
  ASSUME Inv, NEW n \in Node, PushNotification(n)
  PROVE  Inv'
  <1>1. predecessor[n] \in Node /\ n \in telling
    BY DEF PushNotification, Inv, TypeOK, TellersHavePredecessor
  <1>2. /\ telling' = telling \ {n}
        /\ notified' = [notified EXCEPT ![n] = notified[n] \cup {predecessor[n]}]
        /\ UNCHANGED <<status, substate, successor, predecessor, timeoutCount, sendTimers,
                       fingers, successorResponseQueue, net, lost>>
    BY DEF PushNotification, Notify
  <1>3. TypeOK'
    BY <1>1, <1>2 DEF Inv, TypeOK
  <1>4. OutsideIsBlank' /\ MembersHaveSuccessor' /\ TrialsRemain'
    BY <1>2 DEF Inv, OutsideIsBlank, MembersHaveSuccessor, TrialsRemain
  <1>5. PredecessorHasJoined' /\ TellersHavePredecessor'
    BY <1>2 DEF Inv, PredecessorHasJoined, TellersHavePredecessor, Members
  <1>6. UpdatesNameMembers' /\ RequestsNameMembers' /\ AcksGoToMembers'
    BY <1>2 DEF Inv, UpdatesNameMembers, RequestsNameMembers, AcksGoToMembers
  <1>7. TimersAreMine' /\ UpdatesAreSaved'
    BY <1>2 DEF Inv, TimersAreMine, UpdatesAreSaved
  <1>8. \A a, to \in Node : Heard(a, to) => Heard(a, to)'
    BY <1>1, <1>2 DEF Heard, Inv, TypeOK
  <1>9. \A a \in net : \A t \in sendTimers[a.to] :
          a.to \in Node /\ t.msg.to \in Node
    BY DatagramFields DEF Inv, TypeOK, Update
  <1>10. AcksFollowNotice'
    BY <1>2, <1>8, <1>9 DEF Inv, AcksFollowNotice
  <1> QED
    BY <1>3, <1>4, <1>5, <1>6, <1>7, <1>10 DEF Inv

\* The finger job asks about the first keys of its own fingers.
LEMMA UpdateFingersInv ==
  ASSUME Inv, NEW n \in Node, UpdateFingers(n)
  PROVE  Inv'
  <1> DEFINE near == {s \in FingerStarts(n) : IsInSuccessor(s, n, successor[n])}
             Q == {SuccessorQuery("FINGER_QUERY", successor[n], s, n) :
                     s \in FingerStarts(n) \ near}
  <1>1. successor[n] \in Node
    BY DEF UpdateFingers, WorkerFree, Inv, TypeOK, MembersHaveSuccessor
  <1>2. FingerStarts(n) \subseteq FingerTerm
    BY DEF FingerTerm
  <1>3. \A q \in Q : q \in Datagram /\ q.type \in Harmless
    BY <1>1, <1>2, FingerQueryBuilt DEF Harmless, Lookups, SuccessorQuery
  <1>4. net' \subseteq net \cup Q
    BY DEF UpdateFingers, Sent
  <1>5. /\ fingers' \in [Node -> [FingerTerm -> Node \cup {NULL}]]
        /\ UNCHANGED <<status, substate, successor, predecessor, timeoutCount,
                       sendTimers, telling, notified, successorResponseQueue, lost>>
    <2>1. [s \in FingerTerm |-> IF s \in near THEN successor[n] ELSE fingers[n][s]]
            \in [FingerTerm -> Node \cup {NULL}]
      BY <1>1 DEF Inv, TypeOK
    <2> QED
      BY <2>1 DEF UpdateFingers, Inv, TypeOK
  <1> HIDE DEF Q
  <1>6. TypeOK'
    BY <1>3, <1>4, <1>5 DEF Inv, TypeOK
  <1> QED
    BY <1>3, <1>4, <1>5, <1>6, HarmlessStep

\* A finger is set to a host.
LEMMA FingerIsSet ==
  ASSUME Inv, NEW n \in Node, NEW term \in FingerTerm, NEW host \in Node,
         SetFinger(n, term, host)
  PROVE  fingers' \in [Node -> [FingerTerm -> Node \cup {NULL}]]
  <1>1. fingers' = [fingers EXCEPT ![n] = [fingers[n] EXCEPT ![term] = host]]
    BY DEF SetFinger, Inv, TypeOK
  <1> QED
    BY <1>1 DEF Inv, TypeOK

LEMMA HandleFingerResponseInv ==
  ASSUME Inv, NEW n \in Node, NEW m \in net, m.to = n,
         WorkerFree(n), HandleFingerResponse(n, m)
  PROVE  Inv'
  <1>1. m.searchTerm \in FingerTerm /\ m.responder \in Node
    BY DatagramFields DEF HandleFingerResponse, Inv, TypeOK
  <1>2. fingers' \in [Node -> [FingerTerm -> Node \cup {NULL}]]
    BY <1>1, FingerIsSet DEF HandleFingerResponse
  <1>3. /\ net' \subseteq net
        /\ UNCHANGED <<status, substate, successor, predecessor, timeoutCount,
                       sendTimers, telling, notified, successorResponseQueue, lost>>
    BY DEF HandleFingerResponse
  <1>4. TypeOK'
    BY <1>2, <1>3 DEF Inv, TypeOK
  <1> QED
    BY <1>3, <1>4, HarmlessStep

LEMMA HandleUpdatePredecessorAckInv ==
  ASSUME Inv, NEW n \in Node, NEW m \in net, m.to = n,
         WorkerFree(n), HandleUpdatePredecessorAck(n, m)
  PROVE  Inv'
  <1>1. /\ net' \subseteq net
        /\ sendTimers' \in [Node -> SUBSET [term : Ident, msg : Update]]
        /\ \A a \in Node : sendTimers'[a] = {} \/ sendTimers'[a] = sendTimers[a]
        /\ UNCHANGED <<status, substate, successor, predecessor, timeoutCount,
                       telling, notified, fingers, successorResponseQueue,
                       lost>>
    <2>1. \A t \in sendTimers[n] : sendTimers[n] = {t}
      BY DEF Inv, TimersAreMine
    <2> QED
      BY <2>1 DEF HandleUpdatePredecessorAck, Inv, TypeOK
  <1>2. TypeOK'
    BY <1>1 DEF Inv, TypeOK
  <1>3. OutsideIsBlank' /\ MembersHaveSuccessor' /\ TrialsRemain'
    BY <1>1 DEF Inv, OutsideIsBlank, MembersHaveSuccessor, TrialsRemain
  <1>4. PredecessorHasJoined' /\ TellersHavePredecessor'
    BY <1>1 DEF Inv, PredecessorHasJoined, TellersHavePredecessor, Members
  <1>5. UpdatesNameMembers' /\ RequestsNameMembers' /\ AcksGoToMembers'
    BY <1>1 DEF Inv, UpdatesNameMembers, RequestsNameMembers, AcksGoToMembers
  <1>6. TimersAreMine'
    BY <1>1 DEF Inv, TimersAreMine
  <1>7. UpdatesAreSaved'
    BY <1>1, DatagramFields DEF Inv, TypeOK, UpdatesAreSaved
  <1>8. AcksFollowNotice'
    BY <1>1, DatagramFields DEF Inv, TypeOK, AcksFollowNotice, Heard
  <1> QED
    BY <1>2, <1>3, <1>4, <1>5, <1>6, <1>7, <1>8 DEF Inv

LEMMA HandleStabilizeRequestInv ==
  ASSUME Inv, NEW n \in Node, NEW m \in net, m.to = n,
         WorkerFree(n), HandleStabilizeRequest(n, m)
  PROVE  Inv'
  <1> DEFINE p == PredecessorAfterRequest(n, m)
             q == StabilizeResponse(m.sender, p)
  <1>1. m.sender \in Node /\ m.sender # n /\ status[m.sender] = "SERVICING"
    BY DatagramFields DEF HandleStabilizeRequest, Inv, TypeOK, RequestsNameMembers
  <1>2. p \in Node /\ p # n /\ status[p] = "SERVICING"
    BY <1>1 DEF PredecessorAfterRequest, Inv, TypeOK, PredecessorHasJoined, Members
  <1>3. q \in Datagram /\ q.type = "STABILIZE_RESPONSE"
    BY <1>1, <1>2, DatagramsBuilt DEF StabilizeResponse
  <1>4. /\ net' \subseteq net \cup {q}
        /\ predecessor' = [predecessor EXCEPT ![n] = p]
        /\ UNCHANGED <<status, substate, successor, timeoutCount, sendTimers,
                       telling, notified, fingers, successorResponseQueue,
                       lost>>
        /\ status[n] = "SERVICING" /\ n \notin telling
    BY DEF HandleStabilizeRequest, Replied, WorkerFree
  <1> HIDE DEF p, q
  <1>5. TypeOK'
    BY <1>2, <1>3, <1>4 DEF Inv, TypeOK
  <1>6. OutsideIsBlank' /\ MembersHaveSuccessor' /\ TrialsRemain'
    BY <1>4 DEF Inv, TypeOK, OutsideIsBlank, MembersHaveSuccessor, TrialsRemain
  <1>7. PredecessorHasJoined' /\ TellersHavePredecessor'
    BY <1>2, <1>4 DEF Inv, TypeOK, PredecessorHasJoined, TellersHavePredecessor, Members
  <1>8. UpdatesNameMembers' /\ RequestsNameMembers' /\ AcksGoToMembers'
    BY <1>3, <1>4 DEF Inv, UpdatesNameMembers, RequestsNameMembers, AcksGoToMembers
  <1>9. TimersAreMine' /\ UpdatesAreSaved'
    BY <1>3, <1>4 DEF Inv, TimersAreMine, UpdatesAreSaved
  <1>10. \A a, to : Heard(a, to) => Heard(a, to)'
    BY <1>4 DEF Heard, Inv, TypeOK
  <1>11. AcksFollowNotice'
    BY <1>3, <1>4, <1>10 DEF Inv, AcksFollowNotice
  <1> QED
    BY <1>5, <1>6, <1>7, <1>8, <1>9, <1>11 DEF Inv

LEMMA HandleStabilizeResponseInv ==
  ASSUME Inv, NEW n \in Node, NEW m \in net, m.to = n,
         WorkerFree(n), HandleStabilizeResponse(n, m)
  PROVE  Inv'
  <1>1. m.predecessor \in Node /\ NULL \notin Node
    BY DatagramFields, ConstantsAssumption DEF HandleStabilizeResponse, Inv, TypeOK
  <1>2. /\ net' \subseteq net
        /\ substate' \in [Node -> {"IN_NETWORK", "STABILIZING"}]
        /\ UNCHANGED <<status, predecessor, timeoutCount, sendTimers, telling,
                       notified, fingers, successorResponseQueue, lost>>
    BY DEF HandleStabilizeResponse, Inv, TypeOK
  <1>3. /\ successor' \in [Node -> Node \cup {NULL}]
        /\ \A a \in Node \ {n} : successor'[a] = successor[a]
        /\ successor[n] # NULL => successor'[n] # NULL
        /\ status[n] = "SERVICING"
    BY <1>1, PointerTypes
       DEF HandleStabilizeResponse, SuccessorAfterResponse, WorkerFree, PointersTyped
  <1>4. TypeOK'
    BY <1>2, <1>3 DEF Inv, TypeOK
  <1>5. OutsideIsBlank' /\ MembersHaveSuccessor' /\ TrialsRemain'
    BY <1>2, <1>3 DEF Inv, OutsideIsBlank, MembersHaveSuccessor, TrialsRemain
  <1>6. PredecessorHasJoined' /\ TellersHavePredecessor'
    BY <1>2 DEF Inv, PredecessorHasJoined, TellersHavePredecessor, Members
  <1>7. UpdatesNameMembers' /\ RequestsNameMembers' /\ AcksGoToMembers'
    BY <1>2 DEF Inv, UpdatesNameMembers, RequestsNameMembers, AcksGoToMembers
  <1>8. TimersAreMine' /\ UpdatesAreSaved' /\ AcksFollowNotice'
    BY <1>2 DEF Inv, TimersAreMine, UpdatesAreSaved, AcksFollowNotice, Heard
  <1> QED
    BY <1>4, <1>5, <1>6, <1>7, <1>8 DEF Inv

LEMMA QueryLoopedBackInv ==
  ASSUME Inv, NEW n \in Node, NEW m \in net, m.to = n,
         WorkerFree(n), QueryLoopedBack(n, m)
  PROVE  Inv'
  <1>1. m \in Datagram /\ m.type \in Lookups
    BY DEF QueryLoopedBack, Inv, TypeOK
  <1>2. /\ net' \subseteq net
        /\ UNCHANGED <<status, substate, successor, predecessor, timeoutCount,
                       sendTimers, telling, notified, lost>>
    BY DEF QueryLoopedBack
  <1>3. CASE m.type = "FINGER_QUERY"
    <2>1. fingers' \in [Node -> [FingerTerm -> Node \cup {NULL}]]
      BY <1>1, <1>3, LookupFields, FingerIsSet DEF QueryLoopedBack
    <2>2. TypeOK'
      BY <1>2, <1>3, <2>1 DEF QueryLoopedBack, Inv, TypeOK
    <2> QED
      BY <1>2, <2>2, HarmlessStep
  <1>4. CASE m.type # "FINGER_QUERY"
    <2>1. [searchTerm |-> m.searchTerm, responder |-> n]
            \in [searchTerm : SearchTerm, responder : Node]
      BY <1>1, <1>4, DatagramFields
    <2>2. successorResponseQueue' \in
            [Node -> SUBSET [searchTerm : SearchTerm, responder : Node]]
      <3>1. successorResponseQueue' = [successorResponseQueue EXCEPT
              ![n] = @ \cup {[searchTerm |-> m.searchTerm, responder |-> n]}]
        BY <1>4 DEF QueryLoopedBack, PushSuccessorResponse
      <3> QED
        BY <2>1, <3>1 DEF Inv, TypeOK
    <2>3. TypeOK'
      BY <1>2, <1>4, <2>2 DEF QueryLoopedBack, Inv, TypeOK
    <2> QED
      BY <1>2, <2>3, HarmlessStep
  <1> QED
    BY <1>3, <1>4

LEMMA HandleSuccessorResponseInv ==
  ASSUME Inv, NEW n \in Node, NEW m \in net, m.to = n,
         WorkerFree(n), HandleSuccessorResponse(n, m)
  PROVE  Inv'
  <1>1. [searchTerm |-> m.searchTerm, responder |-> m.responder]
          \in [searchTerm : SearchTerm, responder : Node]
    BY DatagramFields DEF HandleSuccessorResponse, Inv, TypeOK
  <1>2. TypeOK'
    BY <1>1 DEF HandleSuccessorResponse, PushSuccessorResponse, Inv, TypeOK
  <1>3. net' \subseteq net \cup {m}
        /\ m.type \in Harmless
    BY DEF HandleSuccessorResponse, Harmless
  <1> QED
    BY <1>2, <1>3, HarmlessStep DEF HandleSuccessorResponse

LEMMA AnswerAloneInv ==
  ASSUME Inv, NEW n \in Node, NEW m \in net, m.to = n,
         WorkerFree(n), AnswerAlone(n, m)
  PROVE  Inv'
  <1> DEFINE q == Answer(m, n)
  <1>1. m.sender \in Node /\ NULL \notin Node
    BY DatagramFields, ConstantsAssumption DEF AnswerAlone, Inv, TypeOK
  <1>2. q \in Datagram /\ q.type \in {"SUCCESSOR_RESPONSE", "FINGER_RESPONSE"}
    BY AnswersBuilt DEF AnswerAlone, Inv, TypeOK
  <1>3. /\ net' \subseteq net \cup {q}
        /\ successor' = [successor EXCEPT ![n] = m.sender]
        /\ UNCHANGED <<status, substate, predecessor, timeoutCount,
                       sendTimers, telling, notified, fingers,
                       successorResponseQueue, lost>>
    BY DEF AnswerAlone, Replied
  <1> HIDE DEF q
  <1>4. TypeOK'
    BY <1>1, <1>2, <1>3 DEF Inv, TypeOK
  <1>5. OutsideIsBlank' /\ MembersHaveSuccessor' /\ TrialsRemain'
    BY <1>1, <1>3, PointerTypes
       DEF WorkerFree, PointersTyped, Inv, OutsideIsBlank, MembersHaveSuccessor, TrialsRemain
  <1>6. PredecessorHasJoined' /\ TellersHavePredecessor'
    BY <1>3 DEF Inv, PredecessorHasJoined, TellersHavePredecessor, Members
  <1>7. UpdatesNameMembers' /\ RequestsNameMembers' /\ AcksGoToMembers'
    BY <1>2, <1>3 DEF Inv, UpdatesNameMembers, RequestsNameMembers, AcksGoToMembers
  <1>8. TimersAreMine' /\ UpdatesAreSaved' /\ AcksFollowNotice'
    BY <1>2, <1>3 DEF Inv, TimersAreMine, UpdatesAreSaved, AcksFollowNotice, Heard
  <1> QED
    BY <1>4, <1>5, <1>6, <1>7, <1>8 DEF Inv

LEMMA AnswerWithSuccessorInv ==
  ASSUME Inv, NEW n \in Node, NEW m \in net, m.to = n,
         WorkerFree(n), AnswerWithSuccessor(n, m)
  PROVE  Inv'
  <1> DEFINE q == Answer(m, successor[n])
  <1>1. successor[n] \in Node
    BY DEF WorkerFree, Inv, TypeOK, MembersHaveSuccessor
  <1>2. q \in Datagram /\ q.type \in {"SUCCESSOR_RESPONSE", "FINGER_RESPONSE"}
    BY <1>1, AnswersBuilt DEF AnswerWithSuccessor, Inv, TypeOK
  <1>3. net' \subseteq net \cup {q}
    BY DEF AnswerWithSuccessor, Replied, Responder
  <1> HIDE DEF q
  <1>4. TypeOK'
    BY <1>2, <1>3 DEF AnswerWithSuccessor, Inv, TypeOK, nodeVars
  <1> QED
    BY <1>2, <1>3, <1>4, HarmlessStep DEF AnswerWithSuccessor, nodeVars, Harmless

\* A query goes to hosts of the ring, by the successor or by a finger.
LEMMA HopsAreHosts ==
  ASSUME Inv, NEW n \in Node, successor[n] \in Node, NEW k
  PROVE  GetSuccessorOf(fingers[n], successor[n], k) \subseteq Node
  <1>1. DOMAIN fingers[n] = FingerTerm
    BY DEF Inv, TypeOK
  <1>2. FingerTerm \subseteq Ident
    BY FingerTermsAreIdents
  <1>3. \A s \in Entries(fingers[n]) : fingers[n][s] \in Node
    BY <1>1 DEF Entries, Inv, TypeOK
  <1> QED
    BY <1>1, <1>2, <1>3, HopsFromTable

LEMMA ForwardQueryInv ==
  ASSUME Inv, NEW n \in Node, NEW m \in net, m.to = n,
         WorkerFree(n), ForwardQuery(n, m)
  PROVE  Inv'
  <1>1. m \in Datagram /\ m.type \in Lookups
    BY DEF ForwardQuery, Unanswered, Inv, TypeOK
  <1>2. successor[n] \in Node
    BY DEF WorkerFree, Inv, TypeOK, MembersHaveSuccessor
  <1>3. NextHops(n, m) \subseteq Node
    BY <1>2, HopsAreHosts DEF NextHops
  <1>4. PICK to \in NextHops(n, m) : net' = Replied(n, m, {[m EXCEPT !.to = to]})
    BY DEF ForwardQuery
  <1> DEFINE q == [m EXCEPT !.to = to]
  <1>5. q \in Datagram /\ q.type \in Lookups
    BY <1>1, <1>3, AnswersBuilt, LookupFields DEF SuccessorQuery
  <1>6. net' \subseteq net \cup {q}
    BY <1>4 DEF Replied
  <1> HIDE DEF q
  <1>7. TypeOK'
    BY <1>5, <1>6 DEF ForwardQuery, Inv, TypeOK, nodeVars
  <1> QED
    BY <1>5, <1>6, <1>7, HarmlessStep DEF ForwardQuery, nodeVars, Harmless

LEMMA DropFingerQueryInv ==
  ASSUME Inv, NEW n \in Node, NEW m \in net, DropFingerQuery(n, m)
  PROVE  Inv'
  <1>1. net' \subseteq net /\ UNCHANGED <<nodeVars, lost>>
    BY DEF DropFingerQuery
  <1>2. TypeOK'
    BY <1>1 DEF Inv, TypeOK, nodeVars
  <1> QED
    BY <1>1, <1>2, HarmlessStep DEF nodeVars

LEMMA LoseInv ==
  ASSUME Inv, NEW m \in net, Lose(m)
  PROVE  Inv'
  <1>1. TypeOK'
    BY ConstantsAssumption DEF Lose, Inv, TypeOK, nodeVars
  <1>2. net' \subseteq net
    BY DEF Lose
  <1>3. UNCHANGED <<status, successor, predecessor, timeoutCount, sendTimers,
                    telling, notified>>
    BY DEF Lose, nodeVars
  <1> QED
    BY <1>1, <1>2, <1>3, HarmlessStep

LEMMA StutterInv ==
  ASSUME Inv, UNCHANGED vars
  PROVE  Inv'
  BY DEF vars, nodeVars, Inv, TypeOK, OutsideIsBlank, MembersHaveSuccessor,
         TrialsRemain, PredecessorHasJoined, Members, UpdatesNameMembers,
         RequestsNameMembers, AcksGoToMembers, TimersAreMine, UpdatesAreSaved,
         AcksFollowNotice, Heard, TellersHavePredecessor

-----------------------------------------------------------------------------
(* The specification.                                                      *)

LEMMA StepInv == Inv /\ [Next]_vars => Inv'
  <1> SUFFICES ASSUME Inv, [Next]_vars
               PROVE  Inv'
    OBVIOUS
  <1>1. ASSUME NEW n \in Node, Start(n)
        PROVE  Inv'
    BY <1>1, CreateRingInv, StartJoinInv DEF Start
  <1>2. ASSUME NEW n \in Node, JoinTimeout(n)
        PROVE  Inv'
    BY <1>2, JoinTimeoutInv
  <1>3. ASSUME NEW n \in Node, Stabilize(n)
        PROVE  Inv'
    BY <1>3, StabilizeAloneInv, StabilizeWithSuccessorInv DEF Stabilize
  <1>4. ASSUME NEW n \in Node, Resend(n) \/ UpdateFingers(n) \/ PushNotification(n)
        PROVE  Inv'
    BY <1>4, ResendTimedOutInv, UpdateFingersInv, PushNotificationInv DEF Resend
  <1>5. ASSUME NEW m \in net, Receive(m)
        PROVE  Inv'
    <2>1. m.to \in Node
      BY DatagramFields DEF Inv, TypeOK
    <2>2. CASE JoinStray(m.to, m)
      BY <2>1, <2>2, JoinStrayInv
    <2>3. CASE JoinResponse(m.to, m)
      BY <2>1, <2>3, JoinResponseInv
    <2>4. CASE WorkerReceives(m.to, m)
      <3>1. WorkerFree(m.to)
        BY <2>4 DEF WorkerReceives
      <3>2. CASE HandleUpdatePredecessor(m.to, m)
        BY <2>1, <3>1, <3>2, HandleUpdatePredecessorInv
      <3>3. CASE HandleUpdatePredecessorAck(m.to, m)
        BY <2>1, <3>1, <3>3, HandleUpdatePredecessorAckInv
      <3>4. CASE HandleStabilizeRequest(m.to, m)
        BY <2>1, <3>1, <3>4, HandleStabilizeRequestInv
      <3>5. CASE HandleStabilizeResponse(m.to, m)
        BY <2>1, <3>1, <3>5, HandleStabilizeResponseInv
      <3>6. CASE QueryLoopedBack(m.to, m)
        BY <2>1, <3>1, <3>6, QueryLoopedBackInv
      <3>7. CASE AnswerAlone(m.to, m)
        BY <2>1, <3>1, <3>7, AnswerAloneInv
      <3>8. CASE AnswerWithSuccessor(m.to, m)
        BY <2>1, <3>1, <3>8, AnswerWithSuccessorInv
      <3>9. CASE ForwardQuery(m.to, m)
        BY <2>1, <3>1, <3>9, ForwardQueryInv
      <3>10. CASE HandleSuccessorResponse(m.to, m)
        BY <2>1, <3>1, <3>10, HandleSuccessorResponseInv
      <3>11. CASE DropFingerQuery(m.to, m)
        BY <2>1, <3>11, DropFingerQueryInv
      <3>12. CASE HandleFingerResponse(m.to, m)
        BY <2>1, <3>1, <3>12, HandleFingerResponseInv
      <3> QED
        BY <2>4, <3>2, <3>3, <3>4, <3>5, <3>6, <3>7, <3>8, <3>9, <3>10, <3>11, <3>12
           DEF WorkerReceives
    <2> QED
      BY <1>5, <2>2, <2>3, <2>4 DEF Receive
  <1>6. ASSUME NEW m \in net, Lose(m)
        PROVE  Inv'
    BY <1>6, LoseInv
  <1>7. CASE UNCHANGED vars
    BY <1>7, StutterInv
  <1> QED
    BY <1>1, <1>2, <1>3, <1>4, <1>5, <1>6, <1>7 DEF Next

\* The inductive invariant holds in every state of ring maintenance.
THEOREM Invariance == Spec => []Inv
  BY InitInv, StepInv, PTL DEF Spec

\* Every variable keeps its type; in particular join() never counts past
\* JOIN_TRIALS timeouts.
THEOREM TypeCorrect == Spec => []TypeOK
  <1>1. Inv => TypeOK
    BY DEF Inv
  <1> QED
    BY <1>1, Invariance, PTL

\* The predecessor of a node is always another node that has joined.
THEOREM PredecessorCorrect == Spec => []PredecessorHasJoined
  <1>1. Inv => PredecessorHasJoined
    BY DEF Inv
  <1> QED
    BY <1>1, Invariance, PTL

-----------------------------------------------------------------------------
(* What a step may never do.                                               *)

KeepsContact ==
  \A n \in Node :
    /\ successor[n] \notin {NULL, n} => successor'[n] \notin {NULL, n}
    /\ predecessor[n] # NULL => predecessor'[n] # NULL

KeepsTimers ==
  \A n \in Node : \A t \in sendTimers[n] \ sendTimers'[n] :
    Heard(n, t.msg.to)

\* The actions that assign a pointer; all others leave both alone.
LEMMA ContactStep == Inv /\ [Next]_vars => KeepsContact
  <1> SUFFICES ASSUME Inv, [Next]_vars
               PROVE  KeepsContact
    OBVIOUS
  <1> USE DEF KeepsContact
  <1>1. CASE UNCHANGED <<successor, predecessor>>
    BY <1>1
  <1>2. ASSUME NEW n \in Node, CreateRing(n)
        PROVE  KeepsContact
    BY <1>2 DEF CreateRing, Inv, TypeOK, OutsideIsBlank
  <1>3. ASSUME NEW n \in Node, StabilizeAlone(n)
        PROVE  KeepsContact
    BY <1>3, ConstantsAssumption DEF StabilizeAlone, Inv, TypeOK
  <1>4. ASSUME NEW m \in net, JoinResponse(m.to, m)
        PROVE  KeepsContact
    BY <1>4, DatagramFields DEF JoinResponse, Inv, TypeOK, OutsideIsBlank
  <1>5. ASSUME NEW m \in net, HandleUpdatePredecessor(m.to, m)
        PROVE  KeepsContact
    BY <1>5, DatagramFields, ConstantsAssumption DEF HandleUpdatePredecessor, Inv, TypeOK
  <1>6. ASSUME NEW m \in net, HandleStabilizeRequest(m.to, m)
        PROVE  KeepsContact
    BY <1>6, DatagramFields, ConstantsAssumption
       DEF HandleStabilizeRequest, PredecessorAfterRequest, Inv, TypeOK
  <1>7. ASSUME NEW m \in net, HandleStabilizeResponse(m.to, m)
        PROVE  KeepsContact
    BY <1>7, DatagramFields, ConstantsAssumption
       DEF HandleStabilizeResponse, SuccessorAfterResponse, Inv, TypeOK
  <1>8. ASSUME NEW m \in net, AnswerAlone(m.to, m)
        PROVE  KeepsContact
    BY <1>8, DatagramFields, ConstantsAssumption DEF AnswerAlone, Inv, TypeOK
  <1>9. ASSUME NEW m \in net, Receive(m)
        PROVE  KeepsContact
    <2>1. \/ JoinResponse(m.to, m) \/ HandleUpdatePredecessor(m.to, m)
          \/ HandleStabilizeRequest(m.to, m) \/ HandleStabilizeResponse(m.to, m)
          \/ AnswerAlone(m.to, m) \/ UNCHANGED <<successor, predecessor>>
      BY <1>9 DEF Receive, WorkerReceives, JoinStray, HandleUpdatePredecessorAck,
                  QueryLoopedBack, AnswerWithSuccessor, ForwardQuery, DropFingerQuery,
                  HandleFingerResponse, HandleSuccessorResponse, nodeVars
    <2> QED
      BY <2>1, <1>1, <1>4, <1>5, <1>6, <1>7, <1>8
  <1>10. ASSUME NEW n \in Node, \/ Start(n) \/ JoinTimeout(n) \/ Stabilize(n) \/ Resend(n)
                               \/ UpdateFingers(n) \/ PushNotification(n)
         PROVE  KeepsContact
    <2>1. CreateRing(n) \/ StabilizeAlone(n) \/ UNCHANGED <<successor,
                                                            predecessor>>
      BY <1>10 DEF Start, StartJoin, JoinTimeout, Stabilize, StabilizeWithSuccessor,
                   Resend, ResendTimedOut, UpdateFingers, PushNotification, nodeVars
    <2> QED
      BY <2>1, <1>1, <1>2, <1>3
  <1>11. CASE UNCHANGED vars \/ \E m \in net : Lose(m)
    BY <1>11, <1>1 DEF vars, nodeVars, Lose
  <1> QED
    BY <1>9, <1>10, <1>11 DEF Next

\* A node that has contact with another never lets go of it.
THEOREM ContactKept == Spec => ContactNeverLost
  <1>1. Inv /\ [Next]_vars => [KeepsContact]_vars
    BY ContactStep
  <1>2. Spec => [][KeepsContact]_vars
    BY <1>1, Invariance, PTL DEF Spec
  <1> QED
    BY <1>2 DEF ContactNeverLost, KeepsContact

\* Two actions assign the timers, and only the acknowledgement removes one.
LEMMA TimerStep == Inv /\ [Next]_vars => KeepsTimers
  <1> SUFFICES ASSUME Inv, [Next]_vars
               PROVE  KeepsTimers
    OBVIOUS
  <1> USE DEF KeepsTimers
  <1>1. CASE UNCHANGED sendTimers
    BY <1>1
  <1>2. ASSUME NEW m \in net, JoinResponse(m.to, m)
        PROVE  KeepsTimers
    <2>1. m.to \in Node /\ sendTimers[m.to] = {}
      BY <1>2, DatagramFields DEF JoinResponse, Inv, TypeOK, OutsideIsBlank
    <2>2. \A n \in Node \ {m.to} : sendTimers'[n] = sendTimers[n]
      BY <1>2, <2>1 DEF JoinResponse, Inv, TypeOK
    <2> QED
      BY <2>1, <2>2
  <1>3. ASSUME NEW m \in net, HandleUpdatePredecessorAck(m.to, m)
        PROVE  KeepsTimers
    <2>1. \A t \in sendTimers[m.to] : Heard(m.to, t.msg.to)
      BY <1>3 DEF HandleUpdatePredecessorAck, Inv, AcksFollowNotice
    <2>2. \A n \in Node \ {m.to} : sendTimers'[n] = sendTimers[n]
      BY <1>3 DEF HandleUpdatePredecessorAck, Inv, TypeOK
    <2> QED
      BY <2>1, <2>2
  <1>4. ASSUME NEW m \in net, Receive(m)
        PROVE  KeepsTimers
    <2>1. \/ JoinResponse(m.to, m) \/ HandleUpdatePredecessorAck(m.to, m)
          \/ UNCHANGED sendTimers
      BY <1>4 DEF Receive, WorkerReceives, JoinStray, HandleUpdatePredecessor,
                  HandleStabilizeRequest, HandleStabilizeResponse, AnswerAlone,
                  QueryLoopedBack, AnswerWithSuccessor, ForwardQuery, DropFingerQuery,
                  HandleFingerResponse, HandleSuccessorResponse, nodeVars
    <2> QED
      BY <2>1, <1>1, <1>2, <1>3
  <1>5. ASSUME NEW n \in Node, \/ Start(n) \/ JoinTimeout(n) \/ Stabilize(n) \/ Resend(n)
                              \/ UpdateFingers(n) \/ PushNotification(n)
        PROVE  KeepsTimers
    <2>1. UNCHANGED sendTimers
      BY <1>5 DEF Start, CreateRing, StartJoin, JoinTimeout, Stabilize, StabilizeAlone,
                  StabilizeWithSuccessor, Resend, ResendTimedOut, UpdateFingers,
                  PushNotification, nodeVars
    <2> QED
      BY <2>1, <1>1
  <1>6. CASE UNCHANGED vars \/ \E m \in net : Lose(m)
    BY <1>6, <1>1 DEF vars, nodeVars, Lose
  <1> QED
    BY <1>4, <1>5, <1>6 DEF Next

\* A node keeps resending its announcement until the host it is meant for has
\* told its application, or stands before the call that tells it with this very
\* node as predecessor.
THEOREM ResendUntilHeard == Spec => SilentOnlyWhenHeard
  <1>1. Inv /\ [Next]_vars => [KeepsTimers]_vars
    BY TimerStep
  <1>2. Spec => [][KeepsTimers]_vars
    BY <1>1, Invariance, PTL DEF Spec
  <1> QED
    BY <1>2 DEF SilentOnlyWhenHeard, KeepsTimers
=============================================================================
