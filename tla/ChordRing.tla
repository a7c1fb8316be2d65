------------------------------ MODULE ChordRing ------------------------------
(***************************************************************************)
(* Ring maintenance: how class Chord joins a ring (join, notifySuccessor)  *)
(* and how its worker thread keeps successor and predecessor up to date    *)
(* (stabilize, the resending of timed out messages, and the cases of       *)
(* threadWorker for the messages these exchanges use; the case for queries *)
(* is the same for joins and for lookups, which ChordQuery sends).         *)
(*                                                                         *)
(* Every node runs one worker thread, which handles one datagram or one    *)
(* periodic job at a time, so a handler is an action.  Before the worker  *)
(* exists, start() runs join() and reads the socket itself.                *)
(*                                                                         *)
(* One handler is two actions: the worker acknowledges an                  *)
(* UPDATE_PREDECESSOR before it notifies the application, so the newcomer  *)
(* may have the acknowledgement before the application has the notice.     *)
(*                                                                         *)
(* The network is UDP: net is the set of datagrams in flight, received in  *)
(* any order, perhaps never; Lose drops one.  Equal datagrams in flight    *)
(* are one element.  A datagram to a node without an open socket vanishes, *)
(* and so does one a node addresses to itself, because createNode gives    *)
(* the own node descriptor 0 and no address.                               *)
(***************************************************************************)
EXTENDS FingerTable

CONSTANTS
  Node,            \* hashedIds of the hosts (SHA-1 of their address)
  Key,             \* hashes of the keys that applications look up
  JoinPoint,       \* joinPointIp of each node; its own id if it founds a ring
  FingerSpans,     \* bound: which fingers each host keeps; in the code, all of Span
  JOIN_TRIALS,     \* how many timeouts join() accepts
  MaxLoss,         \* bound: how many datagrams the network may drop
  MaxInFlight,     \* bound: a job that nothing prompted sends only while fewer
                   \* datagrams than this are in flight
  OneJoinAtATime,  \* environment: a node starts only when the ring it joins has settled
  FastNetwork,     \* environment: SEND_TIMEOUT expires only if the exchange it
                   \* guards has no datagram left in flight
  SettledUse       \* bound: calls begin, and the finger job runs, only while the
                   \* ring is settled

ASSUME ConstantsAssumption ==
  /\ Node \subseteq Ident
  /\ Key \subseteq Ident
  /\ NULL \notin Node
  /\ JoinPoint \in [Node -> Node]
  /\ FingerSpans \in [Node -> SUBSET Span]
  /\ JOIN_TRIALS \in Nat \ {0}
  /\ MaxLoss \in Nat
  /\ MaxInFlight \in Nat
  /\ OneJoinAtATime \in BOOLEAN
  /\ FastNetwork \in BOOLEAN
  /\ SettledUse \in BOOLEAN

VARIABLES
  status,       \* ChordStatus::status state
  substate,     \* IN_NETWORK or STABILIZING
  successor,
  predecessor,
  timeoutCount, \* the local of join(), 0 when join() has succeeded
  sendTimers,   \* entries [term, msg]: the key of the map and the saved datagram
  telling,      \* hosts whose worker is about to notify the application
  notified,     \* hosts the application was told of (pushNotification)
  fingers,      \* the finger tables: first key to node, or NULL if absent
  successorResponseQueue,  \* responses parked for query(), as a set
  net,          \* datagrams in flight
  lost          \* how many datagrams Lose has dropped

nodeVars == <<status, substate, successor, predecessor, timeoutCount,
              sendTimers, telling, notified, fingers, successorResponseQueue>>
vars == <<nodeVars, net, lost>>

-----------------------------------------------------------------------------
(* Datagrams.  The address of a node also stands for its appPort.          *)

SuccessorQuery(type, to, term, sender) ==
  [type |-> type, to |-> to, searchTerm |-> term, sender |-> sender]
SuccessorResponse(type, to, term, responder) ==
  [type |-> type, to |-> to, searchTerm |-> term, responder |-> responder]
UpdatePredecessor(to, pred) ==
  [type |-> "UPDATE_PREDECESSOR", to |-> to, predecessor |-> pred]
UpdatePredecessorAck(to, id) ==
  [type |-> "UPDATE_PREDECESSOR_ACK", to |-> to, hashedId |-> id]
StabilizeRequest(to, sender) ==
  [type |-> "STABILIZE_REQUEST", to |-> to, sender |-> sender]
StabilizeResponse(to, pred) ==
  [type |-> "STABILIZE_RESPONSE", to |-> to, predecessor |-> pred]

Update == [type : {"UPDATE_PREDECESSOR"}, to : Node, predecessor : Node]

\* The three kinds of query for the successor of an identifier: of a host that
\* joins, of a key (sent in ChordQuery) and of the first key of a finger.
Lookups == {"JOIN_SUCCESSOR_QUERY", "SUCCESSOR_QUERY", "FINGER_QUERY"}
SearchTerm == Node \cup Key

FingerStarts(n) == {FingerStart(n, p) : p \in FingerSpans[n]}
FingerTerm == UNION {FingerStarts(n) : n \in Node}

ResponseTo(query) ==
  IF query = "FINGER_QUERY" THEN "FINGER_RESPONSE" ELSE "SUCCESSOR_RESPONSE"

\* A response answers the host that joins, or the search for a key or a finger.
Datagram ==
  {SuccessorQuery("JOIN_SUCCESSOR_QUERY", to, n, n) : to, n \in Node}
    \cup [type : {"SUCCESSOR_QUERY"}, to : Node, searchTerm : Key, sender : Node]
    \cup [type : {"FINGER_QUERY"}, to : Node, searchTerm : FingerTerm, sender : Node]
    \cup {SuccessorResponse("SUCCESSOR_RESPONSE", n, n, responder) : n, responder \in Node}
    \cup [type : {"SUCCESSOR_RESPONSE"}, to : Node, searchTerm : Key, responder : Node]
    \cup [type : {"FINGER_RESPONSE"}, to : Node, searchTerm : FingerTerm, responder : Node]
    \cup Update
    \cup [type : {"UPDATE_PREDECESSOR_ACK"}, to : Node, hashedId : Node]
    \cup [type : {"STABILIZE_REQUEST"}, to : Node, sender : Node]
    \cup [type : {"STABILIZE_RESPONSE"}, to : Node, predecessor : Node]

\* Nodes whose socket is bound.
Listening == {n \in Node : status[n] \in {"WAITING_TO_JOIN", "SERVICING"}}

\* What remains in flight when node n sends the datagrams ms.
Sent(n, ms) == net \cup {m \in ms : m.to \in Listening \ {n}}

\* The same when n has first received d.
Replied(n, d, ms) == (net \ {d}) \cup {m \in ms : m.to \in Listening \ {n}}

-----------------------------------------------------------------------------
(* Timing of the environment.  A quiet network has nothing in flight that  *)
(* could still change a pointer.                                           *)

JoinExchange(n) ==
  {m \in net : \/ m.type = "JOIN_SUCCESSOR_QUERY" /\ m.sender = n
               \/ m.type = "SUCCESSOR_RESPONSE" /\ m.to = n}

UpdateExchange(n) ==
  {m \in net : \/ m.type = "UPDATE_PREDECESSOR" /\ m.predecessor = n
               \/ m.type = "UPDATE_PREDECESSOR_ACK" /\ m.to = n}

StabilizeExchange(n) ==
  {m \in net : \/ m.type = "STABILIZE_REQUEST" /\ m.sender = n
               \/ m.type = "STABILIZE_RESPONSE" /\ m.to = n}

MayTimeOut(exchange) ==
  /\ FastNetwork => exchange = {}
  /\ Cardinality(net) < MaxInFlight

Members == {n \in Node : status[n] = "SERVICING"}

\* Both pointers of every member are those of the ring of all members.
Ideal(S) ==
  \A n \in S : /\ successor[n] = NextOn(S, n)
               /\ S # {n} => predecessor[n] = PreviousOn(S, n)

\* Nobody joins, and nothing in flight could still change a pointer: a lone
\* host would adopt a query of one that gave up joining, and a request that
\* went to an earlier successor is answered with another predecessor.
Settled ==
  /\ \A n \in Node : status[n] # "WAITING_TO_JOIN" /\ sendTimers[n] = {}
  /\ \A m \in net :
       /\ m.type # "UPDATE_PREDECESSOR"
       /\ m.type = "STABILIZE_REQUEST" => successor[m.sender] = m.to
       /\ m.type = "STABILIZE_RESPONSE" => m.predecessor = m.to
       /\ m.type \in Lookups => m.sender \in Members
  /\ Ideal(Members)

-----------------------------------------------------------------------------
(* start() and join(), before the worker thread exists.                    *)

Init ==
  /\ status = [n \in Node |-> "INITIALIZED"]
  /\ substate = [n \in Node |-> "IN_NETWORK"]
  /\ successor = [n \in Node |-> NULL]
  /\ predecessor = [n \in Node |-> NULL]
  /\ timeoutCount = [n \in Node |-> 0]
  /\ sendTimers = [n \in Node |-> {}]
  /\ telling = {}
  /\ notified = [n \in Node |-> {}]
  /\ fingers = [n \in Node |-> [s \in FingerTerm |-> NULL]]
  /\ successorResponseQueue = [n \in Node |-> {}]
  /\ net = {}
  /\ lost = 0

\* join() with no join point, or its own address: a ring of one.
CreateRing(n) ==
  /\ status[n] = "INITIALIZED"
  /\ JoinPoint[n] = n
  /\ successor' = [successor EXCEPT ![n] = n]
  /\ status' = [status EXCEPT ![n] = "SERVICING"]
  /\ UNCHANGED <<substate, predecessor, timeoutCount, sendTimers, telling,
                 notified, fingers, successorResponseQueue, net, lost>>

JoinQuery(n) == SuccessorQuery("JOIN_SUCCESSOR_QUERY", JoinPoint[n], n, n)

StartJoin(n) ==
  /\ status[n] = "INITIALIZED"
  /\ JoinPoint[n] # n
  /\ OneJoinAtATime => Settled /\ JoinPoint[n] \in Members
  /\ status' = [status EXCEPT ![n] = "WAITING_TO_JOIN"]
  /\ net' = Sent(n, {JoinQuery(n)})
  /\ UNCHANGED <<substate, successor, predecessor, timeoutCount, sendTimers,
                 telling, notified, fingers, successorResponseQueue, lost>>

OneTrialMore(n) == timeoutCount[n] = JOIN_TRIALS
OutOfTrials(n) == timeoutCount[n] + 1 = JOIN_TRIALS

\* receiveMessage(recvd, 1500) timed out: the next trial, or the join fails.
JoinTimeout(n) ==
  /\ status[n] = "WAITING_TO_JOIN"
  /\ MayTimeOut(JoinExchange(n))
  /\ timeoutCount' = [timeoutCount EXCEPT ![n] = @ + 1]
  /\ IF OutOfTrials(n)
     THEN /\ status' = [status EXCEPT ![n] = "SERVICE_FAILED"]
          /\ UNCHANGED net
     ELSE /\ net' = Sent(n, {JoinQuery(n)})
          /\ UNCHANGED status
  /\ UNCHANGED <<substate, successor, predecessor, sendTimers, telling,
                 notified, fingers, successorResponseQueue, lost>>

\* Any other message is dropped and the query sent again, uncounted.
JoinStray(n, m) ==
  /\ status[n] = "WAITING_TO_JOIN"
  /\ m.type # "SUCCESSOR_RESPONSE"
  /\ net' = Replied(n, m, {JoinQuery(n)})
  /\ UNCHANGED <<nodeVars, lost>>

\* pushSendTimer: an entry replaces the one with the same key.
PushSendTimer(n, term, m) ==
  {t \in sendTimers[n] : t.term # term} \cup {[term |-> term, msg |-> m]}

\* notifySuccessor is part of join(); it does nothing if the node was told
\* that it is its own successor.
JoinResponse(n, m) ==
  LET up == UpdatePredecessor(m.responder, n) IN
  /\ status[n] = "WAITING_TO_JOIN"
  /\ m.type = "SUCCESSOR_RESPONSE"
  /\ successor' = [successor EXCEPT ![n] = m.responder]
  /\ status' = [status EXCEPT ![n] = "SERVICING"]
  /\ timeoutCount' = [timeoutCount EXCEPT ![n] = 0]
  /\ IF m.responder = n
     THEN /\ net' = net \ {m}
          /\ UNCHANGED sendTimers
     ELSE /\ net' = Replied(n, m, {up})
          /\ sendTimers' = [sendTimers EXCEPT ![n] = PushSendTimer(n, n, up)]
  /\ UNCHANGED <<substate, predecessor, telling, notified, fingers,
                 successorResponseQueue, lost>>

-----------------------------------------------------------------------------
(* Periodic jobs of the worker thread.  When each is due is left open.     *)

WorkerFree(n) == status[n] = "SERVICING" /\ n \notin telling

ResendTimedOut(n, t) ==
  /\ WorkerFree(n)
  /\ t \in sendTimers[n]
  /\ MayTimeOut(UpdateExchange(n))
  /\ net' = Sent(n, {t.msg})
  /\ UNCHANGED <<nodeVars, lost>>

\* A node that is its own successor takes its predecessor, once it has one.
StabilizeAlone(n) ==
  /\ WorkerFree(n)
  /\ successor[n] = n
  /\ predecessor[n] # NULL
  /\ successor' = [successor EXCEPT ![n] = predecessor[n]]
  /\ UNCHANGED <<status, substate, predecessor, timeoutCount, sendTimers,
                 telling, notified, fingers, successorResponseQueue, net,
                 lost>>

StabilizeWithSuccessor(n) ==
  /\ WorkerFree(n)
  /\ successor[n] \notin {NULL, n}
  /\ MayTimeOut(StabilizeExchange(n))
  /\ substate' = [substate EXCEPT ![n] = "STABILIZING"]
  /\ net' = Sent(n, {StabilizeRequest(successor[n], n)})
  /\ UNCHANGED <<status, successor, predecessor, timeoutCount, sendTimers,
                 telling, notified, fingers, successorResponseQueue, lost>>

\* Fingers within reach of the successor are set to it; the successor is asked
\* for the others.
UpdateFingers(n) ==
  LET near == {s \in FingerStarts(n) : IsInSuccessor(s, n, successor[n])} IN
  /\ WorkerFree(n)
  /\ successor[n] # n
  /\ FingerSpans[n] # {}
  /\ SettledUse => Settled
  /\ Cardinality(net) < MaxInFlight
  /\ fingers' = [fingers EXCEPT ![n] =
       [s \in FingerTerm |-> IF s \in near THEN successor[n] ELSE @[s]]]
  /\ net' = Sent(n, {SuccessorQuery("FINGER_QUERY", successor[n], s, n) :
                       s \in FingerStarts(n) \ near})
  /\ UNCHANGED <<status, substate, successor, predecessor, timeoutCount,
                 sendTimers, telling, notified, successorResponseQueue, lost>>

-----------------------------------------------------------------------------
(* The cases of threadWorker.                                              *)

\* The id in the acknowledgement is that of the new predecessor.
AckNamesMyself(n, m) == n
AckId(n, m) == m.predecessor

HandleUpdatePredecessor(n, m) ==
  /\ m.type = "UPDATE_PREDECESSOR"
  /\ predecessor' = [predecessor EXCEPT ![n] = m.predecessor]
  /\ net' = Replied(n, m, {UpdatePredecessorAck(m.predecessor, AckId(n, m))})
  /\ telling' = telling \cup {n}
  /\ UNCHANGED <<status, substate, successor, timeoutCount, sendTimers,
                 notified, fingers, successorResponseQueue, lost>>

\* The rest of that case; the notification names the predecessor.
NotifyNobody(n) == notified[n]
Notify(n) == notified[n] \cup {predecessor[n]}

PushNotification(n) ==
  /\ n \in telling
  /\ telling' = telling \ {n}
  /\ notified' = [notified EXCEPT ![n] = Notify(n)]
  /\ UNCHANGED <<status, substate, successor, predecessor, timeoutCount,
                 sendTimers, fingers, successorResponseQueue, net, lost>>

\* An acknowledgement that names another node is ignored.
HandleUpdatePredecessorAck(n, m) ==
  /\ m.type = "UPDATE_PREDECESSOR_ACK"
  /\ net' = net \ {m}
  /\ sendTimers' = [sendTimers EXCEPT
       ![n] = IF m.hashedId = n THEN {t \in @ : t.term # m.hashedId} ELSE @]
  /\ UNCHANGED <<status, substate, successor, predecessor, timeoutCount,
                 telling, notified, fingers, successorResponseQueue, lost>>

\* Only a node without a predecessor takes the one who asks.
TakeWhoeverAsks(n, m) == m.sender
PredecessorAfterRequest(n, m) ==
  IF predecessor[n] = NULL THEN m.sender ELSE predecessor[n]

HandleStabilizeRequest(n, m) ==
  /\ m.type = "STABILIZE_REQUEST"
  /\ predecessor' = [predecessor EXCEPT ![n] = PredecessorAfterRequest(n, m)]
  /\ net' = Replied(n, m, {StabilizeResponse(m.sender, PredecessorAfterRequest(n, m))})
  /\ UNCHANGED <<status, substate, successor, timeoutCount, sendTimers,
                 telling, notified, fingers, successorResponseQueue, lost>>

\* The predecessor of my successor becomes my successor, unless it is me.
TakeEvenMyself(n, m) == m.predecessor
SuccessorAfterResponse(n, m) ==
  IF m.predecessor = n THEN successor[n] ELSE m.predecessor

HandleStabilizeResponse(n, m) ==
  /\ m.type = "STABILIZE_RESPONSE"
  /\ net' = net \ {m}
  /\ IF substate[n] = "STABILIZING"
     THEN /\ successor' = [successor EXCEPT ![n] = SuccessorAfterResponse(n, m)]
          /\ substate' = [substate EXCEPT ![n] = "IN_NETWORK"]
     ELSE UNCHANGED <<successor, substate>>
  /\ UNCHANGED <<status, predecessor, timeoutCount, sendTimers, telling,
                 notified, fingers, successorResponseQueue, lost>>

PushSuccessorResponse(n, term, responder) ==
  successorResponseQueue' = [successorResponseQueue EXCEPT
    ![n] = @ \cup {[searchTerm |-> term, responder |-> responder]}]

SetFinger(n, term, host) == fingers' = [fingers EXCEPT ![n][term] = host]

\* A query that comes back to the node that sent it.  (None for a finger does:
\* it goes to another host, which does not pass it on.)
QueryLoopedBack(n, m) ==
  /\ m.type \in Lookups
  /\ m.sender = n
  /\ IF m.type = "FINGER_QUERY"
     THEN /\ SetFinger(n, m.searchTerm, n)
          /\ UNCHANGED successorResponseQueue
     ELSE /\ PushSuccessorResponse(n, m.searchTerm, n)
          /\ UNCHANGED fingers
  /\ net' = net \ {m}
  /\ UNCHANGED <<status, substate, successor, predecessor, timeoutCount,
                 sendTimers, telling, notified, lost>>

Answer(m, host) == SuccessorResponse(ResponseTo(m.type), m.sender, m.searchTerm, host)

AdoptsAskerOnBothSides(n, m) ==
  /\ m.type \in Lookups
  /\ m.sender # n
  /\ successor[n] = n
  /\ successor' = [successor EXCEPT ![n] = m.sender]
  /\ predecessor' = [predecessor EXCEPT ![n] = m.sender]
  /\ net' = Replied(n, m, {Answer(m, n)})
  /\ UNCHANGED <<status, substate, timeoutCount, sendTimers, telling,
                 notified, fingers, successorResponseQueue, lost>>

\* A node that is alone answers with itself and adopts the asker as successor.
AnswerAlone(n, m) ==
  /\ m.type \in Lookups
  /\ m.sender # n
  /\ successor[n] = n
  /\ successor' = [successor EXCEPT ![n] = m.sender]
  /\ net' = Replied(n, m, {Answer(m, n)})
  /\ UNCHANGED <<status, substate, predecessor, timeoutCount, sendTimers,
                 telling, notified, fingers, successorResponseQueue, lost>>

AnswersItself(n) == n
Responder(n) == successor[n]

AnswerWithSuccessor(n, m) ==
  /\ m.type \in Lookups
  /\ m.sender # n
  /\ successor[n] # n
  /\ IsInSuccessor(m.searchTerm, n, successor[n])
  /\ net' = Replied(n, m, {Answer(m, Responder(n))})
  /\ UNCHANGED <<nodeVars, lost>>

Unanswered(n, m) ==
  /\ m.type \in Lookups
  /\ m.sender # n
  /\ successor[n] # n
  /\ ~ IsInSuccessor(m.searchTerm, n, successor[n])

\* A join query goes along the successors, the query for a key by the fingers.
NextHops(n, m) ==
  IF m.type = "JOIN_SUCCESSOR_QUERY"
  THEN {successor[n]}
  ELSE GetSuccessorOf(fingers[n], successor[n], m.searchTerm)

ForwardQuery(n, m) ==
  /\ Unanswered(n, m)
  /\ m.type # "FINGER_QUERY"
  /\ \E to \in NextHops(n, m) : net' = Replied(n, m, {[m EXCEPT !.to = to]})
  /\ UNCHANGED <<nodeVars, lost>>

\* The query for a finger is not passed on.
DropFingerQuery(n, m) ==
  /\ Unanswered(n, m)
  /\ m.type = "FINGER_QUERY"
  /\ net' = net \ {m}
  /\ UNCHANGED <<nodeVars, lost>>

HandleFingerResponse(n, m) ==
  /\ m.type = "FINGER_RESPONSE"
  /\ SetFinger(n, m.searchTerm, m.responder)
  /\ net' = net \ {m}
  /\ UNCHANGED <<status, substate, successor, predecessor, timeoutCount,
                 sendTimers, telling, notified, successorResponseQueue, lost>>

\* A response that arrives after join() is over waits for query().
HandleSuccessorResponse(n, m) ==
  /\ m.type = "SUCCESSOR_RESPONSE"
  /\ PushSuccessorResponse(n, m.searchTerm, m.responder)
  /\ net' = net \ {m}
  /\ UNCHANGED <<status, substate, successor, predecessor, timeoutCount,
                 sendTimers, telling, notified, fingers, lost>>

WorkerReceives(n, m) ==
  /\ WorkerFree(n)
  /\ \/ HandleUpdatePredecessor(n, m)
     \/ HandleUpdatePredecessorAck(n, m)
     \/ HandleStabilizeRequest(n, m)
     \/ HandleStabilizeResponse(n, m)
     \/ QueryLoopedBack(n, m)
     \/ AnswerAlone(n, m)
     \/ AnswerWithSuccessor(n, m)
     \/ ForwardQuery(n, m)
     \/ DropFingerQuery(n, m)
     \/ HandleFingerResponse(n, m)
     \/ HandleSuccessorResponse(n, m)

-----------------------------------------------------------------------------
Receive(m) ==
  \/ JoinStray(m.to, m)
  \/ JoinResponse(m.to, m)
  \/ WorkerReceives(m.to, m)

Start(n) == CreateRing(n) \/ StartJoin(n)

Stabilize(n) == StabilizeAlone(n) \/ StabilizeWithSuccessor(n)

Resend(n) == \E t \in sendTimers[n] : ResendTimedOut(n, t)

\* The network drops a datagram.
Lose(m) ==
  /\ lost < MaxLoss
  /\ lost' = lost + 1
  /\ net' = net \ {m}
  /\ UNCHANGED nodeVars

Next ==
  \/ \E n \in Node : \/ Start(n) \/ JoinTimeout(n)
                     \/ Stabilize(n) \/ Resend(n) \/ UpdateFingers(n)
                     \/ PushNotification(n)
  \/ \E m \in net : Receive(m) \/ Lose(m)

Spec == Init /\ [][Next]_vars

\* The operator starts every node; a worker keeps looping (its receive has a
\* zero timeout), so each job that the ring needs recurs (of the finger job
\* nothing is assumed) and each datagram that stays in flight is received.
\* The last is said in terms of states, which TLC evaluates faster: a host that
\* listens reads its socket again and again, in whatever it does in between.
Fairness ==
  /\ \A n \in Node : /\ WF_vars(Start(n))
                     /\ WF_vars(JoinTimeout(n))
                     /\ WF_vars(Stabilize(n))
                     /\ WF_vars(Resend(n))
                     /\ WF_vars(PushNotification(n))
  /\ \A m \in Datagram : []<>(m \notin net \/ m.to \notin Listening)

FairSpec == Spec /\ Fairness

-----------------------------------------------------------------------------
TypeOK ==
  /\ status \in [Node -> {"INITIALIZED", "WAITING_TO_JOIN", "SERVICING",
                          "SERVICE_FAILED"}]
  /\ substate \in [Node -> {"IN_NETWORK", "STABILIZING"}]
  /\ successor \in [Node -> Node \cup {NULL}]
  /\ predecessor \in [Node -> Node \cup {NULL}]
  /\ timeoutCount \in [Node -> 0 .. JOIN_TRIALS]
  /\ sendTimers \in [Node -> SUBSET [term : Ident, msg : Update]]
  /\ telling \in SUBSET Node
  /\ notified \in [Node -> SUBSET Node]
  /\ fingers \in [Node -> [FingerTerm -> Node \cup {NULL}]]
  /\ successorResponseQueue \in
       [Node -> SUBSET [searchTerm : SearchTerm, responder : Node]]
  /\ net \in SUBSET Datagram
  /\ lost \in 0 .. MaxLoss

\* A node's predecessor is another node, and one that has finished joining:
\* it is taken from the address in an UPDATE_PREDECESSOR or a
\* STABILIZE_REQUEST, however late that datagram arrives.
PredecessorHasJoined ==
  \A n \in Node :
    predecessor[n] # NULL => predecessor[n] # n /\ predecessor[n] \in Members

\* A node that has another node as successor never falls back to itself or to
\* none, and one that has a predecessor never loses it, whatever answers
\* arrive late: the ring cannot let go of a member it has contact with.
ContactNeverLost ==
  [][\A n \in Node :
       /\ successor[n] \notin {NULL, n} => successor'[n] \notin {NULL, n}
       /\ predecessor[n] # NULL => predecessor'[n] # NULL]_vars

\* The application of `to' was told of n, or is told of it by the next thing
\* its worker does, whatever else was on its way to predecessor meanwhile.
Heard(n, to) == n \in notified[to] \/ (to \in telling /\ predecessor[to] = n)

\* A node stops resending UPDATE_PREDECESSOR only when the very host it sends
\* it to has told its application of the newcomer or stands before the call
\* that does.  The acknowledgement, which stops the resending, is sent before
\* pushNotification; every late or repeated one must still mean a notification
\* that names this newcomer and no other.
SilentOnlyWhenHeard ==
  [][\A n \in Node : \A t \in sendTimers[n] \ sendTimers'[n] :
       Heard(n, t.msg.to)]_vars

\* A settled ring stays settled until another host starts: stabilize() goes on
\* asking and answering, and requests sent before the last join, lookups and
\* their answers are still handled, but none of them changes a pointer.
SettledStays == [][Settled /\ status' = status => Settled']_vars

\* Where the successor pointers keep a walk that starts there: the members of a
\* cycle, with any number of others that lead to it.
Closed(A) == A # {} /\ \A n \in A : successor[n] \in A

\* The successor pointers never form two separate rings (each would be
\* unaware of the other for ever): two cycles would be two disjoint closed
\* sets of members.
AtMostOneRing ==
  \A A, B \in SUBSET Members : Closed(A) /\ Closed(B) => A \cap B # {}

\* Every node joins, and stabilize() brings both pointers of every node to
\* those of the ring of all nodes, where they stay.
Converges == <>[](Members = Node /\ Ideal(Node))

\* If every node does join, then the nodes arrange themselves in their ring.
RingForms == <>[](Members = Node) => <>[]Ideal(Node)
=============================================================================
