---------------------------- MODULE ChordLookup ----------------------------
(***************************************************************************)
(* Lookups in a ring whose pointers are ideal: query() in the thread of    *)
(* the application, the finger table that the worker thread fills, and the *)
(* cases of threadWorker for lookups and fingers.                          *)
(*                                                                         *)
(* The successor of a node is NextOn(members, n): how the pointers get     *)
(* there is the subject of ChordRing.  The cases of the handlers for a     *)
(* node without another successor, and for a finger query that comes back  *)
(* to its sender, need a ring that is not ideal and have no action here.   *)
(*                                                                         *)
(* The network is that of ChordRing: datagrams in flight form a set,       *)
(* arrive in any order and may be lost, and what a node addresses to       *)
(* itself vanishes (descriptor 0).                                         *)
(***************************************************************************)
EXTENDS FingerTable, Sequences

CONSTANTS
  Node,          \* hashedIds of the hosts
  Founders,      \* the members of the ring to begin with
  Key,           \* hashes of the keys that are looked up
  UseFingers,    \* has the finger job begun to run?
  CallsTimeOut,  \* do callers pass query() a timeout?
  GrowDrained,   \* environment: nodes join only while no response is parked
  MaxCalls,      \* bound: how many calls are made
  MaxLoss,       \* bound: how many datagrams are lost
  MaxParked      \* bound: responses parked at a node that resends

ASSUME ConstantsAssumption ==
  /\ Node \subseteq Ident
  /\ Founders \in (SUBSET Node) \ {{}}
  /\ Key \subseteq Ident
  /\ NULL \notin Ident
  /\ UseFingers \in BOOLEAN /\ CallsTimeOut \in BOOLEAN /\ GrowDrained \in BOOLEAN
  /\ MaxCalls \in Nat /\ MaxLoss \in Nat /\ MaxParked \in Nat

VARIABLES
  members,      \* the ring, which the pointers of its members form
  call,         \* the key of the query() that runs at a node, or NULL
  waiting,      \* nodes whose query() has sent its message
  answer,       \* what the last query() returned: NULL, or the key and host
  sendTimers,   \* entries [term, msg]: the key of the map and the saved datagram
  successorResponseQueue,
  fingers,      \* the finger table: first key to node, or NULL if absent
  net,          \* datagrams in flight
  calls, lost   \* counted for the bounds

callVars == <<call, waiting, answer, sendTimers, calls>>
vars == <<members, callVars, successorResponseQueue, fingers, net, lost>>

Datagram ==
  [type : {"SUCCESSOR_QUERY", "FINGER_QUERY"}, to : Node, searchTerm : Ident,
   sender : Node]
    \cup [type : {"SUCCESSOR_RESPONSE", "FINGER_RESPONSE"}, to : Node,
          searchTerm : Ident, responder : Node]

Query(type, to, term, sender) ==
  [type |-> type, to |-> to, searchTerm |-> term, sender |-> sender]
Response(type, to, term, responder) ==
  [type |-> type, to |-> to, searchTerm |-> term, responder |-> responder]

successor == [n \in members |-> NextOn(members, n)]

Deliverable(n, ms) == {m \in ms : m.to # n}

Init ==
  /\ members = Founders
  /\ call = [n \in Node |-> NULL]
  /\ waiting = {}
  /\ answer = [n \in Node |-> NULL]
  /\ sendTimers = [n \in Node |-> {}]
  /\ successorResponseQueue = [n \in Node |-> <<>>]
  /\ fingers = [n \in Node |-> [s \in Ident |-> NULL]]
  /\ net = {}
  /\ calls = 0
  /\ lost = 0

-----------------------------------------------------------------------------
(* query(), called by the one command line thread of each node.            *)

Ask(n) ==
  /\ n \in members
  /\ call[n] = NULL
  /\ calls < MaxCalls
  /\ calls' = calls + 1
  /\ \E k \in Key : call' = [call EXCEPT ![n] = k]
  /\ answer' = [answer EXCEPT ![n] = NULL]
  /\ UNCHANGED <<members, waiting, sendTimers, successorResponseQueue, fingers,
                 net, lost>>

Return(n, host) ==
  /\ call' = [call EXCEPT ![n] = NULL]
  /\ answer' = [answer EXCEPT ![n] = [key |-> call[n], host |-> host]]

\* A node that is alone is responsible itself; otherwise its successor may be.
AnswerAtOnce(n) ==
  /\ call[n] # NULL
  /\ n \notin waiting
  /\ successor[n] = n \/ IsInSuccessor(call[n], n, successor[n])
  /\ Return(n, successor[n])
  /\ UNCHANGED <<members, waiting, sendTimers, successorResponseQueue, fingers,
                 net, calls, lost>>

\* pushSendTimer: an entry replaces the one with the same key.
PushesNothing(n, q) == sendTimers[n]
PushSendTimer(n, q) ==
  {t \in sendTimers[n] : t.term # q.searchTerm} \cup {[term |-> q.searchTerm, msg |-> q]}

SendQuery(n) ==
  /\ call[n] # NULL
  /\ n \notin waiting
  /\ successor[n] # n
  /\ ~ IsInSuccessor(call[n], n, successor[n])
  /\ \E to \in GetSuccessorOf(fingers[n], successor[n], call[n]) :
       LET q == Query("SUCCESSOR_QUERY", to, call[n], n) IN
       /\ net' = net \cup Deliverable(n, {q})
       /\ sendTimers' = [sendTimers EXCEPT ![n] = PushSendTimer(n, q)]
  /\ waiting' = waiting \cup {n}
  /\ UNCHANGED <<members, call, answer, calls, successorResponseQueue, fingers, lost>>

LeavesTimer(n) == sendTimers[n]
UnsetSendTimer(n) == {t \in sendTimers[n] : t.term # call[n]}

\* A response to another lookup is dropped.
TakesAny(n, sr) == TRUE
IsForMe(n, sr) == sr.searchTerm = call[n]

PopResponse(n) ==
  /\ n \in waiting
  /\ successorResponseQueue[n] # <<>>
  /\ successorResponseQueue' = [successorResponseQueue EXCEPT ![n] = Tail(@)]
  /\ LET sr == Head(successorResponseQueue[n]) IN
     IF IsForMe(n, sr)
     THEN /\ Return(n, sr.responder)
          /\ waiting' = waiting \ {n}
          /\ sendTimers' = [sendTimers EXCEPT ![n] = UnsetSendTimer(n)]
     ELSE UNCHANGED <<call, answer, waiting, sendTimers>>
  /\ UNCHANGED <<members, calls, fingers, net, lost>>

GiveUp(n) ==
  /\ CallsTimeOut
  /\ n \in waiting
  /\ call' = [call EXCEPT ![n] = NULL]
  /\ waiting' = waiting \ {n}
  /\ sendTimers' = [sendTimers EXCEPT ![n] = UnsetSendTimer(n)]
  /\ UNCHANGED <<members, answer, calls, successorResponseQueue, fingers, net, lost>>

-----------------------------------------------------------------------------
(* Periodic jobs of the worker thread.                                     *)

ResendTimedOut(n) ==
  /\ Len(successorResponseQueue[n]) < MaxParked
  /\ \E t \in sendTimers[n] : net' = net \cup Deliverable(n, {t.msg})
  /\ UNCHANGED <<members, callVars, successorResponseQueue, fingers, lost>>

\* Fingers within reach of the successor are set, the others asked for.
UpdateFingers(n) ==
  /\ UseFingers
  /\ n \in members
  /\ successor[n] # n
  /\ LET starts == {FingerStart(n, p) : p \in Span}
         mine == {s \in starts : IsInSuccessor(s, n, successor[n])}
     IN /\ fingers' = [fingers EXCEPT
             ![n] = [s \in Ident |-> IF s \in mine THEN successor[n] ELSE @[s]]]
        /\ net' = net \cup
             {Query("FINGER_QUERY", successor[n], s, n) : s \in starts \ mine}
  /\ UNCHANGED <<members, callVars, successorResponseQueue, lost>>

-----------------------------------------------------------------------------
(* The cases of threadWorker; the handled datagram leaves the network.     *)

Park(n, term, responder) ==
  successorResponseQueue' = [successorResponseQueue EXCEPT
    ![n] = Append(@, [searchTerm |-> term, responder |-> responder])]

\* A lookup that comes back to the node that sent it: it answers itself.
QueryLoopedBack(n, m) ==
  /\ m.type = "SUCCESSOR_QUERY"
  /\ m.sender = n
  /\ Park(n, m.searchTerm, n)
  /\ net' = net \ {m}
  /\ UNCHANGED <<members, callVars, fingers, lost>>

AnswersItself(n) == n
NamesNobody(n) == NULL
Responder(n) == successor[n]

AnswerWithSuccessor(n, m) ==
  /\ m.type \in {"SUCCESSOR_QUERY", "FINGER_QUERY"}
  /\ m.sender # n
  /\ IsInSuccessor(m.searchTerm, n, successor[n])
  /\ LET type == IF m.type = "FINGER_QUERY" THEN "FINGER_RESPONSE"
                 ELSE "SUCCESSOR_RESPONSE"
     IN net' = (net \ {m}) \cup {Response(type, m.sender, m.searchTerm, Responder(n))}
  /\ UNCHANGED <<members, callVars, successorResponseQueue, fingers, lost>>

\* A lookup is passed on, a finger query the node cannot answer is dropped.
ForwardQuery(n, m) ==
  /\ m.type \in {"SUCCESSOR_QUERY", "FINGER_QUERY"}
  /\ m.sender # n
  /\ ~ IsInSuccessor(m.searchTerm, n, successor[n])
  /\ IF m.type = "FINGER_QUERY"
     THEN net' = net \ {m}
     ELSE \E to \in GetSuccessorOf(fingers[n], successor[n], m.searchTerm) :
            net' = (net \ {m}) \cup Deliverable(n, {[m EXCEPT !.to = to]})
  /\ UNCHANGED <<members, callVars, successorResponseQueue, fingers, lost>>

HandleSuccessorResponse(n, m) ==
  /\ m.type = "SUCCESSOR_RESPONSE"
  /\ Park(n, m.searchTerm, m.responder)
  /\ net' = net \ {m}
  /\ UNCHANGED <<members, callVars, fingers, lost>>

HandleFingerResponse(n, m) ==
  /\ m.type = "FINGER_RESPONSE"
  /\ fingers' = [fingers EXCEPT ![n][m.searchTerm] = m.responder]
  /\ net' = net \ {m}
  /\ UNCHANGED <<members, callVars, successorResponseQueue, lost>>

Receive(m) ==
  \/ QueryLoopedBack(m.to, m)
  \/ AnswerWithSuccessor(m.to, m)
  \/ ForwardQuery(m.to, m)
  \/ HandleSuccessorResponse(m.to, m)
  \/ HandleFingerResponse(m.to, m)

-----------------------------------------------------------------------------
Lose(m) ==
  /\ lost < MaxLoss
  /\ lost' = lost + 1
  /\ net' = net \ {m}
  /\ UNCHANGED <<members, callVars, successorResponseQueue, fingers>>

\* A node joins and the ring settles, while nobody looks anything up.
Grow(n) ==
  /\ n \notin members
  /\ net = {}
  /\ call = [i \in Node |-> NULL]
  /\ GrowDrained => successorResponseQueue = [i \in Node |-> <<>>]
  /\ members' = members \cup {n}
  /\ UNCHANGED <<callVars, successorResponseQueue, fingers, net, lost>>

QueryReturns(n) == AnswerAtOnce(n) \/ SendQuery(n) \/ PopResponse(n)

Next ==
  \/ \E n \in Node : \/ Ask(n) \/ QueryReturns(n) \/ GiveUp(n)
                     \/ ResendTimedOut(n) \/ UpdateFingers(n) \/ Grow(n)
  \/ \E m \in net : Receive(m) \/ Lose(m)

Spec == Init /\ [][Next]_vars

\* The datagrams of lookups.
OfLookups == {m \in Datagram : /\ m.type \in {"SUCCESSOR_QUERY", "SUCCESSOR_RESPONSE"}
                              /\ m.searchTerm \in Key}

\* Threads keep running, so query() looks at its queue again and again, a
\* message that is due is resent, and each datagram still in flight received.
Fairness ==
  /\ \A n \in Node : WF_vars(QueryReturns(n)) /\ WF_vars(ResendTimedOut(n))
  /\ \A m \in OfLookups : WF_vars(m \in net /\ Receive(m))

FairSpec == Spec /\ Fairness

-----------------------------------------------------------------------------
TypeOK ==
  /\ members \in SUBSET Node
  /\ call \in [Node -> Key \cup {NULL}]
  /\ waiting \in SUBSET {n \in Node : call[n] # NULL}
  /\ answer \in [Node -> [key : Key, host : Node] \cup {NULL}]
  /\ sendTimers \in
       [Node -> SUBSET [term : Key, msg : {m \in Datagram : m.type = "SUCCESSOR_QUERY"}]]
  /\ successorResponseQueue \in [Node -> Seq([searchTerm : Key, responder : Node])]
  /\ fingers \in [Node -> [Ident -> Node \cup {NULL}]]
  /\ net \in SUBSET Datagram
  /\ calls \in 0 .. MaxCalls
  /\ lost \in 0 .. MaxLoss

\* A lookup is resent exactly while the query() that sent it waits: no timer
\* outlives its call, whether that returns or times out, and none is missing.
ResendsWhileWaiting ==
  \A n \in Node :
    {t.term : t \in sendTimers[n]} = {call[i] : i \in waiting \cap {n}}

\* "the required lookup API will return the node responsible for the key (the
\* successor of key)": each query() that returns a host returns that one,
\* through forwarding, loss, resending and late responses.
Service == INSTANCE LookupService
AnswersAreRight == Service!Spec

\* A query() without a timeout returns, although datagrams are lost.
EveryCallReturns == \A n \in Node : call[n] # NULL ~> call[n] = NULL

\* The nodes responsible for a key in the ring as it is, or as it may have been
\* before some of its members joined.
OwnersSoFar(key) ==
  {Owner(M, key) : M \in {S \in SUBSET members : Founders \subseteq S}}

\* Each entry of a finger table names the node that is responsible for the
\* first key of the finger or, as a node that joins clears no entry, was so
\* before; also where the start is further round than the circle's end.
FingersAreRight ==
  \A n \in Node : \A s \in Entries(fingers[n]) : fingers[n][s] \in OwnersSoFar(s)

\* With fingers, complete or not, stale or not, a lookup may answer wrongly in
\* one way only: the node asked takes itself to be responsible, because its
\* query came back.
OwnerOrAsker ==
  \A n \in Node : answer[n] # NULL =>
    answer[n].host \in {n} \cup OwnersSoFar(answer[n].key)
=============================================================================
