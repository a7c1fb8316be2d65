------------------------------- MODULE ChordMap -------------------------------
(***************************************************************************)
(* getChordMap(): a query goes round the successors with a sequence number *)
(* that each host raises, each host sends its address and number to the    *)
(* one that asked, and when the query is back that one lists the answers.  *)
(*                                                                         *)
(* A new host appears in two steps, as in ChordRing: it has a successor as *)
(* soon as join() returns, and the ring passes through it only when its    *)
(* predecessor has taken it as successor.  Every host has a successor, so  *)
(* the "deadend" answers with number 0 have no action.                     *)
(*                                                                         *)
(* The network is that of ChordRing.  Nothing here is ever resent.         *)
(***************************************************************************)
EXTENDS RingArith, Sequences, SequencesExt

CONSTANTS
  Node,          \* hashedIds of the hosts
  Founders,      \* the members of the ring to begin with
  NULL,          \* no host; no map
  MaxCalls,      \* bound: how many calls are made
  MaxLoss,       \* bound: how many datagrams are lost
  MaxHops        \* bound: how often a query is passed on

VARIABLES
  members,       \* the hosts the ring passes through
  newcomer,      \* a host that has joined but that nobody points to, or NULL
  state,         \* ChordStatus::status state
  chordMapResponseQueue,
  shown,         \* what the last call returned: NULL, or numbers to hosts
  net,           \* datagrams in flight
  calls, lost,   \* counted for the bounds
  undisturbed    \* observed: the ring is as it was when everything that n still
                 \* waits for or may receive was sent

vars == <<members, newcomer, state, chordMapResponseQueue, shown, net, calls,
          lost, undisturbed>>

ChordMapQuery(to, seq, sender) ==
  [type |-> "CHORD_MAP_QUERY", to |-> to, seq |-> seq, sender |-> sender]
ChordMapResponse(to, seq, responder) ==
  [type |-> "CHORD_MAP_RESPONSE", to |-> to, seq |-> seq, responder |-> responder]

Datagram ==
  [type : {"CHORD_MAP_QUERY"}, to : Node, seq : 1 .. MaxHops + 1, sender : Node]
    \cup {m \in [type : {"CHORD_MAP_RESPONSE"}, to : Node, seq : 2 .. MaxHops + 1,
                 responder : Node] : m.responder # m.to}

Present == members \cup ({newcomer} \ {NULL})

successor == [n \in Present |-> NextOn(members, n)]

\* What a node addresses to itself vanishes (descriptor 0).
Deliverable(n, ms) == {m \in ms : m.to # n}

\* A call runs at n, or an answer to an earlier one is still on its way.
Outstanding(n) ==
  \/ state[n] # "SERVICING"
  \/ \E m \in net : m.type = "CHORD_MAP_RESPONSE" /\ m.to = n

Init ==
  /\ members = Founders
  /\ newcomer = NULL
  /\ state = [n \in Node |-> "SERVICING"]
  /\ chordMapResponseQueue = [n \in Node |-> <<>>]
  /\ shown = [n \in Node |-> NULL]
  /\ net = {}
  /\ calls = 0
  /\ lost = 0
  /\ undisturbed = [n \in Node |-> TRUE]

-----------------------------------------------------------------------------
(* getChordMap(), in the thread of the application.                        *)

\* In a ring of one there is no map: the call fails and changes nothing.
StartMap(n) ==
  /\ n \in Present
  /\ state[n] = "SERVICING"
  /\ successor[n] # n
  /\ calls < MaxCalls
  /\ calls' = calls + 1
  /\ state' = [state EXCEPT ![n] = "MAPPING_CHORD"]
  /\ net' = net \cup {ChordMapQuery(successor[n], 1, n)}
  /\ shown' = [shown EXCEPT ![n] = NULL]
  /\ undisturbed' = [undisturbed EXCEPT ![n] = @ \/ ~ Outstanding(n)]
  /\ UNCHANGED <<members, newcomer, chordMapResponseQueue, lost>>

\* Of two answers with the same number the later one stays.
Collected(n) ==
  LET queue == chordMapResponseQueue[n]
      last(k) == CHOOSE i \in DOMAIN queue :
                   queue[i].seq = k /\ \A j \in DOMAIN queue : queue[j].seq = k => j <= i
  IN [k \in {1} \cup {queue[i].seq : i \in DOMAIN queue} |->
        IF \E i \in DOMAIN queue : queue[i].seq = k
        THEN queue[last(k)].responder ELSE n]

\* The worker adds nothing to the queue from the time the mapping is complete,
\* so taking all its elements is one step.
ReturnMap(n) ==
  /\ state[n] = "MAPPING_COMPLETED"
  /\ shown' = [shown EXCEPT ![n] = Collected(n)]
  /\ chordMapResponseQueue' = [chordMapResponseQueue EXCEPT ![n] = <<>>]
  /\ state' = [state EXCEPT ![n] = "SERVICING"]
  /\ UNCHANGED <<members, newcomer, net, calls, lost, undisturbed>>

-----------------------------------------------------------------------------
(* The cases of threadWorker.                                              *)

QueryBack(n, m) ==
  /\ m.type = "CHORD_MAP_QUERY"
  /\ m.sender = n
  /\ net' = net \ {m}
  /\ state' = [state EXCEPT
       ![n] = IF @ = "MAPPING_CHORD" THEN "MAPPING_COMPLETED" ELSE @]
  /\ UNCHANGED <<members, newcomer, chordMapResponseQueue, shown, calls, lost,
                 undisturbed>>

\* The number the next host sees; and where the query goes next.
NeverRaised(seq) == seq
RaisedTwice(seq) == seq + 2
Raised(seq) == seq + 1

NotBackToSender(n, m) == {successor[n]} \ {m.sender}
NextHosts(n, m) == {successor[n]}

AnswerQuery(n, m) ==
  /\ m.type = "CHORD_MAP_QUERY"
  /\ m.sender # n
  /\ m.seq <= MaxHops
  /\ net' = (net \ {m})
       \cup {ChordMapResponse(m.sender, m.seq + 1, n)}
       \cup Deliverable(n, {ChordMapQuery(to, Raised(m.seq), m.sender) :
                              to \in NextHosts(n, m)})
  /\ UNCHANGED <<members, newcomer, state, chordMapResponseQueue, shown, calls,
                 lost, undisturbed>>

KeepsTheLast(queue, r) == <<r>>
PushChordMapResponse(queue, r) == Append(queue, r)

\* A host that is not mapping, or no longer, drops the answer.
TakeResponse(n, m) ==
  /\ m.type = "CHORD_MAP_RESPONSE"
  /\ net' = net \ {m}
  /\ chordMapResponseQueue' = [chordMapResponseQueue EXCEPT
       ![n] = IF state[n] = "MAPPING_CHORD"
              THEN PushChordMapResponse(@, [seq |-> m.seq, responder |-> m.responder])
              ELSE @]
  /\ UNCHANGED <<members, newcomer, state, shown, calls, lost, undisturbed>>

Receive(m) ==
  QueryBack(m.to, m) \/ AnswerQuery(m.to, m) \/ TakeResponse(m.to, m)

-----------------------------------------------------------------------------
Lose(m) ==
  /\ lost < MaxLoss
  /\ lost' = lost + 1
  /\ net' = net \ {m}
  /\ UNCHANGED <<members, newcomer, state, chordMapResponseQueue, shown, calls,
                 undisturbed>>

\* A host joins the ring, and later the ring passes through it.
Join(n) ==
  /\ newcomer = NULL
  /\ n \notin members
  /\ newcomer' = n
  /\ UNCHANGED <<members, state, chordMapResponseQueue, shown, net, calls, lost,
                 undisturbed>>

Settle ==
  /\ newcomer # NULL
  /\ members' = members \cup {newcomer}
  /\ newcomer' = NULL
  /\ undisturbed' = [n \in Node |-> ~ Outstanding(n)]
  /\ UNCHANGED <<state, chordMapResponseQueue, shown, net, calls, lost>>

Next ==
  \/ \E n \in Node : StartMap(n) \/ ReturnMap(n) \/ Join(n)
  \/ \E m \in net : Receive(m) \/ Lose(m)
  \/ Settle

Spec == Init /\ [][Next]_vars

-----------------------------------------------------------------------------
TypeOK ==
  /\ members \in SUBSET Node
  /\ newcomer \in (Node \ members) \cup {NULL}
  /\ state \in [Node -> {"SERVICING", "MAPPING_CHORD", "MAPPING_COMPLETED"}]
  /\ chordMapResponseQueue \in
       [Node -> Seq([seq : 2 .. MaxHops + 1, responder : Node])]
  /\ \A n \in Node : shown[n] # NULL =>
       shown[n] \in [DOMAIN shown[n] -> Node] /\ DOMAIN shown[n] \subseteq 1 .. MaxHops + 1
  /\ net \in SUBSET Datagram
  /\ calls \in 0 .. MaxCalls
  /\ lost \in 0 .. MaxLoss
  /\ undisturbed \in [Node -> BOOLEAN]

\* The place of the host m in the ring, counted from n.
Place(n, m) == Cardinality(UpTo(members \cup {n}, n, m))

\* If no host joined meanwhile, the map a call returns lists hosts by their
\* places in the ring, although answers to an earlier call may be among those
\* it collects (nothing tells the two apart) and answers overtake one another.
MapIsRight ==
  [][\A n \in Node :
       shown[n] = NULL /\ shown'[n] # NULL /\ undisturbed[n] =>
         \A k \in DOMAIN shown'[n] :
           shown'[n][k] \in members /\ Place(n, shown'[n][k]) = k]_vars

\* A map is incomplete only because of a lost datagram or of answers that the
\* query overtook: when the query is back, the answer of every other member is
\* in the queue or still on its way, unless one was lost.
MapIsWhole ==
  [][\A n \in Node :
       state[n] = "MAPPING_CHORD" /\ state'[n] # "MAPPING_CHORD" /\ undisturbed[n] =>
         LET queued == {r.seq : r \in Range(chordMapResponseQueue[n])}
             coming == {m.seq : m \in {d \in net : d.type = "CHORD_MAP_RESPONSE" /\ d.to = n}}
         IN Cardinality((2 .. Cardinality(members)) \ (queued \cup coming)) <= lost]_vars

\* A host that the ring passes through gets its map, if nothing is lost.
MapReturns ==
  \A n \in Node :
    state[n] # "SERVICING" ~>
      \/ state[n] = "SERVICING"
      \/ lost > 0
      \/ n = newcomer
      \/ \E m \in net : m.type = "CHORD_MAP_QUERY" /\ m.seq > MaxHops
=============================================================================
