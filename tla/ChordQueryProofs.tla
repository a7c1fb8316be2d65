-------------------------- MODULE ChordQueryProofs --------------------------
(***************************************************************************)
(* Lookups do not disturb ring maintenance: the invariant of ChordRing and *)
(* what it forbids a step to do hold with any number of lookups between    *)
(* and during joins, and the command line thread keeps its own order.      *)
(***************************************************************************)
EXTENDS ChordQuery, ChordRingProofs, RingArithProofs

\* Only a member makes calls, and always for a key.
CallersAreMembers ==
  \A n \in Node : at[n] # "ready" => status[n] = "SERVICING" /\ key[n] \in Key

SavedAreQueries ==
  \A n \in Node : at[n] = "waiting" =>
    queryTimer[n].type = "SUCCESSOR_QUERY" /\ queryTimer[n].sender = n

QueryInv ==
  /\ Inv
  /\ QueryTypeOK
  /\ CallersAreMembers
  /\ SavedAreQueries

-----------------------------------------------------------------------------
(* What ring maintenance leaves alone.                                     *)

\* A member stays one.
LEMMA MembersStay ==
  ASSUME Inv, Next
  PROVE  \A a \in Node : status[a] = "SERVICING" => status'[a] = "SERVICING"
  <1>1. ASSUME NEW n \in Node, \/ Start(n) \/ JoinTimeout(n) \/ Stabilize(n) \/ Resend(n)
                              \/ UpdateFingers(n) \/ PushNotification(n)
        PROVE  \A a \in Node : status[a] = "SERVICING" => status'[a] = "SERVICING"
    BY <1>1 DEF Inv, TypeOK, Start, CreateRing, StartJoin, JoinTimeout, Stabilize,
                StabilizeAlone, StabilizeWithSuccessor, Resend, ResendTimedOut,
                UpdateFingers, PushNotification, nodeVars
  <1>2. ASSUME NEW m \in net, Receive(m)
        PROVE  \A a \in Node : status[a] = "SERVICING" => status'[a] = "SERVICING"
    <2>1. JoinResponse(m.to, m) \/ UNCHANGED status
      BY <1>2 DEF Receive, WorkerReceives, JoinStray, HandleUpdatePredecessor,
                  HandleUpdatePredecessorAck, HandleStabilizeRequest,
                  HandleStabilizeResponse, QueryLoopedBack, AnswerAlone,
                  AnswerWithSuccessor, ForwardQuery, DropFingerQuery,
                  HandleFingerResponse, HandleSuccessorResponse, nodeVars
    <2> QED
      BY <2>1 DEF JoinResponse, Inv, TypeOK
  <1>3. ASSUME NEW m \in net, Lose(m)
        PROVE  UNCHANGED status
    BY <1>3 DEF Lose, nodeVars
  <1> QED
    BY <1>1, <1>2, <1>3 DEF Next

-----------------------------------------------------------------------------
(* The actions, one lemma each: it preserves the invariant.                *)

LEMMA QueryInitInv == QueryInit => QueryInv
  <1> SUFFICES ASSUME QueryInit
               PROVE  QueryInv
    OBVIOUS
  <1>1. Inv
    BY InitInv DEF QueryInit
  <1>2. QueryTypeOK /\ CallersAreMembers /\ SavedAreQueries
    BY QueryAssumption DEF QueryInit, QueryTypeOK, CallersAreMembers, SavedAreQueries
  <1> QED
    BY <1>1, <1>2 DEF QueryInv

LEMMA RingStepInv ==
  ASSUME QueryInv, RingStep
  PROVE  QueryInv'
  <1>1. Inv'
    BY StepInv DEF QueryInv, RingStep
  <1>2. UNCHANGED <<at, key, answer, queryTimer, calls>>
    BY DEF RingStep, Apart, callVars
  <1>3. calm' \in [Node -> BOOLEAN]
    BY DEF QueryInv, QueryTypeOK, RingStep, Apart
  <1>4. QueryTypeOK'
    BY <1>2, <1>3 DEF QueryInv, QueryTypeOK
  <1>5. CallersAreMembers'
    BY <1>2, MembersStay DEF QueryInv, CallersAreMembers, RingStep
  <1>6. SavedAreQueries'
    BY <1>2 DEF QueryInv, SavedAreQueries
  <1> QED
    BY <1>1, <1>4, <1>5, <1>6 DEF QueryInv

LEMMA AskInv ==
  ASSUME QueryInv, NEW n \in Node, Ask(n)
  PROVE  QueryInv'
  <1> PICK k \in Key : AskAlone(n, k) \/ AskNear(n, k) \/ AskFar(n, k)
    BY DEF Ask
  <1>1. /\ status[n] = "SERVICING" /\ at[n] = "ready" /\ calls < MaxTrouble
        /\ calls' = calls + 1
        /\ key' = [key EXCEPT ![n] = k]
        /\ calm' = [calm EXCEPT ![n] = Settled /\ NothingLeft(n, k)]
        /\ UNCHANGED <<vars, queryTimer>>
    <2>1. Call(n, k) /\ lost \in Nat
      BY ConstantsAssumption DEF AskAlone, AskNear, AskFar, QueryInv, Inv, TypeOK
    <2>2. calls < MaxTrouble
      BY <2>1, QueryAssumption DEF Call, QueryInv, QueryTypeOK
    <2> QED
      BY <2>1, <2>2 DEF Call
  <1>2. /\ \E c \in {"returned", "copying", "sending"} : at' = [at EXCEPT ![n] = c]
        /\ answer' \in [Node -> Node \cup {NULL}]
    BY DEF AskAlone, AskNear, AskFar, Return, QueryInv, QueryTypeOK
  <1>3. Inv'
    BY <1>1, StutterInv DEF QueryInv
  <1>4. calls' \in 0 .. MaxTrouble
    BY <1>1, QueryAssumption DEF QueryInv, QueryTypeOK
  <1>5. (Settled /\ NothingLeft(n, k)) \in BOOLEAN
    BY DEF Settled
  <1>6. QueryTypeOK'
    BY <1>1, <1>2, <1>4, <1>5 DEF QueryInv, QueryTypeOK
  <1>7. CallersAreMembers'
    BY <1>1, <1>2 DEF QueryInv, QueryTypeOK, CallersAreMembers, vars, nodeVars
  <1>8. SavedAreQueries'
    BY <1>1, <1>2 DEF QueryInv, QueryTypeOK, SavedAreQueries
  <1> QED
    BY <1>3, <1>6, <1>7, <1>8 DEF QueryInv

LEMMA CopySuccessorInv ==
  ASSUME QueryInv, NEW n \in Node, CopySuccessor(n)
  PROVE  QueryInv'
  <1> USE DEF CopySuccessor, Return
  <1>1. Inv'
    BY StutterInv DEF QueryInv
  <1>2. successor[n] \in Node \cup {NULL}
    BY DEF QueryInv, Inv, TypeOK
  <1>3. QueryTypeOK'
    BY <1>2 DEF QueryInv, QueryTypeOK
  <1>4. CallersAreMembers' /\ SavedAreQueries'
    BY DEF QueryInv, QueryTypeOK, CallersAreMembers, SavedAreQueries, vars, nodeVars
  <1> QED
    BY <1>1, <1>3, <1>4 DEF QueryInv

\* A query in flight is as harmless as any other.
LEMMA SendQueryInv ==
  ASSUME QueryInv, NEW n \in Node, SendQuery(n)
  PROVE  QueryInv'
  <1> PICK to \in GetSuccessorOf(fingers[n], successor[n], key[n]) :
         LET q == SuccessorQuery("SUCCESSOR_QUERY", to, key[n], n) IN
         /\ net' = Sent(n, {q})
         /\ queryTimer' = [queryTimer EXCEPT ![n] = PushQueryTimer(q)]
    BY DEF SendQuery
  <1> DEFINE q == SuccessorQuery("SUCCESSOR_QUERY", to, key[n], n)
  <1>1. to \in Node /\ key[n] \in Key
    <2>1. successor[n] \in Node /\ key[n] \in Key
      BY DEF SendQuery, QueryInv, CallersAreMembers, Inv, TypeOK, MembersHaveSuccessor
    <2> QED
      BY <2>1, HopsAreHosts DEF QueryInv
  <1>2. /\ q \in Datagram /\ q.type = "SUCCESSOR_QUERY" /\ q.searchTerm = key[n]
        /\ q.type \in Harmless /\ q.sender = n
    BY <1>1, KeyQueryBuilt DEF SuccessorQuery, Harmless, Lookups
  <1>3. /\ net' \subseteq net \cup {q}
        /\ at[n] = "sending" /\ at' = [at EXCEPT ![n] = "waiting"]
        /\ queryTimer' = [queryTimer EXCEPT ![n] = q]
        /\ UNCHANGED <<nodeVars, lost, key, answer, calls, calm>>
    BY DEF SendQuery, Sent, PushQueryTimer
  <1> HIDE DEF q
  <1>4. TypeOK'
    BY <1>2, <1>3 DEF QueryInv, Inv, TypeOK, nodeVars
  <1>5. Inv'
    BY <1>2, <1>3, <1>4, HarmlessStep DEF QueryInv, nodeVars
  <1>6. QueryTypeOK'
    BY <1>2, <1>3 DEF QueryInv, QueryTypeOK
  <1>7. CallersAreMembers' /\ SavedAreQueries'
    BY <1>2, <1>3 DEF QueryInv, QueryTypeOK, CallersAreMembers, SavedAreQueries, nodeVars
  <1> QED
    BY <1>5, <1>6, <1>7 DEF QueryInv

LEMMA PopResponseInv ==
  ASSUME QueryInv, NEW n \in Node, NEW sr \in successorResponseQueue[n], PopResponse(n, sr)
  PROVE  QueryInv'
  <1>1. sr.responder \in Node
    BY DEF QueryInv, Inv, TypeOK
  <1>2. /\ at[n] = "waiting"
        /\ \/ /\ at' = [at EXCEPT ![n] = "returned"]
              /\ answer' = [answer EXCEPT ![n] = sr.responder]
              /\ queryTimer' = [queryTimer EXCEPT ![n] = NULL]
           \/ UNCHANGED <<at, answer, queryTimer>>
        /\ UNCHANGED <<status, substate, successor, predecessor, timeoutCount,
                       sendTimers, telling, notified, fingers, net, lost,
                       key, calls, calm>>
    BY DEF PopResponse, Return, UnsetQueryTimer
  <1>3. TypeOK'
    BY <1>2 DEF PopResponse, QueryInv, Inv, TypeOK
  <1>4. Inv'
    BY <1>2, <1>3, HarmlessStep DEF QueryInv
  <1>5. QueryTypeOK'
    BY <1>1, <1>2 DEF QueryInv, QueryTypeOK
  <1>6. CallersAreMembers' /\ SavedAreQueries'
    BY <1>2 DEF QueryInv, QueryTypeOK, CallersAreMembers, SavedAreQueries
  <1> QED
    BY <1>4, <1>5, <1>6 DEF QueryInv

LEMMA ShowInv ==
  ASSUME QueryInv, NEW n \in Node, Show(n)
  PROVE  QueryInv'
  <1>1. Inv'
    BY StutterInv DEF QueryInv, Show
  <1>2. QueryTypeOK'
    BY DEF Show, QueryInv, QueryTypeOK
  <1>3. CallersAreMembers' /\ SavedAreQueries'
    BY DEF Show, QueryInv, QueryTypeOK, CallersAreMembers, SavedAreQueries, vars, nodeVars
  <1> QED
    BY <1>1, <1>2, <1>3 DEF QueryInv

LEMMA ResendQueryInv ==
  ASSUME QueryInv, NEW n \in Node, ResendQuery(n)
  PROVE  QueryInv'
  <1> DEFINE q == queryTimer[n]
  <1>1. q \in Datagram /\ q.type = "SUCCESSOR_QUERY"
    BY DEF ResendQuery, QueryInv, QueryTypeOK, SavedAreQueries
  <1>2. net' \subseteq net \cup {q} /\ UNCHANGED <<nodeVars, lost, callVars, calm>>
    BY DEF ResendQuery, Sent
  <1> HIDE DEF q
  <1>3. TypeOK'
    BY <1>1, <1>2 DEF QueryInv, Inv, TypeOK, nodeVars
  <1>4. Inv'
    BY <1>1, <1>2, <1>3, HarmlessStep DEF QueryInv, nodeVars, Harmless, Lookups
  <1>5. QueryTypeOK' /\ CallersAreMembers' /\ SavedAreQueries'
    BY <1>2 DEF QueryInv, QueryTypeOK, CallersAreMembers, SavedAreQueries, callVars, nodeVars
  <1> QED
    BY <1>4, <1>5 DEF QueryInv

LEMMA QueryStutterInv ==
  ASSUME QueryInv, UNCHANGED queryVars
  PROVE  QueryInv'
  <1>1. UNCHANGED vars /\ UNCHANGED callVars /\ UNCHANGED calm
    BY DEF queryVars
  <1>2. Inv'
    BY <1>1, StutterInv DEF QueryInv
  <1>3. QueryTypeOK' /\ CallersAreMembers' /\ SavedAreQueries'
    BY <1>1 DEF QueryInv, QueryTypeOK, CallersAreMembers, SavedAreQueries, callVars, vars, nodeVars
  <1> QED
    BY <1>2, <1>3 DEF QueryInv

-----------------------------------------------------------------------------
(* The specification.                                                      *)

LEMMA QueryStepInv == QueryInv /\ [QueryNext]_queryVars => QueryInv'
  <1> SUFFICES ASSUME QueryInv, [QueryNext]_queryVars
               PROVE  QueryInv'
    OBVIOUS
  <1>1. CASE RingStep
    BY <1>1, RingStepInv
  <1>2. ASSUME NEW n \in Node, Ask(n)
        PROVE  QueryInv'
    BY <1>2, AskInv
  <1>3. ASSUME NEW n \in Node, QueryGoesOn(n)
        PROVE  QueryInv'
    BY <1>3, CopySuccessorInv, SendQueryInv, PopResponseInv DEF QueryGoesOn
  <1>4. ASSUME NEW n \in Node, Show(n)
        PROVE  QueryInv'
    BY <1>4, ShowInv
  <1>5. ASSUME NEW n \in Node, ResendQuery(n)
        PROVE  QueryInv'
    BY <1>5, ResendQueryInv
  <1>6. CASE UNCHANGED queryVars
    BY <1>6, QueryStutterInv
  <1> QED
    BY <1>1, <1>2, <1>3, <1>4, <1>5, <1>6 DEF QueryNext

\* The inductive invariant of ring maintenance and lookups together.
THEOREM QueryInvariance == QuerySpec => []QueryInv
  BY QueryInitInv, QueryStepInv, PTL DEF QuerySpec

\* A query is saved for resending exactly while its call waits, and asks for
\* the key of that call.
THEOREM QueryTypeCorrect == QuerySpec => []QueryTypeOK
  <1>1. QueryInv => QueryTypeOK
    BY DEF QueryInv
  <1> QED
    BY <1>1, QueryInvariance, PTL

\* Lookups do not make a host take one for its predecessor that has not joined.
THEOREM QueryPredecessor == QuerySpec => [](TypeOK /\ PredecessorHasJoined)
  <1>1. QueryInv => TypeOK /\ PredecessorHasJoined
    BY DEF QueryInv, Inv
  <1> QED
    BY <1>1, QueryInvariance, PTL

-----------------------------------------------------------------------------
(* What a step may never do.                                               *)

\* Outside of ring maintenance no pointer and no timer of it is assigned.
LEMMA CallsTouchNoPointer ==
  ASSUME QueryInv, [QueryNext]_queryVars, ~ RingStep
  PROVE  UNCHANGED <<successor, predecessor, sendTimers>>
  <1>1. ASSUME NEW n \in Node, Ask(n)
        PROVE  UNCHANGED vars
    BY <1>1 DEF Ask, AskAlone, AskNear, AskFar, Call
  <1>2. ASSUME NEW n \in Node, QueryGoesOn(n)
        PROVE  UNCHANGED <<successor, predecessor, sendTimers>>
    BY <1>2 DEF QueryGoesOn, CopySuccessor, SendQuery, PopResponse, vars, nodeVars
  <1>3. ASSUME NEW n \in Node, Show(n) \/ ResendQuery(n)
        PROVE  UNCHANGED <<successor, predecessor, sendTimers>>
    BY <1>3 DEF Show, ResendQuery, vars, nodeVars
  <1>4. CASE UNCHANGED queryVars
    BY <1>4 DEF queryVars, vars, nodeVars
  <1> QED
    BY <1>1, <1>2, <1>3, <1>4 DEF QueryNext, vars, nodeVars

\* A host that a lookup reaches never lets go of its contact with another,
\* though a lone one adopts whoever asks.
THEOREM QueryContactKept == QuerySpec => ContactNeverLost
  <1>1. QueryInv /\ [QueryNext]_queryVars => [KeepsContact]_vars
    <2> SUFFICES ASSUME QueryInv, [QueryNext]_queryVars
                 PROVE  KeepsContact
      OBVIOUS
    <2>1. CASE RingStep
      BY <2>1, ContactStep DEF QueryInv, RingStep
    <2>2. CASE ~ RingStep
      BY <2>2, CallsTouchNoPointer DEF KeepsContact
    <2> QED
      BY <2>1, <2>2
  <1>2. QuerySpec => [][KeepsContact]_vars
    BY <1>1, QueryInvariance, PTL DEF QuerySpec
  <1> QED
    BY <1>2 DEF ContactNeverLost, KeepsContact

\* Nor does a lookup stop the resending of UPDATE_PREDECESSOR before the host it
\* goes to has told its application, or stands before the call that tells it.
THEOREM QueryResendUntilHeard == QuerySpec => SilentOnlyWhenHeard
  <1>1. QueryInv /\ [QueryNext]_queryVars => [KeepsTimers]_vars
    <2> SUFFICES ASSUME QueryInv, [QueryNext]_queryVars
                 PROVE  KeepsTimers
      OBVIOUS
    <2>1. CASE RingStep
      BY <2>1, TimerStep DEF QueryInv, RingStep
    <2>2. CASE ~ RingStep
      BY <2>2, CallsTouchNoPointer DEF KeepsTimers
    <2> QED
      BY <2>1, <2>2
  <1>2. QuerySpec => [][KeepsTimers]_vars
    BY <1>1, QueryInvariance, PTL DEF QuerySpec
  <1> QED
    BY <1>2 DEF SilentOnlyWhenHeard, KeepsTimers

-----------------------------------------------------------------------------
(* Joins one at a time, on a network that is faster than SEND_TIMEOUT: the *)
(* order in which a host and its successor exchange datagrams.             *)

\* A STABILIZE_REQUEST in flight went to the host that is still successor,
RequestsFollowSuccessor ==
  \A m \in net : m.type = "STABILIZE_REQUEST" => successor[m.sender] = m.to

\* because no answer to an earlier one is in flight with it.
NoRequestWithResponse ==
  \A m, d \in net :
    m.type = "STABILIZE_REQUEST" /\ d.type = "STABILIZE_RESPONSE" => m.sender # d.to

ResponsesNameMembers ==
  \A m \in net : m.type = "STABILIZE_RESPONSE" => status[m.predecessor] = "SERVICING"

\* Whoever asks for a successor, or is answered, has not given up joining.
Known == {"WAITING_TO_JOIN", "SERVICING"}

AskersAreKnown ==
  \A m \in net :
    /\ m.type = "JOIN_SUCCESSOR_QUERY" => status[m.sender] \in Known
    /\ m.type \in {"SUCCESSOR_QUERY", "FINGER_QUERY"} => status[m.sender] = "SERVICING"
    /\ m.type = "SUCCESSOR_RESPONSE" => status[m.to] \in Known

Orderly ==
  /\ RequestsFollowSuccessor
  /\ NoRequestWithResponse
  /\ ResponsesNameMembers
  /\ AskersAreKnown

\* None of the datagrams of stabilize(), and not from or to a host unknown.
InOrder(q) ==
  /\ q.type \notin {"STABILIZE_REQUEST", "STABILIZE_RESPONSE"}
  /\ q.type = "JOIN_SUCCESSOR_QUERY" => status'[q.sender] \in Known
  /\ q.type \in {"SUCCESSOR_QUERY", "FINGER_QUERY"} => status'[q.sender] = "SERVICING"
  /\ q.type = "SUCCESSOR_RESPONSE" => status'[q.to] \in Known

\* A step that sends only such datagrams.
LEMMA OrderlyStep ==
  ASSUME Inv, Orderly, \A q \in net' \ net : InOrder(q),
         \A a \in Node : status[a] = "SERVICING" =>
           status'[a] = "SERVICING" /\ (successor'[a] = successor[a] \/ successor[a] = a),
         \A a \in Node : status[a] \in Known => status'[a] \in Known \/ JoinExchange(a) = {}
  PROVE  Orderly'
  <1>1. net \in SUBSET Datagram
    BY DEF Inv, TypeOK
  <1>2. RequestsFollowSuccessor'
    BY <1>1, DatagramFields
       DEF InOrder, Orderly, RequestsFollowSuccessor, Inv, RequestsNameMembers
  <1>3. NoRequestWithResponse'
    BY DEF InOrder, Orderly, NoRequestWithResponse
  <1>4. ResponsesNameMembers'
    BY <1>1, DatagramFields DEF InOrder, Orderly, ResponsesNameMembers
  <1>5. AskersAreKnown'
    <2> SUFFICES ASSUME NEW m \in net
                 PROVE  /\ m.type = "JOIN_SUCCESSOR_QUERY" => status'[m.sender] \in Known
                        /\ m.type \in {"SUCCESSOR_QUERY", "FINGER_QUERY"} =>
                             status'[m.sender] = "SERVICING"
                        /\ m.type = "SUCCESSOR_RESPONSE" => status'[m.to] \in Known
      BY DEF AskersAreKnown, InOrder
    <2>1. m.to \in Node /\ (m.type \in Lookups => m.sender \in Node)
      BY <1>1, DatagramFields
    <2>2. m.type = "JOIN_SUCCESSOR_QUERY" => m \in JoinExchange(m.sender)
      BY DEF JoinExchange
    <2>3. m.type = "SUCCESSOR_RESPONSE" => m \in JoinExchange(m.to)
      BY DEF JoinExchange
    <2> QED
      BY <2>1, <2>2, <2>3 DEF Orderly, AskersAreKnown, Lookups
  <1> QED
    BY <1>2, <1>3, <1>4, <1>5 DEF Orderly

\* An answer goes to the host that asked.
LEMMA AnswerFields ==
  ASSUME NEW m, NEW host
  PROVE  /\ Answer(m, host).type = ResponseTo(m.type)
         /\ Answer(m, host).type \in {"SUCCESSOR_RESPONSE", "FINGER_RESPONSE"}
         /\ Answer(m, host).to = m.sender
         /\ Answer(m, host).searchTerm = m.searchTerm
         /\ Answer(m, host).responder = host
  BY DEF Answer, ResponseTo, SuccessorResponse

\* What a host that joins sends first is its own query.
LEMMA JoinQueryFields ==
  ASSUME NEW n \in Node
  PROVE  JoinQuery(n).type = "JOIN_SUCCESSOR_QUERY" /\ JoinQuery(n).sender = n
  BY DEF JoinQuery, SuccessorQuery

\* The finger job sends only queries of its own host.
LEMMA FingerQueriesSent ==
  ASSUME NEW n \in Node, UpdateFingers(n)
  PROVE  \A q \in net' \ net : q.type = "FINGER_QUERY" /\ q.sender = n
  <1> SUFFICES ASSUME NEW q \in net' \ net
               PROVE  q.type = "FINGER_QUERY" /\ q.sender = n
    OBVIOUS
  <1>1. PICK k : q = SuccessorQuery("FINGER_QUERY", successor[n], k, n)
    BY DEF UpdateFingers, Sent
  <1> QED
    BY <1>1 DEF SuccessorQuery

LEMMA OrderlyBeforeWorker ==
  ASSUME Inv, Orderly, FastNetwork, NEW n \in Node, Start(n) \/ JoinTimeout(n)
  PROVE  Orderly'
  <1> DEFINE q == JoinQuery(n)
  <1>1. q.type = "JOIN_SUCCESSOR_QUERY" /\ q.sender = n
    BY JoinQueryFields
  <1> HIDE DEF q
  <1> USE DEF InOrder
  <1>2. CASE CreateRing(n)
    <2>1. net' = net
      BY <1>2 DEF CreateRing
    <2>2. /\ status' = [status EXCEPT ![n] = "SERVICING"]
          /\ \A a \in Node \ {n} : successor'[a] = successor[a]
          /\ status[n] = "INITIALIZED"
      BY <1>2 DEF CreateRing, Inv, TypeOK
    <2> QED
      BY <2>1, <2>2, OrderlyStep DEF Inv, TypeOK, Known
  <1>3. CASE StartJoin(n)
    <2>1. net' \subseteq net \cup {q}
      BY <1>3 DEF StartJoin, Sent, q
    <2>2. status' = [status EXCEPT ![n] = "WAITING_TO_JOIN"] /\ UNCHANGED successor
          /\ status[n] = "INITIALIZED"
      BY <1>3 DEF StartJoin
    <2> QED
      BY <1>1, <2>1, <2>2, OrderlyStep DEF Inv, TypeOK, Known
  <1>4. CASE JoinTimeout(n) /\ OutOfTrials(n)
    <2>1. net' = net
      BY <1>4 DEF JoinTimeout
    <2>2. status' = [status EXCEPT ![n] = "SERVICE_FAILED"] /\ UNCHANGED successor
          /\ status[n] = "WAITING_TO_JOIN" /\ JoinExchange(n) = {}
      BY <1>4 DEF JoinTimeout, MayTimeOut
    <2> QED
      BY <2>1, <2>2, OrderlyStep DEF Inv, TypeOK, Known
  <1>5. CASE JoinTimeout(n) /\ ~ OutOfTrials(n)
    <2>1. net' \subseteq net \cup {q} /\ UNCHANGED <<status, successor>>
          /\ status[n] = "WAITING_TO_JOIN"
      BY <1>5 DEF JoinTimeout, Sent, q
    <2> QED
      BY <1>1, <2>1, OrderlyStep DEF Inv, TypeOK, Known
  <1> QED
    BY <1>2, <1>3, <1>4, <1>5 DEF Start

LEMMA OrderlyJobs ==
  ASSUME Inv, Orderly, FastNetwork, NEW n \in Node,
         Stabilize(n) \/ Resend(n) \/ UpdateFingers(n) \/ PushNotification(n)
  PROVE  Orderly'
  <1> USE DEF InOrder
  <1>1. CASE StabilizeAlone(n)
    <2>1. net' = net
      BY <1>1 DEF StabilizeAlone
    <2>2. /\ UNCHANGED status
          /\ \A a \in Node \ {n} : successor'[a] = successor[a]
          /\ successor[n] = n
      BY <1>1 DEF StabilizeAlone, Inv, TypeOK
    <2> QED
      BY <2>1, <2>2, OrderlyStep DEF Inv, TypeOK, Known
  <1>2. CASE Resend(n)
    <2> PICK t \in sendTimers[n] : ResendTimedOut(n, t)
      BY <1>2 DEF Resend
    <2>1. t.msg.type = "UPDATE_PREDECESSOR"
      BY DEF Inv, TypeOK, Update
    <2>2. net' \subseteq net \cup {t.msg} /\ UNCHANGED <<status, successor>>
      BY DEF ResendTimedOut, Sent, nodeVars
    <2> QED
      BY <2>1, <2>2, OrderlyStep DEF Inv, TypeOK, Known
  <1>3. CASE StabilizeWithSuccessor(n)
    <2> DEFINE q == StabilizeRequest(successor[n], n)
    <2>1. q.type = "STABILIZE_REQUEST" /\ q.to = successor[n] /\ q.sender = n
      BY DEF StabilizeRequest
    <2>2. /\ net' \subseteq net \cup {q}
          /\ UNCHANGED <<status, successor>>
          /\ StabilizeExchange(n) = {}
      BY <1>3 DEF StabilizeWithSuccessor, Sent, MayTimeOut
    <2> HIDE DEF q
    <2>3. \A d \in net : d.type = "STABILIZE_RESPONSE" => d.to # n
      BY <2>2 DEF StabilizeExchange
    <2>4. RequestsFollowSuccessor' /\ NoRequestWithResponse'
      BY <2>1, <2>2, <2>3 DEF Orderly, RequestsFollowSuccessor, NoRequestWithResponse
    <2>5. ResponsesNameMembers' /\ AskersAreKnown'
      BY <2>1, <2>2 DEF Orderly, ResponsesNameMembers, AskersAreKnown
    <2> QED
      BY <2>4, <2>5 DEF Orderly
  <1>4. CASE UpdateFingers(n)
    <2>1. \A q \in net' \ net : q.type = "FINGER_QUERY" /\ q.sender = n
      BY <1>4, FingerQueriesSent
    <2>2. UNCHANGED <<status, successor>> /\ status[n] = "SERVICING"
      BY <1>4 DEF UpdateFingers, WorkerFree
    <2> QED
      BY <2>1, <2>2, OrderlyStep DEF Inv, TypeOK, Known
  <1>5. CASE PushNotification(n)
    <2>1. UNCHANGED <<net, status, successor>>
      BY <1>5 DEF PushNotification
    <2> QED
      BY <2>1, OrderlyStep
  <1> QED
    BY <1>1, <1>2, <1>3, <1>4, <1>5 DEF Stabilize

LEMMA OrderlyStabilize ==
  ASSUME Inv, Orderly, FastNetwork, NEW n \in Node, NEW m \in net, m.to = n,
         status[n] = "SERVICING",
         HandleStabilizeRequest(n, m) \/ HandleStabilizeResponse(n, m)
  PROVE  Orderly'
  <1>1. CASE HandleStabilizeRequest(n, m)
    <2> DEFINE p == PredecessorAfterRequest(n, m)
               q == StabilizeResponse(m.sender, p)
    <2>1. /\ m.type = "STABILIZE_REQUEST" /\ m.sender \in Node
          /\ status[m.sender] = "SERVICING" /\ successor[m.sender] = n
      BY <1>1, DatagramFields
         DEF HandleStabilizeRequest, Inv, TypeOK, RequestsNameMembers, Orderly,
             RequestsFollowSuccessor
    <2>2. status[p] = "SERVICING"
      BY <2>1 DEF PredecessorAfterRequest, Inv, PredecessorHasJoined, Members
    <2>3. q.type = "STABILIZE_RESPONSE" /\ q.to = m.sender /\ q.predecessor = p
      BY DEF StabilizeResponse
    <2>4. /\ net' \subseteq (net \ {m}) \cup {q}
          /\ UNCHANGED <<status, successor>>
      BY <1>1 DEF HandleStabilizeRequest, Replied
    <2> HIDE DEF p, q
    <2>5. \A d \in net : d.type = "STABILIZE_REQUEST" /\ d.sender = m.sender => d = m
      <3>1. \A d \in net : d.type = "STABILIZE_REQUEST" =>
              d = [type |-> "STABILIZE_REQUEST", to |-> d.to, sender |-> d.sender]
        BY DEF Inv, TypeOK, Datagram, Update, SuccessorQuery, SuccessorResponse
      <3> QED
        BY <2>1, <3>1 DEF Orderly, RequestsFollowSuccessor
    <2>6. RequestsFollowSuccessor' /\ ResponsesNameMembers' /\ AskersAreKnown'
      BY <2>2, <2>3, <2>4
         DEF Orderly, RequestsFollowSuccessor, ResponsesNameMembers, AskersAreKnown
    <2>7. NoRequestWithResponse'
      BY <2>3, <2>4, <2>5 DEF Orderly, NoRequestWithResponse
    <2> QED
      BY <2>6, <2>7 DEF Orderly
  <1>2. CASE HandleStabilizeResponse(n, m)
    <2>1. /\ net' \subseteq net
          /\ UNCHANGED status
          /\ \A a \in Node \ {n} : successor'[a] = successor[a]
          /\ m.type = "STABILIZE_RESPONSE"
      BY <1>2 DEF HandleStabilizeResponse, Inv, TypeOK
    <2>2. \A d \in net : d.type = "STABILIZE_REQUEST" => d.sender \in Node \ {n}
      BY <2>1, DatagramFields DEF Orderly, NoRequestWithResponse, Inv, TypeOK
    <2>3. RequestsFollowSuccessor'
      BY <2>1, <2>2 DEF Orderly, RequestsFollowSuccessor
    <2>4. NoRequestWithResponse' /\ ResponsesNameMembers' /\ AskersAreKnown'
      BY <2>1 DEF Orderly, NoRequestWithResponse, ResponsesNameMembers, AskersAreKnown
    <2> QED
      BY <2>3, <2>4 DEF Orderly
  <1> QED
    BY <1>1, <1>2

LEMMA OrderlyReceive ==
  ASSUME Inv, Orderly, FastNetwork, NEW m \in net, Receive(m)
  PROVE  Orderly'
  <1> DEFINE n == m.to
             q == JoinQuery(n)
             up == UpdatePredecessor(m.responder, n)
             ack == UpdatePredecessorAck(m.predecessor, AckId(n, m))
  <1> USE DEF InOrder
  <1>1. m \in Datagram /\ n \in Node
    BY DatagramFields DEF Inv, TypeOK
  <1>2. /\ q.type = "JOIN_SUCCESSOR_QUERY" /\ q.sender = n
        /\ up.type = "UPDATE_PREDECESSOR"
        /\ ack.type = "UPDATE_PREDECESSOR_ACK"
    BY <1>1, JoinQueryFields DEF UpdatePredecessor, UpdatePredecessorAck
  <1>3. CASE JoinStray(n, m)
    <2>1. net' \subseteq net \cup {q} /\ UNCHANGED <<status, successor>>
          /\ status[n] = "WAITING_TO_JOIN"
      BY <1>3 DEF JoinStray, Replied, nodeVars
    <2> HIDE DEF n, q, up, ack
    <2> QED
      BY <1>2, <2>1, OrderlyStep DEF Inv, TypeOK, Known
  <1>4. CASE JoinResponse(n, m)
    <2>1. /\ net' \subseteq net \cup {up}
          /\ status' = [status EXCEPT ![n] = "SERVICING"]
          /\ status[n] = "WAITING_TO_JOIN"
          /\ \A a \in Node \ {n} : successor'[a] = successor[a]
      BY <1>4 DEF JoinResponse, Replied, Inv, TypeOK
    <2> HIDE DEF n, q, up, ack
    <2> QED
      BY <1>1, <1>2, <2>1, OrderlyStep DEF Inv, TypeOK, Known
  <1>5. CASE status[n] = "SERVICING" /\ HandleUpdatePredecessor(n, m)
    <2>1. net' \subseteq net \cup {ack} /\ UNCHANGED <<status, successor>>
      BY <1>5 DEF HandleUpdatePredecessor, Replied
    <2> HIDE DEF n, q, up, ack
    <2> QED
      BY <1>2, <2>1, OrderlyStep DEF Inv, TypeOK, Known
  <1>6. CASE /\ status[n] = "SERVICING"
             /\ HandleStabilizeRequest(n, m) \/ HandleStabilizeResponse(n, m)
    BY <1>1, <1>6, OrderlyStabilize
  <1>7. CASE status[n] = "SERVICING" /\ AnswerAlone(n, m)
    <2> DEFINE r == Answer(m, n)
    <2>1. /\ net' \subseteq net \cup {r}
          /\ UNCHANGED status
          /\ \A a \in Node \ {n} : successor'[a] = successor[a]
          /\ successor[n] = n /\ m.type \in Lookups
      BY <1>7 DEF AnswerAlone, Replied, Inv, TypeOK
    <2>2. r.type \in {"SUCCESSOR_RESPONSE", "FINGER_RESPONSE"} /\ r.to = m.sender
      BY AnswerFields
    <2>3. status[m.sender] \in Known
      BY <2>1 DEF Orderly, AskersAreKnown, Lookups, Known
    <2> HIDE DEF n, q, up, ack, r
    <2> QED
      BY <2>1, <2>2, <2>3, OrderlyStep DEF Inv, TypeOK
  <1>8. CASE status[n] = "SERVICING" /\ AnswerWithSuccessor(n, m)
    <2> DEFINE r == Answer(m, Responder(n))
    <2>1. /\ net' \subseteq net \cup {r}
          /\ UNCHANGED <<status, successor>>
          /\ m.type \in Lookups
      BY <1>8 DEF AnswerWithSuccessor, Replied, nodeVars
    <2>2. r.type \in {"SUCCESSOR_RESPONSE", "FINGER_RESPONSE"} /\ r.to = m.sender
      BY AnswerFields
    <2>3. status[m.sender] \in Known
      BY <2>1 DEF Orderly, AskersAreKnown, Lookups, Known
    <2> HIDE DEF n, q, up, ack, r
    <2> QED
      BY <2>1, <2>2, <2>3, OrderlyStep DEF Inv, TypeOK
  <1>9. CASE status[n] = "SERVICING" /\ ForwardQuery(n, m)
    <2>1. PICK to : net' \subseteq net \cup {[m EXCEPT !.to = to]}
      BY <1>9 DEF ForwardQuery, Replied
    <2> DEFINE forwarded == [m EXCEPT !.to = to]
    <2>2. UNCHANGED <<status, successor>> /\ m.type \in Lookups
      BY <1>9 DEF ForwardQuery, Unanswered, nodeVars
    <2>3. forwarded.type = m.type /\ forwarded.sender = m.sender
      BY <1>1, <2>2, LookupFields DEF SuccessorQuery
    <2>4. net' \subseteq net \cup {forwarded}
      BY <2>1
    <2> HIDE DEF n, q, up, ack, forwarded
    <2>5. \A d \in net' \ net : InOrder(d)
      BY <2>2, <2>3, <2>4 DEF Orderly, AskersAreKnown, Lookups
    <2> QED
      BY <2>2, <2>5, OrderlyStep
  <1>10. CASE /\ status[n] = "SERVICING"
              /\ \/ HandleUpdatePredecessorAck(n, m) \/ QueryLoopedBack(n, m)
                 \/ DropFingerQuery(n, m) \/ HandleFingerResponse(n, m)
                 \/ HandleSuccessorResponse(n, m)
    <2>1. net' \subseteq net /\ UNCHANGED <<status, successor>>
      BY <1>10 DEF HandleUpdatePredecessorAck, QueryLoopedBack, DropFingerQuery,
                   HandleFingerResponse, HandleSuccessorResponse, nodeVars
    <2> QED
      BY <2>1, OrderlyStep
  <1> QED
    BY <1>3, <1>4, <1>5, <1>6, <1>7, <1>8, <1>9, <1>10
       DEF Receive, WorkerReceives, WorkerFree

LEMMA OrderlyNext ==
  ASSUME Inv, Orderly, FastNetwork, [Next]_vars
  PROVE  Orderly'
  <1>1. ASSUME NEW m \in net, Lose(m)
        PROVE  Orderly'
    <2>1. net' \subseteq net /\ UNCHANGED <<status, successor>>
      BY <1>1 DEF Lose, nodeVars
    <2> QED
      BY <2>1, OrderlyStep
  <1>2. CASE UNCHANGED vars
    <2>1. UNCHANGED <<net, status, successor>>
      BY <1>2 DEF vars, nodeVars
    <2> QED
      BY <2>1, OrderlyStep
  <1> QED
    BY <1>1, <1>2, OrderlyBeforeWorker, OrderlyJobs, OrderlyReceive DEF Next

-----------------------------------------------------------------------------
(* Joins one at a time: the ring, and the host n that joins it.  S is the  *)
(* ring that was settled when n started, and s the member of S that is to  *)
(* be n's successor (any, while none was named to n yet).                  *)

StageHosts(S, n, s) ==
  /\ S \subseteq Members
  /\ Members \subseteq S \cup {n}
  /\ n \notin S
  /\ s \in S
  /\ \A a \in Node : status[a] = "WAITING_TO_JOIN" => a = n

\* Every pointer of the ring is in place, but those across the gap before s
\* may already be to n; a ring of one takes n for its successor while n waits.
StagePointers(S, n, s) ==
  \A a \in S :
    /\ \/ successor[a] = NextOn(S, a)
       \/ /\ NextOn(S, a) = s
          /\ successor[a] = n
          /\ n \in Members \/ S = {s}
    /\ \/ S = {a} /\ predecessor[a] = NULL
       \/ S # {a} /\ predecessor[a] = PreviousOn(S, a)
       \/ a = s /\ n \in Members /\ predecessor[a] = n
    /\ sendTimers[a] = {}

\* Until s hears of it, n may be led from member to member, backwards; it is
\* its own successor if the first answer that reaches it is that of a retry.
StageNewcomer(S, n, s) ==
  n \in Members =>
    /\ \/ successor[n] \in S
       \/ successor[n] = n /\ S = {s}
    /\ S = {s} => successor[s] = n
    /\ predecessor[n] # NULL =>
         predecessor[n] \in S /\ successor[predecessor[n]] = n
    /\ \A t \in sendTimers[n] : t.msg.to = s

StageFlight(S, n, s) ==
  \A m \in net :
    /\ m.type = "UPDATE_PREDECESSOR" => m.to = s /\ m.predecessor = n
    /\ m.type = "STABILIZE_RESPONSE" /\ m.to \in S /\ m.predecessor # m.to =>
         m.predecessor = n /\ NextOn(S, m.to) = s
    /\ m.type = "SUCCESSOR_RESPONSE" /\ m.to = n /\ status[n] = "WAITING_TO_JOIN" =>
         /\ \/ m.responder \in S
            \/ m.responder = n /\ S = {s}
         /\ S = {s} => successor[s] = n

Stage(S, n, s) ==
  /\ StageHosts(S, n, s)
  /\ StagePointers(S, n, s)
  /\ StageNewcomer(S, n, s)
  /\ StageFlight(S, n, s)

NobodyStarted == net = {} /\ \A a \in Node : status[a] = "INITIALIZED"

FoundersStarted == \A a \in Node : JoinPoint[a] = a => status[a] # "INITIALIZED"

RingGrows ==
  \/ NobodyStarted
  \/ /\ FoundersStarted
     /\ \E S \in SUBSET Node, n \in Node \cup {NULL} : \E s \in S : Stage(S, n, s)

\* One ring is founded.
OneFounder == \A a, b \in Node : JoinPoint[a] = a /\ JoinPoint[b] = b => a = b

\* In every stage of a join there is one ring: whatever set of members the
\* pointers do not lead out of, it contains the last member before s, or n if
\* that is still its own successor.
LEMMA StageHasOneRing ==
  ASSUME Inv, NEW S \in SUBSET Node, NEW n \in Node \cup {NULL}, NEW s \in S,
         Stage(S, n, s)
  PROVE  AtMostOneRing
  <1> S \in SUBSET Ident
    BY NodesAreIdents
  <1>1. /\ S \subseteq Members /\ Members \subseteq S \cup {n} /\ n \notin S
        /\ \A a \in S : successor[a] = NextOn(S, a) \/ (NextOn(S, a) = s /\ successor[a] = n)
        /\ n \in Members => successor[n] \in S \/ (successor[n] = n /\ S = {s})
        /\ n \in Members /\ S = {s} => successor[s] = n
    BY DEF Stage, StageHosts, StagePointers, StageNewcomer
  <1>2. CASE n \in Members /\ successor[n] = n
    <2>1. ASSUME NEW A \in SUBSET Members, Closed(A)
          PROVE  n \in A
      BY <1>1, <1>2, <2>1 DEF Closed
    <2> QED
      BY <2>1 DEF AtMostOneRing
  <1>3. CASE n \in Members => successor[n] # n
    <2>1. ASSUME NEW A \in SUBSET Members, Closed(A)
          PROVE  \E p \in A \cap S : NextOn(S, p) = s
      <3>1. A \cap S # {}
        BY <1>1, <1>3, <2>1 DEF Closed
      <3>2. \A a \in A \cap S : NextOn(S, a) # s => NextOn(S, a) \in A
        BY <1>1, <2>1 DEF Closed
      <3> QED
        BY <3>1, <3>2, WalkComesRound
    <2> SUFFICES ASSUME NEW A \in SUBSET Members, NEW B \in SUBSET Members,
                        Closed(A), Closed(B)
                 PROVE  A \cap B # {}
      BY DEF AtMostOneRing
    <2>2. PICK p \in A \cap S : NextOn(S, p) = s
      BY <2>1
    <2>3. PICK q \in B \cap S : NextOn(S, q) = s
      BY <2>1
    <2>4. p = q
      BY <2>2, <2>3, NextOnInjective
    <2> QED
      BY <2>2, <2>3, <2>4
  <1> QED
    BY <1>2, <1>3

LEMMA RingGrowsInOne ==
  ASSUME Inv, RingGrows
  PROVE  AtMostOneRing
  <1>1. NobodyStarted => Members = {}
    BY DEF NobodyStarted, Members
  <1> QED
    BY <1>1, StageHasOneRing DEF RingGrows, AtMostOneRing, Closed

\* A step that assigns no pointer and sends none of the datagrams that do.
LEMMA StageStep ==
  ASSUME Inv, NEW S \in SUBSET Node, NEW n \in Node \cup {NULL}, NEW s \in S,
         Stage(S, n, s),
         \A q \in net' \ net :
           q.type \notin {"UPDATE_PREDECESSOR", "STABILIZE_RESPONSE", "SUCCESSOR_RESPONSE"},
         UNCHANGED <<status, successor, predecessor>>,
         \A a \in Node : sendTimers'[a] \subseteq sendTimers[a]
  PROVE  Stage(S, n, s)'
  <1>1. S \subseteq Members /\ Members' = Members /\ Members \subseteq Node
    BY DEF Stage, StageHosts, Members
  <1>2. StageHosts(S, n, s)'
    BY <1>1 DEF Stage, StageHosts
  <1>3. StagePointers(S, n, s)'
    BY <1>1 DEF Stage, StagePointers
  <1>4. StageNewcomer(S, n, s)'
    BY <1>1 DEF Stage, StageNewcomer
  <1>5. StageFlight(S, n, s)'
    BY DEF Stage, StageFlight
  <1> QED
    BY <1>2, <1>3, <1>4, <1>5 DEF Stage

\* The first host founds the ring.
LEMMA StageBegins ==
  ASSUME Inv, NobodyStarted, NEW f \in Node, CreateRing(f)
  PROVE  Stage({f}, NULL, f)'
  <1>1. /\ successor' = [successor EXCEPT ![f] = f]
        /\ status' = [status EXCEPT ![f] = "SERVICING"]
        /\ UNCHANGED <<predecessor, sendTimers, net>>
    BY DEF CreateRing
  <1>2. /\ net = {} /\ NULL \notin Node
        /\ \A a \in Node : status[a] = "INITIALIZED" /\ predecessor[a] = NULL
                           /\ sendTimers[a] = {}
    BY ConstantsAssumption DEF NobodyStarted, Inv, OutsideIsBlank
  <1>3. Members' = {f} /\ f # NULL
    BY <1>1, <1>2 DEF Members, Inv, TypeOK
  <1>4. StageHosts({f}, NULL, f)'
    BY <1>1, <1>2, <1>3 DEF StageHosts, Inv, TypeOK
  <1>5. StagePointers({f}, NULL, f)'
    BY <1>1, <1>2, <1>3 DEF StagePointers, NextOn, Inv, TypeOK
  <1>6. StageNewcomer({f}, NULL, f)' /\ StageFlight({f}, NULL, f)'
    BY <1>1, <1>2, <1>3 DEF StageNewcomer, StageFlight
  <1> QED
    BY <1>4, <1>5, <1>6 DEF Stage

\* When a host starts, the ring has settled: whatever went before is over.
LEMMA StageRestarts ==
  ASSUME Inv, Orderly, OneJoinAtATime, NEW n \in Node, StartJoin(n)
  PROVE  \E s \in Members : Stage(Members, n, s)'
  <1> DEFINE S == Members
             s == JoinPoint[n]
             q == JoinQuery(n)
  <1>1. /\ status[n] = "INITIALIZED" /\ Settled /\ s \in S
        /\ status' = [status EXCEPT ![n] = "WAITING_TO_JOIN"]
        /\ UNCHANGED <<successor, predecessor, sendTimers>>
        /\ net' \subseteq net \cup {q}
    BY DEF StartJoin, Sent
  <1>2. q.type = "JOIN_SUCCESSOR_QUERY"
    BY JoinQueryFields
  <1>3. n \notin S /\ S \subseteq Node /\ S' = S
    BY <1>1 DEF Members, Inv, TypeOK
  <1>4. \A a \in S : S = {a} => predecessor[a] = NULL
    BY DEF Inv, PredecessorHasJoined, Members
  <1>5. /\ \A a \in S : successor[a] = NextOn(S, a)
                        /\ (S # {a} => predecessor[a] = PreviousOn(S, a))
        /\ \A a \in Node : status[a] # "WAITING_TO_JOIN" /\ sendTimers[a] = {}
        /\ \A m \in net : /\ m.type # "UPDATE_PREDECESSOR"
                          /\ m.type = "STABILIZE_RESPONSE" => m.predecessor = m.to
    BY <1>1 DEF Settled, Ideal
  <1>6. \A m \in net : m.type = "SUCCESSOR_RESPONSE" => m.to # n
    BY <1>1 DEF Orderly, AskersAreKnown, Known
  <1> HIDE DEF S, s, q
  <1>7. StageHosts(S, n, s)'
    BY <1>1, <1>3, <1>5 DEF StageHosts, S, Inv, TypeOK
  <1>8. StagePointers(S, n, s)'
    BY <1>1, <1>3, <1>4, <1>5 DEF StagePointers
  <1>9. n \notin Members'
    BY <1>3 DEF S
  <1>10. StageNewcomer(S, n, s)' /\ StageFlight(S, n, s)'
    BY <1>1, <1>2, <1>5, <1>6, <1>9 DEF StageNewcomer, StageFlight
  <1>11. Stage(S, n, s)'
    BY <1>7, <1>8, <1>10 DEF Stage
  <1>12. Stage(Members, n, s)'
    <2> QED
      BY <1>3, <1>11 DEF S
  <1> QED
    BY <1>1, <1>12 DEF S

\* join() times out: the host gives up, or asks again.
LEMMA StageTimeout ==
  ASSUME Inv, NEW S \in SUBSET Node, NEW n \in Node \cup {NULL}, NEW s \in S,
         Stage(S, n, s), NEW j \in Node, JoinTimeout(j)
  PROVE  Stage(S, n, s)'
  <1> DEFINE q == JoinQuery(j)
  <1>1. q.type = "JOIN_SUCCESSOR_QUERY"
    BY JoinQueryFields
  <1>2. /\ net' \subseteq net \cup {q}
        /\ UNCHANGED <<successor, predecessor, sendTimers>>
        /\ status[j] = "WAITING_TO_JOIN"
        /\ status' = status \/ status' = [status EXCEPT ![j] = "SERVICE_FAILED"]
    BY DEF JoinTimeout, Sent
  <1> HIDE DEF q
  <1>3. CASE status' = status
    BY <1>1, <1>2, <1>3, StageStep
  <1>4. CASE status' = [status EXCEPT ![j] = "SERVICE_FAILED"]
    <2>1. Members' = Members
      BY <1>2, <1>4 DEF Members, Inv, TypeOK
    <2>2. StageHosts(S, n, s)'
      BY <1>2, <1>4, <2>1 DEF Stage, StageHosts, Inv, TypeOK
    <2>3. StagePointers(S, n, s)' /\ StageNewcomer(S, n, s)'
      BY <1>2, <2>1 DEF Stage, StagePointers, StageNewcomer
    <2>4. StageFlight(S, n, s)'
      BY <1>1, <1>2, <1>4, DatagramFields DEF Stage, StageFlight, Inv, TypeOK
    <2> QED
      BY <2>2, <2>3, <2>4 DEF Stage
  <1> QED
    BY <1>2, <1>3, <1>4

\* join() is answered: n is a member from now on, and s is known.
LEMMA StageJoins ==
  ASSUME Inv, Orderly, NEW S \in SUBSET Node, NEW n \in Node \cup {NULL}, NEW s \in S,
         Stage(S, n, s), NEW m \in net, JoinResponse(m.to, m)
  PROVE  \E r \in S : Stage(S, n, r)'
  <1> DEFINE up == UpdatePredecessor(m.responder, n)
             r == IF m.responder = n THEN s ELSE m.responder
  <1>1. /\ n \in Node /\ m.to = n /\ status[n] = "WAITING_TO_JOIN"
        /\ m.type = "SUCCESSOR_RESPONSE"
    BY DatagramFields DEF JoinResponse, Stage, StageHosts, Inv, TypeOK
  <1>2. /\ status' = [status EXCEPT ![n] = "SERVICING"]
        /\ successor' = [successor EXCEPT ![n] = m.responder]
        /\ UNCHANGED predecessor
    BY <1>1 DEF JoinResponse
  <1>3. n \notin Members /\ sendTimers[n] = {} /\ predecessor[n] = NULL /\ NULL \notin Node
    BY <1>1, ConstantsAssumption DEF Members, Inv, OutsideIsBlank
  <1>4. Members = S /\ n \notin S /\ Members' = S \cup {n}
    BY <1>1, <1>2, <1>3 DEF Stage, StageHosts, Members, Inv, TypeOK
  <1>5. /\ m.responder \in S \/ (m.responder = n /\ S = {s})
        /\ S = {s} => successor[s] = n
    BY <1>1 DEF Stage, StageFlight
  <1>6. r \in S /\ (S = {s} => r = s) /\ (S = {r} => S = {s})
    BY <1>5
  <1>7. \/ /\ m.responder = n
           /\ net' \subseteq net
           /\ UNCHANGED sendTimers
        \/ /\ m.responder = r
           /\ net' \subseteq net \cup {up}
           /\ sendTimers' = [sendTimers EXCEPT ![n] = {[term |-> n, msg |-> up]}]
    BY <1>1, <1>3 DEF JoinResponse, Replied, PushSendTimer
  <1>8. up.type = "UPDATE_PREDECESSOR" /\ up.to = m.responder /\ up.predecessor = n
    BY DEF UpdatePredecessor
  <1> HIDE DEF up, r
  <1>9. StageHosts(S, n, r)'
    BY <1>1, <1>2, <1>4, <1>6 DEF Stage, StageHosts, Inv, TypeOK
  <1>10. \A a \in S : /\ successor[a] = NextOn(S, a) \/ (S = {s} /\ successor[a] = n)
                      /\ predecessor[a] # n
                      /\ sendTimers[a] = {}
    <2>1. \A a \in S : predecessor[a] # n
      BY <1>1, <1>3 DEF Inv, PredecessorHasJoined
    <2> QED
      BY <1>3, <2>1 DEF Stage, StagePointers
  <1>11. StagePointers(S, n, r)'
    <2> SUFFICES ASSUME NEW a \in S
                 PROVE  /\ \/ successor'[a] = NextOn(S, a)
                           \/ NextOn(S, a) = r /\ successor'[a] = n /\ n \in Members'
                        /\ \/ S = {a} /\ predecessor'[a] = NULL
                           \/ S # {a} /\ predecessor'[a] = PreviousOn(S, a)
                        /\ sendTimers'[a] = {}
      BY DEF StagePointers
    <2>1. successor'[a] = successor[a] /\ sendTimers'[a] = sendTimers[a]
          /\ predecessor'[a] = predecessor[a]
      BY <1>1, <1>2, <1>4, <1>7 DEF Inv, TypeOK
    <2>2. S = {s} => NextOn(S, a) = r
      BY <1>6 DEF NextOn
    <2> QED
      BY <1>4, <1>10, <2>1, <2>2 DEF Stage, StagePointers
  <1>12. StageNewcomer(S, n, r)'
    <2>1. successor'[n] = m.responder /\ (\A a \in S : successor'[a] = successor[a])
      BY <1>1, <1>2, <1>4 DEF Inv, TypeOK
    <2>2. \A t \in sendTimers'[n] : t.msg.to = r
      BY <1>1, <1>3, <1>7, <1>8 DEF Inv, TypeOK
    <2> QED
      BY <1>2, <1>3, <1>5, <1>6, <2>1, <2>2 DEF StageNewcomer
  <1>13. StageFlight(S, n, r)'
    <2>1. \A d \in net : d.type # "UPDATE_PREDECESSOR"
      BY <1>1 DEF Stage, StageFlight, Inv, UpdatesNameMembers
    <2>2. \A d \in net : d.type = "STABILIZE_RESPONSE" /\ d.to \in S => d.predecessor = d.to
      BY <1>1 DEF Stage, StageFlight, Orderly, ResponsesNameMembers
    <2>3. status'[n] = "SERVICING"
      BY <1>1, <1>2 DEF Inv, TypeOK
    <2> QED
      BY <1>7, <1>8, <2>1, <2>2, <2>3 DEF StageFlight
  <1>14. Stage(S, n, r)'
    BY <1>9, <1>11, <1>12, <1>13 DEF Stage
  <1> QED
    BY <1>6, <1>14

\* The announcement of n, and nobody else's, reaches s, and nobody else.
LEMMA StageUpdate ==
  ASSUME Inv, NEW S \in SUBSET Node, NEW n \in Node \cup {NULL}, NEW s \in S,
         Stage(S, n, s), NEW h \in Node, NEW m \in net, m.to = h,
         HandleUpdatePredecessor(h, m)
  PROVE  Stage(S, n, s)'
  <1> DEFINE ack == UpdatePredecessorAck(m.predecessor, AckId(h, m))
  <1>1. ack.type = "UPDATE_PREDECESSOR_ACK"
    BY DEF UpdatePredecessorAck
  <1>2. /\ h = s /\ m.predecessor = n
        /\ predecessor' = [predecessor EXCEPT ![s] = n]
        /\ net' \subseteq net \cup {ack}
        /\ UNCHANGED <<status, successor, sendTimers>>
    BY DEF HandleUpdatePredecessor, Replied, Stage, StageFlight
  <1> HIDE DEF ack
  <1>3. Members' = Members /\ s \in Node /\ n \in Members
    BY <1>2, DatagramFields
       DEF HandleUpdatePredecessor, Members, Inv, TypeOK, UpdatesNameMembers
  <1>4. StageHosts(S, n, s)' /\ StageFlight(S, n, s)'
    BY <1>1, <1>2, <1>3 DEF Stage, StageHosts, StageFlight
  <1>5. StagePointers(S, n, s)'
    BY <1>2, <1>3 DEF Stage, StagePointers, Inv, TypeOK
  <1>6. StageNewcomer(S, n, s)'
    BY <1>2, <1>3 DEF Stage, StageNewcomer, StageHosts, Inv, TypeOK
  <1> QED
    BY <1>4, <1>5, <1>6 DEF Stage

\* A host that n follows asks n, and n asks a member: what each is told keeps
\* it where it is, or leads it to n across the gap.
LEMMA StageRequest ==
  ASSUME Inv, Orderly, NEW S \in SUBSET Node, NEW n \in Node \cup {NULL}, NEW s \in S,
         Stage(S, n, s), NEW h \in Node, NEW m \in net, m.to = h, h \in Members,
         HandleStabilizeRequest(h, m)
  PROVE  Stage(S, n, s)'
  <1> DEFINE a == m.sender
             p == PredecessorAfterRequest(h, m)
             q == StabilizeResponse(a, p)
  <1> S \in SUBSET Ident
    BY NodesAreIdents
  <1>1. /\ a \in Members /\ a # h /\ successor[a] = h
    BY DatagramFields
       DEF HandleStabilizeRequest, Inv, TypeOK, RequestsNameMembers, Orderly,
           RequestsFollowSuccessor, Members
  <1>2. q.type = "STABILIZE_RESPONSE" /\ q.to = a /\ q.predecessor = p
    BY DEF StabilizeResponse
  <1>3. /\ net' \subseteq net \cup {q}
        /\ predecessor' = [predecessor EXCEPT ![h] = p]
        /\ UNCHANGED <<status, successor, sendTimers>>
        /\ p = IF predecessor[h] = NULL THEN a ELSE predecessor[h]
    BY DEF HandleStabilizeRequest, Replied, PredecessorAfterRequest
  <1> HIDE DEF a, p, q
  <1>4. Members' = Members /\ NULL \notin Node /\ Members \subseteq Node
    BY <1>3, ConstantsAssumption DEF Members
  <1>5. /\ S \subseteq Members /\ Members \subseteq S \cup {n} /\ n \notin S
        /\ \A b \in S : \/ successor[b] = NextOn(S, b)
                        \/ NextOn(S, b) = s /\ successor[b] = n
        /\ \A b \in S : \/ S = {b} /\ predecessor[b] = NULL
                        \/ S # {b} /\ predecessor[b] = PreviousOn(S, b)
                        \/ b = s /\ n \in Members /\ predecessor[b] = n
    BY DEF Stage, StageHosts, StagePointers
  <1>6. StageHosts(S, n, s)'
    BY <1>3, <1>4 DEF Stage, StageHosts
  <1>7. CASE h \in S
    <2>1. a \in S => NextOn(S, a) = h /\ S # {a} /\ S # {h} /\ PreviousOn(S, h) = a
      BY <1>1, <1>5, <1>7, PreviousOfNext
    <2>2. predecessor[h] = NULL => S = {h}
      <3>1. S # {h} => PreviousOn(S, h) \in S
        <4>1. S # {h} => S \ {h} # {}
          BY <1>7
        <4> QED
          BY <1>7, <4>1, PreviousOnLast
      <3> QED
        BY <1>4, <1>5, <1>7, <3>1
    <2>3. \/ predecessor'[h] = predecessor[h]
          \/ h = s /\ n \in Members /\ predecessor'[h] = n
      <3>1. predecessor[h] = NULL => a = n /\ h = s
        BY <1>1, <1>5, <2>2
      <3> QED
        BY <1>1, <1>3, <3>1 DEF Inv, TypeOK
    <2>4. \A b \in Node \ {h} : predecessor'[b] = predecessor[b]
      BY <1>3 DEF Inv, TypeOK
    <2>5. StagePointers(S, n, s)'
      BY <1>3, <1>4, <2>3, <2>4 DEF Stage, StagePointers
    <2>6. StageNewcomer(S, n, s)'
      BY <1>3, <1>4, <1>5, <1>7, <2>4 DEF Stage, StageNewcomer
    <2>7. a \in S /\ p # a => p = n /\ NextOn(S, a) = s
      BY <1>3, <1>5, <1>7, <2>1
    <2>8. StageFlight(S, n, s)'
      BY <1>2, <1>3, <2>7 DEF Stage, StageFlight
    <2> QED
      BY <1>6, <2>5, <2>6, <2>8 DEF Stage
  <1>8. CASE h = n
    <2>1. a \in S /\ n \in Members /\ NextOn(S, a) = s
      <3>1. a \in S /\ n \in Members
        BY <1>1, <1>5, <1>8
      <3>2. NextOn(S, a) \in S
        BY <3>1, NextOnMember
      <3> QED
        BY <1>1, <1>5, <1>8, <3>1, <3>2
    <2>2. p = a
      <3>1. CASE predecessor[n] = NULL
        BY <1>3, <1>8, <3>1
      <3>2. CASE predecessor[n] # NULL
        <4> DEFINE c == predecessor[n]
        <4>1. c \in S /\ successor[c] = n
          BY <2>1, <3>2 DEF Stage, StageNewcomer
        <4>2. NextOn(S, c) \in S
          BY <4>1, NextOnMember
        <4>3. NextOn(S, c) = s
          BY <1>5, <4>1, <4>2
        <4>4. c = a
          BY <2>1, <4>1, <4>3, NextOnInjective
        <4> QED
          BY <1>3, <1>8, <3>2, <4>4
      <3> QED
        BY <3>1, <3>2
    <2>3. predecessor'[n] = a /\ \A b \in S : predecessor'[b] = predecessor[b]
      BY <1>3, <1>5, <1>8, <2>2 DEF Inv, TypeOK
    <2>4. StagePointers(S, n, s)'
      BY <1>3, <1>4, <2>3 DEF Stage, StagePointers
    <2>5. StageNewcomer(S, n, s)'
      BY <1>1, <1>3, <1>4, <1>8, <2>1, <2>3 DEF Stage, StageNewcomer
    <2>6. StageFlight(S, n, s)'
      BY <1>2, <1>3, <2>2 DEF Stage, StageFlight
    <2> QED
      BY <1>6, <2>4, <2>5, <2>6 DEF Stage
  <1> QED
    BY <1>5, <1>7, <1>8

LEMMA StageResponse ==
  ASSUME Inv, Orderly, NEW S \in SUBSET Node, NEW n \in Node \cup {NULL}, NEW s \in S,
         Stage(S, n, s), NEW h \in Node, NEW m \in net, m.to = h, h \in Members,
         HandleStabilizeResponse(h, m)
  PROVE  Stage(S, n, s)'
  <1>1. /\ m.type = "STABILIZE_RESPONSE"
        /\ net' \subseteq net
        /\ UNCHANGED <<status, predecessor, sendTimers>>
        /\ \A a \in Node \ {h} : successor'[a] = successor[a]
        /\ successor'[h] = successor[h] \/ (successor'[h] = m.predecessor /\ m.predecessor # h)
    BY DEF HandleStabilizeResponse, SuccessorAfterResponse, Inv, TypeOK
  <1>2. Members' = Members /\ Members \subseteq Node
    BY <1>1 DEF Members
  <1>3. m.predecessor \in Members
    BY <1>1, DatagramFields DEF Orderly, ResponsesNameMembers, Members, Inv, TypeOK
  <1>4. S \subseteq Members /\ Members \subseteq S \cup {n} /\ n \notin S
    BY DEF Stage, StageHosts
  <1>5. StageHosts(S, n, s)'
    BY <1>1, <1>2 DEF Stage, StageHosts
  <1>6. CASE h \in S
    <2>1. \/ successor'[h] = successor[h]
          \/ successor'[h] = n /\ NextOn(S, h) = s /\ n \in Members
      BY <1>1, <1>3, <1>6 DEF Stage, StageFlight
    <2>2. n \in Members => successor'[n] = successor[n]
      BY <1>1, <1>2, <1>4, <1>6
    <2>3. StagePointers(S, n, s)'
      BY <1>1, <1>2, <1>4, <2>1 DEF Stage, StagePointers
    <2>4. \A a \in S : successor[a] = n => successor'[a] = n
      BY <1>1, <2>1
    <2>5. StageNewcomer(S, n, s)'
      BY <1>1, <1>2, <2>2, <2>4 DEF Stage, StageNewcomer
    <2>6. StageFlight(S, n, s)'
      BY <1>1, <2>4 DEF Stage, StageFlight
    <2> QED
      BY <1>5, <2>3, <2>5, <2>6 DEF Stage
  <1>7. CASE h = n
    <2>1. successor'[n] = successor[n] \/ successor'[n] \in S
      BY <1>1, <1>3, <1>4, <1>7
    <2>2. \A a \in S : successor'[a] = successor[a]
      BY <1>1, <1>4, <1>7
    <2>3. StagePointers(S, n, s)'
      BY <1>1, <1>2, <2>2 DEF Stage, StagePointers
    <2>4. StageNewcomer(S, n, s)'
      BY <1>1, <1>2, <2>1, <2>2 DEF Stage, StageNewcomer
    <2>5. StageFlight(S, n, s)'
      BY <1>1, <2>2 DEF Stage, StageFlight
    <2> QED
      BY <1>5, <2>3, <2>4, <2>5 DEF Stage
  <1> QED
    BY <1>4, <1>6, <1>7

\* A host that is alone takes the one who asks, which can only be n.
LEMMA StageAlone ==
  ASSUME Inv, Orderly, NEW S \in SUBSET Node, NEW n \in Node \cup {NULL}, NEW s \in S,
         Stage(S, n, s), NEW h \in Node, NEW m \in net, m.to = h, h \in Members,
         AnswerAlone(h, m)
  PROVE  Stage(S, n, s)'
  <1> DEFINE x == m.sender
             r == Answer(m, h)
  <1> S \in SUBSET Ident
    BY NodesAreIdents
  <1>1. /\ x \in Node /\ x # h /\ successor[h] = h
        /\ x \in Members \/ status[x] = "WAITING_TO_JOIN"
    BY DatagramFields
       DEF AnswerAlone, Orderly, AskersAreKnown, Known, Lookups, Members, Inv, TypeOK
  <1>2. /\ r.type \in {"SUCCESSOR_RESPONSE", "FINGER_RESPONSE"}
        /\ r.to = x /\ r.responder = h
    BY AnswerFields
  <1>3. /\ net' \subseteq net \cup {r}
        /\ UNCHANGED <<status, predecessor, sendTimers>>
        /\ successor'[h] = x
        /\ \A a \in Node \ {h} : successor'[a] = successor[a]
    BY DEF AnswerAlone, Replied, Inv, TypeOK
  <1> HIDE DEF x, r
  <1>4. Members' = Members /\ Members \subseteq Node
    BY <1>3 DEF Members
  <1>5. /\ S \subseteq Members /\ Members \subseteq S \cup {n} /\ n \notin S
        /\ status[x] = "WAITING_TO_JOIN" => x = n
        /\ n \in Members => /\ successor[n] \in S \/ (successor[n] = n /\ S = {s})
                            /\ S = {s} => successor[s] = n
    BY <1>1 DEF Stage, StageHosts, StageNewcomer
  <1>6. StageHosts(S, n, s)'
    BY <1>3, <1>4 DEF Stage, StageHosts
  <1>7. CASE h = n
    <2>1. S = {s} /\ x = s
      BY <1>1, <1>5, <1>7
    <2>2. \A a \in S : successor'[a] = successor[a]
      BY <1>3, <1>5, <1>7
    <2>3. StagePointers(S, n, s)'
      BY <1>3, <1>4, <2>2 DEF Stage, StagePointers
    <2>4. StageNewcomer(S, n, s)'
      BY <1>3, <1>4, <1>7, <2>1, <2>2 DEF Stage, StageNewcomer
    <2>5. StageFlight(S, n, s)'
      BY <1>2, <1>3, <1>5, <2>1, <2>2 DEF Stage, StageFlight
    <2> QED
      BY <1>6, <2>3, <2>4, <2>5 DEF Stage
  <1>8. CASE h \in S
    <2>1. S = {h} /\ h = s
      <3>1. NextOn(S, h) = h
        BY <1>1, <1>5, <1>8 DEF Stage, StagePointers
      <3> QED
        BY <1>8, <3>1, PreviousOfNext
    <2>2. x = n /\ n \notin Members
      BY <1>1, <1>5, <2>1
    <2>3. NextOn(S, s) = s
      BY <2>1 DEF NextOn
    <2>4. StagePointers(S, n, s)'
      BY <1>3, <1>4, <2>1, <2>2, <2>3 DEF Stage, StagePointers
    <2>5. StageNewcomer(S, n, s)'
      BY <1>4, <2>2 DEF StageNewcomer
    <2>6. StageFlight(S, n, s)'
      BY <1>2, <1>3, <2>1, <2>2 DEF Stage, StageFlight
    <2> QED
      BY <1>6, <2>4, <2>5, <2>6 DEF Stage
  <1> QED
    BY <1>5, <1>7, <1>8

\* The answer to n names a member, unless a host that took n for its successor
\* answers it a second time.
LEMMA StageAnswer ==
  ASSUME Inv, Orderly, NEW S \in SUBSET Node, NEW n \in Node \cup {NULL}, NEW s \in S,
         Stage(S, n, s), NEW h \in Node, NEW m \in net, m.to = h, h \in Members,
         AnswerWithSuccessor(h, m)
  PROVE  Stage(S, n, s)'
  <1> DEFINE x == m.sender
             r == Answer(m, successor[h])
  <1> S \in SUBSET Ident
    BY NodesAreIdents
  <1>1. /\ r.type \in {"SUCCESSOR_RESPONSE", "FINGER_RESPONSE"}
        /\ r.to = x /\ r.responder = successor[h]
    BY AnswerFields
  <1>2. /\ net' \subseteq net \cup {r}
        /\ UNCHANGED <<status, successor, predecessor, sendTimers>>
        /\ successor[h] # h
    BY DEF AnswerWithSuccessor, Replied, Responder, nodeVars
  <1> HIDE DEF x, r
  <1>3. Members' = Members /\ Members \subseteq Node
    BY <1>2 DEF Members
  <1>4. StageHosts(S, n, s)' /\ StagePointers(S, n, s)' /\ StageNewcomer(S, n, s)'
    BY <1>2, <1>3 DEF Stage, StageHosts, StagePointers, StageNewcomer
  <1>5. ASSUME status[n] = "WAITING_TO_JOIN"
        PROVE  /\ successor[h] \in S \/ (successor[h] = n /\ S = {s})
               /\ S = {s} => successor[s] = n
    <2>1. h \in S /\ n \notin Members
      BY <1>5 DEF Stage, StageHosts, Members
    <2>2. successor[h] = NextOn(S, h) \/ (successor[h] = n /\ S = {s})
      BY <2>1 DEF Stage, StagePointers
    <2>3. NextOn(S, h) \in S
      BY <2>1, NextOnMember
    <2>4. S = {s} => h = s /\ NextOn(S, h) = h
      BY <2>1 DEF NextOn
    <2> QED
      BY <1>2, <2>2, <2>3, <2>4
  <1>6. StageFlight(S, n, s)'
    BY <1>1, <1>2, <1>5 DEF Stage, StageFlight
  <1> QED
    BY <1>4, <1>6 DEF Stage

\* n, still its own successor, takes its predecessor, which is s.
LEMMA StageTakesPredecessor ==
  ASSUME Inv, NEW S \in SUBSET Node, NEW n \in Node \cup {NULL}, NEW s \in S,
         Stage(S, n, s), NEW h \in Node, StabilizeAlone(h)
  PROVE  Stage(S, n, s)'
  <1> S \in SUBSET Ident
    BY NodesAreIdents
  <1>1. /\ h \in Members /\ successor[h] = h /\ predecessor[h] # NULL
        /\ UNCHANGED <<status, predecessor, sendTimers, net>>
        /\ successor'[h] = predecessor[h]
        /\ \A a \in Node \ {h} : successor'[a] = successor[a]
    BY DEF StabilizeAlone, WorkerFree, Members, Inv, TypeOK
  <1>2. Members' = Members /\ Members \subseteq Node
    BY <1>1 DEF Members
  <1>3. h \notin S
    <2> SUFFICES ASSUME h \in S
                 PROVE  FALSE
      OBVIOUS
    <2>1. NextOn(S, h) = h
      BY <1>1 DEF Stage, StageHosts, StagePointers
    <2>2. S = {h}
      BY <2>1, PreviousOfNext
    <2>3. n \in Members /\ h = s
      BY <1>1, <2>2 DEF Stage, StagePointers
    <2> QED
      BY <1>1, <2>2, <2>3 DEF Stage, StageHosts, StageNewcomer
  <1>4. h = n /\ n \in Members /\ n \notin S
    BY <1>1, <1>3 DEF Stage, StageHosts
  <1>5. predecessor[n] \in S /\ \A a \in S : successor'[a] = successor[a]
    BY <1>1, <1>4 DEF Stage, StageNewcomer
  <1>6. StageHosts(S, n, s)' /\ StagePointers(S, n, s)' /\ StageFlight(S, n, s)'
    BY <1>1, <1>2, <1>5 DEF Stage, StageHosts, StagePointers, StageFlight
  <1>7. StageNewcomer(S, n, s)'
    BY <1>1, <1>2, <1>4, <1>5 DEF Stage, StageNewcomer
  <1> QED
    BY <1>6, <1>7 DEF Stage

\* Only n has an announcement to repeat.
LEMMA StageResend ==
  ASSUME Inv, NEW S \in SUBSET Node, NEW n \in Node \cup {NULL}, NEW s \in S,
         Stage(S, n, s), NEW h \in Node, NEW t \in sendTimers[h], ResendTimedOut(h, t)
  PROVE  Stage(S, n, s)'
  <1>1. h \in Members /\ UNCHANGED nodeVars /\ net' \subseteq net \cup {t.msg}
    BY DEF ResendTimedOut, WorkerFree, Sent, Members
  <1>2. h = n
    BY <1>1 DEF Stage, StageHosts, StagePointers
  <1>3. /\ t.msg.type = "UPDATE_PREDECESSOR"
        /\ t.msg.predecessor = n /\ t.msg.to = s
    BY <1>1, <1>2 DEF Stage, StageNewcomer, Inv, TimersAreMine, TypeOK, Update
  <1>4. Members' = Members
    BY <1>1 DEF Members, nodeVars
  <1>5. StageHosts(S, n, s)' /\ StagePointers(S, n, s)' /\ StageNewcomer(S, n, s)'
    BY <1>1, <1>4 DEF Stage, StageHosts, StagePointers, StageNewcomer, nodeVars
  <1>6. StageFlight(S, n, s)'
    BY <1>1, <1>3 DEF Stage, StageFlight, nodeVars
  <1> QED
    BY <1>5, <1>6 DEF Stage

\* A host that has started has started for good.
LEMMA StartedStay ==
  ASSUME Inv, [Next]_vars, NEW a \in Node, status[a] # "INITIALIZED"
  PROVE  status'[a] # "INITIALIZED"
  <1>1. CASE UNCHANGED status
    BY <1>1
  <1>2. ASSUME NEW n \in Node, Start(n) \/ JoinTimeout(n)
        PROVE  status'[a] # "INITIALIZED"
    BY <1>2 DEF Start, CreateRing, StartJoin, JoinTimeout, Inv, TypeOK
  <1>3. ASSUME NEW n \in Node, \/ Stabilize(n) \/ Resend(n)
                              \/ UpdateFingers(n) \/ PushNotification(n)
        PROVE  UNCHANGED status
    BY <1>3 DEF Stabilize, StabilizeAlone, StabilizeWithSuccessor, Resend,
                ResendTimedOut, UpdateFingers, PushNotification, nodeVars
  <1>4. ASSUME NEW m \in net, Receive(m)
        PROVE  status'[a] # "INITIALIZED"
    <2>1. JoinResponse(m.to, m) \/ UNCHANGED status
      BY <1>4 DEF Receive, WorkerReceives, JoinStray, HandleUpdatePredecessor,
                  HandleUpdatePredecessorAck, HandleStabilizeRequest,
                  HandleStabilizeResponse, QueryLoopedBack, AnswerAlone,
                  AnswerWithSuccessor, ForwardQuery, DropFingerQuery,
                  HandleFingerResponse, HandleSuccessorResponse, nodeVars
    <2> QED
      BY <2>1, <1>1 DEF JoinResponse, Inv, TypeOK
  <1>5. CASE UNCHANGED vars \/ \E m \in net : Lose(m)
    BY <1>5, <1>1 DEF vars, nodeVars, Lose
  <1> QED
    BY <1>1, <1>2, <1>3, <1>4, <1>5 DEF Next

\* What a host receives leaves the ring in a stage of the join.
LEMMA StageReceive ==
  ASSUME Inv, Orderly, NEW S \in SUBSET Node, NEW n \in Node \cup {NULL}, NEW s \in S,
         Stage(S, n, s), NEW m \in net, Receive(m)
  PROVE  \E r \in S : Stage(S, n, r)'
  <1> DEFINE h == m.to
             q == JoinQuery(h)
  <1>1. h \in Node /\ m \in Datagram
    BY DatagramFields DEF Inv, TypeOK
  <1>2. q.type = "JOIN_SUCCESSOR_QUERY"
    BY <1>1, JoinQueryFields
  <1>3. CASE JoinStray(h, m)
    <2>1. net' \subseteq net \cup {q}
          /\ UNCHANGED <<status, successor, predecessor, sendTimers>>
      BY <1>3 DEF JoinStray, Replied, nodeVars
    <2> HIDE DEF q
    <2> QED
      BY <1>2, <2>1, StageStep
  <1>4. CASE JoinResponse(h, m)
    BY <1>4, StageJoins
  <1>5. CASE h \in Members /\ HandleUpdatePredecessor(h, m)
    BY <1>1, <1>5, StageUpdate
  <1>6. CASE h \in Members /\ HandleUpdatePredecessorAck(h, m)
    <2>1. /\ net' \subseteq net
          /\ UNCHANGED <<status, successor, predecessor>>
          /\ \A a \in Node : sendTimers'[a] \subseteq sendTimers[a]
      BY <1>6 DEF HandleUpdatePredecessorAck, Inv, TypeOK
    <2> QED
      BY <2>1, StageStep
  <1>7. CASE h \in Members /\ HandleStabilizeRequest(h, m)
    BY <1>1, <1>7, StageRequest
  <1>8. CASE h \in Members /\ HandleStabilizeResponse(h, m)
    BY <1>1, <1>8, StageResponse
  <1>9. CASE \/ QueryLoopedBack(h, m) \/ HandleSuccessorResponse(h, m)
             \/ DropFingerQuery(h, m) \/ HandleFingerResponse(h, m)
    <2>1. /\ net' \subseteq net
          /\ UNCHANGED <<status, successor, predecessor, sendTimers>>
      BY <1>9 DEF QueryLoopedBack, HandleSuccessorResponse, DropFingerQuery,
                  HandleFingerResponse, nodeVars
    <2> QED
      BY <2>1, StageStep
  <1>10. CASE h \in Members /\ AnswerAlone(h, m)
    BY <1>1, <1>10, StageAlone
  <1>11. CASE h \in Members /\ AnswerWithSuccessor(h, m)
    BY <1>1, <1>11, StageAnswer
  <1>12. CASE ForwardQuery(h, m)
    <2>1. PICK to : net' \subseteq net \cup {[m EXCEPT !.to = to]}
      BY <1>12 DEF ForwardQuery, Replied
    <2>2. UNCHANGED <<status, successor, predecessor, sendTimers>> /\ m.type \in Lookups
      BY <1>12 DEF ForwardQuery, Unanswered, nodeVars
    <2>3. [m EXCEPT !.to = to].type \in Lookups
      BY <1>1, <2>2, LookupFields DEF SuccessorQuery
    <2> QED
      BY <2>1, <2>2, <2>3, StageStep DEF Lookups
  <1>13. WorkerReceives(h, m) => h \in Members
    BY <1>1 DEF WorkerReceives, WorkerFree, Members
  <1> QED
    BY <1>3, <1>4, <1>5, <1>6, <1>7, <1>8, <1>9, <1>10, <1>11, <1>12, <1>13
       DEF Receive, WorkerReceives

LEMMA StageNext ==
  ASSUME Inv, Orderly, NEW S \in SUBSET Node, NEW n \in Node \cup {NULL}, NEW s \in S,
         Stage(S, n, s), [Next]_vars, \A a \in Node : ~ Start(a)
  PROVE  \E r \in S : Stage(S, n, r)'
  <1>1. ASSUME NEW h \in Node, StabilizeWithSuccessor(h)
        PROVE  Stage(S, n, s)'
    <2> DEFINE q == StabilizeRequest(successor[h], h)
    <2>1. q.type = "STABILIZE_REQUEST"
      BY DEF StabilizeRequest
    <2>2. net' \subseteq net \cup {q}
          /\ UNCHANGED <<status, successor, predecessor, sendTimers>>
      BY <1>1 DEF StabilizeWithSuccessor, Sent
    <2> HIDE DEF q
    <2> QED
      BY <2>1, <2>2, StageStep
  <1>2. CASE UNCHANGED vars \/ \E m \in net : Lose(m)
    <2>1. net' \subseteq net /\ UNCHANGED <<status, successor, predecessor, sendTimers>>
      BY <1>2 DEF vars, nodeVars, Lose
    <2> QED
      BY <2>1, StageStep
  <1>3. ASSUME NEW h \in Node, Stabilize(h) \/ Resend(h) \/ JoinTimeout(h)
        PROVE  Stage(S, n, s)'
    BY <1>1, <1>3, StageTakesPredecessor, StageResend, StageTimeout DEF Stabilize, Resend
  <1>4. ASSUME NEW h \in Node, UpdateFingers(h) \/ PushNotification(h)
        PROVE  Stage(S, n, s)'
    <2>1. \A q \in net' \ net : q.type = "FINGER_QUERY"
      BY <1>4, FingerQueriesSent DEF PushNotification
    <2>2. UNCHANGED <<status, successor, predecessor, sendTimers>>
      BY <1>4 DEF UpdateFingers, PushNotification
    <2> QED
      BY <2>1, <2>2, StageStep
  <1> QED
    BY <1>2, <1>3, <1>4, StageReceive DEF Next

LEMMA RingGrowsNext ==
  ASSUME OneJoinAtATime, OneFounder, Inv, Orderly, RingGrows, [Next]_vars
  PROVE  RingGrows'
  <1>1. ASSUME NEW n \in Node, StartJoin(n)
        PROVE  RingGrows'
    <2>1. PICK s \in Members : Stage(Members, n, s)'
      BY <1>1, StageRestarts
    <2>2. status' = [status EXCEPT ![n] = "WAITING_TO_JOIN"] /\ JoinPoint[n] \in Members
      BY <1>1 DEF StartJoin
    <2>3. FoundersStarted
      BY <2>2 DEF RingGrows, NobodyStarted, Members
    <2>4. FoundersStarted'
      BY <2>2, <2>3 DEF FoundersStarted, Inv, TypeOK
    <2>5. Members' = Members /\ Members \in SUBSET Node
      BY <1>1 DEF StartJoin, Members, Inv, TypeOK
    <2> QED
      BY <2>1, <2>4, <2>5 DEF RingGrows
  <1>2. ASSUME NEW f \in Node, CreateRing(f)
        PROVE  RingGrows'
    <2>1. NobodyStarted
      BY <1>2 DEF RingGrows, FoundersStarted, CreateRing
    <2>2. Stage({f}, NULL, f)'
      BY <1>2, <2>1, StageBegins
    <2>3. FoundersStarted'
      BY <1>2 DEF CreateRing, FoundersStarted, OneFounder, Inv, TypeOK
    <2> QED
      BY <2>2, <2>3 DEF RingGrows
  <1>3. CASE NobodyStarted /\ \A n \in Node : ~ Start(n)
    <2>1. UNCHANGED vars
      <3>1. telling = {}
        BY <1>3 DEF NobodyStarted, Inv, TellersHavePredecessor, TypeOK
      <3> QED
        BY <1>3, <3>1
           DEF Next, NobodyStarted, JoinTimeout, Stabilize, StabilizeAlone,
               StabilizeWithSuccessor, Resend, ResendTimedOut, UpdateFingers, WorkerFree,
               PushNotification
    <2> QED
      BY <1>3, <2>1 DEF RingGrows, NobodyStarted, vars, nodeVars
  <1>4. CASE ~ NobodyStarted /\ \A n \in Node : ~ Start(n)
    <2>1. PICK S \in SUBSET Node, n \in Node \cup {NULL} : \E s \in S : Stage(S, n, s)
      BY <1>4 DEF RingGrows
    <2>2. \E r \in S : Stage(S, n, r)'
      BY <1>4, <2>1, StageNext
    <2>3. FoundersStarted'
      BY <1>4, StartedStay DEF RingGrows, FoundersStarted
    <2> QED
      BY <2>2, <2>3 DEF RingGrows
  <1> QED
    BY <1>1, <1>2, <1>3, <1>4 DEF Start

LEMMA OneRingInit == Init => Orderly /\ RingGrows
  BY DEF Init, Orderly, RequestsFollowSuccessor, NoRequestWithResponse,
         ResponsesNameMembers, AskersAreKnown, RingGrows, NobodyStarted

\* A command line thread assigns no pointer, and the only datagrams it sends
\* are queries of its own host, a member.
LEMMA CallsOnlyAsk ==
  ASSUME QueryInv, [QueryNext]_queryVars, ~ RingStep
  PROVE  /\ \A q \in net' \ net : q.type = "SUCCESSOR_QUERY" /\ q.sender \in Members
         /\ UNCHANGED <<status, successor, predecessor, sendTimers, fingers>>
  <1> DEFINE Asks ==
        /\ \A q \in net' \ net : q.type = "SUCCESSOR_QUERY" /\ q.sender \in Members
        /\ UNCHANGED <<status, successor, predecessor, sendTimers, fingers>>
  <1>1. ASSUME NEW n \in Node, SendQuery(n)
        PROVE  Asks
    <2>1. PICK to : net' \subseteq net \cup {SuccessorQuery("SUCCESSOR_QUERY", to, key[n], n)}
      BY <1>1 DEF SendQuery, Sent
    <2>2. n \in Members /\ UNCHANGED nodeVars
      BY <1>1 DEF SendQuery, QueryInv, CallersAreMembers, Members
    <2> QED
      BY <2>1, <2>2 DEF SuccessorQuery, nodeVars
  <1>2. ASSUME NEW n \in Node, ResendQuery(n)
        PROVE  Asks
    <2>1. queryTimer[n].type = "SUCCESSOR_QUERY" /\ queryTimer[n].sender \in Members
      BY <1>2 DEF ResendQuery, WorkerFree, QueryInv, QueryTypeOK, SavedAreQueries, Members
    <2> QED
      BY <1>2, <2>1 DEF ResendQuery, Sent, nodeVars
  <1>3. ASSUME NEW n \in Node, Ask(n) \/ QueryGoesOn(n) \/ Show(n), ~ SendQuery(n)
        PROVE  Asks
    BY <1>3 DEF Ask, AskAlone, AskNear, AskFar, Call, QueryGoesOn, CopySuccessor,
                PopResponse, Show, vars, nodeVars
  <1>4. CASE UNCHANGED queryVars
    BY <1>4 DEF queryVars, vars, nodeVars
  <1> QED
    BY <1>1, <1>2, <1>3, <1>4 DEF QueryNext

LEMMA OneRingStep ==
  ASSUME OneJoinAtATime, FastNetwork, OneFounder,
         QueryInv, Orderly, RingGrows, [QueryNext]_queryVars
  PROVE  Orderly' /\ RingGrows'
  <1>1. Inv
    BY DEF QueryInv
  <1>2. CASE RingStep
    BY <1>1, <1>2, OrderlyNext, RingGrowsNext DEF RingStep
  <1>3. CASE ~ RingStep
    <2>1. /\ \A q \in net' \ net : q.type = "SUCCESSOR_QUERY" /\ q.sender \in Members
          /\ UNCHANGED <<status, successor, predecessor, sendTimers>>
      BY <1>3, CallsOnlyAsk
    <2>2. Orderly'
      BY <1>1, <2>1, OrderlyStep DEF InOrder, Members
    <2>3. CASE NobodyStarted
      <3>1. \A n \in Node : at[n] = "ready" /\ queryTimer[n] = NULL
                            /\ status[n] # "SERVICING"
        BY <2>3 DEF NobodyStarted, QueryInv, CallersAreMembers, QueryTypeOK
      <3>2. ASSUME NEW n \in Node, Ask(n)
            PROVE  FALSE
        BY <3>1, <3>2 DEF Ask, AskAlone, AskNear, AskFar, Call
      <3>3. ASSUME NEW n \in Node, QueryGoesOn(n) \/ Show(n) \/ ResendQuery(n)
            PROVE  FALSE
        BY <3>1, <3>3
           DEF QueryGoesOn, CopySuccessor, SendQuery, PopResponse, Show, ResendQuery
      <3>4. net' = net
        BY <1>3, <3>2, <3>3 DEF QueryNext, queryVars, vars
      <3> QED
        BY <2>1, <2>2, <2>3, <3>4 DEF RingGrows, NobodyStarted
    <2>4. CASE ~ NobodyStarted
      <3> PICK S \in SUBSET Node, n \in Node \cup {NULL} : \E s \in S : Stage(S, n, s)
        BY <2>4 DEF RingGrows
      <3>1. PICK s \in S : Stage(S, n, s)
        OBVIOUS
      <3>2. \A a \in Node : sendTimers'[a] \subseteq sendTimers[a]
        BY <2>1
      <3>3. Stage(S, n, s)'
        <4>1. \A q \in net' \ net : q.type \notin {"UPDATE_PREDECESSOR",
                "STABILIZE_RESPONSE", "SUCCESSOR_RESPONSE"}
          BY <2>1
        <4> QED
          BY <1>1, <2>1, <3>1, <3>2, <4>1, StageStep
      <3>4. FoundersStarted'
        BY <2>1, <2>4 DEF RingGrows, FoundersStarted
      <3> QED
        BY <2>2, <3>3, <3>4 DEF RingGrows
    <2> QED
      BY <2>3, <2>4
  <1> QED
    BY <1>2, <1>3

\* If one host founds the ring, the others join one at a time and SEND_TIMEOUT
\* outlasts every exchange, then the successor pointers never form two rings,
\* whatever datagrams are lost and however a join is retried.
THEOREM OneRing ==
  ASSUME OneJoinAtATime, FastNetwork, OneFounder
  PROVE  Spec => []AtMostOneRing
  <1> DEFINE I == Inv /\ Orderly /\ RingGrows
  <1>1. Init => I
    BY InitInv, OneRingInit
  <1>2. I /\ [Next]_vars => I'
    BY StepInv, OrderlyNext, RingGrowsNext
  <1>3. I => AtMostOneRing
    BY RingGrowsInOne
  <1> QED
    BY <1>1, <1>2, <1>3, PTL DEF Spec

\* The same with lookups between and during the joins: a lone host adopts
\* whoever asks, but only a host that joins ever asks a lone one.
THEOREM QueryOneRing ==
  ASSUME OneJoinAtATime, FastNetwork, OneFounder
  PROVE  QuerySpec => []AtMostOneRing
  <1> DEFINE I == QueryInv /\ Orderly /\ RingGrows
  <1>1. QueryInit => I
    BY QueryInitInv, OneRingInit DEF QueryInit
  <1>2. I /\ [QueryNext]_queryVars => I'
    BY QueryStepInv, OneRingStep
  <1>3. I => AtMostOneRing
    BY RingGrowsInOne DEF QueryInv
  <1> QED
    BY <1>1, <1>2, <1>3, PTL DEF QuerySpec

-----------------------------------------------------------------------------
(* A calm call: a settled ring stays settled until a host starts, and what *)
(* is on its way to the call, or parked for it, is right.                  *)

\* A datagram that can change no pointer of a settled ring.
Quiet(m) ==
  /\ m.type # "UPDATE_PREDECESSOR"
  /\ m.type = "STABILIZE_REQUEST" => successor[m.sender] = m.to
  /\ m.type = "STABILIZE_RESPONSE" => m.predecessor = m.to
  /\ m.type \in Lookups => m.sender \in Members

\* A query that has not gone past its key, as long as there are no fingers.
OnTheWay(n, to) ==
  Fingered \/ (to \in Members \ {n} /\ Clockwise(n, to) < Reach(n, key[n]))

AnswersRight(n, host) == host = Owner(Members, key[n]) \/ (Fingered /\ host = n)

\* What a datagram says to the call that n makes.
RightFor(n, m) ==
  /\ m.type = "SUCCESSOR_QUERY" /\ m.sender = n /\ m.searchTerm = key[n]
       => OnTheWay(n, m.to)
  /\ m.type = "SUCCESSOR_RESPONSE" /\ m.to = n /\ m.searchTerm = key[n]
       => AnswersRight(n, m.responder)

CalmCall(n) ==
  /\ Settled
  /\ at[n] # "ready"
  /\ at[n] \in {"copying", "sending"} => successor[n] # n
  /\ at[n] = "copying" => IsInSuccessor(key[n], n, successor[n])
  /\ at[n] = "sending" => ~ IsInSuccessor(key[n], n, successor[n])
  /\ at[n] = "waiting" => OnTheWay(n, queryTimer[n].to)
  /\ \A m \in net : RightFor(n, m)
  /\ \A sr \in successorResponseQueue[n] :
       sr.searchTerm = key[n] => AnswersRight(n, sr.responder)

CalmCallsAreRight == \A n \in Node : calm[n] => CalmCall(n)

LEMMA SettledNet == Settled => \A m \in net : Quiet(m)
  BY DEF Settled, Quiet

\* The pointers of a settled ring.
LEMMA SettledPointers ==
  ASSUME Settled, NEW a \in Members
  PROVE  /\ Members \in SUBSET Ident /\ a \in Node
         /\ successor[a] = NextOn(Members, a)
         /\ Members # {a} => predecessor[a] = PreviousOn(Members, a)
         /\ successor[a] = a => Members = {a}
         /\ successor[a] # a => Members \ {a} # {}
  <1>1. Members \in SUBSET Ident /\ a \in Node /\ a \in Ident
    BY NodesAreIdents DEF Members
  <1>2. /\ successor[a] = NextOn(Members, a)
        /\ Members # {a} => predecessor[a] = PreviousOn(Members, a)
    BY DEF Settled, Ideal
  <1>3. successor[a] = a => Members = {a}
    <2> SUFFICES ASSUME successor[a] = a, Members # {a}
                 PROVE  FALSE
      OBVIOUS
    <2>1. NextOn(Members, a) \in Members \ {a}
      BY <1>1, PreviousOfNext
    <2> QED
      BY <1>2, <2>1
  <1>4. successor[a] # a => Members \ {a} # {}
    BY <1>2 DEF NextOn
  <1> QED
    BY <1>1, <1>2, <1>3, <1>4

\* A step that assigns no pointer and sends only quiet datagrams.
LEMMA SettledStep ==
  ASSUME Settled, \A q \in net' \ net : Quiet(q),
         UNCHANGED <<status, successor, predecessor, sendTimers>>
  PROVE  Settled'
  <1>1. UNCHANGED Members
    BY DEF Members
  <1>2. Ideal(Members)'
    BY <1>1 DEF Settled, Ideal
  <1>3. \A m \in net' : Quiet(m)
    BY SettledNet
  <1>4. \A m \in net' : Quiet(m)'
    BY <1>1, <1>3 DEF Quiet
  <1> QED
    BY <1>2, <1>4 DEF Settled, Quiet

\* A finger that is set stays set.
LEMMA FingersStay ==
  ASSUME Inv, [Next]_vars, Fingered
  PROVE  Fingered'
  <1>1. PICK n \in Node, s \in FingerTerm : fingers[n][s] # NULL
    BY DEF Fingered, Entries, Inv, TypeOK
  <1> SUFFICES fingers'[n][s] # NULL /\ s \in DOMAIN fingers'[n]
    BY <1>1 DEF Fingered, Entries
  <1>2. CASE UNCHANGED fingers
    BY <1>1, <1>2 DEF Inv, TypeOK
  <1>3. NULL \notin Node /\ fingers \in [Node -> [FingerTerm -> Node \cup {NULL}]]
    BY ConstantsAssumption DEF Inv, TypeOK
  <1>4. ASSUME NEW a \in Node, UpdateFingers(a)
        PROVE  fingers'[n][s] # NULL /\ s \in DOMAIN fingers'[n]
    <2>1. successor[a] \in Node
      BY <1>4 DEF UpdateFingers, WorkerFree, Inv, TypeOK, MembersHaveSuccessor
    <2> QED
      BY <1>1, <1>3, <1>4, <2>1 DEF UpdateFingers
  <1>5. ASSUME NEW m \in net, NEW host \in Node, SetFinger(m.to, m.searchTerm, host)
        PROVE  fingers'[n][s] # NULL /\ s \in DOMAIN fingers'[n]
    BY <1>1, <1>3, <1>5 DEF SetFinger
  <1>6. ASSUME NEW m \in net, Receive(m)
        PROVE  fingers'[n][s] # NULL /\ s \in DOMAIN fingers'[n]
    <2>1. CASE QueryLoopedBack(m.to, m)
      <3>1. m.to \in Node
        BY DatagramFields DEF Inv, TypeOK
      <3> QED
        BY <1>2, <1>5, <2>1, <3>1 DEF QueryLoopedBack
    <2>2. CASE HandleFingerResponse(m.to, m)
      <3>1. m.responder \in Node
        BY <2>2, DatagramFields DEF HandleFingerResponse, Inv, TypeOK
      <3> QED
        BY <1>5, <2>2, <3>1 DEF HandleFingerResponse
    <2>3. QueryLoopedBack(m.to, m) \/ HandleFingerResponse(m.to, m) \/ UNCHANGED fingers
      BY <1>6 DEF Receive, WorkerReceives, JoinStray, JoinResponse, HandleUpdatePredecessor,
                  HandleUpdatePredecessorAck, HandleStabilizeRequest,
                  HandleStabilizeResponse, AnswerAlone, AnswerWithSuccessor, ForwardQuery,
                  DropFingerQuery, HandleSuccessorResponse, nodeVars
    <2> QED
      BY <1>2, <2>1, <2>2, <2>3
  <1>7. ASSUME NEW a \in Node, \/ Start(a) \/ JoinTimeout(a) \/ Stabilize(a) \/ Resend(a)
                              \/ PushNotification(a)
        PROVE  UNCHANGED fingers
    BY <1>7 DEF Start, CreateRing, StartJoin, JoinTimeout, Stabilize, StabilizeAlone,
                StabilizeWithSuccessor, Resend, ResendTimedOut, PushNotification, nodeVars
  <1>8. CASE UNCHANGED vars \/ \E m \in net : Lose(m)
    BY <1>2, <1>8 DEF vars, nodeVars, Lose
  <1> QED
    BY <1>2, <1>4, <1>6, <1>7, <1>8 DEF Next

\* The same for a calm call, if what is sent, and what is parked, is right.
LEMMA CalmStep ==
  ASSUME NEW n \in Node, CalmCall(n), \A q \in net' \ net : Quiet(q) /\ RightFor(n, q),
         \A sr \in successorResponseQueue'[n] :
           \/ sr \in successorResponseQueue[n]
           \/ sr.searchTerm = key[n] => AnswersRight(n, sr.responder),
         UNCHANGED <<status, successor, predecessor, sendTimers>>,
         Fingered => Fingered',
         key'[n] = key[n], at'[n] = at[n], queryTimer'[n] = queryTimer[n]
  PROVE  CalmCall(n)'
  <1>1. Settled'
    BY SettledStep DEF CalmCall
  <1>2. /\ UNCHANGED Members
        /\ \A host : OnTheWay(n, host) => OnTheWay(n, host)'
        /\ \A host : AnswersRight(n, host) => AnswersRight(n, host)'
    BY DEF Members, OnTheWay, AnswersRight
  <1>3. \A m \in net' : RightFor(n, m)
    BY DEF CalmCall
  <1>4. \A m \in net' : RightFor(n, m)'
    BY <1>2, <1>3 DEF RightFor
  <1>5. \A sr \in successorResponseQueue'[n] :
          sr.searchTerm = key[n] => AnswersRight(n, sr.responder)
    BY DEF CalmCall
  <1>6. \A sr \in successorResponseQueue'[n] :
          sr.searchTerm = key'[n] => AnswersRight(n, sr.responder)'
    BY <1>2, <1>5
  <1> QED
    BY <1>1, <1>2, <1>4, <1>6 DEF CalmCall

LEMMA CalmUntouched ==
  ASSUME NEW n \in Node, CalmCall(n), net' \subseteq net,
         successorResponseQueue'[n] \subseteq successorResponseQueue[n],
         UNCHANGED <<status, successor, predecessor, sendTimers>>,
         Fingered => Fingered',
         key'[n] = key[n], at'[n] = at[n], queryTimer'[n] = queryTimer[n]
  PROVE  CalmCall(n)'
  BY CalmStep

\* A member of a settled ring that handles a datagram: it assigns no pointer,
\* sends only quiet datagrams, and only a lookup makes it send one for a call or
\* park one, unless it parks what it received.
LEMMA SettledReceive ==
  ASSUME Inv, Settled, NEW m \in net, Receive(m)
  PROVE  /\ m.to \in Members /\ WorkerReceives(m.to, m)
         /\ UNCHANGED <<status, successor, predecessor, sendTimers>>
         /\ \A q \in net' \ net :
              /\ Quiet(q)
              /\ m.type \notin Lookups =>
                   q.type \notin {"SUCCESSOR_QUERY", "SUCCESSOR_RESPONSE"}
         /\ m.type \notin Lookups \cup {"SUCCESSOR_RESPONSE"} =>
              successorResponseQueue' = successorResponseQueue
  <1> DEFINE p == m.to
             response == StabilizeResponse(m.sender, PredecessorAfterRequest(p, m))
             reply == Answer(m, Responder(p))
             Sends == \A q \in net' \ net :
                        /\ Quiet(q)
                        /\ m.type \notin Lookups =>
                             q.type \notin {"SUCCESSOR_QUERY", "SUCCESSOR_RESPONSE"}
             Keeps == /\ UNCHANGED <<status, successor, predecessor, sendTimers>>
                      /\ m.type \notin Lookups \cup {"SUCCESSOR_RESPONSE"} =>
                           successorResponseQueue' = successorResponseQueue
  <1>1. m \in Datagram /\ p \in Node
    BY DatagramFields DEF Inv, TypeOK
  <1>2. Quiet(m)
    BY SettledNet
  <1>3. p \in Members /\ WorkerReceives(p, m)
    BY <1>1 DEF Receive, JoinStray, JoinResponse, Settled, WorkerReceives, WorkerFree, Members
  <1>4. /\ successor[p] = NextOn(Members, p) /\ Members \in SUBSET Ident
        /\ successor[p] = p => Members = {p}
    BY <1>3, SettledPointers
  <1>5. CASE HandleUpdatePredecessor(p, m)
    BY <1>2, <1>5 DEF HandleUpdatePredecessor, Quiet
  <1>6. CASE HandleUpdatePredecessorAck(p, m)
    <2>1. sendTimers' = sendTimers
      <3>1. sendTimers[p] = {} /\ sendTimers \in [Node -> SUBSET [term : Ident, msg : Update]]
        BY <1>1 DEF Settled, Inv, TypeOK
      <3> QED
        BY <1>1, <1>6, <3>1 DEF HandleUpdatePredecessorAck
    <2> QED
      BY <1>3, <1>6, <2>1 DEF HandleUpdatePredecessorAck
  <1>7. CASE HandleStabilizeRequest(p, m)
    <2>1. /\ m.sender # p /\ m.sender \in Members
          /\ successor[m.sender] = p
      BY <1>1, <1>2, <1>7, DatagramFields
         DEF HandleStabilizeRequest, Inv, RequestsNameMembers, Quiet, Members
    <2>2. NextOn(Members, m.sender) = p
      BY <2>1, SettledPointers
    <2>3. Members # {p} /\ PreviousOn(Members, p) = m.sender
      BY <1>3, <1>4, <2>1, <2>2, PreviousOfNext
    <2>4. predecessor[p] = m.sender
      BY <1>3, <2>3, SettledPointers
    <2>5. PredecessorAfterRequest(p, m) = m.sender
      BY <2>4 DEF PredecessorAfterRequest
    <2>6. predecessor' = predecessor
      BY <1>7, <2>4, <2>5 DEF HandleStabilizeRequest, Inv, TypeOK
    <2>7. response.type = "STABILIZE_RESPONSE" /\ response.predecessor = response.to
      BY <2>5 DEF StabilizeResponse
    <2>8. net' \subseteq net \cup {response} /\ Keeps
      BY <1>7, <2>6 DEF HandleStabilizeRequest, Replied
    <2> HIDE DEF response
    <2>9. Quiet(response)
      BY <2>7 DEF Quiet, Lookups
    <2> QED
      BY <1>3, <2>7, <2>8, <2>9
  <1>8. CASE HandleStabilizeResponse(p, m)
    <2>1. m.predecessor = p
      BY <1>2, <1>8 DEF Quiet, HandleStabilizeResponse
    <2>2. successor' = successor
      BY <1>8, <2>1 DEF HandleStabilizeResponse, SuccessorAfterResponse, Inv, TypeOK
    <2> QED
      BY <1>3, <1>8, <2>2 DEF HandleStabilizeResponse
  <1>9. CASE \/ QueryLoopedBack(p, m) \/ HandleSuccessorResponse(p, m)
             \/ DropFingerQuery(p, m) \/ HandleFingerResponse(p, m)
    <2>1. net' \subseteq net /\ Keeps
      BY <1>9 DEF QueryLoopedBack, HandleSuccessorResponse, DropFingerQuery,
                  HandleFingerResponse, nodeVars
    <2> QED
      BY <1>3, <2>1
  <1>10. CASE AnswerAlone(p, m)
    <2>1. m.sender \in Members /\ m.sender # p /\ successor[p] = p
      BY <1>2, <1>10 DEF AnswerAlone, Quiet
    <2> QED
      BY <1>4, <2>1
  <1>11. CASE AnswerWithSuccessor(p, m)
    <2>1. m.type \in Lookups /\ net' \subseteq net \cup {reply} /\ Keeps
      BY <1>11 DEF AnswerWithSuccessor, Replied, nodeVars
    <2>2. reply.type \in {"SUCCESSOR_RESPONSE", "FINGER_RESPONSE"}
      BY AnswerFields
    <2> HIDE DEF reply
    <2>3. Quiet(reply)
      BY <2>2 DEF Quiet, Lookups
    <2> QED
      BY <1>3, <2>1, <2>3
  <1>12. CASE ForwardQuery(p, m)
    <2>1. PICK to : net' \subseteq net \cup {[m EXCEPT !.to = to]}
      BY <1>12 DEF ForwardQuery, Replied
    <2> DEFINE forwarded == [m EXCEPT !.to = to]
    <2>2. m.type \in Lookups /\ Keeps
      BY <1>12 DEF ForwardQuery, Unanswered, nodeVars
    <2>3. forwarded.type = m.type /\ forwarded.sender = m.sender
      BY <1>1, <2>2, LookupFields DEF SuccessorQuery
    <2>4. net' \subseteq net \cup {forwarded}
      BY <2>1
    <2> HIDE DEF forwarded
    <2>5. Quiet(forwarded)
      BY <1>2, <2>2, <2>3 DEF Quiet, Lookups
    <2> QED
      BY <1>3, <2>2, <2>4, <2>5
  <1> QED
    BY <1>3, <1>5, <1>6, <1>7, <1>8, <1>9, <1>10, <1>11, <1>12 DEF WorkerReceives

\* A worker asks its successor again and again, for its predecessor or for the
\* fingers, and it notifies the application.
LEMMA SettledJob ==
  ASSUME Inv, Settled, NEW a \in Node,
         Stabilize(a) \/ UpdateFingers(a) \/ PushNotification(a)
  PROVE  /\ UNCHANGED <<successor, predecessor, sendTimers, successorResponseQueue>>
         /\ \A q \in net' \ net :
              Quiet(q) /\ q.type \notin {"SUCCESSOR_QUERY", "SUCCESSOR_RESPONSE"}
  <1>1. CASE StabilizeAlone(a)
    <2>1. Members = {a}
      <3>1. a \in Members
        BY <1>1 DEF StabilizeAlone, WorkerFree, Members
      <3> QED
        BY <1>1, <3>1, SettledPointers DEF StabilizeAlone
    <2>2. predecessor[a] # a /\ predecessor[a] \in Members
      BY <1>1 DEF StabilizeAlone, Inv, PredecessorHasJoined
    <2> QED
      BY <2>1, <2>2
  <1>2. CASE StabilizeWithSuccessor(a)
    <2> DEFINE q == StabilizeRequest(successor[a], a)
    <2>1. q.type = "STABILIZE_REQUEST" /\ q.to = successor[q.sender]
      BY DEF StabilizeRequest
    <2>2. net' \subseteq net \cup {q}
          /\ UNCHANGED <<successor, predecessor, sendTimers, successorResponseQueue>>
      BY <1>2 DEF StabilizeWithSuccessor, Sent
    <2> HIDE DEF q
    <2>3. Quiet(q) /\ q.type \notin {"SUCCESSOR_QUERY", "SUCCESSOR_RESPONSE"}
      BY <2>1 DEF Quiet, Lookups
    <2> QED
      BY <2>2, <2>3
  <1>3. CASE UpdateFingers(a)
    <2>1. \A q \in net' \ net : q.type = "FINGER_QUERY" /\ q.sender = a
      BY <1>3, FingerQueriesSent
    <2>2. /\ UNCHANGED <<successor, predecessor, sendTimers, successorResponseQueue>>
          /\ a \in Members
      BY <1>3 DEF UpdateFingers, WorkerFree, Members
    <2> QED
      BY <2>1, <2>2 DEF Quiet
  <1>4. CASE PushNotification(a)
    BY <1>4 DEF PushNotification
  <1> QED
    BY <1>1, <1>2, <1>3, <1>4 DEF Stabilize

\* The other jobs have nothing to do as long as no host starts.
LEMMA SettledIdle ==
  ASSUME Inv, Settled, status' = status,
         NEW a \in Node, Start(a) \/ JoinTimeout(a) \/ Resend(a)
  PROVE  FALSE
  BY DEF Start, CreateRing, StartJoin, JoinTimeout, Resend, Settled, Inv, TypeOK

LEMMA SettledRing ==
  ASSUME Inv, Settled, [Next]_vars, status' = status
  PROVE  Settled'
  <1>1. CASE UNCHANGED vars \/ \E m \in net : Lose(m)
    <2>1. net' \subseteq net /\ UNCHANGED <<successor, predecessor, sendTimers>>
      BY <1>1 DEF Lose, vars, nodeVars
    <2> QED
      BY <2>1, SettledStep
  <1>2. ASSUME NEW a \in Node, Stabilize(a) \/ UpdateFingers(a) \/ PushNotification(a)
        PROVE  Settled'
    BY <1>2, SettledJob, SettledStep
  <1>3. ASSUME NEW m \in net, Receive(m)
        PROVE  Settled'
    BY <1>3, SettledReceive, SettledStep
  <1> QED
    BY <1>1, <1>2, <1>3, SettledIdle DEF Next

\* A ring that has settled stays settled until another host starts, on any
\* network; every pointer is then that of the ideal ring for good.
THEOREM SettledForGood == Spec => SettledStays
  <1> DEFINE Stays == Settled /\ status' = status => Settled'
  <1>1. Inv /\ [Next]_vars => [Stays]_vars
    BY SettledRing
  <1>2. Spec => [][Stays]_vars
    BY <1>1, InitInv, StepInv, PTL DEF Spec
  <1> QED
    BY <1>2 DEF SettledStays

\* So what it sends to a call, or parks for it, is right.
LEMMA CalmReceive ==
  ASSUME QueryInv, NEW n \in Node, CalmCall(n), key[n] \in Key,
         NEW m \in net, Receive(m), Fingered => Fingered',
         UNCHANGED <<at, key, queryTimer>>
  PROVE  CalmCall(n)'
  <1> DEFINE p == m.to
             reply == Answer(m, Responder(p))
  <1>1. /\ m \in Datagram /\ p \in Node
        /\ m.type \in Lookups => m.sender \in Node
    BY DatagramFields DEF QueryInv, Inv, TypeOK
  <1>2. Settled /\ Quiet(m) /\ RightFor(n, m)
    BY SettledNet DEF CalmCall
  <1>3. /\ p \in Members /\ WorkerReceives(p, m)
        /\ UNCHANGED <<status, successor, predecessor, sendTimers>>
    BY <1>2, SettledReceive DEF QueryInv
  <1>4. /\ Members \in SUBSET Ident
        /\ successor[p] = NextOn(Members, p)
        /\ successor[p] # p => Members \ {p} # {}
    BY <1>2, <1>3, SettledPointers
  <1>5. key[n] \in Ident /\ key[n] \notin Node
    BY ConstantsAssumption, QueryAssumption
  <1>6. /\ m.type \in Lookups \ {"FINGER_QUERY"} /\ m.sender = n /\ m.searchTerm = key[n] =>
             m.type = "SUCCESSOR_QUERY"
    BY <1>1, <1>5, LookupFields DEF Lookups
  <1>7. CASE m.type \notin Lookups \cup {"SUCCESSOR_RESPONSE"}
    <2>1. successorResponseQueue' = successorResponseQueue
      BY <1>2, <1>7, SettledReceive DEF QueryInv
    <2>2. \A q \in net' \ net :
            Quiet(q) /\ q.type \notin {"SUCCESSOR_QUERY", "SUCCESSOR_RESPONSE"}
      BY <1>2, <1>7, SettledReceive DEF QueryInv
    <2>3. \A q \in net' \ net : Quiet(q) /\ RightFor(n, q)
      BY <2>2 DEF RightFor
    <2> QED
      BY <1>3, <2>1, <2>3, CalmStep
  <1>8. CASE QueryLoopedBack(p, m) /\ m.type # "FINGER_QUERY"
    <2>1. /\ m.type \in Lookups \ {"FINGER_QUERY"} /\ m.sender = p /\ net' \subseteq net
          /\ successorResponseQueue' = [successorResponseQueue EXCEPT
               ![p] = @ \cup {[searchTerm |-> m.searchTerm, responder |-> p]}]
      BY <1>8 DEF QueryLoopedBack, PushSuccessorResponse
    <2>2. p = n /\ m.searchTerm = key[n] => Fingered
      BY <1>2, <1>6, <2>1 DEF RightFor, OnTheWay
    <2>3. ASSUME NEW sr \in successorResponseQueue'[n]
          PROVE  \/ sr \in successorResponseQueue[n]
                 \/ sr.searchTerm = key[n] => AnswersRight(n, sr.responder)
      <3>1. \/ sr \in successorResponseQueue[n]
            \/ p = n /\ sr = [searchTerm |-> m.searchTerm, responder |-> p]
        BY <1>1, <2>1 DEF QueryInv, Inv, TypeOK
      <3> QED
        BY <2>2, <3>1 DEF AnswersRight
    <2> QED
      BY <1>3, <2>1, <2>3, CalmStep
  <1>9. CASE \/ QueryLoopedBack(p, m) /\ m.type = "FINGER_QUERY"
             \/ DropFingerQuery(p, m)
    <2>1. net' \subseteq net /\ UNCHANGED successorResponseQueue
      BY <1>9 DEF QueryLoopedBack, DropFingerQuery, nodeVars
    <2> QED
      BY <1>3, <2>1, CalmUntouched
  <1>10. CASE AnswerWithSuccessor(p, m)
    <2>1. /\ m.type \in Lookups /\ successor[p] # p
          /\ IsInSuccessor(m.searchTerm, p, successor[p])
          /\ net' \subseteq net \cup {reply}
          /\ UNCHANGED successorResponseQueue
      BY <1>10 DEF AnswerWithSuccessor, Replied, nodeVars
    <2>2. /\ reply.type \in {"SUCCESSOR_RESPONSE", "FINGER_RESPONSE"}
          /\ reply.searchTerm = m.searchTerm /\ reply.responder = successor[p]
      BY AnswerFields DEF Responder
    <2>3. m.searchTerm = key[n] => successor[p] = Owner(Members, key[n])
      BY <1>3, <1>4, <1>5, <2>1, AnswerIsOwner
    <2> HIDE DEF reply
    <2>4. Quiet(reply) /\ RightFor(n, reply)
      BY <2>2, <2>3 DEF Quiet, RightFor, Lookups, AnswersRight
    <2> QED
      BY <1>3, <2>1, <2>4, CalmStep
  <1>11. CASE ForwardQuery(p, m)
    <2>1. PICK to \in NextHops(p, m) : net' = Replied(p, m, {[m EXCEPT !.to = to]})
      BY <1>11 DEF ForwardQuery
    <2> DEFINE forwarded == [m EXCEPT !.to = to]
    <2>2. /\ m.type \in Lookups /\ m.sender # p /\ successor[p] # p
          /\ ~ IsInSuccessor(m.searchTerm, p, successor[p])
          /\ net' \subseteq net \cup {forwarded}
          /\ UNCHANGED successorResponseQueue
      BY <1>11, <2>1 DEF ForwardQuery, Unanswered, Replied, nodeVars
    <2>3. /\ forwarded.type = m.type /\ forwarded.sender = m.sender
          /\ forwarded.searchTerm = m.searchTerm /\ forwarded.to = to
      BY <1>1, <2>2, LookupFields DEF SuccessorQuery
    <2>4. ASSUME m.type = "SUCCESSOR_QUERY", m.sender = n, m.searchTerm = key[n], ~ Fingered
          PROVE  OnTheWay(n, to)
      <3>1. to = successor[p]
        BY <1>1, <2>1, <2>4, HopWithoutFingers DEF NextHops, Fingered
      <3>2. n \in Members /\ p # n /\ Clockwise(n, p) < Reach(n, key[n])
        BY <1>2, <2>2, <2>4 DEF RightFor, OnTheWay, Quiet
      <3> QED
        BY <1>3, <1>4, <1>5, <2>2, <2>4, <3>1, <3>2, QueryStep DEF OnTheWay
    <2> HIDE DEF forwarded
    <2>5. Quiet(forwarded)
      BY <1>2, <2>2, <2>3 DEF Quiet, Lookups
    <2>6. RightFor(n, forwarded)
      BY <2>2, <2>3, <2>4 DEF RightFor, OnTheWay, Lookups
    <2> QED
      BY <1>3, <2>2, <2>5, <2>6, CalmStep
  <1>12. CASE HandleSuccessorResponse(p, m)
    <2>1. /\ m.type = "SUCCESSOR_RESPONSE" /\ net' \subseteq net
          /\ successorResponseQueue' = [successorResponseQueue EXCEPT
               ![p] = @ \cup {[searchTerm |-> m.searchTerm, responder |-> m.responder]}]
      BY <1>12 DEF HandleSuccessorResponse, PushSuccessorResponse
    <2>2. p = n /\ m.searchTerm = key[n] => AnswersRight(n, m.responder)
      BY <1>2, <2>1 DEF RightFor
    <2>3. ASSUME NEW sr \in successorResponseQueue'[n]
          PROVE  \/ sr \in successorResponseQueue[n]
                 \/ sr.searchTerm = key[n] => AnswersRight(n, sr.responder)
      <3>1. \/ sr \in successorResponseQueue[n]
            \/ p = n /\ sr = [searchTerm |-> m.searchTerm, responder |-> m.responder]
        BY <1>1, <2>1 DEF QueryInv, Inv, TypeOK
      <3> QED
        BY <2>2, <3>1
    <2> QED
      BY <1>3, <2>1, <2>3, CalmStep
  <1> QED
    <2>1. /\ ~ AnswerAlone(p, m)
          /\ HandleUpdatePredecessor(p, m) \/ HandleUpdatePredecessorAck(p, m)
               \/ HandleStabilizeRequest(p, m) \/ HandleStabilizeResponse(p, m)
               \/ HandleFingerResponse(p, m)
               => m.type \notin Lookups \cup {"SUCCESSOR_RESPONSE"}
      <3>1. successor[p] = p => Members = {p}
        BY <1>2, <1>3, SettledPointers
      <3> QED
        BY <1>2, <3>1 DEF AnswerAlone, Quiet, HandleUpdatePredecessor,
             HandleUpdatePredecessorAck, HandleStabilizeRequest, HandleStabilizeResponse,
             HandleFingerResponse, Lookups
    <2> QED
      BY <1>3, <1>7, <1>8, <1>9, <1>10, <1>11, <1>12, <2>1 DEF WorkerReceives

\* A step of ring maintenance: a host starts, and then no call is calm, or
\* calm calls stay right.
LEMMA CalmRing ==
  ASSUME QueryInv, CalmCallsAreRight, RingStep
  PROVE  CalmCallsAreRight'
  <1> SUFFICES ASSUME NEW n \in Node, calm'[n]
               PROVE  CalmCall(n)'
    BY DEF CalmCallsAreRight
  <1>1. UNCHANGED <<at, key, queryTimer, calm, status>>
    BY DEF RingStep, Apart, callVars
  <1>2. CalmCall(n) /\ Settled /\ key[n] \in Key
    BY <1>1 DEF CalmCallsAreRight, CalmCall, QueryInv, CallersAreMembers
  <1>3. Fingered => Fingered'
    BY FingersStay DEF RingStep, QueryInv
  <1>4. ASSUME NEW a \in Node, Start(a) \/ JoinTimeout(a) \/ Resend(a)
        PROVE  FALSE
    BY <1>1, <1>2, <1>4, SettledIdle DEF QueryInv
  <1>5. ASSUME NEW a \in Node, Stabilize(a) \/ UpdateFingers(a) \/ PushNotification(a)
        PROVE  CalmCall(n)'
    <2>1. /\ UNCHANGED <<successor, predecessor, sendTimers, successorResponseQueue>>
          /\ \A q \in net' \ net :
               Quiet(q) /\ q.type \notin {"SUCCESSOR_QUERY", "SUCCESSOR_RESPONSE"}
      BY <1>2, <1>5, SettledJob DEF QueryInv
    <2>2. \A q \in net' \ net : Quiet(q) /\ RightFor(n, q)
      BY <2>1 DEF RightFor
    <2> QED
      BY <1>1, <1>2, <1>3, <2>1, <2>2, CalmStep
  <1>6. ASSUME NEW m \in net, Receive(m)
        PROVE  CalmCall(n)'
    BY <1>1, <1>2, <1>3, <1>6, CalmReceive
  <1>7. ASSUME NEW m \in net, Lose(m)
        PROVE  CalmCall(n)'
    <2>1. net' \subseteq net
          /\ UNCHANGED <<successor, predecessor, sendTimers, successorResponseQueue>>
      BY <1>7 DEF Lose, nodeVars
    <2> QED
      BY <1>1, <1>2, <1>3, <2>1, CalmUntouched
  <1> QED
    BY <1>4, <1>5, <1>6, <1>7 DEF RingStep, Next

\* A call begins: it is calm only if nothing is left of an earlier one.
LEMMA CalmAsk ==
  ASSUME QueryInv, CalmCallsAreRight, NEW n \in Node, Ask(n)
  PROVE  CalmCallsAreRight'
  <1> PICK k \in Key : AskAlone(n, k) \/ AskNear(n, k) \/ AskFar(n, k)
    BY DEF Ask
  <1>1. /\ key' = [key EXCEPT ![n] = k]
        /\ calm' = [calm EXCEPT ![n] = Settled /\ NothingLeft(n, k)]
        /\ UNCHANGED <<status, successor, predecessor, sendTimers, fingers, net,
                       successorResponseQueue, queryTimer>>
    BY DEF AskAlone, AskNear, AskFar, Call, vars, nodeVars
  <1>2. \E c \in {"returned", "copying", "sending"} :
          /\ at' = [at EXCEPT ![n] = c]
          /\ c \in {"copying", "sending"} => successor[n] # n
          /\ c = "copying" => IsInSuccessor(k, n, successor[n])
          /\ c = "sending" => ~ IsInSuccessor(k, n, successor[n])
    BY DEF AskAlone, AskNear, AskFar, Return
  <1>3. UNCHANGED Settled /\ UNCHANGED Members /\ UNCHANGED Fingered
    BY <1>1 DEF Settled, Ideal, Members, Fingered
  <1> SUFFICES ASSUME NEW a \in Node, calm'[a]
               PROVE  CalmCall(a)'
    BY DEF CalmCallsAreRight
  <1>4. CASE a # n
    <2>1. CalmCall(a) /\ key'[a] = key[a] /\ at'[a] = at[a]
      BY <1>1, <1>2, <1>4 DEF CalmCallsAreRight, QueryInv, QueryTypeOK
    <2> QED
      BY <1>1, <1>3, <2>1 DEF CalmCall, RightFor, OnTheWay, AnswersRight
  <1>5. CASE a = n
    <2>1. Settled /\ NothingLeft(n, k) /\ key'[n] = k
      BY <1>1, <1>5 DEF QueryInv, QueryTypeOK
    <2>2. /\ at'[n] \in {"returned", "copying", "sending"}
          /\ at'[n] \in {"copying", "sending"} => successor[n] # n
          /\ at'[n] = "copying" => IsInSuccessor(k, n, successor[n])
          /\ at'[n] = "sending" => ~ IsInSuccessor(k, n, successor[n])
      BY <1>2 DEF QueryInv, QueryTypeOK
    <2>3. \A m \in net' : RightFor(n, m)'
      BY <1>1, <2>1 DEF NothingLeft, RightFor
    <2> QED
      BY <1>1, <1>3, <1>5, <2>1, <2>2, <2>3 DEF CalmCall, NothingLeft
  <1> QED
    BY <1>4, <1>5

\* A call that is over says nothing any more.
LEMMA CalmReturn ==
  ASSUME CalmCallsAreRight, NEW n \in Node, at' = [at EXCEPT ![n] = "returned"],
         at \in [Node -> {"ready", "copying", "sending", "waiting", "returned"}],
         UNCHANGED <<status, successor, predecessor, sendTimers, fingers, net, key, calm>>,
         \A a \in Node : successorResponseQueue'[a] \subseteq successorResponseQueue[a],
         \A a \in Node \ {n} : queryTimer'[a] = queryTimer[a]
  PROVE  CalmCallsAreRight'
  <1>1. UNCHANGED Settled /\ UNCHANGED Members /\ UNCHANGED Fingered
    BY DEF Settled, Ideal, Members, Fingered
  <1> SUFFICES ASSUME NEW a \in Node, calm'[a]
               PROVE  CalmCall(a)'
    BY DEF CalmCallsAreRight
  <1>2. CalmCall(a)
    BY DEF CalmCallsAreRight
  <1>3. /\ \A m \in net' : RightFor(a, m)'
        /\ \A sr \in successorResponseQueue'[a] :
             sr.searchTerm = key'[a] => AnswersRight(a, sr.responder)'
    BY <1>1, <1>2 DEF CalmCall, RightFor, OnTheWay, AnswersRight
  <1>4. CASE a = n
    BY <1>1, <1>2, <1>3, <1>4 DEF CalmCall
  <1>5. CASE a # n
    BY <1>1, <1>2, <1>3, <1>5 DEF CalmCall, OnTheWay
  <1> QED
    BY <1>4, <1>5

\* A query of n goes to q.to; the calls of others have nothing to do with it.
LEMMA CalmSend ==
  ASSUME QueryInv, CalmCallsAreRight, NEW n \in Node, status[n] = "SERVICING", NEW q,
         q.type = "SUCCESSOR_QUERY", q.sender = n,
         calm[n] => OnTheWay(n, q.to),
         net' \subseteq net \cup {q},
         at' = [at EXCEPT ![n] = "waiting"], queryTimer' = [queryTimer EXCEPT ![n] = q],
         UNCHANGED <<status, successor, predecessor, sendTimers, fingers,
                     successorResponseQueue, key, calm>>
  PROVE  CalmCallsAreRight'
  <1> SUFFICES ASSUME NEW a \in Node, calm'[a]
               PROVE  CalmCall(a)'
    BY DEF CalmCallsAreRight
  <1>1. CalmCall(a) /\ UNCHANGED Members /\ UNCHANGED Fingered
    BY DEF CalmCallsAreRight, Members, Fingered
  <1>2. Quiet(q) /\ RightFor(a, q)
    BY DEF Quiet, RightFor, Members
  <1>3. CASE a # n
    <2>1. at'[a] = at[a] /\ queryTimer'[a] = queryTimer[a]
      BY <1>3 DEF QueryInv, QueryTypeOK
    <2> QED
      BY <1>1, <1>2, <2>1, CalmStep
  <1>4. CASE a = n
    <2>1. Settled'
      BY <1>1, <1>2, SettledStep DEF CalmCall
    <2>2. at'[n] = "waiting" /\ queryTimer'[n] = q /\ OnTheWay(n, q.to)'
      BY <1>1, <1>4 DEF QueryInv, QueryTypeOK, OnTheWay
    <2>3. \A m \in net' : RightFor(n, m)'
      BY <1>1, <1>2, <1>4 DEF CalmCall, RightFor, OnTheWay, AnswersRight
    <2>4. \A sr \in successorResponseQueue'[n] :
            sr.searchTerm = key'[n] => AnswersRight(n, sr.responder)'
      BY <1>1, <1>4 DEF CalmCall, AnswersRight
    <2> QED
      BY <1>4, <2>1, <2>2, <2>3, <2>4 DEF CalmCall
  <1> QED
    BY <1>3, <1>4

LEMMA CalmGoesOn ==
  ASSUME QueryInv, CalmCallsAreRight, NEW n \in Node,
         QueryGoesOn(n) \/ Show(n) \/ ResendQuery(n)
  PROVE  CalmCallsAreRight'
  <1>1. CASE CopySuccessor(n)
    BY <1>1, CalmReturn DEF CopySuccessor, Return, vars, nodeVars, QueryInv, QueryTypeOK
  <1>2. CASE SendQuery(n)
    <2>1. /\ at[n] = "sending" /\ status[n] = "SERVICING" /\ key[n] \in Key
          /\ n \in Members
      BY <1>2 DEF SendQuery, QueryInv, CallersAreMembers, Members
    <2> PICK to \in GetSuccessorOf(fingers[n], successor[n], key[n]) :
           LET q == SuccessorQuery("SUCCESSOR_QUERY", to, key[n], n) IN
           /\ net' = Sent(n, {q})
           /\ queryTimer' = [queryTimer EXCEPT ![n] = PushQueryTimer(q)]
      BY <1>2 DEF SendQuery
    <2> DEFINE q == SuccessorQuery("SUCCESSOR_QUERY", to, key[n], n)
    <2>2. q.type = "SUCCESSOR_QUERY" /\ q.sender = n /\ q.to = to
      BY DEF SuccessorQuery
    <2>3. ASSUME calm[n], ~ Fingered
          PROVE  OnTheWay(n, to)
      <3>1. to = successor[n]
        BY <2>3, HopWithoutFingers DEF Fingered
      <3>2. /\ Settled /\ successor[n] # n
            /\ ~ IsInSuccessor(key[n], n, successor[n])
        BY <2>1, <2>3 DEF CalmCallsAreRight, CalmCall
      <3>3. /\ Members \in SUBSET Ident /\ successor[n] = NextOn(Members, n)
            /\ Members \ {n} # {}
        BY <2>1, <3>2, SettledPointers
      <3>4. n \in Ident /\ key[n] \in Ident
        BY <2>1, <3>3, ConstantsAssumption
      <3>5. Clockwise(n, n) < Reach(n, key[n])
        BY <3>4, ReachAhead
      <3> QED
        BY <2>1, <3>1, <3>2, <3>3, <3>4, <3>5, QueryStep DEF OnTheWay
    <2>4. calm[n] => OnTheWay(n, to)
      BY <2>3 DEF OnTheWay
    <2>5. /\ net' \subseteq net \cup {q}
          /\ at' = [at EXCEPT ![n] = "waiting"] /\ queryTimer' = [queryTimer EXCEPT ![n] = q]
          /\ UNCHANGED <<status, successor, predecessor, sendTimers, fingers,
                         successorResponseQueue, key, calm>>
      BY <1>2 DEF SendQuery, Sent, PushQueryTimer, nodeVars
    <2> HIDE DEF q
    <2> QED
      BY <2>1, <2>2, <2>4, <2>5, CalmSend
  <1>3. ASSUME NEW sr \in successorResponseQueue[n], PopResponse(n, sr)
        PROVE  CalmCallsAreRight'
    <2>1. /\ \A a \in Node : successorResponseQueue'[a] \subseteq successorResponseQueue[a]
          /\ UNCHANGED <<status, successor, predecessor, sendTimers, fingers, net, key, calm>>
      BY <1>3 DEF PopResponse, QueryInv, Inv, TypeOK
    <2>2. CASE sr.searchTerm = key[n]
      <3>1. at' = [at EXCEPT ![n] = "returned"]
            /\ \A a \in Node \ {n} : queryTimer'[a] = queryTimer[a]
        BY <1>3, <2>2 DEF PopResponse, Return, QueryInv, QueryTypeOK
      <3> QED
        BY <2>1, <3>1, CalmReturn DEF QueryInv, QueryTypeOK
    <2>3. CASE sr.searchTerm # key[n]
      <3>1. UNCHANGED <<at, queryTimer>>
        BY <1>3, <2>3 DEF PopResponse
      <3> QED
        BY <2>1, <3>1, CalmUntouched DEF CalmCallsAreRight, Fingered
    <2> QED
      BY <2>2, <2>3
  <1>4. CASE Show(n)
    <2>1. /\ UNCHANGED <<status, successor, predecessor, sendTimers, fingers, net,
                         successorResponseQueue, queryTimer>>
          /\ ~ calm'[n]
          /\ \A a \in Node \ {n} : at'[a] = at[a] /\ key'[a] = key[a] /\ calm'[a] = calm[a]
      BY <1>4 DEF Show, vars, nodeVars, QueryInv, QueryTypeOK
    <2> QED
      BY <2>1, CalmUntouched DEF CalmCallsAreRight, Fingered
  <1>5. CASE ResendQuery(n)
    <2> DEFINE q == queryTimer[n]
    <2>1. /\ at[n] = "waiting" /\ status[n] = "SERVICING"
          /\ q.type = "SUCCESSOR_QUERY" /\ q.sender = n
          /\ calm[n] => OnTheWay(n, q.to)
      BY <1>5 DEF ResendQuery, QueryInv, QueryTypeOK, CallersAreMembers, SavedAreQueries,
                  CalmCallsAreRight, CalmCall
    <2>2. /\ net' \subseteq net \cup {q}
          /\ UNCHANGED <<status, successor, predecessor, sendTimers, fingers,
                         successorResponseQueue, key, calm>>
      BY <1>5 DEF ResendQuery, Sent, nodeVars, callVars
    <2>3. /\ at' = [at EXCEPT ![n] = "waiting"]
          /\ queryTimer' = [queryTimer EXCEPT ![n] = q]
      BY <1>5, <2>1 DEF ResendQuery, callVars, QueryInv, QueryTypeOK
    <2> HIDE DEF q
    <2> QED
      BY <2>1, <2>2, <2>3, CalmSend
  <1> QED
    BY <1>1, <1>2, <1>3, <1>4, <1>5 DEF QueryGoesOn

CallsInv == QueryInv /\ CalmCallsAreRight

LEMMA CalmInvariance == QuerySpec => []CallsInv
  <1>1. QueryInit => CallsInv
    BY QueryInitInv DEF CallsInv, CalmCallsAreRight, QueryInit
  <1>2. CallsInv /\ [QueryNext]_queryVars => CallsInv'
    <2> SUFFICES ASSUME QueryInv, CalmCallsAreRight, [QueryNext]_queryVars
                 PROVE  QueryInv' /\ CalmCallsAreRight'
      BY DEF CallsInv
    <2>1. CASE UNCHANGED queryVars
      <3>1. UNCHANGED <<status, successor, predecessor, sendTimers, fingers, net, at,
                        key, queryTimer, calm, successorResponseQueue>>
        BY <2>1 DEF queryVars, callVars, vars, nodeVars
      <3>2. CalmCallsAreRight'
        BY <3>1, CalmUntouched DEF CalmCallsAreRight, Fingered
      <3> QED
        BY <2>1, <3>2, QueryStutterInv
    <2> QED
      BY <2>1, QueryStepInv, CalmRing, CalmAsk, CalmGoesOn DEF QueryNext
  <1> QED
    BY <1>1, <1>2, PTL DEF QuerySpec

\* A call made in a settled ring, with nothing left of an earlier call for the
\* key, that returns before another host starts gives the owner of its key or,
\* if some finger has been set, perhaps the host that asked; without fingers
\* always the owner.  For any number of hosts and calls, any fingers, and
\* whatever is lost, late or reordered.
THEOREM SettledCorrect == QuerySpec => SettledOwnerOrAsker
  <1> DEFINE Right ==
        \A n \in Node :
          at[n] # "returned" /\ at'[n] = "returned" /\ calm'[n] =>
            \/ answer'[n] = Owner(Members, key'[n])
            \/ Fingered /\ answer'[n] = n
  <1>1. CallsInv /\ [QueryNext]_queryVars => [Right]_queryVars
    <2> SUFFICES ASSUME QueryInv, CalmCallsAreRight, QueryNext, NEW n \in Node,
                        at[n] # "returned", at'[n] = "returned", calm'[n]
                 PROVE  \/ answer'[n] = Owner(Members, key'[n])
                        \/ Fingered /\ answer'[n] = n
      BY DEF CallsInv
    <2>1. CASE RingStep
      BY <2>1 DEF RingStep, Apart, callVars
    <2>2. PICK a \in Node : Ask(a) \/ QueryGoesOn(a) \/ Show(a) \/ ResendQuery(a)
      BY DEF QueryNext, RingStep, Apart, callVars
    <2>3. a = n
      BY <2>2 DEF Ask, AskAlone, AskNear, AskFar, Call, QueryGoesOn, CopySuccessor, SendQuery,
                  PopResponse, Return, Show, ResendQuery, callVars, QueryInv, QueryTypeOK
    <2>4. CASE \E k \in Key : AskAlone(n, k)
      <3>1. PICK k \in Key : AskAlone(n, k)
        BY <2>4
      <3>2. /\ key'[n] = k /\ answer'[n] = n /\ n \in Members
            /\ Settled /\ successor[n] = n
        BY <3>1 DEF AskAlone, Call, Return, QueryInv, QueryTypeOK, Members
      <3>3. Members = {n} /\ Members \in SUBSET Ident /\ k \in Ident
        BY <3>2, SettledPointers, ConstantsAssumption
      <3> QED
        BY <3>2, <3>3, AloneIsOwner
    <2>5. CASE CopySuccessor(n)
      <3>1. /\ at[n] = "copying" /\ calm[n] /\ key'[n] = key[n] /\ answer'[n] = successor[n]
        BY <2>5 DEF CopySuccessor, Return, QueryInv, QueryTypeOK
      <3>2. /\ Settled /\ successor[n] # n /\ IsInSuccessor(key[n], n, successor[n])
            /\ n \in Members /\ key[n] \in Ident
        BY <3>1, ConstantsAssumption
           DEF CalmCallsAreRight, CalmCall, QueryInv, CallersAreMembers, Members
      <3>3. /\ Members \in SUBSET Ident /\ successor[n] = NextOn(Members, n)
            /\ Members \ {n} # {}
        BY <3>2, SettledPointers
      <3> QED
        BY <3>1, <3>2, <3>3, AnswerIsOwner
    <2>6. CASE \E sr \in successorResponseQueue[n] : PopResponse(n, sr)
      <3>1. PICK sr \in successorResponseQueue[n] : PopResponse(n, sr)
        BY <2>6
      <3>2. /\ sr.searchTerm = key[n] /\ answer'[n] = sr.responder
            /\ key'[n] = key[n] /\ calm[n]
        BY <3>1 DEF PopResponse, Return, QueryInv, QueryTypeOK
      <3> QED
        BY <3>1, <3>2 DEF CalmCallsAreRight, CalmCall, AnswersRight
    <2>7. \/ \E k \in Key : AskAlone(n, k)
          \/ CopySuccessor(n)
          \/ \E sr \in successorResponseQueue[n] : PopResponse(n, sr)
      BY <2>2, <2>3 DEF Ask, AskNear, AskFar, QueryGoesOn, SendQuery, Show, ResendQuery,
                        callVars, QueryInv, QueryTypeOK
    <2> QED
      BY <2>4, <2>5, <2>6, <2>7
  <1>2. QuerySpec => [][Right]_queryVars
    BY <1>1, CalmInvariance, PTL DEF QuerySpec
  <1> QED
    BY <1>2 DEF SettledOwnerOrAsker

\* Lookups in the ring, whenever they are made, do not unsettle it either.
THEOREM QuerySettledForGood == QuerySpec => SettledStays
  <1> DEFINE Stays == Settled /\ status' = status => Settled'
  <1>1. QueryInv /\ [QueryNext]_queryVars => [Stays]_vars
    <2> SUFFICES ASSUME QueryInv, [QueryNext]_queryVars, Settled, status' = status
                 PROVE  Settled'
      OBVIOUS
    <2>1. CASE RingStep
      BY <2>1, SettledRing DEF RingStep, QueryInv
    <2>2. CASE ~ RingStep
      <3>1. /\ \A q \in net' \ net : q.type = "SUCCESSOR_QUERY" /\ q.sender \in Members
            /\ UNCHANGED <<status, successor, predecessor, sendTimers>>
        BY <2>2, CallsOnlyAsk
      <3>2. \A q \in net' \ net : Quiet(q)
        BY <3>1 DEF Quiet
      <3> QED
        BY <3>1, <3>2, SettledStep
    <2> QED
      BY <2>1, <2>2
  <1>2. QuerySpec => [][Stays]_vars
    BY <1>1, QueryInvariance, PTL DEF QuerySpec
  <1> QED
    BY <1>2 DEF SettledStays
=============================================================================
