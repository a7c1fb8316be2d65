----------------------------- MODULE ChordQuery -----------------------------
(***************************************************************************)
(* query() while the ring changes: the command line thread reads successor *)
(* several times without a lock and the worker replaces it in between, and *)
(* lookups travel through hosts that are joining or have just joined.  The *)
(* handlers of the messages are those of ChordRing.                        *)
(*                                                                         *)
(* What one call leaves behind in the queue of responses for the next,     *)
(* and which wrong answers the fingers give, are the subject of            *)
(* ChordLookup: TLC takes MaxTrouble = 1 here, and few fingers.            *)
(***************************************************************************)
EXTENDS ChordRing

CONSTANTS
  Asker,           \* the hosts whose application makes calls
  MaxTrouble,      \* bound: how many calls are made and datagrams lost, together
  LateCalls        \* environment: if FALSE, calls are made only while some host has
                   \* still to start, and none starts while a call runs

ASSUME QueryAssumption ==
  /\ Asker \subseteq Node
  /\ Key \cap Node = {}      \* timers of lookups and of join() have other keys
  /\ NULL \notin Key
  /\ MaxTrouble \in Nat
  /\ LateCalls \in BOOLEAN

VARIABLES
  at,           \* where query() is: "ready" (not running), "copying" the address
                \* of the successor, "sending", "waiting" or "returned"
  key,          \* what it looks up, or NULL
  answer,       \* the host it returns, or NULL
  queryTimer,   \* the entry of sendTimers for the key: the saved query, or NULL
  calls,        \* counted for the bound
  calm          \* observed: at the call the ring was settled and nothing was left
                \* of an earlier call for the key, and since then no host has
                \* begun to join

callVars == <<at, key, answer, queryTimer, calls>>
queryVars == <<vars, callVars, calm>>

QueryInit ==
  /\ Init
  /\ at = [n \in Node |-> "ready"]
  /\ key = [n \in Node |-> NULL]
  /\ answer = [n \in Node |-> NULL]
  /\ queryTimer = [n \in Node |-> NULL]
  /\ calls = 0
  /\ calm = [n \in Node |-> FALSE]

-----------------------------------------------------------------------------
(* query().  A host that has another as its successor keeps having one     *)
(* (ContactNeverLost), so the test whether it is alone and the test of the *)
(* arc may be taken together; what is read later is read in a later step.  *)

\* No query for the key, and no answer to one, is in flight or parked.
NothingLeft(n, k) ==
  /\ \A m \in net :
       /\ m.type = "SUCCESSOR_QUERY" /\ m.sender = n => m.searchTerm # k
       /\ m.type = "SUCCESSOR_RESPONSE" /\ m.to = n => m.searchTerm # k
  /\ \A sr \in successorResponseQueue[n] : sr.searchTerm # k

Call(n, k) ==
  /\ n \in Asker
  /\ status[n] = "SERVICING"
  /\ at[n] = "ready"
  /\ calls + lost < MaxTrouble
  /\ LateCalls \/ \E i \in Node : status[i] = "INITIALIZED"
  /\ SettledUse => Settled
  /\ calls' = calls + 1
  /\ key' = [key EXCEPT ![n] = k]
  /\ calm' = [calm EXCEPT ![n] = Settled /\ NothingLeft(n, k)]
  /\ UNCHANGED <<vars, queryTimer>>

Return(n, host) ==
  /\ at' = [at EXCEPT ![n] = "returned"]
  /\ answer' = [answer EXCEPT ![n] = host]

AskAlone(n, k) ==
  /\ Call(n, k)
  /\ successor[n] = n
  /\ Return(n, n)

AskNear(n, k) ==
  /\ Call(n, k)
  /\ successor[n] # n
  /\ IsInSuccessor(k, n, successor[n])
  /\ at' = [at EXCEPT ![n] = "copying"]
  /\ UNCHANGED answer

AskFar(n, k) ==
  /\ Call(n, k)
  /\ successor[n] # n
  /\ ~ IsInSuccessor(k, n, successor[n])
  /\ at' = [at EXCEPT ![n] = "sending"]
  /\ UNCHANGED answer

\* The address copied is that of the successor by now.
CopySuccessor(n) ==
  /\ at[n] = "copying"
  /\ Return(n, successor[n])
  /\ UNCHANGED <<vars, key, queryTimer, calls, calm>>

SavesNothing(q) == NULL
PushQueryTimer(q) == q

\* By now, too, the successor or the fingers may be others.
SendQuery(n) ==
  /\ at[n] = "sending"
  /\ at' = [at EXCEPT ![n] = "waiting"]
  /\ \E to \in GetSuccessorOf(fingers[n], successor[n], key[n]) :
       LET q == SuccessorQuery("SUCCESSOR_QUERY", to, key[n], n) IN
       /\ net' = Sent(n, {q})
       /\ queryTimer' = [queryTimer EXCEPT ![n] = PushQueryTimer(q)]
  /\ UNCHANGED <<nodeVars, lost, key, answer, calls, calm>>

KeepsResending(q) == q
UnsetQueryTimer(q) == NULL

\* A response to a join query that came late is dropped.
PopResponse(n, sr) ==
  /\ at[n] = "waiting"
  /\ sr \in successorResponseQueue[n]
  /\ successorResponseQueue' = [successorResponseQueue EXCEPT ![n] = @ \ {sr}]
  /\ IF sr.searchTerm = key[n]
     THEN /\ Return(n, sr.responder)
          /\ queryTimer' = [queryTimer EXCEPT ![n] = UnsetQueryTimer(@)]
     ELSE UNCHANGED <<at, answer, queryTimer>>
  /\ UNCHANGED <<status, substate, successor, predecessor, timeoutCount,
                 sendTimers, telling, notified, fingers, net, lost, key,
                 calls, calm>>

\* The application shows the answer and is ready for another command.
Show(n) ==
  /\ at[n] = "returned"
  /\ at' = [at EXCEPT ![n] = "ready"]
  /\ key' = [key EXCEPT ![n] = NULL]
  /\ answer' = [answer EXCEPT ![n] = NULL]
  /\ calm' = [calm EXCEPT ![n] = FALSE]
  /\ UNCHANGED <<vars, queryTimer, calls>>

-----------------------------------------------------------------------------
QueryExchange(n) ==
  {m \in net : \/ m.type = "SUCCESSOR_QUERY" /\ m.sender = n
               \/ m.type = "SUCCESSOR_RESPONSE" /\ m.to = n /\ m.searchTerm = key[n]}

\* The periodic job that resends, to the host the query went to first.
ResendQuery(n) ==
  /\ WorkerFree(n)
  /\ queryTimer[n] # NULL
  /\ MayTimeOut(QueryExchange(n))
  /\ net' = Sent(n, {queryTimer[n]})
  /\ UNCHANGED <<nodeVars, lost, callVars, calm>>

Ask(n) == \E k \in Key : AskAlone(n, k) \/ AskNear(n, k) \/ AskFar(n, k)

QueryGoesOn(n) ==
  \/ CopySuccessor(n)
  \/ SendQuery(n)
  \/ \E sr \in successorResponseQueue[n] : PopResponse(n, sr)

NoCall == \A n \in Node : at[n] = "ready"
HostStarts == \E n \in Node : status[n] = "INITIALIZED" /\ status'[n] # "INITIALIZED"

\* The command line threads stand still while the ring takes a step.
Apart ==
  /\ UNCHANGED callVars
  /\ HostStarts => LateCalls \/ NoCall
  /\ calm' = IF status' = status THEN calm ELSE [n \in Node |-> FALSE]

RingStep ==
  /\ Next
  /\ lost' + calls <= MaxTrouble
  /\ Apart

QueryNext ==
  \/ RingStep
  \/ \E n \in Node : Ask(n) \/ QueryGoesOn(n) \/ Show(n) \/ ResendQuery(n)

QuerySpec == QueryInit /\ [][QueryNext]_queryVars

\* As in ChordRing; query() looks at its queue again and again, and a query
\* that is due is resent.
QueryFairness ==
  /\ \A n \in Node : /\ WF_queryVars(Start(n) /\ Apart)
                     /\ WF_queryVars(JoinTimeout(n) /\ Apart)
                     /\ WF_queryVars(Stabilize(n) /\ Apart)
                     /\ WF_queryVars(Resend(n) /\ Apart)
                     /\ WF_queryVars(PushNotification(n) /\ Apart)
                     /\ WF_queryVars(QueryGoesOn(n))
                     /\ WF_queryVars(Show(n))
                     /\ WF_queryVars(ResendQuery(n))
  /\ \A m \in Datagram : []<>(m \notin net \/ m.to \notin Listening)

FairQuerySpec == QuerySpec /\ QueryFairness

-----------------------------------------------------------------------------
\* query() has a query saved for resending exactly while it waits, and that
\* query asks for the key it looks up, so nothing is resent for a call that
\* is over.
QueryTypeOK ==
  /\ at \in [Node -> {"ready", "copying", "sending", "waiting", "returned"}]
  /\ key \in [Node -> Key \cup {NULL}]
  /\ answer \in [Node -> Node \cup {NULL}]
  /\ queryTimer \in [Node -> Datagram \cup {NULL}]
  /\ \A n \in Node :
       IF at[n] = "waiting"
       THEN queryTimer[n] \in Datagram /\ queryTimer[n].searchTerm = key[n]
       ELSE queryTimer[n] = NULL
  /\ calls \in 0 .. MaxTrouble
  /\ calm \in [Node -> BOOLEAN]

\* Some host has set a finger.
Fingered == \E n \in Node : Entries(fingers[n]) # {}

\* A call made in a settled ring, with nothing left of an earlier call for the
\* key, that returns before another host begins to join gives the owner of its
\* key among the members, whatever datagrams of the joins before it and of
\* stabilize() are still on their way.  Once the finger job has set a finger it
\* may also give the host that asked: a finger beyond the owner leads the query
\* round the ring and back (the run lookup_wrong of ChordLookup).  It never
\* gives a third host.
SettledOwnerOrAsker ==
  [][\A n \in Node :
       at[n] # "returned" /\ at'[n] = "returned" /\ calm'[n] =>
         \/ answer'[n] = Owner(Members, key'[n])
         \/ Fingered /\ answer'[n] = n]_queryVars

\* A lookup returns although the ring changes under it: wherever the pointers
\* of joining hosts lead the query, an answer finds its way to the host that
\* asked, or the query is resent until one does.  Checked while no finger is
\* set: a finger may name the host itself, and a query that query() addresses to
\* its own host vanishes and is resent in vain.
CallsReturn == \A n \in Asker : at[n] # "ready" ~> at[n] = "returned"
=============================================================================
