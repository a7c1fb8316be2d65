------------------------------ MODULE RingCalls ------------------------------
(***************************************************************************)
(* Lookups and maps together: the calls an application makes on a ring     *)
(* while hosts join it.  Each host has one command line, which waits for   *)
(* query() or for getChordMap(), and one worker, which handles the         *)
(* datagrams of both.                                                      *)
(***************************************************************************)
EXTENDS ChordLookup

CONSTANT MaxHops    \* bound: how often a map query is passed on

ASSUME HopsAssumption == MaxHops \in Nat

VARIABLES newcomer, state, chordMapResponseQueue, shown, mapNet, undisturbed

Map == INSTANCE ChordMap WITH net <- mapNet

lookupOwn == <<call, waiting, answer, sendTimers, successorResponseQueue, fingers, net>>
mapOwn == <<newcomer, state, chordMapResponseQueue, shown, mapNet, undisturbed>>
callsVars == <<vars, mapOwn>>

CallsInit == Init /\ Map!Init

-----------------------------------------------------------------------------
\* The command line is free for a lookup, or for a map.
Lookup(n) == state[n] = "SERVICING" /\ Ask(n)
MapCall(n) == call[n] = NULL /\ Map!StartMap(n)

LookupStep ==
  \/ \E n \in Node : \/ Lookup(n) \/ QueryReturns(n) \/ GiveUp(n)
                     \/ ResendTimedOut(n) \/ UpdateFingers(n)
  \/ \E m \in net : Receive(m) \/ Lose(m)

MapStep ==
  \/ \E n \in Node : MapCall(n) \/ Map!ReturnMap(n) \/ Map!Join(n)
  \/ \E m \in mapNet : Map!Receive(m) \/ Map!Lose(m)

CallsNext ==
  \/ LookupStep /\ UNCHANGED mapOwn
  \/ MapStep /\ UNCHANGED lookupOwn
  \/ Map!Settle /\ Grow(newcomer)

CallsSpec == CallsInit /\ [][CallsNext]_callsVars

\* As in ChordLookup; a map is returned when it is complete.
CallsFairness ==
  /\ \A n \in Node : /\ WF_callsVars(QueryReturns(n) /\ UNCHANGED mapOwn)
                     /\ WF_callsVars(ResendTimedOut(n) /\ UNCHANGED mapOwn)
                     /\ WF_callsVars(Map!ReturnMap(n) /\ UNCHANGED lookupOwn)
  /\ \A m \in OfLookups : WF_callsVars(m \in net /\ Receive(m) /\ UNCHANGED mapOwn)
  /\ \A m \in Map!Datagram :
       WF_callsVars(m \in mapNet /\ Map!Receive(m) /\ UNCHANGED lookupOwn)

FairCallsSpec == CallsSpec /\ CallsFairness

-----------------------------------------------------------------------------
\* The properties of ChordMap, in a ring that is also used for lookups.
MapTypeOK == Map!TypeOK
MapIsRight == Map!MapIsRight
MapIsWhole == Map!MapIsWhole
MapReturns == Map!MapReturns
=============================================================================
