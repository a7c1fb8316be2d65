------------------------------ MODULE SampleApp ------------------------------
(***************************************************************************)
(* One process from main() to its end: the service started by start() and  *)
(* stopped by stop(), its worker thread (ThreadFactory), the listener and  *)
(* the command line.  Notifications is the part of it that runs between    *)
(* the two; here its steps are taken by threads that start, block and end. *)
(*                                                                         *)
(* receiveMessage() passes select() an fd_set of which it set one bit and  *)
(* cleared none.  If another descriptor in it is ready or is not open,     *)
(* select() returns and recvfrom() blocks until a datagram comes; closing  *)
(* the socket does not wake it.                                            *)
(***************************************************************************)
EXTENDS Notifications

CONSTANT MaxStray    \* bound: datagrams that are empty or of an unknown type

ASSUME MaxStrayAssumption == MaxStray \in Nat

VARIABLES
  main,        \* where the main thread is: what it does next
  status,      \* ChordStatus::status state
  socket,      \* chord_sfd: "none", "open", "closed", or "reused" for another
  thread,      \* the worker thread: "none", "running" its loop, "handling" a
               \* datagram, "blocked", "ended"
  subscriber,  \* the listener thread: "none", "looping", "looking", "ended"
  interrupt,   \* set to end the listener
  command,     \* does a command run?
  stray,       \* counted for the bound
  intruded     \* observed: main() has freed the lock while the listener held it

service == <<status, socket, thread, stray>>
appVars == <<vars, main, service, subscriber, interrupt, command, intruded>>

AppInit ==
  /\ Init
  /\ main = "constructing"
  /\ status = "UNINITIALIZED"
  /\ socket = "none"
  /\ thread = "none"
  /\ subscriber = "none"
  /\ interrupt = FALSE
  /\ command = FALSE
  /\ stray = 0
  /\ intruded = FALSE

Goes(from, to) == main = from /\ main' = to

\* The process has ended: main() returned, or the listener crashed.
Over == main \in {"over", "failed"} \/ listener = "crashed"

-----------------------------------------------------------------------------
(* main() up to the command loop; start() is connect to declare.           *)

InitService ==
  /\ Goes("constructing", "subscribing")
  /\ status' = "INITIALIZED"
  /\ UNCHANGED <<vars, socket, thread, stray, subscriber, interrupt, command, intruded>>

Subscribe ==
  /\ Goes("subscribing", "connecting")
  /\ subscriber' = "looping"
  /\ UNCHANGED <<vars, service, interrupt, command, intruded>>

\* A step of start() fails: start() returns false and main() ends the process.
StartFails ==
  /\ main \in {"connecting", "binding", "joining", "threading"}
  /\ main' = "failed"
  /\ status' = "SERVICE_FAILED"
  /\ UNCHANGED <<vars, socket, thread, stray, subscriber, interrupt, command, intruded>>

Connect ==
  /\ Goes("connecting", "binding")
  /\ socket' = "open"
  /\ UNCHANGED <<vars, status, thread, stray, subscriber, interrupt, command, intruded>>

Bind ==
  /\ Goes("binding", "joining")
  /\ status' = "WAITING_TO_JOIN"
  /\ UNCHANGED <<vars, socket, thread, stray, subscriber, interrupt, command, intruded>>

\* What join() does is the subject of ChordRing.
Join ==
  /\ Goes("joining", "threading")
  /\ status' = "IN_NETWORK"
  /\ UNCHANGED <<vars, socket, thread, stray, subscriber, interrupt, command, intruded>>

StartThread ==
  /\ Goes("threading", "declaring")
  /\ thread' = "running"
  /\ UNCHANGED <<vars, status, socket, stray, subscriber, interrupt, command, intruded>>

\* The worker runs already, and half a second passes before main() goes on.
Declare ==
  /\ Goes("declaring", "locking")
  /\ status' = "SERVICING"
  /\ UNCHANGED <<vars, socket, thread, stray, subscriber, interrupt, command, intruded>>

-----------------------------------------------------------------------------
(* The command loop.                                                       *)

Intrudes == intruded' = (intruded \/ listener = "syncing")

InitInputLock ==
  /\ Goes("locking", "looping")
  /\ InitLock
  /\ Intrudes
  /\ UNCHANGED <<service, subscriber, interrupt, command>>

\* The loop's first unlock is of a lock that main() does not hold.
NextPrompt ==
  /\ Goes("looping", "looping")
  /\ Prompt
  /\ command' = FALSE
  /\ IF command THEN UNCHANGED intruded ELSE Intrudes
  /\ UNCHANGED <<service, subscriber, interrupt>>

RunCommand ==
  /\ Goes("looping", "looping")
  /\ GetCommand
  /\ command' = TRUE
  /\ UNCHANGED <<service, subscriber, interrupt, intruded>>

-----------------------------------------------------------------------------
(* The exit command: stop(), and the end of main().  The documentation     *)
(* says that it will hang, as no node can leave its ring: nothing here     *)
(* waits for the ring.  stop() waits for the worker, which leaves its loop *)
(* at its next look at the closed socket, if it takes one.                 *)

StaysInService(s) == s
StatusAtStop(s) == "SERVICE_CLOSING"

Exit ==
  /\ Goes("looping", "closing")
  /\ command
  /\ status' = StatusAtStop(status)
  /\ UNCHANGED <<vars, socket, thread, stray, subscriber, interrupt, command, intruded>>

CloseSocket ==
  /\ Goes("closing", "waiting")
  /\ socket' = "closed"
  /\ UNCHANGED <<vars, status, thread, stray, subscriber, interrupt, command, intruded>>

WaitExit ==
  /\ Goes("waiting", "unlocking")
  /\ thread = "ended"
  /\ UNCHANGED <<vars, service, subscriber, interrupt, command, intruded>>

UnlockAtExit ==
  /\ Goes("unlocking", "interrupting")
  /\ Prompt
  /\ command' = FALSE
  /\ UNCHANGED <<service, subscriber, interrupt, intruded>>

Interrupt ==
  /\ Goes("interrupting", "finishing")
  /\ interrupt' = TRUE
  /\ UNCHANGED <<vars, service, subscriber, command, intruded>>

JoinListener ==
  /\ Goes("finishing", "over")
  /\ subscriber = "ended"
  /\ UNCHANGED <<vars, service, subscriber, interrupt, command, intruded>>

-----------------------------------------------------------------------------
(* The worker thread.                                                      *)

othersUnchanged == <<main, subscriber, interrupt, command, intruded>>

Block ==
  /\ thread = "running"
  /\ socket = "open"
  /\ thread' = "blocked"
  /\ UNCHANGED <<vars, othersUnchanged, status, socket, stray>>

\* A datagram comes, if need be on the socket that is already closed.
TakeDatagram ==
  /\ \/ thread = "running" /\ socket = "open"
     \/ thread = "blocked"
  /\ thread' = "handling"
  /\ UNCHANGED <<vars, othersUnchanged, status, socket, stray>>

\* Most datagrams push no notification; where one does, that is the last
\* thing its handler does.
HandleQuietly ==
  /\ thread = "handling" /\ worker = "serving"
  /\ thread' = "running"
  /\ UNCHANGED <<vars, othersUnchanged, status, socket, stray>>

Push ==
  /\ thread = "handling"
  /\ PushToList
  /\ UNCHANGED <<othersUnchanged, service>>

EndPush ==
  /\ RaiseFlag
  /\ thread' = "running"
  /\ UNCHANGED <<othersUnchanged, status, socket, stray>>

\* Neither unserialize() nor recvfrom() has a message for the worker, which
\* takes that for a closed socket.
TakeStray ==
  /\ stray < MaxStray
  /\ \/ thread = "running" /\ socket = "open"
     \/ thread = "blocked"
  /\ stray' = stray + 1
  /\ thread' = "ended"
  /\ UNCHANGED <<vars, othersUnchanged, status, socket>>

TriesAgain(s) == FALSE
ReceiveFails(s) == s = "closed"

EndWorker ==
  /\ thread = "running"
  /\ ReceiveFails(socket)
  /\ thread' = "ended"
  /\ UNCHANGED <<vars, othersUnchanged, status, socket, stray>>

\* createNode(), in a handler that began before the socket was closed, is
\* given its descriptor: the worker now polls a socket nobody sends to.
ReuseDescriptor ==
  /\ thread = "handling" /\ worker = "serving"
  /\ socket = "closed"
  /\ socket' = "reused"
  /\ UNCHANGED <<vars, othersUnchanged, status, thread, stray>>

-----------------------------------------------------------------------------
(* The listener thread: interrupt, then the flag, then a notification.     *)

LoopTop ==
  /\ subscriber = "looping" /\ listener = "polling"
  /\ subscriber' = IF interrupt THEN "ended" ELSE "looking"
  /\ UNCHANGED <<vars, main, service, interrupt, command, intruded>>

NothingNew ==
  /\ subscriber = "looking"
  /\ ~ hasNotif
  /\ subscriber' = "looping"
  /\ UNCHANGED <<vars, main, service, interrupt, command, intruded>>

LooksForEver(s) == s
AfterLooking(s) == "looping"

SomethingNew ==
  /\ subscriber = "looking"
  /\ SeeNotification
  /\ subscriber' = AfterLooking(subscriber)
  /\ UNCHANGED <<main, service, interrupt, command, intruded>>

HandleNotification ==
  /\ PopFirst \/ LowerFlag \/ Crash \/ LockInput \/ UnlockInput
  /\ UNCHANGED <<main, service, subscriber, interrupt, command, intruded>>

-----------------------------------------------------------------------------
Starts ==
  \/ InitService \/ Subscribe \/ StartFails \/ Connect \/ Bind \/ Join
  \/ StartThread \/ Declare

Loops == InitInputLock \/ NextPrompt \/ RunCommand \/ Exit

Ends == CloseSocket \/ WaitExit \/ UnlockAtExit \/ Interrupt \/ JoinListener

WorkerThread ==
  \/ Block \/ TakeDatagram \/ HandleQuietly \/ Push \/ EndPush
  \/ TakeStray \/ EndWorker \/ ReuseDescriptor

ListenerThread == LoopTop \/ NothingNew \/ SomethingNew \/ HandleNotification

AppNext == ~ Over /\ (Starts \/ Loops \/ Ends \/ WorkerThread \/ ListenerThread)

AppSpec == AppInit /\ [][AppNext]_appVars

\* As in Notifications: threads run on and commands return.  The user need
\* not type, start() need not succeed, and no datagram need come.
AppFairness ==
  /\ WF_appVars(~ Over /\ (HandleQuietly \/ Push \/ EndPush))
  /\ WF_appVars(~ Over /\ ListenerThread)
  /\ SF_appVars(~ Over /\ HandleNotification /\ LockInput)
  /\ WF_appVars(~ Over /\ (InitInputLock \/ NextPrompt))
  /\ WF_appVars(~ Over /\ Ends)
  /\ WF_appVars(~ Over /\ EndWorker)

FairAppSpec == AppSpec /\ AppFairness

-----------------------------------------------------------------------------
MainStep ==
  {"constructing", "subscribing", "connecting", "binding", "joining", "threading",
   "declaring", "locking", "looping", "closing", "waiting", "unlocking",
   "interrupting", "finishing", "over", "failed"}

Status ==
  {"UNINITIALIZED", "INITIALIZED", "WAITING_TO_JOIN", "IN_NETWORK", "SERVICING",
   "SERVICE_CLOSING", "SERVICE_FAILED"}

AppTypeOK ==
  /\ main \in MainStep
  /\ status \in Status
  /\ socket \in {"none", "open", "closed", "reused"}
  /\ thread \in {"none", "running", "handling", "blocked", "ended"}
  /\ subscriber \in {"none", "looping", "looking", "ended"}
  /\ subscriber \in {"none", "looking"} => listener = "polling"
  /\ worker = "raising" => thread = "handling"
  /\ interrupt \in BOOLEAN /\ command \in BOOLEAN /\ intruded \in BOOLEAN
  /\ stray \in 0 .. MaxStray

\* "Used to lock user input while synchronizing": no command runs while the
\* listener synchronizes, unless main(), which initializes and then unlocks the
\* lock when the listener has been running for a while, freed it under it.
SyncExcludesCommands ==
  listener = "syncing" /\ command => intruded

\* A service that calls itself SERVICING has a worker with an open socket,
\* unless a datagram that is no message has ended the worker.
ServiceHasWorker ==
  status = "SERVICING" =>
    socket = "open" /\ (thread \in {"running", "handling", "blocked"} \/ stray > 0)

\* Every notification pushed is handled, unless the process ends, or exit is
\* waiting for the worker with user input locked.
HandledOrOver ==
  \A k \in 1 .. MaxPushed :
    pushed >= k ~> Len(handled) >= k \/ Over \/ interrupt \/ main = "waiting"

\* The exit command ends the process, unless the worker is blocked in
\* recvfrom() or its closed descriptor has been given to another socket.  The
\* program announces that exit makes it hang (src/README.md, SampleApp.cpp:35);
\* in the code that is so in these two cases and in no other.
ExitEnds ==
  main = "closing" ~>
    \/ Over
    \/ main = "waiting" /\ (thread = "blocked" \/ socket = "reused")
=============================================================================
