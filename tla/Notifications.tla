---------------------------- MODULE Notifications ----------------------------
(***************************************************************************)
(* Class ServiceNotification and its use in SampleApp: the worker thread   *)
(* pushes a notification for each UPDATE_PREDECESSOR it handles, the       *)
(* listener thread polls and pops them, and handles each under the lock    *)
(* that the command line holds while a command runs.                       *)
(*                                                                         *)
(* A critical section that takes no further lock is one step, so only      *)
(* nlistLock, which popNotification holds while it takes notifierLock, and *)
(* userInputLock appear as variables.  hasNotification reads the flag      *)
(* without a lock: it sees whatever was last written.                      *)
(***************************************************************************)
EXTENDS Naturals, Sequences

CONSTANT MaxPushed    \* bound: how many notifications the service pushes

ASSUME MaxPushedAssumption == MaxPushed \in Nat

VARIABLES
  notifications,   \* the queue, as the numbers of the pushes
  hasNotif,
  nlistLock,       \* TRUE while popNotification holds it between steps
  pushed,          \* how many were pushed
  worker,          \* where the worker thread is
  listener,        \* where the listener thread is
  cnotif,          \* what popNotification returned last, 0 standing for NULL
  handled,         \* notifications the listener has acted on
  userInputLock,   \* TRUE while locked
  commandLine      \* where the main thread is

channel == <<notifications, hasNotif, nlistLock, pushed>>
vars == <<channel, worker, listener, cnotif, handled, userInputLock, commandLine>>

Init ==
  /\ notifications = <<>>
  /\ hasNotif = FALSE
  /\ nlistLock = FALSE
  /\ pushed = 0
  /\ worker = "serving"
  /\ listener = "polling"
  /\ cnotif = 0
  /\ handled = <<>>
  /\ userInputLock = FALSE
  /\ commandLine = "starting"

-----------------------------------------------------------------------------
(* pushNotification, in the worker thread.                                 *)

PushToList ==
  /\ worker = "serving"
  /\ pushed < MaxPushed
  /\ ~ nlistLock
  /\ pushed' = pushed + 1
  /\ notifications' = Append(notifications, pushed')
  /\ worker' = "raising"
  /\ UNCHANGED <<hasNotif, nlistLock, listener, cnotif, handled, userInputLock,
                 commandLine>>

RaiseFlag ==
  /\ worker = "raising"
  /\ hasNotif' = TRUE
  /\ worker' = "serving"
  /\ UNCHANGED <<notifications, nlistLock, pushed, listener, cnotif, handled,
                 userInputLock, commandLine>>

-----------------------------------------------------------------------------
(* notificationListener, in its own thread.                                *)

SeeNotification ==
  /\ listener = "polling"
  /\ hasNotif
  /\ listener' = "popping"
  /\ UNCHANGED <<channel, worker, cnotif, handled, userInputLock, commandLine>>

TakesNewest(s) == SubSeq(s, 1, Len(s) - 1)
Rest(s) == Tail(s)

\* nlistLock is kept from the pop until the flag is lowered.
ReleasesEarly(rest) == FALSE
ForgetsToRelease(rest) == TRUE
KeepsLock(rest) == rest = <<>>

\* popNotification: takes the first notification; if none is left it goes on
\* to lower the flag, without releasing nlistLock in between.
PopFirst ==
  LET rest == IF notifications = <<>> THEN <<>> ELSE Rest(notifications) IN
  /\ listener = "popping"
  /\ ~ nlistLock
  /\ cnotif' = IF notifications = <<>> THEN 0 ELSE Head(notifications)
  /\ notifications' = rest
  /\ nlistLock' = KeepsLock(rest)
  /\ listener' = IF rest = <<>> THEN "lowering" ELSE "handling"
  /\ UNCHANGED <<hasNotif, pushed, worker, handled, userInputLock, commandLine>>

LowerFlag ==
  /\ listener = "lowering"
  /\ hasNotif' = FALSE
  /\ nlistLock' = FALSE
  /\ listener' = "handling"
  /\ UNCHANGED <<notifications, pushed, worker, cnotif, handled, userInputLock,
                 commandLine>>

\* cnotif->getType() through a null pointer ends the process.
Crash ==
  /\ listener = "handling"
  /\ cnotif = 0
  /\ listener' = "crashed"
  /\ UNCHANGED <<channel, worker, cnotif, handled, userInputLock, commandLine>>

LockInput ==
  /\ listener = "handling"
  /\ cnotif # 0
  /\ ~ userInputLock
  /\ userInputLock' = TRUE
  /\ handled' = Append(handled, cnotif)
  /\ listener' = "syncing"
  /\ UNCHANGED <<channel, worker, cnotif, commandLine>>

UnlockInput ==
  /\ listener = "syncing"
  /\ userInputLock' = FALSE
  /\ listener' = "polling"
  /\ UNCHANGED <<channel, worker, cnotif, handled, commandLine>>

-----------------------------------------------------------------------------
(* main and commandLoop.  The listener is already running when the lock is *)
(* initialised, and the loop begins by unlocking a lock it does not hold.  *)

InitLock ==
  /\ commandLine = "starting"
  /\ userInputLock' = FALSE
  /\ commandLine' = "unlocking"
  /\ UNCHANGED <<channel, worker, listener, cnotif, handled>>

Prompt ==
  /\ commandLine = "unlocking"
  /\ userInputLock' = FALSE
  /\ commandLine' = "reading"
  /\ UNCHANGED <<channel, worker, listener, cnotif, handled>>

\* From here to the next unlock the command runs.
GetCommandUnlocked ==
  /\ commandLine = "reading"
  /\ commandLine' = "unlocking"
  /\ UNCHANGED <<channel, worker, listener, cnotif, handled, userInputLock>>

GetCommand ==
  /\ commandLine = "reading"
  /\ ~ userInputLock
  /\ userInputLock' = TRUE
  /\ commandLine' = "unlocking"
  /\ UNCHANGED <<channel, worker, listener, cnotif, handled>>

-----------------------------------------------------------------------------
Worker == PushToList \/ RaiseFlag

Listener ==
  \/ SeeNotification \/ PopFirst \/ LowerFlag \/ Crash \/ LockInput \/ UnlockInput

CommandLine == InitLock \/ Prompt \/ GetCommand

Next == listener # "crashed" /\ (Worker \/ Listener \/ CommandLine)

Spec == Init /\ [][Next]_vars

-----------------------------------------------------------------------------
TypeOK ==
  /\ notifications \in Seq(1 .. MaxPushed)
  /\ hasNotif \in BOOLEAN
  /\ nlistLock \in BOOLEAN
  /\ nlistLock <=> listener = "lowering"
  /\ pushed \in 0 .. MaxPushed
  /\ worker \in {"serving", "raising"}
  /\ listener \in {"polling", "popping", "lowering", "handling", "syncing", "crashed"}
  /\ cnotif \in 0 .. MaxPushed
  /\ handled \in Seq(1 .. MaxPushed)
  /\ userInputLock \in BOOLEAN
  /\ commandLine \in {"starting", "unlocking", "reading"}

\* No lost wakeup: while a notification waits in the list, the flag the
\* listener polls is up, or the thread that put it there is about to raise it.
NoLostWakeup ==
  notifications # <<>> => hasNotif \/ worker = "raising"

\* What was pushed and the listener has not yet acted on.
InHand == listener \in {"lowering", "handling"} /\ cnotif # 0

Pending == IF InHand THEN <<cnotif>> \o notifications ELSE notifications

\* The subscriber handles each notification once, in the order pushed,
\* although a pop and a push each take several steps.
Channel == INSTANCE NotificationChannel WITH Item <- 1 .. MaxPushed, pending <- Pending

InOrder == Channel!Spec

\* "Use this to obtain next notification": after hasNotification() has said
\* that there is one, popNotification() returns it.
NextIsObtained == listener = "handling" => cnotif # 0
=============================================================================
