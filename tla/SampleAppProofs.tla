--------------------------- MODULE SampleAppProofs ---------------------------
(***************************************************************************)
(* Proofs for every number of notifications and of stray datagrams.  First *)
(* Notifications: the lock discipline and types, that no wakeup is lost,   *)
(* and that the queue with its two locks implements NotificationChannel.   *)
(* Then SampleApp: the process takes only the steps of Notifications, so   *)
(* that what is proved there holds of it; that its service has a worker;   *)
(* and when the input lock does what it is for.                            *)
(***************************************************************************)
EXTENDS SampleApp, SequenceTheorems, TLAPS

Item == 1 .. MaxPushed

\* The flag is lowered only while the list is empty: popNotification has kept
\* nlistLock since it saw that.
EmptyWhileLowering == listener = "lowering" => notifications = <<>>

Inv == TypeOK /\ EmptyWhileLowering /\ NoLostWakeup

-----------------------------------------------------------------------------
(* Facts about sequences.                                                  *)

LEMMA AppendItem ==
  ASSUME NEW S, NEW s \in Seq(S), NEW x \in S
  PROVE  Append(s, x) \in Seq(S) /\ Append(s, x) # <<>>
<1>1. Append(s, x) \in Seq(S) /\ Len(Append(s, x)) = Len(s) + 1
  OBVIOUS
<1>2. Len(s) \in Nat
  BY LenProperties
<1> QED
  BY <1>1, <1>2, EmptySeq

\* A sequence is its head followed by its tail.
LEMMA HeadThenTail ==
  ASSUME NEW S, NEW s \in Seq(S), s # <<>>
  PROVE  <<Head(s)>> \o Tail(s) = s
<1>1. Head(s) \in S /\ Tail(s) \in Seq(S) /\ Len(Tail(s)) = Len(s) - 1
  BY HeadTailProperties
<1>2. Len(s) \in Nat \ {0}
  BY EmptySeq
<1>3. s = SubSeq(s, 1, Len(s)) /\ Tail(s) = SubSeq(s, 2, Len(s))
  BY SubSeqFull, TailIsSubSeq
<1>4. SubSeq(s, 1, Len(s)) = <<s[1]>> \o SubSeq(s, 2, Len(s))
  BY <1>2, SubSeqRecursiveFirst
<1>5. Head(s) = s[1]
  BY <1>2
<1> QED
  BY <1>3, <1>4, <1>5

\* What is put in front of a sequence is its head, and the rest its tail.
LEMMA PrefixedSequence ==
  ASSUME NEW S, NEW x \in S, NEW s \in Seq(S)
  PROVE  /\ <<x>> \o s \in Seq(S)
         /\ <<x>> \o s # <<>>
         /\ Head(<<x>> \o s) = x
         /\ Tail(<<x>> \o s) = s
<1> DEFINE t == <<x>> \o s
<1>1. <<x>> \in Seq(S) /\ Len(<<x>>) = 1
  OBVIOUS
<1>2. /\ t \in Seq(S)
      /\ Len(t) = 1 + Len(s)
      /\ \A i \in 1 .. 1 + Len(s) :
           t[i] = IF i <= 1 THEN <<x>>[i] ELSE s[i - 1]
  BY <1>1, ConcatProperties
<1>3. Len(s) \in Nat
  BY LenProperties
<1> HIDE DEF t
<1>4. t # <<>>
  BY <1>2, <1>3, EmptySeq
<1>5. Head(t) = x
  BY <1>2, <1>3, <1>4
<1>6. /\ Tail(t) \in Seq(S)
      /\ Len(Tail(t)) = Len(s)
      /\ \A i \in 1 .. Len(s) : Tail(t)[i] = t[i + 1]
  BY <1>2, <1>3, <1>4, HeadTailProperties
<1>7. \A i \in 1 .. Len(s) : Tail(t)[i] = s[i]
  BY <1>2, <1>3, <1>6
<1>8. Tail(t) = s
  BY <1>6, <1>7, SeqEqual
<1> QED
  BY <1>2, <1>4, <1>5, <1>8 DEF t

\* Appending behind a prefix is appending to the whole.
LEMMA AppendBehindPrefix ==
  ASSUME NEW S, NEW x \in S, NEW y \in S, NEW s \in Seq(S)
  PROVE  <<x>> \o Append(s, y) = Append(<<x>> \o s, y)
<1>1. <<x>> \in Seq(S) /\ <<y>> \in Seq(S)
  OBVIOUS
<1>2. <<x>> \o s \in Seq(S)
  BY PrefixedSequence
<1>3. Append(s, y) = s \o <<y>>
  OBVIOUS
<1>4. Append(<<x>> \o s, y) = (<<x>> \o s) \o <<y>>
  BY <1>2
<1>5. (<<x>> \o s) \o <<y>> = <<x>> \o (s \o <<y>>)
  BY <1>1, ConcatAssociative
<1> QED
  BY <1>3, <1>4, <1>5

-----------------------------------------------------------------------------
(* The inductive invariant.                                                *)

LEMMA InitInv == Init => Inv
<1> SUFFICES ASSUME Init PROVE Inv
  OBVIOUS
<1>1. notifications \in Seq(1 .. MaxPushed) /\ handled \in Seq(1 .. MaxPushed)
  BY EmptySeq DEF Init
<1>2. pushed \in 0 .. MaxPushed /\ cnotif \in 0 .. MaxPushed
  BY MaxPushedAssumption DEF Init, MaxPushedAssumption
<1>3. nlistLock \in BOOLEAN /\ (nlistLock <=> listener = "lowering")
  BY DEF Init
<1>4. hasNotif \in BOOLEAN /\ userInputLock \in BOOLEAN
  BY DEF Init
<1>5. TypeOK
  BY <1>1, <1>2, <1>3, <1>4 DEF Init, TypeOK
<1> QED
  BY <1>5 DEF Init, Inv, EmptyWhileLowering, NoLostWakeup

LEMMA PushToListInv == Inv /\ PushToList => Inv'
<1> SUFFICES ASSUME Inv, PushToList PROVE Inv'
  OBVIOUS
<1> USE MaxPushedAssumption DEF Inv, PushToList, MaxPushedAssumption
<1>1. pushed' \in 1 .. MaxPushed /\ pushed' \in 0 .. MaxPushed
  BY DEF TypeOK
<1>2. notifications' \in Seq(1 .. MaxPushed) /\ notifications' # <<>>
  BY <1>1, AppendItem DEF TypeOK
<1>3. TypeOK'
  BY <1>1, <1>2 DEF TypeOK
<1>4. EmptyWhileLowering'
  BY DEF EmptyWhileLowering, TypeOK
<1>5. NoLostWakeup'
  BY DEF NoLostWakeup
<1> QED
  BY <1>3, <1>4, <1>5

LEMMA PopFirstInv == Inv /\ PopFirst => Inv'
<1> SUFFICES ASSUME Inv, PopFirst PROVE Inv'
  OBVIOUS
<1> USE MaxPushedAssumption DEF Inv, MaxPushedAssumption
<1>1. CASE notifications = <<>>
  <2>1. cnotif' = 0 /\ notifications' = <<>> /\ listener' = "lowering"
    BY <1>1 DEF PopFirst
  <2>2. nlistLock' = TRUE
    BY <1>1 DEF PopFirst, KeepsLock
  <2>3. notifications' \in Seq(1 .. MaxPushed) /\ cnotif' \in 0 .. MaxPushed
    BY <2>1, EmptySeq
  <2>4. nlistLock' \in BOOLEAN /\ (nlistLock' <=> listener' = "lowering")
    BY <2>1, <2>2
  <2>5. TypeOK'
    BY <2>1, <2>3, <2>4 DEF PopFirst, TypeOK
  <2> QED
    BY <2>1, <2>5 DEF EmptyWhileLowering, NoLostWakeup
<1>2. CASE notifications # <<>>
  <2>1. /\ Head(notifications) \in 1 .. MaxPushed
        /\ Tail(notifications) \in Seq(1 .. MaxPushed)
    BY <1>2, HeadTailProperties DEF TypeOK
  <2>2. cnotif' = Head(notifications) /\ notifications' = Tail(notifications)
    BY <1>2 DEF PopFirst, Rest
  <2>3. nlistLock' \in BOOLEAN /\ (nlistLock' <=> listener' = "lowering")
    BY <1>2 DEF PopFirst, KeepsLock, Rest
  <2>4. listener' = "lowering" => notifications' = <<>>
    BY <1>2 DEF PopFirst, Rest
  <2>5. listener' \in {"lowering", "handling"}
    BY DEF PopFirst
  <2>6. notifications' \in Seq(1 .. MaxPushed) /\ cnotif' \in 0 .. MaxPushed
    BY <2>1, <2>2
  <2>7. TypeOK'
    BY <2>3, <2>5, <2>6 DEF PopFirst, TypeOK
  <2>8. NoLostWakeup'
    BY <1>2 DEF PopFirst, NoLostWakeup
  <2> QED
    BY <2>4, <2>7, <2>8 DEF EmptyWhileLowering
<1> QED
  BY <1>1, <1>2

LEMMA LockInputInv == Inv /\ LockInput => Inv'
<1> SUFFICES ASSUME Inv, LockInput PROVE Inv'
  OBVIOUS
<1>1. cnotif \in 1 .. MaxPushed
  BY MaxPushedAssumption DEF Inv, TypeOK, LockInput, MaxPushedAssumption
<1>2. handled' \in Seq(1 .. MaxPushed)
  BY <1>1, AppendItem DEF Inv, TypeOK, LockInput
<1> QED
  BY <1>2 DEF Inv, TypeOK, LockInput, channel, EmptyWhileLowering, NoLostWakeup

LEMMA OtherStepsInv ==
  ASSUME Inv,
         \/ RaiseFlag \/ SeeNotification \/ LowerFlag \/ Crash \/ UnlockInput
         \/ CommandLine \/ UNCHANGED vars
  PROVE  Inv'
<1> USE DEF Inv, TypeOK, EmptyWhileLowering, NoLostWakeup, channel
<1>1. CASE RaiseFlag
  BY <1>1 DEF RaiseFlag
<1>2. CASE SeeNotification
  BY <1>2 DEF SeeNotification
<1>3. CASE LowerFlag
  BY <1>3 DEF LowerFlag
<1>4. CASE Crash
  BY <1>4 DEF Crash
<1>5. CASE UnlockInput
  BY <1>5 DEF UnlockInput
<1>6. CASE InitLock
  BY <1>6 DEF InitLock
<1>7. CASE Prompt
  BY <1>7 DEF Prompt
<1>8. CASE GetCommand
  BY <1>8 DEF GetCommand
<1>9. CASE UNCHANGED vars
  BY <1>9 DEF vars
<1> QED
  BY <1>1, <1>2, <1>3, <1>4, <1>5, <1>6, <1>7, <1>8, <1>9 DEF CommandLine

LEMMA StepInv == Inv /\ [Next]_vars => Inv'
  BY PushToListInv, PopFirstInv, LockInputInv, OtherStepsInv
  DEF Next, Worker, Listener

THEOREM Invariance == Spec => []Inv
  BY InitInv, StepInv, PTL DEF Spec

\* nlistLock is held exactly between the pop that empties the list and the
\* lowering of the flag, and every variable keeps its type.
THEOREM TypeCorrect == Spec => []TypeOK
  BY Invariance, PTL DEF Inv

\* A notification in the list is never overlooked by the polling listener.
THEOREM WakeupKept == Spec => []NoLostWakeup
  BY Invariance, PTL DEF Inv

-----------------------------------------------------------------------------
(* Refinement: each step is a step of the channel, or changes nothing in it.*)

LEMMA InitRefines == Init => Channel!Init
  BY DEF Init, Channel!Init, Pending, InHand

LEMMA PushToListRefines == Inv /\ PushToList => Channel!Push
<1> SUFFICES ASSUME Inv, PushToList PROVE Channel!Push
  OBVIOUS
<1>1. pushed' \in 1 .. MaxPushed /\ notifications' = Append(notifications, pushed')
  BY MaxPushedAssumption DEF Inv, TypeOK, PushToList, MaxPushedAssumption
<1>2. handled' = handled /\ cnotif' = cnotif /\ (InHand' <=> InHand)
  BY DEF PushToList, InHand
<1>3. Pending' = Append(Pending, pushed')
  <2>1. CASE InHand
    <3>1. cnotif \in 1 .. MaxPushed
      BY <2>1, MaxPushedAssumption DEF Inv, TypeOK, InHand, MaxPushedAssumption
    <3>2. <<cnotif>> \o Append(notifications, pushed')
            = Append(<<cnotif>> \o notifications, pushed')
      BY <1>1, <3>1, AppendBehindPrefix DEF Inv, TypeOK
    <3> QED
      BY <1>1, <1>2, <2>1, <3>2 DEF Pending
  <2>2. CASE ~ InHand
    BY <1>1, <1>2, <2>2 DEF Pending
  <2> QED
    BY <2>1, <2>2
<1> QED
  BY <1>1, <1>2, <1>3 DEF Channel!Push

\* What popNotification returns goes from the list into the listener's hand.
LEMMA PopFirstRefines == Inv /\ PopFirst => UNCHANGED <<Pending, handled>>
<1> SUFFICES ASSUME Inv, PopFirst PROVE Pending' = Pending /\ handled' = handled
  OBVIOUS
<1>1. Pending = notifications
  BY DEF PopFirst, Pending, InHand
<1>2. CASE notifications = <<>>
  <2>1. cnotif' = 0 /\ notifications' = <<>>
    BY <1>2 DEF PopFirst
  <2> QED
    BY <1>1, <1>2, <2>1 DEF PopFirst, Pending, InHand
<1>3. CASE notifications # <<>>
  <2>1. cnotif' = Head(notifications) /\ notifications' = Tail(notifications)
    BY <1>3 DEF PopFirst, Rest
  <2>2. Head(notifications) \in 1 .. MaxPushed
    BY <1>3, HeadTailProperties DEF Inv, TypeOK
  <2>3. InHand'
    BY <2>1, <2>2, MaxPushedAssumption DEF PopFirst, InHand, MaxPushedAssumption
  <2>4. <<Head(notifications)>> \o Tail(notifications) = notifications
    BY <1>3, HeadThenTail DEF Inv, TypeOK
  <2> QED
    BY <1>1, <2>1, <2>3, <2>4 DEF PopFirst, Pending
<1> QED
  BY <1>2, <1>3

LEMMA LockInputRefines == Inv /\ LockInput => Channel!Handle
<1> SUFFICES ASSUME Inv, LockInput PROVE Channel!Handle
  OBVIOUS
<1>1. cnotif \in 1 .. MaxPushed
  BY MaxPushedAssumption DEF Inv, TypeOK, LockInput, MaxPushedAssumption
<1>2. Pending = <<cnotif>> \o notifications
  BY DEF LockInput, Pending, InHand
<1>3. Pending' = notifications
  BY DEF LockInput, Pending, InHand, channel
<1>4. Pending # <<>> /\ Head(Pending) = cnotif /\ Tail(Pending) = notifications
  BY <1>1, <1>2, PrefixedSequence DEF Inv, TypeOK
<1> QED
  BY <1>3, <1>4 DEF LockInput, Channel!Handle

LEMMA OtherStepsRefine ==
  ASSUME Inv,
         \/ RaiseFlag \/ SeeNotification \/ LowerFlag \/ Crash \/ UnlockInput
         \/ CommandLine \/ UNCHANGED vars
  PROVE  UNCHANGED <<Pending, handled>>
<1> USE DEF Pending, InHand, channel
<1>1. CASE RaiseFlag
  BY <1>1 DEF RaiseFlag
<1>2. CASE SeeNotification
  BY <1>2 DEF SeeNotification
<1>3. CASE LowerFlag
  BY <1>3 DEF LowerFlag
<1>4. CASE Crash
  BY <1>4 DEF Crash
<1>5. CASE UnlockInput
  BY <1>5 DEF UnlockInput
<1>6. CASE InitLock
  BY <1>6 DEF InitLock
<1>7. CASE Prompt
  BY <1>7 DEF Prompt
<1>8. CASE GetCommand
  BY <1>8 DEF GetCommand
<1>9. CASE UNCHANGED vars
  BY <1>9 DEF vars
<1> QED
  BY <1>1, <1>2, <1>3, <1>4, <1>5, <1>6, <1>7, <1>8, <1>9 DEF CommandLine

LEMMA StepRefines ==
  Inv /\ [Next]_vars => [Channel!Next]_<<Pending, handled>>
  BY PushToListRefines, PopFirstRefines, LockInputRefines, OtherStepsRefine
  DEF Next, Worker, Listener, Channel!Next

\* The queue implements the channel: each notification is handled once, in the
\* order pushed, whatever the interleaving of the two threads.
THEOREM ChannelImplemented == Spec => InOrder
  BY InitRefines, StepRefines, Invariance, PTL DEF Spec, InOrder, Channel!Spec

-----------------------------------------------------------------------------
(* The process.                                                            *)

BeforeThread == {"constructing", "subscribing", "connecting", "binding",
                 "joining", "threading"}

\* The socket is open, and there is a thread, as long as main() is where it is.
SocketAndThread ==
  /\ main \in BeforeThread => thread = "none"
  /\ main \in {"binding", "joining", "threading"} => socket = "open"
  /\ main \in {"declaring", "locking", "looping", "closing"} =>
       socket = "open" /\ thread # "none"
  /\ status = "SERVICING" => main \in {"locking", "looping"}

\* Only a stray datagram ends a worker whose socket is open.
WorkerEnded == thread = "ended" /\ socket = "open" => stray > 0

\* A command runs from RunCommand to the next unlock.
CommandPhases ==
  /\ main \in {"closing", "waiting", "unlocking"} => command
  /\ main \in BeforeThread \cup {"declaring", "locking"} => ~ command

\* Unless main() freed it under the listener, the lock is held by the one
\* thread that is in its critical section.
LockIsHeld ==
  ~ intruded =>
    /\ command => userInputLock
    /\ listener = "syncing" => userInputLock
    /\ ~ (command /\ listener = "syncing")

AppInv ==
  AppTypeOK /\ SocketAndThread /\ WorkerEnded /\ CommandPhases /\ LockIsHeld

-----------------------------------------------------------------------------
(* Every step of the process is one of Notifications, or leaves it alone.  *)

LEMMA AppInitRefines == AppInit => Init
  BY DEF AppInit

LEMMA AppStepRefines == [AppNext]_appVars => [Next]_vars
<1> SUFFICES ASSUME [AppNext]_appVars PROVE [Next]_vars
  OBVIOUS
<1>1. CASE ~ Over /\ Starts
  BY <1>1 DEF Starts, InitService, Subscribe, StartFails, Connect, Bind, Join,
              StartThread, Declare
<1>2. CASE ~ Over /\ Loops
  BY <1>2 DEF Loops, Over, InitInputLock, NextPrompt, RunCommand, Exit, Next, CommandLine
<1>3. CASE ~ Over /\ Ends
  BY <1>3 DEF Ends, Over, CloseSocket, WaitExit, UnlockAtExit, Interrupt,
              JoinListener, Next, CommandLine
<1>4. CASE ~ Over /\ WorkerThread
  BY <1>4 DEF WorkerThread, Over, Block, TakeDatagram, HandleQuietly, Push,
              EndPush, TakeStray, EndWorker, ReuseDescriptor, Next, Worker
<1>5. CASE ~ Over /\ ListenerThread
  BY <1>5 DEF ListenerThread, Over, LoopTop, NothingNew, SomethingNew,
              HandleNotification, Next, Listener
<1>6. CASE UNCHANGED appVars
  BY <1>6 DEF appVars
<1> QED
  BY <1>1, <1>2, <1>3, <1>4, <1>5, <1>6 DEF AppNext

\* The process implements Notifications: its threads push, poll, pop and lock
\* as they do there, whenever they start, block and end.
THEOREM AppImplementsNotifications == AppSpec => Spec
<1> QED
  BY AppInitRefines, AppStepRefines, PTL DEF AppSpec, Spec

\* In the whole process too no wakeup is lost and notifications are handled
\* once each, in the order pushed.
THEOREM AppWakeupKept == AppSpec => []NoLostWakeup
<1> QED
  BY AppImplementsNotifications, WakeupKept, PTL

THEOREM AppChannelImplemented == AppSpec => InOrder
<1> QED
  BY AppImplementsNotifications, ChannelImplemented, PTL

-----------------------------------------------------------------------------
(* The inductive invariant.                                                *)

LEMMA AppInitInv == AppInit => AppInv
<1> SUFFICES ASSUME AppInit PROVE AppInv
  OBVIOUS
<1> USE DEF AppInit, Init, MainStep, Status
<1>0. stray \in 0 .. MaxStray
  BY MaxStrayAssumption DEF MaxStrayAssumption
<1>1. AppTypeOK
  BY <1>0, Zenon DEF AppTypeOK
<1>2. SocketAndThread /\ WorkerEnded /\ CommandPhases /\ LockIsHeld
  BY DEF SocketAndThread, WorkerEnded, CommandPhases, LockIsHeld, BeforeThread
<1> QED
  BY <1>1, <1>2 DEF AppInv

LEMMA StartsInv == AppInv /\ Starts => AppInv'
<1> SUFFICES ASSUME AppInv, Starts PROVE AppInv'
  OBVIOUS
<1> USE DEF Starts, InitService, Subscribe, StartFails, Connect, Bind, Join,
            StartThread, Declare, Goes, service, vars, channel, BeforeThread, AppInv, MainStep, Status
<1>1. AppTypeOK'
  BY DEF AppTypeOK, SocketAndThread
<1>2. SocketAndThread'
  BY DEF SocketAndThread, AppTypeOK
<1>3. WorkerEnded'
  BY DEF WorkerEnded, SocketAndThread
<1>4. CommandPhases' /\ LockIsHeld'
  BY DEF CommandPhases, LockIsHeld
<1> QED
  BY <1>1, <1>2, <1>3, <1>4 DEF AppInv

LEMMA LoopsInv == AppInv /\ Loops => AppInv'
<1> SUFFICES ASSUME AppInv, Loops PROVE AppInv'
  OBVIOUS
<1> USE DEF Loops, InitInputLock, NextPrompt, RunCommand, Exit, Intrudes,
            InitLock, Prompt, GetCommand, StatusAtStop, Goes, service, vars,
            channel, BeforeThread, AppInv, MainStep, Status
<1>1. AppTypeOK'
  BY DEF AppTypeOK
<1>2. SocketAndThread' /\ WorkerEnded'
  BY DEF SocketAndThread, WorkerEnded
<1>3. CommandPhases'
  BY DEF CommandPhases
<1>4. LockIsHeld'
  BY DEF LockIsHeld, CommandPhases, AppTypeOK
<1> QED
  BY <1>1, <1>2, <1>3, <1>4 DEF AppInv

LEMMA EndsInv == AppInv /\ Ends => AppInv'
<1> SUFFICES ASSUME AppInv, Ends PROVE AppInv'
  OBVIOUS
<1> USE DEF Ends, CloseSocket, WaitExit, UnlockAtExit, Interrupt, JoinListener,
            Prompt, Goes, service, vars, channel, BeforeThread, AppInv, MainStep, Status
<1>1. AppTypeOK'
  BY DEF AppTypeOK
<1>2. SocketAndThread' /\ WorkerEnded'
  BY DEF SocketAndThread, WorkerEnded
<1>3. CommandPhases' /\ LockIsHeld'
  BY DEF CommandPhases, LockIsHeld
<1> QED
  BY <1>1, <1>2, <1>3 DEF AppInv

LEMMA WorkerThreadInv == AppInv /\ WorkerThread => AppInv'
<1> SUFFICES ASSUME AppInv, WorkerThread PROVE AppInv'
  OBVIOUS
<1> USE DEF Block, TakeDatagram, HandleQuietly, Push, EndPush,
            TakeStray, EndWorker, ReuseDescriptor, PushToList, RaiseFlag,
            ReceiveFails, othersUnchanged, service, vars, channel, BeforeThread
<1>1. AppTypeOK'
  <2> USE DEF AppTypeOK
  <2>0. AppTypeOK
    BY DEF AppInv
  <2>1. CASE Block \/ TakeDatagram \/ HandleQuietly
    BY <2>0, <2>1
  <2>2. CASE Push
    BY <2>0, <2>2
  <2>3. CASE EndPush
    BY <2>0, <2>3
  <2>4. CASE TakeStray
    <3>1. stray' \in 0 .. MaxStray
      BY <2>0, <2>4, MaxStrayAssumption DEF MaxStrayAssumption
    <3> QED
      BY <2>0, <2>4, <3>1
  <2>5. CASE EndWorker \/ ReuseDescriptor
    BY <2>0, <2>5
  <2> HIDE DEF AppTypeOK, Block, TakeDatagram, HandleQuietly, Push, EndPush,
               TakeStray, EndWorker, ReuseDescriptor
  <2> QED
    BY <2>1, <2>2, <2>3, <2>4, <2>5 DEF WorkerThread
<1> USE DEF AppInv, WorkerThread
<1>2. SocketAndThread'
  BY DEF SocketAndThread, AppTypeOK
<1>3. WorkerEnded'
  BY MaxStrayAssumption DEF WorkerEnded, AppTypeOK, MaxStrayAssumption
<1>4. CommandPhases' /\ LockIsHeld'
  BY DEF CommandPhases, LockIsHeld
<1> QED
  BY <1>1, <1>2, <1>3, <1>4 DEF AppInv

LEMMA ListenerThreadInv == AppInv /\ ListenerThread => AppInv'
<1> SUFFICES ASSUME AppInv, ListenerThread PROVE AppInv'
  OBVIOUS
<1> USE DEF ListenerThread, LoopTop, NothingNew, SomethingNew, HandleNotification,
            AfterLooking, SeeNotification, PopFirst, LowerFlag, Crash, LockInput,
            UnlockInput, service, vars, channel, BeforeThread, AppInv
<1>1. AppTypeOK'
  BY DEF AppTypeOK
<1>2. SocketAndThread' /\ WorkerEnded'
  BY DEF SocketAndThread, WorkerEnded
<1>3. CommandPhases'
  BY DEF CommandPhases
<1>4. LockIsHeld'
  BY DEF LockIsHeld
<1> QED
  BY <1>1, <1>2, <1>3, <1>4 DEF AppInv

LEMMA AppStepInv == AppInv /\ [AppNext]_appVars => AppInv'
<1> SUFFICES ASSUME AppInv, [AppNext]_appVars PROVE AppInv'
  OBVIOUS
<1>1. CASE AppNext
  BY <1>1, StartsInv, LoopsInv, EndsInv, WorkerThreadInv, ListenerThreadInv
     DEF AppNext
<1>2. CASE UNCHANGED appVars
  BY <1>2 DEF appVars, vars, channel, service, AppInv, AppTypeOK, SocketAndThread,
              WorkerEnded, CommandPhases, LockIsHeld, BeforeThread
<1> QED
  BY <1>1, <1>2

THEOREM AppInvariance == AppSpec => []AppInv
<1> QED
  BY AppInitInv, AppStepInv, PTL DEF AppSpec

-----------------------------------------------------------------------------
\* The types, and how far the threads' positions determine each other.
THEOREM AppTypeCorrect == AppSpec => []AppTypeOK
<1>1. AppInv => AppTypeOK
  BY DEF AppInv
<1> QED
  BY <1>1, AppInvariance, PTL

\* The lock that start-up frees under the listener is the only way in which a
\* command and the listener's synchronization can come to run together.
THEOREM SyncCorrect == AppSpec => []SyncExcludesCommands
<1>1. AppInv => SyncExcludesCommands
  BY DEF AppInv, LockIsHeld, SyncExcludesCommands
<1> QED
  BY <1>1, AppInvariance, PTL

\* start() declares the service only when it has a socket and a worker, and
\* stop() withdraws that before it closes the socket.
THEOREM ServiceCorrect == AppSpec => []ServiceHasWorker
<1>1. AppInv => ServiceHasWorker
  BY DEF AppInv, AppTypeOK, SocketAndThread, WorkerEnded, ServiceHasWorker, MainStep, Status
<1> QED
  BY <1>1, AppInvariance, PTL
=============================================================================
