# A model of the simplified Chord distributed hash table

TLA+ modules, model checking configurations and proofs about the program in
this repository: a Chord ring (`src/Chord.cpp`) of hosts that find the node
responsible for a key by exchanging UDP datagrams, and a sample application
(`SampleApp.cpp`) on top of it. Paths below are relative to the repository.

## 1. Inventory

| Component | State it keeps | Operations |
|---|---|---|
| Identifier circle (`Chord.cpp` `isInSuccessor`, `getConsistentHash`, finger starts) | none | membership of an arc, 32-bit sums |
| Ring maintenance (`join`, `notifySuccessor`, `stabilize`, `processPeriodicJobs`, half of `threadWorker`) | `state`, `substate`, `successor`, `predecessor`, `sendTimers` | join a ring, announce oneself, stabilize, resend, and the handlers of JOIN_SUCCESSOR_QUERY, SUCCESSOR_RESPONSE, UPDATE_PREDECESSOR(_ACK), STABILIZE_REQUEST / RESPONSE; the same worker runs the finger job and handles the queries of lookups |
| Periodic jobs and clock (`processPeriodicJobs`, `stabilize`, `getTimeInUSeconds`) | timestamps, a clock modulo 1000 s | decide when to resend, stabilize, update fingers |
| Lookup (`query`, `getSuccessorOf`, finger job and handlers) | `fingers`, `successorResponseQueue`, `sendTimers` | query, forward, answer, wait, time out; fill the finger table |
| Chord map (`getChordMap` and its handlers) | `state`, `chordMapResponseQueue` | send a query round the ring, collect the answers |
| Notifications (`ServiceNotification.hpp`) | list, flag, two locks | push, poll, pop |
| Life cycle (`Chord`, `init`, `start`, `stop`, `ThreadFactory.hpp`) | `state`, socket, thread | start the service, end it |
| Encoding (`MessageHandler.cpp`, `MessageTypes.hpp`) | none | structures to bytes and back |
| Sample application | `userInputLock` | command line, notification listener |
| Errors, utilities (`ChordError.hpp`, `Utils.hpp`) | last error number | texts, debug output, strings, host names |

How they interact. Each process has a **worker thread** (`threadWorker`: run
the periodic jobs, take at most one datagram, handle it, pause), the **main
thread** (`start`, then the command line, which calls `query` and
`getChordMap`) and a **listener thread** that polls for notifications.
Processes share nothing but datagrams. Inside a process the worker and the
main thread share `successor`, `predecessor` and `state` without a lock, and
the two response queues, the send timers and the finger table each with a lock
of its own; the worker and the listener share the notification list. `join()`
runs before the worker exists and reads the socket itself.

What is hard here, and what the properties are aimed at:

* datagrams are lost, duplicated by resending, and overtake one another, and
  hardly any handler asks whether a message is still of interest;
* the ring is repaired only by `stabilize()`, and join, stabilize and resend of
  several nodes interleave;
* the clock wraps;
* the locks do not cover the pointers, nor the two steps of pushing a
  notification.

What makes each component correct: *circle*: each key has one owner and the
member before it knows. *Maintenance*: pointers lead only to members, contact
is not lost, a newcomer's announcement arrives, there is one ring and it
becomes the right one. *Jobs*: each recurs, none too often. *Lookup*: the
owner is returned, every call returns. *Map*: every member, in ring order.
*Notifications*: each handled once, in order, and in the end. *Life cycle*: a
service has a worker, and exit ends it. *Encoding*: what is read is what was
written, on every host. *Sample application*: no command runs during a
synchronization. `PROJECT.json` lists under "hazards" where in the code each of
these could go wrong.

## 2. Modules

| Module | Models | Extends / instantiates |
|---|---|---|
| `RingArith` | `isInSuccessor`, finger starts; reference definitions of arc, next, owner | |
| `MessageFormat` | the create functions, `serialize`, `unserialize`, `getSize`, `getType`, byte order | |
| `MCArith` | both over all inputs of a small circle and a set of messages | `RingArith`, `MessageFormat` |
| `FingerTable` | `getSuccessorOf`: where a table sends a lookup | `RingArith` |
| `RingArithProofs` | the circle, of any size, and what a table returns | `FingerTable` |
| `ArithProofs` | one answerer, the fingers, the encoding | `MCArith`, `RingArithProofs` |
| `ChordRing` | joining and maintaining the ring, and the worker's finger job and handling of lookups | `FingerTable` |
| `MCRing` | three hosts | `ChordRing` |
| `ChordRingProofs` | inductive invariant, four safety theorems | `ChordRing` |
| `ChordQuery` | `query()` in the application's thread over the pointers and fingers of a changing ring | `ChordRing` |
| `MCQuery` | the three hosts, one of which looks up a key | `ChordQuery` |
| `ChordQueryProofs` | the same theorems beside lookups; one ring; the settled ring and the calls in it | `ChordQuery`, `ChordRingProofs` |
| `PeriodicJobs`, `MCJobs` | one worker's jobs against its clock | |
| `PeriodicJobsProofs` | deadlines and spacing for every clock | `PeriodicJobs` |
| `LookupService` | abstract: a lookup returns the owner of the key | `RingArith` |
| `ChordLookup`, `MCLookup` | `query()`, fingers, forwarding in an ideal ring | `FingerTable`, instance of `LookupService` |
| `ChordMap` | `getChordMap()` and its two messages | `RingArith` |
| `RingCalls`, `MCCalls` | lookups and maps on one ring that hosts join | `ChordLookup`, instance of `ChordMap` |
| `ChordLookupProofs` | `LookupService` is implemented; the finger table | `ChordLookup`, `RingArithProofs` |
| `RingCallsProofs` | the same beside maps; what a map shows and misses | `RingCalls`, `ChordLookupProofs` |
| `NotificationChannel` | abstract: a queue, each item handled once in order | |
| `Notifications`, `MCNotif` | `ServiceNotification`, the listener, the input lock | instance of `NotificationChannel` |
| `SampleApp`, `MCApp` | one process from `main()` to its end: `init`, `start`, `stop`, the worker, the listener, the command line | `Notifications` |
| `SampleAppProofs` | the queue refines its channel, the process refines the queue; the service and the lock | `SampleApp` |

How they compose. `ChordQuery` adds the calling thread to `ChordRing` and
establishes what `ChordLookup` takes for granted, that a call in a settled ring
is served by ideal pointers, and that it errs only as `ChordLookup` says.
`RingCalls` runs `ChordLookup` and `ChordMap` on the same command lines, members
and joins. `SampleApp` gives the threads of `Notifications` a beginning and an
end. `PeriodicJobs` justifies the fairness of the jobs in `ChordRing`.

### Correspondence with the code

**A node is its hashedId.** The IP address, application port, descriptor and
hash of a host are one model value, a number of the circle. The code compares
addresses and ports where the modules compare nodes. `RingSize` stands for
2^32 (`CHORD_LENGTH_BIT` is 32, the width of `unsigned int`).

**Grain.** One action is one handler of `threadWorker`, one periodic job, or one
step of `join()`: only the worker writes these variables, and only one message
at a time. One handler is two actions: that of UPDATE_PREDECESSOR sends the
acknowledgement (`Chord.cpp:276`, `HandleUpdatePredecessor`) and only then calls
`pushNotification` (279-283, `PushNotification`), so the newcomer may have
dropped its timer before the application is told. In between the worker does
nothing else (`telling`, `WorkerFree`). Where two threads do meet
(`Notifications`, `SampleApp`, `ChordQuery`), a step is one critical section or
one unlocked access.

**Network.** `net` is a set of records, so any order of arrival and any delay
are covered; `Lose` drops a datagram; a resent copy in flight together with
its equal is one element, a copy sent after the first was received is a second
datagram. What a node sends to itself vanishes, because `createNode` gives the
own node descriptor 0 and no address, and so does what is sent to a host
without a bound socket.

**`ChordRing`.** `status` is the member `state` (`IN_NETWORK`, which `start()`
replaces at once, is part of `SERVICING`), `substate`, `successor`,
`predecessor`, `sendTimers` and the response queue are the members of those
names, `timeoutCount` the local of `join()`. `notified` records for which hosts
`pushNotification` was called, `telling` the workers that are about to call it.
`fingers` is the finger table; `UpdateFingers` is the finger job, which asks for
and sets the fingers of `FingerSpans` (in the code, all 32), and queries for
keys are passed on by `GetSuccessorOf`, those of joins by `successor`, those for
a finger not at all (`NextHops`, `ForwardQuery`, `DropFingerQuery`).
`CreateRing`, `StartJoin`, `JoinTimeout`, `JoinStray`, `JoinResponse` are the
paths through `join()` with `notifySuccessor()`; `StabilizeAlone`,
`StabilizeWithSuccessor`, `ResendTimedOut` and `UpdateFingers` the jobs; the
remaining actions the cases of the switch.

**`ChordQuery`.** `at` is the place in `query()`. `AskAlone`, `AskNear` and
`AskFar` are its first tests, `CopySuccessor` the second reading of `successor`
for a key of the near arc, `SendQuery` the reading by `getSuccessorOf`, of the
fingers and of `successor` when they say nothing. The
timer of a lookup is kept apart from those of `ChordRing` in `queryTimer`; an
ASSUME says that no key has the hash of a host, which would make them share an
entry. `calm` only observes: the call was made in a settled ring, with neither
a query nor an answer left of an earlier call for the key (`NothingLeft`; such an
answer is what `lookup_stale` is about), and no host has started since.

**`PeriodicJobs`.** One step is one iteration of the worker loop. It keeps
time, which `ChordRing` leaves open, and leaves out what is in the messages.
The variables `since...` and `wrapped` only observe.

**`ChordLookup`.** The pointers are those of the ideal ring of `members`
(`ChordRing` is about how they come to be), and `Grow` adds a settled member
between calls. Calls come from the one command line of each node. The undefined
step back from `rbegin()` in `getSuccessorOf` is a choice among the entries at
which libstdc++'s red-black tree comes out.

**`ChordMap`.** `state` is the member that `getChordMap()` and the worker both
write. A join has two steps, as the ring sees it: `Join` (the host has a
successor) and `Settle` (its predecessor has adopted it). `ReturnMap` takes all
of the queue in one step, because the worker adds nothing to it from the time
the state says `MAPPING_COMPLETED`. `shown` is the map by sequence numbers; how
a host is named on the screen is left out. `undisturbed` only observes. In
`RingCalls` a command line is free for a lookup or for a map, the two kinds of
datagram share the counter of losses, and `Settle` is a step of both modules.

**`Notifications`, `SampleApp`.** `KeepsLock` says that `popNotification` lowers
the flag without having released the list, which is what the code does and what
the absence of lost wakeups rests on. Unlocking or initializing `userInputLock`
without holding it simply frees it, as in glibc. A null pointer popped is
`cnotif = 0`, and `Crash` is its use. In `SampleApp`, `main` names what the main
thread does next, from the constructor through `init()`, the steps of `start()`
and the command loop to `stop()` and the joining of the listener; what `join()`
does inside is `ChordRing`. `Block` is the call of `recvfrom()` with nothing to
receive: `receiveMessage()` sets one bit of an `fd_set` it has not cleared, so
`select()` may return for another reason. `ReuseDescriptor` is `createNode()`
in a handler during which the socket was closed.

**`MessageFormat`.** A message has a type, a size, one or two words and, but for
one type, an address. Byte order is a property of the host: `itobc` and `bctoi`
go through a union. A word has four bytes of `ByteSize` values each.

## 3. Runs

| Run | Question | Expected |
|---|---|---|
| `ring_async` | What holds of pointers, resending and lookups whatever the timing, with concurrent joins and a lost datagram? | pass |
| `ring_serial` | Does the ring become ideal, and stay one, when nodes join one at a time, and does a lookup meanwhile return? | pass |
| `ring_concurrent` | And when they join together? | **violated**: `RingForms` |
| `arith` | Is the arithmetic that of the circle, and does every message survive its bytes? | pass |
| `jobs` | Do the jobs recur in time and keep their distance? | pass |
| `jobs_wrap` | Do they go on for ever? | **violated**: `StabilizesForEver` |
| `lookup` | Does `query()` without fingers implement `LookupService`, and return? Is a map right, and what may it miss? | pass |
| `lookup_fingers` | Are finger tables right, and how can a lookup that uses them err? | pass |
| `lookup_wrong` | Does `query()` with fingers implement `LookupService`? | **violated**: `AnswersAreRight` |
| `lookup_stale` | Does it when a response is parked while a node joins? | **violated**: `AnswersAreRight` |
| `notif` | In a process from start to exit: is each notification handled once, in order, in the end; does the lock protect; does the service have a worker; does exit end it? | pass |
| `notif_null` | Does a pop after a successful poll return one? | **violated**: `NextIsObtained` |

### What they show

* **Concurrent joins can leave a node out** (`ring_concurrent`, nothing lost).
  Hosts 3 and 6 join through 1. Both announcements reach 1, and the second
  overwrites the first; from then on 3 and 1 are each other's neighbours. Host 6
  asks its successor, is told of that one's predecessor, takes it as its new
  successor, and so goes round the ring for ever without becoming part of it.
  In `ring_serial`, where a node starts only when the ring it joins has settled
  and nothing in flight could still move a pointer, the ring always becomes
  ideal, also after a loss. A weaker wait is not enough: with four
  nodes a STABILIZE_RESPONSE from before the last join, still in flight when
  the next node starts, leaves a ring in the wrong order for ever.
* **Contact survives anything** (`ring_async`): whatever arrives late, a node
  with a neighbour keeps one, and predecessors are nodes that did join.
  Reachability from the founder is weaker: a lost join response makes the join
  point answer the retry with the joiner itself, which then founds a ring of
  its own until stabilization of the founder reaches it; so this is a matter
  of `Converges`, not of an invariant.
* **One ring** (`ring_serial`, `AtMostOneRing`): however joins are retried, the
  successor pointers never close two rings, as long as one host founds the ring
  and the others join one at a time. In between they may well be wrong: a
  newcomer that stabilizes before it is heard is led backwards round the ring.
* **A settled ring stays settled** (`ring_async`, `SettledStays`): `Settled` says
  that the pointers are ideal, nobody joins, and nothing in flight could move a
  pointer. No job, retry, answer or lookup undoes it; only the start of another
  host does. The condition on what is in flight is needed: a STABILIZE_REQUEST
  that went to an earlier successor is answered with another predecessor, and a
  lone founder adopts the query of a host that gave up joining.
* **Lookups in a ring that changes** (`ring_async`, `ring_serial`).
  `SettledOwnerOrAsker` says that a call in a settled ring, with nothing left of
  an earlier call for the key, returns the owner as long as no host begins to
  join or, once some host has set a finger, the owner or the host that asked,
  never a third. The finger job is unconditional in the code, so beyond the
  first seconds of a ring the weaker answer is all a caller has: `lookup_wrong`
  shows the wrong one. As long as nobody joins `successor` does not change
  (`SettledStays`), so the torn read of `query()` cannot happen in what the
  property covers. It, and any claim about owners, is false of calls that a join
  overtakes, for three reasons that TLC shows when the condition is dropped.
  `query()` tests the arc of one successor and copies the address of the next
  (`Chord.cpp:514-517`). A newcomer that stabilizes before its announcement is
  handled is told of its successor's old predecessor, takes that host for its
  successor, and answers for an arc that is not its own. And a stray datagram
  that reaches a host inside `join()` makes it send its query again; the second
  response names the host itself and, if it overtakes the first, leaves the host
  believing that it is alone. Right or wrong, a lookup that is passed from
  successor to successor returns (`CallsReturn`, checked before any finger is
  set). With fingers it need not, even if nothing is lost: in a correct table an
  entry may name its own host, and a query that `getSuccessorOf` sends there is
  addressed to a node without an address, vanishes, and is resent in vain. Two
  hosts 6 and 7 of a circle of eight are enough, when 6 looks up key 2:
  `EveryCallReturns` fails in `MCLookup` with these, `UseFingers` and no
  timeout.
* **The clock stops the jobs** (`jobs_wrap`). Up to the first fall of the clock
  the deadlines of `JobsInTime` hold, for every value an uninitialized
  timestamp may have. If the last stamp before the fall is less than a period
  from it, timestamp plus timeout exceeds every time the clock shows.
* **Fingers mislead lookups** (`lookup_wrong`): with members 0, 1, 4 and a
  correct table, node 0 looks up key 2, steps back to the finger at 2, node 4;
  node 4 does not hold the key to be its successor's, forwards to 0, and 0
  answers itself. `OwnerOrAsker` shows that this is the only wrong answer a
  settled ring gives, also with a table that is half full or that names nodes
  whose keys a newcomer has taken over (`FingersAreRight` says so much and no
  more of an entry). Without fingers `query()` is right.
* **Parked responses go stale** (`lookup_stale`), even if the network and the
  callers are quiet while the node joins.
* **A map may be incomplete, never wrong** (`lookup`). The query may overtake the
  answers, which are then missing, but every answer that is missing is lost or on
  its way (`MapIsWhole`), and nobody stands in the wrong place unless the ring
  changed (`MapIsRight`), not even when answers to an earlier map arrive late and
  are counted in: a place has the same holder as long as the ring is the same.
  `getChordMap` waits for ever when its query is lost, or when the ring does not
  pass through the host yet, for then the query goes round and round
  (`MapReturns` names these exceptions, and the bound on hops, which only such a
  query reaches).
* **Exit ends the process, except in two cases** (`notif`, `ExitEnds`): when the
  worker is blocked in `recvfrom`, or has opened a socket that was given the
  closed descriptor. The program says otherwise: `README.md:30-31` and the help
  text (`SampleApp.cpp:35-36`) announce that, "since voluntary node leaves is
  not implemented", exit "will cause the program to hang". Nothing in `stop()`
  waits for the ring. It closes the socket and waits for the worker, and a
  worker that polls the closed socket finds it so (`select` and `recvfrom`
  fail), leaves its loop and is joined; then `main()` interrupts and joins the
  listener. What the text announces is what happens in the two cases: the socket
  was closed under a `recvfrom` that nothing wakes, or is polled on as
  another's. The text is a warning, and true of those; that the program always
  hangs is not what the code does. What the other hosts make of a member that is
  gone is not modelled. `HandledOrOver` excepts the time during which exit waits
  with the input lock held. `SyncExcludesCommands` excepts the one case in which
  `main()` initializes or unlocks the lock under the listener, which has been
  running since before `start()`.
* **A stray datagram silences a service** (`ServiceHasWorker`): the worker takes
  a message of an unknown type, or an empty one, for a closed socket and ends,
  while `state` stays `SERVICING`. Without one, a service has a worker.
* **The encoding is exact** (`arith`): for all eleven types, between hosts of
  either byte order, when forwarded, and when resent from the saved bytes.
* **The flag can be up over an empty list** (`notif_null`), and the listener
  does not test what it pops. Until that happens delivery is exact (`notif`).

### Bounds, and why they are enough

* Ring: three hosts of a circle of 8, joining through 1, so that one successor
  arc wraps and one joiner lands on each side of the other: 1, 2, 4 in
  `ring_async` and `ring_serial`, 1, 3, 6 in `ring_concurrent`. Three is
  the least number where a node can come between two others. `MaxLoss = 1`
  loses each message of each exchange in turn. `JOIN_TRIALS` is 5 in the code;
  2 and 3 reach success on the first and on a later trial, and failure.
  `MaxInFlight` limits only what nothing prompted: jobs and retries. In
  `ring_async` it is 2, so that timeouts fire while older datagrams are still
  on their way. In the liveness runs it must not stop a job for good, and with
  9 or 10 it never binds. With four hosts 1, 3, 4, 6, nothing lost and joins
  one at a time, `Converges` was checked as well (325,000 states).
* Fingers in `ring_async`: of hosts 1 and 2 the finger of span 4
  (`FingerSpans`), enough for one entry that its host sets itself, one that it
  must ask for, one that is answered with the asker, one that nobody answers,
  and a lookup that an entry leads past the member that would answer it. The
  finger job runs, and calls begin, only while the ring is settled
  (`SettledUse`): the properties of this run about lookups speak of no other
  calls, and a finger set in one settled ring is still there, stale, while the
  next host joins and in the ring after it. The theorems have no such bound.
  `ring_serial` and `ring_concurrent` have no fingers: they are about a ring
  before the finger job first comes. A finger itself enters no pointer, but a
  host that is alone adopts the asker of a finger query as it does that of any
  other (`AnswerAlone`).
* Lookups over `ChordRing`: `Key` is 7, past the last host, so that its arc
  wraps; `Asker` is host 2 in `ring_async`, which has a finger and is not the
  founder that owns the key, and the founder in `ring_serial`, the only host
  that is there all the time. `MaxTrouble = 1` allows one call or one lost
  datagram (lookups whose datagrams are lost are the subject of `lookup`).
  `LateCalls = FALSE` in `ring_serial` keeps calls to the time in which some
  host has still to start; in `ring_async` they come whenever the ring is
  settled.
* `FastNetwork` in the liveness runs: a timeout of 1.5 s expires only when its
  exchange has nothing left in flight. Without it resent copies of arbitrary
  age exist, which `ring_async` covers for safety.
* Circle of 8 in `arith`: all pairs of ends, keys and member sets; the theorems
  give every other size.
* Jobs: three ticks to a period or timeout, a wrap after eight periods, pauses
  of one or two ticks, so that iterations can miss an instant; uninitialized
  memory holds 0, a plausible time, or one beyond the clock. Ages are counted
  up to `AgeCap`, which an ASSUME keeps above every deadline.
* Calls: members 0 and 4 that 1 joins, and keys 1 and 6, of which the first
  changes hands; two calls, each a lookup or a map of any host, so that a map
  meets the answers to an earlier one, and a lost datagram. `MaxHops = 3` is once
  round the largest ring. `MaxParked = 2` keeps two responses waiting for one
  call. `lookup_fingers` follows one call for key 2 through every state of the
  tables of nodes 0 and 4, and of the three once 1 has joined.
* Process: four pushes and one stray datagram; more differ only in number, and
  the theorems are for any number.
* Messages (`TestWord`, `TestText`): words whose four bytes differ, and zero;
  addresses of one and of three characters; each order of bytes for sender,
  middle and receiver. A byte has four values, enough for bytes that differ and
  for every size, and the buffer holds the longest message. `FingersReachAhead`
  is false on a circle of two, where the correction of the overflow returns to
  the node itself; `SpanAssumption` rules that circle out, and
  `FingerStartExact` says what holds on all.

Deadlock is checked in `ring_serial`, `arith`, `jobs` and `jobs_wrap`. It is off
where the system may really stop: a founder whose joiners have failed has
nothing to do, calls are finished, or the process has ended or hangs.

### Fairness

`ChordRing`: each node is started by its operator; a worker polls with a zero
timeout and never blocks otherwise, so each periodic job recurs and each
datagram that stays in flight is received (weak fairness per node and per
datagram; none for `Lose`). That the jobs recur is `JobsInTime`, so it holds up
to the first fall of the clock: the liveness results are about a ring that forms
within 1000 s of clock time. `ChordQuery`: the same, `query()` looks at its
queue again and again, and the application shows what it returns. Fairness of
the datagrams is stated there by states, that none stays in flight for ever to a
host that listens, which is what weak fairness of its reception comes to: a
listening host can receive any datagram, and receiving it consumes it. A worker
that has acknowledged goes on to notify (`PushNotification`). `ChordLookup`: as
in `ChordQuery`. Nothing is assumed of the finger job in either, nor of timeouts
or new calls. `RingCalls`: the same for both kinds of datagram, and a complete
map is returned; hosts need not join. `SampleApp`: threads keep running, a
worker that polls a closed socket sees it, the user may stop typing, `start()`
may fail, and no datagram need come. The listener gets the input lock in the end
(strong fairness), because the main thread waits for input with the lock free;
this presupposes that commands return, and a map need not (`MapReturns`), while
`exit` is an exception of `HandledOrOver`. `PeriodicJobs`: the loop continues.

## 4. Proofs

All are for every value of the constants: any set of nodes on a circle of any
size, any number of trials, losses, calls and pushes, any clock, words and
buffers of any size.

* `RingArithProofs`: `IsInSuccessorExact`, `OneAnswerer`, `FingerStartExact`,
  direct, from `RingSizeAssumption`; and that the next member clockwise exists
  and is the owner of the arc before it. That needs a least element of a set of
  distances, which comes from the well-foundedness of the naturals.
* `ArithProofs`: `MembershipCorrect`, `OneMemberCorrect` (exactly one member
  answers, with the owner) and `FingersCorrect`. Of the encoding, `EveryMessage`
  states for each message that the create functions can make and the buffer can
  hold what the three properties `RoundTripCorrect`, `ForwardedCorrect` and
  `ResendCorrect` say of those enumerated. The argument: the bytes of a word are
  its remainders, the same in network order whichever host writes them, and
  every host puts the word together again (`WordRead`); the datagram is cut
  where the size of each field says, so each field is found where it was written
  (`InPlace`); and the first zero byte of an address is the one written after it
  (`TextRead`). No induction is needed, because a word has four bytes and an
  address is copied whole.
* `ChordRingProofs`: `TypeCorrect`, `PredecessorCorrect`, `ContactKept`,
  `ResendUntilHeard`, from `ConstantsAssumption`. `PredecessorHasJoined` is not
  inductive: a predecessor is taken from a datagram, so what is in flight must
  be constrained too. `Inv` adds that a host that has not started is blank
  (`OutsideIsBlank`) and a member has a successor (`MembersHaveSuccessor`);
  that UPDATE_PREDECESSOR and STABILIZE_REQUEST name members other than their
  recipient, in flight and saved for resending (`UpdatesNameMembers`,
  `RequestsNameMembers`, `TimersAreMine`, `UpdatesAreSaved`), and that an
  acknowledgement goes to a member (`AcksGoToMembers`) whose announcement has
  been heard (`AcksFollowNotice`): its recipient has told its application, or has
  sent the acknowledgement and stands before the call that tells it, its worker
  busy with nothing else and its predecessor still the newcomer (`Heard`,
  `TellersHavePredecessor`). The last is what `ResendUntilHeard` rests on; that
  the application was told already would be false, because the acknowledgement
  leaves first. `TrialsRemain` bounds the
  retries. One lemma per action shows that the action keeps `Inv`; the two
  action properties follow from `Inv` and one step.
* `ChordQueryProofs`, first part: `QueryTypeCorrect`, `QueryPredecessor`,
  `QueryContactKept` and `QueryResendUntilHeard`, theorems about what
  `ring_async` checks. A step of `ChordQuery` is a step of `ChordRing`, or
  changes only the network and a queue of responses, which `Inv` tolerates, as
  long as a query goes to a host: `getSuccessorOf` returns the successor or an
  entry of the table (`HopsAreHosts`).
  `QueryTypeOK` needs that a member stays one and that what is saved is a lookup.

  Second part, `OneRing` and `QueryOneRing`. The hypotheses are those of
  `ring_serial`: `OneJoinAtATime`, `FastNetwork` and `OneFounder`, that one host
  only is its own join point. Without the first the property is false
  (`ring_concurrent`); two founders are two rings; the second keeps the
  exchanges of `stabilize()` apart. `Orderly` is what it gives: a host has no
  STABILIZE_REQUEST in flight together with a response, and one in flight went
  to the host that still is its successor. `RingGrows` is the history that the
  pointers can have: there is a ring `S` that had settled, the newcomer `n`, and
  the member `s` that is to be its successor (`Stage`). The pointers of `S` are
  ideal but for the gap before `s`, where they may already lead to `n`; the
  successor of `n` is some member of `S`, and if a predecessor was named to `n`
  that one points to it; what is in flight can change nothing else. Any two sets
  closed under successors therefore meet, so there is one ring. When everything
  is as it should be, `S` with `n` in it is settled again, and the next host may
  start.

  Third part, on any network and with no hypothesis: `SettledForGood`,
  `QuerySettledForGood` and `SettledCorrect`. A settled ring has only datagrams
  in flight that change no pointer (`Quiet`), and every action sends only such.
  A call made in it has, as long as no finger is set, all its queries between
  the caller and the key (`OnTheWay`): a hop by a host that does not answer
  comes nearer to the key without passing it. Once a finger is set (`Fingered`)
  a query may be anywhere, and `OnTheWay` says nothing. Every answer in flight,
  and parked, is the owner or, then, the asker (`AnswersRight`, `CalmCall`): the
  host that answers a query of another does so with the owner, wherever it
  stands, and the asker answers itself when its query comes back, which takes a
  finger.
* `ChordLookupProofs`, first part: `LookupsCorrect`, that `query()` without
  fingers implements `LookupService`, with `LookupTypeCorrect` and
  `ResendCorrect`; assumed is `Plain` (no finger job, and nothing parked when a
  node joins), since `lookup_wrong` and `lookup_stale` show that it is false
  otherwise. The invariant says of each query in flight or saved that it is on
  its way (`OnItsWay`): from its sender it has not come as far as the key. A hop
  to the successor by a host that does not answer keeps that, so no query ever
  loops back, and the host that answers does so with the owner. Responses in
  flight and parked are right (`NetIsRight`, `QueuesAreRight`) and timers belong
  to the running call (`TimersMatch`).

  Second part, with or without fingers, in any ring that grows, from no
  assumption: `FingersCorrect`, `OwnerOrAskerCorrect`. Every response in flight
  names the owner, whichever host sent it, datagrams and entries name members
  only (`Sound`, `EntriesAreMembers`), and what a node parks beside is only its
  own name, when its query has come back. The owners of earlier rings
  (`OwnersSoFar`) only become more, so what was right stays so when a node joins;
  if none joins they are the one owner there is.
* `RingCallsProofs`: `CallsCorrect` and `CallsResendCorrect`, the same beside
  maps, again from `Plain`; a step of `RingCalls` is a step of `ChordLookup` or
  changes only its counters. And, with no assumption, `MapTypeCorrect`,
  `MapCorrect`, `MapWholeCorrect`. `MapInv` says that a host has one map query at
  most, and while it is out the host is mapping (`OneQuery`); that the number of
  a query is that of the members it has left behind, and that of an answer the
  place of the host that gave it (`PlacesMatch`), as long as the ring is the one
  in which the call began; and that every host a query has passed has answered,
  so that no more answers are neither queued nor coming than datagrams were lost
  (`AnswersCount`). Places are counted as members up to a host on the circle
  (`UpTo`), so that the next host has the next place (`UpToNext`) without any
  induction round the ring.
* `PeriodicJobsProofs`: `JobsTypeCorrect`, `JobsOnTime`, `SpacingKept`, from
  `TimesAssumption`. Ages are what the properties speak of and timestamps what
  the code compares; `JobsInv` relates the two, for each job while the clock has
  not fallen back, and for the spacing always (`StampNotBehind`: the clock never
  shows a time further from the stamp than the age of the request).
* `SampleAppProofs`, the queue: `TypeCorrect`, `WakeupKept` and
  `ChannelImplemented`, from `MaxPushedAssumption`. The invariant needed is that
  the list stays empty while the flag is being lowered (`EmptyWhileLowering`),
  which holds because `nlistLock` is kept. The refinement maps the pending items
  to the list, preceded by the item in the listener's hand.

  The process: it refines `Notifications`, so `AppWakeupKept` and
  `AppChannelImplemented` follow from there; `AppTypeCorrect`, `SyncCorrect` and
  `ServiceCorrect` follow from an invariant that ties the place of the main
  thread to socket, thread and command, and the lock to the one thread in its
  critical section as long as it was not freed under the listener.

Only model-checked are the liveness properties: `Converges`, `CallsReturn`,
`EveryCallReturns`, `MapReturns`, `HandledOrOver` and `ExitEnds`. Each rests on
weak or strong fairness, whose ENABLED the prover cannot reason about, and most
on an induction over the hops of a datagram. The properties that the remaining
runs violate have no proof either.

## 5. Not modelled

* Failure of a member after it joined: the program says it has no failure
  recovery, and a member never leaves the ring. `SampleApp` models the end of a
  process, not what its ring makes of it.
* The answers of `getChordMap` for a host without a successor ("deadend"): a
  member always has one (`MembersHaveSuccessor` in `ChordRingProofs`).
* The window between the publication of a new successor and the setting of its
  port one statement later: a node is one value in the modules.
* A key whose hash is that of a host, whose timer would share an entry with that
  of the host's announcement; and the constructor's test of a member nothing has
  set (`Chord.cpp:50`).
* Fingers while hosts join in `ring_serial` and `ring_concurrent`: the finger job
  is part of `ChordRing` and of every theorem about it, but those two runs keep
  no finger, so `Converges` and `CallsReturn` are checked without.
* Failing system calls other than those of `start()`, memory leaks, texts, debug
  output, error numbers, host names. SHA-1 is any assignment of identifiers.
* `ChordRing`, `ChordLookup` and `ChordMap` take `receiveMessage` to poll and a
  worker to run on; that it may block, or be ended by a stray datagram, is in
  `SampleApp` only.

## 6. Plan

Done: every component except errors and utilities; two abstract specifications
implemented (`LookupService`, `NotificationChannel`), and `Notifications`
refined by the whole process; every invariant, action property and refinement
that a passing run checks is a theorem.

Left:

1. Timers of lookups and announcements in one map, for keys that collide with a
   host.
2. The refinement between the two views of lookups: that `ChordQuery` in a
   settled ring implements `ChordLookup`, whose fingers are those of a ring that
   is always settled.
