---------------------------- MODULE PeriodicJobs ----------------------------
(***************************************************************************)
(* The periodic jobs of one worker thread against the clock they read:     *)
(* resending timed out messages, stabilize() and the finger update.        *)
(*                                                                         *)
(* getTimeInUSeconds() keeps only the seconds below 1000, so the clock     *)
(* falls back to 0 every ClockWrap ticks, while the timestamps the jobs    *)
(* leave behind are compared with it as they are.  No sum of a timestamp   *)
(* it took and a timeout reaches 2^32 microseconds; one of uninitialized   *)
(* memory that does overflow acts like a small value of Garbage.           *)
(*                                                                         *)
(* One step is one iteration of threadWorker: the jobs that are due, at    *)
(* most one message, and the pause until the next iteration.  The node has *)
(* another node as its successor.  The variables since* and wrapped only   *)
(* observe: ages in real time, which the code does not have.               *)
(***************************************************************************)
EXTENDS Integers

CONSTANTS
  ClockWrap,               \* ticks in 1000 seconds
  PERIODIC_JOBS_TIMEOUT,   \* in ticks, like the next two
  SEND_TIMEOUT,
  Grace,                   \* the 200 ms left to receive a stabilize response
  MaxPause,                \* bound: the longest iteration
  AgeCap,                  \* bound: ages are counted up to here
  Garbage,                 \* what uninitialized memory may hold
  NULL

ASSUME TimesAssumption ==
  /\ {ClockWrap, PERIODIC_JOBS_TIMEOUT, SEND_TIMEOUT} \subseteq Nat \ {0}
  /\ Grace \in 0 .. PERIODIC_JOBS_TIMEOUT
  /\ MaxPause \in Nat \ {0}
  /\ AgeCap \in Nat
  /\ AgeCap > 3 * PERIODIC_JOBS_TIMEOUT + MaxPause
  /\ AgeCap > SEND_TIMEOUT + MaxPause
  /\ Garbage \subseteq Nat
  /\ NULL \notin Int

VARIABLES
  now,                        \* what getTimeInUSeconds() returns
  lastStabilizedTimestamp,
  lastFingerUpdateTimestamp,
  sendTimer,                  \* timestamp of the UPDATE_PREDECESSOR timer, or NULL
  substate,
  wrapped,                    \* the clock has fallen back since the start
  sinceStabilize,             \* age of the last stabilize request, NULL before the first
  sinceFinger,                \* age of the last finger update, NULL before the first
  sinceSend                   \* age of the last sending of UPDATE_PREDECESSOR

vars == <<now, lastStabilizedTimestamp, lastFingerUpdateTimestamp, sendTimer,
          substate, wrapped, sinceStabilize, sinceFinger, sinceSend>>

-----------------------------------------------------------------------------
\* init() sets lastStabilizedTimestamp only; join() pushes the timer.
Init ==
  /\ now \in 0 .. ClockWrap - 1
  /\ lastStabilizedTimestamp = 0
  /\ lastFingerUpdateTimestamp \in Garbage
  /\ sendTimer = now
  /\ substate = "IN_NETWORK"
  /\ wrapped = FALSE
  /\ sinceStabilize = NULL
  /\ sinceFinger = NULL
  /\ sinceSend = 0

GetTimeInUSeconds(time) == time % ClockWrap

DueAfter(timestamp, timeout) == timestamp + timeout < now
Due(timestamp, timeout) == timestamp + timeout <= now

StabilizeDue == Due(lastStabilizedTimestamp, PERIODIC_JOBS_TIMEOUT)
FingersDue == Due(lastFingerUpdateTimestamp, 2 * PERIODIC_JOBS_TIMEOUT)
ResendDue == sendTimer # NULL /\ Due(sendTimer, SEND_TIMEOUT)

ForgetsToStamp(timestamp) == timestamp
StampsTwice(timestamp) == timestamp + 2 * PERIODIC_JOBS_TIMEOUT
\* What stabilize() stores when it has sent a request, instead of timestamp.
StampAfterRequest(timestamp) == now + PERIODIC_JOBS_TIMEOUT - Grace

Older(age, pause) ==
  IF age = NULL THEN NULL ELSE IF age + pause > AgeCap THEN AgeCap ELSE age + pause

\* The message is none, an acknowledgement of UPDATE_PREDECESSOR, or a
\* response to some stabilize request; any other leaves these variables alone.
Iteration(message, pause) ==
  LET asked == StabilizeDue
      state == IF asked THEN "STABILIZING" ELSE substate
      answered == message = "STABILIZE_RESPONSE" /\ state = "STABILIZING"
      acked == message = "UPDATE_PREDECESSOR_ACK"
  IN
  /\ lastStabilizedTimestamp' =
       IF answered THEN now
       ELSE IF asked THEN StampAfterRequest(lastStabilizedTimestamp)
       ELSE lastStabilizedTimestamp
  /\ substate' = IF answered THEN "IN_NETWORK" ELSE state
  /\ lastFingerUpdateTimestamp' = IF FingersDue THEN now ELSE lastFingerUpdateTimestamp
  /\ sendTimer' = IF acked THEN NULL ELSE IF ResendDue THEN now ELSE sendTimer
  /\ sinceStabilize' = Older(IF asked THEN 0 ELSE sinceStabilize, pause)
  /\ sinceFinger' = Older(IF FingersDue THEN 0 ELSE sinceFinger, pause)
  /\ sinceSend' = Older(IF ResendDue THEN 0 ELSE sinceSend, pause)
  /\ now' = GetTimeInUSeconds(now + pause)
  /\ wrapped' = (wrapped \/ now + pause >= ClockWrap)

Next ==
  \E message \in {"none", "STABILIZE_RESPONSE", "UPDATE_PREDECESSOR_ACK"},
     pause \in 1 .. MaxPause : Iteration(message, pause)

Spec == Init /\ [][Next]_vars

\* The worker loops as long as its socket is open.
FairSpec == Spec /\ WF_vars(Next)

-----------------------------------------------------------------------------
TypeOK ==
  /\ now \in 0 .. ClockWrap - 1
  /\ lastStabilizedTimestamp \in 0 .. ClockWrap - 1 + PERIODIC_JOBS_TIMEOUT - Grace
  /\ lastFingerUpdateTimestamp \in Garbage \cup (0 .. ClockWrap - 1)
  /\ sendTimer \in (0 .. ClockWrap - 1) \cup {NULL}
  /\ substate \in {"IN_NETWORK", "STABILIZING"}
  /\ wrapped \in BOOLEAN
  /\ sinceStabilize \in (0 .. AgeCap) \cup {NULL}
  /\ sinceFinger \in (0 .. AgeCap) \cup {NULL}
  /\ sinceSend \in 0 .. AgeCap

\* Until the clock falls back, every job recurs in real time: the next
\* stabilize request leaves within three periods less the grace (the response
\* to the last one may come when that is nearly over, and puts it off by one
\* more period), the next finger update within two periods, the next copy of
\* an unacknowledged message within SEND_TIMEOUT, each plus one iteration.
\* This justifies the fairness ChordRing assumes of these jobs.
JobsInTime ==
  ~ wrapped =>
    /\ sinceStabilize # NULL =>
         sinceStabilize < 3 * PERIODIC_JOBS_TIMEOUT - Grace + MaxPause
    /\ sinceFinger # NULL => sinceFinger < 2 * PERIODIC_JOBS_TIMEOUT + MaxPause
    /\ sendTimer # NULL => sinceSend < SEND_TIMEOUT + MaxPause

\* Two stabilize requests are a period apart at least, whatever the clock does
\* between them and however late responses arrive: one exchange is over, or
\* given up, before the next begins.
RequestsAreSpaced ==
  [][StabilizeDue /\ sinceStabilize # NULL =>
       sinceStabilize >= PERIODIC_JOBS_TIMEOUT]_vars

\* Stabilize requests are sent again and again.
StabilizesForEver == []<>StabilizeDue
=============================================================================
