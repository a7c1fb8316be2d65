--------------------------- MODULE PeriodicJobsProofs ---------------------------
(***************************************************************************)
(* The jobs of a worker recur in time until its clock falls back, and      *)
(* stabilize requests keep their distance for ever, for every period,      *)
(* timeout, length of an iteration and content of uninitialized memory.    *)
(***************************************************************************)
EXTENDS PeriodicJobs, TLAPS

-----------------------------------------------------------------------------
(* The inductive invariant relates each timestamp to the age it stands     *)
(* for.                                                                    *)

\* While the clock has not fallen back, a timestamp is the time of what it
\* stamps, and its job was not overdue at the end of the last iteration.
SendInTime ==
  ~ wrapped /\ sendTimer # NULL =>
    sinceSend = now - sendTimer /\ sinceSend < SEND_TIMEOUT + MaxPause

FingersInTime ==
  ~ wrapped /\ sinceFinger # NULL =>
    /\ sinceFinger = now - lastFingerUpdateTimestamp
    /\ sinceFinger < 2 * PERIODIC_JOBS_TIMEOUT + MaxPause

\* The stamp of a request that waits for its response is ahead of the request;
\* once that is answered it is the time of the answer, which came before the
\* next request was due.
StabilizeInTime ==
  ~ wrapped /\ sinceStabilize # NULL =>
    LET asked == now - sinceStabilize
        ahead == PERIODIC_JOBS_TIMEOUT - Grace
    IN /\ now < lastStabilizedTimestamp + PERIODIC_JOBS_TIMEOUT + MaxPause
       /\ substate = "STABILIZING" => lastStabilizedTimestamp = asked + ahead
       /\ lastStabilizedTimestamp <= asked + ahead + PERIODIC_JOBS_TIMEOUT

\* Whether or not the clock has fallen back, it does not show a time further
\* from the stamp than the age of the request.
StampNotBehind ==
  sinceStabilize # NULL =>
    sinceStabilize = AgeCap \/ lastStabilizedTimestamp + sinceStabilize >= now

JobsInv == TypeOK /\ SendInTime /\ FingersInTime /\ StabilizeInTime /\ StampNotBehind

-----------------------------------------------------------------------------
\* The clock after a pause: it shows the time, or less once it has fallen back.
LEMMA ClockShows ==
  ASSUME NEW t \in Nat
  PROVE  /\ GetTimeInUSeconds(t) \in 0 .. ClockWrap - 1
         /\ GetTimeInUSeconds(t) <= t
         /\ t < ClockWrap => GetTimeInUSeconds(t) = t
  BY TimesAssumption DEF GetTimeInUSeconds

\* Ages are counted up to AgeCap.
LEMMA OlderIs ==
  ASSUME NEW age \in 0 .. AgeCap, NEW pause \in 1 .. MaxPause
  PROVE  /\ Older(age, pause) \in 0 .. AgeCap
         /\ age + pause <= AgeCap => Older(age, pause) = age + pause
         /\ age + pause > AgeCap => Older(age, pause) = AgeCap
  BY TimesAssumption DEF Older

LEMMA JobsInitInv == Init => JobsInv
  <1> SUFFICES ASSUME Init
               PROVE  JobsInv
    OBVIOUS
  <1>1. TypeOK
    <2>1. /\ lastStabilizedTimestamp \in 0 .. ClockWrap - 1 + PERIODIC_JOBS_TIMEOUT - Grace
          /\ sinceSend \in 0 .. AgeCap
      BY TimesAssumption DEF Init
    <2>2. lastFingerUpdateTimestamp \in Garbage /\ now \in 0 .. ClockWrap - 1
          /\ sendTimer \in 0 .. ClockWrap - 1
      BY DEF Init
    <2>3. wrapped \in BOOLEAN /\ sinceStabilize = NULL /\ sinceFinger = NULL
          /\ substate \in {"IN_NETWORK", "STABILIZING"}
      BY DEF Init
    <2> QED
      BY <2>1, <2>2, <2>3 DEF TypeOK
  <1>2. SendInTime
    BY TimesAssumption DEF Init, SendInTime
  <1>3. FingersInTime /\ StabilizeInTime /\ StampNotBehind
    BY DEF Init, FingersInTime, StabilizeInTime, StampNotBehind
  <1> QED
    BY <1>1, <1>2, <1>3 DEF JobsInv

-----------------------------------------------------------------------------
\* What one iteration does, without its local definitions.
LEMMA IterationIs ==
  ASSUME JobsInv, NEW message, NEW pause \in 1 .. MaxPause, Iteration(message, pause)
  PROVE  /\ now \in Nat /\ now' \in 0 .. ClockWrap - 1
         /\ now' <= now + pause
         /\ ~ wrapped' => ~ wrapped /\ now' = now + pause
         /\ wrapped' \in BOOLEAN
  <1>1. now \in 0 .. ClockWrap - 1 /\ wrapped \in BOOLEAN
    BY DEF JobsInv, TypeOK
  <1>2. now \in Nat /\ now + pause \in Nat
    BY <1>1, TimesAssumption
  <1>3. /\ now' = GetTimeInUSeconds(now + pause)
        /\ wrapped' = (wrapped \/ now + pause >= ClockWrap)
    BY DEF Iteration
  <1>4. now' \in 0 .. ClockWrap - 1 /\ now' <= now + pause
    BY <1>2, <1>3, ClockShows
  <1>5. ~ wrapped' => ~ wrapped /\ now' = now + pause
    <2> DEFINE over == now + pause >= ClockWrap
    <2>1. ~ over => now' = now + pause
      BY <1>2, <1>3, ClockShows, TimesAssumption
    <2>2. wrapped' = (wrapped \/ over)
      BY <1>3
    <2> HIDE DEF over
    <2> QED
      BY <2>1, <2>2
  <1> QED
    BY <1>1, <1>2, <1>3, <1>4, <1>5

LEMMA SendStep ==
  ASSUME JobsInv, NEW message, NEW pause \in 1 .. MaxPause, Iteration(message, pause)
  PROVE  /\ sendTimer' \in (0 .. ClockWrap - 1) \cup {NULL}
         /\ sinceSend' \in 0 .. AgeCap
         /\ SendInTime'
  <1>1. /\ sendTimer \in (0 .. ClockWrap - 1) \cup {NULL} /\ now \in 0 .. ClockWrap - 1
        /\ sinceSend \in 0 .. AgeCap
    BY DEF JobsInv, TypeOK
  <1>2. CASE ResendDue
    <2>1. sinceSend' = Older(0, pause) /\ sendTimer' \in {now, NULL}
      BY <1>2 DEF Iteration
    <2>2. sinceSend' = pause
      BY <2>1, OlderIs, TimesAssumption
    <2>3. sendTimer' \in (0 .. ClockWrap - 1) \cup {NULL} /\ sinceSend' \in 0 .. AgeCap
      BY <1>1, <2>1, <2>2, TimesAssumption
    <2>4. ASSUME ~ wrapped', sendTimer' # NULL
          PROVE  sinceSend' = now' - sendTimer' /\ sinceSend' < SEND_TIMEOUT + MaxPause
      <3>1. sendTimer' = now /\ now' = now + pause
        BY <2>1, <2>4, IterationIs
      <3> QED
        BY <1>1, <2>2, <2>4, <3>1, TimesAssumption
    <2> QED
      BY <2>3, <2>4 DEF SendInTime
  <1>3. CASE ~ ResendDue
    <2>1. sinceSend' = Older(sinceSend, pause) /\ sendTimer' \in {sendTimer, NULL}
      BY <1>3 DEF Iteration
    <2>2. sinceSend' \in 0 .. AgeCap
      BY <1>1, <2>1, OlderIs
    <2>3. ASSUME ~ wrapped', sendTimer' # NULL
          PROVE  sinceSend' = now' - sendTimer' /\ sinceSend' < SEND_TIMEOUT + MaxPause
      <3>1. /\ sendTimer' = sendTimer /\ sendTimer + SEND_TIMEOUT > now
            /\ sinceSend = now - sendTimer /\ now' = now + pause
        BY <1>1, <1>3, <2>1, <2>3, IterationIs, TimesAssumption
           DEF ResendDue, Due, JobsInv, SendInTime
      <3>2. sinceSend' = sinceSend + pause
        BY <1>1, <2>1, <3>1, OlderIs, TimesAssumption
      <3> QED
        BY <1>1, <3>1, <3>2, TimesAssumption
    <2> QED
      BY <1>1, <2>1, <2>2, <2>3 DEF SendInTime
  <1> QED
    BY <1>2, <1>3

LEMMA FingersStep ==
  ASSUME JobsInv, NEW message, NEW pause \in 1 .. MaxPause, Iteration(message, pause)
  PROVE  /\ lastFingerUpdateTimestamp' \in Garbage \cup (0 .. ClockWrap - 1)
         /\ sinceFinger' \in (0 .. AgeCap) \cup {NULL}
         /\ FingersInTime'
  <1>1. /\ lastFingerUpdateTimestamp \in Garbage \cup (0 .. ClockWrap - 1)
        /\ lastFingerUpdateTimestamp \in Nat
        /\ now \in 0 .. ClockWrap - 1
        /\ sinceFinger \in (0 .. AgeCap) \cup {NULL}
    BY TimesAssumption DEF JobsInv, TypeOK
  <1>2. CASE FingersDue
    <2>1. sinceFinger' = Older(0, pause) /\ lastFingerUpdateTimestamp' = now
      BY <1>2 DEF Iteration
    <2>2. sinceFinger' = pause
      BY <2>1, OlderIs, TimesAssumption
    <2>3. sinceFinger' \in 0 .. AgeCap
      BY <2>2, TimesAssumption
    <2>4. ASSUME ~ wrapped'
          PROVE  /\ sinceFinger' = now' - lastFingerUpdateTimestamp'
                 /\ sinceFinger' < 2 * PERIODIC_JOBS_TIMEOUT + MaxPause
      <3>1. now' = now + pause
        BY <2>4, IterationIs
      <3> QED
        BY <1>1, <2>1, <2>2, <3>1, TimesAssumption
    <2> QED
      BY <1>1, <2>1, <2>3, <2>4 DEF FingersInTime
  <1>3. CASE ~ FingersDue
    <2>1. /\ sinceFinger' = Older(sinceFinger, pause)
          /\ lastFingerUpdateTimestamp' = lastFingerUpdateTimestamp
      BY <1>3 DEF Iteration
    <2>2. CASE sinceFinger = NULL
      BY <1>1, <2>1, <2>2 DEF Older, FingersInTime
    <2>3. CASE sinceFinger # NULL
      <3>1. sinceFinger' \in 0 .. AgeCap
        BY <1>1, <2>1, <2>3, OlderIs
      <3>2. ASSUME ~ wrapped'
            PROVE  /\ sinceFinger' = now' - lastFingerUpdateTimestamp'
                   /\ sinceFinger' < 2 * PERIODIC_JOBS_TIMEOUT + MaxPause
        <4>1. /\ lastFingerUpdateTimestamp + 2 * PERIODIC_JOBS_TIMEOUT > now
              /\ sinceFinger = now - lastFingerUpdateTimestamp /\ now' = now + pause
          BY <1>1, <1>3, <2>3, <3>2, IterationIs, TimesAssumption
             DEF FingersDue, Due, JobsInv, FingersInTime
        <4>2. sinceFinger' = sinceFinger + pause
          BY <1>1, <2>1, <2>3, <4>1, OlderIs, TimesAssumption
        <4> QED
          BY <1>1, <2>1, <4>1, <4>2, TimesAssumption
      <3> QED
        BY <1>1, <2>1, <3>1, <3>2 DEF FingersInTime
    <2> QED
      BY <2>2, <2>3
  <1> QED
    BY <1>2, <1>3

\* The three things that can happen to the stamp of stabilize requests.
LEMMA StampIs ==
  ASSUME JobsInv, NEW message, NEW pause \in 1 .. MaxPause, Iteration(message, pause)
  PROVE  LET L == lastStabilizedTimestamp IN
         \/ /\ StabilizeDue
            /\ \/ L' = now + PERIODIC_JOBS_TIMEOUT - Grace /\ substate' = "STABILIZING"
               \/ L' = now /\ substate' = "IN_NETWORK"
            /\ sinceStabilize' = pause
         \/ /\ ~ StabilizeDue
            /\ \/ L' = L /\ substate' = substate
               \/ L' = now /\ substate = "STABILIZING" /\ substate' = "IN_NETWORK"
            /\ sinceStabilize' = Older(sinceStabilize, pause)
  <1>1. CASE StabilizeDue
    <2>1. sinceStabilize' = Older(0, pause)
      BY <1>1 DEF Iteration
    <2>2. sinceStabilize' = pause
      BY <2>1, OlderIs, TimesAssumption
    <2> QED
      BY <1>1, <2>2 DEF Iteration, StampAfterRequest
  <1>2. CASE ~ StabilizeDue
    BY <1>2 DEF Iteration
  <1> QED
    BY <1>1, <1>2

LEMMA StabilizeStep ==
  ASSUME JobsInv, NEW message, NEW pause \in 1 .. MaxPause, Iteration(message, pause)
  PROVE  /\ lastStabilizedTimestamp' \in 0 .. ClockWrap - 1 + PERIODIC_JOBS_TIMEOUT - Grace
         /\ substate' \in {"IN_NETWORK", "STABILIZING"}
         /\ sinceStabilize' \in (0 .. AgeCap) \cup {NULL}
         /\ StabilizeInTime' /\ StampNotBehind'
  <1> DEFINE L == lastStabilizedTimestamp
             age == sinceStabilize
  <1>1. /\ L \in 0 .. ClockWrap - 1 + PERIODIC_JOBS_TIMEOUT - Grace
        /\ now \in 0 .. ClockWrap - 1
        /\ age \in (0 .. AgeCap) \cup {NULL}
        /\ substate \in {"IN_NETWORK", "STABILIZING"}
    BY DEF JobsInv, TypeOK
  <1>2. CASE StabilizeDue
    <2>1. /\ \/ L' = now + PERIODIC_JOBS_TIMEOUT - Grace /\ substate' = "STABILIZING"
             \/ L' = now /\ substate' = "IN_NETWORK"
          /\ age' = pause
      BY <1>2, StampIs
    <2>2. /\ L' \in 0 .. ClockWrap - 1 + PERIODIC_JOBS_TIMEOUT - Grace
          /\ substate' \in {"IN_NETWORK", "STABILIZING"}
          /\ age' \in 0 .. AgeCap
      BY <1>1, <2>1, TimesAssumption
    <2>3. L' >= now /\ L' + age' >= now'
      BY <1>1, <2>1, IterationIs, TimesAssumption
    <2>4. ASSUME ~ wrapped'
          PROVE  /\ now' < L' + PERIODIC_JOBS_TIMEOUT + MaxPause
                 /\ substate' = "STABILIZING" =>
                      L' = now' - age' + (PERIODIC_JOBS_TIMEOUT - Grace)
                 /\ L' <= now' - age' + (PERIODIC_JOBS_TIMEOUT - Grace) + PERIODIC_JOBS_TIMEOUT
      <3>1. now' = now + pause
        BY <2>4, IterationIs
      <3> QED
        BY <1>1, <2>1, <3>1, TimesAssumption
    <2> QED
      BY <2>2, <2>3, <2>4 DEF StabilizeInTime, StampNotBehind
  <1>3. CASE ~ StabilizeDue
    <2>1. /\ \/ L' = L /\ substate' = substate
             \/ L' = now /\ substate = "STABILIZING" /\ substate' = "IN_NETWORK"
          /\ age' = Older(age, pause)
          /\ L + PERIODIC_JOBS_TIMEOUT > now
      BY <1>1, <1>3, StampIs, TimesAssumption DEF StabilizeDue, Due
    <2>2. L' \in 0 .. ClockWrap - 1 + PERIODIC_JOBS_TIMEOUT - Grace
          /\ substate' \in {"IN_NETWORK", "STABILIZING"}
      BY <1>1, <2>1, TimesAssumption
    <2>3. CASE age = NULL
      BY <2>1, <2>2, <2>3 DEF Older, StabilizeInTime, StampNotBehind
    <2>4. CASE age # NULL
      <3>1. /\ age \in 0 .. AgeCap /\ age' \in 0 .. AgeCap
            /\ age + pause <= AgeCap => age' = age + pause
            /\ age + pause > AgeCap => age' = AgeCap
        BY <1>1, <2>1, <2>4, OlderIs
      <3>2. age' # NULL
        BY <3>1, TimesAssumption
      <3>3. StampNotBehind'
        BY <1>1, <2>1, <2>2, <2>4, <3>1, IterationIs, TimesAssumption DEF JobsInv, StampNotBehind
      <3>4. ASSUME ~ wrapped'
            PROVE  StabilizeInTime'
        <4>1. /\ ~ wrapped /\ now' = now + pause
              /\ substate = "STABILIZING" => L = now - age + PERIODIC_JOBS_TIMEOUT - Grace
              /\ L <= now - age + PERIODIC_JOBS_TIMEOUT - Grace + PERIODIC_JOBS_TIMEOUT
          BY <1>1, <2>4, <3>1, <3>4, IterationIs, TimesAssumption DEF JobsInv, StabilizeInTime
        <4>2. age' = age + pause
          BY <1>1, <2>1, <3>1, <4>1, TimesAssumption
        <4>3. now' < L' + PERIODIC_JOBS_TIMEOUT + MaxPause
          BY <1>1, <2>1, <4>1, TimesAssumption
        <4>4. /\ substate' = "STABILIZING" =>
                    L' = now' - age' + (PERIODIC_JOBS_TIMEOUT - Grace)
              /\ L' <= now' - age' + (PERIODIC_JOBS_TIMEOUT - Grace) + PERIODIC_JOBS_TIMEOUT
          BY <1>1, <2>1, <3>1, <4>1, <4>2, TimesAssumption
        <4> QED
          BY <4>3, <4>4 DEF StabilizeInTime
      <3> QED
        BY <2>2, <3>1, <3>3, <3>4 DEF StabilizeInTime
    <2> QED
      BY <2>3, <2>4
  <1> QED
    BY <1>2, <1>3

LEMMA JobsStepInv == JobsInv /\ [Next]_vars => JobsInv'
  <1> SUFFICES ASSUME JobsInv, [Next]_vars
               PROVE  JobsInv'
    OBVIOUS
  <1>1. ASSUME NEW message, NEW pause \in 1 .. MaxPause, Iteration(message, pause)
        PROVE  JobsInv'
    BY <1>1, IterationIs, SendStep, FingersStep, StabilizeStep DEF JobsInv, TypeOK
  <1>2. CASE UNCHANGED vars
    BY <1>2 DEF vars, JobsInv, TypeOK, SendInTime, FingersInTime, StabilizeInTime,
                StampNotBehind
  <1> QED
    BY <1>1, <1>2 DEF Next

THEOREM JobsInvariance == Spec => []JobsInv
  BY JobsInitInv, JobsStepInv, PTL DEF Spec

-----------------------------------------------------------------------------
\* Every variable keeps its type: in particular no timestamp lies more than a
\* period ahead of what the clock can show.
THEOREM JobsTypeCorrect == Spec => []TypeOK
  <1>1. JobsInv => TypeOK
    BY DEF JobsInv
  <1> QED
    BY <1>1, JobsInvariance, PTL

\* Until the clock falls back every job recurs within its deadline.
THEOREM JobsOnTime == Spec => []JobsInTime
  <1>1. JobsInv => JobsInTime
    BY TimesAssumption DEF JobsInv, TypeOK, SendInTime, FingersInTime, StabilizeInTime, JobsInTime
  <1> QED
    BY <1>1, JobsInvariance, PTL

\* Two stabilize requests are a period apart, whatever the clock does.
THEOREM SpacingKept == Spec => RequestsAreSpaced
  <1>1. JobsInv =>
          (StabilizeDue /\ sinceStabilize # NULL => sinceStabilize >= PERIODIC_JOBS_TIMEOUT)
    BY TimesAssumption DEF JobsInv, TypeOK, StampNotBehind, StabilizeDue, Due
  <1> QED
    BY <1>1, JobsInvariance, PTL DEF RequestsAreSpaced
=============================================================================
