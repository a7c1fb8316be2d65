CONSTANTS
  MaxPushed = 4
  MaxStray = 1
SPECIFICATION FairAppSpec
\* The process ends, crashes, or hangs when it exits.
CHECK_DEADLOCK FALSE
INVARIANTS TypeOK AppTypeOK NoLostWakeup SyncExcludesCommands ServiceHasWorker
PROPERTIES InOrder HandledOrOver ExitEnds
