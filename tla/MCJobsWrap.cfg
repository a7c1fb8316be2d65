CONSTANTS
  ClockWrap = 24
  PERIODIC_JOBS_TIMEOUT = 3
  SEND_TIMEOUT = 3
  Grace = 1
  MaxPause = 2
  AgeCap = 12
  Garbage <- MCGarbage
  NULL = NULL
SPECIFICATION FairSpec
PROPERTY StabilizesForEver
