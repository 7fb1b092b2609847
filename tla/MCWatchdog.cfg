\* The connection watchdog: restarts, changed settings, and a silent peer.
SPECIFICATION MCSpec
CONSTANTS
  Suspect    = 2
  Losts      = {2, 3}
  Recover    = 1
  Resend     = 2
  InboxLimit = 1
  MaxTime    = 5
  MaxGen     = 1
  MaxRev     = 2
  MaxFaults  = 1
  Quiet      = 2
  LastTick <- LastTicks
INVARIANTS
  ReportsAreEarned
PROPERTIES
  SilenceIsReported
CHECK_DEADLOCK FALSE
