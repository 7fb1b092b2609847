\* The sharded scheduler's leases, the local scheduler's push deadlines, and
\* escalation: both ways of sending, crashes, edits, acknowledgements.
SPECIFICATION MCSpec
CONSTANTS
    Parts        = {"lease", "punctual", "silent", "ladder"}
    Monitors     = {1}
    Workers      = {w1, w2}
    NoWorker     = NoWorker
    TTL          = 1
    Interval     = 1
    BatchSize    = 1
    Slots        = 1
    MaxClock     = 2
    MaxStarts    = 2
    MaxChecks    = 2
    PushInterval = 2
    PushGrace    = 2
    MaxChanges   = 2
    MaxPushes    = 2
    Runners      = {r1, r2}
    NoRunner     = NoRunner
    Deployments  <- BothModes
    MaxSteps     = 2
    Wait         = 1
    LeaseTTL     = 3
    MaxEdits     = 2
    MaxFaults    = 2
INVARIANTS
  StepQueuedOnce
PROPERTIES
  CommitsInLeaseOrder
  LapsedLeaseNeverCommits
  AbandonedMonitorTakenOver
  DeadlineTellsSilence
  AckIsAuthoritative
  LadderEnds
CHECK_DEADLOCK FALSE
