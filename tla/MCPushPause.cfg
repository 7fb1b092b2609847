\* A pause between two ticks of the scheduler and a pusher that keeps its interval.
SPECIFICATION MCSpec
CONSTANTS
    Parts        = {"punctual"}
    Monitors     = {1}
    Workers      = {w1, w2}
    NoWorker     = NoWorker
    TTL          = 1
    Interval     = 1
    BatchSize    = 1
    Slots        = 1
    MaxClock     = 2
    MaxStarts    = 2
    MaxChecks    = 2
    PushInterval = 2
    PushGrace    = 2
    MaxChanges   = 2
    MaxPushes    = 2
    Runners      = {r1, r2}
    NoRunner     = NoRunner
    Deployments  <- BothModes
    MaxSteps     = 2
    Wait         = 1
    LeaseTTL     = 3
    MaxEdits     = 2
    MaxFaults    = 2
INVARIANT
  PauseNeverDown
CHECK_DEADLOCK FALSE
