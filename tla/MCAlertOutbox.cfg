\* Lifecycle, racing consumers, rollouts and windows.
SPECIFICATION MCSpec
CONSTANTS
    w1           = w1
    Channels     = {c1}
    Workers      = {w1, w2}
    Recorded     = {"UP", "DOWN", "PENDING"}
    Resend       = TRUE
    Windows      = TRUE
    Aggregate    = TRUE
    MaxAttempts  = 2
    MaxIncidents = 2
    MaxIntents = 3
    MaxRev       = 2
    MaxFaults    = 1
INVARIANTS
  LifecycleIsSound
  MessagesAreExplained
PROPERTIES
  AckStopsPaging
  EveryMessageSettles
