\* The cutover to aggregate paging: races, the hub-local member, resets, progress.
SPECIFICATION MCSpec
CONSTANTS
    Probes      = {1}
    Local       = 0
    Modes       = {"aggregate"}
    Deadline    = 2
    Budget      = 1
    Settle      = 2
    Cooldown    = 1
    Grace       = 1
    Backoff     = 1
    BackoffMax  = 2
    MaxBarriers = 1
    MaxTries    = 2
    MaxRevision = 2
    MaxFaults   = 1
    Outage      = TRUE
    Resets      = FALSE
INVARIANTS
  CutoverIsSafe
PROPERTIES
  HoldsAreEnded
