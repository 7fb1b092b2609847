SPECIFICATION ResetSpec
CONSTANTS
    Probes = {1}
    Local = 0
    Modes = {"aggregate"}
    Deadline = 1
    Budget = 1
    Settle = 2
    Cooldown = 1
    Grace = 1
    Backoff = 1
    BackoffMax = 2
    MaxBarriers = 1
    MaxTries = 1
    MaxRevision = 1
    MaxFaults = 1
    Outage = FALSE
    Resets = TRUE
PROPERTIES HoldsEnd
