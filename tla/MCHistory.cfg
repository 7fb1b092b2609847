\* Clocks that step back, declared loss, cleared history, and the stored snapshot.
SPECIFICATION MCSpec
CONSTANTS
    FreshFor         = 2
    Policy           = "any_down"
    Probes           = {"a", "b"}
    Workers          = {"w", "x"}
    TicksPerMinute   = 1
    MinutesPerHour   = 2
    HoursPerDay      = 2
    Days             = 1
    MaxEvents        = 2
    MaxGapEvents     = 1
    MaxClears        = 1
    ClockMayStepBack = TRUE
    Projectors       = {"checker", "push"}
    MaxBeats         = 3
INVARIANTS
  HistoryIsExact
  SnapshotIsSound
PROPERTIES
  HistorySettles
CHECK_DEADLOCK FALSE
