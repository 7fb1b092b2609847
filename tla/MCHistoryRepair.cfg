\* A gap declared after a sample made under a clock further ahead.
SPECIFICATION MCSpec
CONSTANTS
    FreshFor         = 2
    Policy           = "any_down"
    Probes           = {"a", "b"}
    Workers          = {"w", "x"}
    TicksPerMinute   = 1
    MinutesPerHour   = 2
    HoursPerDay      = 2
    Days             = 1
    MaxEvents        = 2
    MaxGapEvents     = 1
    MaxClears        = 1
    ClockMayStepBack = TRUE
    Projectors       = {"checker", "push"}
    MaxBeats         = 3
INVARIANTS
  NoFabricatedCoverage
CHECK_DEADLOCK FALSE
