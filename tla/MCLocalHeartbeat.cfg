\* Overlapping checks of one monitor while its configuration and its assignment
\* change.  The model stops at MaxSeq and when no revision is left.
SPECIFICATION Spec
CONSTANTS
    MaxInt      = 2
    Monitors    = {m1}
    Checks      = {c1, c2}
    Inputs <- Mixed
    MaxRetries  = 1
    MaxAttempts = 2
    MaxSeq = 2
    MaxRev = 2
    MaxSetRev = 3
SYMMETRY Symmetry
INVARIANTS
  SerialHistory
  ConfirmedByConsecutiveFailures
  SequenceGapFree
  SupersededNeverRecords
PROPERTIES
  ContentionMeansProgress
CHECK_DEADLOCK FALSE
