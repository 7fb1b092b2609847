\* Competing connectors, and the rotation of the credential they present.
SPECIFICATION MCSpec
CONSTANTS
  l1 = l1
  l2 = l2
  l3 = l3
  Loops     = {l1, l2, l3}
  Owner    <- MCOwner
  Lease     = 2
  MaxBack   = 1
  MaxGen    = 2
  MaxFaults = 1
  Prompt    = FALSE
  Overlap   = 2
  MaxTime   = 4
  MaxVersion = 3
  Ahead     = 0
  Skew      = 2
  MaxSteps  = 1
  MaxDrops  = 2
INVARIANTS
  SessionsAreFenced
  RotationIsSafe
PROPERTIES
  AuthorityIsNotTaken
  ProbeIsReached
  RetiredOpensNothing
  RotationSettles
CHECK_DEADLOCK FALSE
