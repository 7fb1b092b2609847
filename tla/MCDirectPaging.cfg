\* Paging without the outbox: the dispatcher, folder alerts and the folder tree.
SPECIFICATION MCSpec
CONSTANTS
    w1          = w1
    Recorders   = {w1, w2}
    Resend      = TRUE
    Windows     = TRUE
    MaxAlerts   = 2
    MaxElapses  = 1
    MaxLapses   = 1
    PageCap     = 6
    MaxFailures = 2
    m1          = m1
    m2          = m2
    inner       = inner
    outer       = outer
    Workers     = {w1, w2}
    Monitors    = {m1, m2}
    Remote      = {m2}
    Folders     = {inner, outer}
    NoFolder    = NoFolder
    Home        <- TwoHomes
    Parent      <- Nested
    Folder      <- WorstInHalf
    Paged       = {inner, outer}
    Reported    = {"UP", "DOWN", "UNKNOWN"}
    MaxChanges  = 2
    MaxFaults   = 1
    MaxChildren = 3
    Thresholds  = {0, 1, 2, 34, 50, 100, 101}
    TreeFolders = {f1, f2, f3}
    Editors     = {e1}
    Policies    = {p1, p2}
    None        = None
    MaxWalk     = 2
INVARIANTS
  OwnerIsFaithful
  OpenRaceRecovered
  PagesTellStatus
  RollupIsSound
  
PROPERTIES
  InitialPageSent
  FolderSettles
CHECK_DEADLOCK FALSE
