CONSTANTS
  Pubkey = {pA}
  Daemon = pA
  pA = pA
  Gone = Gone
  None = None
  Slot = {"loop", "late", "visitor"}
  MaxTtl = 15
  PruneInterval = 2
  MaxLag = 1
  Address = {a1, a2}
  Interval = 5
  StunTimeout = 1
  Patience = 1
  MaxLosses = 1
  MaxRestarts = 1
  MaxQueued = 1
  PortShared = FALSE
  Visits <- MCVisits
SPECIFICATION FairSpec
INVARIANTS TypeOK   StopIsPrompt
PROPERTY CandidatesCatchUp
