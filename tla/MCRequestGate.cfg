CONSTANTS
  Requests = {r1, r2, r3}
  Commits = {c1, c2}
  MaxGeneration = 3
SPECIFICATION FairSpec
INVARIANTS CommitAlone NoSleeperMissed
PROPERTIES DrainEnds QueuedServed ImplementsSection
