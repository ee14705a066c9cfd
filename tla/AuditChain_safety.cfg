SPECIFICATION FairSpec
CONSTANTS
  a1 = a1
  a2 = a2
  h1 = h1
  h2 = h2
  None = None
  Api = {a1, a2}
  Handler = {h1, h2}
  HomeOf <- HomeSplit
  SeedOrder <- TwoUsers
  Payload = {"decision"}
  MaxRequests = 3
  MaxStarts = 3
  MaxFaults = 2
CHECK_DEADLOCK FALSE
INVARIANTS
  LedgerInv
  ChainVerifies
  NoFork
  SeededOnce
  AnnouncedIsCommitted
PROPERTIES
  CommitsInSeqOrder
  ImplementsLedger
  AppendEnds
  StartupEnds
