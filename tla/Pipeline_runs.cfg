SPECIFICATION Spec
CONSTANTS
  NSynd = 2
  NNoise = 1
  PoolSizes <- MCPoolSizes
  PerSyndicate = {1, 2}
  SampleSizes = {1, 2}
  Amounts <- MCAmounts
  MinCommunitySize = 2
  AmountBandCap = 20
  CorpusV1 <- MCCorpusV1
  CorpusV2 <- MCCorpusV2
  EvidenceSection = "BSA 63"
  Bm25Of <- MCBm25
  CosineOf <- MCCosine
  MatchedBy <- MCMatched
  GoldenV1 <- MCGoldenV1
  GoldenV2 <- MCGoldenV2
  Thresh = 2
  SectionsOf <- MCSectionsOf
  Verbatim <- MCVerbatim
  Phrases <- MCPhrases
  InventedSection = "BNS 420"
  Unbracketed <- MCUnbracketed
  NClaims = 50
  Inputs <- MCInputs
  Replies <- MCReplies
  NRecords = 12
  TamperIndex = 5
CHECK_DEADLOCK FALSE
INVARIANTS
  ReproducesPrototype
  ValueConserved
  LabelledHonestly
  PacketIsServedNetwork
  PersistedAsServed
  OnlyEmptyRunsFail
