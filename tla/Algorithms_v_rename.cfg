SPECIFICATION Spec
CONSTANTS
  MaxCommits = 1
  NoRelation = NoRelation
  MaxTokens = 1
  MaxRecords = 2
  Names = {"a", "b"}
  Codes <- RenameCodes
  NoPath = NoPath
  MaxEntries = 1
  MaxDepth = 1
  MaxCandidates = 2
  Identities <- SomeIdentities
  Peer <- OnePeer
  None = None
  Places <- AllPlaces
  Root <- TheRoot
  Deletions <- SomeDeletions
INVARIANTS EveryEntryParsed
