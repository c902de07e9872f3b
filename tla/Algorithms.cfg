SPECIFICATION Spec
CONSTANTS
  MaxCommits = 4
  NoRelation = NoRelation
  MaxTokens = 3
  MaxRecords = 2
  Names = {"a", "b"}
  Codes <- SomeCodes
  NoPath = NoPath
  MaxEntries = 5
  MaxDepth = 1
  MaxCandidates = 2
  Identities <- SomeIdentities
  Peer <- OnePeer
  None = None
  Places <- AllPlaces
  Root <- TheRoot
  Deletions <- SomeDeletions
INVARIANTS HeadsAgree HeadClaims ParserExact ParserReadsBack SearchFindsFirst LocateAccepted DeletesListedOnly DeleterReports
