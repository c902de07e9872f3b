SPECIFICATION FairSpec
CONSTANTS
  MaxCalls = 3
CHECK_DEADLOCK FALSE
INVARIANTS TypeOK OneUnderWay IncompatibleNeverExecutes NoPeerLeft
PROPERTIES ImplementsRemoteCalls CommandEnds OrphanEnds
