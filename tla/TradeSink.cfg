CONSTANTS
  MaxTrades = 4
  MaxBreaks = 3
SPECIFICATION FairSpec
INVARIANTS
  TypeOK
  AtMostOneLostPerBreak
  RepeatedOnlyByRace
PROPERTIES
  FeedSpec
  EveryTradeLeavesTheQueue
