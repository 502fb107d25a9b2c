SPECIFICATION Spec
CONSTANTS
  MaxChanges = 2
  Shares <- MCShares
  Percents <- MCPercents
  Trades = {15, 55}
  RsiReadings <- MCReadings
  MaxMoves = 5
  AlertThreshold = 90
  MinPassed = 3
  MinRiskReward = 200
  W <- MCW
  Starts <- MCStarts
  Closes <- MCCloses
  Moves <- MCMoves
  MarketCap = 0
  Peers <- MCPeers
  MaxSessions = 2
INVARIANTS
  TypeOK
  HighQualityIsClean
  AlertEvidence
  CapNeverAlerts
  ScoreDecides
  StaleNeverStrong
  ExtendedNeverStrong
PROPERTIES
  RiskNeverHelps
  SignalNeverHurts
  ScoreFollowsPrice
  FailureStands
  QuoteNeverRevives
CHECK_DEADLOCK FALSE
