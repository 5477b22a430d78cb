SPECIFICATION TokenFairSpec
CONSTANTS
  t1 = t1
  t2 = t2
  t3 = t3
  Tokens = {t1, t2, t3}
  Early = {t1, t3}
  Listing <- Duplicated
  Known = {t1}
  TokenAnswers <- TwoAnswers
  PageSize = 2
  FlushEvery = 2
  TokenBatch = 2
  MaxHeld = 1
  MaxLookups = 1
  Traded = {t1}
  MaxMoves = 2
  MaxTokenFaults = 1
  MaxRedirects = 1
  Gateways = 2
  Max429 = 2

PROPERTY TokenDataKept EveryTokenTried ListedRecovers StatsSettle
CHECK_DEADLOCK FALSE
