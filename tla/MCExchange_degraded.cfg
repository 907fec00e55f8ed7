SPECIFICATION ExchangeSpec
CONSTANTS
  Messages = {p1}
  Relatives = {f1}
  Attempts = 3
  SessionTtl = 1
  ExchangeStarts <- MExchangeStarts
INVARIANTS DegradedAnswers
CHECK_DEADLOCK FALSE
