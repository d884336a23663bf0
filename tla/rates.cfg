SPECIFICATION FairSpec
CONSTANTS
  Rates = {0, 2, 5, 6}
  Admin = {a1}
  Second = 5
  TickPeriod = 6
INVARIANTS TypeOK NotTooRarely NotTwiceTooOften
PROPERTY TickerFollows
