SPECIFICATION FairSpec
CONSTANTS
  a = a
  b = b
  e1 = e1
  e2 = e2
  NoEngine = NoEngine
  RepliesFail = TRUE
  Engine = {e1, e2}
  Seat <- OneSeat
  Funds <- FundsTwo
  Stake = 10
  HouseCutBps = 1500
  MinPlayers = 1
  MaxPlayers = 2
  MaxCards = 2
  LineAt <- LineAtCards
  WinAt <- OneCall
  MaxCalls = 1
  MaxRounds = 2
  MaxAsks = 1
  MaxFaults = 1
  AutoChoice = {TRUE, FALSE}
INVARIANT StakesAccounted
PROPERTIES TerminalFinal EveryRoundEnds EngineMovesOn
CHECK_DEADLOCK FALSE
