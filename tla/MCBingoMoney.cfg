SPECIFICATION Spec
CONSTANTS
  a = a
  b = b
  e1 = e1
  e2 = e2
  NoEngine = NoEngine
  RepliesFail = TRUE
  Engine = {e1}
  Seat <- ThreeSeats
  Funds <- FundsTwo
  Stake = 7
  HouseCutBps = 1500
  MinPlayers = 2
  MaxPlayers = 2
  MaxCards = 2
  LineAt <- LineAtCards
  WinAt <- WinAtCards
  MaxCalls = 2
  MaxRounds = 1
  MaxAsks = 4
  MaxFaults = 2
  AutoChoice = {TRUE, FALSE}
INVARIANTS StakesAccounted WinnersGenuine PotPaidFairly
CHECK_DEADLOCK FALSE
