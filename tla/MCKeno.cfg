SPECIFICATION FairSpec
CONSTANTS
  e1 = e1
  win = win
  auto = auto
  NoEngine = NoEngine
  NoSeed = NoSeed
  Engine = {e1}
  Manual = {win}
  Session = {auto}
  RoundsTotal <- Totals
  Stake = 10
  Cut = 2
  Prize <- Prizes
  Jackpot = {win}
  PoolSeed = 50
  DrawCount = 1
  MaxRounds = 2
  MaxFaults = 1
INVARIANT TicketEndsOneWay
PROPERTIES NumbersStand DecisionsStand EveryRoundIsFinished
