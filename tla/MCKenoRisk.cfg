CONSTANTS
 u1 = u1
 u2 = u2
 a1 = a1
 a2 = a2
 none = none
 Users = {u1, u2}
 Admins = {a1, a2}
 Stake = 3
 Cut = 1
 Prize = 4
 Expected = 1
 Estimate <- MCEstimate
 Share = 300
 PerUser = 1
 Multiple = 2
 Hold = 1
 Day = 0
 TierNumber <- MCTierNumber
 MinReserve <- MCMinReserve
 Pct <- MCPct
 Rows0 = {1, 2}
 Tier0 = 2
 Reserve0 = 6
 Floor0 = 2
 Amount = 3
 MaxTickets = 2
 MaxRounds = 3
 MaxTime = 1
 MaxOrders = 1
 MaxFaults = 1
SPECIFICATION Spec
INVARIANTS ExposureWithinCapacity BreakerWins
PROPERTIES PromotionEarned FloorHoldsUnlessOverlapped
SYMMETRY MCSymmetry
CHECK_DEADLOCK FALSE
