SPECIFICATION PayoutFairSpec
CONSTANTS
  p1 = p1
  m = m
  u = u
  a1 = a1
  a2 = a2
  w1 = w1
  NoAdmin = NoAdmin
  Payment = {p1, m}
  Manual = {m}
  Large = {m}
  UserOf <- Users
  Amount <- Amounts
  Funds <- Opening
  Admin = {a1, a2}
  Worker = {w1}
  Copies = 2
  MaxFaults = 2
INVARIANTS LockedIsInFlight EndsOneWay TwoPersonRule
PROPERTY ApprovedIsTakenUp
CHECK_DEADLOCK FALSE
