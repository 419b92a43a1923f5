SPECIFICATION FairSpec
CONSTANTS
  u1 = u1
  u2 = u2
  a1 = a1
  a2 = a2
  h1 = h1
  h2 = h2
  r1 = r1
  User = {u1, u2}
  NoUser = NoUser
  Referrer <- Invited
  SharedPayout = {}
  Amount = {2}
  Paid = {1, 2}
  DailyCap = 3
  MinDeposit = 1
  TwoPerson = 2
  MinQualifying = 2
  MaxGrants = 2
  Admin = {a1, a2}
  NoAdmin = NoAdmin
  Ref = {r1}
  Message <- Sms
  Handler = {h1, h2}
  Idle = Idle
  Failure = {"failed"}
  MaxPayments = 2
  ActiveRule <- Rules
  Barred = {u2}
INVARIANTS DepositsAccounted CapHoldsUnlessOverlapped
PROPERTIES CreditIsFinal PaidIsCredited
CHECK_DEADLOCK FALSE
