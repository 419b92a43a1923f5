CONSTANTS
 s1 = s1
 s2 = s2
 b1 = b1
 b2 = b2
 r1 = r1
 r2 = r2
 none = none
 Stakes = {s1, s2}
 KenoStakes = {s2}
 Amount <- MCAmount
 Prize = 2
 Requests = {r1, r2}
 Caps = {1, 2}
 Unlimited = 9
 Bonuses = {b1, b2}
 Worth <- MCWorth
 Required <- MCRequired
 Life = 1
 MaxTime = 2
 MaxOrders = 2
SPECIFICATION Spec
INVARIANTS LossCapHolds LoweringHolds BonusEndsOnce
PROPERTY ExclusionIsFinal
SYMMETRY MCSymmetry
CHECK_DEADLOCK FALSE
