----------------------------- MODULE MCWagering -----------------------------
EXTENDS Wagering, TLC

CONSTANTS s1, s2, b1, b2, r1, r2

MCAmount == [s \in Stakes |-> 1]
MCWorth == [b \in Bonuses |-> IF b = b1 THEN 1 ELSE 2]
MCRequired == [b \in Bonuses |-> 1]
MCSymmetry == Permutations(Requests)

=============================================================================
