----------------------------- MODULE MCGateway -----------------------------
EXTENDS Gateway

CONSTANTS a, b

MCEvents == [r \in Rooms |-> IF r = a THEN 2 ELSE 0]
MCDroppable == {<<a, 1>>, <<a, 2>>}
=============================================================================
