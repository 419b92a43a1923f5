----------------------------- MODULE MCKenoRisk -----------------------------
(***************************************************************************)
(* Three tiers, the third edited while it may be a candidate; one ticket   *)
(* fits the reserve at first, and two tickets cost more than one.          *)
(***************************************************************************)
EXTENDS KenoRisk, TLC

CONSTANTS u1, u2, a1, a2

MCEstimate == [n \in 0..2 |-> <<0, 4, 7>>[n + 1]]
MCTierNumber == <<1, 2, 2>>
MCMinReserve == <<0, 6, 5>>
MCPct == <<50, 40, 30>>
MCSymmetry == Permutations({u1, u2}) \cup Permutations({a1, a2})
=============================================================================
