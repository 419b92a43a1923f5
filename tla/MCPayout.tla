------------------------------ MODULE MCPayout ------------------------------
(***************************************************************************)
(* One player with an automatic withdrawal and a large one on the manual   *)
(* rail, so that money locked for one can be mistaken for another's.       *)
(***************************************************************************)
EXTENDS Payout, TLC

CONSTANTS p1, m,       \* the withdrawals
          u,           \* the player
          a1, a2,      \* the admins
          w1           \* the payout worker

Users == (p1 :> u) @@ (m :> u)
Amounts == (p1 :> 10) @@ (m :> 20)
Opening == u :> 45
=============================================================================
