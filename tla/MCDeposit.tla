----------------------------- MODULE MCDeposit -----------------------------
(***************************************************************************)
(* A player and the friend who invited them; two readings of one Telebirr  *)
(* reference, so that a second message can contradict the first.           *)
(***************************************************************************)
EXTENDS Deposit, TLC

CONSTANTS u1, u2, a1, a2, h1, h2, r1

Invited == (u1 :> u2) @@ (u2 :> NoUser)
Rules == [referral_reward |-> 1, welcome_bonus |-> 2]
Sms == {[ref |-> r1, body |-> 1, amount |-> 1], [ref |-> r1, body |-> 2, amount |-> 2]}
=============================================================================
