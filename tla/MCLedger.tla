------------------------------ MODULE MCLedger ------------------------------
(***************************************************************************)
(* Small instances of LedgerPost.  Accounts 1 and 2 are the cash accounts  *)
(* of two players, 3 is pot_escrow (no migration seeds it, so it is younger*)
(* than the first player's accounts) and 4 is provider_settlement.         *)
(***************************************************************************)
EXTENDS LedgerPost, TLC

MCAccount == 1 .. 4
MCUserAccount == {1, 2}
MCOpening == 1 :> 1 @@ 2 :> 0 @@ 3 :> 1 @@ 4 :> -2

Move(k, kind, ref, from, to, n) ==
    [key |-> k, kind |-> kind, ref |-> ref, legs |-> from :> -n @@ to :> n]

stakeA == Move("stake-A", "stake", "r1", 1, 3, 1)    \* player 1 buys a card
stakeA2 == Move("stake-A2", "stake", "r2", 1, 3, 1)  \* ... in another room, with the same birr
clash == Move("stake-A", "stake", "r3", 1, 4, 1)     \* another operation with a used key
lopsided == [key |-> "bad", kind |-> "adjust", ref |-> "none", legs |-> 2 :> 1 @@ 4 :> 0]
refundA == Move("refund-A", "refund", "r0", 3, 1, 1)
refundB == Move("refund-B", "refund", "r0", 3, 2, 1)

MCRequest == {stakeA, stakeA2, clash, lopsided, refundA, refundB}

\* refund_round posts once per entrant inside one transaction while player 1
\* stakes in two rooms; the first stake is retried by a caller that then posts
\* entries that do not sum to zero, and another operation reuses its key.
MCProgram == "t1" :> <<refundB, refundA>> @@ "t2" :> <<stakeA>> @@ "t3" :> <<stakeA2>>
             @@ "t4" :> <<stakeA, lopsided>> @@ "t5" :> <<clash>>

MCTxn == DOMAIN MCProgram
=============================================================================
