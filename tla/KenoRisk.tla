------------------------------ MODULE KenoRisk ------------------------------
(***************************************************************************)
(* What Keno may lose: the reserve, the tiers it climbs and falls through, *)
(* the capacity of a round, the circuit breaker, the configuration and the *)
(* withdrawals of the operator (packages/core/keno_tickets.py,             *)
(* keno_exposure.py, keno_config.py, keno_tier_automation.py,              *)
(* services/engine/keno_round_engine.py, services/admin/keno_queries.py).  *)
(*                                                                         *)
(* Tickets are alike: each has the same stake, expected payout and prize,  *)
(* and the 99.9th percentile of a round's payouts is a function of their   *)
(* number.  Rounds follow one another under one engine, and each settles   *)
(* while the next one runs; what happens inside a settlement is in         *)
(* KenoRound.  A crash with the refund that recovery makes is one step; a  *)
(* crash after which it resumes the round is left out.                     *)
(*                                                                         *)
(* Left out: the jackpot (KenoRound), paytables, picks and other limits of *)
(* a ticket, rows of the configuration that take effect later, and who may *)
(* be an admin.                                                            *)
(***************************************************************************)
EXTENDS Integers, Sequences, FiniteSets, FiniteSetsExt, Functions

CONSTANTS
    Users, Admins, none,
    Stake, Cut,         \* a stake, and its part for the jackpot pool
    Prize,              \* what a winning ticket pays
    Expected,           \* the expected payout of a ticket
    Estimate,           \* Estimate[n], the percentile of n tickets
    Share,              \* per_user_round_capacity_share, in percent
    PerUser,            \* max_tickets_per_user_per_round
    Multiple,           \* daily_payout_circuit_breaker_multiple
    Hold, Day,          \* PROMOTION_HOLD and 24 hours
    TierNumber,         \* rows of keno_risk_tiers, in the order of their ids
    MinReserve, Pct,    \* of each row: min_reserve, max_round_exposure_pct
    Rows0, Tier0,       \* the rows that exist at first, and the current one
    Reserve0, Floor0,   \* the reserve and reserve_withdrawal_floor at first
    Amount,             \* what an admin withdraws, or deposits
    MaxTickets,         \* bound: tickets sold or asked for, in all rounds
    MaxRounds, MaxTime, MaxOrders, MaxFaults  \* bounds

Row == DOMAIN TierNumber

ASSUME KenoRiskAssumption ==
    /\ none \notin Users \cup Admins \cup Row \cup Int
    /\ IsFiniteSet(Users)
    /\ Stake \in Nat /\ Cut \in 0..Stake /\ Prize \in Nat /\ Expected \in Nat
    /\ Estimate[0] = 0 /\ \A n \in DOMAIN Estimate : Estimate[n] \in Nat
    /\ TierNumber \in Seq(Nat) /\ MinReserve \in [Row -> Int] /\ Pct \in [Row -> Nat]
    /\ Rows0 \subseteq Row /\ Tier0 \in Rows0
    /\ Reserve0 \in Int /\ Floor0 \in Int
    /\ Hold \in Nat /\ Day \in Nat /\ Amount \in Nat \ {0}
    /\ MaxTime \in Nat /\ MaxOrders \in Nat /\ MaxFaults \in Nat

VARIABLES
    time, reserve,
    config,     \* the row of keno_configs in effect
    allowlist,  \* keno_beta_allowlist
    rows,       \* rows of keno_risk_tiers
    state,      \* keno_tier_state
    rounds,     \* keno_rounds with the tickets of each
    engine,     \* where _run_one_round is
    ticket,     \* where the transaction of a user's ticket is
    lock,       \* the user whose transaction holds the row of the round
    paid,       \* payouts at each time
    drawing,    \* where an admin's withdrawal is
    orders, faults,
    short,      \* short[n]: when an evaluation last found too little for tier n
    tripped     \* the tier the breaker demoted from, until the next round

admin == <<config, allowlist, rows>>
history == <<short, tripped>>
vars == <<time, reserve, admin, state, rounds, engine, ticket, lock, paid, drawing, orders,
          faults, history>>

At(label) == [at |-> label]
Last == Len(rounds)
Sold(r) == SumFunction(rounds[r].sold)
Fault ==
    /\ faults < MaxFaults
    /\ faults' = faults + 1
Order ==
    /\ orders < MaxOrders
    /\ orders' = orders + 1

(***************************************************************************)
(* Tiers.                                                                  *)
(***************************************************************************)
\* The row in effect for each tier number is the latest.
latest(n) == Max({i \in rows : TierNumber[i] = n})
numbers == {TierNumber[i] : i \in rows}
current == TierNumber[state.current]

ApplyTierChange(i) == state' = [current |-> i, candidate |-> none, since |-> 0]

\* The highest tier the balance covers, or the current one if it covers none.
eligible(balance) ==
    LET covered == {n \in numbers : MinReserve[latest(n)] <= balance}
    IN IF covered = {} THEN state.current ELSE latest(Max(covered))

(***************************************************************************)
(* A ticket.  The configuration is read before the row of the round is     *)
(* locked, and the balance of the reserve is read without a lock.          *)
(***************************************************************************)
is_user_allowed_to_play(u) == config.enabled /\ (config.restricted => u \in allowlist)

BettingOpen == Last > 0 /\ rounds[Last].status = "betting_open"

TicketsAsked ==
    MapThenSumSet(Sold, DOMAIN rounds) + Cardinality({u \in Users : ticket[u].at # "none"})

\* The configuration is read before a round is looked for: a ticket that finds
\* none open is refused after it (RejectTicket).
ReadConfig(u) ==
    /\ ticket[u] = At("none")
    /\ TicketsAsked < MaxTickets
    /\ is_user_allowed_to_play(u)
    /\ ticket' = [ticket EXCEPT ![u] = At("allowed")]
    /\ UNCHANGED <<time, reserve, admin, state, rounds, engine, lock, paid, drawing, orders,
                   faults, history>>

\* The percentile of the payouts less the stakes that fund them.
Net(n) == Estimate[n] - n * (Stake - Cut)

check_round_exposure(r, balance) ==
    Net(Sold(r) + 1) * 100 <= balance * Pct[rounds[r].tier]

\* A share of the ceiling, whatever the others staked.
check_per_user_round_share(r, u, balance) ==
    LET ceiling == balance * Pct[rounds[r].tier]
    IN ceiling > 0 => Estimate[rounds[r].sold[u] + 1] * 10000 <= Share * ceiling

(* Faulty variant: the row of the round is read without a lock. *)
LocksRow_no == TRUE

LocksRow == lock = none

\* Only the latest round can be open for betting.
LockRound(u) ==
    /\ ticket[u].at = "allowed" /\ LocksRow
    /\ BettingOpen
    /\ rounds[Last].sold[u] < PerUser
    /\ check_round_exposure(Last, reserve)
    /\ check_per_user_round_share(Last, u, reserve)
    /\ lock' = u
    /\ ticket' = [ticket EXCEPT ![u] = [at |-> "checked", round |-> Last, balance |-> reserve]]
    /\ UNCHANGED <<time, reserve, admin, state, rounds, engine, paid, drawing, orders, faults,
                   history>>

PlaceTicket(u) ==
    /\ ticket[u].at = "checked"
    /\ LET r == ticket[u].round
       IN rounds' = [rounds EXCEPT ![r].sold[u] = @ + 1, ![r].backing = ticket[u].balance]
    /\ reserve' = reserve + Stake - Cut
    /\ lock' = none
    /\ ticket' = [ticket EXCEPT ![u] = At("none")]
    /\ UNCHANGED <<time, admin, state, engine, paid, drawing, orders, faults, history>>

\* A check refuses it, the cash does not suffice, or the connection is lost.
RejectTicket(u) ==
    /\ ticket[u].at # "none"
    /\ ticket' = [ticket EXCEPT ![u] = At("none")]
    /\ lock' = IF lock = u THEN none ELSE lock
    /\ UNCHANGED <<time, reserve, admin, state, rounds, engine, paid, drawing, orders, faults,
                   history>>

(***************************************************************************)
(* A round.  Its tier is pinned first; the automation that follows is for  *)
(* the next one.                                                           *)
(***************************************************************************)
CreateRound ==
    /\ engine.at = "idle" /\ Last < MaxRounds
    /\ rounds' = Append(rounds, [status |-> "scheduled", tier |-> state.current,
                                 sold |-> [u \in Users |-> 0], opened |-> none,
                                 backing |-> none, below |-> tripped])
    /\ engine' = [at |-> "breaker", balance |-> reserve]
    /\ tripped' = none
    /\ UNCHANGED <<time, reserve, admin, state, ticket, lock, paid, drawing, orders, faults, short>>

OpenBetting ==
    /\ rounds' = [rounds EXCEPT ![Last].status = "betting_open", ![Last].opened = time]
    /\ engine' = At("betting")

Recent == {t \in DOMAIN paid : t + Day >= time}
actual_payout == SumFunctionOnSet(paid, Recent)
expected_payout ==
    MapThenSumSet(LAMBDA r : Sold(r) * Expected,
                                {r \in DOMAIN rounds : rounds[r].opened \in Recent})
Trips == expected_payout > 0 /\ actual_payout > expected_payout * Multiple

(* Faulty variant: one below the tier of the round that runs. *)
tier_to_lower_pinned == TierNumber[rounds[Last].tier]

tier_to_lower == current

\* Demoted by one tier; at the lowest there is nothing to do.
CheckBreaker ==
    /\ engine.at = "breaker"
    /\ LET lower == {n \in numbers : n < tier_to_lower}
       IN IF Trips /\ lower # {}
          THEN /\ ApplyTierChange(latest(Max(lower)))
               /\ OpenBetting
               /\ tripped' = current
          ELSE /\ engine' = [engine EXCEPT !.at = "evaluate"]
               /\ UNCHANGED <<state, rounds, tripped>>
    /\ UNCHANGED <<time, reserve, admin, ticket, lock, paid, drawing, orders, faults,
                   short>>

(* Faulty variant: a dip below the candidate's threshold keeps the candidate. *)
NoCandidate_kept == state' = state

NoCandidate == state' = [state EXCEPT !.candidate = none, !.since = 0]

\* A candidate must hold for PROMOTION_HOLD; a demotion is immediate.
evaluate_tier_transition ==
    /\ engine.at = "evaluate"
    /\ LET e == eligible(engine.balance)
       IN \/ /\ TierNumber[e] > current
             /\ IF state.candidate = e
                THEN IF time - state.since >= Hold THEN ApplyTierChange(e) ELSE UNCHANGED state
                ELSE state' = [state EXCEPT !.candidate = e, !.since = time]
          \/ TierNumber[e] < current /\ ApplyTierChange(e)
          \/ TierNumber[e] = current /\ NoCandidate
    /\ short' = [n \in DOMAIN short |->
                    IF n \in numbers /\ engine.balance < MinReserve[latest(n)]
                    THEN time ELSE short[n]]
    /\ OpenBetting
    /\ UNCHANGED <<time, reserve, admin, ticket, lock, paid, drawing, orders, faults,
                   tripped>>

\* The UPDATE waits for a ticket that holds the row.
CloseBetting ==
    /\ engine.at = "betting" /\ lock = none
    /\ rounds' = [rounds EXCEPT ![Last].status = "settling"]
    /\ engine' = At("idle")
    /\ UNCHANGED <<time, reserve, admin, state, ticket, lock, paid, drawing, orders, faults,
                   history>>

taken_from(amount) ==
    [a \in Admins |-> IF drawing[a].at = "second" THEN [drawing[a] EXCEPT !.taken = @ + amount]
                      ELSE drawing[a]]

\* Some tickets win.
Settle(r) ==
    /\ rounds[r].status = "settling"
    /\ \E wins \in 0..Sold(r) :
          /\ reserve' = reserve - wins * Prize
          /\ paid' = [paid EXCEPT ![time] = @ + wins * Prize]
          /\ drawing' = taken_from(wins * Prize)
    /\ rounds' = [rounds EXCEPT ![r].status = "completed", ![r].backing = none]
    /\ UNCHANGED <<time, admin, state, engine, ticket, lock, orders, faults, history>>

\* The engine crashes, and the recovery of its next start refunds the round it
\* was running, too old to resume, open or closed or drawn, before anything is
\* settled: the whole stake from the reserve, the jackpot's part included.
\* ("settling" also stands for the statuses between the close and settlement;
\* older rounds are past them, and recovery settles those.)
FailRound ==
    /\ \/ engine.at # "idle"
       \/ Last > 0 /\ rounds[Last].status = "settling"
    /\ lock = none
    /\ Fault
    /\ rounds' = [rounds EXCEPT ![Last].status = "failed", ![Last].backing = none]
    /\ reserve' = reserve - Sold(Last) * Stake
    /\ drawing' = taken_from(Sold(Last) * Stake)
    /\ engine' = At("idle")
    /\ UNCHANGED <<time, admin, state, ticket, lock, paid, orders, history>>

(***************************************************************************)
(* The admin console.  A row of the configuration that it writes has       *)
(* beta_restricted and reserve_withdrawal_floor at their defaults.         *)
(***************************************************************************)
NewConfig(enabled) == config' = [enabled |-> enabled, restricted |-> TRUE, floor |-> 0]

create_config_admin ==
    /\ Order /\ \E enabled \in BOOLEAN : NewConfig(enabled)
    /\ UNCHANGED <<time, reserve, allowlist, rows, state, rounds, engine, ticket, lock, paid,
                   drawing, faults, history>>

set_keno_enabled_admin ==
    /\ Order /\ NewConfig(~config.enabled)
    /\ UNCHANGED <<time, reserve, allowlist, rows, state, rounds, engine, ticket, lock, paid,
                   drawing, faults, history>>

add_to_beta_allowlist_admin(u) ==
    /\ Order /\ allowlist' = allowlist \cup {u}
    /\ UNCHANGED <<time, reserve, config, rows, state, rounds, engine, ticket, lock, paid,
                   drawing, faults, history>>

remove_from_beta_allowlist_admin(u) ==
    /\ Order /\ allowlist' = allowlist \ {u}
    /\ UNCHANGED <<time, reserve, config, rows, state, rounds, engine, ticket, lock, paid,
                   drawing, faults, history>>

\* A tier is never edited: a later row of its number takes its place.
create_tier_admin ==
    /\ Order /\ rows # Row
    /\ rows' = rows \cup {Min(Row \ rows)}
    /\ UNCHANGED <<time, reserve, config, allowlist, state, rounds, engine, ticket, lock, paid,
                   drawing, faults, history>>

set_current_tier_admin(i) ==
    /\ Order /\ i \in rows /\ ApplyTierChange(i)
    /\ tripped' = none
    /\ UNCHANGED <<time, reserve, admin, rounds, engine, ticket, lock, paid, drawing, faults,
                   short>>

deposit_to_reserve_admin ==
    /\ Order /\ reserve' = reserve + Amount
    /\ UNCHANGED <<time, admin, state, rounds, engine, ticket, lock, paid, drawing,
                   faults, history>>

(***************************************************************************)
(* A withdrawal from the reserve: two checks under a row lock that ends    *)
(* with each, and the debit in a third transaction.  Bound: one of an      *)
(* admin.                                                                  *)
(***************************************************************************)
clears_floor == reserve - Amount >= config.floor

WithdrawCheck(a) ==
    /\ drawing[a].at = "none" /\ clears_floor
    /\ drawing' = [drawing EXCEPT ![a] = [@ EXCEPT !.at = "first"]]
    /\ UNCHANGED <<time, reserve, admin, state, rounds, engine, ticket, lock, paid, orders,
                   faults, history>>

(* Faulty variant: the second check trusts the first. *)
rechecks_not == TRUE

rechecks == clears_floor

WithdrawRecheck(a) ==
    /\ drawing[a].at = "first"
    /\ drawing' = [drawing EXCEPT ![a] =
                      IF rechecks THEN [at |-> "second", floor |-> config.floor, taken |-> 0]
                      ELSE [@ EXCEPT !.at = "done"]]
    /\ UNCHANGED <<time, reserve, admin, state, rounds, engine, ticket, lock, paid, orders,
                   faults, history>>

Withdraw(a) ==
    /\ drawing[a].at = "second"
    /\ reserve' = reserve - Amount
    /\ drawing' = [taken_from(Amount) EXCEPT ![a] = [at |-> "done", floor |-> 0, taken |-> 0]]
    /\ UNCHANGED <<time, admin, state, rounds, engine, ticket, lock, paid, orders,
                   faults, history>>

Tick ==
    /\ time < MaxTime
    /\ time' = time + 1
    /\ UNCHANGED <<reserve, admin, state, rounds, engine, ticket, lock, paid, drawing, orders,
                   faults, history>>

(***************************************************************************)
(* The specification.                                                      *)
(***************************************************************************)
Init ==
    /\ time = 0 /\ reserve = Reserve0
    /\ config = [enabled |-> TRUE, restricted |-> TRUE, floor |-> Floor0]
    /\ allowlist = Users /\ rows = Rows0
    /\ state = [current |-> Tier0, candidate |-> none, since |-> 0]
    /\ rounds = <<>> /\ engine = At("idle")
    /\ ticket = [u \in Users |-> At("none")] /\ lock = none
    /\ paid = [t \in 0..MaxTime |-> 0]
    /\ drawing = [a \in Admins |-> [at |-> "none", floor |-> 0, taken |-> 0]]
    /\ orders = 0 /\ faults = 0
    /\ short = [n \in {TierNumber[i] : i \in Row} |-> 0] /\ tripped = none

Player(u) == ReadConfig(u) \/ LockRound(u) \/ PlaceTicket(u) \/ RejectTicket(u)
Engine ==
    \/ CreateRound \/ CheckBreaker \/ evaluate_tier_transition
    \/ CloseBetting
ConfigRoutes == create_config_admin \/ set_keno_enabled_admin
AllowlistRoutes(u) == add_to_beta_allowlist_admin(u) \/ remove_from_beta_allowlist_admin(u)
TierRoutes == create_tier_admin \/ \E i \in Row : set_current_tier_admin(i)
ReserveRoutes ==
    \/ deposit_to_reserve_admin
    \/ \E a \in Admins : WithdrawCheck(a) \/ WithdrawRecheck(a) \/ Withdraw(a)

Next ==
    \/ \E u \in Users : Player(u) \/ AllowlistRoutes(u)
    \/ Engine \/ FailRound \/ \E r \in DOMAIN rounds : Settle(r)
    \/ ConfigRoutes \/ TierRoutes \/ ReserveRoutes
    \/ Tick

Spec == Init /\ [][Next]_vars

-----------------------------------------------------------------------------
\* Tickets of several players are checked one after the other, each against
\* those before it and the reserve at that moment: what a round may lose was
\* within its ceiling, by the tier it was created with, when its last ticket
\* was taken, whatever admins and the automation did to the tier meanwhile.
ExposureWithinCapacity ==
    \A r \in DOMAIN rounds : rounds[r].backing # none =>
        Net(Sold(r)) * 100 <= rounds[r].backing * Pct[rounds[r].tier]

\* The automation promotes to a tier only if, for the whole hold, no evaluation
\* found the reserve below the threshold of that tier.
PromotionEarned ==
    [][(engine.at = "evaluate" /\ engine'.at = "betting" /\ TierNumber[state'.current] > current)
        => time - short[TierNumber[state'.current]] >= Hold]_vars

\* The breaker wins over a promotion that falls due in the same cycle: the next
\* round has a lower tier, unless an admin chose one in between.
BreakerWins ==
    \A r \in DOMAIN rounds : rounds[r].below # none =>
        TierNumber[rounds[r].tier] < rounds[r].below

\* A withdrawal leaves the floor in the reserve but for what settlements, refunds
\* and other withdrawals took since its last check.
FloorHoldsUnlessOverlapped ==
    [][\A a \in Admins : (drawing[a].at = "second" /\ reserve' = reserve - Amount
                            /\ drawing'[a].at = "done")
        => reserve' + drawing[a].taken >= drawing[a].floor]_vars

-----------------------------------------------------------------------------
(***************************************************************************)
(* What makes them inductive.                                              *)
(***************************************************************************)
RoundRow ==
    [status : {"scheduled", "betting_open", "settling", "completed", "failed"}, tier : Row,
     sold : [Users -> Nat], opened : Nat \cup {none}, backing : Int \cup {none},
     below : Nat \cup {none}]

TypeOK ==
    /\ time \in 0..MaxTime /\ reserve \in Int /\ orders \in Nat /\ faults \in Nat
    /\ config \in [enabled : BOOLEAN, restricted : BOOLEAN, floor : Int]
    /\ rows \subseteq Row
    /\ state \in [current : rows, candidate : rows \cup {none}, since : Nat]
    /\ rounds \in Seq(RoundRow)
    /\ engine \in {At("idle"), At("betting")} \cup [at : {"breaker", "evaluate"}, balance : Int]
    /\ ticket \in [Users -> {At("none"), At("allowed")}
                              \cup [at : {"checked"}, round : Nat, balance : Int]]
    /\ lock \in Users \cup {none}
    /\ paid \in [0..MaxTime -> Nat]
    /\ drawing \in [Admins -> [at : {"none", "first", "second", "done"}, floor : Int, taken : Nat]]
    /\ short \in [{TierNumber[i] : i \in Row} -> Nat] /\ tripped \in Nat \cup {none}

\* A ticket that was checked holds the row of the open round, so that nothing
\* is sold, and the round is not closed, before it commits; its check still
\* holds then.
RowHeld ==
    /\ engine.at # "idle" => Last > 0
    /\ BettingOpen => engine.at = "betting"
    /\ \A u \in Users : ticket[u].at = "checked" <=> lock = u
    /\ \A u \in Users : ticket[u].at = "checked" =>
         /\ ticket[u].round = Last /\ BettingOpen
         /\ check_round_exposure(Last, ticket[u].balance)

\* Until the next round is created the tier stays below the one it fell from.
BreakerHolds == tripped # none => engine.at \in {"betting", "idle"} /\ current < tripped

\* No evaluation since a candidate was found has found too little for it.
CandidateWaits ==
    /\ \A n \in DOMAIN short : short[n] <= time
    /\ state.candidate # none => short[TierNumber[state.candidate]] <= state.since

\* What was checked last still leaves the floor, but for what was taken since.
FloorCovered ==
    \A a \in Admins : drawing[a].at = "second" =>
        reserve + drawing[a].taken >= drawing[a].floor + Amount

IndInv ==
    /\ TypeOK /\ RowHeld /\ BreakerHolds /\ CandidateWaits /\ FloorCovered
    /\ ExposureWithinCapacity /\ BreakerWins
=============================================================================
