------------------------------ MODULE Wagering ------------------------------
(***************************************************************************)
(* What one player may stake and what a bonus is worth to them             *)
(* (packages/core/responsible_gaming.py, packages/core/bonuses.py,         *)
(* services/payments/bonus_sweep.py, services/admin/bonus_queries.py,      *)
(* set_user_status of services/admin/queries.py, and the transactions of   *)
(* round_engine.join and keno_tickets.place_ticket that ask for leave).    *)
(*                                                                         *)
(* A stake is a transaction of one of the two engines: it begins, waits    *)
(* for the player's advisory lock, checks, and commits.  The bot's /limits *)
(* commands, the admin console, the payout worker's bonus sweep and the    *)
(* end of rounds interleave with it.  Time runs in half days: a stake      *)
(* carries the day on which its transaction began, which is what now()     *)
(* is in Postgres.                                                         *)
(*                                                                         *)
(* Left out: the round and card the stake is for (BingoRound, KenoRound),  *)
(* the ledger's posting protocol (LedgerPost), the deposit cap, bonus      *)
(* rules (Deposit), and KYC levels.                                        *)
(***************************************************************************)
EXTENDS Integers, FiniteSets, Functions

CONSTANTS
    Stakes, KenoStakes,
    Amount,         \* Amount[s]: what stake s costs
    Prize,          \* what a winning stake pays
    Requests,       \* the loss limits the player asks for over /limits
    Caps,           \* bound: the limits asked for
    Unlimited,      \* a NULL daily_loss_cap: more than every stake together
    Bonuses, Worth, \* Worth[b]: amount of bonus b
    Required,       \* Required[b]: its wagering_required
    Life,           \* half days until a bonus expires
    MaxTime,        \* bound: half days
    MaxOrders,      \* bound: commands, console calls and passes of the sweep
    none

HalfDays == 2
Times == 0..MaxTime
DayOf(t) == t \div HalfDays
Days == {DayOf(t) : t \in Times}
Never == MaxTime + Life + 1

ASSUME WageringAssumption ==
    /\ KenoStakes \subseteq Stakes
    /\ Amount \in [Stakes -> Nat \ {0}] /\ Prize \in Nat
    /\ Caps \subseteq Nat /\ Unlimited \in Nat
    /\ \A c \in Caps : c < Unlimited
    /\ IsFiniteSet(Stakes) /\ SumFunctionOnSet(Amount, Stakes) <= Unlimited
    /\ IsFiniteSet(Bonuses)
    /\ Worth \in [Bonuses -> Nat \ {0}] /\ Required \in [Bonuses -> Nat]
    /\ Life \in Nat /\ MaxTime \in Nat /\ MaxOrders \in Nat
    /\ none \notin Stakes \cup Bonuses \cup {"active", "banned"}

VARIABLES
    now,            \* the time
    status,         \* users.status
    cooloff,        \* cooloff_until
    limits,         \* daily_loss_cap, pending_daily_loss_cap and its time
    request,        \* request[r]: how far the /limits command has come
    admin,          \* the status an admin's transaction is about to write
    stake,          \* stake[s]: its status, day, day of its end
    lock,           \* who holds the player's advisory lock
    bonus,          \* bonus[b]: its status, expiry and the stakes before it
    bonusBalance,   \* balance of the player's user_bonus account
    sweep,          \* the bonus sweep: what is left of its list, what it read
    orders,         \* orders given so far
    inForce,        \* inForce[d]: highest cap in force on day d
    lowered         \* the cap last kept or lowered to, when a raise was asked
                    \* since, and whether two requests ever overlapped

vars == <<now, status, cooloff, limits, request, admin, stake, lock, bonus, bonusBalance,
          sweep, orders, inForce, lowered>>

Higher(a, b) == IF a > b THEN a ELSE b

Order ==
    /\ orders < MaxOrders
    /\ orders' = orders + 1

(***************************************************************************)
(* Limits.                                                                 *)
(***************************************************************************)
Effective(l, t) == IF l.at # Never /\ t >= l.at THEN l.pending ELSE l.cap

\* What the history of caps becomes when the limits or the time change.
Remember(l, t) ==
    inForce' = [inForce EXCEPT ![DayOf(t)] = Higher(@, Effective(l, t))]

\* What the player asks for is a raise by the cap in force as it is written.
AskedFor(c) ==
    lowered' = IF c <= Effective(limits, now)
               THEN [lowered EXCEPT !.cap = c, !.raised = Never]
               ELSE [lowered EXCEPT !.raised = IF @ = Never THEN now ELSE @]

ReadLimits(r) ==
    /\ request[r].step = "idle"
    /\ Order
    /\ \E c \in Caps :
         request' = [request EXCEPT ![r] =
                       [step |-> "read", cap |-> c, saw |-> Effective(limits, now)]]
    /\ lowered' = [lowered EXCEPT
                     !.overlap = @ \/ \E other \in Requests : request[other].step = "read"]
    /\ UNCHANGED <<now, status, cooloff, limits, admin, stake, lock, bonus, bonusBalance,
                   sweep, inForce>>

(* Faulty variant: a decrease leaves an earlier increase pending. *)
SetLossLimit_keep(r) ==
    LET c == request[r].cap IN
    /\ request[r].step = "read"
    /\ request' = [request EXCEPT ![r].step = "done"]
    /\ limits' = IF c <= request[r].saw THEN [limits EXCEPT !.cap = c]
                 ELSE [limits EXCEPT !.pending = c, !.at = now + HalfDays]
    /\ AskedFor(c)
    /\ Remember(limits', now)
    /\ UNCHANGED <<now, status, cooloff, admin, stake, lock, bonus, bonusBalance, sweep,
                   orders>>

\* A decrease applies at once and forgets a pending increase; an increase
\* waits for a day and leaves the column alone.
SetLossLimit(r) ==
    LET c == request[r].cap IN
    /\ request[r].step = "read"
    /\ request' = [request EXCEPT ![r].step = "done"]
    /\ limits' = IF c <= request[r].saw THEN [cap |-> c, pending |-> 0, at |-> Never]
                 ELSE [limits EXCEPT !.pending = c, !.at = now + HalfDays]
    /\ AskedFor(c)
    /\ Remember(limits', now)
    /\ UNCHANGED <<now, status, cooloff, admin, stake, lock, bonus, bonusBalance, sweep,
                   orders>>

CoolOff ==
    /\ Order
    /\ cooloff' = now + HalfDays
    /\ UNCHANGED <<now, status, limits, request, admin, stake, lock, bonus, bonusBalance,
                   sweep, inForce, lowered>>

(***************************************************************************)
(* The player's row.  An admin's change reads it under a lock, and a Keno  *)
(* ticket holds it from its check to its commit; a Bingo join does not.    *)
(***************************************************************************)
(* Faulty variant: the row is not locked between reading the status and writing it. *)
RowLocked_no == FALSE

RowLocked == admin # none \/ lock \in KenoStakes

SelfExclude ==
    /\ ~RowLocked
    /\ Order
    /\ status' = "self_excluded"
    /\ UNCHANGED <<now, cooloff, limits, request, admin, stake, lock, bonus, bonusBalance,
                   sweep, inForce, lowered>>

ReadStatus ==
    /\ ~RowLocked
    /\ status # "self_excluded"
    /\ Order
    /\ \E new \in {"active", "banned"} : admin' = new
    /\ UNCHANGED <<now, status, cooloff, limits, request, stake, lock, bonus, bonusBalance,
                   sweep, inForce, lowered>>

WriteStatus ==
    /\ admin # none
    /\ status' = admin
    /\ admin' = none
    /\ UNCHANGED <<now, cooloff, limits, request, stake, lock, bonus, bonusBalance, sweep,
                   orders, inForce, lowered>>

(***************************************************************************)
(* Stakes.                                                                 *)
(***************************************************************************)
Committed == {s \in Stakes : stake[s].status \in {"open", "won", "lost", "refunded"}}

\* Everything debited and credited since the start of day d, as the query of
\* a transaction that began on that day sees it.
today_net_loss(d) ==
    LET staked == {s \in Committed : stake[s].day >= d}
        won == {s \in Stakes : stake[s].status = "won" /\ stake[s].ended >= d}
        refunded == {s \in staked : stake[s].status = "refunded"}
    IN  SumFunctionOnSet(Amount, staked) - Prize * Cardinality(won)
        - SumFunctionOnSet(Amount, refunded)

check_play_allowed == status \notin {"self_excluded", "banned"} /\ now >= cooloff

check_stake_allowed(s) ==
    LET cap == Effective(limits, now) IN
    /\ check_play_allowed
    /\ \/ cap = Unlimited
       \/ today_net_loss(stake[s].day) + Amount[s] <= cap

Refused == [status |-> "refused", day |-> 0, ended |-> 0, late |-> FALSE]

Begin(s) ==
    /\ stake[s].status = "none"
    /\ stake' = [stake EXCEPT ![s].status = "waiting", ![s].day = DayOf(now)]
    /\ UNCHANGED <<now, status, cooloff, limits, request, admin, lock, bonus, bonusBalance,
                   sweep, orders, inForce, lowered>>

(* Faulty variant: no advisory lock, two stakes are checked before either is written. *)
TakesLock_free(s) ==
    /\ stake[s].status = "waiting"
    /\ s \in KenoStakes => admin = none

\* The lock, then (Keno) the player's row, then the check.
TakesLock(s) ==
    /\ stake[s].status = "waiting"
    /\ lock = none
    /\ s \in KenoStakes => admin = none

CheckStake(s) ==
    /\ TakesLock(s)
    /\ check_stake_allowed(s)
    /\ lock' = s
    /\ stake' = [stake EXCEPT ![s].status = "checked", 
                                      ![s].late = DayOf(now) # stake[s].day]
    /\ UNCHANGED <<now, status, cooloff, limits, request, admin, bonus, bonusBalance, sweep,
                   orders, inForce, lowered>>

RefuseStake(s) ==
    /\ TakesLock(s)
    /\ ~check_stake_allowed(s)
    /\ stake' = [stake EXCEPT ![s] = Refused]
    /\ UNCHANGED <<now, status, cooloff, limits, request, admin, lock, bonus, bonusBalance,
                   sweep, orders, inForce, lowered>>

\* The rest of the transaction commits, or rolls back (no funds, the round
\* closed, the exposure cap).
Commit(s) ==
    /\ stake[s].status = "checked"
    /\ \E outcome \in {Refused, [stake[s] EXCEPT !.status = "open"]} :
         stake' = [stake EXCEPT ![s] = outcome]
    /\ lock' = none
    /\ UNCHANGED <<now, status, cooloff, limits, request, admin, bonus, bonusBalance, sweep,
                   orders, inForce, lowered>>

\* The round is settled, or the card dropped or the round voided.
EndStake(s) ==
    /\ stake[s].status = "open"
    /\ \E end \in {"won", "lost", "refunded"} :
         stake' = [stake EXCEPT ![s].status = end, ![s].ended = DayOf(now)]
    /\ UNCHANGED <<now, status, cooloff, limits, request, admin, lock, bonus, bonusBalance,
                   sweep, orders, inForce, lowered>>

(***************************************************************************)
(* Bonuses.                                                                *)
(***************************************************************************)
ActiveBonuses == {b \in Bonuses : bonus[b].status = "active"}

grant_bonus(b) ==
    /\ bonus' = [bonus EXCEPT ![b] = [status |-> "active", expires |-> now + Life,
                    before |-> {s \in Stakes : stake[s].status # "none"}]]
    /\ bonusBalance' = bonusBalance + Worth[b]

grant_manual_bonus_admin(b) ==
    /\ bonus[b].status = "none"
    /\ Order
    /\ grant_bonus(b)
    /\ UNCHANGED <<now, status, cooloff, limits, request, admin, stake, lock, sweep, inForce,
                   lowered>>

\* Stakes since the grant, without those refunded: only Bingo's count.
wagering_progress(b) ==
    LET staked == {s \in Committed \ (KenoStakes \cup bonus[b].before) :
                     stake[s].status # "refunded"}
    IN  SumFunctionOnSet(Amount, staked)

(* Faulty variant: the status of the bonus is not checked again. *)
EndBonus_twice(b, end) ==
    /\ bonus' = [bonus EXCEPT ![b].status = end]
    /\ bonusBalance' = bonusBalance - Worth[b]

\* The row is read for update, so that only the first of two endings moves
\* the money.
EndBonus(b, end) ==
    IF bonus[b].status = "active"
    THEN /\ bonus' = [bonus EXCEPT ![b].status = end]
         /\ bonusBalance' = bonusBalance - Worth[b]
    ELSE UNCHANGED <<bonus, bonusBalance>>

revoke_bonus(b) == EndBonus(b, "revoked")

revoke_bonus_admin(b) ==
    /\ bonus[b].status # "none"
    /\ Order
    /\ revoke_bonus(b)
    /\ UNCHANGED <<now, status, cooloff, limits, request, admin, stake, lock, sweep, inForce,
                   lowered>>

(***************************************************************************)
(* The sweep lists the active bonuses once, and then reads and ends each.  *)
(***************************************************************************)
Idle == [todo |-> {}, at |-> none, progress |-> 0]

SweepList ==
    /\ sweep = Idle
    /\ Order
    /\ sweep' = [Idle EXCEPT !.todo = ActiveBonuses]
    /\ UNCHANGED <<now, status, cooloff, limits, request, admin, stake, lock, bonus,
                   bonusBalance, inForce, lowered>>

SweepRead ==
    /\ sweep.at = none
    /\ \E b \in sweep.todo :
         sweep' = [todo |-> sweep.todo \ {b}, at |-> b, progress |-> wagering_progress(b)]
    /\ UNCHANGED <<now, status, cooloff, limits, request, admin, stake, lock, bonus,
                   bonusBalance, orders, inForce, lowered>>

SweepEnd(guard, end) ==
    /\ sweep.at # none
    /\ guard
    /\ EndBonus(sweep.at, end)
    /\ sweep' = [sweep EXCEPT !.at = none, !.progress = 0]
    /\ UNCHANGED <<now, status, cooloff, limits, request, admin, stake, lock, orders,
                   inForce, lowered>>

Wagered == sweep.progress >= Required[sweep.at]

convert_bonus_to_cash == SweepEnd(Wagered, "converted")
expire_bonus == SweepEnd(~Wagered /\ bonus[sweep.at].expires <= now, "expired")

SweepPass ==
    /\ sweep.at # none
    /\ ~Wagered /\ bonus[sweep.at].expires > now
    /\ sweep' = [sweep EXCEPT !.at = none, !.progress = 0]
    /\ UNCHANGED <<now, status, cooloff, limits, request, admin, stake, lock, bonus,
                   bonusBalance, orders, inForce, lowered>>

\* The worker is killed, or a statement fails: the rest of the pass is lost.
SweepFails ==
    /\ sweep # Idle
    /\ sweep' = Idle
    /\ UNCHANGED <<now, status, cooloff, limits, request, admin, stake, lock, bonus,
                   bonusBalance, orders, inForce, lowered>>

Tick ==
    /\ now < MaxTime
    /\ now' = now + 1
    /\ Remember(limits, now')
    /\ UNCHANGED <<status, cooloff, limits, request, admin, stake, lock, bonus, bonusBalance,
                   sweep, orders, lowered>>

(***************************************************************************)
(* The specification.                                                      *)
(***************************************************************************)
Init ==
    /\ now = 0
    /\ status = "active"
    /\ cooloff = 0
    /\ limits \in [cap : Caps \cup {Unlimited}, pending : {0}, at : {Never}]
    /\ request = [r \in Requests |-> [step |-> "idle", cap |-> 0, saw |-> 0]]
    /\ admin = none
    /\ stake = [s \in Stakes |-> [status |-> "none", day |-> 0, ended |-> 0, late |-> FALSE]]
    /\ lock = none
    /\ bonus \in [Bonuses -> {[status |-> "none", expires |-> Never, before |-> {}]} \cup
                   [status : {"active"}, expires : {Life}, before : {{}}]]
    /\ bonusBalance = SumFunctionOnSet(Worth, ActiveBonuses)
    /\ sweep = Idle
    /\ orders = 0
    /\ inForce = [d \in Days |-> IF d = 0 THEN limits.cap ELSE 0]
    /\ lowered = [cap |-> limits.cap, raised |-> Never, overlap |-> FALSE]

\* The routes of the console and the commands of the bot.
LimitsCommand == (\E r \in Requests : ReadLimits(r) \/ SetLossLimit(r)) \/ CoolOff \/ SelfExclude
StatusRoute == ReadStatus \/ WriteStatus
StakeTransaction ==
    \E s \in Stakes : Begin(s) \/ CheckStake(s) \/ RefuseStake(s) \/ Commit(s)
BonusRoutes == \E b \in Bonuses : grant_manual_bonus_admin(b) \/ revoke_bonus_admin(b)
sweep_bonus_wagering ==
    SweepList \/ SweepRead \/ convert_bonus_to_cash \/ expire_bonus \/ SweepPass \/ SweepFails

Next ==
    \/ LimitsCommand
    \/ StatusRoute
    \/ StakeTransaction
    \/ \E s \in Stakes : EndStake(s)
    \/ BonusRoutes
    \/ sweep_bonus_wagering
    \/ Tick

Spec == Init /\ [][Next]_vars

-----------------------------------------------------------------------------
\* The stakes of day d, less those refunded on it, and the prizes paid on it.
Standing(d) == {s \in Committed : /\ stake[s].day = d
                                  /\ ~ (stake[s].status = "refunded" /\ stake[s].ended = d)}
WonOn(d) == {s \in Stakes : stake[s].status = "won" /\ stake[s].ended = d}

\* What the player lost on day d.
DayLoss(d) == SumFunctionOnSet(Amount, Standing(d)) - Prize * Cardinality(WonOn(d))

\* No transaction of day d began before a midnight and was checked after it.
NoneLate(d) == \A s \in Committed : stake[s].day = d => ~stake[s].late

\* However the stakes of both games, their refunds and their prizes interleave,
\* no player loses more on a day than the highest cap in force on it.  Days with
\* a transaction that began before midnight and was checked after it are left
\* out: its query sees both days' prizes.
LossCapHolds ==
    \A d \in Days : NoneLate(d) => DayLoss(d) <= Higher(0, inForce[d])

\* A player who lowered the cap is held to it for a day after asking for more,
\* whatever else was asked in between, unless two /limits commands ran at once:
\* reading the limits and writing them are two statements without a lock.
LoweringHolds ==
    Effective(limits, now) > lowered.cap =>
        lowered.overlap \/ (lowered.raised # Never /\ now >= lowered.raised + HalfDays)

\* Nothing an admin does ends a self-exclusion, a change that had already read
\* the row included; and from the moment it is committed no Keno ticket is
\* sold, not even one that was being checked.
ExclusionIsFinal ==
    [][status = "self_excluded" =>
          /\ status' = status
          /\ \A s \in KenoStakes :
               stake'[s].status = "open" => stake[s].status = "open"]_vars

\* A bonus ends one way and its money moves once, however the sweep's stale
\* list, a crash of the worker and an admin's revoke interleave: the account
\* holds what is active.
BonusEndsOnce == bonusBalance = SumFunctionOnSet(Worth, ActiveBonuses)

-----------------------------------------------------------------------------
(***************************************************************************)
(* What makes them inductive.                                              *)
(***************************************************************************)
Stake ==
    [status : {"none", "waiting", "checked", "refused", "open", "won", "lost", "refunded"},
     day : Days, ended : Days, late : BOOLEAN]

BonusRow ==
    [status : {"none", "active", "converted", "expired", "revoked"}, expires : Nat,
     before : SUBSET Stakes]

TypeOK ==
    /\ now \in Times
    /\ status \in {"active", "banned", "self_excluded"}
    /\ limits \in [cap : Nat, pending : Nat, at : Nat]
    /\ request \in [Requests -> [step : {"idle", "read", "done"}, cap : Nat, saw : Nat]]
    /\ admin \in {none, "active", "banned"}
    /\ stake \in [Stakes -> Stake]
    /\ lock \in Stakes \cup {none}
    /\ bonus \in [Bonuses -> BonusRow]
    /\ sweep \in [todo : SUBSET Bonuses, at : Bonuses \cup {none}, progress : Int]
    /\ inForce \in [Days -> Nat]
    /\ lowered \in [cap : Nat, raised : Nat, overlap : BOOLEAN]

\* The advisory lock is held from a check to its commit; the locks on the
\* player's row keep a self-exclusion out of an admin's change and a Keno
\* ticket.
LocksHeld ==
    /\ \A s \in Stakes : stake[s].status = "checked" <=> lock = s
    /\ admin # none => status # "self_excluded"
    /\ lock \in KenoStakes => admin = none /\ status # "self_excluded"

\* Nothing is dated ahead of the clock, and no stake ends before it began.
Dated ==
    \A s \in Stakes :
        /\ stake[s].day <= DayOf(now) /\ stake[s].ended <= DayOf(now)
        /\ stake[s].status \in {"won", "lost", "refunded"} => stake[s].day <= stake[s].ended

\* The history knows the cap in force, and a stake that was checked in time
\* still fits under it: nobody else can commit before it does.
FitsUnderCap ==
    /\ Effective(limits, now) <= inForce[DayOf(now)]
    /\ \A s \in Stakes : stake[s].status = "checked" /\ ~stake[s].late =>
            DayLoss(stake[s].day) + Amount[s] <= inForce[stake[s].day]

\* Without overlapping requests a pending cap is a raise, what a request read
\* is in force when it writes, and a raise above the cap last kept has waited.
RaisesWait ==
    \/ lowered.overlap
    \/ /\ \A r, q \in Requests : request[r].step = "read" /\ request[q].step = "read" => r = q
       /\ \A r \in Requests : request[r].step = "read" =>
            limits.cap <= request[r].saw /\ request[r].saw <= Effective(limits, now)
       /\ limits.cap <= lowered.cap
       /\ lowered.raised # Never => lowered.raised <= now
       /\ limits.at # Never =>
            /\ limits.cap < limits.pending
            /\ \/ limits.pending <= lowered.cap
               \/ lowered.raised # Never /\ lowered.raised + HalfDays <= limits.at

IndInv == TypeOK /\ LocksHeld /\ Dated /\ FitsUnderCap /\ RaisesWait /\ LossCapHolds /\ BonusEndsOnce
=============================================================================
