# Zemen Game: TLA+ verification project

This directory holds a verification project for Zemen Game, a real-money bingo and Keno platform
on Telegram: asyncio Python services over Postgres and Redis.  It covers what moves money, what
decides who may stake and how much, and what carries messages to players.  Every definition is translated from the Python source; `PROJECT.json` maps each one
to its lines.

## 1. The system

### Components, their state and operations

| Component | Source | State | Operations |
|---|---|---|---|
| Ledger | `packages/core/ledger.py`, `migrations/versions/81d041ff4513_ledger_foundation.py` | `ledger_transactions`, `ledger_entries`, `account_balances` | `post()` inside the caller's transaction |
| Pot arithmetic | `services/engine/settlement.py` | none | `compute_derash`, `split_derash` |
| Bingo round engine | `services/engine/round_engine.py`, `refunds.py` | `rounds`, `round_entries`, `round_winners`, and a copy of the running round in memory | `run_forever`, `join`, `drop_card`, `set_auto`, `claim`, settlement, refunds |
| Engine worker, recovery | `services/engine/worker.py`, `recovery.py` | the tasks of a process | claim rooms, refund orphaned rounds, shut down |
| Room lock | `services/engine/room_lock.py`, `keno_lock.py` | a Redis key with a TTL, `_held`, `_last_refreshed_at` | acquire, refresh loop, release |
| Withdrawals and payouts | `services/payments/withdrawals.py`, `payout_worker.py`, `chapa.py`, parts of `services/admin/queries.py` | `payments`, a Redis stream with a consumer group | request, approve, reject, two-person gate, enqueue, sweep, process, settle, reverse |
| Admin void and stop | `services/admin/queries.py` | `rooms.is_active` | refund a round from outside the engine |
| Engine commands | `services/engine/commands.py` | a stream of commands per room, a reply channel per request | send with a timeout, serve one at a time |
| Keno | `services/engine/keno_round_engine.py`, `packages/core/keno_*.py` | rounds, tickets, exposure, jackpot, autoplay sessions | round lifecycle, tickets, settlement, recovery |
| Keno risk | `packages/core/keno_exposure.py`, `keno_config.py`, `keno_tier_automation.py`, `services/admin/keno_queries.py` | configuration and tier rows, the current tier, the allowlist, the reserve | check a ticket against the round's ceiling, evaluate tiers, trip the breaker, edit, withdraw |
| Deposits (Chapa, manual, Telebirr) | `services/payments/deposits.py`, `manual.py`, `telebirr_*.py`, `referrals.py` | `payments`, `payment_events`, `payment_evidence`, bonuses granted | intent, webhook, poll, request and decision, ingestion, redemption, bonus checks, reconciliation |
| Responsible gaming, bonuses | `packages/core/responsible_gaming.py`, `bonuses.py`, `services/payments/bonus_sweep.py` | loss cap with a pending one, cool-off, status, bonus rows | lock and check a stake; set limits; exclude; grant, convert, expire, revoke |
| Gateway | `services/gateway/connection.py`, `fanout.py`, `queries.py` | a connection's mailbox, its subscriptions, its two tasks | join, leave, relay a command, write, drop and resynchronise |
| Notifications, campaigns | `packages/core/notifications.py`, `campaigns.py`, `services/bot/notification_relay.py`, `notifier.py`, `campaign_worker.py` | a Redis stream, campaigns, delivery rows, two lanes per chat | raise, seed, dispatch, reclaim, relay, send with retries, finalize |
| SMS control plane | `packages/core/sms`, `services/sms` | campaigns, imports, contacts, suppressions, messages, nodes | lifecycle of a campaign, lease of messages to nodes, reports, sweep |

`PROJECT.json` lists all components, with those not modelled and the reason.

### How they interact

* Everything that moves money calls `ledger.post()` inside its own database transaction.  The
  engine, the refunds, the payouts and the admin console never touch a balance otherwise.
* A worker polls the active rooms, takes the room lock in Redis and runs a `RoundEngine`.  An
  engine is three asyncio tasks over one object: the main loop, the command server and the
  settlement task; they interleave at every `await`.
* Players reach an engine through a Redis stream (gateway to engine) and a reply channel.
* The admin console and recovery change the same `rounds` rows from other processes and do not
  tell the engine; the engine learns of it from guarded statements only.
* The Keno engine drives one stream of rounds under a lock of the same kind; players and its own
  autoplay write tickets straight into the database, and what ties them to the engine is the
  status of the open round's row.
* A withdrawal is committed first and put on the payout stream afterwards; a sweep repairs a
  lost enqueue; the payout worker calls the provider outside any transaction.
* A deposit's row is written before the provider is called; webhook, poll and console then compete for
  it, and each credit runs the bonus checks in its own transaction.
* Both engines ask `responsible_gaming` for leave inside the transaction of a stake, under an advisory
  lock of the player; `/limits` in the bot and the console change what it reads.
* Engines publish to Redis after they commit; a gateway fans messages out to bounded mailboxes and
  makes up for a dropped one by reading Postgres again.
* Every service appends notices to one stream; the bot process drains it, per player in order, beside
  the campaign worker that feeds it.
* The phones of the SMS fleet pull messages over HTTP and report back, or do not.

### What is hard

Stale memory (the engine's copy of a round against the row), refunds racing settlement under
different idempotency keys, two engines driving one room after a lock expired, crashes between
any two awaits, an enqueue or an answer that is lost after the commit, at-least-once delivery
to several replicas, row locks taken in different orders, and cents that do not divide; limits and
capacity that are read before the write that counts towards them; lists read once and worked off
while rows change; a mailbox that overflows just as its reader parks; messages reclaimed from a
worker, or a phone, that is slow and not dead.  The
`hazards` of `PROJECT.json` list these at their lines with the properties that cover them.

### What makes each part correct

* **Ledger**: no user balance below zero; a key moves money once; a committed caller's posts all
  stand; cached balances equal the journal; money is conserved.
* **Pot**: winners get the largest equal whole-cent share; nothing of the pot is lost.
* **Bingo**: each stake ends in exactly one place; escrow equals the entries of open rounds and is
  empty for ended ones; only complete cards of the round are paid; an ended round never changes;
  every round ends; an engine never hangs on a round that somebody else ended.
* **Room lock**: an engine that believes it owns the room does; nobody frees another's key; a key
  without a living holder expires.
* **Payouts**: each withdrawal ends once; `user_locked` is exactly what is on its way out; a
  terminal payment is not touched; a large manual one takes two admins; an approved one is taken
  up.
* **Keno**: a ticket is settled or refunded once; no ticket joins a drawn round; the published seed
  explains the numbers; the recorded jackpot is the paid one; a round interrupted anywhere is
  drawn or refunded and a begun settlement completed; a stopped session bets no more.
* **Keno risk**: what a round may lose is within its ceiling when its last ticket is taken; a
  promotion has been held for; the breaker wins over it; a withdrawal leaves the floor.
* **Deposits**: one credit per payment or message, whichever of webhook, poll and admin comes first,
  and money behind each; the daily cap; a credit is final; what is paid is credited.
* **Responsible gaming, bonuses**: no player loses more on a day than the cap in force; a lowered cap
  binds; self-exclusion cannot be undone; a bonus ends once.
* **Gateway**: a player with nothing left to receive sees the room as it is; a dropped tick is made
  up for.
* **Notifications**: nobody gets a message twice unless a failure explains it; a finished campaign
  stays as reported; what was accepted is sent.
* **SMS**: no message goes out more often than attempts allow; a completed campaign has nothing
  outstanding; messages end while there is a node for them.

## 2. Modules

| Module | Role |
|---|---|
| `LedgerData` | requests, deltas, the zero-sum test, when a key is a replay; shared by the next two |
| `Ledger` | abstract specification: one request, or several of one caller, applied atomically |
| `LedgerPost` | `post()` as Postgres runs it: concurrent callers, unique index, row locks, rollback, deferred trigger, deadlock detector; implements `Ledger` |
| `SumTheorems` | sums over finite sets: balances, totals and pots of the proofs below |
| `Settlement` | `compute_derash` and `split_derash` in integer cents |
| `BingoRound` | one room: engines, players, workers, recovery and admins; uses `Settlement` |
| `BingoRoundProofs` | theorems about `Settlement`, its own inductive invariant and theorems |
| `RoomLock` | the lock in discrete time |
| `KenoRound` | Keno: engine, settlement tasks, recovery, tickets and autoplay |
| `KenoEngineProofs` | inductive invariants and theorems of `RoomLock` and of `KenoRound` under it |
| `Payout` | withdrawals from request to the end, with stream, workers and provider |
| `MoneyProofs` | inductive invariants and theorems of `LedgerPost`, its refinement among them, and of `Payout` |
| `KenoRisk` | capacity of a round, tiers, breaker, configuration, reserve |
| `KenoRiskProofs` | its inductive invariant and theorems |
| `Deposit` | the three rails of deposits, the bonuses they bring, the reconciliation |
| `DepositProofs` | its inductive invariant and theorems |
| `Wagering` | limits, exclusion and bonuses of one player against stakes of both games |
| `Gateway` | one connection with its tasks, the command channel, the page that answers |
| `Notify` | stream, relay, Notifier and campaign worker |
| `PlayerProofs` | inductive invariants and theorems of `Wagering` and `Notify` |
| `SmsControl` | SMS campaigns, messages and delivery nodes |
| `MessagingProofs` | inductive invariants and theorems of `SmsControl` and `Gateway` |
| `MCLedger`, `MCBingo`, `MCKeno`, `MCKenoRisk`, `MCRoomLock`, `MCPayout`, `MCDeposit`, `MCWagering`, `MCGateway`, `MCNotify`, `MCSms` | small instances for TLC |

`BingoRound`, `KenoRound`, `KenoRisk`, `Payout`, `Deposit` and `Wagering` use the ledger through its promise: a posted key moves its amount once,
in one step with the rest of the caller's transaction.  That this is sound is what
`ImplementsLedger` (`INSTANCE Ledger WITH journal <- journal, balance <- balance`) shows.  Likewise `BingoRound` and `KenoRound` have a lock that may be lost at any time
(`LockExpires`); when that can happen is the subject of `RoomLock`.  A property is often the
conjunction of named parts, one per hazard (`StakesAccounted == StakeReturnedOnce /\ EscrowMatchesEntries`,
`DepositsAccounted == CreditMatchesMoney /\ BonusesEarned /\ AlarmsExplained`); the parts are defined right
before it.

Definitions headed *Faulty variant* are not part of any specification.  Each one is a bug the code
could plausibly have; put in place of the definition it varies, TLC finds the property of the
corresponding `mutants` entry violated.

### LedgerPost

A transaction runs the `post()` calls of `Program[t]` in order.  `InsertKey` is the `INSERT ... ON
CONFLICT DO NOTHING`, which waits for an uncommitted owner of the key; `Replay` and `KeyConflict`
are the two outcomes when the key exists (kind, and round or payment when the caller names one,
are compared; amounts are not); `LockRow` is one turn of the lock loop in account order; `Apply`
and `Insufficient` are the funds check with the writes that follow; `Commit` and `CommitRejected`
run the deferred zero-sum trigger; `Fail` is any exception or crash of the caller;
`DeadlockVictim` is Postgres' detector.  Accounts exist from the start: creating one
(`get_or_create_account`) moves nothing.

### BingoRound

`rounds` and `posted` are the database, `mem`, `main`, `cmd`, `task` the engines.  A database
transaction that first locks the `rounds` row is one step; each `await` between such steps is a
point where anything else may happen.

* Main loop: `ClaimRoom`, `Loop`, `RestOver`, `Start`, `LobbyOver`, `TransitionToRunning`,
  `RefundAll`, `Voided`, `CallNumber`, `WriteCall`, `AutoClaim`, `AutoRegister`, `ScanOver`,
  `CallsOver`, `SettlementAwaited`, and their failures.
* Commands: `Join`, `JoinStartsRound`, `Drop`, `SetAuto`, `Claim` start one; `JoinTxn`, `DropTxn`
  commit it; `JoinRemember`, `DropRemember`, `ClaimRegister` update memory afterwards.
* Settlement: `WindowCloses` (the tie window), `Settle`, `ShowResult`, `ResultOver`.
* Around it: `LockExpires`, `LockLost`, `KeyExpires`, `Crash`, `EngineFails`, `Shutdown`,
  `ReplyFails`, `RecoverCheck` apart from `RecoverRefund`, `VoidRound`, `StopRoom`.

Seeds, draw orders, patterns and grids are abstracted to the call on which a card has its first
line and the call on which it wins (`LineAt`, `WinAt`).  A join or drop that is refused at once
changes nothing and is left out.

Three timing facts of the code are guards.  `Start` waits for the command in hand, whatever it has done, when a new round begins,
because the rest between rounds lasts seconds; `CallNumber` waits for one that has committed and not yet updated memory,
because calls are seconds apart; `LobbyOver` waits for the settlement task of an
earlier round, because a lobby outlasts the result screen.  An instance whose task has ended is replaced by a fresh
one with the same name.

`CommandFails` is an exception anywhere in a command, between a COMMIT that took effect and the update of memory
too (a lost acknowledgement, the release of the connection).  In the latter case the engine never learns of the join or drop, and
`torn`, a history variable, names the round.  `ReplyFails` is the reply that follows, outside the `try`.

### KenoRound

`rounds`, `tickets`, `posted` and `sessions` are the database, `main` and `task` the engine: the loop
of `run_forever()` and one settlement task per round.  `main[e].todo` are the rows recovery read and
has not come to, `local` what the loop read and has not used.

* Main loop: `WinLock`, `ReadStuckRounds`, `RecoverRound`, `SelectRefunds` and `FailAndRefundRound`,
  `Sweep`, `CreateRound`, `OpenBetting`, `ListSessions` to `PlacingOver` (autoplay),
  `BettingOver` or `BettingAborted`, `SelectTicketIds` and `CloseBetting`, `ReadDraw`, `Draw`,
  `RevealNumber`, `DrawComplete`, `Exit`.
* Settlement: `ReadRound`, `MarkSettling`, `SelectPending`, `SettleTickets`, `RecordSettlement`,
  `CompleteRound`.
* Players: `PlaceTicket`, `StartSession`, `StopSession`.
* Faults: `EngineFails`, `SettlementFails`, `PlacementFails`, `EngineCrash`, `StopEngine`, `LockExpires`.

The updates of a round's status carry no guard in the code and carry none here.  Closing a round and
refunding one read the tickets without locking the round and are two steps each; every other
transaction locks what it reads and is one.  A public seed is the closing and the ids that were
selected (`closes` stands for the closing time); the numbers are a function of it.  All rejections
of a ticket are one: nothing changes, or the autoplay session stops.  Which tickets win is a
constant; at most one hits the jackpot.  The net position of a session is abstracted to whether a
limit is crossed.  A round's age is a flag that may be set whenever recovery has still to look at
the round, and nothing else in the code reads it.

The run has one engine instance, restarted any number of times.  Two engines at once could pay and refund
one ticket, because the two use different ledger keys and unguarded status updates; nothing in the Keno
code prevents it once the lock has failed.  So the theorems have the premise that one engine runs at a time
(`OneDrives`), and a theorem of its own derives it from the lock (section 5).

### RoomLock

A Redis call is sent, runs, and is answered or raises, within the `Timeout` of its engine.  Every timer is relative,
so the state space is finite without a bound on time.  The event loop is prompt: a due timer runs
before time goes on.

### Payout

Each transaction locks the `payments` row and is one step; `Read`, `Begin`, `Call`,
`SettleSuccess` or `Reverse`, and `Ack` are separate.  The stream gives an entry again until it is
acknowledged, and all replicas share the default consumer name, as `main_async()` starts them.  The
provider (external) is idempotent on `our_ref`: the first call to reach it decides.  `CallRaises`
covers a call that never arrived and one whose answer was lost.  KYC, limits and risk rules of a
request are abstracted to either outcome.

### KenoRisk

`config`, `allowlist`, `rows` and `state` are the tables of the configuration, `rounds` the rounds with
their tickets, `reserve` the balance; `engine` is where `_run_one_round()` is, `ticket[u]` and `drawing[a]` the
transactions of players and admins.

* A ticket: `ReadConfig`, `LockRound` (the row of the round), then `PlaceTicket` after
  `check_round_exposure` and `check_per_user_round_share`, or `RejectTicket`.
* A round: `CreateRound` pins the tier, `CheckBreaker` and `evaluate_tier_transition` run, `OpenBetting`,
  `CloseBetting`, and `Settle`, which overlaps the next round; `FailRound` is a crash with the refund of the
  round the engine was running, open, closed or drawn, that the next start finds too old.  A crash after which the
  round is resumed is left out: it goes on as if nothing had been, but that one caught as `scheduled` opens without
  the automation.
* The console: kill switch, new configuration, allowlist, tier rows, deposits to the reserve, and a
  withdrawal with its two checks and its debit in three transactions (`WithdrawCheck`,
  `WithdrawRecheck`, `Withdraw`).

Tickets are alike; the 99.9th percentile that `keno_exposure.py` computes by convolution is a function
of their number (`Estimate`).  `short` and `tripped` are history, read by properties only.

### Deposit

`payments`, `events`, `evidence`, `bonuses` and `cash` are the database; `handling[h]` is what a request
handler is in the middle of, `poll` the report the poll has in hand, `chapa` the provider's side.

* Chapa: `CreateIntent` is the eligibility check, `InsertIntent` the row, `CheckoutCreated`,
  `CheckoutFailed` and `RecordCheckout` the call and its record; `HandleWebhook`, or `PollFetch` and
  `PollApply`, confirm.
* Manual: `ManualRequest`, `InsertManual`, `ApproveManual` (two people for a large amount), `RejectManual`,
  and a destination that is switched off and on.
* Telebirr: `Ingest`, `ResolveEvidence`, `RedeemEvidence` and `CommitRedeem`; evidence is locked by row.
* Every credit goes through `Credited`, with the welcome and referral checks of `referrals.py`.

`today_total` is the sum of what a player's counted rows ask for (`Asked`, `Deposits`); `overlapped` is
history, the players who had two requests checked at once.
A crash of a handler rolls back its open transaction and keeps what it had committed.  Signatures, rate
limits and the parsing of messages are left out.

### Wagering

One player.  A stake of Bingo or Keno begins (`Begin`, which takes the day from `now()`), waits for the advisory
lock and is checked (`CheckStake`, `RefuseStake`), and commits or rolls back (`Commit`); `EndStake` is a win, a
loss or a refund, maybe on a later day.  `/limits` reads and then writes (`ReadLimits`, `SetLossLimit`); an
admin's `set_user_status` reads and then writes under a row lock (`ReadStatus`, `WriteStatus`);
a Keno ticket holds the player's row from check to commit and a Bingo join does not.  Bonuses are
granted, read by the sweep from a list it made earlier, converted, expired or revoked.  Time runs in
half days, so that a transaction may begin before a midnight and be checked after it.  `inForce` and
`lowered` are history: the highest cap in force on each day, and the cap a player last asked to keep, with
the time of the last raise above it.  A raise is judged by the cap in force when it is written, not by what the
command had read.

The last part of the module, *What makes them inductive*, states what else holds in every state;
`PlayerProofs` builds on it.  `Payout`, `LedgerPost`, `BingoRound`, `Deposit`, `RoomLock`, `KenoRound`,
`KenoRisk`, `SmsControl`, `Gateway` and `Notify` have such a part, too.

### Gateway

`written` and `published` are what the engine of each room committed and published; `queue`, `wake` and
the flag of a pending state_sync the mailbox; `writer` and `loop` the two tasks of a connection.
`Publish` puts a message into the mailbox of a connection subscribed at that moment; a full mailbox
drops a tick and asks for a state_sync, or is emptied for a message that must not be dropped.  `WriterTop`
to `WriterSends` are the points of the writer loop between awaits, `HandleJoin` to `JoinSends` the join, `send_command`,
`CommandTimeout`, `ServeCommand`, `ReplyLost`, `EngineStarts` and `EngineStops` the command channel.
`Refuse` is a frame of any kind, joins and leaves included, that is answered with an error: the token bucket
is empty or Redis failed it, or its content is malformed.  `refused` is history: whether the join or leave read last
was refused, as the page does not repeat it.
`shown` is what the page displays, under its own guards on room and round (`ws.js`).  An event is a
number: what it says is `BingoRound`'s.

### Notify

`campaign`, `audience`, `resolved` and `delivery` are Postgres, `stream` and `pel` the Redis stream and its
unacknowledged entries; `worker`, `batch`, `hand` and `backoff` are the memory of the bot process and are
lost in `Crash`.  The worker's tick is `ClaimDue`, `Reclaim`, `SeedDeliveries`, `SelectPending`, a
`MarkProcessing` and an `EnqueueCampaignMessage` per row, and `FinalizeCompleted`, each a step; `TickFails` ends it anywhere.  The relay
reads a batch, works off each player's entries in order (`next`), and the Notifier sends one message per chat,
notices first, with retries, a backoff and a verdict.  Which deliveries are old enough to be reclaimed is
chosen freely; one that is still under way counts as a fault.

### SmsControl

A route is one transaction and one action.  `UploadCsv`, `CreateCampaign`, the transitions of a campaign
and `StartCampaign` (which may run again) write the messages; `AddSuppression` and the node routes
interleave.  `CurrentNode` is the authentication that reads the node's row, `FetchJob` the claim that uses
this copy; `StartJob`, `SendText` and `ReportResult` are the device, which may lose a reply or
report late or twice; `Reconcile` is the sweep over whatever is stale.

## 3. Runs

| Run | Bounds | Shows |
|---|---|---|
| `ledger` | 5 transactions, 6 requests, 4 accounts | no overdraft, posts honoured once and reconciled with the balances; a deadlock needs a caller with several posts; all transactions end; implements `Ledger` |
| `bingo_money` | 1 engine, 2 players, 3 seats, 2 calls, 1 round, 4 commands, 2 faults, a stake that does not divide | money and memory, winners, fair and complete division of the pot, over every interleaving of one round, with commands that fail before or after their commit and failing replies |
| `bingo_live` | 2 engines, 1 seat, 2 rounds, 1 command, 1 fault, replies fail at any time | split brain, crash and reclaim: money, ended rounds stay ended, every round ends unless the room's lock is kept, every engine moves on |
| `lock` | 2 workers, TTL 15, interval 5; the calls of one take at most 1 second, of the other at most 10 | for the prompt worker held means owned |
| `payout` | 1 worker, 1 automatic and 1 large manual withdrawal of one player, 2 stream copies, 2 faults | ends once, locked money in flight, redelivery, two-person rule, an approved withdrawal is taken up |
| `keno` | 1 engine, 2 rounds, 1 manual ticket, 1 session of 2 rounds, 1 fault | tickets end one way, numbers are the seed's, no ticket after the draw or a stop, no refund beside a settlement, rounds are drawn and settlements finished |
| `keno_risk` | 2 players, 2 tickets, 3 rounds, 2 tiers of which one is edited, 2 admins, 1 console order, hold of 1 time unit, 1 round that fails open or drawn | capacity, promotion, breaker, floor |
| `deposits` | 2 players (one invited the other), 2 handlers, 2 payments, 2 readings of one Telebirr reference | every credit stands on money, the cap holds unless requests overlap, credits are final, what is paid is credited |
| `wagering` | 2 stakes (one of each game), 2 `/limits` commands, 2 bonuses, 2 orders, 2 half days | loss cap over a midnight, lowered cap, exclusion, bonuses |
| `gateway` | 1 player, 2 rooms, 2 events, mailbox of 1, 1 other message, 3 frames, any of them refused, 1 fault | the view is current unless the last join was refused, dropped ticks are made up for |
| `notify` | 1 campaign to 2 players, 1 notice to one of them, 2 attempts, batch of 2, 1 fault | repeats explained, finished is finished, everything is sent |
| `sms` | 1 campaign by file or contacts, 2 phones, 1 node with 2 requests at once, 2 attempts | bounded delivery, completed is done, messages end |

Why the bounds suffice: the races are between two actors over one stake, one key, one row or one
entry, so two of each (and a second round, for what carries over) make them happen; the `ledger`
programs contain each pair that can collide; `bingo_money` has a card two players want and a tie
and a late winner; the second Keno round is the one whose stakes refill the jackpot pool while the
first is settled.  In `keno_risk` one ticket fits the ceiling and two do not fit every tier; the third
round is created after the settlement of the first may have moved the reserve across a threshold
twice.  In `deposits` a cap of 3 admits one amount of 2 and not two, so overlapping requests are the only way
past it.  A mailbox of one message overflows at the second; the real one of `MAX_QUEUE_SIZE` messages
overflows likewise after more of them; three frames are a join, a leave and a join again.  In `notify` a batch of two holds the notice and the campaign
message of one player, whose order is the point of the lanes.  A fault of `bingo_live` beside a failed reply is
what leaves a lock behind; its engines fight for the room and not for a card, so one seat is enough.  `sms` has nodes
that take one job at a time, so a capacity that changes between authentication and claim is left to the proof,
which has any `MaxJobs`.  `MaxRounds`, `MaxAsks`, `MaxFaults`,
`Copies`, `MaxPayments`, `MaxTime`, `MaxOrders`, `MaxTickets`, `MaxFrames`, `MaxOther`, `MaxJobs` and the
sets `Audiences`, `Files`, `AdminStatuses` and `Caps` are the only bounds on behaviour.
`EveryRoundEnds` leaves out the last round of the bound, which has no successor.  Deadlock is checked
where the system always has something to do: `ledger`, `lock`, `keno` and `notify`.  In the other runs a
bounded history may stop.  Symmetry is used in `keno_risk` and `wagering`, whose properties are
invariants and action properties.

Fairness.  `BingoRound`: each asyncio task of a live process runs, Redis expires keys and workers
poll (`worker.py` polls on a timer and calls recovery each time); nothing is asked of players,
admins or faults.  `LedgerPost`: each backend runs its next statement when not blocked, and the
detector resolves a cycle.  `KenoRound`: the main loop
and each settlement task run, keys expire and the worker retries `run_forever()` every five seconds;
players, faults and clocks owe nothing.  `Payout`: the worker loop
and the sweep's timer run; the process that promised to enqueue owes nothing.  `Deposit`: the poll
runs on a timer and reaches each processing row again and again (strong fairness of its fetch: a status call
may fail, but not for ever); nobody owes a webhook.  `SmsControl`: active nodes ask for work and finish
their requests, and the sweep runs every minute; devices, carriers and people owe nothing.  `Notify`: the
three loops of the bot run, Telegram answers, a backoff passes, and a delivery nobody works on becomes old
enough to be reclaimed.  `Gateway`: the writer's task runs.  `RoomLock`, `Wagering` and `KenoRisk` make
safety claims only and assume none.

## 4. Known deviations

Where the code departs from what a comment, a docstring or a document says of it, or does something a
reader would not expect.  The models have all of these behaviours, and no run fails on them: the
properties are stated with the exception, or say nothing about it.

Engine, lock and payouts:

* a reply that cannot be published ends the command task with an exception; when the engine ends
  later, awaiting that task raises inside the `finally` of `run_forever` (`round_engine.py:291`) and the lock is
  not released while its refresh task goes on (`worker.py:104-110` counts on the release).  If it ends by an exception, its open
  round stays open, as no worker gets the room and recovery sees no later round: the exception `LockKept` of `EveryRoundEnds`;
* a join or drop that fails after its commit leaves the memory of the engine behind the table for the rest of the round
  (`torn`): a player who paid cannot win and the stake stays in escrow after settlement; a card that was given back
  can win, and can be taken again for free, as its stake's key is in the journal.  `StakesAccounted` and
  `WinnersGenuine` leave torn rounds out, `PotPaidFairly` does not: they divide the pot the engine remembers;
* payout replicas share a consumer name (`payout_worker.py:488`; its header promises safe replicas), and
  the closing transactions do not look at the status again, so two of them may overwrite a terminal
  payment; the run has one worker;
* a provider call that took effect and whose answer is lost is reversed (`payout_worker.py:159`): paid and
  returned.  Locked money is exact by the books all the same;
* recovery refunds the tickets of an old Keno round without locking the round
  (`keno_round_engine.py:696`): a ticket bought between its `SELECT` and its `UPDATE` is charged and stays
  pending in a failed round, which nothing looks at.  `TicketEndsOneWay` says that a ticket does not end
  twice, not that it ends;
* an exception before a Keno round is marked `settling` leaves it `draw_complete`; the sweep of each
  cycle looks at `settling` only, so winners wait for a restart, and one later than 300 seconds refunds the
  drawn round (`docs/keno/08-runbook.md:94-96` says the sweep heals it);

* a join or drop that commits between the count of players and the guarded `UPDATE` starts a round below
  `min_players`; an engine that claimed a room just before a stop plays one more round;
* `DeadlockVictim` really fires: `refund_round()` posts once per entrant in one transaction, so after
  the first post it holds `pot_escrow` and may ask for an older row, against the order the comment
  above the lock loop relies on.  Postgres aborts one side and the caller fails cleanly, as
  `EveryTransactionEnds` and `ImplementsLedger` show;
* with the configured socket timeout of 10 s (`redis_conn.py`) the lock's margin does not hold:
  `_last_refreshed_at` is the time of the reply, so a slow reply leaves less of the key than the margin
  assumes.  `HeldIsOwned` is claimed for an engine with prompt calls only (section 5);
* a Keno ticket that commits while betting closes may be missing from the hash of ticket ids
  (`docs/keno/06-fairness-and-verification.md:25-26` says every accepted ticket);
* a crash or an error between an autoplay ticket and its count lets the session buy one round more, and
  a settlement that dies before `record_settlement` leaves its net position short;
* a stop during the reveal marks the round `draw_complete` with numbers not yet revealed.

Keno risk:

* `withdraw_from_reserve` debits in a transaction after its second check: two withdrawals at once, or one
  and a settlement, undershoot the floor (`FloorHoldsUnlessOverlapped` says by how much);
* kill switch and `create_config` write a row with `beta_restricted`, `reserve_withdrawal_floor` and
  `daily_payout_circuit_breaker_multiple` at their column defaults, though the docstring says nothing else
  is reset; and a round is created without a look at `keno_enabled`;
* an edited row of the current tier does not take effect by itself; a reserve below every threshold leaves
  the current tier; the hold is sampled once a round, so time the engine was down counts; a refund takes
  the jackpot's part from the reserve.

Limits and bonuses:

* asking for more again after an increase took effect puts the old cap back for a day; two `/limits`
  commands at once may undo a decrease (`LoweringHolds` leaves them out); a shorter cool-off replaces a
  longer one;
* a Bingo join that was checked before a self-exclusion may commit after it; a stake whose transaction
  began before midnight and was checked after it sees both days' prizes (`LossCapHolds` leaves it out);
* wagering counts open stakes, so a bonus may convert on a card that is dropped afterwards, which the
  docstring of `bonuses.py` denies; a manual grant is keyed by a timestamp and a double click grants twice.

Gateway:

* a full mailbox and a message that must not be dropped empty the whole backlog and ask for no state_sync,
  though `fanout.py` says the client gets one; the state of a join is read before and sent after later
  events, and takes them back on the screen (both are `missed` of `ViewCurrent`);
* every frame takes a token of `WS_MESSAGES`, and a Redis error refuses it (`connection.py:195-200`, `rate_limit.py:96-102`); the page
  shows the error and does not repeat the frame.  After a refused re-join on a new connection the player sees the room as it was,
  though `ws.js:1-7` says reconnection restores it, and after a leave and the next join were both refused, nothing, in a room the
  connection is still in (`refused` of `ViewCurrent`);
* a writer task that dies leaves its connection silent; a timed-out command may still be executed; a new
  engine skips commands that were not read.

Messages:

* the campaign worker is not "safe against ever double-sending": a crash or a failed statement between the
  send and the mark, or a reclaim of a slow delivery, sends again (`RepeatsExplained` counts them);
* a filter that does not resolve makes every tick raise and stops all campaigns; players who exclude
  themselves after the seeding are still sent to;
* SMS: suppression is not looked up again at dispatch, though `compliance.py` says so; a campaign whose
  last message ends during a pause, or that starts with none, stays `running`; `revoke` is undone by approve or
  resume; a report of an earlier attempt is applied to the current one; nothing starts a scheduled campaign.

Deposits:

* redeeming evidence that was rejected fails an assertion instead of answering; a status call that raises
  gives up the rest of a poll's pass; a Chapa row in `review` (amount mismatch) has no way out in the console.


## 5. Proofs

Every theorem holds for any value of the constants that satisfies the named assumption of its module.
The bounds on behaviour (`MaxRounds`, `MaxFaults`, `MaxPayments`, `MaxOrders`, ...) are any natural numbers, so
no proof rests on a history being short.  Each inductive invariant is stated in the component's module
and was model-checked on that component's instance before it was proved.

**Sums** (`SumTheorems`).  Balances, totals and pots are `SumFunctionOnSet(f, S)`, which is defined by recursion.
The strict subsets of a finite set are well founded; from that follows an induction over subsets, stated
for a set of good ones and not for an operator (`SetInduction`), that the recursive function exists and is
unique, and then what the proofs use: the sum of nothing, of one element more or less (`SumAdd`, `SumRemove`), of
a union, of a part, of equal terms, of renamed ones.

**Ledger** (first part of `MoneyProofs`), for any accounts, requests, transactions and programs that satisfy
`AccountAssumption`, `RequestAssumption`, `OpeningAssumption` and `ProgramAssumption`, with finitely many
transactions open at once (`TxnAssumption`; Postgres' `max_connections`):

* `InductiveInvariant`: `Spec => []IndInv`.  That balances are never negative is not inductive: a commit
  adds what a transaction has pending, so the pending change must be covered (`Covered`); it is
  covered because the funds check used a current balance, which holds because the row is locked
  from the read to the end (`LockDiscipline`).  `KeyOwnedOnce` extends uniqueness of keys to
  uncommitted rows, which is what the wait on the unique index gives.
* `NoOverdraft` and `AtMostOncePerKey` follow.
* `BalancesReconciled`: cached balances equal the journal's sums.  Needs that the pending change of a transaction
  is the legs of the rows it has written, without the row whose writes are still to come
  (`PendingIsWritten`), and that nobody's uncommitted row is in the journal already (`Published`).
* `Refinement`: `Spec => ImplementsLedger`.  Every commit is one `Ledger` step that applies what the
  caller's requests move, every other step is a stutter: the deferred trigger, the replays and the
  rollbacks add nothing that the atomic ledger would not do.
* `CommittedPostsStand`: all posts of a committed caller stand under their own key (`CallsStand`).
* `SinglePostsNeverDeadlock`: a cycle of waiting transactions contains a caller of several posts.  In its first
  call a transaction holds only rows the loop has read, which come before the one it waits for
  (`FirstCall`), so in a cycle of first calls the awaited accounts would ascend for ever.

**Room lock** (first part of `KenoEngineProofs`), for any number of engines:

* `LockInvariant`: `Spec => []LockInv`.  For every engine whose own calls are prompt
  (`TTL <= 3 * Interval` and `2 * Interval + 3 * Timeout[w] < TTL`) the invariant ties the age of the
  last confirmation to what is left of the key in each phase of the refresh loop; "held implies
  owned" alone says nothing about time.  No assumption is made about the other engines: the scripts
  compare the owner, so the key of one engine changes by its own calls and by expiry only.
* `HeldOnlyWhileOwned` follows: such an engine owns the key it believes in, however slow the others are.
  The code's 15 and 5 seconds satisfy `Prompt` for calls of at most one second, not for the configured
  socket timeout of ten.
* `ForeignKeyUntouched` needs no timing.

**Settlement arithmetic** (first part of `BingoRoundProofs`), for every pot, cut and number of winners:

* `SharesAreFair`: the share is the largest whole number of cents that can be paid to each winner
  without touching the house's cut; rounding the pot and then the share loses nothing against
  rounding once.
* `PotIsFullyPaid`: shares and house together are the pot, and the house has at least its cut.

**Bingo rounds** (`BingoRoundProofs`), for any engines, cards, players, rounds, commands and faults, two
engines that drive one room and locks that expire at any time included (`BingoAssumption`: finitely many
seats, a rate between 0 and 10000, no card that wins before the first call):

* `InductiveInvariant`: `Spec => []IndInv`.  `RoundsOwned` is the heart: a round's id is known to one engine at
  most, as an id is created by the `INSERT` of the engine that keeps it and is never read back; so anybody
  else can do one thing to that round, end it, and every other write of the owner is guarded by the status.
  `InOrder` says that a row is what the ledger keys make of it: its status (`Ended`), a settlement's shares (`Settled`) and, of a round
  that is not torn, entries and pot (`Books`); `Pots` keeps what is paid within what an engine remembers, torn or not.  `Remembers`, `Calls`, `Commands` and
  `Claims` relate what an engine remembers to the row: equal, but for a join or drop that has committed and
  is not yet remembered, or a call counted and not yet written, and only while the round is live and not torn;
  `Phases` says which of these can be at once in the main loop, the command and the settlement task.
* `StakesAccountedHolds`, `WinnersGenuineHolds`, `PotPaidFairlyHolds` follow: each stake ends once and the escrow is
  the sum of the entries of open rounds; who is paid has a complete card of that round; shares and
  house are the pot, by `SharesAreFair` and `PotIsFullyPaid`.  The first two except torn rounds; a round once torn stays so
  (`TornGrows`), so the exception never has to be taken back.
* `TerminalFinalHolds`: an ended round is never changed again, whichever engine, recovery or admin comes late.

**Payouts** (second part of `MoneyProofs`, `PayoutAssumption`):

* `TypeCorrect` and `TwoPersonRuleHolds` for any number of workers that share one consumer name: no worker
  ever takes up a manual payment (`ManualUntouched`), and a large one that has left review was released by
  two (`GateKept`).
* `EndsOneWayHolds` and `LockedIsInFlightHolds` for one worker (the hypothesis `OneWorker`, as the run has it).  What
  the worker has in hand is still `processing` (`InHandIsProcessing`), and the keys follow the status
  (`KeysFollowStatus`); the locked money is then a sum over the statuses.  With two workers the first of
  these is false: both may hold one pending entry, and the later of a settlement and a reversal is posted
  as well (section 4).

**Limits and bonuses** (first part of `PlayerProofs`), for any stakes, requests, bonuses and days.  `WageringAssumption` asks that
the stakes together stay below `Unlimited`, which stands for "no cap":

* `InductiveInvariant`: that the day's loss is within the cap is not inductive, as a check and its commit are two
  steps.  `FitsUnderCap` says that what was checked still fits: the advisory lock keeps every other
  commit out until this one (`LocksHeld`), a win or a refund lowers the loss, and a cap lowered in between
  leaves the highest cap of the day.  `Dated` says that no stake lies ahead of the clock.
* `LossCapAlwaysHolds`, `BonusAlwaysEndsOnce`, `ExclusionAlwaysFinal` follow.
* `LoweringAlwaysHolds` needs `RaisesWait`: without overlapping `/limits` commands, what is pending above
  the cap last kept was asked for a day before it applies.

**Deposits** (`DepositProofs`, `DepositAssumption`), for any players, amounts, handlers, messages and payments:

* `InductiveInvariant`.  `CheckoutsHeld`: between `INSERT` and answer a checkout is in one handler's hands and its URL
  has not gone out.  `ProviderAgrees`: Chapa takes money only through a URL that went out, of a row that is
  still open, and a final report the poll holds is Chapa's own.  `MessagesHeld`: the row lock on a message being
  redeemed.  `PostedIsSucceeded`: the key of a credit is there exactly when the row says succeeded.
  `RoomLeft`: for a player without overlapping requests, what is counted and the request in hand fit under the
  cap together; the cap alone says nothing of a request that was checked and is about to insert.
* `DepositsAccountedHolds` (credits stand on money, bonuses on deposits, and what the comparison with
  Chapa finds is a row still open), `CapHolds` and
  `CreditIsFinalHolds`.

**Keno rounds** (`KenoEngineProofs`), for any engines, players, sessions, prizes, rounds and faults (`KenoAssumption`:
finitely many buyers, at most one of whom hits the jackpot):

* `KenoInvariant`: `KenoSpec /\ []OneDrives => []KenoInv`.  The updates of a status name the round only, so what keeps
  them apart is who has the round: the main loop has the one in hand in the status its code expects
  (`MainKnows`), recovery has the rows it read and has not come to, still as they were read and without a
  task (`TodoUntouched`), and a settlement task has its round to itself (`TaskKnows`).  What a refund or a
  settlement has selected is still pending when it commits; a ticket bought meanwhile can only join an open
  round, which no settlement has.  `TicketBooks` ties each row to its ledger keys, the jackpot's with its
  amount; a ticket that is pending has no jackpot key, so a retry never finds one beside a refilled pool.
  `RoundBooks` ties the numbers to the seed.
* `TicketsEndOneWay`, `NumbersAlwaysStand` and `DecisionsAlwaysStand` follow, the last two with what every step does to a
  status (`StatusMoves`) and to a ticket (`TicketMoves`).
* `OneEngineDrives`: `OneDrives` holds for any number of engines as long as no key expires under a living holder,
  because running, believing and owning the key then go together (`LockKept`); crashes, stops, errors and keys of
  the dead that run out are all there.  When a key does expire so is the subject of `HeldOnlyWhileOwned`.
* `KenoSafe` puts the two together.  The premise is not idle: with a key that may expire under its holder the three
  properties are false for two engines.

**Keno risk** (`KenoRiskProofs`, `KenoRiskAssumption`), for any players, admins, tiers, estimates, rounds and times:

* `InductiveInvariant`: the ceiling is checked in one step and the ticket placed in a later one, so `RowHeld` says that a
  ticket that was checked has the row of the open round, that nothing is sold and the round not closed
  meanwhile, and that the check still holds.  `BreakerHolds` keeps the current tier below the one it fell from until the
  next round is created.  `CandidateWaits` dates the last evaluation that found too little for the
  candidate.  `FloorCovered` says that what a withdrawal checked last leaves the floor but for what was
  taken since.
* `ExposureIsWithinCapacity`, `BreakerAlwaysWins`, `PromotionIsEarned` and `FloorHolds` follow.

**SMS control plane** (first part of `MessagingProofs`, `SmsAssumption`: finitely many campaigns and phones, administrators
choose among the statuses a node can have), for any campaigns, phones, nodes, requests, job sizes and attempts:

* `SmsSafe`: `SmsSpec => []CampaignsAccounted`, from `SmsInv`.  That a message was sent no more often than it was
  attempted is not inductive: a node may still send a job whose message the sweep has requeued or an administrator has
  cancelled.  `SendsCovered` counts those jobs (`unsent`) with the sends: each is paid for by the attempt it was
  handed out on, so a send moves one from the count of jobs to the count of sends.  `HeldInFlight` says that a message has a
  node exactly while it is in flight, which is why a report is taken of messages in flight only and a retry never
  touches a job that is out.  `AttemptsLeft` leaves room for the attempt that `claim` adds, and `NodesFit` is
  kept by `claim` because the lock on the node's row makes its count and its updates one step.

**Gateway** (second part of `MessagingProofs`, `GatewayAssumption`), for any rooms, events, frames, other messages, faults
and size of the mailbox:

* `GatewaySafe`: `Spec => []ViewCurrent`, from `GatewayInv`.  `ViewCurrent` speaks of the moments nothing is under way,
  so the invariant follows an event all the way.  `EventsAccounted`: every event published to the room that was joined
  reached the player, is in the mailbox, in the writer's hand or in the state the message loop is about to send, is
  owed as a dropped tick, or is among those known to be lost.  `OwedIsComing`: an owed tick is in a `state_sync`
  being built for this room, or the flag is up; and `FlagWakes`: while the flag is up the event is set or the writer
  is about to read the flag, as both are set in one step and a wait that takes the event goes back to the flag,
  at once or after the message it came with.
  `RoomWanted` says that the last thing asked of the connection is to join the room the Mini App is in, and that once nothing is asked
  for it has refused that, has joined the room and shows it, or is about to; so a player who left and came back is
  not shown a room nobody asked for, whichever frames were refused.  `ToldIsShown` closes the argument.

**Notifications** (second part of `PlayerProofs`, `NotifyAssumption`), for any campaigns, players, notices, batch size, attempts
and number of faults:

* `NotifySafe`: `NotifySpec => []NotifyInv`.  `RepeatsExplained` compares how often Telegram took a message with what could
  not be recorded, and says nothing of a send that is about to be recorded.  `DeliveriesExplained` counts that too: a send is
  known to the row (`recorded`), was forgotten by a crash or a failed statement, or is in hand (`explained`); one more is allowed
  to a delivery that was reclaimed while it was under way.  That one must not be spent twice, so a reclaimed row that still
  has an entry may not use it yet (second part of `DeliveriesExplained`), and a row that is going to be enqueued has no entry
  unless it was reclaimed early (`EnqueuedOnce`).  A late entry cannot spend it either: the relay skips what is not
  `processing`, and while an entry is in hand its row stays open (`HandOpen`), as the relay alone writes outcomes and works off
  one player's entries one after the other.  A notice has one entry as long as it is not acknowledged (`NoticesExplained`).
  `BatchIsPending` says that the batch in memory never holds an entry more often than the pending list, so each
  acknowledgement finds its own.
* `RepeatsAreExplained` and `FinishedStaysFinished` follow.  For the second, rows exist for campaigns that were sent
  only (`RowsOfSent`), the worker looks at campaigns it is sending only (`WorkerSends`), and an open row
  keeps its campaign from ending.

`LockInvariant`, `ForeignKeyUntouched`, `AtMostOncePerKey`, `BalancesReconciled` and the lemmas on sums have no run of
their own: they imply, or are part of, what the runs check.

**Only model-checked.**  Liveness: every `~>` and `[]<>` of the runs, and that transactions, rounds, tickets, campaigns
and messages end.  It rests on fairness and ENABLED, which the prover does not handle.  Every safety property of
the runs is a theorem, of some under the hypotheses named above (`OneWorker` for two of `Payout`, `OneDrives` for those of
`KenoRound`).

## 6. Not modelled

Left out of modelled components: Keno paytables and the draw function; the KYC, limit and risk rules of
a withdrawal; receipt images and rate limits of deposits; the creation of bonus rules and the barring of
referrers; SMS templates, tenants and quiet hours.  They are data to the properties, or checks that only
refuse.

Left out for good: HTTP routes beyond the transactions they run, bot dialogues, sessions and permissions of
the console, simulated players (they give the commands players give), browser clients, read-only reports,
the Keno simulator, connection factories, configuration and telemetry: they keep no state of record, only
read it, or do what other components already do here.
