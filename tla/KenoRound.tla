----------------------------- MODULE KenoRound -----------------------------
(***************************************************************************)
(* Keno: services/engine/keno_round_engine.py and keno_worker.py with      *)
(* packages/core/keno_tickets.py and keno_autoplay.py.  One global stream  *)
(* of rounds; an engine drives one round at a time (main) and settles      *)
(* earlier ones in background tasks (task), while players and autoplay     *)
(* place tickets straight into the database.                               *)
(*                                                                         *)
(* A transaction is one step unless it reads something it does not lock:   *)
(* closing a round and failing one are a read and a commit.  The engine's  *)
(* updates of a round's status name the round only, not the status they    *)
(* expect.  A ticket is <<buyer, r>>: a manual request has r = 0, the      *)
(* ticket of an autoplay session carries the round it was placed for, as   *)
(* their idempotency keys do.  Which tickets win is data (Prize).          *)
(***************************************************************************)
EXTENDS Integers, Sequences, FiniteSets, Functions

CONSTANTS
    Engine,      \* KenoRoundEngine instances
    Manual,      \* tickets players ask for by hand
    Session,     \* autoplay sessions
    RoundsTotal, \* RoundsTotal[s]: rounds the session was started for
    Stake, Cut,  \* the stake of a ticket, and its part diverted to the jackpot
    Prize,       \* Prize[b]: what the picks of buyer b win
    Jackpot,     \* the buyer whose five picks all match, if any
    PoolSeed,    \* the opening jackpot pool
    DrawCount,   \* numbers per draw
    MaxRounds,   \* bound: rounds created
    MaxFaults,   \* bound: crashes, errors, expiries and stops
    NoEngine, NoSeed

ASSUME KenoAssumption ==
    /\ NoEngine \notin Engine
    /\ IsFiniteSet(Manual \union Session) /\ Manual \intersect Session = {}
    /\ Stake \in Nat /\ Cut \in 0 .. Stake /\ PoolSeed \in Nat
    /\ Prize \in [Manual \union Session -> Nat]
    /\ RoundsTotal \in [Session -> Nat \ {0}]
    /\ Jackpot \subseteq Manual \union Session /\ Cardinality(Jackpot) <= 1
    /\ DrawCount \in Nat /\ MaxRounds \in Nat /\ MaxFaults \in Nat

VARIABLES
    rounds,    \* keno_rounds
    tickets,   \* keno_tickets
    posted,    \* ledger keys; a jackpot's carries the amount it moved
    sessions,  \* keno_autoplay_sessions
    keyOwner,  \* Redis key keno:round:lock
    holds,     \* KenoRoundLock._held
    stop,      \* _stop_requested
    main,      \* where run_forever() is, with its locals
    task,      \* the settlement task of each engine for each round
    faults

kenoVars == <<rounds, tickets, posted, sessions, keyOwner, holds, stop, main, task, faults>>
db == <<rounds, tickets, posted, sessions>>
proc == <<keyOwner, holds, stop>>

Round == 1 .. MaxRounds
Ticket == (Manual \X {0}) \union (Session \X Round)
Terminal == {"completed", "failed", "voided"}
Drawable == {"betting_closed", "drawing", "draw_complete"}
At(label) == [at |-> label]
Down == At("down")
NoTask == At("none")

KenoInit ==
    /\ rounds = << >>
    /\ tickets = [t \in Ticket |-> [status |-> "none", round |-> 0, jackpot |-> 0]]
    /\ posted = {}
    /\ sessions = [s \in Session |-> [status |-> "none", placed |-> 0]]
    /\ keyOwner = NoEngine
    /\ holds = [e \in Engine |-> FALSE]
    /\ stop = [e \in Engine |-> FALSE]
    /\ main = [e \in Engine |-> Down]
    /\ task = [e \in Engine |-> [r \in Round |-> NoTask]]
    /\ faults = 0

-----------------------------------------------------------------------------
(***************************************************************************)
(* The database.                                                           *)
(***************************************************************************)
Live(r) == rounds[r].status \notin Terminal
SetStatus(r, s) == rounds' = [rounds EXCEPT ![r].status = s]
TicketsOf(r) == {t \in Ticket : tickets[t].round = r}
Pending(r) == {t \in TicketsOf(r) : tickets[t].status = "pending"}
OpenRounds == {r \in DOMAIN rounds : rounds[r].status = "betting_open"}

\* What the keys of some jackpots moved.
Moved(keys) == SumFunctionOnSet([k \in keys |-> k[3]], keys)
JackpotKeys == {k \in posted : k[1] = "jackpot"}
JackpotMoved(t) == Moved({k \in JackpotKeys : k[2] = t})

\* The balance of keno_jackpot_pool.
Pool == PoolSeed + Cut * Cardinality({k \in posted : k[1] = "stake"}) - Moved(JackpotKeys)

\* The row _create_round() inserts.
NewRow == [status |-> "scheduled", seed |-> NoSeed, drawn |-> NoSeed, closes |-> 0,
           revealed |-> 0, old |-> FALSE]

\* The transaction of _place_ticket() once its checks passed: it holds the
\* open round's row, so betting cannot close under it.
Accept(t) ==
    \E r \in OpenRounds :
      /\ tickets[t].status = "none"
      /\ tickets' = [tickets EXCEPT ![t] = [status |-> "pending", round |-> r, jackpot |-> 0]]
      /\ posted' = posted \union {<<"stake", t>>}

\* A player's ticket.  A rejection (no open round, a limit, exposure, funds,
\* responsible gaming) and a retry of a placed one change nothing.
PlaceTicket(b) ==
    /\ Accept(<<b, 0>>)
    /\ UNCHANGED <<rounds, sessions, proc, main, task, faults>>

StartSession(s) ==
    /\ sessions[s].status = "none"
    /\ sessions' = [sessions EXCEPT ![s].status = "active"]
    /\ UNCHANGED <<rounds, tickets, posted, proc, main, task, faults>>

\* stop_session(): the player's own stop.
StopSession(s) ==
    /\ sessions[s].status = "active"
    /\ sessions' = [sessions EXCEPT ![s].status = "stopped"]
    /\ UNCHANGED <<rounds, tickets, posted, proc, main, task, faults>>

-----------------------------------------------------------------------------
(***************************************************************************)
(* The main loop.  Its locals are the rows recovery has still to look at   *)
(* (todo, empty once the engine runs rounds of its own), the round at hand *)
(* (r) and what it has read and not used yet (local).                      *)
(***************************************************************************)
Go(e, label) == main' = [main EXCEPT ![e].at = label]
With(e, label, local) == main' = [main EXCEPT ![e].at = label, ![e].local = local]
Work(label, todo, r) == [at |-> label, todo |-> todo, r |-> r, local |-> {}]
NextRound(e) == main' = [main EXCEPT ![e] = Work("next", @.todo, 0)]
Driving(e, label) == main[e].at = label
R(e) == main[e].r

\* _spawn_settlement() for the rounds in rs.
Spawn(e, rs) == task' = [task EXCEPT ![e] = [r \in Round |-> IF r \in rs THEN At("start") ELSE @[r]]]

\* run_forever() of a worker's next attempt wins the lock.
WinLock(e) ==
    /\ main[e] = Down /\ keyOwner = NoEngine
    /\ keyOwner' = e
    /\ holds' = [holds EXCEPT ![e] = TRUE]
    /\ main' = [main EXCEPT ![e] = At("recover")]
    /\ UNCHANGED <<db, stop, task, faults>>

\* recover_on_startup(): the open rounds and their statuses, read once.
ReadStuckRounds(e) ==
    /\ Driving(e, "recover")
    /\ main' = [main EXCEPT ![e] = Work("next",
                  {<<r, rounds[r].status>> : r \in {q \in DOMAIN rounds : Live(q)}}, 0)]
    /\ UNCHANGED <<db, proc, task, faults>>

\* Faulty variant: every interrupted round starts over.
ResumedAnew(s) == "open"

\* Faulty variant: a closed round is closed again before it is drawn.
ResumedAtClose(s) ==
    CASE s = "scheduled" -> "open"
      [] s = "betting_open" -> "betting"
      [] s \in Drawable -> "close"

\* Where _resume_round() continues a round read in status s.
Resumed(s) ==
    CASE s = "scheduled" -> "open"
      [] s = "betting_open" -> "betting"
      [] s \in Drawable -> "draw"

\* Faulty variant: an old round is refunded in whatever status it is.
RecoverRoundByAge(e) ==
    /\ Driving(e, "next")
    /\ \E x \in main[e].todo :
         /\ main' = [main EXCEPT ![e] =
              IF rounds[x[1]].old
              THEN Work("fail", @.todo \ {x}, x[1])
              ELSE IF x[2] = "settling" THEN Work("next", @.todo \ {x}, 0)
              ELSE Work(Resumed(x[2]), @.todo \ {x}, x[1])]
         /\ Spawn(e, IF x[2] = "settling" /\ ~ rounds[x[1]].old THEN {x[1]} ELSE {})
    /\ UNCHANGED <<db, proc, faults>>

\* Faulty variant: only rounds in settlement are recovered.
RecoverSettlingOnly(e) ==
    /\ Driving(e, "next")
    /\ \E x \in main[e].todo :
         /\ main' = [main EXCEPT ![e] = Work("next", @.todo \ {x}, 0)]
         /\ Spawn(e, IF x[2] = "settling" THEN {x[1]} ELSE {})
    /\ UNCHANGED <<db, proc, faults>>

\* One row of recover_on_startup(): settle again, refund if it is too old, or
\* resume from the status that was read.
RecoverRound(e) ==
    /\ Driving(e, "next")
    /\ \E x \in main[e].todo :
         /\ main' = [main EXCEPT ![e] =
              IF x[2] = "settling" THEN Work("next", @.todo \ {x}, 0)
              ELSE Work(IF rounds[x[1]].old THEN "fail" ELSE Resumed(x[2]), @.todo \ {x}, x[1])]
         /\ Spawn(e, IF x[2] = "settling" THEN {x[1]} ELSE {})
    /\ UNCHANGED <<db, proc, faults>>

\* _fail_and_refund_round() locks the pending tickets of the round, but not
\* the round.
SelectRefunds(e) ==
    /\ Driving(e, "fail")
    /\ With(e, "refund", Pending(R(e)))
    /\ UNCHANGED <<db, proc, task, faults>>

\* Its commit: what it selected is refunded and the round marked failed.
FailAndRefundRound(e) ==
    /\ Driving(e, "refund")
    /\ tickets' = [t \in Ticket |-> IF t \in main[e].local THEN [tickets[t] EXCEPT !.status = "refunded"]
                                                         ELSE tickets[t]]
    /\ posted' = posted \union {<<"refund", t>> : t \in main[e].local}
    /\ SetStatus(R(e), "failed")
    /\ NextRound(e)
    /\ UNCHANGED <<sessions, proc, task, faults>>

Continues(e) == Driving(e, "next") /\ main[e].todo = {} /\ holds[e] /\ ~ stop[e]

\* Faulty variant: no sweep between rounds.
SweepNothing(e) ==
    /\ Continues(e)
    /\ main' = [main EXCEPT ![e].at = IF Len(rounds) < MaxRounds THEN "create" ELSE "next"]
    /\ UNCHANGED <<db, proc, task, faults>>

\* _recover_stuck_settling_rounds(): a settling round without a task of this
\* engine gets one.  (At the bound on rounds the engine goes on sweeping.)
Sweep(e) ==
    /\ Continues(e)
    /\ Spawn(e, {r \in DOMAIN rounds : rounds[r].status = "settling" /\ task[e][r] = NoTask})
    /\ main' = [main EXCEPT ![e].at = IF Len(rounds) < MaxRounds THEN "create" ELSE "next"]
    /\ UNCHANGED <<db, proc, faults>>

CreateRound(e) ==
    /\ Driving(e, "create") /\ Len(rounds) < MaxRounds
    /\ rounds' = Append(rounds, NewRow)
    /\ main' = [main EXCEPT ![e] = Work("open", {}, Len(rounds) + 1)]
    /\ UNCHANGED <<tickets, posted, sessions, proc, task, faults>>

\* _open_betting(); a second open round violates the unique index and the
\* exception ends run_forever().
OpenBetting(e) ==
    /\ Driving(e, "open")
    /\ IF OpenRounds \subseteq {R(e)}
       THEN SetStatus(R(e), "betting_open") /\ Go(e, "autoplay")
       ELSE main' = [main EXCEPT ![e] = At("drain")] /\ UNCHANGED rounds
    /\ UNCHANGED <<tickets, posted, sessions, proc, task, faults>>

\* place_for_active_sessions(): the active sessions and the rounds they have
\* placed, read once.
ListSessions(e) ==
    /\ Driving(e, "autoplay")
    /\ With(e, "placing", {<<s, sessions[s].placed>> : s \in {q \in Session : sessions[q].status = "active"}})
    /\ UNCHANGED <<db, proc, task, faults>>

\* Faulty variant: the ticket is placed on the strength of the list.
PlaceListed(e) ==
    /\ Driving(e, "placing")
    /\ \E x \in main[e].local :
         /\ Accept(<<x[1], R(e)>>)
         /\ With(e, "count", <<x, main[e].local \ {x}>>)
    /\ UNCHANGED <<rounds, sessions, proc, task, faults>>

\* _place_for_session(): the session is looked at again under its row lock.
PlaceForSession(e) ==
    /\ Driving(e, "placing")
    /\ \E x \in main[e].local :
         /\ sessions[x[1]].status = "active"
         /\ Accept(<<x[1], R(e)>>)
         /\ With(e, "count", <<x, main[e].local \ {x}>>)
    /\ UNCHANGED <<rounds, sessions, proc, task, faults>>

\* A rejection stops the session, if it still runs.
RejectForSession(e) ==
    /\ Driving(e, "placing")
    /\ \E x \in main[e].local :
         /\ sessions' = [sessions EXCEPT ![x[1]].status = IF @ = "active" THEN "stopped" ELSE @]
         /\ With(e, "placing", main[e].local \ {x})
    /\ UNCHANGED <<rounds, tickets, posted, proc, task, faults>>

\* The count of the session's rounds, in a transaction of its own.
CountPlaced(e) ==
    /\ Driving(e, "count")
    /\ sessions' = [sessions EXCEPT ![main[e].local[1][1]].placed = @ + 1]
    /\ Go(e, "exhaust")
    /\ UNCHANGED <<rounds, tickets, posted, proc, task, faults>>

\* A session that has placed its last round, by the count that was listed, ends.
ExhaustIfDone(e) ==
    /\ Driving(e, "exhaust")
    /\ LET s == main[e].local[1][1]
           listed == main[e].local[1][2]
       IN sessions' = [sessions EXCEPT ![s].status =
            IF @ = "active" /\ listed + 1 >= RoundsTotal[s] THEN "exhausted" ELSE @]
    /\ With(e, "placing", main[e].local[2])
    /\ UNCHANGED <<rounds, tickets, posted, proc, task, faults>>

PlacingOver(e) ==
    /\ Driving(e, "placing") /\ main[e].local = {}
    /\ Go(e, "betting")
    /\ UNCHANGED <<db, proc, task, faults>>

\* _run_betting_phase() reaches its deadline.
BettingOver(e) ==
    /\ Driving(e, "betting")
    /\ Go(e, "close")
    /\ UNCHANGED <<db, proc, task, faults>>

\* Or it notices that the lock is lost or a stop requested, and the round is
\* left as it is.
BettingAborted(e) ==
    /\ Driving(e, "betting") /\ (stop[e] \/ ~ holds[e])
    /\ NextRound(e)
    /\ UNCHANGED <<db, proc, task, faults>>

\* _close_betting() selects the ticket ids without locking the round.
SelectTicketIds(e) ==
    /\ Driving(e, "close")
    /\ With(e, "closing", TicketsOf(R(e)))
    /\ UNCHANGED <<db, proc, task, faults>>

\* Its commit.  The public seed is made of the closing time (closes counts
\* them) and the hash of the ids selected.
CloseBetting(e) ==
    /\ Driving(e, "closing")
    /\ LET closes == rounds[R(e)].closes + 1
       IN rounds' = [rounds EXCEPT ![R(e)] =
            [@ EXCEPT !.status = "betting_closed", !.closes = closes, !.seed = <<closes, main[e].local>>]]
    /\ Go(e, "draw")
    /\ UNCHANGED <<tickets, posted, sessions, proc, task, faults>>

\* _run_draw() reads the row; a draw that is already there is only revealed.
ReadDraw(e) ==
    /\ Driving(e, "draw")
    /\ main' = [main EXCEPT ![e].at = IF rounds[R(e)].drawn = NoSeed THEN "drawing" ELSE "reveal",
                            ![e].local = rounds[R(e)].seed]
    /\ UNCHANGED <<db, proc, task, faults>>

\* The numbers are a function of the seed read; the trigger refuses a change.
Draw(e) ==
    /\ Driving(e, "drawing")
    /\ IF rounds[R(e)].drawn \in {NoSeed, main[e].local}
       THEN /\ rounds' = [rounds EXCEPT ![R(e)].status = "drawing", ![R(e)].drawn = main[e].local]
            /\ With(e, "reveal", {})
       ELSE UNCHANGED rounds /\ main' = [main EXCEPT ![e] = At("drain")]
    /\ UNCHANGED <<tickets, posted, sessions, proc, task, faults>>

\* One turn of _reveal_numbers().
RevealNumber(e) ==
    /\ Driving(e, "reveal") /\ holds[e] /\ ~ stop[e]
    /\ rounds[R(e)].revealed < DrawCount
    /\ rounds' = [rounds EXCEPT ![R(e)].revealed = @ + 1]
    /\ UNCHANGED <<tickets, posted, sessions, proc, main, task, faults>>

\* _reveal_numbers() returns, also early when the lock is lost or a stop is
\* requested; the round is complete either way and its settlement starts.
DrawComplete(e) ==
    /\ Driving(e, "reveal")
    /\ rounds[R(e)].revealed = DrawCount \/ stop[e] \/ ~ holds[e]
    /\ SetStatus(R(e), "draw_complete")
    /\ Spawn(e, {R(e)})
    /\ NextRound(e)
    /\ UNCHANGED <<tickets, posted, sessions, proc, faults>>

\* Faulty variant: run_forever() returns without waiting for settlements.
ExitUndrained(e) ==
    /\ main[e].at = "drain" \/ (Driving(e, "next") /\ main[e].todo = {} /\ (stop[e] \/ ~ holds[e]))
    /\ main' = [main EXCEPT ![e] = Down]
    /\ keyOwner' = IF keyOwner = e THEN NoEngine ELSE keyOwner
    /\ holds' = [holds EXCEPT ![e] = FALSE]
    /\ stop' = [stop EXCEPT ![e] = FALSE]
    /\ UNCHANGED <<db, task, faults>>

\* The finally block of run_forever(): settlements in flight are awaited, then
\* the lock is released if it is still ours.  A stopped process is replaced.
Exit(e) ==
    /\ main[e].at = "drain" \/ (Driving(e, "next") /\ main[e].todo = {} /\ (stop[e] \/ ~ holds[e]))
    /\ \A r \in Round : task[e][r] = NoTask
    /\ main' = [main EXCEPT ![e] = Down]
    /\ keyOwner' = IF keyOwner = e THEN NoEngine ELSE keyOwner
    /\ holds' = [holds EXCEPT ![e] = FALSE]
    /\ stop' = [stop EXCEPT ![e] = FALSE]
    /\ UNCHANGED <<db, task, faults>>

-----------------------------------------------------------------------------
(***************************************************************************)
(* Settlement: _settle_and_complete() as a background task.                *)
(***************************************************************************)
Settling(e, r, label) == task[e][r].at = label
SetTask(e, r, s) == task' = [task EXCEPT ![e][r] = s]

\* A round that is over is left alone.
ReadRound(e, r) ==
    /\ Settling(e, r, "start")
    /\ SetTask(e, r, IF Live(r) THEN At("mark") ELSE NoTask)
    /\ UNCHANGED <<db, proc, main, faults>>

MarkSettling(e, r) ==
    /\ Settling(e, r, "mark")
    /\ SetStatus(r, "settling")
    /\ SetTask(e, r, At("select"))
    /\ UNCHANGED <<tickets, posted, sessions, proc, main, faults>>

\* _settle_tickets() reads the pending tickets before its transaction.
SelectPending(e, r) ==
    /\ Settling(e, r, "select")
    /\ SetTask(e, r, [at |-> "pay", tickets |-> Pending(r)])
    /\ UNCHANGED <<db, proc, main, faults>>

\* The tickets in T that hit the jackpot while there is a pool to pay.
Hits(T) == {t \in T : t[1] \in Jackpot /\ Pool > 0}

\* The batch transaction: _settle_one_ticket() posts a prize under the
\* ticket's key and closes the ticket if it is still pending; _pay_jackpot()
\* posts the pool, which moves nothing under a key already there, and records
\* the pool it saw.  It waits for the tickets an open refund has locked.
SettleTickets(e, r) ==
    /\ Settling(e, r, "pay")
    /\ LET T == task[e][r].tickets
           done == {t \in T : tickets[t].status = "pending"}
           won == {t \in T : Prize[t[1]] > 0}
           newHits == {t \in Hits(T) : \A k \in posted : ~ (k[1] = "jackpot" /\ k[2] = t)}
       IN /\ \A f \in Engine : Driving(f, "refund") => main[f].local \intersect T = {}
          /\ posted' = posted \union {<<"payout", t>> : t \in won}
                              \union {<<"jackpot", t, Pool>> : t \in newHits}
          /\ tickets' = [t \in Ticket |->
               [tickets[t] EXCEPT
                  !.status = IF t \notin done THEN @ ELSE IF t \in won THEN "won" ELSE "lost",
                  !.jackpot = IF t \in Hits(T) THEN Pool ELSE @]]
          /\ SetTask(e, r, [at |-> "record", tickets |-> {t \in done : t[1] \in Session}])
    /\ UNCHANGED <<rounds, sessions, proc, main, faults>>

\* record_settlement_safely() of one autoplay ticket.  A running session stops
\* when its net position crosses a limit the player set or cannot be updated;
\* the position itself is left out.
RecordSettlement(e, r) ==
    /\ Settling(e, r, "record")
    /\ \E t \in task[e][r].tickets, over \in BOOLEAN :
         /\ sessions' = [sessions EXCEPT ![t[1]].status =
                          IF @ = "active" /\ over THEN "stopped" ELSE @]
         /\ SetTask(e, r, [task[e][r] EXCEPT !.tickets = @ \ {t}])
    /\ UNCHANGED <<rounds, tickets, posted, proc, main, faults>>

CompleteRound(e, r) ==
    /\ Settling(e, r, "record") /\ task[e][r].tickets = {}
    /\ SetStatus(r, "completed")
    /\ SetTask(e, r, NoTask)
    /\ UNCHANGED <<tickets, posted, sessions, proc, main, faults>>

-----------------------------------------------------------------------------
(***************************************************************************)
(* The lock, and what goes wrong.                                          *)
(***************************************************************************)
Fault == faults < MaxFaults /\ faults' = faults + 1

\* _stop_after_error(): the statement may fail as well.
StopAfterError(s) ==
    \/ sessions' = [sessions EXCEPT ![s].status = IF @ = "active" THEN "stopped" ELSE @]
    \/ UNCHANGED sessions

\* An exception of a settlement is logged and swallowed; what is not committed
\* rolls back.
SettlementFails(e, r) ==
    /\ \/ task[e][r].at \in {"start", "mark", "select", "pay"}
       \/ Settling(e, r, "record") /\ task[e][r].tickets = {}
    /\ Fault
    /\ SetTask(e, r, NoTask)
    /\ UNCHANGED <<db, proc, main>>

\* An exception of the main loop ends run_forever(), which the worker retries.
\* One while an autoplay ticket is placed stops that session only.
EngineFails(e) ==
    /\ main[e].at \notin {"down", "drain", "placing", "count", "exhaust", "betting"}
    /\ Fault
    /\ main' = [main EXCEPT ![e] = At("drain")]
    /\ UNCHANGED <<db, proc, task>>

PlacementFails(e) ==
    /\ \/ /\ Driving(e, "placing")
          /\ \E x \in main[e].local : /\ StopAfterError(x[1])
                                      /\ With(e, "placing", main[e].local \ {x})
       \/ /\ main[e].at \in {"count", "exhaust"}
          /\ StopAfterError(main[e].local[1][1])
          /\ With(e, "placing", main[e].local[2])
    /\ Fault
    /\ UNCHANGED <<rounds, tickets, posted, proc, task>>

\* The process dies: its tasks and its belief in the lock go with it.
EngineCrash(e) ==
    /\ main[e] # Down
    /\ Fault
    /\ main' = [main EXCEPT ![e] = Down]
    /\ task' = [task EXCEPT ![e] = [r \in Round |-> NoTask]]
    /\ holds' = [holds EXCEPT ![e] = FALSE]
    /\ stop' = [stop EXCEPT ![e] = FALSE]
    /\ UNCHANGED <<db, keyOwner>>

\* The key goes although its holder lives, and the holder notices later.
LockExpires(e) ==
    /\ keyOwner = e /\ holds[e]
    /\ Fault
    /\ keyOwner' = NoEngine
    /\ UNCHANGED <<db, holds, stop, main, task>>

LockLost(e) ==
    /\ holds[e] /\ keyOwner # e
    /\ holds' = [holds EXCEPT ![e] = FALSE]
    /\ UNCHANGED <<db, keyOwner, stop, main, task, faults>>

\* The key of a dead process runs out.
KeyExpires(e) ==
    /\ keyOwner = e /\ ~ holds[e]
    /\ keyOwner' = NoEngine
    /\ UNCHANGED <<db, holds, stop, main, task, faults>>

\* SIGTERM: engine.stop().
StopEngine(e) ==
    /\ main[e] # Down /\ ~ stop[e]
    /\ Fault
    /\ stop' = [stop EXCEPT ![e] = TRUE]
    /\ UNCHANGED <<db, keyOwner, holds, main, task>>

\* The round passes STUCK_ROUND_THRESHOLD_SECONDS, in an outage or while
\* recovery is busy with another row; only recovery looks at a round's age.
GrowOld(r) ==
    /\ r \in DOMAIN rounds /\ Live(r) /\ ~ rounds[r].old
    /\ \A e \in Engine : \/ main[e].at \in {"down", "recover"}
                         \/ "todo" \in DOMAIN main[e] /\ \E x \in main[e].todo : x[1] = r
    /\ rounds' = [rounds EXCEPT ![r].old = TRUE]
    /\ UNCHANGED <<tickets, posted, sessions, proc, main, task, faults>>

-----------------------------------------------------------------------------
MainStep(e) ==
    \/ ReadStuckRounds(e) \/ RecoverRound(e) \/ SelectRefunds(e) \/ FailAndRefundRound(e)
    \/ Sweep(e) \/ CreateRound(e) \/ OpenBetting(e) \/ ListSessions(e)
    \/ PlaceForSession(e) \/ RejectForSession(e) \/ CountPlaced(e) \/ ExhaustIfDone(e)
    \/ PlacingOver(e) \/ BettingOver(e) \/ BettingAborted(e)
    \/ SelectTicketIds(e) \/ CloseBetting(e) \/ ReadDraw(e) \/ Draw(e)
    \/ RevealNumber(e) \/ DrawComplete(e) \/ Exit(e)

TaskStep(e, r) ==
    \/ ReadRound(e, r) \/ MarkSettling(e, r) \/ SelectPending(e, r)
    \/ SettleTickets(e, r) \/ RecordSettlement(e, r) \/ CompleteRound(e, r)

LockStep(e) == LockLost(e) \/ KeyExpires(e)

EngineFault(e) ==
    \/ EngineFails(e) \/ PlacementFails(e) \/ EngineCrash(e) \/ LockExpires(e) \/ StopEngine(e)
    \/ \E r \in Round : SettlementFails(e, r)

KenoNext ==
    \/ \E e \in Engine : \/ WinLock(e) \/ MainStep(e) \/ LockStep(e) \/ EngineFault(e)
                         \/ \E r \in Round : TaskStep(e, r)
    \/ \E b \in Manual : PlaceTicket(b)
    \/ \E s \in Session : StartSession(s) \/ StopSession(s)
    \/ \E r \in Round : GrowOld(r)

KenoSpec == KenoInit /\ [][KenoNext]_kenoVars

\* Every ready task of a live process runs, Redis expires keys, and workers
\* retry run_forever(); players, faults and the clock owe nothing.
Fairness ==
    /\ \A e \in Engine : /\ WF_kenoVars(MainStep(e)) /\ WF_kenoVars(LockStep(e))
                         /\ \A r \in Round : WF_kenoVars(TaskStep(e, r))
    /\ WF_kenoVars(\E e \in Engine : WinLock(e))

FairSpec == KenoSpec /\ Fairness

-----------------------------------------------------------------------------
(***************************************************************************)
(* Properties.                                                             *)
(***************************************************************************)

\* The money of a ticket follows its row: a prize is paid exactly to the won
\* ones, a stake given back exactly for the refunded ones, although the two
\* use different ledger keys and settlement reads the tickets before it pays;
\* and the jackpot a ticket shows is what the ledger moved for it, across
\* retries that meet a pool filled again by the stakes of the next round.
\* A completed round has settled every ticket it took.
TicketEndsOneWay ==
    /\ \A t \in Ticket :
         /\ (<<"payout", t>> \in posted) = (tickets[t].status = "won")
         /\ (<<"refund", t>> \in posted) = (tickets[t].status = "refunded")
         /\ tickets[t].jackpot = JackpotMoved(t)
    /\ \A r \in DOMAIN rounds : rounds[r].status = "completed" => Pending(r) = {}

\* The published seed is the one the numbers were drawn from: a recovered
\* round is not closed, and its seed not made, a second time.
SeedExplainsDraw == \A r \in DOMAIN rounds : rounds[r].drawn \in {NoSeed, rounds[r].seed}

\* Once the numbers of a round are drawn no ticket joins it.
NoTicketAfterDraw ==
    \A r \in DOMAIN rounds : rounds[r].drawn # NoSeed =>
      \A t \in Ticket : tickets'[t].round = r => tickets[t].round = r

\* The numbers stand on what was published: no second seed, no late ticket.
NumbersStand == [][SeedExplainsDraw' /\ NoTicketAfterDraw]_kenoVars

\* A round that is over stays so: no late settlement, recovery or draw of it
\* writes its status again.
TerminalFinal ==
    [][\A r \in DOMAIN rounds : ~ Live(r) => rounds'[r].status = rounds[r].status]_kenoVars

\* A round whose settlement has begun is never failed and refunded, however
\* old it is (recover_on_startup()).
SettlingNeverRefunded ==
    [][\A r \in DOMAIN rounds :
         rounds[r].status = "settling" => rounds'[r].status \in {"settling", "completed"}]_kenoVars

\* Once a session is over, by whatever cause, no further ticket is placed for
\* it, although the engine listed the sessions before it places.
NoTicketAfterStop ==
    [][\A t \in Ticket : t[1] \in Session /\ tickets[t].status = "none" /\ tickets'[t].status # "none"
         => sessions[t[1]].status = "active"]_kenoVars

\* What has been decided stays decided: the end of a round, that it is being
\* paid, and the end of a session.
DecisionsStand == TerminalFinal /\ SettlingNeverRefunded /\ NoTicketAfterStop

IsIn(r, statuses) == r \in DOMAIN rounds /\ rounds[r].status \in statuses

\* Every round is drawn or failed: an engine that fails, stops or loses its
\* lock while it drives a round leaves it to a successor that finishes it.
EveryRoundIsDrawn ==
    \A r \in Round : (r \in DOMAIN rounds) ~>
      IsIn(r, {"draw_complete", "settling"} \union Terminal)

\* A settlement that has begun is finished, also when its task dies: by the
\* sweep of a later cycle or by recovery.
SettlingCompletes ==
    \A r \in Round : IsIn(r, {"settling"}) ~> IsIn(r, {"completed"})

\* Neither half of a round's life is left unfinished.
EveryRoundIsFinished == EveryRoundIsDrawn /\ SettlingCompletes

-----------------------------------------------------------------------------
(***************************************************************************)
(* What makes them inductive.                                              *)
(***************************************************************************)

\* The premise of all of them: one engine runs at a time.
OneDrives == \A e, f \in Engine : main[e] # Down /\ main[f] # Down => e = f

\* What the lock gives while no key expires under its holder.
LockKept ==
    \A e \in Engine : (main[e] # Down <=> holds[e]) /\ (holds[e] => keyOwner = e)

Statuses == {"scheduled", "betting_open", "settling"} \union Drawable \union Terminal
Seeds == {NoSeed} \union (Nat \X SUBSET Ticket)
RoundRow ==
    [status : Statuses, seed : Seeds, drawn : Seeds, closes : Nat, revealed : 0 .. DrawCount, old : BOOLEAN]
TicketRow ==
    [status : {"none", "pending", "won", "lost", "refunded"}, round : Nat, jackpot : Int]
SessionRow == [status : {"none", "active", "stopped", "exhausted"}, placed : Nat]
Listed == Session \X Nat

Betting == {"autoplay", "placing", "count", "exhaust", "betting", "close", "closing"}
Drawing == {"draw", "drawing", "reveal"}
Working == {"next", "create", "open", "fail", "refund"} \union Betting \union Drawing

\* The locals of an engine at work.
WorkType(m) ==
    /\ m = [at |-> m.at, todo |-> m.todo, r |-> m.r, local |-> m.local]
    /\ m.todo \subseteq Round \X Statuses
    /\ m.r \in 0 .. MaxRounds
    /\ m.at = "placing" => m.local \subseteq Listed
    /\ m.at \in {"count", "exhaust"} => m.local[1] \in Listed /\ m.local[2] \subseteq Listed
    /\ m.at \in {"refund", "closing"} => m.local \subseteq Ticket

MainState(m) ==
    \/ m \in {Down, At("recover"), At("drain")}
    \/ m.at \in Working /\ WorkType(m)

TaskState ==
    {NoTask, At("start"), At("mark"), At("select")}
      \union [at : {"pay", "record"}, tickets : SUBSET Ticket]

KenoTypeOK ==
    /\ rounds \in Seq(RoundRow) /\ Len(rounds) <= MaxRounds
    /\ tickets \in [Ticket -> TicketRow]
    /\ IsFiniteSet(posted)
    /\ posted \subseteq ({"stake", "payout", "refund"} \X Ticket) \union ({"jackpot"} \X Ticket \X Int)
    /\ sessions \in [Session -> SessionRow]
    /\ keyOwner \in Engine \union {NoEngine}
    /\ holds \in [Engine -> BOOLEAN] /\ stop \in [Engine -> BOOLEAN] /\ faults \in Nat
    /\ main = [e \in Engine |-> main[e]]
    /\ \A e \in Engine : MainState(main[e])
    /\ task \in [Engine -> [Round -> TaskState]]

\* An engine has a round in the status its code expects, and what it read of
\* it is still so.
MainKnows(e) ==
    LET m == main[e]
        status == rounds[m.r].status
    IN  m.at \in Working =>
          /\ IF m.at \in {"next", "create"} THEN m.r = 0 ELSE m.r \in DOMAIN rounds
          /\ m.at = "open" => status = "scheduled"
          /\ m.at \in Betting => status = "betting_open"
          /\ m.at \in Drawing => status \in Drawable
          /\ m.at \in {"fail", "refund"} => status \in {"scheduled", "betting_open"} \union Drawable
          /\ m.at = "drawing" => rounds[m.r].drawn = NoSeed /\ m.local = rounds[m.r].seed
          /\ m.at = "refund" => m.local \subseteq Pending(m.r)

\* The rounds recovery has still to look at are as they were read.
TodoUntouched(e) ==
    main[e].at \in Working => \A x \in main[e].todo :
        /\ x[1] \in DOMAIN rounds /\ rounds[x[1]].status = x[2] /\ x[2] \notin Terminal
        /\ x[1] # main[e].r /\ task[e][x[1]] = NoTask

\* A settlement has its round to itself.
TaskKnows(e, r) ==
    LET s == task[e][r]
    IN  s # NoTask =>
          /\ main[e] \notin {Down, At("recover")} /\ r \in DOMAIN rounds
          /\ main[e].at \in Working => main[e].r # r
          /\ s.at \in {"start", "mark"} => rounds[r].status \in {"draw_complete", "settling"}
          /\ s.at \in {"select", "pay", "record"} => rounds[r].status = "settling"
          /\ s.at = "pay" => s.tickets = Pending(r)
          /\ s.at = "record" => Pending(r) = {} /\ s.tickets \subseteq Session \X Round

\* Tickets and their ledger keys.
TicketBooks(t) ==
    /\ (tickets[t].status = "none") = (tickets[t].round = 0)
    /\ tickets[t].round \in {0} \union DOMAIN rounds
    /\ (<<"payout", t>> \in posted) = (tickets[t].status = "won")
    /\ (<<"refund", t>> \in posted) = (tickets[t].status = "refunded")
    /\ tickets[t].jackpot = JackpotMoved(t)
    /\ tickets[t].status \in {"none", "pending"} => \A k \in JackpotKeys : k[2] # t

\* A round is settled when it is completed, and drawn from its seed.
RoundBooks(r) ==
    /\ rounds[r].status = "completed" => Pending(r) = {}
    /\ rounds[r].drawn \in {NoSeed, rounds[r].seed}
    /\ rounds[r].status \in {"scheduled", "betting_open"} => rounds[r].drawn = NoSeed

KenoInv ==
    /\ KenoTypeOK
    /\ \A e \in Engine : MainKnows(e) /\ TodoUntouched(e) /\ \A r \in Round : TaskKnows(e, r)
    /\ \A t \in Ticket : TicketBooks(t)
    /\ \A r \in DOMAIN rounds : RoundBooks(r)
=============================================================================
