----------------------------- MODULE BingoRound -----------------------------
(***************************************************************************)
(* One bingo room: services/engine/round_engine.py with the parts that     *)
(* share its rounds (worker.py, recovery.py, refunds.py, and the admin     *)
(* console's void and stop).  The database row of a round and the engine's *)
(* own memory of it are kept apart: most of what can go wrong is the one   *)
(* being stale when the other is used.                                     *)
(*                                                                         *)
(* A database transaction locks the rounds row first, so it is one step.   *)
(* Each engine has three asyncio tasks that interleave at their awaits:    *)
(* the main loop (main), the command server (cmd) and the settlement task  *)
(* (task).  A seat is <<user, card>>.  Money moves by posting ledger keys; *)
(* posting a key again moves nothing (see LedgerPost).                     *)
(***************************************************************************)
EXTENDS Settlement, Sequences, FiniteSets, FiniteSetsExt

CONSTANTS
    Engine,       \* RoundEngine instances, of one or several workers
    Seat,         \* the <<user, card>> pairs players may ask for
    Funds,        \* Funds[u]: opening user_cash of each user
    Stake,        \* rooms.stake, in cents
    HouseCutBps, MinPlayers, MaxPlayers, MaxCards,
    LineAt,       \* LineAt[c]: the call that completes card c's first line
    WinAt,        \* WinAt[c]: the call that completes min_winning_lines of c
    MaxCalls,     \* 75 in the code
    MaxRounds,    \* bound: rounds created
    MaxAsks,      \* bound: commands of the players
    MaxFaults,    \* bound: crashes, expiries, failures, shutdowns, admin actions
    AutoChoice,   \* the auto-mark settings players choose from
    RepliesFail,  \* whether the PUBLISH of a command's reply may fail
    NoEngine

\* No card is complete before the first call; house_cut_bps is checked by
\* compute_derash().
ASSUME BingoAssumption ==
    /\ IsFiniteSet(Seat)
    /\ Stake \in Nat /\ HouseCutBps \in 0 .. 10000
    /\ \A s \in Seat : WinAt[s[2]] \in Nat \ {0}
    /\ MaxCalls \in Nat /\ MaxRounds \in Nat
    /\ MaxAsks \in Nat /\ MaxFaults \in Nat
    /\ AutoChoice \subseteq BOOLEAN
    /\ NoEngine \notin Engine

VARIABLES
    rounds,   \* the rounds table of the room, in seq order
    posted,   \* idempotency keys of the ledger transactions of these rounds
    active,   \* rooms.is_active
    owner,    \* Redis key room:lock:{id}
    held,     \* RoomLock._held of each engine
    mem,      \* each engine's own fields
    main,     \* where run_forever() is, with its locals
    cmd,      \* the command _serve_commands() is in the middle of
    task,     \* where the settlement task is, with its locals
    rec,      \* the round recover_orphaned_rounds() has decided to refund
    faults,   \* what went wrong so far
    asks,     \* the players' commands so far
    torn      \* open rounds of which the engine missed a committed join or drop

vars == <<rounds, posted, active, owner, held, mem, main, cmd, task, rec, faults, asks,
          torn>>
db == <<rounds, posted>>
lock == <<owner, held>>
bounds == <<faults, asks, torn>>

User == {s[1] : s \in Seat}
Terminal == {"done", "voided"}
At(label) == [at |-> label]
Down == At("down")
NoCmd == At("none")
DeadCmd == At("dead")
NoTask == At("none")

\* The fields _reset_to_idle() clears.
IdleMem == [status |-> "idle", round |-> 0, pot |-> 0, entries |-> {}, auto |-> {},
            dropped |-> {}, lockedOut |-> {}, autoClaimed |-> {}, pending |-> {},
            calls |-> 0, settling |-> FALSE]

Init ==
    /\ rounds = << >>
    /\ posted = {}
    /\ active = TRUE
    /\ owner = NoEngine
    /\ held = [e \in Engine |-> FALSE]
    /\ mem = [e \in Engine |-> IdleMem]
    /\ main = [e \in Engine |-> Down]
    /\ cmd = [e \in Engine |-> NoCmd]
    /\ task = [e \in Engine |-> NoTask]
    /\ rec = 0
    /\ faults = 0
    /\ asks = 0
    /\ torn = {}

-----------------------------------------------------------------------------
(***************************************************************************)
(* The database.                                                           *)
(***************************************************************************)
SetRow(r, row) == rounds' = [rounds EXCEPT ![r] = row]

Live(r) == rounds[r].status \notin Terminal

Count(kind, r) == Cardinality({k \in posted : k[1] = kind /\ k[2] = r})

\* What user u has in user_cash.
Cash(u) ==
    LET mine(kind) == Cardinality({k \in posted : k[1] = kind /\ Len(k) = 3 /\ k[3][1] = u})
        won == MapThenSumSet(
                 LAMBDA r : rounds[r].share * Cardinality({s \in rounds[r].winners : s[1] = u}),
                 DOMAIN rounds)
    IN Funds[u] + Stake * (mine("drop") + mine("refund") - mine("stake")) + won

\* What pot_escrow still holds for round r.
Escrow(r) == Stake * (Count("stake", r) - Count("drop", r) - Count("refund", r)) - rounds[r].paid

Players(S) == Cardinality({s[1] : s \in S})

\* refund_round_in_transaction(): every entrant, once, unless already terminal.
Refund(r) ==
    IF Live(r)
    THEN /\ SetRow(r, [rounds[r] EXCEPT !.status = "voided"])
         /\ posted' = posted \union {<<"refund", r, s>> : s \in rounds[r].entries}
    ELSE UNCHANGED db

\* The row _start_new_round() inserts.
NewRow == [status |-> "lobby", pot |-> 0, entries |-> {}, calls |-> 0,
           winners |-> {}, share |-> 0, house |-> 0, paid |-> 0]

-----------------------------------------------------------------------------
(***************************************************************************)
(* Engine memory.                                                          *)
(***************************************************************************)
Up(e) == main[e] # Down

Goto(e, s) == main' = [main EXCEPT ![e] = s]

SetMem(e, m) == mem' = [mem EXCEPT ![e] = m]

ResetToIdle(e) == SetMem(e, IdleMem)

\* run_forever()'s finally block: the command task is cancelled and awaited,
\* then the lock released if still ours.  Awaiting a command task that died of
\* an exception raises it, and the release is skipped: the lock's refresh task
\* goes on.  A settlement task nobody awaits keeps running on the instance's
\* fields; otherwise the instance is garbage.
Exit(e) ==
    /\ Goto(e, Down)
    /\ cmd' = [cmd EXCEPT ![e] = NoCmd]
    /\ IF task[e] = NoTask THEN ResetToIdle(e) ELSE UNCHANGED mem
    /\ IF cmd[e] = DeadCmd
       THEN UNCHANGED lock
       ELSE /\ owner' = IF owner = e THEN NoEngine ELSE owner
            /\ held' = [held EXCEPT ![e] = FALSE]

Fault == faults < MaxFaults /\ faults' = faults + 1 /\ UNCHANGED <<asks, torn>>
Ask == asks < MaxAsks /\ asks' = asks + 1 /\ UNCHANGED <<faults, torn>>

\* _start_new_round(): insert the row, then overwrite every field.
StartNewRound(e) ==
    /\ Len(rounds) < MaxRounds
    /\ rounds' = Append(rounds, NewRow)
    /\ SetMem(e, [IdleMem EXCEPT !.status = "lobby", !.round = Len(rounds) + 1])

-----------------------------------------------------------------------------
(***************************************************************************)
(* The main loop.                                                          *)
(***************************************************************************)

\* run_active_rooms() saw the room active; acquire() wins the lock.
ClaimRoom(e) ==
    /\ main[e] = Down /\ ~ held[e]
    /\ task[e] \in {NoTask, At("failed")}
    /\ active
    /\ owner = NoEngine
    /\ owner' = e
    /\ held' = [held EXCEPT ![e] = TRUE]
    /\ ResetToIdle(e)
    /\ task' = [task EXCEPT ![e] = NoTask]
    /\ Goto(e, At("start"))
    /\ UNCHANGED <<db, active, cmd, rec, bounds>>

\* The top of the loop: leave, rest between rounds, or run the lobby.
Loop(e) ==
    /\ main[e] = At("loop")
    /\ held[e]
    /\ Goto(e, IF mem[e].status = "idle" THEN At("rest") ELSE At("lobby"))
    /\ UNCHANGED <<db, active, lock, mem, cmd, task, rec, bounds>>

LoopEnds(e) ==
    /\ main[e] = At("loop")
    /\ ~ held[e]
    /\ Exit(e)
    /\ UNCHANGED <<db, active, task, rec, bounds>>

\* _wait_before_next_round() is over: the lock and rooms.is_active are read.
RestOver(e) ==
    /\ main[e] = At("rest")
    /\ IF held[e] /\ active
       THEN Goto(e, At("start")) /\ UNCHANGED <<lock, cmd, mem>>
       ELSE Exit(e)
    /\ UNCHANGED <<db, active, task, rec, bounds>>

\* The step from an idle engine to a lobby, under _round_start_lock.  The
\* rest between rounds, of seconds, outlasts whatever command an engine whose
\* round is over still has in hand, committed or not.
Start(e) ==
    /\ main[e] = At("start")
    /\ mem[e].status = "idle" => cmd[e] \in {NoCmd, DeadCmd}
    /\ IF mem[e].status = "idle" THEN StartNewRound(e) ELSE UNCHANGED <<rounds, mem>>
    /\ Goto(e, At("lobby"))
    /\ UNCHANGED <<posted, active, lock, cmd, task, rec, bounds>>

Underfilled(e) == Players(mem[e].entries) \in 1 .. MinPlayers - 1

\* The lobby countdown is over: the branch is taken on the engine's memory.  A
\* lobby outlasts an earlier round's settlement task.
LobbyOver(e) ==
    /\ main[e] = At("lobby")
    /\ held[e]
    /\ task[e] = NoTask
    /\ mem[e].round # 0
    /\ Goto(e, [at |-> IF Underfilled(e) THEN "voiding" ELSE "starting", round |-> mem[e].round])
    /\ UNCHANGED <<db, active, lock, mem, cmd, task, rec, bounds>>

\* The lock is gone: _run_lobby() returns and the loop ends.
LobbyLost(e) ==
    /\ main[e] = At("lobby")
    /\ ~ held[e]
    /\ Exit(e)
    /\ UNCHANGED <<db, active, task, rec, bounds>>

Calling(e) ==
    /\ main[e] = At("calling")
    /\ mem[e].status = "running" /\ held[e]
    /\ mem[e].calls < MaxCalls

\* `assert round_id is not None` fails, after an abandoned settlement task
\* has reset the fields of a later round: the engine task dies.
AssertionFails(e) ==
    /\ mem[e].round = 0
    /\ (main[e] = At("lobby") /\ held[e]) \/ Calling(e)
    /\ Exit(e)
    /\ UNCHANGED <<db, active, task, rec, bounds>>

\* Faulty variant: UPDATE rounds SET status = 'running' without the guard.
TransitionUnguarded(e) ==
    /\ main[e].at = "starting"
    /\ SetRow(main[e].round, [rounds[main[e].round] EXCEPT !.status = "running"])
    /\ SetMem(e, [mem[e] EXCEPT !.status = "running"])
    /\ Goto(e, At("calling"))
    /\ UNCHANGED <<posted, active, lock, cmd, task, rec, bounds>>

\* Faulty variant: the engine keeps a lobby that was voided by someone else.
TransitionKeepsLobby(e) ==
    /\ main[e].at = "starting"
    /\ LET r == main[e].round
       IN IF rounds[r].status = "lobby"
          THEN /\ SetRow(r, [rounds[r] EXCEPT !.status = "running"])
               /\ SetMem(e, [mem[e] EXCEPT !.status = "running"])
               /\ Goto(e, At("calling"))
          ELSE Goto(e, At("loop")) /\ UNCHANGED <<rounds, mem>>
    /\ UNCHANGED <<posted, active, lock, cmd, task, rec, bounds>>

\* _transition_to_running(): the guarded UPDATE finds the round in lobby, or
\* voided by someone else.
TransitionToRunning(e) ==
    /\ main[e].at = "starting"
    /\ LET r == main[e].round
       IN IF rounds[r].status = "lobby"
          THEN /\ SetRow(r, [rounds[r] EXCEPT !.status = "running"])
               /\ SetMem(e, [mem[e] EXCEPT !.status = "running"])
               /\ Goto(e, At("calling"))
          ELSE /\ ResetToIdle(e)
               /\ Goto(e, At("loop"))
               /\ UNCHANGED rounds
    /\ UNCHANGED <<posted, active, lock, cmd, task, rec, bounds>>

\* refund_round() of an underfilled lobby, or of a round every number of which
\* was called with no winner ...
RefundAll(e) ==
    /\ main[e].at \in {"voiding", "refunding"}
    /\ Refund(main[e].round)
    /\ Goto(e, At("voided"))
    /\ UNCHANGED <<active, lock, mem, cmd, task, rec, bounds>>

\* ... and, after the awaits that tell the players, the reset.
Voided(e) ==
    /\ main[e] = At("voided")
    /\ ResetToIdle(e)
    /\ task' = [task EXCEPT ![e] = IF @ = At("failed") THEN NoTask ELSE @]
    /\ Goto(e, At("loop"))
    /\ UNCHANGED <<db, active, lock, cmd, rec, bounds>>

\* _call_next_number(): the number is drawn in memory.  The call interval
\* outlasts the memory update of a join or drop committed before the start.
CallNumber(e) ==
    /\ Calling(e)
    /\ mem[e].round # 0
    /\ cmd[e].at \notin {"joined", "dropped"}
    /\ SetMem(e, [mem[e] EXCEPT !.calls = @ + 1])
    /\ Goto(e, [at |-> "writing", round |-> mem[e].round, call |-> mem[e].calls + 1])
    /\ UNCHANGED <<db, active, lock, cmd, task, rec, bounds>>

\* The seats the auto-mark scan of this call will claim.
AutoWinners(e) ==
    {s \in mem[e].entries \intersect mem[e].auto :
        WinAt[s[2]] <= mem[e].calls /\ s \notin mem[e].autoClaimed \union mem[e].lockedOut}

\* What _run_running() does once the round was stopped by somebody else.
Stopped(e) ==
    IF mem[e].settling
    THEN Goto(e, At("await")) /\ SetMem(e, [mem[e] EXCEPT !.settling = FALSE])
    ELSE Goto(e, At("loop")) /\ ResetToIdle(e)

\* The guarded UPDATE of call_index, and its miss when somebody ended the round.
WriteCall(e) ==
    /\ main[e].at = "writing"
    /\ LET r == main[e].round
       IN IF rounds[r].status = "running"
          THEN /\ SetRow(r, [rounds[r] EXCEPT !.calls = main[e].call])
               /\ Goto(e, [at |-> "scan", todo |-> AutoWinners(e)])
               /\ UNCHANGED mem
          ELSE /\ Stopped(e)
               /\ UNCHANGED rounds
    /\ UNCHANGED <<posted, active, lock, cmd, task, rec, bounds>>

\* claim()'s section under _winner_lock: the first valid claim opens the tie
\* window, later ones join it while it is open.
Register(e, s) ==
    IF s \in mem[e].pending
    THEN UNCHANGED <<mem, task>>
    ELSE \/ /\ mem[e].status = "running"
            /\ SetMem(e, [mem[e] EXCEPT !.status = "settling", !.settling = TRUE,
                                        !.pending = @ \union {s}])
            /\ task' = [task EXCEPT ![e] = At("window")]
         \/ /\ mem[e].status = "settling" /\ task[e].at = "window"
            /\ SetMem(e, [mem[e] EXCEPT !.pending = @ \union {s}])
            /\ UNCHANGED task
         \/ /\ mem[e].status # "running"
            /\ UNCHANGED <<mem, task>>

\* One auto-claim of the scan: marked first, then claim() with its awaited
\* audit write ...
AutoClaim(e) ==
    /\ main[e].at = "scan"
    /\ \E s \in main[e].todo :
         /\ SetMem(e, [mem[e] EXCEPT !.autoClaimed = @ \union {s}])
         /\ Goto(e, [at |-> "claim", seat |-> s, todo |-> main[e].todo \ {s}])
    /\ UNCHANGED <<db, active, lock, cmd, task, rec, bounds>>

ScanOn(e) == Goto(e, [at |-> "scan", todo |-> main[e].todo])

AutoRegister(e) ==
    /\ main[e].at = "claim"
    /\ Register(e, main[e].seat)
    /\ ScanOn(e)
    /\ UNCHANGED <<db, active, lock, cmd, rec, bounds>>

\* ... which may fail, and un-marks the seat.
AutoClaimFails(e) ==
    /\ main[e].at = "claim"
    /\ Fault
    /\ SetMem(e, [mem[e] EXCEPT !.autoClaimed = @ \ {main[e].seat}])
    /\ ScanOn(e)
    /\ UNCHANGED <<db, active, lock, cmd, task, rec>>

ScanOver(e) ==
    /\ main[e] = [at |-> "scan", todo |-> {}]
    /\ Goto(e, At("calling"))
    /\ UNCHANGED <<db, active, lock, mem, cmd, task, rec, bounds>>

\* The call loop ends: a winner, the lock lost, or every number called.
CallsOver(e) ==
    /\ main[e] = At("calling")
    /\ mem[e].status # "running" \/ ~ held[e] \/ mem[e].calls >= MaxCalls
    /\ SetMem(e, [mem[e] EXCEPT !.settling = FALSE])
    /\ Goto(e, IF mem[e].settling THEN At("await")
               ELSE IF mem[e].status = "running" /\ mem[e].calls >= MaxCalls
               THEN [at |-> "refunding", round |-> mem[e].round]
               ELSE At("loop"))
    /\ UNCHANGED <<db, active, lock, cmd, task, rec, bounds>>

\* `await task` returns, or raises what the settlement task raised.
SettlementAwaited(e) ==
    /\ main[e] = At("await")
    /\ \/ /\ task[e] = NoTask
          /\ Goto(e, At("loop"))
          /\ UNCHANGED <<lock, mem, cmd, task>>
       \/ /\ task[e] = At("failed")
          /\ Exit(e)
          /\ task' = [task EXCEPT ![e] = NoTask]
    /\ UNCHANGED <<db, active, rec, bounds>>

-----------------------------------------------------------------------------
(***************************************************************************)
(* The settlement task.                                                    *)
(***************************************************************************)

\* An exception ends the task; only an awaiting main loop learns of it.
Raised(e) == IF mem[e].settling \/ main[e] = At("await") THEN At("failed") ELSE NoTask

\* _finalize_after_window(): the winners are taken out of memory.  With no
\* round or no winner left _settle_with_winners() raises.
WindowCloses(e) ==
    /\ task[e].at = "window"
    /\ LET m == mem[e]
       IN task' = [task EXCEPT ![e] =
              IF m.round = 0 \/ m.pending = {} THEN Raised(e)
              ELSE [at |-> "pay", round |-> m.round, pot |-> m.pot, winners |-> m.pending]]
    /\ SetMem(e, [mem[e] EXCEPT !.pending = {}])
    /\ UNCHANGED <<db, active, lock, main, cmd, rec, bounds>>

\* The payout of a settled round, in one ledger transaction.
Payout(t) ==
    LET n == Cardinality(t.winners)
    IN /\ SetRow(t.round, [rounds[t.round] EXCEPT
                            !.status = "done", !.winners = t.winners, !.paid = t.pot,
                            !.share = Share(Derash(t.pot, HouseCutBps), n),
                            !.house = HouseTotal(t.pot, HouseCutBps, n)])
       /\ posted' = posted \union {<<"settle", t.round>>}

\* Faulty variant: the round is not read again before it is paid.
SettleUnchecked(e) ==
    /\ task[e].at = "pay"
    /\ Payout(task[e])
    /\ task' = [task EXCEPT ![e] = At("paid")]
    /\ UNCHANGED <<mem, active, lock, main, cmd, rec, bounds>>

\* _settle_with_winners(): pay, unless the locked row is already terminal.
Settle(e) ==
    /\ task[e].at = "pay"
    /\ IF Live(task[e].round)
       THEN /\ Payout(task[e])
            /\ task' = [task EXCEPT ![e] = At("paid")]
            /\ UNCHANGED mem
       ELSE /\ ResetToIdle(e)
            /\ task' = [task EXCEPT ![e] = NoTask]
            /\ UNCHANGED db
    /\ UNCHANGED <<active, lock, main, cmd, rec, bounds>>

\* A database or Redis error: the transaction, if still open, rolls back.
SettleFails(e) ==
    /\ task[e].at \in {"pay", "paid"}
    /\ Fault
    /\ task' = [task EXCEPT ![e] = Raised(e)]
    /\ UNCHANGED <<db, active, lock, mem, main, cmd, rec>>

\* round_end is published and the status set, whatever round is in memory now.
ShowResult(e) ==
    /\ task[e].at = "paid"
    /\ SetMem(e, [mem[e] EXCEPT !.status = "done"])
    /\ task' = [task EXCEPT ![e] = At("result")]
    /\ UNCHANGED <<db, active, lock, main, cmd, rec, bounds>>

ResultOver(e) ==
    /\ task[e].at = "result"
    /\ ResetToIdle(e)
    /\ task' = [task EXCEPT ![e] = NoTask]
    /\ UNCHANGED <<db, active, lock, main, cmd, rec, bounds>>

-----------------------------------------------------------------------------
(***************************************************************************)
(* The command server: one command at a time.  A refused command changes   *)
(* nothing and is left out.                                                *)
(***************************************************************************)
Serving(e) == Up(e) /\ cmd[e] = NoCmd
HalfDone(e) == cmd[e].at \in {"joined", "dropped"}

\* join() on an idle engine starts a round itself.
JoinStartsRound(e) ==
    /\ Serving(e)
    /\ Ask
    /\ mem[e].status = "idle"
    /\ StartNewRound(e)
    /\ UNCHANGED <<posted, active, lock, main, cmd, task, rec>>

\* join(): the checks on the engine's memory ...
Join(e) ==
    /\ Serving(e)
    /\ Ask
    /\ mem[e].status = "lobby"
    /\ \E s \in Seat \ mem[e].dropped, auto \in AutoChoice :
         LET cards == {t \in mem[e].entries : t[1] = s[1]}
         IN /\ cards = {} => Players(mem[e].entries) < MaxPlayers
            /\ Cardinality(cards) < MaxCards
            /\ cmd' = [cmd EXCEPT ![e] =
                  [at |-> "join", round |-> mem[e].round, seat |-> s, auto |-> auto]]
    /\ UNCHANGED <<db, active, lock, mem, main, task, rec>>

\* ... the transaction: a lobby still, a free card, and the money ...
JoinTxn(e) ==
    /\ cmd[e].at = "join"
    /\ LET r == cmd[e].round
           s == cmd[e].seat
       IN IF /\ rounds[r].status = "lobby"
             /\ \A t \in rounds[r].entries : t[2] # s[2]
             /\ <<"stake", r, s>> \in posted \/ Cash(s[1]) >= Stake
          THEN /\ SetRow(r, [rounds[r] EXCEPT !.entries = @ \union {s}, !.pot = @ + Stake])
               /\ posted' = posted \union {<<"stake", r, s>>}
               /\ cmd' = [cmd EXCEPT ![e].at = "joined"]
          ELSE /\ cmd' = [cmd EXCEPT ![e] = NoCmd]
               /\ UNCHANGED db
    /\ UNCHANGED <<active, lock, mem, main, task, rec, bounds>>

\* ... and the memory of whatever round the engine is in by now.
JoinRemember(e) ==
    /\ cmd[e].at = "joined"
    /\ LET s == cmd[e].seat
       IN SetMem(e, [mem[e] EXCEPT !.entries = @ \union {s}, !.pot = @ + Stake,
                                   !.auto = IF cmd[e].auto THEN @ \union {s} ELSE @ \ {s}])
    /\ cmd' = [cmd EXCEPT ![e] = NoCmd]
    /\ UNCHANGED <<db, active, lock, main, task, rec, bounds>>

\* drop_card(): the same three steps.
Drop(e) ==
    /\ Serving(e)
    /\ Ask
    /\ mem[e].status = "lobby"
    /\ \E s \in mem[e].entries :
         cmd' = [cmd EXCEPT ![e] = [at |-> "drop", round |-> mem[e].round, seat |-> s]]
    /\ UNCHANGED <<db, active, lock, mem, main, task, rec>>

DropTxn(e) ==
    /\ cmd[e].at = "drop"
    /\ LET r == cmd[e].round
           s == cmd[e].seat
       IN IF rounds[r].status = "lobby" /\ s \in rounds[r].entries
          THEN /\ SetRow(r, [rounds[r] EXCEPT !.entries = @ \ {s}, !.pot = @ - Stake])
               /\ posted' = posted \union {<<"drop", r, s>>}
               /\ cmd' = [cmd EXCEPT ![e].at = "dropped"]
          ELSE /\ cmd' = [cmd EXCEPT ![e] = NoCmd]
               /\ UNCHANGED db
    /\ UNCHANGED <<active, lock, mem, main, task, rec, bounds>>

\* Faulty variant: the dropped card may be taken again.
DropForgets(e) ==
    /\ cmd[e].at = "dropped"
    /\ LET s == cmd[e].seat
       IN IF s \in mem[e].entries
          THEN SetMem(e, [mem[e] EXCEPT !.entries = @ \ {s}, !.pot = @ - Stake])
          ELSE UNCHANGED mem
    /\ cmd' = [cmd EXCEPT ![e] = NoCmd]
    /\ UNCHANGED <<db, active, lock, main, task, rec, bounds>>

\* A KeyError if a reset has emptied _entries: the command fails.
DropRemember(e) ==
    /\ cmd[e].at = "dropped"
    /\ LET s == cmd[e].seat
       IN IF s \in mem[e].entries
          THEN SetMem(e, [mem[e] EXCEPT !.entries = @ \ {s}, !.pot = @ - Stake,
                                        !.dropped = @ \union {s}])
          ELSE UNCHANGED mem
    /\ cmd' = [cmd EXCEPT ![e] = NoCmd]
    /\ UNCHANGED <<db, active, lock, main, task, rec, bounds>>

\* set_auto(): every card the user holds.
SetAuto(e) ==
    /\ Serving(e)
    /\ Ask
    /\ \E u \in User, on \in AutoChoice :
         LET cards == {s \in mem[e].entries : s[1] = u}
         IN /\ cards # {}
            /\ SetMem(e, [mem[e] EXCEPT !.auto = IF on THEN @ \union cards ELSE @ \ cards])
    /\ UNCHANGED <<db, active, lock, main, cmd, task, rec>>

Claimable(e) ==
    IF mem[e].status \in {"running", "settling"} THEN mem[e].entries \ mem[e].lockedOut ELSE {}

\* Faulty variant: any entrant's claim goes through.
ClaimUnchecked(e) ==
    /\ Serving(e)
    /\ Ask
    /\ \E s \in Claimable(e) : cmd' = [cmd EXCEPT ![e] = [at |-> "claim", seat |-> s]]
    /\ UNCHANGED <<db, active, lock, mem, main, task, rec>>

\* claim(): a winning card goes on to the audit write and the registration; a
\* card without a single line is locked out of a running round.
Claim(e) ==
    /\ Serving(e)
    /\ Ask
    /\ \E s \in Claimable(e) :
         \/ /\ WinAt[s[2]] <= mem[e].calls
            /\ cmd' = [cmd EXCEPT ![e] = [at |-> "claim", seat |-> s]]
            /\ UNCHANGED mem
         \/ /\ LineAt[s[2]] > mem[e].calls
            /\ mem[e].status = "running"
            /\ SetMem(e, [mem[e] EXCEPT !.lockedOut = @ \union {s}])
            /\ UNCHANGED cmd
    /\ UNCHANGED <<db, active, lock, main, task, rec>>

ClaimRegister(e) ==
    /\ cmd[e].at = "claim"
    /\ Register(e, cmd[e].seat)
    /\ cmd' = [cmd EXCEPT ![e] = NoCmd]
    /\ UNCHANGED <<db, active, lock, main, rec, bounds>>

\* _handle_command() catches what a command raises.  Where that is between a
\* COMMIT that took effect (its answer lost, or the connection's release) and
\* the memory update, the engine never learns of the join or drop.
CommandFails(e) ==
    /\ cmd[e].at \in {"join", "joined", "drop", "dropped", "claim"}
    /\ faults < MaxFaults /\ faults' = faults + 1
    /\ cmd' = [cmd EXCEPT ![e] = NoCmd]
    /\ torn' = IF HalfDone(e) /\ mem[e].round = cmd[e].round /\ Live(cmd[e].round)
               THEN torn \union {cmd[e].round} ELSE torn
    /\ UNCHANGED <<db, active, lock, mem, main, task, rec, asks>>

\* The reply, a refused command's too, is published outside that try: a Redis
\* error there ends the command task for as long as the engine lives.
ReplyFails(e) ==
    /\ RepliesFail
    /\ Serving(e)
    /\ cmd' = [cmd EXCEPT ![e] = DeadCmd]
    /\ UNCHANGED <<db, active, lock, mem, main, task, rec, bounds>>

-----------------------------------------------------------------------------
(***************************************************************************)
(* Locks, failures, recovery and the admin console.                        *)
(***************************************************************************)

\* The key expires under an engine that was too slow to refresh it ...
LockExpires(e) ==
    /\ owner = e /\ held[e]
    /\ Fault
    /\ owner' = NoEngine
    /\ UNCHANGED <<db, active, held, mem, main, cmd, task, rec>>

\* ... whose next refresh finds out.
LockLost(e) ==
    /\ held[e] /\ owner # e
    /\ held' = [held EXCEPT ![e] = FALSE]
    /\ UNCHANGED <<db, active, owner, mem, main, cmd, task, rec, bounds>>

\* The key of an engine that is gone expires.
KeyExpires(e) ==
    /\ owner = e /\ ~ held[e]
    /\ owner' = NoEngine
    /\ UNCHANGED <<db, active, held, mem, main, cmd, task, rec, bounds>>

\* The process dies: nothing is released.
Crash(e) ==
    /\ Up(e) \/ held[e]
    /\ Fault
    /\ Goto(e, Down)
    /\ ResetToIdle(e)
    /\ held' = [held EXCEPT ![e] = FALSE]
    /\ cmd' = [cmd EXCEPT ![e] = NoCmd]
    /\ task' = [task EXCEPT ![e] = NoTask]
    /\ UNCHANGED <<db, active, owner, rec>>

\* A database or Redis call of the main loop raises.
EngineFails(e) ==
    /\ main[e].at \in {"start", "rest", "lobby", "starting", "voiding", "voided", "calling",
                       "writing", "refunding"}
    /\ Fault
    /\ Exit(e)
    /\ UNCHANGED <<db, active, task, rec>>

\* shutdown(): _stop_requested is seen between rounds and in a lobby.  With its
\* command task dead the engine leaves as in a crash.
Shutdown(e) ==
    /\ main[e].at \in {"loop", "rest", "lobby"}
    /\ cmd[e] # DeadCmd
    /\ Fault
    /\ Exit(e)
    /\ UNCHANGED <<db, active, task, rec>>

\* Faulty variant: only a free lock makes a round an orphan.
OrphanedByLock(r) == owner = NoEngine

\* An older round, or the latest one with no engine owning the room.
Orphaned(r) == r < Len(rounds) \/ owner = NoEngine

\* recover_orphaned_rounds(), on every poll of every worker: the check ...
RecoverCheck ==
    /\ rec = 0
    /\ \E r \in DOMAIN rounds : Live(r) /\ Orphaned(r) /\ rec' = r
    /\ UNCHANGED <<db, active, lock, mem, main, cmd, task, bounds>>

\* ... and the refund, by which time the round may have moved on.
RecoverRefund ==
    /\ rec # 0
    /\ Refund(rec)
    /\ rec' = 0
    /\ UNCHANGED <<active, lock, mem, main, cmd, task, bounds>>

\* void_round_admin(): any round.
VoidRound ==
    /\ Fault
    /\ \E r \in DOMAIN rounds : Live(r) /\ Refund(r)
    /\ UNCHANGED <<active, lock, mem, main, cmd, task, rec>>

\* stop_room_admin(): the latest round, and the room closed.
StopRoom ==
    /\ active
    /\ Fault
    /\ active' = FALSE
    /\ IF rounds = << >> THEN UNCHANGED db ELSE Refund(Len(rounds))
    /\ UNCHANGED <<lock, mem, main, cmd, task, rec>>

-----------------------------------------------------------------------------
MainStep(e) ==
    \/ Loop(e) \/ LoopEnds(e) \/ RestOver(e) \/ Start(e) \/ LobbyOver(e) \/ LobbyLost(e)
    \/ AssertionFails(e) \/ TransitionToRunning(e) \/ RefundAll(e) \/ Voided(e)
    \/ CallNumber(e) \/ WriteCall(e) \/ AutoClaim(e) \/ AutoRegister(e) \/ ScanOver(e)
    \/ CallsOver(e) \/ SettlementAwaited(e)

TaskStep(e) == WindowCloses(e) \/ Settle(e) \/ ShowResult(e) \/ ResultOver(e)

\* The rest of a command already begun.
CommandStep(e) ==
    JoinTxn(e) \/ JoinRemember(e) \/ DropTxn(e) \/ DropRemember(e) \/ ClaimRegister(e)

PlayerAsks(e) == JoinStartsRound(e) \/ Join(e) \/ Drop(e) \/ SetAuto(e) \/ Claim(e)

LockStep(e) == LockLost(e) \/ KeyExpires(e)

EngineFault(e) ==
    \/ AutoClaimFails(e) \/ SettleFails(e) \/ CommandFails(e) \/ ReplyFails(e) \/ LockExpires(e)
    \/ Crash(e) \/ EngineFails(e) \/ Shutdown(e)

Recover == RecoverCheck \/ RecoverRefund

Next ==
    \/ \E e \in Engine : \/ ClaimRoom(e) \/ MainStep(e) \/ TaskStep(e) \/ CommandStep(e)
                         \/ PlayerAsks(e) \/ LockStep(e) \/ EngineFault(e)
    \/ Recover \/ VoidRound \/ StopRoom

Spec == Init /\ [][Next]_vars

\* The event loop runs every ready task, timers fire, Redis expires keys and
\* every worker polls.  Nothing is asked of players, faults or admins.
Fairness ==
    /\ \A e \in Engine : /\ WF_vars(MainStep(e)) /\ WF_vars(TaskStep(e))
                         /\ WF_vars(CommandStep(e)) /\ WF_vars(LockStep(e))
    /\ WF_vars(\E e \in Engine : ClaimRoom(e))
    /\ WF_vars(Recover)

FairSpec == Spec /\ Fairness

-----------------------------------------------------------------------------
(***************************************************************************)
(* Properties.                                                             *)
(***************************************************************************)

Row == [status : {"lobby", "running", "done", "voided"}, pot : Int, entries : SUBSET Seat,
        calls : 0 .. MaxCalls, winners : SUBSET Seat, share : Int, house : Int, paid : Int]

Memory == [status : {"idle", "lobby", "running", "settling", "done"}, round : Nat, pot : Int,
           entries : SUBSET Seat, auto : SUBSET Seat, dropped : SUBSET Seat,
           lockedOut : SUBSET Seat, autoClaimed : SUBSET Seat, pending : SUBSET Seat,
           calls : 0 .. MaxCalls, settling : BOOLEAN]

MainState ==
    [at : {"down", "start", "loop", "rest", "lobby", "calling", "await", "voided"}]
    \union [at : {"voiding", "starting", "refunding"}, round : Nat \ {0}]
    \union [at : {"writing"}, round : Nat \ {0}, call : 1 .. MaxCalls]
    \union [at : {"scan"}, todo : SUBSET Seat]
    \union [at : {"claim"}, seat : Seat, todo : SUBSET Seat]

CmdState ==
    [at : {"none", "dead"}]
    \union [at : {"join", "joined"}, round : Nat \ {0}, seat : Seat, auto : BOOLEAN]
    \union [at : {"drop", "dropped"}, round : Nat \ {0}, seat : Seat]
    \union [at : {"claim"}, seat : Seat]

TaskState ==
    [at : {"none", "failed", "window", "paid", "result"}]
    \union [at : {"pay"}, round : Nat \ {0}, pot : Int, winners : SUBSET Seat]

Key == ({"stake", "drop", "refund"} \X (Nat \ {0}) \X Seat) \union ({"settle"} \X (Nat \ {0}))

\* The shape of the state: rows, keys, and what each engine is doing.
TypeOK ==
    /\ rounds \in Seq(Row)
    /\ posted \subseteq Key
    /\ active \in BOOLEAN
    /\ owner \in Engine \union {NoEngine}
    /\ held \in [Engine -> BOOLEAN]
    /\ mem \in [Engine -> Memory]
    /\ main \in [Engine -> MainState]
    /\ cmd \in [Engine -> CmdState]
    /\ task \in [Engine -> TaskState]
    /\ rec \in Nat

\* A stake comes back at most once: never by a drop and a refund, and never
\* from a round that was also paid out.  Settlement, void, stop, recovery and
\* drop all race for the same stake under different idempotency keys.  (A card
\* whose drop the engine missed can be taken again under its old key, for free.)
StakeReturnedOnce ==
    \A r \in DOMAIN rounds :
      /\ r \notin torn =>
           \A s \in Seat : ~ ({<<"drop", r, s>>, <<"refund", r, s>>} \subseteq posted)
      /\ <<"settle", r>> \in posted => Count("refund", r) = 0

\* Between two commands, the entries and the pot in the memory of an engine
\* are those of its round's row as long as that round is open and not torn.
MemoryCurrent ==
    \A e \in Engine :
      (~ HalfDone(e) /\ mem[e].round \notin torn \union {0} /\ Up(e)) =>
        LET row == rounds[mem[e].round]
        IN Live(mem[e].round) => mem[e].entries = row.entries /\ mem[e].pot = row.pot

\* pot_escrow holds exactly the stakes of the entrants of a round still open,
\* and nothing of a round that is over: settlement pays the pot the engine
\* remembers, refunds give back what the table says, and both must agree.
EscrowMatchesEntries ==
    /\ \A r \in DOMAIN rounds \ torn :
         IF Live(r) THEN /\ Escrow(r) = Stake * Cardinality(rounds[r].entries)
                         /\ rounds[r].pot = Escrow(r)
                    ELSE Escrow(r) = 0
    /\ MemoryCurrent

\* Every stake is in escrow, with the winners and the house, or back with its
\* player, in one place at a time, whoever ends the round and however often,
\* except in a round torn by a command that failed after its commit: nothing
\* reconciles that, and such a round pays the pot its engine remembers.
StakesAccounted == StakeReturnedOnce /\ EscrowMatchesEntries

\* Every paid card was in the round, unless it is torn, and complete by a number
\* drawn in it (the row's call_index may be one call behind the engine).
WinnersGenuine ==
    \A r \in DOMAIN rounds :
      /\ r \notin torn => rounds[r].winners \subseteq rounds[r].entries
      /\ \A s \in rounds[r].winners : WinAt[s[2]] <= rounds[r].calls + 1

\* The winners of a settled round got the largest equal whole-cent share that
\* the house cut leaves, and the house the rest, cents that do not divide
\* included (compute_derash, split_derash, _settle_with_winners).
PotPaidFairly ==
    \A r \in DOMAIN rounds :
      rounds[r].status = "done" =>
        LET n == Cardinality(rounds[r].winners)
        IN /\ IsFairShare(rounds[r].share, rounds[r].paid, HouseCutBps, n)
           /\ IsFullyPaid(rounds[r].share, rounds[r].house, rounds[r].paid, HouseCutBps, n)

\* A round that is over stays as it ended: nothing re-opens it, adds an entry
\* to it, calls another number in it or pays from it.
TerminalFinal ==
    [][\A r \in DOMAIN rounds : ~ Live(r) => rounds'[r] = rounds[r]]_vars

\* An engine that ended with its command task dead leaves its lock to a refresh
\* task that goes on: no worker gets the room before that process dies.
LockKept == \E e \in Engine : main[e] = Down /\ held[e] /\ owner = e

\* Every round ends, paid or refunded, whatever fails meanwhile, unless the
\* room's lock is kept by an engine that has ended: no worker picks the round up
\* then (against worker.py:104-110), and only the console or the end of that
\* process can end it.  (The last round of the bound has no successor to tell
\* recovery it was abandoned.)
EveryRoundEnds ==
    \A r \in 1 .. MaxRounds - 1 :
      (r \in DOMAIN rounds /\ Live(r)) ~> (r \in DOMAIN rounds /\ (~ Live(r) \/ LockKept))

\* An engine whose round was ended by someone else notices and moves on.
EngineMovesOn ==
    \A e \in Engine, r \in 1 .. MaxRounds :
      (Up(e) /\ mem[e].round = r /\ ~ Live(r)) ~> (~ Up(e) \/ mem[e].round # r)

-----------------------------------------------------------------------------
(***************************************************************************)
(* What makes them inductive.                                              *)
(***************************************************************************)
Playing(e) == mem[e].status \in {"running", "settling"}
OnRound(e) == main[e].at \in {"voiding", "starting", "refunding", "writing"}
SeatCmd(e) == cmd[e].at \in {"join", "joined", "drop", "dropped"}

\* The rounds engine e knows of, in any of its tasks.
Refers(e, r) ==
    \/ mem[e].round = r
    \/ SeatCmd(e) /\ cmd[e].round = r
    \/ OnRound(e) /\ main[e].round = r
    \/ task[e].at = "pay" /\ task[e].round = r

\* The rounds named exist, and no round is known to two engines.
RoundsOwned ==
    /\ \A k \in posted : k[2] \in DOMAIN rounds
    /\ rec \in 0 .. Len(rounds)
    /\ \A e \in Engine : /\ mem[e].round \in 0 .. Len(rounds)
                         /\ SeatCmd(e) => cmd[e].round \in DOMAIN rounds
                         /\ OnRound(e) => main[e].round \in DOMAIN rounds
                         /\ task[e].at = "pay" => task[e].round \in DOMAIN rounds
    /\ \A e, f \in Engine, r \in DOMAIN rounds : Refers(e, r) /\ Refers(f, r) => e = f

\* The row of round r against the ledger: who is in has staked and not
\* dropped, a voided round has refunded exactly these, and a settled one has
\* paid out its pot to some of these.
Books(r) ==
    LET row == rounds[r]
    IN /\ row.entries = {s \in Seat : <<"stake", r, s>> \in posted /\ <<"drop", r, s>> \notin posted}
       /\ \A s \in Seat : <<"drop", r, s>> \in posted => <<"stake", r, s>> \in posted
       /\ \A s \in Seat : <<"refund", r, s>> \in posted <=> row.status = "voided" /\ s \in row.entries
       /\ row.pot = Stake * Cardinality(row.entries)
       /\ row.paid = IF row.status = "done" THEN row.pot ELSE 0
       /\ row.winners \subseteq row.entries

\* What the ledger says of the status, torn or not.
Ended(r) ==
    /\ <<"settle", r>> \in posted <=> rounds[r].status = "done"
    /\ \A s \in Seat : <<"refund", r, s>> \in posted => rounds[r].status = "voided"
    /\ rounds[r].status = "lobby" => rounds[r].calls = 0

\* A settled row says who won what.
Settled(r) ==
    LET row == rounds[r]
    IN /\ \A s \in row.winners : WinAt[s[2]] <= row.calls + 1
       /\ row.status # "done" => row.winners = {}
       /\ row.status = "done" =>
            /\ row.winners # {} /\ row.paid \in Nat
            /\ row.share = Share(Derash(row.paid, HouseCutBps), Cardinality(row.winners))
            /\ row.house = HouseTotal(row.paid, HouseCutBps, Cardinality(row.winners))

InOrder(r) == Ended(r) /\ Settled(r) /\ (r \notin torn => Books(r))

\* Where an engine is against what it remembers.
Phases(e) ==
    LET m == mem[e]
    IN /\ m.status = "idle" => m.round = 0
       /\ m.status \in {"lobby", "running", "settling"} => m.round # 0
       /\ m.status = "lobby" => m.calls = 0 /\ m.pending = {} /\ ~ m.settling
       /\ m.status = "done" => task[e].at = "result"
       /\ m.pending # {} => m.status = "settling" /\ task[e].at = "window"
       /\ m.status = "settling" => m.settling \/ main[e].at \in {"await", "down"}
       /\ m.settling => m.status \in {"settling", "done"} /\ task[e].at # "none"
       /\ main[e].at = "await" => m.status # "running" /\ ~ m.settling
       /\ Playing(e) => main[e].at \notin {"rest", "start", "lobby", "starting", "voiding"}
       /\ Playing(e) /\ main[e].at = "loop" => ~ held[e]
       /\ Playing(e) /\ main[e].at = "await" => task[e].at # "none"
       /\ Playing(e) => rounds[m.round].status # "lobby"
       /\ main[e].at = "starting" =>
            m.status = "lobby" /\ m.round = main[e].round /\ task[e].at = "none"
       /\ main[e].at = "down" => cmd[e].at = "none"

\* The entries, the pot and the dropped cards an engine remembers, given the
\* command it is in the middle of, of a round that is not torn.
Remembers(e) ==
    LET m == mem[e]
        row == rounds[m.round]
    IN m.round \notin torn \union {0} /\ Live(m.round) /\ (Up(e) \/ m.pending # {}) =>
         /\ ~ HalfDone(e) => m.entries = row.entries /\ m.pot = row.pot
         /\ cmd[e].at = "joined" => /\ row.entries = m.entries \union {cmd[e].seat}
                                    /\ row.pot = m.pot + Stake
         /\ cmd[e].at = "dropped" => /\ m.entries = row.entries \union {cmd[e].seat}
                                     /\ cmd[e].seat \notin row.entries
                                     /\ m.pot = row.pot + Stake
         /\ \A s \in Seat : <<"drop", m.round, s>> \in posted =>
              s \in m.dropped \/ (cmd[e].at = "dropped" /\ cmd[e].seat = s)

\* A command belongs to the round remembered, as long as one is.
Commands(e) ==
    /\ SeatCmd(e) => mem[e].round \in {0, cmd[e].round}
    /\ cmd[e].at = "join" /\ Live(cmd[e].round) /\ cmd[e].round \notin torn =>
         <<"drop", cmd[e].round, cmd[e].seat>> \notin posted
    /\ cmd[e].at = "claim" => mem[e].status # "lobby"
    /\ Playing(e) /\ mem[e].calls > 0 => ~ HalfDone(e)

\* The call counter of the row is the engine's, or one behind.
Calls(e) ==
    /\ Playing(e) =>
         LET row == rounds[mem[e].round]
         IN /\ mem[e].calls \in {row.calls, row.calls + 1}
            /\ main[e].at \in {"calling", "scan", "claim"} => mem[e].calls = row.calls
            /\ main[e].at = "writing" => mem[e].round = main[e].round /\ mem[e].calls = main[e].call
    /\ main[e].at = "writing" => rounds[main[e].round].calls <= main[e].call

\* Card s is complete in the round played.
Complete(e, s) == s \in mem[e].entries /\ WinAt[s[2]] <= mem[e].calls

\* Whoever is on the way to being paid has a complete card.
Claims(e) ==
    /\ Playing(e) =>
         /\ \A s \in mem[e].pending : Complete(e, s)
         /\ cmd[e].at = "claim" => Complete(e, cmd[e].seat)
         /\ main[e].at \in {"scan", "claim"} => \A s \in main[e].todo : Complete(e, s)
         /\ main[e].at = "claim" => Complete(e, main[e].seat)
    /\ task[e].at = "pay" =>
         LET row == rounds[task[e].round]
         IN /\ task[e].winners # {}
            /\ row.status # "lobby"
            /\ Live(task[e].round) /\ task[e].round \notin torn =>
                 task[e].winners \subseteq row.entries /\ task[e].pot = row.pot
            /\ \A s \in task[e].winners : WinAt[s[2]] <= row.calls + 1

\* A pot remembered covers the entries remembered, torn or not.
Pots(e) ==
    /\ mem[e].pot >= Stake * Cardinality(mem[e].entries)
    /\ task[e].at = "pay" => task[e].pot \in Nat

IndInv ==
    /\ TypeOK
    /\ RoundsOwned
    /\ \A r \in DOMAIN rounds : InOrder(r)
    /\ \A e \in Engine : /\ Phases(e) /\ Remembers(e) /\ Commands(e) /\ Calls(e) /\ Claims(e)
                         /\ Pots(e)
=============================================================================
