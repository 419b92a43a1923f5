-------------------------- MODULE KenoEngineProofs --------------------------
(***************************************************************************)
(* The Redis lock of an engine, and the Keno engine under it.              *)
(*                                                                         *)
(* The lock: the retry margin of _refresh_loop() is safe for an engine     *)
(* whose own Redis calls are prompt, whatever the others do (HeldIsOwned). *)
(* The argument is how old its last confirmation can be.  A sleep starts   *)
(* right after one, or after a single failed call; a second failure finds  *)
(* the confirmation at least 2*Interval old, which is beyond the margin,   *)
(* and gives up.  So it never gets older than 2*Interval + 3*Timeout       *)
(* counted from when the script ran, which is less than the TTL.           *)
(*                                                                         *)
(* The engine: while no key expires under its holder one engine runs at a  *)
(* time, and then its rounds, tickets and ledger keys agree (KenoInv), for *)
(* any players, sessions, rounds and faults.                               *)
(***************************************************************************)
EXTENDS RoomLock, KenoRound, SumTheorems

-----------------------------------------------------------------------------
(***************************************************************************)
(* The lock.                                                               *)
(***************************************************************************)

\* Nobody holds the room.
LEMMA InitInv == Init => LockInv
BY LockAssumption
   DEF Init, LockInv, TypeOK, Phases, SleepInv, EvalInv, AcquireInv, HeldInv

\* An updated function of Booleans is one at each engine.
LEMMA ExceptBoolean ==
    ASSUME NEW S, NEW f \in [S -> BOOLEAN], NEW x \in S, NEW b \in BOOLEAN
    PROVE  [f EXCEPT ![x] = b] \in [S -> BOOLEAN]
OBVIOUS

\* What one engine's own steps leave of the others: only the key can change
\* under them, and only from free to taken or from that engine's to free.
LEMMA OthersKept ==
    ASSUME LockInv, NEW w \in Worker, NEW v \in Worker, v # w, Prompt(v),
           phase'[v] = phase[v], wait'[v] = wait[v], age'[v] = age[v],
           reply'[v] = reply[v], held'[v] = held[v],
           (owner = v) => (owner' = v /\ ttl' = ttl)
    PROVE  (SleepInv(v) /\ EvalInv(v) /\ AcquireInv(v) /\ HeldInv(v))'
BY DEF LockInv, SleepInv, EvalInv, AcquireInv, HeldInv, Confirmed, JustSet

\* A second that passes ages confirmation and key alike.
LEMMA TickInv == ASSUME LockInv, Tick PROVE LockInv'
<1> USE LockAssumption DEF LockInv, TypeOK
<1>1. TypeOK'
  BY DEF Tick, Phases
<1>2. ASSUME NEW w \in Worker, Prompt(w)
      PROVE  (SleepInv(w) /\ EvalInv(w) /\ AcquireInv(w) /\ HeldInv(w))'
  <2>0. SleepInv(w) /\ EvalInv(w) /\ AcquireInv(w) /\ HeldInv(w) /\ Timeout[w] \in Nat
    BY <1>2
  <2>1. SleepInv(w)'
    BY <2>0, <1>2 DEF Tick, SleepInv, Confirmed, Prompt, Refreshing, Calls
  <2>2. EvalInv(w)'
    BY <2>0, <1>2 DEF Tick, EvalInv, Confirmed, JustSet, Prompt, Refreshing, Calls
  <2>3. AcquireInv(w)'
    BY <2>0, <1>2 DEF Tick, AcquireInv, JustSet, Prompt, Refreshing, Calls
  <2>4. HeldInv(w)'
    BY <2>0 DEF Tick, HeldInv
  <2> QED BY <2>1, <2>2, <2>3, <2>4
<1> HIDE DEF TypeOK
<1> QED BY <1>1, <1>2 DEF Prompt

\* The calls of one engine keep the bound on its own age and on the others'.
LEMMA WorkerInv ==
    ASSUME LockInv, NEW w \in Worker, Acquire(w) \/ Release(w) \/ Crash(w) \/ Step(w)
    PROVE  LockInv'
<1> USE LockAssumption DEF LockInv, TypeOK, Goto, Answer, Believe, Aged, key
<1>b. held' \in [Worker -> BOOLEAN]
  <2>1. held' = held \/ held' = [held EXCEPT ![w] = TRUE] \/ held' = [held EXCEPT ![w] = FALSE]
    BY DEF Acquire, Release, Crash, Step, RunSet, Acquired, NotAcquired, SleepOver, RunRefresh,
           Refreshed, FoundLost, GiveUp, RefreshRaises, RunDelete, Released
  <2>2. held \in [Worker -> BOOLEAN] /\ TRUE \in BOOLEAN /\ FALSE \in BOOLEAN
    OBVIOUS
  <2> QED BY <2>1, <2>2, ExceptBoolean
<1>c. /\ owner' \in Worker \union {NoWorker} /\ ttl' \in Nat
      /\ phase' \in [Worker -> Phases] /\ wait' \in [Worker -> Nat]
      /\ age' \in [Worker -> Nat] /\ reply' \in [Worker -> {"none", "yes", "no"}]
  <2>1. CASE Acquire(w) \/ Release(w) \/ Crash(w)
    BY <2>1 DEF Acquire, Release, Crash, Phases
  <2>2. CASE RunSet(w) \/ Acquired(w) \/ NotAcquired(w)
    BY <2>2 DEF RunSet, Acquired, NotAcquired, Phases
  <2>3. CASE SleepOver(w) \/ RunRefresh(w) \/ Refreshed(w)
    BY <2>3 DEF SleepOver, RunRefresh, Refreshed, Phases
  <2>4. CASE FoundLost(w) \/ RefreshRaises(w)
    BY <2>4 DEF FoundLost, GiveUp, RefreshRaises, Phases
  <2>5. CASE RunDelete(w) \/ Released(w)
    BY <2>5 DEF RunDelete, Released, Phases
  <2> QED BY <2>1, <2>2, <2>3, <2>4, <2>5 DEF Step
<1>1. TypeOK'
  BY <1>b, <1>c
<1>2. ASSUME NEW v \in Worker, v # w, Prompt(v)
      PROVE  (SleepInv(v) /\ EvalInv(v) /\ AcquireInv(v) /\ HeldInv(v))'
  <2>1. /\ phase'[v] = phase[v] /\ wait'[v] = wait[v] /\ age'[v] = age[v]
        /\ reply'[v] = reply[v] /\ held'[v] = held[v]
    BY <1>2 DEF Acquire, Release, Crash, Step, RunSet, Acquired, NotAcquired, SleepOver,
         RunRefresh, Refreshed, FoundLost, GiveUp, RefreshRaises, RunDelete, Released
  <2>2. owner = v => owner' = v /\ ttl' = ttl
    BY <1>2 DEF Acquire, Release, Crash, Step, RunSet, Acquired, NotAcquired, SleepOver,
         RunRefresh, Refreshed, FoundLost, GiveUp, RefreshRaises, RunDelete, Released
  <2> QED BY <2>1, <2>2, <1>2, OthersKept
<1>3. ASSUME Prompt(w)
      PROVE  (SleepInv(w) /\ EvalInv(w) /\ AcquireInv(w) /\ HeldInv(w))'
  <2>0. SleepInv(w) /\ EvalInv(w) /\ AcquireInv(w) /\ HeldInv(w) /\ Timeout[w] \in Nat
    BY <1>3
  <2> USE DEF SleepInv, EvalInv, AcquireInv, HeldInv, Confirmed, JustSet
  <2>1. CASE Acquire(w)          BY <2>1, <2>0 DEF Acquire
  <2>2. CASE Release(w)          BY <2>2, <2>0 DEF Release
  <2>3. CASE Crash(w)            BY <2>3, <2>0 DEF Crash
  <2>4. CASE RunSet(w)           BY <2>4, <2>0 DEF RunSet
  <2>5. CASE Acquired(w)         BY <2>5, <2>0 DEF Acquired
  <2>6. CASE NotAcquired(w)      BY <2>6, <2>0 DEF NotAcquired
  <2>7. CASE SleepOver(w)        BY <2>7, <2>0 DEF SleepOver
  <2>8. CASE RunRefresh(w)       BY <2>8, <2>0 DEF RunRefresh
  <2>9. CASE Refreshed(w)        BY <2>9, <2>0 DEF Refreshed
  <2>10. CASE FoundLost(w)       BY <2>10, <2>0 DEF FoundLost, GiveUp
  <2>11. CASE RefreshRaises(w)   BY <2>11, <1>3, <2>0 DEF RefreshRaises, GiveUp, Prompt
  <2>12. CASE RunDelete(w)       BY <2>12, <2>0 DEF RunDelete
  <2>13. CASE Released(w)        BY <2>13, <2>0 DEF Released
  <2> QED BY <2>1, <2>2, <2>3, <2>4, <2>5, <2>6, <2>7, <2>8, <2>9, <2>10, <2>11, <2>12, <2>13
          DEF Step
<1>4. ASSUME NEW v \in Worker, Prompt(v)
      PROVE  (SleepInv(v) /\ EvalInv(v) /\ AcquireInv(v) /\ HeldInv(v))'
  <2>1. CASE v = w   BY <2>1, <1>3, <1>4
  <2>2. CASE v # w   BY <2>2, <1>2, <1>4
  <2> QED BY <2>1, <2>2
<1> HIDE DEF TypeOK
<1> QED BY <1>1, <1>4 DEF Prompt

\* Nothing happens.
LEMMA StutterInv == LockInv /\ UNCHANGED vars => LockInv'
BY DEF LockInv, vars, TypeOK, SleepInv, EvalInv, AcquireInv, HeldInv, Confirmed, JustSet, Prompt

\* The invariant is inductive for any set of engines and any timing of each.
THEOREM LockInvariant == Spec => []LockInv
<1>1. LockInv /\ [Next]_vars => LockInv'
  BY TickInv, WorkerInv, StutterInv DEF Next
<1> QED BY <1>1, InitInv, PTL DEF Spec

\* RoomLock.is_held() of an engine with prompt calls is true only while the
\* Redis key is its own.
THEOREM HeldOnlyWhileOwned == Spec => []HeldIsOwned
<1>1. LockInv => HeldIsOwned
  BY DEF LockInv, HeldInv, SleepInv, EvalInv, Confirmed, JustSet, HeldIsOwned
<1> QED BY <1>1, LockInvariant, PTL

\* The compare-and-clear scripts never take the key from another engine.
THEOREM ForeignKeyUntouched == Spec => OnlyOwnerFrees
<1>1. [Next]_vars =>
        [\A w \in Worker : owner = w /\ owner' # w => ttl = 1 \/ phase[w] = "releasing"]_vars
  BY LockAssumption
     DEF Next, Tick, Acquire, Release, Crash, Step, RunSet, Acquired, NotAcquired, SleepOver,
         RunRefresh, Refreshed, FoundLost, GiveUp, RefreshRaises, RunDelete, Released,
         Goto, Answer, Believe, Aged, key, vars
<1> QED BY <1>1, PTL DEF Spec, OnlyOwnerFrees

-----------------------------------------------------------------------------
(***************************************************************************)
(* Types.                                                                  *)
(***************************************************************************)

\* The constants the proofs use, and the tickets there can be.
LEMMA KenoConstants ==
    /\ Cut \in Nat /\ PoolSeed \in Nat /\ DrawCount \in Nat /\ MaxRounds \in Nat
    /\ MaxFaults \in Nat /\ NoEngine \notin Engine
    /\ \A t \in Ticket : t = <<t[1], t[2]>> /\ Prize[t[1]] \in Nat
    /\ \A b \in Manual : <<b, 0>> \in Ticket /\ b \notin Session
    /\ \A s \in Session, r \in Round : <<s, r>> \in Ticket
    /\ IsFiniteSet(Ticket) /\ Round \subseteq Nat
<1>1. Cut \in Nat /\ PoolSeed \in Nat /\ DrawCount \in Nat /\ MaxRounds \in Nat
      /\ MaxFaults \in Nat /\ NoEngine \notin Engine
  BY KenoAssumption
<1>2. \A t \in Ticket : t = <<t[1], t[2]>> /\ Prize[t[1]] \in Nat
  BY KenoAssumption DEF Ticket
<1>3. \A b \in Manual : <<b, 0>> \in Ticket /\ b \notin Session
  BY KenoAssumption DEF Ticket
<1>4. \A s \in Session, r \in Round : <<s, r>> \in Ticket
  BY DEF Ticket
<1>5. IsFiniteSet(Manual) /\ IsFiniteSet(Session)
  BY KenoAssumption, FS_Subset
<1>6. IsFiniteSet(Round) /\ IsFiniteSet({0}) /\ Round \subseteq Nat
  <2>1. IsFiniteSet(Round) /\ Round \subseteq Nat
    BY <1>1, FS_Interval DEF Round
  <2>2. IsFiniteSet({0})
    BY FS_Singleton
  <2> QED BY <2>1, <2>2
<1>7. IsFiniteSet(Manual \X {0}) /\ IsFiniteSet(Session \X Round)
  BY <1>5, <1>6, FS_Product
<1>8. IsFiniteSet(Ticket)
  BY <1>7, FS_Union DEF Ticket
<1> QED BY <1>1, <1>2, <1>3, <1>4, <1>6, <1>8

\* The rounds there are.
LEMMA RoundRange ==
    ASSUME KenoTypeOK
    PROVE  /\ DOMAIN rounds = 1 .. Len(rounds) /\ DOMAIN rounds \subseteq Round /\ Len(rounds) \in Nat
           /\ \A r \in DOMAIN rounds : rounds[r] \in RoundRow
           /\ \A e \in Engine : task[e] \in [Round -> TaskState]
           /\ \A t \in Ticket : tickets[t] \in TicketRow
           /\ \A s \in Session : sessions[s] \in SessionRow
BY KenoConstants DEF KenoTypeOK, Round

\* A row of keno_rounds is written.
LEMMA RoundWritten ==
    ASSUME KenoTypeOK, NEW r \in DOMAIN rounds, NEW row \in RoundRow,
           rounds' = [rounds EXCEPT ![r] = row]
    PROVE  /\ rounds' \in Seq(RoundRow) /\ Len(rounds') = Len(rounds)
           /\ DOMAIN rounds' = DOMAIN rounds /\ rounds'[r] = row
           /\ \A q \in DOMAIN rounds : q # r => rounds'[q] = rounds[q]
BY DEF KenoTypeOK

\* Its status is.
LEMMA StatusWritten ==
    ASSUME KenoTypeOK, NEW r \in DOMAIN rounds, NEW s \in Statuses, SetStatus(r, s)
    PROVE  /\ rounds' \in Seq(RoundRow) /\ Len(rounds') = Len(rounds)
           /\ DOMAIN rounds' = DOMAIN rounds
           /\ rounds'[r].status = s /\ rounds'[r].seed = rounds[r].seed
           /\ rounds'[r].drawn = rounds[r].drawn
           /\ \A q \in DOMAIN rounds : q # r => rounds'[q] = rounds[q]
<1> DEFINE row == [rounds[r] EXCEPT !.status = s]
<1>1. rounds[r] \in RoundRow
  BY RoundRange
<1>2. row \in RoundRow /\ row.status = s /\ row.seed = rounds[r].seed /\ row.drawn = rounds[r].drawn
  BY <1>1 DEF RoundRow
<1>3. rounds' = [rounds EXCEPT ![r] = row]
  BY DEF SetStatus, KenoTypeOK
<1> HIDE DEF row
<1> QED BY <1>2, <1>3, RoundWritten

\* The row of a session is.
LEMMA SessionWritten ==
    ASSUME KenoTypeOK, NEW s, NEW x \in {"none", "active", "stopped", "exhausted"},
           sessions' = [sessions EXCEPT ![s].status = x]
    PROVE  sessions' \in [Session -> SessionRow]
<1>1. ASSUME s \in Session PROVE [sessions[s] EXCEPT !.status = x] \in SessionRow
  BY <1>1, RoundRange DEF SessionRow
<1>2. sessions \in [Session -> SessionRow]
  BY DEF KenoTypeOK
<1> QED BY <1>1, <1>2

\* What an engine at work is, field by field.
LEMMA Fields ==
    ASSUME KenoTypeOK, NEW e \in Engine, main[e].at \in Working
    PROVE  WorkType(main[e]) /\ main[e] # Down
BY DEF KenoTypeOK, MainState, Down, At, Working, Betting, Drawing

\* A record with another local.
LEMMA LocalReplaced ==
    ASSUME NEW a, NEW b, NEW c, NEW d, NEW x
    PROVE  [[at |-> a, todo |-> b, r |-> c, local |-> d] EXCEPT !.local = x]
             = [at |-> a, todo |-> b, r |-> c, local |-> x]
OBVIOUS

\* How main moves.
LEMMA Moves ==
    ASSUME KenoTypeOK, NEW e \in Engine
    PROVE  /\ \A m : main' = [main EXCEPT ![e] = m] =>
                main'[e] = m /\ main' = [main EXCEPT ![e] = main'[e]]
           /\ \A l : Go(e, l) /\ main[e].at \in Working =>
                /\ main' = [main EXCEPT ![e] = main'[e]]
                /\ main'[e] = [at |-> l, todo |-> main[e].todo, r |-> main[e].r, local |-> main[e].local]
           /\ NextRound(e) =>
                /\ main' = [main EXCEPT ![e] = main'[e]]
                /\ main'[e] = [at |-> "next", todo |-> main[e].todo, r |-> 0, local |-> {}]
<1>0. main = [f \in Engine |-> main[f]]
  BY DEF KenoTypeOK
<1>1. ASSUME NEW m, main' = [main EXCEPT ![e] = m]
      PROVE  main'[e] = m /\ main' = [main EXCEPT ![e] = main'[e]]
  BY <1>0, <1>1
<1>2. ASSUME main[e].at \in Working
      PROVE  main[e] = [at |-> main[e].at, todo |-> main[e].todo, r |-> main[e].r, local |-> main[e].local]
  BY <1>2, Fields DEF WorkType
<1>3. ASSUME NEW l, Go(e, l), main[e].at \in Working
      PROVE  /\ main' = [main EXCEPT ![e] = main'[e]]
             /\ main'[e] = [at |-> l, todo |-> main[e].todo, r |-> main[e].r, local |-> main[e].local]
  <2>1. main' = [main EXCEPT ![e] = [main[e] EXCEPT !.at = l]]
    BY <1>0, <1>3 DEF Go
  <2>2. [main[e] EXCEPT !.at = l]
          = [at |-> l, todo |-> main[e].todo, r |-> main[e].r, local |-> main[e].local]
    BY <1>2, <1>3
  <2> QED BY <1>1, <2>1, <2>2
<1>4. ASSUME NextRound(e)
      PROVE  /\ main' = [main EXCEPT ![e] = main'[e]]
             /\ main'[e] = [at |-> "next", todo |-> main[e].todo, r |-> 0, local |-> {}]
  BY <1>1, <1>4 DEF NextRound, Work
<1> QED BY <1>1, <1>3, <1>4

\* How it takes something along.
LEMMA WithMoves ==
    ASSUME KenoTypeOK, NEW e \in Engine, main[e].at \in Working, NEW l, NEW x, With(e, l, x)
    PROVE  /\ main' = [main EXCEPT ![e] = main'[e]]
           /\ main'[e] = [at |-> l, todo |-> main[e].todo, r |-> main[e].r, local |-> x]
<1>0. main = [f \in Engine |-> main[f]]
  BY DEF KenoTypeOK
<1>1. main[e] = [at |-> main[e].at, todo |-> main[e].todo, r |-> main[e].r, local |-> main[e].local]
  BY Fields DEF WorkType
<1>2. main' = [main EXCEPT ![e] = [[main[e] EXCEPT !.at = l] EXCEPT !.local = x]]
  BY <1>0 DEF With
<1> DEFINE m == [main[e] EXCEPT !.at = l]
<1>3. m = [at |-> l, todo |-> main[e].todo, r |-> main[e].r, local |-> main[e].local]
  BY <1>1
<1> HIDE DEF m
<1>4. [m EXCEPT !.local = x] = [at |-> l, todo |-> main[e].todo, r |-> main[e].r, local |-> x]
  BY <1>3, LocalReplaced
<1>5. main' = [main EXCEPT ![e] = [m EXCEPT !.local = x]]
  BY <1>2 DEF m
<1> QED BY <1>4, <1>5, Moves

\* What an engine may have at hand.
LEMMA MainTyped ==
    ASSUME KenoTypeOK, NEW e \in Engine, main' = [main EXCEPT ![e] = main'[e]], MainState(main'[e])
    PROVE  /\ main' = [f \in Engine |-> main'[f]]
           /\ \A f \in Engine : MainState(main'[f]) /\ (f # e => main'[f] = main[f])
<1>1. main = [f \in Engine |-> main[f]] /\ \A f \in Engine : MainState(main[f])
  BY DEF KenoTypeOK
<1> DEFINE v == main'[e]
<1>2. main' = [main EXCEPT ![e] = v]
  OBVIOUS
<1>3. MainState(v)
  OBVIOUS
<1> HIDE DEF v
<1>4. main' = [f \in Engine |-> main'[f]] /\ main'[e] = v
      /\ \A f \in Engine : f # e => main'[f] = main[f]
  BY <1>1, <1>2
<1>5. ASSUME NEW f \in Engine PROVE MainState(main'[f])
  <2>1. CASE f = e
    BY <1>3, <1>4, <2>1
  <2>2. CASE f # e
    <3>1. main'[f] = main[f]
      BY <1>4, <2>2
    <3> QED BY <1>1, <3>1
  <2> QED BY <2>1, <2>2
<1> QED BY <1>4, <1>5

\* The key, the belief in it, the stop flag and the faults.
LEMMA ProcType ==
    ASSUME KenoTypeOK, [KenoNext]_kenoVars
    PROVE  /\ keyOwner' \in Engine \union {NoEngine} /\ faults' \in Nat
           /\ holds' \in [Engine -> BOOLEAN] /\ stop' \in [Engine -> BOOLEAN]
<1>0. TRUE \in BOOLEAN /\ FALSE \in BOOLEAN /\ holds \in [Engine -> BOOLEAN] /\ stop \in [Engine -> BOOLEAN]
  BY DEF KenoTypeOK
<1>1. ASSUME NEW e \in Engine, WinLock(e) \/ Exit(e) \/ LockStep(e) \/ EngineFault(e)
      PROVE  /\ keyOwner' \in Engine \union {NoEngine} /\ faults' \in Nat
             /\ holds' = holds \/ holds' = [holds EXCEPT ![e] = TRUE] \/ holds' = [holds EXCEPT ![e] = FALSE]
             /\ stop' = stop \/ stop' = [stop EXCEPT ![e] = TRUE] \/ stop' = [stop EXCEPT ![e] = FALSE]
  <2>1. CASE WinLock(e) \/ Exit(e)
    BY <2>1 DEF WinLock, Exit, KenoTypeOK
  <2>2. CASE LockStep(e)
    BY <2>2 DEF LockStep, LockLost, KeyExpires, KenoTypeOK
  <2>3. CASE EngineFault(e)
    BY <2>3 DEF EngineFault, EngineFails, PlacementFails, EngineCrash, LockExpires, StopEngine,
         SettlementFails, Fault, KenoTypeOK, proc
  <2> QED BY <1>1, <2>1, <2>2, <2>3
<1>2. CASE \E e \in Engine : WinLock(e) \/ Exit(e) \/ LockStep(e) \/ EngineFault(e)
  <2>1. PICK e \in Engine : WinLock(e) \/ Exit(e) \/ LockStep(e) \/ EngineFault(e)
    BY <1>2
  <2>2. /\ keyOwner' \in Engine \union {NoEngine} /\ faults' \in Nat
        /\ holds' = holds \/ holds' = [holds EXCEPT ![e] = TRUE] \/ holds' = [holds EXCEPT ![e] = FALSE]
        /\ stop' = stop \/ stop' = [stop EXCEPT ![e] = TRUE] \/ stop' = [stop EXCEPT ![e] = FALSE]
    BY <1>1, <2>1
  <2>3. holds' \in [Engine -> BOOLEAN]
    <3>1. [holds EXCEPT ![e] = TRUE] \in [Engine -> BOOLEAN] /\ [holds EXCEPT ![e] = FALSE] \in [Engine -> BOOLEAN]
      BY <1>0, ExceptBoolean
    <3> QED BY <1>0, <2>2, <3>1
  <2>4. stop' \in [Engine -> BOOLEAN]
    <3>1. [stop EXCEPT ![e] = TRUE] \in [Engine -> BOOLEAN] /\ [stop EXCEPT ![e] = FALSE] \in [Engine -> BOOLEAN]
      BY <1>0, ExceptBoolean
    <3> QED BY <1>0, <2>2, <3>1
  <2> QED BY <2>2, <2>3, <2>4
<1>3. (proc' = proc /\ faults' = faults) =>
        /\ keyOwner' \in Engine \union {NoEngine} /\ faults' \in Nat
        /\ holds' \in [Engine -> BOOLEAN] /\ stop' \in [Engine -> BOOLEAN]
  BY <1>0 DEF proc, KenoTypeOK
<1>4. CASE \/ \E e \in Engine : (MainStep(e) /\ ~Exit(e)) \/ \E r \in Round : TaskStep(e, r)
           \/ \E b \in Manual : PlaceTicket(b)
           \/ \E s \in Session : StartSession(s) \/ StopSession(s)
           \/ \E r \in Round : GrowOld(r)
           \/ UNCHANGED kenoVars
  <2>1. ASSUME NEW e \in Engine, MainStep(e), ~Exit(e) PROVE proc' = proc /\ faults' = faults
    BY <2>1 DEF MainStep, ReadStuckRounds, RecoverRound, SelectRefunds, FailAndRefundRound, Sweep,
         CreateRound, OpenBetting, ListSessions, PlaceForSession, RejectForSession, CountPlaced,
         ExhaustIfDone, PlacingOver, BettingOver, BettingAborted, SelectTicketIds, CloseBetting,
         ReadDraw, Draw, RevealNumber, DrawComplete
  <2>2. ASSUME NEW e \in Engine, NEW r \in Round, TaskStep(e, r) PROVE proc' = proc /\ faults' = faults
    BY <2>2 DEF TaskStep, ReadRound, MarkSettling, SelectPending, SettleTickets, RecordSettlement,
         CompleteRound
  <2>3. UNCHANGED kenoVars => proc' = proc /\ faults' = faults
    BY DEF kenoVars, proc
  <2>4. proc' = proc /\ faults' = faults
    BY <1>4, <2>1, <2>2, <2>3 DEF PlaceTicket, StartSession, StopSession, GrowOld
  <2> QED BY <1>3, <2>4
<1> QED BY <1>2, <1>4 DEF KenoNext

\* The sessions.
LEMMA SessionsType ==
    ASSUME KenoTypeOK, [KenoNext]_kenoVars
    PROVE  sessions' \in [Session -> SessionRow]
<1>0. sessions \in [Session -> SessionRow]
  BY DEF KenoTypeOK
<1>1. ASSUME NEW s, NEW b \in BOOLEAN
      PROVE  /\ (IF sessions[s].status = "active" /\ b THEN "stopped" ELSE sessions[s].status)
                  \in {"none", "active", "stopped", "exhausted"} \/ s \notin Session
             /\ (IF sessions[s].status = "active" /\ b THEN "exhausted" ELSE sessions[s].status)
                  \in {"none", "active", "stopped", "exhausted"} \/ s \notin Session
  BY <1>0 DEF SessionRow
<1>2. ASSUME NEW s, s \notin Session, NEW x, sessions' = [sessions EXCEPT ![s].status = x]
      PROVE  sessions' \in [Session -> SessionRow]
  BY <1>0, <1>2
<1>3. ASSUME NEW s, sessions' = [sessions EXCEPT ![s].status = IF @ = "active" THEN "stopped" ELSE @]
      PROVE  sessions' \in [Session -> SessionRow]
  BY <1>1, <1>2, <1>3, SessionWritten
<1>4. ASSUME NEW e \in Engine, ExhaustIfDone(e) PROVE sessions' \in [Session -> SessionRow]
  <2> DEFINE s == main[e].local[1][1]
             over == main[e].local[1][2] + 1 >= RoundsTotal[s]
  <2>1. sessions' = [sessions EXCEPT ![s].status = IF @ = "active" /\ over THEN "exhausted" ELSE @]
    BY <1>4 DEF ExhaustIfDone
  <2> HIDE DEF s, over
  <2>2. CASE over
    BY <1>1, <1>2, <2>1, <2>2, SessionWritten
  <2>3. CASE ~over
    BY <1>1, <1>2, <2>1, <2>3, SessionWritten
  <2> QED BY <2>2, <2>3
<1>5. ASSUME NEW e \in Engine, NEW r \in Round, RecordSettlement(e, r)
      PROVE  sessions' \in [Session -> SessionRow]
  <2>1. PICK t \in task[e][r].tickets, over \in BOOLEAN :
          sessions' = [sessions EXCEPT ![t[1]].status = IF @ = "active" /\ over THEN "stopped" ELSE @]
    BY <1>5 DEF RecordSettlement
  <2> QED BY <1>1, <1>2, <2>1, SessionWritten
<1>6. ASSUME NEW e \in Engine, CountPlaced(e) PROVE sessions' \in [Session -> SessionRow]
  <2> DEFINE s == main[e].local[1][1]
  <2>1. sessions' = [sessions EXCEPT ![s].placed = @ + 1]
    BY <1>6 DEF CountPlaced
  <2> HIDE DEF s
  <2>2. s \in Session => [sessions[s] EXCEPT !.placed = @ + 1] \in SessionRow
    BY <1>0 DEF SessionRow
  <2> QED BY <1>0, <2>1, <2>2
<1>7. ASSUME NEW e \in Engine, PlacementFails(e) \/ RejectForSession(e)
      PROVE  sessions' \in [Session -> SessionRow]
  BY <1>0, <1>3, <1>7 DEF PlacementFails, RejectForSession, StopAfterError
<1>8. ASSUME NEW s \in Session, StartSession(s) \/ StopSession(s)
      PROVE  sessions' \in [Session -> SessionRow]
  BY <1>8, SessionWritten DEF StartSession, StopSession
<1>9. UNCHANGED sessions => sessions' \in [Session -> SessionRow]
  BY <1>0
<1>10. ASSUME NEW e \in Engine, MainStep(e) PROVE sessions' \in [Session -> SessionRow]
  BY <1>4, <1>6, <1>7, <1>9, <1>10 DEF MainStep, ReadStuckRounds, RecoverRound, SelectRefunds, FailAndRefundRound, Sweep,
       CreateRound, OpenBetting, ListSessions, PlaceForSession, PlacingOver, BettingOver,
       BettingAborted, SelectTicketIds, CloseBetting, ReadDraw, Draw, RevealNumber, DrawComplete,
       Exit, db
<1>11. ASSUME NEW e \in Engine, NEW r \in Round, TaskStep(e, r)
       PROVE  sessions' \in [Session -> SessionRow]
  BY <1>5, <1>9, <1>11 DEF TaskStep, ReadRound, MarkSettling, SelectPending, SettleTickets,
       CompleteRound, db
<1>12. ASSUME NEW e \in Engine, WinLock(e) \/ LockStep(e) \/ EngineFault(e)
       PROVE  sessions' \in [Session -> SessionRow]
  BY <1>7, <1>9, <1>12 DEF WinLock, LockStep, LockLost, KeyExpires, EngineFault, EngineFails,
       EngineCrash, LockExpires, StopEngine, SettlementFails, db
<1>13. CASE (\E b \in Manual : PlaceTicket(b)) \/ (\E r \in Round : GrowOld(r)) \/ UNCHANGED kenoVars
  BY <1>9, <1>13 DEF PlaceTicket, GrowOld, kenoVars
<1> QED BY <1>8, <1>10, <1>11, <1>12, <1>13 DEF KenoNext

-----------------------------------------------------------------------------
(***************************************************************************)
(* What a step has to keep.                                                *)
(***************************************************************************)

\* The ledger keys.
PostedType ==
    /\ IsFiniteSet(posted)
    /\ posted \subseteq ({"stake", "payout", "refund"} \X Ticket) \union ({"jackpot"} \X Ticket \X Int)

\* A database that keeps its rows, statuses and draws, and its tickets.
RowsAlike ==
    /\ rounds' \in Seq(RoundRow) /\ Len(rounds') = Len(rounds) /\ DOMAIN rounds' = DOMAIN rounds
    /\ \A r \in DOMAIN rounds : /\ rounds'[r].status = rounds[r].status
                                /\ rounds'[r].seed = rounds[r].seed
                                /\ rounds'[r].drawn = rounds[r].drawn
    /\ UNCHANGED <<tickets, posted>>

\* An engine that is down has no settlements.
LEMMA DownIdle ==
    ASSUME KenoInv, NEW e \in Engine, main[e] \in {Down, At("recover")}
    PROVE  \A r \in Round : task[e][r] = NoTask
BY DEF KenoInv, TaskKnows

\* A step of one engine while the others are down: what has to be shown.
LEMMA EngineStep ==
    ASSUME KenoInv, [KenoNext]_kenoVars, OneDrives, OneDrives', NEW e \in Engine,
           main[e] # Down \/ main'[e] # Down,
           main' = [main EXCEPT ![e] = main'[e]], MainState(main'[e]),
           task' = [task EXCEPT ![e] = task'[e]], task'[e] \in [Round -> TaskState],
           rounds' \in Seq(RoundRow), Len(rounds') <= MaxRounds,
           tickets' \in [Ticket -> TicketRow], PostedType',
           MainKnows(e)', TodoUntouched(e)', \A r \in Round : TaskKnows(e, r)',
           \A t \in Ticket : TicketBooks(t)', \A r \in DOMAIN rounds' : RoundBooks(r)'
    PROVE  KenoInv'
<1>0. KenoTypeOK
  BY DEF KenoInv
<1>1. main' = [f \in Engine |-> main'[f]]
      /\ \A f \in Engine : MainState(main'[f]) /\ (f # e => main'[f] = main[f])
  BY <1>0, MainTyped
<1>2. task' \in [Engine -> [Round -> TaskState]] /\ \A f \in Engine : f # e => task'[f] = task[f]
  <2> DEFINE v == task'[e]
  <2>1. task' = [task EXCEPT ![e] = v] /\ v \in [Round -> TaskState]
    OBVIOUS
  <2> HIDE DEF v
  <2>2. task \in [Engine -> [Round -> TaskState]]
    BY <1>0 DEF KenoTypeOK
  <2> QED BY <2>1, <2>2
<1>3. KenoTypeOK'
  BY <1>0, <1>1, <1>2, ProcType, SessionsType DEF KenoTypeOK, PostedType
<1>4. ASSUME NEW f \in Engine, f # e
      PROVE  main'[f] = Down /\ \A r \in Round : task'[f][r] = NoTask
  <2>1. main'[f] = main[f] /\ main[f] = Down
    BY <1>1, <1>4 DEF OneDrives
  <2> QED BY <1>2, <1>4, <2>1, DownIdle
<1>5. ASSUME NEW f \in Engine
      PROVE  MainKnows(f)' /\ TodoUntouched(f)' /\ \A r \in Round : TaskKnows(f, r)'
  <2>1. CASE f = e
    BY <2>1
  <2>2. CASE f # e
    BY <1>4, <2>2 DEF MainKnows, TodoUntouched, TaskKnows, Down, At, Working, Betting, Drawing
  <2> QED BY <2>1, <2>2
<1> QED BY <1>3, <1>5 DEF KenoInv

\* Rows alike: the books are as they were.
LEMMA BooksAlike ==
    ASSUME KenoInv, RowsAlike
    PROVE  /\ rounds' \in Seq(RoundRow) /\ Len(rounds') <= MaxRounds
           /\ tickets' \in [Ticket -> TicketRow] /\ PostedType'
           /\ \A r : Pending(r)' = Pending(r)
           /\ \A t \in Ticket : TicketBooks(t)'
           /\ \A r \in DOMAIN rounds' : RoundBooks(r)'
<1>1. Len(rounds) <= MaxRounds /\ tickets \in [Ticket -> TicketRow] /\ PostedType
  BY DEF KenoInv, KenoTypeOK, PostedType
<1>2. \A r : Pending(r)' = Pending(r)
  BY DEF RowsAlike, Pending, TicketsOf
<1>3. \A t \in Ticket : TicketBooks(t)'
  BY DEF KenoInv, TicketBooks, RowsAlike, JackpotMoved, JackpotKeys
<1>4. \A r \in DOMAIN rounds' : RoundBooks(r)'
  BY <1>2 DEF KenoInv, RoundBooks, RowsAlike
<1>5. PostedType'
  BY <1>1 DEF PostedType, RowsAlike
<1> QED BY <1>1, <1>2, <1>3, <1>4, <1>5 DEF RowsAlike

\* A step of one engine that leaves the rows alike.
LEMMA QuietStep ==
    ASSUME KenoInv, [KenoNext]_kenoVars, OneDrives, OneDrives', NEW e \in Engine, RowsAlike,
           main[e] # Down \/ main'[e] # Down,
           main' = [main EXCEPT ![e] = main'[e]], MainState(main'[e]),
           task' = [task EXCEPT ![e] = task'[e]], task'[e] \in [Round -> TaskState],
           MainKnows(e)', TodoUntouched(e)', \A r \in Round : TaskKnows(e, r)'
    PROVE  KenoInv'
BY BooksAlike, EngineStep

\* A step that leaves every engine where it is, with its settlements.
LEMMA StillStep ==
    ASSUME KenoInv, [KenoNext]_kenoVars, RowsAlike, UNCHANGED <<main, task>>
    PROVE  KenoInv'
<1>1. /\ rounds' \in Seq(RoundRow) /\ Len(rounds') <= MaxRounds
      /\ tickets' \in [Ticket -> TicketRow] /\ PostedType'
      /\ \A r : Pending(r)' = Pending(r)
      /\ \A t \in Ticket : TicketBooks(t)'
      /\ \A r \in DOMAIN rounds' : RoundBooks(r)'
  BY BooksAlike
<1>2. KenoTypeOK'
  BY <1>1, ProcType, SessionsType DEF KenoInv, KenoTypeOK, PostedType
<1>3. ASSUME NEW e \in Engine PROVE MainKnows(e)'
  <2>1. MainKnows(e) /\ main'[e] = main[e]
    BY DEF KenoInv
  <2> QED BY <1>1, <2>1 DEF MainKnows, RowsAlike, Betting, Drawing, Working
<1>4. ASSUME NEW e \in Engine PROVE TodoUntouched(e)'
  <2>1. TodoUntouched(e) /\ main'[e] = main[e] /\ task'[e] = task[e]
    BY DEF KenoInv
  <2> QED BY <2>1 DEF TodoUntouched, RowsAlike
<1>5. ASSUME NEW e \in Engine, NEW r \in Round PROVE TaskKnows(e, r)'
  <2>1. TaskKnows(e, r) /\ main'[e] = main[e] /\ task'[e] = task[e]
    BY DEF KenoInv
  <2> QED BY <1>1, <2>1 DEF TaskKnows, RowsAlike
<1> QED BY <1>1, <1>2, <1>3, <1>4, <1>5 DEF KenoInv

\* How a settlement moves.
LEMMA TaskSet ==
    ASSUME KenoTypeOK, NEW e \in Engine, NEW r \in Round, NEW s \in TaskState, SetTask(e, r, s)
    PROVE  /\ task' = [task EXCEPT ![e] = task'[e]] /\ task'[e] \in [Round -> TaskState]
           /\ task'[e][r] = s /\ \A q \in Round : q # r => task'[e][q] = task[e][q]
<1>1. task \in [Engine -> [Round -> TaskState]]
  BY DEF KenoTypeOK
<1> DEFINE v == [task[e] EXCEPT ![r] = s]
<1>2. task' = [task EXCEPT ![e] = v]
  BY <1>1 DEF SetTask
<1>3. v \in [Round -> TaskState] /\ v[r] = s /\ \A q \in Round : q # r => v[q] = task[e][q]
  BY <1>1
<1> HIDE DEF v
<1> QED BY <1>1, <1>2, <1>3

\* How settlements are started.
LEMMA Spawned ==
    ASSUME KenoTypeOK, NEW e \in Engine, NEW rs, Spawn(e, rs)
    PROVE  /\ task' = [task EXCEPT ![e] = task'[e]] /\ task'[e] \in [Round -> TaskState]
           /\ \A q \in Round : task'[e][q] = IF q \in rs THEN At("start") ELSE task[e][q]
<1>1. task \in [Engine -> [Round -> TaskState]]
  BY DEF KenoTypeOK
<1> DEFINE v == [q \in Round |-> IF q \in rs THEN At("start") ELSE task[e][q]]
<1>2. task' = [task EXCEPT ![e] = v]
  BY <1>1 DEF Spawn
<1>3. \A q \in Round : v[q] = (IF q \in rs THEN At("start") ELSE task[e][q]) /\ v[q] \in TaskState
  BY <1>1 DEF TaskState
<1>4. v \in [Round -> TaskState]
  BY <1>3
<1> HIDE DEF v
<1> QED BY <1>1, <1>2, <1>3, <1>4

\* No engine, no settlement changes.
LEMMA TasksStay ==
    ASSUME KenoTypeOK, NEW e \in Engine, UNCHANGED task
    PROVE  task' = [task EXCEPT ![e] = task'[e]] /\ task'[e] \in [Round -> TaskState]
BY DEF KenoTypeOK

LEMMA MainStays ==
    ASSUME KenoTypeOK, NEW e \in Engine, UNCHANGED main
    PROVE  main' = [main EXCEPT ![e] = main'[e]] /\ MainState(main'[e])
<1>1. main = [f \in Engine |-> main[f]] /\ MainState(main[e])
  BY DEF KenoTypeOK
<1> QED BY <1>1

\* An engine goes on with its round, or leaves it, in a database that stays.
LEMMA MainMove ==
    ASSUME KenoInv, [KenoNext]_kenoVars, OneDrives, OneDrives', NEW e \in Engine, RowsAlike,
           main[e].at \in Working, UNCHANGED task,
           main' = [main EXCEPT ![e] = main'[e]], MainState(main'[e]), MainKnows(e)',
           main'[e] \notin {Down, At("recover")},
           main'[e].at \in Working => main'[e].todo = main[e].todo /\ main'[e].r \in {0, main[e].r}
    PROVE  KenoInv'
<1>0. KenoTypeOK /\ TodoUntouched(e) /\ \A r \in Round : TaskKnows(e, r)
  BY DEF KenoInv
<1>1. task' = [task EXCEPT ![e] = task'[e]] /\ task'[e] \in [Round -> TaskState]
  BY <1>0, TasksStay
<1>2. \A r : Pending(r)' = Pending(r)
  BY BooksAlike
<1>3. DOMAIN rounds \subseteq Nat \ {0}
  BY <1>0, RoundRange
<1>4. TodoUntouched(e)'
  BY <1>0, <1>3 DEF TodoUntouched, RowsAlike
<1>5. ASSUME NEW r \in Round PROVE TaskKnows(e, r)'
  <2>1. TaskKnows(e, r) /\ r # 0
    BY <1>0 DEF Round
  <2> QED BY <1>2, <2>1 DEF TaskKnows, RowsAlike
<1>6. main[e] # Down
  BY <1>0, Fields
<1> QED BY <1>1, <1>4, <1>5, <1>6, QuietStep

\* A settlement goes on, or ends, in a database that stays.
LEMMA TaskMove ==
    ASSUME KenoInv, [KenoNext]_kenoVars, OneDrives, OneDrives', NEW e \in Engine, NEW r \in Round,
           RowsAlike, task[e][r] # NoTask, UNCHANGED main,
           NEW s \in TaskState, SetTask(e, r, s), TaskKnows(e, r)'
    PROVE  KenoInv'
<1>0. KenoTypeOK /\ MainKnows(e) /\ TodoUntouched(e) /\ \A q \in Round : TaskKnows(e, q)
  BY DEF KenoInv
<1>1. /\ task' = [task EXCEPT ![e] = task'[e]] /\ task'[e] \in [Round -> TaskState]
      /\ task'[e][r] = s /\ \A q \in Round : q # r => task'[e][q] = task[e][q]
  BY <1>0, TaskSet
<1>2. \A q : Pending(q)' = Pending(q)
  BY BooksAlike
<1>3. main' = [main EXCEPT ![e] = main'[e]] /\ MainState(main'[e]) /\ main'[e] = main[e]
  BY <1>0, MainStays
<1>4. DOMAIN rounds \subseteq Round
  BY <1>0, RoundRange
<1>5. TodoUntouched(e)'
  BY <1>0, <1>1, <1>3, <1>4 DEF TodoUntouched, RowsAlike
<1>6. ASSUME NEW q \in Round, q # r PROVE TaskKnows(e, q)'
  <2>1. TaskKnows(e, q) /\ task'[e][q] = task[e][q]
    BY <1>0, <1>1, <1>6
  <2> QED BY <1>2, <1>3, <2>1 DEF TaskKnows, RowsAlike
<1>7. MainKnows(e)'
  BY <1>0, <1>2, <1>3 DEF MainKnows, RowsAlike, Working, Betting, Drawing
<1>8. main[e] # Down
  BY <1>0 DEF TaskKnows
<1> QED BY <1>1, <1>3, <1>5, <1>6, <1>7, <1>8, QuietStep

\* The row of one round is written, by the engine that drives or settles it.
LEMMA RoundStep ==
    ASSUME KenoInv, [KenoNext]_kenoVars, OneDrives, OneDrives', NEW e \in Engine,
           NEW r \in DOMAIN rounds, NEW row \in RoundRow, rounds' = [rounds EXCEPT ![r] = row],
           UNCHANGED <<tickets, posted>>,
           main[e] \notin {Down, At("recover")}, main'[e] \notin {Down, At("recover")},
           main' = [main EXCEPT ![e] = main'[e]], MainState(main'[e]),
           main'[e].at \in Working => /\ main[e].at \in Working
                                      /\ main'[e].todo = main[e].todo
                                      /\ main'[e].r \in {0, main[e].r}
                                      /\ \A x \in main[e].todo : x[1] # r,
           task' = [task EXCEPT ![e] = task'[e]], task'[e] \in [Round -> TaskState],
           \A q \in Round : q # r => task'[e][q] = task[e][q],
           MainKnows(e)', TaskKnows(e, r)', RoundBooks(r)'
    PROVE  KenoInv'
<1>0. KenoTypeOK /\ TodoUntouched(e) /\ (\A q \in Round : TaskKnows(e, q))
      /\ (\A t \in Ticket : TicketBooks(t)) /\ \A q \in DOMAIN rounds : RoundBooks(q)
  BY DEF KenoInv
<1>1. /\ rounds' \in Seq(RoundRow) /\ Len(rounds') = Len(rounds)
      /\ DOMAIN rounds' = DOMAIN rounds /\ \A q \in DOMAIN rounds : q # r => rounds'[q] = rounds[q]
  BY <1>0, RoundWritten
<1>2. \A q : Pending(q)' = Pending(q)
  BY DEF Pending, TicketsOf
<1>3. DOMAIN rounds \subseteq Round /\ \A q \in Round : q # 0
  BY <1>0, RoundRange DEF Round
<1>4. TodoUntouched(e)'
  BY <1>0, <1>1, <1>3 DEF TodoUntouched
<1>5. ASSUME NEW q \in Round, q # r PROVE TaskKnows(e, q)'
  <2>1. TaskKnows(e, q) /\ task'[e][q] = task[e][q] /\ q # 0
    BY <1>0, <1>3, <1>5
  <2>2. q \in DOMAIN rounds => rounds'[q] = rounds[q]
    BY <1>1, <1>5
  <2> QED BY <1>1, <1>2, <2>1, <2>2 DEF TaskKnows
<1>6. \A t \in Ticket : TicketBooks(t)'
  BY <1>0, <1>1 DEF TicketBooks, JackpotMoved, JackpotKeys
<1>7. ASSUME NEW q \in DOMAIN rounds' PROVE RoundBooks(q)'
  <2>1. CASE q = r
    BY <2>1
  <2>2. CASE q # r
    <3>1. RoundBooks(q) /\ rounds'[q] = rounds[q]
      BY <1>0, <1>1, <2>2
    <3> QED BY <1>2, <3>1 DEF RoundBooks
  <2> QED BY <2>1, <2>2
<1>8. Len(rounds') <= MaxRounds /\ tickets' \in [Ticket -> TicketRow] /\ PostedType'
  BY <1>0, <1>1 DEF KenoTypeOK, PostedType
<1> QED BY <1>1, <1>4, <1>5, <1>6, <1>7, <1>8, EngineStep

-----------------------------------------------------------------------------
(***************************************************************************)
(* Steps that leave the rounds and tickets as they are.                    *)
(***************************************************************************)

\* What an engine may hold at a label.
LocalOK(l, x) ==
    /\ l = "placing" => x \subseteq Listed
    /\ l \in {"count", "exhaust"} => x[1] \in Listed /\ x[2] \subseteq Listed
    /\ l \in {"refund", "closing"} => x \subseteq Ticket

\* What a state of an engine is made of.
LEMMA WorkSet ==
    ASSUME NEW l \in Working, NEW todo \in SUBSET (Round \X Statuses), NEW r \in 0 .. MaxRounds, NEW x,
           LocalOK(l, x)
    PROVE  /\ MainState([at |-> l, todo |-> todo, r |-> r, local |-> x])
           /\ [at |-> l, todo |-> todo, r |-> r, local |-> x] \notin {Down, At("recover"), At("drain")}
<1> DEFINE m == [at |-> l, todo |-> todo, r |-> r, local |-> x]
<1>1. m.at = l /\ m.todo = todo /\ m.r = r /\ m.local = x
  OBVIOUS
<1>2. m = [at |-> m.at, todo |-> m.todo, r |-> m.r, local |-> m.local]
  OBVIOUS
<1> HIDE DEF m
<1>3. WorkType(m)
  BY <1>1, <1>2 DEF WorkType, LocalOK
<1>4. m \notin {Down, At("recover"), At("drain")}
  BY <1>1 DEF Down, At, Working, Betting, Drawing
<1>5. MainState(m)
  BY <1>1, <1>3 DEF MainState
<1> QED BY <1>4, <1>5 DEF m

\* An engine at work goes on to label l and holds x.
LEMMA MovesOn ==
    ASSUME KenoInv, [KenoNext]_kenoVars, OneDrives, OneDrives', NEW e \in Engine, RowsAlike,
           main[e].at \in Working, UNCHANGED task, NEW l \in Working, NEW x, LocalOK(l, x),
           main' = [main EXCEPT ![e] = main'[e]],
           main'[e] = [at |-> l, todo |-> main[e].todo, r |-> main[e].r, local |-> x],
           MainKnows(e)'
    PROVE  KenoInv'
<1>1. WorkType(main[e])
  BY Fields DEF KenoInv
<1>2. main[e].todo \subseteq Round \X Statuses /\ main[e].r \in 0 .. MaxRounds
  BY <1>1 DEF WorkType
<1>3. MainState(main'[e]) /\ main'[e] \notin {Down, At("recover"), At("drain")}
  BY <1>2, WorkSet
<1>4. main'[e].todo = main[e].todo /\ main'[e].r = main[e].r
  OBVIOUS
<1> QED BY <1>3, <1>4, MainMove

\* The rows are alike when nobody writes them.
LEMMA Alike ==
    ASSUME KenoInv, UNCHANGED <<rounds, tickets, posted>>
    PROVE  RowsAlike
BY DEF RowsAlike, KenoInv, KenoTypeOK

\* An engine selects what it will use later, or goes on.
LEMMA SelectsKeep ==
    ASSUME KenoInv, [KenoNext]_kenoVars, OneDrives, OneDrives', NEW e \in Engine,
           \/ SelectRefunds(e) \/ ListSessions(e) \/ SelectTicketIds(e) \/ ReadDraw(e)
           \/ PlacingOver(e) \/ BettingOver(e)
    PROVE  KenoInv'
<1>0. KenoTypeOK /\ MainKnows(e) /\ (\A s \in Session : sessions[s].placed \in Nat)
      /\ (main[e].at \in Working => WorkType(main[e]))
  BY Fields, RoundRange DEF KenoInv, SessionRow
<1>1. UNCHANGED <<rounds, tickets, posted, task>>
  BY DEF SelectRefunds, ListSessions, SelectTicketIds, ReadDraw, PlacingOver, BettingOver, db
<1>2. RowsAlike /\ \A q : Pending(q)' = Pending(q)
  BY <1>1, Alike, BooksAlike
<1>3. CASE SelectRefunds(e)
  <2>1. main[e].at = "fail" /\ With(e, "refund", Pending(R(e)))
    BY <1>3 DEF SelectRefunds, Driving
  <2>2. main[e].at \in Working /\ "refund" \in Working
    BY <2>1 DEF Working
  <2>3. /\ main' = [main EXCEPT ![e] = main'[e]]
        /\ main'[e] = [at |-> "refund", todo |-> main[e].todo, r |-> main[e].r, local |-> Pending(R(e))]
    BY <1>0, <2>1, <2>2, WithMoves
  <2>4. LocalOK("refund", Pending(R(e)))
    BY DEF LocalOK, Pending, TicketsOf
  <2>5. MainKnows(e)'
    BY <1>0, <1>1, <1>2, <2>1, <2>2, <2>3 DEF MainKnows, R, Betting, Drawing
  <2> QED BY <1>1, <1>2, <2>2, <2>3, <2>4, <2>5, MovesOn
<1>4. CASE ListSessions(e)
  <2> DEFINE x == {<<s, sessions[s].placed>> : s \in {q \in Session : sessions[q].status = "active"}}
  <2>1. main[e].at = "autoplay" /\ With(e, "placing", x)
    BY <1>4 DEF ListSessions, Driving
  <2>2. LocalOK("placing", x)
    BY <1>0 DEF LocalOK, Listed
  <2> HIDE DEF x
  <2>3. main[e].at \in Working /\ "placing" \in Working
    BY <2>1 DEF Working, Betting
  <2>4. /\ main' = [main EXCEPT ![e] = main'[e]]
        /\ main'[e] = [at |-> "placing", todo |-> main[e].todo, r |-> main[e].r, local |-> x]
    BY <1>0, <2>1, <2>3, WithMoves
  <2>5. MainKnows(e)'
    BY <1>0, <1>1, <2>1, <2>3, <2>4 DEF MainKnows, Betting, Drawing
  <2> QED BY <1>1, <1>2, <2>2, <2>3, <2>4, <2>5, MovesOn
<1>5. CASE SelectTicketIds(e)
  <2>1. main[e].at = "close" /\ With(e, "closing", TicketsOf(R(e)))
    BY <1>5 DEF SelectTicketIds, Driving
  <2>2. main[e].at \in Working /\ "closing" \in Working
    BY <2>1 DEF Working, Betting
  <2>3. /\ main' = [main EXCEPT ![e] = main'[e]]
        /\ main'[e] = [at |-> "closing", todo |-> main[e].todo, r |-> main[e].r, local |-> TicketsOf(R(e))]
    BY <1>0, <2>1, <2>2, WithMoves
  <2>4. LocalOK("closing", TicketsOf(R(e)))
    BY DEF LocalOK, TicketsOf
  <2>5. MainKnows(e)'
    BY <1>0, <1>1, <2>1, <2>2, <2>3 DEF MainKnows, Betting, Drawing
  <2> QED BY <1>1, <1>2, <2>2, <2>3, <2>4, <2>5, MovesOn
<1>6. CASE ReadDraw(e)
  <2> DEFINE l == IF rounds[R(e)].drawn = NoSeed THEN "drawing" ELSE "reveal"
             x == rounds[R(e)].seed
  <2>1. main[e].at = "draw" /\ With(e, l, x)
    BY <1>6 DEF ReadDraw, Driving, With
  <2>2. l \in {"drawing", "reveal"} /\ (l = "drawing" => rounds[main[e].r].drawn = NoSeed)
        /\ x = rounds[main[e].r].seed
    BY DEF R
  <2> HIDE DEF l, x
  <2>3. main[e].at \in Working /\ l \in Working /\ LocalOK(l, x)
    BY <2>1, <2>2 DEF Working, Drawing, LocalOK
  <2>4. /\ main' = [main EXCEPT ![e] = main'[e]]
        /\ main'[e] = [at |-> l, todo |-> main[e].todo, r |-> main[e].r, local |-> x]
    BY <1>0, <2>1, <2>3, WithMoves
  <2>5. MainKnows(e)'
    BY <1>0, <1>1, <2>1, <2>2, <2>3, <2>4 DEF MainKnows, Betting, Drawing
  <2> QED BY <1>1, <1>2, <2>3, <2>4, <2>5, MovesOn
<1>7. ASSUME NEW a \in {"placing", "betting"}, NEW l \in {"betting", "close"},
             main[e].at = a, Go(e, l)
      PROVE  KenoInv'
  <2>1. main[e].at \in Working /\ l \in Working /\ LocalOK(l, main[e].local)
    BY <1>7 DEF Working, Betting, LocalOK
  <2>2. /\ main' = [main EXCEPT ![e] = main'[e]]
        /\ main'[e] = [at |-> l, todo |-> main[e].todo, r |-> main[e].r, local |-> main[e].local]
    BY <1>0, <1>7, <2>1, Moves
  <2>3. MainKnows(e)'
    BY <1>0, <1>1, <1>7, <2>1, <2>2 DEF MainKnows, Betting, Drawing
  <2> QED BY <1>1, <1>2, <2>1, <2>2, <2>3, MovesOn
<1>8. CASE PlacingOver(e) \/ BettingOver(e)
  BY <1>7, <1>8 DEF PlacingOver, BettingOver, Driving
<1> QED BY <1>3, <1>4, <1>5, <1>6, <1>8

\* An engine goes on with its list of sessions.
LEMMA PlacingMoves ==
    ASSUME KenoInv, [KenoNext]_kenoVars, OneDrives, OneDrives', NEW e \in Engine,
           UNCHANGED <<rounds, tickets, posted, task>>, main[e].at \in {"placing", "count", "exhaust"},
           NEW l \in {"placing", "exhaust"}, NEW x, LocalOK(l, x), With(e, l, x)
    PROVE  KenoInv'
<1>0. KenoTypeOK /\ MainKnows(e) /\ RowsAlike
  BY Alike DEF KenoInv
<1>1. main[e].at \in Working /\ l \in Working
  BY DEF Working, Betting
<1>2. /\ main' = [main EXCEPT ![e] = main'[e]]
      /\ main'[e] = [at |-> l, todo |-> main[e].todo, r |-> main[e].r, local |-> x]
  BY <1>0, <1>1, WithMoves
<1>3. MainKnows(e)'
  BY <1>0, <1>1, <1>2 DEF MainKnows, Betting, Drawing
<1> QED BY <1>0, <1>1, <1>2, <1>3, MovesOn

\* Placing for the sessions, but for the tickets themselves.
LEMMA PlacingKeeps ==
    ASSUME KenoInv, [KenoNext]_kenoVars, OneDrives, OneDrives', NEW e \in Engine,
           RejectForSession(e) \/ CountPlaced(e) \/ ExhaustIfDone(e) \/ PlacementFails(e)
    PROVE  KenoInv'
<1>0. KenoTypeOK /\ (main[e].at \in Working => WorkType(main[e]))
  BY Fields DEF KenoInv
<1>1. UNCHANGED <<rounds, tickets, posted, task>>
  BY DEF RejectForSession, CountPlaced, ExhaustIfDone, PlacementFails, db
<1>2. ASSUME main[e].at = "placing"
      PROVE  \A x : LocalOK("placing", main[e].local \ {x})
  <2>1. main[e].local \subseteq Listed
    BY <1>0, <1>2 DEF WorkType, Working, Betting
  <2> QED BY <2>1 DEF LocalOK
<1>3. ASSUME main[e].at \in {"count", "exhaust"}
      PROVE  LocalOK("placing", main[e].local[2]) /\ LocalOK("exhaust", main[e].local)
  <2>1. main[e].local[1] \in Listed /\ main[e].local[2] \subseteq Listed
    BY <1>0, <1>3 DEF WorkType, Working, Betting
  <2> QED BY <2>1 DEF LocalOK
<1>4. CASE RejectForSession(e)
  <2>1. PICK x : With(e, "placing", main[e].local \ {x})
    BY <1>4 DEF RejectForSession
  <2>2. main[e].at = "placing"
    BY <1>4 DEF RejectForSession, Driving
  <2>3. LocalOK("placing", main[e].local \ {x})
    BY <1>2, <2>2
  <2> QED BY <1>1, <2>1, <2>2, <2>3, PlacingMoves
<1>5. CASE CountPlaced(e)
  <2>1. main[e].at = "count" /\ Go(e, "exhaust")
    BY <1>5 DEF CountPlaced, Driving
  <2>2. /\ main' = [main EXCEPT ![e] = main'[e]]
        /\ main'[e] = [at |-> "exhaust", todo |-> main[e].todo, r |-> main[e].r, local |-> main[e].local]
    BY <1>0, <2>1, Moves DEF Working, Betting
  <2>3. RowsAlike /\ MainKnows(e) /\ main[e].at \in Working /\ "exhaust" \in Working
    BY <1>1, <2>1, Alike DEF KenoInv, Working, Betting
  <2>4. MainKnows(e)'
    BY <1>1, <2>1, <2>2, <2>3 DEF MainKnows, Betting, Drawing
  <2>5. LocalOK("exhaust", main[e].local)
    BY <1>3, <2>1
  <2> QED BY <1>1, <2>2, <2>3, <2>4, <2>5, MovesOn
<1>6. CASE ExhaustIfDone(e)
  <2>1. main[e].at = "exhaust" /\ With(e, "placing", main[e].local[2])
    BY <1>6 DEF ExhaustIfDone, Driving
  <2> QED BY <1>1, <1>3, <2>1, PlacingMoves
<1>7. CASE PlacementFails(e)
  <2>1. CASE /\ Driving(e, "placing")
             /\ \E x \in main[e].local : StopAfterError(x[1]) /\ With(e, "placing", main[e].local \ {x})
    <3>1. PICK x : With(e, "placing", main[e].local \ {x})
      BY <2>1
    <3>2. main[e].at = "placing"
      BY <2>1 DEF Driving
    <3>3. LocalOK("placing", main[e].local \ {x})
      BY <1>2, <3>2
    <3> QED BY <1>1, <3>1, <3>2, <3>3, PlacingMoves
  <2>2. CASE main[e].at \in {"count", "exhaust"} /\ With(e, "placing", main[e].local[2])
    <3>1. LocalOK("placing", main[e].local[2])
      BY <1>3, <2>2
    <3> QED BY <1>1, <2>2, <3>1, PlacingMoves
  <2> QED BY <1>7, <2>1, <2>2 DEF PlacementFails
<1> QED BY <1>4, <1>5, <1>6, <1>7

\* An engine leaves its round, or fails.
LEMMA LeavingKeeps ==
    ASSUME KenoInv, [KenoNext]_kenoVars, OneDrives, OneDrives', NEW e \in Engine,
           BettingAborted(e) \/ EngineFails(e)
    PROVE  KenoInv'
<1>0. KenoTypeOK
  BY DEF KenoInv
<1>1. UNCHANGED <<rounds, tickets, posted, task>> /\ RowsAlike
  BY Alike DEF BettingAborted, EngineFails, db
<1>2. CASE BettingAborted(e)
  <2>1. main[e].at = "betting" /\ NextRound(e)
    BY <1>2 DEF BettingAborted, Driving
  <2>2. main[e].at \in Working /\ WorkType(main[e])
    BY <1>0, <2>1, Fields DEF Working, Betting
  <2>3. /\ main' = [main EXCEPT ![e] = main'[e]]
        /\ main'[e] = [at |-> "next", todo |-> main[e].todo, r |-> 0, local |-> {}]
    BY <1>0, <2>1, Moves
  <2>4. "next" \in Working /\ main[e].todo \subseteq Round \X Statuses /\ 0 \in 0 .. MaxRounds
        /\ LocalOK("next", {})
    BY <2>2, KenoConstants DEF WorkType, Working, LocalOK
  <2>5. MainState(main'[e]) /\ main'[e] \notin {Down, At("recover"), At("drain")}
    <3> DEFINE todo == main[e].todo
               none == {}
               zero == 0
               l == "next"
    <3>1. todo \in SUBSET (Round \X Statuses) /\ l \in Working /\ zero \in 0 .. MaxRounds /\ LocalOK(l, none)
      BY <2>4
    <3>2. main'[e] = [at |-> l, todo |-> todo, r |-> zero, local |-> none]
      BY <2>3
    <3> HIDE DEF todo, none, zero, l
    <3> QED BY <3>1, <3>2, WorkSet
  <2>6. MainKnows(e)' /\ main'[e].todo = main[e].todo /\ main'[e].r = 0
    BY <2>3 DEF MainKnows, Betting, Drawing
  <2> QED BY <1>1, <2>2, <2>3, <2>5, <2>6, MainMove
<1>3. CASE EngineFails(e)
  <2>1. main' = [main EXCEPT ![e] = At("drain")] /\ main[e] # Down
    BY <1>3 DEF EngineFails, Down, At
  <2>2. main' = [main EXCEPT ![e] = main'[e]] /\ main'[e] = At("drain")
    BY <1>0, <2>1, Moves
  <2>3. MainState(main'[e]) /\ main'[e] \notin {Down, At("recover")} /\ main'[e].at \notin Working
    BY <2>2 DEF MainState, Down, At, Working, Betting, Drawing
  <2>4. MainKnows(e)' /\ TodoUntouched(e)'
    BY <2>3 DEF MainKnows, TodoUntouched
  <2>5. task' = [task EXCEPT ![e] = task'[e]] /\ task'[e] \in [Round -> TaskState]
    BY <1>0, <1>1, TasksStay
  <2>6. ASSUME NEW r \in Round PROVE TaskKnows(e, r)'
    <3>1. TaskKnows(e, r) /\ Pending(r)' = Pending(r)
      BY <1>1, BooksAlike DEF KenoInv
    <3> QED BY <1>1, <2>3, <3>1 DEF TaskKnows
  <2> QED BY <1>1, <2>1, <2>2, <2>3, <2>4, <2>5, <2>6, QuietStep
<1> QED BY <1>2, <1>3

\* An engine starts or ends: nothing is at hand.
LEMMA StartEndKeeps ==
    ASSUME KenoInv, [KenoNext]_kenoVars, OneDrives, OneDrives', NEW e \in Engine,
           WinLock(e) \/ Exit(e) \/ EngineCrash(e)
    PROVE  KenoInv'
<1>0. KenoTypeOK
  BY DEF KenoInv
<1>1. UNCHANGED <<rounds, tickets, posted>> /\ RowsAlike
  BY Alike DEF WinLock, Exit, EngineCrash, db
<1>2. main' = [main EXCEPT ![e] = main'[e]] /\ main'[e] \in {Down, At("recover")}
  <2>1. main' = [main EXCEPT ![e] = At("recover")] \/ main' = [main EXCEPT ![e] = Down]
    BY DEF WinLock, Exit, EngineCrash
  <2> QED BY <1>0, <2>1, Moves
<1>3. main[e] # Down \/ main'[e] # Down
  <2>1. CASE WinLock(e)
    <3>1. main' = [main EXCEPT ![e] = At("recover")] /\ At("recover") # Down
      BY <2>1 DEF WinLock, At, Down
    <3> QED BY <1>0, <3>1, Moves
  <2>2. CASE Exit(e) \/ EngineCrash(e)
    BY <2>2 DEF Exit, EngineCrash, Driving, Down, At
  <2> QED BY <2>1, <2>2
<1>4. task' = [task EXCEPT ![e] = task'[e]] /\ \A r \in Round : task'[e][r] = NoTask
  <2>1. CASE WinLock(e)
    <3>1. UNCHANGED task /\ main[e] = Down
      BY <2>1 DEF WinLock
    <3> QED BY <1>0, <3>1, TasksStay, DownIdle
  <2>2. CASE Exit(e)
    BY <1>0, <2>2, TasksStay DEF Exit
  <2>3. CASE EngineCrash(e)
    <3> DEFINE v == [r \in Round |-> NoTask]
    <3>1. task' = [task EXCEPT ![e] = v] /\ \A r \in Round : v[r] = NoTask
      BY <2>3 DEF EngineCrash
    <3> HIDE DEF v
    <3> QED BY <1>0, <3>1 DEF KenoTypeOK
  <2> QED BY <2>1, <2>2, <2>3
<1>5. task'[e] \in [Round -> TaskState]
  <2>1. CASE WinLock(e) \/ Exit(e)
    BY <1>0, <2>1, TasksStay DEF WinLock, Exit
  <2>2. CASE EngineCrash(e)
    <3> DEFINE v == [r \in Round |-> NoTask]
    <3>1. task' = [task EXCEPT ![e] = v] /\ v \in [Round -> TaskState]
      BY <2>2 DEF EngineCrash, TaskState
    <3> HIDE DEF v
    <3> QED BY <1>0, <3>1 DEF KenoTypeOK
  <2> QED BY <2>1, <2>2
<1>6. MainState(main'[e]) /\ MainKnows(e)' /\ TodoUntouched(e)'
  BY <1>2 DEF MainState, MainKnows, TodoUntouched, Down, At, Working, Betting, Drawing
<1>7. \A r \in Round : TaskKnows(e, r)'
  BY <1>4 DEF TaskKnows
<1> QED BY <1>1, <1>2, <1>3, <1>4, <1>5, <1>6, <1>7, QuietStep

\* What recovery read is now in hand.
LEMMA ReadStuckKeeps ==
    ASSUME KenoInv, [KenoNext]_kenoVars, OneDrives, OneDrives', NEW e \in Engine, ReadStuckRounds(e)
    PROVE  KenoInv'
<1> DEFINE todo == {<<r, rounds[r].status>> : r \in {q \in DOMAIN rounds : Live(q)}}
           l == "next"
           none == {}
           zero == 0
<1>0. KenoTypeOK
  BY DEF KenoInv
<1>1. UNCHANGED <<rounds, tickets, posted, task>> /\ RowsAlike
  BY Alike DEF ReadStuckRounds, db
<1>2. main[e].at = "recover" /\ main' = [main EXCEPT ![e] = Work(l, todo, zero)]
  BY DEF ReadStuckRounds, Driving
<1>3. \A x \in todo : x[1] \in DOMAIN rounds /\ rounds[x[1]].status = x[2] /\ x[2] \notin Terminal
  BY DEF Live
<1>4. todo \in SUBSET (Round \X Statuses)
  BY <1>0, RoundRange DEF RoundRow
<1>5. zero = 0 /\ l = "next" /\ zero \in 0 .. MaxRounds /\ l \in Working /\ LocalOK(l, none)
  BY KenoConstants DEF Working, LocalOK
<1> HIDE DEF todo, l, none, zero
<1>6. main' = [main EXCEPT ![e] = main'[e]]
      /\ main'[e] = [at |-> l, todo |-> todo, r |-> zero, local |-> none]
  BY <1>0, <1>2, Moves DEF Work, none
<1>7. MainState(main'[e]) /\ main'[e] \notin {Down, At("recover"), At("drain")}
  BY <1>4, <1>5, <1>6, WorkSet
<1>8. main[e] \in {Down, At("recover")} /\ main[e] # Down
  <2>1. MainState(main[e])
    BY <1>0 DEF KenoTypeOK
  <2> QED BY <1>2, <2>1 DEF MainState, Down, At, Working, Betting, Drawing
<1>9. \A r \in Round : task[e][r] = NoTask
  BY <1>8, DownIdle
<1>10. MainKnows(e)'
  BY <1>5, <1>6 DEF MainKnows, Betting, Drawing
<1>11. TodoUntouched(e)'
  <2>1. \A x \in todo : x[1] \in Round /\ x[1] # 0
    BY <1>0, <1>3, RoundRange DEF Round
  <2> QED BY <1>1, <1>3, <1>5, <1>6, <1>9, <2>1 DEF TodoUntouched
<1>12. \A r \in Round : TaskKnows(e, r)'
  BY <1>1, <1>9 DEF TaskKnows
<1>13. task' = [task EXCEPT ![e] = task'[e]] /\ task'[e] \in [Round -> TaskState]
  BY <1>0, <1>1, TasksStay
<1> QED BY <1>1, <1>6, <1>7, <1>8, <1>10, <1>11, <1>12, <1>13, QuietStep

\* Recovery takes one row up.
LEMMA RecoverRoundKeeps ==
    ASSUME KenoInv, [KenoNext]_kenoVars, OneDrives, OneDrives', NEW e \in Engine, RecoverRound(e)
    PROVE  KenoInv'
<1>0. KenoTypeOK /\ MainKnows(e) /\ TodoUntouched(e) /\ \A r \in Round : TaskKnows(e, r)
  BY DEF KenoInv
<1>1. UNCHANGED <<rounds, tickets, posted>> /\ RowsAlike /\ \A q : Pending(q)' = Pending(q)
  BY Alike, BooksAlike DEF RecoverRound, db
<1>2. PICK x \in main[e].todo :
         /\ main' = [main EXCEPT ![e] =
              IF x[2] = "settling" THEN Work("next", main[e].todo \ {x}, 0)
              ELSE Work(IF rounds[x[1]].old THEN "fail" ELSE Resumed(x[2]), main[e].todo \ {x}, x[1])]
         /\ Spawn(e, IF x[2] = "settling" THEN {x[1]} ELSE {})
  BY DEF RecoverRound
<1> DEFINE l == IF x[2] = "settling" THEN "next" ELSE IF rounds[x[1]].old THEN "fail" ELSE Resumed(x[2])
           r == IF x[2] = "settling" THEN 0 ELSE x[1]
           todo == main[e].todo \ {x}
           none == {}
           rs == IF x[2] = "settling" THEN {x[1]} ELSE {}
<1>3. main[e].at = "next" /\ main[e].at \in Working /\ WorkType(main[e]) /\ main[e] # Down
  BY <1>0, Fields DEF RecoverRound, Driving, Working
<1>4. /\ x[1] \in DOMAIN rounds /\ rounds[x[1]].status = x[2] /\ x[2] \notin Terminal
      /\ task[e][x[1]] = NoTask /\ x[1] \in Round /\ x[2] \in Statuses /\ x[1] # 0
  BY <1>0, <1>3 DEF TodoUntouched, WorkType, Round
<1>5. \A y \in todo : /\ y[1] \in DOMAIN rounds /\ rounds[y[1]].status = y[2] /\ y[2] \notin Terminal
                      /\ task[e][y[1]] = NoTask /\ y[1] # x[1] /\ y[1] # 0 /\ y[1] \in Round
  <2>1. ASSUME NEW y \in todo PROVE y = <<y[1], y[2]>> /\ x = <<x[1], x[2]>> /\ y[1] \in Round
    BY <1>3 DEF WorkType
  <2>2. \A y \in todo : y[1] \in DOMAIN rounds /\ rounds[y[1]].status = y[2] /\ y[2] \notin Terminal
                        /\ task[e][y[1]] = NoTask
    BY <1>0, <1>3 DEF TodoUntouched
  <2>3. ASSUME NEW y \in todo PROVE y[1] # x[1] /\ y[1] # 0
    BY <1>4, <2>1, <2>2 DEF Round
  <2> QED BY <2>1, <2>2, <2>3
<1>6. main' = [main EXCEPT ![e] = [at |-> l, todo |-> todo, r |-> r, local |-> none]]
  BY <1>2 DEF Work
<1>7. x[2] # "settling" => x[2] \in {"scheduled", "betting_open"} \union Drawable
  BY <1>4 DEF Statuses
<1>8. /\ l \in Working /\ l \notin {"create", "drawing", "refund"} /\ (l = "next" <=> r = 0)
      /\ l # "next" => r = x[1] /\ x[2] # "settling"
      /\ l = "open" => x[2] = "scheduled"
      /\ l \in Betting => x[2] = "betting_open"
      /\ l \in Drawing => x[2] \in Drawable
      /\ LocalOK(l, none)
  BY <1>4, <1>7 DEF Resumed, Working, Betting, Drawing, Drawable, LocalOK
<1>9. todo \in SUBSET (Round \X Statuses) /\ r \in 0 .. MaxRounds
  BY <1>3, <1>4, KenoConstants DEF WorkType, Round
<1>10. \A q : q \in rs <=> (x[2] = "settling" /\ q = x[1])
  OBVIOUS
<1>11. r = 0 \/ (r = x[1] /\ x[2] # "settling")
  OBVIOUS
<1>12. none = {}
  OBVIOUS
<1> HIDE DEF l, r, todo, none, rs
<1>13. main' = [main EXCEPT ![e] = main'[e]]
       /\ main'[e] = [at |-> l, todo |-> todo, r |-> r, local |-> none]
  BY <1>0, <1>6, Moves
<1>14. MainState(main'[e]) /\ main'[e] \notin {Down, At("recover"), At("drain")}
  BY <1>8, <1>9, <1>13, WorkSet
<1>15. /\ task' = [task EXCEPT ![e] = task'[e]] /\ task'[e] \in [Round -> TaskState]
       /\ \A q \in Round : task'[e][q] = IF q \in rs THEN At("start") ELSE task[e][q]
  BY <1>0, <1>2, Spawned DEF rs
<1>16. MainKnows(e)'
  <2>1. main'[e].at = l /\ main'[e].r = r
    BY <1>13
  <2>2. l # "next" => r \in DOMAIN rounds /\ rounds[r].status = x[2]
    BY <1>4, <1>8
  <2> QED BY <1>1, <1>7, <1>8, <2>1, <2>2 DEF MainKnows, Betting, Drawing
<1>17. TodoUntouched(e)'
  <2>1. main'[e].todo = todo /\ main'[e].r = r
    BY <1>13
  <2>2. ASSUME NEW y \in todo PROVE task'[e][y[1]] = NoTask /\ y[1] # r
    BY <1>5, <1>10, <1>11, <1>15
  <2> QED BY <1>1, <1>5, <2>1, <2>2 DEF TodoUntouched
<1>18. ASSUME NEW q \in Round PROVE TaskKnows(e, q)'
  <2>1. main'[e].r = r /\ q # 0
    BY <1>13 DEF Round
  <2>2. CASE q \in rs
    <3>1. task'[e][q] = At("start") /\ q = x[1] /\ x[2] = "settling" /\ r = 0
      BY <1>4, <1>10, <1>11, <1>15, <2>2
    <3>2. At("start").at = "start"
      BY DEF At
    <3> QED BY <1>1, <1>4, <1>14, <2>1, <3>1, <3>2 DEF TaskKnows
  <2>3. CASE q \notin rs
    <3>1. task'[e][q] = task[e][q] /\ TaskKnows(e, q) /\ (task[e][q] # NoTask => q # x[1])
      BY <1>0, <1>4, <1>15, <2>3
    <3> QED BY <1>1, <1>11, <1>14, <2>1, <3>1 DEF TaskKnows
  <2> QED BY <2>2, <2>3
<1> QED BY <1>1, <1>3, <1>13, <1>14, <1>15, <1>16, <1>17, <1>18, QuietStep

\* The sweep starts a settlement where none runs.
LEMMA SweepKeeps ==
    ASSUME KenoInv, [KenoNext]_kenoVars, OneDrives, OneDrives', NEW e \in Engine, Sweep(e)
    PROVE  KenoInv'
<1> DEFINE rs == {r \in DOMAIN rounds : rounds[r].status = "settling" /\ task[e][r] = NoTask}
           l == IF Len(rounds) < MaxRounds THEN "create" ELSE "next"
           x == main[e].local
<1>0. KenoTypeOK /\ MainKnows(e) /\ \A r \in Round : TaskKnows(e, r)
  BY DEF KenoInv
<1>1. UNCHANGED <<rounds, tickets, posted>> /\ RowsAlike /\ \A q : Pending(q)' = Pending(q)
  BY Alike, BooksAlike DEF Sweep, db
<1>2. main[e].at = "next" /\ main[e].todo = {} /\ Go(e, l) /\ Spawn(e, rs)
  BY DEF Sweep, Continues, Driving, Go
<1>3. l \in {"next", "create"}
  OBVIOUS
<1>4. \A q \in rs : q \in DOMAIN rounds /\ rounds[q].status = "settling"
  OBVIOUS
<1> HIDE DEF rs, l
<1>5. main[e].at \in Working /\ l \in Working /\ LocalOK(l, x)
  BY <1>2, <1>3 DEF Working, LocalOK
<1>6. WorkType(main[e]) /\ main[e] # Down
  BY <1>0, <1>5, Fields
<1>7. /\ main' = [main EXCEPT ![e] = main'[e]]
      /\ main'[e] = [at |-> l, todo |-> main[e].todo, r |-> main[e].r, local |-> x]
  BY <1>0, <1>2, <1>5, Moves
<1>8. main[e].todo \in SUBSET (Round \X Statuses) /\ main[e].r \in 0 .. MaxRounds /\ main[e].r = 0
  BY <1>0, <1>2, <1>5, <1>6 DEF WorkType, MainKnows
<1> HIDE DEF x
<1>9. MainState(main'[e]) /\ main'[e] \notin {Down, At("recover"), At("drain")}
  BY <1>5, <1>7, <1>8, WorkSet
<1>10. /\ task' = [task EXCEPT ![e] = task'[e]] /\ task'[e] \in [Round -> TaskState]
       /\ \A q \in Round : task'[e][q] = IF q \in rs THEN At("start") ELSE task[e][q]
  BY <1>0, <1>2, Spawned
<1>11. MainKnows(e)' /\ TodoUntouched(e)'
  <2>1. main'[e].at = l /\ main'[e].todo = {} /\ main'[e].r = 0
    BY <1>2, <1>7, <1>8
  <2>2. MainKnows(e)'
    BY <1>3, <2>1 DEF MainKnows, Betting, Drawing
  <2>3. TodoUntouched(e)'
    BY <2>1 DEF TodoUntouched
  <2> QED BY <2>2, <2>3
<1>12. ASSUME NEW q \in Round PROVE TaskKnows(e, q)'
  <2>1. main'[e].r = 0 /\ q # 0
    BY <1>7, <1>8 DEF Round
  <2>2. CASE q \in rs
    <3>1. task'[e][q] = At("start") /\ At("start").at = "start"
      BY <1>10, <2>2 DEF At
    <3> QED BY <1>1, <1>4, <1>9, <2>1, <2>2, <3>1 DEF TaskKnows
  <2>3. CASE q \notin rs
    <3>1. task'[e][q] = task[e][q] /\ TaskKnows(e, q)
      BY <1>0, <1>10, <2>3
    <3> QED BY <1>1, <1>9, <2>1, <3>1 DEF TaskKnows
  <2> QED BY <2>2, <2>3
<1> QED BY <1>1, <1>6, <1>7, <1>9, <1>10, <1>11, <1>12, QuietStep

\* A settlement reads its round, its tickets, or records one for autoplay.
LEMMA SettlementReads ==
    ASSUME KenoInv, [KenoNext]_kenoVars, OneDrives, OneDrives', NEW e \in Engine, NEW r \in Round,
           ReadRound(e, r) \/ SelectPending(e, r) \/ RecordSettlement(e, r) \/ SettlementFails(e, r)
    PROVE  KenoInv'
<1>0. KenoTypeOK /\ TaskKnows(e, r) /\ task[e][r] \in TaskState
  BY RoundRange DEF KenoInv
<1>1. UNCHANGED <<rounds, tickets, posted, main>> /\ RowsAlike /\ Pending(r)' = Pending(r)
  BY Alike, BooksAlike DEF ReadRound, SelectPending, RecordSettlement, SettlementFails, db
<1>2. NoTask.at = "none" /\ At("start").at = "start" /\ At("mark").at = "mark"
      /\ At("select").at = "select" /\ NoTask \in TaskState /\ At("mark") \in TaskState
  BY DEF NoTask, At, TaskState
<1>3. ASSUME NEW s \in TaskState, SetTask(e, r, s) PROVE task'[e][r] = s
  BY <1>0, <1>3, TaskSet
<1>4. ASSUME SetTask(e, r, NoTask), task[e][r] # NoTask PROVE KenoInv'
  <2>1. task'[e][r] = NoTask
    BY <1>2, <1>3, <1>4
  <2>2. TaskKnows(e, r)'
    BY <2>1 DEF TaskKnows
  <2> QED BY <1>1, <1>2, <1>4, <2>2, TaskMove
<1>5. CASE ReadRound(e, r)
  <2>1. task[e][r] # NoTask /\ task[e][r].at = "start"
    BY <1>2, <1>5 DEF ReadRound, Settling
  <2>2. CASE Live(r)
    <3>1. SetTask(e, r, At("mark"))
      BY <1>5, <2>2 DEF ReadRound
    <3>2. task'[e][r] = At("mark")
      BY <1>2, <1>3, <3>1
    <3>3. TaskKnows(e, r)'
      BY <1>0, <1>1, <1>2, <2>1, <3>2 DEF TaskKnows
    <3> QED BY <1>1, <1>2, <2>1, <3>1, <3>3, TaskMove
  <2>3. CASE ~Live(r)
    BY <1>4, <1>5, <2>1, <2>3 DEF ReadRound
  <2> QED BY <2>2, <2>3
<1>6. CASE SelectPending(e, r)
  <2> DEFINE s == [at |-> "pay", tickets |-> Pending(r)]
  <2>1. task[e][r] # NoTask /\ task[e][r].at = "select" /\ SetTask(e, r, s)
    BY <1>2, <1>6 DEF SelectPending, Settling
  <2>2. s \in TaskState /\ s.at = "pay" /\ s.tickets = Pending(r)
    BY DEF TaskState, Pending, TicketsOf
  <2> HIDE DEF s
  <2>3. task'[e][r] = s
    BY <1>3, <2>1, <2>2
  <2>4. TaskKnows(e, r)'
    BY <1>0, <1>1, <2>1, <2>2, <2>3 DEF TaskKnows
  <2> QED BY <1>1, <2>1, <2>2, <2>4, TaskMove
<1>7. CASE RecordSettlement(e, r)
  <2>0. task[e][r].at = "record" /\ task[e][r] # NoTask
    BY <1>2, <1>7 DEF RecordSettlement, Settling
  <2>1. PICK t \in task[e][r].tickets, over \in BOOLEAN :
          SetTask(e, r, [task[e][r] EXCEPT !.tickets = task[e][r].tickets \ {t}])
    BY <1>7 DEF RecordSettlement
  <2>2. task[e][r] \in [at : {"pay", "record"}, tickets : SUBSET Ticket]
    BY <1>0, <2>0 DEF TaskState, NoTask, At
  <2> DEFINE s == [task[e][r] EXCEPT !.tickets = task[e][r].tickets \ {t}]
  <2>3. s \in [at : {"pay", "record"}, tickets : SUBSET Ticket] /\ s.at = "record"
        /\ s.tickets \subseteq task[e][r].tickets
    BY <2>0, <2>2
  <2>4. SetTask(e, r, s)
    BY <2>1
  <2> HIDE DEF s
  <2>5. s \in TaskState
    BY <2>3 DEF TaskState
  <2>6. task'[e][r] = s
    BY <1>3, <2>4, <2>5
  <2>7. TaskKnows(e, r)'
    BY <1>0, <1>1, <2>0, <2>3, <2>6 DEF TaskKnows
  <2> QED BY <1>1, <2>0, <2>4, <2>5, <2>7, TaskMove
<1>8. CASE SettlementFails(e, r)
  <2>1. task[e][r] # NoTask /\ SetTask(e, r, NoTask)
    BY <1>2, <1>8 DEF SettlementFails, Settling
  <2> QED BY <1>4, <2>1
<1> QED BY <1>5, <1>6, <1>7, <1>8

\* Steps that no engine makes, or that touch the lock only.
LEMMA OthersKeep ==
    ASSUME KenoInv, [KenoNext]_kenoVars,
           \/ \E e \in Engine : LockStep(e) \/ LockExpires(e) \/ StopEngine(e)
           \/ \E s \in Session : StartSession(s) \/ StopSession(s)
           \/ UNCHANGED kenoVars
    PROVE  KenoInv'
<1>1. UNCHANGED <<rounds, tickets, posted, main, task>>
  BY DEF LockStep, LockLost, KeyExpires, LockExpires, StopEngine, StartSession, StopSession, kenoVars, db
<1> QED BY <1>1, Alike, StillStep

\* A round gets older, or one of its numbers is shown.
LEMMA AgingKeeps ==
    ASSUME KenoInv, [KenoNext]_kenoVars,
           (\E r \in Round : GrowOld(r)) \/ (\E e \in Engine : RevealNumber(e))
    PROVE  KenoInv'
<1>0. KenoTypeOK
  BY DEF KenoInv
<1>1. UNCHANGED <<tickets, posted, main, task>>
  BY DEF GrowOld, RevealNumber
<1>2. ASSUME NEW r \in Round, GrowOld(r) PROVE RowsAlike
  <2> DEFINE row == [rounds[r] EXCEPT !.old = TRUE]
  <2>1. r \in DOMAIN rounds /\ rounds' = [rounds EXCEPT ![r] = row]
    BY <1>0, <1>2 DEF GrowOld, KenoTypeOK
  <2>2. rounds[r] \in RoundRow
    BY <1>0, <2>1, RoundRange
  <2>3. row \in RoundRow
    <3>1. TRUE \in BOOLEAN
      OBVIOUS
    <3> QED BY <2>2, <3>1, Zenon DEF RoundRow
  <2>4. row.status = rounds[r].status /\ row.seed = rounds[r].seed /\ row.drawn = rounds[r].drawn
    BY <2>2 DEF RoundRow
  <2> HIDE DEF row
  <2> QED BY <1>0, <1>1, <2>1, <2>3, <2>4, RoundWritten DEF RowsAlike
<1>3. ASSUME NEW e \in Engine, RevealNumber(e) PROVE RowsAlike
  <2> DEFINE r == R(e)
             row == [rounds[r] EXCEPT !.revealed = @ + 1]
  <2>1. r \in DOMAIN rounds /\ rounds[r].revealed < DrawCount
    BY <1>3 DEF RevealNumber, Driving, KenoInv, MainKnows, R, Working, Drawing
  <2>2. rounds' = [rounds EXCEPT ![r] = row]
    BY <1>0, <1>3 DEF RevealNumber, KenoTypeOK
  <2>3. rounds[r] \in RoundRow
    BY <1>0, <2>1, RoundRange
  <2>4. row \in RoundRow
    BY <2>1, <2>3, KenoConstants DEF RoundRow
  <2>5. row.status = rounds[r].status /\ row.seed = rounds[r].seed /\ row.drawn = rounds[r].drawn
    BY <2>3 DEF RoundRow
  <2> HIDE DEF row, r
  <2> QED BY <1>0, <1>1, <2>1, <2>2, <2>4, <2>5, RoundWritten DEF RowsAlike
<1>4. RowsAlike
  BY <1>2, <1>3
<1> QED BY <1>1, <1>4, StillStep

-----------------------------------------------------------------------------
(***************************************************************************)
(* Steps that write a round.                                               *)
(***************************************************************************)

\* An engine gives its round up after an error.
LEMMA Drains ==
    ASSUME KenoInv, [KenoNext]_kenoVars, OneDrives, OneDrives', NEW e \in Engine,
           UNCHANGED <<rounds, tickets, posted, task>>, main[e].at \in Working,
           main' = [main EXCEPT ![e] = At("drain")]
    PROVE  KenoInv'
<1>1. main' = [main EXCEPT ![e] = main'[e]] /\ main'[e] = At("drain")
  BY Moves DEF KenoInv
<1>2. MainState(main'[e]) /\ main'[e] \notin {Down, At("recover")} /\ main'[e].at \notin Working
  BY <1>1 DEF MainState, Down, At, Working, Betting, Drawing
<1>3. MainKnows(e)'
  BY <1>2 DEF MainKnows
<1> QED BY <1>1, <1>2, <1>3, Alike, MainMove

\* A status is written as a row.
LEMMA StatusRow ==
    ASSUME KenoTypeOK, NEW r \in DOMAIN rounds, NEW s \in Statuses, SetStatus(r, s)
    PROVE  \E row \in RoundRow :
             /\ rounds' = [rounds EXCEPT ![r] = row]
             /\ row.status = s /\ row.seed = rounds[r].seed /\ row.drawn = rounds[r].drawn
<1> DEFINE row == [rounds[r] EXCEPT !.status = s]
<1>1. rounds[r] \in RoundRow
  BY RoundRange
<1>2. row \in RoundRow /\ row.status = s /\ row.seed = rounds[r].seed /\ row.drawn = rounds[r].drawn
  BY <1>1 DEF RoundRow
<1>3. rounds' = [rounds EXCEPT ![r] = row]
  BY DEF SetStatus, KenoTypeOK
<1> HIDE DEF row
<1> QED BY <1>2, <1>3

\* A settlement writes the status of its round.
LEMMA SettlementWrites ==
    ASSUME KenoInv, [KenoNext]_kenoVars, OneDrives, OneDrives', NEW e \in Engine, NEW r \in Round,
           MarkSettling(e, r) \/ CompleteRound(e, r)
    PROVE  KenoInv'
<1>0. KenoTypeOK /\ TaskKnows(e, r) /\ MainKnows(e) /\ TodoUntouched(e)
  BY DEF KenoInv
<1>1. UNCHANGED <<tickets, posted, main>> /\ \A q : Pending(q)' = Pending(q)
  BY DEF MarkSettling, CompleteRound, Pending, TicketsOf
<1>2. task[e][r] # NoTask /\ task[e][r].at \in {"mark", "record"}
  BY DEF MarkSettling, CompleteRound, Settling, NoTask, At
<1>3. r \in DOMAIN rounds /\ main[e] \notin {Down, At("recover")} /\ RoundBooks(r)
      /\ (main[e].at \in Working => main[e].r # r)
  BY <1>0, <1>2 DEF TaskKnows, KenoInv
<1>4. PICK s \in {"settling", "completed"}, ts \in {At("select"), NoTask} :
        /\ SetStatus(r, s) /\ SetTask(e, r, ts)
        /\ ts = NoTask \/ (ts = At("select") /\ s = "settling")
        /\ s = "completed" => task[e][r].at = "record"
  <2>1. MarkSettling(e, r) => SetStatus(r, "settling") /\ SetTask(e, r, At("select"))
    BY DEF MarkSettling
  <2>2. CompleteRound(e, r) => SetStatus(r, "completed") /\ SetTask(e, r, NoTask)
                               /\ task[e][r].at = "record"
    BY DEF CompleteRound, Settling
  <2>3. CASE MarkSettling(e, r)
    <3> WITNESS "settling" \in {"settling", "completed"}, At("select") \in {At("select"), NoTask}
    <3> QED BY <2>1, <2>3
  <2>4. CASE CompleteRound(e, r)
    <3> WITNESS "completed" \in {"settling", "completed"}, NoTask \in {At("select"), NoTask}
    <3> QED BY <2>2, <2>4
  <2> QED BY <2>3, <2>4
<1>5. PICK row \in RoundRow :
        /\ rounds' = [rounds EXCEPT ![r] = row]
        /\ row.status = s /\ row.seed = rounds[r].seed /\ row.drawn = rounds[r].drawn
  BY <1>0, <1>3, <1>4, StatusRow DEF Statuses, Terminal
<1>6. /\ DOMAIN rounds' = DOMAIN rounds /\ rounds'[r] = row
      /\ \A q \in DOMAIN rounds : q # r => rounds'[q] = rounds[q]
  BY <1>0, <1>3, <1>5, RoundWritten
<1>7. ts \in TaskState
  BY <1>4 DEF TaskState
<1>8. /\ task' = [task EXCEPT ![e] = task'[e]] /\ task'[e] \in [Round -> TaskState]
      /\ task'[e][r] = ts /\ \A q \in Round : q # r => task'[e][q] = task[e][q]
  BY <1>0, <1>4, <1>7, TaskSet
<1>9. main' = [main EXCEPT ![e] = main'[e]] /\ MainState(main'[e]) /\ main'[e] = main[e]
  BY <1>0, <1>1, MainStays
<1>10. MainKnows(e)'
  <2>1. CASE main[e].at \in Working /\ main[e].at \notin {"next", "create"}
    <3>1. main[e].r \in DOMAIN rounds /\ main[e].r # r
      BY <1>0, <1>3, <2>1 DEF MainKnows
    <3> QED BY <1>0, <1>1, <1>6, <1>9, <2>1, <3>1 DEF MainKnows
  <2>2. CASE main[e].at \notin Working \/ main[e].at \in {"next", "create"}
    BY <1>0, <1>9, <2>2 DEF MainKnows, Betting, Drawing
  <2> QED BY <2>1, <2>2
<1>11. TaskKnows(e, r)'
  <2>1. At("select").at = "select"
    BY DEF At
  <2> QED BY <1>1, <1>3, <1>4, <1>5, <1>6, <1>8, <2>1 DEF TaskKnows
<1>12. RoundBooks(r)'
  <2>1. s = "completed" => Pending(r) = {}
    BY <1>0, <1>2, <1>4 DEF TaskKnows
  <2> QED BY <1>1, <1>3, <1>4, <1>5, <1>6, <2>1 DEF RoundBooks
<1>13. main[e].at \in Working => \A x \in main[e].todo : x[1] # r
  BY <1>0, <1>2 DEF TodoUntouched
<1> QED BY <1>1, <1>3, <1>5, <1>8, <1>9, <1>10, <1>11, <1>12, <1>13, RoundStep

\* The main loop writes the row of its round and goes on with it.
LEMMA DrivesOn ==
    ASSUME KenoInv, [KenoNext]_kenoVars, OneDrives, OneDrives', NEW e \in Engine,
           UNCHANGED <<tickets, posted, task>>, main[e].at \in Working,
           NEW r \in DOMAIN rounds, main[e].r = r,
           NEW row \in RoundRow, rounds' = [rounds EXCEPT ![r] = row],
           NEW l \in Working, NEW x, LocalOK(l, x),
           main' = [main EXCEPT ![e] = main'[e]],
           main'[e] = [at |-> l, todo |-> main[e].todo, r |-> main[e].r, local |-> x],
           MainKnows(e)', RoundBooks(r)'
    PROVE  KenoInv'
<1>0. KenoTypeOK /\ TodoUntouched(e) /\ \A q \in Round : TaskKnows(e, q)
  BY DEF KenoInv
<1>1. WorkType(main[e]) /\ main[e] \notin {Down, At("recover")}
  BY <1>0, Fields DEF Down, At, Working, Betting, Drawing
<1>2. main[e].todo \in SUBSET (Round \X Statuses) /\ main[e].r \in 0 .. MaxRounds
  BY <1>1 DEF WorkType
<1>3. MainState(main'[e]) /\ main'[e] \notin {Down, At("recover"), At("drain")}
      /\ main'[e].todo = main[e].todo /\ main'[e].r = main[e].r
  BY <1>2, WorkSet
<1>4. task' = [task EXCEPT ![e] = task'[e]] /\ task'[e] \in [Round -> TaskState] /\ task' = task
  BY <1>0, TasksStay
<1>5. r \in Round /\ task[e][r] = NoTask
  BY <1>0, RoundRange DEF TaskKnows
<1>6. TaskKnows(e, r)'
  BY <1>4, <1>5 DEF TaskKnows
<1>7. \A y \in main[e].todo : y[1] # r
  BY <1>0 DEF TodoUntouched
<1>9. \A q \in Round : q # r => task'[e][q] = task[e][q]
  BY <1>4
<1>10. main'[e].at \in Working => /\ main[e].at \in Working /\ main'[e].todo = main[e].todo
                                 /\ main'[e].r \in {0, main[e].r} /\ \A y \in main[e].todo : y[1] # r
  BY <1>3, <1>7
<1>11. UNCHANGED <<tickets, posted>> /\ main'[e] \notin {Down, At("recover")}
  BY <1>3
<1> QED BY <1>1, <1>3, <1>4, <1>6, <1>9, <1>10, <1>11, RoundStep

\* The main loop opens, closes and draws its round.
LEMMA DrivingKeeps ==
    ASSUME KenoInv, [KenoNext]_kenoVars, OneDrives, OneDrives', NEW e \in Engine,
           OpenBetting(e) \/ CloseBetting(e) \/ Draw(e)
    PROVE  KenoInv'
<1>0. KenoTypeOK /\ MainKnows(e) /\ \A q \in DOMAIN rounds : RoundBooks(q) /\ rounds[q] \in RoundRow
  BY RoundRange DEF KenoInv
<1>1. UNCHANGED <<tickets, posted, task>>
  BY DEF OpenBetting, CloseBetting, Draw
<1>2. main[e].at \in {"open", "closing", "drawing"} /\ main[e].at \in Working /\ WorkType(main[e])
  BY <1>0, Fields DEF OpenBetting, CloseBetting, Draw, Driving, Working, Betting, Drawing
<1>3. PICK r : r = main[e].r
  OBVIOUS
<1>4. R(e) = r /\ r \in DOMAIN rounds /\ rounds[r] \in RoundRow /\ RoundBooks(r)
  BY <1>0, <1>2, <1>3 DEF MainKnows, R
<1>5. \A l \in {"autoplay", "draw", "reveal"} : l \in Working /\ \A x : LocalOK(l, x)
  BY DEF Working, Betting, Drawing, LocalOK
<1>6. CASE OpenBetting(e) /\ OpenRounds \subseteq {R(e)}
  <2>1. rounds[r].status = "scheduled" /\ SetStatus(r, "betting_open") /\ Go(e, "autoplay")
    BY <1>0, <1>2, <1>3, <1>4, <1>6 DEF OpenBetting, Driving, MainKnows
  <2>2. PICK row \in RoundRow :
          /\ rounds' = [rounds EXCEPT ![r] = row]
          /\ row.status = "betting_open" /\ row.seed = rounds[r].seed /\ row.drawn = rounds[r].drawn
    BY <1>0, <1>4, <2>1, StatusRow DEF Statuses
  <2>3. DOMAIN rounds' = DOMAIN rounds /\ rounds'[r] = row
    BY <1>0, <1>4, <2>2, RoundWritten
  <2>4. /\ main' = [main EXCEPT ![e] = main'[e]]
        /\ main'[e] = [at |-> "autoplay", todo |-> main[e].todo, r |-> main[e].r, local |-> main[e].local]
    BY <1>0, <1>2, <2>1, Moves
  <2>5. MainKnows(e)'
    BY <1>3, <1>4, <2>2, <2>3, <2>4 DEF MainKnows, Drawing
  <2>6. RoundBooks(r)'
    BY <1>4, <2>1, <2>2, <2>3 DEF RoundBooks
  <2> QED BY <1>1, <1>2, <1>3, <1>4, <1>5, <2>2, <2>4, <2>5, <2>6, DrivesOn
<1>7. CASE OpenBetting(e) /\ ~(OpenRounds \subseteq {R(e)})
  BY <1>1, <1>2, <1>7, Drains DEF OpenBetting
<1>8. CASE CloseBetting(e)
  <2> DEFINE closes == rounds[r].closes + 1
             seed == <<closes, main[e].local>>
             open == [rounds[r] EXCEPT !.status = "betting_closed"]
             next == [open EXCEPT !.closes = closes]
             row == [next EXCEPT !.seed = seed]
  <2>1. main[e].at = "closing" /\ Go(e, "draw") /\ rounds' = [rounds EXCEPT ![r] = row]
    BY <1>4, <1>8 DEF CloseBetting, Driving
  <2>2. main[e].local \subseteq Ticket /\ rounds[r].closes \in Nat /\ rounds[r].drawn = NoSeed
    BY <1>0, <1>2, <1>3, <1>4, <2>1 DEF WorkType, RoundRow, RoundBooks, MainKnows, Betting
  <2>3. closes \in Nat /\ seed \in Seeds
    BY <2>2 DEF Seeds
  <2> HIDE DEF closes, seed
  <2>4. row \in RoundRow /\ row.status = "betting_closed" /\ row.drawn = rounds[r].drawn
    <3>1. open \in RoundRow /\ open.status = "betting_closed" /\ open.drawn = rounds[r].drawn
      BY <1>4 DEF RoundRow, Statuses, Drawable
    <3> HIDE DEF open
    <3>2. next \in RoundRow /\ next.status = open.status /\ next.drawn = open.drawn
      BY <2>3, <3>1 DEF RoundRow
    <3> HIDE DEF next
    <3>3. row \in RoundRow /\ row.status = next.status /\ row.drawn = next.drawn
      BY <2>3, <3>2 DEF RoundRow
    <3> QED BY <3>1, <3>2, <3>3
  <2> HIDE DEF row
  <2>5. DOMAIN rounds' = DOMAIN rounds /\ rounds'[r] = row
    BY <1>0, <1>4, <2>1, <2>4, RoundWritten
  <2>6. /\ main' = [main EXCEPT ![e] = main'[e]]
        /\ main'[e] = [at |-> "draw", todo |-> main[e].todo, r |-> main[e].r, local |-> main[e].local]
    BY <1>0, <1>2, <2>1, Moves
  <2>7. MainKnows(e)'
    BY <1>3, <1>4, <2>4, <2>5, <2>6 DEF MainKnows, Betting, Drawing, Drawable
  <2>8. RoundBooks(r)'
    BY <2>2, <2>4, <2>5 DEF RoundBooks
  <2> QED BY <1>1, <1>2, <1>3, <1>4, <1>5, <2>1, <2>4, <2>6, <2>7, <2>8, DrivesOn
<1>9. CASE Draw(e)
  <2> DEFINE seed == rounds[r].seed
             row == [[rounds[r] EXCEPT !.status = "drawing"] EXCEPT !.drawn = seed]
             none == {}
  <2>1. main[e].at = "drawing" /\ main[e].local = seed
    BY <1>0, <1>2, <1>3, <1>9 DEF Draw, Driving, MainKnows
  <2>2. rounds[r].drawn = NoSeed
    BY <1>0, <1>2, <1>3, <2>1 DEF MainKnows
  <2>3. rounds' = [rounds EXCEPT ![r].status = "drawing", ![r].drawn = seed]
    BY <1>4, <1>9, <2>1, <2>2 DEF Draw
  <2>4. With(e, "reveal", none)
    BY <1>4, <1>9, <2>1, <2>2 DEF Draw
  <2>5. rounds' = [rounds EXCEPT ![r] = row]
    <3>1. rounds \in Seq(RoundRow)
      BY <1>0 DEF KenoTypeOK
    <3> HIDE DEF seed
    <3> QED BY <1>4, <2>3, <3>1
  <2>6. seed \in Seeds
    BY <1>4 DEF RoundRow
  <2>7. [rounds[r] EXCEPT !.status = "drawing"] \in RoundRow
        /\ [rounds[r] EXCEPT !.status = "drawing"].status = "drawing"
        /\ [rounds[r] EXCEPT !.status = "drawing"].seed = seed
    BY <1>4 DEF RoundRow, Statuses, Drawable
  <2>8. row \in RoundRow /\ row.status = "drawing" /\ row.drawn = seed /\ row.seed = seed
    <3> DEFINE half == [rounds[r] EXCEPT !.status = "drawing"]
    <3>1. half \in RoundRow /\ half.status = "drawing" /\ half.seed = seed
      BY <2>7
    <3> HIDE DEF half, seed
    <3>2. [half EXCEPT !.drawn = seed] \in RoundRow /\ [half EXCEPT !.drawn = seed].status = "drawing"
          /\ [half EXCEPT !.drawn = seed].drawn = seed /\ [half EXCEPT !.drawn = seed].seed = seed
      BY <2>6, <3>1 DEF RoundRow
    <3> QED BY <3>2 DEF half
  <2> HIDE DEF row, seed
  <2>9. DOMAIN rounds' = DOMAIN rounds /\ rounds'[r] = row
    BY <1>0, <1>4, <2>5, <2>8, RoundWritten
  <2> HIDE DEF none
  <2>10. /\ main' = [main EXCEPT ![e] = main'[e]]
         /\ main'[e] = [at |-> "reveal", todo |-> main[e].todo, r |-> main[e].r, local |-> none]
    BY <1>0, <1>2, <2>4, WithMoves
  <2>11. MainKnows(e)'
    BY <1>3, <1>4, <2>8, <2>9, <2>10 DEF MainKnows, Betting, Drawing, Drawable
  <2>12. RoundBooks(r)'
    BY <2>8, <2>9 DEF RoundBooks
  <2> QED BY <1>1, <1>2, <1>3, <1>4, <1>5, <2>5, <2>8, <2>10, <2>11, <2>12, DrivesOn
<1> QED BY <1>6, <1>7, <1>8, <1>9

\* The draw is complete, and its settlement starts.
LEMMA DrawCompleteKeeps ==
    ASSUME KenoInv, [KenoNext]_kenoVars, OneDrives, OneDrives', NEW e \in Engine, DrawComplete(e)
    PROVE  KenoInv'
<1> DEFINE l == "next"
           zero == 0
           none == {}
<1>0. KenoTypeOK /\ MainKnows(e) /\ TodoUntouched(e) /\ \A q \in DOMAIN rounds : RoundBooks(q)
  BY DEF KenoInv
<1>1. main[e].at = "reveal" /\ main[e].at \in Working
  BY DEF DrawComplete, Driving, Working, Drawing
<1>2. WorkType(main[e]) /\ main[e] \notin {Down, At("recover")}
  BY <1>0, <1>1, Fields DEF Down, At
<1>3. PICK r : r = main[e].r
  OBVIOUS
<1>4. R(e) = r /\ r \in DOMAIN rounds /\ RoundBooks(r) /\ r \in Round /\ rounds[r].status \in Drawable
  BY <1>0, <1>1, <1>3, RoundRange DEF MainKnows, R, Drawing
<1>5. UNCHANGED <<tickets, posted>> /\ SetStatus(r, "draw_complete") /\ Spawn(e, {r}) /\ NextRound(e)
  BY <1>4 DEF DrawComplete
<1>6. PICK row \in RoundRow :
        /\ rounds' = [rounds EXCEPT ![r] = row]
        /\ row.status = "draw_complete" /\ row.seed = rounds[r].seed /\ row.drawn = rounds[r].drawn
  BY <1>0, <1>4, <1>5, StatusRow DEF Statuses, Drawable
<1>7. DOMAIN rounds' = DOMAIN rounds /\ rounds'[r] = row
  BY <1>0, <1>4, <1>6, RoundWritten
<1>8. /\ task' = [task EXCEPT ![e] = task'[e]] /\ task'[e] \in [Round -> TaskState]
      /\ \A q \in Round : task'[e][q] = IF q \in {r} THEN At("start") ELSE task[e][q]
  BY <1>0, <1>5, Spawned
<1>9. l \in Working /\ zero \in 0 .. MaxRounds /\ LocalOK(l, none) /\ zero = 0 /\ l = "next"
      /\ main[e].todo \in SUBSET (Round \X Statuses)
  BY <1>2, KenoConstants DEF Working, LocalOK, WorkType
<1>10. main' = [main EXCEPT ![e] = main'[e]]
       /\ main'[e] = [at |-> l, todo |-> main[e].todo, r |-> zero, local |-> none]
  BY <1>0, <1>5, Moves
<1> HIDE DEF l, zero, none
<1>11. MainState(main'[e]) /\ main'[e] \notin {Down, At("recover"), At("drain")}
  BY <1>9, <1>10, WorkSet
<1>12. main'[e].at = "next" /\ main'[e].todo = main[e].todo /\ main'[e].r = 0
  BY <1>9, <1>10
<1>13. MainKnows(e)'
  BY <1>12 DEF MainKnows, Betting, Drawing
<1>14. TaskKnows(e, r)'
  <2>1. task'[e][r] = At("start") /\ At("start").at = "start" /\ r # 0
    BY <1>4, <1>8 DEF At, Round
  <2> QED BY <1>4, <1>6, <1>7, <1>11, <1>12, <2>1 DEF TaskKnows
<1>15. RoundBooks(r)'
  BY <1>4, <1>6, <1>7 DEF RoundBooks
<1>16. \A q \in Round : q # r => task'[e][q] = task[e][q]
  BY <1>8
<1>17. \A x \in main[e].todo : x[1] # r
  BY <1>0, <1>1, <1>3 DEF TodoUntouched
<1>18. main'[e].at \in Working => /\ main[e].at \in Working /\ main'[e].todo = main[e].todo
                                 /\ main'[e].r \in {0, main[e].r} /\ \A y \in main[e].todo : y[1] # r
  BY <1>1, <1>12, <1>17
<1>19. main'[e] \notin {Down, At("recover")}
  BY <1>11
<1> QED BY <1>2, <1>4, <1>5, <1>6, <1>8, <1>10, <1>11, <1>13, <1>14, <1>15, <1>16, <1>18, <1>19, RoundStep

\* A round is created.
LEMMA CreateRoundKeeps ==
    ASSUME KenoInv, [KenoNext]_kenoVars, OneDrives, OneDrives', NEW e \in Engine, CreateRound(e)
    PROVE  KenoInv'
<1> DEFINE n == Len(rounds) + 1
           l == "open"
           none == {}
<1>0. KenoTypeOK /\ (\A t \in Ticket : TicketBooks(t)) /\ (\A r \in DOMAIN rounds : RoundBooks(r))
      /\ \A r \in Round : TaskKnows(e, r)
  BY DEF KenoInv
<1>1. main[e].at = "create" /\ main[e].at \in Working /\ Len(rounds) < MaxRounds
      /\ rounds' = Append(rounds, NewRow) /\ UNCHANGED <<tickets, posted, task>>
      /\ main' = [main EXCEPT ![e] = Work(l, none, n)]
  BY DEF CreateRound, Driving, Working
<1>2. rounds \in Seq(RoundRow) /\ Len(rounds) \in Nat /\ DOMAIN rounds = 1 .. Len(rounds)
      /\ MaxRounds \in Nat
  BY <1>0, RoundRange, KenoConstants DEF KenoTypeOK
<1>3. NewRow \in RoundRow
  <2>1. 0 \in Nat /\ 0 \in 0 .. DrawCount /\ FALSE \in BOOLEAN /\ NoSeed \in Seeds /\ "scheduled" \in Statuses
    BY KenoConstants DEF Seeds, Statuses
  <2> QED BY <2>1, Zenon DEF NewRow, RoundRow
<1>4. /\ rounds' \in Seq(RoundRow) /\ Len(rounds') = n /\ DOMAIN rounds' = 1 .. n
      /\ rounds'[n] = NewRow /\ \A r \in DOMAIN rounds : rounds'[r] = rounds[r]
  BY <1>1, <1>2, <1>3
<1>5. n \in 0 .. MaxRounds /\ n # 0 /\ n \notin DOMAIN rounds /\ n \in Round /\ n <= MaxRounds
      /\ DOMAIN rounds' = DOMAIN rounds \union {n}
  BY <1>1, <1>2, <1>4 DEF Round
<1>6. \A r : Pending(r)' = Pending(r)
  BY <1>1 DEF Pending, TicketsOf
<1>7. none = {} /\ l = "open" /\ LocalOK(l, none) /\ l \in Working /\ none \in SUBSET (Round \X Statuses)
  BY DEF LocalOK, Working
<1>8. PICK m : m = n
  OBVIOUS
<1> HIDE DEF n, none, l
<1>9. main' = [main EXCEPT ![e] = main'[e]]
      /\ main'[e] = [at |-> l, todo |-> none, r |-> n, local |-> none]
  <2>1. main' = [main EXCEPT ![e] = [at |-> l, todo |-> none, r |-> n, local |-> none]]
    BY <1>1, <1>7 DEF Work
  <2> QED BY <1>0, <2>1, Moves
<1>10. MainState(main'[e]) /\ main'[e] \notin {Down, At("recover"), At("drain")}
  <2>1. /\ MainState([at |-> l, todo |-> none, r |-> n, local |-> none])
        /\ [at |-> l, todo |-> none, r |-> n, local |-> none] \notin {Down, At("recover"), At("drain")}
    <3>1. l \in Working /\ none \in SUBSET (Round \X Statuses) /\ n \in 0 .. MaxRounds /\ LocalOK(l, none)
      BY <1>5, <1>7
    <3> QED BY <3>1, WorkSet, Zenon
  <2> QED BY <1>9, <2>1, Zenon
<1>11. main'[e].at = "open" /\ main'[e].todo = {} /\ main'[e].r = m
  BY <1>7, <1>8, <1>9
<1>12. MainKnows(e)'
  <2>1. rounds'[m].status = "scheduled" /\ m \in DOMAIN rounds'
    BY <1>4, <1>5, <1>8 DEF NewRow
  <2> QED BY <1>11, <2>1 DEF MainKnows, Betting, Drawing
<1>13. TodoUntouched(e)'
  BY <1>11 DEF TodoUntouched
<1>14. ASSUME NEW r \in Round PROVE TaskKnows(e, r)'
  <2>1. TaskKnows(e, r) /\ task'[e][r] = task[e][r]
    BY <1>0, <1>1
  <2>2. task[e][r] # NoTask => r \in DOMAIN rounds /\ rounds'[r] = rounds[r] /\ r # m /\ r \in DOMAIN rounds'
    BY <1>4, <1>5, <1>8, <2>1 DEF TaskKnows
  <2> QED BY <1>6, <1>10, <1>11, <2>1, <2>2 DEF TaskKnows
<1>15. \A t \in Ticket : TicketBooks(t)'
  BY <1>0, <1>1, <1>5 DEF TicketBooks, JackpotMoved, JackpotKeys
<1>16. ASSUME NEW r \in DOMAIN rounds' PROVE RoundBooks(r)'
  <2>1. CASE r = m
    <3>1. rounds'[m].status = "scheduled" /\ rounds'[m].drawn = NoSeed
      BY <1>4, <1>8 DEF NewRow
    <3> QED BY <2>1, <3>1 DEF RoundBooks
  <2>2. CASE r # m
    <3>1. r \in DOMAIN rounds /\ rounds'[r] = rounds[r] /\ RoundBooks(r)
      BY <1>0, <1>4, <1>5, <1>8, <2>2
    <3> QED BY <1>6, <3>1 DEF RoundBooks
  <2> QED BY <2>1, <2>2
<1>17. task' = [task EXCEPT ![e] = task'[e]] /\ task'[e] \in [Round -> TaskState]
  BY <1>0, <1>1, TasksStay
<1>18. main[e] # Down
  BY <1>0, <1>1, Fields
<1>19. tickets' \in [Ticket -> TicketRow] /\ PostedType' /\ Len(rounds') <= MaxRounds
  BY <1>0, <1>1, <1>4, <1>5 DEF KenoTypeOK, PostedType
<1> QED BY <1>4, <1>9, <1>10, <1>12, <1>13, <1>14, <1>15, <1>16, <1>17, <1>18, <1>19, EngineStep

-----------------------------------------------------------------------------
(***************************************************************************)
(* Steps that write tickets.                                               *)
(***************************************************************************)

\* No key moves nothing, and one key what it carries.
LEMMA MovedNone == Moved({}) = 0
BY SumEmpty DEF Moved

LEMMA MovedOne ==
    ASSUME NEW k, k[3] \in Int
    PROVE  Moved({k}) = k[3]
<1> DEFINE f == [x \in {k} |-> x[3]]
<1>1. IsFiniteSet({k}) /\ (\A x \in {k} : f[x] \in Int) /\ k \in {k} /\ {k} \ {k} = {} /\ f[k] = k[3]
  BY FS_Singleton
<1>2. SumFunctionOnSet(f, {k}) = f[k] + SumFunctionOnSet(f, {k} \ {k})
  <2> HIDE DEF f
  <2> QED BY <1>1, SumRemove
<1>3. SumFunctionOnSet(f, {}) = 0
  BY SumEmpty
<1>4. Moved({k}) = SumFunctionOnSet(f, {k})
  BY DEF Moved
<1> HIDE DEF f
<1> QED BY <1>1, <1>2, <1>3, <1>4

\* The pool is a number, whatever it holds.
LEMMA PoolInt ==
    ASSUME KenoTypeOK
    PROVE  Pool \in Int
<1>1. IsFiniteSet(posted)
      /\ posted \subseteq ({"stake", "payout", "refund"} \X Ticket) \union ({"jackpot"} \X Ticket \X Int)
  BY DEF KenoTypeOK
<1>2. IsFiniteSet(JackpotKeys) /\ IsFiniteSet({k \in posted : k[1] = "stake"})
  BY <1>1, FS_Subset DEF JackpotKeys
<1>3. \A k \in JackpotKeys : k[3] \in Int
  BY <1>1 DEF JackpotKeys
<1>4. Moved(JackpotKeys) \in Int
  <2> DEFINE f == [k \in JackpotKeys |-> k[3]]
  <2>1. \A x \in JackpotKeys : f[x] \in Int
    BY <1>3
  <2> HIDE DEF f
  <2>2. SumFunctionOnSet(f, JackpotKeys) \in Int
    BY <1>2, <2>1, SumInt
  <2> QED BY <2>2 DEF f, Moved
<1>5. Cardinality({k \in posted : k[1] = "stake"}) \in Nat
  BY <1>2, FS_CardinalityType
<1> HIDE DEF JackpotKeys
<1> QED BY <1>4, <1>5, KenoConstants DEF Pool

\* The books after a ticket is taken.
LEMMA AcceptBooks ==
    ASSUME KenoInv, NEW t \in Ticket, Accept(t), UNCHANGED rounds
    PROVE  /\ tickets' \in [Ticket -> TicketRow] /\ PostedType'
           /\ \A q : rounds[q].status # "betting_open" => Pending(q)' = Pending(q)
           /\ \A q : Pending(q) \subseteq Pending(q)'
           /\ \A u \in Ticket : TicketBooks(u)'
           /\ \A q \in DOMAIN rounds' : RoundBooks(q)'
           /\ \E r \in OpenRounds : tickets' = [tickets EXCEPT ![t] =
                                      [status |-> "pending", round |-> r, jackpot |-> 0]]
<1>0. KenoTypeOK /\ (\A u \in Ticket : TicketBooks(u)) /\ \A q \in DOMAIN rounds : RoundBooks(q)
  BY DEF KenoInv
<1>1. PICK r \in OpenRounds :
        /\ tickets[t].status = "none"
        /\ tickets' = [tickets EXCEPT ![t] = [status |-> "pending", round |-> r, jackpot |-> 0]]
        /\ posted' = posted \union {<<"stake", t>>}
  BY DEF Accept
<1>2. r \in DOMAIN rounds /\ rounds[r].status = "betting_open" /\ r \in Nat /\ r # 0
  BY <1>0, RoundRange DEF OpenRounds
<1> DEFINE row == [status |-> "pending", round |-> r, jackpot |-> 0]
<1>3. row \in TicketRow /\ row.status = "pending" /\ row.round = r /\ row.jackpot = 0
  BY <1>2 DEF TicketRow
<1> HIDE DEF row
<1>4. /\ tickets' \in [Ticket -> TicketRow] /\ tickets'[t] = row
      /\ \A u \in Ticket : u # t => tickets'[u] = tickets[u]
  BY <1>0, <1>1, <1>3 DEF KenoTypeOK, row
<1>5. PostedType'
  <2>1. IsFiniteSet(posted) /\ posted \subseteq
          ({"stake", "payout", "refund"} \X Ticket) \union ({"jackpot"} \X Ticket \X Int)
    BY <1>0 DEF KenoTypeOK
  <2>2. IsFiniteSet(posted') /\ <<"stake", t>> \in {"stake", "payout", "refund"} \X Ticket
    BY <1>1, <2>1, FS_AddElement
  <2> QED BY <1>1, <2>1, <2>2 DEF PostedType
<1>6. JackpotKeys' = JackpotKeys
  BY <1>1 DEF JackpotKeys
<1>7. \A u : JackpotMoved(u)' = JackpotMoved(u)
  BY <1>6 DEF JackpotMoved
<1>8. \A u : /\ (<<"payout", u>> \in posted') = (<<"payout", u>> \in posted)
             /\ (<<"refund", u>> \in posted') = (<<"refund", u>> \in posted)
  BY <1>1
<1>9. JackpotMoved(t) = 0
  <2>1. {k \in JackpotKeys : k[2] = t} = {}
    BY <1>0, <1>1 DEF TicketBooks
  <2> QED BY <2>1, MovedNone DEF JackpotMoved
<1>10. ASSUME NEW u \in Ticket PROVE TicketBooks(u)'
  <2>1. CASE u = t
    <3>1. (<<"payout", t>> \in posted) = FALSE /\ (<<"refund", t>> \in posted) = FALSE
      BY <1>0, <1>1 DEF TicketBooks
    <3>2. \A k \in JackpotKeys : k[2] # t
      BY <1>0, <1>1 DEF TicketBooks
    <3> QED BY <1>2, <1>3, <1>4, <1>6, <1>7, <1>8, <1>9, <2>1, <3>1, <3>2 DEF TicketBooks
  <2>2. CASE u # t
    <3>1. TicketBooks(u) /\ tickets'[u] = tickets[u]
      BY <1>0, <1>4, <2>2
    <3> QED BY <1>6, <1>7, <1>8, <3>1 DEF TicketBooks
  <2> QED BY <2>1, <2>2
<1>11. ASSUME NEW q PROVE Pending(q) \subseteq Pending(q)' /\ Pending(q)' \subseteq Pending(q) \union {t}
                          /\ (q # r => Pending(q)' = Pending(q))
  BY <1>1, <1>3, <1>4 DEF Pending, TicketsOf
<1>12. \A q : rounds[q].status # "betting_open" => Pending(q)' = Pending(q)
  BY <1>2, <1>11
<1>13. \A q \in DOMAIN rounds' : RoundBooks(q)'
  BY <1>0, <1>12 DEF RoundBooks
<1> QED BY <1>1, <1>4, <1>5, <1>10, <1>11, <1>12, <1>13

\* A player's ticket is taken.
LEMMA PlaceTicketKeeps ==
    ASSUME KenoInv, [KenoNext]_kenoVars, NEW b \in Manual, PlaceTicket(b)
    PROVE  KenoInv'
<1>0. KenoTypeOK /\ <<b, 0>> \in Ticket
  BY KenoConstants DEF KenoInv
<1>1. Accept(<<b, 0>>) /\ UNCHANGED <<rounds, sessions, main, task>>
  BY DEF PlaceTicket
<1>2. /\ tickets' \in [Ticket -> TicketRow] /\ PostedType'
      /\ \A q : rounds[q].status # "betting_open" => Pending(q)' = Pending(q)
      /\ \A q : Pending(q) \subseteq Pending(q)'
      /\ \A u \in Ticket : TicketBooks(u)'
      /\ \A q \in DOMAIN rounds' : RoundBooks(q)'
  BY <1>0, <1>1, AcceptBooks
<1>3. KenoTypeOK'
  BY <1>0, <1>1, <1>2, ProcType, SessionsType DEF KenoTypeOK, PostedType
<1>4. ASSUME NEW e \in Engine PROVE MainKnows(e)' /\ TodoUntouched(e)'
  <2>1. MainKnows(e) /\ TodoUntouched(e)
    BY DEF KenoInv
  <2> QED BY <1>1, <1>2, <2>1 DEF MainKnows, TodoUntouched
<1>5. ASSUME NEW e \in Engine, NEW r \in Round PROVE TaskKnows(e, r)'
  <2>1. TaskKnows(e, r)
    BY DEF KenoInv
  <2>2. task[e][r] \in TaskState
    BY <1>0, RoundRange
  <2>3. task[e][r].at \in {"pay", "record"} /\ task[e][r] # NoTask => Pending(r)' = Pending(r)
    BY <1>2, <2>1 DEF TaskKnows
  <2> QED BY <1>1, <2>1, <2>3 DEF TaskKnows
<1> QED BY <1>2, <1>3, <1>4, <1>5 DEF KenoInv

\* A session's ticket is taken.
LEMMA PlaceForSessionKeeps ==
    ASSUME KenoInv, [KenoNext]_kenoVars, OneDrives, OneDrives', NEW e \in Engine, PlaceForSession(e)
    PROVE  KenoInv'
<1>0. KenoTypeOK /\ MainKnows(e) /\ TodoUntouched(e) /\ \A q \in Round : TaskKnows(e, q)
  BY DEF KenoInv
<1>1. main[e].at = "placing" /\ main[e].at \in Working /\ UNCHANGED <<rounds, task>>
  BY DEF PlaceForSession, Driving, Working, Betting
<1>2. WorkType(main[e]) /\ main[e] # Down /\ main[e].r \in DOMAIN rounds /\ main[e].local \subseteq Listed
  BY <1>0, <1>1, Fields DEF WorkType, MainKnows
<1>3. PICK x \in main[e].local : Accept(<<x[1], R(e)>>) /\ With(e, "count", <<x, main[e].local \ {x}>>)
  BY DEF PlaceForSession
<1> DEFINE y == <<x, main[e].local \ {x}>>
           l == "count"
           t == <<x[1], R(e)>>
<1>4. t \in Ticket
  BY <1>0, <1>2, <1>3, KenoConstants, RoundRange DEF Listed, R
<1>5. l \in Working /\ LocalOK(l, y) /\ l = "count"
  BY <1>2 DEF Working, Betting, LocalOK
<1>6. With(e, l, y)
  BY <1>3
<1> HIDE DEF y, l
<1>7. /\ main' = [main EXCEPT ![e] = main'[e]]
      /\ main'[e] = [at |-> l, todo |-> main[e].todo, r |-> main[e].r, local |-> y]
  BY <1>0, <1>1, <1>6, WithMoves
<1>8. PICK u \in Ticket : u = t
  BY <1>4
<1>9. /\ tickets' \in [Ticket -> TicketRow] /\ PostedType'
      /\ \A q : rounds[q].status # "betting_open" => Pending(q)' = Pending(q)
      /\ \A q : Pending(q) \subseteq Pending(q)'
      /\ \A v \in Ticket : TicketBooks(v)'
      /\ \A q \in DOMAIN rounds' : RoundBooks(q)'
  <2>1. Accept(u)
    BY <1>3, <1>8
  <2> QED BY <1>1, <2>1, AcceptBooks
<1>10. main[e].todo \in SUBSET (Round \X Statuses) /\ main[e].r \in 0 .. MaxRounds
  BY <1>2 DEF WorkType
<1>11. MainState(main'[e]) /\ main'[e] \notin {Down, At("recover"), At("drain")}
  BY <1>5, <1>7, <1>10, WorkSet
<1>12. main'[e].at = "count" /\ main'[e].todo = main[e].todo /\ main'[e].r = main[e].r
  BY <1>5, <1>7
<1>13. MainKnows(e)'
  BY <1>0, <1>1, <1>12 DEF MainKnows, Betting, Drawing, Working
<1>14. TodoUntouched(e)'
  BY <1>0, <1>1, <1>12 DEF TodoUntouched
<1>15. ASSUME NEW q \in Round PROVE TaskKnows(e, q)'
  <2>1. TaskKnows(e, q)
    BY <1>0
  <2>2. task[e][q].at \in {"pay", "record"} /\ task[e][q] # NoTask => Pending(q)' = Pending(q)
    BY <1>9, <2>1 DEF TaskKnows
  <2> QED BY <1>1, <1>11, <1>12, <2>1, <2>2 DEF TaskKnows
<1>16. rounds' \in Seq(RoundRow) /\ Len(rounds') <= MaxRounds
  BY <1>0, <1>1 DEF KenoTypeOK
<1>17. task' = [task EXCEPT ![e] = task'[e]] /\ task'[e] \in [Round -> TaskState]
  BY <1>0, <1>1, TasksStay
<1> QED BY <1>2, <1>7, <1>9, <1>11, <1>13, <1>14, <1>15, <1>16, <1>17, EngineStep

\* What is made of finitely many things is finite.
LEMMA ImageFinite ==
    ASSUME NEW S, IsFiniteSet(S), NEW h
    PROVE  IsFiniteSet({h[x] : x \in S})
<1> DEFINE T == {h[x] : x \in S}
           f == [x \in S |-> h[x]]
<1>1. f \in Surjection(S, T)
  BY DEF Surjection
<1> HIDE DEF f, T
<1>2. IsFiniteSet(T)
  BY <1>1, FS_Surjection
<1> QED BY <1>2 DEF T

LEMMA KeysFinite ==
    ASSUME NEW S, IsFiniteSet(S), NEW a
    PROVE  IsFiniteSet({<<a, x>> : x \in S})
<1> DEFINE h == [x \in S |-> <<a, x>>]
<1>1. {<<a, x>> : x \in S} = {h[x] : x \in S}
  OBVIOUS
<1> HIDE DEF h
<1> QED BY <1>1, ImageFinite

\* A round is failed, and what was selected of its tickets given back.
LEMMA RefundKeeps ==
    ASSUME KenoInv, [KenoNext]_kenoVars, OneDrives, OneDrives', NEW e \in Engine, FailAndRefundRound(e)
    PROVE  KenoInv'
<1> DEFINE l == "next"
           zero == 0
           none == {}
<1>0. KenoTypeOK /\ MainKnows(e) /\ TodoUntouched(e) /\ (\A q \in Round : TaskKnows(e, q))
      /\ (\A t \in Ticket : TicketBooks(t)) /\ \A q \in DOMAIN rounds : RoundBooks(q)
  BY DEF KenoInv
<1>1. main[e].at = "refund" /\ main[e].at \in Working
  BY DEF FailAndRefundRound, Driving, Working
<1>2. WorkType(main[e]) /\ main[e] # Down
  BY <1>0, <1>1, Fields
<1>3. PICK r, S : r = main[e].r /\ S = main[e].local
  OBVIOUS
<1>4. R(e) = r /\ r \in DOMAIN rounds /\ RoundBooks(r) /\ r \in Round /\ S \subseteq Pending(r) /\ S \subseteq Ticket
  BY <1>0, <1>1, <1>3, RoundRange DEF MainKnows, R, Pending, TicketsOf
<1>5. /\ tickets' = [t \in Ticket |-> IF t \in S THEN [tickets[t] EXCEPT !.status = "refunded"] ELSE tickets[t]]
      /\ posted' = posted \union {<<"refund", t>> : t \in S}
      /\ SetStatus(r, "failed") /\ NextRound(e) /\ UNCHANGED task
  BY <1>3, <1>4 DEF FailAndRefundRound
<1>6. /\ rounds' \in Seq(RoundRow) /\ Len(rounds') = Len(rounds) /\ DOMAIN rounds' = DOMAIN rounds
      /\ rounds'[r].status = "failed" /\ rounds'[r].seed = rounds[r].seed
      /\ rounds'[r].drawn = rounds[r].drawn
      /\ \A q \in DOMAIN rounds : q # r => rounds'[q] = rounds[q]
  BY <1>0, <1>4, <1>5, StatusWritten DEF Statuses, Terminal
<1>7. ASSUME NEW t \in S
      PROVE  /\ tickets'[t] \in TicketRow /\ tickets'[t].status = "refunded"
             /\ tickets'[t].round = tickets[t].round /\ tickets'[t].jackpot = tickets[t].jackpot
             /\ tickets[t].status = "pending" /\ tickets[t].round = r
  <2>1. tickets[t] \in TicketRow /\ tickets[t].status = "pending" /\ tickets[t].round = r
    BY <1>0, <1>4, RoundRange DEF Pending, TicketsOf
  <2>2. tickets'[t] = [tickets[t] EXCEPT !.status = "refunded"]
    BY <1>4, <1>5
  <2> QED BY <2>1, <2>2 DEF TicketRow
<1>8. \A t \in Ticket : t \notin S => tickets'[t] = tickets[t]
  BY <1>5
<1>9. tickets' \in [Ticket -> TicketRow]
  <2>1. \A t \in Ticket : tickets'[t] \in TicketRow
    BY <1>0, <1>7, <1>8, RoundRange
  <2>2. tickets' = [t \in Ticket |-> tickets'[t]]
    BY <1>5
  <2> QED BY <2>1, <2>2
<1>10. PostedType'
  <2>1. IsFiniteSet(posted) /\ posted \subseteq
          ({"stake", "payout", "refund"} \X Ticket) \union ({"jackpot"} \X Ticket \X Int)
    BY <1>0 DEF KenoTypeOK
  <2>2. IsFiniteSet(S)
    BY <1>4, KenoConstants, FS_Subset
  <2>3. IsFiniteSet({<<"refund", t>> : t \in S})
    BY <2>2, KeysFinite
  <2>4. IsFiniteSet(posted')
    BY <1>5, <2>1, <2>3, FS_Union
  <2>5. {<<"refund", t>> : t \in S} \subseteq {"stake", "payout", "refund"} \X Ticket
    BY <1>4
  <2> QED BY <1>5, <2>1, <2>4, <2>5 DEF PostedType
<1>11. JackpotKeys' = JackpotKeys
  BY <1>5 DEF JackpotKeys
<1>12. \A u : JackpotMoved(u)' = JackpotMoved(u)
  BY <1>11 DEF JackpotMoved
<1>13. \A u : /\ (<<"payout", u>> \in posted') = (<<"payout", u>> \in posted)
              /\ (<<"refund", u>> \in posted') = (<<"refund", u>> \in posted \/ u \in S)
  BY <1>5
<1>14. ASSUME NEW t \in Ticket PROVE TicketBooks(t)'
  <2>0. TicketBooks(t)
    BY <1>0
  <2>1. CASE t \in S
    <3>1. (<<"payout", t>> \in posted') = FALSE /\ (<<"refund", t>> \in posted') = TRUE
      BY <1>7, <1>13, <2>0, <2>1 DEF TicketBooks
    <3>2. tickets'[t].status = "refunded" /\ tickets'[t].round = tickets[t].round
          /\ tickets'[t].jackpot = tickets[t].jackpot /\ tickets[t].status = "pending"
      BY <1>7, <2>1
    <3> QED BY <1>6, <1>12, <2>0, <3>1, <3>2 DEF TicketBooks
  <2>2. CASE t \notin S
    <3>1. tickets'[t] = tickets[t]
      BY <1>8, <2>2
    <3> QED BY <1>6, <1>11, <1>12, <1>13, <2>0, <2>2, <3>1 DEF TicketBooks
  <2> QED BY <2>1, <2>2
<1>15. \A q : q # r => Pending(q)' = Pending(q)
  BY <1>7, <1>8 DEF Pending, TicketsOf
<1>16. ASSUME NEW q \in DOMAIN rounds' PROVE RoundBooks(q)'
  <2>1. CASE q = r
    BY <1>4, <1>6, <2>1 DEF RoundBooks
  <2>2. CASE q # r
    <3>1. RoundBooks(q) /\ rounds'[q] = rounds[q]
      BY <1>0, <1>6, <2>2
    <3> QED BY <1>15, <2>2, <3>1 DEF RoundBooks
  <2> QED BY <2>1, <2>2
<1>17. main' = [main EXCEPT ![e] = main'[e]]
       /\ main'[e] = [at |-> l, todo |-> main[e].todo, r |-> zero, local |-> none]
  BY <1>0, <1>5, Moves
<1>18. l \in Working /\ zero \in 0 .. MaxRounds /\ LocalOK(l, none) /\ zero = 0 /\ l = "next"
       /\ main[e].todo \in SUBSET (Round \X Statuses)
  BY <1>2, KenoConstants DEF Working, LocalOK, WorkType
<1> HIDE DEF l, zero, none
<1>19. MainState(main'[e]) /\ main'[e] \notin {Down, At("recover"), At("drain")}
  BY <1>17, <1>18, WorkSet
<1>20. main'[e].at = "next" /\ main'[e].todo = main[e].todo /\ main'[e].r = 0
  BY <1>17, <1>18
<1>21. MainKnows(e)'
  BY <1>20 DEF MainKnows, Betting, Drawing
<1>22. TodoUntouched(e)'
  <2>1. \A x \in main[e].todo : x[1] # r /\ x[1] # 0 /\ x[1] \in DOMAIN rounds
    BY <1>0, <1>1, <1>3, RoundRange DEF TodoUntouched
  <2> QED BY <1>0, <1>1, <1>5, <1>6, <1>20, <2>1 DEF TodoUntouched
<1>23. ASSUME NEW q \in Round PROVE TaskKnows(e, q)'
  <2>1. TaskKnows(e, q) /\ q # 0 /\ (task[e][q] # NoTask => q # r)
    BY <1>0, <1>1, <1>3 DEF TaskKnows, Round
  <2>2. task[e][q] # NoTask => Pending(q)' = Pending(q) /\ rounds'[q] = rounds[q]
    BY <1>6, <1>15, <2>1 DEF TaskKnows
  <2> QED BY <1>5, <1>6, <1>19, <1>20, <2>1, <2>2 DEF TaskKnows
<1>24. task' = [task EXCEPT ![e] = task'[e]] /\ task'[e] \in [Round -> TaskState]
  BY <1>0, <1>5, TasksStay
<1>25. Len(rounds') <= MaxRounds
  BY <1>0, <1>6 DEF KenoTypeOK
<1> QED BY <1>2, <1>6, <1>9, <1>10, <1>14, <1>16, <1>17, <1>19, <1>21, <1>22, <1>23, <1>24, <1>25, EngineStep

\* The batch of a settlement: prizes, the jackpot, and the ends of its tickets.
LEMMA SettleTicketsKeeps ==
    ASSUME KenoInv, [KenoNext]_kenoVars, OneDrives, OneDrives', NEW e \in Engine, NEW r \in Round,
           SettleTickets(e, r)
    PROVE  KenoInv'
<1>0. KenoTypeOK /\ MainKnows(e) /\ TodoUntouched(e) /\ (\A q \in Round : TaskKnows(e, q))
      /\ (\A t \in Ticket : TicketBooks(t)) /\ \A q \in DOMAIN rounds : RoundBooks(q)
  BY DEF KenoInv
<1>1. task[e][r].at = "pay" /\ task[e][r] # NoTask
  <2>1. Settling(e, r, "pay")
    BY Zenon DEF SettleTickets
  <2> QED BY <2>1 DEF Settling, NoTask, At
<1>2. /\ r \in DOMAIN rounds /\ rounds[r].status = "settling" /\ main[e] \notin {Down, At("recover")}
      /\ (main[e].at \in Working => main[e].r # r)
      /\ task[e][r].tickets = Pending(r)
  BY <1>0, <1>1 DEF TaskKnows
<1>3. PICK T : T = Pending(r)
  OBVIOUS
<1>4. PICK p : p = Pool
  OBVIOUS
<1>5. p \in Int
  BY <1>0, <1>4, PoolInt
<1> DEFINE won == {t \in T : Prize[t[1]] > 0}
           hits == {t \in T : t[1] \in Jackpot /\ p > 0}
           rest == {t \in T : t[1] \in Session}
           s == [at |-> "record", tickets |-> rest]
<1>6. \A t \in T : t \in Ticket /\ tickets[t].status = "pending" /\ tickets[t].round = r
  BY <1>3 DEF Pending, TicketsOf
<1>7. \A t \in T : \A k \in posted : ~ (k[1] = "jackpot" /\ k[2] = t)
  BY <1>0, <1>6 DEF TicketBooks, JackpotKeys
<1>8. Hits(T) = hits
  BY <1>4 DEF Hits
<1>9. {t \in T : tickets[t].status = "pending"} = T
  BY <1>6
<1>10. {t \in Hits(T) : \A k \in posted : ~ (k[1] = "jackpot" /\ k[2] = t)} = hits
  BY <1>7, <1>8
<1>11. /\ posted' = posted \union {<<"payout", t>> : t \in won} \union {<<"jackpot", t, p>> : t \in hits}
       /\ tickets' = [t \in Ticket |->
            [tickets[t] EXCEPT !.status = IF t \notin T THEN @ ELSE IF t \in won THEN "won" ELSE "lost",
                               !.jackpot = IF t \in hits THEN p ELSE @]]
       /\ SetTask(e, r, s)
       /\ UNCHANGED <<rounds, main>>
  <2> DEFINE X == task[e][r].tickets
             done == {t \in X : tickets[t].status = "pending"}
             prized == {t \in X : Prize[t[1]] > 0}
             newHits == {t \in Hits(X) : \A k \in posted : ~ (k[1] = "jackpot" /\ k[2] = t)}
  <2>1. /\ posted' = posted \union {<<"payout", t>> : t \in prized} \union {<<"jackpot", t, Pool>> : t \in newHits}
        /\ tickets' = [t \in Ticket |->
             [tickets[t] EXCEPT !.status = IF t \notin done THEN @ ELSE IF t \in prized THEN "won" ELSE "lost",
                                !.jackpot = IF t \in Hits(X) THEN Pool ELSE @]]
        /\ SetTask(e, r, [at |-> "record", tickets |-> {t \in done : t[1] \in Session}])
        /\ UNCHANGED <<rounds, main>>
    BY Zenon DEF SettleTickets
  <2>2. done = T /\ prized = won /\ newHits = hits /\ Hits(X) = hits /\ Pool = p
    BY <1>2, <1>3, <1>4, <1>8, <1>9, <1>10
  <2>3. {t \in done : t[1] \in Session} = rest
    BY <2>2
  <2> HIDE DEF X, done, prized, newHits, won, hits, rest
  <2> QED BY <2>1, <2>2, <2>3
<1>12. won \subseteq T /\ hits \subseteq T /\ rest \subseteq T /\ T \subseteq Ticket
  BY <1>6
<1>13. rest \subseteq Session \X Round
  BY <1>6, KenoAssumption DEF Ticket
<1>14. s \in TaskState /\ s.at = "record" /\ s.tickets = rest
  BY <1>12 DEF TaskState
<1> HIDE DEF won, hits, rest, s
<1>15. ASSUME NEW t \in Ticket
       PROVE  /\ tickets'[t] \in TicketRow
              /\ tickets'[t].status = IF t \notin T THEN tickets[t].status
                                      ELSE IF t \in won THEN "won" ELSE "lost"
              /\ tickets'[t].round = tickets[t].round
              /\ tickets'[t].jackpot = IF t \in hits THEN p ELSE tickets[t].jackpot
  <2> DEFINE st == IF t \notin T THEN tickets[t].status ELSE IF t \in won THEN "won" ELSE "lost"
             jp == IF t \in hits THEN p ELSE tickets[t].jackpot
             half == [tickets[t] EXCEPT !.status = st]
  <2>1. tickets[t] \in TicketRow
    BY <1>0, RoundRange
  <2>2. st \in {"none", "pending", "won", "lost", "refunded"} /\ jp \in Int
    BY <1>5, <2>1 DEF TicketRow
  <2>3. tickets'[t] = [half EXCEPT !.jackpot = jp]
    BY <1>11, <2>1
  <2> HIDE DEF st, jp
  <2>4. half \in TicketRow /\ half.status = st /\ half.round = tickets[t].round
    BY <2>1, <2>2 DEF TicketRow
  <2> HIDE DEF half
  <2>5. tickets'[t] \in TicketRow /\ tickets'[t].status = half.status /\ tickets'[t].round = half.round
        /\ tickets'[t].jackpot = jp
    BY <2>2, <2>3, <2>4 DEF TicketRow
  <2> QED BY <2>4, <2>5 DEF st, jp
<1>16. tickets' \in [Ticket -> TicketRow]
  <2>1. tickets' = [t \in Ticket |-> tickets'[t]]
    BY <1>11
  <2> QED BY <1>15, <2>1
<1>17. PostedType'
  <2>1. IsFiniteSet(posted) /\ posted \subseteq
          ({"stake", "payout", "refund"} \X Ticket) \union ({"jackpot"} \X Ticket \X Int)
    BY <1>0 DEF KenoTypeOK
  <2>2. IsFiniteSet(won) /\ IsFiniteSet(hits)
    BY <1>12, KenoConstants, FS_Subset
  <2>3. IsFiniteSet({<<"payout", t>> : t \in won}) /\ IsFiniteSet({<<"jackpot", t, p>> : t \in hits})
    <3>1. IsFiniteSet({<<"payout", t>> : t \in won})
      BY <2>2, KeysFinite
    <3>2. IsFiniteSet({<<"jackpot", t, p>> : t \in hits})
      <4> DEFINE h == [t \in hits |-> <<"jackpot", t, p>>]
      <4>1. {<<"jackpot", t, p>> : t \in hits} = {h[t] : t \in hits}
        OBVIOUS
      <4> HIDE DEF h
      <4> QED BY <2>2, <4>1, ImageFinite
    <3> QED BY <3>1, <3>2
  <2>4. IsFiniteSet(posted')
    BY <1>11, <2>1, <2>3, FS_Union
  <2>5. {<<"payout", t>> : t \in won} \subseteq {"stake", "payout", "refund"} \X Ticket
    BY <1>12
  <2>6. {<<"jackpot", t, p>> : t \in hits} \subseteq {"jackpot"} \X Ticket \X Int
    BY <1>5, <1>12
  <2> QED BY <1>11, <2>1, <2>4, <2>5, <2>6 DEF PostedType
<1>18. posted' = posted \union {<<"payout", t>> : t \in won} \union {<<"jackpot", t, p>> : t \in hits}
  BY <1>11
<1>19. JackpotKeys' = JackpotKeys \union {<<"jackpot", t, p>> : t \in hits}
  BY <1>18 DEF JackpotKeys
<1>20. ASSUME NEW t \in Ticket
       PROVE  /\ t \in hits => JackpotMoved(t)' = p
              /\ t \notin hits => JackpotMoved(t)' = JackpotMoved(t)
  <2>1. CASE t \in hits
    <3>1. {k \in JackpotKeys' : k[2] = t} = {<<"jackpot", t, p>>}
      <4>1. \A k \in JackpotKeys : k[2] # t
        BY <1>7, <1>12, <2>1 DEF JackpotKeys
      <4> QED BY <1>19, <2>1, <4>1
    <3> DEFINE k == <<"jackpot", t, p>>
    <3>2. k[3] = p
      OBVIOUS
    <3> HIDE DEF k
    <3>3. Moved({k}) = p
      BY <1>5, <3>2, MovedOne
    <3> QED BY <2>1, <3>1, <3>3 DEF JackpotMoved, k
  <2>2. CASE t \notin hits
    <3>1. {k \in JackpotKeys' : k[2] = t} = {k \in JackpotKeys : k[2] = t}
      BY <1>19, <2>2
    <3> QED BY <2>2, <3>1 DEF JackpotMoved
  <2> QED BY <2>1, <2>2
<1>21. \A u : /\ (<<"payout", u>> \in posted') = (<<"payout", u>> \in posted \/ u \in won)
              /\ (<<"refund", u>> \in posted') = (<<"refund", u>> \in posted)
  BY <1>18
<1>22. ASSUME NEW t \in Ticket PROVE TicketBooks(t)'
  <2>0. TicketBooks(t)
    BY <1>0
  <2>1. CASE t \in T
    <3>1. tickets[t].status = "pending" /\ tickets[t].round # 0
      BY <1>6, <2>0, <2>1 DEF TicketBooks
    <3>2. tickets'[t].status = (IF t \in won THEN "won" ELSE "lost") /\ tickets'[t].round = tickets[t].round
      BY <1>15, <2>1
    <3>3. tickets'[t].jackpot = JackpotMoved(t)'
      BY <1>15, <1>20, <2>0 DEF TicketBooks
    <3>4. (<<"payout", t>> \in posted') = (t \in won) /\ (<<"refund", t>> \in posted') = FALSE
      BY <1>21, <2>0, <3>1 DEF TicketBooks
    <3>5. (<<"payout", t>> \in posted') = (tickets'[t].status = "won")
          /\ (<<"refund", t>> \in posted') = (tickets'[t].status = "refunded")
          /\ tickets'[t].status \notin {"none", "pending"}
      BY <3>2, <3>4
    <3>6. tickets'[t].round # 0 /\ tickets'[t].round \in {0} \union DOMAIN rounds'
      BY <1>11, <2>0, <3>1, <3>2 DEF TicketBooks
    <3> QED BY <3>3, <3>5, <3>6 DEF TicketBooks
  <2>2. CASE t \notin T
    <3>1. tickets'[t].status = tickets[t].status /\ tickets'[t].round = tickets[t].round
          /\ tickets'[t].jackpot = tickets[t].jackpot /\ t \notin won /\ t \notin hits
      BY <1>12, <1>15, <2>2
    <3>2. (\A k \in JackpotKeys : k[2] # t) => \A k \in JackpotKeys' : k[2] # t
      BY <1>19, <3>1
    <3> QED BY <1>11, <1>20, <1>21, <2>0, <3>1, <3>2 DEF TicketBooks
  <2> QED BY <2>1, <2>2
<1>23. Pending(r)' = {} /\ \A q : q # r => Pending(q)' = Pending(q)
  <2>1. \A t \in Ticket : tickets'[t].status = "pending" <=> (tickets[t].status = "pending" /\ t \notin T)
    BY <1>6, <1>15
  <2>2. \A t \in Ticket : tickets'[t].round = tickets[t].round
    BY <1>15
  <2>3. \A t \in Ticket : t \in T <=> (tickets[t].status = "pending" /\ tickets[t].round = r)
    BY <1>3 DEF Pending, TicketsOf
  <2> QED BY <2>1, <2>2, <2>3 DEF Pending, TicketsOf
<1>24. ASSUME NEW q \in DOMAIN rounds' PROVE RoundBooks(q)'
  <2>1. RoundBooks(q)
    BY <1>0, <1>11
  <2> QED BY <1>11, <1>23, <2>1 DEF RoundBooks
<1>25. /\ task' = [task EXCEPT ![e] = task'[e]] /\ task'[e] \in [Round -> TaskState]
       /\ task'[e][r] = s /\ \A q \in Round : q # r => task'[e][q] = task[e][q]
  BY <1>0, <1>11, <1>14, TaskSet
<1>26. main' = [main EXCEPT ![e] = main'[e]] /\ MainState(main'[e]) /\ main'[e] = main[e]
  BY <1>0, <1>11, MainStays
<1>27. MainKnows(e)'
  <2>1. main[e].at \in Working => Pending(main[e].r)' = Pending(main[e].r)
    <3> SUFFICES ASSUME main[e].at \in Working PROVE Pending(main[e].r)' = Pending(main[e].r)
      OBVIOUS
    <3>1. PICK q : q = main[e].r
      OBVIOUS
    <3>2. Pending(q)' = Pending(q)
      BY <1>2, <1>23, <3>1
    <3> QED BY <1>26, <3>1, <3>2 DEF Pending, TicketsOf
  <2> QED BY <1>0, <1>11, <1>26, <2>1 DEF MainKnows, Working, Betting, Drawing
<1>28. TodoUntouched(e)'
  <2>1. main[e].at \in Working => \A x \in main[e].todo : x[1] # r /\ x[1] \in Round
    BY <1>0, <1>1, RoundRange DEF TodoUntouched
  <2> QED BY <1>0, <1>11, <1>25, <1>26, <2>1 DEF TodoUntouched
<1>29. ASSUME NEW q \in Round PROVE TaskKnows(e, q)'
  <2>1. CASE q = r
    BY <1>2, <1>11, <1>13, <1>14, <1>23, <1>25, <1>26, <2>1 DEF TaskKnows
  <2>2. CASE q # r
    <3>1. TaskKnows(e, q) /\ task'[e][q] = task[e][q] /\ Pending(q)' = Pending(q)
      BY <1>0, <1>23, <1>25, <2>2
    <3> QED BY <1>11, <1>26, <3>1 DEF TaskKnows
  <2> QED BY <2>1, <2>2
<1>30. rounds' \in Seq(RoundRow) /\ Len(rounds') <= MaxRounds
  BY <1>0, <1>11 DEF KenoTypeOK
<1>31. main[e] # Down
  BY <1>2
<1> QED BY <1>16, <1>17, <1>22, <1>24, <1>25, <1>26, <1>27, <1>28, <1>29, <1>30, <1>31, EngineStep

-----------------------------------------------------------------------------
(***************************************************************************)
(* The inductive invariant.                                                *)
(***************************************************************************)

\* Every step keeps it while one engine runs at a time.
LEMMA StepKeeps ==
    ASSUME KenoInv, [KenoNext]_kenoVars, OneDrives, OneDrives'
    PROVE  KenoInv'
<1>1. ASSUME NEW e \in Engine, WinLock(e) \/ Exit(e) \/ EngineCrash(e) PROVE KenoInv'
  BY <1>1, StartEndKeeps
<1>2. ASSUME NEW e \in Engine, MainStep(e) PROVE KenoInv'
  <2>1. CASE ReadStuckRounds(e) \/ RecoverRound(e) \/ Sweep(e)
    BY <2>1, ReadStuckKeeps, RecoverRoundKeeps, SweepKeeps
  <2>2. CASE \/ SelectRefunds(e) \/ ListSessions(e) \/ SelectTicketIds(e) \/ ReadDraw(e)
             \/ PlacingOver(e) \/ BettingOver(e)
    BY <2>2, SelectsKeep
  <2>3. CASE RejectForSession(e) \/ CountPlaced(e) \/ ExhaustIfDone(e)
    BY <2>3, PlacingKeeps
  <2>4. CASE OpenBetting(e) \/ CloseBetting(e) \/ Draw(e)
    BY <2>4, DrivingKeeps
  <2>5. CASE CreateRound(e) \/ DrawComplete(e)
    BY <2>5, CreateRoundKeeps, DrawCompleteKeeps
  <2>6. CASE PlaceForSession(e) \/ FailAndRefundRound(e)
    BY <2>6, PlaceForSessionKeeps, RefundKeeps
  <2>7. CASE BettingAborted(e) \/ RevealNumber(e) \/ Exit(e)
    BY <1>1, <2>7, LeavingKeeps, AgingKeeps
  <2> QED BY <1>2, <2>1, <2>2, <2>3, <2>4, <2>5, <2>6, <2>7 DEF MainStep
<1>3. ASSUME NEW e \in Engine, NEW r \in Round, TaskStep(e, r) PROVE KenoInv'
  BY <1>3, SettlementReads, SettlementWrites, SettleTicketsKeeps DEF TaskStep
<1>4. ASSUME NEW e \in Engine, LockStep(e) PROVE KenoInv'
  BY <1>4, OthersKeep
<1>5. ASSUME NEW e \in Engine, EngineFault(e) PROVE KenoInv'
  BY <1>1, <1>5, LeavingKeeps, PlacingKeeps, OthersKeep, SettlementReads DEF EngineFault
<1>6. ASSUME NEW b \in Manual, PlaceTicket(b) PROVE KenoInv'
  BY <1>6, PlaceTicketKeeps
<1>7. ASSUME NEW s \in Session, StartSession(s) \/ StopSession(s) PROVE KenoInv'
  BY <1>7, OthersKeep
<1>8. ASSUME NEW r \in Round, GrowOld(r) PROVE KenoInv'
  BY <1>8, AgingKeeps
<1>9. CASE UNCHANGED kenoVars
  BY <1>9, OthersKeep
<1> QED BY <1>1, <1>2, <1>3, <1>4, <1>5, <1>6, <1>7, <1>8, <1>9 DEF KenoNext

\* It holds at first.
LEMMA InitKeeps ==
    ASSUME KenoInit
    PROVE  KenoInv
<1>1. rounds = << >> /\ DOMAIN rounds = {} /\ Len(rounds) = 0
  BY DEF KenoInit
<1>2. JackpotKeys = {} /\ \A t : JackpotMoved(t) = 0
  BY MovedNone DEF KenoInit, JackpotKeys, JackpotMoved
<1>3. \A e \in Engine : main[e] = Down /\ Down.at \notin Working /\ MainState(main[e])
  BY DEF KenoInit, Down, At, Working, Betting, Drawing, MainState
<1>4. \A e \in Engine, r \in Round : task[e][r] = NoTask
  BY DEF KenoInit
<1>5. KenoTypeOK
  <2>1. rounds \in Seq(RoundRow) /\ Len(rounds) <= MaxRounds
    BY <1>1, KenoConstants
  <2>2. tickets \in [Ticket -> TicketRow]
    BY DEF KenoInit, TicketRow
  <2>3. IsFiniteSet(posted) /\ posted = {}
    BY FS_EmptySet DEF KenoInit
  <2>4. sessions \in [Session -> SessionRow]
    BY DEF KenoInit, SessionRow
  <2>5. holds \in [Engine -> BOOLEAN] /\ stop \in [Engine -> BOOLEAN]
    BY Zenon DEF KenoInit
  <2>6. keyOwner = NoEngine /\ faults = 0 /\ main = [e \in Engine |-> main[e]]
    BY DEF KenoInit
  <2>7. task \in [Engine -> [Round -> TaskState]]
    BY DEF KenoInit, TaskState
  <2> QED BY <1>3, <2>1, <2>2, <2>3, <2>4, <2>5, <2>6, <2>7 DEF KenoTypeOK
<1>6. \A e \in Engine : MainKnows(e) /\ TodoUntouched(e) /\ \A r \in Round : TaskKnows(e, r)
  BY <1>3, <1>4 DEF MainKnows, TodoUntouched, TaskKnows
<1>7. \A t \in Ticket : TicketBooks(t)
  BY <1>2 DEF KenoInit, TicketBooks
<1> QED BY <1>1, <1>5, <1>6, <1>7 DEF KenoInv

\* What rows, keys, engines and settlements know of each other in every
\* reachable state, for any players, sessions, rounds and faults, while one
\* engine runs at a time (keno_round_engine.py, keno_tickets.py, keno_autoplay.py).
THEOREM KenoInvariant == KenoSpec /\ []OneDrives => []KenoInv
<1>1. KenoInit => KenoInv
  BY InitKeeps
<1>2. KenoInv /\ [KenoNext]_kenoVars /\ OneDrives /\ OneDrives' => KenoInv'
  BY StepKeeps
<1> QED BY <1>1, <1>2, PTL DEF KenoSpec

\* A ticket is paid or given back, once and as its row says, and a completed
\* round has settled all it took (_settle_one_ticket, _pay_jackpot,
\* _fail_and_refund_round).
THEOREM TicketsEndOneWay == KenoSpec /\ []OneDrives => []TicketEndsOneWay
<1>1. KenoInv => TicketEndsOneWay
  BY DEF KenoInv, TicketBooks, RoundBooks, TicketEndsOneWay
<1> QED BY <1>1, KenoInvariant, PTL

-----------------------------------------------------------------------------
(***************************************************************************)
(* What a step never does.                                                 *)
(***************************************************************************)

\* Who writes a status finds a live round, and one in settlement is only
\* completed.
StatusMove ==
    \A q \in DOMAIN rounds :
      \/ rounds'[q].status = rounds[q].status
      \/ rounds[q].status \notin Terminal \union {"settling"}
      \/ rounds[q].status = "settling" /\ rounds'[q].status = "completed"

LEMMA StatusMoves ==
    ASSUME KenoInv, [KenoNext]_kenoVars
    PROVE  StatusMove
<1>0. KenoTypeOK /\ \A q \in DOMAIN rounds : rounds[q] \in RoundRow
  BY RoundRange DEF KenoInv
<1>1. UNCHANGED rounds => StatusMove
  BY DEF StatusMove
<1>2. ASSUME NEW e \in Engine,
             OpenBetting(e) \/ CloseBetting(e) \/ Draw(e) \/ DrawComplete(e) \/ FailAndRefundRound(e)
      PROVE  StatusMove
  <2>1. main[e].at \in {"open", "closing", "drawing", "reveal", "refund"} /\ MainKnows(e)
    BY <1>2 DEF OpenBetting, CloseBetting, Draw, DrawComplete, FailAndRefundRound, Driving, KenoInv
  <2>2. main[e].r \in DOMAIN rounds /\ rounds[main[e].r].status \notin Terminal \union {"settling"}
    BY <2>1 DEF MainKnows, Working, Betting, Drawing, Drawable, Terminal
  <2>3. \A q \in DOMAIN rounds : q # main[e].r => rounds'[q] = rounds[q]
    BY <1>0, <1>2 DEF OpenBetting, CloseBetting, Draw, DrawComplete, FailAndRefundRound, SetStatus, R,
         KenoTypeOK
  <2> QED BY <2>2, <2>3 DEF StatusMove
<1>3. ASSUME NEW e \in Engine, NEW r \in Round, MarkSettling(e, r) \/ CompleteRound(e, r)
      PROVE  StatusMove
  <2>1. task[e][r] # NoTask /\ TaskKnows(e, r)
    BY <1>3 DEF MarkSettling, CompleteRound, Settling, NoTask, At, KenoInv
  <2>2. r \in DOMAIN rounds /\ \A q \in DOMAIN rounds : q # r => rounds'[q] = rounds[q]
    BY <1>0, <1>3, <2>1 DEF MarkSettling, CompleteRound, SetStatus, KenoTypeOK, TaskKnows
  <2>3. CASE MarkSettling(e, r)
    <3>1. rounds[r].status \in {"draw_complete", "settling"} /\ SetStatus(r, "settling")
      BY <2>1, <2>3 DEF MarkSettling, Settling, TaskKnows
    <3>2. rounds'[r].status = "settling"
      BY <1>0, <2>2, <3>1, StatusWritten DEF Statuses
    <3> QED BY <2>2, <3>1, <3>2 DEF StatusMove, Terminal
  <2>4. CASE CompleteRound(e, r)
    <3>1. rounds[r].status = "settling" /\ SetStatus(r, "completed")
      BY <2>1, <2>4 DEF CompleteRound, Settling, TaskKnows
    <3>2. rounds'[r].status = "completed"
      BY <1>0, <2>2, <3>1, StatusWritten DEF Statuses, Terminal
    <3> QED BY <2>2, <3>1, <3>2 DEF StatusMove, Terminal
  <2> QED BY <1>3, <2>3, <2>4
<1>4. ASSUME NEW e \in Engine, CreateRound(e) PROVE StatusMove
  <2>1. \A q \in DOMAIN rounds : rounds'[q] = rounds[q]
    BY <1>0, <1>4 DEF CreateRound, KenoTypeOK
  <2> QED BY <2>1 DEF StatusMove
<1>5. ASSUME (\E r \in Round : GrowOld(r)) \/ (\E e \in Engine : RevealNumber(e)) PROVE StatusMove
  <2>1. PICK r : rounds' = [rounds EXCEPT ![r].old = TRUE] \/ rounds' = [rounds EXCEPT ![r].revealed = @ + 1]
    BY <1>5 DEF GrowOld, RevealNumber
  <2>2. ASSUME NEW q \in DOMAIN rounds PROVE rounds'[q].status = rounds[q].status
    <3>1. CASE q = r
      BY <1>0, <2>1, <3>1 DEF KenoTypeOK, RoundRow
    <3>2. CASE q # r
      BY <1>0, <2>1, <3>2 DEF KenoTypeOK
    <3> QED BY <3>1, <3>2
  <2> QED BY <2>2 DEF StatusMove
<1>6. ASSUME NEW e \in Engine, MainStep(e) PROVE StatusMove
  <2>1. \/ UNCHANGED rounds \/ CreateRound(e) \/ RevealNumber(e)
        \/ OpenBetting(e) \/ CloseBetting(e) \/ Draw(e) \/ DrawComplete(e) \/ FailAndRefundRound(e)
    BY <1>6 DEF MainStep, ReadStuckRounds, RecoverRound, SelectRefunds, Sweep, ListSessions,
       PlaceForSession, RejectForSession, CountPlaced, ExhaustIfDone, PlacingOver, BettingOver,
       BettingAborted, SelectTicketIds, ReadDraw, Exit, db
  <2> QED BY <1>1, <1>2, <1>4, <1>5, <2>1
<1>7. ASSUME NEW e \in Engine, NEW r \in Round, TaskStep(e, r) PROVE StatusMove
  <2>1. UNCHANGED rounds \/ MarkSettling(e, r) \/ CompleteRound(e, r)
    BY <1>7 DEF TaskStep, ReadRound, SelectPending, SettleTickets, RecordSettlement, db
  <2> QED BY <1>1, <1>3, <2>1
<1>8. ASSUME NEW e \in Engine, WinLock(e) \/ LockStep(e) \/ EngineFault(e) PROVE StatusMove
  <2>1. UNCHANGED rounds
    BY <1>8 DEF WinLock, LockStep, LockLost, KeyExpires, EngineFault, EngineFails, PlacementFails,
       EngineCrash, LockExpires, StopEngine, SettlementFails, db
  <2> QED BY <1>1, <2>1
<1>9. ASSUME \/ \E b \in Manual : PlaceTicket(b)
             \/ \E s \in Session : StartSession(s) \/ StopSession(s)
             \/ UNCHANGED kenoVars
      PROVE  StatusMove
  BY <1>1, <1>9 DEF PlaceTicket, StartSession, StopSession, kenoVars
<1> QED BY <1>5, <1>6, <1>7, <1>8, <1>9 DEF KenoNext

\* A ticket joins an open round once, and for a session that runs.
TicketMove ==
    \A t \in Ticket :
      \/ tickets'[t].round = tickets[t].round /\ (tickets[t].status = "none" => tickets'[t].status = "none")
      \/ tickets'[t].round \in OpenRounds /\ (t[1] \in Session => sessions[t[1]].status = "active")

LEMMA TicketMoves ==
    ASSUME KenoInv, [KenoNext]_kenoVars
    PROVE  TicketMove
<1>0. KenoTypeOK /\ \A t \in Ticket : tickets[t] \in TicketRow
  BY RoundRange DEF KenoInv
<1>1. UNCHANGED tickets => TicketMove
  BY DEF TicketMove
<1>2. ASSUME NEW t \in Ticket, Accept(t), t[1] \in Session => sessions[t[1]].status = "active"
      PROVE  TicketMove
  <2>1. PICK r \in OpenRounds : tickets' = [tickets EXCEPT ![t] = [status |-> "pending", round |-> r, jackpot |-> 0]]
    BY <1>2 DEF Accept
  <2>2. tickets'[t].round = r /\ \A u \in Ticket : u # t => tickets'[u] = tickets[u]
    BY <1>0, <2>1 DEF KenoTypeOK
  <2> QED BY <1>2, <2>2 DEF TicketMove
<1>3. ASSUME NEW b \in Manual, PlaceTicket(b) PROVE TicketMove
  <2>1. <<b, 0>> \in Ticket /\ <<b, 0>>[1] \notin Session /\ Accept(<<b, 0>>)
    BY <1>3, KenoConstants DEF PlaceTicket
  <2> QED BY <1>2, <2>1
<1>4. ASSUME NEW e \in Engine, PlaceForSession(e) PROVE TicketMove
  <2>0. main[e].at = "placing" /\ MainKnows(e) /\ main[e].at \in Working
    BY <1>4 DEF PlaceForSession, Driving, KenoInv, Working, Betting
  <2>1. main[e].local \subseteq Listed /\ main[e].r \in Round
    BY <1>0, <2>0, Fields, RoundRange DEF WorkType, MainKnows
  <2>2. PICK x \in main[e].local : sessions[x[1]].status = "active" /\ Accept(<<x[1], R(e)>>)
    BY <1>4 DEF PlaceForSession
  <2>3. <<x[1], R(e)>> \in Ticket /\ <<x[1], R(e)>>[1] = x[1]
    BY <2>1, KenoConstants DEF Listed, R
  <2>4. PICK t \in Ticket : t = <<x[1], R(e)>>
    BY <2>3
  <2> QED BY <1>2, <2>2, <2>3, <2>4
<1>5. ASSUME NEW e \in Engine, FailAndRefundRound(e) PROVE TicketMove
  <2>0. main[e].at = "refund" /\ MainKnows(e) /\ main[e].at \in Working
    BY <1>5 DEF FailAndRefundRound, Driving, KenoInv, Working
  <2>1. main[e].local \subseteq Pending(main[e].r)
    BY <2>0 DEF MainKnows
  <2>2. tickets' = [t \in Ticket |-> IF t \in main[e].local THEN [tickets[t] EXCEPT !.status = "refunded"]
                                                           ELSE tickets[t]]
    BY <1>5 DEF FailAndRefundRound
  <2>3. ASSUME NEW t \in Ticket
        PROVE  tickets'[t].round = tickets[t].round /\ (tickets[t].status = "none" => tickets'[t].status = "none")
    <3>1. t \in main[e].local => tickets[t].status = "pending"
      BY <2>1 DEF Pending
    <3> QED BY <1>0, <2>2, <3>1 DEF TicketRow
  <2> QED BY <2>3 DEF TicketMove
<1>6. ASSUME NEW e \in Engine, NEW r \in Round, SettleTickets(e, r) PROVE TicketMove
  <2> DEFINE T == task[e][r].tickets
             won == {t \in T : Prize[t[1]] > 0}
             done == {t \in T : tickets[t].status = "pending"}
  <2>1. tickets' = [t \in Ticket |->
             [tickets[t] EXCEPT !.status = IF t \notin done THEN @ ELSE IF t \in won THEN "won" ELSE "lost",
                                !.jackpot = IF t \in Hits(T) THEN Pool ELSE @]]
    BY <1>6, Zenon DEF SettleTickets
  <2>2. \A t \in done : tickets[t].status = "pending"
    OBVIOUS
  <2> HIDE DEF T, won, done
  <2>3. ASSUME NEW t \in Ticket
        PROVE  tickets'[t].round = tickets[t].round /\ (tickets[t].status = "none" => tickets'[t].status = "none")
    <3> DEFINE st == IF t \notin done THEN tickets[t].status ELSE IF t \in won THEN "won" ELSE "lost"
               jp == IF t \in Hits(T) THEN Pool ELSE tickets[t].jackpot
               half == [tickets[t] EXCEPT !.status = st]
    <3>1. tickets[t].status = "none" => st = "none"
      BY <2>2
    <3>2. tickets'[t] = [half EXCEPT !.jackpot = jp]
      BY <1>0, <2>1
    <3> HIDE DEF st, jp
    <3>3. half.round = tickets[t].round /\ half.status = st
          /\ half = [status |-> st, round |-> tickets[t].round, jackpot |-> tickets[t].jackpot]
      BY <1>0 DEF TicketRow
    <3> HIDE DEF half
    <3>4. tickets'[t].round = half.round /\ tickets'[t].status = half.status
      BY <3>2, <3>3
    <3> QED BY <3>1, <3>3, <3>4
  <2> QED BY <2>3 DEF TicketMove
<1>7. ASSUME NEW e \in Engine, MainStep(e) PROVE TicketMove
  <2>1. UNCHANGED tickets \/ PlaceForSession(e) \/ FailAndRefundRound(e)
    BY <1>7 DEF MainStep, ReadStuckRounds, RecoverRound, SelectRefunds, Sweep, CreateRound, OpenBetting,
       ListSessions, RejectForSession, CountPlaced, ExhaustIfDone, PlacingOver, BettingOver,
       BettingAborted, SelectTicketIds, CloseBetting, ReadDraw, Draw, RevealNumber, DrawComplete, Exit, db
  <2> QED BY <1>1, <1>4, <1>5, <2>1
<1>8. ASSUME NEW e \in Engine, NEW r \in Round, TaskStep(e, r) PROVE TicketMove
  <2>1. UNCHANGED tickets \/ SettleTickets(e, r)
    BY <1>8 DEF TaskStep, ReadRound, MarkSettling, SelectPending, RecordSettlement, CompleteRound, db
  <2> QED BY <1>1, <1>6, <2>1
<1>9. ASSUME NEW e \in Engine, WinLock(e) \/ LockStep(e) \/ EngineFault(e) PROVE TicketMove
  <2>1. UNCHANGED tickets
    BY <1>9 DEF WinLock, LockStep, LockLost, KeyExpires, EngineFault, EngineFails, PlacementFails,
       EngineCrash, LockExpires, StopEngine, SettlementFails, db
  <2> QED BY <1>1, <2>1
<1>10. ASSUME \/ \E s \in Session : StartSession(s) \/ StopSession(s)
              \/ \E r \in Round : GrowOld(r)
              \/ UNCHANGED kenoVars
       PROVE  TicketMove
  BY <1>1, <1>10 DEF StartSession, StopSession, GrowOld, kenoVars
<1> QED BY <1>3, <1>7, <1>8, <1>9, <1>10 DEF KenoNext

\* The numbers stand on what was published: no second seed, no late ticket
\* (_close_betting, _run_draw, _place_ticket).
THEOREM NumbersAlwaysStand == KenoSpec /\ []OneDrives => NumbersStand
<1>1. ASSUME KenoInv, [KenoNext]_kenoVars PROVE NoTicketAfterDraw
  <2>1. TicketMove /\ \A q \in DOMAIN rounds : RoundBooks(q)
    BY <1>1, TicketMoves DEF KenoInv
  <2> QED BY <2>1 DEF TicketMove, NoTicketAfterDraw, OpenRounds, RoundBooks
<1>2. KenoInv => SeedExplainsDraw
  BY DEF KenoInv, RoundBooks, SeedExplainsDraw
<1>3. KenoInv /\ [KenoNext]_kenoVars => [NoTicketAfterDraw]_kenoVars
  BY <1>1
<1> QED BY <1>2, <1>3, KenoInvariant, PTL DEF KenoSpec, NumbersStand

\* The end of a round, its settlement and the end of a session are final
\* (_settle_and_complete, recover_on_startup, _place_for_session).
THEOREM DecisionsAlwaysStand == KenoSpec /\ []OneDrives => DecisionsStand
<1>1. ASSUME KenoInv, [KenoNext]_kenoVars
      PROVE  /\ \A r \in DOMAIN rounds : ~ Live(r) => rounds'[r].status = rounds[r].status
             /\ \A r \in DOMAIN rounds :
                  rounds[r].status = "settling" => rounds'[r].status \in {"settling", "completed"}
  BY <1>1, StatusMoves DEF StatusMove, Live, Terminal
<1>2. ASSUME KenoInv, [KenoNext]_kenoVars
      PROVE  \A t \in Ticket : t[1] \in Session /\ tickets[t].status = "none" /\ tickets'[t].status # "none"
               => sessions[t[1]].status = "active"
  BY <1>2, TicketMoves DEF TicketMove
<1>3. KenoSpec /\ []OneDrives => TerminalFinal
  <2>1. KenoInv /\ [KenoNext]_kenoVars
          => [\A r \in DOMAIN rounds : ~ Live(r) => rounds'[r].status = rounds[r].status]_kenoVars
    BY <1>1
  <2> QED BY <2>1, KenoInvariant, PTL DEF KenoSpec, TerminalFinal
<1>4. KenoSpec /\ []OneDrives => SettlingNeverRefunded
  <2>1. KenoInv /\ [KenoNext]_kenoVars
          => [\A r \in DOMAIN rounds :
                rounds[r].status = "settling" => rounds'[r].status \in {"settling", "completed"}]_kenoVars
    BY <1>1
  <2> QED BY <2>1, KenoInvariant, PTL DEF KenoSpec, SettlingNeverRefunded
<1>5. KenoSpec /\ []OneDrives => NoTicketAfterStop
  <2>1. KenoInv /\ [KenoNext]_kenoVars
          => [\A t \in Ticket : t[1] \in Session /\ tickets[t].status = "none" /\ tickets'[t].status # "none"
                => sessions[t[1]].status = "active"]_kenoVars
    BY <1>2
  <2> QED BY <2>1, KenoInvariant, PTL DEF KenoSpec, NoTicketAfterStop
<1> QED BY <1>3, <1>4, <1>5 DEF DecisionsStand
-----------------------------------------------------------------------------
(***************************************************************************)
(* The premise, from the lock.                                             *)
(***************************************************************************)

\* An engine at work is not down.
LEMMA WorkNotDown ==
    ASSUME NEW a, NEW b, NEW c, NEW d
    PROVE  [at |-> a, todo |-> b, r |-> c, local |-> d] # Down
<1> DEFINE m == [at |-> a, todo |-> b, r |-> c, local |-> d]
<1>1. "todo" \in DOMAIN m /\ "todo" \notin DOMAIN Down
  BY DEF Down, At
<1> HIDE DEF m
<1>2. m # Down
  BY <1>1
<1> QED BY <1>2 DEF m

\* A step of the main loop, but for its end, finds its engine running, leaves
\* it running and does not touch the lock.
LEMMA RunsOn ==
    ASSUME KenoTypeOK, NEW e \in Engine,
           (MainStep(e) /\ ~ Exit(e)) \/ EngineFails(e) \/ PlacementFails(e)
    PROVE  /\ main[e] # Down /\ UNCHANGED <<keyOwner, holds>>
           /\ main' = main \/ (main' = [main EXCEPT ![e] = main'[e]] /\ main'[e] # Down)
<1> DEFINE Runs == main' = main \/ (main' = [main EXCEPT ![e] = main'[e]] /\ main'[e] # Down)
<1>1. ASSUME NEW m, m # Down, main' = [main EXCEPT ![e] = m] PROVE Runs
  BY <1>1, Moves
<1>2. ASSUME NEW l, NEW todo, NEW r, main' = [main EXCEPT ![e] = Work(l, todo, r)] PROVE Runs
  <2>1. Work(l, todo, r) # Down
    BY WorkNotDown DEF Work
  <2> HIDE DEF Runs
  <2> QED BY <1>1, <1>2, <2>1
<1>b. ASSUME NEW l, NEW todo, NEW r, NEW x, main' = [main EXCEPT ![e] = main'[e]],
             main'[e] = [at |-> l, todo |-> todo, r |-> r, local |-> x]
      PROVE  Runs
  <2>1. main'[e] # Down
    BY <1>b, WorkNotDown
  <2> QED BY <1>b, <2>1
<1>3. ASSUME NextRound(e) PROVE Runs
  <2>1. /\ main' = [main EXCEPT ![e] = main'[e]]
        /\ main'[e] = [at |-> "next", todo |-> main[e].todo, r |-> 0, local |-> {}]
    BY <1>3, Moves
  <2> HIDE DEF Runs
  <2> QED BY <1>b, <2>1
<1>4. ASSUME main[e].at \in Working, NEW l, Go(e, l) PROVE Runs
  <2>1. /\ main' = [main EXCEPT ![e] = main'[e]]
        /\ main'[e] = [at |-> l, todo |-> main[e].todo, r |-> main[e].r, local |-> main[e].local]
    BY <1>4, Moves
  <2> HIDE DEF Runs
  <2> QED BY <1>b, <2>1
<1>5. ASSUME main[e].at \in Working, NEW l, NEW x, With(e, l, x) PROVE Runs
  <2>1. /\ main' = [main EXCEPT ![e] = main'[e]]
        /\ main'[e] = [at |-> l, todo |-> main[e].todo, r |-> main[e].r, local |-> x]
    BY <1>5, WithMoves
  <2> HIDE DEF Runs
  <2> QED BY <1>b, <2>1
<1>6. ASSUME main' = [main EXCEPT ![e] = At("drain")] PROVE Runs
  <2>1. At("drain") # Down
    BY DEF At, Down
  <2> HIDE DEF Runs
  <2> QED BY <1>1, <1>6, <2>1
<1>7. main' = main => Runs
  OBVIOUS
<1> HIDE DEF Runs
<1>8. \A l \in Working \union {"recover", "drain"} : main[e].at = l => main[e] # Down
  BY DEF Down, At, Working, Betting, Drawing
<1>9. ASSUME MainStep(e), ~ Exit(e) PROVE Runs /\ main[e] # Down /\ UNCHANGED <<keyOwner, holds>>
  <2>1. UNCHANGED <<keyOwner, holds>>
    BY <1>9 DEF MainStep, ReadStuckRounds, RecoverRound, SelectRefunds, FailAndRefundRound, Sweep,
       CreateRound, OpenBetting, ListSessions, PlaceForSession, RejectForSession, CountPlaced,
       ExhaustIfDone, PlacingOver, BettingOver, BettingAborted, SelectTicketIds, CloseBetting,
       ReadDraw, Draw, RevealNumber, DrawComplete, proc
  <2>2. main[e] # Down
    <3>1. main[e].at \in Working \union {"recover"}
      BY <1>9 DEF MainStep, ReadStuckRounds, RecoverRound, SelectRefunds, FailAndRefundRound, Sweep,
         CreateRound, OpenBetting, ListSessions, PlaceForSession, RejectForSession, CountPlaced,
         ExhaustIfDone, PlacingOver, BettingOver, BettingAborted, SelectTicketIds, CloseBetting,
         ReadDraw, Draw, RevealNumber, DrawComplete, Continues, Driving, Working, Betting, Drawing
    <3> QED BY <1>8, <3>1
  <2>3. ASSUME ReadStuckRounds(e) \/ CreateRound(e) PROVE Runs
    BY <1>2, <2>3 DEF ReadStuckRounds, CreateRound
  <2>4. ASSUME RecoverRound(e) PROVE Runs
    <3>1. PICK x \in main[e].todo :
            main' = [main EXCEPT ![e] =
              IF x[2] = "settling" THEN Work("next", @.todo \ {x}, 0)
              ELSE Work(IF rounds[x[1]].old THEN "fail" ELSE Resumed(x[2]), @.todo \ {x}, x[1])]
      BY <2>4 DEF RecoverRound
    <3>2. \/ main' = [main EXCEPT ![e] = Work("next", main[e].todo \ {x}, 0)]
          \/ main' = [main EXCEPT ![e] = Work(IF rounds[x[1]].old THEN "fail" ELSE Resumed(x[2]),
                                              main[e].todo \ {x}, x[1])]
      BY <3>1 DEF KenoTypeOK
    <3> QED BY <1>2, <3>2
  <2>5. ASSUME FailAndRefundRound(e) \/ BettingAborted(e) \/ DrawComplete(e) PROVE Runs
    BY <1>3, <2>5 DEF FailAndRefundRound, BettingAborted, DrawComplete
  <2>6. ASSUME \/ SelectRefunds(e) \/ ListSessions(e) \/ PlaceForSession(e) \/ RejectForSession(e)
               \/ ExhaustIfDone(e) \/ SelectTicketIds(e)
        PROVE  Runs
    BY <1>5, <2>6 DEF SelectRefunds, ListSessions, PlaceForSession, RejectForSession, ExhaustIfDone,
       SelectTicketIds, Driving, Working, Betting
  <2>7. ASSUME CountPlaced(e) \/ PlacingOver(e) \/ BettingOver(e) \/ CloseBetting(e) PROVE Runs
    BY <1>4, <2>7 DEF CountPlaced, PlacingOver, BettingOver, CloseBetting, Driving, Working, Betting
  <2>8. ASSUME Sweep(e) PROVE Runs
    <3>1. main[e].at \in Working /\ Go(e, IF Len(rounds) < MaxRounds THEN "create" ELSE "next")
      BY <2>8 DEF Sweep, Continues, Driving, Working, Go
    <3> QED BY <1>4, <3>1
  <2>9. ASSUME ReadDraw(e) PROVE Runs
    <3>1. main[e].at \in Working
          /\ With(e, IF rounds[R(e)].drawn = NoSeed THEN "drawing" ELSE "reveal", rounds[R(e)].seed)
      BY <2>9 DEF ReadDraw, Driving, Working, Drawing, With
    <3> QED BY <1>5, <3>1
  <2>10. ASSUME OpenBetting(e) \/ Draw(e) PROVE Runs
    <3>1. main[e].at \in Working
          /\ (Go(e, "autoplay") \/ With(e, "reveal", {}) \/ main' = [main EXCEPT ![e] = At("drain")])
      BY <2>10 DEF OpenBetting, Draw, Driving, Working, Drawing
    <3> QED BY <1>4, <1>5, <1>6, <3>1
  <2>11. RevealNumber(e) => Runs
    BY <1>7 DEF RevealNumber
  <2>12. Runs
    BY <1>9, <2>3, <2>4, <2>5, <2>6, <2>7, <2>8, <2>9, <2>10, <2>11 DEF MainStep
  <2> QED BY <2>1, <2>2, <2>12
<1>10. ASSUME EngineFails(e) PROVE Runs /\ main[e] # Down /\ UNCHANGED <<keyOwner, holds>>
  <2>1. main' = [main EXCEPT ![e] = At("drain")] /\ main[e] # Down /\ UNCHANGED <<keyOwner, holds>>
    BY <1>10 DEF EngineFails, proc, Down, At
  <2> QED BY <1>6, <2>1
<1>11. ASSUME PlacementFails(e) PROVE Runs /\ main[e] # Down /\ UNCHANGED <<keyOwner, holds>>
  <2>1. main[e].at \in Working /\ (\E x : With(e, "placing", x)) /\ UNCHANGED <<keyOwner, holds>>
    BY <1>11 DEF PlacementFails, proc, Driving, Working, Betting
  <2> QED BY <1>5, <1>8, <2>1
<1> QED BY <1>9, <1>10, <1>11 DEF Runs

\* The key in Redis, the belief in it and the running engine stay together
\* while no key expires under its holder.
LEMMA LockStays ==
    ASSUME KenoTypeOK, LockKept, [KenoNext]_kenoVars, \A e \in Engine : ~ LockExpires(e)
    PROVE  LockKept'
<1> DEFINE Kept(e) == (main[e] # Down <=> holds[e]) /\ (holds[e] => keyOwner = e)
<1>0. /\ main = [e \in Engine |-> main[e]] /\ holds \in [Engine -> BOOLEAN]
      /\ NoEngine \notin Engine /\ \A e \in Engine : Kept(e)
  BY KenoConstants DEF KenoTypeOK, LockKept
<1>1. ASSUME NEW e \in Engine, (MainStep(e) /\ ~ Exit(e)) \/ EngineFails(e) \/ PlacementFails(e)
      PROVE  LockKept'
  <2>1. /\ main[e] # Down /\ UNCHANGED <<keyOwner, holds>>
        /\ main' = main \/ (main' = [main EXCEPT ![e] = main'[e]] /\ main'[e] # Down)
    BY <1>1, RunsOn
  <2>2. \A f \in Engine : main'[f] # Down <=> main[f] # Down
    <3>1. CASE main' = main
      BY <3>1
    <3>2. CASE main' = [main EXCEPT ![e] = main'[e]] /\ main'[e] # Down
      <4> DEFINE v == main'[e]
      <4>1. main' = [main EXCEPT ![e] = v] /\ v # Down
        BY <3>2
      <4> HIDE DEF v
      <4> QED BY <1>0, <2>1, <4>1
    <3> QED BY <2>1, <3>1, <3>2
  <2> QED BY <2>1, <2>2 DEF LockKept
<1>2. ASSUME NEW e \in Engine, Exit(e) \/ EngineCrash(e) PROVE LockKept'
  <2>1. /\ main' = [main EXCEPT ![e] = Down] /\ holds' = [holds EXCEPT ![e] = FALSE]
        /\ keyOwner' = keyOwner \/ (keyOwner = e /\ keyOwner' = NoEngine)
    BY <1>2 DEF Exit, EngineCrash
  <2>2. main'[e] = Down /\ ~ holds'[e]
    BY <1>0, <2>1
  <2>3. \A f \in Engine : f # e => main'[f] = main[f] /\ holds'[f] = holds[f]
    BY <1>0, <2>1
  <2>4. \A f \in Engine : f # e /\ holds[f] => keyOwner' = f
    BY <1>0, <2>1
  <2> QED BY <1>0, <2>2, <2>3, <2>4 DEF LockKept
<1>3. ASSUME NEW e \in Engine, WinLock(e) PROVE LockKept'
  <2>1. /\ main' = [main EXCEPT ![e] = At("recover")] /\ holds' = [holds EXCEPT ![e] = TRUE]
        /\ keyOwner = NoEngine /\ keyOwner' = e /\ At("recover") # Down
    BY <1>3 DEF WinLock, At, Down
  <2>2. main'[e] # Down /\ holds'[e]
    BY <1>0, <2>1
  <2>3. \A f \in Engine : f # e => main'[f] = main[f] /\ holds'[f] = holds[f]
    BY <1>0, <2>1
  <2>4. \A f \in Engine : ~ holds[f]
    BY <1>0, <2>1
  <2> QED BY <1>0, <2>1, <2>2, <2>3, <2>4 DEF LockKept
<1>4. ASSUME NEW e \in Engine, LockStep(e) PROVE LockKept'
  <2>1. ~ LockLost(e)
    BY <1>0 DEF LockLost
  <2>2. UNCHANGED <<main, holds>> /\ keyOwner = e /\ ~ holds[e]
    BY <1>4, <2>1 DEF LockStep, KeyExpires
  <2>3. \A f \in Engine : ~ holds[f]
    BY <1>0, <2>2
  <2> QED BY <1>0, <2>2, <2>3 DEF LockKept
<1>5. UNCHANGED <<main, holds, keyOwner>> => LockKept'
  BY <1>0 DEF LockKept
<1>6. ASSUME NEW e \in Engine, \/ StopEngine(e)
                               \/ \E r \in Round : SettlementFails(e, r) \/ TaskStep(e, r)
      PROVE  LockKept'
  <2>1. UNCHANGED <<main, holds, keyOwner>>
    BY <1>6 DEF StopEngine, SettlementFails, TaskStep, ReadRound, MarkSettling, SelectPending,
       SettleTickets, RecordSettlement, CompleteRound, proc
  <2> QED BY <1>5, <2>1
<1>7. ASSUME \/ \E b \in Manual : PlaceTicket(b)
             \/ \E s \in Session : StartSession(s) \/ StopSession(s)
             \/ \E r \in Round : GrowOld(r)
             \/ UNCHANGED kenoVars
      PROVE  LockKept'
  <2>1. UNCHANGED <<main, holds, keyOwner>>
    BY <1>7 DEF PlaceTicket, StartSession, StopSession, GrowOld, kenoVars, proc
  <2> QED BY <1>5, <2>1
<1> QED BY <1>1, <1>2, <1>3, <1>4, <1>6, <1>7 DEF KenoNext, EngineFault

\* While no key expires under a live holder, one engine runs at a time,
\* whatever crashes, fails, stops and starts (keno_worker.py, keno_lock.py).
THEOREM OneEngineDrives ==
    KenoSpec /\ [][\A e \in Engine : ~ LockExpires(e)]_kenoVars => []OneDrives
<1>1. KenoInit => KenoInv /\ LockKept
  <2>1. KenoInit => LockKept
    BY DEF KenoInit, LockKept
  <2> QED BY <2>1, InitKeeps
<1>2. LockKept => OneDrives
  BY DEF LockKept, OneDrives
<1>3. ASSUME KenoInv, LockKept, [KenoNext]_kenoVars, [\A e \in Engine : ~ LockExpires(e)]_kenoVars
      PROVE  LockKept'
  <2>1. \A e \in Engine : ~ LockExpires(e)
    BY <1>3 DEF LockExpires, Fault, kenoVars, KenoInv, KenoTypeOK
  <2> QED BY <1>3, <2>1, LockStays DEF KenoInv
<1>4. LockKept' => OneDrives'
  BY DEF LockKept, OneDrives
<1>5. KenoInv /\ LockKept /\ [KenoNext]_kenoVars /\ [\A e \in Engine : ~ LockExpires(e)]_kenoVars
        => KenoInv' /\ LockKept'
  BY <1>2, <1>3, <1>4, StepKeeps
<1> QED BY <1>1, <1>2, <1>5, PTL DEF KenoSpec

\* So under the same premise the money, the numbers and the decisions are
\* right (keno_round_engine.py, keno_tickets.py, keno_autoplay.py).
THEOREM KenoSafe ==
    KenoSpec /\ [][\A e \in Engine : ~ LockExpires(e)]_kenoVars
      => []TicketEndsOneWay /\ NumbersStand /\ DecisionsStand
BY OneEngineDrives, TicketsEndOneWay, NumbersAlwaysStand, DecisionsAlwaysStand, PTL
=============================================================================
