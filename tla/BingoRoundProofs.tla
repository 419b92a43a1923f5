-------------------------- MODULE BingoRoundProofs --------------------------
(***************************************************************************)
(* A bingo room for any number of engines, rounds, players and faults.     *)
(* The argument: a round is known to one engine at most (RoundsOwned), so  *)
(* a step of another engine, of recovery or of the console can do no more  *)
(* to it than end it (Quiet); what an engine remembers is then kept by     *)
(* everybody else's steps (FrameKept) and by its own (LocalKept and the    *)
(* lemmas of the writing steps), and the rows stay equal to what the       *)
(* ledger keys say (BooksStep).  The properties follow from the rows.  A   *)
(* round torn by a command that failed after its commit stays torn         *)
(* (TornGrows): of it only Ended, Settled and Pots are claimed.            *)
(***************************************************************************)
EXTENDS BingoRound, FiniteSetTheorems, TLAPS

-----------------------------------------------------------------------------
(***************************************************************************)
(* The pot arithmetic (services/engine/settlement.py), for every pot, cut  *)
(* and number of winners.                                                  *)
(***************************************************************************)

\* house_cut_bps is checked to be in this range (compute_derash).
Bps == 0 .. 10000

\* The winners' side is the cut's complement of the pot, rounded down.
RoundsDown(pot, bps) ==
    /\ Derash(pot, bps) \in Nat
    /\ 10000 * Derash(pot, bps) <= pot * (10000 - bps)
    /\ pot * (10000 - bps) < 10000 * Derash(pot, bps) + 10000

\* Rounding down to whole units of n, as both roundings of the code do.
LEMMA RoundDown ==
    ASSUME NEW x \in Nat, NEW n \in Nat \ {0}
    PROVE  /\ x \div n \in Nat
           /\ n * (x \div n) <= x
           /\ x < n * (x \div n) + n
  OBVIOUS

\* What compute_derash() leaves the winners.
LEMMA DerashBounds ==
    ASSUME NEW pot \in Nat, NEW bps \in Bps
    PROVE  RoundsDown(pot, bps)
  <1> DEFINE x == pot * (10000 - bps)
  <1>1. x \in Nat
    BY DEF Bps
  <1> HIDE DEF x
  <1>2. /\ x \div 10000 \in Nat
        /\ 10000 * (x \div 10000) <= x
        /\ x < 10000 * (x \div 10000) + 10000
    BY <1>1, RoundDown
  <1> QED
    BY <1>2 DEF RoundsDown, Derash, x

\* The two roundings down, of the pot and then of the share, lose no more than
\* one rounding of the whole division would: whatever the pot, the cut and the
\* number of winners, each gets the largest equal whole-cent share.
THEOREM SharesAreFair ==
    ASSUME NEW pot \in Nat, NEW bps \in Bps, NEW n \in Nat \ {0}
    PROVE  IsFairShare(Share(Derash(pot, bps), n), pot, bps, n)
  <1>0. RoundsDown(pot, bps)
    BY DerashBounds
  <1> DEFINE d == Derash(pot, bps)
             s == Share(d, n)
             x == pot * (10000 - bps)
  <1>1. d \in Nat /\ 10000 * d <= x /\ x < 10000 * d + 10000
    BY <1>0 DEF RoundsDown
  <1>2. x \in Nat
    BY DEF Bps
  <1> HIDE DEF d, x
  <1>3. s \in Nat /\ n * s <= d /\ d < n * s + n
    BY <1>1, RoundDown DEF Share
  <1> HIDE DEF s
  <1> DEFINE p == n * s
  <1>4. p \in Nat /\ s * n = p /\ (s + 1) * n = p + n
    BY <1>3
  <1>5. p <= d /\ d + 1 <= p + n
    BY <1>1, <1>3, <1>4
  <1> HIDE DEF p
  <1>6. p * 10000 <= x
    BY <1>1, <1>2, <1>4, <1>5
  <1>7. x < (p + n) * 10000
    BY <1>1, <1>2, <1>4, <1>5
  <1> QED
    BY <1>4, <1>6, <1>7 DEF IsFairShare, d, s, x

\* What the shares and the house receive is exactly the pot, and the house has
\* at least its configured cut: the fractions of a cent that rounding leaves
\* over are never lost and never paid twice.
THEOREM PotIsFullyPaid ==
    ASSUME NEW pot \in Nat, NEW bps \in Bps, NEW n \in Nat \ {0}
    PROVE  IsFullyPaid(Share(Derash(pot, bps), n), HouseTotal(pot, bps, n), pot, bps, n)
  <1>0. RoundsDown(pot, bps)
    BY DerashBounds
  <1> DEFINE d == Derash(pot, bps)
             s == Share(d, n)
             h == HouseTotal(pot, bps, n)
  <1>1. d \in Nat /\ 10000 * d <= pot * (10000 - bps)
    BY <1>0 DEF RoundsDown
  <1>2. s \in Nat /\ n * s <= d
    BY <1>1, RoundDown DEF Share
  <1>3. h = (pot - d) + (d - s * n)
    BY DEF HouseTotal, HouseCut, Leftover
  <1> HIDE DEF d, s, h
  <1> DEFINE p == n * s
  <1>4. p \in Nat /\ s * n = p /\ p <= d
    BY <1>2
  <1> HIDE DEF p
  <1>5. h = pot - p
    BY <1>1, <1>3, <1>4
  <1>6. pot = p + h
    BY <1>4, <1>5
  <1>7. pot * (10000 - bps) = pot * 10000 - pot * bps
    BY DEF Bps
  <1> DEFINE c == pot * bps
  <1>8. c \in Nat
    BY DEF Bps
  <1> HIDE DEF c
  <1>9. h * 10000 >= c
    BY <1>1, <1>4, <1>5, <1>7, <1>8 DEF c
  <1> QED
    BY <1>4, <1>6, <1>9 DEF IsFullyPaid, d, s, h, p, c

-----------------------------------------------------------------------------
(***************************************************************************)
(* What a step is to an engine and to a round.                             *)
(***************************************************************************)

\* A step of engine e, or of a player, a lock or a fault it meets ...
EngineStep(e) ==
    \/ ClaimRoom(e) \/ MainStep(e) \/ TaskStep(e) \/ CommandStep(e)
    \/ PlayerAsks(e) \/ LockStep(e) \/ EngineFault(e)

\* ... leaves every other engine as it is.
Same(f) ==
    /\ mem'[f] = mem[f] /\ main'[f] = main[f] /\ cmd'[f] = cmd[f] /\ task'[f] = task[f]
    /\ held'[f] = held[f]

\* A round that an engine not writing to it need not look at again: it was left
\* alone, or has ended.
Quiet(r) ==
    /\ r \in DOMAIN rounds'
    /\ rounds'[r].entries = rounds[r].entries /\ rounds'[r].pot = rounds[r].pot
    /\ rounds'[r].calls = rounds[r].calls
    /\ rounds'[r].status = rounds[r].status \/ (Live(r) /\ rounds'[r].status \in Terminal)
    /\ \A s \in Seat : <<"drop", r, s>> \in posted' <=> <<"drop", r, s>> \in posted

-----------------------------------------------------------------------------
(***************************************************************************)
(* Types.                                                                  *)
(***************************************************************************)

\* The counts and rates the proofs use.
LEMMA Constants == /\ Stake \in Nat /\ MaxCalls \in Nat /\ HouseCutBps \in 0 .. 10000
                   /\ IsFiniteSet(Seat) /\ AutoChoice \subseteq BOOLEAN
BY BingoAssumption

\* What an engine is doing, field by field.
LEMMA Shapes ==
    ASSUME TypeOK, NEW e \in Engine
    PROVE  /\ mem[e] \in Memory
           /\ OnRound(e) => main[e].round \in Nat \ {0}
           /\ main[e].at = "writing" => main[e].call \in 1 .. MaxCalls
           /\ main[e].at \in {"scan", "claim"} => main[e].todo \subseteq Seat
           /\ main[e].at = "claim" => main[e].seat \in Seat
           /\ SeatCmd(e) => cmd[e].round \in Nat \ {0} /\ cmd[e].seat \in Seat
           /\ cmd[e].at = "claim" => cmd[e].seat \in Seat
           /\ task[e].at = "pay" => /\ task[e].round \in Nat \ {0} /\ task[e].pot \in Int
                                    /\ task[e].winners \subseteq Seat
<1>1. mem[e] \in Memory /\ main[e] \in MainState /\ cmd[e] \in CmdState /\ task[e] \in TaskState
  BY DEF TypeOK
<1> QED BY <1>1 DEF OnRound, SeatCmd, MainState, CmdState, TaskState

\* A place without locals is named by its label.
LEMMA MainLabels ==
    ASSUME TypeOK, NEW e \in Engine
    PROVE  /\ main[e].at = "down" => main[e] = Down
           /\ main[e].at = "await" => main[e] = At("await")
<1>1. main[e] \in MainState
  BY DEF TypeOK
<1> QED BY <1>1 DEF MainState, Down, At

\* What _reset_to_idle() leaves is a memory.
LEMMA IdleType == IdleMem \in Memory
BY BingoAssumption DEF IdleMem, Memory

\* The initial state has its type.
LEMMA InitType == Init => TypeOK
BY IdleType DEF Init, TypeOK, MainState, CmdState, TaskState, Down, NoCmd, NoTask, At

\* What run_forever() leaves behind has its type (Exit).
LEMMA ExitType ==
    ASSUME TypeOK, NEW e \in Engine, Exit(e)
    PROVE  /\ main' \in [Engine -> MainState] /\ cmd' \in [Engine -> CmdState]
           /\ mem' \in [Engine -> Memory]
           /\ owner' \in Engine \union {NoEngine} /\ held' \in [Engine -> BOOLEAN]
BY IdleType DEF TypeOK, Exit, ResetToIdle, SetMem, Goto, lock, MainState, CmdState, Down, NoCmd, At

\* A registered claim keeps memory and settlement task in their types (Register).
LEMMA RegisterType ==
    ASSUME TypeOK, NEW e \in Engine, NEW s \in Seat, Register(e, s)
    PROVE  mem' \in [Engine -> Memory] /\ task' \in [Engine -> TaskState]
<1>1. mem[e] \in Memory
  BY Shapes
<1>2. /\ [mem[e] EXCEPT !.status = "settling", !.settling = TRUE, !.pending = @ \union {s}] \in Memory
      /\ [mem[e] EXCEPT !.pending = @ \union {s}] \in Memory
  BY <1>1 DEF Memory
<1>3. At("window") \in TaskState
  BY DEF At, TaskState
<1> QED BY <1>2, <1>3 DEF TypeOK, Register, SetMem

\* _start_new_round() appends a row and overwrites the memory, both of their types.
LEMMA StartType ==
    ASSUME TypeOK, NEW e \in Engine, StartNewRound(e)
    PROVE  rounds' \in Seq(Row) /\ mem' \in [Engine -> Memory]
<1>1. NewRow \in Row
  BY BingoAssumption DEF NewRow, Row
<1>2. Len(rounds) + 1 \in Nat
  BY DEF TypeOK
<1>3. [IdleMem EXCEPT !.status = "lobby", !.round = Len(rounds) + 1] \in Memory
  BY <1>2, IdleType DEF Memory
<1> QED BY <1>1, <1>3 DEF TypeOK, StartNewRound, SetMem

\* An UPDATE of one row neither adds a row nor removes one.
LEMMA SetRowType ==
    ASSUME TypeOK, NEW r \in DOMAIN rounds, NEW row \in Row, SetRow(r, row)
    PROVE  rounds' \in Seq(Row) /\ Len(rounds') = Len(rounds) /\ DOMAIN rounds' = DOMAIN rounds
BY DEF SetRow, TypeOK

\* A refund keeps the rows and the ledger keys in their types (refund_round_in_transaction).
LEMMA RefundType ==
    ASSUME TypeOK, NEW r \in DOMAIN rounds, Refund(r)
    PROVE  rounds' \in Seq(Row) /\ posted' \subseteq Key
<1>1. rounds[r] \in Row /\ r \in Nat \ {0}
  BY DEF TypeOK
<1>2. [rounds[r] EXCEPT !.status = "voided"] \in Row
  BY <1>1 DEF Row
<1>3. rounds' \in Seq(Row)
  BY <1>2, SetRowType DEF Refund, TypeOK, db
<1>4. \A s \in rounds[r].entries : <<"refund", r, s>> \in Key
  BY <1>1 DEF Row, Key
<1> QED BY <1>3, <1>4 DEF Refund, TypeOK, db

\* Type correctness: the steps of run_forever().
LEMMA MainStepType ==
    ASSUME TypeOK, RoundsOwned, NEW e \in Engine, Phases(e), MainStep(e)
    PROVE  TypeOK'
<1> USE DEF TypeOK, db, lock, bounds, Goto, At, ResetToIdle, SetMem
<1>0. /\ mem[e] \in Memory
      /\ OnRound(e) => main[e].round \in DOMAIN rounds
      /\ \A l \in {"down", "start", "loop", "rest", "lobby", "calling", "await", "voided"} :
           [at |-> l] \in MainState
      /\ [at |-> "none"] \in TaskState
  BY Shapes DEF RoundsOwned, MainState, TaskState
<1>1. CASE Loop(e)
  BY <1>0, <1>1 DEF Loop
<1>2. CASE LoopEnds(e)
  BY <1>2, ExitType DEF LoopEnds
<1>3. CASE RestOver(e)
  BY <1>0, <1>3, ExitType DEF RestOver
<1>4. CASE Start(e)
  BY <1>0, <1>4, StartType DEF Start
<1>5. CASE LobbyOver(e)
  <2>1. [at |-> IF Underfilled(e) THEN "voiding" ELSE "starting", round |-> mem[e].round] \in MainState
    BY <1>0, <1>5 DEF LobbyOver, Memory, MainState
  <2> QED BY <1>5, <2>1 DEF LobbyOver
<1>6. CASE LobbyLost(e)
  BY <1>6, ExitType DEF LobbyLost
<1>7. CASE AssertionFails(e)
  BY <1>7, ExitType DEF AssertionFails
<1>8. CASE TransitionToRunning(e)
  <2>1. rounds[main[e].round] \in Row /\ main[e].round \in DOMAIN rounds
    BY <1>0, <1>8 DEF TransitionToRunning, OnRound
  <2>2. [rounds[main[e].round] EXCEPT !.status = "running"] \in Row
    BY <2>1 DEF Row
  <2>3. [mem[e] EXCEPT !.status = "running"] \in Memory
    BY <1>0 DEF Memory
  <2>4. rounds' \in Seq(Row)
    BY <1>8, <2>1, <2>2, SetRowType DEF TransitionToRunning
  <2> QED BY <1>0, <1>8, <2>3, <2>4, IdleType DEF TransitionToRunning
<1>9. CASE RefundAll(e)
  BY <1>0, <1>9, RefundType DEF RefundAll, OnRound
<1>10. CASE Voided(e)
  BY <1>0, <1>10, IdleType DEF Voided, NoTask
<1>11. CASE CallNumber(e)
  <2>1. mem[e].calls + 1 \in 1 .. MaxCalls /\ mem[e].calls + 1 \in 0 .. MaxCalls /\ mem[e].round \in Nat \ {0}
    BY <1>0, <1>11, BingoAssumption DEF CallNumber, Calling, Memory
  <2>2. [mem[e] EXCEPT !.calls = @ + 1] \in Memory
    BY <1>0, <2>1 DEF Memory
  <2>3. [at |-> "writing", round |-> mem[e].round, call |-> mem[e].calls + 1] \in MainState
    BY <2>1 DEF MainState
  <2> QED BY <1>11, <2>2, <2>3 DEF CallNumber
<1>12. CASE WriteCall(e)
  <2>1. /\ rounds[main[e].round] \in Row /\ main[e].round \in DOMAIN rounds
        /\ main[e].call \in 0 .. MaxCalls
    <3>1. main[e].at = "writing" /\ OnRound(e)
      BY <1>12 DEF WriteCall, OnRound
    <3>2. main[e].call \in 1 .. MaxCalls
      BY <3>1, Shapes
    <3>3. main[e].call \in 0 .. MaxCalls
      BY <3>2, Constants
    <3> QED BY <1>0, <3>1, <3>3
  <2>2. [rounds[main[e].round] EXCEPT !.calls = main[e].call] \in Row
    BY <2>1 DEF Row
  <2>3. [mem[e] EXCEPT !.settling = FALSE] \in Memory
    BY <1>0 DEF Memory
  <2>4. rounds' \in Seq(Row)
    BY <1>12, <2>1, <2>2, SetRowType DEF WriteCall
  <2>5. [at |-> "scan", todo |-> AutoWinners(e)] \in MainState
    BY <1>0 DEF AutoWinners, Memory, MainState
  <2>6. main' \in [Engine -> MainState] /\ mem' \in [Engine -> Memory]
    BY <1>0, <1>12, <2>3, <2>5, IdleType DEF WriteCall, Stopped
  <2> QED BY <1>12, <2>4, <2>6 DEF WriteCall
<1>13. CASE AutoClaim(e)
  <2>1. PICK s \in main[e].todo :
          /\ SetMem(e, [mem[e] EXCEPT !.autoClaimed = @ \union {s}])
          /\ Goto(e, [at |-> "claim", seat |-> s, todo |-> main[e].todo \ {s}])
    BY <1>13 DEF AutoClaim
  <2>2. s \in Seat /\ main[e].todo \subseteq Seat
    BY <1>13, Shapes DEF AutoClaim
  <2>3. [mem[e] EXCEPT !.autoClaimed = @ \union {s}] \in Memory
    BY <1>0, <2>2 DEF Memory
  <2>4. [at |-> "claim", seat |-> s, todo |-> main[e].todo \ {s}] \in MainState
    BY <2>2 DEF MainState
  <2> QED BY <1>13, <2>1, <2>3, <2>4 DEF AutoClaim
<1>14. CASE AutoRegister(e)
  <2>1. main[e].seat \in Seat /\ [at |-> "scan", todo |-> main[e].todo] \in MainState
    BY <1>14, Shapes DEF AutoRegister, MainState
  <2> QED BY <1>14, <2>1, RegisterType DEF AutoRegister, ScanOn
<1>15. CASE ScanOver(e)
  BY <1>0, <1>15 DEF ScanOver
<1>16. CASE CallsOver(e)
  <2>1. [mem[e] EXCEPT !.settling = FALSE] \in Memory
    BY <1>0 DEF Memory
  <2>2. mem[e].status = "running" => [at |-> "refunding", round |-> mem[e].round] \in MainState
    BY <1>0 DEF Phases, Memory, MainState
  <2> QED BY <1>0, <1>16, <2>1, <2>2 DEF CallsOver
<1>17. CASE SettlementAwaited(e)
  BY <1>0, <1>17, ExitType DEF SettlementAwaited, NoTask
<1> QED BY <1>1, <1>2, <1>3, <1>4, <1>5, <1>6, <1>7, <1>8, <1>9, <1>10, <1>11, <1>12, <1>13,
           <1>14, <1>15, <1>16, <1>17 DEF MainStep
\* Type correctness: taking the room.
LEMMA ClaimRoomType ==
    ASSUME TypeOK, NEW e \in Engine, ClaimRoom(e)
    PROVE  TypeOK'
BY IdleType DEF TypeOK, ClaimRoom, ResetToIdle, SetMem, Goto, At, NoTask, MainState, TaskState,
                db, bounds

\* A settlement pays someone.
LEMMA WinnersCount ==
    ASSUME TypeOK, NEW e \in Engine, Claims(e), task[e].at = "pay"
    PROVE  Cardinality(task[e].winners) \in Nat \ {0}
<1>1. task[e].winners \subseteq Seat /\ task[e].winners # {}
  BY Shapes DEF Claims
<1>2. IsFiniteSet(task[e].winners)
  BY <1>1, FS_Subset, BingoAssumption
<1> QED BY <1>1, <1>2, FS_CardinalityType, FS_EmptySet

\* The arithmetic of a pot stays in the integers (compute_derash, split_derash).
LEMMA SettlementType ==
    ASSUME NEW pot \in Int, NEW n \in Nat \ {0}
    PROVE  Share(Derash(pot, HouseCutBps), n) \in Int /\ HouseTotal(pot, HouseCutBps, n) \in Int
<1>0. pot * (10000 - HouseCutBps) \in Int
  <2>1. 10000 - HouseCutBps \in Int
    BY Constants
  <2> QED BY <2>1
<1>1. Derash(pot, HouseCutBps) \in Int
  BY <1>0 DEF Derash
<1>2. Share(Derash(pot, HouseCutBps), n) \in Int
  BY <1>1 DEF Share
<1> QED BY <1>1, <1>2 DEF HouseTotal, HouseCut, Leftover

\* The row a settlement writes.
LEMMA PayoutType ==
    ASSUME TypeOK, RoundsOwned, NEW e \in Engine, Claims(e), task[e].at = "pay", Payout(task[e])
    PROVE  rounds' \in Seq(Row) /\ posted' \subseteq Key /\ Len(rounds') = Len(rounds)
<1> DEFINE t == task[e]
           n == Cardinality(t.winners)
<1>1. /\ t.round \in DOMAIN rounds /\ t.round \in Nat \ {0} /\ t.pot \in Int
      /\ t.winners \subseteq Seat /\ rounds[t.round] \in Row
  BY Shapes DEF RoundsOwned, TypeOK
<1>2. Share(Derash(t.pot, HouseCutBps), n) \in Int /\ HouseTotal(t.pot, HouseCutBps, n) \in Int
  BY <1>1, WinnersCount, SettlementType
<1> HIDE DEF n, t
<1>3. [rounds[t.round] EXCEPT !.status = "done", !.winners = t.winners, !.paid = t.pot,
                              !.share = Share(Derash(t.pot, HouseCutBps), n),
                              !.house = HouseTotal(t.pot, HouseCutBps, n)] \in Row
  BY <1>1, <1>2 DEF Row
<1>4. rounds' \in Seq(Row) /\ Len(rounds') = Len(rounds)
  BY <1>1, <1>3, SetRowType DEF Payout, t, n
<1>5. <<"settle", t.round>> \in Key
  BY <1>1 DEF Key
<1> QED BY <1>4, <1>5 DEF Payout, TypeOK, t

\* Type correctness: the steps of the settlement task.
LEMMA TaskStepType ==
    ASSUME TypeOK, RoundsOwned, NEW e \in Engine, Claims(e), TaskStep(e)
    PROVE  TypeOK'
<1> USE DEF TypeOK, db, lock, bounds, At, ResetToIdle, SetMem
<1>0. /\ mem[e] \in Memory
      /\ \A l \in {"none", "failed", "window", "paid", "result"} : [at |-> l] \in TaskState
  BY Shapes DEF TaskState
<1>1. CASE WindowCloses(e)
  <2>1. mem[e].round # 0 =>
          [at |-> "pay", round |-> mem[e].round, pot |-> mem[e].pot, winners |-> mem[e].pending]
          \in TaskState
    BY <1>0 DEF Memory, TaskState
  <2>2. [mem[e] EXCEPT !.pending = {}] \in Memory
    BY <1>0 DEF Memory
  <2> QED BY <1>0, <1>1, <2>1, <2>2 DEF WindowCloses, Raised, NoTask
<1>2. CASE Settle(e)
  BY <1>0, <1>2, PayoutType, IdleType DEF Settle, NoTask
<1>3. CASE ShowResult(e)
  <2>1. [mem[e] EXCEPT !.status = "done"] \in Memory
    BY <1>0 DEF Memory
  <2> QED BY <1>0, <1>3, <2>1 DEF ShowResult
<1>4. CASE ResultOver(e)
  BY <1>0, <1>4, IdleType DEF ResultOver, NoTask
<1> QED BY <1>1, <1>2, <1>3, <1>4 DEF TaskStep

\* The stake is an integer, and so is a pot it is added to or taken from.
LEMMA AmountType == Stake \in Int /\ \A x \in Int : x + Stake \in Int /\ x - Stake \in Int
BY BingoAssumption

\* Type correctness: the rest of a command already begun.
LEMMA CommandStepType ==
    ASSUME TypeOK, RoundsOwned, NEW e \in Engine, CommandStep(e)
    PROVE  TypeOK'
<1> USE DEF TypeOK, db, lock, bounds, At, SetMem
<1>0. mem[e] \in Memory /\ NoCmd \in CmdState /\ cmd[e] \in CmdState
  BY Shapes DEF CmdState, NoCmd
<1>1. SeatCmd(e) => /\ cmd[e].round \in DOMAIN rounds /\ cmd[e].round \in Nat \ {0}
                    /\ cmd[e].seat \in Seat /\ rounds[cmd[e].round] \in Row
                    /\ \A kind \in {"stake", "drop"} : <<kind, cmd[e].round, cmd[e].seat>> \in Key
  BY Shapes DEF RoundsOwned, Key
<1>2. CASE JoinTxn(e)
  <2>1. [rounds[cmd[e].round] EXCEPT !.entries = @ \union {cmd[e].seat}, !.pot = @ + Stake] \in Row
    BY <1>1, <1>2, AmountType DEF JoinTxn, SeatCmd, Row
  <2>2. rounds' \in Seq(Row) /\ posted' \subseteq Key
    BY <1>1, <1>2, <2>1, SetRowType DEF JoinTxn, SeatCmd
  <2>3. [cmd[e] EXCEPT !.at = "joined"] \in CmdState
    BY <1>0, <1>2 DEF JoinTxn, CmdState
  <2> QED BY <1>0, <1>2, <2>2, <2>3 DEF JoinTxn
<1>3. CASE JoinRemember(e)
  <2>1. [mem[e] EXCEPT !.entries = @ \union {cmd[e].seat}, !.pot = @ + Stake,
             !.auto = IF cmd[e].auto THEN @ \union {cmd[e].seat} ELSE @ \ {cmd[e].seat}] \in Memory
    BY <1>0, <1>1, <1>3, AmountType DEF JoinRemember, SeatCmd, Memory
  <2> QED BY <1>0, <1>3, <2>1 DEF JoinRemember
<1>4. CASE DropTxn(e)
  <2>1. [rounds[cmd[e].round] EXCEPT !.entries = @ \ {cmd[e].seat}, !.pot = @ - Stake] \in Row
    BY <1>1, <1>4, AmountType DEF DropTxn, SeatCmd, Row
  <2>2. rounds' \in Seq(Row) /\ posted' \subseteq Key
    BY <1>1, <1>4, <2>1, SetRowType DEF DropTxn, SeatCmd
  <2>3. [cmd[e] EXCEPT !.at = "dropped"] \in CmdState
    BY <1>0, <1>4 DEF DropTxn, CmdState
  <2> QED BY <1>0, <1>4, <2>2, <2>3 DEF DropTxn
<1>5. CASE DropRemember(e)
  <2>1. [mem[e] EXCEPT !.entries = @ \ {cmd[e].seat}, !.pot = @ - Stake,
                       !.dropped = @ \union {cmd[e].seat}] \in Memory
    BY <1>0, <1>1, <1>5, AmountType DEF DropRemember, SeatCmd, Memory
  <2> QED BY <1>0, <1>5, <2>1 DEF DropRemember
<1>6. CASE ClaimRegister(e)
  BY <1>0, <1>6, Shapes, RegisterType DEF ClaimRegister
<1> QED BY <1>2, <1>3, <1>4, <1>5, <1>6 DEF CommandStep

\* Type correctness: the commands of the players.
LEMMA PlayerAsksType ==
    ASSUME TypeOK, NEW e \in Engine, Phases(e), PlayerAsks(e)
    PROVE  TypeOK'
<1> USE DEF TypeOK, db, lock, At, SetMem
<1>0. mem[e] \in Memory /\ (mem[e].status = "lobby" => mem[e].round \in Nat \ {0})
  BY Shapes DEF Phases, Memory
<1>1. CASE JoinStartsRound(e)
  BY <1>1, StartType DEF JoinStartsRound
<1>2. CASE Join(e)
  <2>1. \A s \in Seat, auto \in AutoChoice : mem[e].status = "lobby" =>
          [at |-> "join", round |-> mem[e].round, seat |-> s, auto |-> auto] \in CmdState
    BY <1>0, BingoAssumption DEF CmdState
  <2> QED BY <1>2, <2>1 DEF Join
<1>3. CASE Drop(e)
  <2>1. \A s \in Seat : mem[e].status = "lobby" =>
          [at |-> "drop", round |-> mem[e].round, seat |-> s] \in CmdState
    BY <1>0 DEF CmdState
  <2> QED BY <1>0, <1>3, <2>1 DEF Drop, Memory
<1>4. CASE SetAuto(e)
  <2>1. \A C \in SUBSET mem[e].entries, on \in BOOLEAN :
          [mem[e] EXCEPT !.auto = IF on THEN @ \union C ELSE @ \ C] \in Memory
    BY <1>0 DEF Memory
  <2>2. PICK u \in User, on \in AutoChoice :
          LET cards == {s \in mem[e].entries : s[1] = u}
          IN SetMem(e, [mem[e] EXCEPT !.auto = IF on THEN @ \union cards ELSE @ \ cards])
    BY <1>4 DEF SetAuto
  <2>3. on \in BOOLEAN
    BY BingoAssumption
  <2>4. mem' \in [Engine -> Memory]
    BY <2>1, <2>2, <2>3
  <2> QED BY <1>4, <2>4 DEF SetAuto
<1>5. CASE Claim(e)
  <2>1. \A s \in mem[e].entries : /\ [at |-> "claim", seat |-> s] \in CmdState
                                  /\ [mem[e] EXCEPT !.lockedOut = @ \union {s}] \in Memory
    BY <1>0 DEF Memory, CmdState
  <2>2. Claimable(e) \subseteq mem[e].entries
    BY DEF Claimable
  <2>3. PICK s \in Claimable(e) :
          \/ cmd' = [cmd EXCEPT ![e] = [at |-> "claim", seat |-> s]] /\ UNCHANGED mem
          \/ SetMem(e, [mem[e] EXCEPT !.lockedOut = @ \union {s}]) /\ UNCHANGED cmd
    BY <1>5 DEF Claim
  <2>4. s \in mem[e].entries
    BY <2>2
  <2>5. cmd' \in [Engine -> CmdState] /\ mem' \in [Engine -> Memory]
    BY <2>1, <2>3, <2>4
  <2> QED BY <1>5, <2>5 DEF Claim
<1> QED BY <1>1, <1>2, <1>3, <1>4, <1>5 DEF PlayerAsks

\* Type correctness: locks and failures.
LEMMA FaultType ==
    ASSUME TypeOK, NEW e \in Engine, LockStep(e) \/ EngineFault(e)
    PROVE  TypeOK'
<1> USE DEF TypeOK, db, lock, At, SetMem
<1>0. /\ mem[e] \in Memory
      /\ \A l \in {"none", "dead"} : [at |-> l] \in CmdState
      /\ \A l \in {"none", "failed"} : [at |-> l] \in TaskState
  BY Shapes DEF CmdState, TaskState
<1>1. CASE AutoClaimFails(e)
  <2>1. /\ [mem[e] EXCEPT !.autoClaimed = @ \ {main[e].seat}] \in Memory
        /\ [at |-> "scan", todo |-> main[e].todo] \in MainState
    BY <1>0, <1>1, Shapes DEF AutoClaimFails, Memory, MainState
  <2> QED BY <1>1, <2>1 DEF AutoClaimFails, ScanOn, Goto
<1>2. CASE SettleFails(e)
  BY <1>0, <1>2 DEF SettleFails, Raised, NoTask
<1>3. CASE CommandFails(e) \/ ReplyFails(e)
  BY <1>0, <1>3 DEF CommandFails, ReplyFails, NoCmd, DeadCmd
<1>4. CASE LockExpires(e) \/ LockStep(e)
  BY <1>4 DEF LockExpires, LockStep, LockLost, KeyExpires, bounds
<1>5. CASE Crash(e)
  BY <1>0, <1>5, IdleType DEF Crash, Goto, Down, ResetToIdle, NoCmd, NoTask, MainState
<1>6. CASE EngineFails(e) \/ Shutdown(e)
  BY <1>6, ExitType DEF EngineFails, Shutdown
<1> QED BY <1>1, <1>2, <1>3, <1>4, <1>5, <1>6 DEF EngineFault

\* Type correctness: recovery and the admin console.
LEMMA AdminType ==
    ASSUME TypeOK, RoundsOwned, Recover \/ VoidRound \/ StopRoom
    PROVE  TypeOK'
<1> USE DEF TypeOK, db, lock
<1>1. CASE RecoverCheck
  BY <1>1 DEF RecoverCheck, bounds
<1>2. CASE RecoverRefund
  BY <1>2, RefundType DEF RecoverRefund, RoundsOwned, bounds
<1>3. CASE VoidRound
  BY <1>3, RefundType DEF VoidRound
<1>4. CASE StopRoom
  <2>1. rounds # << >> => Len(rounds) \in DOMAIN rounds
    OBVIOUS
  <2> QED BY <1>4, <2>1, RefundType DEF StopRoom
<1> QED BY <1>1, <1>2, <1>3, <1>4 DEF Recover

\* Type correctness is preserved by every step.
LEMMA TypeStep == IndInv /\ [Next]_vars => TypeOK'
<1> SUFFICES ASSUME IndInv, [Next]_vars
             PROVE  TypeOK'
  OBVIOUS
<1>0. TypeOK /\ RoundsOwned /\ \A e \in Engine : Phases(e) /\ Claims(e)
  BY DEF IndInv
<1>1. ASSUME NEW e \in Engine, EngineStep(e)
      PROVE  TypeOK'
  BY <1>0, <1>1, ClaimRoomType, MainStepType, TaskStepType, CommandStepType, PlayerAsksType, FaultType DEF EngineStep
<1>2. CASE UNCHANGED vars
  BY <1>0, <1>2 DEF TypeOK, vars
<1> QED BY <1>0, <1>1, <1>2, AdminType DEF Next, EngineStep

-----------------------------------------------------------------------------
(***************************************************************************)
(* Which engine knows of which round.                                      *)
(***************************************************************************)

\* Two engines share no memory: a step of one leaves the other as it is.
LEMMA OthersSame ==
    ASSUME TypeOK, NEW e \in Engine, EngineStep(e), NEW f \in Engine, f # e
    PROVE  Same(f)
<1> USE DEF TypeOK, Same, Goto, ResetToIdle, SetMem, lock
<1>1. CASE ClaimRoom(e)
  BY <1>1 DEF ClaimRoom
<1>2. CASE MainStep(e)
  <2>1. CASE Loop(e) \/ LoopEnds(e) \/ RestOver(e) \/ Start(e) \/ LobbyOver(e) \/ LobbyLost(e)
    BY <2>1 DEF Loop, LoopEnds, RestOver, Start, LobbyOver, LobbyLost, Exit, StartNewRound
  <2>2. CASE AssertionFails(e) \/ TransitionToRunning(e) \/ RefundAll(e) \/ Voided(e)
    BY <2>2 DEF AssertionFails, TransitionToRunning, RefundAll, Voided, Exit
  <2>3. CASE CallNumber(e) \/ WriteCall(e) \/ AutoClaim(e) \/ AutoRegister(e) \/ ScanOver(e)
    BY <2>3 DEF CallNumber, WriteCall, Stopped, AutoClaim, AutoRegister, Register, ScanOn, ScanOver
  <2>4. CASE CallsOver(e) \/ SettlementAwaited(e)
    BY <2>4 DEF CallsOver, SettlementAwaited, Exit
  <2> QED BY <1>2, <2>1, <2>2, <2>3, <2>4 DEF MainStep
<1>3. CASE TaskStep(e)
  BY <1>3 DEF TaskStep, WindowCloses, Settle, ShowResult, ResultOver
<1>4. CASE CommandStep(e)
  BY <1>4 DEF CommandStep, JoinTxn, JoinRemember, DropTxn, DropRemember, ClaimRegister, Register
<1>5. CASE PlayerAsks(e)
  BY <1>5 DEF PlayerAsks, JoinStartsRound, Join, Drop, SetAuto, Claim, StartNewRound
<1>6. CASE LockStep(e) \/ EngineFault(e)
  BY <1>6 DEF LockStep, LockLost, KeyExpires, EngineFault, AutoClaimFails, ScanOn, SettleFails,
              CommandFails, ReplyFails, LockExpires, Crash, EngineFails, Shutdown, Exit
<1> QED BY <1>1, <1>2, <1>3, <1>4, <1>5, <1>6 DEF EngineStep

\* Recovery and the console touch the database only, never an engine.
LEMMA AdminSame ==
    ASSUME Recover \/ VoidRound \/ StopRoom, NEW f \in Engine
    PROVE  Same(f)
BY DEF Recover, RecoverCheck, RecoverRefund, VoidRound, StopRoom, Same, lock

\* A round that is torn stays torn, whatever an engine does ...
LEMMA TornGrows ==
    ASSUME NEW e \in Engine, EngineStep(e)
    PROVE  torn \subseteq torn'
<1> USE DEF bounds, Fault, Ask
<1>1. CASE ClaimRoom(e)
  BY <1>1 DEF ClaimRoom
<1>2. CASE MainStep(e)
  BY <1>2 DEF MainStep, Loop, LoopEnds, RestOver, Start, LobbyOver, LobbyLost, AssertionFails,
              TransitionToRunning, RefundAll, Voided, CallNumber, WriteCall, AutoClaim, AutoRegister,
              ScanOver, CallsOver, SettlementAwaited
<1>3. CASE TaskStep(e)
  BY <1>3 DEF TaskStep, WindowCloses, Settle, ShowResult, ResultOver
<1>4. CASE CommandStep(e)
  BY <1>4 DEF CommandStep, JoinTxn, JoinRemember, DropTxn, DropRemember, ClaimRegister
<1>5. CASE PlayerAsks(e)
  BY <1>5 DEF PlayerAsks, JoinStartsRound, Join, Drop, SetAuto, Claim
<1>6. CASE LockStep(e) \/ EngineFault(e)
  BY <1>6 DEF LockStep, LockLost, KeyExpires, EngineFault, AutoClaimFails, SettleFails, CommandFails,
              ReplyFails, LockExpires, Crash, EngineFails, Shutdown
<1> QED BY <1>1, <1>2, <1>3, <1>4, <1>5, <1>6 DEF EngineStep

\* ... and whatever recovery or the console does.
LEMMA AdminTornGrows ==
    ASSUME Recover \/ VoidRound \/ StopRoom
    PROVE  torn \subseteq torn'
BY DEF Recover, RecoverCheck, RecoverRefund, VoidRound, StopRoom, bounds, Fault

\* A step that writes nothing is quiet about every round.
LEMMA UnchangedQuiet ==
    ASSUME UNCHANGED db, NEW r \in DOMAIN rounds
    PROVE  Quiet(r)
BY DEF db, Quiet

\* A refund ends its round.
LEMMA RefundQuiet ==
    ASSUME TypeOK, NEW q \in DOMAIN rounds, Refund(q), NEW r \in DOMAIN rounds
    PROVE  Quiet(r) /\ Len(rounds') = Len(rounds)
<1>1. rounds[r] \in Row /\ rounds[q] \in Row /\ rounds \in Seq(Row)
  BY DEF TypeOK
<1>2. \A s \in Seat, t \in Seat : <<"refund", q, t>> # <<"drop", r, s>>
  OBVIOUS
<1>3. CASE ~ Live(q)
  BY <1>3, UnchangedQuiet DEF Refund, db
<1>4. CASE Live(q)
  <2>1. /\ rounds' = [rounds EXCEPT ![q] = [rounds[q] EXCEPT !.status = "voided"]]
        /\ posted' = posted \union {<<"refund", q, s>> : s \in rounds[q].entries}
    BY <1>4 DEF Refund, SetRow
  <2>2. Len(rounds') = Len(rounds) /\ DOMAIN rounds' = DOMAIN rounds
    BY <1>1, <2>1
  <2>3. rounds'[r] = IF r = q THEN [rounds[q] EXCEPT !.status = "voided"] ELSE rounds[r]
    BY <1>1, <2>1
  <2>4. \A s \in Seat : <<"drop", r, s>> \in posted' <=> <<"drop", r, s>> \in posted
    BY <1>1, <1>2, <2>1 DEF Row
  <2> QED BY <1>1, <1>4, <2>2, <2>3, <2>4 DEF Quiet, Live, Terminal, Row
<1> QED BY <1>3, <1>4

\* A round an engine starts is a new one.
LEMMA StartQuiet ==
    ASSUME TypeOK, NEW e \in Engine, StartNewRound(e), UNCHANGED posted, NEW r \in DOMAIN rounds
    PROVE  Quiet(r)
BY DEF TypeOK, StartNewRound, Quiet

\* Writing one row is quiet about the others.
LEMMA SetRowQuiet ==
    ASSUME TypeOK, NEW q \in DOMAIN rounds, NEW row, SetRow(q, row), NEW r \in DOMAIN rounds, r # q,
           \A s \in Seat : <<"drop", r, s>> \in posted' <=> <<"drop", r, s>> \in posted
    PROVE  Quiet(r)
BY DEF TypeOK, SetRow, Quiet

\* Recovery, void and stop do no more to a round than end it.
LEMMA AdminQuiet ==
    ASSUME TypeOK, RoundsOwned, Recover \/ VoidRound \/ StopRoom, NEW r \in DOMAIN rounds
    PROVE  Quiet(r) /\ Len(rounds') = Len(rounds)
<1>1. CASE RecoverCheck
  BY <1>1, UnchangedQuiet DEF RecoverCheck, db
<1>2. CASE RecoverRefund
  BY <1>2, RefundQuiet DEF RecoverRefund, RoundsOwned
<1>3. CASE VoidRound
  BY <1>3, RefundQuiet DEF VoidRound
<1>4. CASE StopRoom
  <2>1. rounds # << >> /\ Len(rounds) \in DOMAIN rounds
    BY DEF TypeOK
  <2> QED BY <1>4, <2>1, RefundQuiet DEF StopRoom
<1> QED BY <1>1, <1>2, <1>3, <1>4 DEF Recover

\* The steps of an engine that leave the rounds and the ledger alone.
Local(e) ==
    \/ ClaimRoom(e)
    \/ Loop(e) \/ LoopEnds(e) \/ RestOver(e) \/ LobbyOver(e) \/ LobbyLost(e) \/ AssertionFails(e)
    \/ Voided(e) \/ CallNumber(e) \/ AutoClaim(e) \/ AutoRegister(e) \/ ScanOver(e) \/ CallsOver(e)
    \/ SettlementAwaited(e)
    \/ WindowCloses(e) \/ ShowResult(e) \/ ResultOver(e)
    \/ JoinRemember(e) \/ DropRemember(e) \/ ClaimRegister(e)
    \/ Join(e) \/ Drop(e) \/ SetAuto(e) \/ Claim(e)
    \/ LockStep(e) \/ EngineFault(e)

\* The steps that write: all but the first three touch one round the engine
\* knows of, and the first three end a round or add one.
Writing(e) ==
    \/ Start(e) \/ JoinStartsRound(e) \/ RefundAll(e)
    \/ TransitionToRunning(e) \/ WriteCall(e) \/ Settle(e) \/ JoinTxn(e) \/ DropTxn(e)

\* Every step of an engine either writes to the database or does not.
LEMMA EngineStepCases ==
    ASSUME NEW e \in Engine, EngineStep(e)
    PROVE  Local(e) \/ Writing(e)
BY DEF EngineStep, MainStep, TaskStep, CommandStep, PlayerAsks, Local, Writing

\* The local steps write nothing.
LEMMA LocalUnchanged ==
    ASSUME NEW e \in Engine, Local(e)
    PROVE  UNCHANGED <<db, rec>>
BY DEF Local, ClaimRoom, Loop, LoopEnds, RestOver, LobbyOver, LobbyLost, AssertionFails, Voided,
       CallNumber, AutoClaim, AutoRegister, ScanOver, CallsOver, SettlementAwaited, WindowCloses,
       ShowResult, ResultOver, JoinRemember, DropRemember, ClaimRegister, Join, Drop, SetAuto, Claim,
       LockStep, LockLost, KeyExpires, EngineFault, AutoClaimFails, SettleFails, CommandFails,
       ReplyFails, LockExpires, Crash, EngineFails, Shutdown

\* A step of an engine is quiet about every round the engine does not know of, and
\* adds at most one row.
LEMMA EngineQuiet ==
    ASSUME TypeOK, RoundsOwned, NEW e \in Engine, EngineStep(e), NEW r \in DOMAIN rounds
    PROVE  /\ Quiet(r) \/ Refers(e, r)
           /\ Len(rounds') \in {Len(rounds), Len(rounds) + 1}
           /\ rec' = rec
<1>1. CASE Local(e)
  BY <1>1, LocalUnchanged, UnchangedQuiet DEF db
<1>2. CASE Start(e) \/ JoinStartsRound(e)
  <2>1. UNCHANGED db \/ (StartNewRound(e) /\ UNCHANGED posted)
    BY <1>2 DEF Start, JoinStartsRound, db
  <2>2. Len(rounds') \in {Len(rounds), Len(rounds) + 1}
    BY <2>1 DEF StartNewRound, TypeOK, db
  <2> QED BY <1>2, <2>1, <2>2, StartQuiet, UnchangedQuiet DEF Start, JoinStartsRound
<1>3. CASE RefundAll(e)
  BY <1>3, RefundQuiet DEF RefundAll, RoundsOwned, OnRound
<1>4. CASE TransitionToRunning(e) \/ WriteCall(e)
  <2> DEFINE q == main[e].round
  <2>1. PICK row : posted' = posted /\ (rounds' = rounds \/ SetRow(q, row))
    BY <1>4 DEF TransitionToRunning, WriteCall
  <2>7. q \in DOMAIN rounds
    BY <1>4 DEF TransitionToRunning, WriteCall, RoundsOwned, OnRound
  <2> HIDE DEF q
  <2>0. \A s \in Seat : <<"drop", r, s>> \in posted' <=> <<"drop", r, s>> \in posted
    BY <2>1
  <2>2. Quiet(r) \/ r = q
    <3>1. CASE rounds' = rounds
      BY <2>1, <3>1, UnchangedQuiet DEF db
    <3>2. CASE SetRow(q, row)
      BY <2>0, <2>7, <3>2, SetRowQuiet
    <3> QED BY <2>1, <3>1, <3>2
  <2>3. OnRound(e)
    BY <1>4 DEF TransitionToRunning, WriteCall, OnRound
  <2>4. Len(rounds') = Len(rounds)
    BY <2>1, <2>7 DEF SetRow, TypeOK
  <2>5. r = q => Refers(e, r)
    BY <2>3 DEF Refers, q
  <2>6. rec' = rec
    BY <1>4 DEF TransitionToRunning, WriteCall
  <2> QED BY <2>2, <2>4, <2>5, <2>6
<1>5. CASE Settle(e)
  <2>1. PICK row : UNCHANGED db \/ (/\ SetRow(task[e].round, row)
                                   /\ posted' = posted \union {<<"settle", task[e].round>>})
    BY <1>5 DEF Settle, Payout
  <2>2. task[e].at = "pay" /\ task[e].round \in DOMAIN rounds
    BY <1>5 DEF Settle, RoundsOwned
  <2>3. \A s \in Seat : <<"drop", r, s>> \in posted' <=> <<"drop", r, s>> \in posted
    BY <2>1 DEF db
  <2>4. Quiet(r) \/ r = task[e].round
    BY <2>1, <2>2, <2>3, SetRowQuiet, UnchangedQuiet
  <2>5. Len(rounds') = Len(rounds)
    BY <2>1, <2>2 DEF SetRow, TypeOK, db
  <2> QED BY <1>5, <2>2, <2>4, <2>5 DEF Refers, Settle
<1>6. CASE JoinTxn(e) \/ DropTxn(e)
  <2>1. PICK row : UNCHANGED db \/ (/\ SetRow(cmd[e].round, row)
                                   /\ \/ posted' = posted \union {<<"stake", cmd[e].round, cmd[e].seat>>}
                                      \/ posted' = posted \union {<<"drop", cmd[e].round, cmd[e].seat>>})
    BY <1>6 DEF JoinTxn, DropTxn
  <2>2. SeatCmd(e) /\ cmd[e].round \in DOMAIN rounds
    BY <1>6 DEF JoinTxn, DropTxn, SeatCmd, RoundsOwned
  <2>3. r # cmd[e].round => \A s \in Seat : <<"drop", r, s>> \in posted' <=> <<"drop", r, s>> \in posted
    BY <2>1 DEF db
  <2>4. Quiet(r) \/ r = cmd[e].round
    BY <2>1, <2>2, <2>3, SetRowQuiet, UnchangedQuiet
  <2>5. Len(rounds') = Len(rounds)
    BY <2>1, <2>2 DEF SetRow, TypeOK, db
  <2> QED BY <1>6, <2>2, <2>4, <2>5 DEF Refers, JoinTxn, DropTxn
<1> QED BY <1>1, <1>2, <1>3, <1>4, <1>5, <1>6, EngineStepCases DEF Writing

\* The rounds an engine's tasks name exist.
Named(e) ==
    /\ mem[e].round \in 0 .. Len(rounds)
    /\ SeatCmd(e) => cmd[e].round \in DOMAIN rounds
    /\ OnRound(e) => main[e].round \in DOMAIN rounds
    /\ task[e].at = "pay" => task[e].round \in DOMAIN rounds

\* A step of an engine makes known to it only rounds it knew, and new ones.
Learns(e) ==
    /\ Named(e)'
    /\ \A r \in DOMAIN rounds : Refers(e, r)' => Refers(e, r)

\* Leaving the room makes no round known.
LEMMA ExitLearns ==
    ASSUME TypeOK, RoundsOwned, NEW e \in Engine, Exit(e), UNCHANGED rounds,
           task'[e] = task[e] \/ task'[e] = NoTask
    PROVE  Learns(e)
<1>1. Named(e) /\ rounds \in Seq(Row) /\ rounds' = rounds
  BY DEF RoundsOwned, Named, TypeOK
<1>2. /\ mem'[e] \in {IdleMem, mem[e]} /\ main'[e] = Down /\ cmd'[e] = NoCmd
  BY DEF TypeOK, Exit, ResetToIdle, SetMem, Goto
<1> QED BY <1>1, <1>2 DEF Learns, Named, Refers, OnRound, SeatCmd, Down, NoCmd, NoTask, At, IdleMem

\* Registering a claim does not change the round remembered.
LEMMA RegisterLearns ==
    ASSUME TypeOK, RoundsOwned, NEW e \in Engine, NEW s, Register(e, s)
    PROVE  /\ mem'[e].round = mem[e].round
           /\ task'[e] = task[e] \/ task'[e] = At("window")
<1>1. mem[e] \in Memory /\ mem \in [Engine -> Memory] /\ task \in [Engine -> TaskState]
  BY DEF TypeOK
<1>2. CASE UNCHANGED mem
  BY <1>1, <1>2 DEF Register
<1>3. CASE mem' # mem
  <2>1. \/ mem' = [mem EXCEPT ![e] = [mem[e] EXCEPT !.status = "settling", !.settling = TRUE,
                                                   !.pending = @ \union {s}]]
        \/ mem' = [mem EXCEPT ![e] = [mem[e] EXCEPT !.pending = @ \union {s}]]
    BY <1>3 DEF Register, SetMem
  <2>2. \/ mem'[e] = [mem[e] EXCEPT !.status = "settling", !.settling = TRUE, !.pending = @ \union {s}]
        \/ mem'[e] = [mem[e] EXCEPT !.pending = @ \union {s}]
    BY <1>1, <2>1
  <2>3. mem'[e].round = mem[e].round
    BY <1>1, <2>2 DEF Memory
  <2> QED BY <1>1, <1>3, <2>3 DEF Register
<1> QED BY <1>2, <1>3

\* No local step takes a round's number from anywhere but the engine's own tasks.
LEMMA LocalLearns ==
    ASSUME TypeOK, RoundsOwned, NEW e \in Engine, Phases(e), Local(e)
    PROVE  Learns(e)
<1>0. Named(e) /\ rounds \in Seq(Row) /\ rounds' = rounds /\ mem[e] \in Memory
  BY LocalUnchanged DEF RoundsOwned, Named, TypeOK, db
<1> USE DEF TypeOK, Learns, Named, Refers, OnRound, SeatCmd, At, Goto, SetMem, ResetToIdle, lock
<1>1. CASE ClaimRoom(e)
  BY <1>0, <1>1 DEF ClaimRoom, NoTask, IdleMem
<1>2. CASE Loop(e) \/ Voided(e) \/ ScanOver(e)
  BY <1>0, <1>2 DEF Loop, Voided, ScanOver, IdleMem, NoTask
<1>3. CASE LoopEnds(e) \/ RestOver(e) \/ LobbyLost(e) \/ AssertionFails(e)
  <2>1. Exit(e) \/ (main'[e] = At("start") /\ UNCHANGED <<lock, cmd, mem>>)
    BY <1>3 DEF LoopEnds, RestOver, LobbyLost, AssertionFails
  <2> QED BY <1>0, <1>3, <2>1, ExitLearns DEF LoopEnds, RestOver, LobbyLost, AssertionFails
<1>4. CASE LobbyOver(e)
  BY <1>0, <1>4 DEF LobbyOver
<1>5. CASE CallNumber(e)
  BY <1>0, <1>5 DEF CallNumber, Memory
<1>6. CASE AutoClaim(e)
  BY <1>0, <1>6 DEF AutoClaim, Memory
<1>7. CASE AutoRegister(e)
  <2>1. /\ mem'[e].round = mem[e].round /\ (task'[e] = task[e] \/ task'[e] = At("window"))
        /\ main'[e].at = "scan" /\ cmd'[e] = cmd[e]
    BY <1>7, RegisterLearns DEF AutoRegister, ScanOn
  <2> QED BY <1>0, <2>1
<1>8. CASE CallsOver(e)
  BY <1>0, <1>8 DEF CallsOver, Phases, Memory
<1>9. CASE SettlementAwaited(e)
  BY <1>0, <1>9, ExitLearns DEF SettlementAwaited, NoTask
<1>10. CASE WindowCloses(e)
  BY <1>0, <1>10 DEF WindowCloses, Raised, NoTask, Memory
<1>11. CASE ShowResult(e) \/ ResultOver(e)
  BY <1>0, <1>11 DEF ShowResult, ResultOver, NoTask, IdleMem, Memory
<1>12. CASE JoinRemember(e) \/ DropRemember(e)
  <2>1. mem'[e].round = mem[e].round
    <3>1. CASE JoinRemember(e)
      BY <1>0, <3>1 DEF JoinRemember, Memory
    <3>2. CASE DropRemember(e)
      <4>1. \/ UNCHANGED mem
            \/ mem'[e] = [mem[e] EXCEPT !.entries = @ \ {cmd[e].seat}, !.pot = @ - Stake,
                                        !.dropped = @ \union {cmd[e].seat}]
        BY <3>2 DEF DropRemember
      <4> QED BY <1>0, <4>1 DEF Memory
    <3> QED BY <1>12, <3>1, <3>2
  <2>2. cmd'[e] = NoCmd /\ main'[e] = main[e] /\ task'[e] = task[e]
    BY <1>12 DEF JoinRemember, DropRemember
  <2> QED BY <1>0, <2>1, <2>2 DEF NoCmd
<1>13. CASE ClaimRegister(e)
  BY <1>0, <1>13, RegisterLearns DEF ClaimRegister, NoCmd
<1>14. CASE Join(e) \/ Drop(e)
  <2>1. mem[e].round \in DOMAIN rounds
    BY <1>0, <1>14 DEF Join, Drop, Phases
  <2>2. cmd'[e].round = mem[e].round /\ main'[e] = main[e] /\ task'[e] = task[e] /\ mem'[e] = mem[e]
    <3>1. CASE Join(e)
      <4>1. PICK s \in Seat, auto \in AutoChoice :
              cmd' = [cmd EXCEPT ![e] = [at |-> "join", round |-> mem[e].round, seat |-> s, auto |-> auto]]
        BY <3>1 DEF Join
      <4> QED BY <3>1, <4>1 DEF Join
    <3>2. CASE Drop(e)
      BY <3>2 DEF Drop
    <3> QED BY <1>14, <3>1, <3>2
  <2> QED BY <1>0, <2>1, <2>2
<1>15. CASE SetAuto(e) \/ Claim(e)
  <2>1. mem'[e].round = mem[e].round
    <3>1. CASE SetAuto(e)
      <4>1. PICK auto : mem'[e] = [mem[e] EXCEPT !.auto = auto]
        BY <3>1 DEF SetAuto
      <4> QED BY <1>0, <4>1 DEF Memory
    <3>2. CASE Claim(e)
      <4>1. PICK out : UNCHANGED mem \/ mem'[e] = [mem[e] EXCEPT !.lockedOut = out]
        BY <3>2 DEF Claim
      <4> QED BY <1>0, <4>1 DEF Memory
    <3> QED BY <1>15, <3>1, <3>2
  <2>2. main'[e] = main[e] /\ task'[e] = task[e] /\ (cmd'[e] = cmd[e] \/ cmd'[e].at = "claim")
    BY <1>15 DEF SetAuto, Claim
  <2> QED BY <1>0, <2>1, <2>2
<1>16. CASE LockStep(e) \/ LockExpires(e) \/ CommandFails(e) \/ ReplyFails(e)
  BY <1>0, <1>16 DEF LockStep, LockLost, KeyExpires, LockExpires, CommandFails, ReplyFails, NoCmd, DeadCmd
<1>17. CASE AutoClaimFails(e) \/ SettleFails(e)
  BY <1>0, <1>17 DEF AutoClaimFails, ScanOn, SettleFails, Raised, NoTask, Memory
<1>18. CASE Crash(e)
  BY <1>0, <1>18 DEF Crash, Down, NoCmd, NoTask, IdleMem
<1>19. CASE EngineFails(e) \/ Shutdown(e)
  BY <1>0, <1>19, ExitLearns DEF EngineFails, Shutdown
<1> QED BY <1>1, <1>2, <1>3, <1>4, <1>5, <1>6, <1>7, <1>8, <1>9, <1>10, <1>11, <1>12, <1>13,
           <1>14, <1>15, <1>16, <1>17, <1>18, <1>19 DEF Local, EngineFault

\* A start makes known only the round it adds.
LEMMA StartsLearns ==
    ASSUME TypeOK, RoundsOwned, NEW e \in Engine, Start(e) \/ JoinStartsRound(e)
    PROVE  Learns(e) /\ Len(rounds') \in {Len(rounds), Len(rounds) + 1}
<1>0. Named(e) /\ rounds \in Seq(Row) /\ mem[e] \in Memory
  BY DEF RoundsOwned, Named, TypeOK
<1>1. /\ cmd'[e] = cmd[e] /\ task'[e] = task[e] /\ main'[e] \in {main[e], At("lobby")}
      /\ UNCHANGED <<rounds, mem>> \/ StartNewRound(e)
  BY DEF Start, JoinStartsRound, Goto, TypeOK
<1>2. CASE UNCHANGED <<rounds, mem>>
  BY <1>0, <1>1, <1>2 DEF Learns, Named, Refers, OnRound, SeatCmd, At
<1>3. CASE StartNewRound(e)
  <2>1. Len(rounds') = Len(rounds) + 1 /\ DOMAIN rounds \subseteq DOMAIN rounds'
    BY <1>0, <1>3 DEF StartNewRound
  <2>2. mem'[e].round = Len(rounds) + 1
    BY <1>3 DEF StartNewRound, SetMem, TypeOK, IdleMem
  <2>3. Len(rounds) + 1 \notin DOMAIN rounds /\ Len(rounds) \in Nat
    BY <1>0
  <2>4. Named(e)'
    BY <1>0, <1>1, <2>1, <2>2, <2>3 DEF Named, OnRound, SeatCmd, At
  <2>5. \A r \in DOMAIN rounds : Refers(e, r)' => Refers(e, r)
    BY <1>0, <1>1, <2>2, <2>3 DEF Refers, OnRound, SeatCmd, At
  <2> QED BY <2>1, <2>4, <2>5 DEF Learns
<1> QED BY <1>1, <1>2, <1>3

\* Nor does any other writing step make a round known.
LEMMA WritingLearns ==
    ASSUME TypeOK, TypeOK', RoundsOwned, NEW e \in Engine, Writing(e)
    PROVE  Learns(e) /\ Len(rounds') \in {Len(rounds), Len(rounds) + 1}
<1>0. /\ Named(e) /\ rounds \in Seq(Row) /\ mem[e] \in Memory
      /\ EngineStep(e)
  BY DEF RoundsOwned, Named, TypeOK, Writing, EngineStep, MainStep, TaskStep, CommandStep, PlayerAsks
<1>1. CASE Start(e) \/ JoinStartsRound(e)
  BY <1>1, StartsLearns
<1>2. CASE ~ (Start(e) \/ JoinStartsRound(e))
  <2>1. PICK q \in DOMAIN rounds : TRUE
    BY <1>2 DEF Writing, RoundsOwned, RefundAll, TransitionToRunning, WriteCall, Settle, JoinTxn,
                DropTxn, OnRound, SeatCmd
  <2>2. Len(rounds') \in {Len(rounds), Len(rounds) + 1}
    BY <1>0, <2>1, EngineQuiet
  <2>3. DOMAIN rounds \subseteq DOMAIN rounds' /\ 0 .. Len(rounds) \subseteq 0 .. Len(rounds')
    BY <1>0, <2>2 DEF TypeOK
  <2>4. /\ mem'[e].round \in {0, mem[e].round}
        /\ SeatCmd(e)' => SeatCmd(e) /\ cmd'[e].round = cmd[e].round
        /\ OnRound(e)' => main'[e] = main[e]
        /\ task'[e].at = "pay" => task'[e] = task[e]
    <3> USE DEF TypeOK, At, Goto, SetMem, ResetToIdle, OnRound, SeatCmd
    <3>1. CASE RefundAll(e)
      BY <3>1 DEF RefundAll
    <3>2. CASE TransitionToRunning(e)
      <4>1. /\ mem'[e] = IdleMem \/ mem'[e] = [mem[e] EXCEPT !.status = "running"]
            /\ main'[e] \in {At("calling"), At("loop")}
        BY <3>2 DEF TransitionToRunning
      <4>2. mem'[e].round \in {0, mem[e].round}
        BY <1>0, <4>1 DEF IdleMem, Memory
      <4> QED BY <3>2, <4>1, <4>2 DEF TransitionToRunning
    <3>5. CASE WriteCall(e)
      <4>1. /\ \/ UNCHANGED mem
               \/ mem'[e] = IdleMem
               \/ mem'[e] = [mem[e] EXCEPT !.settling = FALSE]
            /\ main'[e].at \in {"scan", "await", "loop"}
            /\ cmd'[e] = cmd[e] /\ task'[e] = task[e]
        BY <3>5 DEF WriteCall, Stopped
      <4>2. mem'[e].round \in {0, mem[e].round}
        BY <1>0, <4>1 DEF IdleMem, Memory
      <4> QED BY <4>1, <4>2
    <3>3. CASE Settle(e)
      BY <3>3 DEF Settle, IdleMem, NoTask
    <3>4. CASE JoinTxn(e) \/ DropTxn(e)
      <4>1. cmd[e] \in CmdState
        OBVIOUS
      <4>2. cmd'[e] = NoCmd \/ cmd'[e].round = cmd[e].round
        BY <3>4, <4>1 DEF JoinTxn, DropTxn, CmdState
      <4> QED BY <3>4, <4>2 DEF JoinTxn, DropTxn, NoCmd
    <3> QED BY <1>2, <3>1, <3>2, <3>3, <3>4, <3>5 DEF Writing
  <2>5. Named(e)'
    BY <1>0, <2>3, <2>4 DEF Named, OnRound
  <2>6. \A r \in DOMAIN rounds : Refers(e, r)' => Refers(e, r)
    BY <1>0, <2>4 DEF Refers, OnRound
  <2> QED BY <2>2, <2>5, <2>6 DEF Learns
<1> QED BY <1>1, <1>2

\* New keys name rounds that exist.
LEMMA RefundKeys ==
    ASSUME NEW q \in DOMAIN rounds, Refund(q), NEW k \in posted', k \notin posted
    PROVE  k[2] = q
BY DEF Refund, db

\* An engine posts only for rounds that exist.
LEMMA EngineKeys ==
    ASSUME RoundsOwned, NEW e \in Engine, EngineStep(e), NEW k \in posted'
    PROVE  k[2] \in DOMAIN rounds
<1>0. \A j \in posted : j[2] \in DOMAIN rounds
  BY DEF RoundsOwned
<1>1. CASE Local(e) \/ Start(e) \/ JoinStartsRound(e) \/ TransitionToRunning(e) \/ WriteCall(e)
  BY <1>0, <1>1, LocalUnchanged DEF db, Start, JoinStartsRound, TransitionToRunning, WriteCall
<1>2. CASE RefundAll(e)
  BY <1>0, <1>2, RefundKeys DEF RefundAll, RoundsOwned, OnRound
<1>3. CASE Settle(e)
  BY <1>0, <1>3 DEF Settle, Payout, RoundsOwned, db
<1>4. CASE JoinTxn(e) \/ DropTxn(e)
  BY <1>0, <1>4 DEF JoinTxn, DropTxn, RoundsOwned, SeatCmd, db
<1> QED BY <1>1, <1>2, <1>3, <1>4, EngineStepCases DEF Writing

\* So do recovery and the console.
LEMMA AdminKeys ==
    ASSUME TypeOK, RoundsOwned, Recover \/ VoidRound \/ StopRoom, NEW k \in posted'
    PROVE  k[2] \in DOMAIN rounds
<1>0. \A j \in posted : j[2] \in DOMAIN rounds
  BY DEF RoundsOwned
<1>1. CASE RecoverCheck
  BY <1>0, <1>1 DEF RecoverCheck, db
<1>2. CASE RecoverRefund
  BY <1>0, <1>2, RefundKeys DEF RecoverRefund, RoundsOwned
<1>3. CASE VoidRound
  BY <1>0, <1>3, RefundKeys DEF VoidRound
<1>4. CASE StopRoom
  <2>1. rounds # << >> => Len(rounds) \in DOMAIN rounds
    BY DEF TypeOK
  <2> QED BY <1>0, <1>4, <2>1, RefundKeys DEF StopRoom, db
<1> QED BY <1>1, <1>2, <1>3, <1>4 DEF Recover

\* The ownership of rounds is preserved by every step.
LEMMA RoundsOwnedStep == IndInv /\ TypeOK' /\ [Next]_vars => RoundsOwned'
<1> SUFFICES ASSUME IndInv, TypeOK', [Next]_vars
             PROVE  RoundsOwned'
  OBVIOUS
<1>0. /\ TypeOK /\ RoundsOwned /\ \A e \in Engine : Phases(e) /\ Named(e)
      /\ rounds \in Seq(Row) /\ rounds' \in Seq(Row)
  BY DEF IndInv, TypeOK, RoundsOwned, Named
<1>1. ASSUME NEW e \in Engine, EngineStep(e)
      PROVE  RoundsOwned'
  <2>1. Learns(e) /\ Len(rounds') \in {Len(rounds), Len(rounds) + 1}
    BY <1>0, <1>1, EngineStepCases, LocalLearns, LocalUnchanged, WritingLearns DEF db
  <2>2. /\ DOMAIN rounds' = 1 .. Len(rounds') /\ DOMAIN rounds = 1 .. Len(rounds)
        /\ DOMAIN rounds \subseteq DOMAIN rounds' /\ 0 .. Len(rounds) \subseteq 0 .. Len(rounds')
        /\ Len(rounds) \in Nat /\ Len(rounds') \in Nat
    BY <1>0, <2>1
  <2>3. \A f \in Engine \ {e} : Same(f)
    BY <1>0, <1>1, OthersSame
  <2>4. \A f \in Engine : Named(f)'
    <3>1. \A f \in Engine \ {e} : Named(f)'
      BY <1>0, <2>1, <2>2, <2>3 DEF Named, Same, SeatCmd, OnRound
    <3> QED BY <2>1, <3>1 DEF Learns
  <2>5. \A f \in Engine, r \in DOMAIN rounds : Refers(f, r)' => Refers(f, r)
    <3>1. \A f \in Engine \ {e}, r \in DOMAIN rounds : Refers(f, r)' => Refers(f, r)
      BY <2>3 DEF Refers, Same, SeatCmd, OnRound
    <3> QED BY <2>1, <3>1 DEF Learns
  <2>6. \A f \in Engine \ {e}, r \in DOMAIN rounds' : Refers(f, r)' => r \in DOMAIN rounds
    BY <1>0, <2>2, <2>3 DEF Refers, Same, SeatCmd, OnRound, Named
  <2>7. ASSUME NEW f \in Engine, NEW g \in Engine, NEW r \in DOMAIN rounds',
               Refers(f, r)', Refers(g, r)'
        PROVE  f = g
    <3>1. CASE r \in DOMAIN rounds
      BY <1>0, <2>5, <2>7, <3>1 DEF RoundsOwned
    <3>2. CASE r \notin DOMAIN rounds
      BY <2>6, <2>7, <3>2
    <3> QED BY <3>1, <3>2
  <2>8. \A k \in posted' : k[2] \in DOMAIN rounds'
    BY <1>0, <1>1, <2>2, EngineKeys
  <2>9. rec' \in 0 .. Len(rounds')
    <3>1. rec' = rec
      BY <1>1, EngineStepCases, LocalUnchanged
         DEF Writing, Start, JoinStartsRound, RefundAll, TransitionToRunning, WriteCall, Settle,
             JoinTxn, DropTxn
    <3> QED BY <1>0, <2>1, <2>2, <3>1 DEF RoundsOwned
  <2> QED BY <2>4, <2>7, <2>8, <2>9 DEF RoundsOwned, Named
<1>2. CASE Recover \/ VoidRound \/ StopRoom
  <2>1. Len(rounds') = Len(rounds) /\ DOMAIN rounds' = DOMAIN rounds
    <3>1. CASE rounds = << >>
      BY <1>0, <1>2, <3>1 DEF RoundsOwned, Recover, RecoverCheck, RecoverRefund, VoidRound, StopRoom, db
    <3>2. CASE rounds # << >>
      <4>1. 1 \in DOMAIN rounds
        BY <1>0, <3>2
      <4> QED BY <1>0, <1>2, <4>1, AdminQuiet
    <3> QED BY <1>0, <3>1, <3>2
  <2>2. \A f \in Engine : Same(f)
    BY <1>2, AdminSame
  <2>3. \A f \in Engine : Named(f)' /\ \A r : Refers(f, r)' <=> Refers(f, r)
    BY <1>0, <2>1, <2>2 DEF Named, Refers, Same, SeatCmd, OnRound
  <2>4. rec' \in 0 .. Len(rounds)
    BY <1>0, <1>2 DEF RoundsOwned, Recover, RecoverCheck, RecoverRefund, VoidRound, StopRoom
  <2> QED BY <1>0, <1>2, <2>1, <2>3, <2>4, AdminKeys DEF RoundsOwned, Named
<1>3. CASE UNCHANGED vars
  BY <1>0, <1>3 DEF RoundsOwned, vars, Refers, SeatCmd, OnRound
<1> QED BY <1>1, <1>2, <1>3 DEF Next, EngineStep

-----------------------------------------------------------------------------
(***************************************************************************)
(* The rows against the ledger.                                            *)
(***************************************************************************)

\* Round r is in order after the step.
Kept(r) == InOrder(r)'

\* A round with neither its row nor its keys touched stays in order.
LEMMA UntouchedKept ==
    ASSUME TypeOK, NEW r \in DOMAIN rounds, InOrder(r), rounds'[r] = rounds[r], torn \subseteq torn',
           \A k : k[2] = r => (k \in posted' <=> k \in posted)
    PROVE  Kept(r)
<1>1. /\ \A s \in Seat : /\ <<"stake", r, s>> \in posted' <=> <<"stake", r, s>> \in posted
                         /\ <<"drop", r, s>> \in posted' <=> <<"drop", r, s>> \in posted
                         /\ <<"refund", r, s>> \in posted' <=> <<"refund", r, s>> \in posted
      /\ <<"settle", r>> \in posted' <=> <<"settle", r>> \in posted
  OBVIOUS
<1>2. r \notin torn' => Books(r)'
  BY <1>1 DEF Books, InOrder
<1>3. Settled(r)'
  BY DEF Settled, InOrder
<1>4. Ended(r)'
  BY <1>1 DEF Ended, InOrder
<1> QED BY <1>2, <1>3, <1>4 DEF Kept, InOrder

\* A refund, of this round or another, keeps the books.
LEMMA RefundKept ==
    ASSUME TypeOK, NEW q \in DOMAIN rounds, Refund(q), NEW r \in DOMAIN rounds, InOrder(r),
           torn \subseteq torn'
    PROVE  Kept(r)
<1>0. /\ rounds \in Seq(Row) /\ rounds[r] \in Row /\ posted \subseteq Key
  BY DEF TypeOK
<1>1. CASE ~ Live(q) \/ r # q
  <2>1. rounds'[r] = rounds[r]
    BY <1>0, <1>1 DEF Refund, SetRow, db
  <2>2. \A k : k[2] = r => (k \in posted' <=> k \in posted)
    BY <1>1 DEF Refund, db
  <2> QED BY <2>1, <2>2, UntouchedKept
<1>2. CASE Live(q) /\ r = q
  <2>1. /\ rounds'[r] = [rounds[r] EXCEPT !.status = "voided"]
        /\ posted' = posted \union {<<"refund", r, s>> : s \in rounds[r].entries}
    BY <1>0, <1>2 DEF Refund, SetRow
  <2>2. /\ rounds'[r].status = "voided" /\ rounds'[r].entries = rounds[r].entries
        /\ rounds'[r].pot = rounds[r].pot /\ rounds'[r].paid = rounds[r].paid
        /\ rounds'[r].calls = rounds[r].calls /\ rounds'[r].winners = rounds[r].winners
        /\ rounds[r].status \in {"lobby", "running"}
    BY <1>0, <1>2, <2>1 DEF Row, Live, Terminal
  <2>3. /\ \A s \in Seat : /\ <<"stake", r, s>> \in posted' <=> <<"stake", r, s>> \in posted
                           /\ <<"drop", r, s>> \in posted' <=> <<"drop", r, s>> \in posted
                           /\ <<"refund", r, s>> \in posted' <=>
                                <<"refund", r, s>> \in posted \/ s \in rounds[r].entries
        /\ <<"settle", r>> \in posted' <=> <<"settle", r>> \in posted
    BY <2>1
  <2>4. r \notin torn' => Books(r)'
    BY <2>2, <2>3 DEF Books, InOrder
  <2>5. Settled(r)'
    BY <2>2 DEF Settled, InOrder
  <2>6. Ended(r)'
    BY <2>2, <2>3 DEF Ended, InOrder
  <2> QED BY <2>4, <2>5, <2>6 DEF Kept, InOrder
<1> QED BY <1>1, <1>2

\* A start keeps the books of every round and opens empty ones.
LEMMA StartKept ==
    ASSUME TypeOK, RoundsOwned, NEW e \in Engine, StartNewRound(e), UNCHANGED posted,
           torn \subseteq torn', \A r \in DOMAIN rounds : InOrder(r), NEW r \in DOMAIN rounds'
    PROVE  Kept(r)
<1>1. CASE r \in DOMAIN rounds
  BY <1>1, UntouchedKept DEF StartNewRound, TypeOK
<1>2. CASE r \notin DOMAIN rounds
  <2>1. rounds'[r] = NewRow
    BY <1>2 DEF StartNewRound, TypeOK
  <2>2. \A k \in posted' : k[2] # r
    BY <1>2 DEF RoundsOwned
  <2>3. Cardinality({}) = 0
    BY FS_EmptySet
  <2>4. Stake * 0 = 0
    BY BingoAssumption
  <2>5. \A s : <<"stake", r, s>>[2] = r /\ <<"drop", r, s>>[2] = r /\ <<"refund", r, s>>[2] = r
    OBVIOUS
  <2>6. <<"settle", r>>[2] = r
    OBVIOUS
  <2>7. Books(r)'
    BY <2>1, <2>2, <2>3, <2>4, <2>5, <2>6 DEF Books, NewRow
  <2>8. Settled(r)'
    BY <2>1 DEF Settled, NewRow
  <2>9. Ended(r)'
    BY <2>1, <2>2, <2>5, <2>6 DEF Ended, NewRow
  <2> QED BY <2>7, <2>8, <2>9 DEF Kept, InOrder
<1> QED BY <1>1, <1>2

\* What an UPDATE of one row leaves in each.
LEMMA SetRowRow ==
    ASSUME TypeOK, NEW q \in DOMAIN rounds, NEW row, SetRow(q, row), NEW r \in DOMAIN rounds
    PROVE  rounds'[r] = IF r = q THEN row ELSE rounds[r]
BY DEF SetRow, TypeOK

\* _transition_to_running() keeps the books: only an untouched lobby is moved.
LEMMA TransitionKept ==
    ASSUME TypeOK, RoundsOwned, NEW e \in Engine, TransitionToRunning(e),
           torn \subseteq torn', NEW r \in DOMAIN rounds, InOrder(r)
    PROVE  Kept(r)
<1>0. rounds[r] \in Row /\ main[e].round \in DOMAIN rounds /\ posted' = posted
  BY DEF TypeOK, RoundsOwned, TransitionToRunning, OnRound
<1>1. CASE rounds[main[e].round].status # "lobby" \/ r # main[e].round
  <2>1. rounds'[r] = rounds[r]
    BY <1>0, <1>1, SetRowRow DEF TransitionToRunning
  <2> QED BY <1>0, <2>1, UntouchedKept
<1>2. CASE rounds[main[e].round].status = "lobby" /\ r = main[e].round
  <2>1. rounds'[r] = [rounds[r] EXCEPT !.status = "running"]
    BY <1>0, <1>2, SetRowRow DEF TransitionToRunning
  <2>2. r \notin torn' => Books(r)'
    BY <1>0, <1>2, <2>1 DEF InOrder, Books, Row
  <2>3. Settled(r)'
    BY <1>0, <1>2, <2>1 DEF InOrder, Settled, Row
  <2>4. Ended(r)'
    BY <1>0, <1>2, <2>1 DEF InOrder, Ended, Row
  <2> QED BY <2>2, <2>3, <2>4 DEF Kept, InOrder
<1> QED BY <1>1, <1>2

\* Writing a call keeps the books: only a running round takes one.
LEMMA WriteCallKept ==
    ASSUME TypeOK, RoundsOwned, NEW e \in Engine, WriteCall(e),
           torn \subseteq torn', NEW r \in DOMAIN rounds, InOrder(r)
    PROVE  Kept(r)
<1>0. rounds[r] \in Row /\ main[e].round \in DOMAIN rounds /\ posted' = posted
  BY DEF TypeOK, RoundsOwned, WriteCall, OnRound
<1>1. CASE rounds[main[e].round].status # "running" \/ r # main[e].round
  <2>1. rounds'[r] = rounds[r]
    BY <1>0, <1>1, SetRowRow DEF WriteCall
  <2> QED BY <1>0, <2>1, UntouchedKept
<1>2. CASE rounds[main[e].round].status = "running" /\ r = main[e].round
  <2>1. rounds'[r] = [rounds[r] EXCEPT !.calls = main[e].call]
    BY <1>0, <1>2, SetRowRow DEF WriteCall
  <2>2. r \notin torn' => Books(r)'
    BY <1>0, <1>2, <2>1 DEF InOrder, Books, Row
  <2>3. Settled(r)'
    BY <1>0, <1>2, <2>1 DEF InOrder, Settled, Row
  <2>4. Ended(r)'
    BY <1>0, <1>2, <2>1 DEF InOrder, Ended, Row
  <2> QED BY <2>2, <2>3, <2>4 DEF Kept, InOrder
<1> QED BY <1>1, <1>2

\* A settlement keeps the books: what it pays is the pot of the row.
LEMMA SettleKept ==
    ASSUME TypeOK, RoundsOwned, NEW e \in Engine, Claims(e), Pots(e), Settle(e),
           torn \subseteq torn', NEW r \in DOMAIN rounds, InOrder(r)
    PROVE  Kept(r)
<1> DEFINE t == task[e]
<1>0. rounds[r] \in Row /\ t.round \in DOMAIN rounds /\ t.at = "pay"
  BY DEF TypeOK, RoundsOwned, Settle
<1>1. CASE ~ Live(t.round) \/ r # t.round
  <2>1. rounds'[r] = rounds[r]
    BY <1>0, <1>1, SetRowRow DEF Settle, Payout, db
  <2>2. \A k : k[2] = r => (k \in posted' <=> k \in posted)
    BY <1>1 DEF Settle, Payout, db
  <2> QED BY <2>1, <2>2, UntouchedKept
<1>2. CASE Live(t.round) /\ r = t.round
  <2>0. Payout(t)
    BY <1>2 DEF Settle
  <2>1. rounds'[r] = [rounds[r] EXCEPT
              !.status = "done", !.winners = t.winners, !.paid = t.pot,
              !.share = Share(Derash(t.pot, HouseCutBps), Cardinality(t.winners)),
              !.house = HouseTotal(t.pot, HouseCutBps, Cardinality(t.winners))]
    BY <1>0, <1>2, <2>0, SetRowRow DEF Payout
  <2>2. posted' = posted \union {<<"settle", r>>}
    BY <1>2, <2>0 DEF Payout
  <2>3. /\ rounds[r].status \in {"lobby", "running"} /\ t.winners # {} /\ t.pot \in Nat
        /\ r \notin torn => t.winners \subseteq rounds[r].entries /\ t.pot = rounds[r].pot
        /\ \A s \in t.winners : WinAt[s[2]] <= rounds[r].calls + 1
    BY <1>0, <1>2 DEF Claims, Pots, Live, Terminal, Row
  <2> HIDE DEF t
  <2>4. /\ rounds'[r].status = "done" /\ rounds'[r].winners = t.winners /\ rounds'[r].paid = t.pot
        /\ rounds'[r].share = Share(Derash(t.pot, HouseCutBps), Cardinality(t.winners))
        /\ rounds'[r].house = HouseTotal(t.pot, HouseCutBps, Cardinality(t.winners))
        /\ rounds'[r].entries = rounds[r].entries /\ rounds'[r].pot = rounds[r].pot
        /\ rounds'[r].calls = rounds[r].calls
    BY <1>0, <2>1 DEF Row
  <2>5. \A s \in Seat : /\ <<"stake", r, s>> \in posted' <=> <<"stake", r, s>> \in posted
                        /\ <<"drop", r, s>> \in posted' <=> <<"drop", r, s>> \in posted
                        /\ <<"refund", r, s>> \in posted' <=> <<"refund", r, s>> \in posted
    BY <2>2
  <2>6. r \notin torn' => Books(r)'
    BY <2>2, <2>3, <2>4, <2>5 DEF InOrder, Books
  <2>7. Settled(r)'
    BY <2>3, <2>4 DEF Settled
  <2>8. Ended(r)'
    BY <2>2, <2>3, <2>4, <2>5 DEF InOrder, Ended
  <2> QED BY <2>6, <2>7, <2>8 DEF Kept, InOrder
<1> QED BY <1>1, <1>2

\* What a committed join does to the books of its round.
LEMMA JoinKept ==
    ASSUME TypeOK, RoundsOwned, NEW e \in Engine, Commands(e), JoinTxn(e),
           torn \subseteq torn', NEW r \in DOMAIN rounds, InOrder(r)
    PROVE  Kept(r)
<1> DEFINE q == cmd[e].round
           s == cmd[e].seat
           open == /\ rounds[q].status = "lobby"
                   /\ \A t \in rounds[q].entries : t[2] # s[2]
                   /\ <<"stake", q, s>> \in posted \/ Cash(s[1]) >= Stake
<1>0. /\ rounds[r] \in Row /\ q \in DOMAIN rounds /\ SeatCmd(e) /\ s \in Seat
      /\ open /\ q \notin torn => <<"drop", q, s>> \notin posted
  BY Shapes DEF TypeOK, RoundsOwned, JoinTxn, SeatCmd, Commands, Live, Terminal
<1>1. CASE ~ open \/ r # q
  <2>1. UNCHANGED db \/ (/\ SetRow(q, [rounds[q] EXCEPT !.entries = @ \union {s}, !.pot = @ + Stake])
                         /\ posted' = posted \union {<<"stake", q, s>>} /\ r # q)
    BY <1>1 DEF JoinTxn
  <2> HIDE DEF q, s, open
  <2>2. rounds'[r] = rounds[r]
    BY <1>0, <2>1, SetRowRow DEF db
  <2>3. \A k : k[2] = r => (k \in posted' <=> k \in posted)
    BY <2>1 DEF db
  <2> QED BY <2>2, <2>3, UntouchedKept
<1>2. CASE open /\ r = q
  <2>0. /\ SetRow(r, [rounds[r] EXCEPT !.entries = @ \union {s}, !.pot = @ + Stake])
        /\ posted' = posted \union {<<"stake", r, s>>}
        /\ rounds[r].status = "lobby"
    BY <1>2 DEF JoinTxn
  <2>1. s \notin rounds[r].entries
    BY <1>2
  <2>2. s \in Seat /\ (r \notin torn => <<"drop", r, s>> \notin posted)
    BY <1>0, <1>2
  <2> HIDE DEF q, s, open
  <2>3. rounds'[r] = [rounds[r] EXCEPT !.entries = @ \union {s}, !.pot = @ + Stake]
    BY <1>0, <2>0, SetRowRow
  <2>4. /\ rounds'[r].entries = rounds[r].entries \union {s} /\ rounds'[r].pot = rounds[r].pot + Stake
        /\ rounds'[r].status = "lobby" /\ rounds'[r].calls = rounds[r].calls
        /\ rounds'[r].winners = rounds[r].winners /\ rounds'[r].paid = rounds[r].paid
    BY <1>0, <2>0, <2>3 DEF Row
  <2>5. /\ \A t \in Seat : /\ <<"stake", r, t>> \in posted' <=> <<"stake", r, t>> \in posted \/ t = s
                           /\ <<"drop", r, t>> \in posted' <=> <<"drop", r, t>> \in posted
                           /\ <<"refund", r, t>> \in posted' <=> <<"refund", r, t>> \in posted
        /\ <<"settle", r>> \in posted' <=> <<"settle", r>> \in posted
    BY <2>0
  <2>6. IsFiniteSet(rounds[r].entries) /\ Cardinality(rounds[r].entries) \in Nat
    BY <1>0, FS_Subset, FS_CardinalityType, BingoAssumption DEF Row
  <2>7. Cardinality(rounds'[r].entries) = Cardinality(rounds[r].entries) + 1
    BY <2>1, <2>4, <2>6, FS_AddElement
  <2>10. ASSUME r \notin torn PROVE Books(r)'
    <3>1. Books(r)
      BY <2>10 DEF InOrder
    <3>2. rounds'[r].pot = Stake * Cardinality(rounds'[r].entries)
      BY <2>4, <2>6, <2>7, <3>1, AmountType DEF Books
    <3>3. rounds'[r].entries =
            {t \in Seat : <<"stake", r, t>> \in posted' /\ <<"drop", r, t>> \notin posted'}
      BY <2>2, <2>4, <2>5, <2>10, <3>1 DEF Books
    <3> QED BY <2>0, <2>4, <2>5, <3>1, <3>2, <3>3 DEF Books
  <2>11. Settled(r)'
    BY <2>0, <2>4 DEF InOrder, Settled
  <2>12. Ended(r)'
    BY <2>0, <2>4, <2>5 DEF InOrder, Ended
  <2> QED BY <2>10, <2>11, <2>12 DEF Kept, InOrder
<1> QED BY <1>1, <1>2

\* ... and a committed drop.
LEMMA DropKept ==
    ASSUME TypeOK, RoundsOwned, NEW e \in Engine, DropTxn(e),
           torn \subseteq torn', NEW r \in DOMAIN rounds, InOrder(r)
    PROVE  Kept(r)
<1> DEFINE q == cmd[e].round
           s == cmd[e].seat
           open == rounds[q].status = "lobby" /\ s \in rounds[q].entries
<1>0. /\ rounds[r] \in Row /\ q \in DOMAIN rounds /\ SeatCmd(e) /\ s \in Seat
  BY Shapes DEF TypeOK, RoundsOwned, DropTxn, SeatCmd
<1>1. CASE ~ open \/ r # q
  <2>1. UNCHANGED db \/ (/\ SetRow(q, [rounds[q] EXCEPT !.entries = @ \ {s}, !.pot = @ - Stake])
                         /\ posted' = posted \union {<<"drop", q, s>>} /\ r # q)
    BY <1>1 DEF DropTxn
  <2> HIDE DEF q, s, open
  <2>2. rounds'[r] = rounds[r]
    BY <1>0, <2>1, SetRowRow DEF db
  <2>3. \A k : k[2] = r => (k \in posted' <=> k \in posted)
    BY <2>1 DEF db
  <2> QED BY <2>2, <2>3, UntouchedKept
<1>2. CASE open /\ r = q
  <2>0. /\ SetRow(r, [rounds[r] EXCEPT !.entries = @ \ {s}, !.pot = @ - Stake])
        /\ posted' = posted \union {<<"drop", r, s>>}
        /\ rounds[r].status = "lobby" /\ s \in rounds[r].entries
    BY <1>2 DEF DropTxn
  <2> HIDE DEF q, s, open
  <2>3. rounds'[r] = [rounds[r] EXCEPT !.entries = @ \ {s}, !.pot = @ - Stake]
    BY <1>0, <2>0, SetRowRow
  <2>4. /\ rounds'[r].entries = rounds[r].entries \ {s} /\ rounds'[r].pot = rounds[r].pot - Stake
        /\ rounds'[r].status = "lobby" /\ rounds'[r].calls = rounds[r].calls
        /\ rounds'[r].winners = rounds[r].winners /\ rounds'[r].paid = rounds[r].paid
    BY <1>0, <2>0, <2>3 DEF Row
  <2>5. /\ \A t \in Seat : /\ <<"stake", r, t>> \in posted' <=> <<"stake", r, t>> \in posted
                           /\ <<"drop", r, t>> \in posted' <=> <<"drop", r, t>> \in posted \/ t = s
                           /\ <<"refund", r, t>> \in posted' <=> <<"refund", r, t>> \in posted
        /\ <<"settle", r>> \in posted' <=> <<"settle", r>> \in posted
    BY <2>0
  <2>6. IsFiniteSet(rounds[r].entries) /\ Cardinality(rounds[r].entries) \in Nat
    BY <1>0, FS_Subset, FS_CardinalityType, BingoAssumption DEF Row
  <2>7. Cardinality(rounds'[r].entries) = Cardinality(rounds[r].entries) - 1
    <3>1. Cardinality(rounds[r].entries \ {s}) = Cardinality(rounds[r].entries) - 1
      <4>1. s \in rounds[r].entries
        BY <2>0
      <4> QED BY <2>6, <4>1, FS_RemoveElement
    <3> QED BY <2>4, <3>1
  <2>10. ASSUME r \notin torn PROVE Books(r)'
    <3>1. Books(r)
      BY <2>10 DEF InOrder
    <3>2. rounds'[r].pot = Stake * Cardinality(rounds'[r].entries)
      BY <2>4, <2>6, <2>7, <3>1, AmountType DEF Books
    <3>3. rounds'[r].entries =
            {t \in Seat : <<"stake", r, t>> \in posted' /\ <<"drop", r, t>> \notin posted'}
      BY <2>4, <2>5, <3>1 DEF Books
    <3>4. <<"stake", r, s>> \in posted /\ rounds[r].winners = {}
      BY <2>0, <3>1 DEF InOrder, Books, Settled
    <3> QED BY <2>0, <2>4, <2>5, <3>1, <3>2, <3>3, <3>4 DEF Books
  <2>11. Settled(r)'
    BY <2>0, <2>4 DEF InOrder, Settled
  <2>12. Ended(r)'
    BY <2>0, <2>4, <2>5 DEF InOrder, Ended
  <2> QED BY <2>10, <2>11, <2>12 DEF Kept, InOrder
<1> QED BY <1>1, <1>2

\* Nothing but a start adds a row.
LEMMA RowsKept ==
    ASSUME NEW e \in Engine, EngineStep(e), ~ (Start(e) \/ JoinStartsRound(e))
    PROVE  DOMAIN rounds' = DOMAIN rounds
BY EngineStepCases, LocalUnchanged
   DEF Writing, RefundAll, Refund, TransitionToRunning, WriteCall, Settle, Payout, JoinTxn, DropTxn,
       SetRow, db

\* Recovery and the console neither add a row nor remove one.
LEMMA AdminRowsKept ==
    ASSUME Recover \/ VoidRound \/ StopRoom
    PROVE  DOMAIN rounds' = DOMAIN rounds
BY DEF Recover, RecoverCheck, RecoverRefund, VoidRound, StopRoom, Refund, SetRow, db

\* Every step leaves every round in order.
LEMMA BooksStep == IndInv /\ TypeOK' /\ [Next]_vars => \A r \in DOMAIN rounds' : InOrder(r)'
<1> SUFFICES ASSUME IndInv, TypeOK', [Next]_vars, NEW r \in DOMAIN rounds'
             PROVE  Kept(r)
  BY DEF Kept
<1>0. /\ TypeOK /\ RoundsOwned /\ \A q \in DOMAIN rounds : InOrder(q)
      /\ \A e \in Engine : Phases(e) /\ Commands(e) /\ Claims(e) /\ Pots(e)
  BY DEF IndInv
<1>t. torn \subseteq torn'
  BY TornGrows, AdminTornGrows DEF Next, EngineStep, vars
<1>1. CASE r \in DOMAIN rounds
  <2>1. ASSUME NEW e \in Engine, EngineStep(e)
        PROVE  Kept(r)
    <3>1. CASE Local(e)
      BY <1>0, <1>t, <1>1, <3>1, LocalUnchanged, UntouchedKept DEF db
    <3>2. CASE Start(e) \/ JoinStartsRound(e)
      <4>1. UNCHANGED db \/ (StartNewRound(e) /\ UNCHANGED posted)
        BY <3>2 DEF Start, JoinStartsRound, db
      <4> QED BY <1>0, <1>t, <1>1, <4>1, StartKept, UntouchedKept DEF db
    <3>3. CASE RefundAll(e)
      BY <1>0, <1>t, <1>1, <3>3, RefundKept DEF RefundAll, RoundsOwned, OnRound
    <3>4. CASE TransitionToRunning(e) \/ WriteCall(e) \/ Settle(e) \/ JoinTxn(e) \/ DropTxn(e)
      BY <1>0, <1>t, <1>1, <3>4, TransitionKept, WriteCallKept, SettleKept, JoinKept, DropKept
    <3> QED BY <2>1, <3>1, <3>2, <3>3, <3>4, EngineStepCases DEF Writing
  <2>2. CASE Recover \/ VoidRound \/ StopRoom
    <3>1. CASE RecoverCheck
      BY <1>0, <1>t, <1>1, <3>1, UntouchedKept DEF RecoverCheck, db
    <3>2. CASE RecoverRefund
      BY <1>0, <1>t, <1>1, <3>2, RefundKept DEF RecoverRefund, RoundsOwned
    <3>3. CASE VoidRound
      BY <1>0, <1>t, <1>1, <3>3, RefundKept DEF VoidRound
    <3>4. CASE StopRoom
      <4>1. rounds # << >> /\ Len(rounds) \in DOMAIN rounds
        BY <1>0, <1>1 DEF TypeOK
      <4> QED BY <1>0, <1>t, <1>1, <3>4, <4>1, RefundKept DEF StopRoom
    <3> QED BY <2>2, <3>1, <3>2, <3>3, <3>4 DEF Recover
  <2>3. CASE UNCHANGED vars
    BY <1>0, <1>t, <1>1, <2>3, UntouchedKept DEF vars
  <2> QED BY <2>1, <2>2, <2>3 DEF Next, EngineStep
<1>2. CASE r \notin DOMAIN rounds
  <2>1. PICK e \in Engine : Start(e) \/ JoinStartsRound(e)
    BY <1>2, RowsKept, AdminRowsKept DEF Next, EngineStep, vars
  <2>2. StartNewRound(e) /\ UNCHANGED posted
    BY <1>2, <2>1 DEF Start, JoinStartsRound
  <2> QED BY <1>0, <1>t, <2>2, StartKept
<1> QED BY <1>1, <1>2

-----------------------------------------------------------------------------
(***************************************************************************)
(* What an engine remembers.                                               *)
(***************************************************************************)
\* Everything the invariant says of one engine.
EngineInv(e) == Phases(e) /\ Remembers(e) /\ Commands(e) /\ Calls(e) /\ Claims(e)

\* An engine left as it is, whose rounds are all quiet, keeps its invariant.
LEMMA FrameKept ==
    ASSUME TypeOK, RoundsOwned, NEW f \in Engine, EngineInv(f), Same(f),
           torn \subseteq torn', \A r \in DOMAIN rounds : Refers(f, r) => Quiet(r)
    PROVE  EngineInv(f)'
<1>0. /\ mem'[f] = mem[f] /\ main'[f] = main[f] /\ cmd'[f] = cmd[f] /\ task'[f] = task[f]
      /\ held'[f] = held[f] /\ mem[f] \in Memory
      /\ \A r \in DOMAIN rounds : rounds[r].status \in {"lobby", "running", "done", "voided"}
  <2>1. \A r \in DOMAIN rounds : rounds[r] \in Row
    BY DEF TypeOK
  <2> QED BY <2>1 DEF Same, TypeOK, Row
<1>1. mem[f].round # 0 => mem[f].round \in DOMAIN rounds /\ Quiet(mem[f].round)
  BY DEF RoundsOwned, Refers, TypeOK
<1>2. SeatCmd(f) => cmd[f].round \in DOMAIN rounds /\ Quiet(cmd[f].round)
  BY DEF RoundsOwned, Refers
<1>3. OnRound(f) => main[f].round \in DOMAIN rounds /\ Quiet(main[f].round)
  BY DEF RoundsOwned, Refers
<1>4. task[f].at = "pay" => task[f].round \in DOMAIN rounds /\ Quiet(task[f].round)
  BY DEF RoundsOwned, Refers
<1> USE DEF EngineInv, Quiet, Live, Terminal, Playing
<1>5. Phases(f)'
  BY <1>0, <1>1 DEF Phases
<1>6. Remembers(f)'
  BY <1>0, <1>1 DEF Remembers, Up, HalfDone
<1>7. Commands(f)'
  BY <1>0, <1>2, Shapes DEF Commands, SeatCmd, HalfDone
<1>8. Calls(f)'
  BY <1>0, <1>1, <1>3 DEF Calls, Phases, OnRound
<1>9. Claims(f)'
  BY <1>0, <1>4 DEF Claims, Complete
<1> QED BY <1>5, <1>6, <1>7, <1>8, <1>9

\* The end of an engine leaves at most a settlement task behind.
LEMMA ExitKept ==
    ASSUME TypeOK, RoundsOwned, NEW e \in Engine, EngineInv(e), Exit(e), UNCHANGED db,
           torn \subseteq torn',
           task'[e] = task[e] \/ (task[e].at = "failed" /\ main[e].at = "await" /\ task'[e] = NoTask)
    PROVE  EngineInv(e)'
<1>0. /\ rounds' = rounds /\ posted' = posted /\ mem[e] \in Memory
      /\ main'[e] = Down /\ cmd'[e] = NoCmd
      /\ mem'[e] = IdleMem \/ mem'[e] = mem[e]
  BY DEF db, TypeOK, Exit, ResetToIdle, SetMem, Goto
<1>a. \A s \in Seat : WinAt[s[2]] \in Nat \ {0}
  BY BingoAssumption
<1> USE DEF EngineInv, Phases, Remembers, Commands, Calls, Claims, Playing, OnRound, SeatCmd, HalfDone,
            Complete, Up, Live, Terminal, At, Down, NoCmd, NoTask
<1>1. CASE mem'[e] = IdleMem
  BY <1>0, <1>1 DEF IdleMem
<1>2. CASE mem'[e] = mem[e]
  <2>1. mem[e].pending # {} => ~ HalfDone(e)
    <3>1. ASSUME mem[e].pending # {} PROVE Playing(e) /\ mem[e].calls > 0
      BY <1>0, <1>a, <3>1 DEF Memory
    <3> QED BY <3>1
  <2>2. Phases(e)'
    BY <1>0, <1>2
  <2>3. Remembers(e)'
    BY <1>0, <1>2, <2>1
  <2>4. Commands(e)' /\ Calls(e)' /\ Claims(e)'
    BY <1>0, <1>2
  <2> QED BY <2>2, <2>3, <2>4
<1> QED BY <1>0, <1>1, <1>2

\* A registered claim, by the scan or by the command server.
LEMMA RegisterKept ==
    ASSUME TypeOK, RoundsOwned, NEW e \in Engine, EngineInv(e), UNCHANGED db, held'[e] = held[e],
           NEW s \in Seat, Playing(e) => Complete(e, s), Register(e, s), Up(e), torn \subseteq torn',
           \/ main'[e] = main[e] /\ cmd[e].at = "claim" /\ cmd'[e] = NoCmd
           \/ cmd'[e] = cmd[e] /\ main[e].at = "claim" /\ main'[e] = [at |-> "scan", todo |-> main[e].todo]
    PROVE  EngineInv(e)'
<1>0. /\ rounds' = rounds /\ posted' = posted /\ mem[e] \in Memory
      /\ mem \in [Engine -> Memory] /\ task \in [Engine -> TaskState]
  BY DEF db, TypeOK
<1>1. /\ main[e].at = "down" => main[e] = Down
      /\ main[e].at = "await" => main[e] = At("await")
  BY MainLabels
<1> USE DEF EngineInv, Phases, Remembers, Commands, Calls, Claims, Playing, OnRound, SeatCmd, HalfDone,
            Complete, Up, Live, Terminal, At, Down, NoCmd, NoTask
<1>2. CASE mem'[e] = mem[e] /\ task'[e] = task[e]
  <2>1. Phases(e)'
    BY <1>0, <1>1, <1>2
  <2>2. Remembers(e)' /\ Commands(e)'
    BY <1>0, <1>2
  <2>3. Calls(e)' /\ Claims(e)'
    BY <1>0, <1>2
  <2> QED BY <2>1, <2>2, <2>3
<1>3. CASE ~ (mem'[e] = mem[e] /\ task'[e] = task[e])
  <2>1. /\ task'[e] = At("window")
        /\ \/ /\ mem[e].status = "running"
              /\ mem'[e] = [mem[e] EXCEPT !.status = "settling", !.settling = TRUE, !.pending = @ \union {s}]
           \/ /\ mem[e].status = "settling"
              /\ mem'[e] = [mem[e] EXCEPT !.pending = @ \union {s}]
    <3>1. task[e].at = "window" => task[e] = At("window")
      <4>1. task[e] \in TaskState
        BY <1>0
      <4> QED BY <4>1 DEF TaskState
    <3> QED BY <1>0, <1>3, <3>1 DEF Register, SetMem
  <2>2. /\ mem'[e].status = "settling" /\ mem[e].status \in {"running", "settling"}
        /\ mem'[e].pending = mem[e].pending \union {s}
        /\ mem'[e].round = mem[e].round /\ mem'[e].entries = mem[e].entries
        /\ mem'[e].pot = mem[e].pot /\ mem'[e].calls = mem[e].calls /\ mem'[e].dropped = mem[e].dropped
    <3>1. mem[e] \in Memory
      BY <1>0
    <3>2. CASE mem[e].status = "running"
      <4>1. mem'[e] = [mem[e] EXCEPT !.status = "settling", !.settling = TRUE, !.pending = @ \union {s}]
        BY <2>1, <3>2
      <4> QED BY <3>1, <3>2, <4>1 DEF Memory
    <3>3. CASE mem[e].status = "settling"
      <4>1. mem'[e] = [mem[e] EXCEPT !.pending = @ \union {s}]
        BY <2>1, <3>3
      <4> QED BY <3>1, <3>3, <4>1 DEF Memory
    <3> QED BY <2>1, <3>2, <3>3
  <2>3. Phases(e)'
    <3>1. CASE mem[e].status = "running"
      <4>1. mem'[e].settling /\ main[e].at # "await"
        BY <1>0, <2>1, <3>1 DEF Memory
      <4> QED BY <1>0, <1>1, <2>1, <2>2, <3>1, <4>1
    <3>2. CASE mem[e].status = "settling"
      <4>1. mem'[e].settling = mem[e].settling
        BY <1>0, <2>1, <3>2 DEF Memory
      <4> QED BY <1>0, <1>1, <2>1, <2>2, <3>2, <4>1
    <3> QED BY <2>2, <3>1, <3>2
  <2>4. Remembers(e)' /\ Commands(e)'
    BY <1>0, <2>1, <2>2
  <2>5. Calls(e)' /\ Claims(e)'
    BY <1>0, <2>1, <2>2
  <2> QED BY <2>3, <2>4, <2>5
<1> QED BY <1>2, <1>3

\* The local steps keep the engine's invariant.
LEMMA LocalKept ==
    ASSUME TypeOK, RoundsOwned, NEW e \in Engine, EngineInv(e), Local(e), torn \subseteq torn'
    PROVE  EngineInv(e)'
<1>0. /\ rounds' = rounds /\ posted' = posted /\ mem[e] \in Memory
      /\ mem \in [Engine -> Memory] /\ main \in [Engine -> MainState]
      /\ cmd \in [Engine -> CmdState] /\ task \in [Engine -> TaskState]
      /\ held \in [Engine -> BOOLEAN]
  BY LocalUnchanged DEF db, TypeOK
<1>a. \A s \in Seat : WinAt[s[2]] \in Nat \ {0}
  BY BingoAssumption
<1>c. /\ main[e].at = "down" => main[e] = Down
      /\ main[e].at = "await" => main[e] = At("await")
  BY MainLabels
<1>b. mem[e].round # 0 => rounds[mem[e].round] \in Row
  BY DEF TypeOK, RoundsOwned
<1> USE DEF EngineInv, Phases, Remembers, Commands, Calls, Claims, Playing, OnRound, SeatCmd, HalfDone,
            Complete, Up, Live, Terminal, At, Down, NoCmd, NoTask, DeadCmd, Goto, SetMem, ResetToIdle, lock
<1>1. CASE ClaimRoom(e)
  BY <1>0, <1>1 DEF ClaimRoom, IdleMem
<1>2. CASE Loop(e)
  BY <1>0, <1>2 DEF Loop
<1>3. CASE LobbyOver(e)
  <2>1. Up(e) /\ mem[e].status = "lobby" /\ mem[e].round # 0 /\ task[e].at = "none"
    BY <1>0, <1>3 DEF LobbyOver, Memory
  <2>2. /\ mem'[e] = mem[e] /\ cmd'[e] = cmd[e] /\ task'[e] = task[e]
        /\ main'[e].at \in {"voiding", "starting"} /\ main'[e].round = mem[e].round
    BY <1>0, <1>3 DEF LobbyOver
  <2>p. Phases(e)'
    BY <1>0, <2>1, <2>2
  <2>q. Remembers(e)'
    BY <1>0, <2>1, <2>2
  <2>r. Commands(e)'
    BY <1>0, <2>1, <2>2
  <2>s. Calls(e)'
    BY <1>0, <2>1, <2>2
  <2>t. Claims(e)'
    BY <1>0, <2>1, <2>2
  <2> QED BY <2>p, <2>q, <2>r, <2>s, <2>t
<1>4. CASE Voided(e)
  BY <1>0, <1>4 DEF Voided, IdleMem
<1>5. CASE CallNumber(e)
  <2>1. /\ mem'[e] = [mem[e] EXCEPT !.calls = @ + 1] /\ cmd'[e] = cmd[e] /\ task'[e] = task[e]
        /\ main'[e] = [at |-> "writing", round |-> mem[e].round, call |-> mem[e].calls + 1]
        /\ main[e].at = "calling" /\ mem[e].status = "running" /\ mem[e].round # 0
        /\ cmd[e].at \notin {"joined", "dropped"}
    BY <1>0, <1>5 DEF CallNumber, Calling
  <2>2. Phases(e)'
    BY <1>0, <2>1 DEF Memory
  <2>3. Remembers(e)'
    BY <1>0, <2>1 DEF Memory
  <2>4. Commands(e)'
    BY <1>0, <2>1 DEF Memory
  <2>5. Calls(e)'
    BY <1>0, <1>b, <2>1 DEF Memory, Row
  <2>6. Claims(e)'
    <3>1. \A s \in Seat : Complete(e, s) => Complete(e, s)'
      BY <1>0, <1>a, <2>1 DEF Memory
    <3> QED BY <1>0, <2>1, <3>1, Shapes DEF Memory
  <2> QED BY <2>2, <2>3, <2>4, <2>5, <2>6
<1>6. CASE AutoClaim(e)
  BY <1>0, <1>6 DEF AutoClaim, Memory
<1>7. CASE ScanOver(e)
  BY <1>0, <1>7 DEF ScanOver
<1>8. CASE CallsOver(e)
  <2>1. /\ mem'[e] = [mem[e] EXCEPT !.settling = FALSE] /\ cmd'[e] = cmd[e] /\ task'[e] = task[e]
        /\ held'[e] = held[e]
        /\ main[e].at = "calling"
        /\ mem[e].status # "running" \/ ~ held[e] \/ mem[e].calls >= MaxCalls
        /\ main'[e] = IF mem[e].settling THEN At("await")
                      ELSE IF mem[e].status = "running" /\ mem[e].calls >= MaxCalls
                      THEN [at |-> "refunding", round |-> mem[e].round]
                      ELSE At("loop")
    BY <1>0, <1>8 DEF CallsOver
  <2>2. Phases(e)'
    <3>1. CASE mem[e].settling
      BY <1>0, <2>1, <3>1 DEF Memory
    <3>2. CASE ~ mem[e].settling
      <4>1. mem[e].status # "settling"
        BY <1>0, <2>1, <3>2
      <4>2. mem'[e].status = mem[e].status /\ mem'[e].round = mem[e].round
            /\ mem'[e].pending = mem[e].pending /\ mem'[e].calls = mem[e].calls /\ ~ mem'[e].settling
        BY <1>0, <2>1 DEF Memory
      <4> QED BY <1>0, <2>1, <3>2, <4>1, <4>2
    <3> QED BY <1>0, <3>1, <3>2 DEF Memory
  <2>3. Remembers(e)' /\ Commands(e)' /\ Calls(e)' /\ Claims(e)'
    BY <1>0, <2>1 DEF Memory
  <2> QED BY <2>2, <2>3
<1>9. CASE WindowCloses(e)
  <2>1. /\ mem'[e] = [mem[e] EXCEPT !.pending = {}] /\ cmd'[e] = cmd[e] /\ main'[e] = main[e]
        /\ held'[e] = held[e] /\ task[e].at = "window"
        /\ IF mem[e].round = 0 \/ mem[e].pending = {}
           THEN task'[e] = Raised(e)
           ELSE task'[e] = [at |-> "pay", round |-> mem[e].round, pot |-> mem[e].pot,
                            winners |-> mem[e].pending]
    BY <1>0, <1>9 DEF WindowCloses
  <2>2. Phases(e)'
    BY <1>0, <1>c, <2>1 DEF Memory, Raised
  <2>3. Remembers(e)' /\ Commands(e)' /\ Calls(e)'
    BY <1>0, <2>1 DEF Memory
  <2>4. Claims(e)'
    <3>1. CASE mem[e].round = 0 \/ mem[e].pending = {}
      BY <1>0, <2>1, <3>1 DEF Memory, Raised
    <3>2. CASE mem[e].round # 0 /\ mem[e].pending # {}
      <4>1. Playing(e) /\ \A s \in mem[e].pending : s \in mem[e].entries /\ WinAt[s[2]] <= mem[e].calls
        BY <3>2
      <4>2. mem[e].calls > 0 /\ mem[e].pending \subseteq Seat
        BY <1>0, <1>a, <3>2, <4>1 DEF Memory
      <4>3. ~ HalfDone(e)
        BY <4>1, <4>2
      <4>4. \A s \in mem[e].pending : WinAt[s[2]] <= rounds[mem[e].round].calls + 1
        BY <1>0, <1>a, <1>b, <3>2, <4>1, <4>2 DEF Memory, Row
      <4>5. Live(mem[e].round) /\ mem[e].round \notin torn =>
                                  /\ mem[e].pending \subseteq rounds[mem[e].round].entries
                                  /\ mem[e].pot = rounds[mem[e].round].pot
        BY <3>2, <4>1, <4>3
      <4>6. task'[e] = [at |-> "pay", round |-> mem[e].round, pot |-> mem[e].pot, winners |-> mem[e].pending]
        BY <2>1, <3>2
      <4> QED BY <1>0, <2>1, <3>2, <4>1, <4>4, <4>5, <4>6 DEF Memory
    <3> QED BY <3>1, <3>2
  <2> QED BY <2>2, <2>3, <2>4
<1>10. CASE ShowResult(e)
  BY <1>0, <1>10 DEF ShowResult, Memory
<1>11. CASE ResultOver(e)
  BY <1>0, <1>11 DEF ResultOver, IdleMem
<1>12. CASE JoinRemember(e)
  BY <1>0, <1>12 DEF JoinRemember, Memory
<1>13. CASE DropRemember(e)
  <2> DEFINE s == cmd[e].seat
  <2>1. /\ cmd'[e] = NoCmd /\ main'[e] = main[e] /\ task'[e] = task[e] /\ held'[e] = held[e]
        /\ cmd[e].at = "dropped"
        /\ mem'[e] = IF s \in mem[e].entries
                     THEN [mem[e] EXCEPT !.entries = @ \ {s}, !.pot = @ - Stake, !.dropped = @ \union {s}]
                     ELSE mem[e]
    BY <1>0, <1>13 DEF DropRemember
  <2>a. s \in Seat
    BY <2>1, Shapes
  <2> HIDE DEF s
  <2>2. Phases(e)' /\ Commands(e)' /\ Calls(e)'
    BY <1>0, <2>1 DEF Memory
  <2>3. Remembers(e)'
    <3>1. /\ mem'[e].round = mem[e].round /\ mem'[e].pending = mem[e].pending
          /\ s \in mem[e].entries => /\ mem'[e].entries = mem[e].entries \ {s}
                                     /\ mem'[e].pot = mem[e].pot - Stake
                                     /\ mem'[e].dropped = mem[e].dropped \union {s}
      BY <1>0, <2>1 DEF Memory
    <3>2. Up(e)
      BY <2>1
    <3>3. ASSUME mem[e].round \notin torn \union {0}, Live(mem[e].round)
          PROVE  /\ mem[e].entries = rounds[mem[e].round].entries \union {s}
                 /\ s \notin rounds[mem[e].round].entries
                 /\ mem[e].pot = rounds[mem[e].round].pot + Stake
                 /\ \A x \in Seat : <<"drop", mem[e].round, x>> \in posted => x \in mem[e].dropped \/ s = x
      BY <2>1, <3>2, <3>3 DEF s
    <3>4. rounds[mem[e].round].pot \in Int \/ mem[e].round = 0
      BY <1>b DEF Row
    <3>5. ASSUME mem[e].round \notin torn \union {0}, Live(mem[e].round)
          PROVE  /\ mem'[e].entries = rounds[mem[e].round].entries
                 /\ mem'[e].pot = rounds[mem[e].round].pot
                 /\ \A x \in Seat : <<"drop", mem[e].round, x>> \in posted => x \in mem'[e].dropped
      <4>1. s \in mem[e].entries
        BY <3>3, <3>5
      <4>2. mem'[e].entries = rounds[mem[e].round].entries
        BY <3>1, <3>3, <3>5, <4>1
      <4>3. mem'[e].pot = rounds[mem[e].round].pot
        BY <3>1, <3>3, <3>4, <3>5, <4>1, AmountType
      <4> QED BY <3>1, <3>3, <3>5, <4>1, <4>2, <4>3
    <3> QED BY <1>0, <2>1, <3>1, <3>5
  <2>4. Claims(e)'
    <3>1. Playing(e) => mem[e].calls = 0
      BY <1>0, <2>1 DEF Memory
    <3>2. Playing(e) => \A x \in Seat : ~ Complete(e, x)
      BY <1>0, <1>a, <3>1
    <3>3. task'[e].at = "pay" => task[e].at = "pay" /\ task'[e] = task[e]
      BY <2>1
    <3>4. mem'[e].status = mem[e].status /\ mem'[e].pending = mem[e].pending
      BY <1>0, <2>1 DEF Memory
    <3>5. Playing(e)' => mem[e].pending = {} /\ main[e].at # "claim"
                         /\ (main[e].at = "scan" => main[e].todo = {})
      BY <1>0, <3>2, <3>4, Shapes DEF Memory
    <3> QED BY <1>0, <2>1, <3>3, <3>4, <3>5
  <2> QED BY <2>2, <2>3, <2>4
<1>14. CASE Join(e)
  <2>1. /\ mem'[e] = mem[e] /\ main'[e] = main[e] /\ task'[e] = task[e] /\ held'[e] = held[e]
        /\ cmd[e] = NoCmd /\ Up(e) /\ mem[e].status = "lobby"
    BY <1>0, <1>14 DEF Join, Serving
  <2>2. PICK s \in Seat \ mem[e].dropped, auto \in AutoChoice :
          cmd' = [cmd EXCEPT ![e] = [at |-> "join", round |-> mem[e].round, seat |-> s, auto |-> auto]]
    BY <1>14 DEF Join
  <2>3. cmd'[e] = [at |-> "join", round |-> mem[e].round, seat |-> s, auto |-> auto]
    BY <1>0, <2>2
  <2>p. Phases(e)'
    BY <1>0, <1>c, <2>1, <2>3
  <2>q. Remembers(e)'
    BY <1>0, <2>1, <2>3
  <2>r. Commands(e)'
    BY <1>0, <2>1, <2>3
  <2>s. Calls(e)'
    BY <1>0, <2>1, <2>3
  <2>t. Claims(e)'
    BY <1>0, <2>1, <2>3
  <2> QED BY <2>p, <2>q, <2>r, <2>s, <2>t
<1>15. CASE Drop(e)
  <2>1. /\ mem'[e] = mem[e] /\ main'[e] = main[e] /\ task'[e] = task[e] /\ held'[e] = held[e]
        /\ cmd[e] = NoCmd /\ Up(e) /\ mem[e].status = "lobby"
    BY <1>0, <1>15 DEF Drop, Serving
  <2>2. PICK s \in mem[e].entries :
          cmd' = [cmd EXCEPT ![e] = [at |-> "drop", round |-> mem[e].round, seat |-> s]]
    BY <1>15 DEF Drop
  <2>3. cmd'[e] = [at |-> "drop", round |-> mem[e].round, seat |-> s]
    BY <1>0, <2>2
  <2>p. Phases(e)'
    BY <1>0, <1>c, <2>1, <2>3
  <2>q. Remembers(e)'
    BY <1>0, <2>1, <2>3
  <2>r. Commands(e)'
    BY <1>0, <2>1, <2>3
  <2>s. Calls(e)'
    BY <1>0, <2>1, <2>3
  <2>t. Claims(e)'
    BY <1>0, <2>1, <2>3
  <2> QED BY <2>p, <2>q, <2>r, <2>s, <2>t
<1>16. CASE SetAuto(e)
  BY <1>0, <1>16 DEF SetAuto, Memory
<1>17. CASE Claim(e)
  <2>1. /\ main'[e] = main[e] /\ task'[e] = task[e] /\ held'[e] = held[e] /\ cmd[e] = NoCmd /\ Up(e)
    BY <1>17 DEF Claim, Serving
  <2>2. PICK s \in mem[e].entries :
          /\ Playing(e)
          /\ \/ /\ WinAt[s[2]] <= mem[e].calls /\ mem' = mem
                /\ cmd' = [cmd EXCEPT ![e] = [at |-> "claim", seat |-> s]]
             \/ cmd' = cmd /\ mem' = [mem EXCEPT ![e] = [mem[e] EXCEPT !.lockedOut = @ \union {s}]]
    BY <1>17 DEF Claim, Claimable
  <2>3. CASE mem' = mem /\ WinAt[s[2]] <= mem[e].calls /\ cmd' = [cmd EXCEPT ![e] = [at |-> "claim", seat |-> s]]
    <3>1. cmd'[e] = [at |-> "claim", seat |-> s] /\ mem'[e] = mem[e]
      BY <1>0, <2>3
    <3>p. Phases(e)'
      BY <1>0, <1>c, <2>1, <2>2, <2>3, <3>1
    <3>q. Remembers(e)'
      BY <1>0, <2>1, <2>2, <2>3, <3>1
    <3>r. Commands(e)'
      BY <1>0, <2>1, <2>2, <2>3, <3>1
    <3>s. Calls(e)'
      BY <1>0, <2>1, <2>2, <2>3, <3>1
    <3>t. Claims(e)'
      BY <1>0, <2>1, <2>2, <2>3, <3>1
    <3> QED BY <3>p, <3>q, <3>r, <3>s, <3>t
  <2>4. CASE cmd' = cmd /\ mem' = [mem EXCEPT ![e] = [mem[e] EXCEPT !.lockedOut = @ \union {s}]]
    BY <1>0, <2>1, <2>4 DEF Memory
  <2> QED BY <2>2, <2>3, <2>4
<1>18. CASE LockStep(e) \/ LockExpires(e)
  <2>1. /\ mem'[e] = mem[e] /\ main'[e] = main[e] /\ cmd'[e] = cmd[e] /\ task'[e] = task[e]
        /\ held'[e] => held[e]
    BY <1>0, <1>18 DEF LockStep, LockLost, KeyExpires, LockExpires
  <2>2. Phases(e)'
    BY <1>0, <2>1
  <2>3. Remembers(e)' /\ Commands(e)' /\ Calls(e)' /\ Claims(e)'
    BY <1>0, <2>1
  <2> QED BY <2>2, <2>3
<1>19. CASE AutoClaimFails(e)
  BY <1>0, <1>19 DEF AutoClaimFails, ScanOn, Memory
<1>20. CASE SettleFails(e)
  <2>1. /\ mem'[e] = mem[e] /\ main'[e] = main[e] /\ cmd'[e] = cmd[e] /\ held'[e] = held[e]
        /\ task'[e] = Raised(e) /\ task[e].at \in {"pay", "paid"}
    BY <1>0, <1>20 DEF SettleFails
  <2>p. Phases(e)'
    BY <1>0, <1>c, <2>1 DEF Raised
  <2>q. Remembers(e)'
    BY <1>0, <2>1 DEF Raised
  <2>r. Commands(e)'
    BY <1>0, <2>1 DEF Raised
  <2>s. Calls(e)'
    BY <1>0, <2>1 DEF Raised
  <2>t. Claims(e)'
    BY <1>0, <2>1 DEF Raised
  <2> QED BY <2>p, <2>q, <2>r, <2>s, <2>t
<1>21. CASE Crash(e)
  BY <1>0, <1>21 DEF Crash, IdleMem
<1>22. CASE CommandFails(e) \/ ReplyFails(e)
  <2>1. /\ mem'[e] = mem[e] /\ main'[e] = main[e] /\ task'[e] = task[e] /\ held'[e] = held[e]
        /\ cmd'[e] \in {NoCmd, DeadCmd} /\ (cmd'[e] = DeadCmd => Up(e))
    BY <1>0, <1>22 DEF CommandFails, ReplyFails, Serving
  <2>2. HalfDone(e) => mem[e].round = 0 \/ ~ Live(mem[e].round) \/ mem[e].round \in torn'
    <3>1. HalfDone(e) => CommandFails(e) /\ mem[e].round \in {0, cmd[e].round}
      BY <1>22 DEF ReplyFails, Serving
    <3> QED BY <3>1 DEF CommandFails
  <2>p. Phases(e)'
    BY <1>0, <1>c, <2>1
  <2>q. Remembers(e)'
    BY <1>0, <2>1, <2>2
  <2>r. Commands(e)'
    BY <1>0, <2>1
  <2>s. Calls(e)'
    BY <1>0, <2>1
  <2>t. Claims(e)'
    BY <1>0, <2>1
  <2> QED BY <2>p, <2>q, <2>r, <2>s, <2>t
<1>23. CASE LoopEnds(e) \/ LobbyLost(e) \/ AssertionFails(e) \/ EngineFails(e) \/ Shutdown(e)
  <2>1. Exit(e) /\ UNCHANGED db /\ task'[e] = task[e]
    BY <1>23 DEF LoopEnds, LobbyLost, AssertionFails, EngineFails, Shutdown
  <2> HIDE DEF EngineInv
  <2> QED BY <2>1, ExitKept
<1>24. CASE RestOver(e)
  <2>1. CASE Exit(e)
    <3>1. UNCHANGED db /\ task'[e] = task[e]
      BY <1>24 DEF RestOver
    <3> HIDE DEF EngineInv
    <3> QED BY <2>1, <3>1, ExitKept
  <2>2. CASE ~ Exit(e)
    <3>1. /\ mem'[e] = mem[e] /\ cmd'[e] = cmd[e] /\ task'[e] = task[e] /\ held'[e] = held[e]
          /\ main[e] = At("rest") /\ main'[e] = At("start")
      BY <1>0, <1>24, <2>2 DEF RestOver
    <3> QED BY <1>0, <3>1
  <2> QED BY <2>1, <2>2
<1>25. CASE SettlementAwaited(e)
  <2>1. CASE task[e] = At("failed")
    <3>1. Exit(e) /\ UNCHANGED db /\ task'[e] = NoTask /\ main[e].at = "await" /\ task[e].at = "failed"
      BY <1>0, <1>25, <2>1 DEF SettlementAwaited
    <3> HIDE DEF EngineInv
    <3> QED BY <3>1, ExitKept
  <2>2. CASE task[e] # At("failed")
    <3>1. /\ mem'[e] = mem[e] /\ cmd'[e] = cmd[e] /\ task'[e] = task[e] /\ held'[e] = held[e]
          /\ main[e] = At("await") /\ task[e].at = "none" /\ main'[e] = At("loop")
      BY <1>0, <1>25, <2>2 DEF SettlementAwaited
    <3> QED BY <1>0, <3>1
  <2> QED BY <2>1, <2>2
<1>26. CASE AutoRegister(e)
  <2>1. /\ UNCHANGED db /\ held'[e] = held[e] /\ Register(e, main[e].seat) /\ Up(e)
        /\ cmd'[e] = cmd[e] /\ main[e].at = "claim" /\ main'[e] = [at |-> "scan", todo |-> main[e].todo]
    BY <1>0, <1>26 DEF AutoRegister, ScanOn
  <2>2. main[e].seat \in Seat /\ (Playing(e) => Complete(e, main[e].seat))
    BY <2>1, Shapes
  <2> HIDE DEF EngineInv, Playing, Complete, Up
  <2> QED BY <2>1, <2>2, RegisterKept
<1>27. CASE ClaimRegister(e)
  <2>1. /\ UNCHANGED db /\ held'[e] = held[e] /\ Register(e, cmd[e].seat)
        /\ main'[e] = main[e] /\ cmd[e].at = "claim" /\ cmd'[e] = NoCmd
    BY <1>0, <1>27 DEF ClaimRegister
  <2>2. cmd[e].seat \in Seat /\ (Playing(e) => Complete(e, cmd[e].seat)) /\ Up(e)
    BY <2>1, Shapes
  <2> HIDE DEF EngineInv, Playing, Complete, Up
  <2> QED BY <2>1, <2>2, RegisterKept
<1> QED BY <1>1, <1>2, <1>3, <1>4, <1>5, <1>6, <1>7, <1>8, <1>9, <1>10, <1>11, <1>12, <1>13,
           <1>14, <1>15, <1>16, <1>17, <1>18, <1>19, <1>20, <1>21, <1>22, <1>23, <1>24, <1>25,
           <1>26, <1>27
    DEF Local, EngineFault

\* A start keeps the engine's invariant.
LEMMA StartsKept ==
    ASSUME TypeOK, RoundsOwned, NEW e \in Engine, EngineInv(e), Start(e) \/ JoinStartsRound(e),
           torn \subseteq torn'
    PROVE  EngineInv(e)'
<1>0. /\ mem[e] \in Memory /\ mem \in [Engine -> Memory] /\ main \in [Engine -> MainState]
      /\ posted' = posted /\ cmd'[e] = cmd[e] /\ task'[e] = task[e] /\ held'[e] = held[e]
      /\ mem[e].status = "idle" => cmd[e] \in {NoCmd, DeadCmd}
      /\ \/ main'[e] = main[e] /\ Up(e) /\ mem[e].status = "idle"
         \/ main[e] = At("start") /\ main'[e] = At("lobby")
  BY DEF TypeOK, Start, JoinStartsRound, Serving, Goto, lock
<1>1. main[e].at = "down" => main[e] = Down
  BY MainLabels
<1> USE DEF EngineInv, Phases, Remembers, Commands, Calls, Claims, Playing, OnRound, SeatCmd, HalfDone,
            Complete, Up, Live, Terminal, At, Down, NoCmd, NoTask, DeadCmd
<1>2. CASE UNCHANGED <<rounds, mem>>
  BY <1>0, <1>1, <1>2, Shapes
<1>3. CASE StartNewRound(e) /\ mem[e].status = "idle"
  <2> DEFINE n == Len(rounds) + 1
  <2>0. cmd[e] \in {NoCmd, DeadCmd}
    BY <1>0, <1>3
  <2>1. /\ n \in DOMAIN rounds' /\ rounds'[n] = NewRow /\ n # 0
        /\ \A r \in DOMAIN rounds : rounds'[r] = rounds[r]
        /\ \A k \in posted : k[2] # n
    BY <1>3 DEF StartNewRound, TypeOK, RoundsOwned
  <2>2. mem'[e] = [IdleMem EXCEPT !.status = "lobby", !.round = n]
    BY <1>0, <1>3 DEF StartNewRound, SetMem
  <2>3. /\ OnRound(e) => main[e].round \in DOMAIN rounds
        /\ task[e].at = "pay" => task[e].round \in DOMAIN rounds
    BY DEF RoundsOwned
  <2> HIDE DEF n
  <2>4. /\ mem'[e].status = "lobby" /\ mem'[e].round = n /\ mem'[e].entries = {} /\ mem'[e].pot = 0
        /\ mem'[e].pending = {} /\ mem'[e].calls = 0 /\ ~ mem'[e].settling
    BY <2>2 DEF IdleMem
  <2>5. Phases(e)'
    BY <1>0, <1>1, <2>1, <2>4
  <2>6. Remembers(e)'
    <3>1. \A s \in Seat : <<"drop", n, s>> \notin posted
      BY <2>1
    <3> QED BY <1>0, <2>0, <2>1, <2>4, <3>1 DEF NewRow
  <2>7. Commands(e)' /\ Calls(e)'
    BY <1>0, <2>0, <2>1, <2>3, <2>4
  <2>8. Claims(e)'
    BY <1>0, <2>0, <2>1, <2>3, <2>4
  <2> QED BY <2>5, <2>6, <2>7, <2>8
<1> QED BY <1>2, <1>3 DEF Start, JoinStartsRound

\* A refund by the engine itself keeps its invariant.
LEMMA RefundAllKept ==
    ASSUME TypeOK, RoundsOwned, NEW e \in Engine, EngineInv(e), RefundAll(e), torn \subseteq torn'
    PROVE  EngineInv(e)'
<1>0. /\ mem'[e] = mem[e] /\ cmd'[e] = cmd[e] /\ task'[e] = task[e] /\ held'[e] = held[e]
      /\ main[e].at \in {"voiding", "refunding"} /\ main'[e] = At("voided") /\ mem[e] \in Memory
  BY DEF RefundAll, TypeOK, Goto, lock
<1>1. \A r \in DOMAIN rounds : Quiet(r)
  BY RefundQuiet DEF RefundAll, RoundsOwned, OnRound
<1>2. /\ mem[e].round # 0 => mem[e].round \in DOMAIN rounds
      /\ SeatCmd(e) => cmd[e].round \in DOMAIN rounds
      /\ task[e].at = "pay" => task[e].round \in DOMAIN rounds
  BY <1>0 DEF RoundsOwned, Memory
<1> USE DEF EngineInv, Quiet, Live, Terminal, Playing, At
<1>3. Phases(e)'
  BY <1>0, <1>1, <1>2 DEF Phases
<1>4. Remembers(e)'
  BY <1>0, <1>1, <1>2 DEF Remembers, Up, HalfDone, Down
<1>5. Commands(e)'
  BY <1>0, <1>1, <1>2, Shapes DEF Commands, SeatCmd, HalfDone
<1>6. Calls(e)' /\ Claims(e)'
  BY <1>0, <1>1, <1>2 DEF Calls, Claims, Complete, Phases
<1> QED BY <1>3, <1>4, <1>5, <1>6

\* The start of a round keeps the engine's invariant: the lobby it remembers is the
\* lobby of the row.
LEMMA TransitionInv ==
    ASSUME TypeOK, RoundsOwned, NEW e \in Engine, EngineInv(e), TransitionToRunning(e),
           torn \subseteq torn', InOrder(main[e].round)
    PROVE  EngineInv(e)'
<1> DEFINE q == main[e].round
<1>0. /\ mem[e] \in Memory /\ main[e].at = "starting" /\ q \in DOMAIN rounds /\ posted' = posted
      /\ cmd'[e] = cmd[e] /\ task'[e] = task[e] /\ held'[e] = held[e] /\ rounds[q] \in Row
      /\ mem[e].status = "lobby" /\ mem[e].round = q /\ task[e].at = "none" /\ mem[e].round # 0
  BY DEF TransitionToRunning, TypeOK, RoundsOwned, OnRound, EngineInv, Phases, lock
<1> USE DEF EngineInv, Phases, Remembers, Commands, Calls, Claims, Playing, OnRound, SeatCmd, HalfDone,
            Complete, Up, Live, Terminal, At, Down, NoCmd, NoTask, DeadCmd
<1>1. CASE rounds[q].status # "lobby"
  <2>1. rounds' = rounds /\ mem'[e] = IdleMem /\ main'[e] = At("loop")
    BY <1>0, <1>1 DEF TransitionToRunning, ResetToIdle, SetMem, Goto, TypeOK
  <2> QED BY <1>0, <2>1 DEF IdleMem
<1>2. CASE rounds[q].status = "lobby"
  <2>1. /\ SetRow(q, [rounds[q] EXCEPT !.status = "running"])
        /\ mem'[e] = [mem[e] EXCEPT !.status = "running"] /\ main'[e] = At("calling")
    BY <1>0, <1>2 DEF TransitionToRunning, SetMem, Goto, TypeOK
  <2>2. rounds'[q] = [rounds[q] EXCEPT !.status = "running"]
    BY <1>0, <2>1, SetRowRow
  <2>3. /\ rounds'[q].status = "running" /\ rounds'[q].entries = rounds[q].entries
        /\ rounds'[q].pot = rounds[q].pot /\ rounds'[q].calls = 0
    BY <1>0, <1>2, <2>2 DEF Row, InOrder, Ended
  <2>4. /\ mem'[e].status = "running" /\ mem'[e].round = q /\ mem'[e].entries = mem[e].entries
        /\ mem'[e].pot = mem[e].pot /\ mem'[e].pending = {} /\ mem'[e].calls = 0 /\ ~ mem'[e].settling
        /\ mem'[e].dropped = mem[e].dropped
    BY <1>0, <2>1 DEF Memory
  <2>5. /\ cmd[e].at # "claim"
        /\ SeatCmd(e) => cmd[e].round = q
    BY <1>0
  <2> HIDE DEF q
  <2>6. Phases(e)'
    BY <1>0, <2>1, <2>3, <2>4
  <2>7. Remembers(e)'
    BY <1>0, <1>2, <2>1, <2>3, <2>4
  <2>8. Commands(e)' /\ Calls(e)'
    BY <1>0, <1>2, <2>1, <2>3, <2>4, <2>5
  <2>9. Claims(e)'
    BY <1>0, <2>1, <2>3, <2>4, <2>5
  <2> QED BY <2>6, <2>7, <2>8, <2>9
<1> QED BY <1>1, <1>2

\* Writing a call keeps the engine's invariant: the row is at most one call behind.
LEMMA WriteCallInv ==
    ASSUME TypeOK, RoundsOwned, NEW e \in Engine, EngineInv(e), WriteCall(e), torn \subseteq torn'
    PROVE  EngineInv(e)'
<1> DEFINE q == main[e].round
<1>0. /\ mem[e] \in Memory /\ main[e].at = "writing" /\ q \in DOMAIN rounds /\ posted' = posted
      /\ cmd'[e] = cmd[e] /\ task'[e] = task[e] /\ held'[e] = held[e] /\ rounds[q] \in Row
      /\ mem \in [Engine -> Memory] /\ main \in [Engine -> MainState]
      /\ main[e].call \in 1 .. MaxCalls
  BY Shapes DEF WriteCall, TypeOK, RoundsOwned, OnRound, lock
<1>a. \A s \in Seat : WinAt[s[2]] \in Nat \ {0}
  BY BingoAssumption
<1>b. MaxCalls \in Nat
  BY BingoAssumption
<1> USE DEF EngineInv, Phases, Remembers, Commands, Calls, Claims, Playing, OnRound, SeatCmd, HalfDone,
            Complete, Up, Live, Terminal, At, Down, NoCmd, NoTask, DeadCmd
<1>1. CASE rounds[q].status # "running"
  <2>0. rounds' = rounds
    BY <1>1 DEF WriteCall
  <2>1. CASE mem[e].settling
    <3>1. main'[e] = At("await") /\ mem'[e] = [mem[e] EXCEPT !.settling = FALSE]
      BY <1>0, <1>1, <2>1 DEF WriteCall, Stopped, Goto, SetMem
    <3> QED BY <1>0, <2>0, <2>1, <3>1 DEF Memory
  <2>2. CASE ~ mem[e].settling
    <3>1. main'[e] = At("loop") /\ mem'[e] = IdleMem
      BY <1>0, <1>1, <2>2 DEF WriteCall, Stopped, Goto, SetMem, ResetToIdle
    <3> QED BY <1>0, <2>0, <3>1 DEF IdleMem
  <2> QED BY <2>1, <2>2
<1>2. CASE rounds[q].status = "running"
  <2>1. /\ SetRow(q, [rounds[q] EXCEPT !.calls = main[e].call]) /\ mem'[e] = mem[e]
        /\ main'[e] = [at |-> "scan", todo |-> AutoWinners(e)]
    BY <1>0, <1>2 DEF WriteCall, Goto
  <2>2. \A r \in DOMAIN rounds : rounds'[r] = IF r = q THEN [rounds[q] EXCEPT !.calls = main[e].call] ELSE rounds[r]
    BY <1>0, <2>1, SetRowRow
  <2>3. /\ rounds'[q].status = "running" /\ rounds'[q].entries = rounds[q].entries
        /\ rounds'[q].pot = rounds[q].pot /\ rounds'[q].calls = main[e].call
        /\ rounds[q].calls <= main[e].call /\ rounds[q].calls \in Nat /\ main[e].call \in Nat
    <3>1. rounds'[q] = [rounds[q] EXCEPT !.calls = main[e].call]
      BY <1>0, <2>2
    <3>2. rounds[q].calls <= main[e].call
      BY <1>0
    <3>b. rounds[q].calls \in 0 .. MaxCalls
      BY <1>0 DEF Row
    <3>3. rounds[q].calls \in Nat /\ main[e].call \in Nat
      BY <1>0, <1>b, <3>b
    <3> QED BY <1>0, <1>2, <3>1, <3>2, <3>3 DEF Row
  <2>4. \A r \in DOMAIN rounds : /\ rounds'[r].status = rounds[r].status
                                 /\ rounds'[r].entries = rounds[r].entries
                                 /\ rounds'[r].pot = rounds[r].pot
                                 /\ r # q => rounds'[r] = rounds[r]
    BY <1>2, <2>2, <2>3
  <2>5. /\ mem[e].round # 0 => mem[e].round \in DOMAIN rounds
        /\ SeatCmd(e) => cmd[e].round \in DOMAIN rounds
        /\ task[e].at = "pay" => task[e].round \in DOMAIN rounds /\ task[e].winners \subseteq Seat
    BY <1>0, Shapes DEF RoundsOwned, Memory
  <2>6. Playing(e) => mem[e].round = q /\ mem[e].calls = main[e].call
    BY <1>0
  <2> HIDE DEF q
  <2>7. Phases(e)'
    BY <1>0, <2>1, <2>4, <2>5
  <2>8. Remembers(e)' /\ Commands(e)'
    BY <1>0, <2>1, <2>4, <2>5
  <2>9. Calls(e)'
    BY <1>0, <2>1, <2>3, <2>4, <2>6
  <2>10. Claims(e)'
    <3>1. task[e].at = "pay" => \A s \in task[e].winners : WinAt[s[2]] <= rounds'[task[e].round].calls + 1
      <4>1. CASE task[e].round = q
        BY <1>a, <2>3, <2>5, <4>1
      <4>2. CASE task[e].round # q
        BY <2>4, <2>5, <4>2
      <4> QED BY <4>1, <4>2
    <3> QED BY <1>0, <2>1, <2>4, <2>5, <3>1 DEF AutoWinners
  <2> QED BY <2>7, <2>8, <2>9, <2>10
<1> QED BY <1>1, <1>2

\* A settlement changes nothing its engine remembers of the row.
LEMMA SettleInv ==
    ASSUME TypeOK, RoundsOwned, NEW e \in Engine, EngineInv(e), Settle(e), torn \subseteq torn'
    PROVE  EngineInv(e)'
<1>0. /\ mem[e] \in Memory /\ task[e].at = "pay" /\ task[e].round \in DOMAIN rounds
      /\ cmd'[e] = cmd[e] /\ main'[e] = main[e] /\ held'[e] = held[e]
      /\ rounds[task[e].round] \in Row
  BY DEF Settle, TypeOK, RoundsOwned, lock
<1>1. CASE ~ Live(task[e].round)
  <2>1. rounds' = rounds /\ posted' = posted /\ mem'[e] = IdleMem /\ task'[e] = NoTask
    BY <1>0, <1>1 DEF Settle, ResetToIdle, SetMem, TypeOK, db
  <2> QED BY <1>0, <2>1 DEF IdleMem, EngineInv, Phases, Remembers, Commands, Calls, Claims, Playing, OnRound,
                SeatCmd, HalfDone, Up, Live, At, Down, NoCmd, NoTask
<1>2. CASE Live(task[e].round)
  <2>1. mem'[e] = mem[e] /\ task'[e] = At("paid")
    BY <1>0, <1>2 DEF Settle, TypeOK
  <2>2. \A r \in DOMAIN rounds : Quiet(r)
    <3>1. PICK row : /\ SetRow(task[e].round, row) /\ row.status = "done"
                     /\ row.entries = rounds[task[e].round].entries
                     /\ row.pot = rounds[task[e].round].pot
                     /\ row.calls = rounds[task[e].round].calls
                     /\ posted' = posted \union {<<"settle", task[e].round>>}
      <4> DEFINE t == task[e]
                 row == [rounds[t.round] EXCEPT
                           !.status = "done", !.winners = t.winners, !.paid = t.pot,
                           !.share = Share(Derash(t.pot, HouseCutBps), Cardinality(t.winners)),
                           !.house = HouseTotal(t.pot, HouseCutBps, Cardinality(t.winners))]
      <4>1. SetRow(t.round, row) /\ posted' = posted \union {<<"settle", t.round>>}
        BY <1>2 DEF Settle, Payout
      <4>2. /\ row.status = "done" /\ row.entries = rounds[t.round].entries
            /\ row.pot = rounds[t.round].pot /\ row.calls = rounds[t.round].calls
        BY <1>0 DEF Row
      <4> QED BY <4>1, <4>2
    <3>2. \A r \in DOMAIN rounds : rounds'[r] = IF r = task[e].round THEN row ELSE rounds[r]
      BY <1>0, <3>1, SetRowRow
    <3>3. DOMAIN rounds' = DOMAIN rounds
      BY <3>1 DEF SetRow
    <3>4. \A r \in DOMAIN rounds, s \in Seat : <<"drop", r, s>> \in posted' <=> <<"drop", r, s>> \in posted
      BY <3>1
    <3> QED BY <1>2, <3>1, <3>2, <3>3, <3>4 DEF Quiet, Live, Terminal
  <2>3. /\ mem[e].round # 0 => mem[e].round \in DOMAIN rounds
        /\ SeatCmd(e) => cmd[e].round \in DOMAIN rounds
        /\ OnRound(e) => main[e].round \in DOMAIN rounds
    BY <1>0 DEF RoundsOwned, Memory
  <2> USE DEF EngineInv, Quiet, Live, Terminal, Playing, At
  <2>4. Phases(e)'
    BY <1>0, <2>1, <2>2, <2>3 DEF Phases
  <2>5. Remembers(e)'
    BY <1>0, <2>1, <2>2, <2>3 DEF Remembers, Up, HalfDone, Down
  <2>6. Commands(e)'
    BY <1>0, <2>1, <2>2, <2>3, Shapes DEF Commands, SeatCmd, HalfDone
  <2>7. Calls(e)'
    BY <1>0, <2>1, <2>2, <2>3 DEF Calls, Phases, OnRound
  <2>8. Claims(e)'
    BY <1>0, <2>1, <2>2, <2>3 DEF Claims, Complete, Phases
  <2> QED BY <2>4, <2>5, <2>6, <2>7, <2>8
<1> QED BY <1>1, <1>2

\* The transaction of a join or a drop keeps the engine's invariant: the row runs
\* ahead of the memory by exactly the seat of the command.
LEMMA SeatTxnInv ==
    ASSUME TypeOK, RoundsOwned, NEW e \in Engine, EngineInv(e), JoinTxn(e) \/ DropTxn(e),
           torn \subseteq torn', NEW r \in DOMAIN rounds, r = cmd[e].round, InOrder(r)
    PROVE  EngineInv(e)'
<1> DEFINE s == cmd[e].seat
<1>0. /\ mem[e] \in Memory /\ cmd[e].at \in {"join", "drop"} /\ s \in Seat /\ rounds[r] \in Row
      /\ mem'[e] = mem[e] /\ main'[e] = main[e] /\ task'[e] = task[e] /\ held'[e] = held[e]
      /\ mem[e].round \in {0, r} /\ cmd[e] \in CmdState /\ rounds[r].pot \in Int
  <2>1. SeatCmd(e) /\ rounds[r] \in Row
    BY DEF JoinTxn, DropTxn, SeatCmd, TypeOK
  <2>2. rounds[r].pot \in Int
    BY <2>1 DEF Row
  <2> QED BY <2>1, <2>2, Shapes DEF JoinTxn, DropTxn, TypeOK, EngineInv, Commands, lock
<1>1. main[e].at = "down" => main[e] = Down
  BY MainLabels
<1>2. /\ OnRound(e) => main[e].round \in DOMAIN rounds
      /\ task[e].at = "pay" => task[e].round \in DOMAIN rounds
  BY DEF RoundsOwned
<1> USE DEF EngineInv, Phases, Remembers, Commands, Calls, Claims, Playing, OnRound, SeatCmd, HalfDone,
            Complete, Up, Live, Terminal, At, Down, NoCmd, NoTask, DeadCmd
<1>3. CASE UNCHANGED db /\ cmd'[e] = NoCmd
  <2>1. rounds' = rounds /\ posted' = posted
    BY <1>3 DEF db
  <2>2. Phases(e)' /\ Commands(e)'
    BY <1>0, <1>3, <2>1
  <2>3. Remembers(e)'
    BY <1>0, <1>3, <2>1
  <2>4. Calls(e)' /\ Claims(e)'
    BY <1>0, <1>3, <2>1
  <2> QED BY <2>2, <2>3, <2>4
<1>4. CASE ~ (UNCHANGED db /\ cmd'[e] = NoCmd)
  <2>1. /\ rounds[r].status = "lobby"
        /\ \/ /\ cmd'[e] = [cmd[e] EXCEPT !.at = "joined"] /\ cmd[e].at = "join"
              /\ SetRow(r, [rounds[r] EXCEPT !.entries = @ \union {s}, !.pot = @ + Stake])
              /\ posted' = posted \union {<<"stake", r, s>>}
           \/ /\ cmd'[e] = [cmd[e] EXCEPT !.at = "dropped"] /\ cmd[e].at = "drop"
              /\ SetRow(r, [rounds[r] EXCEPT !.entries = @ \ {s}, !.pot = @ - Stake])
              /\ posted' = posted \union {<<"drop", r, s>>} /\ s \in rounds[r].entries
    BY <1>4 DEF JoinTxn, DropTxn, TypeOK
  <2>2. /\ ~ Playing(e)
        /\ OnRound(e) => rounds[main[e].round].calls = rounds'[main[e].round].calls
        /\ task[e].at = "pay" => rounds'[task[e].round] = rounds[task[e].round]
    <3>1. rounds[mem[e].round].status # "lobby" \/ ~ Playing(e)
      OBVIOUS
    <3>2. Playing(e) => mem[e].round # 0
      OBVIOUS
    <3>3. PICK row : SetRow(r, row) /\ row.calls = rounds[r].calls
      <4>1. /\ [rounds[r] EXCEPT !.entries = @ \union {s}, !.pot = @ + Stake].calls = rounds[r].calls
            /\ [rounds[r] EXCEPT !.entries = @ \ {s}, !.pot = @ - Stake].calls = rounds[r].calls
        BY <1>0 DEF Row
      <4> QED BY <2>1, <4>1
    <3>4. \A x \in DOMAIN rounds : rounds'[x] = IF x = r THEN row ELSE rounds[x]
      BY <3>3, SetRowRow
    <3> QED BY <1>0, <1>2, <2>1, <3>1, <3>2, <3>3, <3>4
  <2>3. Phases(e)'
    BY <1>0, <1>1, <2>2
  <2>4. Calls(e)'
    BY <1>0, <1>2, <2>2
  <2>5. Claims(e)'
    BY <1>0, <1>2, <2>2
  <2>6. CASE cmd[e].at = "join"
    <3>1. cmd'[e].at = "joined" /\ cmd'[e].round = r /\ cmd'[e].seat = s
      BY <1>0, <2>1, <2>6 DEF CmdState
    <3>2. rounds'[r] = [rounds[r] EXCEPT !.entries = @ \union {s}, !.pot = @ + Stake]
      BY <2>1, <2>6, SetRowRow
    <3>3. /\ rounds'[r].entries = rounds[r].entries \union {s} /\ rounds'[r].pot = rounds[r].pot + Stake
          /\ rounds'[r].status = "lobby"
      BY <1>0, <2>1, <3>2 DEF Row
    <3>4. \A x \in Seat : <<"drop", r, x>> \in posted' <=> <<"drop", r, x>> \in posted
      BY <2>1, <2>6
    <3> HIDE DEF s
    <3>5. Remembers(e)'
      BY <1>0, <2>1, <2>6, <3>1, <3>3, <3>4
    <3>6. Commands(e)'
      BY <1>0, <2>2, <3>1
    <3> QED BY <2>3, <2>4, <2>5, <3>5, <3>6
  <2>7. CASE cmd[e].at = "drop"
    <3>1. cmd'[e].at = "dropped" /\ cmd'[e].round = r /\ cmd'[e].seat = s
      BY <1>0, <2>1, <2>7 DEF CmdState
    <3>2. rounds'[r] = [rounds[r] EXCEPT !.entries = @ \ {s}, !.pot = @ - Stake]
      BY <2>1, <2>7, SetRowRow
    <3>3. /\ rounds'[r].entries = rounds[r].entries \ {s} /\ rounds'[r].pot = rounds[r].pot - Stake
          /\ rounds'[r].status = "lobby" /\ s \in rounds[r].entries
      BY <1>0, <2>1, <2>7, <3>2 DEF Row
    <3>4. \A x \in Seat : <<"drop", r, x>> \in posted' => <<"drop", r, x>> \in posted \/ x = s
      BY <2>1, <2>7
    <3> HIDE DEF s
    <3>5. Remembers(e)'
      BY <1>0, <2>1, <2>7, <3>1, <3>3, <3>4, AmountType
    <3>6. Commands(e)'
      BY <1>0, <2>2, <3>1
    <3> QED BY <2>3, <2>4, <2>5, <3>5, <3>6
  <2> QED BY <1>0, <2>6, <2>7
<1> QED BY <1>3, <1>4

\* The invariant of every engine is preserved by every step, of whomever.
LEMMA EngineStepInv == IndInv /\ [Next]_vars => \A f \in Engine : EngineInv(f)'
<1> SUFFICES ASSUME IndInv, [Next]_vars, NEW f \in Engine
             PROVE  EngineInv(f)'
  OBVIOUS
<1>0. TypeOK /\ RoundsOwned /\ EngineInv(f) /\ \A r \in DOMAIN rounds : InOrder(r)
  BY DEF IndInv, EngineInv
<1>t. torn \subseteq torn'
  BY TornGrows, AdminTornGrows DEF Next, EngineStep, vars
<1>1. ASSUME NEW e \in Engine, EngineStep(e)
      PROVE  EngineInv(f)'
  <2>1. CASE f # e
    <3>1. \A r \in DOMAIN rounds : Refers(f, r) => Quiet(r)
      BY <1>0, <1>1, <2>1, EngineQuiet DEF RoundsOwned
    <3> QED BY <1>0, <1>t, <1>1, <2>1, <3>1, OthersSame, FrameKept
  <2>2. CASE f = e /\ Local(e)
    BY <1>0, <1>t, <2>2, LocalKept
  <2>3. CASE f = e /\ Writing(e)
    <3>1. CASE TransitionToRunning(e)
      BY <1>0, <1>t, <2>3, <3>1, TransitionInv DEF RoundsOwned, TransitionToRunning, OnRound
    <3>2. CASE JoinTxn(e) \/ DropTxn(e)
      BY <1>0, <1>t, <2>3, <3>2, SeatTxnInv DEF RoundsOwned, JoinTxn, DropTxn, SeatCmd
    <3> QED BY <1>0, <1>t, <2>3, <3>1, <3>2, StartsKept, RefundAllKept, WriteCallInv, SettleInv DEF Writing
  <2> QED BY <1>1, <2>1, <2>2, <2>3, EngineStepCases
<1>2. CASE Recover \/ VoidRound \/ StopRoom
  BY <1>0, <1>t, <1>2, AdminSame, AdminQuiet, FrameKept
<1>3. CASE UNCHANGED vars
  <2>1. Same(f) /\ \A r \in DOMAIN rounds : Quiet(r)
    BY <1>3, UnchangedQuiet DEF vars, Same, db
  <2> QED BY <1>0, <1>t, <2>1, FrameKept
<1> QED BY <1>1, <1>2, <1>3 DEF Next, EngineStep

-----------------------------------------------------------------------------
(***************************************************************************)
(* The pot an engine remembers covers the cards it remembers.              *)
(***************************************************************************)

\* The steps that touch the entries an engine remembers, its pot, or the pot
\* its settlement task holds, but for a reset.
Counting(e) == JoinRemember(e) \/ DropRemember(e) \/ WindowCloses(e)

\* What every other step does to them.
PotSame(e) ==
    /\ \/ mem'[e].pot = mem[e].pot /\ mem'[e].entries = mem[e].entries
       \/ mem'[e].pot = 0 /\ mem'[e].entries = {}
    /\ task'[e].at = "pay" => task'[e] = task[e]

\* No card, no pot.
LEMMA EmptyPot == Stake * Cardinality({}) = 0
<1>1. Cardinality({}) = 0
  BY FS_EmptySet
<1>2. Stake * 0 = 0
  BY BingoAssumption
<1> QED BY <1>1, <1>2

\* The end of an engine resets its memory or leaves it.
LEMMA ExitPot ==
    ASSUME TypeOK, NEW e \in Engine, Exit(e), task'[e] = task[e] \/ task'[e] = NoTask
    PROVE  PotSame(e)
BY DEF TypeOK, Exit, ResetToIdle, SetMem, IdleMem, NoTask, At, PotSame

\* A registered claim leaves both.
LEMMA RegisterPot ==
    ASSUME TypeOK, NEW e \in Engine, NEW s \in Seat, Register(e, s)
    PROVE  PotSame(e)
<1>1. mem[e] \in Memory /\ mem \in [Engine -> Memory] /\ task \in [Engine -> TaskState]
  BY DEF TypeOK
<1>2. /\ \/ mem'[e] = mem[e]
         \/ mem'[e] = [mem[e] EXCEPT !.status = "settling", !.settling = TRUE, !.pending = @ \union {s}]
         \/ mem'[e] = [mem[e] EXCEPT !.pending = @ \union {s}]
      /\ task'[e] \in {task[e], At("window")}
  BY <1>1 DEF Register, SetMem
<1>3. mem'[e].pot = mem[e].pot /\ mem'[e].entries = mem[e].entries
  BY <1>1, <1>2 DEF Memory
<1> QED BY <1>2, <1>3 DEF PotSame, At

\* No step but the three above counts a card or an amount.
LEMMA EnginePotSame ==
    ASSUME TypeOK, NEW e \in Engine, EngineStep(e), ~ Counting(e)
    PROVE  PotSame(e)
<1>0. /\ mem[e] \in Memory /\ mem \in [Engine -> Memory] /\ task \in [Engine -> TaskState]
  BY DEF TypeOK
<1> USE DEF PotSame, SetMem, ResetToIdle, At, NoTask
<1>1. CASE ClaimRoom(e) \/ Crash(e) \/ Voided(e) \/ ResultOver(e)
  BY <1>0, <1>1 DEF ClaimRoom, Crash, Voided, ResultOver, IdleMem
<1>2. CASE Loop(e) \/ LobbyOver(e) \/ ScanOver(e) \/ RefundAll(e) \/ Join(e) \/ Drop(e)
  BY <1>0, <1>2 DEF Loop, LobbyOver, ScanOver, RefundAll, Join, Drop
<1>3. CASE LoopEnds(e) \/ LobbyLost(e) \/ AssertionFails(e) \/ EngineFails(e) \/ Shutdown(e)
  <2>1. Exit(e) /\ task'[e] = task[e]
    BY <1>3 DEF LoopEnds, LobbyLost, AssertionFails, EngineFails, Shutdown
  <2> QED BY <2>1, ExitPot
<1>4. CASE RestOver(e) \/ SettlementAwaited(e)
  <2>1. \/ Exit(e) /\ task'[e] \in {task[e], NoTask}
        \/ UNCHANGED <<mem, task>>
    BY <1>0, <1>4 DEF RestOver, SettlementAwaited
  <2> QED BY <2>1, ExitPot
<1>5. CASE Start(e) \/ JoinStartsRound(e)
  BY <1>0, <1>5 DEF Start, JoinStartsRound, StartNewRound, IdleMem
<1>6. CASE TransitionToRunning(e)
  BY <1>0, <1>6 DEF TransitionToRunning, IdleMem, Memory
<1>7. CASE CallNumber(e)
  BY <1>0, <1>7 DEF CallNumber, Memory
<1>8. CASE WriteCall(e)
  BY <1>0, <1>8 DEF WriteCall, Stopped, IdleMem, Memory
<1>9. CASE AutoClaim(e)
  BY <1>0, <1>9 DEF AutoClaim, Memory
<1>10. CASE AutoRegister(e)
  <2>1. main[e].seat \in Seat
    BY <1>10, Shapes DEF AutoRegister
  <2> QED BY <1>10, <2>1, RegisterPot DEF AutoRegister
<1>11. CASE ClaimRegister(e)
  <2>1. cmd[e].seat \in Seat
    BY <1>11, Shapes DEF ClaimRegister
  <2> QED BY <1>11, <2>1, RegisterPot DEF ClaimRegister
<1>12. CASE CallsOver(e)
  BY <1>0, <1>12 DEF CallsOver, Memory
<1>13. CASE Settle(e)
  BY <1>0, <1>13 DEF Settle, IdleMem
<1>14. CASE ShowResult(e)
  BY <1>0, <1>14 DEF ShowResult, Memory
<1>15. CASE JoinTxn(e) \/ DropTxn(e)
  BY <1>0, <1>15 DEF JoinTxn, DropTxn
<1>16. CASE SetAuto(e)
  <2>1. PICK auto : mem'[e] = [mem[e] EXCEPT !.auto = auto]
    BY <1>0, <1>16 DEF SetAuto
  <2> QED BY <1>0, <1>16, <2>1 DEF SetAuto, Memory
<1>17. CASE Claim(e)
  <2>1. PICK out : UNCHANGED mem \/ mem'[e] = [mem[e] EXCEPT !.lockedOut = out]
    BY <1>0, <1>17 DEF Claim
  <2>2. task' = task
    BY <1>17 DEF Claim
  <2> QED BY <1>0, <2>1, <2>2 DEF Memory
<1>18. CASE LockStep(e) \/ LockExpires(e) \/ CommandFails(e) \/ ReplyFails(e)
  BY <1>0, <1>18 DEF LockStep, LockLost, KeyExpires, LockExpires, CommandFails, ReplyFails
<1>19. CASE AutoClaimFails(e) \/ SettleFails(e)
  BY <1>0, <1>19 DEF AutoClaimFails, SettleFails, Raised, Memory
<1> QED BY <1>1, <1>2, <1>3, <1>4, <1>5, <1>6, <1>7, <1>8, <1>9, <1>10, <1>11, <1>12, <1>13,
           <1>14, <1>15, <1>16, <1>17, <1>18, <1>19, EngineStepCases
    DEF Local, Writing, EngineFault, Counting

\* The memory update of a join adds a card at most for its stake, that of a drop
\* gives a stake back for a card removed, and the pot of a settlement is the one
\* remembered.
LEMMA CountingPots ==
    ASSUME TypeOK, NEW e \in Engine, Pots(e), Counting(e)
    PROVE  Pots(e)'
<1> DEFINE S == mem[e].entries
           n == Cardinality(S)
<1>0. /\ mem[e] \in Memory /\ mem \in [Engine -> Memory] /\ task \in [Engine -> TaskState]
      /\ S \subseteq Seat /\ mem[e].pot \in Int
  BY DEF TypeOK, Memory
<1>1. IsFiniteSet(S) /\ n \in Nat /\ mem[e].pot >= Stake * n
  BY <1>0, FS_Subset, FS_CardinalityType, BingoAssumption DEF Pots
<1>2. /\ Stake \in Nat /\ Stake * n \in Nat
      /\ Stake * (n + 1) = Stake * n + Stake /\ Stake * (n - 1) = Stake * n - Stake
  BY <1>1, BingoAssumption
<1>3. task[e].at = "pay" => task[e].pot \in Nat
  BY DEF Pots
<1>4. CASE JoinRemember(e)
  <2> DEFINE s == cmd[e].seat
  <2>1. mem'[e].entries = S \union {s} /\ mem'[e].pot = mem[e].pot + Stake /\ task' = task
    BY <1>0, <1>4 DEF JoinRemember, SetMem, Memory
  <2>2. Cardinality(S \union {s}) \in {n, n + 1}
    <3>1. CASE s \in S
      <4>1. S \union {s} = S
        BY <3>1
      <4> QED BY <4>1
    <3>2. CASE s \notin S
      BY <1>1, <3>2, FS_AddElement
    <3> QED BY <3>1, <3>2
  <2> HIDE DEF S, n, s
  <2>3. mem[e].pot + Stake >= Stake * Cardinality(S \union {s})
    BY <1>0, <1>1, <1>2, <2>2
  <2> QED BY <1>3, <2>1, <2>3 DEF Pots
<1>5. CASE DropRemember(e)
  <2> DEFINE s == cmd[e].seat
  <2>1. task' = task
    BY <1>5 DEF DropRemember
  <2>2. CASE s \in S
    <3>1. mem'[e].entries = S \ {s} /\ mem'[e].pot = mem[e].pot - Stake
      <4>1. mem'[e] = [mem[e] EXCEPT !.entries = @ \ {s}, !.pot = @ - Stake,
                                     !.dropped = @ \union {s}]
        BY <1>0, <1>5, <2>2 DEF DropRemember, SetMem
      <4> QED BY <1>0, <4>1 DEF Memory
    <3>2. Cardinality(S \ {s}) = n - 1
      BY <1>1, <2>2, FS_RemoveElement
    <3> HIDE DEF S, n, s
    <3>3. mem[e].pot - Stake >= Stake * Cardinality(S \ {s})
      BY <1>0, <1>1, <1>2, <3>2
    <3> QED BY <1>3, <2>1, <3>1, <3>3 DEF Pots
  <2>3. CASE s \notin S
    <3>1. mem' = mem
      BY <1>5, <2>3 DEF DropRemember
    <3> QED BY <2>1, <3>1 DEF Pots
  <2> QED BY <2>2, <2>3
<1>6. CASE WindowCloses(e)
  <2>1. mem'[e].entries = S /\ mem'[e].pot = mem[e].pot
    BY <1>0, <1>6 DEF WindowCloses, SetMem, Memory
  <2>2. task'[e].at = "pay" => task'[e].pot = mem[e].pot
    BY <1>0, <1>6 DEF WindowCloses, Raised, NoTask, At
  <2> HIDE DEF n
  <2>3. mem[e].pot \in Nat
    BY <1>0, <1>1, <1>2
  <2> QED BY <1>1, <2>1, <2>2, <2>3 DEF Pots, n
<1> QED BY <1>4, <1>5, <1>6 DEF Counting

\* The pots an engine holds cover its cards after every step, of whomever.
LEMMA PotsStep == IndInv /\ [Next]_vars => \A f \in Engine : Pots(f)'
<1> SUFFICES ASSUME IndInv, [Next]_vars, NEW f \in Engine
             PROVE  Pots(f)'
  OBVIOUS
<1>0. TypeOK /\ Pots(f)
  BY DEF IndInv
<1>1. ASSUME PotSame(f) PROVE Pots(f)'
  <2>1. task'[f].at = "pay" => task'[f].pot \in Nat
    BY <1>0, <1>1 DEF Pots, PotSame
  <2>2. CASE mem'[f].pot = mem[f].pot /\ mem'[f].entries = mem[f].entries
    BY <1>0, <2>1, <2>2 DEF Pots
  <2>3. CASE mem'[f].pot = 0 /\ mem'[f].entries = {}
    <3>1. mem'[f].pot >= Stake * Cardinality(mem'[f].entries)
      BY <2>3, EmptyPot
    <3> QED BY <2>1, <3>1 DEF Pots
  <2> QED BY <1>1, <2>2, <2>3 DEF PotSame
<1>2. ASSUME NEW e \in Engine, EngineStep(e) PROVE Pots(f)'
  <2>1. CASE f # e
    BY <1>0, <1>1, <1>2, <2>1, OthersSame DEF Same, PotSame
  <2>2. CASE f = e
    BY <1>0, <1>1, <1>2, <2>2, EnginePotSame, CountingPots
  <2> QED BY <2>1, <2>2
<1>3. CASE Recover \/ VoidRound \/ StopRoom
  BY <1>1, <1>3, AdminSame DEF Same, PotSame
<1>4. CASE UNCHANGED vars
  BY <1>1, <1>4 DEF vars, PotSame
<1> QED BY <1>2, <1>3, <1>4 DEF Next, EngineStep

\* The initial state satisfies the inductive invariant.
LEMMA InitInv == Init => IndInv
<1> SUFFICES ASSUME Init PROVE IndInv
  OBVIOUS
<1>1. TypeOK
  BY InitType
<1>2. RoundsOwned
  BY DEF Init, RoundsOwned, IdleMem, SeatCmd, OnRound, Refers, NoCmd, NoTask, Down, At
<1>3. DOMAIN rounds = {}
  BY DEF Init
<1>4. \A e \in Engine : Phases(e) /\ Remembers(e) /\ Commands(e) /\ Calls(e) /\ Claims(e)
  BY DEF Init, IdleMem, NoCmd, NoTask, Down, At, Phases, Remembers, Commands, Calls, Claims, Playing,
         OnRound, SeatCmd, HalfDone
<1>5. \A e \in Engine : Pots(e)
  <2>1. \A e \in Engine : mem[e].pot = 0 /\ mem[e].entries = {} /\ task[e].at = "none"
    BY DEF Init, IdleMem, NoTask, At
  <2>2. ASSUME NEW e \in Engine PROVE mem[e].pot >= Stake * Cardinality(mem[e].entries)
    <3>1. mem[e].pot = 0 /\ mem[e].entries = {}
      BY <2>1
    <3> QED BY <3>1, EmptyPot
  <2> QED BY <2>1, <2>2 DEF Pots
<1> QED BY <1>1, <1>2, <1>3, <1>4, <1>5 DEF IndInv

\* Every reachable state satisfies the inductive invariant.
THEOREM InductiveInvariant == Spec => []IndInv
<1>1. IndInv /\ [Next]_vars => IndInv'
  <2> SUFFICES ASSUME IndInv, [Next]_vars PROVE IndInv'
    OBVIOUS
  <2>1. TypeOK'
    BY TypeStep
  <2>2. RoundsOwned' /\ \A r \in DOMAIN rounds' : InOrder(r)'
    BY <2>1, RoundsOwnedStep, BooksStep
  <2>3. \A f \in Engine : EngineInv(f)' /\ Pots(f)'
    BY EngineStepInv, PotsStep
  <2> QED BY <2>1, <2>2, <2>3 DEF IndInv, EngineInv
<1> QED BY <1>1, InitInv, PTL DEF Spec

-----------------------------------------------------------------------------
(***************************************************************************)
(* What the books say of the money.                                        *)
(***************************************************************************)

\* The seats of round r under one kind of posting.
SeatsOf(kind, r) == {s \in Seat : <<kind, r, s>> \in posted}

\* Keys are counted by their seats.
LEMMA CountSeats ==
    ASSUME TypeOK, NEW kind \in {"stake", "drop", "refund"}, NEW r
    PROVE  Count(kind, r) = Cardinality(SeatsOf(kind, r))
<1> DEFINE S == SeatsOf(kind, r)
           T == {k \in posted : k[1] = kind /\ k[2] = r}
           f == [s \in S |-> <<kind, r, s>>]
<1>1. IsFiniteSet(S)
  <2>1. S \subseteq Seat
    BY DEF SeatsOf
  <2> QED BY <2>1, FS_Subset, BingoAssumption
<1>2. \A s \in S : f[s] \in T
  BY DEF SeatsOf
<1>3. \A s, t \in S : f[s] = f[t] => s = t
  OBVIOUS
<1>4. ASSUME NEW k \in T PROVE \E s \in S : f[s] = k
  <2>1. k \in Key /\ k[1] = kind /\ k[2] = r /\ k \in posted
    BY DEF TypeOK
  <2>2. k \notin {"settle"} \X (Nat \ {0})
    BY <2>1
  <2>3. k = <<kind, r, k[3]>> /\ k[3] \in Seat
    BY <2>1, <2>2 DEF Key
  <2> QED BY <2>1, <2>3 DEF SeatsOf
<1>5. f \in [S -> T]
  BY <1>2
<1> HIDE DEF f, S, T
<1>7. f \in Injection(S, T)
  BY <1>3, <1>5 DEF Injection, IsInjective
<1>8. f \in Surjection(S, T)
  BY <1>4, <1>5 DEF Surjection
<1>6. ExistsBijection(S, T)
  BY <1>7, <1>8 DEF ExistsBijection, Bijection
<1> QED BY <1>1, <1>6, FS_Bijection DEF Count, S, T

\* The postings of a round counted against its entries.
LEMMA BooksCounted ==
    ASSUME TypeOK, NEW r \in DOMAIN rounds, Books(r)
    PROVE  LET n == Cardinality(rounds[r].entries)
           IN /\ n \in Nat
              /\ Count("stake", r) - Count("drop", r) = n
              /\ Count("refund", r) = IF rounds[r].status = "voided" THEN n ELSE 0
              /\ Count("stake", r) \in Nat /\ Count("drop", r) \in Nat
<1> DEFINE A == SeatsOf("stake", r)
           D == SeatsOf("drop", r)
           R == SeatsOf("refund", r)
           N == rounds[r].entries
<1>1. N = A \ D /\ D \subseteq A
  BY DEF Books, SeatsOf
<1>2. R = IF rounds[r].status = "voided" THEN N ELSE {}
  BY DEF Books, SeatsOf
<1>3. IsFiniteSet(A) /\ IsFiniteSet(D) /\ IsFiniteSet(N)
  <2>1. A \subseteq Seat /\ D \subseteq Seat /\ N \subseteq Seat
    BY <1>1 DEF SeatsOf
  <2> QED BY <2>1, FS_Subset, BingoAssumption
<1>4. Cardinality(N) \in Nat /\ Cardinality(A) \in Nat /\ Cardinality(D) \in Nat
  BY <1>3, FS_CardinalityType
<1>5. Cardinality(A \ D) = Cardinality(A) - Cardinality(A \cap D)
  BY <1>3, FS_Difference
<1>6. A \cap D = D
  BY <1>1
<1>7. Cardinality(N) = Cardinality(A) - Cardinality(D)
  BY <1>1, <1>5, <1>6
<1>8. Cardinality(R) = IF rounds[r].status = "voided" THEN Cardinality(N) ELSE 0
  BY <1>2, FS_EmptySet
<1>9. /\ Count("stake", r) = Cardinality(A) /\ Count("drop", r) = Cardinality(D)
      /\ Count("refund", r) = Cardinality(R)
  BY CountSeats
<1> HIDE DEF A, D, R, N
<1> QED BY <1>4, <1>7, <1>8, <1>9 DEF N

\* What pot_escrow holds of a round follows from its row.
LEMMA EscrowOfRow ==
    ASSUME TypeOK, NEW r \in DOMAIN rounds, Books(r)
    PROVE  Escrow(r) = IF Live(r) THEN Stake * Cardinality(rounds[r].entries) ELSE 0
<1> DEFINE n == Cardinality(rounds[r].entries)
           a == Count("stake", r)
           d == Count("drop", r)
           b == Count("refund", r)
<1>1. /\ n \in Nat /\ a \in Nat /\ d \in Nat /\ a - d = n
      /\ b = IF rounds[r].status = "voided" THEN n ELSE 0
  BY BooksCounted
<1>2. /\ rounds[r].paid = IF rounds[r].status = "done" THEN Stake * n ELSE 0
      /\ rounds[r].status \in {"lobby", "running", "done", "voided"}
  <2>1. rounds[r] \in Row
    BY DEF TypeOK
  <2>2. rounds[r].status \in {"lobby", "running", "done", "voided"}
    BY <2>1 DEF Row
  <2>3. rounds[r].paid = IF rounds[r].status = "done" THEN Stake * n ELSE 0
    BY DEF Books
  <2> QED BY <2>2, <2>3
<1>3. Stake * n \in Int /\ Stake * 0 = 0
  BY <1>1, BingoAssumption
<1>4. Escrow(r) = Stake * (a - d - b) - rounds[r].paid
  BY DEF Escrow
<1>5. a - d - b = IF rounds[r].status = "voided" THEN 0 ELSE n
  BY <1>1
<1> HIDE DEF n, a, d, b
<1>6. CASE rounds[r].status = "voided"
  BY <1>2, <1>3, <1>4, <1>5, <1>6 DEF Live, Terminal
<1>7. CASE rounds[r].status = "done"
  BY <1>2, <1>3, <1>4, <1>5, <1>7 DEF Live, Terminal
<1>8. CASE rounds[r].status \in {"lobby", "running"}
  BY <1>2, <1>3, <1>4, <1>5, <1>8 DEF Live, Terminal, n
<1> QED BY <1>2, <1>6, <1>7, <1>8

\* The invariant leaves no way for a stake to be in two places, or in none.
LEMMA InvariantAccounts == IndInv => StakesAccounted
<1> SUFFICES ASSUME IndInv PROVE StakesAccounted
  OBVIOUS
<1>0. TypeOK /\ RoundsOwned /\ (\A r \in DOMAIN rounds : InOrder(r)) /\ \A e \in Engine : Remembers(e)
  BY DEF IndInv
<1>1. StakeReturnedOnce
  <2> SUFFICES ASSUME NEW r \in DOMAIN rounds
               PROVE  /\ r \notin torn =>
                           \A s \in Seat : ~ ({<<"drop", r, s>>, <<"refund", r, s>>} \subseteq posted)
                      /\ <<"settle", r>> \in posted => Count("refund", r) = 0
    BY DEF StakeReturnedOnce
  <2>1. r \notin torn => \A s \in Seat : ~ ({<<"drop", r, s>>, <<"refund", r, s>>} \subseteq posted)
    BY <1>0 DEF InOrder, Books
  <2>2. <<"settle", r>> \in posted => SeatsOf("refund", r) = {}
    BY <1>0 DEF InOrder, Ended, SeatsOf
  <2>3. Count("refund", r) = Cardinality(SeatsOf("refund", r))
    BY <1>0, CountSeats
  <2> QED BY <2>1, <2>2, <2>3, FS_EmptySet
<1>2. MemoryCurrent
  <2> SUFFICES ASSUME NEW e \in Engine, ~ HalfDone(e),
                      mem[e].round \notin torn \union {0}, Up(e), Live(mem[e].round)
               PROVE  /\ mem[e].entries = rounds[mem[e].round].entries
                      /\ mem[e].pot = rounds[mem[e].round].pot
    BY DEF MemoryCurrent
  <2> QED BY <1>0 DEF Remembers
<1>3. EscrowMatchesEntries
  <2>1. \A r \in DOMAIN rounds \ torn : Books(r)
    BY <1>0 DEF InOrder
  <2>2. \A r \in DOMAIN rounds \ torn : rounds[r].pot = Stake * Cardinality(rounds[r].entries)
    BY <2>1 DEF Books
  <2> QED BY <1>0, <1>2, <2>1, <2>2, EscrowOfRow DEF EscrowMatchesEntries
<1> QED BY <1>1, <1>3 DEF StakesAccounted

\* Whoever ends a round, in whatever order, and however often it is tried:
\* every stake is in escrow, with the winners and the house, or back with its
\* player, in one place at a time, for any number of engines, rounds and
\* players (settlement, void, stop, recovery and drop; round_engine.py and
\* refunds.py).  A round torn by a command that failed after its commit is the
\* exception; even that one is never both paid out and refunded.
THEOREM StakesAccountedHolds == Spec => []StakesAccounted
BY InductiveInvariant, InvariantAccounts, PTL

\* Every card paid was an entry of its round and complete by a number drawn in
\* it: a claim is checked on the engine's memory, and what is paid is what the
\* round's row can justify.  In a torn round the card is only sure to have been
\* complete.
THEOREM WinnersGenuineHolds == Spec => []WinnersGenuine
<1>1. IndInv => WinnersGenuine
  BY DEF IndInv, InOrder, Books, Settled, WinnersGenuine
<1> QED BY <1>1, InductiveInvariant, PTL

\* The winners of a settled round get the largest equal whole-cent share and
\* the house the rest: the pot paid is no debt, somebody won, and the two
\* roundings are fair for every such pot, torn rounds included.
THEOREM PotPaidFairlyHolds == Spec => []PotPaidFairly
<1>1. ASSUME IndInv, NEW r \in DOMAIN rounds, rounds[r].status = "done"
      PROVE  LET n == Cardinality(rounds[r].winners)
             IN /\ IsFairShare(rounds[r].share, rounds[r].paid, HouseCutBps, n)
                /\ IsFullyPaid(rounds[r].share, rounds[r].house, rounds[r].paid, HouseCutBps, n)
  <2> DEFINE n == Cardinality(rounds[r].winners)
             pot == rounds[r].paid
  <2>1. TypeOK /\ Settled(r)
    BY <1>1 DEF IndInv, InOrder
  <2>2. pot \in Nat
    BY <1>1, <2>1 DEF Settled
  <2>3. n \in Nat \ {0}
    <3>1. rounds[r].winners # {} /\ rounds[r].winners \subseteq Seat
      <4>1. rounds[r] \in Row
        BY <2>1 DEF TypeOK
      <4>2. rounds[r].winners \subseteq Seat
        BY <4>1 DEF Row
      <4> QED BY <1>1, <2>1, <4>2 DEF Settled
    <3>2. IsFiniteSet(rounds[r].winners)
      BY <3>1, FS_Subset, BingoAssumption
    <3> QED BY <3>1, <3>2, FS_CardinalityType, FS_EmptySet
  <2>4. /\ rounds[r].share = Share(Derash(pot, HouseCutBps), n)
        /\ rounds[r].house = HouseTotal(pot, HouseCutBps, n)
    BY <1>1, <2>1 DEF Settled
  <2>5. HouseCutBps \in Bps
    BY BingoAssumption DEF Bps
  <2> HIDE DEF n, pot
  <2>6. /\ IsFairShare(Share(Derash(pot, HouseCutBps), n), pot, HouseCutBps, n)
        /\ IsFullyPaid(Share(Derash(pot, HouseCutBps), n), HouseTotal(pot, HouseCutBps, n),
                       pot, HouseCutBps, n)
    BY <2>2, <2>3, <2>5, SharesAreFair, PotIsFullyPaid
  <2> QED BY <2>4, <2>6 DEF n, pot
<1>2. IndInv => PotPaidFairly
  BY <1>1 DEF PotPaidFairly
<1> QED BY <1>2, InductiveInvariant, PTL

-----------------------------------------------------------------------------
(***************************************************************************)
(* A round that is over.                                                   *)
(***************************************************************************)

\* A refund of any round leaves the ended ones alone.
LEMMA RefundSpares ==
    ASSUME TypeOK, NEW q \in DOMAIN rounds, Refund(q), NEW r \in DOMAIN rounds, ~ Live(r)
    PROVE  rounds'[r] = rounds[r]
BY DEF Refund, SetRow, db, TypeOK

\* So does every step of an engine.
LEMMA EngineSpares ==
    ASSUME TypeOK, RoundsOwned, NEW e \in Engine, EngineStep(e), NEW r \in DOMAIN rounds, ~ Live(r)
    PROVE  rounds'[r] = rounds[r]
<1> USE DEF TypeOK
<1>1. CASE Local(e)
  BY <1>1, LocalUnchanged DEF db
<1>2. CASE Start(e) \/ JoinStartsRound(e)
  <2>1. rounds' = rounds \/ rounds' = Append(rounds, NewRow)
    BY <1>2 DEF Start, JoinStartsRound, StartNewRound
  <2>2. rounds \in Seq(Row)
    OBVIOUS
  <2> HIDE DEF TypeOK
  <2> QED BY <2>1, <2>2
<1>3. CASE RefundAll(e)
  BY <1>3, RefundSpares DEF RefundAll, RoundsOwned, OnRound
<1>4. CASE TransitionToRunning(e)
  BY <1>4 DEF TransitionToRunning, SetRow, Live, Terminal
<1>5. CASE WriteCall(e)
  BY <1>5 DEF WriteCall, SetRow, Live, Terminal
<1>6. CASE Settle(e)
  BY <1>6 DEF Settle, Payout, SetRow, db
<1>7. CASE JoinTxn(e)
  BY <1>7 DEF JoinTxn, SetRow, Live, Terminal, db
<1>8. CASE DropTxn(e)
  BY <1>8 DEF DropTxn, SetRow, Live, Terminal, db
<1> QED BY <1>1, <1>2, <1>3, <1>4, <1>5, <1>6, <1>7, <1>8, EngineStepCases DEF Writing

\* A round that is over stays as it ended: every statement that writes a row
\* locks and reads its status first, and no engine, poll or console has another
\* way to it.
THEOREM TerminalFinalHolds == Spec => TerminalFinal
<1>1. ASSUME IndInv, [Next]_vars, NEW r \in DOMAIN rounds, ~ Live(r)
      PROVE  rounds'[r] = rounds[r]
  <2>0. TypeOK /\ RoundsOwned
    BY <1>1 DEF IndInv
  <2>1. ASSUME NEW e \in Engine, EngineStep(e) PROVE rounds'[r] = rounds[r]
    BY <1>1, <2>0, <2>1, EngineSpares
  <2>2. CASE Recover
    BY <1>1, <2>0, <2>2, RefundSpares DEF Recover, RecoverCheck, RecoverRefund, RoundsOwned, TypeOK, db
  <2>3. CASE VoidRound
    BY <1>1, <2>0, <2>3, RefundSpares DEF VoidRound
  <2>4. CASE StopRoom
    <3>1. CASE rounds = << >>
      BY <2>4, <3>1 DEF StopRoom, db
    <3>2. CASE rounds # << >>
      <4>1. Len(rounds) \in DOMAIN rounds
        BY <2>0, <3>2 DEF TypeOK
      <4> QED BY <1>1, <2>0, <2>4, <3>2, <4>1, RefundSpares DEF StopRoom
    <3> QED BY <3>1, <3>2
  <2>5. CASE UNCHANGED vars
    BY <2>5 DEF vars
  <2> QED BY <1>1, <2>1, <2>2, <2>3, <2>4, <2>5 DEF Next, EngineStep
<1>2. IndInv /\ [Next]_vars => [\A r \in DOMAIN rounds : ~ Live(r) => rounds'[r] = rounds[r]]_vars
  BY <1>1
<1> QED BY <1>2, InductiveInvariant, PTL DEF Spec, TerminalFinal
=============================================================================
