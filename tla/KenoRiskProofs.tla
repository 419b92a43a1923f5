--------------------------- MODULE KenoRiskProofs ---------------------------
(***************************************************************************)
(* What Keno may lose, for any players, admins, tiers, rounds and times.   *)
(* The ticket that was checked holds the row of the round (RowHeld), so    *)
(* its check is still true when it commits; the tiers and the reserve need *)
(* what the automation and the console remember between their steps.       *)
(***************************************************************************)
EXTENDS KenoRisk, SumTheorems

-----------------------------------------------------------------------------
(***************************************************************************)
(* Types.                                                                  *)
(***************************************************************************)

\* The constants the proofs use.
LEMMA Constants ==
    /\ none \notin Users /\ none \notin Row /\ none \notin Int /\ IsFiniteSet(Users)
    /\ Stake \in Nat /\ Cut \in Nat /\ Cut <= Stake /\ Prize \in Nat
    /\ \A i \in Row : TierNumber[i] \in Nat /\ MinReserve[i] \in Int
    /\ Row \subseteq Int /\ IsFiniteSet(Row)
    /\ Rows0 \subseteq Row /\ Tier0 \in Rows0 /\ Reserve0 \in Int /\ Floor0 \in Int
    /\ Hold \in Nat /\ Amount \in Nat /\ MaxTime \in Nat
<1>1. TierNumber \in Seq(Nat) /\ Row = 1 .. Len(TierNumber) /\ Len(TierNumber) \in Nat
  BY KenoRiskAssumption DEF Row
<1>2. IsFiniteSet(Row)
  BY <1>1, FS_Interval
<1>3. Row \subseteq Int /\ \A i \in Row : TierNumber[i] \in Nat /\ MinReserve[i] \in Int
  BY <1>1, KenoRiskAssumption
<1>4. none \notin Users /\ none \notin Row /\ none \notin Int /\ IsFiniteSet(Users)
  BY KenoRiskAssumption
<1>5. /\ Stake \in Nat /\ Cut \in Nat /\ Cut <= Stake /\ Prize \in Nat
      /\ Rows0 \subseteq Row /\ Tier0 \in Rows0 /\ Reserve0 \in Int /\ Floor0 \in Int
      /\ Hold \in Nat /\ Amount \in Nat /\ MaxTime \in Nat
  BY KenoRiskAssumption
<1> QED BY <1>2, <1>3, <1>4, <1>5

\* A finite set of numbers has a largest and a smallest.
LEMMA Extremes ==
    ASSUME NEW S, IsFiniteSet(S), S \subseteq Int, S # {}
    PROVE  Max(S) \in S /\ Min(S) \in S
<1> DEFINE G == {T \in SUBSET S : T = {} \/ \E a, b \in T : \A y \in T : a >= y /\ b <= y}
<1>1. ASSUME NEW T \in SUBSET S, \A x \in T : T \ {x} \in G PROVE T \in G
  <2>1. CASE T = {}
    BY <2>1
  <2>2. ASSUME NEW x \in T, T \ {x} = {} PROVE T \in G
    <3>1. T = {x} /\ x \in Int
      BY <2>2
    <3> QED BY <3>1
  <2>3. ASSUME NEW x \in T, T \ {x} # {} PROVE T \in G
    <3>1. PICK a, b \in T \ {x} : \A y \in T \ {x} : a >= y /\ b <= y
      BY <1>1, <2>3
    <3>2. x \in Int /\ a \in Int /\ b \in Int /\ \A y \in T : y \in Int
      OBVIOUS
    <3>3. PICK c \in T : \A y \in T : c >= y
      BY <3>1, <3>2
    <3>4. PICK d \in T : \A y \in T : d <= y
      BY <3>1, <3>2
    <3> QED BY <3>3, <3>4
  <2> QED BY <2>1, <2>2, <2>3
<1>2. S \in G
  <2> HIDE DEF G
  <2> QED BY <1>1, SetInduction
<1>3. PICK a, b \in S : \A y \in S : a >= y /\ b <= y
  BY <1>2
<1> QED BY <1>3 DEF Max, Min

\* The row in effect for a tier number is one of that number.
LEMMA LatestRow ==
    ASSUME TypeOK, NEW n \in numbers
    PROVE  latest(n) \in rows /\ latest(n) \in Row /\ TierNumber[latest(n)] = n
<1> DEFINE S == {i \in rows : TierNumber[i] = n}
<1>1. S # {} /\ S \subseteq Row
  BY DEF numbers, TypeOK
<1>2. IsFiniteSet(S) /\ S \subseteq Int
  BY <1>1, FS_Subset, Constants
<1>3. Max(S) \in S
  BY <1>1, <1>2, Extremes
<1>4. latest(n) = Max(S)
  BY DEF latest
<1> QED BY <1>1, <1>3, <1>4

\* The highest of some tiers is one of them.
LEMMA HighestTier ==
    ASSUME TypeOK, NEW C \in SUBSET numbers, C # {}
    PROVE  Max(C) \in C
<1>1. IsFiniteSet(rows) /\ rows \subseteq Row
  BY FS_Subset, Constants DEF TypeOK
<1>2. IsFiniteSet(numbers)
  <2> DEFINE f == [i \in rows |-> TierNumber[i]]
  <2>1. f \in Surjection(rows, numbers)
    BY DEF Surjection, numbers
  <2> QED BY <1>1, <2>1, FS_Surjection
<1>3. numbers \subseteq Int
  BY <1>1, Constants DEF numbers
<1> QED BY <1>2, <1>3, FS_Subset, Extremes

\* The tier a balance is eligible for.
LEMMA EligibleRow ==
    ASSUME TypeOK, NEW balance \in Int
    PROVE  /\ eligible(balance) \in rows
           /\ TierNumber[eligible(balance)] # current =>
                MinReserve[eligible(balance)] <= balance
                /\ eligible(balance) = latest(TierNumber[eligible(balance)])
<1> DEFINE covered == {n \in numbers : MinReserve[latest(n)] <= balance}
<1>1. CASE covered = {}
  BY <1>1 DEF eligible, current, TypeOK
<1>2. CASE covered # {}
  <2>1. Max(covered) \in covered
    BY <1>2, HighestTier
  <2>2. latest(Max(covered)) \in rows /\ TierNumber[latest(Max(covered))] = Max(covered)
    BY <2>1, LatestRow
  <2>3. eligible(balance) = latest(Max(covered))
    BY <1>2 DEF eligible
  <2> HIDE DEF covered
  <2>4. MinReserve[latest(Max(covered))] <= balance
    BY <2>1 DEF covered
  <2> QED BY <2>2, <2>3, <2>4
<1> QED BY <1>1, <1>2

\* The tickets of a round are counted.
LEMMA SoldType ==
    ASSUME TypeOK, NEW r \in DOMAIN rounds
    PROVE  Sold(r) \in Nat /\ rounds[r] \in RoundRow
<1>1. rounds[r] \in RoundRow
  BY DEF TypeOK
<1>2. rounds[r].sold \in [Users -> Nat]
  BY <1>1 DEF RoundRow
<1>3. SumFunctionOnSet(rounds[r].sold, Users) \in Nat
  BY <1>2, Constants, SumNat
<1> QED BY <1>1, <1>2, <1>3 DEF Sold, SumFunction

\* One ticket more.
LEMMA SoldOneMore ==
    ASSUME NEW f \in [Users -> Nat], NEW u \in Users
    PROVE  SumFunction([f EXCEPT ![u] = @ + 1]) = SumFunction(f) + 1
<1> DEFINE g == [f EXCEPT ![u] = @ + 1]
<1>1. IsFiniteSet(Users) /\ IsFiniteSet(Users \ {u})
  BY Constants, FS_Subset
<1>2. g \in [Users -> Nat] /\ g[u] = f[u] + 1 /\ \A v \in Users \ {u} : g[v] = f[v]
  OBVIOUS
<1> HIDE DEF g
<1>3. \A v \in Users : f[v] \in Int /\ g[v] \in Int
  BY <1>2
<1>4. SumFunctionOnSet(f, Users) = f[u] + SumFunctionOnSet(f, Users \ {u})
  BY <1>1, <1>3, SumRemove
<1>5. SumFunctionOnSet(g, Users) = g[u] + SumFunctionOnSet(g, Users \ {u})
  BY <1>1, <1>3, SumRemove
<1>6. SumFunctionOnSet(f, Users \ {u}) = SumFunctionOnSet(g, Users \ {u})
  BY <1>1, <1>2, <1>3, SumSame
<1>7. SumFunctionOnSet(f, Users \ {u}) \in Int
  BY <1>1, <1>3, SumInt
<1>8. SumFunction(g) = SumFunctionOnSet(g, Users) /\ SumFunction(f) = SumFunctionOnSet(f, Users)
  BY <1>2 DEF SumFunction
<1> QED BY <1>2, <1>4, <1>5, <1>6, <1>7, <1>8 DEF g

\* A row of keno_rounds is written.
LEMMA RowWritten ==
    ASSUME TypeOK, NEW r \in DOMAIN rounds, NEW row \in RoundRow,
           rounds' = [rounds EXCEPT ![r] = row]
    PROVE  /\ rounds' \in Seq(RoundRow) /\ Last' = Last /\ DOMAIN rounds' = DOMAIN rounds
           /\ rounds'[r] = row /\ \A q \in DOMAIN rounds : q # r => rounds'[q] = rounds[q]
BY DEF TypeOK, Last

\* The last round exists once there is one.
LEMMA LastRow ==
    ASSUME TypeOK
    PROVE  Last \in Nat /\ DOMAIN rounds = 1 .. Last /\ (Last > 0 => Last \in DOMAIN rounds)
BY DEF TypeOK, Last

\* OpenBetting() writes the latest round.
LEMMA Opened ==
    ASSUME TypeOK, Last > 0, OpenBetting
    PROVE  /\ rounds' = [rounds EXCEPT ![Last] = [@ EXCEPT !.status = "betting_open", !.opened = time]]
           /\ [rounds[Last] EXCEPT !.status = "betting_open", !.opened = time] \in RoundRow
           /\ engine' = At("betting")
<1>1. Last \in DOMAIN rounds /\ rounds[Last] \in RoundRow
  BY LastRow, SoldType
<1>2. time \in Nat
  BY Constants DEF TypeOK
<1> QED BY <1>1, <1>2 DEF OpenBetting, RoundRow

\* What is taken from the reserve is charged to the withdrawals about to run.
LEMMA TakenType ==
    ASSUME TypeOK, NEW amount \in Nat
    PROVE  /\ taken_from(amount) \in
                [Admins -> [at : {"none", "first", "second", "done"}, floor : Int, taken : Nat]]
           /\ \A a \in Admins : /\ taken_from(amount)[a].at = drawing[a].at
                                /\ taken_from(amount)[a].floor = drawing[a].floor
                                /\ drawing[a].at = "second" =>
                                     taken_from(amount)[a].taken = drawing[a].taken + amount
<1>1. ASSUME NEW a \in Admins
      PROVE  /\ taken_from(amount)[a] \in [at : {"none", "first", "second", "done"}, floor : Int, taken : Nat]
             /\ taken_from(amount)[a].at = drawing[a].at
             /\ taken_from(amount)[a].floor = drawing[a].floor
             /\ drawing[a].at = "second" => taken_from(amount)[a].taken = drawing[a].taken + amount
  <2>1. drawing[a] \in [at : {"none", "first", "second", "done"}, floor : Int, taken : Nat]
    BY DEF TypeOK
  <2>2. taken_from(amount)[a] = IF drawing[a].at = "second" THEN [drawing[a] EXCEPT !.taken = @ + amount]
                                ELSE drawing[a]
    BY DEF taken_from
  <2>3. CASE drawing[a].at = "second"
    BY <2>1, <2>2, <2>3
  <2>4. CASE drawing[a].at # "second"
    BY <2>1, <2>2, <2>4
  <2> QED BY <2>3, <2>4
<1>2. taken_from(amount) = [a \in Admins |-> taken_from(amount)[a]]
  BY DEF taken_from
<1> QED BY <1>1, <1>2

\* Nothing was sold, and nobody has asked.
LEMMA InitType == Init => TypeOK
<1> SUFFICES ASSUME Init PROVE TypeOK
  OBVIOUS
<1>1. \A i \in Row : TierNumber[i] \in Nat
  BY Constants
<1> QED BY <1>1, Constants DEF Init, TypeOK, At

\* A ticket is placed in the latest round, which counts one more.
LEMMA Placed ==
    ASSUME TypeOK, RowHeld, NEW u \in Users, PlaceTicket(u)
    PROVE  /\ BettingOpen /\ Last \in DOMAIN rounds /\ ticket[u].round = Last
           /\ ticket[u].balance \in Int /\ check_round_exposure(Last, ticket[u].balance)
           /\ rounds' = [rounds EXCEPT ![Last] =
                 [@ EXCEPT !.sold = [rounds[Last].sold EXCEPT ![u] = @ + 1],
                           !.backing = ticket[u].balance]]
           /\ [rounds[Last] EXCEPT !.sold = [rounds[Last].sold EXCEPT ![u] = @ + 1],
                                   !.backing = ticket[u].balance] \in RoundRow
           /\ Sold(Last)' = Sold(Last) + 1
<1> DEFINE r == Last
           more == [rounds[r].sold EXCEPT ![u] = @ + 1]
           row == [rounds[r] EXCEPT !.sold = more, !.backing = ticket[u].balance]
<1>1. ticket[u] \in [at : {"checked"}, round : Nat, balance : Int]
  BY DEF PlaceTicket, TypeOK, At
<1>2. BettingOpen /\ r \in DOMAIN rounds /\ ticket[u].round = r /\ check_round_exposure(r, ticket[u].balance)
  BY LastRow DEF PlaceTicket, RowHeld, BettingOpen
<1>3. rounds[r] \in RoundRow
  BY <1>2, SoldType
<1>4. more \in [Users -> Nat]
  BY <1>3 DEF RoundRow
<1>5. row \in RoundRow
  <2>1. ticket[u].balance \in Int
    BY <1>1
  <2> HIDE DEF more
  <2> QED BY <1>3, <1>4, <2>1 DEF RoundRow
<1>6. rounds' = [rounds EXCEPT ![r] = row]
  <2>1. rounds' = [rounds EXCEPT ![r].sold[u] = @ + 1, ![r].backing = ticket[u].balance]
    BY <1>2 DEF PlaceTicket
  <2>2. rounds'[r] = row /\ DOMAIN rounds' = DOMAIN rounds
    <3>1. rounds'[r] = [[rounds[r] EXCEPT !.sold[u] = @ + 1] EXCEPT !.backing = ticket[u].balance]
      BY <1>2, <2>1
    <3>2. [rounds[r] EXCEPT !.sold[u] = @ + 1] = [rounds[r] EXCEPT !.sold = more]
      BY <1>3 DEF RoundRow
    <3>3. row = [[rounds[r] EXCEPT !.sold = more] EXCEPT !.backing = ticket[u].balance]
      BY <1>3 DEF RoundRow
    <3> HIDE DEF row
    <3> QED BY <2>1, <3>1, <3>2, <3>3
  <2>3. \A q \in DOMAIN rounds : q # r => rounds'[q] = rounds[q]
    BY <2>1
  <2>4. rounds' = [q \in DOMAIN rounds |-> rounds'[q]]
    BY <2>1
  <2> QED BY <2>2, <2>3, <2>4
<1>7. Sold(r)' = Sold(r) + 1
  <2>1. r' = r /\ rounds'[r] = row
    BY <1>2, <1>5, <1>6, RowWritten
  <2>2. rounds'[r].sold = more
    <3> HIDE DEF more
    <3> QED BY <1>3, <2>1 DEF RoundRow
  <2>3. rounds[r].sold \in [Users -> Nat]
    BY <1>3 DEF RoundRow
  <2> QED BY <2>1, <2>2, <2>3, SoldOneMore DEF Sold
<1> QED BY <1>1, <1>2, <1>5, <1>6, <1>7

\* The steps of players keep the types.
LEMMA PlayerType ==
    ASSUME TypeOK, RowHeld, NEW u \in Users, Player(u)
    PROVE  TypeOK'
<1>1. CASE ReadConfig(u)
  <2>1. ticket' \in [Users -> {At("none"), At("allowed")} \cup [at : {"checked"}, round : Nat, balance : Int]]
    BY <1>1 DEF ReadConfig, TypeOK
  <2> QED BY <1>1, <2>1 DEF ReadConfig, TypeOK, admin, history
<1>2. CASE LockRound(u)
  <2>1. [at |-> "checked", round |-> Last, balance |-> reserve]
          \in [at : {"checked"}, round : Nat, balance : Int]
    BY LastRow DEF TypeOK
  <2>2. ticket' \in [Users -> {At("none"), At("allowed")} \cup [at : {"checked"}, round : Nat, balance : Int]]
    BY <1>2, <2>1 DEF LockRound, TypeOK
  <2> QED BY <1>2, <2>2 DEF LockRound, TypeOK, admin, history
<1>3. CASE PlaceTicket(u)
  <2>1. rounds' \in Seq(RoundRow)
    BY <1>3, Placed, RowWritten
  <2>2. ticket' \in [Users -> {At("none"), At("allowed")} \cup [at : {"checked"}, round : Nat, balance : Int]]
    BY <1>3 DEF PlaceTicket, TypeOK
  <2>3. reserve' \in Int
    BY <1>3, Constants DEF PlaceTicket, TypeOK
  <2> QED BY <1>3, <2>1, <2>2, <2>3 DEF PlaceTicket, TypeOK, admin, history
<1>4. CASE RejectTicket(u)
  <2>1. ticket' \in [Users -> {At("none"), At("allowed")} \cup [at : {"checked"}, round : Nat, balance : Int]]
    BY <1>4 DEF RejectTicket, TypeOK
  <2>2. lock' \in Users \cup {none}
    BY <1>4 DEF RejectTicket, TypeOK
  <2> QED BY <1>4, <2>1, <2>2 DEF RejectTicket, TypeOK, admin, history
<1> QED BY <1>1, <1>2, <1>3, <1>4 DEF Player

\* A change of tier keeps the types.
LEMMA TierType ==
    ASSUME TypeOK, NEW i \in rows
    PROVE  [current |-> i, candidate |-> none, since |-> 0]
             \in [current : rows, candidate : rows \cup {none}, since : Nat]
OBVIOUS

\* The steps of the engine keep the types.
LEMMA EngineType ==
    ASSUME TypeOK, RowHeld, Engine \/ FailRound \/ \E r \in DOMAIN rounds : Settle(r)
    PROVE  TypeOK'
<1>0. /\ \A r \in DOMAIN rounds : rounds[r] \in RoundRow /\ Sold(r) \in Nat
      /\ engine.at # "idle" => Last \in DOMAIN rounds
  BY SoldType, LastRow DEF RowHeld
<1>1. CASE CreateRound
  <2> DEFINE row == [status |-> "scheduled", tier |-> state.current, sold |-> [u \in Users |-> 0],
                     opened |-> none, backing |-> none, below |-> tripped]
  <2>1. row \in RoundRow
    BY DEF RoundRow, TypeOK
  <2>2. rounds' \in Seq(RoundRow)
    BY <1>1, <2>1 DEF CreateRound, TypeOK
  <2>3. engine' \in [at : {"breaker", "evaluate"}, balance : Int]
    BY <1>1 DEF CreateRound, TypeOK
  <2> QED BY <1>1, <2>2, <2>3 DEF CreateRound, TypeOK, admin
<1>2. CASE CheckBreaker
  <2> DEFINE lower == {n \in numbers : n < tier_to_lower}
  <2>1. CASE Trips /\ lower # {}
    <3>1. Max(lower) \in numbers
      BY <2>1, HighestTier
    <3>2. latest(Max(lower)) \in rows
      BY <3>1, LatestRow
    <3>3. state' = [current |-> latest(Max(lower)), candidate |-> none, since |-> 0]
          /\ OpenBetting /\ tripped' = current
      BY <1>2, <2>1 DEF CheckBreaker, ApplyTierChange
    <3>4. current \in Nat
      BY Constants DEF current, TypeOK
    <3>5. rounds' \in Seq(RoundRow) /\ engine' = At("betting")
      <4>1. Last > 0
        BY <1>2 DEF CheckBreaker, RowHeld
      <4> QED BY <1>0, <3>3, <4>1, Opened, RowWritten, LastRow
    <3> QED BY <1>2, <3>2, <3>3, <3>4, <3>5, TierType DEF CheckBreaker, TypeOK, admin
  <2>2. CASE ~(Trips /\ lower # {})
    <3>1. engine' = [engine EXCEPT !.at = "evaluate"] /\ UNCHANGED <<state, rounds, tripped>>
      BY <1>2, <2>2 DEF CheckBreaker
    <3>2. engine \in [at : {"breaker", "evaluate"}, balance : Int]
      BY <1>2 DEF CheckBreaker, TypeOK, At
    <3>3. engine' \in [at : {"breaker", "evaluate"}, balance : Int]
      BY <3>1, <3>2
    <3> QED BY <1>2, <3>1, <3>3 DEF CheckBreaker, TypeOK, admin
  <2> QED BY <2>1, <2>2
<1>3. CASE evaluate_tier_transition
  <2>1. engine.balance \in Int /\ Last > 0 /\ OpenBetting
    BY <1>3 DEF evaluate_tier_transition, TypeOK, At, RowHeld
  <2>2. eligible(engine.balance) \in rows
    BY <2>1, EligibleRow
  <2>3. state' \in [current : rows, candidate : rows \cup {none}, since : Nat]
    <3>1. time \in Nat
      BY Constants DEF TypeOK
    <3>2. state \in [current : rows, candidate : rows \cup {none}, since : Nat]
      BY DEF TypeOK
    <3>3. \/ state' = [current |-> eligible(engine.balance), candidate |-> none, since |-> 0]
          \/ state' = state
          \/ state' = [state EXCEPT !.candidate = eligible(engine.balance), !.since = time]
          \/ state' = [state EXCEPT !.candidate = none, !.since = 0]
      BY <1>3 DEF evaluate_tier_transition, ApplyTierChange, NoCandidate
    <3>4. ASSUME NEW e \in rows
          PROVE  /\ [state EXCEPT !.candidate = e, !.since = time]
                       \in [current : rows, candidate : rows \cup {none}, since : Nat]
                 /\ [state EXCEPT !.candidate = none, !.since = 0]
                       \in [current : rows, candidate : rows \cup {none}, since : Nat]
      BY <3>1, <3>2
    <3> QED BY <2>2, <3>2, <3>3, <3>4, TierType
  <2>4. rounds' \in Seq(RoundRow) /\ engine' = At("betting")
    BY <1>0, <2>1, Opened, RowWritten, LastRow
  <2>5. short' \in [{TierNumber[i] : i \in Row} -> Nat]
    <3>1. time \in Nat
      BY Constants DEF TypeOK
    <3> QED BY <1>3, <3>1 DEF evaluate_tier_transition, TypeOK
  <2> QED BY <1>3, <2>3, <2>4, <2>5 DEF evaluate_tier_transition, TypeOK, admin
<1>4. CASE CloseBetting
  <2> DEFINE row == [rounds[Last] EXCEPT !.status = "settling"]
  <2>1. Last \in DOMAIN rounds /\ row \in RoundRow
    BY <1>0, <1>4 DEF CloseBetting, RoundRow
  <2>2. rounds' = [rounds EXCEPT ![Last] = row]
    BY <1>4, <2>1 DEF CloseBetting, TypeOK
  <2>3. rounds' \in Seq(RoundRow)
    BY <2>1, <2>2, RowWritten
  <2> QED BY <1>4, <2>3 DEF CloseBetting, TypeOK, admin, history
<1>5. CASE FailRound
  <2> DEFINE row == [rounds[Last] EXCEPT !.status = "failed", !.backing = none]
  <2>1. Last \in DOMAIN rounds /\ row \in RoundRow
    BY <1>0, <1>5, LastRow DEF FailRound, RoundRow
  <2>2. rounds' = [rounds EXCEPT ![Last] = row]
    BY <1>5, <2>1 DEF FailRound, TypeOK
  <2>3. rounds' \in Seq(RoundRow)
    BY <2>1, <2>2, RowWritten
  <2>4. Sold(Last) * Stake \in Nat
    BY <1>0, <2>1, Constants
  <2>5. reserve' \in Int /\ drawing' \in [Admins -> [at : {"none", "first", "second", "done"}, floor : Int, taken : Nat]]
    BY <1>5, <2>4, TakenType DEF FailRound, TypeOK
  <2> QED BY <1>5, <2>3, <2>5 DEF FailRound, Fault, TypeOK, admin, history
<1>6. ASSUME NEW r \in DOMAIN rounds, Settle(r) PROVE TypeOK'
  <2> DEFINE row == [rounds[r] EXCEPT !.status = "completed", !.backing = none]
  <2>1. row \in RoundRow
    BY <1>0 DEF RoundRow
  <2>2. rounds' = [rounds EXCEPT ![r] = row]
    BY <1>6 DEF Settle, TypeOK
  <2>3. rounds' \in Seq(RoundRow)
    BY <2>1, <2>2, RowWritten
  <2>4. PICK wins \in 0 .. Sold(r) :
          /\ reserve' = reserve - wins * Prize
          /\ paid' = [paid EXCEPT ![time] = @ + wins * Prize]
          /\ drawing' = taken_from(wins * Prize)
    BY <1>6 DEF Settle
  <2> DEFINE won == wins * Prize
  <2>5. won \in Nat
    BY <1>0, Constants
  <2> HIDE DEF row, won
  <2>6. reserve' \in Int /\ paid' \in [0..MaxTime -> Nat]
        /\ drawing' \in [Admins -> [at : {"none", "first", "second", "done"}, floor : Int, taken : Nat]]
    <3>1. /\ reserve' = reserve - won /\ paid' = [paid EXCEPT ![time] = @ + won]
          /\ drawing' = taken_from(won)
      BY <2>4 DEF won
    <3>2. reserve' \in Int /\ paid' \in [0..MaxTime -> Nat]
      BY <2>5, <3>1 DEF TypeOK
    <3> QED BY <2>5, <3>1, <3>2, TakenType
  <2> QED BY <1>6, <2>3, <2>6 DEF Settle, TypeOK, admin, history
<1> QED BY <1>1, <1>2, <1>3, <1>4, <1>5, <1>6 DEF Engine

\* The console and the clock keep the types.
LEMMA ConsoleType ==
    ASSUME TypeOK, \/ \E u \in Users : AllowlistRoutes(u)
                   \/ ConfigRoutes \/ TierRoutes \/ ReserveRoutes \/ Tick
    PROVE  TypeOK'
<1>1. CASE (\E u \in Users : AllowlistRoutes(u)) \/ ConfigRoutes
  <2>1. config' \in [enabled : BOOLEAN, restricted : BOOLEAN, floor : Int]
    <3>1. CASE UNCHANGED config
      BY <3>1 DEF TypeOK
    <3>2. ASSUME NEW b \in BOOLEAN, NewConfig(b)
          PROVE  config' \in [enabled : BOOLEAN, restricted : BOOLEAN, floor : Int]
      <4>1. 0 \in Int
        OBVIOUS
      <4>2. config' = [enabled |-> b, restricted |-> TRUE, floor |-> 0]
        BY <3>2 DEF NewConfig
      <4> QED BY <4>1, <4>2, Zenon
    <3>3. set_keno_enabled_admin => \E b \in BOOLEAN : NewConfig(b)
      <4>1. (~config.enabled) \in BOOLEAN
        BY Zenon
      <4> QED BY <4>1, Zenon DEF set_keno_enabled_admin
    <3>4. create_config_admin => \E b \in BOOLEAN : NewConfig(b)
      BY Zenon DEF create_config_admin
    <3>5. \/ UNCHANGED config
          \/ create_config_admin
          \/ set_keno_enabled_admin
      BY <1>1 DEF AllowlistRoutes, add_to_beta_allowlist_admin, remove_from_beta_allowlist_admin, ConfigRoutes
    <3> QED BY <3>1, <3>2, <3>3, <3>4, <3>5, Zenon
  <2>2. /\ orders' \in Nat
        /\ UNCHANGED <<time, reserve, rows, state, rounds, engine, ticket, lock, paid, drawing, faults, history>>
    BY <1>1 DEF AllowlistRoutes, add_to_beta_allowlist_admin, Order, TypeOK,
              remove_from_beta_allowlist_admin, ConfigRoutes, create_config_admin, set_keno_enabled_admin
  <2> QED BY <2>1, <2>2 DEF TypeOK, history
<1>2. CASE create_tier_admin
  <2>1. IsFiniteSet(Row \ rows) /\ Row \ rows # {} /\ Row \ rows \subseteq Int
    BY <1>2, FS_Subset, Constants DEF create_tier_admin, TypeOK
  <2>2. Min(Row \ rows) \in Row
    BY <2>1, Extremes
  <2>3. rows' \subseteq Row /\ rows \subseteq rows'
    BY <1>2, <2>2 DEF create_tier_admin, TypeOK
  <2>4. state' \in [current : rows', candidate : rows' \cup {none}, since : Nat]
    BY <1>2, <2>3 DEF create_tier_admin, TypeOK
  <2>5. /\ orders' \in Nat
        /\ UNCHANGED <<time, reserve, config, rounds, engine, ticket, lock, paid, drawing, faults, history>>
    BY <1>2 DEF create_tier_admin, Order, TypeOK
  <2> QED BY <2>3, <2>4, <2>5 DEF TypeOK, history
<1>3. ASSUME NEW i \in Row, set_current_tier_admin(i) PROVE TypeOK'
  <2>1. state' \in [current : rows, candidate : rows \cup {none}, since : Nat]
    BY <1>3, TierType DEF set_current_tier_admin, ApplyTierChange
  <2> QED BY <1>3, <2>1 DEF set_current_tier_admin, Order, TypeOK, admin
<1>4. CASE deposit_to_reserve_admin
  BY <1>4, Constants DEF deposit_to_reserve_admin, Order, TypeOK, admin, history
<1>5. ASSUME NEW a \in Admins, WithdrawCheck(a) \/ WithdrawRecheck(a) \/ Withdraw(a) PROVE TypeOK'
  <2> DEFINE D == [at : {"none", "first", "second", "done"}, floor : Int, taken : Nat]
  <2>1. drawing \in [Admins -> D] /\ drawing[a] \in D /\ config.floor \in Int /\ reserve \in Int
    BY DEF TypeOK
  <2>2. CASE WithdrawCheck(a)
    <3>1. drawing' = [drawing EXCEPT ![a] = [@ EXCEPT !.at = "first"]]
      BY <2>2 DEF WithdrawCheck
    <3>2. [drawing[a] EXCEPT !.at = "first"] \in D
      BY <2>1
    <3>3. drawing' \in [Admins -> D]
      BY <2>1, <3>1, <3>2
    <3> QED BY <2>2, <3>3 DEF WithdrawCheck, TypeOK, admin, history
  <2>3. CASE WithdrawRecheck(a)
    <3>1. drawing' = [drawing EXCEPT ![a] =
                        IF rechecks THEN [at |-> "second", floor |-> config.floor, taken |-> 0]
                        ELSE [@ EXCEPT !.at = "done"]]
      BY <2>3 DEF WithdrawRecheck
    <3>2. [drawing[a] EXCEPT !.at = "done"] \in D
          /\ [at |-> "second", floor |-> config.floor, taken |-> 0] \in D
      BY <2>1
    <3>3. drawing' \in [Admins -> D]
      BY <2>1, <3>1, <3>2
    <3> QED BY <2>3, <3>3 DEF WithdrawRecheck, TypeOK, admin, history
  <2>4. CASE Withdraw(a)
    <3>1. drawing' = [taken_from(Amount) EXCEPT ![a] = [at |-> "done", floor |-> 0, taken |-> 0]]
          /\ reserve' = reserve - Amount
      BY <2>4 DEF Withdraw
    <3>2. [at |-> "done", floor |-> 0, taken |-> 0] \in D /\ taken_from(Amount) \in [Admins -> D]
      BY Constants, TakenType
    <3>3. drawing' \in [Admins -> D] /\ reserve' \in Int
      BY <2>1, <3>1, <3>2, Constants
    <3> QED BY <2>4, <3>3 DEF Withdraw, TypeOK, admin, history
  <2> QED BY <1>5, <2>2, <2>3, <2>4
<1>6. CASE Tick
  BY <1>6, Constants DEF Tick, TypeOK, admin, history
<1> QED BY <1>1, <1>2, <1>3, <1>4, <1>5, <1>6 DEF TierRoutes, ReserveRoutes

\* Every step keeps the types.
LEMMA TypeStep == TypeOK /\ RowHeld /\ [Next]_vars => TypeOK'
<1> SUFFICES ASSUME TypeOK, RowHeld, [Next]_vars PROVE TypeOK'
  OBVIOUS
<1>1. CASE UNCHANGED vars
  BY <1>1 DEF vars, admin, history, TypeOK
<1>2. CASE Next
  BY <1>2, PlayerType, EngineType, ConsoleType DEF Next
<1> QED BY <1>1, <1>2

-----------------------------------------------------------------------------
(***************************************************************************)
(* The row of the round.                                                   *)
(***************************************************************************)

\* Without the lock, or outside betting, no ticket is being placed.
LEMMA NoneChecked ==
    ASSUME TypeOK, RowHeld, lock = none \/ engine.at # "betting"
    PROVE  \A u \in Users : ticket[u].at # "checked" /\ lock # u
BY Constants DEF RowHeld

\* What is sold of a round and its tier stay; it may lose its backing.
RoundKept(r) ==
    /\ rounds'[r].sold = rounds[r].sold /\ rounds'[r].tier = rounds[r].tier
    /\ rounds'[r].below = rounds[r].below
    /\ rounds'[r].backing \in {rounds[r].backing, none}

\* The status of round r is written, and no round sells anything.
Written(r, s) ==
    /\ rounds'[r].status = s /\ Last' = Last /\ DOMAIN rounds' = DOMAIN rounds
    /\ \A q \in DOMAIN rounds : RoundKept(q) /\ (q # r => rounds'[q] = rounds[q])

\* A row with the same tickets, tier and tier to stay below, in place of another.
LEMMA Wrote ==
    ASSUME TypeOK, NEW r \in DOMAIN rounds, NEW row \in RoundRow,
           rounds' = [rounds EXCEPT ![r] = row],
           row.sold = rounds[r].sold, row.tier = rounds[r].tier, row.below = rounds[r].below,
           row.backing \in {rounds[r].backing, none}
    PROVE  Written(r, row.status)
BY RowWritten DEF RoundKept, Written

\* What the engine's steps write.
LEMMA Writes ==
    ASSUME TypeOK, RowHeld
    PROVE  /\ OpenBetting /\ Last > 0 => Written(Last, "betting_open")
           /\ CloseBetting => Written(Last, "settling")
           /\ FailRound => Written(Last, "failed")
           /\ \A r \in DOMAIN rounds : Settle(r) => Written(r, "completed")
<1>0. /\ \A r \in DOMAIN rounds : rounds[r] \in RoundRow
      /\ Last > 0 => Last \in DOMAIN rounds
      /\ engine.at # "idle" => Last > 0
  BY SoldType, LastRow DEF RowHeld
<1>1. ASSUME OpenBetting, Last > 0 PROVE Written(Last, "betting_open")
  <2> DEFINE row == [rounds[Last] EXCEPT !.status = "betting_open", !.opened = time]
  <2>1. row \in RoundRow /\ rounds' = [rounds EXCEPT ![Last] = row]
    BY <1>1, Opened
  <2>2. /\ row.status = "betting_open" /\ row.sold = rounds[Last].sold /\ row.tier = rounds[Last].tier
        /\ row.below = rounds[Last].below /\ row.backing = rounds[Last].backing
    BY <1>0, <1>1 DEF RoundRow
  <2> HIDE DEF row
  <2> QED BY <1>0, <1>1, <2>1, <2>2, Wrote
<1>2. ASSUME CloseBetting PROVE Written(Last, "settling")
  <2> DEFINE row == [rounds[Last] EXCEPT !.status = "settling"]
  <2>1. Last \in DOMAIN rounds
    BY <1>0, <1>2 DEF CloseBetting
  <2>2. row \in RoundRow /\ rounds' = [rounds EXCEPT ![Last] = row]
    <3>1. row \in RoundRow
      BY <1>0, <2>1 DEF RoundRow
    <3>2. rounds' = [rounds EXCEPT ![Last] = row]
      BY <1>2, <2>1 DEF CloseBetting, TypeOK
    <3> QED BY <3>1, <3>2
  <2>3. /\ row.status = "settling" /\ row.sold = rounds[Last].sold /\ row.tier = rounds[Last].tier
        /\ row.below = rounds[Last].below /\ row.backing = rounds[Last].backing
    BY <1>0, <2>1 DEF RoundRow
  <2> HIDE DEF row
  <2> QED BY <2>1, <2>2, <2>3, Wrote
<1>3. ASSUME FailRound PROVE Written(Last, "failed")
  <2> DEFINE row == [rounds[Last] EXCEPT !.status = "failed", !.backing = none]
  <2>1. Last \in DOMAIN rounds
    BY <1>0, <1>3 DEF FailRound
  <2>2. row \in RoundRow /\ rounds' = [rounds EXCEPT ![Last] = row]
    <3>1. row \in RoundRow
      BY <1>0, <2>1 DEF RoundRow
    <3>2. rounds' = [rounds EXCEPT ![Last] = row]
      BY <1>3, <2>1 DEF FailRound, TypeOK
    <3> QED BY <3>1, <3>2
  <2>3. /\ row.status = "failed" /\ row.sold = rounds[Last].sold /\ row.tier = rounds[Last].tier
        /\ row.below = rounds[Last].below /\ row.backing = none
    BY <1>0, <2>1 DEF RoundRow
  <2> HIDE DEF row
  <2> QED BY <2>1, <2>2, <2>3, Wrote
<1>4. ASSUME NEW r \in DOMAIN rounds, Settle(r) PROVE Written(r, "completed")
  <2> DEFINE row == [rounds[r] EXCEPT !.status = "completed", !.backing = none]
  <2>1. row \in RoundRow /\ rounds' = [rounds EXCEPT ![r] = row]
    BY <1>0, <1>4 DEF Settle, RoundRow, TypeOK
  <2>2. /\ row.status = "completed" /\ row.sold = rounds[r].sold /\ row.tier = rounds[r].tier
        /\ row.below = rounds[r].below /\ row.backing = none
    BY <1>0 DEF RoundRow
  <2> HIDE DEF row
  <2> QED BY <2>1, <2>2, Wrote
<1> QED BY <1>1, <1>2, <1>3, <1>4

\* Where nobody is placing a ticket, and the step leaves it so.
LEMMA NobodyPlaces ==
    ASSUME TypeOK, RowHeld, lock = none \/ engine.at # "betting", UNCHANGED <<ticket, lock>>,
           engine'.at # "idle" => Last' > 0, BettingOpen' => engine'.at = "betting"
    PROVE  RowHeld'
<1>1. \A u \in Users : ticket'[u].at # "checked" /\ lock' # u
  BY NoneChecked
<1> QED BY <1>1 DEF RowHeld

\* Where the rounds and who holds the latest are left alone.
LEMMA RowStill ==
    ASSUME TypeOK, RowHeld, UNCHANGED <<rounds, engine>>,
           \A v \in Users : ticket'[v].at = "checked" <=> lock' = v,
           \A v \in Users : ticket'[v].at = "checked" => ticket'[v] = ticket[v]
    PROVE  RowHeld'
BY DEF RowHeld, BettingOpen, Last, check_round_exposure, Sold, Net

\* The ticket that is checked holds the row of the open round.
LEMMA RowHeldStep == TypeOK /\ RowHeld /\ [Next]_vars => RowHeld'
<1> SUFFICES ASSUME TypeOK, RowHeld, [Next]_vars PROVE RowHeld'
  OBVIOUS
<1>0. /\ \A u \in Users : ticket[u].at = "checked" <=> lock = u
      /\ Last > 0 => Last \in DOMAIN rounds
      /\ engine.at # "idle" => Last > 0
      /\ BettingOpen => engine.at = "betting"
  BY LastRow DEF RowHeld
<1>1. ASSUME NEW u \in Users, ReadConfig(u) \/ RejectTicket(u) PROVE RowHeld'
  <2>1. \A v \in Users : (ticket'[v].at = "checked" <=> lock' = v) /\ (ticket'[v].at = "checked" => ticket'[v] = ticket[v])
    BY <1>0, <1>1, Constants DEF ReadConfig, RejectTicket, TypeOK, At
  <2> QED BY <1>1, <2>1, RowStill DEF ReadConfig, RejectTicket
<1>2. ASSUME NEW u \in Users, LockRound(u) PROVE RowHeld'
  <2>1. /\ UNCHANGED <<rounds, engine>> /\ lock' = u
        /\ ticket' = [ticket EXCEPT ![u] = [at |-> "checked", round |-> Last, balance |-> reserve]]
        /\ BettingOpen /\ check_round_exposure(Last, reserve) /\ lock = none
    BY <1>2 DEF LockRound, LocksRow
  <2>2. \A v \in Users : ticket[v].at # "checked"
    BY <2>1, NoneChecked
  <2>3. \A v \in Users : (ticket'[v].at = "checked" <=> lock' = v)
    BY <2>1, <2>2 DEF TypeOK
  <2>4. /\ ticket'[u].round = Last /\ ticket'[u].balance = reserve /\ Last' = Last /\ BettingOpen'
        /\ check_round_exposure(Last, ticket[u].balance)'
    <3>1. ticket'[u] = [at |-> "checked", round |-> Last, balance |-> reserve]
      BY <2>1 DEF TypeOK
    <3>2. Last' = Last /\ BettingOpen'
      BY <2>1 DEF Last, BettingOpen
    <3>3. ticket'[u].balance = reserve /\ ticket'[u].round = Last
      BY <3>1
    <3>4. check_round_exposure(Last, ticket[u].balance)'
      BY <2>1, <3>2, <3>3 DEF check_round_exposure, Sold, Net
    <3> QED BY <3>2, <3>3, <3>4
  <2> QED BY <1>0, <2>1, <2>3, <2>4 DEF RowHeld
<1>3. ASSUME NEW u \in Users, PlaceTicket(u) PROVE RowHeld'
  <2>1. \A v \in Users : ticket'[v].at # "checked" /\ lock' # v
    BY <1>0, <1>3, Constants DEF PlaceTicket, TypeOK, At
  <2>2. Last' = Last /\ Last > 0 /\ engine' = engine /\ engine.at = "betting"
    BY <1>0, <1>3, Placed, RowWritten, LastRow DEF PlaceTicket
  <2> QED BY <2>1, <2>2 DEF RowHeld
<1>4. CASE CreateRound
  <2>1. engine'.at = "breaker" /\ engine.at = "idle" /\ UNCHANGED <<ticket, lock>>
    BY <1>4 DEF CreateRound
  <2>2. Last' = Last + 1 /\ Last \in Nat /\ rounds'[Last'].status = "scheduled"
    BY <1>4, LastRow DEF CreateRound, Last, TypeOK
  <2> QED BY <2>1, <2>2, NobodyPlaces DEF BettingOpen
<1>5. CASE CheckBreaker \/ evaluate_tier_transition
  <2>1. engine.at \in {"breaker", "evaluate"} /\ Last > 0 /\ UNCHANGED <<ticket, lock>>
    BY <1>0, <1>5 DEF CheckBreaker, evaluate_tier_transition
  <2>2. CASE OpenBetting
    <3>1. Last' = Last /\ engine'.at = "betting"
      BY <2>1, <2>2, Writes DEF Written, OpenBetting, At
    <3> QED BY <2>1, <3>1, NobodyPlaces
  <2>3. CASE ~OpenBetting
    <3>1. rounds' = rounds
      BY <1>5, <2>3 DEF CheckBreaker, evaluate_tier_transition
    <3>2. Last' = Last /\ (BettingOpen' <=> BettingOpen)
      BY <3>1 DEF Last, BettingOpen
    <3>3. Last' > 0 /\ ~BettingOpen' /\ engine.at # "betting"
      BY <1>0, <2>1, <3>2
    <3> QED BY <2>1, <3>3, NobodyPlaces
  <2> QED BY <2>2, <2>3
<1>6. CASE CloseBetting \/ FailRound
  <2>1. lock = none /\ UNCHANGED <<ticket, lock>> /\ engine'.at = "idle"
    BY <1>6 DEF CloseBetting, FailRound, At
  <2>2. Last' = Last /\ rounds'[Last].status # "betting_open"
    BY <1>6, Writes DEF Written
  <2> QED BY <2>1, <2>2, NobodyPlaces DEF BettingOpen
<1>7. ASSUME NEW r \in DOMAIN rounds, Settle(r) PROVE RowHeld'
  <2>1. UNCHANGED <<ticket, lock, engine>> /\ rounds[r].status = "settling" /\ Written(r, "completed")
    BY <1>7, Writes DEF Settle
  <2>2. Last' = Last /\ (BettingOpen' => BettingOpen /\ rounds'[Last] = rounds[Last])
    BY <1>0, <2>1 DEF Written, BettingOpen
  <2>3. BettingOpen => BettingOpen'
    BY <1>0, <2>1, <2>2 DEF Written, BettingOpen
  <2>4. CASE BettingOpen
    <3>1. rounds'[Last] = rounds[Last] /\ Last' = Last /\ BettingOpen'
      BY <2>2, <2>3, <2>4
    <3>2. \A u \in Users : check_round_exposure(Last, ticket[u].balance)
                             => check_round_exposure(Last, ticket[u].balance)'
      BY <2>1, <3>1 DEF check_round_exposure, Sold, Net
    <3>3. ticket' = ticket /\ lock' = lock /\ engine' = engine
      BY <2>1
    <3>4. ASSUME NEW u \in Users, ticket'[u].at = "checked"
          PROVE  ticket'[u].round = Last' /\ check_round_exposure(Last, ticket[u].balance)'
      BY <3>1, <3>2, <3>3, <3>4 DEF RowHeld
    <3>5. (engine'.at # "idle" => Last' > 0) /\ (BettingOpen' => engine'.at = "betting")
      BY <1>0, <2>4, <3>1, <3>3
    <3>6. \A u \in Users : ticket'[u].at = "checked" <=> lock' = u
      BY <1>0, <3>3
    <3> QED BY <3>1, <3>4, <3>5, <3>6 DEF RowHeld
  <2>5. CASE ~BettingOpen
    <3>1. \A u \in Users : ticket'[u].at # "checked" /\ lock' # u
      BY <1>0, <2>1, <2>5 DEF RowHeld
    <3>2. ~BettingOpen' /\ (engine'.at # "idle" => Last' > 0)
      BY <1>0, <2>1, <2>2, <2>5
    <3> QED BY <3>1, <3>2 DEF RowHeld
  <2> QED BY <2>4, <2>5
<1>8. CASE \/ \E u \in Users : AllowlistRoutes(u)
           \/ ConfigRoutes \/ TierRoutes \/ ReserveRoutes \/ Tick \/ UNCHANGED vars
  <2>1. UNCHANGED <<rounds, engine, ticket, lock>>
    BY <1>8 DEF AllowlistRoutes, add_to_beta_allowlist_admin, remove_from_beta_allowlist_admin,
         ConfigRoutes, create_config_admin, set_keno_enabled_admin, TierRoutes, create_tier_admin,
         set_current_tier_admin, ReserveRoutes, deposit_to_reserve_admin, WithdrawCheck,
         WithdrawRecheck, Withdraw, Tick, vars
  <2> QED BY <1>0, <2>1, RowStill
<1> QED BY <1>1, <1>2, <1>3, <1>4, <1>5, <1>6, <1>7, <1>8 DEF Next, Player, Engine

-----------------------------------------------------------------------------
(***************************************************************************)
(* The rounds, once their tickets are counted.                             *)
(***************************************************************************)

\* A step creates a round, places a ticket, or sells nothing.
LEMMA RoundsMove ==
    ASSUME TypeOK, RowHeld, [Next]_vars
    PROVE  \/ CreateRound
           \/ \E u \in Users : PlaceTicket(u)
           \/ DOMAIN rounds' = DOMAIN rounds /\ \A r \in DOMAIN rounds : RoundKept(r)
<1>1. CASE CheckBreaker \/ evaluate_tier_transition
  <2>1. rounds' = rounds \/ OpenBetting
    BY <1>1 DEF CheckBreaker, evaluate_tier_transition
  <2>2. Last > 0
    BY <1>1 DEF CheckBreaker, evaluate_tier_transition, RowHeld
  <2> QED BY <2>1, <2>2, Writes DEF Written, RoundKept
<1>2. CASE CloseBetting \/ FailRound \/ \E r \in DOMAIN rounds : Settle(r)
  BY <1>2, Writes DEF Written
<1>3. ASSUME NEW u \in Users, ReadConfig(u) \/ LockRound(u) \/ RejectTicket(u)
      PROVE  UNCHANGED rounds
  BY <1>3 DEF ReadConfig, LockRound, RejectTicket
<1>4. CASE \/ \E u \in Users : AllowlistRoutes(u)
           \/ ConfigRoutes \/ TierRoutes \/ ReserveRoutes \/ Tick \/ UNCHANGED vars
  <2>1. UNCHANGED rounds
    BY <1>4 DEF AllowlistRoutes, add_to_beta_allowlist_admin, remove_from_beta_allowlist_admin,
         ConfigRoutes, create_config_admin, set_keno_enabled_admin, TierRoutes, create_tier_admin,
         set_current_tier_admin, ReserveRoutes, deposit_to_reserve_admin, WithdrawCheck,
         WithdrawRecheck, Withdraw, Tick, vars
  <2> QED BY <2>1 DEF RoundKept
<1>5. UNCHANGED rounds => DOMAIN rounds' = DOMAIN rounds /\ \A r \in DOMAIN rounds : RoundKept(r)
  BY DEF RoundKept
<1> QED BY <1>1, <1>2, <1>3, <1>4, <1>5 DEF Next, Player, Engine

\* What a round may lose was within its ceiling when its last ticket was taken.
LEMMA ExposureStep ==
    ASSUME TypeOK, RowHeld, ExposureWithinCapacity, [Next]_vars
    PROVE  ExposureWithinCapacity'
<1>1. CASE CreateRound
  <2>1. /\ Last \in Nat /\ DOMAIN rounds = 1 .. Last /\ DOMAIN rounds' = 1 .. Last + 1
        /\ rounds'[Last + 1].backing = none
        /\ \A r \in DOMAIN rounds : rounds'[r] = rounds[r]
    BY <1>1 DEF CreateRound, Last, TypeOK
  <2>2. ASSUME NEW r \in DOMAIN rounds', rounds'[r].backing # none
        PROVE  Net(Sold(r)') * 100 <= rounds'[r].backing * Pct[rounds'[r].tier]
    <3>1. r \in DOMAIN rounds /\ rounds'[r] = rounds[r]
      BY <2>1, <2>2
    <3> QED BY <2>2, <3>1 DEF ExposureWithinCapacity, Sold
  <2> QED BY <2>2 DEF ExposureWithinCapacity, Net
<1>2. ASSUME NEW u \in Users, PlaceTicket(u) PROVE ExposureWithinCapacity'
  <2> DEFINE row == [rounds[Last] EXCEPT !.sold = [rounds[Last].sold EXCEPT ![u] = @ + 1],
                                         !.backing = ticket[u].balance]
  <2>1. /\ Last \in DOMAIN rounds /\ row \in RoundRow /\ rounds' = [rounds EXCEPT ![Last] = row]
        /\ Sold(Last)' = Sold(Last) + 1 /\ ticket[u].balance \in Int
        /\ check_round_exposure(Last, ticket[u].balance)
    BY <1>2, Placed
  <2>2. row.backing = ticket[u].balance /\ row.tier = rounds[Last].tier
    BY <2>1, SoldType DEF RoundRow
  <2> HIDE DEF row
  <2>3. /\ DOMAIN rounds' = DOMAIN rounds /\ rounds'[Last] = row /\ Last' = Last
        /\ \A q \in DOMAIN rounds : q # Last => rounds'[q] = rounds[q]
    BY <2>1, RowWritten
  <2>4. ASSUME NEW r \in DOMAIN rounds, rounds'[r].backing # none
        PROVE  Net(Sold(r)') * 100 <= rounds'[r].backing * Pct[rounds'[r].tier]
    <3>1. CASE r = Last
      <4>1. Sold(r)' = Sold(Last) + 1
        BY <2>1, <2>3, <3>1 DEF Sold
      <4> QED BY <2>1, <2>2, <2>3, <3>1, <4>1 DEF check_round_exposure
    <3>2. CASE r # Last
      BY <2>3, <2>4, <3>2 DEF ExposureWithinCapacity, Sold
    <3> QED BY <3>1, <3>2
  <2> QED BY <2>3, <2>4 DEF ExposureWithinCapacity, Net
<1>3. CASE DOMAIN rounds' = DOMAIN rounds /\ \A r \in DOMAIN rounds : RoundKept(r)
  <2>1. ASSUME NEW r \in DOMAIN rounds, rounds'[r].backing # none
        PROVE  Net(Sold(r)') * 100 <= rounds'[r].backing * Pct[rounds'[r].tier]
    <3>1. /\ rounds'[r].backing = rounds[r].backing /\ rounds'[r].sold = rounds[r].sold
          /\ rounds'[r].tier = rounds[r].tier
      BY <1>3, <2>1 DEF RoundKept
    <3> QED BY <2>1, <3>1 DEF ExposureWithinCapacity, Sold
  <2> QED BY <1>3, <2>1 DEF ExposureWithinCapacity, Net
<1> QED BY <1>1, <1>2, <1>3, RoundsMove

\* A round created after the breaker tripped has a lower tier.
LEMMA BreakerStep ==
    ASSUME TypeOK, RowHeld, BreakerHolds, BreakerWins, [Next]_vars
    PROVE  BreakerWins'
<1>1. CASE CreateRound
  <2> DEFINE row == [status |-> "scheduled", tier |-> state.current, sold |-> [u \in Users |-> 0],
                     opened |-> none, backing |-> none, below |-> tripped]
  <2>1. rounds' = Append(rounds, row) /\ Last \in Nat /\ DOMAIN rounds = 1 .. Last
    BY <1>1, LastRow DEF CreateRound
  <2>2. row.tier = state.current /\ row.below = tripped
    OBVIOUS
  <2> HIDE DEF row
  <2>3. /\ DOMAIN rounds' = 1 .. Last + 1 /\ rounds'[Last + 1] = row
        /\ \A r \in DOMAIN rounds : rounds'[r] = rounds[r]
    BY <2>1 DEF TypeOK, Last
  <2>4. ASSUME NEW r \in DOMAIN rounds', rounds'[r].below # none
        PROVE  TierNumber[rounds'[r].tier] < rounds'[r].below
    <3>1. CASE r = Last + 1
      BY <2>2, <2>3, <2>4, <3>1 DEF BreakerHolds, current
    <3>2. CASE r # Last + 1
      <4>1. r \in DOMAIN rounds /\ rounds'[r] = rounds[r]
        BY <2>1, <2>3, <3>2
      <4> QED BY <2>4, <4>1 DEF BreakerWins
    <3> QED BY <3>1, <3>2
  <2> QED BY <2>4 DEF BreakerWins
<1>2. ASSUME NEW u \in Users, PlaceTicket(u) PROVE BreakerWins'
  <2> DEFINE row == [rounds[Last] EXCEPT !.sold = [rounds[Last].sold EXCEPT ![u] = @ + 1],
                                         !.backing = ticket[u].balance]
  <2>1. Last \in DOMAIN rounds /\ row \in RoundRow /\ rounds' = [rounds EXCEPT ![Last] = row]
    BY <1>2, Placed
  <2>2. row.below = rounds[Last].below /\ row.tier = rounds[Last].tier
    BY <2>1, SoldType DEF RoundRow
  <2> HIDE DEF row
  <2>3. /\ DOMAIN rounds' = DOMAIN rounds /\ rounds'[Last] = row
        /\ \A q \in DOMAIN rounds : q # Last => rounds'[q] = rounds[q]
    BY <2>1, RowWritten
  <2> QED BY <2>1, <2>2, <2>3 DEF BreakerWins
<1>3. CASE DOMAIN rounds' = DOMAIN rounds /\ \A r \in DOMAIN rounds : RoundKept(r)
  BY <1>3 DEF RoundKept, BreakerWins
<1> QED BY <1>1, <1>2, <1>3, RoundsMove

-----------------------------------------------------------------------------
(***************************************************************************)
(* The tiers.                                                              *)
(***************************************************************************)

\* Steps that leave the engine, the tiers and the clock alone.
Aside ==
    \/ \E u \in Users : Player(u) \/ AllowlistRoutes(u)
    \/ CloseBetting \/ FailRound \/ \E r \in DOMAIN rounds : Settle(r)
    \/ ConfigRoutes \/ create_tier_admin \/ ReserveRoutes \/ UNCHANGED vars

\* They write neither the tier in effect nor what was found too little.
LEMMA AsideStill ==
    ASSUME Aside
    PROVE  /\ UNCHANGED <<state, short, tripped, time>>
           /\ engine' = engine \/ engine'.at = "idle"
<1>1. ASSUME NEW u \in Users, Player(u) PROVE UNCHANGED <<state, short, tripped, time, engine>>
  BY <1>1 DEF Player, ReadConfig, LockRound, PlaceTicket, RejectTicket, history
<1>2. ASSUME CloseBetting \/ FailRound
      PROVE  UNCHANGED <<state, short, tripped, time>> /\ engine'.at = "idle"
  BY <1>2 DEF CloseBetting, FailRound, history, At
<1>3. ASSUME NEW r \in DOMAIN rounds, Settle(r) PROVE UNCHANGED <<state, short, tripped, time, engine>>
  BY <1>3 DEF Settle, history
<1>4. ASSUME NEW u \in Users, AllowlistRoutes(u)
      PROVE  UNCHANGED <<state, short, tripped, time, engine>>
  BY <1>4 DEF AllowlistRoutes, add_to_beta_allowlist_admin, remove_from_beta_allowlist_admin, history
<1>5. ASSUME ConfigRoutes \/ create_tier_admin \/ ReserveRoutes \/ UNCHANGED vars
      PROVE  UNCHANGED <<state, short, tripped, time, engine>>
  BY <1>5 DEF ConfigRoutes, create_config_admin, set_keno_enabled_admin, create_tier_admin,
       ReserveRoutes, deposit_to_reserve_admin, WithdrawCheck, WithdrawRecheck, Withdraw, vars, history
<1> QED BY <1>1, <1>2, <1>3, <1>4, <1>5 DEF Aside

\* The other steps.
LEMMA StepKinds ==
    ASSUME [Next]_vars
    PROVE  \/ Aside \/ CreateRound \/ CheckBreaker \/ evaluate_tier_transition
           \/ (\E i \in Row : set_current_tier_admin(i)) \/ Tick
BY DEF Next, Engine, TierRoutes, Aside

\* The breaker leaves everything as it is, or lowers the tier and opens the round.
LEMMA Demoted ==
    ASSUME TypeOK, CheckBreaker
    PROVE  \/ UNCHANGED <<state, rounds, tripped>>
           \/ /\ current' < current /\ tripped' = current
              /\ state'.candidate = none /\ OpenBetting
<1> DEFINE lower == {n \in numbers : n < tier_to_lower}
<1>1. CASE Trips /\ lower # {}
  <2>1. Max(lower) \in lower
    BY <1>1, HighestTier
  <2>2. TierNumber[latest(Max(lower))] = Max(lower)
    BY <2>1, LatestRow
  <2>3. /\ state' = [current |-> latest(Max(lower)), candidate |-> none, since |-> 0]
        /\ OpenBetting /\ tripped' = current
    BY <1>1 DEF CheckBreaker, ApplyTierChange
  <2>4. Max(lower) < current
    BY <2>1 DEF tier_to_lower
  <2> HIDE DEF lower
  <2> QED BY <2>2, <2>3, <2>4 DEF current
<1>2. CASE ~(Trips /\ lower # {})
  BY <1>2 DEF CheckBreaker
<1> QED BY <1>1, <1>2

\* Until the next round is created the tier stays below the one it fell from.
LEMMA BreakerHoldsStep ==
    ASSUME TypeOK, BreakerHolds, [Next]_vars
    PROVE  BreakerHolds'
<1>1. CASE Aside
  BY <1>1, AsideStill DEF BreakerHolds, current
<1>2. CASE CreateRound \/ \E i \in Row : set_current_tier_admin(i)
  BY <1>2 DEF CreateRound, set_current_tier_admin, BreakerHolds
<1>3. CASE CheckBreaker
  <2>1. tripped = none
    BY <1>3 DEF CheckBreaker, BreakerHolds
  <2> QED BY <1>3, <2>1, Demoted DEF OpenBetting, At, BreakerHolds
<1>4. CASE evaluate_tier_transition
  BY <1>4 DEF evaluate_tier_transition, BreakerHolds
<1>5. CASE Tick
  BY <1>5 DEF Tick, history, BreakerHolds, current
<1> QED BY <1>1, <1>2, <1>3, <1>4, <1>5, StepKinds

\* No evaluation since a candidate was found has found too little for it.
LEMMA CandidateStep ==
    ASSUME TypeOK, CandidateWaits, [Next]_vars
    PROVE  CandidateWaits'
<1>0. /\ time \in Nat /\ DOMAIN short = {TierNumber[i] : i \in Row}
      /\ \A n \in DOMAIN short : short[n] \in Nat
      /\ state \in [current : rows, candidate : rows \cup {none}, since : Nat]
  BY Constants DEF TypeOK
<1>1. CASE Aside
  BY <1>1, AsideStill DEF CandidateWaits
<1>2. CASE CreateRound
  BY <1>2 DEF CreateRound, CandidateWaits
<1>3. ASSUME NEW i \in Row, set_current_tier_admin(i) PROVE CandidateWaits'
  BY <1>3 DEF set_current_tier_admin, ApplyTierChange, CandidateWaits
<1>4. CASE CheckBreaker
  <2>1. UNCHANGED <<short, time>>
    BY <1>4 DEF CheckBreaker
  <2>2. UNCHANGED state \/ state'.candidate = none
    BY <1>4, Demoted
  <2> QED BY <2>1, <2>2 DEF CandidateWaits
<1>5. CASE evaluate_tier_transition
  <2> DEFINE e == eligible(engine.balance)
             low(n) == n \in numbers /\ engine.balance < MinReserve[latest(n)]
  <2>1. engine.balance \in Int /\ time' = time
    BY <1>5 DEF evaluate_tier_transition, TypeOK, At
  <2>2. /\ e \in rows /\ e \in Row /\ TierNumber[e] \in DOMAIN short /\ TierNumber[e] \in numbers
        /\ TierNumber[e] \in Nat /\ current \in Nat
        /\ TierNumber[e] # current => ~low(TierNumber[e])
    <3>1. e \in rows /\ e \in Row
      BY <2>1, EligibleRow DEF TypeOK
    <3>2. TierNumber[e] # current => MinReserve[latest(TierNumber[e])] <= engine.balance
      BY <2>1, EligibleRow
    <3>3. MinReserve[e] \in Int /\ TierNumber[e] \in Nat /\ current \in Nat
      BY <3>1, Constants DEF current, TypeOK
    <3>4. TierNumber[e] \in numbers /\ TierNumber[e] \in DOMAIN short
      BY <1>0, <3>1 DEF numbers
    <3>5. TierNumber[e] # current => ~low(TierNumber[e])
      <4>1. latest(TierNumber[e]) \in Row
        BY <3>4, LatestRow
      <4>2. MinReserve[latest(TierNumber[e])] \in Int
        BY <4>1, Constants
      <4> HIDE DEF e
      <4> QED BY <2>1, <3>2, <4>2
    <3> QED BY <3>1, <3>3, <3>4, <3>5
  <2>3. /\ DOMAIN short' = DOMAIN short
        /\ \A n \in DOMAIN short : short'[n] = IF low(n) THEN time ELSE short[n]
    BY <1>5 DEF evaluate_tier_transition
  <2>4. \A n \in DOMAIN short' : short'[n] <= time'
    BY <1>0, <2>1, <2>3 DEF CandidateWaits
  <2>5. CASE TierNumber[e] > current
    <3>1. \/ state' = [current |-> e, candidate |-> none, since |-> 0]
          \/ state' = state /\ state.candidate = e
          \/ state' = [state EXCEPT !.candidate = e, !.since = time]
      BY <1>5, <2>2, <2>5 DEF evaluate_tier_transition, ApplyTierChange
    <3>2. short'[TierNumber[e]] = short[TierNumber[e]]
      BY <2>2, <2>3, <2>5
    <3> HIDE DEF e, low
    <3>3. CASE state' = [current |-> e, candidate |-> none, since |-> 0]
      BY <2>4, <3>3 DEF CandidateWaits
    <3>4. CASE state' = state /\ state.candidate = e
      BY <2>4, <3>2, <3>4 DEF CandidateWaits
    <3>5. CASE state' = [state EXCEPT !.candidate = e, !.since = time]
      <4>1. state'.candidate = e /\ state'.since = time
        BY <1>0, <3>5
      <4> QED BY <2>1, <2>2, <2>3, <2>4, <4>1 DEF CandidateWaits
    <3> QED BY <3>1, <3>3, <3>4, <3>5
  <2>6. CASE ~(TierNumber[e] > current)
    <3>1. \/ state' = [current |-> e, candidate |-> none, since |-> 0]
          \/ state' = [state EXCEPT !.candidate = none, !.since = 0]
      BY <1>5, <2>6 DEF evaluate_tier_transition, ApplyTierChange, NoCandidate
    <3> HIDE DEF e
    <3>2. [state EXCEPT !.candidate = none, !.since = 0].candidate = none
      BY <1>0
    <3>3. [current |-> e, candidate |-> none, since |-> 0].candidate = none
      OBVIOUS
    <3>4. state'.candidate = none
      BY <3>1, <3>2, <3>3, Zenon
    <3> QED BY <2>4, <3>4 DEF CandidateWaits
  <2> QED BY <2>5, <2>6
<1>6. CASE Tick
  <2>1. time' = time + 1 /\ UNCHANGED <<state, short>>
    BY <1>6 DEF Tick, history
  <2> QED BY <1>0, <2>1 DEF CandidateWaits
<1> QED BY <1>1, <1>2, <1>3, <1>4, <1>5, <1>6, StepKinds

-----------------------------------------------------------------------------
(***************************************************************************)
(* The reserve.                                                            *)
(***************************************************************************)

\* What is taken is charged, so that the floor stays covered.
LEMMA Charged ==
    ASSUME TypeOK, FloorCovered, NEW amount \in Nat, reserve' = reserve - amount,
           drawing' = taken_from(amount)
    PROVE  FloorCovered'
<1>1. \A a \in Admins : drawing[a] \in [at : {"none", "first", "second", "done"}, floor : Int, taken : Nat]
  BY DEF TypeOK
<1>2. ASSUME NEW a \in Admins, drawing'[a].at = "second"
      PROVE  reserve' + drawing'[a].taken >= drawing'[a].floor + Amount
  <2>1. /\ drawing[a].at = "second" /\ drawing'[a].floor = drawing[a].floor
        /\ drawing'[a].taken = drawing[a].taken + amount
    BY <1>2, TakenType
  <2>2. reserve + drawing[a].taken >= drawing[a].floor + Amount
    BY <2>1 DEF FloorCovered
  <2>3. reserve \in Int /\ drawing[a].taken \in Int /\ drawing[a].floor \in Int /\ Amount \in Int
    BY <1>1, Constants DEF TypeOK
  <2> QED BY <2>1, <2>2, <2>3
<1> QED BY <1>2 DEF FloorCovered

\* What was checked last still leaves the floor, but for what was taken since.
LEMMA FloorStep ==
    ASSUME TypeOK, RowHeld, FloorCovered, [Next]_vars
    PROVE  FloorCovered'
<1>0. /\ \A a \in Admins : drawing[a] \in [at : {"none", "first", "second", "done"}, floor : Int, taken : Nat]
      /\ reserve \in Int /\ Amount \in Nat
  BY Constants DEF TypeOK
<1>1. CASE UNCHANGED drawing /\ reserve' \in Int /\ reserve' >= reserve
  <2>1. ASSUME NEW a \in Admins, drawing[a].at = "second"
        PROVE  reserve' + drawing[a].taken >= drawing[a].floor + Amount
    <3>1. reserve + drawing[a].taken >= drawing[a].floor + Amount
      BY <2>1 DEF FloorCovered
    <3>2. drawing[a].taken \in Int /\ drawing[a].floor \in Int
      BY <1>0
    <3> QED BY <1>0, <1>1, <3>1, <3>2
  <2> QED BY <1>1, <2>1 DEF FloorCovered
<1>2. CASE FailRound
  <2>1. Sold(Last) * Stake \in Nat
    <3>1. Last \in DOMAIN rounds
      BY <1>2, LastRow DEF FailRound, RowHeld
    <3>2. Sold(Last) \in Nat
      BY <3>1, SoldType
    <3> QED BY <3>2, Constants
  <2> QED BY <1>2, <2>1, Charged DEF FailRound
<1>3. ASSUME NEW r \in DOMAIN rounds, Settle(r) PROVE FloorCovered'
  <2>1. PICK wins \in 0 .. Sold(r) :
          reserve' = reserve - wins * Prize /\ drawing' = taken_from(wins * Prize)
    BY <1>3 DEF Settle
  <2>2. wins * Prize \in Nat
    BY SoldType, Constants
  <2> QED BY <2>1, <2>2, Charged
<1>4. ASSUME NEW a \in Admins, WithdrawCheck(a) PROVE FloorCovered'
  <2>1. UNCHANGED reserve /\ drawing' = [drawing EXCEPT ![a] = [@ EXCEPT !.at = "first"]]
    BY <1>4 DEF WithdrawCheck
  <2>2. \A b \in Admins : drawing'[b].at = "second" => drawing'[b] = drawing[b]
    BY <1>0, <2>1 DEF TypeOK
  <2> QED BY <2>1, <2>2 DEF FloorCovered
<1>5. ASSUME NEW a \in Admins, WithdrawRecheck(a) PROVE FloorCovered'
  <2>1. /\ UNCHANGED reserve
        /\ drawing' = [drawing EXCEPT ![a] =
              IF rechecks THEN [at |-> "second", floor |-> config.floor, taken |-> 0]
              ELSE [@ EXCEPT !.at = "done"]]
    BY <1>5 DEF WithdrawRecheck
  <2>2. \A b \in Admins : b # a => drawing'[b] = drawing[b]
    BY <2>1 DEF TypeOK
  <2>3. CASE rechecks
    <3>1. drawing'[a] = [at |-> "second", floor |-> config.floor, taken |-> 0]
      BY <2>1, <2>3 DEF TypeOK
    <3>2. drawing'[a].floor = config.floor /\ drawing'[a].taken = 0
      BY <3>1
    <3>3. config.floor \in Int /\ reserve - Amount >= config.floor
      BY <2>3 DEF TypeOK, rechecks, clears_floor
    <3>4. reserve' + drawing'[a].taken >= drawing'[a].floor + Amount
      BY <1>0, <2>1, <3>2, <3>3
    <3> QED BY <2>1, <2>2, <3>4 DEF FloorCovered
  <2>4. CASE ~rechecks
    <3>1. drawing'[a].at = "done"
      BY <1>0, <2>1, <2>4 DEF TypeOK
    <3> QED BY <2>1, <2>2, <3>1 DEF FloorCovered
  <2> QED BY <2>3, <2>4
<1>6. ASSUME NEW a \in Admins, Withdraw(a) PROVE FloorCovered'
  <2>1. /\ reserve' = reserve - Amount
        /\ drawing' = [taken_from(Amount) EXCEPT ![a] = [at |-> "done", floor |-> 0, taken |-> 0]]
    BY <1>6 DEF Withdraw
  <2>2. drawing'[a].at = "done" /\ \A b \in Admins : b # a => drawing'[b] = taken_from(Amount)[b]
    BY <1>0, <2>1, TakenType
  <2>3. ASSUME NEW b \in Admins, drawing'[b].at = "second"
        PROVE  reserve' + drawing'[b].taken >= drawing'[b].floor + Amount
    <3>1. /\ drawing[b].at = "second" /\ drawing'[b].floor = drawing[b].floor
          /\ drawing'[b].taken = drawing[b].taken + Amount
      <4>1. b # a /\ drawing'[b] = taken_from(Amount)[b]
        BY <2>2, <2>3
      <4>2. Amount \in Nat
        BY <1>0
      <4> QED BY <2>3, <4>1, <4>2, TakenType
    <3>2. reserve + drawing[b].taken >= drawing[b].floor + Amount
      BY <3>1 DEF FloorCovered
    <3>3. drawing[b].taken \in Int /\ drawing[b].floor \in Int
      BY <1>0
    <3> QED BY <1>0, <2>1, <3>1, <3>2, <3>3
  <2> QED BY <2>3 DEF FloorCovered
<1>7. ASSUME NEW u \in Users, Player(u) \/ AllowlistRoutes(u)
      PROVE  UNCHANGED drawing /\ reserve' \in Int /\ reserve' >= reserve
  BY <1>0, <1>7, Constants DEF Player, ReadConfig, LockRound, PlaceTicket, RejectTicket, AllowlistRoutes,
       add_to_beta_allowlist_admin, remove_from_beta_allowlist_admin
<1>8. CASE \/ Engine \/ ConfigRoutes \/ TierRoutes \/ deposit_to_reserve_admin \/ Tick \/ UNCHANGED vars
  <2>1. UNCHANGED drawing /\ (reserve' = reserve \/ reserve' = reserve + Amount)
    BY <1>8 DEF Engine, CreateRound, CheckBreaker, evaluate_tier_transition, CloseBetting, ConfigRoutes,
         create_config_admin, set_keno_enabled_admin, TierRoutes, create_tier_admin,
         set_current_tier_admin, deposit_to_reserve_admin, Tick, vars
  <2> QED BY <1>0, <1>1, <2>1
<1> QED BY <1>1, <1>2, <1>3, <1>4, <1>5, <1>6, <1>7, <1>8 DEF Next, ReserveRoutes

-----------------------------------------------------------------------------
(***************************************************************************)
(* What the runs check.                                                    *)
(***************************************************************************)

\* The inductive invariant: it holds at first, and every step keeps it.
THEOREM InductiveInvariant == Spec => []IndInv
<1>1. Init => IndInv
  <2>1. Init => ~BettingOpen /\ DOMAIN rounds = {} /\ engine.at = "idle"
    BY DEF Init, BettingOpen, Last, At
  <2>2. Init => RowHeld
    BY <2>1, Constants DEF Init, RowHeld, At
  <2>3. Init => CandidateWaits
    BY DEF Init, CandidateWaits
  <2>4. Init => BreakerHolds /\ FloorCovered
    BY DEF Init, BreakerHolds, FloorCovered
  <2>5. Init => ExposureWithinCapacity /\ BreakerWins
    BY <2>1 DEF ExposureWithinCapacity, BreakerWins
  <2> QED BY <2>2, <2>3, <2>4, <2>5, InitType DEF IndInv
<1>2. IndInv /\ [Next]_vars => IndInv'
  BY TypeStep, RowHeldStep, BreakerHoldsStep, CandidateStep, FloorStep, ExposureStep, BreakerStep
     DEF IndInv
<1> QED BY <1>1, <1>2, PTL DEF Spec

\* What a round may lose was within its ceiling, by the tier it was created
\* with, when its last ticket was taken, for any number of players: the ticket
\* that was checked holds the row until it commits (place_ticket).
THEOREM ExposureIsWithinCapacity == Spec => []ExposureWithinCapacity
<1>1. IndInv => ExposureWithinCapacity
  BY DEF IndInv
<1> QED BY <1>1, InductiveInvariant, PTL

\* The round after the breaker tripped has a lower tier than the one it fell
\* from, unless an admin chose one in between (_check_circuit_breaker).
THEOREM BreakerAlwaysWins == Spec => []BreakerWins
<1>1. IndInv => BreakerWins
  BY DEF IndInv
<1> QED BY <1>1, InductiveInvariant, PTL

\* A promotion waits out the whole hold with no evaluation below the threshold
\* of the tier (evaluate_tier_transition).
THEOREM PromotionIsEarned == Spec => PromotionEarned
<1>1. ASSUME IndInv, Next, engine.at = "evaluate", engine'.at = "betting",
             TierNumber[state'.current] > current
      PROVE  time - short[TierNumber[state'.current]] >= Hold
  <2> DEFINE e == eligible(engine.balance)
  <2>0. TypeOK /\ CandidateWaits
    BY <1>1 DEF IndInv
  <2>1. current \in Nat /\ state \in [current : rows, candidate : rows \cup {none}, since : Nat]
    BY <2>0, Constants DEF current, TypeOK
  <2>2. CASE Aside
    <3>1. state' = state
      BY <2>2, AsideStill
    <3> QED BY <1>1, <2>1, <3>1 DEF current
  <2>3. CASE CreateRound \/ CheckBreaker \/ Tick
    BY <1>1, <2>1, <2>3 DEF CreateRound, CheckBreaker, Tick, current
  <2>4. ASSUME NEW i \in Row, set_current_tier_admin(i) PROVE FALSE
    BY <1>1, <2>4 DEF set_current_tier_admin
  <2>5. CASE evaluate_tier_transition
    <3>1. engine.balance \in Int
      BY <2>0, <2>5 DEF evaluate_tier_transition, TypeOK, At
    <3>2. e \in rows /\ e \in Row /\ TierNumber[e] \in Nat
      BY <2>0, <3>1, EligibleRow, Constants DEF TypeOK
    <3>3. \/ /\ state' = [current |-> e, candidate |-> none, since |-> 0]
             /\ state.candidate = e /\ time - state.since >= Hold
          \/ state'.current = state.current
          \/ /\ state' = [current |-> e, candidate |-> none, since |-> 0]
             /\ TierNumber[e] < current
      BY <2>1, <2>5 DEF evaluate_tier_transition, ApplyTierChange, NoCandidate
    <3> HIDE DEF e
    <3>4. state.candidate = e /\ time - state.since >= Hold /\ state'.current = e
      BY <1>1, <2>1, <3>2, <3>3 DEF current
    <3>5. short[TierNumber[e]] <= state.since
      BY <2>0, <3>2, <3>4, Constants DEF CandidateWaits
    <3>6. short[TierNumber[e]] \in Nat /\ state.since \in Nat /\ time \in Nat /\ Hold \in Nat
      BY <2>0, <2>1, <3>2, Constants DEF TypeOK
    <3> QED BY <3>4, <3>5, <3>6
  <2> QED BY <1>1, <2>2, <2>3, <2>4, <2>5, StepKinds
<1>2. IndInv /\ [Next]_vars =>
        [(engine.at = "evaluate" /\ engine'.at = "betting" /\ TierNumber[state'.current] > current)
            => time - short[TierNumber[state'.current]] >= Hold]_vars
  BY <1>1
<1> QED BY <1>2, InductiveInvariant, PTL DEF Spec, PromotionEarned

\* A withdrawal leaves the floor but for what settlements, refunds and other
\* withdrawals took since its last check (withdraw_from_reserve_admin).
THEOREM FloorHolds == Spec => FloorHoldsUnlessOverlapped
<1>1. ASSUME IndInv, NEW a \in Admins, drawing[a].at = "second", reserve' = reserve - Amount
      PROVE  reserve' + drawing[a].taken >= drawing[a].floor
  <2>1. reserve + drawing[a].taken >= drawing[a].floor + Amount
    BY <1>1 DEF IndInv, FloorCovered
  <2>2. drawing[a] \in [at : {"none", "first", "second", "done"}, floor : Int, taken : Nat]
        /\ reserve \in Int /\ Amount \in Nat
    BY <1>1, Constants DEF IndInv, TypeOK
  <2>3. drawing[a].taken \in Int /\ drawing[a].floor \in Int
    BY <2>2
  <2> QED BY <1>1, <2>1, <2>2, <2>3
<1>2. IndInv /\ [Next]_vars =>
        [\A a \in Admins : (drawing[a].at = "second" /\ reserve' = reserve - Amount
                              /\ drawing'[a].at = "done")
            => reserve' + drawing[a].taken >= drawing[a].floor]_vars
  BY <1>1
<1> QED BY <1>2, InductiveInvariant, PTL DEF Spec, FloorHoldsUnlessOverlapped
=============================================================================
