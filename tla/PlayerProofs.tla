---------------------------- MODULE PlayerProofs ----------------------------
(***************************************************************************)
(* Proofs about the two modules that deal with single players.  Wagering,  *)
(* what a player may stake: for any number of stakes, bonuses, requests    *)
(* and days.  Notify, what players are told: for any number of campaigns,  *)
(* players and notices, any batch size and any number of faults.           *)
(***************************************************************************)
EXTENDS Wagering, Notify, SumTheorems

-----------------------------------------------------------------------------
(***************************************************************************)
(* Types and days.                                                         *)
(***************************************************************************)

\* The counts and bounds the proofs use.
LEMMA Constants ==
    /\ Prize \in Nat /\ Life \in Nat /\ MaxTime \in Nat /\ Unlimited \in Nat
    /\ Caps \subseteq Nat /\ \A c \in Caps : c < Unlimited
    /\ KenoStakes \subseteq Stakes /\ IsFiniteSet(Stakes) /\ IsFiniteSet(Bonuses)
    /\ \A s \in Stakes : Amount[s] \in Nat /\ Amount[s] > 0
    /\ \A b \in Bonuses : Worth[b] \in Nat
    /\ none \notin Stakes /\ none \notin Bonuses /\ none # "active" /\ none # "banned"
    /\ SumFunctionOnSet(Amount, Stakes) <= Unlimited
BY WageringAssumption

\* A day starts no earlier than the one before.
LEMMA DaysInOrder ==
    /\ \A t \in Times : DayOf(t) \in Days /\ DayOf(t) \in Nat
    /\ Days \subseteq Nat
    /\ 0 \in Times /\ DayOf(0) = 0
    /\ \A t \in Times : t + 1 \in Times => DayOf(t) <= DayOf(t + 1)
<1>1. \A t \in Nat : t \div 2 \in Nat /\ t \div 2 <= (t + 1) \div 2
  OBVIOUS
<1>2. 0 \div 2 = 0
  OBVIOUS
<1>3. Times \subseteq Nat /\ 0 \in Times
  BY Constants DEF Times
<1> QED BY <1>1, <1>2, <1>3 DEF Days, DayOf, HalfDays

\* What a request reads and what a check compares with are amounts.
LEMMA EffectiveType ==
    ASSUME TypeOK, NEW t
    PROVE  Effective(limits, t) \in Nat
<1>1. limits.cap \in Nat /\ limits.pending \in Nat
  BY DEF TypeOK
<1> QED BY <1>1 DEF Effective

\* The initial state has its type.
LEMMA InitType == Init => TypeOK
<1> SUFFICES ASSUME Init PROVE TypeOK
  OBVIOUS
<1>0. Never \in Nat
  BY Constants DEF Never
<1>1. now \in Times /\ 0 \in Days
  BY DaysInOrder DEF Init
<1>2. stake \in [Stakes -> Stake]
  BY <1>1 DEF Init, Stake
<1>3. limits \in [cap : Nat, pending : Nat, at : Nat]
  <2>1. Caps \cup {Unlimited} \subseteq Nat
    BY Constants
  <2> QED BY <1>0, <2>1 DEF Init
<1>4. lowered \in [cap : Nat, raised : Nat, overlap : BOOLEAN]
  BY <1>0, <1>3 DEF Init
<1>5. bonus \in [Bonuses -> BonusRow]
  BY <1>0, Constants DEF Init, BonusRow
<1>6. inForce \in [Days -> Nat]
  BY <1>3, Constants DEF Init
<1>7. request \in [Requests -> [step : {"idle", "read", "done"}, cap : Nat, saw : Nat]]
  BY DEF Init
<1> QED BY <1>1, <1>2, <1>3, <1>4, <1>5, <1>6, <1>7 DEF Init, TypeOK, Idle

\* What a change of limits or of the time makes of the history.
LEMMA RememberType ==
    ASSUME TypeOK, NEW l, NEW t \in Times, Effective(l, t) \in Nat, Remember(l, t)
    PROVE  /\ inForce' \in [Days -> Nat]
           /\ \A d \in Days : inForce[d] <= inForce'[d]
           /\ Effective(l, t) <= inForce'[DayOf(t)]
<1>1. DayOf(t) \in Days /\ inForce \in [Days -> Nat]
  BY DaysInOrder DEF TypeOK
<1>2. inForce' = [inForce EXCEPT ![DayOf(t)] = Higher(inForce[DayOf(t)], Effective(l, t))]
  BY DEF Remember
<1>3. \A a, b \in Nat : Higher(a, b) \in Nat /\ a <= Higher(a, b) /\ b <= Higher(a, b)
  BY DEF Higher
<1> DEFINE x == Effective(l, t)
<1>4. x \in Nat
  OBVIOUS
<1>5. inForce' = [inForce EXCEPT ![DayOf(t)] = Higher(inForce[DayOf(t)], x)]
  BY <1>2
<1> HIDE DEF x
<1>6. inForce[DayOf(t)] \in Nat
  BY <1>1
<1>7. inForce'[DayOf(t)] = Higher(inForce[DayOf(t)], x) /\ inForce' \in [Days -> Nat]
  BY <1>1, <1>3, <1>4, <1>5, <1>6
<1>8. \A d \in Days : d # DayOf(t) => inForce'[d] = inForce[d]
  BY <1>1, <1>5
<1>9. ASSUME NEW d \in Days PROVE inForce[d] <= inForce'[d]
  <2>1. inForce[d] \in Nat
    BY <1>1
  <2>2. inForce[d] <= inForce[d]
    BY <2>1
  <2>3. CASE d = DayOf(t)
    BY <1>3, <1>4, <1>6, <1>7, <2>3
  <2> QED BY <1>8, <2>2, <2>3
<1> QED BY <1>3, <1>4, <1>6, <1>7, <1>9 DEF x

\* Every step but the sweep's and the clock's keeps the types.
LEMMA TypeStep == TypeOK /\ [Next]_vars => TypeOK'
<1> SUFFICES ASSUME TypeOK, [Next]_vars
             PROVE  TypeOK'
  OBVIOUS
<1> USE DEF TypeOK
<1>0. /\ Never \in Nat /\ HalfDays = 2 /\ Times \subseteq Nat /\ DayOf(now) \in Days
  BY Constants, DaysInOrder DEF Never, HalfDays, Times
<1>1. ASSUME NEW r \in Requests, ReadLimits(r) PROVE TypeOK'
  <2>1. PICK c \in Caps : request' = [request EXCEPT ![r] =
                             [step |-> "read", cap |-> c, saw |-> Effective(limits, now)]]
    BY <1>1 DEF ReadLimits
  <2>2. [step |-> "read", cap |-> c, saw |-> Effective(limits, now)]
          \in [step : {"idle", "read", "done"}, cap : Nat, saw : Nat]
    <3>1. c \in Nat /\ Effective(limits, now) \in Nat
      BY EffectiveType, Constants
    <3> QED BY <3>1
  <2>3. request' \in [Requests -> [step : {"idle", "read", "done"}, cap : Nat, saw : Nat]]
    BY <2>1, <2>2
  <2>4. lowered' \in [cap : Nat, raised : Nat, overlap : BOOLEAN]
    <3>1. PICK b \in BOOLEAN : lowered' = [lowered EXCEPT !.overlap = b]
      BY <1>1 DEF ReadLimits
    <3> QED BY <3>1
  <2> QED BY <1>1, <2>3, <2>4 DEF ReadLimits
<1>2. ASSUME NEW r \in Requests, SetLossLimit(r) PROVE TypeOK'
  <2> DEFINE c == request[r].cap
  <2>0. c \in Nat /\ now \in Nat /\ now + HalfDays \in Nat
    BY <1>0
  <2>1. \/ limits' = [cap |-> c, pending |-> 0, at |-> Never]
        \/ limits' = [limits EXCEPT !.pending = c, !.at = now + HalfDays]
    BY <1>2 DEF SetLossLimit
  <2>2. limits' \in [cap : Nat, pending : Nat, at : Nat]
    <3>1. [cap |-> c, pending |-> 0, at |-> Never] \in [cap : Nat, pending : Nat, at : Nat]
      BY <1>0, <2>0
    <3>2. [limits EXCEPT !.pending = c, !.at = now + HalfDays] \in [cap : Nat, pending : Nat, at : Nat]
      BY <2>0
    <3> QED BY <2>1, <3>1, <3>2
  <2>3. request' \in [Requests -> [step : {"idle", "read", "done"}, cap : Nat, saw : Nat]]
    BY <1>2 DEF SetLossLimit
  <2>4. \/ lowered' = [lowered EXCEPT !.cap = c, !.raised = Never]
        \/ lowered' = [lowered EXCEPT !.raised = now]
        \/ lowered' = [lowered EXCEPT !.raised = lowered.raised]
    BY <1>2 DEF SetLossLimit, AskedFor
  <2>5. lowered' \in [cap : Nat, raised : Nat, overlap : BOOLEAN]
    BY <1>0, <2>0, <2>4
  <2>6. Effective(limits', now) \in Nat
    BY <2>2 DEF Effective
  <2>7. inForce' \in [Days -> Nat]
    BY <1>2, <2>6, RememberType DEF SetLossLimit
  <2> QED BY <1>2, <2>2, <2>3, <2>5, <2>7 DEF SetLossLimit
<1>3. CASE CoolOff \/ SelfExclude \/ StatusRoute
  BY <1>3 DEF CoolOff, SelfExclude, StatusRoute, ReadStatus, WriteStatus
<1>4. ASSUME NEW s \in Stakes, NEW row \in Stake, stake' = [stake EXCEPT ![s] = row]
      PROVE  stake' \in [Stakes -> Stake]
  BY <1>4
<1>5. ASSUME NEW s \in Stakes, Begin(s) \/ CheckStake(s) \/ RefuseStake(s) \/ Commit(s) \/ EndStake(s)
      PROVE  TypeOK'
  <2>0. stake[s] \in Stake /\ Refused \in Stake
    BY DaysInOrder DEF Refused, Stake
  <2>1. CASE Begin(s)
    <3>1. [stake[s] EXCEPT !.status = "waiting", !.day = DayOf(now)] \in Stake
      BY <1>0, <2>0 DEF Stake
    <3>2. stake' \in [Stakes -> Stake]
      BY <1>4, <2>1, <3>1 DEF Begin
    <3> QED BY <2>1, <3>2 DEF Begin
  <2>2. CASE CheckStake(s)
    <3>1. [stake[s] EXCEPT !.status = "checked", !.late = DayOf(now) # stake[s].day] \in Stake
      BY <2>0 DEF Stake
    <3>2. stake' \in [Stakes -> Stake]
      BY <1>4, <2>2, <3>1 DEF CheckStake
    <3> QED BY <2>2, <3>2 DEF CheckStake
  <2>3. CASE RefuseStake(s)
    BY <2>0, <2>3 DEF RefuseStake
  <2>4. CASE Commit(s)
    <3>1. [stake[s] EXCEPT !.status = "open"] \in Stake
      BY <2>0 DEF Stake
    <3>2. stake' \in [Stakes -> Stake]
      BY <1>4, <2>0, <2>4, <3>1 DEF Commit
    <3> QED BY <2>4, <3>2 DEF Commit
  <2>5. CASE EndStake(s)
    <3>1. \A end \in {"won", "lost", "refunded"} :
            [stake[s] EXCEPT !.status = end, !.ended = DayOf(now)] \in Stake
      BY <1>0, <2>0 DEF Stake
    <3>2. stake' \in [Stakes -> Stake]
      BY <1>4, <2>5, <3>1 DEF EndStake
    <3> QED BY <2>5, <3>2 DEF EndStake
  <2> QED BY <1>5, <2>1, <2>2, <2>3, <2>4, <2>5
<1>e. ASSUME NEW b \in Bonuses, NEW end \in {"converted", "expired", "revoked"}, EndBonus(b, end)
      PROVE  bonus' \in [Bonuses -> BonusRow]
  <2>1. [bonus[b] EXCEPT !.status = end] \in BonusRow
    BY DEF BonusRow
  <2>2. bonus' = bonus \/ bonus' = [bonus EXCEPT ![b] = [bonus[b] EXCEPT !.status = end]]
    BY <1>e DEF EndBonus
  <2> QED BY <2>1, <2>2
<1>6. ASSUME NEW b \in Bonuses, grant_manual_bonus_admin(b) \/ revoke_bonus_admin(b) PROVE TypeOK'
  <2>1. CASE grant_manual_bonus_admin(b)
    <3>1. now + Life \in Nat
      BY <1>0, Constants
    <3>2. [status |-> "active", expires |-> now + Life, before |-> {s \in Stakes : stake[s].status # "none"}]
            \in BonusRow
      BY <3>1 DEF BonusRow
    <3>3. bonus' \in [Bonuses -> BonusRow]
      BY <2>1, <3>2 DEF grant_manual_bonus_admin, grant_bonus
    <3> QED BY <2>1, <3>3 DEF grant_manual_bonus_admin
  <2>2. CASE revoke_bonus_admin(b)
    BY <1>e, <2>2 DEF revoke_bonus_admin, revoke_bonus
  <2> QED BY <1>6, <2>1, <2>2
<1>7. ASSUME NEW b \in Bonuses PROVE wagering_progress(b) \in Int
  <2> DEFINE S == {s \in Committed \ (KenoStakes \cup bonus[b].before) : stake[s].status # "refunded"}
  <2>1. IsFiniteSet(S) /\ \A s \in S : Amount[s] \in Int
    <3>1. S \subseteq Stakes
      BY DEF Committed
    <3> QED BY <3>1, FS_Subset, Constants
  <2> HIDE DEF S
  <2>2. SumFunctionOnSet(Amount, S) \in Int
    BY <2>1, SumInt
  <2> QED BY <2>2 DEF wagering_progress, S
<1>8. CASE sweep_bonus_wagering
  <2>0. [sweep EXCEPT !.at = none, !.progress = 0]
           \in [todo : SUBSET Bonuses, at : Bonuses \cup {none}, progress : Int]
    <3>1. 0 \in Int /\ none \in Bonuses \cup {none}
      OBVIOUS
    <3> QED BY <3>1, Zenon
  <2>1. CASE SweepList
    BY <2>1 DEF SweepList, ActiveBonuses, Idle
  <2>2. CASE SweepRead
    <3>1. PICK b \in sweep.todo :
            sweep' = [todo |-> sweep.todo \ {b}, at |-> b, progress |-> wagering_progress(b)]
      BY <2>2 DEF SweepRead
    <3>2. b \in Bonuses /\ wagering_progress(b) \in Int
      BY <1>7
    <3> QED BY <2>2, <3>1, <3>2 DEF SweepRead
  <2>3. CASE convert_bonus_to_cash \/ expire_bonus
    <3>1. /\ sweep' = [sweep EXCEPT !.at = none, !.progress = 0] /\ sweep.at \in Bonuses
          /\ EndBonus(sweep.at, "converted") \/ EndBonus(sweep.at, "expired")
      BY <2>3 DEF convert_bonus_to_cash, expire_bonus, SweepEnd
    <3>2. bonus' \in [Bonuses -> BonusRow]
      BY <1>e, <3>1
    <3>3. sweep' \in [todo : SUBSET Bonuses, at : Bonuses \cup {none}, progress : Int]
      BY <2>0, <3>1
    <3> QED BY <2>3, <3>2, <3>3 DEF convert_bonus_to_cash, expire_bonus, SweepEnd
  <2>4. CASE SweepPass
    <3>1. sweep' \in [todo : SUBSET Bonuses, at : Bonuses \cup {none}, progress : Int]
      BY <2>0, <2>4 DEF SweepPass
    <3> QED BY <2>4, <3>1 DEF SweepPass
  <2>5. CASE SweepFails
    <3>1. sweep' \in [todo : SUBSET Bonuses, at : Bonuses \cup {none}, progress : Int]
      BY <2>5 DEF SweepFails, Idle
    <3> QED BY <2>5, <3>1 DEF SweepFails
  <2> QED BY <1>8, <2>1, <2>2, <2>3, <2>4, <2>5 DEF sweep_bonus_wagering
<1>9. CASE Tick
  <2>1. now' \in Times
    BY <1>0, <1>9, Constants DEF Tick, Times
  <2>2. inForce' \in [Days -> Nat]
    BY <1>9, <2>1, EffectiveType, RememberType DEF Tick
  <2> QED BY <1>9, <2>1, <2>2 DEF Tick
<1>10. CASE UNCHANGED vars
  BY <1>10 DEF vars
<1> QED BY <1>1, <1>2, <1>3, <1>5, <1>6, <1>8, <1>9, <1>10 DEF Next, LimitsCommand, StakeTransaction, BonusRoutes

\* What a step may change, by the part of the state it is about.
LEMMA StepKinds ==
    ASSUME [Next]_vars
    PROVE  \/ \E s \in Stakes : Begin(s) \/ CheckStake(s) \/ RefuseStake(s) \/ Commit(s) \/ EndStake(s)
           \/ \E r \in Requests : ReadLimits(r) \/ SetLossLimit(r)
           \/ Tick
           \/ CoolOff \/ SelfExclude \/ ReadStatus \/ WriteStatus
           \/ UNCHANGED <<now, status, limits, request, admin, stake, lock, inForce, lowered>>
<1>1. CASE LimitsCommand
  BY <1>1, Zenon DEF LimitsCommand
<1>2. CASE StatusRoute
  BY <1>2, Zenon DEF StatusRoute
<1>3. CASE StakeTransaction
  BY <1>3, Zenon DEF StakeTransaction
<1>4. CASE BonusRoutes
  BY <1>4 DEF BonusRoutes, grant_manual_bonus_admin, revoke_bonus_admin
<1>5. CASE sweep_bonus_wagering
  BY <1>5 DEF sweep_bonus_wagering, SweepList, SweepRead, convert_bonus_to_cash, expire_bonus,
              SweepEnd, SweepPass, SweepFails
<1>6. CASE UNCHANGED vars
  BY <1>6 DEF vars
<1> QED BY <1>1, <1>2, <1>3, <1>4, <1>5, <1>6, Zenon DEF Next

-----------------------------------------------------------------------------
(***************************************************************************)
(* Locks and dates.                                                        *)
(***************************************************************************)

\* The locks are as they should be after every step.
LEMMA LocksStep == TypeOK /\ LocksHeld /\ [Next]_vars => LocksHeld'
<1> SUFFICES ASSUME TypeOK, LocksHeld, [Next]_vars
             PROVE  LocksHeld'
  OBVIOUS
<1>0. /\ none \notin Stakes /\ none # "active" /\ none # "banned" /\ KenoStakes \subseteq Stakes
      /\ stake \in [Stakes -> Stake] /\ admin \in {none, "active", "banned"}
  BY Constants DEF TypeOK
<1> USE DEF LocksHeld
<1>1. ASSUME NEW s \in Stakes, Begin(s) \/ CheckStake(s) \/ RefuseStake(s) \/ Commit(s) \/ EndStake(s)
      PROVE  LocksHeld'
  <2>0. stake[s] \in Stake
    BY <1>0
  <2>1. CASE Begin(s)
    <3>1. \A q \in Stakes : stake'[q].status = IF q = s THEN "waiting" ELSE stake[q].status
      BY <1>0, <2>0, <2>1 DEF Begin, Stake
    <3>2. stake[s].status = "none" /\ lock # s
      BY <2>1 DEF Begin
    <3>3. UNCHANGED <<lock, admin, status>>
      BY <2>1 DEF Begin
    <3> QED BY <3>1, <3>2, <3>3
  <2>2. CASE CheckStake(s)
    <3>1. \A q \in Stakes : stake'[q].status = IF q = s THEN "checked" ELSE stake[q].status
      BY <1>0, <2>0, <2>2 DEF CheckStake, Stake
    <3> QED BY <1>0, <2>2, <3>1 DEF CheckStake, TakesLock, check_stake_allowed, check_play_allowed
  <2>3. CASE RefuseStake(s)
    <3>1. \A q \in Stakes : stake'[q].status = IF q = s THEN "refused" ELSE stake[q].status
      BY <1>0, <2>0, <2>3 DEF RefuseStake, Refused
    <3> QED BY <1>0, <2>3, <3>1 DEF RefuseStake, TakesLock
  <2>4. CASE Commit(s)
    <3>1. \A q \in Stakes : IF q = s THEN stake'[q].status \in {"open", "refused"}
                            ELSE stake'[q].status = stake[q].status
      BY <1>0, <2>0, <2>4 DEF Commit, Refused, Stake
    <3> QED BY <1>0, <2>4, <3>1 DEF Commit
  <2>5. CASE EndStake(s)
    <3>1. \A q \in Stakes : IF q = s THEN stake'[q].status \in {"won", "lost", "refunded"}
                            ELSE stake'[q].status = stake[q].status
      BY <1>0, <2>0, <2>5 DEF EndStake, Stake
    <3> QED BY <1>0, <2>5, <3>1 DEF EndStake
  <2> QED BY <1>1, <2>1, <2>2, <2>3, <2>4, <2>5
<1>2. ASSUME NEW r \in Requests, ReadLimits(r) \/ SetLossLimit(r) PROVE LocksHeld'
  BY <1>2 DEF ReadLimits, SetLossLimit
<1>3. CASE Tick
  BY <1>3 DEF Tick
<1>4. CASE CoolOff \/ SelfExclude \/ ReadStatus
  BY <1>0, <1>4 DEF CoolOff, SelfExclude, ReadStatus, RowLocked
<1>5. CASE WriteStatus
  BY <1>0, <1>5 DEF WriteStatus
<1>6. CASE UNCHANGED <<now, status, limits, request, admin, stake, lock, inForce, lowered>>
  BY <1>6
<1> QED BY <1>1, <1>2, <1>3, <1>4, <1>5, <1>6, StepKinds

\* Dates stay behind the clock, and ends behind beginnings.
LEMMA DatedStep == TypeOK /\ Dated /\ [Next]_vars => Dated'
<1> SUFFICES ASSUME TypeOK, Dated, [Next]_vars
             PROVE  Dated'
  OBVIOUS
<1>0. /\ stake \in [Stakes -> Stake] /\ now \in Times
      /\ DayOf(now) \in Nat /\ DayOf(now) \in Days /\ Days \subseteq Nat
  BY DaysInOrder DEF TypeOK
<1>d. Refused.day <= DayOf(now) /\ Refused.ended <= DayOf(now) /\ Refused.status = "refused"
  BY <1>0 DEF Refused
<1>r. ASSUME NEW s \in Stakes, NEW row, stake' = [stake EXCEPT ![s] = row], now' = now,
             row.day <= DayOf(now), row.ended <= DayOf(now),
             row.status \in {"won", "lost", "refunded"} => row.day <= row.ended
      PROVE  Dated'
  <2>1. \A q \in Stakes : stake'[q] = IF q = s THEN row ELSE stake[q]
    BY <1>0, <1>r
  <2>2. DayOf(now)' = DayOf(now)
    BY <1>r DEF DayOf
  <2> QED BY <1>r, <2>1, <2>2 DEF Dated
<1>1. ASSUME NEW s \in Stakes, Begin(s) \/ CheckStake(s) \/ RefuseStake(s) \/ Commit(s) \/ EndStake(s)
      PROVE  Dated'
  <2>0. /\ stake[s] \in Stake /\ stake[s].day <= DayOf(now) /\ stake[s].ended <= DayOf(now)
        /\ DayOf(now) <= DayOf(now)
    BY <1>0 DEF Dated
  <2>1. CASE Begin(s)
    <3> DEFINE row == [stake[s] EXCEPT !.status = "waiting", !.day = DayOf(now)]
    <3>1. row.day = DayOf(now) /\ row.ended = stake[s].ended /\ row.status = "waiting"
      BY <2>0 DEF Stake
    <3>2. stake' = [stake EXCEPT ![s] = row] /\ now' = now
      BY <2>1 DEF Begin
    <3> HIDE DEF row
    <3> QED BY <1>r, <2>0, <3>1, <3>2
  <2>2. CASE CheckStake(s)
    <3> DEFINE row == [stake[s] EXCEPT !.status = "checked", !.late = DayOf(now) # stake[s].day]
    <3>1. row.day = stake[s].day /\ row.ended = stake[s].ended /\ row.status = "checked"
      BY <2>0 DEF Stake
    <3>2. stake' = [stake EXCEPT ![s] = row] /\ now' = now
      BY <2>2 DEF CheckStake
    <3> HIDE DEF row
    <3> QED BY <1>r, <2>0, <3>1, <3>2
  <2>3. CASE RefuseStake(s)
    BY <1>d, <1>r, <2>3 DEF RefuseStake
  <2>4. CASE Commit(s)
    <3> DEFINE row == [stake[s] EXCEPT !.status = "open"]
    <3>1. row.day = stake[s].day /\ row.ended = stake[s].ended /\ row.status = "open"
      BY <2>0 DEF Stake
    <3>2. stake' = [stake EXCEPT ![s] = row] \/ stake' = [stake EXCEPT ![s] = Refused]
      BY <2>4 DEF Commit
    <3>3. now' = now
      BY <2>4 DEF Commit
    <3> HIDE DEF row
    <3> QED BY <1>d, <1>r, <2>0, <3>1, <3>2, <3>3
  <2>5. CASE EndStake(s)
    <3>1. PICK end \in {"won", "lost", "refunded"} :
             stake' = [stake EXCEPT ![s] = [stake[s] EXCEPT !.status = end, !.ended = DayOf(now)]]
      BY <2>5 DEF EndStake
    <3> DEFINE row == [stake[s] EXCEPT !.status = end, !.ended = DayOf(now)]
    <3>2. row.day = stake[s].day /\ row.ended = DayOf(now)
      BY <2>0 DEF Stake
    <3>3. stake' = [stake EXCEPT ![s] = row] /\ now' = now
      BY <2>5, <3>1 DEF EndStake
    <3> HIDE DEF row
    <3> QED BY <1>r, <2>0, <3>2, <3>3
  <2> QED BY <1>1, <2>1, <2>2, <2>3, <2>4, <2>5
<1>s. ASSUME UNCHANGED <<now, stake>> PROVE Dated'
  BY <1>s DEF Dated, DayOf
<1>2. ASSUME NEW r \in Requests, ReadLimits(r) \/ SetLossLimit(r) PROVE Dated'
  BY <1>s, <1>2 DEF ReadLimits, SetLossLimit
<1>3. CASE Tick
  <2>1. now + 1 \in Times
    BY <1>0, <1>3, Constants DEF Tick, Times
  <2>2. DayOf(now) <= DayOf(now + 1) /\ DayOf(now + 1) \in Nat
    BY <1>0, <2>1, DaysInOrder
  <2>3. DayOf(now)' = DayOf(now + 1) /\ stake' = stake
    BY <1>3 DEF Tick, DayOf
  <2>4. \A s \in Stakes : stake[s].day \in Nat /\ stake[s].ended \in Nat
    BY <1>0 DEF Stake
  <2> QED BY <1>0, <2>2, <2>3, <2>4 DEF Dated
<1>4. CASE CoolOff \/ SelfExclude \/ ReadStatus \/ WriteStatus
  BY <1>s, <1>4 DEF CoolOff, SelfExclude, ReadStatus, WriteStatus
<1>5. CASE UNCHANGED <<now, status, limits, request, admin, stake, lock, inForce, lowered>>
  BY <1>s, <1>5
<1> QED BY <1>1, <1>2, <1>3, <1>4, <1>5, StepKinds

-----------------------------------------------------------------------------
(***************************************************************************)
(* What a day cost.                                                        *)
(***************************************************************************)

\* Any set of stakes is finite, and adds up to no more than all of them.
LEMMA StakeSums ==
    ASSUME NEW S \in SUBSET Stakes
    PROVE  /\ IsFiniteSet(S) /\ Cardinality(S) \in Nat
           /\ SumFunctionOnSet(Amount, S) \in Nat
           /\ SumFunctionOnSet(Amount, S) <= Unlimited
<1>1. IsFiniteSet(Stakes) /\ \A x \in Stakes : Amount[x] \in Nat
  BY Constants
<1>2. IsFiniteSet(S) /\ IsFiniteSet(Stakes \ S)
  BY <1>1, FS_Subset
<1>3. Cardinality(S) \in Nat
  BY <1>2, FS_CardinalityType
<1>4. SumFunctionOnSet(Amount, S) \in Nat /\ SumFunctionOnSet(Amount, Stakes \ S) \in Nat
  <2>1. \A x \in S : Amount[x] \in Nat
    BY <1>1
  <2>2. \A x \in Stakes \ S : Amount[x] \in Nat
    BY <1>1
  <2> QED BY <1>2, <2>1, <2>2, SumNat
<1>5. SumFunctionOnSet(Amount, Stakes)
        = SumFunctionOnSet(Amount, S) + SumFunctionOnSet(Amount, Stakes \ S)
  <2>1. S \union (Stakes \ S) = Stakes /\ S \intersect (Stakes \ S) = {}
    OBVIOUS
  <2>2. \A x \in (Stakes \ S) \union S : Amount[x] \in Int
    BY <1>1
  <2> QED BY <1>2, <2>1, <2>2, SumUnion
<1>6. Unlimited \in Nat /\ SumFunctionOnSet(Amount, Stakes) <= Unlimited
  BY Constants
<1> QED BY <1>2, <1>3, <1>4, <1>5, <1>6

\* One more stake adds its amount, one fewer takes it away.
LEMMA StakeAdded ==
    ASSUME NEW S \in SUBSET Stakes, NEW s \in Stakes, s \notin S
    PROVE  /\ SumFunctionOnSet(Amount, S \union {s}) = SumFunctionOnSet(Amount, S) + Amount[s]
           /\ Cardinality(S \union {s}) = Cardinality(S) + 1
<1>1. IsFiniteSet(S) /\ \A y \in S \union {s} : Amount[y] \in Int
  BY Constants, StakeSums
<1>2. SumFunctionOnSet(Amount, S \union {s}) = SumFunctionOnSet(Amount, S) + Amount[s]
  BY <1>1, SumAdd
<1>3. Cardinality(S \union {s}) = Cardinality(S) + 1
  BY <1>1, FS_AddElement
<1> QED BY <1>2, <1>3

\* The loss of a day is an integer.
LEMMA LossType ==
    ASSUME NEW S \in SUBSET Stakes, NEW W \in SUBSET Stakes
    PROVE  /\ SumFunctionOnSet(Amount, S) - Prize * Cardinality(W) \in Int
           /\ SumFunctionOnSet(Amount, S) - Prize * Cardinality(W) <= SumFunctionOnSet(Amount, S)
<1>1. SumFunctionOnSet(Amount, S) \in Nat /\ Cardinality(W) \in Nat /\ Prize \in Nat
  BY StakeSums, Constants
<1>2. \A p, n \in Nat : p * n \in Nat
  OBVIOUS
<1>3. Prize * Cardinality(W) \in Nat
  BY <1>1, <1>2
<1> HIDE DEF SumFunctionOnSet
<1> QED BY <1>1, <1>3

\* The same sets make the same loss.
LEMMA LossOf ==
    ASSUME NEW d, Standing(d)' = Standing(d), WonOn(d)' = WonOn(d)
    PROVE  DayLoss(d)' = DayLoss(d)
BY DEF DayLoss

\* Standing and winning stakes are stakes.
LEMMA LossSets ==
    ASSUME NEW d
    PROVE  /\ Standing(d) \subseteq Stakes /\ WonOn(d) \subseteq Stakes
           /\ Standing(d)' \subseteq Stakes /\ WonOn(d)' \subseteq Stakes
           /\ DayLoss(d) \in Int /\ DayLoss(d)' \in Int
<1>1. /\ Standing(d) \subseteq Stakes /\ WonOn(d) \subseteq Stakes
      /\ Standing(d)' \subseteq Stakes /\ WonOn(d)' \subseteq Stakes
  BY DEF Standing, WonOn, Committed
<1> QED BY <1>1, LossType DEF DayLoss

\* The statuses of a stake whose money has moved.
Moved == {"open", "won", "lost", "refunded"}

\* A stake that moves no money changes no day's loss.
LEMMA QuietStake ==
    ASSUME TypeOK, NEW s \in Stakes, NEW row, stake' = [stake EXCEPT ![s] = row],
           stake[s].status \notin Moved, row.status \notin Moved, NEW d
    PROVE  DayLoss(d)' = DayLoss(d) /\ (NoneLate(d)' <=> NoneLate(d))
<1>1. \A q \in Stakes : stake'[q] = IF q = s THEN row ELSE stake[q]
  BY DEF TypeOK
<1>2. s \notin Committed /\ s \notin Committed' /\ Committed' = Committed
  BY <1>1 DEF Committed, Moved
<1>3. Committed \subseteq Stakes
  BY DEF Committed
<1>4. Standing(d)' = Standing(d)
  BY <1>1, <1>2, <1>3 DEF Standing
<1>5. WonOn(d)' = WonOn(d)
  BY <1>1 DEF WonOn, Moved
<1>6. NoneLate(d)' <=> NoneLate(d)
  BY <1>1, <1>2, <1>3 DEF NoneLate
<1> QED BY <1>4, <1>5, <1>6, LossOf

\* A commit adds the stake to the loss of its day.
LEMMA CommittedStake ==
    ASSUME TypeOK, NEW s \in Stakes, stake' = [stake EXCEPT ![s] = [stake[s] EXCEPT !.status = "open"]],
           stake[s].status = "checked", NEW d
    PROVE  /\ d # stake[s].day => DayLoss(d)' = DayLoss(d)
           /\ d = stake[s].day => DayLoss(d)' = DayLoss(d) + Amount[s]
           /\ NoneLate(d)' => NoneLate(d)
           /\ d = stake[s].day /\ NoneLate(d)' => ~stake[s].late
<1>0. stake[s] \in Stake /\ stake \in [Stakes -> Stake]
  BY DEF TypeOK
<1>1. /\ \A q \in Stakes : q # s => stake'[q] = stake[q]
      /\ stake'[s].status = "open" /\ stake'[s].day = stake[s].day
      /\ stake'[s].ended = stake[s].ended /\ stake'[s].late = stake[s].late
  BY <1>0 DEF Stake
<1>2. s \notin Committed /\ Committed' = Committed \union {s} /\ Committed \subseteq Stakes
  BY <1>1 DEF Committed
<1>3. WonOn(d)' = WonOn(d)
  BY <1>1 DEF WonOn
<1>4. d # stake[s].day => Standing(d)' = Standing(d)
  BY <1>1, <1>2 DEF Standing
<1>5. d = stake[s].day => Standing(d)' = Standing(d) \union {s} /\ s \notin Standing(d)
  BY <1>1, <1>2 DEF Standing
<1>6. (NoneLate(d)' => NoneLate(d)) /\ (d = stake[s].day /\ NoneLate(d)' => ~stake[s].late)
  BY <1>1, <1>2 DEF NoneLate
<1>7. ASSUME d = stake[s].day PROVE DayLoss(d)' = DayLoss(d) + Amount[s]
  <2>1. /\ DayLoss(d)' = SumFunctionOnSet(Amount, Standing(d)') - Prize * Cardinality(WonOn(d)')
        /\ DayLoss(d) = SumFunctionOnSet(Amount, Standing(d)) - Prize * Cardinality(WonOn(d))
    BY DEF DayLoss
  <2>2. SumFunctionOnSet(Amount, Standing(d)') = SumFunctionOnSet(Amount, Standing(d)) + Amount[s]
    BY <1>5, <1>7, LossSets, StakeAdded
  <2> DEFINE P == Prize * Cardinality(WonOn(d))
             A == SumFunctionOnSet(Amount, Standing(d))
  <2>3. P \in Int /\ A \in Int /\ Amount[s] \in Int
    <3>1. Cardinality(WonOn(d)) \in Nat /\ A \in Nat /\ Prize \in Nat /\ Amount[s] \in Nat
      BY LossSets, StakeSums, Constants
    <3> QED BY <3>1
  <2>4. DayLoss(d)' = (A + Amount[s]) - P /\ DayLoss(d) = A - P
    BY <2>1, <2>2, <1>3
  <2> HIDE DEF P, A
  <2> QED BY <2>3, <2>4
<1> QED BY <1>3, <1>4, <1>6, <1>7, LossOf

\* The end of a stake raises no day's loss.
LEMMA EndedStake ==
    ASSUME TypeOK, NEW s \in Stakes, NEW end \in {"won", "lost", "refunded"}, NEW t \in Nat,
           stake' = [stake EXCEPT ![s] = [stake[s] EXCEPT !.status = end, !.ended = t]],
           stake[s].status = "open", NEW d
    PROVE  DayLoss(d)' <= DayLoss(d) /\ (NoneLate(d)' => NoneLate(d))
<1>0. stake[s] \in Stake /\ stake \in [Stakes -> Stake]
  BY DEF TypeOK
<1>1. /\ \A q \in Stakes : q # s => stake'[q] = stake[q]
      /\ stake'[s].status = end /\ stake'[s].day = stake[s].day
      /\ stake'[s].ended = t /\ stake'[s].late = stake[s].late
  BY <1>0 DEF Stake
<1>2. s \in Committed /\ Committed' = Committed /\ Committed \subseteq Stakes
  BY <1>1 DEF Committed
<1>3. NoneLate(d)' => NoneLate(d)
  BY <1>1, <1>2 DEF NoneLate
<1>4. \/ Standing(d)' = Standing(d)
      \/ Standing(d)' = Standing(d) \ {s} /\ s \in Standing(d)
  BY <1>1, <1>2 DEF Standing
<1>5. \/ WonOn(d)' = WonOn(d)
      \/ WonOn(d)' = WonOn(d) \union {s} /\ s \notin WonOn(d)
  BY <1>1 DEF WonOn
<1>6. SumFunctionOnSet(Amount, Standing(d)') <= SumFunctionOnSet(Amount, Standing(d))
  <2>1. SumFunctionOnSet(Amount, Standing(d)) \in Nat /\ SumFunctionOnSet(Amount, Standing(d)') \in Nat
    BY LossSets, StakeSums
  <2>2. CASE Standing(d)' = Standing(d) \ {s} /\ s \in Standing(d)
    <3>1. Standing(d)' \union {s} = Standing(d) /\ s \notin Standing(d)'
      BY <2>2
    <3>2. SumFunctionOnSet(Amount, Standing(d)) = SumFunctionOnSet(Amount, Standing(d)') + Amount[s]
      BY <3>1, LossSets, StakeAdded
    <3> QED BY <2>1, <3>2, Constants
  <2>3. CASE Standing(d)' = Standing(d)
    BY <2>1, <2>3
  <2> QED BY <1>4, <2>2, <2>3
<1>7. Prize * Cardinality(WonOn(d)) <= Prize * Cardinality(WonOn(d)')
  <2>1. /\ Cardinality(WonOn(d)) \in Nat /\ Prize \in Nat
        /\ Cardinality(WonOn(d)') \in Nat
    BY LossSets, StakeSums, Constants
  <2>2. Cardinality(WonOn(d)') = Cardinality(WonOn(d)) \/ Cardinality(WonOn(d)') = Cardinality(WonOn(d)) + 1
    BY <1>5, LossSets, StakeAdded
  <2>3. \A p, n \in Nat : p * n <= p * n /\ p * n <= p * (n + 1)
    OBVIOUS
  <2> QED BY <2>1, <2>2, <2>3
<1>8. DayLoss(d)' <= DayLoss(d)
  <2> DEFINE A == SumFunctionOnSet(Amount, Standing(d))
             B == SumFunctionOnSet(Amount, Standing(d)')
             P == Prize * Cardinality(WonOn(d))
             Q == Prize * Cardinality(WonOn(d)')
  <2>1. A \in Int /\ B \in Int /\ P \in Int /\ Q \in Int /\ B <= A /\ P <= Q
    <3>1. /\ Cardinality(WonOn(d)) \in Nat /\ A \in Nat /\ Prize \in Nat
          /\ Cardinality(WonOn(d)') \in Nat /\ B \in Nat
      BY LossSets, StakeSums, Constants
    <3>2. P \in Int /\ Q \in Int
      BY <3>1
    <3> QED BY <3>1, <3>2, <1>6, <1>7
  <2>2. DayLoss(d) = A - P /\ DayLoss(d)' = B - Q
    BY DEF DayLoss
  <2> HIDE DEF A, B, P, Q
  <2> QED BY <2>1, <2>2
<1> QED BY <1>3, <1>8

-----------------------------------------------------------------------------
(***************************************************************************)
(* The loss cap.                                                           *)
(***************************************************************************)

\* What the check's query sums is the loss of today, when the transaction
\* began today.
LEMMA NetLossIsDayLoss ==
    ASSUME TypeOK, Dated
    PROVE  today_net_loss(DayOf(now)) = DayLoss(DayOf(now))
<1> DEFINE d == DayOf(now)
           staked == {s \in Committed : stake[s].day >= d}
           won == {s \in Stakes : stake[s].status = "won" /\ stake[s].ended >= d}
           refunded == {s \in staked : stake[s].status = "refunded"}
<1>0. /\ d \in Nat /\ Committed \subseteq Stakes
      /\ \A s \in Stakes : /\ stake[s].day \in Nat /\ stake[s].ended \in Nat
                           /\ stake[s].day <= d /\ stake[s].ended <= d
                           /\ stake[s].status = "refunded" => stake[s].day <= stake[s].ended
  <2>1. d \in Nat /\ Days \subseteq Nat
    BY DaysInOrder DEF TypeOK
  <2> HIDE DEF d
  <2>2. \A s \in Stakes : stake[s].day \in Nat /\ stake[s].ended \in Nat
    BY <2>1 DEF TypeOK, Stake
  <2>3. Committed \subseteq Stakes
    BY DEF Committed
  <2> QED BY <2>1, <2>2, <2>3 DEF Dated, d
<1> HIDE DEF d
<1>1. won = WonOn(d)
  BY <1>0 DEF WonOn
<1>2. staked = Standing(d) \union refunded /\ Standing(d) \intersect refunded = {}
  BY <1>0 DEF Standing
<1>3. Standing(d) \subseteq Stakes /\ refunded \subseteq Stakes
  BY <1>0, LossSets
<1>4. today_net_loss(d) = SumFunctionOnSet(Amount, staked) - Prize * Cardinality(won)
                            - SumFunctionOnSet(Amount, refunded)
  BY DEF today_net_loss
<1> HIDE DEF staked, won, refunded
<1>5. SumFunctionOnSet(Amount, staked)
        = SumFunctionOnSet(Amount, Standing(d)) + SumFunctionOnSet(Amount, refunded)
  <2>1. IsFiniteSet(Standing(d)) /\ IsFiniteSet(refunded)
    BY <1>3, StakeSums
  <2>2. \A x \in refunded \union Standing(d) : Amount[x] \in Int
    BY <1>3, Constants
  <2> QED BY <1>2, <2>1, <2>2, SumUnion
<1> DEFINE A == SumFunctionOnSet(Amount, Standing(d))
           R == SumFunctionOnSet(Amount, refunded)
           P == Prize * Cardinality(WonOn(d))
<1>6. A \in Int /\ R \in Int /\ P \in Int
  <2>1. A \in Nat /\ R \in Nat /\ Prize \in Nat /\ Cardinality(WonOn(d)) \in Nat
    BY <1>3, LossSets, StakeSums, Constants
  <2> QED BY <2>1
<1>7. today_net_loss(d) = (A + R) - P - R /\ DayLoss(d) = A - P
  BY <1>1, <1>4, <1>5 DEF DayLoss
<1> HIDE DEF A, R, P
<1>8. today_net_loss(d) = DayLoss(d)
  BY <1>6, <1>7
<1> QED BY <1>8 DEF d

\* A stake that is let through on the day it began fits under the cap.
LEMMA CheckedFits ==
    ASSUME TypeOK, Dated, FitsUnderCap, NEW s \in Stakes, stake[s].status = "waiting",
           stake[s].day = DayOf(now), check_stake_allowed(s)
    PROVE  DayLoss(DayOf(now)) + Amount[s] <= inForce[DayOf(now)]
<1> DEFINE d == DayOf(now)
<1>0. d \in Days /\ inForce[d] \in Nat /\ Effective(limits, now) \in Nat /\ Effective(limits, now) <= inForce[d]
  BY DaysInOrder, EffectiveType DEF TypeOK, FitsUnderCap
<1>1. DayLoss(d) \in Int /\ Amount[s] \in Nat /\ Unlimited \in Nat
  BY LossSets, Constants
<1>2. CASE today_net_loss(d) + Amount[s] <= Effective(limits, now)
  BY <1>0, <1>1, <1>2, NetLossIsDayLoss
<1>3. CASE Effective(limits, now) = Unlimited
  <2>1. s \notin Standing(d)
    BY DEF Standing, Committed
  <2>2. SumFunctionOnSet(Amount, Standing(d)) + Amount[s] <= Unlimited
    <3>1. SumFunctionOnSet(Amount, Standing(d) \union {s}) <= Unlimited
      BY LossSets, StakeSums
    <3>2. SumFunctionOnSet(Amount, Standing(d) \union {s}) = SumFunctionOnSet(Amount, Standing(d)) + Amount[s]
      BY <2>1, LossSets, StakeAdded
    <3> QED BY <3>1, <3>2
  <2>3. DayLoss(d) <= SumFunctionOnSet(Amount, Standing(d)) /\ SumFunctionOnSet(Amount, Standing(d)) \in Nat
    BY LossSets, LossType, StakeSums DEF DayLoss
  <2> DEFINE A == SumFunctionOnSet(Amount, Standing(d))
             L == DayLoss(d)
  <2>4. A + Amount[s] <= inForce[d] /\ L <= A /\ L \in Int /\ A \in Int /\ Amount[s] \in Int
        /\ inForce[d] \in Int
    BY <1>0, <1>1, <1>3, <2>2, <2>3
  <2> HIDE DEF A, L
  <2>5. L + Amount[s] <= inForce[d]
    BY <2>4
  <2> QED BY <2>5 DEF L
<1>4. \/ Effective(limits, now) = Unlimited
      \/ today_net_loss(d) + Amount[s] <= Effective(limits, now)
  BY DEF check_stake_allowed
<1> QED BY <1>2, <1>3, <1>4

\* What a step of the limits or of the clock does to the history of caps.
LEMMA HistoryGrows ==
    ASSUME TypeOK, TypeOK', FitsUnderCap, [Next]_vars
    PROVE  /\ \A d \in Days : inForce[d] <= inForce'[d]
           /\ Effective(limits, now)' <= inForce'[DayOf(now)']
<1>0. now \in Times /\ now' \in Times /\ inForce \in [Days -> Nat] /\ Effective(limits, now) \in Nat
  BY EffectiveType DEF TypeOK
<1>1. limits'.cap \in Nat /\ limits'.pending \in Nat
  BY DEF TypeOK
<1>2. Effective(limits', now') \in Nat
  BY <1>1 DEF Effective
<1>3. \A t : DayOf(t)' = DayOf(t') /\ Effective(limits, t)' = Effective(limits', t')
  BY DEF DayOf, Effective
<1>4. CASE Remember(limits', now')
  <2>1. /\ \A d \in Days : inForce[d] <= inForce'[d]
        /\ Effective(limits', now') <= inForce'[DayOf(now')]
    BY <1>0, <1>2, <1>4, RememberType
  <2> QED BY <2>1 DEF DayOf, Effective
<1>5. CASE UNCHANGED <<now, limits, inForce>>
  <2>1. \A d \in Days : inForce[d] \in Nat
    BY <1>0
  <2> QED BY <1>5, <2>1 DEF FitsUnderCap, DayOf, Effective
<1>6. ASSUME NEW r \in Requests, SetLossLimit(r) PROVE Remember(limits', now')
  BY <1>6 DEF SetLossLimit, Remember
<1>7. CASE Tick
  BY <1>7, <1>4 DEF Tick, Remember
<1>8. CASE Tick \/ (\E r \in Requests : SetLossLimit(r)) \/ UNCHANGED <<now, limits, inForce>>
  BY <1>4, <1>5, <1>6, <1>7, <1>8
<1>9. ASSUME NEW s \in Stakes, Begin(s) \/ CheckStake(s) \/ RefuseStake(s) \/ Commit(s) \/ EndStake(s)
      PROVE  UNCHANGED <<now, limits, inForce>>
  BY <1>9 DEF Begin, CheckStake, RefuseStake, Commit, EndStake
<1>10. ASSUME NEW r \in Requests, ReadLimits(r) PROVE UNCHANGED <<now, limits, inForce>>
  BY <1>10 DEF ReadLimits
<1>11. CASE CoolOff \/ SelfExclude \/ ReadStatus \/ WriteStatus
  BY <1>5, <1>11 DEF CoolOff, SelfExclude, ReadStatus, WriteStatus
<1>12. CASE UNCHANGED <<now, status, limits, request, admin, stake, lock, inForce, lowered>>
  BY <1>5, <1>12
<1> QED BY <1>5, <1>8, <1>9, <1>10, <1>11, <1>12, StepKinds

\* When the stakes stand still, what fitted fits.
LEMMA StakesStill ==
    ASSUME TypeOK, TypeOK', FitsUnderCap, LossCapHolds, [Next]_vars, stake' = stake
    PROVE  FitsUnderCap' /\ LossCapHolds'
<1>1. \A d : DayLoss(d)' = DayLoss(d) /\ (NoneLate(d)' <=> NoneLate(d))
  BY DEF DayLoss, Standing, WonOn, Committed, NoneLate
<1>2. /\ \A d \in Days : inForce[d] <= inForce'[d]
      /\ Effective(limits, now)' <= inForce'[DayOf(now)']
  BY HistoryGrows
<1>3. \A d \in Days : inForce[d] \in Nat /\ inForce'[d] \in Nat /\ DayLoss(d) \in Int
  BY LossSets DEF TypeOK
<1>4. \A s \in Stakes : stake[s].day \in Days /\ Amount[s] \in Nat
  BY Constants DEF TypeOK, Stake
<1>5. ASSUME NEW s \in Stakes, stake'[s].status = "checked", ~stake'[s].late
      PROVE  DayLoss(stake[s].day)' + Amount[s] <= inForce'[stake'[s].day]
  <2>1. DayLoss(stake[s].day) + Amount[s] <= inForce[stake[s].day]
    BY <1>5 DEF FitsUnderCap
  <2>2. stake[s].day \in Days /\ stake'[s].day = stake[s].day
    BY <1>4
  <2>3. DayLoss(stake[s].day)' = DayLoss(stake[s].day)
    BY DEF DayLoss, Standing, WonOn, Committed
  <2> QED BY <1>2, <1>3, <1>4, <2>1, <2>2, <2>3
<1>6. LossCapHolds'
  BY <1>1, <1>2, <1>3 DEF LossCapHolds, Higher
<1>7. FitsUnderCap'
  BY <1>2, <1>5 DEF FitsUnderCap
<1> QED BY <1>6, <1>7

\* The history and the caps stand while a stake moves.
LEMMA StakeMoves ==
    ASSUME NEW s \in Stakes,
           Begin(s) \/ CheckStake(s) \/ RefuseStake(s) \/ Commit(s) \/ EndStake(s)
    PROVE  /\ UNCHANGED <<now, limits, inForce, request, lowered, bonus, bonusBalance>>
           /\ Effective(limits, now)' = Effective(limits, now) /\ DayOf(now)' = DayOf(now)
           /\ inForce'[DayOf(now)'] = inForce[DayOf(now)]
BY DEF Begin, CheckStake, RefuseStake, Commit, EndStake, Effective, DayOf

\* The loss cap holds after every move of a stake, and what is checked fits.
LEMMA StakeFits ==
    ASSUME TypeOK, LocksHeld, LocksHeld', Dated, FitsUnderCap, LossCapHolds, NEW s \in Stakes,
           Begin(s) \/ CheckStake(s) \/ RefuseStake(s) \/ Commit(s) \/ EndStake(s)
    PROVE  FitsUnderCap' /\ LossCapHolds'
<1>0. /\ stake \in [Stakes -> Stake] /\ stake[s] \in Stake /\ none \notin Stakes
      /\ \A q \in Stakes : stake[q].day \in Days /\ Amount[q] \in Nat /\ Amount[q] > 0
      /\ \A d \in Days : inForce[d] \in Nat /\ DayLoss(d) \in Int /\ DayLoss(d)' \in Int
      /\ DayOf(now) \in Days
  BY Constants, LossSets, DaysInOrder DEF TypeOK, Stake
<1>1. /\ UNCHANGED <<now, limits, inForce>>
      /\ Effective(limits, now)' <= inForce'[DayOf(now)']
  BY StakeMoves DEF FitsUnderCap
\* It is enough that losses only rise for the stake that was checked.
<1>q. ASSUME \A d \in Days : DayLoss(d)' <= DayLoss(d) /\ (NoneLate(d)' => NoneLate(d)),
             \A q \in Stakes : stake'[q].status = "checked" /\ ~stake'[q].late =>
                 \/ stake[q].status = "checked" /\ stake'[q] = stake[q]
                 \/ DayLoss(stake'[q].day) + Amount[q] <= inForce[stake'[q].day]
                    /\ stake'[q].day \in Days
      PROVE  FitsUnderCap' /\ LossCapHolds'
  <2>1. LossCapHolds'
    <3>1. ASSUME NEW d \in Days, NoneLate(d)' PROVE DayLoss(d)' <= Higher(0, inForce'[d])
      <4>1. DayLoss(d) <= Higher(0, inForce[d]) /\ DayLoss(d)' <= DayLoss(d) /\ inForce'[d] = inForce[d]
        BY <1>q, <1>1, <3>1 DEF LossCapHolds
      <4> QED BY <1>0, <4>1 DEF Higher
    <3> QED BY <3>1 DEF LossCapHolds
  <2>2. ASSUME NEW q \in Stakes, stake'[q].status = "checked", ~stake'[q].late
        PROVE  DayLoss(stake[q].day)' + Amount[q] <= inForce'[stake'[q].day]
    <3>1. PICK d \in Days : d = stake'[q].day /\ DayLoss(d) + Amount[q] <= inForce[d]
      BY <1>0, <1>q, <2>2 DEF FitsUnderCap
    <3>2. DayLoss(stake[q].day)' = DayLoss(d)' /\ DayLoss(d)' <= DayLoss(d)
      BY <1>q, <3>1
    <3>3. inForce' = inForce /\ DayLoss(d) \in Int /\ inForce[d] \in Int /\ Amount[q] \in Int
          /\ DayLoss(d)' \in Int
      BY <1>0, <1>1
    <3> QED BY <3>1, <3>2, <3>3
  <2> QED BY <1>1, <2>1, <2>2 DEF FitsUnderCap
<1>n. ASSUME NEW row, stake' = [stake EXCEPT ![s] = row],
             stake[s].status \notin Moved, row.status \notin Moved, row.status # "checked"
      PROVE  FitsUnderCap' /\ LossCapHolds'
  <2>1. \A d \in Days : DayLoss(d)' = DayLoss(d) /\ (NoneLate(d)' <=> NoneLate(d))
    BY <1>n, QuietStake
  <2>2. \A q \in Stakes : stake'[q] = IF q = s THEN row ELSE stake[q]
    BY <1>0, <1>n
  <2>3. \A d \in Days : DayLoss(d)' <= DayLoss(d)
    BY <1>0, <2>1
  <2> QED BY <1>n, <1>q, <2>1, <2>2, <2>3
<1>2. CASE Begin(s)
  <2> DEFINE row == [stake[s] EXCEPT !.status = "waiting", !.day = DayOf(now)]
  <2>1. row.status = "waiting"
    BY <1>0 DEF Stake
  <2>2. stake' = [stake EXCEPT ![s] = row] /\ stake[s].status = "none"
    BY <1>2 DEF Begin
  <2> HIDE DEF row
  <2> QED BY <1>n, <2>1, <2>2 DEF Moved
<1>3. CASE CheckStake(s)
  <2> DEFINE row == [stake[s] EXCEPT !.status = "checked", !.late = DayOf(now) # stake[s].day]
  <2>1. row.status = "checked" /\ row.day = stake[s].day /\ (row.late <=> DayOf(now) # stake[s].day)
    BY <1>0 DEF Stake
  <2>2. stake' = [stake EXCEPT ![s] = row] /\ stake[s].status = "waiting" /\ check_stake_allowed(s)
    BY <1>3 DEF CheckStake, TakesLock
  <2>3. \A q \in Stakes : stake'[q] = IF q = s THEN row ELSE stake[q]
    BY <1>0, <2>2
  <2> HIDE DEF row
  <2>4. \A d \in Days : DayLoss(d)' = DayLoss(d) /\ (NoneLate(d)' <=> NoneLate(d))
    BY <2>1, <2>2, QuietStake DEF Moved
  <2>5. \A d \in Days : DayLoss(d)' <= DayLoss(d)
    BY <1>0, <2>4
  <2>6. ~row.late => DayLoss(row.day) + Amount[s] <= inForce[row.day] /\ row.day \in Days
    BY <1>0, <2>1, <2>2, CheckedFits
  <2> QED BY <1>q, <2>3, <2>4, <2>5, <2>6
<1>r. Refused.status = "refused"
  BY DEF Refused
<1>4. CASE RefuseStake(s)
  <2>1. stake' = [stake EXCEPT ![s] = Refused] /\ stake[s].status = "waiting"
    BY <1>4 DEF RefuseStake, TakesLock
  <2> QED BY <1>n, <1>r, <2>1 DEF Moved
<1>5. CASE Commit(s)
  <2>1. CASE stake' = [stake EXCEPT ![s] = Refused]
    <3>1. stake[s].status = "checked"
      BY <1>5 DEF Commit
    <3> QED BY <1>n, <1>r, <2>1, <3>1 DEF Moved
  <2>2. CASE stake' = [stake EXCEPT ![s] = [stake[s] EXCEPT !.status = "open"]]
    <3>0. PICK d \in Days : d = stake[s].day /\ stake[s].status = "checked"
      BY <1>0, <1>5 DEF Commit
    <3>1. /\ \A e \in Days : e # d => DayLoss(e)' = DayLoss(e)
          /\ DayLoss(d)' = DayLoss(d) + Amount[s]
          /\ \A e \in Days : NoneLate(e)' => NoneLate(e)
          /\ NoneLate(d)' => ~stake[s].late
      BY <2>2, <3>0, CommittedStake
    <3>2. \A q \in Stakes : stake'[q].status # "checked"
      <4>1. lock' = none
        BY <1>5 DEF Commit
      <4> QED BY <1>0, <4>1 DEF LocksHeld
    <3>3. FitsUnderCap'
      BY <1>1, <3>2 DEF FitsUnderCap
    <3>4. ASSUME NEW e \in Days, NoneLate(e)' PROVE DayLoss(e)' <= Higher(0, inForce'[e])
      <4>1. CASE e # d
        <5>1. DayLoss(e) <= Higher(0, inForce[e]) /\ DayLoss(e)' = DayLoss(e) /\ inForce' = inForce
          BY <1>1, <3>1, <3>4, <4>1 DEF LossCapHolds
        <5> QED BY <5>1
      <4>2. CASE e = d
        <5>1. DayLoss(d)' = DayLoss(d) + Amount[s] /\ DayLoss(d) + Amount[s] <= inForce[d]
          BY <3>0, <3>1, <3>4, <4>2 DEF FitsUnderCap
        <5>2. inForce[d] <= Higher(0, inForce[d]) /\ inForce' = inForce
          BY <1>0, <1>1, <3>0 DEF Higher
        <5>3. DayLoss(d)' <= Higher(0, inForce'[d])
          <6>1. inForce[d] \in Nat /\ DayLoss(d)' \in Int
            BY <1>0, <3>0
          <6>2. DayLoss(d)' <= inForce[d]
            BY <5>1
          <6> QED BY <5>2, <6>1, <6>2 DEF Higher
        <5> QED BY <4>2, <5>3
      <4> QED BY <4>1, <4>2
    <3> QED BY <3>3, <3>4 DEF LossCapHolds
  <2> QED BY <1>5, <2>1, <2>2 DEF Commit
<1>6. CASE EndStake(s)
  <2>1. PICK end \in {"won", "lost", "refunded"} :
          stake' = [stake EXCEPT ![s] = [stake[s] EXCEPT !.status = end, !.ended = DayOf(now)]]
    BY <1>6 DEF EndStake
  <2>2. stake[s].status = "open" /\ DayOf(now) \in Nat
    BY <1>0, <1>6, DaysInOrder DEF EndStake
  <2>3. \A d \in Days : DayLoss(d)' <= DayLoss(d) /\ (NoneLate(d)' => NoneLate(d))
    BY <2>1, <2>2, EndedStake
  <2>4. [stake[s] EXCEPT !.status = end, !.ended = DayOf(now)].status # "checked"
    BY <1>0 DEF Stake
  <2>5. \A q \in Stakes : stake'[q].status = "checked" => stake'[q] = stake[q]
    BY <1>0, <2>1, <2>4
  <2> QED BY <1>q, <2>3, <2>5
<1> QED BY <1>2, <1>3, <1>4, <1>5, <1>6

\* The cap, whatever the step.
LEMMA CapStep ==
    ASSUME TypeOK, TypeOK', LocksHeld, LocksHeld', Dated, FitsUnderCap, LossCapHolds, [Next]_vars
    PROVE  FitsUnderCap' /\ LossCapHolds'
<1>1. CASE \E s \in Stakes : Begin(s) \/ CheckStake(s) \/ RefuseStake(s) \/ Commit(s) \/ EndStake(s)
  BY <1>1, StakeFits
<1>2. CASE stake' = stake
  BY <1>2, StakesStill
<1>3. ASSUME NEW r \in Requests, ReadLimits(r) \/ SetLossLimit(r) PROVE stake' = stake
  BY <1>3 DEF ReadLimits, SetLossLimit
<1>4. CASE Tick \/ CoolOff \/ SelfExclude \/ ReadStatus \/ WriteStatus
  BY <1>2, <1>4 DEF Tick, CoolOff, SelfExclude, ReadStatus, WriteStatus
<1>5. CASE UNCHANGED <<now, status, limits, request, admin, stake, lock, inForce, lowered>>
  BY <1>2, <1>5
<1> QED BY <1>1, <1>2, <1>3, <1>4, <1>5, StepKinds

-----------------------------------------------------------------------------
(***************************************************************************)
(* Raises of the limit.                                                    *)
(***************************************************************************)

\* The time that stands for "no increase is pending" is never reached.
LEMMA NeverAhead ==
    /\ HalfDays = 2 /\ Never \in Nat /\ Times \subseteq Nat
    /\ \A t \in Times : t # Never /\ t < Never
BY Constants DEF Never, HalfDays, Times

\* A request reads the limit in force.
LEMMA ReadWaits ==
    ASSUME TypeOK, RaisesWait, NEW r \in Requests, ReadLimits(r)
    PROVE  RaisesWait'
<1>1. PICK c \in Caps : request' = [request EXCEPT ![r] =
                           [step |-> "read", cap |-> c, saw |-> Effective(limits, now)]]
  BY DEF ReadLimits
<1>2. /\ limits' = limits /\ now' = now
      /\ lowered' = [lowered EXCEPT !.overlap = lowered.overlap \/
                        \E other \in Requests : request[other].step = "read"]
  BY DEF ReadLimits
<1>3. /\ lowered'.cap = lowered.cap /\ lowered'.raised = lowered.raised
      /\ ~lowered'.overlap => ~lowered.overlap /\ \A q \in Requests : request[q].step # "read"
  BY <1>2 DEF TypeOK
<1>4. SUFFICES ASSUME ~lowered'.overlap PROVE RaisesWait'
  BY DEF RaisesWait
<1>5. /\ \A q \in Requests : q # r => request'[q].step # "read"
      /\ request'[r].saw = Effective(limits, now)
  BY <1>1, <1>3, <1>4 DEF TypeOK
<1>6. limits.cap <= Effective(limits, now) /\ Effective(limits, now) <= Effective(limits, now)
  <2>1. limits.cap \in Nat /\ limits.pending \in Nat /\ (limits.at # Never => limits.cap < limits.pending)
    BY <1>3, <1>4 DEF TypeOK, RaisesWait
  <2> QED BY <2>1 DEF Effective
<1>7. Effective(limits, now)' = Effective(limits, now)
  BY <1>2 DEF Effective
<1> QED BY <1>2, <1>3, <1>4, <1>5, <1>6, <1>7 DEF RaisesWait

\* A write that nothing overlapped keeps a raise waiting for a day.
LEMMA WriteWaits ==
    ASSUME TypeOK, RaisesWait, NEW r \in Requests, SetLossLimit(r)
    PROVE  RaisesWait'
<1> DEFINE c == request[r].cap
           eff == Effective(limits, now)
<1>1. /\ request[r].step = "read" /\ now' = now
      /\ request' = [request EXCEPT ![r].step = "done"]
      /\ limits' = IF c <= request[r].saw THEN [cap |-> c, pending |-> 0, at |-> Never]
                   ELSE [limits EXCEPT !.pending = c, !.at = now + HalfDays]
      /\ lowered' = IF c <= eff THEN [lowered EXCEPT !.cap = c, !.raised = Never]
                    ELSE [lowered EXCEPT !.raised = IF lowered.raised = Never THEN now ELSE lowered.raised]
  BY DEF SetLossLimit, AskedFor
<1>2. /\ lowered'.overlap = lowered.overlap
      /\ lowered'.cap = IF c <= eff THEN c ELSE lowered.cap
      /\ lowered'.raised = IF c <= eff THEN Never
                           ELSE IF lowered.raised = Never THEN now ELSE lowered.raised
  BY <1>1 DEF TypeOK
<1>3. /\ limits'.cap = IF c <= request[r].saw THEN c ELSE limits.cap
      /\ limits'.pending = IF c <= request[r].saw THEN 0 ELSE c
      /\ limits'.at = IF c <= request[r].saw THEN Never ELSE now + HalfDays
  BY <1>1 DEF TypeOK
<1>4. /\ now \in Times /\ request[r].saw \in Nat /\ c \in Nat /\ limits.cap \in Nat /\ eff \in Nat
      /\ lowered.cap \in Nat /\ lowered.raised \in Nat
  BY EffectiveType DEF TypeOK
<1>5. SUFFICES ASSUME ~lowered'.overlap PROVE RaisesWait'
  BY DEF RaisesWait
<1>6. /\ \A q \in Requests : request[q].step = "read" => r = q
      /\ limits.cap <= request[r].saw /\ request[r].saw <= eff
      /\ limits.cap <= lowered.cap
      /\ lowered.raised # Never => lowered.raised <= now
  BY <1>1, <1>2, <1>5 DEF RaisesWait
<1>7. \A q \in Requests : request'[q].step # "read"
  BY <1>1, <1>6 DEF TypeOK
<1> HIDE DEF c, eff
<1>8. /\ now \in Nat /\ now # Never /\ HalfDays = 2 /\ Never \in Nat
  BY <1>4, NeverAhead
<1>9. limits'.cap <= lowered'.cap
  BY <1>2, <1>3, <1>4, <1>6
<1>10. lowered'.raised # Never => lowered'.raised <= now'
  BY <1>1, <1>2, <1>4, <1>6, <1>8
<1>11. ASSUME limits'.at # Never
       PROVE  /\ limits'.cap < limits'.pending
              /\ \/ limits'.pending <= lowered'.cap
                 \/ lowered'.raised # Never /\ lowered'.raised + HalfDays <= limits'.at
  <2>1. ~(c <= request[r].saw)
    BY <1>3, <1>11
  <2>2. limits'.cap = limits.cap /\ limits'.pending = c /\ limits'.at = now + 2
    BY <1>3, <1>8, <2>1
  <2>3. limits.cap < c
    BY <1>4, <1>6, <2>1
  <2>4. CASE c <= eff
    <3>1. lowered'.cap = c /\ c <= c
      BY <1>2, <1>4, <2>4
    <3> QED BY <2>2, <2>3, <3>1
  <2>5. CASE ~(c <= eff)
    <3>1. lowered'.raised # Never /\ lowered'.raised <= now /\ lowered'.raised \in Nat
      BY <1>2, <1>4, <1>6, <1>8, <2>5
    <3>2. lowered'.raised + HalfDays <= limits'.at
      BY <1>8, <2>2, <3>1
    <3> QED BY <2>2, <2>3, <3>1, <3>2
  <2> QED BY <2>4, <2>5
<1> QED BY <1>7, <1>9, <1>10, <1>11 DEF RaisesWait

\* The clock only brings a pending raise closer.
LEMMA TickWaits ==
    ASSUME TypeOK, RaisesWait, Tick
    PROVE  RaisesWait'
<1>0. now \in Nat /\ now' = now + 1 /\ UNCHANGED <<limits, request, lowered>>
  BY NeverAhead DEF TypeOK, Tick
<1>1. SUFFICES ASSUME ~lowered.overlap PROVE RaisesWait'
  BY <1>0 DEF RaisesWait
<1>2. limits.cap \in Nat /\ limits.pending \in Nat /\ limits.at \in Nat /\ lowered.raised \in Nat
  BY DEF TypeOK
<1>3. limits.at # Never => limits.cap < limits.pending
  BY <1>1 DEF RaisesWait
<1>4. Effective(limits, now) <= Effective(limits, now)'
  <2>1. Effective(limits, now)' = IF limits.at # Never /\ now + 1 >= limits.at
                                  THEN limits.pending ELSE limits.cap
    BY <1>0 DEF Effective
  <2> QED BY <1>0, <1>2, <1>3, <2>1 DEF Effective
<1>5. Effective(limits, now) \in Nat /\ Effective(limits, now)' \in Nat
  BY <1>0, <1>2 DEF Effective
<1>6. \A r \in Requests : request[r].step = "read" =>
         limits.cap <= request[r].saw /\ request[r].saw <= Effective(limits, now)'
  <2>1. \A r \in Requests : request[r].saw \in Nat
    BY DEF TypeOK
  <2> QED BY <1>1, <1>4, <1>5, <2>1 DEF RaisesWait
<1>7. lowered.raised # Never => lowered.raised <= now + 1
  BY <1>0, <1>1, <1>2 DEF RaisesWait
<1> QED BY <1>0, <1>1, <1>6, <1>7 DEF RaisesWait

\* Raises wait, whatever the step.
LEMMA RaisesStep ==
    ASSUME TypeOK, RaisesWait, [Next]_vars
    PROVE  RaisesWait'
<1>s. ASSUME UNCHANGED <<now, limits, request, lowered>> PROVE RaisesWait'
  BY <1>s DEF RaisesWait, Effective
<1>1. ASSUME NEW s \in Stakes, Begin(s) \/ CheckStake(s) \/ RefuseStake(s) \/ Commit(s) \/ EndStake(s)
      PROVE  RaisesWait'
  BY <1>s, <1>1, StakeMoves
<1>2. ASSUME NEW r \in Requests, ReadLimits(r) \/ SetLossLimit(r) PROVE RaisesWait'
  BY <1>2, ReadWaits, WriteWaits
<1>3. CASE Tick
  BY <1>3, TickWaits
<1>4. CASE CoolOff \/ SelfExclude \/ ReadStatus \/ WriteStatus
  BY <1>s, <1>4 DEF CoolOff, SelfExclude, ReadStatus, WriteStatus
<1>5. CASE UNCHANGED <<now, status, limits, request, admin, stake, lock, inForce, lowered>>
  BY <1>s, <1>5
<1> QED BY <1>1, <1>2, <1>3, <1>4, <1>5, StepKinds

-----------------------------------------------------------------------------
(***************************************************************************)
(* Bonuses.                                                                *)
(***************************************************************************)

\* One more bonus adds its worth.
LEMMA BonusAdded ==
    ASSUME NEW S \in SUBSET Bonuses, NEW b \in Bonuses, b \notin S
    PROVE  SumFunctionOnSet(Worth, S \union {b}) = SumFunctionOnSet(Worth, S) + Worth[b]
<1>1. IsFiniteSet(S) /\ \A y \in S \union {b} : Worth[y] \in Int
  BY Constants, FS_Subset
<1> QED BY <1>1, SumAdd

\* A bonus that starts or ends adds its worth to the active ones, or takes it.
LEMMA BonusMoves ==
    ASSUME TypeOK, BonusEndsOnce, NEW b \in Bonuses, NEW row, bonus' = [bonus EXCEPT ![b] = row],
           \/ /\ bonus[b].status # "active" /\ row.status = "active"
              /\ bonusBalance' = bonusBalance + Worth[b]
           \/ /\ bonus[b].status = "active" /\ row.status # "active"
              /\ bonusBalance' = bonusBalance - Worth[b]
    PROVE  BonusEndsOnce'
<1>1. \A q \in Bonuses : bonus'[q] = IF q = b THEN row ELSE bonus[q]
  BY DEF TypeOK
<1>2. /\ IsFiniteSet(ActiveBonuses) /\ IsFiniteSet(ActiveBonuses')
      /\ ActiveBonuses \in SUBSET Bonuses /\ ActiveBonuses' \in SUBSET Bonuses
  <2>1. ActiveBonuses \subseteq Bonuses /\ ActiveBonuses' \subseteq Bonuses
    BY DEF ActiveBonuses
  <2> QED BY <2>1, Constants, FS_Subset
<1>3. /\ \A q \in ActiveBonuses \union {b} : Worth[q] \in Int
      /\ \A q \in ActiveBonuses' \union {b} : Worth[q] \in Int
  BY <1>2, Constants
<1>4. CASE bonus[b].status # "active" /\ row.status = "active" /\ bonusBalance' = bonusBalance + Worth[b]
  <2>1. ActiveBonuses' = ActiveBonuses \union {b} /\ b \notin ActiveBonuses
    BY <1>1, <1>4 DEF ActiveBonuses
  <2>2. SumFunctionOnSet(Worth, ActiveBonuses \union {b}) = SumFunctionOnSet(Worth, ActiveBonuses) + Worth[b]
    BY <1>2, <2>1, BonusAdded
  <2> QED BY <1>4, <2>1, <2>2 DEF BonusEndsOnce
<1>5. CASE bonus[b].status = "active" /\ row.status # "active" /\ bonusBalance' = bonusBalance - Worth[b]
  <2>1. ActiveBonuses = ActiveBonuses' \union {b} /\ b \notin ActiveBonuses'
    BY <1>1, <1>5 DEF ActiveBonuses
  <2>2. SumFunctionOnSet(Worth, ActiveBonuses' \union {b}) = SumFunctionOnSet(Worth, ActiveBonuses') + Worth[b]
    BY <1>2, <2>1, BonusAdded
  <2>3. SumFunctionOnSet(Worth, ActiveBonuses') \in Int /\ Worth[b] \in Int
    BY <1>2, <1>3, SumInt
  <2> QED BY <1>5, <2>1, <2>2, <2>3 DEF BonusEndsOnce
<1> QED BY <1>4, <1>5

\* The account holds what is active, whatever the step.
LEMMA BonusStep ==
    ASSUME TypeOK, BonusEndsOnce, [Next]_vars
    PROVE  BonusEndsOnce'
<1>s. ASSUME UNCHANGED <<bonus, bonusBalance>> PROVE BonusEndsOnce'
  BY <1>s DEF BonusEndsOnce, ActiveBonuses
<1>e. ASSUME NEW b \in Bonuses, NEW end \in {"converted", "expired", "revoked"}, EndBonus(b, end)
      PROVE  BonusEndsOnce'
  <2>1. CASE bonus[b].status = "active"
    <3> DEFINE row == [bonus[b] EXCEPT !.status = end]
    <3>1. row.status = end
      BY DEF TypeOK, BonusRow
    <3>2. bonus' = [bonus EXCEPT ![b] = row] /\ bonusBalance' = bonusBalance - Worth[b]
      BY <1>e, <2>1 DEF EndBonus
    <3> HIDE DEF row
    <3> QED BY <2>1, <3>1, <3>2, BonusMoves
  <2>2. CASE bonus[b].status # "active"
    BY <1>e, <1>s, <2>2 DEF EndBonus
  <2> QED BY <2>1, <2>2
<1>1. ASSUME NEW b \in Bonuses, grant_manual_bonus_admin(b) PROVE BonusEndsOnce'
  <2> DEFINE row == [status |-> "active", expires |-> now + Life,
                     before |-> {s \in Stakes : stake[s].status # "none"}]
  <2>1. /\ bonus' = [bonus EXCEPT ![b] = row] /\ bonusBalance' = bonusBalance + Worth[b]
        /\ bonus[b].status # "active" /\ row.status = "active"
    BY <1>1 DEF grant_manual_bonus_admin, grant_bonus
  <2> HIDE DEF row
  <2> QED BY <2>1, BonusMoves
<1>2. ASSUME NEW b \in Bonuses, revoke_bonus_admin(b) PROVE BonusEndsOnce'
  BY <1>2, <1>e DEF revoke_bonus_admin, revoke_bonus
<1>3. CASE convert_bonus_to_cash \/ expire_bonus
  <2>1. sweep.at \in Bonuses /\ (EndBonus(sweep.at, "converted") \/ EndBonus(sweep.at, "expired"))
    BY <1>3 DEF TypeOK, convert_bonus_to_cash, expire_bonus, SweepEnd
  <2> QED BY <2>1, <1>e
<1>4. CASE SweepList \/ SweepRead \/ SweepPass \/ SweepFails
  BY <1>4, <1>s DEF SweepList, SweepRead, SweepPass, SweepFails
<1>5. ASSUME NEW s \in Stakes, Begin(s) \/ CheckStake(s) \/ RefuseStake(s) \/ Commit(s) \/ EndStake(s)
      PROVE  BonusEndsOnce'
  BY <1>s, <1>5, StakeMoves
<1>6. CASE LimitsCommand
  BY <1>6, <1>s DEF LimitsCommand, ReadLimits, SetLossLimit, CoolOff, SelfExclude
<1>7. CASE StatusRoute \/ Tick \/ UNCHANGED vars
  BY <1>7, <1>s DEF StatusRoute, ReadStatus, WriteStatus, Tick, vars
<1> QED BY <1>1, <1>2, <1>3, <1>4, <1>5, <1>6, <1>7 DEF Next, BonusRoutes, StakeTransaction, sweep_bonus_wagering

-----------------------------------------------------------------------------
(***************************************************************************)
(* The theorems.                                                           *)
(***************************************************************************)

\* The initial state: nothing is staked, and the first cap is in force.
LEMMA InitInvariant == Init => IndInv
<1> SUFFICES ASSUME Init PROVE IndInv
  OBVIOUS
<1>1. TypeOK
  BY InitType
<1>0. /\ none \notin Stakes /\ KenoStakes \subseteq Stakes /\ DayOf(now) = 0 /\ 0 \in Days
      /\ Days \subseteq Nat /\ limits.cap \in Nat /\ limits.at = Never
  BY <1>1, Constants, DaysInOrder DEF Init, TypeOK
<1>2. LocksHeld
  BY <1>0 DEF Init, LocksHeld
<1>3. Dated
  BY <1>0 DEF Init, Dated
<1>4. Effective(limits, now) = limits.cap /\ limits.cap <= limits.cap
  BY <1>0 DEF Effective
<1>5. FitsUnderCap
  BY <1>0, <1>4 DEF Init, FitsUnderCap
<1>6. RaisesWait
  BY <1>0, <1>4 DEF Init, RaisesWait
<1>7. LossCapHolds
  <2>1. ASSUME NEW d \in Days PROVE DayLoss(d) <= Higher(0, inForce[d])
    <3>1. Standing(d) = {} /\ WonOn(d) = {}
      BY DEF Init, Standing, WonOn, Committed
    <3>2. DayLoss(d) = 0
      BY <3>1, SumEmpty, FS_EmptySet, Constants DEF DayLoss
    <3>3. inForce[d] \in Nat
      BY <1>1 DEF TypeOK
    <3> QED BY <3>2, <3>3 DEF Higher
  <2> QED BY <2>1 DEF LossCapHolds
<1>8. BonusEndsOnce
  BY DEF Init, BonusEndsOnce
<1> QED BY <1>1, <1>2, <1>3, <1>5, <1>6, <1>7, <1>8 DEF IndInv

\* One step keeps the whole invariant.
LEMMA InvariantStep == IndInv /\ [Next]_vars => IndInv'
<1> SUFFICES ASSUME IndInv, [Next]_vars
             PROVE  IndInv'
  OBVIOUS
<1>0. TypeOK /\ LocksHeld /\ Dated /\ FitsUnderCap /\ RaisesWait /\ LossCapHolds /\ BonusEndsOnce
  BY DEF IndInv
<1>1. TypeOK' /\ LocksHeld' /\ Dated'
  BY <1>0, TypeStep, LocksStep, DatedStep
<1>2. FitsUnderCap' /\ LossCapHolds'
  BY <1>0, <1>1, CapStep
<1>3. RaisesWait' /\ BonusEndsOnce'
  BY <1>0, RaisesStep, BonusStep
<1> QED BY <1>1, <1>2, <1>3 DEF IndInv

\* The invariant holds in every reachable state.
THEOREM InductiveInvariant == Spec => []IndInv
BY InitInvariant, InvariantStep, PTL DEF Spec

\* The loss of a day stays under the cap.
THEOREM LossCapAlwaysHolds == Spec => []LossCapHolds
<1>1. IndInv => LossCapHolds
  BY DEF IndInv
<1> QED BY <1>1, InductiveInvariant, PTL

\* A lowered cap holds for a day after a raise was asked.
THEOREM LoweringAlwaysHolds == Spec => []LoweringHolds
<1>1. IndInv => LoweringHolds
  <2> SUFFICES ASSUME TypeOK, RaisesWait, Effective(limits, now) > lowered.cap, ~lowered.overlap
               PROVE  lowered.raised # Never /\ now >= lowered.raised + HalfDays
    BY DEF IndInv, LoweringHolds
  <2>0. /\ limits.cap \in Nat /\ limits.pending \in Nat /\ limits.at \in Nat /\ lowered.cap \in Nat
        /\ lowered.raised \in Nat /\ now \in Nat /\ HalfDays = 2
    BY NeverAhead DEF TypeOK
  <2>1. limits.cap <= lowered.cap
    BY DEF RaisesWait
  <2>2. limits.at # Never /\ now >= limits.at /\ limits.pending > lowered.cap
    BY <2>0, <2>1 DEF Effective
  <2>3. lowered.raised # Never /\ lowered.raised + HalfDays <= limits.at
    BY <2>0, <2>2 DEF RaisesWait
  <2> QED BY <2>0, <2>2, <2>3
<1> QED BY <1>1, InductiveInvariant, PTL

\* The bonus account holds the active bonuses.
THEOREM BonusAlwaysEndsOnce == Spec => []BonusEndsOnce
<1>1. IndInv => BonusEndsOnce
  BY DEF IndInv
<1> QED BY <1>1, InductiveInvariant, PTL

\* A self-exclusion is final.
THEOREM ExclusionAlwaysFinal == Spec => ExclusionIsFinal
<1>1. ASSUME IndInv, [Next]_vars, status = "self_excluded"
      PROVE  /\ status' = status
             /\ \A s \in KenoStakes : stake'[s].status = "open" => stake[s].status = "open"
  <2>0. /\ admin = none /\ lock \notin KenoStakes /\ KenoStakes \subseteq Stakes
        /\ stake \in [Stakes -> Stake]
        /\ \A s \in Stakes : stake[s].status = "checked" <=> lock = s
    BY <1>1, Constants DEF IndInv, TypeOK, LocksHeld
  <2>s. ASSUME UNCHANGED <<status, stake>>
        PROVE  /\ status' = status
               /\ \A s \in KenoStakes : stake'[s].status = "open" => stake[s].status = "open"
    BY <2>s
  <2>1. ASSUME NEW q \in Stakes, Begin(q) \/ CheckStake(q) \/ RefuseStake(q) \/ Commit(q) \/ EndStake(q)
        PROVE  /\ status' = status
               /\ \A s \in KenoStakes : stake'[s].status = "open" => stake[s].status = "open"
    <3>0. stake[q] \in Stake
      BY <2>0
    <3>1. status' = status
      BY <2>1 DEF Begin, CheckStake, RefuseStake, Commit, EndStake
    <3>2. /\ \A s \in Stakes : s # q => stake'[s] = stake[s]
          /\ stake'[q].status = "open" => stake[q].status = "checked"
      <4>1. CASE Begin(q)
        BY <2>0, <3>0, <4>1 DEF Begin, Stake
      <4>2. CASE CheckStake(q)
        BY <2>0, <3>0, <4>2 DEF CheckStake, Stake
      <4>3. CASE RefuseStake(q)
        BY <2>0, <3>0, <4>3 DEF RefuseStake, Refused
      <4>4. CASE Commit(q)
        BY <2>0, <3>0, <4>4 DEF Commit
      <4>5. CASE EndStake(q)
        BY <2>0, <3>0, <4>5 DEF EndStake, Stake
      <4> QED BY <2>1, <4>1, <4>2, <4>3, <4>4, <4>5
    <3> QED BY <2>0, <3>1, <3>2
  <2>2. ASSUME NEW r \in Requests, ReadLimits(r) \/ SetLossLimit(r)
        PROVE  UNCHANGED <<status, stake>>
    BY <2>2 DEF ReadLimits, SetLossLimit
  <2>3. CASE Tick \/ CoolOff \/ ReadStatus \/ WriteStatus \/ SelfExclude
    BY <1>1, <2>0, <2>s, <2>3 DEF Tick, CoolOff, ReadStatus, WriteStatus, SelfExclude
  <2>4. CASE UNCHANGED <<now, status, limits, request, admin, stake, lock, inForce, lowered>>
    BY <2>s, <2>4
  <2> QED BY <1>1, <2>s, <2>1, <2>2, <2>3, <2>4, StepKinds
<1>2. IndInv /\ [Next]_vars => (status = "self_excluded" =>
          /\ status' = status
          /\ \A s \in KenoStakes : stake'[s].status = "open" => stake[s].status = "open")
  BY <1>1
<1> QED BY <1>2, InductiveInvariant, PTL DEF Spec, ExclusionIsFinal

-----------------------------------------------------------------------------
(* Sequences of entries.                                                   *)

LEMMA Joined ==
    ASSUME NEW S, NEW a \in Seq(S), NEW b \in Seq(S)
    PROVE  /\ a \o b \in Seq(S) /\ Len(a \o b) = Len(a) + Len(b)
           /\ \A j \in 1..Len(a) + Len(b) :
                 (a \o b)[j] = IF j <= Len(a) THEN a[j] ELSE b[j - Len(a)]
  OBVIOUS

\* What is left of a sequence without its element at i.
LEMMA WithoutOne ==
    ASSUME NEW S, NEW s \in Seq(S), NEW i \in 1..Len(s)
    PROVE  /\ RemoveAt(s, i) \in Seq(S) /\ Len(RemoveAt(s, i)) = Len(s) - 1 /\ Len(s) \in Nat
           /\ \A j \in 1..Len(s) - 1 :
                 RemoveAt(s, i)[j] = IF j < i THEN s[j] ELSE s[j + 1]
<1>1. Len(s) \in Nat
  OBVIOUS
<1>2. /\ SubSeq(s, 1, i - 1) \in Seq(S) /\ Len(SubSeq(s, 1, i - 1)) = i - 1
      /\ \A j \in 1..i - 1 : SubSeq(s, 1, i - 1)[j] = s[j]
  BY <1>1
<1>3. /\ SubSeq(s, i + 1, Len(s)) \in Seq(S) /\ Len(SubSeq(s, i + 1, Len(s))) = Len(s) - i
      /\ \A j \in 1..Len(s) - i : SubSeq(s, i + 1, Len(s))[j] = s[i + j]
  BY <1>1
<1> DEFINE a == SubSeq(s, 1, i - 1)
           b == SubSeq(s, i + 1, Len(s))
<1>4. RemoveAt(s, i) = a \o b
  BY DEF RemoveAt
<1> HIDE DEF a, b
<1>5. a \in Seq(S) /\ b \in Seq(S) /\ Len(a) = i - 1 /\ Len(b) = Len(s) - i
  BY <1>2, <1>3 DEF a, b
<1>6. /\ a \o b \in Seq(S) /\ Len(a \o b) = Len(s) - 1
      /\ \A j \in 1..Len(s) - 1 : (a \o b)[j] = IF j <= i - 1 THEN a[j] ELSE b[j - (i - 1)]
  BY <1>1, <1>5, Joined
<1>7. ASSUME NEW j \in 1..Len(s) - 1 PROVE (a \o b)[j] = IF j < i THEN s[j] ELSE s[j + 1]
  <2>1. CASE j < i
    <3>1. j \in 1..i - 1 /\ j <= i - 1
      BY <1>1, <2>1
    <3>2. a[j] = s[j]
      BY <1>2, <3>1 DEF a
    <3> QED BY <1>6, <2>1, <3>1, <3>2
  <2>2. CASE ~(j < i)
    <3>1. j - (i - 1) \in 1..Len(s) - i /\ ~(j <= i - 1) /\ i + (j - (i - 1)) = j + 1
      BY <1>1, <2>2
    <3>2. b[j - (i - 1)] = s[j + 1]
      BY <1>3, <3>1 DEF b
    <3> QED BY <1>6, <2>2, <3>1, <3>2
  <2> QED BY <2>1, <2>2
<1> QED BY <1>1, <1>4, <1>6, <1>7

LEMMA FirstRemoved ==
    ASSUME NEW S, NEW s \in Seq(S), NEW e, \E i \in 1..Len(s) : s[i] = e
    PROVE  \E i \in 1..Len(s) : s[i] = e /\ RemoveFirst(s, e) = RemoveAt(s, i)
<1> DEFINE I == {i \in 1..Len(s) : s[i] = e}
<1>1. I # {} /\ I \subseteq Nat /\ IsFiniteSet(I)
  <2>1. IsFiniteSet(1..Len(s)) /\ Len(s) \in Nat
    BY FS_Interval
  <2> QED BY <2>1, FS_Subset
<1>2. PICK n \in I : \A o \in I : n <= o
  <2> HIDE DEF I
  <2> QED BY <1>1, LeastNumber
<1>3. Min(I) \in I
  BY <1>2 DEF Min
<1>4. RemoveFirst(s, e) = RemoveAt(s, Min(I))
  BY <1>1 DEF RemoveFirst, SelectInSeq
<1> QED BY <1>3, <1>4

\* How many entries of a message a sequence has.
LEMMA SameSize ==
    ASSUME NEW S, IsFiniteSet(S), NEW T, NEW f \in [S -> T],
           \A x, y \in S : f[x] = f[y] => x = y, \A t \in T : \E x \in S : f[x] = t
    PROVE  IsFiniteSet(T) /\ Cardinality(T) = Cardinality(S)
<1>1. f \in Bijection(S, T)
  BY DEF Bijection, Injection, Surjection, IsInjective
<1>2. ExistsBijection(S, T)
  BY <1>1 DEF ExistsBijection
<1> QED BY <1>2, FS_Bijection

Where(s, r) == {i \in 1..Len(s) : s[i].ref = r}

LEMMA CopiesType ==
    ASSUME NEW S, NEW s \in Seq(S), NEW r
    PROVE  /\ IsFiniteSet(Where(s, r)) /\ copies(s, r) = Cardinality(Where(s, r))
           /\ copies(s, r) \in Nat /\ Len(s) \in Nat
           /\ copies(s, r) = 0 <=> \A i \in 1..Len(s) : s[i].ref # r
<1>1. Len(s) \in Nat
  OBVIOUS
<1>2. IsFiniteSet(1..Len(s))
  BY <1>1, FS_Interval
<1>3. IsFiniteSet(Where(s, r))
  BY <1>2, FS_Subset DEF Where
<1>4. copies(s, r) = Cardinality(Where(s, r))
  BY DEF copies, Where
<1>5. Cardinality(Where(s, r)) \in Nat /\ (Cardinality(Where(s, r)) = 0 <=> Where(s, r) = {})
  BY <1>3, FS_CardinalityType, FS_EmptySet
<1> QED BY <1>1, <1>3, <1>4, <1>5 DEF Where

LEMMA CopiesOfNone ==
    ASSUME NEW r PROVE copies(<<>>, r) = 0
<1>1. <<>> \in Seq({}) /\ \A i \in 1..Len(<<>>) : <<>>[i].ref # r
  OBVIOUS
<1> QED BY <1>1, CopiesType

LEMMA CopiesAppended ==
    ASSUME NEW S, NEW s \in Seq(S), NEW e \in S, NEW r
    PROVE  copies(Append(s, e), r) = copies(s, r) + IF e.ref = r THEN 1 ELSE 0
<1> DEFINE t == Append(s, e)
<1>1. /\ t \in Seq(S) /\ Len(t) = Len(s) + 1 /\ Len(s) \in Nat
      /\ \A i \in 1..Len(s) : t[i] = s[i]
      /\ t[Len(s) + 1] = e
  OBVIOUS
<1>2. /\ copies(t, r) = Cardinality(Where(t, r)) /\ copies(s, r) = Cardinality(Where(s, r))
      /\ IsFiniteSet(Where(s, r))
  BY <1>1, CopiesType
<1> HIDE DEF t
<1>3. CASE e.ref = r
  <2>1. Where(t, r) = Where(s, r) \cup {Len(s) + 1} /\ Len(s) + 1 \notin Where(s, r)
    BY <1>1, <1>3 DEF Where
  <2>2. Cardinality(Where(t, r)) = Cardinality(Where(s, r)) + 1
    BY <1>2, <2>1, FS_AddElement
  <2> QED BY <1>2, <1>3, <2>2 DEF t
<1>4. CASE e.ref # r
  <2>1. Where(t, r) = Where(s, r)
    BY <1>1, <1>4 DEF Where
  <2>2. copies(s, r) \in Nat
    BY CopiesType
  <2> QED BY <1>2, <1>4, <2>1, <2>2 DEF t
<1> QED BY <1>3, <1>4

LEMMA CopiesWithoutOne ==
    ASSUME NEW S, NEW s \in Seq(S), NEW i \in 1..Len(s), NEW r
    PROVE  copies(s, r) = copies(RemoveAt(s, i), r) + IF s[i].ref = r THEN 1 ELSE 0
<1> DEFINE t == RemoveAt(s, i)
<1>1. /\ t \in Seq(S) /\ Len(t) = Len(s) - 1 /\ Len(s) \in Nat
      /\ \A j \in 1..Len(s) - 1 : t[j] = IF j < i THEN s[j] ELSE s[j + 1]
  BY WithoutOne
<1>2. /\ copies(t, r) = Cardinality(Where(t, r)) /\ copies(s, r) = Cardinality(Where(s, r))
      /\ IsFiniteSet(Where(s, r)) /\ IsFiniteSet(Where(t, r)) /\ copies(t, r) \in Nat
  BY <1>1, CopiesType
<1> HIDE DEF t
<1> DEFINE f == [j \in Where(t, r) |-> IF j < i THEN j ELSE j + 1]
<1>3. f \in [Where(t, r) -> Where(s, r) \ {i}]
  BY <1>1 DEF Where
<1>4. \A j, k \in Where(t, r) : f[j] = f[k] => j = k
  BY <1>1 DEF Where
<1>5. ASSUME NEW k \in Where(s, r) \ {i} PROVE \E j \in Where(t, r) : f[j] = k
  <2>1. CASE k < i
    <3>1. k \in Where(t, r)
      BY <1>1, <2>1 DEF Where
    <3> QED BY <2>1, <3>1
  <2>2. CASE ~(k < i)
    <3>1. k - 1 \in Where(t, r) /\ ~(k - 1 < i)
      BY <1>1, <2>2 DEF Where
    <3> QED BY <1>1, <3>1 DEF Where
  <2> QED BY <2>1, <2>2
<1>6. Cardinality(Where(s, r) \ {i}) = Cardinality(Where(t, r))
  <2> HIDE DEF f
  <2> QED BY <1>2, <1>3, <1>4, <1>5, SameSize
<1>7. CASE s[i].ref = r
  <2>1. i \in Where(s, r)
    BY <1>7 DEF Where
  <2>2. Cardinality(Where(s, r) \ {i}) = Cardinality(Where(s, r)) - 1
    BY <1>2, <2>1, FS_RemoveElement
  <2>3. Cardinality(Where(s, r)) \in Nat
    BY <1>2, FS_CardinalityType
  <2>4. copies(s, r) = copies(t, r) + 1
    BY <1>2, <1>6, <2>2, <2>3
  <2> QED BY <1>7, <2>4 DEF t
<1>8. CASE s[i].ref # r
  <2>1. Where(s, r) \ {i} = Where(s, r)
    BY <1>8 DEF Where
  <2>2. copies(s, r) = copies(t, r)
    BY <1>2, <1>6, <2>1, Zenon
  <2>3. copies(s, r) = copies(t, r) + 0
    BY <1>2, <2>2
  <2> QED BY <1>8, <2>3 DEF t
<1> QED BY <1>7, <1>8

LEMMA CopiesSplit ==
    ASSUME NEW S, NEW s \in Seq(S), NEW n \in 0..Len(s), NEW r
    PROVE  /\ SubSeq(s, 1, n) \in Seq(S) /\ SubSeq(s, n + 1, Len(s)) \in Seq(S)
           /\ Len(SubSeq(s, 1, n)) = n /\ Len(SubSeq(s, n + 1, Len(s))) = Len(s) - n
           /\ \A i \in 1..n : SubSeq(s, 1, n)[i] = s[i]
           /\ \A i \in 1..Len(s) - n : SubSeq(s, n + 1, Len(s))[i] = s[n + i]
           /\ copies(SubSeq(s, 1, n), r) + copies(SubSeq(s, n + 1, Len(s)), r) = copies(s, r)
<1> DEFINE a == SubSeq(s, 1, n)
           b == SubSeq(s, n + 1, Len(s))
<1>1. /\ a \in Seq(S) /\ Len(a) = n /\ Len(s) \in Nat
      /\ \A i \in 1..n : a[i] = s[i]
  OBVIOUS
<1>2. /\ b \in Seq(S) /\ Len(b) = Len(s) - n
      /\ \A i \in 1..Len(s) - n : b[i] = s[n + i]
  OBVIOUS
<1>3. /\ copies(a, r) = Cardinality(Where(a, r)) /\ copies(s, r) = Cardinality(Where(s, r))
      /\ copies(b, r) = Cardinality(Where(b, r))
      /\ IsFiniteSet(Where(s, r)) /\ IsFiniteSet(Where(a, r)) /\ IsFiniteSet(Where(b, r))
  BY <1>1, <1>2, CopiesType
<1> HIDE DEF a, b
<1> DEFINE f == [j \in Where(b, r) |-> n + j]
           tail == {i \in Where(s, r) : i > n}
<1>4. f \in [Where(b, r) -> tail]
  BY <1>1, <1>2 DEF Where
<1>5. \A j, k \in Where(b, r) : f[j] = f[k] => j = k
  BY <1>2 DEF Where
<1>6. ASSUME NEW k \in tail PROVE \E j \in Where(b, r) : f[j] = k
  <2>1. k - n \in Where(b, r)
    BY <1>1, <1>2 DEF Where
  <2> QED BY <1>1, <2>1 DEF Where
<1>7. IsFiniteSet(tail) /\ Cardinality(tail) = Cardinality(Where(b, r))
  <2> HIDE DEF f, tail
  <2> QED BY <1>3, <1>4, <1>5, <1>6, SameSize
<1>8. Where(s, r) = Where(a, r) \cup tail /\ Where(a, r) \cap tail = {}
  BY <1>1 DEF Where
<1>9. Cardinality(Where(s, r)) = Cardinality(Where(a, r)) + Cardinality(tail)
  <2> HIDE DEF tail
  <2>1. /\ Cardinality(Where(a, r) \cup tail)
             = Cardinality(Where(a, r)) + Cardinality(tail) - Cardinality(Where(a, r) \cap tail)
        /\ Cardinality({}) = 0 /\ Cardinality(Where(a, r)) \in Nat /\ Cardinality(tail) \in Nat
    BY <1>3, <1>7, FS_Union, FS_CardinalityType, FS_EmptySet
  <2>2. Cardinality(Where(s, r))
             = Cardinality(Where(a, r)) + Cardinality(tail) - Cardinality({})
    BY <1>8, <2>1, Zenon
  <2> QED BY <2>1, <2>2
<1> QED BY <1>1, <1>2, <1>3, <1>7, <1>9 DEF a, b

-----------------------------------------------------------------------------
(* The relay's batch.                                                      *)

USE NotifyAssumption DEF NotifyAssumption

LEMMA EntryOf ==
    ASSUME NEW r \in Messages
    PROVE  entry(r) \in Entry /\ entry(r).ref = r /\ entry(r).user \in Users
  BY DEF entry, Entry, Messages, Deliveries

Owned(s) == \A i \in 1..Len(s) : s[i] = entry(s[i].ref)

LEMMA NextEntry ==
    ASSUME batch \in Seq(Entry), Owned(batch), NEW u, ofUser(u) # {}
    PROVE  /\ Min(ofUser(u)) \in ofUser(u) /\ \A i \in ofUser(u) : Min(ofUser(u)) <= i
           /\ next(u) = batch[Min(ofUser(u))]
           /\ next(u) \in Entry /\ next(u).ref \in Messages
           /\ next(u) = entry(next(u).ref) /\ next(u).user = u
           /\ copies(batch, next(u).ref) # 0
<1>1. Len(batch) \in Nat /\ IsFiniteSet(1..Len(batch))
  BY FS_Interval
<1>2. IsFiniteSet(ofUser(u)) /\ ofUser(u) \subseteq Nat
  BY <1>1, FS_Subset DEF ofUser
<1>3. PICK n \in ofUser(u) : \A o \in ofUser(u) : n <= o
  BY <1>2, LeastNumber
<1>4. Min(ofUser(u)) \in ofUser(u) /\ \A i \in ofUser(u) : Min(ofUser(u)) <= i
  BY <1>3 DEF Min
<1> DEFINE m == Min(ofUser(u))
<1>5. m \in 1..Len(batch) /\ batch[m].user = u
  BY <1>4 DEF ofUser
<1>6. batch[m] \in Entry /\ batch[m] = entry(batch[m].ref)
  <2> HIDE DEF m
  <2> QED BY <1>5 DEF Owned
<1>7. batch[m].ref \in Messages
  BY <1>6 DEF Entry
<1>8. copies(batch, batch[m].ref) # 0
  <2> HIDE DEF m
  <2> QED BY <1>5, CopiesType
<1> QED BY <1>4, <1>5, <1>6, <1>7, <1>8 DEF next

LEMMA SequenceWithoutOne ==
    ASSUME NEW s \in Seq(Entry), Owned(s), NEW i \in 1..Len(s)
    PROVE  /\ RemoveAt(s, i) \in Seq(Entry) /\ Owned(RemoveAt(s, i))
           /\ \A r : copies(s, r) = copies(RemoveAt(s, i), r) + IF s[i].ref = r THEN 1 ELSE 0
<1>1. /\ RemoveAt(s, i) \in Seq(Entry) /\ Len(RemoveAt(s, i)) = Len(s) - 1 /\ Len(s) \in Nat
      /\ \A j \in 1..Len(s) - 1 :
            RemoveAt(s, i)[j] = IF j < i THEN s[j] ELSE s[j + 1]
  BY WithoutOne
<1>2. ASSUME NEW j \in 1..Len(s) - 1 PROVE RemoveAt(s, i)[j] = entry(RemoveAt(s, i)[j].ref)
  <2>1. PICK k \in 1..Len(s) : RemoveAt(s, i)[j] = s[k]
    BY <1>1
  <2> QED BY <2>1 DEF Owned
<1>3. Owned(RemoveAt(s, i))
  BY <1>1, <1>2 DEF Owned
<1> QED BY <1>1, <1>3, CopiesWithoutOne

\* A user who is done with an entry: the others have theirs.
LEMMA Dropped ==
    ASSUME batch \in Seq(Entry), Owned(batch), NEW u, ofUser(u) # {}, Drop(u)
    PROVE  /\ batch' \in Seq(Entry) /\ Owned(batch')
           /\ \A r : copies(batch, r) = copies(batch', r) + IF next(u).ref = r THEN 1 ELSE 0
           /\ \A v : v # u => /\ ofUser(v)' # {} <=> ofUser(v) # {}
                              /\ ofUser(v) # {} => next(v)' = next(v)
<1> DEFINE k == Min(ofUser(u))
<1>1. k \in ofUser(u) /\ next(u) = batch[k]
  BY NextEntry
<1>2. k \in 1..Len(batch) /\ batch[k].user = u /\ batch' = RemoveAt(batch, k)
  BY <1>1 DEF ofUser, Drop
<1> HIDE DEF k
<1>3. /\ batch' \in Seq(Entry) /\ Owned(batch')
      /\ \A r : copies(batch, r) = copies(batch', r) + IF next(u).ref = r THEN 1 ELSE 0
  BY <1>1, <1>2, SequenceWithoutOne
<1>4. /\ Len(batch') = Len(batch) - 1 /\ Len(batch) \in Nat
      /\ \A j \in 1..Len(batch) - 1 :
            batch'[j] = IF j < k THEN batch[j] ELSE batch[j + 1]
  BY <1>2, WithoutOne
<1>5. ASSUME NEW v, v # u
      PROVE  /\ ofUser(v)' # {} <=> ofUser(v) # {}
             /\ ofUser(v) # {} => next(v)' = next(v)
  <2>1. ASSUME NEW j \in ofUser(v)
        PROVE  \/ j < k /\ j \in ofUser(v)' /\ batch'[j] = batch[j]
               \/ j > k /\ j - 1 \in ofUser(v)' /\ batch'[j - 1] = batch[j]
    <3>1. j \in 1..Len(batch) /\ batch[j].user = v /\ j # k
      BY <1>2, <1>5, <2>1 DEF ofUser
    <3>2. CASE j < k
      <4>1. j \in 1..Len(batch) - 1 /\ batch'[j] = batch[j]
        BY <1>2, <1>4, <3>1, <3>2
      <4> QED BY <1>4, <3>1, <3>2, <4>1 DEF ofUser
    <3>3. CASE j > k
      <4>1. j - 1 \in 1..Len(batch) - 1 /\ ~(j - 1 < k) /\ (j - 1) + 1 = j
        BY <1>2, <1>4, <3>1, <3>3
      <4>2. batch'[j - 1] = batch[j]
        BY <1>4, <4>1
      <4> QED BY <1>4, <3>1, <3>3, <4>1, <4>2 DEF ofUser
    <3> QED BY <1>2, <1>4, <3>1, <3>2, <3>3
  <2>2. ASSUME NEW j \in ofUser(v)'
        PROVE  j \in Nat /\ ((j < k /\ j \in ofUser(v)) \/ (j >= k /\ j + 1 \in ofUser(v)))
    <3>1. j \in 1..Len(batch) - 1 /\ batch'[j].user = v
      BY <1>4, <2>2 DEF ofUser
    <3>2. batch'[j] = IF j < k THEN batch[j] ELSE batch[j + 1]
      BY <1>4, <3>1
    <3>3. CASE j < k
      BY <1>4, <3>1, <3>2, <3>3 DEF ofUser
    <3>4. CASE ~(j < k)
      BY <1>2, <1>4, <3>1, <3>2, <3>4 DEF ofUser
    <3> QED BY <1>2, <1>4, <3>1, <3>3, <3>4
  <2>3. ofUser(v)' # {} <=> ofUser(v) # {}
    BY <2>1, <2>2
  <2>4. ASSUME ofUser(v) # {} PROVE next(v)' = next(v)
    <3> DEFINE m == Min(ofUser(v))
               n == IF m < k THEN m ELSE m - 1
    <3>1. m \in ofUser(v) /\ (\A i \in ofUser(v) : m <= i) /\ next(v) = batch[m]
      BY <2>4, NextEntry
    <3>2. m \in Nat /\ k \in Nat /\ \A i \in ofUser(v) : i \in Nat
      BY <1>2, <1>4, <3>1 DEF ofUser
    <3> HIDE DEF m
    <3>3. n \in ofUser(v)' /\ batch'[n] = batch[m]
      BY <2>1, <3>1, <3>2
    <3>4. ASSUME NEW j \in ofUser(v)' PROVE n <= j
      <4>1. CASE j < k /\ j \in ofUser(v)
        BY <2>2, <3>1, <3>2, <3>4, <4>1
      <4>2. CASE j >= k /\ j + 1 \in ofUser(v)
        <5>1. m <= j + 1 /\ j \in Nat
          BY <2>2, <3>1, <3>4, <4>2
        <5> QED BY <3>2, <4>2, <5>1
      <4> QED BY <2>2, <3>4, <4>1, <4>2
    <3>5. ofUser(v)' \subseteq Nat
      BY <2>2
    <3> HIDE DEF n
    <3>6. \A i \in ofUser(v)' : n <= i
      BY <3>4
    <3>7. next(v)' = batch'[n]
      <4>1. Min(ofUser(v)') \in ofUser(v)' /\ \A i \in ofUser(v)' : Min(ofUser(v)') <= i
        BY <3>3, <3>6 DEF Min
      <4>2. Min(ofUser(v)') = n
        BY <3>3, <3>5, <3>6, <4>1
      <4> QED BY <4>2 DEF next
    <3> QED BY <3>1, <3>3, <3>7
  <2> QED BY <2>3, <2>4
<1> QED BY <1>3, <1>5

LEMMA Untouched ==
    ASSUME UNCHANGED batch
    PROVE  \A v : ofUser(v)' = ofUser(v) /\ next(v)' = next(v)
  BY DEF ofUser, next

LEMMA Acked ==
    ASSUME pel \in Seq(Entry), batch \in Seq(Entry), EntriesOwned, BatchIsPending,
           NEW u, ofUser(u) # {}, Acknowledge(u)
    PROVE  /\ pel' \in Seq(Entry) /\ Owned(pel')
           /\ \A r : copies(pel, r) = copies(pel', r) + IF next(u).ref = r THEN 1 ELSE 0
<1>1. Owned(batch) /\ Owned(pel)
  BY DEF EntriesOwned, Owned
<1>2. /\ next(u).ref \in Messages /\ next(u) = entry(next(u).ref)
      /\ copies(batch, next(u).ref) # 0
  BY <1>1, NextEntry
<1>3. copies(pel, next(u).ref) # 0
  <2>1. copies(batch, next(u).ref) \in Nat /\ copies(pel, next(u).ref) \in Nat
    BY CopiesType
  <2> QED BY <1>2, <2>1 DEF BatchIsPending
<1>4. PICK j \in 1..Len(pel) : pel[j].ref = next(u).ref
  BY <1>3, CopiesType
<1>5. pel[j] = next(u)
  BY <1>1, <1>2, <1>4 DEF Owned
<1>6. PICK k \in 1..Len(pel) : pel[k] = next(u) /\ pel' = RemoveAt(pel, k)
  BY <1>5, FirstRemoved DEF Acknowledge
<1> QED BY <1>1, <1>6, SequenceWithoutOne

-----------------------------------------------------------------------------
(* Sends that no row and no failure knows of yet.                          *)

lost(h, r) ==
    h.outcome = "delivered" /\ (h.at = "done" \/ (h.at = "marked" /\ r \in Notices))

saves(v, r) == ofUser(v) # {} /\ next(v).ref = r /\ lostIn(v)

\* A step of one user's hand: the others' are as they were, and so is what is
\* unsaved of all messages but the one in it.
LEMMA StepOf ==
    ASSUME batch \in Seq(Entry), EntriesOwned, NEW u \in Users, ofUser(u) # {}, NEW h,
           \A v \in Users \ {u} : hand'[v] = hand[v], hand'[u] = h,
           UNCHANGED batch \/ (Drop(u) /\ h = idle)
    PROVE  /\ \A v \in Users : v # u => (ofUser(v)' # {} <=> ofUser(v) # {})
           /\ \A v \in Users : v # u /\ ofUser(v) # {} => next(v)' = next(v)
           /\ \A r \in Messages :
                 /\ r # next(u).ref => (unsaved(r, Users)' <=> unsaved(r, Users))
                 /\ r = next(u).ref => /\ unsaved(r, Users) <=> lost(hand[u], r)
                                       /\ unsaved(r, Users)' <=> lost(h, r)
<1>0. Owned(batch)
  BY DEF EntriesOwned, Owned
<1>1. ASSUME NEW v \in Users \ {u}
      PROVE  /\ ofUser(v)' # {} <=> ofUser(v) # {}
             /\ ofUser(v) # {} => next(v)' = next(v)
  <2>1. CASE UNCHANGED batch
    BY <2>1, Untouched
  <2>2. CASE Drop(u)
    BY <1>0, <2>2, Dropped
  <2> QED BY <2>1, <2>2
<1>2. ASSUME NEW v \in Users \ {u}, NEW r PROVE saves(v, r)' <=> saves(v, r)
  <2>1. hand'[v] = hand[v]
    OBVIOUS
  <2> QED BY <1>1, <2>1 DEF saves, lostIn
<1>3. ASSUME NEW v \in Users \ {u}, ofUser(v) # {} PROVE next(v).ref # next(u).ref
  <2>1. next(v) = entry(next(v).ref) /\ next(v).user = v
    BY <1>0, <1>3, NextEntry
  <2>2. next(u) = entry(next(u).ref) /\ next(u).user = u
    BY <1>0, NextEntry
  <2> QED BY <2>1, <2>2
<1>4. ASSUME NEW r PROVE saves(u, r) <=> r = next(u).ref /\ lost(hand[u], r)
  BY DEF saves, lostIn, lost
<1>5. ASSUME NEW r PROVE saves(u, r)' <=> r = next(u).ref /\ lost(h, r)
  <2>1. CASE UNCHANGED batch
    <3>1. ofUser(u)' = ofUser(u) /\ next(u)' = next(u)
      BY <2>1, Untouched
    <3> QED BY <3>1 DEF saves, lostIn, lost
  <2>2. CASE h = idle
    BY <2>2 DEF saves, lostIn, lost, idle
  <2> QED BY <2>1, <2>2
<1>6. ASSUME NEW r
      PROVE  /\ unsaved(r, Users) <=> \E v \in Users : saves(v, r)
             /\ unsaved(r, Users)' <=> \E v \in Users : saves(v, r)'
  BY DEF unsaved, saves
<1>7. ASSUME NEW r \in Messages, r # next(u).ref PROVE unsaved(r, Users)' <=> unsaved(r, Users)
  <2>1. ~saves(u, r) /\ ~saves(u, r)'
    BY <1>4, <1>5, <1>7
  <2>2. \A v \in Users : saves(v, r)' <=> saves(v, r)
    BY <1>2, <2>1
  <2> QED BY <1>6, <2>2
<1>8. ASSUME NEW r \in Messages, r = next(u).ref
      PROVE  /\ unsaved(r, Users) <=> lost(hand[u], r)
             /\ unsaved(r, Users)' <=> lost(h, r)
  <2>1. \A v \in Users \ {u} : ~saves(v, r)
    BY <1>3, <1>8 DEF saves
  <2>2. \A v \in Users \ {u} : ~saves(v, r)'
    BY <1>2, <2>1
  <2> QED BY <1>4, <1>5, <1>6, <1>8, <2>1, <2>2
<1> QED BY <1>1, <1>7, <1>8

\* What is left as it is while the relay does nothing.
LEMMA RelayKept ==
    ASSUME NotifyInv, UNCHANGED <<stream, relay, raised>>
    PROVE  /\ EntriesOwned' /\ BatchIsPending' /\ HandsBusy' /\ NoticesExplained'
           /\ \A r : explained(r)' = explained(r) /\ left(r)' = left(r)
           /\ \A u : ofUser(u)' = ofUser(u) /\ next(u)' = next(u)
           /\ hand' = hand /\ sends' = sends
<1>1. /\ stream' = stream /\ pel' = pel /\ batch' = batch /\ hand' = hand
      /\ sends' = sends /\ unrecorded' = unrecorded /\ raised' = raised
  BY DEF relay
<1>2. EntriesOwned /\ BatchIsPending /\ HandsBusy /\ NoticesExplained
  BY DEF NotifyInv
<1>3. \A u : ofUser(u)' = ofUser(u) /\ next(u)' = next(u)
  BY <1>1, Untouched
<1>4. \A r, s : copies(s, r)' = copies(s', r)
  BY DEF copies
<1>5. \A r : left(r)' = left(r)
  BY <1>1 DEF left, copies
<1>6. ASSUME NEW r PROVE explained(r)' = explained(r)
  <2>1. \A v : lostIn(v)' <=> lostIn(v)
    BY <1>1, <1>3 DEF lostIn
  <2>2. unsaved(r, Users)' <=> unsaved(r, Users)
    BY <1>3, <2>1 DEF unsaved
  <2> QED BY <1>1, <2>2 DEF explained
<1>7. EntriesOwned'
  BY <1>1, <1>2 DEF EntriesOwned
<1>8. BatchIsPending'
  BY <1>1, <1>2 DEF BatchIsPending, copies
<1>9. HandsBusy'
  BY <1>1, <1>2, <1>3 DEF HandsBusy
<1>10. NoticesExplained'
  BY <1>1, <1>2, <1>5, <1>6 DEF NoticesExplained
<1> QED BY <1>1, <1>3, <1>5, <1>6, <1>7, <1>8, <1>9, <1>10

-----------------------------------------------------------------------------
(* The state's types.                                                      *)

LEMMA EditTypes == ASSUME NotifyTypeOK, EditRoutes \/ SendRoutes PROVE NotifyTypeOK'
<1>1. ASSUME NEW c \in Campaigns, NEW a \in Audiences \cup {broken}, CreateCampaign(c, a)
      PROVE  NotifyTypeOK'
  BY <1>1 DEF CreateCampaign, NotifyTypeOK, relay
<1>2. ASSUME NEW c \in Campaigns, NEW a \in Audiences \cup {broken}, UpdateCampaign(c, a)
      PROVE  NotifyTypeOK'
  BY <1>2 DEF UpdateCampaign, NotifyTypeOK, relay
<1>3. ASSUME NEW c \in Campaigns, DeleteDraft(c) PROVE NotifyTypeOK'
  BY <1>3 DEF DeleteDraft, NotifyTypeOK, relay
<1>4. ASSUME NEW c \in Campaigns, NEW to_status \in {"queued", "scheduled", "cancelled"},
             TransitionCampaign(c, to_status)
      PROVE  NotifyTypeOK'
  <2>1. campaign' \in [Campaigns -> {"none", "draft", "queued", "scheduled", "sending",
                                     "cancelled"} \cup Ended]
    BY <1>4 DEF TransitionCampaign, NotifyTypeOK
  <2>2. delivery' \in [Deliveries -> {"none", "pending", "processing"} \cup Final]
    BY <1>4 DEF TransitionCampaign, NotifyTypeOK, Final
  <2> QED BY <1>4, <2>1, <2>2 DEF TransitionCampaign, NotifyTypeOK, relay
<1> QED BY <1>1, <1>2, <1>3, <1>4 DEF EditRoutes, SendRoutes

LEMMA WorkerTypes == ASSUME NotifyInv, WorkerStep \/ TickFails PROVE NotifyTypeOK'
<1>0. NotifyTypeOK /\ WorkerSends
  BY DEF NotifyInv
<1> DEFINE TickType == [pc : {"claim", "reclaim", "seed", "count", "select", "mark",
                          "enqueue", "finalize"},
                    todo : SUBSET Campaigns, rows : SUBSET Deliveries, row : SUBSET Deliveries]
<1>1. newTick \in TickType /\ worker \in TickType
  BY <1>0 DEF newTick, NotifyTypeOK
<1>2. nextCampaign \in TickType
  BY <1>1 DEF nextCampaign
<1>3. ASSUME NEW due \in SUBSET Campaigns, ClaimDue(due) PROVE NotifyTypeOK'
  <2>1. campaign' \in [Campaigns -> {"none", "draft", "queued", "scheduled", "sending",
                                     "cancelled"} \cup Ended]
    BY <1>0, <1>3 DEF ClaimDue, NotifyTypeOK
  <2> QED BY <1>0, <1>3, <2>1 DEF ClaimDue, Goto, NotifyTypeOK, relay
<1>4. ASSUME NEW stuck \in SUBSET Deliveries, Reclaim(stuck) PROVE NotifyTypeOK'
  <2>1. delivery' \in [Deliveries -> {"none", "pending", "processing"} \cup Final]
    BY <1>0, <1>4 DEF Reclaim, NotifyTypeOK
  <2>2. worker' \in TickType
    BY <1>1, <1>4 DEF Reclaim, sending
  <2>3. early' \subseteq Deliveries
    BY <1>0, <1>4 DEF Reclaim, NotifyTypeOK
  <2> QED BY <1>0, <1>4, <2>1, <2>2, <2>3 DEF Reclaim, NotifyTypeOK, relay
<1>5. CASE SeedDeliveries
  <2>1. delivery' \in [Deliveries -> {"none", "pending", "processing"} \cup Final]
    BY <1>0, <1>5 DEF SeedDeliveries, NotifyTypeOK
  <2>2. worker' \in TickType
    BY <1>1, <1>5 DEF SeedDeliveries, Goto
  <2> QED BY <1>0, <1>5, <2>1, <2>2 DEF SeedDeliveries, NotifyTypeOK, relay
<1>6. CASE ResolveFails
  BY <1>0, <1>1, <1>6 DEF ResolveFails, NotifyTypeOK, relay, tables
<1>7. CASE SetRecipientCount
  BY <1>0, <1>1, <1>7 DEF SetRecipientCount, Goto, NotifyTypeOK, relay
<1>8. CASE SelectPending
  <2>1. worker' \in TickType
    BY <1>1, <1>2, <1>8 DEF SelectPending
  <2> QED BY <1>0, <1>8, <2>1 DEF SelectPending, NotifyTypeOK, relay, tables
<1>9. ASSUME NEW d \in Deliveries, MarkProcessing(d) PROVE NotifyTypeOK'
  <2>1. worker' \in TickType
    BY <1>1, <1>9 DEF MarkProcessing
  <2> QED BY <1>0, <1>9, <2>1 DEF MarkProcessing, NotifyTypeOK, relay
<1>10. CASE EnqueueCampaignMessage
  <2>1. worker' \in TickType
    BY <1>1, <1>2, <1>10 DEF EnqueueCampaignMessage
  <2>2. PICK d \in worker.row : stream' = Append(stream, entry(d))
    BY <1>10 DEF EnqueueCampaignMessage
  <2>3. entry(d) \in Entry
    BY <1>1, EntryOf DEF Messages
  <2>4. stream' \in Seq(Entry)
    BY <1>0, <2>2, <2>3 DEF NotifyTypeOK
  <2> QED BY <1>0, <1>10, <2>1, <2>4 DEF EnqueueCampaignMessage, NotifyTypeOK, relay, tables
<1>11. CASE FinalizeCompleted
  <2>1. campaign' \in [Campaigns -> {"none", "draft", "queued", "scheduled", "sending",
                                     "cancelled"} \cup Ended]
    BY <1>0, <1>11 DEF FinalizeCompleted, NotifyTypeOK, Ended
  <2> QED BY <1>0, <1>1, <1>11, <2>1 DEF FinalizeCompleted, NotifyTypeOK, relay
<1>12. CASE TickFails
  BY <1>0, <1>1, <1>12 DEF TickFails, NotifyTypeOK, relay, tables
<1> QED BY <1>3, <1>4, <1>5, <1>6, <1>7, <1>8, <1>9, <1>10, <1>11, <1>12 DEF WorkerStep

LEMMA HandTypes ==
    ASSUME NotifyTypeOK, NEW u \in Users
    PROVE  /\ hand[u].at \in {"idle", "queued", "done", "marked"}
           /\ hand[u].attempts \in 0..MaxAttempts
           /\ hand[u].outcome \in {"none", "delivered", "failed"}
           /\ hand[u] = [at |-> hand[u].at, attempts |-> hand[u].attempts,
                         outcome |-> hand[u].outcome]
  BY DEF NotifyTypeOK

LEMMA RelayTypes ==
    ASSUME NotifyInv, \/ \E n \in Notices : NotifyUser(n)
                      \/ BotStep \/ (\E u \in Users : ProcessOneFails(u)) \/ Crash
    PROVE  NotifyTypeOK'
<1>0. /\ NotifyTypeOK /\ EntriesOwned /\ BatchIsPending /\ HandsBusy
      /\ batch \in Seq(Entry) /\ pel \in Seq(Entry) /\ stream \in Seq(Entry) /\ Owned(batch)
  BY DEF NotifyInv, NotifyTypeOK, EntriesOwned, Owned
<1> DEFINE Hand == [at : {"idle", "queued", "done", "marked"}, attempts : 0..MaxAttempts,
                    outcome : {"none", "delivered", "failed"}]
<1>1. hand \in [Users -> Hand] /\ idle \in Hand
  BY <1>0 DEF NotifyTypeOK, idle
<1>2. ASSUME NEW n \in Notices, NotifyUser(n) PROVE NotifyTypeOK'
  <2>1. entry(n) \in Entry
    BY EntryOf DEF Messages
  <2>2. stream' \in Seq(Entry)
    <3>1. stream' = Append(stream, entry(n)) \/ stream' = stream
      BY <1>2 DEF NotifyUser
    <3>2. stream \in Seq(Entry) /\ Append(stream, entry(n)) \in Seq(Entry)
      BY <1>0, <2>1
    <3> QED BY <3>1, <3>2
  <2> QED BY <1>0, <1>2, <2>2 DEF NotifyUser, NotifyTypeOK, relay, tables
<1>3. CASE ReadPending
  <2> DEFINE n == IF Len(pel) < BatchSize THEN Len(pel) ELSE BatchSize
  <2>1. n \in 0..Len(pel) /\ batch' = SubSeq(pel, 1, n)
    BY <1>0, <1>3 DEF ReadPending
  <2>2. batch' \in Seq(Entry)
    <3> HIDE DEF n
    <3> QED BY <1>0, <2>1, CopiesSplit
  <2> QED BY <1>0, <1>3, <2>2 DEF ReadPending, NotifyTypeOK, tables
<1>4. CASE ReadFresh
  <2> DEFINE n == IF Len(stream) < BatchSize THEN Len(stream) ELSE BatchSize
  <2>1. n \in 0..Len(stream) /\ batch' = pel' /\ pel' = SubSeq(stream, 1, n)
        /\ stream' = SubSeq(stream, n + 1, Len(stream))
    BY <1>0, <1>4 DEF ReadFresh
  <2>2. pel' \in Seq(Entry) /\ stream' \in Seq(Entry)
    <3> HIDE DEF n
    <3> QED BY <1>0, <2>1, CopiesSplit
  <2> QED BY <1>0, <1>4, <2>1, <2>2 DEF ReadFresh, NotifyTypeOK, tables
<1>5. ASSUME NEW u \in Users, SkipEntry(u) PROVE NotifyTypeOK'
  <2>1. pel' \in Seq(Entry) /\ batch' \in Seq(Entry)
    BY <1>0, <1>5, Acked, Dropped DEF SkipEntry
  <2> QED BY <1>0, <1>5, <2>1 DEF SkipEntry, NotifyTypeOK, tables
<1>6. ASSUME NEW u \in Users, NotifierSend(u) PROVE NotifyTypeOK'
  <2>1. hand' \in [Users -> Hand]
    BY <1>1, <1>6 DEF NotifierSend
  <2> QED BY <1>0, <1>6, <2>1 DEF NotifierSend, NotifyTypeOK, tables
<1>7. ASSUME NEW u \in Users, MarkOutcome(u) PROVE NotifyTypeOK'
  <2>1. hand' \in [Users -> Hand]
    BY <1>1, <1>7 DEF MarkOutcome
  <2>2. hand[u].outcome \in Final
    BY <1>0, <1>7, HandTypes DEF MarkOutcome, HandsBusy, Final
  <2>3. delivery' \in [Deliveries -> {"none", "pending", "processing"} \cup Final]
    BY <1>0, <1>7, <2>2 DEF MarkOutcome, NotifyTypeOK
  <2> QED BY <1>0, <1>7, <2>1, <2>3 DEF MarkOutcome, NotifyTypeOK, tables
<1>8. ASSUME NEW u \in Users, AckEntry(u) PROVE NotifyTypeOK'
  <2>1. ofUser(u) # {}
    BY <1>0, <1>8 DEF AckEntry, HandsBusy
  <2>2. pel' \in Seq(Entry) /\ batch' \in Seq(Entry)
    BY <1>0, <1>8, <2>1, Acked, Dropped DEF AckEntry
  <2>3. hand' \in [Users -> Hand]
    BY <1>1, <1>8 DEF AckEntry
  <2> QED BY <1>0, <1>8, <2>2, <2>3 DEF AckEntry, NotifyTypeOK, tables
<1>9. ASSUME NEW u \in Users, Delivered(u) PROVE NotifyTypeOK'
  <2>1. ofUser(u) # {} /\ next(u).ref \in Messages
    <3>1. ofUser(u) # {}
      BY <1>0, <1>9 DEF Delivered, isNext, ready, HandsBusy
    <3> QED BY <1>0, <3>1, NextEntry
  <2>2. hand' \in [Users -> Hand]
    BY <1>1, <1>9 DEF Delivered
  <2>3. sends' \in [Messages -> Nat]
    BY <1>0, <1>9, <2>1 DEF Delivered, NotifyTypeOK
  <2> QED BY <1>0, <1>9, <2>2, <2>3 DEF Delivered, NotifyTypeOK, tables
<1>10. ASSUME NEW u \in Users, NotDelivered(u) PROVE NotifyTypeOK'
  <2>1. hand' \in [Users -> Hand]
    BY <1>1, <1>10 DEF NotDelivered
  <2> QED BY <1>0, <1>10, <2>1 DEF NotDelivered, NotifyTypeOK, tables
<1>11. ASSUME NEW u \in Users, RetryAfter(u) PROVE NotifyTypeOK'
  <2>1. hand[u].attempts + 1 \in 0..MaxAttempts
    <3>1. hand[u].attempts < MaxAttempts
      BY <1>0, <1>11 DEF RetryAfter, isNext, ready, HandsBusy
    <3>2. hand[u].attempts \in 0..MaxAttempts
      BY <1>0, HandTypes
    <3> QED BY <3>1, <3>2
  <2>2. hand' \in [Users -> Hand]
    BY <1>1, <1>11, <2>1 DEF RetryAfter
  <2>3. backoff' \subseteq Users
    BY <1>0, <1>11 DEF RetryAfter, NotifyTypeOK
  <2> QED BY <1>0, <1>11, <2>2, <2>3 DEF RetryAfter, NotifyTypeOK, tables
<1>12. ASSUME NEW u \in Users, BackoffEnds(u) PROVE NotifyTypeOK'
  BY <1>0, <1>12 DEF BackoffEnds, NotifyTypeOK, tables
<1>13. \A us : forgotten(us) \in [Messages -> Nat]
  BY <1>0 DEF forgotten, NotifyTypeOK
<1>14. ASSUME NEW u \in Users, ProcessOneFails(u) PROVE NotifyTypeOK'
  <2>1. batch' \in Seq(Entry)
    BY <1>0, <1>14, Dropped DEF ProcessOneFails
  <2>2. hand' \in [Users -> Hand]
    BY <1>1, <1>14 DEF ProcessOneFails
  <2>3. unrecorded' \in [Messages -> Nat] /\ errors' \in Nat
    BY <1>0, <1>13, <1>14 DEF ProcessOneFails, NotifyTypeOK
  <2> QED BY <1>0, <1>14, <2>1, <2>2, <2>3 DEF ProcessOneFails, NotifyTypeOK, tables
<1>15. CASE Crash
  <2>1. batch' \in Seq(Entry) /\ hand' \in [Users -> Hand]
    BY <1>1, <1>15 DEF Crash
  <2>2. unrecorded' \in [Messages -> Nat] /\ errors' \in Nat
    BY <1>0, <1>13, <1>15 DEF Crash, NotifyTypeOK
  <2> QED BY <1>0, <1>15, <2>1, <2>2 DEF Crash, NotifyTypeOK, tables, newTick
<1> QED BY <1>2, <1>3, <1>4, <1>5, <1>6, <1>7, <1>8, <1>9, <1>10, <1>11, <1>12, <1>14, <1>15
        DEF BotStep, RelayStep, Telegram

-----------------------------------------------------------------------------
(* The campaigns' tables and the worker.                                   *)

LEMMA Numbers ==
    ASSUME NotifyTypeOK, NotifyTypeOK', NEW r \in Messages
    PROVE  /\ explained(r) \in Nat /\ left(r) \in Nat /\ sends[r] \in Nat
           /\ explained(r)' \in Nat /\ left(r)' \in Nat /\ sends'[r] \in Nat
           /\ left(r) = copies(stream, r) + copies(pel, r)
           /\ left(r)' = copies(stream', r) + copies(pel', r)
<1>1. /\ copies(stream, r) \in Nat /\ copies(pel, r) \in Nat
      /\ copies(stream', r) \in Nat /\ copies(pel', r) \in Nat
  BY CopiesType DEF NotifyTypeOK
<1>2. /\ left(r) = copies(stream, r) + copies(pel, r)
      /\ left(r)' = copies(stream', r) + copies(pel', r)
  BY DEF left, copies
<1>3. unrecorded[r] \in Nat /\ unrecorded'[r] \in Nat /\ sends[r] \in Nat /\ sends'[r] \in Nat
  BY DEF NotifyTypeOK
<1>4. explained(r) \in Nat /\ explained(r)' \in Nat
  BY <1>3 DEF explained
<1> QED BY <1>1, <1>2, <1>3, <1>4

\* Steps that open no delivery: no new entry, nothing new to enqueue, and no
\* send that is not explained.
LEMMA NothingOpened ==
    ASSUME NotifyInv, NotifyTypeOK', UNCHANGED <<delivery, early>>,
           \A d \in Deliveries : /\ isOut(d)' => isOut(d)
                                 /\ waits(d)' => waits(d)
                                 /\ sends'[d] + explained(d) <= sends[d] + explained(d)'
    PROVE  EnqueuedOnce' /\ DeliveriesExplained'
<1>0. NotifyTypeOK /\ EnqueuedOnce /\ DeliveriesExplained
  BY DEF NotifyInv
<1>1. EnqueuedOnce'
  BY <1>0 DEF EnqueuedOnce
<1>2. ASSUME NEW d \in Deliveries
      PROVE  /\ sends'[d] <= explained(d)' + recorded(d)' + (IF d \in early THEN 1 ELSE 0)
             /\ waits(d)' /\ (isOut(d)' \/ delivery'[d] # "pending") =>
                   sends'[d] <= explained(d)' + recorded(d)'
  <2>1. /\ explained(d) \in Nat /\ sends[d] \in Nat /\ explained(d)' \in Nat /\ sends'[d] \in Nat
    BY <1>0, Numbers DEF Messages
  <2>2. recorded(d)' = recorded(d) /\ recorded(d) \in Nat
    BY DEF recorded
  <2>3. sends[d] <= explained(d) + recorded(d) + (IF d \in early THEN 1 ELSE 0)
    BY <1>0 DEF DeliveriesExplained
  <2>4. sends'[d] <= explained(d)' + recorded(d)' + (IF d \in early THEN 1 ELSE 0)
    BY <2>1, <2>2, <2>3
  <2>5. ASSUME waits(d)', isOut(d)' \/ delivery'[d] # "pending"
        PROVE  sends'[d] <= explained(d)' + recorded(d)'
    <3>1. sends[d] <= explained(d) + recorded(d)
      BY <1>0, <2>5 DEF DeliveriesExplained
    <3> QED BY <2>1, <2>2, <3>1
  <2> QED BY <2>4, <2>5
<1>3. DeliveriesExplained'
  BY <1>2 DEF DeliveriesExplained
<1> QED BY <1>1, <1>3

\* While an entry is in hand its row stays open.
LEMMA HandsKept ==
    ASSUME NotifyInv, UNCHANGED <<stream, relay, raised>>,
           \A d \in Deliveries : delivery[d] \in {"pending", "processing"} =>
                                     delivery'[d] \in {"pending", "processing"}
    PROVE  HandOpen'
<1>1. HandOpen
  BY DEF NotifyInv
<1>2. hand' = hand /\ \A u : next(u)' = next(u)
  BY RelayKept
<1> QED BY <1>1, <1>2 DEF HandOpen

LEMMA TableStep ==
    ASSUME NotifyInv, NotifyTypeOK', UNCHANGED <<stream, relay, raised, delivery, early>>,
           worker'.row \subseteq worker.row,
           \A d \in worker'.rows : d \in worker.rows \/ delivery[d] = "pending"
    PROVE  /\ EntriesOwned' /\ BatchIsPending' /\ HandsBusy' /\ NoticesExplained'
           /\ HandOpen' /\ EnqueuedOnce' /\ DeliveriesExplained'
<1>0. NotifyTypeOK
  BY DEF NotifyInv
<1>1. /\ EntriesOwned' /\ BatchIsPending' /\ HandsBusy' /\ NoticesExplained'
      /\ \A r : explained(r)' = explained(r) /\ left(r)' = left(r)
      /\ sends' = sends
  BY RelayKept
<1>2. HandOpen'
  BY HandsKept
<1>3. ASSUME NEW d \in Deliveries
      PROVE  /\ isOut(d)' => isOut(d)
             /\ waits(d)' => waits(d)
             /\ sends'[d] + explained(d) <= sends[d] + explained(d)'
  <2>1. isOut(d)' => isOut(d)
    BY <1>1 DEF isOut
  <2>2. waits(d)' => waits(d)
    BY DEF waits
  <2>3. explained(d) \in Nat /\ sends[d] \in Nat
    BY <1>0, Numbers DEF Messages
  <2> QED BY <1>1, <2>1, <2>2, <2>3
<1> QED BY <1>1, <1>2, <1>3, NothingOpened

\* A campaign that has ended keeps its deliveries.
LEMMA EndedKept ==
    ASSUME FinishedIsFinished,
           \A c \in Campaigns : campaign'[c] \in Ended =>
               campaign'[c] = campaign[c] /\ \A u \in Users : delivery'[<<c, u>>] = delivery[<<c, u>>]
    PROVE  FinishedIsFinished'
<1> DEFINE ends(c) == {delivery[<<c, u>>] : u \in Users} \ {"none"}
<1> SUFFICES ASSUME NEW c \in Campaigns, campaign'[c] \in Ended
             PROVE  /\ ends(c)' \subseteq Final
                    /\ campaign'[c] = "completed" <=> "failed" \notin ends(c)'
                    /\ campaign'[c] = "failed" <=>
                          "failed" \in ends(c)' /\ "delivered" \notin ends(c)'
  BY DEF FinishedIsFinished
<1>1. ends(c)' = ends(c)
  OBVIOUS
<1>2. campaign'[c] = campaign[c]
  OBVIOUS
<1>3. /\ ends(c) \subseteq Final
      /\ campaign[c] = "completed" <=> "failed" \notin ends(c)
      /\ campaign[c] = "failed" <=> "failed" \in ends(c) /\ "delivered" \notin ends(c)
  BY <1>2 DEF FinishedIsFinished
<1> HIDE DEF ends
<1> QED BY <1>1, <1>2, <1>3, Zenon

\* A delivery that is open belongs to a campaign that is being sent.
LEMMA OpenIsSent ==
    ASSUME RowsOfSent, FinishedIsFinished, NEW d \in Deliveries,
           delivery[d] \in {"pending", "processing"}
    PROVE  campaign[d[1]] = "sending"
<1>1. d[1] \in Campaigns /\ d[2] \in Users /\ d = <<d[1], d[2]>>
  BY DEF Deliveries
<1>2. campaign[d[1]] \in {"sending"} \cup Ended
  BY DEF RowsOfSent
<1>3. ASSUME campaign[d[1]] \in Ended PROVE FALSE
  <2>1. delivery[<<d[1], d[2]>>] \in Final \cup {"none"}
    BY <1>1, <1>3 DEF FinishedIsFinished
  <2>2. delivery[d] \in Final \cup {"none"}
    BY <1>1, <2>1, Zenon
  <2> QED BY <2>2 DEF Final
<1> QED BY <1>2, <1>3

\* Campaigns that are not sent yet come and go.
LEMMA CampaignMoved ==
    ASSUME NotifyInv, UNCHANGED delivery,
           \A c \in Campaigns : campaign'[c] # campaign[c] =>
               campaign[c] \notin {"sending"} \cup Ended /\ campaign'[c] \notin Ended
    PROVE  RowsOfSent' /\ FinishedIsFinished' /\ sending \subseteq sending'
<1>1. RowsOfSent /\ FinishedIsFinished
  BY DEF NotifyInv
<1>2. \A d \in Deliveries : d[1] \in Campaigns
  BY DEF Deliveries
<1>3. RowsOfSent'
  BY <1>1, <1>2 DEF RowsOfSent
<1>4. FinishedIsFinished'
  BY <1>1, EndedKept
<1> QED BY <1>3, <1>4 DEF sending

LEMMA RoutesStep == ASSUME NotifyInv, EditRoutes \/ SendRoutes PROVE NotifyInv'
<1>0. NotifyTypeOK /\ NotifyTypeOK' /\ RowsOfSent /\ WorkerSends
  BY EditTypes DEF NotifyInv
<1>1. UNCHANGED <<worker, stream, relay, raised, early>>
  BY DEF EditRoutes, SendRoutes, CreateCampaign, UpdateCampaign, DeleteDraft, TransitionCampaign
<1>2. UNCHANGED delivery
  <2>1. CASE EditRoutes
    BY <2>1 DEF EditRoutes, CreateCampaign, UpdateCampaign, DeleteDraft
  <2>2. ASSUME NEW c \in Campaigns, NEW to_status, TransitionCampaign(c, to_status)
        PROVE  UNCHANGED delivery
    <3>1. campaign[c] \in {"draft", "scheduled", "queued"}
      BY <2>2 DEF TransitionCampaign, AllowedTransitions
    <3>2. \A d \in Deliveries : d[1] = c => delivery[d] = "none"
      BY <1>0, <3>1 DEF RowsOfSent, Ended
    <3>3. delivery' = [d \in Deliveries |-> delivery[d]]
      BY <2>2, <3>2 DEF TransitionCampaign
    <3> QED BY <1>0, <3>3 DEF NotifyTypeOK
  <2> QED BY <2>1, <2>2 DEF SendRoutes
<1> DEFINE moved == \A c \in Campaigns : campaign'[c] # campaign[c] =>
               campaign[c] \notin {"sending"} \cup Ended /\ campaign'[c] \notin Ended
<1>3. moved
  <2>1. ASSUME NEW c \in Campaigns, NEW a, CreateCampaign(c, a) PROVE moved
    BY <1>0, <2>1 DEF CreateCampaign, NotifyTypeOK, Ended
  <2>2. ASSUME NEW c \in Campaigns, NEW a, UpdateCampaign(c, a) PROVE moved
    BY <2>2 DEF UpdateCampaign
  <2>3. ASSUME NEW c \in Campaigns, DeleteDraft(c) PROVE moved
    BY <1>0, <2>3 DEF DeleteDraft, NotifyTypeOK, Ended
  <2>4. ASSUME NEW c \in Campaigns, NEW to_status, TransitionCampaign(c, to_status) PROVE moved
    BY <1>0, <2>4 DEF TransitionCampaign, AllowedTransitions, NotifyTypeOK, Ended
  <2> QED BY <2>1, <2>2, <2>3, <2>4 DEF EditRoutes, SendRoutes
<1>4. RowsOfSent' /\ FinishedIsFinished' /\ sending \subseteq sending'
  BY <1>2, <1>3, CampaignMoved
<1>5. WorkerSends'
  BY <1>0, <1>1, <1>4 DEF WorkerSends
<1>6. /\ EntriesOwned' /\ BatchIsPending' /\ HandsBusy' /\ NoticesExplained'
      /\ HandOpen' /\ EnqueuedOnce' /\ DeliveriesExplained'
  BY <1>0, <1>1, <1>2, TableStep
<1> QED BY <1>0, <1>4, <1>5, <1>6 DEF NotifyInv

\* The worker has picked a campaign that is being sent.
LEMMA CurrentIsSent ==
    ASSUME WorkerSends, worker.pc \in {"seed", "count", "select", "mark", "enqueue"}
    PROVE  current \in worker.todo /\ current \in sending
  BY DEF WorkerSends, current

LEMMA NextTick ==
    ASSUME WorkerSends, UNCHANGED campaign, worker' = newTick \/ worker' = nextCampaign
    PROVE  WorkerSends' /\ worker'.row = {} /\ worker'.rows = {}
<1>1. sending' = sending
  BY DEF sending
<1>2. CASE worker' = newTick
  BY <1>1, <1>2 DEF WorkerSends, newTick
<1>3. CASE worker' = nextCampaign
  <2>1. /\ worker'.todo = worker.todo \ {current} /\ worker'.rows = {} /\ worker'.row = {}
        /\ worker'.pc = IF worker.todo \ {current} = {} THEN "finalize" ELSE "seed"
    BY <1>3 DEF nextCampaign, WorkerSends
  <2> QED BY <1>1, <2>1 DEF WorkerSends
<1> QED BY <1>2, <1>3

LEMMA TicksStep ==
    ASSUME NotifyInv, \/ \E due \in SUBSET Campaigns : ClaimDue(due)
                      \/ ResolveFails \/ SetRecipientCount \/ SelectPending
                      \/ FinalizeCompleted \/ TickFails
    PROVE  NotifyInv'
<1>0. NotifyTypeOK /\ NotifyTypeOK' /\ RowsOfSent /\ WorkerSends /\ FinishedIsFinished
  BY WorkerTypes DEF NotifyInv, WorkerStep
<1>1. UNCHANGED <<stream, relay, raised, delivery, early>>
  BY DEF ClaimDue, ResolveFails, SetRecipientCount, SelectPending, FinalizeCompleted, TickFails, tables
<1> DEFINE good == /\ RowsOfSent' /\ FinishedIsFinished' /\ WorkerSends'
                   /\ worker'.row \subseteq worker.row
                   /\ \A d \in worker'.rows : d \in worker.rows \/ delivery[d] = "pending"
<1> SUFFICES good
  <2> HIDE DEF good
  <2>1. ASSUME good
        PROVE  /\ EntriesOwned' /\ BatchIsPending' /\ HandsBusy' /\ NoticesExplained'
               /\ HandOpen' /\ EnqueuedOnce' /\ DeliveriesExplained'
    BY <1>0, <1>1, <2>1, TableStep DEF good
  <2> QED BY <1>0, <2>1 DEF NotifyInv, good
<1>2. ASSUME NEW due \in SUBSET Campaigns, ClaimDue(due) PROVE good
  <2>1. \A c \in Campaigns : campaign'[c] # campaign[c] =>
           campaign[c] \notin {"sending"} \cup Ended /\ campaign'[c] \notin Ended
    BY <1>2 DEF ClaimDue, Ended
  <2>2. RowsOfSent' /\ FinishedIsFinished' /\ sending \subseteq sending'
    BY <1>1, <2>1, CampaignMoved
  <2>3. /\ worker'.row = worker.row /\ worker'.rows = worker.rows /\ worker'.todo = worker.todo
        /\ worker'.pc = "reclaim" /\ worker.pc = "claim"
    BY <1>0, <1>2 DEF ClaimDue, Goto, NotifyTypeOK
  <2>4. WorkerSends'
    BY <1>0, <2>2, <2>3 DEF WorkerSends
  <2> QED BY <2>2, <2>3, <2>4
<1>3. ASSUME UNCHANGED campaign PROVE RowsOfSent' /\ FinishedIsFinished' /\ sending' = sending
  <2>1. RowsOfSent' /\ FinishedIsFinished'
    BY <1>1, <1>3, CampaignMoved
  <2> QED BY <1>3, <2>1 DEF sending
<1>4. ASSUME worker' = newTick, UNCHANGED campaign PROVE good
  BY <1>0, <1>3, <1>4, NextTick
<1>5. CASE ResolveFails
  BY <1>4, <1>5 DEF ResolveFails, tables
<1>6. CASE TickFails
  BY <1>4, <1>6 DEF TickFails, tables
<1>7. CASE SetRecipientCount
  <2>1. /\ worker'.row = worker.row /\ worker'.rows = worker.rows /\ worker'.todo = worker.todo
        /\ worker'.pc = "select" /\ worker.pc = "count" /\ campaign' = campaign
    BY <1>0, <1>7 DEF SetRecipientCount, Goto, NotifyTypeOK
  <2>2. WorkerSends'
    BY <1>0, <1>3, <2>1 DEF WorkerSends
  <2> QED BY <1>3, <2>1, <2>2
<1>8. CASE SelectPending
  <2> DEFINE found == {d \in Deliveries : d[1] = current /\ delivery[d] = "pending"}
  <2>1. campaign' = campaign /\ worker.pc = "select"
    BY <1>8 DEF SelectPending, tables
  <2>2. CASE worker' = nextCampaign
    BY <1>0, <1>3, <2>1, <2>2, NextTick
  <2>3. CASE worker' = [worker EXCEPT !.pc = "mark", !.rows = found]
    <3>1. /\ worker'.row = worker.row /\ worker'.rows = found /\ worker'.todo = worker.todo
          /\ worker'.pc = "mark"
      BY <1>0, <2>3 DEF NotifyTypeOK
    <3>2. current \in sending
      BY <1>0, <2>1, CurrentIsSent
    <3>3. WorkerSends'
      BY <1>0, <1>3, <2>1, <3>1, <3>2 DEF WorkerSends
    <3> QED BY <1>3, <2>1, <3>1, <3>3
  <2> QED BY <1>8, <2>2, <2>3 DEF SelectPending
<1>9. CASE FinalizeCompleted
  <2> DEFINE some(c, s) == \E u \in Users : delivery[<<c, u>>] = s
             new_status(c) == IF ~some(c, "failed") THEN "completed"
                              ELSE IF ~some(c, "delivered") THEN "failed" ELSE "partially_failed"
  <2>1. /\ worker' = newTick /\ delivery' = delivery
        /\ \A c \in Campaigns :
              campaign'[c] = IF c \in sending /\ ~unfinished(c) THEN new_status(c) ELSE campaign[c]
    BY <1>9 DEF FinalizeCompleted
  <2>2. RowsOfSent'
    <3>1. \A c \in Campaigns : campaign[c] \in {"sending"} \cup Ended =>
                               campaign'[c] \in {"sending"} \cup Ended
      BY <2>1 DEF Ended
    <3> QED BY <1>0, <2>1, <3>1 DEF RowsOfSent, Deliveries
  <2>3. WorkerSends' /\ worker'.row = {} /\ worker'.rows = {}
    BY <2>1 DEF WorkerSends, newTick
  <2> DEFINE ends(c) == {delivery[<<c, u>>] : u \in Users} \ {"none"}
             sound(c) == /\ ends(c) \subseteq Final
                         /\ campaign[c] = "completed" <=> "failed" \notin ends(c)
                         /\ campaign[c] = "failed" <=> "failed" \in ends(c) /\ "delivered" \notin ends(c)
  <2>4. ASSUME NEW c \in Campaigns, campaign'[c] \in Ended PROVE sound(c)'
    <3>1. ends(c)' = ends(c)
      BY <2>1
    <3>2. CASE c \in sending /\ ~unfinished(c)
      <4>1. ends(c) \subseteq Final
        BY <3>2 DEF unfinished
      <4>2. campaign'[c] = new_status(c)
        BY <2>1, <3>2
      <4>3. (some(c, "failed") <=> "failed" \in ends(c)) /\ (some(c, "delivered") <=> "delivered" \in ends(c))
        OBVIOUS
      <4> HIDE DEF ends
      <4> QED BY <3>1, <4>1, <4>2, <4>3
    <3>3. CASE ~(c \in sending /\ ~unfinished(c))
      <4>1. campaign'[c] = campaign[c]
        BY <2>1, <3>3
      <4>2. sound(c)
        BY <1>0, <2>4, <4>1 DEF FinishedIsFinished
      <4> HIDE DEF ends
      <4> QED BY <3>1, <4>1, <4>2, Zenon
    <3> QED BY <3>2, <3>3
  <2>5. FinishedIsFinished'
    BY <2>4 DEF FinishedIsFinished
  <2> QED BY <2>2, <2>3, <2>5
<1> QED BY <1>2, <1>5, <1>6, <1>7, <1>8, <1>9

\* The worker creates the rows of a campaign that is being sent.
LEMMA SeedStep == ASSUME NotifyInv, SeedDeliveries PROVE NotifyInv'
<1>0. /\ NotifyTypeOK /\ NotifyTypeOK' /\ RowsOfSent /\ WorkerSends /\ FinishedIsFinished
      /\ EnqueuedOnce /\ DeliveriesExplained
  BY WorkerTypes DEF NotifyInv, WorkerStep
<1>1. /\ UNCHANGED <<campaign, stream, relay, raised, early>> /\ worker.pc = "seed"
      /\ worker'.rows = worker.rows /\ worker'.row = worker.row /\ worker'.todo = worker.todo
      /\ worker'.pc \in {"select", "count"}
  BY <1>0 DEF SeedDeliveries, Goto, NotifyTypeOK
<1>2. worker.rows = {} /\ worker.row = {} /\ current \in sending
  BY <1>0, <1>1, CurrentIsSent DEF WorkerSends
<1>3. \A d \in Deliveries :
         \/ delivery'[d] = delivery[d]
         \/ d[1] \in sending /\ delivery[d] = "none" /\ delivery'[d] = "pending"
  BY <1>0, <1>2 DEF SeedDeliveries, NotifyTypeOK
<1>4. WorkerSends'
  <2>1. sending' = sending
    BY <1>1 DEF sending
  <2> QED BY <1>0, <1>1, <1>2, <2>1 DEF WorkerSends
<1>5. RowsOfSent'
  BY <1>0, <1>1, <1>3 DEF RowsOfSent, sending
<1>6. FinishedIsFinished'
  <2>1. \A c \in Campaigns, u \in Users : campaign[c] \in Ended => delivery'[<<c, u>>] = delivery[<<c, u>>]
    BY <1>3 DEF Deliveries, sending, Ended
  <2> QED BY <1>0, <1>1, <2>1, EndedKept
<1>7. /\ EntriesOwned' /\ BatchIsPending' /\ HandsBusy' /\ NoticesExplained'
      /\ \A r : explained(r)' = explained(r) /\ left(r)' = left(r)
      /\ sends' = sends
  BY <1>1, RelayKept
<1>8. HandOpen'
  BY <1>1, <1>3, HandsKept
<1>9. ASSUME NEW d \in Deliveries
      PROVE  /\ isOut(d)' <=> isOut(d)
             /\ waits(d)' => delivery'[d] = "pending"
             /\ waits(d) <=> delivery[d] = "pending"
  BY <1>1, <1>2, <1>7 DEF isOut, waits
<1>10. EnqueuedOnce'
  BY <1>0, <1>1, <1>3, <1>9 DEF EnqueuedOnce
<1>11. ASSUME NEW d \in Deliveries
       PROVE  /\ sends'[d] <= explained(d)' + recorded(d)' + (IF d \in early' THEN 1 ELSE 0)
              /\ waits(d)' /\ (isOut(d)' \/ delivery'[d] # "pending") =>
                    sends'[d] <= explained(d)' + recorded(d)'
  <2>1. recorded(d)' = recorded(d)
    BY <1>3 DEF recorded, Final
  <2>2. sends'[d] <= explained(d)' + recorded(d)' + (IF d \in early' THEN 1 ELSE 0)
    BY <1>0, <1>1, <1>7, <2>1 DEF DeliveriesExplained
  <2>3. ASSUME waits(d)', isOut(d)' \/ delivery'[d] # "pending"
        PROVE  sends'[d] <= explained(d)' + recorded(d)'
    <3>1. isOut(d) /\ delivery'[d] = "pending"
      BY <1>9, <2>3
    <3>2. delivery[d] # "none"
      BY <1>0, <3>1 DEF EnqueuedOnce
    <3>3. waits(d) /\ isOut(d)
      BY <1>3, <1>9, <3>1, <3>2
    <3> QED BY <1>0, <1>7, <2>1, <3>3 DEF DeliveriesExplained
  <2> QED BY <2>2, <2>3
<1>12. DeliveriesExplained'
  BY <1>11 DEF DeliveriesExplained
<1> QED BY <1>0, <1>4, <1>5, <1>6, <1>7, <1>8, <1>10, <1>12 DEF NotifyInv

\* It takes up one that it found pending, whatever the row says now.
LEMMA MarkStep == ASSUME NotifyInv, NEW e \in Deliveries, MarkProcessing(e) PROVE NotifyInv'
<1>0. /\ NotifyTypeOK /\ NotifyTypeOK' /\ RowsOfSent /\ WorkerSends /\ FinishedIsFinished
      /\ EnqueuedOnce /\ DeliveriesExplained
  BY WorkerTypes DEF NotifyInv, WorkerStep
<1>1. /\ UNCHANGED <<campaign, stream, relay, raised, early>> /\ worker.pc = "mark"
      /\ worker'.rows = worker.rows \ {e} /\ worker'.row = {e} /\ worker'.todo = worker.todo
      /\ worker'.pc = "enqueue" /\ e \in worker.rows
  BY <1>0 DEF MarkProcessing, NotifyTypeOK
<1>2. worker.row = {} /\ e[1] \in sending
  BY <1>0, <1>1 DEF WorkerSends
<1>3. /\ delivery'[e] = "processing"
      /\ \A d \in Deliveries : d # e => delivery'[d] = delivery[d]
  BY <1>0, <1>1 DEF MarkProcessing, NotifyTypeOK
<1>4. WorkerSends'
  <2>1. sending' = sending
    BY <1>1 DEF sending
  <2> QED BY <1>0, <1>1, <1>2, <2>1 DEF WorkerSends
<1>5. RowsOfSent'
  BY <1>0, <1>1, <1>2, <1>3 DEF RowsOfSent, sending
<1>6. FinishedIsFinished'
  <2>1. \A c \in Campaigns, u \in Users : campaign[c] \in Ended => delivery'[<<c, u>>] = delivery[<<c, u>>]
    BY <1>2, <1>3 DEF Deliveries, sending, Ended
  <2> QED BY <1>0, <1>1, <2>1, EndedKept
<1>7. /\ EntriesOwned' /\ BatchIsPending' /\ HandsBusy' /\ NoticesExplained'
      /\ \A r : explained(r)' = explained(r) /\ left(r)' = left(r)
      /\ sends' = sends
  BY <1>1, RelayKept
<1>8. HandOpen'
  BY <1>1, <1>3, HandsKept
<1>9. ~waits(e)' /\ waits(e)
  BY <1>1, <1>3 DEF waits
<1>10. ASSUME NEW d \in Deliveries, d # e
       PROVE  (isOut(d)' <=> isOut(d)) /\ (waits(d)' <=> waits(d)) /\ recorded(d)' = recorded(d)
  BY <1>1, <1>2, <1>3, <1>7, <1>10 DEF isOut, waits, recorded
<1>11. EnqueuedOnce'
  BY <1>0, <1>1, <1>3, <1>9, <1>10 DEF EnqueuedOnce
<1>12. ASSUME NEW d \in Deliveries
       PROVE  /\ sends'[d] <= explained(d)' + recorded(d)' + (IF d \in early' THEN 1 ELSE 0)
              /\ waits(d)' /\ (isOut(d)' \/ delivery'[d] # "pending") =>
                    sends'[d] <= explained(d)' + recorded(d)'
  <2>1. CASE d # e
    BY <1>0, <1>1, <1>3, <1>7, <1>10, <2>1 DEF DeliveriesExplained
  <2>2. CASE d = e
    <3>1. recorded(e)' = 0 /\ recorded(e) \in {0, 1} /\ (recorded(e) = 1 => delivery[e] # "pending")
      BY <1>3 DEF recorded, Final
    <3>2. recorded(e) = 1 => e \in early /\ sends[e] <= explained(e) + recorded(e)
      BY <1>0, <1>9, <3>1 DEF EnqueuedOnce, DeliveriesExplained
    <3>3. sends[e] <= explained(e) + recorded(e) + (IF e \in early THEN 1 ELSE 0)
      BY <1>0 DEF DeliveriesExplained
    <3>4. explained(e) \in Nat /\ sends[e] \in Nat
      BY <1>0, Numbers DEF Messages
    <3>5. sends[e] <= explained(e) + 0 + (IF e \in early THEN 1 ELSE 0)
      BY <3>1, <3>2, <3>3, <3>4
    <3>6. sends'[e] <= explained(e)' + recorded(e)' + (IF e \in early' THEN 1 ELSE 0)
      BY <1>1, <1>7, <3>1, <3>5
    <3> QED BY <1>9, <2>2, <3>6
  <2> QED BY <2>1, <2>2
<1>13. DeliveriesExplained'
  BY <1>12 DEF DeliveriesExplained
<1> QED BY <1>0, <1>4, <1>5, <1>6, <1>7, <1>8, <1>11, <1>13 DEF NotifyInv

\* What is under way has an entry that no consumer has read or acknowledged.
LEMMA UnderWay ==
    ASSUME NotifyTypeOK, EntriesOwned, NEW d \in Deliveries
    PROVE  underWay(d) <=> left(d) # 0 \/ worker.row = {d}
<1>1. /\ stream \in Seq(Entry) /\ pel \in Seq(Entry) /\ Owned(stream) /\ Owned(pel)
      /\ entry(d).ref = d
  BY EntryOf DEF NotifyTypeOK, EntriesOwned, Owned, Messages
<1>2. /\ stream \o pel \in Seq(Entry) /\ Len(stream \o pel) = Len(stream) + Len(pel)
      /\ \A j \in 1..Len(stream) + Len(pel) :
            (stream \o pel)[j] = IF j <= Len(stream) THEN stream[j] ELSE pel[j - Len(stream)]
  BY <1>1, Joined
<1>3. /\ copies(stream, d) \in Nat /\ copies(pel, d) \in Nat
      /\ copies(stream, d) = 0 <=> \A i \in 1..Len(stream) : stream[i].ref # d
      /\ copies(pel, d) = 0 <=> \A i \in 1..Len(pel) : pel[i].ref # d
      /\ Len(stream) \in Nat /\ Len(pel) \in Nat
  BY <1>1, CopiesType
<1>4. Contains(stream \o pel, entry(d)) <=>
         \E j \in 1..Len(stream) + Len(pel) : (stream \o pel)[j] = entry(d)
  BY <1>2 DEF Contains
<1>5. ASSUME NEW j \in 1..Len(stream) + Len(pel), (stream \o pel)[j] = entry(d)
      PROVE  left(d) # 0
  <2>1. CASE j <= Len(stream)
    <3>1. j \in 1..Len(stream) /\ stream[j] = entry(d)
      BY <1>2, <1>3, <1>5, <2>1
    <3> QED BY <1>1, <1>3, <3>1 DEF left
  <2>2. CASE ~(j <= Len(stream))
    <3>1. j - Len(stream) \in 1..Len(pel) /\ pel[j - Len(stream)] = entry(d)
      BY <1>2, <1>3, <1>5, <2>2
    <3> QED BY <1>1, <1>3, <3>1 DEF left
  <2> QED BY <2>1, <2>2
<1>6. ASSUME left(d) # 0
      PROVE  \E j \in 1..Len(stream) + Len(pel) : (stream \o pel)[j] = entry(d)
  <2>1. copies(stream, d) # 0 \/ copies(pel, d) # 0
    BY <1>3, <1>6 DEF left
  <2>2. CASE copies(stream, d) # 0
    <3>1. PICK i \in 1..Len(stream) : stream[i].ref = d
      BY <1>3, <2>2
    <3>2. stream[i] = entry(d)
      BY <1>1, <3>1 DEF Owned
    <3>3. i \in 1..Len(stream) + Len(pel) /\ i <= Len(stream)
      BY <1>3
    <3>4. (stream \o pel)[i] = entry(d)
      BY <1>2, <3>2, <3>3
    <3> QED BY <3>3, <3>4
  <2>3. CASE copies(pel, d) # 0
    <3>1. PICK i \in 1..Len(pel) : pel[i].ref = d
      BY <1>3, <2>3
    <3>2. pel[i] = entry(d)
      BY <1>1, <3>1 DEF Owned
    <3>3. /\ Len(stream) + i \in 1..Len(stream) + Len(pel) /\ ~(Len(stream) + i <= Len(stream))
          /\ (Len(stream) + i) - Len(stream) = i
      BY <1>3
    <3>4. (stream \o pel)[Len(stream) + i] = entry(d)
      BY <1>2, <3>2, <3>3
    <3> QED BY <3>3, <3>4
  <2> QED BY <2>1, <2>2, <2>3
<1> QED BY <1>4, <1>5, <1>6 DEF underWay

\* Deliveries that have been processing for long are pending again.
LEMMA ReclaimStep ==
    ASSUME NotifyInv, NEW stuck \in SUBSET Deliveries, Reclaim(stuck) PROVE NotifyInv'
<1>0. /\ NotifyTypeOK /\ NotifyTypeOK' /\ RowsOfSent /\ WorkerSends /\ FinishedIsFinished
      /\ EnqueuedOnce /\ DeliveriesExplained /\ EntriesOwned
  BY WorkerTypes DEF NotifyInv, WorkerStep
<1>1. /\ UNCHANGED <<campaign, stream, relay, raised>> /\ worker.pc = "reclaim"
      /\ worker'.rows = worker.rows /\ worker'.row = worker.row /\ worker'.todo = sending
      /\ worker'.pc = IF sending = {} THEN "finalize" ELSE "seed"
  BY <1>0 DEF Reclaim, NotifyTypeOK
<1>2. worker.rows = {} /\ worker.row = {}
  BY <1>0, <1>1 DEF WorkerSends
<1>3. \A d \in Deliveries :
         IF d \in stuck THEN delivery[d] = "processing" /\ delivery'[d] = "pending"
         ELSE delivery'[d] = delivery[d]
  BY <1>0 DEF Reclaim, NotifyTypeOK
<1>4. WorkerSends'
  <2>1. sending' = sending
    BY <1>1 DEF sending
  <2> QED BY <1>0, <1>1, <1>2, <2>1 DEF WorkerSends
<1>5. RowsOfSent'
  BY <1>0, <1>1, <1>3 DEF RowsOfSent
<1>6. FinishedIsFinished'
  <2>1. ASSUME NEW c \in Campaigns, NEW u \in Users, campaign[c] \in Ended
        PROVE  delivery'[<<c, u>>] = delivery[<<c, u>>]
    <3>1. <<c, u>> \in Deliveries /\ <<c, u>>[1] = c
      BY DEF Deliveries
    <3>2. <<c, u>> \in stuck => campaign[c] = "sending"
      BY <1>0, <1>3, <3>1, OpenIsSent
    <3> QED BY <1>3, <2>1, <3>1, <3>2 DEF Ended
  <2> QED BY <1>0, <1>1, <2>1, EndedKept
<1>7. /\ EntriesOwned' /\ BatchIsPending' /\ HandsBusy' /\ NoticesExplained'
      /\ \A r : explained(r)' = explained(r) /\ left(r)' = left(r)
      /\ sends' = sends
  BY <1>1, RelayKept
<1>8. HandOpen'
  BY <1>1, <1>3, HandsKept
<1>9. ASSUME NEW d \in Deliveries
      PROVE  /\ isOut(d)' <=> isOut(d)
             /\ isOut(d) <=> underWay(d)
             /\ waits(d)' <=> delivery'[d] = "pending"
             /\ waits(d) <=> delivery[d] = "pending"
             /\ recorded(d)' = recorded(d)
             /\ d \in early' <=> d \in early \/ (d \in stuck /\ underWay(d))
             /\ d \in stuck /\ underWay(d) => d \notin early
  <2>1. isOut(d)' <=> isOut(d)
    BY <1>1, <1>7 DEF isOut
  <2>2. isOut(d) <=> underWay(d)
    BY <1>0, <1>2, UnderWay DEF isOut
  <2>3. (waits(d)' <=> delivery'[d] = "pending") /\ (waits(d) <=> delivery[d] = "pending")
    BY <1>1, <1>2 DEF waits
  <2>4. recorded(d)' = recorded(d)
    BY <1>3 DEF recorded, Final
  <2>5. /\ d \in early' <=> d \in early \/ (d \in stuck /\ underWay(d))
        /\ d \in stuck /\ underWay(d) => d \notin early
    BY DEF Reclaim
  <2> QED BY <2>1, <2>2, <2>3, <2>4, <2>5
<1>10. EnqueuedOnce'
  <2>1. ASSUME NEW d \in Deliveries, delivery'[d] = "none" PROVE ~isOut(d)'
    BY <1>0, <1>3, <1>9, <2>1 DEF EnqueuedOnce
  <2>2. ASSUME NEW d \in Deliveries, d \notin early', waits(d)'
        PROVE  ~isOut(d)' /\ delivery'[d] = "pending"
    BY <1>0, <1>3, <1>9, <2>2 DEF EnqueuedOnce
  <2> QED BY <2>1, <2>2 DEF EnqueuedOnce
<1>11. ASSUME NEW d \in Deliveries
       PROVE  /\ sends'[d] <= explained(d)' + recorded(d)' + (IF d \in early' THEN 1 ELSE 0)
              /\ waits(d)' /\ (isOut(d)' \/ delivery'[d] # "pending") =>
                    sends'[d] <= explained(d)' + recorded(d)'
  <2>1. /\ sends'[d] = sends[d] /\ explained(d)' = explained(d) /\ recorded(d)' = recorded(d)
        /\ sends[d] \in Nat /\ explained(d) \in Nat /\ recorded(d) \in Nat
    BY <1>0, <1>7, <1>9, Numbers DEF Messages, recorded
  <2>2. sends[d] <= explained(d) + recorded(d) + (IF d \in early THEN 1 ELSE 0)
    BY <1>0 DEF DeliveriesExplained
  <2>3. d \in early => d \in early'
    BY <1>9
  <2>4. sends[d] <= explained(d) + recorded(d) + (IF d \in early' THEN 1 ELSE 0)
    BY <2>1, <2>2, <2>3
  <2>5. ASSUME waits(d)', isOut(d)' \/ delivery'[d] # "pending"
        PROVE  sends[d] <= explained(d) + recorded(d)
    <3>1. isOut(d) /\ underWay(d) /\ delivery'[d] = "pending"
      BY <1>9, <2>5
    <3>2. CASE d \in stuck
      <4>1. d \notin early
        BY <1>9, <3>1, <3>2
      <4> QED BY <2>1, <2>2, <4>1
    <3>3. CASE d \notin stuck
      <4>1. waits(d)
        BY <1>3, <1>9, <3>1, <3>3
      <4> QED BY <1>0, <3>1, <4>1 DEF DeliveriesExplained
    <3> QED BY <3>2, <3>3
  <2> QED BY <2>1, <2>4, <2>5
<1>12. DeliveriesExplained'
  BY <1>11 DEF DeliveriesExplained
<1> QED BY <1>0, <1>4, <1>5, <1>6, <1>7, <1>8, <1>10, <1>12 DEF NotifyInv

\* An entry joins the stream.
LEMMA Appended ==
    ASSUME NotifyTypeOK, NotifyTypeOK', EntriesOwned, NEW r \in Messages,
           stream' = Append(stream, entry(r)), UNCHANGED <<pel, batch>>
    PROVE  EntriesOwned' /\ \A q \in Messages : left(q)' = left(q) + IF q = r THEN 1 ELSE 0
<1>1. stream \in Seq(Entry) /\ entry(r) \in Entry /\ entry(r).ref = r /\ Owned(stream)
  BY EntryOf DEF NotifyTypeOK, EntriesOwned, Owned
<1>2. /\ Len(stream') = Len(stream) + 1 /\ Len(stream) \in Nat /\ stream'[Len(stream) + 1] = entry(r)
      /\ \A i \in 1..Len(stream) : stream'[i] = stream[i]
  BY <1>1
<1>3. \A i \in 1..Len(stream') : stream'[i] = entry(stream'[i].ref)
  <2>1. ASSUME NEW i \in 1..Len(stream') PROVE stream'[i] = entry(stream'[i].ref)
    <3>1. CASE i \in 1..Len(stream)
      BY <1>1, <1>2, <3>1 DEF Owned
    <3>2. CASE i = Len(stream) + 1
      BY <1>1, <1>2, <3>2
    <3> QED BY <1>2, <3>1, <3>2
  <2> QED BY <2>1
<1>4. EntriesOwned'
  BY <1>3 DEF EntriesOwned
<1>5. ASSUME NEW q \in Messages PROVE left(q)' = left(q) + IF q = r THEN 1 ELSE 0
  <2>1. copies(stream', q) = copies(stream, q) + IF r = q THEN 1 ELSE 0
    BY <1>1, CopiesAppended
  <2>2. /\ left(q) = copies(stream, q) + copies(pel, q) /\ left(q)' = copies(stream', q) + copies(pel', q)
        /\ copies(stream, q) \in Nat /\ copies(pel, q) \in Nat
    BY Numbers, CopiesType DEF NotifyTypeOK
  <2>3. copies(pel', q) = copies(pel, q)
    OBVIOUS
  <2> QED BY <2>1, <2>2, <2>3
<1> QED BY <1>4, <1>5

LEMMA HandsSame ==
    ASSUME HandsBusy, UNCHANGED <<batch, hand, unrecorded>>
    PROVE  HandsBusy' /\ \A r : explained(r)' = explained(r)
<1>1. \A u : ofUser(u)' = ofUser(u) /\ next(u)' = next(u)
  BY Untouched
<1>2. \A v : lostIn(v)' <=> lostIn(v)
  BY <1>1 DEF lostIn
<1>3. ASSUME NEW r PROVE explained(r)' = explained(r)
  <2>1. unsaved(r, Users)' <=> unsaved(r, Users)
    BY <1>1, <1>2 DEF unsaved
  <2> QED BY <2>1 DEF explained
<1>4. HandsBusy'
  BY <1>1 DEF HandsBusy
<1> QED BY <1>3, <1>4

LEMMA TablesKept ==
    ASSUME NotifyInv, UNCHANGED <<tables, worker>>
    PROVE  RowsOfSent' /\ WorkerSends' /\ FinishedIsFinished'
<1>1. RowsOfSent /\ WorkerSends /\ FinishedIsFinished
  BY DEF NotifyInv
<1>2. campaign' = campaign /\ delivery' = delivery /\ sending' = sending
  BY DEF tables, sending
<1>3. FinishedIsFinished'
  BY <1>1, <1>2, EndedKept
<1> QED BY <1>1, <1>2, <1>3 DEF RowsOfSent, WorkerSends

LEMMA EnqueueStep == ASSUME NotifyInv, EnqueueCampaignMessage PROVE NotifyInv'
<1>0. /\ NotifyTypeOK /\ NotifyTypeOK' /\ WorkerSends /\ EntriesOwned /\ BatchIsPending
      /\ HandsBusy /\ HandOpen /\ NoticesExplained
  BY WorkerTypes DEF NotifyInv, WorkerStep
<1>1. PICK d \in worker.row : stream' = Append(stream, entry(d))
  BY DEF EnqueueCampaignMessage
<1>2. /\ UNCHANGED <<campaign, delivery, pel, batch, hand, sends, unrecorded, raised, early>>
      /\ worker.pc = "enqueue"
  BY DEF EnqueueCampaignMessage, tables, relay
<1>3. d \in Deliveries /\ d \in Messages
  BY <1>0, <1>1 DEF NotifyTypeOK, Messages
<1>4. /\ WorkerSends' /\ worker'.row = {} /\ worker'.rows = worker.rows
      /\ RowsOfSent' /\ FinishedIsFinished'
  <2>1. sending' = sending
    BY <1>2 DEF sending
  <2>2. RowsOfSent' /\ FinishedIsFinished'
    BY <1>2, CampaignMoved
  <2>3. CASE worker.rows = {} /\ worker' = nextCampaign
    <3>1. WorkerSends' /\ worker'.row = {} /\ worker'.rows = {}
      BY <1>0, <1>2, <2>3, NextTick
    <3> QED BY <2>2, <2>3, <3>1
  <2>4. CASE worker' = [worker EXCEPT !.pc = "mark", !.row = {}]
    <3>1. /\ worker'.row = {} /\ worker'.rows = worker.rows /\ worker'.todo = worker.todo
          /\ worker'.pc = "mark"
      BY <1>0, <2>4 DEF NotifyTypeOK
    <3>2. WorkerSends'
      BY <1>0, <1>2, <2>1, <3>1 DEF WorkerSends
    <3> QED BY <2>2, <3>1, <3>2
  <2> QED BY <2>3, <2>4 DEF EnqueueCampaignMessage
<1>5. EntriesOwned' /\ \A q \in Messages : left(q)' = left(q) + IF q = d THEN 1 ELSE 0
  BY <1>0, <1>1, <1>2, <1>3, Appended
<1>6. HandsBusy' /\ \A r : explained(r)' = explained(r)
  BY <1>0, <1>2, HandsSame
<1>7. BatchIsPending' /\ HandOpen'
  <2>1. \A u : next(u)' = next(u)
    BY <1>2, Untouched
  <2> QED BY <1>0, <1>2, <2>1 DEF BatchIsPending, copies, HandOpen
<1>8. EnqueuedOnce' /\ DeliveriesExplained'
  <2>1. ASSUME NEW e \in Deliveries
        PROVE  /\ isOut(e)' => isOut(e)
               /\ waits(e)' => waits(e)
               /\ sends'[e] + explained(e) <= sends[e] + explained(e)'
    <3>1. left(e) \in Nat /\ explained(e) \in Nat /\ sends[e] \in Nat
      BY <1>0, Numbers DEF Messages
    <3>2. left(e)' = left(e) + IF e = d THEN 1 ELSE 0
      BY <1>5 DEF Messages
    <3>3. isOut(e)' => isOut(e)
      BY <1>1, <1>4, <3>1, <3>2 DEF isOut
    <3>4. waits(e)' => waits(e)
      BY <1>2, <1>4 DEF waits
    <3> QED BY <1>2, <1>6, <3>1, <3>3, <3>4
  <2> QED BY <1>0, <1>2, <2>1, NothingOpened
<1>9. NoticesExplained'
  <2>1. \A n \in Notices : left(n)' = left(n)
    <3>1. ASSUME NEW n \in Notices PROVE left(n)' = left(n)
      <4>1. n # d /\ n \in Messages /\ left(n) \in Nat
        BY <1>0, <1>3, Numbers DEF Messages
      <4> QED BY <1>5, <4>1
    <3> QED BY <3>1
  <2> QED BY <1>0, <1>2, <1>6, <2>1 DEF NoticesExplained
<1> QED BY <1>0, <1>4, <1>5, <1>6, <1>7, <1>8, <1>9 DEF NotifyInv

\* A notice is raised once; it joins the stream or is lost.
LEMMA RaiseStep == ASSUME NotifyInv, NEW n \in Notices, NotifyUser(n) PROVE NotifyInv'
<1>0. /\ NotifyTypeOK /\ NotifyTypeOK' /\ EntriesOwned /\ BatchIsPending
      /\ HandsBusy /\ HandOpen /\ NoticesExplained
  BY RelayTypes DEF NotifyInv
<1>1. UNCHANGED <<tables, worker, delivery, pel, batch, hand, sends, unrecorded, early>>
  BY DEF NotifyUser, tables, relay
<1>2. RowsOfSent' /\ WorkerSends' /\ FinishedIsFinished'
  BY <1>1, TablesKept
<1>3. /\ EntriesOwned'
      /\ \A q \in Messages : left(q)' = left(q) \/ (q = n /\ left(q)' = left(q) + 1)
  <2>1. CASE stream' = Append(stream, entry(n))
    <3>1. n \in Messages
      BY DEF Messages
    <3>2. EntriesOwned' /\ \A q \in Messages : left(q)' = left(q) + IF q = n THEN 1 ELSE 0
      BY <1>0, <1>1, <2>1, <3>1, Appended
    <3>3. \A q \in Messages : left(q) \in Nat
      BY <1>0, Numbers
    <3> QED BY <3>2, <3>3
  <2>2. CASE stream' = stream
    <3>1. EntriesOwned'
      BY <1>0, <1>1, <2>2 DEF EntriesOwned
    <3>2. \A q : left(q)' = left(q)
      BY <1>1, <2>2 DEF left, copies
    <3> QED BY <3>1, <3>2
  <2> QED BY <2>1, <2>2 DEF NotifyUser
<1>4. HandsBusy' /\ \A r : explained(r)' = explained(r)
  BY <1>0, <1>1, HandsSame
<1>5. BatchIsPending' /\ HandOpen'
  <2>1. \A u : next(u)' = next(u)
    BY <1>1, Untouched
  <2> QED BY <1>0, <1>1, <2>1 DEF BatchIsPending, copies, HandOpen
<1>6. EnqueuedOnce' /\ DeliveriesExplained'
  <2>1. ASSUME NEW e \in Deliveries
        PROVE  /\ isOut(e)' => isOut(e)
               /\ waits(e)' => waits(e)
               /\ sends'[e] + explained(e) <= sends[e] + explained(e)'
    <3>1. e # n /\ e \in Messages /\ explained(e) \in Nat /\ sends[e] \in Nat
      BY <1>0, Numbers DEF Messages
    <3>2. left(e)' = left(e)
      BY <1>3, <3>1
    <3> QED BY <1>1, <1>4, <3>1, <3>2 DEF isOut, waits
  <2> QED BY <1>0, <1>1, <2>1, NothingOpened
<1>7. NoticesExplained'
  <2>1. ASSUME NEW m \in Notices
        PROVE  /\ left(m)' <= 1
               /\ m \notin raised' => left(m)' = 0 /\ sends'[m] = 0
               /\ sends'[m] <= explained(m)' + (IF left(m)' = 0 THEN 1 ELSE 0)
    <3>1. /\ left(m) <= 1
          /\ m \notin raised => left(m) = 0 /\ sends[m] = 0
          /\ sends[m] <= explained(m) + (IF left(m) = 0 THEN 1 ELSE 0)
      BY <1>0 DEF NoticesExplained
    <3>2. m \in Messages /\ explained(m) \in Nat /\ left(m) \in Nat
      BY <1>0, Numbers DEF Messages
    <3>3. raised' = raised \cup {n} /\ n \notin raised
      BY DEF NotifyUser
    <3>4. CASE m = n
      <4>1. left(m)' \in {0, 1} /\ sends'[m] = 0 /\ m \in raised'
        BY <1>1, <1>3, <3>1, <3>2, <3>3, <3>4
      <4> QED BY <1>4, <3>2, <4>1
    <3>5. CASE m # n
      <4>1. left(m)' = left(m) /\ (m \in raised' <=> m \in raised)
        BY <1>3, <3>2, <3>3, <3>5
      <4> QED BY <1>1, <1>4, <3>1, <4>1
    <3> QED BY <3>4, <3>5
  <2> QED BY <2>1 DEF NoticesExplained
<1> QED BY <1>0, <1>2, <1>3, <1>4, <1>5, <1>6, <1>7 DEF NotifyInv

-----------------------------------------------------------------------------
(* The relay and the Notifier.                                             *)

\* The relay reads when nothing is in hand.
LEMMA AllIdle ==
    ASSUME HandsBusy, drained
    PROVE  /\ \A u \in Users : hand[u] = idle
           /\ \A r : ~unsaved(r, Users)
<1>1. Len(<<>>) = 0 /\ 1..0 = {}
  OBVIOUS
<1>2. \A u : ofUser(u) = {}
  BY <1>1 DEF drained, ofUser
<1> QED BY <1>2 DEF HandsBusy, unsaved

LEMMA ReadStep == ASSUME NotifyInv, ReadPending \/ ReadFresh PROVE NotifyInv'
<1>0. /\ NotifyTypeOK /\ NotifyTypeOK' /\ EntriesOwned /\ BatchIsPending
      /\ HandsBusy /\ NoticesExplained
      /\ stream \in Seq(Entry) /\ pel \in Seq(Entry) /\ Owned(stream) /\ Owned(pel)
  BY RelayTypes DEF NotifyInv, BotStep, NotifyTypeOK, EntriesOwned, Owned
<1>1. /\ UNCHANGED <<tables, worker, delivery, hand, sends, unrecorded, raised, early>>
      /\ drained
  BY DEF ReadPending, ReadFresh, tables
<1>2. RowsOfSent' /\ WorkerSends' /\ FinishedIsFinished'
  BY <1>1, TablesKept
<1>3. (\A u \in Users : hand[u] = idle) /\ \A r : ~unsaved(r, Users)
  BY <1>0, <1>1, AllIdle
<1>4. HandsBusy' /\ HandOpen' /\ \A r : ~unsaved(r, Users)'
  <2>1. \A u \in Users : hand'[u] = idle
    BY <1>1, <1>3
  <2>2. \A u \in Users : hand'[u].at = "idle" /\ hand'[u].outcome = "none"
    BY <2>1 DEF idle
  <2>3. HandsBusy' /\ HandOpen'
    BY <2>1, <2>2 DEF HandsBusy, HandOpen
  <2> QED BY <2>2, <2>3 DEF unsaved, lostIn
<1>5. \A r : explained(r)' = explained(r)
  BY <1>1, <1>3, <1>4 DEF explained
<1>6. EntriesOwned' /\ BatchIsPending' /\ \A r \in Messages : left(r)' = left(r)
  <2>1. CASE ReadPending
    <3> DEFINE n == IF Len(pel) < BatchSize THEN Len(pel) ELSE BatchSize
    <3>1. n \in 0..Len(pel) /\ batch' = SubSeq(pel, 1, n) /\ pel' = pel /\ stream' = stream
      BY <1>0, <2>1 DEF ReadPending
    <3> HIDE DEF n
    <3>2. Len(batch') = n /\ \A i \in 1..n : batch'[i] = pel[i]
      BY <1>0, <3>1, CopiesSplit
    <3>3. \A i \in 1..Len(batch') : batch'[i] = entry(batch'[i].ref)
      <4>1. 1..n \subseteq 1..Len(pel)
        BY <1>0, <3>1
      <4> QED BY <1>0, <3>2, <4>1 DEF Owned
    <3>4. EntriesOwned'
      BY <1>0, <3>1, <3>3 DEF EntriesOwned
    <3>5. ASSUME NEW r \in Messages PROVE copies(batch', r) <= copies(pel, r)
      <4>1. copies(batch', r) + copies(SubSeq(pel, n + 1, Len(pel)), r) = copies(pel, r)
        BY <1>0, <3>1, CopiesSplit
      <4>2. SubSeq(pel, n + 1, Len(pel)) \in Seq(Entry) /\ batch' \in Seq(Entry)
        BY <1>0, <3>1, CopiesSplit
      <4>3. copies(batch', r) \in Nat /\ copies(SubSeq(pel, n + 1, Len(pel)), r) \in Nat
        BY <4>2, CopiesType
      <4> QED BY <4>1, <4>3
    <3>6. BatchIsPending'
      BY <3>1, <3>5 DEF BatchIsPending, copies
    <3> QED BY <3>1, <3>4, <3>6 DEF left, copies
  <2>2. CASE ReadFresh
    <3> DEFINE n == IF Len(stream) < BatchSize THEN Len(stream) ELSE BatchSize
    <3>1. /\ n \in 0..Len(stream) /\ batch' = pel' /\ pel' = SubSeq(stream, 1, n)
          /\ stream' = SubSeq(stream, n + 1, Len(stream)) /\ pel = <<>>
      BY <1>0, <2>2 DEF ReadFresh
    <3> HIDE DEF n
    <3>2. /\ pel' \in Seq(Entry) /\ stream' \in Seq(Entry)
          /\ Len(pel') = n /\ \A i \in 1..n : pel'[i] = stream[i]
          /\ Len(stream') = Len(stream) - n
          /\ \A i \in 1..Len(stream) - n : stream'[i] = stream[n + i]
      BY <1>0, <3>1, CopiesSplit
    <3>3. Len(stream) \in Nat /\ n \in Nat /\ n <= Len(stream)
      BY <1>0, <3>1
    <3>4. \A i \in 1..Len(pel') : pel'[i] = entry(pel'[i].ref)
      <4>1. 1..n \subseteq 1..Len(stream)
        BY <3>3
      <4> QED BY <1>0, <3>2, <4>1 DEF Owned
    <3>5. ASSUME NEW i \in 1..Len(stream') PROVE stream'[i] = entry(stream'[i].ref)
      <4>1. n + i \in 1..Len(stream) /\ i \in 1..Len(stream) - n
        BY <3>2, <3>3
      <4> QED BY <1>0, <3>2, <4>1 DEF Owned
    <3>6. EntriesOwned'
      BY <3>1, <3>4, <3>5 DEF EntriesOwned
    <3>7. ASSUME NEW r \in Messages PROVE left(r)' = left(r)
      <4>1. copies(pel', r) + copies(stream', r) = copies(stream, r)
        BY <1>0, <3>1, CopiesSplit
      <4>2. copies(pel, r) = 0
        BY <3>1, CopiesOfNone
      <4>3. /\ copies(pel', r) \in Nat /\ copies(stream', r) \in Nat /\ copies(stream, r) \in Nat
        BY <1>0, <3>2, CopiesType
      <4>4. left(r) = copies(stream, r) + copies(pel, r) /\ left(r)' = copies(stream', r) + copies(pel', r)
        BY <1>0, Numbers
      <4> QED BY <4>1, <4>2, <4>3, <4>4
    <3>8. BatchIsPending'
      <4>1. \A r \in Messages : copies(pel', r) \in Nat
        BY <3>2, CopiesType
      <4>2. \A r \in Messages : copies(batch', r) <= copies(pel', r)
        BY <3>1, <4>1
      <4> QED BY <4>2 DEF BatchIsPending, copies
    <3> QED BY <3>6, <3>7, <3>8
  <2> QED BY <2>1, <2>2
<1>7. EnqueuedOnce' /\ DeliveriesExplained'
  <2>1. ASSUME NEW e \in Deliveries
        PROVE  /\ isOut(e)' => isOut(e)
               /\ waits(e)' => waits(e)
               /\ sends'[e] + explained(e) <= sends[e] + explained(e)'
    <3>1. explained(e) \in Nat /\ sends[e] \in Nat /\ left(e)' = left(e)
      BY <1>0, <1>6, Numbers DEF Messages
    <3> QED BY <1>1, <1>5, <3>1 DEF isOut, waits
  <2> QED BY <1>0, <1>1, <2>1, NothingOpened
<1>8. NoticesExplained'
  BY <1>0, <1>1, <1>5, <1>6 DEF NoticesExplained, Messages
<1> QED BY <1>0, <1>2, <1>4, <1>6, <1>7, <1>8 DEF NotifyInv

\* What a step of one user's hand leaves as it is.
LEMMA HandStep ==
    ASSUME NotifyInv, NotifyTypeOK', NEW u \in Users, ofUser(u) # {}, NEW h,
           hand' = [hand EXCEPT ![u] = h], UNCHANGED stream,
           \/ UNCHANGED <<pel, batch>> /\ h.at # "idle"
           \/ Drop(u) /\ h = idle /\ (Acknowledge(u) \/ UNCHANGED pel),
           h.at = "queued" => h.attempts < MaxAttempts /\ h.outcome = "none",
           h.at = "done" => h.outcome # "none",
           h.at \in {"queued", "done"} /\ next(u).ref \in Deliveries =>
               delivery'[next(u).ref] \in {"pending", "processing"},
           \A d \in Deliveries : d # next(u).ref => delivery'[d] = delivery[d]
    PROVE  /\ EntriesOwned' /\ BatchIsPending' /\ HandsBusy' /\ HandOpen'
           /\ next(u).ref \in Messages /\ left(next(u).ref) # 0
           /\ \A r \in Messages :
                 /\ left(r)' <= left(r)
                 /\ r # next(u).ref => /\ left(r)' = left(r)
                                       /\ unsaved(r, Users)' <=> unsaved(r, Users)
                 /\ r = next(u).ref => /\ unsaved(r, Users) <=> lost(hand[u], r)
                                       /\ unsaved(r, Users)' <=> lost(h, r)
                                       /\ Acknowledge(u) => left(r)' = left(r) - 1
                                       /\ UNCHANGED pel => left(r)' = left(r)
<1>0. /\ NotifyTypeOK /\ EntriesOwned /\ BatchIsPending /\ HandsBusy /\ HandOpen
      /\ stream \in Seq(Entry) /\ pel \in Seq(Entry) /\ batch \in Seq(Entry)
      /\ Owned(pel) /\ Owned(batch) /\ Owned(stream)
  BY DEF NotifyInv, NotifyTypeOK, EntriesOwned, Owned
<1>1. hand'[u] = h /\ \A v \in Users \ {u} : hand'[v] = hand[v]
  BY <1>0 DEF NotifyTypeOK
<1>2. /\ next(u).ref \in Messages /\ next(u).user = u /\ next(u) = entry(next(u).ref)
      /\ copies(batch, next(u).ref) # 0
  BY <1>0, NextEntry
<1>3. /\ \A v \in Users : v # u => (ofUser(v)' # {} <=> ofUser(v) # {})
      /\ \A v \in Users : v # u /\ ofUser(v) # {} => next(v)' = next(v)
      /\ \A r \in Messages :
            /\ r # next(u).ref => (unsaved(r, Users)' <=> unsaved(r, Users))
            /\ r = next(u).ref => /\ unsaved(r, Users) <=> lost(hand[u], r)
                                  /\ unsaved(r, Users)' <=> lost(h, r)
  <2>1. UNCHANGED batch \/ (Drop(u) /\ h = idle)
    OBVIOUS
  <2>2. batch \in Seq(Entry) /\ EntriesOwned
    BY <1>0
  <2>3. hand'[u] = h
    BY <1>1
  <2>4. \A v \in Users \ {u} : hand'[v] = hand[v]
    BY <1>1
  <2> QED BY <2>1, <2>2, <2>3, <2>4, StepOf
<1>4. ASSUME Drop(u)
      PROVE  /\ Owned(batch')
             /\ \A r : copies(batch, r) = copies(batch', r) + IF next(u).ref = r THEN 1 ELSE 0
  BY <1>0, <1>4, Dropped
<1>5. ASSUME Acknowledge(u)
      PROVE  /\ Owned(pel')
             /\ \A r : copies(pel, r) = copies(pel', r) + IF next(u).ref = r THEN 1 ELSE 0
  BY <1>0, <1>5, Acked
<1>6. EntriesOwned'
  <2>1. Owned(batch') /\ Owned(pel') /\ Owned(stream')
    BY <1>0, <1>4, <1>5
  <2> QED BY <2>1 DEF EntriesOwned, Owned
<1>7. ASSUME NEW r \in Messages
      PROVE  /\ copies(stream, r) \in Nat /\ copies(pel, r) \in Nat /\ copies(batch, r) \in Nat
             /\ copies(pel', r) \in Nat /\ copies(batch', r) \in Nat
             /\ copies(batch, r) <= copies(pel, r)
             /\ left(r) = copies(stream, r) + copies(pel, r)
             /\ left(r)' = copies(stream', r) + copies(pel', r)
             /\ copies(stream', r) = copies(stream, r)
  <2>1. pel' \in Seq(Entry) /\ batch' \in Seq(Entry)
    BY DEF NotifyTypeOK
  <2>2. /\ copies(stream, r) \in Nat /\ copies(pel, r) \in Nat /\ copies(batch, r) \in Nat
        /\ copies(pel', r) \in Nat /\ copies(batch', r) \in Nat
    BY <1>0, <2>1, CopiesType
  <2> QED BY <1>0, <2>2, Numbers DEF BatchIsPending
<1>8. ASSUME NEW r \in Messages
      PROVE  /\ copies(batch', r) <= copies(pel', r)
             /\ left(r)' <= left(r)
             /\ r # next(u).ref => left(r)' = left(r)
             /\ r = next(u).ref => /\ Acknowledge(u) => left(r)' = left(r) - 1
                                   /\ UNCHANGED pel => left(r)' = left(r)
  <2>1. CASE UNCHANGED <<pel, batch>>
    <3>1. left(r)' = left(r)
      BY <1>7, <2>1
    <3>2. ~Acknowledge(u) \/ r # next(u).ref
      <4>1. SUFFICES ASSUME Acknowledge(u), r = next(u).ref PROVE FALSE
        OBVIOUS
      <4>2. copies(pel, r) = copies(pel', r) + 1
        BY <1>5, <4>1
      <4> QED BY <1>7, <2>1, <4>2
    <3> QED BY <1>7, <2>1, <3>1, <3>2
  <2>2. CASE Drop(u) /\ Acknowledge(u)
    <3> DEFINE k == IF next(u).ref = r THEN 1 ELSE 0
    <3>1. copies(batch, r) = copies(batch', r) + k /\ copies(pel, r) = copies(pel', r) + k
      BY <1>4, <1>5, <2>2
    <3>2. UNCHANGED pel => k = 0
      BY <1>7, <3>1
    <3>3. left(r)' = left(r) - k
      BY <1>7, <3>1
    <3> QED BY <1>7, <3>1, <3>2, <3>3
  <2>3. CASE Drop(u) /\ UNCHANGED pel
    <3>1. copies(batch, r) = copies(batch', r) + IF next(u).ref = r THEN 1 ELSE 0
      BY <1>4, <2>3
    <3>2. left(r)' = left(r)
      BY <1>7, <2>3
    <3>3. ~Acknowledge(u) \/ r # next(u).ref
      <4>1. SUFFICES ASSUME Acknowledge(u), r = next(u).ref PROVE FALSE
        OBVIOUS
      <4>2. copies(pel, r) = copies(pel', r) + 1
        BY <1>5, <4>1
      <4> QED BY <1>7, <2>3, <4>2
    <3> QED BY <1>7, <2>3, <3>1, <3>2, <3>3
  <2> QED BY <2>1, <2>2, <2>3
<1>9. BatchIsPending'
  BY <1>8 DEF BatchIsPending, copies
<1>10. left(next(u).ref) # 0
  BY <1>2, <1>7
<1>11. ASSUME UNCHANGED batch PROVE ofUser(u)' = ofUser(u) /\ next(u)' = next(u)
  BY <1>11, Untouched
<1>12. ASSUME NEW v \in Users
       PROVE  /\ hand'[v].at = "idle" => hand'[v] = idle
              /\ hand'[v].at # "idle" => ofUser(v)' # {}
              /\ hand'[v].at = "queued" => hand'[v].attempts < MaxAttempts /\ hand'[v].outcome = "none"
              /\ hand'[v].at = "done" => hand'[v].outcome # "none"
  <2>1. CASE v # u
    <3>1. hand'[v] = hand[v] /\ (ofUser(v)' # {} <=> ofUser(v) # {})
      BY <1>1, <1>3, <2>1
    <3> QED BY <1>0, <3>1 DEF HandsBusy
  <2>2. CASE v = u
    <3>1. CASE h.at # "idle" /\ UNCHANGED batch
      BY <1>1, <1>11, <2>2, <3>1
    <3>2. CASE h = idle
      <4>1. h.at = "idle"
        BY <3>2 DEF idle
      <4> QED BY <1>1, <2>2, <3>2, <4>1
    <3> QED BY <3>1, <3>2
  <2> QED BY <2>1, <2>2
<1>13. HandsBusy'
  BY <1>12 DEF HandsBusy
<1>14. ASSUME NEW v \in Users, hand'[v].at \in {"queued", "done"}, next(v)'.ref \in Deliveries
       PROVE  delivery'[next(v)'.ref] \in {"pending", "processing"}
  <2>1. CASE v # u
    <3>1. hand'[v] = hand[v] /\ ofUser(v) # {}
      BY <1>0, <1>1, <1>14, <2>1 DEF HandsBusy
    <3>2. next(v)' = next(v)
      BY <1>3, <2>1, <3>1
    <3>3. next(v).user = v /\ next(v) = entry(next(v).ref)
      BY <1>0, <3>1, NextEntry
    <3>4. next(v).ref # next(u).ref
      BY <1>2, <2>1, <3>3
    <3>5. delivery[next(v).ref] \in {"pending", "processing"}
      BY <1>0, <1>14, <3>1, <3>2 DEF HandOpen
    <3> QED BY <1>14, <3>2, <3>4, <3>5
  <2>2. CASE v = u
    <3>1. h.at \in {"queued", "done"} /\ h # idle
      BY <1>1, <1>14, <2>2 DEF idle
    <3>2. next(u)' = next(u)
      BY <1>11, <3>1
    <3> QED BY <1>14, <2>2, <3>1, <3>2
  <2> QED BY <2>1, <2>2
<1>15. HandOpen'
  BY <1>14 DEF HandOpen
<1> QED BY <1>2, <1>3, <1>6, <1>8, <1>9, <1>10, <1>13, <1>15

\* A step of one user's hand that writes no row: what was sent is explained as
\* long as it is for the message in hand.
LEMMA QuietStep ==
    ASSUME NotifyInv, NotifyTypeOK', UNCHANGED <<tables, worker, stream, raised, early>>,
           NEW u \in Users, ofUser(u) # {}, NEW h, hand' = [hand EXCEPT ![u] = h],
           \/ UNCHANGED <<pel, batch>> /\ h.at # "idle"
           \/ Drop(u) /\ h = idle /\ (Acknowledge(u) \/ UNCHANGED pel),
           h.at = "queued" => h.attempts < MaxAttempts /\ h.outcome = "none",
           h.at = "done" => h.outcome # "none",
           h.at \in {"queued", "done"} /\ next(u).ref \in Deliveries =>
               delivery[next(u).ref] \in {"pending", "processing"},
           \A r \in Messages :
               IF r # next(u).ref THEN sends'[r] = sends[r] /\ unrecorded'[r] = unrecorded[r]
               ELSE sends'[r] + unrecorded[r] + (IF lost(hand[u], r) THEN 1 ELSE 0)
                      <= sends[r] + unrecorded'[r] + (IF lost(h, r) THEN 1 ELSE 0)
                         + (IF r \in Notices /\ Acknowledge(u) THEN 1 ELSE 0)
    PROVE  NotifyInv'
<1>0. NotifyTypeOK /\ NoticesExplained
  BY DEF NotifyInv
<1>1. campaign' = campaign /\ delivery' = delivery
  BY DEF tables
<1>2. RowsOfSent' /\ WorkerSends' /\ FinishedIsFinished'
  BY TablesKept
<1>3. /\ EntriesOwned' /\ BatchIsPending' /\ HandsBusy' /\ HandOpen'
      /\ next(u).ref \in Messages /\ left(next(u).ref) # 0
      /\ \A r \in Messages :
            /\ left(r)' <= left(r)
            /\ r # next(u).ref => /\ left(r)' = left(r)
                                  /\ unsaved(r, Users)' <=> unsaved(r, Users)
            /\ r = next(u).ref => /\ unsaved(r, Users) <=> lost(hand[u], r)
                                  /\ unsaved(r, Users)' <=> lost(h, r)
                                  /\ Acknowledge(u) => left(r)' = left(r) - 1
                                  /\ UNCHANGED pel => left(r)' = left(r)
  <2>1. h.at \in {"queued", "done"} /\ next(u).ref \in Deliveries =>
            delivery'[next(u).ref] \in {"pending", "processing"}
    BY <1>1
  <2>2. \A d \in Deliveries : d # next(u).ref => delivery'[d] = delivery[d]
    BY <1>1
  <2>3. UNCHANGED stream
    OBVIOUS
  <2> QED BY <2>1, <2>2, <2>3, HandStep
<1>4. ASSUME NEW r \in Messages
      PROVE  /\ explained(r) \in Nat /\ left(r) \in Nat /\ sends[r] \in Nat
             /\ explained(r)' \in Nat /\ left(r)' \in Nat /\ sends'[r] \in Nat
             /\ unrecorded[r] \in Nat /\ unrecorded'[r] \in Nat
             /\ explained(r) = unrecorded[r] + (IF unsaved(r, Users) THEN 1 ELSE 0)
             /\ explained(r)' = unrecorded'[r] + (IF unsaved(r, Users)' THEN 1 ELSE 0)
  <2>1. /\ explained(r) = unrecorded[r] + (IF unsaved(r, Users) THEN 1 ELSE 0)
        /\ explained(r)' = unrecorded'[r] + (IF unsaved(r, Users)' THEN 1 ELSE 0)
    BY DEF explained
  <2>2. unrecorded[r] \in Nat /\ unrecorded'[r] \in Nat
    BY <1>0 DEF NotifyTypeOK
  <2> QED BY <1>0, <2>1, <2>2, Numbers
<1>5. ASSUME NEW r \in Messages
      PROVE  sends'[r] + explained(r) <= sends[r] + explained(r)'
                 + (IF r = next(u).ref /\ r \in Notices /\ Acknowledge(u) THEN 1 ELSE 0)
  <2>1. CASE r # next(u).ref
    <3>1. /\ explained(r)' = explained(r) /\ sends'[r] = sends[r]
      BY <1>3, <1>4, <2>1
    <3> QED BY <1>4, <2>1, <3>1
  <2>2. CASE r = next(u).ref
    <3>1. /\ explained(r) = unrecorded[r] + (IF lost(hand[u], r) THEN 1 ELSE 0)
          /\ explained(r)' = unrecorded'[r] + (IF lost(h, r) THEN 1 ELSE 0)
      BY <1>3, <1>4, <2>2
    <3>2. sends'[r] + unrecorded[r] + (IF lost(hand[u], r) THEN 1 ELSE 0)
              <= sends[r] + unrecorded'[r] + (IF lost(h, r) THEN 1 ELSE 0)
                 + (IF r \in Notices /\ Acknowledge(u) THEN 1 ELSE 0)
      BY <2>2
    <3> QED BY <1>4, <2>2, <3>1, <3>2
  <2> QED BY <2>1, <2>2
<1>6. EnqueuedOnce' /\ DeliveriesExplained'
  <2>1. ASSUME NEW e \in Deliveries
        PROVE  /\ isOut(e)' => isOut(e)
               /\ waits(e)' => waits(e)
               /\ sends'[e] + explained(e) <= sends[e] + explained(e)'
    <3>1. e \in Messages /\ e \notin Notices
      BY DEF Messages
    <3>2. sends'[e] + explained(e) <= sends[e] + explained(e)'
      BY <1>4, <1>5, <3>1
    <3>3. left(e)' # 0 => left(e) # 0
      BY <1>3, <1>4, <3>1
    <3> QED BY <1>1, <3>2, <3>3 DEF isOut, waits
  <2> QED BY <1>1, <2>1, NothingOpened
<1>7. NoticesExplained'
  <2>1. ASSUME NEW n \in Notices
        PROVE  /\ left(n)' <= 1
               /\ n \notin raised' => left(n)' = 0 /\ sends'[n] = 0
               /\ sends'[n] <= explained(n)' + (IF left(n)' = 0 THEN 1 ELSE 0)
    <3>1. /\ left(n) <= 1
          /\ n \notin raised => left(n) = 0 /\ sends[n] = 0
          /\ sends[n] <= explained(n) + (IF left(n) = 0 THEN 1 ELSE 0)
      BY <1>0 DEF NoticesExplained
    <3>2. /\ n \in Messages /\ left(n) \in Nat /\ left(n)' \in Nat /\ left(n)' <= left(n)
          /\ explained(n) \in Nat /\ explained(n)' \in Nat /\ sends[n] \in Nat /\ sends'[n] \in Nat
      BY <1>3, <1>4 DEF Messages
    <3>3. CASE n # next(u).ref
      <4>1. left(n)' = left(n) /\ sends'[n] = sends[n] /\ sends'[n] + explained(n) <= sends[n] + explained(n)'
        BY <1>3, <1>5, <3>2, <3>3
      <4> QED BY <3>1, <3>2, <4>1
    <3>4. CASE n = next(u).ref
      <4>1. left(n) = 1 /\ n \in raised
        BY <1>3, <3>1, <3>2, <3>4
      <4>2. sends[n] <= explained(n)
        BY <3>1, <3>2, <4>1
      <4>3. CASE Acknowledge(u)
        <5>1. left(n)' = 0
          BY <1>3, <3>2, <3>4, <4>1, <4>3
        <5>2. sends'[n] + explained(n) <= sends[n] + explained(n)' + 1
          BY <1>5, <3>2, <3>4, <4>3
        <5> QED BY <3>2, <4>1, <4>2, <5>1, <5>2
      <4>4. CASE ~Acknowledge(u)
        <5>1. sends'[n] + explained(n) <= sends[n] + explained(n)'
          BY <1>5, <3>2, <4>4
        <5> QED BY <3>2, <4>1, <4>2, <5>1
      <4> QED BY <4>3, <4>4
    <3> QED BY <3>3, <3>4
  <2> QED BY <2>1 DEF NoticesExplained
<1> QED BY <1>2, <1>3, <1>6, <1>7 DEF NotifyInv

LEMMA SkipStep == ASSUME NotifyInv, NEW u \in Users, SkipEntry(u) PROVE NotifyInv'
<1>0. NotifyTypeOK /\ NotifyTypeOK'
  BY RelayTypes DEF NotifyInv, BotStep, RelayStep
<1>1. /\ UNCHANGED <<tables, worker, stream, hand, raised, sends, unrecorded, early>>
      /\ ofUser(u) # {} /\ hand[u] = idle /\ Acknowledge(u) /\ Drop(u)
  BY DEF SkipEntry
<1>2. PICK h : h = idle
  OBVIOUS
<1>3. hand' = [hand EXCEPT ![u] = h] /\ h.at = "idle" /\ h.outcome = "none"
  BY <1>0, <1>1, <1>2 DEF NotifyTypeOK, idle
<1>4. ASSUME NEW r \in Messages
      PROVE  IF r # next(u).ref THEN sends'[r] = sends[r] /\ unrecorded'[r] = unrecorded[r]
             ELSE sends'[r] + unrecorded[r] + (IF lost(hand[u], r) THEN 1 ELSE 0)
                    <= sends[r] + unrecorded'[r] + (IF lost(h, r) THEN 1 ELSE 0)
                       + (IF r \in Notices /\ Acknowledge(u) THEN 1 ELSE 0)
  <2>1. ~lost(hand[u], r) /\ ~lost(h, r)
    BY <1>1, <1>2, <1>3 DEF lost
  <2>2. sends[r] \in Nat /\ unrecorded[r] \in Nat
    BY <1>0 DEF NotifyTypeOK
  <2> QED BY <1>1, <2>1, <2>2
<1>5. Drop(u) /\ h = idle /\ (Acknowledge(u) \/ UNCHANGED pel)
  BY <1>1, <1>2
<1>6. UNCHANGED <<tables, worker, stream, raised, early>>
  BY <1>1
<1> QED BY <1>0, <1>1, <1>3, <1>4, <1>5, <1>6, QuietStep

LEMMA SendStep == ASSUME NotifyInv, NEW u \in Users, NotifierSend(u) PROVE NotifyInv'
<1>0. NotifyTypeOK /\ NotifyTypeOK'
  BY RelayTypes DEF NotifyInv, BotStep, RelayStep
<1>1. /\ UNCHANGED <<tables, worker, stream, pel, batch, raised, sends, unrecorded, early>>
      /\ ofUser(u) # {} /\ hand[u] = idle /\ ~resolved_already(next(u).ref)
  BY DEF NotifierSend
<1>2. PICK h : h = [idle EXCEPT !.at = "queued"]
  OBVIOUS
<1>3. h.at = "queued" /\ h.attempts = 0 /\ h.outcome = "none" /\ 0 < MaxAttempts
  BY <1>2 DEF idle
<1>4. hand' = [hand EXCEPT ![u] = h]
  BY <1>1, <1>2 DEF NotifierSend
<1>5. ASSUME NEW r \in Messages
      PROVE  IF r # next(u).ref THEN sends'[r] = sends[r] /\ unrecorded'[r] = unrecorded[r]
             ELSE sends'[r] + unrecorded[r] + (IF lost(hand[u], r) THEN 1 ELSE 0)
                    <= sends[r] + unrecorded'[r] + (IF lost(h, r) THEN 1 ELSE 0)
                       + (IF r \in Notices /\ Acknowledge(u) THEN 1 ELSE 0)
  <2>1. ~lost(hand[u], r) /\ ~lost(h, r)
    BY <1>1, <1>3 DEF lost, idle
  <2>2. sends[r] \in Nat /\ unrecorded[r] \in Nat
    BY <1>0 DEF NotifyTypeOK
  <2> QED BY <1>1, <2>1, <2>2
<1>6. next(u).ref \in Deliveries => delivery[next(u).ref] \in {"pending", "processing"}
  BY <1>1 DEF resolved_already
<1>7. UNCHANGED <<pel, batch>> /\ UNCHANGED <<tables, worker, stream, raised, early>>
  BY <1>1
<1> QED BY <1>0, <1>1, <1>3, <1>4, <1>5, <1>6, <1>7, QuietStep

\* What Telegram may be asked next.
LEMMA NextInHand ==
    ASSUME NotifyInv, NEW u \in Users, isNext(u)
    PROVE  /\ ofUser(u) # {} /\ hand[u].at = "queued" /\ hand[u].outcome = "none"
           /\ hand[u].attempts \in Nat /\ next(u).ref \in Messages
           /\ next(u).ref \in Deliveries => delivery[next(u).ref] \in {"pending", "processing"}
<1>0. NotifyTypeOK /\ HandsBusy /\ HandOpen /\ batch \in Seq(Entry) /\ Owned(batch)
  BY DEF NotifyInv, NotifyTypeOK, EntriesOwned, Owned
<1>1. hand[u].at = "queued"
  BY DEF isNext, ready
<1>2. ofUser(u) # {} /\ hand[u].outcome = "none"
  BY <1>0, <1>1 DEF HandsBusy
<1>3. next(u).ref \in Messages
  BY <1>0, <1>2, NextEntry
<1>4. hand[u].attempts \in Nat
  <2>1. hand[u].attempts \in 0..MaxAttempts
    BY <1>0, HandTypes
  <2> QED BY <2>1
<1> QED BY <1>0, <1>1, <1>2, <1>3, <1>4 DEF HandOpen

LEMMA DeliveredStep == ASSUME NotifyInv, NEW u \in Users, Delivered(u) PROVE NotifyInv'
<1>0. NotifyTypeOK /\ NotifyTypeOK'
  BY RelayTypes DEF NotifyInv, BotStep, Telegram
<1>1. /\ UNCHANGED <<tables, worker, stream, pel, batch, raised, unrecorded, early>>
      /\ ofUser(u) # {} /\ hand[u].at = "queued" /\ next(u).ref \in Messages
      /\ next(u).ref \in Deliveries => delivery[next(u).ref] \in {"pending", "processing"}
  BY NextInHand DEF Delivered
<1>2. PICK h : h = [hand[u] EXCEPT !.at = "done", !.outcome = "delivered"]
  OBVIOUS
<1>3. h.at = "done" /\ h.outcome = "delivered"
  BY <1>0, <1>2, HandTypes
<1>4. hand' = [hand EXCEPT ![u] = h]
  BY <1>2 DEF Delivered
<1>5. ASSUME NEW r \in Messages
      PROVE  IF r # next(u).ref THEN sends'[r] = sends[r] /\ unrecorded'[r] = unrecorded[r]
             ELSE sends'[r] + unrecorded[r] + (IF lost(hand[u], r) THEN 1 ELSE 0)
                    <= sends[r] + unrecorded'[r] + (IF lost(h, r) THEN 1 ELSE 0)
                       + (IF r \in Notices /\ Acknowledge(u) THEN 1 ELSE 0)
  <2>1. ~lost(hand[u], r) /\ lost(h, r)
    BY <1>1, <1>3 DEF lost
  <2>2. sends[r] \in Nat /\ unrecorded[r] \in Nat
    BY <1>0 DEF NotifyTypeOK
  <2>3. sends'[r] = sends[r] + IF r = next(u).ref THEN 1 ELSE 0
    BY <1>0, <2>2 DEF Delivered, NotifyTypeOK
  <2> QED BY <1>1, <2>1, <2>2, <2>3
<1>6. UNCHANGED <<pel, batch>> /\ UNCHANGED <<tables, worker, stream, raised, early>>
  BY <1>1
<1> QED BY <1>0, <1>1, <1>3, <1>4, <1>5, <1>6, QuietStep

LEMMA RefusedStep ==
    ASSUME NotifyInv, NEW u \in Users, NotDelivered(u) \/ RetryAfter(u) PROVE NotifyInv'
<1>0. NotifyTypeOK /\ NotifyTypeOK'
  BY RelayTypes DEF NotifyInv, BotStep, Telegram
<1>1. /\ UNCHANGED <<tables, worker, stream, pel, batch, raised, sends, unrecorded, early>>
      /\ ofUser(u) # {} /\ hand[u].at = "queued" /\ hand[u].outcome = "none"
      /\ hand[u].attempts \in Nat
      /\ next(u).ref \in Deliveries => delivery[next(u).ref] \in {"pending", "processing"}
  BY NextInHand DEF NotDelivered, RetryAfter
<1>2. PICK h : /\ hand' = [hand EXCEPT ![u] = h]
               /\ h.at \in {"queued", "done"} /\ h.outcome # "delivered"
               /\ h.at = "queued" => h.attempts < MaxAttempts /\ h.outcome = "none"
               /\ h.at = "done" => h.outcome # "none"
  <2>1. CASE NotDelivered(u)
    <3>1. PICK h : h = [hand[u] EXCEPT !.at = "done", !.outcome = "failed"]
      OBVIOUS
    <3>2. h.at = "done" /\ h.outcome = "failed"
      BY <1>0, <3>1, HandTypes
    <3>3. hand' = [hand EXCEPT ![u] = h]
      BY <2>1, <3>1 DEF NotDelivered
    <3> QED BY <3>2, <3>3
  <2>2. CASE RetryAfter(u) /\ hand[u].attempts + 1 < MaxAttempts
    <3>1. PICK h : h = [hand[u] EXCEPT !.attempts = hand[u].attempts + 1]
      OBVIOUS
    <3>2. h.at = "queued" /\ h.outcome = "none" /\ h.attempts = hand[u].attempts + 1
      BY <1>0, <1>1, <3>1, HandTypes
    <3>3. hand' = [hand EXCEPT ![u] = h]
      BY <2>2, <3>1 DEF RetryAfter
    <3> QED BY <2>2, <3>2, <3>3
  <2>3. CASE RetryAfter(u) /\ ~(hand[u].attempts + 1 < MaxAttempts)
    <3>1. PICK h : h = [at |-> "done", attempts |-> hand[u].attempts + 1, outcome |-> "failed"]
      OBVIOUS
    <3>2. h.at = "done" /\ h.outcome = "failed"
      BY <3>1
    <3>3. hand' = [hand EXCEPT ![u] = h]
      BY <2>3, <3>1 DEF RetryAfter
    <3> QED BY <3>2, <3>3
  <2> QED BY <2>1, <2>2, <2>3
<1>3. ASSUME NEW r \in Messages
      PROVE  IF r # next(u).ref THEN sends'[r] = sends[r] /\ unrecorded'[r] = unrecorded[r]
             ELSE sends'[r] + unrecorded[r] + (IF lost(hand[u], r) THEN 1 ELSE 0)
                    <= sends[r] + unrecorded'[r] + (IF lost(h, r) THEN 1 ELSE 0)
                       + (IF r \in Notices /\ Acknowledge(u) THEN 1 ELSE 0)
  <2>1. ~lost(hand[u], r) /\ ~lost(h, r)
    BY <1>1, <1>2 DEF lost
  <2>2. sends[r] \in Nat /\ unrecorded[r] \in Nat
    BY <1>0 DEF NotifyTypeOK
  <2> QED BY <1>1, <2>1, <2>2
<1>4. UNCHANGED <<pel, batch>> /\ UNCHANGED <<tables, worker, stream, raised, early>>
  BY <1>1
<1>5. UNCHANGED <<pel, batch>> /\ h.at # "idle"
  BY <1>1, <1>2
<1> QED BY <1>0, <1>1, <1>2, <1>3, <1>4, <1>5, QuietStep

\* The entry leaves the stream; what Telegram took of a notice is accounted for.
LEMMA AckStep == ASSUME NotifyInv, NEW u \in Users, AckEntry(u) PROVE NotifyInv'
<1>0. NotifyTypeOK /\ NotifyTypeOK' /\ HandsBusy
  BY RelayTypes DEF NotifyInv, BotStep, RelayStep
<1>1. /\ UNCHANGED <<tables, worker, stream, raised, sends, unrecorded, early>>
      /\ ofUser(u) # {} /\ hand[u].at = "marked" /\ Acknowledge(u) /\ Drop(u)
  BY <1>0 DEF AckEntry, HandsBusy
<1>2. PICK h : h = idle
  OBVIOUS
<1>3. hand' = [hand EXCEPT ![u] = h] /\ h.at = "idle" /\ h.outcome = "none"
  BY <1>2 DEF AckEntry, idle
<1>4. ASSUME NEW r \in Messages
      PROVE  IF r # next(u).ref THEN sends'[r] = sends[r] /\ unrecorded'[r] = unrecorded[r]
             ELSE sends'[r] + unrecorded[r] + (IF lost(hand[u], r) THEN 1 ELSE 0)
                    <= sends[r] + unrecorded'[r] + (IF lost(h, r) THEN 1 ELSE 0)
                       + (IF r \in Notices /\ Acknowledge(u) THEN 1 ELSE 0)
  <2>1. ~lost(h, r) /\ (lost(hand[u], r) => r \in Notices)
    BY <1>1, <1>3 DEF lost
  <2>2. sends[r] \in Nat /\ unrecorded[r] \in Nat
    BY <1>0 DEF NotifyTypeOK
  <2> QED BY <1>1, <2>1, <2>2
<1>5. Drop(u) /\ h = idle /\ (Acknowledge(u) \/ UNCHANGED pel)
  BY <1>1, <1>2
<1>6. UNCHANGED <<tables, worker, stream, raised, early>>
  BY <1>1
<1> QED BY <1>0, <1>1, <1>3, <1>4, <1>5, <1>6, QuietStep

LEMMA FailStep == ASSUME NotifyInv, NEW u \in Users, ProcessOneFails(u) PROVE NotifyInv'
<1>0. NotifyTypeOK /\ NotifyTypeOK'
  BY RelayTypes DEF NotifyInv
<1>1. /\ UNCHANGED <<tables, worker, stream, pel, raised, sends, early>>
      /\ ofUser(u) # {} /\ Drop(u) /\ unrecorded' = forgotten({u})
  BY DEF ProcessOneFails
<1>2. PICK h : h = idle
  OBVIOUS
<1>3. hand' = [hand EXCEPT ![u] = h] /\ h.at = "idle" /\ h.outcome = "none"
  BY <1>2 DEF ProcessOneFails, idle
<1>4. ASSUME NEW r \in Messages
      PROVE  IF r # next(u).ref THEN sends'[r] = sends[r] /\ unrecorded'[r] = unrecorded[r]
             ELSE sends'[r] + unrecorded[r] + (IF lost(hand[u], r) THEN 1 ELSE 0)
                    <= sends[r] + unrecorded'[r] + (IF lost(h, r) THEN 1 ELSE 0)
                       + (IF r \in Notices /\ Acknowledge(u) THEN 1 ELSE 0)
  <2>1. ~lost(h, r)
    BY <1>3 DEF lost
  <2>2. sends[r] \in Nat /\ unrecorded[r] \in Nat
    BY <1>0 DEF NotifyTypeOK
  <2>3. unsaved(r, {u}) <=> next(u).ref = r /\ lost(hand[u], r)
    BY <1>1 DEF unsaved, lostIn, lost
  <2>4. unrecorded'[r] = IF next(u).ref = r /\ lost(hand[u], r) THEN unrecorded[r] + 1 ELSE unrecorded[r]
    BY <1>1, <2>3 DEF forgotten
  <2> QED BY <1>1, <2>1, <2>2, <2>4
<1>5. Drop(u) /\ h = idle /\ (Acknowledge(u) \/ UNCHANGED pel)
  BY <1>1, <1>2
<1>6. UNCHANGED <<tables, worker, stream, raised, early>>
  BY <1>1
<1> QED BY <1>0, <1>1, <1>3, <1>4, <1>5, <1>6, QuietStep

LEMMA BackoffStep == ASSUME NotifyInv, NEW u \in Users, BackoffEnds(u) PROVE NotifyInv'
<1>0. /\ NotifyTypeOK' /\ NotifyTypeOK /\ EntriesOwned /\ BatchIsPending /\ HandsBusy /\ HandOpen
      /\ NoticesExplained
  BY RelayTypes DEF NotifyInv, BotStep
<1>1. UNCHANGED <<tables, worker, delivery, stream, pel, batch, hand, raised, sends, unrecorded, early>>
  BY DEF BackoffEnds, tables
<1>2. RowsOfSent' /\ WorkerSends' /\ FinishedIsFinished'
  BY <1>1, TablesKept
<1>3. HandsBusy' /\ \A r : explained(r)' = explained(r)
  BY <1>0, <1>1, HandsSame
<1>4. \A r : left(r)' = left(r)
  BY <1>1 DEF left, copies
<1>5. EntriesOwned' /\ BatchIsPending' /\ HandOpen'
  <2>1. \A v : next(v)' = next(v)
    BY <1>1, Untouched
  <2> QED BY <1>0, <1>1, <2>1 DEF EntriesOwned, BatchIsPending, copies, HandOpen
<1>6. EnqueuedOnce' /\ DeliveriesExplained'
  <2>1. ASSUME NEW e \in Deliveries
        PROVE  /\ isOut(e)' => isOut(e)
               /\ waits(e)' => waits(e)
               /\ sends'[e] + explained(e) <= sends[e] + explained(e)'
    <3>1. explained(e) \in Nat /\ sends[e] \in Nat
      BY <1>0, Numbers DEF Messages
    <3> QED BY <1>1, <1>3, <1>4, <3>1 DEF isOut, waits
  <2> QED BY <1>0, <1>1, <2>1, NothingOpened
<1>7. NoticesExplained'
  BY <1>0, <1>1, <1>3, <1>4 DEF NoticesExplained
<1> QED BY <1>0, <1>2, <1>3, <1>5, <1>6, <1>7 DEF NotifyInv

\* Everything in hand is forgotten; what was sent and not saved is counted.
LEMMA CrashStep == ASSUME NotifyInv, Crash PROVE NotifyInv'
<1>0. /\ NotifyTypeOK' /\ NotifyTypeOK /\ EntriesOwned /\ NoticesExplained /\ WorkerSends
  BY RelayTypes DEF NotifyInv
<1>1. /\ UNCHANGED <<tables, campaign, delivery, stream, pel, raised, sends, early>>
      /\ worker' = newTick /\ batch' = <<>> /\ unrecorded' = forgotten(Users)
      /\ \A u \in Users : hand'[u] = idle
  BY DEF Crash, tables
<1>2. RowsOfSent' /\ FinishedIsFinished'
  BY <1>1, CampaignMoved
<1>3. WorkerSends' /\ worker'.row = {} /\ worker'.rows = {}
  BY <1>0, <1>1, NextTick
<1>4. Len(<<>>) = 0 /\ 1..0 = {}
  OBVIOUS
<1>5. EntriesOwned'
  BY <1>0, <1>1, <1>4 DEF EntriesOwned
<1>6. BatchIsPending'
  <2>1. ASSUME NEW r \in Messages PROVE copies(batch', r) <= copies(pel', r)
    <3>1. copies(batch', r) = 0
      BY <1>1, CopiesOfNone
    <3>2. copies(pel', r) \in Nat
      BY <1>0, CopiesType DEF NotifyTypeOK
    <3> QED BY <3>1, <3>2
  <2> QED BY <2>1 DEF BatchIsPending, copies
<1>7. \A u \in Users : hand'[u].at = "idle" /\ hand'[u].outcome = "none"
  BY <1>1 DEF idle
<1>8. HandsBusy' /\ HandOpen'
  BY <1>1, <1>7 DEF HandsBusy, HandOpen
<1>9. ASSUME NEW r \in Messages
      PROVE  explained(r)' = explained(r) /\ left(r)' = left(r) /\ explained(r) \in Nat /\ sends[r] \in Nat
  <2>1. ~unsaved(r, Users)'
    BY <1>7 DEF unsaved, lostIn
  <2>2. unrecorded'[r] = IF unsaved(r, Users) THEN unrecorded[r] + 1 ELSE unrecorded[r]
    BY <1>1 DEF forgotten
  <2>3. unrecorded[r] \in Nat
    BY <1>0 DEF NotifyTypeOK
  <2>4. explained(r)' = explained(r)
    <3>1. explained(r)' = unrecorded'[r] + 0
      BY <2>1 DEF explained
    <3>2. explained(r) = unrecorded[r] + IF unsaved(r, Users) THEN 1 ELSE 0
      BY DEF explained
    <3> QED BY <2>2, <2>3, <3>1, <3>2
  <2>5. left(r)' = left(r)
    BY <1>1 DEF left, copies
  <2> QED BY <1>0, <2>4, <2>5, Numbers
<1>10. EnqueuedOnce' /\ DeliveriesExplained'
  <2>1. ASSUME NEW e \in Deliveries
        PROVE  /\ isOut(e)' => isOut(e)
               /\ waits(e)' => waits(e)
               /\ sends'[e] + explained(e) <= sends[e] + explained(e)'
    <3>1. e \in Messages
      BY DEF Messages
    <3> QED BY <1>1, <1>3, <1>9, <3>1 DEF isOut, waits
  <2> QED BY <1>0, <1>1, <2>1, NothingOpened
<1>11. NoticesExplained'
  BY <1>0, <1>1, <1>9 DEF NoticesExplained, Messages
<1> QED BY <1>0, <1>2, <1>3, <1>5, <1>6, <1>8, <1>10, <1>11 DEF NotifyInv

\* The outcome of a delivery is written to its row, which was open until now.
LEMMA MarkOutcomeStep == ASSUME NotifyInv, NEW u \in Users, MarkOutcome(u) PROVE NotifyInv'
<1>0. /\ NotifyTypeOK' /\ NotifyTypeOK /\ HandsBusy /\ HandOpen /\ RowsOfSent /\ WorkerSends
      /\ FinishedIsFinished /\ EnqueuedOnce /\ DeliveriesExplained /\ NoticesExplained
      /\ batch \in Seq(Entry) /\ Owned(batch)
  BY RelayTypes DEF NotifyInv, BotStep, RelayStep, NotifyTypeOK, EntriesOwned, Owned
<1>1. /\ UNCHANGED <<campaign, audience, resolved, worker, stream, pel, batch, raised, sends,
                     unrecorded, early>>
      /\ hand[u].at = "done" /\ ofUser(u) # {} /\ hand[u].outcome \in {"delivered", "failed"}
  BY <1>0, HandTypes DEF MarkOutcome, HandsBusy
<1>2. PICK h : h = [hand[u] EXCEPT !.at = "marked"]
  OBVIOUS
<1>3. hand' = [hand EXCEPT ![u] = h]
  BY <1>2 DEF MarkOutcome
<1>4. h.at = "marked" /\ h.outcome = hand[u].outcome
  BY <1>0, <1>2, HandTypes
<1>5. PICK m : m = next(u).ref
  OBVIOUS
<1>6. m \in Messages
  BY <1>0, <1>1, <1>5, NextEntry
<1>7. UNCHANGED <<pel, batch>> /\ h.at # "idle"
  BY <1>1, <1>4
<1>8. CASE m \notin Deliveries
  <2>1. UNCHANGED <<tables, worker, stream, raised, early>>
    BY <1>1, <1>5, <1>8 DEF MarkOutcome, tables
  <2>2. ASSUME NEW r \in Messages
        PROVE  IF r # next(u).ref THEN sends'[r] = sends[r] /\ unrecorded'[r] = unrecorded[r]
               ELSE sends'[r] + unrecorded[r] + (IF lost(hand[u], r) THEN 1 ELSE 0)
                      <= sends[r] + unrecorded'[r] + (IF lost(h, r) THEN 1 ELSE 0)
                         + (IF r \in Notices /\ Acknowledge(u) THEN 1 ELSE 0)
    <3>1. r = m => (lost(h, r) <=> lost(hand[u], r))
      BY <1>1, <1>4, <1>6, <1>8 DEF lost, Messages
    <3>2. sends[r] \in Nat /\ unrecorded[r] \in Nat
      BY <1>0 DEF NotifyTypeOK
    <3> QED BY <1>1, <1>5, <3>1, <3>2
  <2>3. h.at \notin {"queued", "done"}
    BY <1>4
  <2> QED BY <1>0, <1>1, <1>3, <1>7, <2>1, <2>2, <2>3, QuietStep
<1>9. CASE m \in Deliveries
  <2>1. /\ delivery[m] \in {"pending", "processing"}
        /\ delivery' = [delivery EXCEPT ![m] = hand[u].outcome]
    BY <1>0, <1>1, <1>5, <1>9 DEF HandOpen, MarkOutcome
  <2>2. delivery'[m] = hand[u].outcome /\ \A d \in Deliveries : d # m => delivery'[d] = delivery[d]
    BY <1>0, <1>9, <2>1 DEF NotifyTypeOK
  <2>3. campaign[m[1]] = "sending"
    BY <1>0, <1>9, <2>1, OpenIsSent
  <2>4. WorkerSends'
    <3>1. sending' = sending
      BY <1>1 DEF sending
    <3> QED BY <1>0, <1>1, <3>1 DEF WorkerSends
  <2>5. RowsOfSent'
    BY <1>0, <1>1, <2>2, <2>3 DEF RowsOfSent
  <2>6. FinishedIsFinished'
    <3>1. ASSUME NEW c \in Campaigns, NEW v \in Users, campaign[c] \in Ended
          PROVE  delivery'[<<c, v>>] = delivery[<<c, v>>]
      <4>1. <<c, v>> \in Deliveries /\ <<c, v>> # m
        BY <2>3, <3>1 DEF Deliveries, Ended
      <4> QED BY <2>2, <4>1
    <3> QED BY <1>0, <1>1, <3>1, EndedKept
  <2>7. /\ EntriesOwned' /\ BatchIsPending' /\ HandsBusy' /\ HandOpen'
        /\ left(m) # 0
        /\ \A r \in Messages :
              /\ r # m => /\ left(r)' = left(r)
                          /\ unsaved(r, Users)' <=> unsaved(r, Users)
              /\ r = m => left(r)' = left(r)
    <3>1. h.at \notin {"queued", "done"}
      BY <1>4
    <3>2. \A d \in Deliveries : d # next(u).ref => delivery'[d] = delivery[d]
      BY <1>5, <2>2
    <3>3. UNCHANGED stream /\ UNCHANGED pel
      BY <1>1
    <3> QED BY <1>0, <1>1, <1>3, <1>5, <1>7, <3>1, <3>2, <3>3, HandStep
  <2>8. ASSUME NEW r \in Messages
        PROVE  /\ r # m => explained(r)' = explained(r)
               /\ explained(r) \in Nat /\ explained(r)' \in Nat /\ sends[r] \in Nat
               /\ explained(r) <= explained(r)' + 1
    <3>1. /\ explained(r) = unrecorded[r] + (IF unsaved(r, Users) THEN 1 ELSE 0)
          /\ explained(r)' = unrecorded'[r] + (IF unsaved(r, Users)' THEN 1 ELSE 0)
      BY DEF explained
    <3>2. unrecorded'[r] = unrecorded[r] /\ unrecorded[r] \in Nat
      BY <1>0, <1>1 DEF NotifyTypeOK
    <3>3. r # m => (unsaved(r, Users)' <=> unsaved(r, Users))
      BY <2>7
    <3> QED BY <1>0, <3>1, <3>2, <3>3, Numbers
  <2>9. ASSUME NEW d \in Deliveries
        PROVE  /\ isOut(d)' <=> isOut(d)
               /\ d # m => (waits(d)' <=> waits(d)) /\ recorded(d)' = recorded(d)
               /\ d = m => /\ recorded(d) = 0 /\ recorded(d)' = 1 /\ isOut(d)
                           /\ waits(d)' => d \in worker.rows /\ waits(d)
    <3>1. left(d)' = left(d)
      BY <2>7 DEF Messages
    <3>2. isOut(d)' <=> isOut(d)
      BY <1>1, <3>1 DEF isOut
    <3>3. d # m => (waits(d)' <=> waits(d)) /\ recorded(d)' = recorded(d)
      BY <1>1, <2>2 DEF waits, recorded
    <3>4. ASSUME d = m
          PROVE  /\ recorded(d) = 0 /\ recorded(d)' = 1 /\ isOut(d)
                 /\ waits(d)' => d \in worker.rows /\ waits(d)
      BY <1>1, <2>1, <2>2, <2>7, <3>4 DEF waits, recorded, isOut, Final
    <3> QED BY <3>2, <3>3, <3>4
  <2>10. EnqueuedOnce'
    <3>1. ASSUME NEW d \in Deliveries, delivery'[d] = "none" PROVE ~isOut(d)'
      BY <1>0, <1>1, <2>2, <2>9, <3>1 DEF EnqueuedOnce
    <3>2. ASSUME NEW d \in Deliveries, d \notin early', waits(d)'
          PROVE  ~isOut(d)' /\ delivery'[d] = "pending"
      BY <1>0, <1>1, <2>2, <2>9, <3>2 DEF EnqueuedOnce
    <3> QED BY <3>1, <3>2 DEF EnqueuedOnce
  <2>11. ASSUME NEW d \in Deliveries
         PROVE  /\ sends'[d] <= explained(d)' + recorded(d)' + (IF d \in early' THEN 1 ELSE 0)
                /\ waits(d)' /\ (isOut(d)' \/ delivery'[d] # "pending") =>
                      sends'[d] <= explained(d)' + recorded(d)'
    <3>1. /\ explained(d) \in Nat /\ explained(d)' \in Nat /\ sends[d] \in Nat
          /\ explained(d) <= explained(d)' + 1
          /\ d # m => explained(d)' = explained(d)
      BY <2>8 DEF Messages
    <3>2. /\ sends[d] <= explained(d) + recorded(d) + (IF d \in early THEN 1 ELSE 0)
          /\ waits(d) /\ (isOut(d) \/ delivery[d] # "pending") => sends[d] <= explained(d) + recorded(d)
      BY <1>0 DEF DeliveriesExplained
    <3>3. sends'[d] = sends[d] /\ early' = early
      BY <1>1
    <3>4. CASE d # m
      <4>1. explained(d)' = explained(d) /\ recorded(d)' = recorded(d) /\ delivery'[d] = delivery[d]
        BY <2>2, <2>9, <3>1, <3>4
      <4> QED BY <2>9, <3>2, <3>3, <3>4, <4>1
    <3>5. CASE d = m
      <4>1. recorded(d) = 0 /\ recorded(d)' = 1 /\ isOut(d) /\ (waits(d)' => waits(d))
        BY <2>9, <3>5
      <4>2. sends'[d] <= explained(d)' + recorded(d)' + (IF d \in early' THEN 1 ELSE 0)
        BY <3>1, <3>2, <3>3, <4>1
      <4>3. waits(d)' => sends'[d] <= explained(d)' + recorded(d)'
        BY <3>1, <3>2, <3>3, <4>1
      <4> QED BY <4>2, <4>3
    <3> QED BY <3>4, <3>5
  <2>12. DeliveriesExplained'
    BY <2>11 DEF DeliveriesExplained
  <2>13. NoticesExplained'
    <3>1. \A n \in Notices : n \in Messages /\ n # m
      BY <1>9 DEF Messages
    <3>2. \A n \in Notices : left(n)' = left(n) /\ explained(n)' = explained(n)
      BY <2>7, <2>8, <3>1
    <3> QED BY <1>0, <1>1, <3>2 DEF NoticesExplained
  <2> QED BY <1>0, <2>4, <2>5, <2>6, <2>7, <2>10, <2>12, <2>13 DEF NotifyInv
<1> QED BY <1>8, <1>9

-----------------------------------------------------------------------------
LEMMA NotifyInitInv == NotifyInit => NotifyInv
<1> SUFFICES ASSUME NotifyInit PROVE NotifyInv
  OBVIOUS
<1>1. NotifyTypeOK
  <2>1. /\ campaign \in [Campaigns -> {"none"}] /\ delivery \in [Deliveries -> {"none"}]
        /\ audience \in [Campaigns -> {{}}] /\ resolved \in [Campaigns -> BOOLEAN]
    BY DEF NotifyInit
  <2>2. idle \in [at : {"idle", "queued", "done", "marked"}, attempts : 0..MaxAttempts,
                  outcome : {"none", "delivered", "failed"}]
    BY DEF idle
  <2>3. /\ stream \in Seq(Entry) /\ pel \in Seq(Entry) /\ batch \in Seq(Entry)
    BY DEF NotifyInit
  <2> QED BY <2>1, <2>2, <2>3 DEF NotifyInit, NotifyTypeOK, newTick
<1>2. /\ \A d \in Deliveries : delivery[d] = "none"
      /\ \A c \in Campaigns : campaign[c] = "none"
      /\ \A u \in Users : hand[u] = idle /\ hand[u].at = "idle" /\ hand[u].outcome = "none"
      /\ \A r \in Messages : sends[r] = 0 /\ unrecorded[r] = 0
      /\ early = {} /\ worker.rows = {} /\ worker.row = {} /\ worker.todo = {} /\ worker.pc = "claim"
      /\ stream = <<>> /\ pel = <<>> /\ batch = <<>>
  BY DEF NotifyInit, idle, newTick
<1>3. Len(<<>>) = 0 /\ 1..0 = {}
  OBVIOUS
<1>4. RowsOfSent /\ WorkerSends /\ HandsBusy /\ HandOpen
  BY <1>2 DEF RowsOfSent, WorkerSends, HandsBusy, HandOpen
<1>5. EntriesOwned /\ FinishedIsFinished
  BY <1>2, <1>3 DEF EntriesOwned, FinishedIsFinished, Ended
<1>6. \A r \in Messages : /\ copies(batch, r) = 0 /\ copies(pel, r) = 0 /\ left(r) = 0
                          /\ explained(r) = 0
  <2>1. ASSUME NEW r \in Messages
        PROVE  copies(batch, r) = 0 /\ copies(pel, r) = 0 /\ copies(stream, r) = 0
    BY <1>2, CopiesOfNone
  <2>2. ASSUME NEW r \in Messages PROVE ~unsaved(r, Users)
    BY <1>2 DEF unsaved, lostIn
  <2> QED BY <1>2, <2>1, <2>2 DEF left, explained
<1>7. BatchIsPending
  BY <1>6 DEF BatchIsPending
<1>8. EnqueuedOnce /\ DeliveriesExplained
  <2>1. \A d \in Deliveries : d \in Messages /\ ~isOut(d) /\ ~waits(d) /\ recorded(d) = 0
    BY <1>2, <1>6 DEF isOut, waits, recorded, Final, Messages
  <2> QED BY <1>2, <1>6, <2>1 DEF EnqueuedOnce, DeliveriesExplained
<1>9. NoticesExplained
  BY <1>2, <1>6 DEF NoticesExplained, Messages
<1> QED BY <1>1, <1>4, <1>5, <1>7, <1>8, <1>9 DEF NotifyInv

LEMMA NotifyStutter == ASSUME NotifyInv, UNCHANGED notifyVars PROVE NotifyInv'
<1>1. /\ NotifyTypeOK /\ EntriesOwned /\ BatchIsPending /\ HandsBusy /\ HandOpen /\ NoticesExplained
      /\ EnqueuedOnce /\ DeliveriesExplained
  BY DEF NotifyInv
<1>2. UNCHANGED <<tables, worker, stream, relay, raised, early, errors>>
  BY DEF notifyVars, tables, relay
<1>3. NotifyTypeOK'
  BY <1>1 DEF NotifyTypeOK, notifyVars
<1>4. RowsOfSent' /\ WorkerSends' /\ FinishedIsFinished'
  BY <1>2, TablesKept
<1>5. delivery' = delivery /\ early' = early /\ worker' = worker
  BY DEF notifyVars
<1>6. /\ EntriesOwned' /\ BatchIsPending' /\ HandsBusy' /\ NoticesExplained'
      /\ HandOpen' /\ EnqueuedOnce' /\ DeliveriesExplained'
  BY <1>2, <1>3, <1>5, TableStep
<1> QED BY <1>3, <1>4, <1>6 DEF NotifyInv

LEMMA NotifyKept == ASSUME NotifyInv, [NotifyNext]_notifyVars PROVE NotifyInv'
<1>1. CASE EditRoutes \/ SendRoutes
  BY <1>1, RoutesStep
<1>2. CASE WorkerStep
  BY <1>2, TicksStep, ReclaimStep, SeedStep, MarkStep, EnqueueStep DEF WorkerStep
<1>3. CASE TickFails
  BY <1>3, TicksStep
<1>4. ASSUME NEW n \in Notices, NotifyUser(n) PROVE NotifyInv'
  BY <1>4, RaiseStep
<1>5. CASE ReadPending \/ ReadFresh
  BY <1>5, ReadStep
<1>6. ASSUME NEW u \in Users, RelayStep(u) PROVE NotifyInv'
  BY <1>6, SkipStep, SendStep, MarkOutcomeStep, AckStep DEF RelayStep
<1>7. ASSUME NEW u \in Users, Telegram(u) PROVE NotifyInv'
  BY <1>7, DeliveredStep, RefusedStep DEF Telegram
<1>8. ASSUME NEW u \in Users, BackoffEnds(u) PROVE NotifyInv'
  BY <1>8, BackoffStep
<1>9. ASSUME NEW u \in Users, ProcessOneFails(u) PROVE NotifyInv'
  BY <1>9, FailStep
<1>10. CASE Crash
  BY <1>10, CrashStep
<1>11. CASE UNCHANGED notifyVars
  BY <1>11, NotifyStutter
<1>12. CASE BotStep
  BY <1>5, <1>6, <1>7, <1>8, <1>12 DEF BotStep
<1> QED BY <1>1, <1>2, <1>3, <1>4, <1>9, <1>10, <1>11, <1>12 DEF NotifyNext

\* The rows, the entries and the sends fit together in every state.
THEOREM NotifySafe == NotifySpec => []NotifyInv
<1>1. NotifyInit => NotifyInv
  BY NotifyInitInv
<1>2. NotifyInv /\ [NotifyNext]_notifyVars => NotifyInv'
  BY NotifyKept
<1> QED BY <1>1, <1>2, PTL DEF NotifySpec

THEOREM NotifyTypes == NotifySpec => []NotifyTypeOK
<1>1. NotifyInv => NotifyTypeOK
  BY DEF NotifyInv
<1> QED BY <1>1, NotifySafe, PTL

LEMMA InvExplainsRepeats == NotifyInv => RepeatsExplained
<1> SUFFICES ASSUME NotifyInv, NEW r \in Messages
             PROVE  sends[r] <= 1 + unrecorded[r] + (IF r \in early THEN 1 ELSE 0)
  BY DEF RepeatsExplained
<1>0. /\ NotifyTypeOK /\ HandsBusy /\ HandOpen /\ DeliveriesExplained /\ NoticesExplained
      /\ batch \in Seq(Entry) /\ Owned(batch)
  BY DEF NotifyInv, NotifyTypeOK, EntriesOwned, Owned
<1>1. /\ sends[r] \in Nat /\ unrecorded[r] \in Nat
      /\ explained(r) = unrecorded[r] + (IF unsaved(r, Users) THEN 1 ELSE 0)
  BY <1>0 DEF NotifyTypeOK, explained
<1>2. CASE r \in Deliveries
  <2>1. sends[r] <= explained(r) + recorded(r) + (IF r \in early THEN 1 ELSE 0)
    BY <1>0, <1>2 DEF DeliveriesExplained
  <2>2. ASSUME unsaved(r, Users) PROVE recorded(r) = 0
    <3>1. PICK u \in Users : next(u).ref = r /\ lostIn(u)
      BY <2>2 DEF unsaved
    <3>2. hand[u].at = "done"
      BY <1>2, <3>1 DEF lostIn
    <3>3. delivery[r] \in {"pending", "processing"}
      BY <1>0, <1>2, <3>1, <3>2 DEF HandOpen
    <3> QED BY <3>3 DEF recorded, Final
  <2>3. recorded(r) \in {0, 1}
    BY DEF recorded
  <2> QED BY <1>1, <2>1, <2>2, <2>3
<1>3. CASE r \in Notices
  <2>1. sends[r] <= explained(r) + (IF left(r) = 0 THEN 1 ELSE 0)
    BY <1>0, <1>3 DEF NoticesExplained
  <2>2. ASSUME unsaved(r, Users) PROVE left(r) # 0
    <3>1. PICK u \in Users : ofUser(u) # {} /\ next(u).ref = r
      BY <2>2 DEF unsaved
    <3>2. copies(batch, r) # 0
      BY <1>0, <3>1, NextEntry
    <3>3. /\ copies(batch, r) \in Nat /\ copies(pel, r) \in Nat /\ copies(stream, r) \in Nat
          /\ copies(batch, r) <= copies(pel, r)
      BY CopiesType DEF NotifyInv, NotifyTypeOK, BatchIsPending
    <3> QED BY <3>2, <3>3 DEF left
  <2> QED BY <1>1, <2>1, <2>2
<1> QED BY <1>2, <1>3 DEF Messages

\* A message is sent again only if the outcome of its sending was lost, or it
\* was taken for stuck while it was under way.
THEOREM RepeatsAreExplained == NotifySpec => []RepeatsExplained
BY InvExplainsRepeats, NotifySafe, PTL

\* No late entry and no repeated reading changes what a finished campaign says.
THEOREM FinishedStaysFinished == NotifySpec => []FinishedIsFinished
<1>1. NotifyInv => FinishedIsFinished
  BY DEF NotifyInv
<1> QED BY <1>1, NotifySafe, PTL
=============================================================================
