----------------------------- MODULE MoneyProofs -----------------------------
(***************************************************************************)
(* Proofs about LedgerPost and Payout.                                     *)
(*                                                                         *)
(* LedgerPost, for any accounts, requests, transactions and programs: row  *)
(* locks are exclusive and a transaction reads and changes only rows it    *)
(* holds, so what post() read is current when it decides (LockDiscipline); *)
(* hence every uncommitted change is covered by the committed balance      *)
(* (Covered); a commit publishes only covered changes.  Keys are unique    *)
(* because an INSERT waits for an uncommitted owner and sees the committed *)
(* ones (KeyOwnedOnce).                                                    *)
(*                                                                         *)
(* Payout: the two-person rule holds whatever the replicas do.  That a     *)
(* withdrawal ends once, and that the locked money is what is in flight,   *)
(* is claimed for one worker, as two may settle and reverse the same entry.*)
(***************************************************************************)
EXTENDS LedgerPost, Payout, SumTheorems

\* The call a running transaction is in is one of the callers' requests
\* (Program holds the arguments of the post() calls).
LEMMA CurrentRequest ==
    ASSUME TypeOK, NEW t \in Txn, pc[t] \in {"insert", "lock"}
    PROVE  /\ Current(t) \in Request
           /\ DOMAIN Current(t).legs \subseteq Account
           /\ \A a \in Account : Delta(Current(t), a) \in Int
  <1>1. idx[t] \in 1 .. Len(Program[t])
    BY DEF TypeOK
  <1>2. Program[t] \in Seq(Request)
    BY ProgramAssumption
  <1>3. Current(t) \in Request
    BY <1>1, <1>2 DEF Current
  <1>. QED
    BY <1>3, RequestAssumption DEF Delta

\* Ending a transaction, by commit, rollback or failure, keeps the types.
LEMMA EndType ==
    ASSUME TypeOK, NEW t \in Txn, NEW how \in Ended, End(t, how),
           journal' \subseteq Request, balance' \in [Account -> Int]
    PROVE  TypeOK'
  BY DEF TypeOK, End, Active, Ended, Zero

\* A rolled-back transaction leaves nothing behind: the invariant survives the
\* end of a transaction that publishes nothing.
LEMMA AbortInv ==
    ASSUME IndInv, NEW t \in Txn, End(t, "aborted"), UNCHANGED data
    PROVE  IndInv'
  <1>1. TypeOK'
    BY EndType DEF IndInv, TypeOK, data, Ended
  <1>2. LockDiscipline'
    <2>1. \A u, v \in Txn : u # v => held'[u] \intersect held'[v] = {}
      BY DEF IndInv, LockDiscipline, TypeOK, End
    <2>2. \A u \in Txn : \A a \in Account : a \notin held'[u] => pend'[u][a] = 0
      BY DEF IndInv, LockDiscipline, TypeOK, End, Zero
    <2>3. \A u \in Txn : pc'[u] = "lock" => \A a \in locked'[u] :
              a \in held'[u] /\ read'[u][a] = balance'[a] + pend'[u][a]
      BY DEF IndInv, LockDiscipline, TypeOK, End, data
    <2>. QED
      BY <2>1, <2>2, <2>3 DEF LockDiscipline
  <1>3. Covered'
    BY AccountAssumption DEF IndInv, Covered, TypeOK, End, Zero, data
  <1>4. KeyOwnedOnce'
    BY DEF IndInv, KeyOwnedOnce, TypeOK, End, data, Visible
  <1>. QED
    BY <1>1, <1>2, <1>3, <1>4 DEF IndInv

\* The window opens with no transaction under way.
LEMMA InitInv == Init => IndInv
  <1> SUFFICES ASSUME Init PROVE IndInv
    OBVIOUS
  <1>1. TypeOK
    <2>1. \A t \in Txn : 1 <= Len(Program[t])
      BY ProgramAssumption
    <2>. QED
      BY <2>1, OpeningAssumption DEF Init, TypeOK, Active, Ended, Zero
  <1>2. LockDiscipline
    BY DEF Init, LockDiscipline, Zero
  <1>3. Covered
    BY OpeningAssumption, AccountAssumption DEF Init, Covered, Zero
  <1>4. KeyOwnedOnce
    BY DEF Init, KeyOwnedOnce
  <1>. QED
    BY <1>1, <1>2, <1>3, <1>4 DEF IndInv

\* INSERT ... ON CONFLICT: the new row's key has no other owner.
LEMMA InsertKeyInv ==
    ASSUME IndInv, NEW t \in Txn, InsertKey(t)
    PROVE  IndInv'
  <1>0. TypeOK /\ Current(t) \in Request
    BY CurrentRequest DEF IndInv, InsertKey
  <1>1. TypeOK'
    BY <1>0 DEF TypeOK, InsertKey, Active, Ended
  <1>2. LockDiscipline'
    BY <1>0 DEF IndInv, LockDiscipline, TypeOK, InsertKey
  <1>3. Covered'
    BY DEF IndInv, Covered, InsertKey
  <1>4. KeyOwnedOnce'
    <2>1. \A s \in Visible(t) : s.key # Current(t).key
      BY DEF InsertKey, Owners
    <2>2. \A u \in Txn \ {t} : \A s \in mine[u] : s.key # Current(t).key
      BY DEF InsertKey, KeyBlocker, Owners
    <2>. QED
      BY <1>0, <2>1, <2>2 DEF IndInv, KeyOwnedOnce, TypeOK, InsertKey, Visible
  <1>. QED
    BY <1>1, <1>2, <1>3, <1>4 DEF IndInv

\* A replay writes nothing.
LEMMA ReplayInv ==
    ASSUME IndInv, NEW t \in Txn, Replay(t)
    PROVE  IndInv'
  <1>1. TypeOK'
    BY ProgramAssumption DEF IndInv, TypeOK, Replay, Return, Active, Ended
  <1>2. LockDiscipline'
    BY DEF IndInv, LockDiscipline, TypeOK, Replay, Return
  <1>3. Covered' /\ KeyOwnedOnce'
    BY DEF IndInv, Covered, KeyOwnedOnce, Visible, Replay
  <1>. QED
    BY <1>1, <1>2, <1>3 DEF IndInv

\* SELECT ... FOR UPDATE: the row becomes t's alone and its balance is current.
LEMMA LockRowInv ==
    ASSUME IndInv, NEW t \in Txn, NEW a \in Account, LockRow(t, a)
    PROVE  IndInv'
  <1>1. TypeOK'
    BY DEF IndInv, TypeOK, LockRow
  <1>2. LockDiscipline'
    <2>1. \A u \in Txn \ {t} : a \notin held[u]
      BY DEF LockRow, RowBlocker
    <2>2. \A u, v \in Txn : u # v => held'[u] \intersect held'[v] = {}
      BY <2>1 DEF IndInv, LockDiscipline, TypeOK, LockRow
    <2>3. \A u \in Txn : \A b \in Account : b \notin held'[u] => pend'[u][b] = 0
      BY DEF IndInv, LockDiscipline, TypeOK, LockRow
    <2>4. \A u \in Txn : pc'[u] = "lock" => \A b \in locked'[u] :
              b \in held'[u] /\ read'[u][b] = balance'[b] + pend'[u][b]
      BY DEF IndInv, LockDiscipline, TypeOK, LockRow
    <2>. QED
      BY <2>2, <2>3, <2>4 DEF LockDiscipline
  <1>3. Covered' /\ KeyOwnedOnce'
    BY DEF IndInv, Covered, KeyOwnedOnce, Visible, LockRow
  <1>. QED
    BY <1>1, <1>2, <1>3 DEF IndInv

\* The writes of post(): only rows held change, and the InsufficientFunds
\* check on the balances read covers the change.
LEMMA ApplyInv ==
    ASSUME IndInv, NEW t \in Txn, Apply(t)
    PROVE  IndInv'
  <1>0. /\ TypeOK
        /\ pc[t] = "lock"
        /\ DOMAIN Current(t).legs \subseteq locked[t]
        /\ DOMAIN Current(t).legs \subseteq Account
        /\ \A a \in Account : Delta(Current(t), a) \in Int
    BY CurrentRequest DEF IndInv, Apply, AllLocked
  <1>1. \A u \in Txn : u # t => pend'[u] = pend[u]
    BY <1>0 DEF Apply, TypeOK
  <1>2. \A a \in Account : pend'[t][a] = pend[t][a] + Delta(Current(t), a)
    BY <1>0 DEF Apply, TypeOK
  <1>3. TypeOK'
    <2>1. pend' \in [Txn -> [Account -> Int]]
      BY <1>0 DEF Apply, TypeOK
    <2>. QED
      BY <1>0, <2>1, ProgramAssumption DEF Apply, TypeOK, Return, Active, Ended
  <1>4. LockDiscipline'
    <2>1. \A u \in Txn : \A a \in Account : a \notin held'[u] => pend'[u][a] = 0
      BY <1>0, <1>1, <1>2 DEF IndInv, LockDiscipline, TypeOK, Apply, Delta
    <2>2. \A u \in Txn : pc'[u] = "lock" => u # t
      BY <1>0 DEF Apply, Return, TypeOK
    <2>3. \A u \in Txn : pc'[u] = "lock" => pc[u] = "lock"
      BY <1>0, <2>2 DEF Apply, Return, TypeOK
    <2>. QED
      BY <1>1, <2>1, <2>2, <2>3 DEF IndInv, LockDiscipline, Apply
  <1>5. Covered'
    <2>1. \A a \in UserAccount : balance[a] + pend'[t][a] >= 0
      <3> TAKE a \in UserAccount
      <3>0. /\ balance[a] \in Int /\ pend[t][a] \in Int /\ Delta(Current(t), a) \in Int
            /\ pend'[t][a] = pend[t][a] + Delta(Current(t), a)
        BY <1>0, <1>2, AccountAssumption DEF TypeOK
      <3>1. CASE a \in DOMAIN Current(t).legs
        <4>1. read[t][a] = balance[a] + pend[t][a]
          BY <1>0, <3>1 DEF IndInv, LockDiscipline
        <4>2. read[t][a] + Delta(Current(t), a) >= 0
          BY <3>1 DEF Apply, Sufficient, Delta
        <4>. QED
          BY <3>0, <4>1, <4>2
      <3>2. CASE a \notin DOMAIN Current(t).legs
        <4>1. Delta(Current(t), a) = 0
          BY <3>2 DEF Delta
        <4>2. balance[a] + pend[t][a] >= 0
          BY DEF IndInv, Covered
        <4>. QED
          BY <3>0, <4>1, <4>2
      <3>. QED
        BY <3>1, <3>2
    <2>. QED
      BY <1>1, <2>1 DEF IndInv, Covered, Apply
  <1>6. KeyOwnedOnce'
    BY DEF IndInv, KeyOwnedOnce, Visible, Apply
  <1>. QED
    BY <1>3, <1>4, <1>5, <1>6 DEF IndInv

\* COMMIT publishes the rows and the covered changes of one transaction; the
\* balances other transactions have read are of rows it does not hold.
LEMMA CommitInv ==
    ASSUME IndInv, NEW t \in Txn, Commit(t)
    PROVE  IndInv'
  <1>0. TypeOK /\ End(t, "committed")
    BY DEF IndInv, Commit
  <1>1. \A a \in Account : balance'[a] = balance[a] + pend[t][a]
    BY DEF Commit
  <1>2. TypeOK'
    <2>1. balance' \in [Account -> Int]
      BY <1>0 DEF Commit, TypeOK
    <2>2. journal' \subseteq Request
      BY <1>0 DEF Commit, TypeOK
    <2>. QED
      BY <1>0, <2>1, <2>2, EndType DEF Ended
  <1>3. \A u \in Txn \ {t} : /\ pend'[u] = pend[u] /\ held'[u] = held[u]
                             /\ locked'[u] = locked[u] /\ read'[u] = read[u]
                             /\ pc'[u] = pc[u] /\ mine'[u] = mine[u]
    BY <1>0 DEF End, TypeOK
  <1>4. /\ pend'[t] = Zero /\ held'[t] = {} /\ locked'[t] = {}
        /\ pc'[t] = "committed" /\ mine'[t] = {}
    BY <1>0 DEF End, TypeOK
  <1>5. \A u \in Txn \ {t} : \A a \in held[u] : balance'[a] = balance[a]
    BY <1>0, <1>1 DEF IndInv, LockDiscipline, TypeOK
  <1>6. LockDiscipline'
    <2>1. \A u, v \in Txn : u # v => held'[u] \intersect held'[v] = {}
      BY <1>3, <1>4 DEF IndInv, LockDiscipline
    <2>2. \A u \in Txn : \A a \in Account : a \notin held'[u] => pend'[u][a] = 0
      BY <1>3, <1>4 DEF IndInv, LockDiscipline, Zero
    <2>3. \A u \in Txn : pc'[u] = "lock" => \A a \in locked'[u] :
              a \in held'[u] /\ read'[u][a] = balance'[a] + pend'[u][a]
      BY <1>3, <1>4, <1>5 DEF IndInv, LockDiscipline
    <2>. QED
      BY <2>1, <2>2, <2>3 DEF LockDiscipline
  <1>7. Covered'
    <2> SUFFICES ASSUME NEW a \in UserAccount
                 PROVE  balance'[a] >= 0 /\ \A u \in Txn : balance'[a] + pend'[u][a] >= 0
      BY DEF Covered
    <2>1. balance'[a] >= 0
      BY <1>1, AccountAssumption DEF IndInv, Covered
    <2>2. ASSUME NEW u \in Txn, u # t PROVE balance'[a] + pend'[u][a] >= 0
      <3>1. CASE a \in held[u]
        BY <1>3, <1>5, <2>2, <3>1 DEF IndInv, Covered
      <3>2. CASE a \notin held[u]
        <4>1. pend'[u][a] = 0
          BY <1>3, <2>2, <3>2, AccountAssumption DEF IndInv, LockDiscipline
        <4>. QED
          BY <1>2, <2>1, <4>1, AccountAssumption DEF TypeOK
      <3>. QED
        BY <3>1, <3>2
    <2>3. balance'[a] + pend'[t][a] >= 0
      BY <1>2, <1>4, <2>1, AccountAssumption DEF Zero, TypeOK
    <2>. QED
      BY <2>1, <2>2, <2>3
  <1>8. KeyOwnedOnce'
    <2>1. journal' = journal \union mine[t]
      BY DEF Commit
    <2>2. \A r, s \in journal' : r.key = s.key => r = s
      BY <2>1 DEF IndInv, KeyOwnedOnce, Visible
    <2>3. \A u \in Txn : \A r \in mine'[u] :
             /\ \A s \in journal' \union mine'[u] : r.key = s.key => r = s
             /\ \A v \in Txn \ {u} : \A s \in mine'[v] : r.key # s.key
      BY <1>3, <1>4, <2>1 DEF IndInv, KeyOwnedOnce, Visible
    <2>. QED
      BY <2>2, <2>3 DEF KeyOwnedOnce, Visible
  <1>. QED
    BY <1>2, <1>6, <1>7, <1>8 DEF IndInv

\* The invariant is inductive over every step of every transaction.
LEMMA NextInv == IndInv /\ [Next]_vars => IndInv'
  <1> SUFFICES ASSUME IndInv, [Next]_vars PROVE IndInv'
    OBVIOUS
  <1>1. ASSUME NEW t \in Txn, Step(t) PROVE IndInv'
    <2>1. CASE InsertKey(t)    BY <2>1, InsertKeyInv
    <2>2. CASE Replay(t)       BY <2>2, ReplayInv
    <2>3. CASE KeyConflict(t)  BY <2>3, AbortInv DEF KeyConflict
    <2>4. CASE \E a \in Account : LockRow(t, a)
      BY <2>4, LockRowInv
    <2>5. CASE Apply(t)        BY <2>5, ApplyInv
    <2>6. CASE Insufficient(t) BY <2>6, AbortInv DEF Insufficient
    <2>7. CASE Commit(t)       BY <2>7, CommitInv
    <2>8. CASE CommitRejected(t)
      BY <2>8, AbortInv DEF CommitRejected
    <2>. QED
      BY <1>1, <2>1, <2>2, <2>3, <2>4, <2>5, <2>6, <2>7, <2>8 DEF Step
  <1>2. ASSUME NEW t \in Txn, Fail(t) PROVE IndInv'
    BY <1>2, AbortInv DEF Fail
  <1>3. ASSUME NEW t \in Txn, DeadlockVictim(t) PROVE IndInv'
    BY <1>3, AbortInv DEF DeadlockVictim
  <1>4. ASSUME UNCHANGED vars PROVE IndInv'
    BY <1>4 DEF vars, IndInv, TypeOK, LockDiscipline, Covered, KeyOwnedOnce, Visible
  <1>. QED
    BY <1>1, <1>2, <1>3, <1>4 DEF Next, Done

\* The lock discipline of post() and the cover of every balance hold in every
\* state, for any number of concurrent transactions.
THEOREM InductiveInvariant == Spec => []IndInv
  BY InitInv, NextInv, PTL DEF Spec

\* No interleaving of post() calls takes a user balance below zero.
THEOREM NoOverdraft == Spec => []UserBalancesNonNegative
  <1>1. IndInv => UserBalancesNonNegative
    BY DEF IndInv, Covered, UserBalancesNonNegative
  <1>. QED
    BY <1>1, InductiveInvariant, PTL

\* An idempotency key is journalled at most once, however many retries race.
THEOREM AtMostOncePerKey == Spec => []KeysUnique
  <1>1. IndInv => KeysUnique
    BY DEF IndInv, KeyOwnedOnce, KeysUnique
  <1>. QED
    BY <1>1, InductiveInvariant, PTL

-----------------------------------------------------------------------------
(***************************************************************************)
(* What the legs of a set of requests add up to.                           *)
(***************************************************************************)
LEMMA DeltaInt == \A r \in Request : \A a : Delta(r, a) \in Int
  BY RequestAssumption DEF Delta

\* SumLegs as a sum over a function of all requests.
LEMMA SumLegsOver ==
    ASSUME NEW R \in SUBSET Request, IsFiniteSet(R), NEW a
    PROVE  /\ SumLegs(R, a) = SumFunctionOnSet([r \in Request |-> Delta(r, a)], R)
           /\ SumLegs(R, a) \in Int
  <1> DEFINE f == [r \in R |-> Delta(r, a)]
             g == [r \in Request |-> Delta(r, a)]
  <1>1. \A r \in R : f[r] \in Int /\ g[r] = f[r]
    BY DeltaInt
  <1>2. SumFunctionOnSet(f, R) = SumFunctionOnSet(g, R) /\ SumFunctionOnSet(f, R) \in Int
    <2> HIDE DEF f, g
    <2> QED BY <1>1, SumSame, SumInt
  <1>. QED
    BY <1>2 DEF SumLegs

\* No legs move nothing.
LEMMA SumLegsNone == \A a : SumLegs({}, a) = 0
  BY SumEmpty DEF SumLegs

\* Two sets of rows with nothing in common move the sum of what each moves.
LEMMA SumLegsUnion ==
    ASSUME NEW R \in SUBSET Request, IsFiniteSet(R),
           NEW S \in SUBSET Request, IsFiniteSet(S), R \intersect S = {}, NEW a
    PROVE  SumLegs(R \union S, a) = SumLegs(R, a) + SumLegs(S, a)
  <1> DEFINE g == [r \in Request |-> Delta(r, a)]
  <1>1. \A r \in R \union S : g[r] \in Int
    BY DeltaInt
  <1>2. IsFiniteSet(R \union S)
    BY FS_Union
  <1>3. SumFunctionOnSet(g, R \union S) = SumFunctionOnSet(g, R) + SumFunctionOnSet(g, S)
    <2> HIDE DEF g
    <2> QED BY <1>1, SumUnion
  <1>. QED
    BY <1>2, <1>3, SumLegsOver

\* One more row adds its own leg.
LEMMA SumLegsAdd ==
    ASSUME NEW R \in SUBSET Request, IsFiniteSet(R), NEW r \in Request, r \notin R, NEW a
    PROVE  SumLegs(R \union {r}, a) = SumLegs(R, a) + Delta(r, a)
  <1> DEFINE g == [s \in Request |-> Delta(s, a)]
  <1>1. \A s \in R \union {r} : g[s] \in Int
    BY DeltaInt
  <1>2. IsFiniteSet(R \union {r})
    BY FS_AddElement
  <1>3. SumFunctionOnSet(g, R \union {r}) = SumFunctionOnSet(g, R) + g[r]
    <2> HIDE DEF g
    <2> QED BY <1>1, SumAdd
  <1>4. R \union {r} \in SUBSET Request
    OBVIOUS
  <1>. QED
    BY <1>2, <1>3, <1>4, SumLegsOver

-----------------------------------------------------------------------------
(***************************************************************************)
(* The journal and the balances agree: a transaction's pending changes are *)
(* the legs of the rows it has written, and a commit publishes both.       *)
(***************************************************************************)
BookInv == IndInv /\ Published /\ PendingIsWritten /\ Reconciled

\* What t does leaves the others' rows and changes alone.
OthersKept(t) ==
    \A u \in Txn \ {t} : /\ pc'[u] = pc[u] /\ idx'[u] = idx[u]
                         /\ mine'[u] = mine[u] /\ pend'[u] = pend[u]

\* A step of one transaction leaves the pending changes of the others alone.
LEMMA PendingFrame ==
    ASSUME PendingIsWritten, NEW t \in Txn, OthersKept(t),
           pc'[t] = "lock" => Current(t)' \in mine'[t],
           \A a \in Account : pend'[t][a] = SumLegs(Written(t)', a)
    PROVE  PendingIsWritten'
  <1> SUFFICES ASSUME NEW u \in Txn
               PROVE  /\ pc'[u] = "lock" => Current(u)' \in mine'[u]
                      /\ \A a \in Account : pend'[u][a] = SumLegs(Written(u)', a)
    BY DEF PendingIsWritten
  <1>1. CASE u = t
    BY <1>1
  <1>2. CASE u # t
    <2>1. Current(u)' = Current(u) /\ Written(u)' = Written(u)
      BY <1>2 DEF OthersKept, Current, Written
    <2>. QED
      BY <1>2, <2>1 DEF OthersKept, PendingIsWritten
  <1>. QED
    BY <1>1, <1>2

\* Ending a transaction leaves it nothing pending.
LEMMA EndPending ==
    ASSUME TypeOK, PendingIsWritten, NEW t \in Txn, NEW how \in Ended, End(t, how)
    PROVE  PendingIsWritten'
  <1>1. OthersKept(t)
    BY DEF OthersKept, End, TypeOK
  <1>2. pc'[t] # "lock" /\ mine'[t] = {} /\ pend'[t] = Zero
    BY DEF End, TypeOK, Ended
  <1>3. Written(t)' = {}
    BY <1>2 DEF Written
  <1>. QED
    BY <1>1, <1>2, <1>3, PendingFrame, SumLegsNone DEF Zero

\* The journal is empty, and balances are what they opened with.
LEMMA InitBook == Init => BookInv
  <1> SUFFICES ASSUME Init PROVE Published /\ PendingIsWritten /\ Reconciled
    BY InitInv DEF BookInv
  <1>1. Published
    BY FS_EmptySet DEF Init, Published
  <1>2. PendingIsWritten
    <2>1. \A t \in Txn : pc[t] = "insert" /\ pend[t] = Zero /\ Written(t) = {}
      BY DEF Init, Written
    <2>. QED
      BY <2>1, SumLegsNone DEF PendingIsWritten, Zero
  <1>3. Reconciled
    BY SumLegsNone, OpeningAssumption DEF Init, Reconciled
  <1>. QED
    BY <1>1, <1>2, <1>3

\* A rollback, for whatever reason, publishes nothing.
LEMMA AbortBook ==
    ASSUME BookInv, NEW t \in Txn, End(t, "aborted"), UNCHANGED data
    PROVE  Published' /\ PendingIsWritten' /\ Reconciled'
  <1>1. PendingIsWritten'
    BY EndPending DEF BookInv, IndInv, Ended
  <1>2. Published'
    BY FS_EmptySet DEF BookInv, IndInv, TypeOK, Published, End, data
  <1>3. Reconciled'
    BY DEF BookInv, Reconciled, data
  <1>. QED
    BY <1>1, <1>2, <1>3

\* A new row is written by nobody yet and its legs are still to be applied.
LEMMA InsertKeyBook ==
    ASSUME BookInv, NEW t \in Txn, InsertKey(t)
    PROVE  Published' /\ PendingIsWritten' /\ Reconciled'
  <1>0. TypeOK /\ Current(t) \in Request
    BY CurrentRequest DEF BookInv, IndInv, InsertKey
  <1>1. /\ OthersKept(t)
        /\ mine'[t] = mine[t] \union {Current(t)} /\ pc'[t] = "lock" /\ pend'[t] = pend[t]
        /\ Current(t)' = Current(t)
    BY <1>0 DEF InsertKey, OthersKept, TypeOK, Current
  <1>2. Current(t) \notin journal \union mine[t]
    BY DEF InsertKey, Owners, Visible
  <1>3. Published'
    <2>1. IsFiniteSet(mine[t] \union {Current(t)})
      BY FS_AddElement DEF BookInv, Published
    <2>. QED
      BY <1>1, <1>2, <2>1 DEF BookInv, Published, OthersKept, InsertKey
  <1>4. Written(t)' = Written(t)
    BY <1>1, <1>2 DEF Written, InsertKey
  <1>5. PendingIsWritten'
    BY <1>1, <1>4, PendingFrame DEF BookInv, PendingIsWritten
  <1>6. Reconciled'
    BY DEF BookInv, Reconciled, InsertKey
  <1>. QED
    BY <1>3, <1>5, <1>6

\* A replay and the reading of a row write nothing.
LEMMA ReadingBook ==
    ASSUME BookInv, NEW t \in Txn, Replay(t) \/ \E a \in Account : LockRow(t, a)
    PROVE  Published' /\ PendingIsWritten' /\ Reconciled'
  <1>1. UNCHANGED <<journal, balance, mine, pend>>
    BY DEF Replay, LockRow
  <1>2. Published' /\ Reconciled'
    BY <1>1 DEF BookInv, Published, Reconciled
  <1>3. OthersKept(t)
    BY DEF BookInv, IndInv, TypeOK, OthersKept, Replay, Return, LockRow
  <1>4. CASE Replay(t)
    <2>1. Written(t)' = Written(t) /\ pc'[t] # "lock"
      BY <1>1, <1>4 DEF BookInv, IndInv, TypeOK, Written, Replay, Return
    <2>. QED
      BY <1>1, <1>2, <1>3, <2>1, PendingFrame DEF BookInv, PendingIsWritten
  <1>5. CASE \E a \in Account : LockRow(t, a)
    <2>1. Written(t)' = Written(t) /\ Current(t)' = Current(t) /\ pc' = pc
      BY <1>1, <1>5 DEF Written, LockRow, Current
    <2>. QED
      BY <1>1, <1>2, <1>3, <2>1, PendingFrame DEF BookInv, PendingIsWritten
  <1>. QED
    BY <1>4, <1>5

\* The writes of post() are the legs of the row it inserted.
LEMMA ApplyBook ==
    ASSUME BookInv, NEW t \in Txn, Apply(t)
    PROVE  Published' /\ PendingIsWritten' /\ Reconciled'
  <1>0. TypeOK /\ Current(t) \in Request /\ pc[t] = "lock" /\ Current(t) \in mine[t]
    BY CurrentRequest DEF BookInv, IndInv, Apply, AllLocked, PendingIsWritten
  <1>1. UNCHANGED <<journal, balance, mine>>
    BY DEF Apply
  <1>2. Published' /\ Reconciled'
    BY <1>1 DEF BookInv, Published, Reconciled
  <1>3. OthersKept(t) /\ pc'[t] # "lock"
    BY <1>0 DEF TypeOK, OthersKept, Apply, Return
  <1>4. Written(t)' = Written(t) \union {Current(t)} /\ Current(t) \notin Written(t)
    BY <1>0, <1>1, <1>3 DEF Written
  <1>5. IsFiniteSet(Written(t)) /\ Written(t) \in SUBSET Request
    BY <1>0, FS_RemoveElement DEF Written, TypeOK, BookInv, Published
  <1>6. ASSUME NEW a \in Account PROVE pend'[t][a] = SumLegs(Written(t)', a)
    <2>1. pend'[t][a] = pend[t][a] + Delta(Current(t), a)
      BY <1>0 DEF Apply, TypeOK
    <2>2. SumLegs(Written(t)', a) = SumLegs(Written(t), a) + Delta(Current(t), a)
      BY <1>0, <1>4, <1>5, SumLegsAdd
    <2>. QED
      BY <2>1, <2>2 DEF BookInv, PendingIsWritten
  <1>7. PendingIsWritten'
    BY <1>3, <1>6, PendingFrame DEF BookInv
  <1>. QED
    BY <1>2, <1>7

\* COMMIT publishes the rows together with the changes they amount to.
LEMMA CommitBook ==
    ASSUME BookInv, NEW t \in Txn, Commit(t)
    PROVE  /\ Published' /\ PendingIsWritten' /\ Reconciled'
           /\ balance' = [a \in Account |-> balance[a] + SumLegs(mine[t], a)]
  <1>0. /\ TypeOK /\ End(t, "committed") /\ Written(t) = mine[t]
        /\ journal' = journal \union mine[t]
    BY DEF BookInv, IndInv, Commit, Written
  <1>1. /\ IsFiniteSet(journal) /\ IsFiniteSet(mine[t]) /\ journal \intersect mine[t] = {}
        /\ journal \in SUBSET Request /\ mine[t] \in SUBSET Request
    BY <1>0 DEF BookInv, Published, TypeOK
  <1>2. Published'
    <2>1. IsFiniteSet(journal')
      BY <1>0, <1>1, FS_Union
    <2>2. ASSUME NEW u \in Txn PROVE IsFiniteSet(mine'[u]) /\ mine'[u] \intersect journal' = {}
      <3>1. CASE u = t
        BY <1>0, <3>1, FS_EmptySet DEF End, TypeOK
      <3>2. CASE u # t
        <4>1. mine[u] \intersect mine[t] = {}
          BY <3>2 DEF BookInv, IndInv, KeyOwnedOnce
        <4>2. mine'[u] = mine[u]
          BY <1>0, <3>2 DEF End, TypeOK
        <4>. QED
          BY <1>0, <4>1, <4>2 DEF BookInv, Published
      <3>. QED
        BY <3>1, <3>2
    <2>. QED
      BY <2>1, <2>2 DEF Published
  <1>3. PendingIsWritten'
    BY <1>0, EndPending DEF BookInv, Ended
  <1>4. \A a \in Account : pend[t][a] = SumLegs(mine[t], a)
    BY <1>0 DEF BookInv, PendingIsWritten
  <1>5. balance' = [a \in Account |-> balance[a] + SumLegs(mine[t], a)]
    BY <1>4 DEF Commit
  <1>6. Reconciled'
    <2> SUFFICES ASSUME NEW a \in Account
                 PROVE  balance'[a] = Opening[a] + SumLegs(journal', a)
      BY DEF Reconciled
    <2>1. SumLegs(journal', a) = SumLegs(journal, a) + SumLegs(mine[t], a)
      BY <1>0, <1>1, SumLegsUnion
    <2>2. SumLegs(journal, a) \in Int /\ SumLegs(mine[t], a) \in Int /\ Opening[a] \in Int
      BY <1>1, SumLegsOver, OpeningAssumption
    <2>. QED
      BY <1>5, <2>1, <2>2 DEF BookInv, Reconciled
  <1>. QED
    BY <1>2, <1>3, <1>5, <1>6

\* Balances and journal move together, whatever the step.
LEMMA NextBook == BookInv /\ [Next]_vars => BookInv'
  <1> SUFFICES ASSUME BookInv, [Next]_vars
               PROVE  Published' /\ PendingIsWritten' /\ Reconciled'
    BY NextInv DEF BookInv
  <1>1. ASSUME NEW t \in Txn, Step(t) PROVE Published' /\ PendingIsWritten' /\ Reconciled'
    <2>1. CASE InsertKey(t)    BY <2>1, InsertKeyBook
    <2>2. CASE Replay(t) \/ \E a \in Account : LockRow(t, a)
      BY <2>2, ReadingBook
    <2>3. CASE Apply(t)        BY <2>3, ApplyBook
    <2>4. CASE Commit(t)       BY <2>4, CommitBook
    <2>5. CASE KeyConflict(t) \/ Insufficient(t) \/ CommitRejected(t)
      BY <2>5, AbortBook DEF KeyConflict, Insufficient, CommitRejected
    <2>. QED
      BY <1>1, <2>1, <2>2, <2>3, <2>4, <2>5 DEF Step
  <1>2. ASSUME NEW t \in Txn, Fail(t) \/ DeadlockVictim(t)
        PROVE  Published' /\ PendingIsWritten' /\ Reconciled'
    BY <1>2, AbortBook DEF Fail, DeadlockVictim
  <1>3. CASE UNCHANGED vars
    <2>1. \A t \in Txn : Written(t)' = Written(t) /\ Current(t)' = Current(t)
      BY <1>3 DEF vars, Written, Current
    <2>. QED
      BY <1>3, <2>1 DEF vars, BookInv, Published, PendingIsWritten, Reconciled
  <1>. QED
    BY <1>1, <1>2, <1>3 DEF Next, Done

\* reconcile() finds nothing: in every state every cached balance is the
\* opening one plus the entries journalled since, whoever commits or fails.
THEOREM BalancesReconciled == Spec => []Reconciled
  <1>1. BookInv => Reconciled
    BY DEF BookInv
  <1>. QED
    BY <1>1, InitBook, NextBook, PTL DEF Spec

-----------------------------------------------------------------------------
(***************************************************************************)
(* Refinement: a commit is a step of the atomic ledger, every other step   *)
(* leaves the journal and the balances as they are.                        *)
(***************************************************************************)

\* The abstract module names the sums of its own copy of the vocabulary.
LEMMA SameSums ==
  /\ \A R, a : Abstract!SumLegs(R, a) = SumLegs(R, a)
  /\ \A r : Abstract!Balanced(r) <=> Balanced(r)
  /\ \A R, k : Abstract!Owners(R, k) = Owners(R, k)
  BY DEF Abstract!SumLegs, SumLegs, Abstract!Balanced, Balanced, Abstract!Owners, Owners,
         Abstract!Delta, Delta, Abstract!SumFunctionOnSet, SumFunctionOnSet,
         Abstract!FoldFunctionOnSet, FoldFunctionOnSet, Abstract!MapThenFoldSet, MapThenFoldSet

\* COMMIT with its zero-sum trigger, as one step of the atomic ledger.
LEMMA CommitImplements ==
    ASSUME BookInv, NEW t \in Txn, Commit(t)
    PROVE  Abstract!Next
  <1>1. TypeOK /\ BookInv'
    BY CommitBook, CommitInv DEF BookInv, IndInv
  <1>2. mine[t] \in SUBSET Request
    BY <1>1 DEF TypeOK
  <1>3. \A r \in mine[t] : Owners(journal, r.key) = {}
    BY DEF BookInv, IndInv, KeyOwnedOnce, Published, Owners, Visible
  <1>4. \A r, s \in mine[t] : r.key = s.key => r = s
    BY DEF BookInv, IndInv, KeyOwnedOnce, Visible
  <1>5. \A a \in UserAccount : balance'[a] >= 0
    BY <1>1 DEF BookInv, IndInv, Covered
  <1>6. balance' = [a \in Account |-> balance[a] + Abstract!SumLegs(mine[t], a)]
    BY CommitBook, SameSums
  <1>7. Abstract!Commit(mine[t])
    BY <1>3, <1>4, <1>5, <1>6, SameSums DEF Commit, Abstract!Commit, Abstract!FreshKeys
  <1>. QED
    BY <1>2, <1>7 DEF Abstract!Next

\* A step of a transaction is a step of the atomic ledger, or none.
LEMMA StepImplements ==
    BookInv /\ [Next]_vars => [Abstract!Next]_(Abstract!vars)
  <1> SUFFICES ASSUME BookInv, [Next]_vars
               PROVE  Abstract!Next \/ UNCHANGED <<journal, balance>>
    BY DEF Abstract!vars
  <1>1. ASSUME NEW t \in Txn, Step(t)
        PROVE  Abstract!Next \/ UNCHANGED <<journal, balance>>
    <2>1. CASE Commit(t)
      BY <2>1, CommitImplements
    <2>2. CASE ~ Commit(t)
      BY <1>1, <2>2 DEF Step, InsertKey, Replay, KeyConflict, LockRow, Apply, Insufficient,
                        CommitRejected, data
    <2>. QED
      BY <2>1, <2>2
  <1>2. ASSUME NEW t \in Txn, Fail(t) \/ DeadlockVictim(t)
        PROVE  UNCHANGED <<journal, balance>>
    BY <1>2 DEF Fail, DeadlockVictim, data
  <1>. QED
    BY <1>1, <1>2 DEF Next, Done, vars

\* post() under its locks and waits, by any callers at once, does what a ledger
\* does that takes one transaction at a time: new keys, balanced entries,
\* exactly their amounts, no user balance below zero.
THEOREM Refinement == Spec => ImplementsLedger
  <1>1. Init => Abstract!Init
    BY DEF Init, Abstract!Init
  <1>. QED
    BY <1>1, InitBook, NextBook, StepImplements, PTL DEF Spec, ImplementsLedger, Abstract!Spec

-----------------------------------------------------------------------------
(***************************************************************************)
(* What a committed transaction may rely on: all its calls stand.          *)
(***************************************************************************)
HonouredInv == BookInv /\ CallsStand

\* CallsStand for one transaction.
CallsStandOf(t) ==
    /\ pc[t] # "aborted" => \A i \in 1 .. (idx[t] - 1) : Stands(Program[t][i], Visible(t))
    /\ pc[t] \in {"commit", "committed"} => idx[t] > Len(Program[t])
    /\ pc[t] = "committed" => mine[t] = {}

\* Rows that have become visible stay so.
LEMMA CallsStandFrame ==
    ASSUME CallsStand, NEW t \in Txn, OthersKept(t), journal \subseteq journal', CallsStandOf(t)'
    PROVE  CallsStand'
  <1>1. ASSUME NEW u \in Txn, u # t PROVE CallsStandOf(u)'
    <2>1. Visible(u) \subseteq Visible(u)'
      BY <1>1 DEF OthersKept, Visible
    <2>. QED
      BY <1>1, <2>1 DEF OthersKept, CallsStand, CallsStandOf, Stands
  <1>. QED
    BY <1>1 DEF CallsStand, CallsStandOf

\* One more call has returned, and it stands.
LEMMA ReturnStands ==
    ASSUME TypeOK, CallsStand, NEW t \in Txn, pc[t] \in {"insert", "lock"}, Return(t),
           UNCHANGED <<journal, mine>>, Stands(Current(t), Visible(t))
    PROVE  CallsStandOf(t)'
  <1>1. idx'[t] = idx[t] + 1 /\ idx[t] \in Nat /\ Len(Program[t]) \in Nat
    BY ProgramAssumption DEF Return, TypeOK
  <1>2. /\ pc'[t] \in {"commit", "insert"}
        /\ pc'[t] = "commit" => idx[t] = Len(Program[t])
    BY DEF Return, TypeOK
  <1>3. \A i \in 1 .. (idx[t] - 1) : Stands(Program[t][i], Visible(t))
    BY DEF CallsStand
  <1>4. \A i \in 1 .. idx[t] : Stands(Program[t][i], Visible(t))
    BY <1>1, <1>3 DEF Current
  <1>5. Visible(t)' = Visible(t)
    BY DEF Visible
  <1>6. \A i \in 1 .. (idx'[t] - 1) : Stands(Program[t][i], Visible(t)')
    BY <1>1, <1>4, <1>5
  <1>. QED
    BY <1>1, <1>2, <1>6 DEF CallsStandOf, Stands

\* What stood stands when a transaction ends without a commit.
LEMMA EndStands ==
    ASSUME HonouredInv, NEW t \in Txn, End(t, "aborted"), UNCHANGED data
    PROVE  CallsStand'
  <1>1. OthersKept(t) /\ pc'[t] = "aborted"
    BY DEF HonouredInv, BookInv, IndInv, TypeOK, End, OthersKept
  <1>. QED
    BY <1>1, CallsStandFrame DEF HonouredInv, CallsStandOf, data

\* What stood stands after a step of post() or of its caller.
LEMMA StepStands ==
    ASSUME HonouredInv, NEW t \in Txn, Step(t)
    PROVE  CallsStand'
  <1>0. TypeOK /\ CallsStand /\ CallsStandOf(t)
    BY DEF HonouredInv, BookInv, IndInv, CallsStand, CallsStandOf
  <1>1. CASE InsertKey(t)
    <2>1. /\ OthersKept(t) /\ pc'[t] = "lock" /\ idx' = idx /\ journal' = journal
          /\ mine[t] \subseteq mine'[t] /\ pc[t] = "insert"
      BY <1>0, <1>1 DEF InsertKey, OthersKept, TypeOK
    <2>2. Visible(t) \subseteq Visible(t)'
      BY <2>1 DEF Visible
    <2>3. CallsStandOf(t)'
      BY <1>0, <2>1, <2>2 DEF CallsStandOf, Stands
    <2>. QED
      BY <1>0, <2>1, <2>3, CallsStandFrame
  <1>2. CASE Replay(t)
    <2>1. Stands(Current(t), Visible(t))
      BY <1>2 DEF Replay, Owners, Stands
    <2>2. CallsStandOf(t)'
      BY <1>0, <1>2, <2>1, ReturnStands DEF Replay
    <2>. QED
      BY <1>0, <1>2, <2>2, CallsStandFrame DEF Replay, Return, OthersKept, TypeOK
  <1>3. CASE \E a \in Account : LockRow(t, a)
    BY <1>0, <1>3 DEF LockRow, CallsStand, Stands, Visible
  <1>4. CASE Apply(t)
    <2>1. Current(t) \in mine[t] /\ pc[t] = "lock"
      BY <1>4 DEF HonouredInv, BookInv, PendingIsWritten, Apply, AllLocked
    <2>2. Stands(Current(t), Visible(t))
      BY <2>1 DEF Stands, SameOperation, Visible
    <2>3. CallsStandOf(t)'
      BY <1>0, <1>4, <2>1, <2>2, ReturnStands DEF Apply
    <2>. QED
      BY <1>0, <1>4, <2>3, CallsStandFrame DEF Apply, Return, OthersKept, TypeOK
  <1>5. CASE Commit(t)
    <2>1. /\ OthersKept(t) /\ journal' = journal \union mine[t] /\ mine'[t] = {}
          /\ pc[t] = "commit" /\ pc'[t] = "committed" /\ idx' = idx
      BY <1>0, <1>5 DEF Commit, End, OthersKept, TypeOK
    <2>2. Visible(t)' = Visible(t)
      BY <2>1 DEF Visible
    <2>3. CallsStandOf(t)'
      BY <1>0, <2>1, <2>2 DEF CallsStandOf, Stands
    <2>. QED
      BY <1>0, <2>1, <2>3, CallsStandFrame
  <1>6. CASE KeyConflict(t) \/ Insufficient(t) \/ CommitRejected(t)
    BY <1>6, EndStands DEF KeyConflict, Insufficient, CommitRejected
  <1>. QED
    BY <1>1, <1>2, <1>3, <1>4, <1>5, <1>6 DEF Step

\* Nobody has committed yet.
LEMMA InitHonoured == Init => HonouredInv
  <1> SUFFICES ASSUME Init PROVE CallsStand
    BY InitBook DEF HonouredInv
  <1>. QED
    BY DEF Init, CallsStand

\* Posts of committed callers stand, whatever the step.
LEMMA NextHonoured == HonouredInv /\ [Next]_vars => HonouredInv'
  <1> SUFFICES ASSUME HonouredInv, [Next]_vars PROVE CallsStand'
    BY NextBook DEF HonouredInv
  <1>1. ASSUME NEW t \in Txn, Fail(t) \/ DeadlockVictim(t) PROVE CallsStand'
    BY <1>1, EndStands DEF Fail, DeadlockVictim
  <1>2. CASE UNCHANGED vars
    BY <1>2 DEF vars, HonouredInv, CallsStand, Stands, Visible
  <1>. QED
    BY <1>1, <1>2, StepStands DEF Next, Done

\* A caller whose transaction commits finds every post() it made journalled as
\* the operation it asked for, its own or an earlier equal one, and the
\* balances agree with the journal.
THEOREM CommittedPostsStand == Spec => []PostsHonoured
  <1>1. ASSUME HonouredInv PROVE PostsHonoured
    <2>1. ASSUME NEW t \in Txn, pc[t] = "committed", NEW i \in 1 .. Len(Program[t])
          PROVE  Stands(Program[t][i], journal)
      <3>1. idx[t] > Len(Program[t]) /\ Visible(t) = journal
        BY <1>1, <2>1 DEF HonouredInv, CallsStand, Visible
      <3>2. i \in 1 .. (idx[t] - 1)
        BY <1>1, <3>1, ProgramAssumption DEF HonouredInv, BookInv, IndInv, TypeOK
      <3>. QED
        BY <1>1, <2>1, <3>1, <3>2 DEF HonouredInv, CallsStand
    <2>. QED
      BY <1>1, <2>1 DEF HonouredInv, BookInv, PostsHonoured
  <1>. QED
    BY <1>1, InitHonoured, NextHonoured, PTL DEF Spec

-----------------------------------------------------------------------------
(***************************************************************************)
(* Deadlocks.  In its first call a transaction holds only rows that come   *)
(* before the one it waits for, and in a cycle of first calls the rows     *)
(* waited for would ascend for ever.                                       *)
(***************************************************************************)
OrderInv == IndInv /\ FirstCall

\* Nobody holds a row yet.
LEMMA InitOrder == Init => OrderInv
  BY InitInv DEF OrderInv, Init, FirstCall

\* A caller of one post takes rows in order, whatever the step.
LEMMA NextOrder == OrderInv /\ [Next]_vars => OrderInv'
  <1> SUFFICES ASSUME OrderInv, [Next]_vars PROVE FirstCall'
    BY NextInv DEF OrderInv
  <1>0. TypeOK /\ FirstCall
    BY DEF OrderInv, IndInv
  <1>1. ASSUME NEW t \in Txn, NEW how \in Ended, End(t, how) PROVE FirstCall'
    BY <1>0, <1>1 DEF End, TypeOK, FirstCall, Ended, Current
  <1>2. ASSUME NEW t \in Txn, InsertKey(t) PROVE FirstCall'
    BY <1>0, <1>2 DEF InsertKey, TypeOK, FirstCall, Current
  <1>3. ASSUME NEW t \in Txn, Return(t), UNCHANGED <<mine, held, locked>> PROVE FirstCall'
    BY <1>0, <1>3 DEF Return, TypeOK, FirstCall, Current
  <1>4. ASSUME NEW t \in Txn, NEW a \in Account, LockRow(t, a) PROVE FirstCall'
    <2>1. Current(t)' = Current(t) /\ DOMAIN Current(t).legs \subseteq Account
      BY <1>0, <1>4, CurrentRequest DEF LockRow, Current
    <2>2. \A b \in DOMAIN Current(t).legs \ locked'[t] : a < b /\ b \in DOMAIN Current(t).legs \ locked[t]
      <3>1. locked'[t] = locked[t] \union {a}
        BY <1>0, <1>4 DEF LockRow, TypeOK
      <3>2. \A b \in DOMAIN Current(t).legs \ locked[t] : a <= b
        BY <1>4 DEF LockRow, NextRow
      <3> SUFFICES ASSUME NEW b \in DOMAIN Current(t).legs \ locked'[t]
                   PROVE  a < b /\ b \in DOMAIN Current(t).legs \ locked[t]
        OBVIOUS
      <3>3. b \in DOMAIN Current(t).legs \ locked[t] /\ a # b /\ b \in Account
        BY <2>1, <3>1
      <3>4. a <= b /\ a \in Nat /\ b \in Nat
        BY <3>2, <3>3, AccountAssumption
      <3>. QED
        BY <3>3, <3>4
    <2>3. ASSUME idx'[t] = 1, pc'[t] = "lock"
          PROVE  /\ held'[t] = locked'[t]
                 /\ \A c \in locked'[t], b \in DOMAIN Current(t).legs \ locked'[t] : c < b
      BY <1>0, <1>4, <2>2, <2>3 DEF LockRow, TypeOK, FirstCall
    <2>4. \A u \in Txn : u # t => /\ pc'[u] = pc[u] /\ idx'[u] = idx[u] /\ held'[u] = held[u]
                                  /\ locked'[u] = locked[u] /\ mine'[u] = mine[u]
                                  /\ Current(u)' = Current(u)
      BY <1>0, <1>4 DEF LockRow, TypeOK, Current
    <2>5. pc'[t] = "lock"
      BY <1>0, <1>4 DEF LockRow
    <2> SUFFICES ASSUME NEW u \in Txn, idx'[u] = 1
                 PROVE  /\ pc'[u] = "insert" => mine'[u] = {} /\ held'[u] = {}
                        /\ pc'[u] = "lock" =>
                             /\ held'[u] = locked'[u]
                             /\ \A c \in locked'[u], b \in DOMAIN Current(u)'.legs \ locked'[u] : c < b
      BY DEF FirstCall
    <2>6. CASE u = t
      BY <2>1, <2>3, <2>5, <2>6
    <2>7. CASE u # t
      BY <1>0, <2>4, <2>7 DEF FirstCall
    <2>. QED
      BY <2>6, <2>7
  <1>5. CASE UNCHANGED vars
    BY <1>0, <1>5 DEF vars, FirstCall, Current
  <1>6. ASSUME NEW t \in Txn, Step(t) PROVE FirstCall'
    BY <1>1, <1>2, <1>3, <1>4, <1>6
       DEF Step, Replay, KeyConflict, Apply, Insufficient, Commit, CommitRejected, Ended
  <1>. QED
    BY <1>1, <1>5, <1>6 DEF Next, Done, Fail, DeadlockVictim, Ended

\* Among finitely many there is one with the largest value.
LEMMA Largest ==
    ASSUME NEW S, IsFiniteSet(S), S # {}, NEW f, \A x \in S : f[x] \in Int
    PROVE  \E m \in S : \A x \in S : f[x] <= f[m]
  <1> DEFINE G == {T \in SUBSET S : T # {} => \E m \in T : \A x \in T : f[x] <= f[m]}
  <1>1. ASSUME NEW T \in SUBSET S, \A x \in T : T \ {x} \in G PROVE T \in G
    <2>1. ASSUME NEW x \in T PROVE \E m \in T : \A y \in T : f[y] <= f[m]
      <3>1. CASE T \ {x} = {}
        BY <3>1
      <3>2. CASE T \ {x} # {}
        <4>1. PICK m \in T \ {x} : \A y \in T \ {x} : f[y] <= f[m]
          BY <1>1, <3>2
        <4>2. CASE f[x] <= f[m]
          BY <4>1, <4>2
        <4>3. CASE f[m] <= f[x]
          BY <4>1, <4>3
        <4>. QED
          BY <4>2, <4>3
      <3>. QED
        BY <3>1, <3>2
    <2>. QED
      BY <2>1
  <1>2. \A T \in SUBSET S : T \in G
    <2> HIDE DEF G
    <2>. QED
      BY <1>1, SetInduction
  <1>. QED
    BY <1>2

\* A cycle needs a transaction that is past its first call.
LEMMA CycleNeedsLaterCall ==
    ASSUME OrderInv, NEW T \in Deadlocks
    PROVE  \E t \in T : Len(Program[t]) > 1
  <1>0. TypeOK /\ FirstCall
    BY DEF OrderInv, IndInv
  <1>1. /\ T \in SUBSET Txn /\ T # {}
        /\ \A t \in T : \E u \in T : WaitsFor(t, u)
    BY DEF Deadlocks
  <1> SUFFICES ASSUME \A t \in T : ~ (Len(Program[t]) > 1) PROVE FALSE
    OBVIOUS
  <1>2. \A t \in T : idx[t] = 1 /\ pc[t] \in {"insert", "lock"}
    <2> SUFFICES ASSUME NEW t \in T PROVE idx[t] = 1 /\ pc[t] \in {"insert", "lock"}
      OBVIOUS
    <2>1. t \in Txn /\ pc[t] \in {"insert", "lock"}
      BY <1>1 DEF WaitsFor
    <2>2. Len(Program[t]) \in Nat /\ Len(Program[t]) <= 1
      BY <2>1, ProgramAssumption
    <2>3. idx[t] \in Nat \ {0} /\ idx[t] <= Len(Program[t])
      BY <1>0, <2>1 DEF TypeOK
    <2>. QED
      BY <2>1, <2>2, <2>3
  <1> DEFINE L == {t \in T : pc[t] = "lock"}
  <1>3. ASSUME NEW t \in T PROVE \E u \in L : WaitsFor(t, u)
    <2>1. PICK u \in T : WaitsFor(t, u)
      BY <1>1
    <2>2. mine[u] # {} \/ held[u] # {}
      BY <2>1 DEF WaitsFor, KeyBlocker, RowBlocker, Owners
    <2>3. u \in Txn /\ pc[u] # "insert"
      BY <1>0, <1>1, <1>2, <2>2 DEF FirstCall
    <2>. QED
      BY <1>2, <2>1, <2>3
  <1>4. L # {} /\ IsFiniteSet(L)
    <2>1. L \in SUBSET Txn
      BY <1>1
    <2>. QED
      BY <1>1, <1>3, <2>1, FS_Subset, TxnAssumption
  <1> DEFINE next == [t \in L |-> CHOOSE a \in Account : NextRow(t, a)]
  <1>5. \A t \in L : next[t] \in Account /\ NextRow(t, next[t]) /\ next[t] \in Int
    <2>1. ASSUME NEW t \in L PROVE \E a \in Account : NextRow(t, a)
      BY <1>1 DEF WaitsFor
    <2>2. \A t \in L : next[t] \in Account /\ NextRow(t, next[t])
      BY <2>1
    <2> HIDE DEF next
    <2>3. \A a \in Account : a \in Int
      BY AccountAssumption
    <2>. QED
      BY <2>2, <2>3
  <1>6. ASSUME NEW t \in L PROVE \E u \in L : next[t] < next[u]
    <2>1. PICK u \in L : WaitsFor(t, u)
      BY <1>3
    <2>2. PICK a \in Account : NextRow(t, a) /\ a \in held[u]
      BY <2>1 DEF WaitsFor, RowBlocker
    <2>3. DOMAIN Current(t).legs \subseteq Account
      BY <1>0, <1>1, CurrentRequest
    <2>4. a = next[t]
      BY <1>5, <2>2, <2>3, AccountAssumption DEF NextRow
    <2>5. a < next[u]
      BY <1>0, <1>1, <1>2, <1>5, <2>2 DEF FirstCall, NextRow
    <2>. QED
      BY <2>4, <2>5
  <1>7. PICK t \in L : \A u \in L : next[u] <= next[t]
    <2> HIDE DEF L, next
    <2>. QED
      BY <1>4, <1>5, Largest
  <1>8. PICK u \in L : next[t] < next[u]
    BY <1>6
  <1>9. next[t] \in Int /\ next[u] \in Int /\ next[u] <= next[t]
    BY <1>5, <1>7
  <1> HIDE DEF L, next
  <1>. QED
    BY <1>8, <1>9

\* The lock loop's fixed order of rows: callers that post once per transaction
\* never deadlock among themselves, however many there are.
THEOREM SinglePostsNeverDeadlock == Spec => []DeadlockNeedsSeveralPosts
  <1>1. OrderInv => DeadlockNeedsSeveralPosts
    BY CycleNeedsLaterCall DEF DeadlockNeedsSeveralPosts
  <1>. QED
    BY <1>1, InitOrder, NextOrder, PTL DEF Spec

-----------------------------------------------------------------------------
(* Withdrawals and payouts.                                                *)

USE PayoutAssumption

Jobs == [at : {"call", "settle", "reverse", "ack"}, entry : Entry]

\* A job in hand is one of an entry, and stays so when it goes on.
LEMMA JobFacts ==
    ASSUME PayoutTypeOK, NEW w \in Worker, job[w].at # "idle"
    PROVE  job[w] \in Jobs /\ job[w].entry \in Entry /\ Ref(w) \in Payment
BY DEF PayoutTypeOK, Jobs, Entry, Ref, Idle

\* A worker that goes on with its entry keeps the types.
LEMMA GoOnType ==
    ASSUME PayoutTypeOK, NEW w \in Worker, job[w].at # "idle",
           NEW at \in {"call", "settle", "reverse", "ack"}, GoOn(w, at)
    PROVE  job' \in [Worker -> {Idle} \union Jobs]
BY JobFacts DEF PayoutTypeOK, GoOn, Jobs

\* The initial state has its type.
LEMMA InitType == PayoutInit => PayoutTypeOK
BY DEF PayoutInit, PayoutTypeOK, Idle

\* Every step keeps the types.
LEMMA TypeStep == PayoutTypeOK /\ [PayoutNext]_payoutVars => PayoutTypeOK'
<1> SUFFICES ASSUME PayoutTypeOK, [PayoutNext]_payoutVars PROVE PayoutTypeOK'
  OBVIOUS
<1> USE DEF SetStatus, Post, Open, Terminal, admins, stream, workers
<1>1. ASSUME NEW p \in Payment, RequestWithdrawal(p) \/ Approve(p) \/ Reject(p) \/ ResolveManual(p)
      PROVE  PayoutTypeOK'
  BY <1>1 DEF PayoutTypeOK, RequestWithdrawal, Approve, Reject, ResolveManual, Key, Returning, Paying
<1>2. ASSUME NEW p \in Payment, NEW a \in Admin, ApproveManual(p, a) PROVE PayoutTypeOK'
  BY <1>2 DEF PayoutTypeOK, ApproveManual
<1>3. ASSUME NEW p \in Payment, Enqueue(p) \/ EnqueueLost(p) \/ Sweep(p) PROVE PayoutTypeOK'
  <2>1. CASE Enqueue(p) \/ Sweep(p)
    <3>1. entries' \in [Entry -> {"none", "new", "pending"}]
      BY <2>1 DEF PayoutTypeOK, Enqueue, Sweep, Add
    <3> QED BY <2>1, <3>1 DEF PayoutTypeOK, Enqueue, Sweep
  <2>2. CASE EnqueueLost(p)
    <3>1. faults' \in 0 .. MaxFaults
      BY <2>2 DEF PayoutTypeOK, EnqueueLost, Fault
    <3> QED BY <2>2, <3>1 DEF PayoutTypeOK, EnqueueLost
  <2> QED BY <1>3, <2>1, <2>2
<1>4. ASSUME NEW w \in Worker, Read(w) PROVE PayoutTypeOK'
  BY <1>4 DEF PayoutTypeOK, Read, In
<1>5. ASSUME NEW w \in Worker, Begin(w) PROVE PayoutTypeOK'
  <2>1. PICK x \in batch[w] :
          /\ batch' = [batch EXCEPT ![w] = @ \ {x}]
          /\ \/ /\ job' = [job EXCEPT ![w] = [at |-> "call", entry |-> x]]
                /\ SetStatus(x[1], "processing")
             \/ /\ job' = [job EXCEPT ![w] = [at |-> "ack", entry |-> x]]
                /\ UNCHANGED status
    BY <1>5 DEF Begin
  <2>2. x \in Entry /\ x[1] \in Payment
    BY DEF PayoutTypeOK, Entry
  <2> QED BY <1>5, <2>1, <2>2 DEF PayoutTypeOK, Begin
<1>6. ASSUME NEW w \in Worker, Call(w) \/ CallRaises(w) PROVE PayoutTypeOK'
  <2>1. job[w].at # "idle"
    BY <1>6 DEF Call, CallRaises, Idle
  <2>2. /\ UNCHANGED <<status, first, second, posted, unsent, entries, batch, faults>>
        /\ \E at \in {"settle", "ack", "reverse"} : GoOn(w, at)
    <3>1. CASE Call(w)
      <4>1. provider'[Ref(w)] \in {"succeeded", "processing", "failed"}
        BY <3>1, <2>1, JobFacts DEF Call, Dispatch, PayoutTypeOK
      <4> QED BY <4>1, <3>1 DEF Call
    <3>2. CASE CallRaises(w)
      BY <3>2 DEF CallRaises
    <3> QED BY <3>1, <3>2, <1>6
  <2>3. provider' \in [Payment -> {"none", "succeeded", "processing", "failed"}]
    BY <1>6 DEF Call, CallRaises, Dispatch, PayoutTypeOK
  <2>4. job' \in [Worker -> {Idle} \union Jobs]
    BY <2>1, <2>2, GoOnType
  <2> QED BY <2>2, <2>3, <2>4 DEF PayoutTypeOK, Jobs
<1>7. ASSUME NEW w \in Worker, SettleSuccess(w) \/ Reverse(w) PROVE PayoutTypeOK'
  <2>1. job[w].at # "idle"
    BY <1>7 DEF SettleSuccess, Reverse, Idle
  <2>2. \E op \in {"settle", "reverse"}, s \in {"succeeded", "failed"} : Close(w, op, s)
    BY <1>7 DEF SettleSuccess, Reverse
  <2>3. job' \in [Worker -> {Idle} \union Jobs]
    <3>1. GoOn(w, "ack") \/ job' = [job EXCEPT ![w] = Idle]
      BY <2>2 DEF Close
    <3>2. CASE GoOn(w, "ack")
      BY <2>1, <3>2, GoOnType
    <3>3. CASE job' = [job EXCEPT ![w] = Idle]
      BY <3>3 DEF PayoutTypeOK, Jobs
    <3> QED BY <3>1, <3>2, <3>3
  <2>4. posted' \subseteq Key /\ status' \in [Payment -> {"none"} \union Open \union Terminal]
    BY <2>1, <2>2, JobFacts DEF PayoutTypeOK, Close, Key, Returning, Paying
  <2> QED BY <2>2, <2>3, <2>4 DEF PayoutTypeOK, Close, Jobs
<1>8. ASSUME NEW w \in Worker, Ack(w) PROVE PayoutTypeOK'
  <2>1. job[w].at # "idle"
    BY <1>8 DEF Ack, Idle
  <2> QED BY <2>1, <1>8, JobFacts DEF PayoutTypeOK, Ack
<1>9. ASSUME NEW w \in Worker, JobFails(w) \/ Crash(w) PROVE PayoutTypeOK'
  BY <1>9 DEF PayoutTypeOK, JobFails, Crash, Fault
<1>10. CASE UNCHANGED payoutVars
  BY <1>10 DEF PayoutTypeOK, payoutVars
<1> QED
  BY <1>1, <1>2, <1>3, <1>4, <1>5, <1>6, <1>7, <1>8, <1>9, <1>10 DEF PayoutNext, WorkerStep

\* The shape of the state.
THEOREM TypeCorrect == PayoutSpec => []PayoutTypeOK
BY InitType, TypeStep, PTL DEF PayoutSpec

-----------------------------------------------------------------------------
(***************************************************************************)
(* The two-person rule.                                                    *)
(***************************************************************************)
GateInv == PayoutTypeOK /\ ManualUntouched /\ GateKept

\* No approval is on record.
LEMMA GateInit == PayoutInit => GateInv
<1> SUFFICES ASSUME PayoutInit PROVE ManualUntouched /\ GateKept
  BY InitType DEF GateInv
<1>1. \A w \in Worker : job[w].at = "idle"
  BY DEF PayoutInit, Idle
<1>2. \A p \in Payment : status[p] = "none"
  BY DEF PayoutInit
<1> QED BY <1>1, <1>2 DEF ManualUntouched, GateKept, InHand

\* No worker has a manual payment in hand, and none is therefore processing.
LEMMA ManualStep == PayoutTypeOK /\ ManualUntouched /\ [PayoutNext]_payoutVars => ManualUntouched'
<1> SUFFICES ASSUME PayoutTypeOK, ManualUntouched, [PayoutNext]_payoutVars, NEW v \in Worker, InHand(v)'
             PROVE  Ref(v)' \notin Manual
  BY DEF ManualUntouched
<1> USE DEF InHand, Ref, ManualUntouched
<1>1. CASE job' = job
  BY <1>1
<1>2. ASSUME NEW w \in Worker, NEW at \in {"call", "settle", "reverse", "ack"},
             GoOn(w, at), InHand(w)
      PROVE  Ref(v)' \notin Manual
  BY <1>2 DEF PayoutTypeOK, GoOn
<1>3. ASSUME NEW w \in Worker, job' = [job EXCEPT ![w] = Idle]
      PROVE  Ref(v)' \notin Manual
  BY <1>3 DEF PayoutTypeOK, Idle
<1>4. ASSUME NEW w \in Worker, Begin(w)
      PROVE  Ref(v)' \notin Manual
  BY <1>4 DEF PayoutTypeOK, Begin
<1>5. ASSUME NEW w \in Worker, Call(w) \/ CallRaises(w)
      PROVE  Ref(v)' \notin Manual
  <2>1. \E at \in {"settle", "ack", "reverse"} : GoOn(w, at)
    BY <1>5 DEF Call, CallRaises
  <2> QED BY <1>2, <1>5, <2>1 DEF Call, CallRaises
<1>6. ASSUME NEW w \in Worker, SettleSuccess(w) \/ Reverse(w)
      PROVE  Ref(v)' \notin Manual
  <2>1. GoOn(w, "ack") \/ job' = [job EXCEPT ![w] = Idle]
    BY <1>6 DEF SettleSuccess, Reverse, Close
  <2> QED BY <1>2, <1>3, <1>6, <2>1 DEF SettleSuccess, Reverse
<1>7. ASSUME NEW w \in Worker, Ack(w) \/ JobFails(w) \/ Crash(w)
      PROVE  Ref(v)' \notin Manual
  BY <1>3, <1>7 DEF Ack, JobFails, Crash
<1>8. ASSUME NEW p \in Payment, NEW a \in Admin,
             \/ RequestWithdrawal(p) \/ Approve(p) \/ Reject(p) \/ ResolveManual(p)
             \/ Enqueue(p) \/ EnqueueLost(p) \/ Sweep(p) \/ ApproveManual(p, a)
      PROVE  job' = job
  BY <1>8 DEF RequestWithdrawal, Approve, Reject, ResolveManual, Enqueue, EnqueueLost, Sweep,
              ApproveManual, workers
<1> QED
  BY <1>1, <1>4, <1>5, <1>6, <1>7, <1>8 DEF PayoutNext, WorkerStep, Read, payoutVars,
     RequestWithdrawal, Approve, Reject, ResolveManual, Enqueue, EnqueueLost, Sweep, workers

\* A step on the admins' side keeps the gate.
LEMMA GateKeptByAdmins ==
    ASSUME GateInv, NEW p \in Payment,
           \/ RequestWithdrawal(p) \/ Approve(p) \/ Reject(p) \/ ResolveManual(p)
           \/ Enqueue(p) \/ EnqueueLost(p) \/ Sweep(p)
           \/ \E a \in Admin : ApproveManual(p, a)
    PROVE  GateKept'
<1> USE DEF GateInv, PayoutTypeOK, GateKept, Released, SetStatus, admins
<1>1. CASE RequestWithdrawal(p) \/ Approve(p) \/ Reject(p)
  BY <1>1 DEF RequestWithdrawal, Approve, Reject
<1>2. CASE ResolveManual(p)
  BY <1>2 DEF ResolveManual
<1>3. ASSUME NEW a \in Admin, ApproveManual(p, a) PROVE GateKept'
  BY <1>3 DEF ApproveManual, GateOpen
<1>4. CASE Enqueue(p) \/ EnqueueLost(p) \/ Sweep(p)
  BY <1>4 DEF Enqueue, EnqueueLost, Sweep
<1> QED BY <1>1, <1>2, <1>3, <1>4

\* A worker's step gives no manual payment another status.
LEMMA WorkersLeaveManual ==
    ASSUME GateInv, NEW w \in Worker, WorkerStep(w) \/ JobFails(w) \/ Crash(w)
    PROVE  UNCHANGED admins /\ \A p \in Manual : status'[p] = status[p]
<1> USE DEF GateInv, PayoutTypeOK, SetStatus, ManualUntouched, InHand
<1>1. CASE Begin(w)
  BY <1>1 DEF Begin, Entry
<1>2. CASE SettleSuccess(w) \/ Reverse(w)
  <2>1. Ref(w) \notin Manual
    BY <1>2 DEF SettleSuccess, Reverse
  <2> QED BY <1>2, <2>1 DEF SettleSuccess, Reverse, Close
<1>3. CASE Call(w) \/ CallRaises(w)
  BY <1>3 DEF Call, CallRaises, admins
<1>4. CASE Read(w) \/ Ack(w) \/ JobFails(w) \/ Crash(w)
  BY <1>4 DEF Read, Ack, JobFails, Crash, admins
<1> QED BY <1>1, <1>2, <1>3, <1>4 DEF WorkerStep

\* The two-person gate keeps what it records, whatever the step.
LEMMA GateStep == GateInv /\ [PayoutNext]_payoutVars => GateInv'
<1> SUFFICES ASSUME GateInv, [PayoutNext]_payoutVars PROVE GateKept'
  BY TypeStep, ManualStep DEF GateInv
<1>1. ASSUME NEW w \in Worker, WorkerStep(w) \/ JobFails(w) \/ Crash(w) PROVE GateKept'
  BY <1>1, WorkersLeaveManual DEF GateInv, GateKept, Released, admins
<1>2. ASSUME NEW p \in Payment,
             \/ RequestWithdrawal(p) \/ Approve(p) \/ Reject(p) \/ ResolveManual(p)
             \/ Enqueue(p) \/ EnqueueLost(p) \/ Sweep(p)
             \/ \E a \in Admin : ApproveManual(p, a)
      PROVE  GateKept'
  BY <1>2, GateKeptByAdmins
<1>3. CASE UNCHANGED payoutVars
  BY <1>3 DEF GateInv, GateKept, Released, payoutVars
<1> QED BY <1>1, <1>2, <1>3 DEF PayoutNext

\* approve_manual_withdrawal_admin() and the workers together: whoever acts, and
\* however many replicas run, a large manual withdrawal that left review has
\* the approvals of two admins.
THEOREM TwoPersonRuleHolds == PayoutSpec => []TwoPersonRule
<1>1. GateInv => TwoPersonRule
  BY DEF GateInv, GateKept, Released, TwoPersonRule
<1> QED BY <1>1, GateInit, GateStep, PTL DEF PayoutSpec

-----------------------------------------------------------------------------
(***************************************************************************)
(* One worker: each withdrawal ends once, and the money follows.           *)
(***************************************************************************)
OneWorker == \A v, w \in Worker : v = w
OnceInv == PayoutTypeOK /\ InHandIsProcessing /\ KeysFollowStatus

\* Nothing is requested, and no key is posted.
LEMMA OnceInit == PayoutInit => OnceInv
<1> SUFFICES ASSUME PayoutInit PROVE InHandIsProcessing /\ KeysFollowStatus
  BY InitType DEF OnceInv
<1>1. \A w \in Worker : job[w].at = "idle"
  BY DEF PayoutInit, Idle
<1>2. \A p \in Payment : status[p] = "none" /\ EndKeys(p) = {}
  BY DEF PayoutInit, EndKeys
<1> QED BY <1>1, <1>2 DEF PayoutInit, InHandIsProcessing, KeysFollowStatus, InHand, Terminal

\* The closing transaction of an open withdrawal ends it, by one key.
LEMMA EndingKeepsKeys ==
    ASSUME PayoutTypeOK, KeysFollowStatus, NEW p \in Payment, status[p] \in Open,
           NEW kind \in Returning \union Paying, Post(kind, p),
           NEW s \in Terminal, SetStatus(p, s)
    PROVE  KeysFollowStatus'
<1> USE DEF Post, SetStatus, Open, Terminal, Returning, Paying, PayoutTypeOK
<1>1. status[p] \notin Terminal /\ status[p] # "none"
  OBVIOUS
<1>2. EndKeys(p)' = {<<kind, p>>}
  <2>1. EndKeys(p) = {}
    BY <1>1 DEF KeysFollowStatus
  <2>2. kind # "withdrawal"
    OBVIOUS
  <2> QED BY <2>1, <2>2 DEF EndKeys
<1>3. ASSUME NEW q \in Payment, q # p PROVE EndKeys(q)' = EndKeys(q) /\ status'[q] = status[q]
  BY <1>3 DEF EndKeys
<1>4. \A q \in Payment : <<"withdrawal", q>> \in posted' <=> <<"withdrawal", q>> \in posted
  OBVIOUS
<1>5. status'[p] = s /\ s # "none"
  OBVIOUS
<1> HIDE DEF Post, SetStatus, PayoutTypeOK
<1> SUFFICES ASSUME NEW q \in Payment
             PROVE  /\ <<"withdrawal", q>> \in posted' <=> status'[q] # "none"
                    /\ EndKeys(q)' # {} <=> status'[q] \in Terminal
                    /\ \A k, l \in EndKeys(q)' : k = l
  BY DEF KeysFollowStatus
<1>6. CASE q = p
  BY <1>1, <1>2, <1>4, <1>5, <1>6 DEF KeysFollowStatus
<1>7. CASE q # p
  BY <1>3, <1>4, <1>7 DEF KeysFollowStatus
<1> QED BY <1>6, <1>7

\* What a step must leave as it is when it ends nothing.
LEMMA SameKeys ==
    ASSUME KeysFollowStatus,
           \A q \in Payment : /\ EndKeys(q)' = EndKeys(q)
                              /\ status'[q] \in Terminal <=> status[q] \in Terminal
                              /\ \/ /\ status'[q] = "none" <=> status[q] = "none"
                                    /\ <<"withdrawal", q>> \in posted' <=> <<"withdrawal", q>> \in posted
                                 \/ status'[q] # "none" /\ <<"withdrawal", q>> \in posted'
    PROVE  KeysFollowStatus'
<1> SUFFICES ASSUME NEW q \in Payment
             PROVE  /\ <<"withdrawal", q>> \in posted' <=> status'[q] # "none"
                    /\ EndKeys(q)' # {} <=> status'[q] \in Terminal
                    /\ \A k, l \in EndKeys(q)' : k = l
  BY DEF KeysFollowStatus
<1> QED BY DEF KeysFollowStatus

\* While it stays open, its keys stay as they are.
LEMMA OpenKeepsKeys ==
    ASSUME PayoutTypeOK, KeysFollowStatus, NEW p \in Payment, status[p] \in Open, UNCHANGED posted,
           NEW s \in Open, SetStatus(p, s)
    PROVE  KeysFollowStatus'
<1>1. \A q \in Payment : /\ EndKeys(q)' = EndKeys(q)
                         /\ <<"withdrawal", q>> \in posted' <=> <<"withdrawal", q>> \in posted
  BY DEF EndKeys
<1>2. \A q \in Payment : /\ status'[q] \in Terminal <=> status[q] \in Terminal
                         /\ status'[q] = "none" <=> status[q] = "none"
  BY DEF SetStatus, Open, Terminal, PayoutTypeOK
<1> QED BY <1>1, <1>2, SameKeys

\* A step that posts nothing leaves keys and statuses as they agree.
LEMMA IdleKeepsKeys ==
    ASSUME KeysFollowStatus, UNCHANGED <<posted, status>>
    PROVE  KeysFollowStatus'
BY DEF KeysFollowStatus, EndKeys

\* A request takes the money of a withdrawal that did not exist.
LEMMA RequestKeepsKeys ==
    ASSUME PayoutTypeOK, KeysFollowStatus, NEW p \in Payment, RequestWithdrawal(p)
    PROVE  KeysFollowStatus'
<1>1. \A q \in Payment : EndKeys(q)' = EndKeys(q)
  BY DEF RequestWithdrawal, Post, EndKeys
<1>2. posted' = posted \union {<<"withdrawal", p>>} /\ status[p] = "none"
      /\ \E s \in {"approved", "review"} : status' = [status EXCEPT ![p] = s]
  BY DEF RequestWithdrawal, Post, SetStatus
<1>3. \A q \in Payment : /\ status'[q] \in Terminal <=> status[q] \in Terminal
                         /\ q # p => status'[q] = status[q]
                         /\ q = p => status'[q] # "none"
                         /\ <<"withdrawal", q>> \in posted' <=> q = p \/ <<"withdrawal", q>> \in posted
  BY <1>2 DEF Terminal, PayoutTypeOK
<1> QED BY <1>1, <1>3, SameKeys

\* The status decides which steps may take it away from the worker: none.
LEMMA KeysStep ==
    ASSUME OnceInv, [PayoutNext]_payoutVars
    PROVE  KeysFollowStatus'
<1> USE DEF OnceInv
<1>1. ASSUME NEW p \in Payment, RequestWithdrawal(p) PROVE KeysFollowStatus'
  BY <1>1, RequestKeepsKeys
<1>2. ASSUME NEW p \in Payment, Approve(p) \/ \E a \in Admin : ApproveManual(p, a)
      PROVE  KeysFollowStatus'
  BY <1>2, OpenKeepsKeys, IdleKeepsKeys DEF Approve, ApproveManual, Open, admins
<1>3. ASSUME NEW p \in Payment, Reject(p) \/ ResolveManual(p) PROVE KeysFollowStatus'
  BY <1>3, EndingKeepsKeys DEF Reject, ResolveManual, Open, Terminal, Returning, Paying
<1>4. ASSUME NEW w \in Worker, Begin(w) PROVE KeysFollowStatus'
  <2>1. PICK x \in batch[w] :
          \/ status[x[1]] \in {"approved", "processing"} /\ SetStatus(x[1], "processing")
          \/ UNCHANGED status
    BY <1>4 DEF Begin
  <2>2. x[1] \in Payment /\ UNCHANGED posted
    BY <1>4 DEF PayoutTypeOK, Entry, Begin
  <2> QED BY <2>1, <2>2, OpenKeepsKeys, IdleKeepsKeys DEF Open
<1>5. ASSUME NEW w \in Worker, SettleSuccess(w) \/ Reverse(w) PROVE KeysFollowStatus'
  <2>1. job[w].at # "idle" /\ status[Ref(w)] = "processing"
    BY <1>5 DEF SettleSuccess, Reverse, InHandIsProcessing, InHand
  <2>2. \/ Post("settle", Ref(w)) /\ SetStatus(Ref(w), "succeeded")
        \/ Post("reverse", Ref(w)) /\ SetStatus(Ref(w), "failed")
        \/ UNCHANGED <<posted, status>>
    BY <1>5 DEF SettleSuccess, Reverse, Close
  <2>3. Ref(w) \in Payment
    BY <2>1, JobFacts
  <2> QED BY <2>1, <2>2, <2>3, EndingKeepsKeys, IdleKeepsKeys
          DEF Open, Terminal, Returning, Paying
<1>6. ASSUME NEW p \in Payment, Enqueue(p) \/ EnqueueLost(p) \/ Sweep(p)
      PROVE  KeysFollowStatus'
  BY <1>6, IdleKeepsKeys DEF Enqueue, EnqueueLost, Sweep
<1>7. ASSUME NEW w \in Worker,
             Read(w) \/ Call(w) \/ CallRaises(w) \/ Ack(w) \/ JobFails(w) \/ Crash(w)
      PROVE  KeysFollowStatus'
  BY <1>7, IdleKeepsKeys DEF Read, Call, CallRaises, Ack, JobFails, Crash
<1>8. CASE UNCHANGED payoutVars
  BY <1>8, IdleKeepsKeys DEF payoutVars
<1> QED BY <1>1, <1>2, <1>3, <1>4, <1>5, <1>6, <1>7, <1>8 DEF PayoutNext, WorkerStep

\* No step of anybody else takes a withdrawal out of processing.
LEMMA InHandStep ==
    ASSUME OneWorker, OnceInv, [PayoutNext]_payoutVars
    PROVE  InHandIsProcessing'
<1> SUFFICES ASSUME NEW v \in Worker, InHand(v)'
             PROVE  status'[Ref(v)'] = "processing"
  BY DEF InHandIsProcessing
<1> USE DEF OnceInv, InHand, Ref, InHandIsProcessing, SetStatus
<1>1. CASE UNCHANGED job /\ \A p \in Payment : status[p] = "processing" => status'[p] = "processing"
  <2>1. InHand(v) /\ Ref(v)' = Ref(v)
    BY <1>1
  <2>2. Ref(v) \in Payment
    BY <2>1, JobFacts
  <2> QED BY <1>1, <2>1, <2>2
<1>2. ASSUME NEW p \in Payment,
             \/ RequestWithdrawal(p) \/ Approve(p) \/ Reject(p) \/ ResolveManual(p)
             \/ Enqueue(p) \/ EnqueueLost(p) \/ Sweep(p)
             \/ \E a \in Admin : ApproveManual(p, a)
      PROVE  status'[Ref(v)'] = "processing"
  <2>1. UNCHANGED job
    BY <1>2 DEF RequestWithdrawal, Approve, Reject, ResolveManual, Enqueue, EnqueueLost, Sweep,
                ApproveManual, workers
  <2>2. \/ UNCHANGED status
        \/ status[p] # "processing" /\ \E s : status' = [status EXCEPT ![p] = s]
    BY <1>2 DEF RequestWithdrawal, Approve, Reject, ResolveManual, Enqueue, EnqueueLost, Sweep,
                ApproveManual, admins
  <2> QED BY <1>1, <2>1, <2>2 DEF PayoutTypeOK
<1>3. ASSUME NEW w \in Worker, Begin(w) PROVE status'[Ref(v)'] = "processing"
  <2>1. w = v
    BY DEF OneWorker
  <2>2. PICK x \in batch[v] :
          \/ /\ job' = [job EXCEPT ![v] = [at |-> "call", entry |-> x]]
             /\ SetStatus(x[1], "processing")
          \/ job' = [job EXCEPT ![v] = [at |-> "ack", entry |-> x]]
    BY <1>3, <2>1 DEF Begin
  <2>3. x[1] \in Payment
    BY DEF PayoutTypeOK, Entry
  <2> QED BY <2>2, <2>3 DEF PayoutTypeOK
<1>4. ASSUME NEW w \in Worker, Call(w) \/ CallRaises(w)
      PROVE  status'[Ref(v)'] = "processing"
  <2>1. w = v /\ InHand(v) /\ UNCHANGED status
    BY <1>4 DEF OneWorker, Call, CallRaises
  <2>2. \E at \in {"settle", "ack", "reverse"} : GoOn(v, at)
    BY <1>4, <2>1 DEF Call, CallRaises
  <2>3. Ref(v)' = Ref(v)
    BY <2>2 DEF GoOn, PayoutTypeOK
  <2> QED BY <2>1, <2>3
<1>5. ASSUME NEW w \in Worker, SettleSuccess(w) \/ Reverse(w) PROVE FALSE
  <2>1. w = v
    BY DEF OneWorker
  <2>2. GoOn(v, "ack") \/ job' = [job EXCEPT ![v] = Idle]
    BY <1>5, <2>1 DEF SettleSuccess, Reverse, Close
  <2> QED BY <2>2 DEF GoOn, PayoutTypeOK, Idle
<1>6. ASSUME NEW w \in Worker, Ack(w) \/ JobFails(w) \/ Crash(w) PROVE FALSE
  <2>1. w = v
    BY DEF OneWorker
  <2>2. job' = [job EXCEPT ![v] = Idle]
    BY <1>6, <2>1 DEF Ack, JobFails, Crash
  <2> QED BY <2>2 DEF PayoutTypeOK, Idle
<1>7. ASSUME NEW w \in Worker, Read(w) PROVE status'[Ref(v)'] = "processing"
  BY <1>1, <1>7 DEF Read
<1>8. CASE UNCHANGED payoutVars
  BY <1>1, <1>8 DEF payoutVars
<1> QED BY <1>2, <1>3, <1>4, <1>5, <1>6, <1>7, <1>8 DEF PayoutNext, WorkerStep

\* With one worker every step keeps keys, statuses and stream in agreement.
LEMMA OnceStep ==
    ASSUME OneWorker
    PROVE  OnceInv /\ [PayoutNext]_payoutVars => OnceInv'
BY TypeStep, KeysStep, InHandStep DEF OnceInv

\* So they agree in every reachable state.
LEMMA OnceAlways ==
    ASSUME OneWorker
    PROVE  PayoutSpec => []OnceInv
BY OnceInit, OnceStep, PTL DEF PayoutSpec

\* process_one() and the admins' decisions: a withdrawal is settled, reversed,
\* rejected or resolved once, whatever is redelivered, lost or crashes.
THEOREM EndsOneWayHolds ==
    ASSUME OneWorker
    PROVE  PayoutSpec => []EndsOneWay
<1>1. ASSUME KeysFollowStatus, NEW p \in Payment PROVE Cardinality(EndKeys(p)) <= 1
  <2>1. CASE EndKeys(p) = {}
    BY <2>1, FS_EmptySet
  <2>2. ASSUME NEW k \in EndKeys(p) PROVE Cardinality(EndKeys(p)) <= 1
    <3>1. \A l \in EndKeys(p) : k = l
      BY <1>1 DEF KeysFollowStatus
    <3>2. EndKeys(p) = {k}
      BY <3>1
    <3> QED BY <3>2, FS_Singleton
  <2> QED BY <2>1, <2>2
<1>2. OnceInv => EndsOneWay
  BY <1>1 DEF OnceInv, EndsOneWay
<1> QED BY <1>2, OnceAlways, PTL

\* The keys that took money and those that ended a withdrawal are each one to
\* one with withdrawals, so their totals are sums over withdrawals.
LEMMA TotalOfWithdrawals ==
    ASSUME PayoutTypeOK, KeysFollowStatus, NEW u, NEW kinds,
           NEW S \in SUBSET Payment, NEW h \in [S -> Key],
           \A p \in S : h[p] \in posted /\ h[p][1] \in kinds /\ h[p][2] = p /\ UserOf[p] = u,
           \A k \in posted : k[1] \in kinds /\ UserOf[k[2]] = u => \E p \in S : k = h[p]
    PROVE  Total(kinds, u) = SumFunctionOnSet(Amount, S)
<1>1. {k \in posted : k[1] \in kinds /\ UserOf[k[2]] = u} = {h[p] : p \in S}
  OBVIOUS
<1>2. IsFiniteSet(S)
  BY FS_Subset
<1>3. \A p \in S : Amount[p] \in Int /\ Moved[h[p]] = Amount[p]
  BY DEF Moved
<1>4. \A p, q \in S : h[p] = h[q] => p = q
  OBVIOUS
<1>5. SumFunctionOnSet(Moved, {h[p] : p \in S}) = SumFunctionOnSet(Amount, S)
  BY <1>2, <1>3, <1>4, SumRenamed
<1> QED BY <1>1, <1>5 DEF Total

\* The ledger's locked money is what the withdrawals that are open lock.
LEMMA LockedFollowsStatus ==
    ASSUME PayoutTypeOK, KeysFollowStatus, NEW u
    PROVE  Locked(u) = SumFunctionOnSet(Amount, {p \in Payment : UserOf[p] = u /\ status[p] \in Open})
<1> DEFINE Some == {p \in Payment : UserOf[p] = u /\ status[p] # "none"}
           Opened == {p \in Payment : UserOf[p] = u /\ status[p] \in Open}
           Closed == {p \in Payment : UserOf[p] = u /\ status[p] \in Terminal}
           taken == [p \in Some |-> <<"withdrawal", p>>]
           ending == [p \in Closed |-> CHOOSE k \in EndKeys(p) : TRUE]
<1>1. Total({"withdrawal"}, u) = SumFunctionOnSet(Amount, Some)
  <2>1. taken \in [Some -> Key]
    BY DEF Key
  <2>2. \A p \in Some : taken[p] \in posted /\ taken[p][1] = "withdrawal" /\ taken[p][2] = p
    BY DEF KeysFollowStatus
  <2>3. ASSUME NEW k \in posted, k[1] = "withdrawal", UserOf[k[2]] = u
        PROVE  \E p \in Some : k = taken[p]
    <3>1. k = <<"withdrawal", k[2]>> /\ k[2] \in Payment
      BY <2>3 DEF PayoutTypeOK, Key
    <3> QED BY <2>3, <3>1 DEF KeysFollowStatus
  <2>4. Some \in SUBSET Payment /\ \A p \in Some : UserOf[p] = u
    OBVIOUS
  <2> HIDE DEF Some, taken
  <2> QED BY <2>1, <2>2, <2>3, <2>4, TotalOfWithdrawals
<1>2. Total(Returning \union Paying, u) = SumFunctionOnSet(Amount, Closed)
  <2>1. \A p \in Closed : ending[p] \in EndKeys(p)
    BY DEF KeysFollowStatus
  <2>2. /\ ending \in [Closed -> Key]
        /\ \A p \in Closed : /\ ending[p] \in posted /\ ending[p][2] = p
                            /\ ending[p][1] \in Returning \union Paying
    BY <2>1 DEF EndKeys, PayoutTypeOK, Key
  <2>3. ASSUME NEW k \in posted, k[1] \in Returning \union Paying, UserOf[k[2]] = u
        PROVE  \E p \in Closed : k = ending[p]
    <3>1. k[2] \in Payment /\ k \in EndKeys(k[2])
      BY <2>3 DEF PayoutTypeOK, Key, EndKeys, Returning, Paying
    <3>2. k[2] \in Closed
      BY <2>3, <3>1 DEF KeysFollowStatus
    <3> QED BY <2>1, <3>1, <3>2 DEF KeysFollowStatus
  <2>4. Closed \in SUBSET Payment /\ \A p \in Closed : UserOf[p] = u
    OBVIOUS
  <2> HIDE DEF Closed, ending
  <2> QED BY <2>2, <2>3, <2>4, TotalOfWithdrawals
<1>3. Some = Closed \union Opened /\ Closed \intersect Opened = {}
  BY DEF PayoutTypeOK, Open, Terminal
<1>4. IsFiniteSet(Opened) /\ IsFiniteSet(Closed)
  BY FS_Subset
<1>5. \A p \in Payment : Amount[p] \in Int
  OBVIOUS
<1>6. /\ SumFunctionOnSet(Amount, Some) = SumFunctionOnSet(Amount, Closed) + SumFunctionOnSet(Amount, Opened)
      /\ SumFunctionOnSet(Amount, Closed) \in Int /\ SumFunctionOnSet(Amount, Opened) \in Int
  BY <1>3, <1>4, <1>5, SumUnion, SumInt
<1> HIDE DEF Some, Opened, Closed
<1>7. Locked(u) = SumFunctionOnSet(Amount, Opened)
  BY <1>1, <1>2, <1>6 DEF Locked
<1> QED BY <1>7 DEF Opened

\* request_withdrawal() to _settle_success(): user_locked is always the sum of
\* the withdrawals on their way out, so none is paid from another's money.
THEOREM LockedIsInFlightHolds ==
    ASSUME OneWorker
    PROVE  PayoutSpec => []LockedIsInFlight
<1>1. OnceInv => LockedIsInFlight
  BY LockedFollowsStatus DEF OnceInv, LockedIsInFlight
<1> QED BY <1>1, OnceAlways, PTL

=============================================================================
