----------------------------- MODULE LedgerPost -----------------------------
(***************************************************************************)
(* packages/core/ledger.py, post(), as Postgres runs it: several database  *)
(* transactions at once, each a caller's transaction that calls post() one *)
(* or more times and then commits, or fails and rolls back.                *)
(*                                                                         *)
(* post() is split where another transaction can get in between: the       *)
(* INSERT of the ledger_transactions row, each SELECT ... FOR UPDATE of a  *)
(* balance row, and the writes of entries and balances.  Rows written by a *)
(* transaction are invisible to the others until it commits; the unique    *)
(* index on idempotency_key and the row locks make the others wait.        *)
(***************************************************************************)
EXTENDS LedgerData, Sequences

CONSTANTS Txn,      \* the callers' database transactions
          Program   \* Program[t]: the post() calls t makes, in order

ASSUME ProgramAssumption ==
    Program \in [Txn -> Seq(Request)] /\ \A t \in Txn : Program[t] # << >>

\* max_connections bounds the transactions that are open at once.
ASSUME TxnAssumption == IsFiniteSet(Txn)

VARIABLES journal,  \* committed ledger_transactions with their entries
          balance,  \* account_balances, committed
          pc,       \* where each transaction is
          idx,      \* the post() call it is in
          mine,     \* its uncommitted ledger_transactions rows
          pend,     \* its uncommitted change of each balance
          held,     \* the balance rows it holds the lock of
          locked,   \* post()'s `locked`: rows already read by the current call
          read      \* the balances read into `locked`

data == <<journal, balance>>
vars == <<journal, balance, pc, idx, mine, pend, held, locked, read>>

Zero == [a \in Account |-> 0]
Active == {"insert", "lock", "commit"}
Ended == {"committed", "aborted"}

Init ==
    /\ journal = {}
    /\ balance = Opening
    /\ pc = [t \in Txn |-> "insert"]
    /\ idx = [t \in Txn |-> 1]
    /\ mine = [t \in Txn |-> {}]
    /\ pend = [t \in Txn |-> Zero]
    /\ held = [t \in Txn |-> {}]
    /\ locked = [t \in Txn |-> {}]
    /\ read = [t \in Txn |-> Zero]

Current(t) == Program[t][idx[t]]

\* The rows t can see: the committed ones and its own.
Visible(t) == journal \union mine[t]

\* A transaction t is waiting for that has inserted t's key and not ended.
KeyBlocker(t, u) == u # t /\ Owners(mine[u], Current(t).key) # {}

\* Faulty variant: the rows are locked in the order the entries come in.
NextRowUnsorted(t, a) == a \in DOMAIN Current(t).legs \ locked[t]

\* The row the lock loop takes next: account ids in sorted order.
NextRow(t, a) ==
    LET left == DOMAIN Current(t).legs \ locked[t]
    IN a \in left /\ \A b \in left : a <= b

RowBlocker(t, a, u) == u # t /\ a \in held[u]

\* One call returned: the caller makes its next call or goes on to commit.
Return(t) ==
    /\ idx' = [idx EXCEPT ![t] = @ + 1]
    /\ pc' = [pc EXCEPT ![t] = IF idx[t] = Len(Program[t]) THEN "commit" ELSE "insert"]

\* Faulty variant: the connection goes back to the pool with the aborted
\* transaction still open, so its row locks stay.
EndKeepsLocks(t, how) ==
    /\ pc' = [pc EXCEPT ![t] = how]
    /\ mine' = [mine EXCEPT ![t] = {}]
    /\ pend' = [pend EXCEPT ![t] = Zero]
    /\ held' = [held EXCEPT ![t] = IF how = "aborted" THEN @ ELSE {}]
    /\ locked' = [locked EXCEPT ![t] = {}]
    /\ read' = [read EXCEPT ![t] = Zero]
    /\ UNCHANGED idx

\* The transaction ends; Postgres drops its locks and uncommitted rows.
End(t, how) ==
    /\ pc' = [pc EXCEPT ![t] = how]
    /\ mine' = [mine EXCEPT ![t] = {}]
    /\ pend' = [pend EXCEPT ![t] = Zero]
    /\ held' = [held EXCEPT ![t] = {}]
    /\ locked' = [locked EXCEPT ![t] = {}]
    /\ read' = [read EXCEPT ![t] = Zero]
    /\ UNCHANGED idx

(***************************************************************************)
(* The INSERT ... ON CONFLICT (idempotency_key) DO NOTHING.  It waits for  *)
(* an uncommitted owner of the key, so its guard is that there is none.    *)
(***************************************************************************)
InsertKey(t) ==
    /\ pc[t] = "insert"
    /\ ~ \E u \in Txn : KeyBlocker(t, u)
    /\ Owners(Visible(t), Current(t).key) = {}
    /\ mine' = [mine EXCEPT ![t] = @ \union {Current(t)}]
    /\ pc' = [pc EXCEPT ![t] = "lock"]
    /\ locked' = [locked EXCEPT ![t] = {}]
    /\ UNCHANGED <<journal, balance, idx, pend, held, read>>

\* Faulty variant: any row with the key counts as a replay.
ReplayAnyOperation(t) ==
    /\ pc[t] = "insert"
    /\ ~ \E u \in Txn : KeyBlocker(t, u)
    /\ Owners(Visible(t), Current(t).key) # {}
    /\ Return(t)
    /\ UNCHANGED <<journal, balance, mine, pend, held, locked, read>>

\* The key exists and belongs to the same operation: post() returns the
\* existing row and writes nothing.
Replay(t) ==
    /\ pc[t] = "insert"
    /\ ~ \E u \in Txn : KeyBlocker(t, u)
    /\ \E s \in Owners(Visible(t), Current(t).key) : SameOperation(s, Current(t))
    /\ Return(t)
    /\ UNCHANGED <<journal, balance, mine, pend, held, locked, read>>

\* The key exists and belongs to another operation: IdempotencyKeyConflict,
\* which no caller catches, so the caller's transaction rolls back.
KeyConflict(t) ==
    /\ pc[t] = "insert"
    /\ ~ \E u \in Txn : KeyBlocker(t, u)
    /\ \E s \in Owners(Visible(t), Current(t).key) : ~ SameOperation(s, Current(t))
    /\ End(t, "aborted")
    /\ UNCHANGED data

\* Faulty variant: a plain SELECT, which neither waits nor locks.
LockRowUnlocked(t, a) ==
    /\ pc[t] = "lock"
    /\ NextRow(t, a)
    /\ locked' = [locked EXCEPT ![t] = @ \union {a}]
    /\ read' = [read EXCEPT ![t][a] = balance[a] + pend[t][a]]
    /\ UNCHANGED <<journal, balance, pc, idx, mine, pend, held>>

\* SELECT ... FOR UPDATE of one balance row (created at zero when missing):
\* waits for the row's lock, then reads the balance t itself would see.
LockRow(t, a) ==
    /\ pc[t] = "lock"
    /\ NextRow(t, a)
    /\ ~ \E u \in Txn : RowBlocker(t, a, u)
    /\ held' = [held EXCEPT ![t] = @ \union {a}]
    /\ locked' = [locked EXCEPT ![t] = @ \union {a}]
    /\ read' = [read EXCEPT ![t][a] = balance[a] + pend[t][a]]
    /\ UNCHANGED <<journal, balance, pc, idx, mine, pend>>

AllLocked(t) == pc[t] = "lock" /\ DOMAIN Current(t).legs \subseteq locked[t]

\* The balances post() read leave no user account below zero.
Sufficient(t) ==
    \A a \in UserAccount \intersect DOMAIN Current(t).legs :
        read[t][a] + Current(t).legs[a] >= 0

Apply(t) ==
    /\ AllLocked(t)
    /\ Sufficient(t)
    /\ pend' = [pend EXCEPT ![t] = [a \in Account |-> @[a] + Delta(Current(t), a)]]
    /\ Return(t)
    /\ UNCHANGED <<journal, balance, mine, held, locked, read>>

\* InsufficientFunds leaves every caller's transaction block: it rolls back.
Insufficient(t) ==
    /\ AllLocked(t)
    /\ ~ Sufficient(t)
    /\ End(t, "aborted")
    /\ UNCHANGED data

\* Faulty variant: no zero-sum trigger.
CommitUnchecked(t) ==
    /\ pc[t] = "commit"
    /\ journal' = journal \union mine[t]
    /\ balance' = [a \in Account |-> balance[a] + pend[t][a]]
    /\ End(t, "committed")

\* COMMIT: the deferred zero-sum trigger runs on every new transaction.
Commit(t) ==
    /\ pc[t] = "commit"
    /\ \A r \in mine[t] : Balanced(r)
    /\ journal' = journal \union mine[t]
    /\ balance' = [a \in Account |-> balance[a] + pend[t][a]]
    /\ End(t, "committed")

\* The trigger rejects the transaction: nothing of it remains.
CommitRejected(t) ==
    /\ pc[t] = "commit"
    /\ \E r \in mine[t] : ~ Balanced(r)
    /\ End(t, "aborted")
    /\ UNCHANGED data

\* The caller fails after a post(), or its process or connection dies.
Fail(t) ==
    /\ pc[t] \in Active
    /\ End(t, "aborted")
    /\ UNCHANGED data

(***************************************************************************)
(* Waiting.  A transaction waits for at most one other; Postgres' deadlock *)
(* detector aborts a member of a cycle.                                    *)
(***************************************************************************)
WaitsFor(t, u) ==
    \/ pc[t] = "insert" /\ KeyBlocker(t, u)
    \/ pc[t] = "lock" /\ \E a \in Account : NextRow(t, a) /\ RowBlocker(t, a, u)

\* The sets of transactions that wait for each other.
Deadlocks ==
    LET waits == {e \in Txn \X Txn : WaitsFor(e[1], e[2])}
    IN {T \in SUBSET {e[1] : e \in waits} :
          T # {} /\ \A t \in T : \E u \in T : <<t, u>> \in waits}

DeadlockVictim(t) ==
    /\ \E T \in Deadlocks : t \in T
    /\ End(t, "aborted")
    /\ UNCHANGED data

Step(t) ==
    \/ InsertKey(t)
    \/ Replay(t)
    \/ KeyConflict(t)
    \/ \E a \in Account : LockRow(t, a)
    \/ Apply(t)
    \/ Insufficient(t)
    \/ Commit(t)
    \/ CommitRejected(t)

AllEnded == \A t \in Txn : pc[t] \in Ended

Done == AllEnded /\ UNCHANGED vars

Next ==
    \/ \E t \in Txn : Step(t) \/ Fail(t) \/ DeadlockVictim(t)
    \/ Done

Spec == Init /\ [][Next]_vars

\* Each backend keeps running its statements; the deadlock detector fires
\* deadlock_timeout after a cycle forms.
Fairness ==
    /\ \A t \in Txn : WF_vars(Step(t))
    /\ WF_vars(\E t \in Txn : DeadlockVictim(t))

FairSpec == Spec /\ Fairness
-----------------------------------------------------------------------------
(***************************************************************************)
(* Properties.                                                             *)
(***************************************************************************)
TypeOK ==
    /\ journal \subseteq Request
    /\ balance \in [Account -> Int]
    /\ pc \in [Txn -> Active \union Ended]
    /\ idx \in [Txn -> Nat \ {0}]
    /\ \A t \in Txn : /\ pc[t] \in {"insert", "lock"} => idx[t] <= Len(Program[t])
                      /\ idx[t] <= Len(Program[t]) + 1
    /\ mine \in [Txn -> SUBSET Request]
    /\ pend \in [Txn -> [Account -> Int]]
    /\ held \in [Txn -> SUBSET Account]
    /\ locked \in [Txn -> SUBSET Account]
    /\ read \in [Txn -> [Account -> Int]]

\* The locks mean what they are for: no two transactions hold one row, a
\* transaction changes and reads only rows it holds, and a balance it has
\* read into `locked` is not stale.
LockDiscipline ==
    /\ \A t, u \in Txn : t # u => held[t] \intersect held[u] = {}
    /\ \A t \in Txn : \A a \in Account : a \notin held[t] => pend[t][a] = 0
    /\ \A t \in Txn : pc[t] = "lock" => \A a \in locked[t] :
            a \in held[t] /\ read[t][a] = balance[a] + pend[t][a]

\* Every user account would stay at zero or above whichever transaction
\* commits next.
Covered ==
    \A a \in UserAccount :
        balance[a] >= 0 /\ \A t \in Txn : balance[a] + pend[t][a] >= 0

\* No idempotency key is owned twice among the committed and uncommitted rows.
KeyOwnedOnce ==
    /\ \A r, s \in journal : r.key = s.key => r = s
    /\ \A t \in Txn : \A r \in mine[t] :
          /\ \A s \in Visible(t) : r.key = s.key => r = s
          /\ \A u \in Txn \ {t} : \A s \in mine[u] : r.key # s.key

\* The inductive invariant: types, the lock discipline that keeps the read
\* balances current, and the cover those balances give (post(), the lock
\* loop and the InsufficientFunds check).
IndInv == TypeOK /\ LockDiscipline /\ Covered /\ KeyOwnedOnce

\* A transaction's pending changes are the legs of the rows it has inserted,
\* but for the row of a call whose writes are still to come.
Written(t) == IF pc[t] = "lock" THEN mine[t] \ {Current(t)} ELSE mine[t]

PendingIsWritten ==
    \A t \in Txn :
      /\ pc[t] = "lock" => Current(t) \in mine[t]
      /\ \A a \in Account : pend[t][a] = SumLegs(Written(t), a)

\* What is journalled is nobody's uncommitted row any more.
Published ==
    /\ IsFiniteSet(journal)
    /\ \A t \in Txn : IsFiniteSet(mine[t]) /\ mine[t] \intersect journal = {}

\* The calls that have returned stand in what the transaction can see.
Stands(call, R) == \E r \in R : r.key = call.key /\ SameOperation(r, call)

CallsStand ==
    \A t \in Txn :
      /\ pc[t] # "aborted" => \A i \in 1 .. (idx[t] - 1) : Stands(Program[t][i], Visible(t))
      /\ pc[t] \in {"commit", "committed"} => idx[t] > Len(Program[t])
      /\ pc[t] = "committed" => mine[t] = {}

\* In its first call a transaction holds no row but those the lock loop has
\* read, and these come before every row it has still to take.
FirstCall ==
    \A t \in Txn : idx[t] = 1 =>
      /\ pc[t] = "insert" => mine[t] = {} /\ held[t] = {}
      /\ pc[t] = "lock" => /\ held[t] = locked[t]
                          /\ \A a \in locked[t], b \in DOMAIN Current(t).legs \ locked[t] : a < b

\* No user's cash, bonus or locked balance ever goes below zero, whatever
\* posts run at once (post(), the InsufficientFunds check).
UserBalancesNonNegative == \A a \in UserAccount : balance[a] >= 0

\* reconcile(): the cached balance of every account equals the sum of its
\* ledger entries.
Reconciled == \A a \in Account : balance[a] = Opening[a] + SumLegs(journal, a)

\* One idempotency key moves money at most once, however often and however
\* concurrently it is posted.
KeysUnique == \A r, s \in journal : r.key = s.key => r = s

\* When a caller's transaction commits, every post() it made stands in the
\* journal as that very operation, and the balances are what the journal
\* says: a key collision is never reported as money moved (the
\* IdempotencyKeyConflict check), a rollback never leaves some behind.
PostsHonoured ==
    /\ \A t \in Txn : pc[t] = "committed" =>
          \A i \in 1 .. Len(Program[t]) : Stands(Program[t][i], journal)
    /\ Reconciled

\* What the fixed order of post()'s lock loop is for: transactions that make a
\* single post() never deadlock among themselves.  A cycle needs a caller that
\* posts several times in one transaction, as refund_round() does.
DeadlockNeedsSeveralPosts ==
    \A T \in Deadlocks : \E t \in T : Len(Program[t]) > 1

\* Every transaction ends: nobody waits for a lock or a key for ever.
EveryTransactionEnds == <> AllEnded

\* post() with its waits and locks implements the atomic ledger: the refinement
\* mapping forgets the locks and what is not committed yet.
Abstract == INSTANCE Ledger WITH journal <- journal, balance <- balance

\* Every step of the concurrent ledger is a step of the atomic one or changes
\* neither journal nor balances.
ImplementsLedger == Abstract!Spec
=============================================================================
