------------------------------- MODULE Ledger -------------------------------
(***************************************************************************)
(* What the ledger of packages/core/ledger.py promises, without locks and  *)
(* without interleaving: a database transaction appears as one step that   *)
(* journals a set of new, balanced requests and moves exactly their legs,  *)
(* leaving no user account below zero.  LedgerPost, the concurrent post(), *)
(* is shown to implement it.                                               *)
(***************************************************************************)
EXTENDS LedgerData

VARIABLES journal,  \* committed ledger_transactions with their entries
          balance   \* account_balances

vars == <<journal, balance>>

Init == /\ journal = {}
        /\ balance = Opening

\* The keys of R are new and no two requests of R share one.
FreshKeys(R) ==
    /\ \A r \in R : Owners(journal, r.key) = {}
    /\ \A r, s \in R : r.key = s.key => r = s

Commit(R) ==
    /\ journal' = journal \union R
    /\ FreshKeys(R)
    /\ \A r \in R : Balanced(r)
    /\ balance' = [a \in Account |-> balance[a] + SumLegs(R, a)]
    /\ \A a \in UserAccount : balance'[a] >= 0

Next == \E R \in SUBSET Request : Commit(R)

Spec == Init /\ [][Next]_vars
=============================================================================
