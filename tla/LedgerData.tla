----------------------------- MODULE LedgerData -----------------------------
(***************************************************************************)
(* The vocabulary of packages/core/ledger.py shared by the abstract ledger *)
(* (Ledger) and by the concurrent post() (LedgerPost): accounts, the       *)
(* requests callers hand to post(), and what the entries of a request add  *)
(* up to.                                                                  *)
(***************************************************************************)
EXTENDS Integers, FiniteSets, FiniteSetsExt

CONSTANTS Account,      \* account ids; their order is the order rows are locked in
          UserAccount,  \* the accounts of a kind in USER_BALANCE_KINDS
          Request,      \* the post() calls the callers may make
          Opening       \* account_balances when the observed window opens

(***************************************************************************)
(* A request is a record with the fields                                   *)
(*   key   the idempotency key,                                            *)
(*   kind  the kind of transaction,                                        *)
(*   ref   the round or payment it names, or "none",                       *)
(*   legs  a function from the touched accounts to the signed amount, the  *)
(*         entries of the call already summed per account (`deltas`).      *)
(***************************************************************************)
Delta(r, a) == IF a \in DOMAIN r.legs THEN r.legs[a] ELSE 0

\* The amount a set of requests adds to account a.
SumLegs(R, a) == SumFunctionOnSet([r \in R |-> Delta(r, a)], R)

\* The entries of one ledger transaction sum to zero: the check of the
\* deferred constraint trigger on ledger_entries.
Balanced(r) == SumFunctionOnSet(r.legs, DOMAIN r.legs) = 0

\* The rows among R that own a key.
Owners(R, k) == {r \in R : r.key = k}

\* post() treats an existing row as a replay when it is the same operation: the
\* same kind and, if the caller names one, the same round or payment.  The
\* amounts are not compared.
SameOperation(existing, r) == existing.kind = r.kind /\ r.ref \in {"none", existing.ref}

ASSUME AccountAssumption ==
    /\ Account \subseteq Nat
    /\ UserAccount \subseteq Account

ASSUME RequestAssumption ==
    \A r \in Request : /\ DOMAIN r.legs \subseteq Account
                       /\ DOMAIN r.legs # {}
                       /\ \A a \in DOMAIN r.legs : r.legs[a] \in Int

ASSUME OpeningAssumption ==
    /\ Opening \in [Account -> Int]
    /\ \A a \in UserAccount : Opening[a] >= 0

=============================================================================
