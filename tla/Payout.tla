------------------------------- MODULE Payout -------------------------------
(***************************************************************************)
(* Withdrawals: services/payments/withdrawals.py, payout_worker.py and the *)
(* admin console's decisions.  A request locks the money in the ledger, a  *)
(* decision approves or rejects it, and the payout workers take approved   *)
(* ones from a Redis stream, call the provider and settle or reverse.      *)
(*                                                                         *)
(* Every database transaction locks the payments row first and is one      *)
(* step; the provider call and the stream are outside any transaction.     *)
(* The stream delivers at least once: an entry stays pending until it is   *)
(* acknowledged, and every replica reads under the same default consumer   *)
(* name, so a pending entry is handed to whichever replica asks.           *)
(***************************************************************************)
EXTENDS Integers, FiniteSets, FiniteSetsExt

CONSTANTS
    Payment,     \* withdrawals, by our_ref
    UserOf,      \* UserOf[p]
    Amount,      \* Amount[p]
    Funds,       \* Funds[u]: opening user_cash
    Manual,      \* the payments on the manual rail
    Large,       \* those of at least two_person_threshold
    Admin, NoAdmin,
    Worker,      \* payout worker replicas
    Copies,      \* bound: unacknowledged stream entries per payment
    MaxFaults    \* bound: crashes, lost enqueues and failed transactions

ASSUME PayoutAssumption ==
    /\ IsFiniteSet(Payment)
    /\ Amount \in [Payment -> Nat]
    /\ Manual \subseteq Payment
    /\ NoAdmin \notin Admin
    /\ Copies \in Nat /\ MaxFaults \in Nat

VARIABLES
    status,    \* payments.status
    first,     \* payments.first_approved_by_admin_id
    second,    \* the admin whose approval released it
    posted,    \* idempotency keys of the ledger transactions
    unsent,    \* committed approvals whose XADD has not run yet
    entries,   \* stream entries not acknowledged: "new" or "pending"
    provider,  \* what the provider did with our_ref
    batch,     \* entries a worker has read and not handled yet
    job,       \* the entry a worker is handling
    faults

payoutVars == <<status, first, second, posted, unsent, entries, provider, batch, job, faults>>
admins == <<first, second>>
stream == <<unsent, entries>>
workers == <<batch, job>>

Entry == Payment \X (1 .. Copies)
Idle == [at |-> "idle"]
Open == {"review", "approved", "processing"}
Terminal == {"succeeded", "failed", "rejected"}

PayoutInit ==
    /\ status = [p \in Payment |-> "none"]
    /\ first = [p \in Payment |-> NoAdmin]
    /\ second = [p \in Payment |-> NoAdmin]
    /\ posted = {}
    /\ unsent = {}
    /\ entries = [x \in Entry |-> "none"]
    /\ provider = [p \in Payment |-> "none"]
    /\ batch = [w \in Worker |-> {}]
    /\ job = [w \in Worker |-> Idle]
    /\ faults = 0

Fault == faults < MaxFaults /\ faults' = faults + 1

-----------------------------------------------------------------------------
(***************************************************************************)
(* The ledger: each transaction kind moves Amount[p] between the user's    *)
(* cash and locked accounts, or out of locked.                             *)
(***************************************************************************)
Returning == {"reverse", "reject", "manual-fail"}
Paying == {"settle", "manual-settle"}

Key == ({"withdrawal"} \union Returning \union Paying) \X Payment
Moved == [k \in Key |-> Amount[k[2]]]

Total(kinds, u) ==
    SumFunctionOnSet(Moved, {k \in posted : k[1] \in kinds /\ UserOf[k[2]] = u})

Cash(u) == Funds[u] - Total({"withdrawal"}, u) + Total(Returning, u)

Locked(u) == Total({"withdrawal"}, u) - Total(Returning \union Paying, u)

\* ledger.post() out of user_locked: a replay, or there is enough to move.
CanPost(kind, p) == <<kind, p>> \in posted \/ Locked(UserOf[p]) >= Amount[p]

Post(kind, p) == posted' = posted \union {<<kind, p>>}

SetStatus(p, s) == status' = [status EXCEPT ![p] = s]

-----------------------------------------------------------------------------
(***************************************************************************)
(* Requests and decisions.                                                 *)
(***************************************************************************)

\* request_withdrawal(): lock the money, decide on automatic approval.  The
\* risk rules are abstracted to either outcome; the manual rail is reviewed.
RequestWithdrawal(p) ==
    /\ status[p] = "none"
    /\ Cash(UserOf[p]) >= Amount[p]
    /\ Post("withdrawal", p)
    /\ \/ /\ p \notin Manual
          /\ SetStatus(p, "approved")
          /\ unsent' = unsent \union {p}
       \/ SetStatus(p, "review") /\ UNCHANGED unsent
    /\ UNCHANGED <<admins, entries, provider, workers, faults>>

\* approve_withdrawal_admin().
Approve(p) ==
    /\ status[p] = "review" /\ p \notin Manual
    /\ SetStatus(p, "approved")
    /\ unsent' = unsent \union {p}
    /\ UNCHANGED <<admins, posted, entries, provider, workers, faults>>

\* reject_withdrawal_admin(), for both rails.
Reject(p) ==
    /\ status[p] = "review"
    /\ CanPost("reject", p)
    /\ Post("reject", p)
    /\ SetStatus(p, "rejected")
    /\ UNCHANGED <<admins, stream, provider, workers, faults>>

\* Faulty variant: the gate does not compare the two admins.
GateOpenToAnyone(p, a) == p \in Large => first[p] # NoAdmin

\* _apply_two_person_gate(): a large payment needs an earlier approval by
\* somebody else.
GateOpen(p, a) == p \in Large => first[p] \notin {NoAdmin, a}

\* approve_manual_withdrawal_admin(): the first approval of a large payment is
\* recorded, any other that passes the gate releases it.
ApproveManual(p, a) ==
    /\ status[p] = "review" /\ p \in Manual
    /\ \/ /\ p \in Large /\ first[p] = NoAdmin
          /\ first' = [first EXCEPT ![p] = a]
          /\ UNCHANGED <<status, second>>
       \/ /\ GateOpen(p, a)
          /\ SetStatus(p, "approved")
          /\ second' = [second EXCEPT ![p] = a]
          /\ UNCHANGED first
    /\ UNCHANGED <<posted, stream, provider, workers, faults>>

\* settle_manual_withdrawal_admin() and fail_manual_withdrawal_admin().
ResolveManual(p) ==
    /\ status[p] = "approved" /\ p \in Manual
    /\ \/ CanPost("manual-settle", p) /\ Post("manual-settle", p) /\ SetStatus(p, "succeeded")
       \/ CanPost("manual-fail", p) /\ Post("manual-fail", p) /\ SetStatus(p, "failed")
    /\ UNCHANGED <<admins, stream, provider, workers, faults>>

-----------------------------------------------------------------------------
(***************************************************************************)
(* The stream.                                                             *)
(***************************************************************************)

\* XADD, into an entry no worker still has in hand.
Add(p) ==
    \E n \in 1 .. Copies :
      /\ entries[<<p, n>>] = "none"
      /\ \A w \in Worker : <<p, n>> \notin batch[w] /\ (job[w] # Idle => job[w].entry # <<p, n>>)
      /\ entries' = [entries EXCEPT ![<<p, n>>] = "new"]

\* enqueue_payout(), after the commit ...
Enqueue(p) ==
    /\ p \in unsent
    /\ Add(p)
    /\ unsent' = unsent \ {p}
    /\ UNCHANGED <<status, admins, posted, provider, workers, faults>>

\* ... or never.
EnqueueLost(p) ==
    /\ p \in unsent
    /\ Fault
    /\ unsent' = unsent \ {p}
    /\ UNCHANGED <<status, admins, posted, entries, provider, workers>>

\* Faulty variant: the sweep looks for payouts already being processed.
SweepProcessing(p) ==
    /\ status[p] = "processing" /\ p \notin Manual
    /\ Add(p)
    /\ UNCHANGED <<status, admins, posted, unsent, provider, workers, faults>>

\* sweep_stuck_approved_payouts(), whether the first enqueue landed or not.
Sweep(p) ==
    /\ status[p] = "approved" /\ p \notin Manual
    /\ Add(p)
    /\ UNCHANGED <<status, admins, posted, unsent, provider, workers, faults>>

-----------------------------------------------------------------------------
(***************************************************************************)
(* The payout worker.                                                      *)
(***************************************************************************)
In(state) == {x \in Entry : entries[x] = state}

\* run_forever(): what is pending under the consumer name first, else new.
Read(w) ==
    /\ job[w] = Idle /\ batch[w] = {}
    /\ LET got == IF In("pending") # {} THEN In("pending") ELSE In("new")
       IN /\ got # {}
          /\ batch' = [batch EXCEPT ![w] = got]
          /\ entries' = [x \in Entry |-> IF x \in got THEN "pending" ELSE entries[x]]
    /\ UNCHANGED <<status, admins, posted, unsent, provider, job, faults>>

GoOn(w, at) == job' = [job EXCEPT ![w] = [at |-> at, entry |-> job[w].entry]]

\* Faulty variant: the first transaction skips nothing.
BeginUnchecked(w) ==
    /\ job[w] = Idle
    /\ \E x \in batch[w] :
         /\ batch' = [batch EXCEPT ![w] = @ \ {x}]
         /\ job' = [job EXCEPT ![w] = [at |-> "call", entry |-> x]]
         /\ SetStatus(x[1], "processing")
    /\ UNCHANGED <<admins, posted, stream, provider, faults>>

\* process_one(), first transaction: skip, or mark as processing.
Begin(w) ==
    /\ job[w] = Idle
    /\ \E x \in batch[w] :
         /\ batch' = [batch EXCEPT ![w] = @ \ {x}]
         /\ IF status[x[1]] \in {"approved", "processing"} /\ x[1] \notin Manual
            THEN /\ job' = [job EXCEPT ![w] = [at |-> "call", entry |-> x]]
                 /\ SetStatus(x[1], "processing")
            ELSE /\ job' = [job EXCEPT ![w] = [at |-> "ack", entry |-> x]]
                 /\ UNCHANGED status
    /\ UNCHANGED <<admins, posted, stream, provider, faults>>

Ref(w) == job[w].entry[1]

\* The provider, idempotent on our_ref: the first call that reaches it decides.
Dispatch(p) ==
    IF provider[p] = "none"
    THEN \E r \in {"succeeded", "processing", "failed"} : provider' = [provider EXCEPT ![p] = r]
    ELSE UNCHANGED provider

\* create_payout() answers ...
Call(w) ==
    /\ job[w].at = "call"
    /\ Dispatch(Ref(w))
    /\ \/ provider'[Ref(w)] = "succeeded" /\ GoOn(w, "settle")
       \/ provider'[Ref(w)] = "processing" /\ GoOn(w, "ack")
       \/ provider'[Ref(w)] = "failed" /\ GoOn(w, "reverse")
    /\ UNCHANGED <<status, admins, posted, stream, batch, faults>>

\* ... or raises: it never reached the provider, or its answer was lost.
CallRaises(w) ==
    /\ job[w].at = "call"
    /\ Dispatch(Ref(w)) \/ UNCHANGED provider
    /\ GoOn(w, "reverse")
    /\ UNCHANGED <<status, admins, posted, stream, batch, faults>>

\* The closing transaction.  On InsufficientFunds it rolls back, the entry
\* stays pending and the worker goes on.
Close(w, op, s) ==
    /\ IF CanPost(op, Ref(w))
       THEN Post(op, Ref(w)) /\ SetStatus(Ref(w), s) /\ GoOn(w, "ack")
       ELSE UNCHANGED <<posted, status>> /\ job' = [job EXCEPT ![w] = Idle]
    /\ UNCHANGED <<admins, stream, provider, batch, faults>>

\* _settle_success(): the status is not looked at again.
SettleSuccess(w) ==
    /\ job[w].at = "settle"
    /\ Close(w, "settle", "succeeded")

\* Faulty variant: the status moves and the money does not.
ReverseUnposted(w) ==
    /\ job[w].at = "reverse"
    /\ SetStatus(Ref(w), "failed")
    /\ GoOn(w, "ack")
    /\ UNCHANGED <<admins, posted, stream, provider, batch, faults>>

\* _reverse(), likewise.
Reverse(w) ==
    /\ job[w].at = "reverse"
    /\ Close(w, "reverse", "failed")

Ack(w) ==
    /\ job[w].at = "ack"
    /\ entries' = [entries EXCEPT ![job[w].entry] = "none"]
    /\ job' = [job EXCEPT ![w] = Idle]
    /\ UNCHANGED <<status, admins, posted, unsent, provider, batch, faults>>

\* A database or Redis error: the entry stays pending, the batch goes on.
JobFails(w) ==
    /\ job[w] # Idle
    /\ Fault
    /\ job' = [job EXCEPT ![w] = Idle]
    /\ UNCHANGED <<status, admins, posted, stream, provider, batch>>

Crash(w) ==
    /\ job[w] # Idle \/ batch[w] # {}
    /\ Fault
    /\ job' = [job EXCEPT ![w] = Idle]
    /\ batch' = [batch EXCEPT ![w] = {}]
    /\ UNCHANGED <<status, admins, posted, stream, provider>>

-----------------------------------------------------------------------------
WorkerStep(w) ==
    \/ Read(w) \/ Begin(w) \/ Call(w) \/ CallRaises(w) \/ SettleSuccess(w) \/ Reverse(w)
    \/ Ack(w)

PayoutNext ==
    \/ \E p \in Payment : \/ RequestWithdrawal(p) \/ Approve(p) \/ Reject(p) \/ ResolveManual(p)
                          \/ Enqueue(p) \/ EnqueueLost(p) \/ Sweep(p)
                          \/ \E a \in Admin : ApproveManual(p, a)
    \/ \E w \in Worker : WorkerStep(w) \/ JobFails(w) \/ Crash(w)

PayoutSpec == PayoutInit /\ [][PayoutNext]_payoutVars

\* The worker's loop and the sweep's timer run; nothing is asked of players,
\* admins, or the process that promised to enqueue.
PayoutFairSpec ==
    /\ PayoutSpec
    /\ \A w \in Worker : WF_payoutVars(WorkerStep(w))
    /\ \A p \in Payment : WF_payoutVars(Sweep(p))

-----------------------------------------------------------------------------
(***************************************************************************)
(* Properties.                                                             *)
(***************************************************************************)

\* The shape of the state.
PayoutTypeOK ==
    /\ status \in [Payment -> {"none"} \union Open \union Terminal]
    /\ first \in [Payment -> Admin \union {NoAdmin}]
    /\ second \in [Payment -> Admin \union {NoAdmin}]
    /\ posted \subseteq Key
    /\ unsent \subseteq Payment
    /\ entries \in [Entry -> {"none", "new", "pending"}]
    /\ provider \in [Payment -> {"none", "succeeded", "processing", "failed"}]
    /\ batch \in [Worker -> SUBSET Entry]
    /\ job \in [Worker -> {Idle} \union [at : {"call", "settle", "reverse", "ack"}, entry : Entry]]
    /\ faults \in 0 .. MaxFaults

\* user_locked holds exactly what is still on its way out: no decision,
\* settlement or reversal of one withdrawal eats into another's.
LockedIsInFlight ==
    \A u \in DOMAIN Funds :
      Locked(u) = SumFunctionOnSet(Amount, {p \in Payment : UserOf[p] = u /\ status[p] \in Open})

\* The ledger ends each withdrawal once, by one of the five ways there are.
EndKeys(p) == {k \in posted : k[2] = p /\ k[1] # "withdrawal"}
EndsOneWay == \A p \in Payment : Cardinality(EndKeys(p)) <= 1

\* A large manual withdrawal is released by two different admins.
TwoPersonRule ==
    \A p \in Manual \intersect Large :
      status[p] \in {"approved", "succeeded", "failed"} =>
        first[p] # NoAdmin /\ second[p] \notin {NoAdmin, first[p]}

\* An approved automatic withdrawal is taken up even when its enqueue is lost.
ApprovedIsTakenUp ==
    \A p \in Payment \ Manual : (status[p] = "approved") ~> (status[p] # "approved")

-----------------------------------------------------------------------------
(***************************************************************************)
(* What makes them inductive.                                              *)
(***************************************************************************)

\* The manual rail is left to the admins: no worker takes such a payment up.
InHand(w) == job[w].at \in {"call", "settle", "reverse"}
ManualUntouched == \A w \in Worker : InHand(w) => Ref(w) \notin Manual

\* A large manual withdrawal under review has been approved by nobody or by
\* one admin, and one that has left it was released by two.
Released(p) == first[p] # NoAdmin /\ second[p] \notin {NoAdmin, first[p]}
GateKept ==
    \A p \in Manual \intersect Large :
      status[p] \in {"approved", "processing", "succeeded", "failed"} => Released(p)

\* With one worker: what it has in hand is still being processed.
InHandIsProcessing == \A w \in Worker : InHand(w) => status[Ref(w)] = "processing"

\* A withdrawal that exists took its money, and the ledger has a key that ends
\* it, a single one, exactly when its status is final.
KeysFollowStatus ==
    \A p \in Payment :
      /\ <<"withdrawal", p>> \in posted <=> status[p] # "none"
      /\ EndKeys(p) # {} <=> status[p] \in Terminal
      /\ \A k, l \in EndKeys(p) : k = l
=============================================================================
