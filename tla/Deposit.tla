------------------------------ MODULE Deposit ------------------------------
(***************************************************************************)
(* Money in.  Three rails credit a player: the Chapa checkout              *)
(* (deposits.py), manual requests decided in the admin console (manual.py, *)
(* admin/queries.py), and Telebirr messages redeemed by their reference    *)
(* (telebirr_ingest.py, telebirr_redemption.py).  Every credit also runs   *)
(* the referral and welcome bonus checks (referrals.py).                   *)
(*                                                                         *)
(* The eligibility check and the INSERT that counts towards it are two     *)
(* steps on every rail: no lock covers the sum of the day's deposits.      *)
(* From ledger.post() on, a crediting transaction holds the balance row of *)
(* provider_settlement until it commits, so the credit and the bonus       *)
(* checks behind it are one step.  One calendar day is modelled.           *)
(***************************************************************************)
EXTENDS Integers, FiniteSets, Functions

CONSTANTS
    User, NoUser,
    Referrer,        \* Referrer[u]: users.referred_by, or NoUser
    SharedPayout,    \* pairs of users with a payout account in common
    Amount,          \* amounts a player may ask for
    Paid,            \* amounts a checkout may be paid with
    ActiveRule,      \* id of the active rule of each trigger, or 0
    Barred,          \* players banned, self-excluded or cooling off
    DailyCap,        \* the smaller of the platform's and the player's cap
    MinDeposit, TwoPerson, MinQualifying, MaxGrants,
    Admin, NoAdmin,
    Ref,             \* Telebirr transaction references
    Message,         \* messages that carry one: [ref, body, amount]
    Failure,         \* how an unpaid checkout may end: failed, cancelled
    Handler, Idle,   \* requests being handled at once
    MaxPayments   \* bound

\* What a request handler may be in the middle of.
Intents ==
    [op : {"intent"}, at : {"checked", "calling", "called"}, user : User, amount : Nat, id : Nat]
ManualRequests == [op : {"manual"}, at : {"checked"}, user : User, amount : Nat]
Redemptions == [op : {"redeem"}, at : {"checked"}, user : User, amount : Nat, ref : Ref]

ASSUME DepositAssumption ==
    /\ Amount \subseteq Nat \ {0} /\ Paid \subseteq Nat
    /\ Message \subseteq [ref : Ref, body : Nat, amount : Nat]
    /\ Failure \subseteq {"failed", "cancelled"}
    /\ DailyCap \in Nat /\ MaxGrants \in Nat /\ TwoPerson \in Nat /\ MaxPayments \in Nat
    /\ NoUser \notin User /\ NoAdmin \notin Admin
    /\ Idle \notin Intents \union ManualRequests \union Redemptions

VARIABLES
    payments,    \* the payments rows of direction 'in', by id
    events,      \* payment_events: (provider, event_id)
    cash,        \* user_cash as the deposits left it
    evidence,    \* payment_evidence, by external_reference
    bonuses,     \* the bonuses rows the deposit checks granted
    recipient,   \* an active manual_payment_destinations row exists
    chapa,       \* Chapa's side of each payment
    handling,    \* what each request handler is in the middle of
    poll,        \* poll_pending_deposits: the report in hand
    overlapped   \* history: players who had two requests checked at once

rows == <<payments, events, cash, bonuses>>
vars == <<payments, events, cash, evidence, bonuses, recipient,
          chapa, handling, poll, overlapped>>

Id == DOMAIN payments
NewId == Cardinality(Id) + 1
Counted == {"pending", "processing", "review", "approved", "succeeded"}
NoReport == [status |-> "pending", amount |-> 0]

Init ==
    /\ payments = <<>> /\ events = {} /\ bonuses = {}
    /\ cash = [u \in User |-> 0]
    /\ evidence = [r \in Ref |-> [status |-> "none"]]
    /\ recipient = FALSE
    /\ chapa = [i \in 1 .. MaxPayments |-> [status |-> "none", amount |-> 0]]
    /\ handling = [h \in Handler |-> Idle]
    /\ poll = [got |-> 0, report |-> NoReport]
    /\ overlapped = {}

-----------------------------------------------------------------------------
(***************************************************************************)
(* Bonus checks behind a credit (referrals.py).  A bonus row keeps what    *)
(* its idempotency key is made of.                                         *)
(***************************************************************************)

Grants(bs, u, rule) == {b \in bs : b.user = u /\ b.rule = rule}

maybe_grant_referral_bonus(bs, u, amount) ==
    LET referrer == Referrer[u]
        rule == ActiveRule["referral_reward"]
        qualifies ==
            /\ referrer \notin {NoUser, u}
            /\ ~ \E b \in bs : b.of = u
            /\ rule # 0 /\ amount >= MinQualifying
            /\ {referrer, u} \notin SharedPayout
            /\ Cardinality(Grants(bs, referrer, rule)) < MaxGrants
    IN  IF qualifies
        THEN bs \union {[user |-> referrer, of |-> u, rule |-> rule, seq |-> 0]}
        ELSE bs

maybe_grant_welcome_bonus(bs, u, amount) ==
    LET rule == ActiveRule["welcome_bonus"]
        grants_so_far == Cardinality(Grants(bs, u, rule))
        qualifies ==
            /\ rule # 0 /\ amount >= MinQualifying
            /\ grants_so_far < MaxGrants
    IN  IF qualifies
        THEN bs \union {[user |-> u, of |-> NoUser, rule |-> rule,
                         seq |-> grants_so_far]}
        ELSE bs

(***************************************************************************)
(* The tail every rail shares: post under our_ref, mark the row, run both  *)
(* bonus checks.  ledger.post() credits once per our_ref; the key is in    *)
(* the journal exactly when the row carries its ledger_txn_id.             *)
(***************************************************************************)
Credited(i, table, row) ==
    LET paid == [row EXCEPT !.status = "succeeded", !.txn = TRUE]
    IN  /\ payments' = [j \in DOMAIN table \union {i} |->
                            IF j = i THEN paid ELSE table[j]]
        /\ cash' = IF row.txn THEN cash
                   ELSE [cash EXCEPT ![row.user] = @ + row.amount]
        /\ bonuses' = maybe_grant_welcome_bonus(
                          maybe_grant_referral_bonus(bonuses, row.user, row.amount),
                          row.user, row.amount)

Row(u, rail, amount, status) ==
    [user |-> u, rail |-> rail, amount |-> amount, status |-> status,
     first |-> NoAdmin, by |-> NoAdmin, txn |-> FALSE,
     url |-> FALSE]

Insert(row) ==
    /\ Cardinality(Id) < MaxPayments
    /\ payments' = [j \in Id \union {NewId} |-> IF j \in Id THEN payments[j] ELSE row]

SetStatus(i, s) == payments' = [payments EXCEPT ![i].status = s]

-----------------------------------------------------------------------------
(***************************************************************************)
(* Eligibility (deposits.py), shared by the three rails.                   *)
(***************************************************************************)

Asked == [i \in Id |-> payments[i].amount]
Deposits(u, statuses) == {i \in Id : payments[i].user = u /\ payments[i].status \in statuses}

\* Faulty variant: the manual rail's statuses are not counted.
today_total_automatic(u) ==
    SumFunctionOnSet(Asked, Deposits(u, {"pending", "processing", "succeeded"}))

today_total(u) == SumFunctionOnSet(Asked, Deposits(u, Counted))

check_deposit_eligibility(u, amount) ==
    /\ u \notin Barred
    /\ today_total(u) + amount <= DailyCap

Busy(u) == \E h \in Handler : handling[h] # Idle /\ handling[h].user = u

\* A request passes its checks and is about to write.
Begin(h, u, what) ==
    /\ handling[h] = Idle
    /\ check_deposit_eligibility(u, what.amount)
    /\ handling' = [handling EXCEPT ![h] = what]
    /\ overlapped' = IF Busy(u) THEN overlapped \union {u} ELSE overlapped
    /\ UNCHANGED <<rows, evidence, recipient, chapa, poll>>

CreateIntent(h, u, a) ==
    /\ a >= MinDeposit
    /\ Begin(h, u, [op |-> "intent", at |-> "checked", user |-> u, amount |-> a, id |-> 0])

ManualRequest(h, u, a) ==
    /\ a >= MinDeposit /\ recipient
    /\ Begin(h, u, [op |-> "manual", at |-> "checked", user |-> u, amount |-> a])

\* SELECT ... FOR UPDATE on the evidence row: held until the handler ends.
Locked(r) == \E h \in Handler :
    handling[h] # Idle /\ handling[h].op = "redeem" /\ handling[h].ref = r

RedeemEvidence(h, u, r) ==
    /\ ~Locked(r)
    /\ evidence[r].status = "available"
    /\ Begin(h, u, [op |-> "redeem", at |-> "checked", user |-> u,
                    amount |-> evidence[r].amount, ref |-> r])

At(h, op, at) == handling[h] # Idle /\ handling[h].op = op /\ handling[h].at = at
Done(h) == handling' = [handling EXCEPT ![h] = Idle]

-----------------------------------------------------------------------------
(***************************************************************************)
(* Chapa checkout: INSERT, call the provider, record what it answered.     *)
(***************************************************************************)

InsertIntent(h) ==
    /\ At(h, "intent", "checked")
    /\ Insert(Row(handling[h].user, "chapa", handling[h].amount, "pending"))
    /\ handling' = [handling EXCEPT ![h].at = "calling", ![h].id = NewId]
    /\ UNCHANGED <<events, cash, bonuses, evidence, recipient, chapa, poll, overlapped>>

CheckoutCreated(h) ==
    /\ At(h, "intent", "calling")
    /\ chapa' = [chapa EXCEPT ![handling[h].id].status = "pending"]
    /\ handling' = [handling EXCEPT ![h].at = "called"]
    /\ UNCHANGED <<rows, evidence, recipient, poll, overlapped>>

\* The call failed, or timed out after Chapa had acted on it.
CheckoutFailed(h) ==
    /\ At(h, "intent", "calling") \/ At(h, "intent", "called")
    /\ SetStatus(handling[h].id, "failed")
    /\ Done(h)
    /\ UNCHANGED <<events, cash, bonuses, evidence, recipient, chapa, poll, overlapped>>

\* UPDATE ... 'processing', with no guard on the status; the URL goes out.
RecordCheckout(h) ==
    /\ At(h, "intent", "called")
    /\ payments' = [payments EXCEPT ![handling[h].id].status = "processing",
                                    ![handling[h].id].url = TRUE]
    /\ Done(h)
    /\ UNCHANGED <<events, cash, bonuses, evidence, recipient, chapa, poll, overlapped>>

\* The process handling the request stops; an open transaction rolls back.
Crash(h) ==
    /\ handling[h] # Idle
    /\ Done(h)
    /\ UNCHANGED <<rows, evidence, recipient, chapa, poll, overlapped>>

\* external: the player pays on Chapa's page, or the checkout ends unpaid.
ChapaEnds(i, s, a) ==
    /\ i \in Id /\ chapa[i].status = "pending"
    /\ s = "succeeded" => payments[i].url
    /\ chapa' = [chapa EXCEPT ![i] = [status |-> s, amount |-> a]]
    /\ UNCHANGED <<rows, evidence, recipient, handling, poll, overlapped>>

-----------------------------------------------------------------------------
(***************************************************************************)
(* _apply_confirmed_status: one transaction, for a webhook and for a poll. *)
(***************************************************************************)

Apply(i, event, report) ==
    LET row == payments[i]
    IN  /\ events' = events \union {event}
        /\ \/ /\ event \in events \/ row.status = "succeeded"        \* duplicate
              /\ UNCHANGED <<payments, cash, bonuses>>
           \/ /\ event \notin events /\ row.status # "succeeded"
              /\ \/ /\ report.status = "pending"
                    /\ UNCHANGED <<payments, cash, bonuses>>
                 \/ /\ report.status \in Failure
                    /\ SetStatus(i, report.status)
                    /\ UNCHANGED <<cash, bonuses>>
                 \/ /\ report.status = "succeeded" /\ report.amount # row.amount
                    /\ SetStatus(i, "review")
                    /\ UNCHANGED <<cash, bonuses>>
                 \/ /\ report.status = "succeeded" /\ report.amount = row.amount
                    /\ Credited(i, payments, row)

\* external: what a webhook may carry; it may be lost, repeated, or late.
Reports(i) == IF chapa[i].status = "none" THEN {} ELSE {NoReport, chapa[i]}

\* event_id is Chapa's reference: one per transaction, whatever it reports.
HandleWebhook(i, report) ==
    /\ i \in Id
    /\ Apply(i, <<"chapa", i>>, report)
    /\ UNCHANGED <<evidence, recipient, chapa, handling, poll, overlapped>>

\* A pass of poll_pending_deposits lists the rows that are processing and
\* asks Chapa about each in turn.  A status call that raises gives up the
\* rest of the pass: the rows left over wait for the next one.
PollFetch(i) ==
    /\ poll.got = 0
    /\ i \in Id /\ payments[i].rail = "chapa" /\ payments[i].status = "processing"
    /\ poll' = [got |-> i, report |-> chapa[i]]
    /\ UNCHANGED <<rows, evidence, recipient, chapa, handling, overlapped>>

\* Faulty variant: one event per payment, whatever the poll saw.
poll_event_once(i, status) == <<"poll", i>>

poll_event(i, status) == <<"poll", i, status>>

PollApply ==
    /\ poll.got # 0
    /\ Apply(poll.got, poll_event(poll.got, poll.report.status), poll.report)
    /\ poll' = [got |-> 0, report |-> NoReport]
    /\ UNCHANGED <<evidence, recipient, chapa, handling, overlapped>>

-----------------------------------------------------------------------------
(***************************************************************************)
(* Manual requests and the admin's decision (maker and checker).           *)
(***************************************************************************)

InsertManual(h) ==
    /\ At(h, "manual", "checked")
    /\ Insert(Row(handling[h].user, "manual", handling[h].amount, "review"))
    /\ Done(h)
    /\ UNCHANGED <<events, cash, bonuses, evidence, recipient, chapa, poll, overlapped>>

Awaiting(i) == i \in Id /\ payments[i].rail = "manual" /\ payments[i].status = "review"

\* Faulty variant: any second click is a second approval.
two_person_gate_twice(i, a) ==
    IF payments[i].amount >= TwoPerson /\ payments[i].first = NoAdmin
    THEN "awaiting_second_approval" ELSE "proceed"

two_person_gate(i, a) ==
    IF payments[i].amount < TwoPerson THEN "proceed"
    ELSE IF payments[i].first = NoAdmin THEN "awaiting_second_approval"
    ELSE IF payments[i].first = a THEN "same_admin" ELSE "proceed"

ApproveManual(i, a) ==
    /\ Awaiting(i)
    /\ \/ /\ two_person_gate(i, a) = "awaiting_second_approval"
          /\ payments' = [payments EXCEPT ![i].first = a]
          /\ UNCHANGED <<cash, bonuses>>
       \/ /\ two_person_gate(i, a) = "proceed"
          /\ Credited(i, payments, [payments[i] EXCEPT !.by = a])
    /\ UNCHANGED <<events, evidence, recipient, chapa, handling,
                   poll, overlapped>>

RejectManual(i) ==
    /\ Awaiting(i)
    /\ SetStatus(i, "rejected")
    /\ UNCHANGED <<events, cash, bonuses, evidence, recipient, chapa, handling, poll, overlapped>>

-----------------------------------------------------------------------------
(***************************************************************************)
(* Telebirr messages: ingestion, review, redemption.                       *)
(***************************************************************************)

\* A message already on file is a no-op; another body under the same
\* reference is never taken as an update.
Ingest(m) ==
    LET old == evidence[m.ref]
    IN  /\ ~Locked(m.ref)
        /\ \/ /\ old.status = "none"
              /\ evidence' = [evidence EXCEPT ![m.ref] =
                    [status |-> IF recipient THEN "available" ELSE "rejected",
                     body |-> m.body, amount |-> m.amount, owner |-> NoUser, id |-> 0]]
           \/ /\ old.status \notin {"none", "redeemed", "disputed"}
              /\ old.body # m.body
              /\ evidence' = [evidence EXCEPT ![m.ref].status = "disputed"]
        /\ UNCHANGED <<rows, recipient, chapa, handling, poll, overlapped>>

\* Faulty variant: a redeemed message may be released.
EvidenceTransitions_release(from) ==
    IF from = "redeemed" THEN {"available"} ELSE
    IF from \in {"disputed", "rejected"} THEN {"available"} ELSE {}

EvidenceTransitions(from) ==
    CASE from = "available" -> {"blocked", "disputed"}
      [] from = "blocked"   -> {"disputed", "available"}
      [] from \in {"disputed", "rejected"} -> {"available"}
      [] OTHER -> {}

ResolveEvidence(r, to) ==
    /\ ~Locked(r)
    /\ to \in EvidenceTransitions(evidence[r].status)
    /\ evidence' = [evidence EXCEPT ![r].status = to]
    /\ UNCHANGED <<rows, recipient, chapa, handling, poll, overlapped>>

CommitRedeem(h) ==
    LET i == NewId
        u == handling[h].user
        r == handling[h].ref
    IN  /\ At(h, "redeem", "checked")
        /\ i <= MaxPayments
        /\ Credited(i, payments, Row(u, "telebirr_sms", handling[h].amount, "succeeded"))
        /\ evidence' = [evidence EXCEPT ![r].status = "redeemed", ![r].owner = u, ![r].id = i]
        /\ Done(h)
        /\ UNCHANGED <<events, recipient, chapa, poll, overlapped>>

-----------------------------------------------------------------------------
(***************************************************************************)
(* What the console and the player change underneath.                      *)
(***************************************************************************)

ConfigureDestination(on) ==
    /\ recipient' = on /\ on # recipient
    /\ UNCHANGED <<rows, evidence, chapa, handling, poll, overlapped>>

RequestStep(h) ==
    \/ \E u \in User, a \in Amount : CreateIntent(h, u, a) \/ ManualRequest(h, u, a)
    \/ \E u \in User, r \in Ref : RedeemEvidence(h, u, r)
    \/ InsertIntent(h) \/ CheckoutCreated(h) \/ CheckoutFailed(h) \/ RecordCheckout(h)
    \/ InsertManual(h) \/ CommitRedeem(h) \/ Crash(h)

ProviderStep ==
    \/ \E i \in 1 .. MaxPayments, a \in Paid : ChapaEnds(i, "succeeded", a)
    \/ \E i \in 1 .. MaxPayments, s \in Failure : ChapaEnds(i, s, 0)
    \/ \E i \in 1 .. MaxPayments : \E report \in Reports(i) : HandleWebhook(i, report)
    \/ PollApply
    \/ \E i \in 1 .. MaxPayments : PollFetch(i)

ConsoleStep ==
    \/ \E i \in 1 .. MaxPayments : RejectManual(i) \/ \E a \in Admin : ApproveManual(i, a)
    \/ \E m \in Message : Ingest(m)
    \/ \E r \in Ref, to \in {"available", "blocked", "disputed"} : ResolveEvidence(r, to)
    \/ \E on \in BOOLEAN : ConfigureDestination(on)

Next == (\E h \in Handler : RequestStep(h)) \/ ProviderStep \/ ConsoleStep
Spec == Init /\ [][Next]_vars

(***************************************************************************)
(* The payout worker's loop runs the poll on a timer and catches what a    *)
(* pass raises; a status call may fail, but not for ever.  Nothing obliges *)
(* Chapa to deliver a webhook.                                             *)
(***************************************************************************)
Fairness ==
    /\ WF_vars(PollApply)
    /\ \A i \in 1 .. MaxPayments : SF_vars(PollFetch(i))
FairSpec == Spec /\ Fairness

-----------------------------------------------------------------------------
(***************************************************************************)
(* The hourly reconciliations: what each of them would report.             *)
(***************************************************************************)

\* Payments where Chapa's status or amount is not ours; a row Chapa does not
\* know is one only if we have it as succeeded.
reconcile ==
    {i \in Id :
        /\ payments[i].rail = "chapa"
        /\ LET ours == payments[i].status = "succeeded"
               theirs == chapa[i].status = "succeeded"
           IN  ours # theirs \/ (theirs /\ chapa[i].amount # payments[i].amount)}

Sources(i) == {r \in Ref : evidence[r].status # "none" /\ evidence[r].id = i}

find_evidence_source_mismatches ==
    {i \in Id : payments[i].rail = "telebirr_sms" /\ Cardinality(Sources(i)) # 1}

\* What stands behind a credit on each rail.
Backed(i) ==
    LET row == payments[i]
    IN  CASE row.rail = "chapa" -> chapa[i] = [status |-> "succeeded", amount |-> row.amount]
          [] row.rail = "manual" -> /\ row.by # NoAdmin
                                    /\ row.amount >= TwoPerson => row.first \notin {NoAdmin, row.by}
          [] row.rail = "telebirr_sms" ->
                /\ Sources(i) # {} /\ i \notin find_evidence_source_mismatches
                /\ \A r \in Sources(i) : evidence[r].owner = row.user /\ evidence[r].amount = row.amount

\* However webhooks, polls, approvals and redemptions repeat and interleave,
\* a player's cash is the sum of the deposits marked succeeded, and every
\* one of those stands on money the rail received: a full payment at Chapa,
\* the approvals of two people for a large manual request, or one message
\* that no other payment redeemed.
CreditMatchesMoney ==
    /\ \A u \in User : cash[u] = SumFunctionOnSet(Asked, Deposits(u, {"succeeded"}))
    /\ \A i \in Id : payments[i].status = "succeeded" => Backed(i)

\* A referee earns at most one reward, a player at most MaxGrants under one
\* rule, and never more welcome bonuses than deposits that were credited.
BonusesEarned ==
    /\ \A u \in User : Cardinality({b \in bonuses : b.of = u}) <= 1
    /\ \A u \in User, r \in {b.rule : b \in bonuses} : Cardinality(Grants(bonuses, u, r)) <= MaxGrants
    /\ \A u \in User :
            Cardinality({b \in bonuses : b.user = u /\ b.of = NoUser})
            <= Cardinality(Deposits(u, {"succeeded"}))

\* A mismatch the hourly job reports is a deposit still under way or one set
\* aside for review: no row ends in a status that Chapa contradicts.
AlarmsExplained ==
    \A i \in reconcile : payments[i].status \in {"processing", "review"}

\* What a deposit brought, in cash and in bonuses, and what the job that
\* compares the rows with Chapa may find.
DepositsAccounted == CreditMatchesMoney /\ BonusesEarned /\ AlarmsExplained

\* The daily cap bounds what a player has credited or under way, in every
\* order of requests, reviews and late reports, unless two requests of that
\* player were being handled at once: the check takes no lock.
CapHoldsUnlessOverlapped ==
    \A u \in User \ overlapped : today_total(u) <= DailyCap

\* A credited deposit keeps its status, and a redeemed message its owner:
\* no late webhook, no console action and no unguarded UPDATE reopens them.
CreditIsFinal ==
    [][/\ \A i \in Id : payments[i].status = "succeeded" => payments'[i].status = "succeeded"
       /\ \A r \in Ref : evidence[r].status = "redeemed" => evidence'[r] = evidence[r]]_vars

\* A checkout paid in full is credited although its webhook may be lost, be
\* swallowed as a duplicate of an earlier one, or race the poll.
PaidIsCredited ==
    \A i \in 1 .. MaxPayments :
        (i \in Id /\ chapa[i].status = "succeeded" /\ chapa[i].amount = payments[i].amount)
            ~> (i \in Id /\ payments[i].status = "succeeded")

-----------------------------------------------------------------------------
(***************************************************************************)
(* What makes them inductive.                                              *)
(***************************************************************************)
PaymentRow ==
    [user : User, rail : {"chapa", "manual", "telebirr_sms"}, amount : Nat,
     status : {"pending", "processing", "review", "succeeded", "rejected", "failed", "cancelled"},
     first : Admin \union {NoAdmin}, by : Admin \union {NoAdmin}, txn : BOOLEAN, url : BOOLEAN]

Report == [status : {"none", "pending", "succeeded"} \union Failure, amount : Nat]

Evidence ==
    {[status |-> "none"]} \union
    [status : {"available", "rejected", "disputed", "blocked", "redeemed"}, body : Nat,
     amount : Nat, owner : User \union {NoUser}, id : Nat]

TypeOK ==
    /\ IsFiniteSet(Id) /\ Id = 1 .. Cardinality(Id) /\ Cardinality(Id) <= MaxPayments
    /\ payments \in [Id -> PaymentRow]
    /\ cash \in [User -> Int]
    /\ evidence \in [Ref -> Evidence]
    /\ chapa \in [1 .. MaxPayments -> Report]
    /\ handling \in [Handler -> {Idle} \union Intents \union ManualRequests \union Redemptions]
    /\ poll.got \in Id \union {0} /\ poll \in [got : Nat, report : Report]
    /\ recipient \in BOOLEAN
    /\ overlapped \subseteq User
    /\ IsFiniteSet(bonuses)

Calling(h) == At(h, "intent", "calling") \/ At(h, "intent", "called")

\* A checkout is between its INSERT and its answer in one handler at most, and
\* its address has not gone out.
CheckoutsHeld ==
    \A h \in Handler : Calling(h) =>
        /\ handling[h].id \in Id
        /\ LET row == payments[handling[h].id]
           IN  /\ row.rail = "chapa" /\ ~row.url /\ row.status # "succeeded"
               /\ row.user = handling[h].user /\ row.amount = handling[h].amount
        /\ At(h, "intent", "calling") => chapa[handling[h].id].status = "none"
        /\ \A g \in Handler : Calling(g) /\ handling[g].id = handling[h].id => g = h

\* Chapa takes money through an address that went out, of a row that is still
\* open; what the poll holds is what Chapa says, or said while it was open.
ProviderAgrees ==
    /\ \A i \in 1 .. MaxPayments : chapa[i].status # "none" => i \in Id /\ payments[i].rail = "chapa"
    /\ \A i \in Id :
         /\ chapa[i].status = "succeeded" =>
                payments[i].url /\ payments[i].status \in {"processing", "review", "succeeded"}
         /\ chapa[i].status = "pending" /\ payments[i].url => payments[i].status = "processing"
         /\ payments[i].url => payments[i].rail = "chapa"
    /\ poll.got # 0 =>
         /\ payments[poll.got].rail = "chapa"
         /\ poll.report.status \in {"succeeded"} \union Failure => poll.report = chapa[poll.got]

\* A message being redeemed is held by one handler, and one that was redeemed
\* names the payment.
MessagesHeld ==
    /\ \A h \in Handler : At(h, "redeem", "checked") =>
         /\ evidence[handling[h].ref].status = "available"
         /\ evidence[handling[h].ref].amount = handling[h].amount
         /\ \A g \in Handler : At(g, "redeem", "checked") /\ handling[g].ref = handling[h].ref => g = h
    /\ \A r \in Ref : evidence[r].status # "none" =>
         IF evidence[r].status = "redeemed" THEN evidence[r].id \in Id ELSE evidence[r].id = 0

\* The key of a credit is in the journal exactly when the row says so.
PostedIsSucceeded == \A i \in Id : payments[i].txn <=> payments[i].status = "succeeded"

\* What a player has counted, with what the request in hand is about to count.
RoomLeft ==
    \A u \in User \ overlapped : \A h \in Handler :
        handling[h] # Idle /\ handling[h].user = u =>
            /\ \A g \in Handler : handling[g] # Idle /\ handling[g].user = u => g = h
            /\ IF Calling(h)
               THEN SumFunctionOnSet(Asked, Deposits(u, Counted) \union {handling[h].id}) <= DailyCap
               ELSE today_total(u) + handling[h].amount <= DailyCap

IndInv ==
    /\ TypeOK /\ CheckoutsHeld /\ ProviderAgrees /\ MessagesHeld /\ PostedIsSucceeded /\ RoomLeft
    /\ CreditMatchesMoney /\ BonusesEarned /\ CapHoldsUnlessOverlapped
=============================================================================
