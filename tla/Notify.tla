------------------------------- MODULE Notify -------------------------------
(***************************************************************************)
(* Telegram messages: the notification stream, the relay that drains it,   *)
(* the Notifier that talks to Telegram, and the campaigns of the           *)
(* Notification Center whose worker feeds the same stream                  *)
(* (packages/core/notifications.py, packages/core/campaigns.py,            *)
(* services/bot/notification_relay.py, notifier.py, campaign_worker.py,    *)
(* services/admin/notification_queries.py).                                *)
(*                                                                         *)
(* Relay, Notifier and worker are tasks of the bot process: they           *)
(* interleave at every await and die together in a crash.  The stream with *)
(* its pending entries (Redis) and the delivery rows (Postgres) survive.   *)
(* No statement of the worker or the relay is in a transaction with        *)
(* another, so each is a step.                                             *)
(*                                                                         *)
(* Left out: message text and templates, the pace of sending, direct       *)
(* replies of the bot's handlers, and players who exclude themselves after *)
(* a campaign resolved its audience (they are still sent to).              *)
(***************************************************************************)
EXTENDS Naturals, FiniteSets, Sequences, SequencesExt

CONSTANTS
    Campaigns, Users,
    Notices,        \* transactional messages other services raise
    NoticeUser,     \* NoticeUser[n]: whom the notice is for
    Audiences,      \* bound: the audiences a campaign is given
    broken,         \* a filter no query can be built from, or run with
    Excluded,       \* players self-excluded, banned or cooling off
    MaxAttempts,    \* max_attempts of the Notifier
    BatchSize,      \* entries the relay reads at once
    MaxFaults       \* bound: crashes, failing calls, and reclaims of a delivery
                    \* that is still under way

Deliveries == Campaigns \X Users

ASSUME NotifyAssumption ==
    /\ NoticeUser \in [Notices -> Users]
    /\ Audiences \subseteq SUBSET Users /\ Excluded \subseteq Users
    /\ MaxAttempts \in Nat \ {0} /\ BatchSize \in Nat \ {0}
    /\ MaxFaults \in Nat
    /\ Notices \cap Deliveries = {} /\ broken \notin Audiences

VARIABLES
    campaign,       \* notification_campaigns.status
    audience,       \* audience_filter and exclude_user_ids
    resolved,       \* recipient_count is set
    delivery,       \* notification_deliveries.status
    worker,         \* the campaign worker's tick
    stream,         \* entries no consumer has read
    pel,            \* entries read and not acknowledged
    batch,          \* what the relay still has to do, each user's entries in order
    hand,           \* hand[u]: what process_one is doing for u
    backoff,        \* chats Telegram asked to leave alone for a while
    raised,         \* notices that were raised
    errors,         \* crashes and failed calls so far
    sends,          \* sends[r]: how often Telegram took message r
    unrecorded,     \* sends whose outcome could not be recorded
    early           \* deliveries reclaimed while they were still under way

notifyVars == <<campaign, audience, resolved, delivery, worker, stream, pel, batch, hand,
                backoff, raised, errors, sends, unrecorded, early>>
tables == <<campaign, audience, resolved, delivery>>
relay == <<pel, batch, hand, backoff, sends, unrecorded>>

Messages == Deliveries \cup Notices

Entry == [user : Users, ref : Messages]
entry(r) == [user |-> IF r \in Deliveries THEN r[2] ELSE NoticeUser[r], ref |-> r]

mayFail == errors + Cardinality(early) < MaxFaults

Ended == {"completed", "partially_failed", "failed"}
Final == {"delivered", "failed", "cancelled"}

idle == [at |-> "idle", attempts |-> 0, outcome |-> "none"]
newTick == [pc |-> "claim", todo |-> {}, rows |-> {}, row |-> {}]

NotifyTypeOK ==
    /\ campaign \in [Campaigns -> {"none", "draft", "queued", "scheduled", "sending",
                                   "cancelled"} \cup Ended]
    /\ audience \in [Campaigns -> Audiences \cup {{}, broken}]
    /\ resolved \in [Campaigns -> BOOLEAN]
    /\ delivery \in [Deliveries -> {"none", "pending", "processing"} \cup Final]
    /\ worker \in [pc : {"claim", "reclaim", "seed", "count", "select", "mark",
                         "enqueue", "finalize"},
                   todo : SUBSET Campaigns, rows : SUBSET Deliveries, row : SUBSET Deliveries]
    /\ stream \in Seq(Entry) /\ pel \in Seq(Entry) /\ batch \in Seq(Entry)
    /\ hand \in [Users -> [at : {"idle", "queued", "done", "marked"}, attempts : 0..MaxAttempts,
                           outcome : {"none", "delivered", "failed"}]]
    /\ backoff \subseteq Users /\ raised \subseteq Notices /\ errors \in Nat
    /\ sends \in [Messages -> Nat] /\ unrecorded \in [Messages -> Nat]
    /\ early \subseteq Deliveries

NotifyInit ==
    /\ campaign = [c \in Campaigns |-> "none"]
    /\ audience = [c \in Campaigns |-> {}]
    /\ resolved = [c \in Campaigns |-> FALSE]
    /\ delivery = [d \in Deliveries |-> "none"]
    /\ worker = newTick
    /\ stream = <<>> /\ pel = <<>>
    /\ batch = <<>>
    /\ hand = [u \in Users |-> idle]
    /\ backoff = {} /\ raised = {} /\ errors = 0
    /\ sends = [r \in Messages |-> 0]
    /\ unrecorded = [r \in Messages |-> 0]
    /\ early = {}

-----------------------------------------------------------------------------
(* The Notification Center *)

(* The filter is stored as it is: campaigns are not validated. *)
CreateCampaign(c, a) ==
    /\ campaign[c] = "none"
    /\ campaign' = [campaign EXCEPT ![c] = "draft"]
    /\ audience' = [audience EXCEPT ![c] = a]
    /\ UNCHANGED <<resolved, delivery, worker, stream, relay, raised, errors, early>>

UpdateCampaign(c, a) ==
    /\ campaign[c] = "draft"
    /\ audience' = [audience EXCEPT ![c] = a]
    /\ UNCHANGED <<campaign, resolved, delivery, worker, stream, relay, raised, errors, early>>

DeleteDraft(c) ==
    /\ campaign[c] = "draft"
    /\ campaign' = [campaign EXCEPT ![c] = "none"]
    /\ audience' = [audience EXCEPT ![c] = {}]
    /\ UNCHANGED <<resolved, delivery, worker, stream, relay, raised, errors, early>>

AllowedTransitions ==
    {<<"draft", "queued">>, <<"draft", "scheduled">>, <<"scheduled", "scheduled">>,
     <<"scheduled", "cancelled">>, <<"queued", "cancelled">>}

(* send now, schedule and reschedule; cancel also cancels the deliveries   *)
(* that are pending.                                                       *)
TransitionCampaign(c, to_status) ==
    /\ <<campaign[c], to_status>> \in AllowedTransitions
    /\ campaign' = [campaign EXCEPT ![c] = to_status]
    /\ delivery' = [d \in Deliveries |->
           IF to_status = "cancelled" /\ d[1] = c /\ delivery[d] = "pending"
           THEN "cancelled" ELSE delivery[d]]
    /\ UNCHANGED <<audience, resolved, worker, stream, relay, raised, errors, early>>

EditRoutes ==
    \E c \in Campaigns :
        \/ \E a \in Audiences \cup {broken} : CreateCampaign(c, a) \/ UpdateCampaign(c, a)
        \/ DeleteDraft(c)

SendRoutes ==
    \E c \in Campaigns, to_status \in {"queued", "scheduled", "cancelled"} :
        TransitionCampaign(c, to_status)

-----------------------------------------------------------------------------
(* The campaign worker *)

Goto(pc) == worker' = [worker EXCEPT !.pc = pc]

sending == {c \in Campaigns : campaign[c] = "sending"}

(* _claim_due_campaigns; whether a scheduled campaign is due is a matter   *)
(* of time.                                                                *)
ClaimDue(due) ==
    /\ worker.pc = "claim"
    /\ \A c \in due : campaign[c] = "scheduled"
    /\ campaign' = [c \in Campaigns |->
           IF c \in due \/ campaign[c] = "queued" THEN "sending" ELSE campaign[c]]
    /\ Goto("reclaim")
    /\ UNCHANGED <<audience, resolved, delivery, stream, relay, raised, errors, early>>

underWay(d) ==
    \/ Contains(stream \o pel, entry(d))
    \/ worker.row = {d}

(* _reclaim_stuck_deliveries: which deliveries have been processing for    *)
(* more than RECLAIM_STUCK_AFTER_SECONDS is a matter of time, and one that *)
(* waits in a long queue may be among them (a fault, counted as such).     *)
(* The campaigns to send are listed with it: only the worker changes that. *)
Reclaim(stuck) ==
    /\ worker.pc = "reclaim"
    /\ \A d \in stuck : delivery[d] = "processing"
    /\ \A d \in stuck : d \in early => ~underWay(d)
    /\ early' = early \cup {d \in stuck : underWay(d)}
    /\ errors + Cardinality(early') <= MaxFaults
    /\ delivery' = [d \in Deliveries |-> IF d \in stuck THEN "pending" ELSE delivery[d]]
    /\ worker' = [worker EXCEPT !.pc = IF sending = {} THEN "finalize" ELSE "seed",
                                !.todo = sending]
    /\ UNCHANGED <<campaign, audience, resolved, stream, relay, raised, errors>>

(* The campaign the tick is at, and where it goes when that one is done. *)
current == CHOOSE c \in worker.todo : TRUE
nextCampaign ==
    LET rest == worker.todo \ {current}
    IN [worker EXCEPT !.pc = IF rest = {} THEN "finalize" ELSE "seed", !.todo = rest,
                      !.rows = {}, !.row = {}]

(* Excluded players are left out whatever the filter asks for. *)
resolve_audience_user_ids(c) == audience[c] \ Excluded

(* _resolve_and_seed_deliveries: nothing to do once recipient_count is     *)
(* set; otherwise the audience is resolved and its rows are created.       *)
SeedDeliveries ==
    /\ worker.pc = "seed"
    /\ IF resolved[current] THEN delivery' = delivery /\ Goto("select")
       ELSE /\ audience[current] # broken
            /\ delivery' = [d \in Deliveries |->
                   IF /\ d[1] = current /\ d[2] \in resolve_audience_user_ids(current)
                      /\ delivery[d] = "none"
                   THEN "pending" ELSE delivery[d]]
            /\ Goto("count")
    /\ UNCHANGED <<campaign, audience, resolved, stream, relay, raised, errors, early>>

(* A filter that does not resolve raises out of the tick: run_forever logs *)
(* it and begins the next one.                                             *)
ResolveFails ==
    /\ worker.pc = "seed" /\ ~resolved[current] /\ audience[current] = broken
    /\ worker' = newTick
    /\ UNCHANGED <<tables, stream, relay, raised, errors, early>>

SetRecipientCount ==
    /\ worker.pc = "count"
    /\ resolved' = [resolved EXCEPT ![current] = TRUE]
    /\ Goto("select")
    /\ UNCHANGED <<campaign, audience, delivery, stream, relay, raised, errors, early>>

(* _dispatch_pending_deliveries reads the pending rows once ... *)
SelectPending ==
    LET rows == {d \in Deliveries : d[1] = current /\ delivery[d] = "pending"}
    IN /\ worker.pc = "select"
       /\ worker' = IF rows = {} THEN nextCampaign
                    ELSE [worker EXCEPT !.pc = "mark", !.rows = rows]
       /\ UNCHANGED <<tables, stream, relay, raised, errors, early>>

(* ... and marks and enqueues them one by one; the UPDATE does not look at *)
(* the status again.                                                       *)
MarkProcessing(d) ==
    /\ worker.pc = "mark" /\ d \in worker.rows
    /\ delivery' = [delivery EXCEPT ![d] = "processing"]
    /\ worker' = [worker EXCEPT !.pc = "enqueue", !.rows = @ \ {d}, !.row = {d}]
    /\ UNCHANGED <<campaign, audience, resolved, stream, relay, raised, errors, early>>

EnqueueCampaignMessage ==
    /\ worker.pc = "enqueue"
    /\ \E d \in worker.row : stream' = Append(stream, entry(d))
    /\ worker' = IF worker.rows = {} THEN nextCampaign
                 ELSE [worker EXCEPT !.pc = "mark", !.row = {}]
    /\ UNCHANGED <<tables, relay, raised, errors, early>>

(* A statement or the XADD raises: the tick ends where it is, a row that   *)
(* was marked and not enqueued stays processing.                           *)
TickFails ==
    /\ worker # newTick /\ mayFail
    /\ worker' = newTick
    /\ errors' = errors + 1
    /\ UNCHANGED <<tables, stream, relay, raised, early>>

(* Faulty variant: only rows nobody has taken up hold a campaign back. *)
unfinished_pending(c) == \E u \in Users : delivery[<<c, u>>] = "pending"

unfinished(c) == \E u \in Users : delivery[<<c, u>>] \notin Final \cup {"none"}

(* _finalize_completed_campaigns *)
FinalizeCompleted ==
    LET some(c, s) == \E u \in Users : delivery[<<c, u>>] = s
        new_status(c) == IF ~some(c, "failed") THEN "completed"
                         ELSE IF ~some(c, "delivered") THEN "failed" ELSE "partially_failed"
    IN /\ worker.pc = "finalize"
       /\ campaign' = [c \in Campaigns |->
              IF c \in sending /\ ~unfinished(c) THEN new_status(c) ELSE campaign[c]]
       /\ worker' = newTick
       /\ UNCHANGED <<audience, resolved, delivery, stream, relay, raised, errors, early>>

WorkerStep ==
    \/ \E due \in SUBSET Campaigns : ClaimDue(due)
    \/ \E stuck \in SUBSET Deliveries : Reclaim(stuck)
    \/ SeedDeliveries \/ ResolveFails \/ SetRecipientCount \/ SelectPending
    \/ \E d \in Deliveries : MarkProcessing(d)
    \/ EnqueueCampaignMessage \/ FinalizeCompleted

-----------------------------------------------------------------------------
(* The relay and the Notifier *)

(* notify_user after some money moved; a failing XADD is logged and the    *)
(* notice is lost.                                                         *)
NotifyUser(n) ==
    /\ n \notin raised
    /\ raised' = raised \cup {n}
    /\ \/ stream' = Append(stream, entry(n)) /\ errors' = errors
       \/ mayFail /\ errors' = errors + 1 /\ stream' = stream
    /\ UNCHANGED <<tables, worker, relay, early>>

(* The batch before this one is done for every user: what was not          *)
(* acknowledged is read again, and only if there is nothing, fresh entries. *)
drained == batch = <<>>
ofUser(u) == {i \in 1..Len(batch) : batch[i].user = u}
next(u) == batch[Min(ofUser(u))]

ReadPending ==
    /\ drained /\ pel # <<>>
    /\ batch' = SubSeq(pel, 1, IF Len(pel) < BatchSize THEN Len(pel) ELSE BatchSize)
    /\ UNCHANGED <<tables, worker, stream, pel, hand, backoff, raised, errors, sends,
                   unrecorded, early>>

ReadFresh ==
    LET n == IF Len(stream) < BatchSize THEN Len(stream) ELSE BatchSize
    IN /\ drained /\ pel = <<>> /\ stream # <<>>
       /\ pel' = SubSeq(stream, 1, n)
       /\ stream' = SubSeq(stream, n + 1, Len(stream))
       /\ batch' = pel'
       /\ UNCHANGED <<tables, worker, hand, backoff, raised, errors, sends, unrecorded, early>>

(* Faulty variant: every entry read is sent. *)
resolved_already_never(r) == FALSE

(* The guard that makes a second entry of a delivery harmless. *)
resolved_already(r) == r \in Deliveries /\ delivery[r] # "processing"

Drop(u) == batch' = RemoveAt(batch, Min(ofUser(u)))
Acknowledge(u) == pel' = RemoveFirst(pel, next(u))

(* Faulty variant: the early return forgets the XACK. *)
SkipEntry_unacked(u) ==
    /\ ofUser(u) # {} /\ hand[u] = idle
    /\ resolved_already(next(u).ref)
    /\ Drop(u)
    /\ UNCHANGED <<tables, worker, stream, pel, hand, backoff, raised, errors, sends, unrecorded, early>>

SkipEntry(u) ==
    /\ ofUser(u) # {} /\ hand[u] = idle
    /\ resolved_already(next(u).ref)
    /\ Acknowledge(u) /\ Drop(u)
    /\ UNCHANGED <<tables, worker, stream, hand, backoff, raised, errors, sends, unrecorded, early>>

NotifierSend(u) ==
    /\ ofUser(u) # {} /\ hand[u] = idle
    /\ ~resolved_already(next(u).ref)
    /\ hand' = [hand EXCEPT ![u].at = "queued"]
    /\ UNCHANGED <<tables, worker, stream, pel, batch, backoff, raised, errors, sends,
                   unrecorded, early>>

(* _get_next: notices before campaign messages; a chat that is backed off  *)
(* is in neither lane.                                                     *)
ready == {u \in Users : hand[u].at = "queued" /\ u \notin backoff}
isNext(u) ==
    /\ u \in ready
    /\ next(u).ref \in Deliveries => \A v \in ready : next(v).ref \in Deliveries

Delivered(u) ==
    /\ isNext(u)
    /\ hand' = [hand EXCEPT ![u] = [@ EXCEPT !.at = "done", !.outcome = "delivered"]]
    /\ sends' = [sends EXCEPT ![next(u).ref] = @ + 1]
    /\ UNCHANGED <<tables, worker, stream, pel, batch, backoff, raised, errors, unrecorded, early>>

(* The player blocked the bot, or Telegram refused the text. *)
NotDelivered(u) ==
    /\ isNext(u)
    /\ hand' = [hand EXCEPT ![u] = [@ EXCEPT !.at = "done", !.outcome = "failed"]]
    /\ UNCHANGED <<tables, worker, stream, pel, batch, backoff, raised, errors, sends,
                   unrecorded, early>>

(* TelegramRetryAfter: back into its lane, or given up. *)
RetryAfter(u) ==
    LET n == hand[u].attempts + 1
    IN /\ isNext(u)
       /\ backoff' = backoff \cup {u}
       /\ hand' = [hand EXCEPT ![u] =
              IF n < MaxAttempts THEN [@ EXCEPT !.attempts = n]
              ELSE [at |-> "done", attempts |-> n, outcome |-> "failed"]]
       /\ UNCHANGED <<tables, worker, stream, pel, batch, raised, errors, sends, unrecorded, early>>

BackoffEnds(u) ==
    /\ u \in backoff
    /\ backoff' = backoff \ {u}
    /\ UNCHANGED <<tables, worker, stream, pel, batch, hand, raised, errors, sends,
                   unrecorded, early>>

(* mark_delivery_outcome, whatever the row says now. *)
MarkOutcome(u) ==
    LET r == next(u).ref
    IN /\ hand[u].at = "done"
       /\ delivery' = IF r \in Deliveries THEN [delivery EXCEPT ![r] = hand[u].outcome]
                      ELSE delivery
       /\ hand' = [hand EXCEPT ![u].at = "marked"]
       /\ UNCHANGED <<campaign, audience, resolved, worker, stream, pel, batch, backoff, raised,
                      errors, sends, unrecorded, early>>

AckEntry(u) ==
    /\ hand[u].at = "marked"
    /\ Acknowledge(u) /\ Drop(u)
    /\ hand' = [hand EXCEPT ![u] = idle]
    /\ UNCHANGED <<tables, worker, stream, backoff, raised, errors, sends, unrecorded, early>>

(* A send the row knows nothing of; for a notice the entry is the row. *)
lostIn(u) ==
    hand[u].outcome = "delivered" /\
        (hand[u].at = "done" \/ (hand[u].at = "marked" /\ next(u).ref \in Notices))

unsaved(r, us) == \E u \in us : ofUser(u) # {} /\ next(u).ref = r /\ lostIn(u)

forgotten(us) ==
    [r \in Messages |-> IF unsaved(r, us) THEN unrecorded[r] + 1 ELSE unrecorded[r]]

(* The SELECT, the UPDATE or the XACK raises: _drain_one_user logs it and   *)
(* goes on with the user's next entry; this one is read again later.       *)
ProcessOneFails(u) ==
    /\ ofUser(u) # {} /\ hand[u].at # "queued" /\ mayFail
    /\ errors' = errors + 1
    /\ unrecorded' = forgotten({u})
    /\ Drop(u)
    /\ hand' = [hand EXCEPT ![u] = idle]
    /\ UNCHANGED <<tables, worker, stream, pel, backoff, raised, sends, early>>

(* The bot process dies and is started again. *)
Crash ==
    /\ mayFail
    /\ errors' = errors + 1
    /\ unrecorded' = forgotten(Users)
    /\ worker' = newTick
    /\ batch' = <<>>
    /\ hand' = [u \in Users |-> idle]
    /\ backoff' = {}
    /\ UNCHANGED <<tables, stream, pel, raised, sends, early>>

RelayStep(u) == SkipEntry(u) \/ NotifierSend(u) \/ MarkOutcome(u) \/ AckEntry(u)

Telegram(u) == Delivered(u) \/ NotDelivered(u) \/ RetryAfter(u)

BotStep ==
    \/ ReadPending \/ ReadFresh
    \/ \E u \in Users : RelayStep(u) \/ Telegram(u) \/ BackoffEnds(u)

-----------------------------------------------------------------------------
NotifyNext ==
    \/ EditRoutes \/ SendRoutes
    \/ WorkerStep \/ TickFails
    \/ \E n \in Notices : NotifyUser(n)
    \/ BotStep
    \/ \E u \in Users : ProcessOneFails(u)
    \/ Crash

NotifySpec == NotifyInit /\ [][NotifyNext]_notifyVars

(* The loops of the worker, the relay and the Notifier run for ever,       *)
(* Telegram answers, a backoff passes, and a delivery nobody works on any  *)
(* more becomes old enough to be reclaimed.                                *)
Fairness ==
    /\ WF_notifyVars(WorkerStep)
    /\ WF_notifyVars(BotStep)
    /\ SF_notifyVars(\E stuck \in SUBSET Deliveries :
                         Reclaim(stuck) /\ \E d \in stuck : ~underWay(d))

NotifyFairSpec == NotifySpec /\ Fairness

-----------------------------------------------------------------------------
(* A message reaches a player a second time only if the outcome of the     *)
(* first could not be recorded (a crash or a failed statement between the  *)
(* call of Telegram and the UPDATE) or the delivery was reclaimed while it *)
(* was still under way.  A lost acknowledgement, a second stream entry and *)
(* a repeated read alone never send a campaign message again.              *)
RepeatsExplained ==
    \A r \in Messages :
        sends[r] <= 1 + unrecorded[r] + (IF r \in early THEN 1 ELSE 0)

(* What a finished campaign says stays true: every delivery has ended, its *)
(* verdict matches theirs, and no late entry, reclaim or repeated read     *)
(* changes one of them any more.                                           *)
FinishedIsFinished ==
    \A c \in Campaigns : campaign[c] \in Ended =>
        LET ends == {delivery[<<c, u>>] : u \in Users} \ {"none"}
        IN /\ ends \subseteq Final
           /\ campaign[c] = "completed" <=> "failed" \notin ends
           /\ campaign[c] = "failed" <=> "failed" \in ends /\ "delivered" \notin ends

(* Why these two hold.  Rows exist for campaigns that were sent only, and  *)
(* the worker only looks at campaigns it is sending.                       *)
RowsOfSent ==
    \A d \in Deliveries : delivery[d] # "none" => campaign[d[1]] \in {"sending"} \cup Ended

WorkerSends ==
    /\ worker.todo \subseteq sending
    /\ worker.pc \in {"seed", "count", "select", "mark", "enqueue"} => worker.todo # {}
    /\ \A d \in worker.rows \cup worker.row : d[1] \in sending
    /\ worker.rows # {} => worker.pc \in {"mark", "enqueue"}
    /\ worker.row # {} => worker.pc = "enqueue"
    /\ \A d, e \in worker.row : d = e

(* What the relay has in hand is an entry it read and did not acknowledge, *)
(* and the row of a delivery stays open until it writes the outcome.       *)
EntriesOwned ==
    \A s \in {stream, pel, batch} : \A i \in 1..Len(s) : s[i] = entry(s[i].ref)

copies(s, r) == Cardinality({i \in 1..Len(s) : s[i].ref = r})
BatchIsPending == \A r \in Messages : copies(batch, r) <= copies(pel, r)

HandsBusy ==
    \A u \in Users :
        /\ hand[u].at = "idle" => hand[u] = idle
        /\ hand[u].at # "idle" => ofUser(u) # {}
        /\ hand[u].at = "queued" => hand[u].attempts < MaxAttempts /\ hand[u].outcome = "none"
        /\ hand[u].at = "done" => hand[u].outcome # "none"

HandOpen ==
    \A u \in Users : hand[u].at \in {"queued", "done"} /\ next(u).ref \in Deliveries =>
        delivery[next(u).ref] \in {"pending", "processing"}

(* A send that no failure explains is one the row knows of, or is in hand. *)
explained(r) == unrecorded[r] + IF unsaved(r, Users) THEN 1 ELSE 0
recorded(d) == IF delivery[d] \in Final THEN 1 ELSE 0
left(r) == copies(stream, r) + copies(pel, r)
isOut(d) == left(d) # 0 \/ d \in worker.row

(* A row that is going to be enqueued has no entry yet, unless it was      *)
(* reclaimed early; then it may be sent once more after it has ended.      *)
waits(d) == delivery[d] = "pending" \/ d \in worker.rows

EnqueuedOnce ==
    \A d \in Deliveries :
        /\ delivery[d] = "none" => ~isOut(d)
        /\ d \notin early /\ waits(d) => ~isOut(d) /\ delivery[d] = "pending"

DeliveriesExplained ==
    \A d \in Deliveries :
        /\ sends[d] <= explained(d) + recorded(d) + (IF d \in early THEN 1 ELSE 0)
        /\ waits(d) /\ (isOut(d) \/ delivery[d] # "pending") =>
              sends[d] <= explained(d) + recorded(d)

NoticesExplained ==
    \A n \in Notices :
        /\ left(n) <= 1
        /\ n \notin raised => left(n) = 0 /\ sends[n] = 0
        /\ sends[n] <= explained(n) + (IF left(n) = 0 THEN 1 ELSE 0)

NotifyInv ==
    /\ NotifyTypeOK /\ RowsOfSent /\ WorkerSends /\ EntriesOwned /\ BatchIsPending
    /\ HandsBusy /\ HandOpen /\ FinishedIsFinished
    /\ EnqueuedOnce /\ DeliveriesExplained /\ NoticesExplained

(* Again and again nothing is left to send, whatever was lost, repeated,   *)
(* crashed or backed off before: every campaign that was queued or being   *)
(* sent has ended, and only by ending does it leave "sending", and every   *)
(* notice that got into the stream has left it.  Unless a campaign has a   *)
(* filter that does not resolve, which stops the worker's tick for every   *)
(* campaign.                                                               *)
EverythingIsSent ==
    /\ [][\A c \in Campaigns : campaign[c] = "sending" =>
                                   campaign'[c] \in {"sending"} \cup Ended]_notifyVars
    /\ []<>(/\ \A c \in Campaigns : campaign[c] \in {"queued", "sending"} =>
                                        \E b \in sending : audience[b] = broken
            /\ \A n \in Notices : ~Contains(stream \o pel, entry(n)))

=============================================================================
