----------------------------- MODULE SmsControl -----------------------------
(***************************************************************************)
(* The SMS control plane: campaigns with their lifecycle, the messages a   *)
(* campaign enqueues, the suppression list, the CSV import, and the fleet  *)
(* of delivery nodes that pull messages, send them and report what         *)
(* happened (packages/core/sms, services/sms).                             *)
(*                                                                         *)
(* Every route runs in one transaction that locks the row it decides on,   *)
(* so a route is one action; the exception is fetch-job, whose node row is *)
(* read by the authentication before the claiming transaction begins, so   *)
(* its status and capacity may be stale when they are used.  Nodes are     *)
(* phones on a mobile network: they may lose a reply, repeat a report, or  *)
(* report after the sweep took the message away from them.                 *)
(*                                                                         *)
(* Left out: the health score and the attempt rows it is computed from     *)
(* (shown on the console, used by no decision), token rotation, message    *)
(* text, segments, audience attributes and priorities (every message has   *)
(* the default one), opted_out (read, written nowhere).                    *)
(***************************************************************************)
EXTENDS Naturals, FiniteSets

CONSTANTS
    Campaigns,      \* campaigns, numbered by id
    Phones,         \* phone numbers, numbered in the order of their contacts
    Nodes,          \* delivery nodes
    Managed,        \* nodes whose status the administrator changes
    Requests,       \* fetch-job requests that may be under way at once
    Renders,        \* campaigns whose text renders without a missing variable
    Files,          \* bound: the phone lists that are uploaded
    AdminStatuses,  \* bound: the statuses the administrator gives nodes
    Reachable,      \* Reachable[c]: nodes whose fleet_group the campaign takes
    Contacts0,      \* contacts known at the start
    Suppressible,   \* phones that get on and off the suppression list
    MaxJobs,        \* bound: largest max_concurrent_jobs a node advertises
    MaxAttempts     \* MAX_DELIVERY_ATTEMPTS

NodeStatus == {"pending", "active", "maintenance", "disabled", "draining", "revoked"}

nobody == "nobody"

ASSUME SmsAssumption ==
    /\ Campaigns \subseteq Nat /\ Phones \subseteq Nat
    /\ IsFiniteSet(Campaigns) /\ IsFiniteSet(Phones) /\ nobody \notin Nodes
    /\ Managed \subseteq Nodes
    /\ Renders \subseteq Campaigns /\ Files \subseteq SUBSET Phones
    /\ Reachable \in [Campaigns -> SUBSET Nodes]
    /\ Contacts0 \subseteq Phones /\ Suppressible \subseteq Phones
    /\ AdminStatuses \subseteq NodeStatus
    /\ MaxJobs \in Nat \ {0} /\ MaxAttempts \in Nat \ {0}

VARIABLES
    campaign,       \* sms_campaigns.status
    import,         \* the campaign's import job and its valid rows
    contacts,       \* sms_contacts
    suppressed,     \* sms_suppressions
    message,        \* sms_messages, by campaign and phone (idempotency_key)
    node,           \* sms_delivery_nodes.status
    capacity,       \* sms_delivery_nodes.max_concurrent_jobs
    fetch,          \* fetch-job requests: what the authentication read
    jobs,           \* jobs the devices have in hand
    sends           \* how often the text of a message really went out

smsVars == <<campaign, import, contacts, suppressed, message, node, capacity,
             fetch, jobs, sends>>

Messages == Campaigns \X Phones

InFlight == {"assigned", "sending"}
Terminal == {"delivered", "dead_letter", "cancelled", "suppressed"}
Completed == {"completed", "completed_with_errors"}

noFetch == [node |-> nobody, max |-> 0]
noMessage == [status |-> "none", node |-> nobody, attempt |-> 0]

Job == [msg : Messages, node : Nodes, attempt : 1..MaxAttempts,
        did : {"got", "sent"}]

SmsTypeOK ==
    /\ campaign \in [Campaigns -> {"none", "draft", "failed", "ready", "scheduled",
                                   "running", "paused", "cancelled"} \cup Completed]
    /\ import \in [Campaigns -> [used : BOOLEAN, rows : SUBSET Phones]]
    /\ contacts \subseteq Phones /\ suppressed \subseteq Phones
    /\ message \in [Messages -> [status : {"none", "queued"} \cup InFlight \cup Terminal,
                                 node : Nodes \cup {nobody}, attempt : 0..MaxAttempts]]
    /\ node \in [Nodes -> NodeStatus]
    /\ capacity \in [Nodes -> 1..MaxJobs]
    /\ fetch \in [Requests -> [node : Nodes \cup {nobody}, max : 0..MaxJobs]]
    /\ jobs \subseteq Job
    /\ sends \in [Messages -> Nat]

SmsInit ==
    /\ campaign = [c \in Campaigns |-> "none"]
    /\ import = [c \in Campaigns |-> [used |-> FALSE, rows |-> {}]]
    /\ contacts = Contacts0
    /\ suppressed = {}
    /\ message = [m \in Messages |-> noMessage]
    /\ node = [n \in Nodes |-> IF n \in Managed THEN "pending" ELSE "active"]
    /\ capacity = [n \in Nodes |-> 1]
    /\ fetch = [r \in Requests |-> noFetch]
    /\ jobs = {}
    /\ sends = [m \in Messages |-> 0]

-----------------------------------------------------------------------------
(* Campaigns *)

(* Malformed rows, duplicates within the file and suppressed phones are    *)
(* recorded as such; the rows left are the valid ones.                     *)
valid_rows(file) == file \ suppressed

(* create_import_job; a repeated upload has the same idempotency key and   *)
(* returns the job that exists.                                            *)
UploadCsv(c, file) ==
    /\ campaign[c] = "none" /\ ~import[c].used
    /\ import' = [import EXCEPT ![c] = [used |-> TRUE, rows |-> valid_rows(file)]]
    /\ UNCHANGED <<campaign, contacts, suppressed, message, node, capacity, fetch, jobs, sends>>

(* With an import job, its recipients are the job's rows; without one they *)
(* are the contacts.                                                       *)
CreateCampaign(c) ==
    /\ campaign[c] = "none"
    /\ campaign' = [campaign EXCEPT ![c] = "draft"]
    /\ UNCHANGED <<import, contacts, suppressed, message, node, capacity, fetch, jobs, sends>>

(* Only a status of allowed_from may be left for to_status. *)
Transition(c, allowed_from, to_status) ==
    /\ campaign[c] \in allowed_from
    /\ campaign' = [campaign EXCEPT ![c] = to_status]

resolve_recipients == contacts \ suppressed

(* Whom the campaign would reach: every valid row of its import, or every  *)
(* contact that is not suppressed; nobody when the text does not render.   *)
resolvable(c) ==
    IF c \notin Renders THEN {}
    ELSE IF import[c].used THEN import[c].rows ELSE resolve_recipients

ValidateCampaign(c) ==
    /\ Transition(c, {"draft", "failed"},
                  IF resolvable(c) = {} THEN "failed" ELSE "ready")
    /\ UNCHANGED <<import, contacts, suppressed, message, node, capacity, fetch, jobs, sends>>

ScheduleCampaign(c) ==
    /\ Transition(c, {"ready"}, "scheduled")
    /\ UNCHANGED <<import, contacts, suppressed, message, node, capacity, fetch, jobs, sends>>

(* The status a recipient's message is inserted with: suppression is       *)
(* looked up again, a file may be older than the list.                     *)
enqueued(c, p) == IF p \in suppressed THEN "suppressed" ELSE "queued"

(* A running campaign may be started again: the recipients are resolved    *)
(* afresh and those who have a message keep it (ON CONFLICT DO NOTHING).   *)
StartCampaign(c) ==
    /\ Transition(c, {"ready", "scheduled", "running"}, "running")
    /\ message' = [m \in Messages |->
           IF m[1] = c /\ m[2] \in resolvable(c) /\ message[m].status = "none"
           THEN [message[m] EXCEPT !.status = enqueued(c, m[2])]
           ELSE message[m]]
    /\ contacts' = IF import[c].used THEN contacts \cup resolvable(c) ELSE contacts
    /\ UNCHANGED <<import, suppressed, node, capacity, fetch, jobs, sends>>

PauseCampaign(c) ==
    /\ Transition(c, {"running"}, "paused")
    /\ UNCHANGED <<import, contacts, suppressed, message, node, capacity, fetch, jobs, sends>>

ResumeCampaign(c) ==
    /\ Transition(c, {"paused"}, "running")
    /\ UNCHANGED <<import, contacts, suppressed, message, node, capacity, fetch, jobs, sends>>

(* Only messages no node has claimed are cancelled; one in flight is left  *)
(* to resolve by itself, and may be queued and claimed once more.          *)
CancelCampaign(c) ==
    /\ Transition(c, {"draft", "ready", "scheduled", "running", "paused"}, "cancelled")
    /\ message' = [m \in Messages |->
           IF m[1] = c /\ message[m].status = "queued"
           THEN [message[m] EXCEPT !.status = "cancelled"] ELSE message[m]]
    /\ UNCHANGED <<import, contacts, suppressed, node, capacity, fetch, jobs, sends>>

non_terminal == {"queued"} \cup InFlight

(* maybe_complete_campaign, on the messages msgs as the transaction leaves *)
(* them: a running campaign none of whose messages is outstanding ends.    *)
maybe_complete_campaign(msgs, cs) ==
    LET statuses(c) == {msgs[<<c, p>>].status : p \in Phones}
    IN [c \in Campaigns |->
           IF c \in cs /\ campaign[c] = "running" /\ statuses(c) \cap non_terminal = {}
           THEN IF "dead_letter" \in statuses(c) THEN "completed_with_errors" ELSE "completed"
           ELSE campaign[c]]

AddSuppression(p) ==
    /\ p \in Suppressible
    /\ suppressed' = suppressed \cup {p}
    /\ UNCHANGED <<campaign, import, contacts, message, node, capacity, fetch, jobs, sends>>

RemoveSuppression(p) ==
    /\ p \in suppressed
    /\ suppressed' = suppressed \ {p}
    /\ UNCHANGED <<campaign, import, contacts, message, node, capacity, fetch, jobs, sends>>

CreateContact(p) ==
    /\ contacts' = contacts \cup {p}
    /\ UNCHANGED <<campaign, import, suppressed, message, node, capacity, fetch, jobs, sends>>

-----------------------------------------------------------------------------
(* Delivery nodes *)

(* approve, resume, disable, maintenance, drain, revoke: each sets the     *)
(* status whatever it was, so resume and approve also bring back a node    *)
(* that was revoked.                                                       *)
SetNodeStatus(n, status) ==
    /\ n \in Managed
    /\ node[n] # status
    /\ node' = [node EXCEPT ![n] = status]
    /\ UNCHANGED <<campaign, import, contacts, suppressed, message, capacity, fetch, jobs, sends>>

authenticate_node(n) == node[n] # "revoked"

Heartbeat(n, max_concurrent_jobs) ==
    /\ authenticate_node(n)
    /\ capacity' = [capacity EXCEPT ![n] = max_concurrent_jobs]
    /\ UNCHANGED <<campaign, import, contacts, suppressed, message, node, fetch, jobs, sends>>

(* The node row is read by its token; the request of an active node goes   *)
(* on with this copy, any other node is told why it gets no work.          *)
CurrentNode(r, n) ==
    /\ fetch[r] = noFetch
    /\ authenticate_node(n) /\ node[n] = "active"
    /\ fetch' = [fetch EXCEPT ![r] = [node |-> n, max |-> capacity[n]]]
    /\ UNCHANGED <<campaign, import, contacts, suppressed, message, node, capacity, jobs, sends>>

current_assigned_count(n) ==
    Cardinality({m \in Messages : message[m].node = n /\ message[m].status \in InFlight})

(* Queued messages this node may have, and the order they are offered in:  *)
(* by their place in their own campaign, so that a long campaign does not  *)
(* hold up a short one, then by id.                                        *)
candidates(n) ==
    {m \in Messages : /\ message[m].status = "queued"
                      /\ campaign[m[1]] # "paused"
                      /\ n \in Reachable[m[1]]}

first(ms) ==
    CHOOSE m \in ms : \A o \in ms : m[2] < o[2] \/ (m[2] = o[2] /\ m[1] <= o[1])

(* Faulty variant: two requests of one node are not serialised by its row. *)
at_capacity_unlocked(r) == FALSE

(* The node's row is locked before its messages are counted, so requests   *)
(* of one node come one after the other.                                   *)
at_capacity(r) == current_assigned_count(fetch[r].node) >= fetch[r].max

(* claim_next_message; the reply with the job may be lost on its way. *)
FetchJob(r) ==
    LET n == fetch[r].node
        m == first(candidates(n))
        claimed == [message[m] EXCEPT !.status = "assigned", !.node = n, !.attempt = @ + 1]
    IN /\ n # nobody
       /\ ~at_capacity(r)
       /\ candidates(n) # {}
       /\ message' = [message EXCEPT ![m] = claimed]
       /\ fetch' = [fetch EXCEPT ![r] = noFetch]
       /\ jobs' \in {jobs, jobs \cup {[msg |-> m, node |-> n, did |-> "got",
                                       attempt |-> claimed.attempt]}}
       /\ UNCHANGED <<campaign, import, contacts, suppressed, node, capacity, sends>>

NoJob(r) ==
    /\ fetch[r] # noFetch
    /\ at_capacity(r) \/ candidates(fetch[r].node) = {}
    /\ fetch' = [fetch EXCEPT ![r] = noFetch]
    /\ UNCHANGED <<campaign, import, contacts, suppressed, message, node, capacity, jobs, sends>>

(* start_message: only the node that holds it, only once per claim. *)
StartJob(j) ==
    /\ authenticate_node(j.node)
    /\ message[j.msg].node = j.node /\ message[j.msg].status = "assigned"
    /\ message' = [message EXCEPT ![j.msg].status = "sending"]
    /\ UNCHANGED <<campaign, import, contacts, suppressed, node, capacity, fetch, jobs, sends>>

(* The device hands the text to the carrier, which takes it. *)
SendText(j) ==
    /\ j.did = "got"
    /\ jobs' = (jobs \ {j}) \cup {[j EXCEPT !.did = "sent"]}
    /\ sends' = [sends EXCEPT ![j.msg] = @ + 1]
    /\ UNCHANGED <<campaign, import, contacts, suppressed, message, node, capacity, fetch>>

(* Attempts are left and the error is not a permanent one. *)
can_retry(m, outcome) == message[m].attempt < MaxAttempts /\ outcome # "permanent"

(* report_result is taken from the node the message is assigned to. *)
owned_by(j) == message[j.msg].node = j.node

(* report_result: delivered, or a failure for now or for good, which may   *)
(* be reported of a text that did go out.  A report on a message that is   *)
(* no longer the node's is refused (NotOwnedByNode); of one that is taken  *)
(* the device may not learn, and report it again.                          *)
ReportResult(j, outcome) ==
    LET m == j.msg
        status == IF outcome = "delivered" THEN "delivered"
                  ELSE IF can_retry(m, outcome) THEN "queued" ELSE "dead_letter"
    IN /\ authenticate_node(j.node)
       /\ outcome = "delivered" => j.did = "sent"
       /\ \/ /\ owned_by(j)
             /\ message' = [message EXCEPT ![m].status = status, ![m].node = nobody]
             /\ campaign' = IF status = "queued" THEN campaign
                            ELSE maybe_complete_campaign(message', {m[1]})
             /\ jobs' \in {jobs, jobs \ {j}}
          \/ /\ ~owned_by(j)
             /\ jobs' = jobs \ {j}
             /\ UNCHANGED <<message, campaign>>
       /\ UNCHANGED <<import, contacts, suppressed, node, capacity, fetch, sends>>

(* Faulty variant: only messages no device has begun to send are swept. *)
sweepable_assigned == {"assigned"}

sweepable == InFlight

(* reconcile_stale_in_flight, one transaction over the messages assigned   *)
(* more than IN_FLIGHT_TIMEOUT ago: which of those in flight these are is  *)
(* a matter of time.                                                       *)
Reconcile(stale) ==
    LET status(m) == IF can_retry(m, "timeout") THEN "queued" ELSE "dead_letter"
    IN /\ stale # {} /\ \A m \in stale : message[m].status \in sweepable
       /\ message' = [m \in Messages |->
              IF m \in stale THEN [message[m] EXCEPT !.status = status(m), !.node = nobody]
              ELSE message[m]]
       /\ campaign' = maybe_complete_campaign(message',
                          {m[1] : m \in {s \in stale : status(s) = "dead_letter"}})
       /\ UNCHANGED <<import, contacts, suppressed, node, capacity, fetch, jobs, sends>>

-----------------------------------------------------------------------------
(* The transactions behind the console's routes, each with its audit row. *)
CampaignTransaction(c) ==
    \/ CreateCampaign(c) \/ ValidateCampaign(c) \/ ScheduleCampaign(c) \/ StartCampaign(c)
    \/ PauseCampaign(c) \/ ResumeCampaign(c) \/ CancelCampaign(c)

RecipientTransaction(p) == CreateContact(p) \/ AddSuppression(p) \/ RemoveSuppression(p)

CampaignRoutes == \E c \in Campaigns : CampaignTransaction(c)

UploadRoute == \E c \in Campaigns, file \in Files : UploadCsv(c, file)

RecipientRoutes == \E p \in Phones : RecipientTransaction(p)

NodeRoutes == \E n \in Nodes, s \in AdminStatuses : SetNodeStatus(n, s)

(* What the devices call, and what they do in between. *)
DeviceApi ==
    \/ \E n \in Nodes, k \in 1..MaxJobs : Heartbeat(n, k)
    \/ \E r \in Requests : (\E n \in Nodes : CurrentNode(r, n)) \/ FetchJob(r) \/ NoJob(r)
    \/ \E j \in jobs :
          \/ StartJob(j) \/ SendText(j)
          \/ \E o \in {"delivered", "unknown", "permanent"} : ReportResult(j, o)

ReconcileLoop == \E stale \in SUBSET Messages : Reconcile(stale)

SmsNext ==
    \/ CampaignRoutes \/ UploadRoute \/ RecipientRoutes \/ NodeRoutes
    \/ DeviceApi \/ ReconcileLoop

(* Active nodes keep asking for work and finish their requests; the sweep  *)
(* of _reconcile_loop runs every minute, so a message in flight is stale   *)
(* sooner or later.  Nothing is assumed of devices, carriers and people.   *)
SmsFairness ==
    /\ \A r \in Requests : WF_smsVars(FetchJob(r) \/ NoJob(r))
    /\ \A n \in Nodes : SF_smsVars(\E r \in Requests : CurrentNode(r, n))
    /\ \A m \in Messages : WF_smsVars(\E s \in SUBSET Messages : m \in s /\ Reconcile(s))

SmsSpec == SmsInit /\ [][SmsNext]_smsVars /\ SmsFairness

-----------------------------------------------------------------------------

(* A completed campaign has no message outstanding, however reports, the   *)
(* sweep, pauses and a second start were ordered, and says whether one of  *)
(* them was given up.                                                      *)
CompletedIsDone ==
    \A c \in Campaigns : campaign[c] \in Completed =>
        /\ \A p \in Phones : message[<<c, p>>].status \in Terminal \cup {"none"}
        /\ campaign[c] = "completed_with_errors" <=>
              \E p \in Phones : message[<<c, p>>].status = "dead_letter"

(* Every text that goes out belongs to an attempt and attempts are bounded: *)
(* late reports, lost replies and the sweep never make a message go out    *)
(* more than MAX_DELIVERY_ATTEMPTS times.  No node has more messages in    *)
(* flight than it said it can take, two requests of one node at once       *)
(* included.                                                               *)
DeliveryBounded ==
    /\ \A m \in Messages : sends[m] <= message[m].attempt /\ message[m].attempt <= MaxAttempts
    /\ \A n \in Nodes : current_assigned_count(n) <= MaxJobs

(* What the console shows of a campaign and what its nodes have sent.      *)
CampaignsAccounted == CompletedIsDone /\ DeliveryBounded

(* Why CampaignsAccounted holds.  A message is in flight exactly while a   *)
(* node has it, so a report is taken of messages in flight only.           *)
HeldInFlight ==
    \A m \in Messages : message[m].status \in InFlight <=> message[m].node # nobody

AttemptsLeft ==
    \A m \in Messages : /\ message[m].status = "none" => message[m].attempt = 0
                        /\ message[m].status = "queued" => message[m].attempt < MaxAttempts

(* A job that was handed out and not sent yet may still go out, whatever   *)
(* became of its message since: it is paid for by the attempt it was       *)
(* handed out on.                                                          *)
unsent(m) == {j \in jobs : j.msg = m /\ j.did = "got"}

SendsCovered ==
    /\ IsFiniteSet(jobs)
    /\ \A m \in Messages : sends[m] + Cardinality(unsent(m)) <= message[m].attempt

NodesFit == \A n \in Nodes : current_assigned_count(n) <= MaxJobs

SmsInv ==
    /\ SmsTypeOK /\ HeldInFlight /\ AttemptsLeft /\ CompletedIsDone
    /\ SendsCovered /\ NodesFit

(* An unfinished message ends, or is held up by a pause, or by the fleet:  *)
(* no active node that the campaign may use.                               *)
EveryMessageEnds ==
    \A m \in Messages :
        message[m].status \in {"queued"} \cup InFlight ~>
            \/ message[m].status \in Terminal
            \/ campaign[m[1]] = "paused"
            \/ \A n \in Reachable[m[1]] : node[n] # "active"

=============================================================================
