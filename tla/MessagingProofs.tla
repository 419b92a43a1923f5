-------------------------- MODULE MessagingProofs --------------------------
(***************************************************************************)
(* Proofs about the two modules that pass messages on.  The SMS control    *)
(* plane: CampaignsAccounted, for every number of campaigns, phones, nodes *)
(* and requests.  The gateway: ViewCurrent, for every number of rooms,     *)
(* events and frames and every size of the mailbox.                        *)
(***************************************************************************)
EXTENDS SmsControl, Gateway, SumTheorems

-----------------------------------------------------------------------------
(* The order messages are offered in.                                      *)

\* A completed campaign stays done where it and its messages are left alone.
LEMMA CompletedKept ==
    ASSUME CompletedIsDone,
           \A c \in Campaigns : campaign'[c] \in Completed =>
              /\ campaign'[c] = campaign[c]
              /\ \A p \in Phones : message'[<<c, p>>] = message[<<c, p>>]
    PROVE  CompletedIsDone'
<1>1. ASSUME NEW c \in Campaigns, campaign'[c] \in Completed
      PROVE  /\ \A p \in Phones : message'[<<c, p>>].status \in Terminal \cup {"none"}
             /\ campaign'[c] = "completed_with_errors" <=>
                   \E p \in Phones : message'[<<c, p>>].status = "dead_letter"
  <2>1. /\ campaign'[c] = campaign[c]
        /\ \A p \in Phones : message'[<<c, p>>] = message[<<c, p>>]
    BY <1>1
  <2>2. /\ \A p \in Phones : message[<<c, p>>].status \in Terminal \cup {"none"}
        /\ campaign[c] = "completed_with_errors" <=>
              \E p \in Phones : message[<<c, p>>].status = "dead_letter"
    BY <1>1, <2>1 DEF CompletedIsDone
  <2> QED BY <2>1, <2>2
<1> QED BY <1>1 DEF CompletedIsDone

USE SmsAssumption DEF SmsAssumption

\* There is a first one among some messages.
LEMMA FirstMessage ==
    ASSUME NEW ms, ms \subseteq Messages, ms # {}
    PROVE  first(ms) \in ms
<1> DEFINE places == {m[2] : m \in ms}
<1>1. \A m \in ms : m[1] \in Nat /\ m[2] \in Nat
  BY DEF Messages
<1>2. PICK k \in places : \A o \in places : k <= o
  <2>1. places \subseteq Phones /\ places # {}
    BY DEF Messages
  <2>2. IsFiniteSet(places) /\ places \subseteq Nat
    BY <2>1, FS_Subset
  <2> HIDE DEF places
  <2> QED BY <2>1, <2>2, LeastNumber
<1> DEFINE ids == {m[1] : m \in {x \in ms : x[2] = k}}
<1>3. PICK i \in ids : \A o \in ids : i <= o
  <2>1. ids \subseteq Campaigns /\ ids # {}
    BY <1>2 DEF Messages
  <2>2. IsFiniteSet(ids) /\ ids \subseteq Nat
    BY <2>1, FS_Subset
  <2> HIDE DEF ids
  <2> QED BY <2>1, <2>2, LeastNumber
<1>4. PICK m \in ms : m[2] = k /\ m[1] = i
  BY <1>3
<1>5. \A o \in ms : m[2] < o[2] \/ (m[2] = o[2] /\ m[1] <= o[1])
  <2> TAKE o \in ms
  <2>1. m[1] \in Nat /\ m[2] \in Nat /\ o[1] \in Nat /\ o[2] \in Nat
    BY <1>1
  <2>2. k <= o[2]
    BY <1>2
  <2>3. o[2] = k => i <= o[1]
    BY <1>3
  <2> QED BY <1>4, <2>1, <2>2, <2>3
<1> QED BY <1>5 DEF first

-----------------------------------------------------------------------------
(* Steps by what they leave alone.                                         *)

LEMMA MessagesFinite == IsFiniteSet(Messages)
  BY FS_Product DEF Messages

LEMMA SmsInitInv == SmsInit => SmsInv
<1> SUFFICES ASSUME SmsInit PROVE SmsInv
  OBVIOUS
<1>1. SmsTypeOK
  BY DEF SmsInit, SmsTypeOK, NodeStatus, noFetch, noMessage
<1>2. HeldInFlight /\ AttemptsLeft
  BY DEF SmsInit, HeldInFlight, AttemptsLeft, noMessage, InFlight
<1>3. CompletedIsDone
  BY DEF SmsInit, CompletedIsDone, Completed
<1>4. Cardinality({}) = 0 /\ IsFiniteSet({})
  BY FS_EmptySet
<1>5. SendsCovered
  <2>1. ASSUME NEW m \in Messages
        PROVE  sends[m] + Cardinality(unsent(m)) <= message[m].attempt
    <3>1. unsent(m) = {}
      BY DEF SmsInit, unsent
    <3> QED BY <1>4, <3>1 DEF SmsInit, noMessage
  <2> QED BY <1>4, <2>1 DEF SmsInit, SendsCovered
<1>6. NodesFit
  <2>1. ASSUME NEW n \in Nodes PROVE current_assigned_count(n) <= MaxJobs
    <3> DEFINE A == {m \in Messages : message[m].node = n /\ message[m].status \in InFlight}
    <3>1. A = {}
      BY DEF SmsInit, noMessage, InFlight
    <3>2. current_assigned_count(n) = Cardinality(A)
      BY DEF current_assigned_count
    <3> HIDE DEF A
    <3> QED BY <1>4, <3>1, <3>2
  <2> QED BY <2>1 DEF NodesFit
<1> QED BY <1>1, <1>2, <1>3, <1>5, <1>6 DEF SmsInv

\* Routes that touch no message and no job.
LEMMA MessagesAlone ==
    ASSUME SmsInv, UNCHANGED <<message, jobs, sends>>, SmsTypeOK', CompletedIsDone'
    PROVE  SmsInv'
<1>1. HeldInFlight' /\ AttemptsLeft' /\ SendsCovered' /\ NodesFit'
  BY DEF SmsInv, HeldInFlight, AttemptsLeft, SendsCovered, unsent, NodesFit,
         current_assigned_count
<1> QED BY <1>1 DEF SmsInv

\* What a node has does not grow, so it still fits.
LEMMA HeldShrinks ==
    ASSUME SmsInv,
           \A m \in Messages : message'[m].node \in {message[m].node, nobody}
    PROVE  NodesFit'
<1> SUFFICES ASSUME NEW n \in Nodes PROVE current_assigned_count(n)' <= MaxJobs
  BY DEF NodesFit
<1> DEFINE A == {m \in Messages : message[m].node = n /\ message[m].status \in InFlight}
           B == {m \in Messages : message'[m].node = n /\ message'[m].status \in InFlight}
<1>1. B \subseteq A
  BY DEF SmsInv, HeldInFlight
<1>2. IsFiniteSet(A)
  BY MessagesFinite, FS_Subset
<1>3. Cardinality(A) <= MaxJobs
  BY DEF SmsInv, NodesFit, current_assigned_count
<1>4. current_assigned_count(n)' = Cardinality(B)
  BY DEF current_assigned_count
<1> HIDE DEF A, B
<1>5. Cardinality(B) <= Cardinality(A) /\ Cardinality(A) \in Nat /\ Cardinality(B) \in Nat
  BY <1>1, <1>2, FS_Subset, FS_CardinalityType
<1> QED BY <1>3, <1>4, <1>5

\* Steps that move messages on without a new attempt, and hand out no job.
LEMMA SameAttempts ==
    ASSUME SmsInv, SmsTypeOK', HeldInFlight', AttemptsLeft', CompletedIsDone',
           \A m \in Messages : message'[m].attempt = message[m].attempt,
           \A m \in Messages : message'[m].node \in {message[m].node, nobody},
           jobs' \subseteq jobs, sends' = sends
    PROVE  SmsInv'
<1>1. SendsCovered'
  <2>1. IsFiniteSet(jobs) /\ IsFiniteSet(jobs')
    BY FS_Subset DEF SmsInv, SendsCovered
  <2>2. ASSUME NEW m \in Messages
        PROVE  sends'[m] + Cardinality(unsent(m)') <= message'[m].attempt
    <3>1. unsent(m)' \subseteq unsent(m) /\ unsent(m) \subseteq jobs
      BY DEF unsent
    <3>2. /\ Cardinality(unsent(m)') <= Cardinality(unsent(m))
          /\ Cardinality(unsent(m)) \in Nat /\ Cardinality(unsent(m)') \in Nat
      BY <2>1, <3>1, FS_Subset, FS_CardinalityType
    <3>3. sends[m] + Cardinality(unsent(m)) <= message[m].attempt
      BY DEF SmsInv, SendsCovered
    <3>4. sends[m] \in Nat /\ message[m].attempt \in Nat
      BY DEF SmsInv, SmsTypeOK
    <3> QED BY <3>2, <3>3, <3>4
  <2> QED BY <2>1, <2>2 DEF SendsCovered
<1> QED BY <1>1, HeldShrinks DEF SmsInv

-----------------------------------------------------------------------------
(* The console's routes.                                                   *)

LEMMA QuietRoutes ==
    ASSUME SmsInv,
           \/ \E c \in Campaigns : \/ \E file \in Files : UploadCsv(c, file)
                                   \/ CreateCampaign(c) \/ ValidateCampaign(c)
                                   \/ ScheduleCampaign(c) \/ PauseCampaign(c)
                                   \/ ResumeCampaign(c)
           \/ RecipientRoutes \/ NodeRoutes
           \/ \E n \in Nodes, k \in 1..MaxJobs : Heartbeat(n, k)
           \/ \E r \in Requests, n \in Nodes : CurrentNode(r, n)
           \/ \E r \in Requests : NoJob(r)
    PROVE  SmsInv'
<1>0. SmsTypeOK /\ CompletedIsDone
  BY DEF SmsInv
<1>1. ASSUME NEW c \in Campaigns, NEW file \in Files, UploadCsv(c, file) PROVE SmsInv'
  <2>1. SmsTypeOK' /\ CompletedIsDone'
    BY <1>0, <1>1 DEF UploadCsv, SmsTypeOK, CompletedIsDone, valid_rows
  <2> QED BY <1>1, <2>1, MessagesAlone DEF UploadCsv
<1>2. ASSUME NEW c \in Campaigns, CreateCampaign(c) PROVE SmsInv'
  <2>1. SmsTypeOK' /\ CompletedIsDone'
    BY <1>0, <1>2 DEF CreateCampaign, SmsTypeOK, CompletedIsDone, Completed
  <2> QED BY <1>2, <2>1, MessagesAlone DEF CreateCampaign
<1>3. ASSUME NEW c \in Campaigns, ValidateCampaign(c) PROVE SmsInv'
  <2>1. SmsTypeOK' /\ CompletedIsDone'
    BY <1>0, <1>3 DEF ValidateCampaign, Transition, SmsTypeOK, CompletedIsDone, Completed
  <2> QED BY <1>3, <2>1, MessagesAlone DEF ValidateCampaign
<1>4. ASSUME NEW c \in Campaigns, ScheduleCampaign(c) PROVE SmsInv'
  <2>1. SmsTypeOK' /\ CompletedIsDone'
    BY <1>0, <1>4 DEF ScheduleCampaign, Transition, SmsTypeOK, CompletedIsDone, Completed
  <2> QED BY <1>4, <2>1, MessagesAlone DEF ScheduleCampaign
<1>5. ASSUME NEW c \in Campaigns, PauseCampaign(c) PROVE SmsInv'
  <2>1. SmsTypeOK' /\ CompletedIsDone'
    BY <1>0, <1>5 DEF PauseCampaign, Transition, SmsTypeOK, CompletedIsDone, Completed
  <2> QED BY <1>5, <2>1, MessagesAlone DEF PauseCampaign
<1>6. ASSUME NEW c \in Campaigns, ResumeCampaign(c) PROVE SmsInv'
  <2>1. SmsTypeOK' /\ CompletedIsDone'
    BY <1>0, <1>6 DEF ResumeCampaign, Transition, SmsTypeOK, CompletedIsDone, Completed
  <2> QED BY <1>6, <2>1, MessagesAlone DEF ResumeCampaign
<1>7. ASSUME RecipientRoutes PROVE SmsInv'
  <2>1. PICK p \in Phones : RecipientTransaction(p)
    BY <1>7 DEF RecipientRoutes
  <2>2. UNCHANGED <<campaign, import, message, node, capacity, fetch, jobs, sends>>
        /\ contacts' \subseteq Phones /\ suppressed' \subseteq Phones
    BY <1>0, <2>1 DEF RecipientTransaction, CreateContact, AddSuppression,
       RemoveSuppression, SmsTypeOK
  <2>3. SmsTypeOK' /\ CompletedIsDone'
    BY <1>0, <2>2 DEF SmsTypeOK, CompletedIsDone
  <2> QED BY <2>2, <2>3, MessagesAlone
<1>8. ASSUME NodeRoutes PROVE SmsInv'
  <2>1. SmsTypeOK' /\ CompletedIsDone'
    BY <1>0, <1>8 DEF NodeRoutes, SetNodeStatus, NodeStatus, SmsTypeOK, CompletedIsDone
  <2> QED BY <1>8, <2>1, MessagesAlone DEF NodeRoutes, SetNodeStatus
<1>9. ASSUME NEW n \in Nodes, NEW k \in 1..MaxJobs, Heartbeat(n, k) PROVE SmsInv'
  <2>1. SmsTypeOK' /\ CompletedIsDone'
    BY <1>0, <1>9 DEF Heartbeat, SmsTypeOK, CompletedIsDone
  <2> QED BY <1>9, <2>1, MessagesAlone DEF Heartbeat
<1>10. ASSUME NEW r \in Requests, NEW n \in Nodes, CurrentNode(r, n) PROVE SmsInv'
  <2>1. UNCHANGED <<campaign, import, contacts, suppressed, message, node, capacity, jobs, sends>>
        /\ fetch' = [fetch EXCEPT ![r] = [node |-> n, max |-> capacity[n]]]
    BY <1>10 DEF CurrentNode
  <2>2. [node |-> n, max |-> capacity[n]] \in [node : Nodes \cup {nobody}, max : 0..MaxJobs]
    BY <1>0 DEF SmsTypeOK, noFetch
  <2>3. fetch' \in [Requests -> [node : Nodes \cup {nobody}, max : 0..MaxJobs]]
    BY <1>0, <2>1, <2>2 DEF SmsTypeOK
  <2>4. SmsTypeOK' /\ CompletedIsDone'
    BY <1>0, <2>1, <2>3 DEF SmsTypeOK, CompletedIsDone
  <2> QED BY <2>1, <2>4, MessagesAlone
<1>11. ASSUME NEW r \in Requests, NoJob(r) PROVE SmsInv'
  <2>1. UNCHANGED <<campaign, import, contacts, suppressed, message, node, capacity, jobs, sends>>
        /\ fetch' = [fetch EXCEPT ![r] = noFetch]
    BY <1>11 DEF NoJob
  <2>2. noFetch \in [node : Nodes \cup {nobody}, max : 0..MaxJobs]
    BY <1>0 DEF SmsTypeOK, noFetch
  <2>3. fetch' \in [Requests -> [node : Nodes \cup {nobody}, max : 0..MaxJobs]]
    BY <1>0, <2>1, <2>2 DEF SmsTypeOK
  <2>4. SmsTypeOK' /\ CompletedIsDone'
    BY <1>0, <2>1, <2>3 DEF SmsTypeOK, CompletedIsDone
  <2> QED BY <2>1, <2>4, MessagesAlone
<1> QED BY <1>1, <1>2, <1>3, <1>4, <1>5, <1>6, <1>7, <1>8, <1>9, <1>10, <1>11

\* A campaign has one message for each phone.
LEMMA MessageOf == \A c \in Campaigns, p \in Phones : <<c, p>> \in Messages
  BY DEF Messages

LEMMA StartStep ==
    ASSUME SmsInv, NEW c \in Campaigns, StartCampaign(c)
    PROVE  SmsInv'
<1> DEFINE new(m) == m[1] = c /\ m[2] \in resolvable(c) /\ message[m].status = "none"
<1>0. SmsTypeOK /\ HeldInFlight /\ AttemptsLeft /\ CompletedIsDone
  BY DEF SmsInv
<1>1. /\ campaign' = [campaign EXCEPT ![c] = "running"]
      /\ message' = [m \in Messages |-> IF new(m)
                        THEN [message[m] EXCEPT !.status = enqueued(c, m[2])] ELSE message[m]]
      /\ UNCHANGED <<import, suppressed, node, capacity, fetch, jobs, sends>>
  BY DEF StartCampaign, Transition
<1>2. contacts' \subseteq Phones
  BY <1>0 DEF StartCampaign, SmsTypeOK, resolvable, resolve_recipients
<1>3. ASSUME NEW m \in Messages
      PROVE  /\ message'[m].attempt = message[m].attempt
             /\ message'[m].node = message[m].node
             /\ message'[m].status \in
                    IF new(m) THEN {"queued", "suppressed"} ELSE {message[m].status}
             /\ message'[m] \in [status : {"none", "queued"} \cup InFlight \cup Terminal,
                                 node : Nodes \cup {nobody}, attempt : 0..MaxAttempts]
  BY <1>0, <1>1 DEF SmsTypeOK, enqueued, Terminal
<1>4. SmsTypeOK'
  <2>1. message' \in [Messages -> [status : {"none", "queued"} \cup InFlight \cup Terminal,
                                   node : Nodes \cup {nobody}, attempt : 0..MaxAttempts]]
    BY <1>1, <1>3
  <2> HIDE DEF new
  <2> QED BY <1>0, <1>1, <1>2, <2>1 DEF SmsTypeOK
<1>5. HeldInFlight' /\ AttemptsLeft'
  <2>1. \A m \in Messages : new(m) => message[m].status = "none"
    OBVIOUS
  <2> HIDE DEF new
  <2>2. ASSUME NEW m \in Messages
        PROVE  /\ message'[m].status \in InFlight <=> message'[m].node # nobody
               /\ message'[m].status = "none" => message'[m].attempt = 0
               /\ message'[m].status = "queued" => message'[m].attempt < MaxAttempts
    <3>1. CASE new(m)
      <4>1. message'[m].status \in {"queued", "suppressed"} /\ message'[m].attempt = 0
            /\ message'[m].node = nobody
        BY <1>0, <1>3, <2>1, <3>1 DEF HeldInFlight, AttemptsLeft, InFlight
      <4> QED BY <4>1 DEF InFlight
    <3>2. CASE ~new(m)
      BY <1>0, <1>3, <3>2 DEF HeldInFlight, AttemptsLeft
    <3> QED BY <3>1, <3>2
  <2> QED BY <2>2 DEF HeldInFlight, AttemptsLeft
<1>6. CompletedIsDone'
  <2>1. ASSUME NEW d \in Campaigns, campaign'[d] \in Completed
        PROVE  d # c /\ campaign'[d] = campaign[d]
    BY <1>0, <1>1, <2>1 DEF SmsTypeOK, Completed
  <2>2. ASSUME NEW d \in Campaigns, d # c, NEW p \in Phones
        PROVE  message'[<<d, p>>] = message[<<d, p>>]
    BY <1>1, <2>2, MessageOf
  <2> HIDE DEF new
  <2> QED BY <1>0, <2>1, <2>2, CompletedKept
<1> QED BY <1>1, <1>3, <1>4, <1>5, <1>6, SameAttempts

LEMMA CancelStep ==
    ASSUME SmsInv, NEW c \in Campaigns, CancelCampaign(c)
    PROVE  SmsInv'
<1> DEFINE gone(m) == m[1] = c /\ message[m].status = "queued"
<1>0. SmsTypeOK /\ HeldInFlight /\ AttemptsLeft /\ CompletedIsDone
  BY DEF SmsInv
<1>1. /\ campaign' = [campaign EXCEPT ![c] = "cancelled"]
      /\ message' = [m \in Messages |-> IF gone(m)
                        THEN [message[m] EXCEPT !.status = "cancelled"] ELSE message[m]]
      /\ UNCHANGED <<import, contacts, suppressed, node, capacity, fetch, jobs, sends>>
  BY DEF CancelCampaign, Transition
<1>3. ASSUME NEW m \in Messages
      PROVE  /\ message'[m].attempt = message[m].attempt
             /\ message'[m].node = message[m].node
             /\ message'[m].status = IF gone(m) THEN "cancelled" ELSE message[m].status
             /\ message'[m] \in [status : {"none", "queued"} \cup InFlight \cup Terminal,
                                 node : Nodes \cup {nobody}, attempt : 0..MaxAttempts]
  <2>1. message[m] \in [status : {"none", "queued"} \cup InFlight \cup Terminal,
                        node : Nodes \cup {nobody}, attempt : 0..MaxAttempts]
    BY <1>0 DEF SmsTypeOK
  <2>2. message'[m] = IF gone(m) THEN [message[m] EXCEPT !.status = "cancelled"] ELSE message[m]
    BY <1>1
  <2> HIDE DEF gone
  <2> QED BY <2>1, <2>2 DEF Terminal
<1>4. SmsTypeOK'
  <2>1. message' \in [Messages -> [status : {"none", "queued"} \cup InFlight \cup Terminal,
                                   node : Nodes \cup {nobody}, attempt : 0..MaxAttempts]]
    BY <1>1, <1>3
  <2> HIDE DEF gone
  <2> QED BY <1>0, <1>1, <2>1 DEF SmsTypeOK
<1>5. HeldInFlight' /\ AttemptsLeft'
  <2>1. \A m \in Messages : gone(m) => message[m].status = "queued"
    OBVIOUS
  <2> HIDE DEF gone
  <2> QED BY <1>0, <1>3, <2>1 DEF HeldInFlight, AttemptsLeft, InFlight
<1>6. CompletedIsDone'
  <2>1. ASSUME NEW d \in Campaigns, campaign'[d] \in Completed
        PROVE  d # c /\ campaign'[d] = campaign[d]
    BY <1>0, <1>1, <2>1 DEF SmsTypeOK, Completed
  <2>2. ASSUME NEW d \in Campaigns, d # c, NEW p \in Phones
        PROVE  message'[<<d, p>>] = message[<<d, p>>]
    BY <1>1, <2>2, MessageOf
  <2> HIDE DEF gone
  <2> QED BY <1>0, <2>1, <2>2, CompletedKept
<1> QED BY <1>1, <1>3, <1>4, <1>5, <1>6, SameAttempts

-----------------------------------------------------------------------------
(* What the devices do.                                                    *)

\* A campaign one of whose messages is queued or in flight is not completed.
LEMMA OutstandingRuns ==
    ASSUME SmsInv, NEW m \in Messages, message[m].status \in non_terminal
    PROVE  m[1] \in Campaigns /\ campaign[m[1]] \notin Completed
<1>1. PICK c \in Campaigns, p \in Phones : m = <<c, p>>
  <2>1. m[1] \in Campaigns /\ m[2] \in Phones /\ m = <<m[1], m[2]>>
    BY DEF Messages
  <2> QED BY <2>1
<1>2. message[m].status \notin Terminal \cup {"none"}
  BY DEF non_terminal, InFlight, Terminal
<1> QED BY <1>1, <1>2 DEF SmsInv, CompletedIsDone

\* Messages of campaigns that are not completed change, and no campaign does.
LEMMA CampaignsAlone ==
    ASSUME SmsInv, campaign' = campaign, NEW m \in Messages, campaign[m[1]] \notin Completed,
           \A o \in Messages \ {m} : message'[o] = message[o]
    PROVE  CompletedIsDone'
<1>1. ASSUME NEW c \in Campaigns, campaign[c] \in Completed, NEW p \in Phones
      PROVE  message'[<<c, p>>] = message[<<c, p>>]
  BY <1>1, MessageOf
<1> QED BY <1>1 DEF SmsInv, CompletedIsDone

LEMMA StartJobStep ==
    ASSUME SmsInv, NEW j \in jobs, StartJob(j)
    PROVE  SmsInv'
<1>0. SmsTypeOK /\ HeldInFlight /\ AttemptsLeft /\ j.msg \in Messages
  BY DEF SmsInv, SmsTypeOK, Job
<1>1. /\ message' = [message EXCEPT ![j.msg].status = "sending"]
      /\ message[j.msg].status = "assigned"
      /\ UNCHANGED <<campaign, import, contacts, suppressed, node, capacity, fetch, jobs, sends>>
  BY DEF StartJob
<1>2. /\ \A o \in Messages \ {j.msg} : message'[o] = message[o]
      /\ message'[j.msg] = [message[j.msg] EXCEPT !.status = "sending"]
  BY <1>0, <1>1 DEF SmsTypeOK
<1>3. /\ message'[j.msg].status = "sending" /\ message'[j.msg].node = message[j.msg].node
      /\ message'[j.msg].attempt = message[j.msg].attempt
      /\ message'[j.msg] \in [status : {"none", "queued"} \cup InFlight \cup Terminal,
                              node : Nodes \cup {nobody}, attempt : 0..MaxAttempts]
  <2>1. message[j.msg] \in [status : {"none", "queued"} \cup InFlight \cup Terminal,
                            node : Nodes \cup {nobody}, attempt : 0..MaxAttempts]
    BY <1>0 DEF SmsTypeOK
  <2> QED BY <1>2, <2>1 DEF InFlight
<1>4. SmsTypeOK'
  BY <1>0, <1>1, <1>3 DEF SmsTypeOK
<1>5. HeldInFlight' /\ AttemptsLeft'
  BY <1>0, <1>1, <1>2, <1>3 DEF HeldInFlight, AttemptsLeft, InFlight
<1>6. CompletedIsDone'
  BY <1>0, <1>1, <1>2, OutstandingRuns, CampaignsAlone DEF non_terminal, InFlight
<1> QED BY <1>1, <1>2, <1>3, <1>4, <1>5, <1>6, SameAttempts

LEMMA SendStep ==
    ASSUME SmsInv, NEW j \in jobs, SendText(j)
    PROVE  SmsInv'
<1> DEFINE s == [j EXCEPT !.did = "sent"]
<1>0. /\ SmsTypeOK /\ HeldInFlight /\ AttemptsLeft /\ CompletedIsDone /\ SendsCovered /\ NodesFit
      /\ j \in Job /\ j.msg \in Messages /\ j.did = "got"
  BY DEF SmsInv, SmsTypeOK, Job, SendText
<1>1. /\ jobs' = (jobs \ {j}) \cup {s}
      /\ sends' = [sends EXCEPT ![j.msg] = @ + 1]
      /\ UNCHANGED <<campaign, import, contacts, suppressed, message, node, capacity, fetch>>
  BY DEF SendText
<1>2. s \in Job /\ s.did = "sent" /\ s.msg = j.msg
  BY <1>0 DEF Job
<1> HIDE DEF s
<1>3. SmsTypeOK'
  <2>1. jobs' \subseteq Job /\ sends' \in [Messages -> Nat]
    BY <1>0, <1>1, <1>2 DEF SmsTypeOK
  <2> QED BY <1>0, <1>1, <2>1 DEF SmsTypeOK
<1>4. HeldInFlight' /\ AttemptsLeft' /\ CompletedIsDone' /\ NodesFit'
  BY <1>0, <1>1 DEF HeldInFlight, AttemptsLeft, CompletedIsDone, NodesFit, current_assigned_count
<1>5. SendsCovered'
  <2>1. IsFiniteSet(jobs')
    BY <1>0, <1>1, FS_AddElement, FS_RemoveElement DEF SendsCovered
  <2>2. ASSUME NEW m \in Messages
        PROVE  sends'[m] + Cardinality(unsent(m)') <= message'[m].attempt
    <3>1. IsFiniteSet(unsent(m)) /\ Cardinality(unsent(m)) \in Nat
      BY <1>0, FS_Subset, FS_CardinalityType DEF SendsCovered, unsent
    <3>2. sends[m] \in Nat /\ message[m].attempt \in Nat
          /\ sends[m] + Cardinality(unsent(m)) <= message[m].attempt
      BY <1>0 DEF SmsTypeOK, SendsCovered
    <3>3. CASE m = j.msg
      <4>1. unsent(m)' = unsent(m) \ {j} /\ j \in unsent(m)
        BY <1>0, <1>1, <1>2, <3>3 DEF unsent
      <4>2. Cardinality(unsent(m) \ {j}) = Cardinality(unsent(m)) - 1
        BY <3>1, <4>1, FS_RemoveElement
      <4>3. sends'[m] = sends[m] + 1
        BY <1>0, <1>1, <3>3 DEF SmsTypeOK
      <4> QED BY <1>1, <3>1, <3>2, <4>1, <4>2, <4>3
    <3>4. CASE m # j.msg
      <4>1. unsent(m)' = unsent(m) /\ sends'[m] = sends[m]
        BY <1>0, <1>1, <1>2, <3>4 DEF unsent, SmsTypeOK
      <4> QED BY <1>1, <3>2, <4>1
    <3> QED BY <3>3, <3>4
  <2> QED BY <2>1, <2>2 DEF SendsCovered
<1> QED BY <1>3, <1>4, <1>5 DEF SmsInv

MessageRow == [status : {"none", "queued"} \cup InFlight \cup Terminal,
               node : Nodes \cup {nobody}, attempt : 0..MaxAttempts]

\* maybe_complete_campaign completes a campaign that has nothing outstanding,
\* and says whether a message of it was given up.
LEMMA Completion ==
    ASSUME SmsInv, NEW cs, campaign' = maybe_complete_campaign(message', cs),
           message' \in [Messages -> MessageRow],
           \A c \in Campaigns : campaign[c] \in Completed =>
               \A p \in Phones : message'[<<c, p>>] = message[<<c, p>>]
    PROVE  CompletedIsDone'
           /\ campaign' \in [Campaigns -> {"none", "draft", "failed", "ready", "scheduled",
                                   "running", "paused", "cancelled"} \cup Completed]
<1> DEFINE st(c) == {message'[<<c, p>>].status : p \in Phones}
<1>0. CompletedIsDone /\ SmsTypeOK
  BY DEF SmsInv
<1>1. ASSUME NEW c \in Campaigns
      PROVE  campaign'[c] =
                IF c \in cs /\ campaign[c] = "running" /\ st(c) \cap non_terminal = {}
                THEN IF "dead_letter" \in st(c) THEN "completed_with_errors" ELSE "completed"
                ELSE campaign[c]
  BY DEF maybe_complete_campaign
<1>2. campaign' \in [Campaigns -> {"none", "draft", "failed", "ready", "scheduled",
                                   "running", "paused", "cancelled"} \cup Completed]
  <2>1. ASSUME NEW c \in Campaigns
        PROVE  campaign'[c] \in {"none", "draft", "failed", "ready", "scheduled",
                                   "running", "paused", "cancelled"} \cup Completed
    <3> HIDE DEF st
    <3> QED BY <1>0, <1>1 DEF SmsTypeOK, Completed
  <2>2. campaign' = [c \in Campaigns |-> campaign'[c]]
    BY Zenon DEF maybe_complete_campaign
  <2> QED BY <2>1, <2>2
<1>3. ASSUME NEW c \in Campaigns, campaign'[c] \in Completed
      PROVE  /\ \A p \in Phones : message'[<<c, p>>].status \in Terminal \cup {"none"}
             /\ campaign'[c] = "completed_with_errors" <=>
                   \E p \in Phones : message'[<<c, p>>].status = "dead_letter"
  <2>1. CASE campaign[c] \in Completed
    <3>1. campaign'[c] = campaign[c]
      <4> HIDE DEF st
      <4> QED BY <1>1, <2>1 DEF Completed
    <3>2. \A p \in Phones : message'[<<c, p>>] = message[<<c, p>>]
      BY <2>1
    <3>3. /\ \A p \in Phones : message[<<c, p>>].status \in Terminal \cup {"none"}
          /\ campaign[c] = "completed_with_errors" <=>
                \E p \in Phones : message[<<c, p>>].status = "dead_letter"
      BY <1>0, <2>1, Zenon DEF CompletedIsDone
    <3>4. (\E p \in Phones : message'[<<c, p>>].status = "dead_letter")
          <=> \E p \in Phones : message[<<c, p>>].status = "dead_letter"
      BY <3>2
    <3> QED BY <3>1, <3>2, <3>3, <3>4
  <2>2. CASE campaign[c] \notin Completed
    <3>1. /\ st(c) \cap non_terminal = {}
          /\ campaign'[c] = IF "dead_letter" \in st(c) THEN "completed_with_errors"
                            ELSE "completed"
      <4> HIDE DEF st
      <4> QED BY <1>1, <1>3, <2>2
    <3>2. ASSUME NEW p \in Phones PROVE message'[<<c, p>>].status \in Terminal \cup {"none"}
      <4>1. message'[<<c, p>>].status \in st(c)
        OBVIOUS
      <4>2. message'[<<c, p>>] \in MessageRow
        BY MessageOf
      <4>3. message'[<<c, p>>].status \in {"none", "queued"} \cup InFlight \cup Terminal
        BY <4>2 DEF MessageRow
      <4> QED BY <3>1, <4>1, <4>3 DEF non_terminal
    <3>3. "dead_letter" \in st(c) <=>
              \E p \in Phones : message'[<<c, p>>].status = "dead_letter"
      OBVIOUS
    <3> HIDE DEF st
    <3> QED BY <3>1, <3>2, <3>3
  <2> QED BY <2>1, <2>2
<1> QED BY <1>2, <1>3 DEF CompletedIsDone

\* A set with one more element.
LEMMA OneMore ==
    ASSUME NEW S, IsFiniteSet(S), NEW x
    PROVE  /\ IsFiniteSet(S \cup {x})
           /\ Cardinality(S) \in Nat /\ Cardinality(S \cup {x}) \in Nat
           /\ Cardinality(S \cup {x}) <= Cardinality(S) + 1
<1>1. IsFiniteSet(S \cup {x}) /\ Cardinality(S) \in Nat /\ Cardinality(S \cup {x}) \in Nat
  BY FS_AddElement, FS_CardinalityType
<1>2. x \in S => S \cup {x} = S
  OBVIOUS
<1>3. x \notin S => Cardinality(S \cup {x}) = Cardinality(S) + 1
  BY FS_AddElement
<1>4. CASE x \in S
  <2>1. Cardinality(S \cup {x}) = Cardinality(S)
    BY <1>2, <1>4, Zenon
  <2> QED BY <1>1, <2>1
<1>5. CASE x \notin S
  BY <1>1, <1>3, <1>5
<1> QED BY <1>4, <1>5

\* The row of a message that is claimed.
LEMMA ClaimedRow ==
    ASSUME NEW row \in MessageRow, NEW n
    PROVE  [row EXCEPT !.status = "assigned", !.node = n, !.attempt = @ + 1]
           = [status |-> "assigned", node |-> n, attempt |-> row.attempt + 1]
<1> DEFINE one == [row EXCEPT !.status = "assigned"]
           two == [one EXCEPT !.node = n]
<1>1. one = [status |-> "assigned", node |-> row.node, attempt |-> row.attempt]
  BY DEF MessageRow
<1>2. two = [status |-> "assigned", node |-> n, attempt |-> row.attempt]
  <2> HIDE DEF one
  <2> QED BY <1>1
<1>3. [two EXCEPT !.attempt = @ + 1]
      = [status |-> "assigned", node |-> n, attempt |-> row.attempt + 1]
  <2> HIDE DEF two
  <2> QED BY <1>2
<1> QED BY <1>3, Zenon

LEMMA FetchStep ==
    ASSUME SmsInv, NEW r \in Requests, FetchJob(r)
    PROVE  SmsInv'
<1> DEFINE n == fetch[r].node
           m == first(candidates(n))
           claimed == [message[m] EXCEPT !.status = "assigned", !.node = n, !.attempt = @ + 1]
           job == [msg |-> m, node |-> n, did |-> "got", attempt |-> claimed.attempt]
<1>0. /\ SmsTypeOK /\ HeldInFlight /\ AttemptsLeft /\ CompletedIsDone /\ SendsCovered /\ NodesFit
  BY DEF SmsInv
<1>1. /\ n # nobody /\ ~at_capacity(r) /\ candidates(n) # {}
      /\ message' = [message EXCEPT ![m] = claimed]
      /\ fetch' = [fetch EXCEPT ![r] = noFetch]
      /\ jobs' \in {jobs, jobs \cup {job}}
      /\ UNCHANGED <<campaign, import, contacts, suppressed, node, capacity, sends>>
  BY Zenon DEF FetchJob
<1>2. m \in Messages /\ message[m].status = "queued"
  <2> HIDE DEF m, n
  <2>1. candidates(n) \subseteq Messages
    BY DEF candidates
  <2>2. m \in candidates(n)
    BY <1>1, <2>1, FirstMessage DEF m
  <2> QED BY <2>2 DEF candidates
<1>3. n \in Nodes /\ fetch[r].max \in 0..MaxJobs
  BY <1>0, <1>1 DEF SmsTypeOK
<1>4. message[m] \in MessageRow /\ message[m].attempt \in Nat /\ message[m].attempt < MaxAttempts
  <2> HIDE DEF m, n
  <2> QED BY <1>0, <1>2 DEF SmsTypeOK, MessageRow, AttemptsLeft
<1> HIDE DEF m, n
<1>5. /\ claimed \in MessageRow /\ claimed.status = "assigned" /\ claimed.node = n
      /\ claimed.attempt = message[m].attempt + 1
  <2> DEFINE got == [status |-> "assigned", node |-> n, attempt |-> message[m].attempt + 1]
  <2>1. claimed = got
    BY <1>4, ClaimedRow, Zenon
  <2>2. message[m].attempt + 1 \in 0..MaxAttempts
    BY <1>4
  <2>3. got \in MessageRow
    BY <1>3, <2>2 DEF MessageRow, InFlight
  <2> HIDE DEF claimed
  <2> QED BY <2>1, <2>3
<1> HIDE DEF claimed
<1>6. job \in Job /\ job.msg = m
  BY <1>2, <1>3, <1>4, <1>5 DEF Job
<1> HIDE DEF job
<1>7. /\ message'[m] = claimed
      /\ \A o \in Messages \ {m} : message'[o] = message[o]
      /\ message' \in [Messages -> MessageRow]
  BY <1>0, <1>1, <1>2, <1>5 DEF SmsTypeOK, MessageRow
<1>8. SmsTypeOK'
  <2>1. jobs' \subseteq Job
    BY <1>0, <1>1, <1>6 DEF SmsTypeOK
  <2>2. fetch' \in [Requests -> [node : Nodes \cup {nobody}, max : 0..MaxJobs]]
    BY <1>0, <1>1 DEF SmsTypeOK, noFetch
  <2> QED BY <1>0, <1>1, <1>7, <2>1, <2>2 DEF SmsTypeOK, MessageRow
<1>9. HeldInFlight' /\ AttemptsLeft'
  BY <1>0, <1>3, <1>5, <1>7 DEF HeldInFlight, AttemptsLeft, InFlight
<1>10. CompletedIsDone'
  BY <1>1, <1>2, <1>7, OutstandingRuns, CampaignsAlone DEF non_terminal
<1>11. SendsCovered'
  <2>1. IsFiniteSet(jobs')
    BY <1>0, <1>1, FS_AddElement DEF SendsCovered
  <2>2. ASSUME NEW o \in Messages
        PROVE  sends'[o] + Cardinality(unsent(o)') <= message'[o].attempt
    <3>1. IsFiniteSet(unsent(o)) /\ Cardinality(unsent(o)) \in Nat
      BY <1>0, FS_Subset, FS_CardinalityType DEF SendsCovered, unsent
    <3>2. sends[o] \in Nat /\ message[o].attempt \in Nat
          /\ sends[o] + Cardinality(unsent(o)) <= message[o].attempt
      BY <1>0 DEF SmsTypeOK, SendsCovered
    <3>3. CASE o = m
      <4>1. PICK V : V = unsent(o)'
        OBVIOUS
      <4>2. V \subseteq unsent(o) \cup {job}
        BY <1>1, <4>1 DEF unsent
      <4>3. IsFiniteSet(unsent(o) \cup {job})
            /\ Cardinality(unsent(o) \cup {job}) <= Cardinality(unsent(o)) + 1
            /\ Cardinality(unsent(o) \cup {job}) \in Nat
        BY <3>1, OneMore
      <4>4. Cardinality(V) <= Cardinality(unsent(o)) + 1 /\ Cardinality(V) \in Nat
        BY <3>1, <4>2, <4>3, FS_Subset, FS_CardinalityType
      <4> QED BY <1>1, <1>5, <1>7, <3>2, <3>1, <3>3, <4>1, <4>4
    <3>4. CASE o # m
      <4>1. unsent(o)' = unsent(o)
        BY <1>1, <1>6, <3>4 DEF unsent
      <4> QED BY <1>1, <1>7, <3>2, <3>4, <4>1
    <3> QED BY <3>3, <3>4
  <2> QED BY <2>1, <2>2 DEF SendsCovered
<1>12. NodesFit'
  <2> SUFFICES ASSUME NEW k \in Nodes PROVE current_assigned_count(k)' <= MaxJobs
    BY DEF NodesFit
  <2> DEFINE A == {o \in Messages : message[o].node = k /\ message[o].status \in InFlight}
             B == {o \in Messages : message'[o].node = k /\ message'[o].status \in InFlight}
  <2>1. current_assigned_count(k) = Cardinality(A) /\ current_assigned_count(k)' = Cardinality(B)
    BY DEF current_assigned_count
  <2>2. B \subseteq A \cup {m} /\ (k # n => B \subseteq A)
    BY <1>5, <1>7
  <2>3. IsFiniteSet(A)
    BY MessagesFinite, FS_Subset
  <2> HIDE DEF A, B
  <2>4. IsFiniteSet(A \cup {m}) /\ Cardinality(A \cup {m}) <= Cardinality(A) + 1
        /\ Cardinality(A) \in Nat /\ Cardinality(A \cup {m}) \in Nat
    BY <2>3, OneMore
  <2>5. /\ Cardinality(B) <= Cardinality(A) + 1 /\ Cardinality(B) \in Nat
        /\ k # n => Cardinality(B) <= Cardinality(A)
    BY <2>2, <2>3, <2>4, FS_Subset, FS_CardinalityType
  <2>6. Cardinality(A) <= MaxJobs
    BY <1>0, <2>1 DEF NodesFit
  <2>7. k = n => Cardinality(A) < MaxJobs
    BY <1>1, <1>3, <2>1, <2>4 DEF at_capacity, n
  <2> QED BY <2>1, <2>4, <2>5, <2>6, <2>7
<1> QED BY <1>8, <1>9, <1>10, <1>11, <1>12 DEF SmsInv

\* The row of a message that a node gives back.
LEMMA ReleasedRow ==
    ASSUME NEW row \in MessageRow, NEW status
    PROVE  [row EXCEPT !.status = status, !.node = nobody]
           = [status |-> status, node |-> nobody, attempt |-> row.attempt]
<1> DEFINE one == [row EXCEPT !.status = status]
<1>1. one = [status |-> status, node |-> row.node, attempt |-> row.attempt]
  BY DEF MessageRow
<1>2. [one EXCEPT !.node = nobody]
      = [status |-> status, node |-> nobody, attempt |-> row.attempt]
  <2> HIDE DEF one
  <2> QED BY <1>1
<1> QED BY <1>2, Zenon

LEMMA RowFields ==
    ASSUME NEW s, NEW n, NEW k, NEW row, row = [status |-> s, node |-> n, attempt |-> k]
    PROVE  row.status = s /\ row.node = n /\ row.attempt = k
  OBVIOUS

\* Messages in flight are given back, to be tried again or done with.
LEMMA Released ==
    ASSUME SmsInv, NEW given \in SUBSET Messages, NEW st, NEW cs,
           \A m \in given : message[m].status \in InFlight,
           \A m \in given : st[m] \in {"queued", "delivered", "dead_letter"}
                            /\ (st[m] = "queued" => message[m].attempt < MaxAttempts),
           message' = [m \in Messages |->
               IF m \in given THEN [message[m] EXCEPT !.status = st[m], !.node = nobody]
               ELSE message[m]],
           campaign' = maybe_complete_campaign(message', cs),
           jobs' \subseteq jobs,
           UNCHANGED <<import, contacts, suppressed, node, capacity, fetch, sends>>
    PROVE  SmsInv'
<1>0. /\ SmsTypeOK /\ HeldInFlight /\ AttemptsLeft /\ message \in [Messages -> MessageRow]
  BY DEF SmsInv, SmsTypeOK, MessageRow
<1>1. ASSUME NEW m \in Messages, m \in given
      PROVE  message'[m] = [status |-> st[m], node |-> nobody, attempt |-> message[m].attempt]
  BY <1>0, <1>1, ReleasedRow
<1>2. ASSUME NEW m \in Messages, m \notin given
      PROVE  message'[m] = message[m]
  BY <1>2
<1>3. message' \in [Messages -> MessageRow]
  <2>1. ASSUME NEW m \in Messages PROVE message'[m] \in MessageRow
    <3>1. CASE m \in given
      <4>1. message[m].attempt \in 0..MaxAttempts
        BY <1>0 DEF MessageRow
      <4>2. st[m] \in {"none", "queued"} \cup InFlight \cup Terminal
        BY <3>1 DEF Terminal
      <4>3. message'[m] = [status |-> st[m], node |-> nobody, attempt |-> message[m].attempt]
        BY <1>1, <3>1
      <4>4. [status |-> st[m], node |-> nobody, attempt |-> message[m].attempt] \in MessageRow
        BY <4>1, <4>2 DEF MessageRow
      <4> QED BY <4>3, <4>4, Zenon
    <3>2. CASE m \notin given
      BY <1>0, <1>2, <3>2
    <3> QED BY <3>1, <3>2
  <2>2. message' = [m \in Messages |-> message'[m]]
    OBVIOUS
  <2> QED BY <2>1, <2>2
<1>4. \A c \in Campaigns : campaign[c] \in Completed =>
               \A p \in Phones : message'[<<c, p>>] = message[<<c, p>>]
  <2> SUFFICES ASSUME NEW c \in Campaigns, campaign[c] \in Completed, NEW p \in Phones
               PROVE  message'[<<c, p>>] = message[<<c, p>>]
    OBVIOUS
  <2>1. <<c, p>> \in Messages /\ <<c, p>>[1] = c
    BY MessageOf
  <2>2. <<c, p>> \notin given
    BY <2>1, OutstandingRuns DEF non_terminal
  <2> QED BY <1>2, <2>1, <2>2
<1>5. CompletedIsDone'
      /\ campaign' \in [Campaigns -> {"none", "draft", "failed", "ready", "scheduled",
                                   "running", "paused", "cancelled"} \cup Completed]
  BY <1>3, <1>4, Completion
<1>6. SmsTypeOK'
  BY <1>0, <1>3, <1>5 DEF SmsTypeOK, MessageRow
<1>7. \A m \in Messages : /\ message'[m].attempt = message[m].attempt
                          /\ message'[m].node \in {message[m].node, nobody}
  BY <1>1, <1>2
<1>8. HeldInFlight' /\ AttemptsLeft'
  <2>1. ASSUME NEW m \in Messages
        PROVE  /\ message'[m].status \in InFlight <=> message'[m].node # nobody
               /\ message'[m].status = "none" => message'[m].attempt = 0
               /\ message'[m].status = "queued" => message'[m].attempt < MaxAttempts
    <3>1. CASE m \in given
      <4>1. message'[m] = [status |-> st[m], node |-> nobody, attempt |-> message[m].attempt]
        BY <1>1, <3>1
      <4>2. st[m] \in {"queued", "delivered", "dead_letter"}
            /\ (st[m] = "queued" => message[m].attempt < MaxAttempts)
        BY <3>1
      <4>3. /\ message'[m].status = st[m] /\ message'[m].node = nobody
            /\ message'[m].attempt = message[m].attempt
        <5> DEFINE row == message'[m]
        <5>1. row = [status |-> st[m], node |-> nobody, attempt |-> message[m].attempt]
          BY <4>1
        <5> HIDE DEF row
        <5>2. row.status = st[m] /\ row.node = nobody /\ row.attempt = message[m].attempt
          BY <5>1, RowFields
        <5> QED BY <5>2 DEF row
      <4>4. st[m] \notin InFlight /\ st[m] # "none"
        BY <4>2 DEF InFlight
      <4> QED BY <4>2, <4>3, <4>4
    <3>2. CASE m \notin given
      BY <1>0, <1>2, <3>2 DEF HeldInFlight, AttemptsLeft
    <3> QED BY <3>1, <3>2
  <2> QED BY <2>1 DEF HeldInFlight, AttemptsLeft
<1> QED BY <1>5, <1>6, <1>7, <1>8, SameAttempts

LEMMA ReportStep ==
    ASSUME SmsInv, NEW j \in jobs, NEW outcome, ReportResult(j, outcome)
    PROVE  SmsInv'
<1> DEFINE m == j.msg
           status == IF outcome = "delivered" THEN "delivered"
                     ELSE IF can_retry(m, outcome) THEN "queued" ELSE "dead_letter"
           same == [o \in Messages |-> status]
<1>0. /\ SmsTypeOK /\ HeldInFlight /\ CompletedIsDone /\ AttemptsLeft
      /\ message \in [Messages -> MessageRow] /\ m \in Messages /\ j.node \in Nodes
  BY DEF SmsInv, SmsTypeOK, Job, MessageRow
<1>1. UNCHANGED <<import, contacts, suppressed, node, capacity, fetch, sends>>
  BY Zenon DEF ReportResult
<1>2. CASE owned_by(j)
  <2>1. /\ message' = [message EXCEPT ![m].status = status, ![m].node = nobody]
        /\ campaign' = IF status = "queued" THEN campaign
                       ELSE maybe_complete_campaign(message', {m[1]})
        /\ jobs' \in {jobs, jobs \ {j}}
    BY <1>2, Zenon DEF ReportResult
  <2>2. message[m].status \in InFlight
    BY <1>0, <1>2 DEF HeldInFlight, owned_by
  <2>3. status \in {"queued", "delivered", "dead_letter"}
        /\ (status = "queued" => message[m].attempt < MaxAttempts)
    BY DEF can_retry
  <2> HIDE DEF m, status
  <2>4. message' = [message EXCEPT ![m] = [status |-> status, node |-> nobody,
                                           attempt |-> message[m].attempt]]
    <3> DEFINE one == [message EXCEPT ![m].status = status]
    <3>1. one[m] = [message[m] EXCEPT !.status = status] /\ one \in [Messages -> {one[o] : o \in Messages}]
          /\ \A o \in Messages \ {m} : one[o] = message[o]
      BY <1>0
    <3>2. one[m] = [status |-> status, node |-> message[m].node, attempt |-> message[m].attempt]
      BY <1>0, <3>1 DEF MessageRow
    <3>3. message' = [one EXCEPT ![m].node = nobody]
      BY <2>1, Zenon
    <3> HIDE DEF one
    <3>4. message'[m] = [status |-> status, node |-> nobody, attempt |-> message[m].attempt]
      BY <1>0, <3>1, <3>2, <3>3
    <3>5. \A o \in Messages \ {m} : message'[o] = message[o]
      BY <1>0, <3>1, <3>3
    <3>6. message' = [o \in Messages |-> message'[o]]
      BY <3>1, <3>3
    <3> QED BY <1>0, <3>4, <3>5, <3>6
  <2>5. message' = [o \in Messages |->
            IF o \in {m} THEN [message[o] EXCEPT !.status = same[o], !.node = nobody]
            ELSE message[o]]
    <3>1. [message[m] EXCEPT !.status = status, !.node = nobody]
          = [status |-> status, node |-> nobody, attempt |-> message[m].attempt]
      BY <1>0, ReleasedRow
    <3> QED BY <1>0, <2>4, <3>1
  <2>6. campaign = maybe_complete_campaign(message', {})
    BY <1>0 DEF maybe_complete_campaign, SmsTypeOK
  <2>7. PICK cs : campaign' = maybe_complete_campaign(message', cs)
    BY <2>1, <2>6
  <2>8. jobs' \subseteq jobs /\ {m} \in SUBSET Messages
    BY <1>0, <2>1
  <2>9. \A o \in {m} : message[o].status \in InFlight /\ same[o] = status
    BY <1>0, <2>2
  <2> HIDE DEF same
  <2>10. \A o \in {m} : same[o] \in {"queued", "delivered", "dead_letter"}
                        /\ (same[o] = "queued" => message[o].attempt < MaxAttempts)
    BY <2>3, <2>9
  <2> QED BY <1>1, <2>5, <2>7, <2>8, <2>9, <2>10, Released
<1>3. CASE ~owned_by(j)
  <2>1. jobs' \subseteq jobs /\ UNCHANGED <<message, campaign>>
    BY <1>3, Zenon DEF ReportResult
  <2>2. SmsTypeOK' /\ CompletedIsDone' /\ HeldInFlight' /\ AttemptsLeft'
    BY <1>0, <1>1, <2>1 DEF SmsTypeOK, CompletedIsDone, HeldInFlight, AttemptsLeft
  <2> QED BY <1>1, <2>1, <2>2, SameAttempts
<1> QED BY <1>2, <1>3

LEMMA ReconcileStep ==
    ASSUME SmsInv, NEW stale \in SUBSET Messages, Reconcile(stale)
    PROVE  SmsInv'
<1> DEFINE status(m) == IF can_retry(m, "timeout") THEN "queued" ELSE "dead_letter"
           cs == {m[1] : m \in {s \in stale : status(s) = "dead_letter"}}
           st == [m \in Messages |-> status(m)]
<1>1. /\ \A m \in stale : message[m].status \in InFlight
      /\ message' = [m \in Messages |->
              IF m \in stale THEN [message[m] EXCEPT !.status = status(m), !.node = nobody]
              ELSE message[m]]
      /\ campaign' = maybe_complete_campaign(message', cs)
      /\ jobs' \subseteq jobs
      /\ UNCHANGED <<import, contacts, suppressed, node, capacity, fetch, sends>>
  BY Zenon DEF Reconcile, sweepable
<1>2. \A m \in stale : status(m) \in {"queued", "delivered", "dead_letter"}
                       /\ (status(m) = "queued" => message[m].attempt < MaxAttempts)
  BY DEF can_retry
<1> HIDE DEF status, cs
<1>3. message' = [m \in Messages |->
          IF m \in stale THEN [message[m] EXCEPT !.status = st[m], !.node = nobody]
          ELSE message[m]]
  BY <1>1
<1>4. \A m \in stale : st[m] \in {"queued", "delivered", "dead_letter"}
                       /\ (st[m] = "queued" => message[m].attempt < MaxAttempts)
  BY <1>2
<1> HIDE DEF st
<1> QED BY <1>1, <1>3, <1>4, Released

-----------------------------------------------------------------------------
LEMMA SmsStep == SmsInv /\ [SmsNext]_smsVars => SmsInv'
<1> SUFFICES ASSUME SmsInv, [SmsNext]_smsVars PROVE SmsInv'
  OBVIOUS
<1>1. CASE CampaignRoutes
  BY <1>1, QuietRoutes, StartStep, CancelStep DEF CampaignRoutes, CampaignTransaction
<1>2. CASE UploadRoute
  BY <1>2, QuietRoutes DEF UploadRoute
<1>3. CASE RecipientRoutes \/ NodeRoutes
  BY <1>3, QuietRoutes
<1>4. CASE DeviceApi
  BY <1>4, QuietRoutes, FetchStep, StartJobStep, SendStep, ReportStep DEF DeviceApi
<1>5. CASE ReconcileLoop
  BY <1>5, ReconcileStep DEF ReconcileLoop
<1>6. CASE UNCHANGED smsVars
  <2>1. SmsTypeOK' /\ CompletedIsDone' /\ UNCHANGED <<message, jobs, sends>>
    BY <1>6 DEF smsVars, SmsInv, SmsTypeOK, CompletedIsDone
  <2> QED BY <2>1, MessagesAlone
<1> QED BY <1>1, <1>2, <1>3, <1>4, <1>5, <1>6 DEF SmsNext

LEMMA SmsAccounted == SmsInv => CampaignsAccounted
<1> SUFFICES ASSUME SmsInv PROVE DeliveryBounded
  BY DEF SmsInv, CampaignsAccounted
<1>1. ASSUME NEW m \in Messages
      PROVE  sends[m] <= message[m].attempt /\ message[m].attempt <= MaxAttempts
  <2>1. IsFiniteSet(unsent(m)) /\ Cardinality(unsent(m)) \in Nat
    BY FS_Subset, FS_CardinalityType DEF SmsInv, SendsCovered, unsent
  <2>2. /\ sends[m] \in Nat /\ message[m].attempt \in 0..MaxAttempts
        /\ sends[m] + Cardinality(unsent(m)) <= message[m].attempt
    BY DEF SmsInv, SmsTypeOK, SendsCovered
  <2> QED BY <2>1, <2>2
<1> QED BY <1>1 DEF DeliveryBounded, SmsInv, NodesFit

\* What the console shows of a campaign is true, whatever reports, sweeps,
\* pauses and second starts happen in what order: a completed campaign has
\* nothing outstanding and says whether a message was given up, no text goes
\* out more often than attempts were made, and no node is given more than it
\* said it can take.
THEOREM SmsSafe == SmsSpec => []CampaignsAccounted
<1> QED BY SmsInitInv, SmsStep, SmsAccounted, PTL DEF SmsSpec

-----------------------------------------------------------------------------
(* The gateway: ViewCurrent for every number of rooms, events and frames,  *)
(* and every size of the mailbox.                                          *)

\* What a queue is after a message is added to it or taken from it.
LEMMA Added ==
    ASSUME NEW S, NEW s \in Seq(S), NEW x \in S
    PROVE  /\ Append(s, x) \in Seq(S) /\ Len(Append(s, x)) = Len(s) + 1
           /\ \A i \in 1..Len(s) : Append(s, x)[i] = s[i]
           /\ Append(s, x)[Len(s) + 1] = x /\ Len(s) \in Nat
           /\ \A i \in 1..Len(s) : s[i] \in S
  OBVIOUS

LEMMA Taken ==
    ASSUME NEW S, NEW s \in Seq(S), s # <<>>
    PROVE  /\ Tail(s) \in Seq(S) /\ Len(Tail(s)) = Len(s) - 1
           /\ \A i \in 1..Len(s) - 1 : Tail(s)[i] = s[i + 1]
           /\ Head(s) = s[1] /\ Len(s) \in Nat /\ Len(s) >= 1 /\ Head(s) \in S
  OBVIOUS

HIDE SmsAssumption DEF SmsAssumption
USE GatewayAssumption DEF GatewayAssumption

LEMMA QueueAppended ==
    ASSUME queue \in Seq(Message), NEW m \in Message, queue' = Append(queue, m)
    PROVE  /\ queue' \in Seq(Message)
           /\ \A x : Queued(x)' <=> Queued(x) \/ x = m
<1>1. /\ Append(queue, m) \in Seq(Message) /\ Len(Append(queue, m)) = Len(queue) + 1
      /\ \A i \in 1..Len(queue) : Append(queue, m)[i] = queue[i]
      /\ Append(queue, m)[Len(queue) + 1] = m /\ Len(queue) \in Nat
  BY Added
<1>2. ASSUME NEW x PROVE Queued(x)' <=> Queued(x) \/ x = m
  <2>1. ASSUME NEW i \in 1..Len(queue'), queue'[i] = x PROVE Queued(x) \/ x = m
    <3>1. i \in 1..Len(queue) \/ i = Len(queue) + 1
      BY <1>1
    <3> QED BY <1>1, <2>1, <3>1 DEF Queued
  <2>2. ASSUME NEW i \in 1..Len(queue), queue[i] = x
        PROVE  i \in 1..Len(queue') /\ queue'[i] = x
    BY <1>1, <2>2
  <2>3. Len(queue) + 1 \in 1..Len(queue') /\ queue'[Len(queue) + 1] = m
    BY <1>1
  <2> QED BY <2>1, <2>2, <2>3 DEF Queued
<1> QED BY <1>1, <1>2

LEMMA QueueTaken ==
    ASSUME queue \in Seq(Message), queue # <<>>, queue' = Tail(queue)
    PROVE  /\ queue' \in Seq(Message) /\ Head(queue) \in Message
           /\ \A x : Queued(x) <=> Queued(x)' \/ x = Head(queue)
<1>1. /\ Tail(queue) \in Seq(Message) /\ Len(Tail(queue)) = Len(queue) - 1
      /\ \A i \in 1..Len(queue) - 1 : Tail(queue)[i] = queue[i + 1]
      /\ Head(queue) = queue[1] /\ Len(queue) \in Nat /\ Len(queue) >= 1
      /\ Head(queue) \in Message
  BY Taken
<1>2. ASSUME NEW x PROVE Queued(x) <=> Queued(x)' \/ x = Head(queue)
  <2>1. ASSUME NEW i \in 1..Len(queue), queue[i] = x PROVE Queued(x)' \/ x = Head(queue)
    <3>1. CASE i = 1
      BY <1>1, <2>1, <3>1
    <3>2. CASE i # 1
      <4>1. i - 1 \in 1..Len(queue') /\ queue'[i - 1] = x
        BY <1>1, <2>1, <3>2
      <4> QED BY <4>1 DEF Queued
    <3> QED BY <3>1, <3>2
  <2>2. ASSUME NEW i \in 1..Len(queue'), queue'[i] = x PROVE Queued(x)
    <3>1. i + 1 \in 1..Len(queue) /\ queue[i + 1] = x
      BY <1>1, <2>2
    <3> QED BY <3>1 DEF Queued
  <2>3. 1 \in 1..Len(queue) /\ queue[1] = Head(queue)
    BY <1>1
  <2> QED BY <2>1, <2>2, <2>3 DEF Queued
<1> QED BY <1>1, <1>2

LEMMA QueueReplaced ==
    ASSUME queue \in Seq(Message), NEW m \in Message, queue' = <<m>>
    PROVE  /\ queue' \in Seq(Message)
           /\ \A x : Queued(x)' <=> x = m
<1>1. queue' \in Seq(Message) /\ Len(queue') = 1 /\ queue'[1] = m
  OBVIOUS
<1>2. 1..Len(queue') = {1}
  BY <1>1
<1> QED BY <1>1, <1>2 DEF Queued

\* The events of a room that are queued are among the numbers that are lost
\* when the mailbox is emptied.
LEMMA QueuedNumbers ==
    ASSUME queue \in Seq(Message)
    PROVE  /\ \A r \in Rooms, e \in Nat : Queued(<<r, e>>) => e \in Numbers(queue)
           /\ Numbers(queue) \subseteq Nat
<1>1. ASSUME NEW r \in Rooms, NEW e \in Nat, Queued(<<r, e>>) PROVE e \in Numbers(queue)
  <2>1. PICK i \in DOMAIN queue : queue[i] = <<r, e>>
    <3>1. DOMAIN queue = 1..Len(queue)
      OBVIOUS
    <3> QED BY <1>1, <3>1 DEF Queued
  <2>2. OfRoom(queue[i])
    BY <2>1 DEF OfRoom
  <2>3. queue[i] \in {queue[k] : k \in {j \in DOMAIN queue : OfRoom(queue[j])}}
    BY <2>2
  <2> QED BY <2>1, <2>3 DEF Numbers
<1> QED BY <1>1 DEF Numbers, OfRoom

\* What offer does to the mailbox, whichever way it takes.
LEMMA Offered ==
    ASSUME GatewayTypeOK, NEW m \in Message, offer(m)
    PROVE  /\ queue' \in Seq(Message) /\ needs_state_sync' \in BOOLEAN /\ wake' \in BOOLEAN
           /\ \A x : Queued(x)' => Queued(x) \/ x = m
           /\ sent' = sent /\ missed \subseteq missed' /\ missed' \subseteq Nat
           /\ \A r \in Rooms, e \in Nat :
                 Queued(<<r, e>>) => Queued(<<r, e>>)' \/ e \in missed'
           /\ \/ owed' = owed
              \/ OfRoom(m) /\ owed' = owed \cup {m[2]} /\ needs_state_sync'
           /\ owed \subseteq owed'
           /\ OfRoom(m) => Queued(m)' \/ m[2] \in owed'
           /\ \/ needs_state_sync' /\ wake'
              \/ needs_state_sync' = needs_state_sync /\ wake' = wake
<1>0. queue \in Seq(Message) /\ missed \subseteq Nat
      /\ needs_state_sync \in BOOLEAN /\ wake \in BOOLEAN
  BY DEF GatewayTypeOK
<1>1. CASE ~Full /\ queue' = Append(queue, m) /\ UNCHANGED <<needs_state_sync, wake, history>>
  <2>1. queue' \in Seq(Message) /\ \A x : Queued(x)' <=> Queued(x) \/ x = m
    BY <1>0, <1>1, QueueAppended
  <2> QED BY <1>0, <1>1, <2>1 DEF history
<1>2. CASE /\ Full /\ m \in Droppable
           /\ needs_state_sync' = TRUE /\ wake' = TRUE
           /\ owed' = owed \cup {m[2]}
           /\ UNCHANGED <<queue, sent, missed>>
  <2>1. \A x : Queued(x)' <=> Queued(x)
    BY <1>2 DEF Queued
  <2>2. OfRoom(m)
    BY <1>2 DEF OfRoom
  <2> QED BY <1>0, <1>2, <2>1, <2>2
<1>3. CASE /\ Full /\ m \notin Droppable
           /\ queue' = <<m>>
           /\ missed' = missed \cup Numbers(queue)
           /\ UNCHANGED <<needs_state_sync, wake, owed, sent>>
  <2>1. queue' \in Seq(Message) /\ \A x : Queued(x)' <=> x = m
    BY <1>0, <1>3, QueueReplaced
  <2>2. /\ \A r \in Rooms, e \in Nat : Queued(<<r, e>>) => e \in Numbers(queue)
        /\ Numbers(queue) \subseteq Nat
    BY <1>0, QueuedNumbers
  <2> QED BY <1>0, <1>3, <2>1, <2>2
<1> QED BY <1>1, <1>2, <1>3 DEF offer

\* What the places of the two tasks carry.
LEMMA Places ==
    ASSUME GatewayTypeOK
    PROVE  /\ writer.at = "build" => writer.room \in Rooms
           /\ writer.at = "sync" => writer.room \in Rooms /\ writer.n \in Nat
           /\ writer.at = "send" => writer.m \in Message
           /\ loop.at = "build" => loop.room \in Rooms
           /\ loop.at = "built" => loop.room \in Rooms /\ loop.n \in Nat
           /\ writer \in WriterPlace /\ loop \in LoopPlace
<1>1. writer \in WriterPlace /\ loop \in LoopPlace
  BY DEF GatewayTypeOK
<1>2. /\ writer.at = "build" => writer.room \in Rooms
      /\ writer.at = "sync" => writer.room \in Rooms /\ writer.n \in Nat
      /\ writer.at = "send" => writer.m \in Message
  BY <1>1 DEF WriterPlace
<1>3. /\ loop.at = "build" => loop.room \in Rooms
      /\ loop.at = "built" => loop.room \in Rooms /\ loop.n \in Nat
  BY <1>1 DEF LoopPlace
<1> QED BY <1>1, <1>2, <1>3

LEMMA PlainPlaces ==
    /\ \A l \in {"none", "top", "get", "parked", "dead"} : At(l).at = l /\ At(l) \in WriterPlace
    /\ At("idle").at = "idle" /\ At("idle") \in LoopPlace
  BY DEF At, WriterPlace, LoopPlace

-----------------------------------------------------------------------------
(* The engine of the room and the hub.                                     *)

LEMMA GatewayInitInv == Init => GatewayInv
<1> SUFFICES ASSUME Init PROVE GatewayInv
  OBVIOUS
<1>1. Len(queue) = 0 /\ Len(inbox) = 0 /\ queue \in Seq(Message) /\ inbox \in Seq(Frame)
  BY DEF Init
<1>2. \A x : ~Queued(x)
  BY <1>1 DEF Queued
<1>3. writer.at = "none" /\ loop.at = "idle" /\ writer \in WriterPlace /\ loop \in LoopPlace
  BY PlainPlaces DEF Init
<1>4. GatewayTypeOK
  BY <1>1, <1>3 DEF Init, GatewayTypeOK
<1>5. NothingAhead
  BY <1>2, <1>3 DEF Init, NothingAhead, Sending
<1>6. RoomWanted /\ JoinsTheRoom /\ OwedIsComing /\ FlagWakes /\ EventsAccounted /\ ToldIsShown
  BY <1>3 DEF Init, RoomWanted, JoinsTheRoom, OwedIsComing, FlagWakes, EventsAccounted, ToldIsShown
<1> QED BY <1>4, <1>5, <1>6 DEF GatewayInv

LEMMA WriteStep ==
    ASSUME GatewayInv, NEW r \in Rooms, WriteEvent(r)
    PROVE  GatewayInv'
<1>0. /\ GatewayTypeOK /\ NothingAhead /\ RoomWanted /\ JoinsTheRoom
      /\ OwedIsComing /\ FlagWakes /\ EventsAccounted /\ ToldIsShown
  BY DEF GatewayInv
<1>1. /\ written[r] < Events[r]
      /\ written' = [written EXCEPT ![r] = @ + 1]
      /\ UNCHANGED <<published, other, conn, inbox, frames, joined, refused, queue, needs_state_sync, wake,
                     writer, loop, stream, engine, faults, room, shown, owed, sent, missed>>
  BY DEF WriteEvent, mailbox, channel, client, history, rooms
<1>2. /\ written' \in [Rooms -> Nat] /\ written \in [Rooms -> Nat] /\ published \in [Rooms -> Nat]
      /\ \A q \in Rooms : written[q] <= written'[q]
      /\ \A q \in Rooms : written[q] <= Events[q] => written'[q] <= Events[q]
  BY <1>0, <1>1 DEF GatewayTypeOK
<1>3. GatewayTypeOK'
  BY <1>0, <1>1, <1>2 DEF GatewayTypeOK
<1>4. NothingAhead'
  <2>1. \A q \in Rooms : published'[q] <= written'[q] /\ written'[q] <= Events[q]
    BY <1>0, <1>1, <1>2 DEF NothingAhead
  <2>2. writer'.at = "sync" => writer'.n <= written'[writer'.room]
    BY <1>0, <1>1, <1>2, Places DEF NothingAhead
  <2>3. loop'.at = "built" => loop'.n <= written'[loop'.room]
    BY <1>0, <1>1, <1>2, Places DEF NothingAhead
  <2>4. shown' # none => room' # none /\ shown' \subseteq 1..written'[room']
    <3>1. room \in Rooms \cup {none}
      BY <1>0 DEF GatewayTypeOK
    <3> QED BY <1>0, <1>1, <1>2, <3>1 DEF NothingAhead
  <2>5. \A q \in Rooms, e \in Nat :
          Queued(<<q, e>>)' \/ Sending(<<q, e>>)' => e \in 1..published'[q]
    BY <1>0, <1>1 DEF NothingAhead, Queued, Sending
  <2> QED BY <2>1, <2>2, <2>3, <2>4, <2>5 DEF NothingAhead
<1>5. RoomWanted' /\ JoinsTheRoom' /\ FlagWakes' /\ ToldIsShown'
  BY <1>0, <1>1 DEF RoomWanted, JoinsTheRoom, FlagWakes, ToldIsShown, IsCommand, NothingAsked, LastAskedIs
<1>6. EventsAccounted'
  BY <1>0, <1>1 DEF EventsAccounted, Queued, Sending
<1>7. OwedIsComing'
  <2>1. joined \in Rooms \cup {none} /\ owed \subseteq Nat
    BY <1>0 DEF GatewayTypeOK
  <2> QED BY <1>0, <1>1, <1>2, <2>1 DEF OwedIsComing
<1> QED BY <1>3, <1>4, <1>5, <1>6, <1>7 DEF GatewayInv

\* The hub gives a connection a message: what was accounted for still is, and
\* an event of the room that was joined is from now on.
LEMMA OfferStep ==
    ASSUME GatewayInv, NEW m \in Message, offer(m),
           UNCHANGED <<written, conn, inbox, joined, refused, writer, loop, room, shown, stream, engine>>,
           published' \in [Rooms -> Nat],
           \A r \in Rooms : published[r] <= published'[r] /\ published'[r] <= written[r],
           \A r \in Rooms : r = joined =>
               \A e \in 1..published'[r] : e \in 1..published[r] \/ m = <<r, e>>,
           OfRoom(m) => joined \in Rooms /\ m[1] = joined /\ m[2] \in 1..published'[joined]
    PROVE  GatewayInv'
<1>0. /\ GatewayTypeOK /\ NothingAhead /\ RoomWanted /\ JoinsTheRoom
      /\ OwedIsComing /\ FlagWakes /\ EventsAccounted /\ ToldIsShown
  BY DEF GatewayInv
<1>1. /\ queue' \in Seq(Message) /\ needs_state_sync' \in BOOLEAN /\ wake' \in BOOLEAN
      /\ \A x : Queued(x)' => Queued(x) \/ x = m
      /\ sent' = sent /\ missed \subseteq missed' /\ missed' \subseteq Nat
      /\ \A r \in Rooms, e \in Nat :
            Queued(<<r, e>>) => Queued(<<r, e>>)' \/ e \in missed'
      /\ \/ owed' = owed
         \/ OfRoom(m) /\ owed' = owed \cup {m[2]} /\ needs_state_sync'
      /\ owed \subseteq owed'
      /\ OfRoom(m) => Queued(m)' \/ m[2] \in owed'
      /\ \/ needs_state_sync' /\ wake'
         \/ needs_state_sync' = needs_state_sync /\ wake' = wake
  BY <1>0, Offered
<1>2. /\ written \in [Rooms -> Nat] /\ published \in [Rooms -> Nat]
      /\ joined \in Rooms \cup {none} /\ owed \subseteq Nat
  BY <1>0 DEF GatewayTypeOK
<1>3. OfRoom(m) => m[2] \in Nat /\ m = <<m[1], m[2]>> /\ m[1] \in Rooms
  BY DEF OfRoom
<1>4. GatewayTypeOK'
  <2>1. owed' \subseteq Nat /\ sent' \subseteq Nat \ {0}
    BY <1>0, <1>1, <1>3 DEF GatewayTypeOK
  <2> QED BY <1>0, <1>1, <2>1 DEF GatewayTypeOK
<1>5. NothingAhead'
  <2>1. ASSUME NEW r \in Rooms, NEW e \in Nat, Queued(<<r, e>>)' \/ Sending(<<r, e>>)'
        PROVE  e \in 1..published'[r]
    <3>1. CASE Queued(<<r, e>>) \/ Sending(<<r, e>>)
      <4>1. e \in 1..published[r]
        BY <1>0, <3>1 DEF NothingAhead
      <4> QED BY <1>2, <4>1
    <3>2. CASE m = <<r, e>>
      <4>1. OfRoom(m) /\ m[1] = r /\ m[2] = e
        BY <3>2 DEF OfRoom
      <4> QED BY <4>1
    <3>3. Sending(<<r, e>>)' => Sending(<<r, e>>)
      BY DEF Sending
    <3> QED BY <1>1, <2>1, <3>1, <3>2, <3>3
  <2>2. /\ \A r \in Rooms : published'[r] <= written'[r] /\ written'[r] <= Events[r]
        /\ writer'.at = "sync" => writer'.n <= written'[writer'.room]
        /\ loop'.at = "built" => loop'.n <= written'[loop'.room]
        /\ shown' # none => room' # none /\ shown' \subseteq 1..written'[room']
    BY <1>0 DEF NothingAhead
  <2> QED BY <2>1, <2>2 DEF NothingAhead
<1>6. RoomWanted' /\ JoinsTheRoom'
  BY <1>0 DEF RoomWanted, JoinsTheRoom, IsCommand, NothingAsked, LastAskedIs
<1>7. FlagWakes' /\ ToldIsShown'
  <2>1. FlagWakes'
    <3>1. CASE needs_state_sync' /\ wake'
      BY <3>1 DEF FlagWakes
    <3>2. CASE needs_state_sync' = needs_state_sync /\ wake' = wake
      BY <1>0, <3>2 DEF FlagWakes
    <3> QED BY <1>1, <3>1, <3>2
  <2>2. ToldIsShown'
    BY <1>0, <1>1 DEF ToldIsShown
  <2> QED BY <2>1, <2>2
<1>8. OwedIsComing'
  <2> SUFFICES ASSUME NEW e \in owed'
               PROVE  /\ joined # none /\ e <= written[joined]
                      /\ \/ writer.at = "dead" \/ needs_state_sync'
                         \/ writer.at = "build" /\ writer.room = joined
                         \/ writer.at = "sync" /\ writer.room = joined /\ e <= writer.n
    BY DEF OwedIsComing
  <2>1. CASE e \in owed
    BY <1>0, <1>1, <2>1 DEF OwedIsComing
  <2>2. CASE e \notin owed
    <3>1. OfRoom(m) /\ e = m[2] /\ needs_state_sync'
      BY <1>1, <2>2
    <3>2. joined \in Rooms /\ e \in 1..published'[joined]
      BY <3>1
    <3>3. joined # none
      BY <3>2
    <3> QED BY <1>2, <3>1, <3>2, <3>3
  <2> QED BY <2>1, <2>2
<1>9. EventsAccounted'
  <2> SUFFICES ASSUME joined # none, loop.at # "build", writer.at # "dead",
                      NEW e \in 1..published'[joined]
               PROVE  \/ e \in sent' \cup missed' \cup owed'
                      \/ Queued(<<joined, e>>)' \/ Sending(<<joined, e>>)'
                      \/ loop.at = "built" /\ e <= loop.n
    BY DEF EventsAccounted
  <2>1. joined \in Rooms /\ e \in Nat
    BY <1>2
  <2>2. CASE e \in 1..published[joined]
    <3>1. \/ e \in sent \cup missed \cup owed
          \/ Queued(<<joined, e>>) \/ Sending(<<joined, e>>)
          \/ loop.at = "built" /\ e <= loop.n
      BY <1>0, <2>2 DEF EventsAccounted
    <3>2. Sending(<<joined, e>>) => Sending(<<joined, e>>)'
      BY DEF Sending
    <3> QED BY <1>1, <2>1, <3>1, <3>2
  <2>3. CASE m = <<joined, e>>
    <3>1. OfRoom(m) /\ m[2] = e
      BY <2>1, <2>3 DEF OfRoom
    <3> QED BY <1>1, <2>3, <3>1
  <2> QED BY <2>1, <2>2, <2>3
<1> QED BY <1>4, <1>5, <1>6, <1>7, <1>8, <1>9 DEF GatewayInv

LEMMA PublishStep ==
    ASSUME GatewayInv, NEW r \in Rooms, Publish(r)
    PROVE  GatewayInv'
<1>0. /\ GatewayTypeOK /\ NothingAhead /\ RoomWanted /\ JoinsTheRoom
      /\ OwedIsComing /\ FlagWakes /\ EventsAccounted /\ ToldIsShown
  BY DEF GatewayInv
<1>1. /\ published[r] < written[r]
      /\ published' = [published EXCEPT ![r] = @ + 1]
      /\ IF joined = r THEN offer(<<r, published[r] + 1>>)
         ELSE UNCHANGED <<queue, needs_state_sync, wake, owed, sent, missed>>
      /\ UNCHANGED <<written, conn, inbox, joined, refused, writer, loop, room, shown, stream, engine>>
  BY DEF Publish, mailbox, channel, client, history, rooms
<1>2. /\ published \in [Rooms -> Nat] /\ written \in [Rooms -> Nat]
      /\ published' \in [Rooms -> Nat]
      /\ published'[r] = published[r] + 1 /\ published[r] \in Nat /\ written[r] \in Nat
      /\ \A q \in Rooms \ {r} : published'[q] = published[q]
      /\ \A q \in Rooms : published[q] <= published'[q] /\ published'[q] <= written[q]
  <2>1. /\ published \in [Rooms -> Nat] /\ written \in [Rooms -> Nat]
        /\ published' \in [Rooms -> Nat] /\ published'[r] = published[r] + 1
        /\ \A q \in Rooms \ {r} : published'[q] = published[q]
    BY <1>0, <1>1 DEF GatewayTypeOK
  <2>2. \A q \in Rooms : published[q] <= written[q]
    BY <1>0 DEF NothingAhead
  <2>3. ASSUME NEW q \in Rooms
        PROVE  published[q] <= published'[q] /\ published'[q] <= written[q]
    <3>1. published[q] \in Nat /\ written[q] \in Nat
      BY <2>1
    <3> QED BY <1>1, <2>1, <2>2, <3>1
  <2> QED BY <2>1, <2>3
<1>3. CASE joined = r
  <2> DEFINE m == <<r, published[r] + 1>>
  <2>1. m \in Message /\ m[1] = joined /\ m[2] = published[r] + 1 /\ offer(m)
    BY <1>1, <1>2, <1>3 DEF Message
  <2>2. \A e \in 1..published'[r] : e \in 1..published[r] \/ e = published[r] + 1
    BY <1>2
  <2>3. \A q \in Rooms : q = joined =>
               \A e \in 1..published'[q] : e \in 1..published[q] \/ m = <<q, e>>
    BY <1>3, <2>2
  <2>4. m[2] \in 1..published'[joined] /\ joined \in Rooms
    BY <1>2, <1>3
  <2> HIDE DEF m
  <2> QED BY <1>1, <1>2, <2>1, <2>3, <2>4, OfferStep
<1>4. CASE joined # r
  <2>1. GatewayTypeOK'
    BY <1>0, <1>1, <1>2, <1>4 DEF GatewayTypeOK
  <2>2. NothingAhead'
    <3>1. ASSUME NEW q \in Rooms, NEW e \in Nat, Queued(<<q, e>>)' \/ Sending(<<q, e>>)'
          PROVE  e \in 1..published'[q]
      <4>1. Queued(<<q, e>>) \/ Sending(<<q, e>>)
        BY <1>1, <1>4, <3>1 DEF Queued, Sending
      <4>2. e \in 1..published[q]
        BY <1>0, <4>1 DEF NothingAhead
      <4> QED BY <1>2, <4>2
    <3> QED BY <1>0, <1>1, <1>2, <1>4, <3>1 DEF NothingAhead
  <2>3. RoomWanted' /\ JoinsTheRoom' /\ OwedIsComing' /\ FlagWakes' /\ ToldIsShown'
    BY <1>0, <1>1, <1>4 DEF RoomWanted, JoinsTheRoom, OwedIsComing, FlagWakes, ToldIsShown,
       IsCommand, NothingAsked, LastAskedIs
  <2>4. EventsAccounted'
    <3>1. joined \in Rooms \cup {none}
      BY <1>0 DEF GatewayTypeOK
    <3>2. joined # none => published'[joined] = published[joined]
      BY <1>2, <1>4, <3>1
    <3> QED BY <1>0, <1>1, <1>4, <3>2 DEF EventsAccounted, Queued, Sending
  <2> QED BY <2>1, <2>2, <2>3, <2>4 DEF GatewayInv
<1> QED BY <1>3, <1>4

LEMMA PublishOtherStep ==
    ASSUME GatewayInv, PublishOther
    PROVE  GatewayInv'
<1>0. /\ GatewayTypeOK /\ NothingAhead /\ RoomWanted /\ JoinsTheRoom
      /\ OwedIsComing /\ FlagWakes /\ EventsAccounted /\ ToldIsShown
  BY DEF GatewayInv
<1>1. /\ IF conn THEN offer(none)
         ELSE UNCHANGED <<queue, needs_state_sync, wake, owed, sent, missed>>
      /\ UNCHANGED <<written, published, conn, inbox, joined, refused, writer, loop, room, shown, stream,
                     engine>>
  BY DEF PublishOther, mailbox, channel, client, history, rooms
<1>2. CASE conn
  <2>1. none \in Message /\ ~OfRoom(none)
    BY DEF Message, OfRoom
  <2>2. /\ published' \in [Rooms -> Nat]
        /\ \A r \in Rooms : published[r] <= published'[r] /\ published'[r] <= written[r]
    BY <1>0, <1>1 DEF GatewayTypeOK, NothingAhead
  <2>3. offer(none)
    BY <1>1, <1>2
  <2> QED BY <1>1, <2>1, <2>2, <2>3, OfferStep
<1>3. CASE ~conn
  <2>1. GatewayTypeOK' /\ NothingAhead'
    BY <1>0, <1>1, <1>3 DEF GatewayTypeOK, NothingAhead, Queued, Sending
  <2>2. RoomWanted' /\ JoinsTheRoom' /\ OwedIsComing' /\ FlagWakes' /\ ToldIsShown'
        /\ EventsAccounted'
    BY <1>0, <1>1, <1>3 DEF RoomWanted, JoinsTheRoom, OwedIsComing, FlagWakes, ToldIsShown,
       IsCommand, NothingAsked, LastAskedIs, EventsAccounted, Queued, Sending
  <2> QED BY <2>1, <2>2 DEF GatewayInv
<1> QED BY <1>2, <1>3

-----------------------------------------------------------------------------
(* The writer.                                                             *)

\* A state_sync of n events of room r reaches the device.
LEMMA Received ==
    ASSUME GatewayInv, NEW r \in Rooms, NEW n \in Nat, n <= written[r], Receive(r, n)
    PROVE  /\ room' = room /\ shown' \in {none} \cup SUBSET Nat
           /\ shown' # none => room # none /\ shown' \subseteq 1..written[room]
           /\ shown # none => shown' # none
           /\ r = room => shown' # none
           /\ owed' \subseteq owed /\ missed' \subseteq Nat /\ sent' \subseteq Nat \ {0}
           /\ r = joined => \A e \in owed' : e > n
           /\ \A e \in sent \cup missed \cup owed : e >= 1 => e \in sent' \cup missed' \cup owed'
           /\ r = joined => 1..n \subseteq sent'
           /\ joined # none /\ joined = room /\ shown' # none => sent' \subseteq shown' \cup missed'
<1>0. /\ written \in [Rooms -> Nat] /\ written[r] <= Events[r] /\ ToldIsShown
      /\ sent \subseteq Nat \ {0} /\ missed \subseteq Nat /\ owed \subseteq Nat
      /\ shown \in {none} \cup SUBSET Nat /\ room \in Rooms \cup {none}
      /\ shown # none => room # none /\ shown \subseteq 1..written[room]
  BY DEF GatewayInv, GatewayTypeOK, NothingAhead
<1>1. 1..n # none /\ 1..n \subseteq 1..written[r] /\ 1..n \in SUBSET Nat
  <2>1. 1..n \in SUBSET (1..Events[r])
    BY <1>0
  <2> QED BY <1>0, <2>1
<1> DEFINE N == 1..n
<1>2. N # none /\ N \subseteq 1..written[r] /\ N \in SUBSET Nat /\ N \subseteq Nat \ {0}
      /\ \A e \in Nat : e >= 1 /\ e <= n <=> e \in N
  BY <1>1
<1>3. /\ shown' = IF r = room THEN N ELSE shown
      /\ IF r = joined
         THEN /\ owed' = {e \in owed : e > n}
              /\ missed' = {e \in missed \cup sent : e > n}
              /\ sent' = sent \cup N
         ELSE owed' = owed /\ sent' = sent /\ missed' = missed
      /\ room' = room
  BY Zenon DEF Receive, history
<1> HIDE DEF N
<1>4. /\ shown' \in {none} \cup SUBSET Nat
      /\ shown' # none => room # none /\ shown' \subseteq 1..written[room]
      /\ shown # none => shown' # none
      /\ r = room => shown' # none
  <2>1. CASE r = room
    <3>1. room # none
      BY <1>0, <2>1
    <3> QED BY <1>2, <1>3, <2>1, <3>1
  <2>2. CASE r # room
    BY <1>0, <1>3, <2>2
  <2> QED BY <2>1, <2>2
<1>5. /\ owed' \subseteq owed /\ missed' \subseteq Nat /\ sent' \subseteq Nat \ {0}
      /\ r = joined => \A e \in owed' : e > n
      /\ \A e \in sent \cup missed \cup owed : e >= 1 => e \in sent' \cup missed' \cup owed'
      /\ r = joined => N \subseteq sent'
  <2>1. CASE r = joined
    <3>1. /\ owed' = {e \in owed : e > n}
          /\ missed' = {e \in missed \cup sent : e > n} /\ sent' = sent \cup N
      BY <1>3, <2>1
    <3>2. ASSUME NEW e \in sent \cup missed \cup owed, e >= 1
          PROVE  e \in sent' \cup missed' \cup owed'
      <4>1. e \in Nat
        BY <1>0
      <4>2. e > n \/ e \in N
        BY <1>2, <3>2, <4>1
      <4> QED BY <3>1, <4>1, <4>2
    <3> QED BY <1>0, <1>2, <2>1, <3>1, <3>2
  <2>2. CASE r # joined
    BY <1>0, <1>3, <2>2
  <2> QED BY <2>1, <2>2
<1>6. joined # none /\ joined = room /\ shown' # none => sent' \subseteq shown' \cup missed'
  <2> SUFFICES ASSUME joined # none, joined = room, shown' # none, NEW e \in sent'
               PROVE  e \in shown' \cup missed'
    OBVIOUS
  <2>1. CASE r = joined
    <3>1. /\ missed' = {x \in missed \cup sent : x > n} /\ sent' = sent \cup N /\ shown' = N
      BY <1>3, <2>1
    <3>2. CASE e \in N
      BY <3>1, <3>2
    <3>3. CASE e \notin N
      <4>1. e \in sent /\ e \in Nat /\ e >= 1
        BY <1>0, <3>1, <3>3
      <4> QED BY <1>2, <3>1, <3>3, <4>1
    <3> QED BY <3>2, <3>3
  <2>2. CASE r # joined
    <3>1. sent' = sent /\ missed' = missed /\ shown' = shown
      BY <1>3, <2>2
    <3> QED BY <1>0, <3>1 DEF ToldIsShown
  <2> QED BY <2>1, <2>2
<1> QED BY <1>3, <1>4, <1>5, <1>6 DEF N

\* The places of the tasks change, and no more.
LEMMA SameView ==
    ASSUME GatewayInv, GatewayTypeOK',
           UNCHANGED <<written, published, conn, inbox, joined, refused, queue, room, shown,
                       owed, sent, missed>>,
           writer'.at = "send" => writer.at = "send" /\ writer'.m = writer.m,
           writer.at = "send" => writer'.at = "dead" \/ (writer'.at = "send" /\ writer'.m = writer.m),
           writer.at = "dead" => writer'.at = "dead",
           writer'.at = "sync" => writer'.n <= written[writer'.room],
           FlagWakes', OwedIsComing',
           loop' = loop
    PROVE  GatewayInv'
<1>0. /\ GatewayTypeOK /\ NothingAhead /\ RoomWanted /\ JoinsTheRoom
      /\ OwedIsComing /\ FlagWakes /\ EventsAccounted /\ ToldIsShown
  BY DEF GatewayInv
<1>1. NothingAhead'
  <2>1. ASSUME NEW q \in Rooms, NEW e \in Nat, Queued(<<q, e>>)' \/ Sending(<<q, e>>)'
        PROVE  e \in 1..published[q]
    <3>1. Queued(<<q, e>>) \/ Sending(<<q, e>>)
      BY <2>1 DEF Queued, Sending
    <3> QED BY <1>0, <3>1 DEF NothingAhead
  <2> QED BY <1>0, <2>1 DEF NothingAhead
<1>2. RoomWanted' /\ JoinsTheRoom' /\ ToldIsShown'
  BY <1>0 DEF RoomWanted, JoinsTheRoom, ToldIsShown, IsCommand, NothingAsked, LastAskedIs
<1>3. EventsAccounted'
  BY <1>0 DEF EventsAccounted, Queued, Sending
<1> QED BY <1>1, <1>2, <1>3 DEF GatewayInv

LEMMA WriterTopStep ==
    ASSUME GatewayInv, WriterTop
    PROVE  GatewayInv'
<1>0. GatewayTypeOK /\ OwedIsComing /\ FlagWakes
  BY DEF GatewayInv
<1>1. /\ writer.at = "top" /\ needs_state_sync' = FALSE
      /\ writer' = IF needs_state_sync /\ joined # none
                   THEN [at |-> "build", room |-> joined] ELSE At("get")
      /\ UNCHANGED <<written, published, conn, inbox, joined, refused, queue, room, shown,
                     owed, sent, missed, wake, loop, stream, engine>>
  BY DEF WriterTop, world, channel, client, history, rooms
<1>2. needs_state_sync \in BOOLEAN /\ joined \in Rooms \cup {none}
  BY <1>0 DEF GatewayTypeOK
<1>3. CASE needs_state_sync /\ joined # none
  <2>1. writer' = [at |-> "build", room |-> joined]
    BY <1>1, <1>3
  <2>2. writer'.at = "build" /\ writer'.room = joined /\ writer' \in WriterPlace
    BY <1>2, <1>3, <2>1 DEF WriterPlace
  <2>3. GatewayTypeOK'
    BY <1>0, <1>1, <2>2 DEF GatewayTypeOK
  <2>4. FlagWakes' /\ OwedIsComing'
    BY <1>0, <1>1, <2>2 DEF FlagWakes, OwedIsComing
  <2> QED BY <1>1, <2>2, <2>3, <2>4, SameView
<1>4. CASE ~ (needs_state_sync /\ joined # none)
  <2>1. writer' = At("get")
    BY <1>1, <1>4
  <2>2. writer'.at = "get" /\ writer' \in WriterPlace
    BY <2>1, PlainPlaces
  <2>3. GatewayTypeOK'
    BY <1>0, <1>1, <2>2 DEF GatewayTypeOK
  <2>4. owed = {}
    BY <1>0, <1>1, <1>4 DEF OwedIsComing
  <2>5. FlagWakes' /\ OwedIsComing'
    BY <1>1, <2>4 DEF FlagWakes, OwedIsComing
  <2> QED BY <1>1, <2>2, <2>3, <2>5, SameView
<1> QED BY <1>3, <1>4

LEMMA WriterBuildsStep ==
    ASSUME GatewayInv, WriterBuilds
    PROVE  GatewayInv'
<1>0. GatewayTypeOK /\ OwedIsComing /\ FlagWakes
  BY DEF GatewayInv
<1>1. /\ writer.at = "build"
      /\ writer' = [at |-> "sync", room |-> writer.room, n |-> written[writer.room]]
      /\ UNCHANGED <<written, published, conn, inbox, joined, refused, queue, room, shown,
                     owed, sent, missed, needs_state_sync, wake, loop, stream, engine>>
  BY DEF WriterBuilds, world, mailbox, channel, client, history, rooms
<1>2. writer.room \in Rooms /\ written[writer.room] \in Nat
  BY <1>0, <1>1, Places DEF GatewayTypeOK
<1>3. /\ writer'.at = "sync" /\ writer'.room = writer.room /\ writer'.n = written[writer.room]
      /\ writer' \in WriterPlace
  BY <1>1, <1>2 DEF WriterPlace
<1>4. GatewayTypeOK'
  BY <1>0, <1>1, <1>3 DEF GatewayTypeOK
<1>5. FlagWakes'
  BY <1>0, <1>1 DEF FlagWakes
<1>6. OwedIsComing'
  BY <1>0, <1>1, <1>3 DEF OwedIsComing
<1> QED BY <1>1, <1>2, <1>3, <1>4, <1>5, <1>6, SameView

LEMMA WriterFailsStep ==
    ASSUME GatewayInv, WriterFails
    PROVE  GatewayInv'
<1>0. GatewayTypeOK /\ OwedIsComing /\ FlagWakes
  BY DEF GatewayInv
<1>1. /\ writer' = At("dead") /\ writer.at \in {"build", "sync", "send"}
      /\ UNCHANGED <<written, published, conn, inbox, joined, refused, queue, room, shown,
                     owed, sent, missed, needs_state_sync, wake, loop, stream, engine>>
  BY DEF WriterFails, world, mailbox, channel, client, history, rooms
<1>2. writer'.at = "dead" /\ writer' \in WriterPlace
  BY <1>1, PlainPlaces
<1>3. GatewayTypeOK' /\ FlagWakes' /\ OwedIsComing'
  BY <1>0, <1>1, <1>2 DEF GatewayTypeOK, FlagWakes, OwedIsComing
<1> QED BY <1>1, <1>2, <1>3, SameView

LEMMA WriterGetsStep ==
    ASSUME GatewayInv, WriterGets \/ WriterWakes
    PROVE  GatewayInv'
<1>0. /\ GatewayTypeOK /\ NothingAhead /\ RoomWanted /\ JoinsTheRoom
      /\ OwedIsComing /\ FlagWakes /\ EventsAccounted /\ ToldIsShown
  BY DEF GatewayInv
<1>1. /\ UNCHANGED <<written, published, conn, inbox, joined, refused, room, shown,
                     owed, sent, missed, needs_state_sync, loop, stream, engine>>
      /\ writer.at \in {"get", "parked"}
  BY DEF WriterGets, WriterWakes, world, channel, client, history, rooms
<1>2. wake \in BOOLEAN /\ wake' \in BOOLEAN /\ queue \in Seq(Message)
  BY <1>0 DEF WriterGets, WriterWakes, GatewayTypeOK
<1>3. CASE writer' = [at |-> "send", m |-> Head(queue)] /\ queue # <<>> /\ queue' = Tail(queue)
  <2> DEFINE h == Head(queue)
  <2>1. queue' \in Seq(Message) /\ h \in Message /\ \A x : Queued(x) <=> Queued(x)' \/ x = h
    BY <1>2, <1>3, QueueTaken
  <2> HIDE DEF h
  <2>2. writer'.at = "send" /\ writer'.m = h /\ writer' \in WriterPlace
    BY <1>3, <2>1 DEF WriterPlace, h
  <2>3. GatewayTypeOK'
    BY <1>0, <1>1, <1>2, <2>1, <2>2 DEF GatewayTypeOK
  <2>4. NothingAhead'
    <3>1. ASSUME NEW q \in Rooms, NEW e \in Nat, Queued(<<q, e>>)' \/ Sending(<<q, e>>)'
          PROVE  e \in 1..published[q]
      <4>1. Queued(<<q, e>>)
        BY <2>1, <2>2, <3>1 DEF Sending
      <4> QED BY <1>0, <4>1 DEF NothingAhead
    <3> QED BY <1>0, <1>1, <2>2, <3>1 DEF NothingAhead
  <2>5. RoomWanted' /\ JoinsTheRoom' /\ ToldIsShown'
    BY <1>0, <1>1 DEF RoomWanted, JoinsTheRoom, ToldIsShown, IsCommand, NothingAsked, LastAskedIs
  <2>6. FlagWakes' /\ OwedIsComing'
    BY <1>0, <1>1, <2>2 DEF FlagWakes, OwedIsComing
  <2>7. EventsAccounted'
    <3> SUFFICES ASSUME joined # none, loop.at # "build", NEW e \in 1..published[joined]
                 PROVE  \/ e \in sent \cup missed \cup owed
                        \/ Queued(<<joined, e>>)' \/ Sending(<<joined, e>>)'
                        \/ loop.at = "built" /\ e <= loop.n
      BY <1>1 DEF EventsAccounted
    <3>1. \/ e \in sent \cup missed \cup owed
          \/ Queued(<<joined, e>>)
          \/ loop.at = "built" /\ e <= loop.n
      BY <1>0, <1>1 DEF EventsAccounted, Sending
    <3> DEFINE x == <<joined, e>>
    <3>2. Queued(x) => Queued(x)' \/ x = h
      BY <1>1, <2>1
    <3>3. x = h => Sending(x)'
      BY <1>1, <2>2 DEF Sending
    <3> QED BY <3>1, <3>2, <3>3
  <2> QED BY <2>3, <2>4, <2>5, <2>6, <2>7 DEF GatewayInv
<1>4. CASE writer' = At("parked") /\ writer.at = "get" /\ UNCHANGED <<queue, wake>>
  <2>1. writer'.at = "parked" /\ writer' \in WriterPlace
    BY <1>4, PlainPlaces
  <2>2. GatewayTypeOK'
    BY <1>0, <1>1, <1>4, <2>1 DEF GatewayTypeOK
  <2>3. FlagWakes' /\ OwedIsComing'
    BY <1>0, <1>1, <1>4, <2>1 DEF FlagWakes, OwedIsComing
  <2> QED BY <1>1, <1>4, <2>1, <2>2, <2>3, SameView
<1>5. CASE writer' = At("top") /\ UNCHANGED queue
  <2>1. writer'.at = "top" /\ writer' \in WriterPlace
    BY <1>5, PlainPlaces
  <2>2. GatewayTypeOK'
    BY <1>0, <1>1, <1>2, <1>5, <2>1 DEF GatewayTypeOK
  <2>3. FlagWakes' /\ OwedIsComing'
    BY <1>0, <1>1, <1>5, <2>1 DEF FlagWakes, OwedIsComing
  <2> QED BY <1>1, <1>5, <2>1, <2>2, <2>3, SameView
<1> QED BY <1>3, <1>4, <1>5 DEF WriterGets, WriterWakes

LEMMA WriterSyncsStep ==
    ASSUME GatewayInv, WriterSyncs
    PROVE  GatewayInv'
<1> DEFINE r == writer.room
           n == writer.n
<1>0. /\ GatewayTypeOK /\ NothingAhead /\ RoomWanted /\ JoinsTheRoom
      /\ OwedIsComing /\ FlagWakes /\ EventsAccounted /\ ToldIsShown
  BY DEF GatewayInv
<1>1. /\ writer.at = "sync" /\ Receive(r, n) /\ writer' = At("get")
      /\ UNCHANGED <<written, published, conn, inbox, joined, refused, queue, needs_state_sync, wake, loop,
                     stream, engine>>
  BY DEF WriterSyncs, world, mailbox, channel, rooms
<1>2. r \in Rooms /\ n \in Nat /\ n <= written[r]
  BY <1>0, <1>1, Places DEF NothingAhead
<1> HIDE DEF r, n
<1>3. /\ room' = room /\ shown' \in {none} \cup SUBSET Nat
      /\ shown' # none => room # none /\ shown' \subseteq 1..written[room]
      /\ shown # none => shown' # none
      /\ owed' \subseteq owed /\ missed' \subseteq Nat /\ sent' \subseteq Nat \ {0}
      /\ r = joined => \A e \in owed' : e > n
      /\ \A e \in sent \cup missed \cup owed : e >= 1 => e \in sent' \cup missed' \cup owed'
      /\ joined # none /\ joined = room /\ shown' # none => sent' \subseteq shown' \cup missed'
  BY <1>1, <1>2, Received
<1>4. writer'.at = "get" /\ writer' \in WriterPlace
  BY <1>1, PlainPlaces
<1>5. GatewayTypeOK'
  <2>1. owed' \subseteq Nat
    BY <1>0, <1>3 DEF GatewayTypeOK
  <2> QED BY <1>0, <1>1, <1>3, <1>4, <2>1 DEF GatewayTypeOK
<1>6. NothingAhead'
  <2>1. ASSUME NEW q \in Rooms, NEW e \in Nat, Queued(<<q, e>>)' \/ Sending(<<q, e>>)'
        PROVE  e \in 1..published[q]
    <3>1. Queued(<<q, e>>)
      BY <1>1, <1>4, <2>1 DEF Queued, Sending
    <3> QED BY <1>0, <3>1 DEF NothingAhead
  <2> QED BY <1>0, <1>1, <1>3, <1>4, <2>1 DEF NothingAhead
<1>7. RoomWanted' /\ JoinsTheRoom'
  BY <1>0, <1>1, <1>3 DEF RoomWanted, JoinsTheRoom, IsCommand, NothingAsked, LastAskedIs
<1>8. ToldIsShown'
  BY <1>1, <1>3 DEF ToldIsShown
<1>9. FlagWakes'
  BY <1>0, <1>1, <1>4 DEF FlagWakes
<1>10. OwedIsComing'
  <2> SUFFICES ASSUME NEW e \in owed'
               PROVE  joined # none /\ e <= written[joined] /\ needs_state_sync
    BY <1>1 DEF OwedIsComing
  <2>1. /\ joined # none /\ e <= written[joined]
        /\ needs_state_sync \/ (r = joined /\ e <= n)
    BY <1>0, <1>1, <1>3 DEF OwedIsComing, r, n
  <2>2. ~ (r = joined /\ e <= n)
    <3>1. e \in Nat
      BY <1>0, <1>3 DEF GatewayTypeOK
    <3> QED BY <1>2, <1>3, <3>1
  <2> QED BY <2>1, <2>2
<1>11. EventsAccounted'
  <2> SUFFICES ASSUME joined # none, loop.at # "build", NEW e \in 1..published[joined]
               PROVE  \/ e \in sent' \cup missed' \cup owed'
                      \/ Queued(<<joined, e>>)'
                      \/ loop.at = "built" /\ e <= loop.n
    BY <1>1 DEF EventsAccounted
  <2>1. \/ e \in sent \cup missed \cup owed
        \/ Queued(<<joined, e>>)
        \/ loop.at = "built" /\ e <= loop.n
    BY <1>0, <1>1 DEF EventsAccounted, Sending
  <2>2. Queued(<<joined, e>>) => Queued(<<joined, e>>)'
    BY <1>1 DEF Queued
  <2>3. e >= 1
    BY <1>0 DEF GatewayTypeOK
  <2> QED BY <1>3, <2>1, <2>2, <2>3
<1> QED BY <1>5, <1>6, <1>7, <1>8, <1>9, <1>10, <1>11 DEF GatewayInv

LEMMA WriterSendsStep ==
    ASSUME GatewayInv, WriterSends
    PROVE  GatewayInv'
<1> DEFINE m == writer.m
<1>0. /\ GatewayTypeOK /\ NothingAhead /\ RoomWanted /\ JoinsTheRoom
      /\ OwedIsComing /\ FlagWakes /\ EventsAccounted /\ ToldIsShown
  BY DEF GatewayInv
<1>1. /\ writer.at = "send" /\ ReceiveEvent(m) /\ writer' = At("top")
      /\ UNCHANGED <<written, published, conn, inbox, joined, refused, queue, needs_state_sync, wake, loop,
                     stream, engine>>
  BY DEF WriterSends, world, mailbox, channel, rooms
<1>2. m \in Message
  BY <1>0, <1>1, Places
<1>3. \A x : Sending(x) <=> x = m
  BY <1>1 DEF Sending
<1>4. /\ OfRoom(m) => /\ shown' = IF m[1] = room /\ shown # none THEN shown \cup {m[2]} ELSE shown
                      /\ sent' = IF m[1] = joined THEN sent \cup {m[2]} ELSE sent
                      /\ UNCHANGED <<room, owed, missed>>
      /\ ~OfRoom(m) => UNCHANGED <<room, shown, owed, sent, missed>>
  BY <1>1, Zenon DEF ReceiveEvent, client, history
<1> HIDE DEF m
<1>5. OfRoom(m) => /\ m[1] \in Rooms /\ m[2] \in Nat /\ m = <<m[1], m[2]>>
                   /\ m[2] \in 1..published[m[1]]
  <2> SUFFICES ASSUME OfRoom(m)
               PROVE  /\ m[1] \in Rooms /\ m[2] \in Nat /\ m = <<m[1], m[2]>>
                      /\ m[2] \in 1..published[m[1]]
    OBVIOUS
  <2>1. m[1] \in Rooms /\ m[2] \in Nat /\ m = <<m[1], m[2]>>
    BY DEF OfRoom
  <2>2. Sending(<<m[1], m[2]>>)
    BY <1>3, <2>1
  <2> QED BY <1>0, <2>1, <2>2 DEF NothingAhead
<1>6. /\ written \in [Rooms -> Nat] /\ published \in [Rooms -> Nat]
      /\ \A q \in Rooms : published[q] <= written[q] /\ written[q] <= Events[q]
      /\ room \in Rooms \cup {none} /\ joined \in Rooms \cup {none}
      /\ shown \in {none} \cup SUBSET Nat /\ sent \subseteq Nat \ {0}
      /\ shown # none => room # none /\ shown \subseteq 1..written[room]
  BY <1>0 DEF GatewayTypeOK, NothingAhead
<1>7. /\ room' = room /\ shown' \in {none} \cup SUBSET Nat /\ sent' \subseteq Nat \ {0}
      /\ shown' # none => shown # none /\ shown' \subseteq 1..written[room]
      /\ shown # none => shown' # none /\ shown \subseteq shown'
      /\ owed' = owed /\ missed' = missed /\ sent \subseteq sent'
      /\ joined # none /\ m = <<joined, m[2]>> /\ OfRoom(m) => m[2] \in sent'
      /\ joined # none /\ joined = room /\ shown # none =>
             sent' \ sent \subseteq shown'
  <2>1. CASE ~OfRoom(m)
    BY <1>4, <1>6, <2>1
  <2>2. CASE OfRoom(m)
    <3>1. m[2] \in 1..written[m[1]] /\ m[2] \in Nat \ {0} /\ m[1] \in Rooms
      BY <1>5, <1>6, <2>2
    <3>2. /\ sent' = IF m[1] = joined THEN sent \cup {m[2]} ELSE sent
          /\ shown' = IF m[1] = room /\ shown # none THEN shown \cup {m[2]} ELSE shown
          /\ UNCHANGED <<room, owed, missed>>
      BY <1>4, <2>2
    <3>3. /\ shown' \in {none} \cup SUBSET Nat
          /\ shown' # none => shown # none /\ shown' \subseteq 1..written[room]
          /\ shown # none => shown' # none /\ shown \subseteq shown'
          /\ m[1] = room /\ shown # none => m[2] \in shown'
      <4>1. CASE m[1] = room /\ shown # none
        <5> DEFINE T == shown \cup {m[2]}
        <5>1. T \subseteq 1..written[room] /\ shown \subseteq T /\ m[2] \in T
          BY <1>6, <3>1, <4>1
        <5>2. T \in SUBSET (1..Events[room]) /\ T \in SUBSET Nat
          BY <1>6, <3>1, <4>1, <5>1
        <5>3. T # none
          BY <3>1, <4>1, <5>2
        <5>4. shown' = T
          BY <3>2, <4>1
        <5> HIDE DEF T
        <5> QED BY <4>1, <5>1, <5>2, <5>3, <5>4
      <4>2. CASE ~ (m[1] = room /\ shown # none)
        <5>1. shown' = shown
          BY <3>2, <4>2
        <5> QED BY <1>6, <4>2, <5>1
      <4> QED BY <4>1, <4>2
    <3>4. /\ sent' \subseteq Nat \ {0} /\ sent \subseteq sent'
          /\ m[1] = joined => m[2] \in sent'
          /\ sent' \ sent \subseteq {m[2]} /\ (m[1] # joined => sent' = sent)
      BY <1>6, <3>1, <3>2
    <3>5. m = <<joined, m[2]>> => m[1] = joined
      OBVIOUS
    <3>6. joined = room /\ shown # none => sent' \ sent \subseteq shown'
      BY <3>3, <3>4
    <3> QED BY <3>2, <3>3, <3>4, <3>5, <3>6
  <2> QED BY <2>1, <2>2
<1>8. writer'.at = "top" /\ writer' \in WriterPlace
  BY <1>1, PlainPlaces
<1>9. GatewayTypeOK'
  BY <1>0, <1>1, <1>7, <1>8 DEF GatewayTypeOK
<1>10. NothingAhead'
  <2>1. ASSUME NEW q \in Rooms, NEW e \in Nat, Queued(<<q, e>>)' \/ Sending(<<q, e>>)'
        PROVE  e \in 1..published[q]
    <3>1. Queued(<<q, e>>)
      BY <1>1, <1>8, <2>1 DEF Queued, Sending
    <3> QED BY <1>0, <3>1 DEF NothingAhead
  <2> QED BY <1>0, <1>1, <1>6, <1>7, <1>8, <2>1 DEF NothingAhead
<1>11. RoomWanted' /\ JoinsTheRoom'
  BY <1>0, <1>1, <1>7 DEF RoomWanted, JoinsTheRoom, IsCommand, NothingAsked, LastAskedIs
<1>12. ToldIsShown'
  <2> SUFFICES ASSUME joined # none, joined = room, shown # none, NEW e \in sent'
               PROVE  e \in shown' \cup missed'
    BY <1>1, <1>7 DEF ToldIsShown
  <2>1. e \in sent => e \in shown \cup missed
    BY <1>0 DEF ToldIsShown
  <2> QED BY <1>7, <2>1
<1>13. FlagWakes' /\ OwedIsComing'
  BY <1>0, <1>1, <1>7, <1>8 DEF FlagWakes, OwedIsComing
<1>14. EventsAccounted'
  <2> SUFFICES ASSUME joined # none, loop.at # "build", NEW e \in 1..published[joined]
               PROVE  \/ e \in sent' \cup missed' \cup owed'
                      \/ Queued(<<joined, e>>)'
                      \/ loop.at = "built" /\ e <= loop.n
    BY <1>1 DEF EventsAccounted
  <2>1. \/ e \in sent \cup missed \cup owed
        \/ Queued(<<joined, e>>) \/ Sending(<<joined, e>>)
        \/ loop.at = "built" /\ e <= loop.n
    BY <1>0, <1>1 DEF EventsAccounted
  <2>2. Queued(<<joined, e>>) => Queued(<<joined, e>>)'
    BY <1>1 DEF Queued
  <2>3. Sending(<<joined, e>>) => e \in sent'
    <3>1. SUFFICES ASSUME m = <<joined, e>> PROVE e \in sent'
      BY <1>3
    <3>2. joined \in Rooms /\ e \in Nat
      BY <1>6
    <3>3. OfRoom(m) /\ m[2] = e
      BY <3>1, <3>2 DEF OfRoom
    <3> QED BY <1>7, <3>1, <3>3
  <2> QED BY <1>7, <2>1, <2>2, <2>3
<1> QED BY <1>9, <1>10, <1>11, <1>12, <1>13, <1>14 DEF GatewayInv

-----------------------------------------------------------------------------
(* The message loop.                                                       *)

\* A frame is read.
LEMMA InboxTaken ==
    ASSUME inbox \in Seq(Frame), inbox # <<>>, inbox' = Tail(inbox), NEW r, LastAskedIs(r)
    PROVE  /\ inbox' \in Seq(Frame) /\ Head(inbox) \in Frame
           /\ LastAskedIs(r)'
           /\ NothingAsked' /\ Head(inbox).t = "command" => NothingAsked
           /\ NothingAsked' /\ Head(inbox).t # "command" =>
                  Head(inbox) = [t |-> "join", room |-> r]
<1>1. /\ Tail(inbox) \in Seq(Frame) /\ Len(Tail(inbox)) = Len(inbox) - 1
      /\ \A i \in 1..Len(inbox) - 1 : Tail(inbox)[i] = inbox[i + 1]
      /\ Head(inbox) = inbox[1] /\ Len(inbox) \in Nat /\ Len(inbox) >= 1
      /\ Head(inbox) \in Frame
  BY Taken
<1>2. ASSUME NEW i \in 1..Len(inbox'), ~IsCommand(i)'
      PROVE  \/ inbox'[i] = [t |-> "join", room |-> r]
             \/ \E k \in i + 1..Len(inbox') : ~IsCommand(k)'
  <2>1. i + 1 \in 1..Len(inbox) /\ inbox'[i] = inbox[i + 1] /\ ~IsCommand(i + 1)
    BY <1>1, <1>2 DEF IsCommand
  <2>2. CASE inbox[i + 1] = [t |-> "join", room |-> r]
    BY <2>1, <2>2
  <2>3. ASSUME NEW k \in (i + 1) + 1..Len(inbox), ~IsCommand(k)
        PROVE  \E x \in i + 1..Len(inbox') : ~IsCommand(x)'
    <3>1. k - 1 \in i + 1..Len(inbox') /\ inbox'[k - 1] = inbox[k]
      BY <1>1
    <3> QED BY <2>3, <3>1 DEF IsCommand
  <2> QED BY <2>1, <2>2, <2>3 DEF LastAskedIs
<1>3. LastAskedIs(r)'
  BY <1>2 DEF LastAskedIs
<1>4. ASSUME NEW k \in 2..Len(inbox), ~IsCommand(k) PROVE ~NothingAsked'
  <2>1. k - 1 \in 1..Len(inbox') /\ inbox'[k - 1] = inbox[k]
    BY <1>1
  <2> QED BY <1>4, <2>1 DEF NothingAsked, IsCommand
<1>5. 1 \in 1..Len(inbox) /\ 1 + 1 = 2
  BY <1>1
<1>6. NothingAsked' /\ Head(inbox).t = "command" => NothingAsked
  <2>1. ASSUME NEW i \in 1..Len(inbox), NothingAsked', Head(inbox).t = "command"
        PROVE  IsCommand(i)
    <3>1. i = 1 \/ i \in 2..Len(inbox)
      BY <1>1
    <3> QED BY <1>1, <1>4, <2>1, <3>1 DEF IsCommand
  <2> QED BY <2>1 DEF NothingAsked
<1>7. ASSUME NothingAsked', Head(inbox).t # "command"
      PROVE  Head(inbox) = [t |-> "join", room |-> r]
  <2>1. ~IsCommand(1)
    BY <1>1, <1>7 DEF IsCommand
  <2>2. \/ inbox[1] = [t |-> "join", room |-> r]
        \/ \E k \in 1 + 1..Len(inbox) : ~IsCommand(k)
    BY <1>5, <2>1 DEF LastAskedIs
  <2> QED BY <1>1, <1>4, <1>5, <1>7, <2>2
<1> QED BY <1>1, <1>3, <1>6, <1>7

\* A frame is sent.
LEMMA InboxAppended ==
    ASSUME inbox \in Seq(Frame), NEW f \in Frame, inbox' = Append(inbox, f), NEW r
    PROVE  /\ inbox' \in Seq(Frame)
           /\ f.t = "command" /\ LastAskedIs(r) => LastAskedIs(r)'
           /\ NothingAsked' => NothingAsked /\ f.t = "command"
           /\ f = [t |-> "join", room |-> r] => LastAskedIs(r)'
<1>1. /\ Append(inbox, f) \in Seq(Frame) /\ Len(Append(inbox, f)) = Len(inbox) + 1
      /\ \A i \in 1..Len(inbox) : Append(inbox, f)[i] = inbox[i]
      /\ Append(inbox, f)[Len(inbox) + 1] = f /\ Len(inbox) \in Nat
  BY Added
<1>0. PICK last \in Nat : last = Len(inbox) + 1
  BY <1>1
<1>2. ASSUME NEW i \in 1..Len(inbox)
      PROVE  i \in 1..Len(inbox') /\ (IsCommand(i)' <=> IsCommand(i)) /\ inbox'[i] = inbox[i]
  BY <1>1 DEF IsCommand
<1>3. /\ last \in 1..Len(inbox') /\ inbox'[last] = f
      /\ \A i \in 1..Len(inbox') : i \in 1..Len(inbox) \/ i = last
  BY <1>0, <1>1
<1>4. IsCommand(last)' <=> f.t = "command"
  BY <1>3 DEF IsCommand
<1>5. ASSUME f.t = "command", LastAskedIs(r), NEW i \in 1..Len(inbox')
      PROVE  \/ IsCommand(i)' \/ inbox'[i] = [t |-> "join", room |-> r]
             \/ \E k \in i + 1..Len(inbox') : ~IsCommand(k)'
  <2>1. CASE i \in 1..Len(inbox)
    <3>1. ASSUME NEW k \in i + 1..Len(inbox), ~IsCommand(k)
          PROVE  k \in i + 1..Len(inbox') /\ ~IsCommand(k)'
      <4>1. k \in 1..Len(inbox)
        BY <1>1
      <4> QED BY <1>1, <1>2, <3>1, <4>1
    <3> QED BY <1>2, <1>5, <2>1, <3>1 DEF LastAskedIs
  <2>2. CASE i = last
    BY <1>4, <1>5, <2>2
  <2> QED BY <1>3, <2>1, <2>2
<1>6. ASSUME NothingAsked' PROVE NothingAsked /\ f.t = "command"
  BY <1>2, <1>3, <1>4, <1>6 DEF NothingAsked
<1>7. ASSUME f = [t |-> "join", room |-> r], NEW i \in 1..Len(inbox')
      PROVE  \/ inbox'[i] = [t |-> "join", room |-> r]
             \/ \E k \in i + 1..Len(inbox') : ~IsCommand(k)'
  <2>1. CASE i \in 1..Len(inbox)
    <3>1. last \in i + 1..Len(inbox')
      BY <1>0, <1>1, <2>1
    <3>2. ~IsCommand(last)'
      BY <1>4, <1>7
    <3> QED BY <3>1, <3>2
  <2>2. CASE i = last
    BY <1>3, <1>7, <2>2
  <2> QED BY <1>3, <2>1, <2>2
<1> QED BY <1>1, <1>5, <1>6, <1>7 DEF LastAskedIs

\* Nothing but the message loop, its frames and the command channel changes.
LEMMA LoopMoves ==
    ASSUME GatewayInv, GatewayTypeOK', RoomWanted', JoinsTheRoom',
           UNCHANGED <<written, published, joined, queue, needs_state_sync, wake, writer,
                       room, shown, owed, sent, missed>>,
           loop'.at = "built" => loop'.n <= written[loop'.room]
                                 /\ (loop' = loop \/ \A e \in 1..published[joined] : e <= loop'.n),
           loop'.at \in {"build", "built"} \/ loop.at \notin {"build", "built"}
    PROVE  GatewayInv'
<1>0. /\ NothingAhead /\ OwedIsComing /\ FlagWakes /\ EventsAccounted /\ ToldIsShown
  BY DEF GatewayInv
<1>1. NothingAhead'
  <2>1. ASSUME NEW q \in Rooms, NEW e \in Nat, Queued(<<q, e>>)' \/ Sending(<<q, e>>)'
        PROVE  e \in 1..published[q]
    <3>1. Queued(<<q, e>>) \/ Sending(<<q, e>>)
      BY <2>1 DEF Queued, Sending
    <3> QED BY <1>0, <3>1 DEF NothingAhead
  <2> QED BY <1>0, <2>1 DEF NothingAhead
<1>2. OwedIsComing' /\ FlagWakes' /\ ToldIsShown'
  BY <1>0 DEF OwedIsComing, FlagWakes, ToldIsShown
<1>3. EventsAccounted'
  <2> SUFFICES ASSUME joined # none, loop'.at # "build", writer.at # "dead",
                      NEW e \in 1..published[joined]
               PROVE  \/ e \in sent \cup missed \cup owed
                      \/ Queued(<<joined, e>>) \/ Sending(<<joined, e>>)
                      \/ loop'.at = "built" /\ e <= loop'.n
    BY DEF EventsAccounted, Queued, Sending
  <2>1. CASE loop'.at = "built" /\ loop' # loop
    BY <2>1
  <2>2. CASE loop' = loop
    BY <1>0, <2>2 DEF EventsAccounted
  <2>3. CASE loop'.at # "built"
    <3>1. loop.at \notin {"build", "built"}
      BY <2>3
    <3> QED BY <1>0, <3>1 DEF EventsAccounted
  <2> QED BY <2>1, <2>2, <2>3
<1> QED BY <1>1, <1>2, <1>3 DEF GatewayInv

LEMMA IdlePlaces ==
    /\ At("idle").at = "idle" /\ At("idle") \in LoopPlace
    /\ \A k \in Nat : [at |-> "waiting", id |-> k].at = "waiting"
                      /\ [at |-> "waiting", id |-> k] \in LoopPlace
  BY DEF At, LoopPlace

\* Commands, and what becomes of them.
LEMMA CommandStep ==
    ASSUME GatewayInv,
           Refuse \/ send_command \/ ServeCommand \/ ReplyLost \/ CommandTimeout \/ EngineStarts
           \/ EngineStops
    PROVE  GatewayInv'
<1>0. /\ GatewayTypeOK /\ NothingAhead /\ RoomWanted /\ JoinsTheRoom
  BY DEF GatewayInv
<1>1. UNCHANGED <<written, published, conn, joined, queue, needs_state_sync, wake, writer,
                  room, shown, owed, sent, missed>>
  BY DEF Refuse, send_command, NextFrame, ServeCommand, ReplyLost, CommandTimeout, EngineStarts,
     EngineStops, world, rooms, mailbox, client, history
<1>2. stream' \in Nat /\ engine' \in Nat \cup {none} /\ stream \in Nat
  <2>1. stream \in Nat /\ engine \in Nat \cup {none}
    BY <1>0 DEF GatewayTypeOK
  <2>2. CASE Refuse
    <3>1. UNCHANGED <<stream, engine>>
      BY <2>2, Zenon DEF Refuse, channel
    <3> QED BY <2>1, <3>1
  <2>3. CASE ~ Refuse
    BY <2>1, <2>3 DEF send_command, ServeCommand, ReplyLost, CommandTimeout, EngineStarts,
       EngineStops, channel
  <2> QED BY <2>2, <2>3
<1>3. /\ loop' \in LoopPlace
      /\ loop' = loop \/ (loop.at \notin {"build", "built"} /\ loop'.at \notin {"build", "built"})
  <2>1. loop \in LoopPlace
    BY <1>0 DEF GatewayTypeOK
  <2>2. CASE Refuse \/ ReplyLost \/ EngineStarts \/ EngineStops
    BY <2>1, <2>2 DEF Refuse, ReplyLost, EngineStarts, EngineStops
  <2>3. CASE send_command
    BY <1>2, <2>3, IdlePlaces DEF send_command, NextFrame
  <2>4. CASE CommandTimeout
    BY <2>4, IdlePlaces DEF CommandTimeout
  <2>5. CASE ServeCommand
    <3>1. CASE loop = [at |-> "waiting", id |-> engine + 1]
      <4>1. loop.at = "waiting" /\ loop' = At("idle")
        BY <2>5, <3>1 DEF ServeCommand
      <4> QED BY <4>1, IdlePlaces
    <3>2. CASE loop # [at |-> "waiting", id |-> engine + 1]
      BY <2>1, <2>5, <3>2 DEF ServeCommand
    <3> QED BY <3>1, <3>2
  <2> QED BY <2>2, <2>3, <2>4, <2>5
<1>4. /\ inbox' \in Seq(Frame) /\ refused' \in BOOLEAN /\ (inbox = <<>> => inbox' = <<>>)
      /\ room # none => LastAskedIs(room)'
      /\ room # none /\ NothingAsked' /\ ~refused' => NothingAsked /\ ~refused
  <2>1. inbox \in Seq(Frame) /\ refused \in BOOLEAN
    BY <1>0 DEF GatewayTypeOK
  <2>2. CASE inbox' = inbox /\ refused' = refused
    BY <1>0, <1>1, <2>1, <2>2 DEF RoomWanted, LastAskedIs, NothingAsked, IsCommand
  <2>3. CASE /\ inbox # <<>> /\ inbox' = Tail(inbox)
             /\ refused' = IF Head(inbox).t = "command" THEN refused ELSE TRUE
    <3>1. inbox' \in Seq(Frame)
      BY <2>1, <2>3
    <3>2. refused' \in BOOLEAN /\ (~refused' => ~refused /\ Head(inbox).t = "command")
      BY <2>1, <2>3
    <3>3. ASSUME room # none
          PROVE  LastAskedIs(room)' /\ (NothingAsked' /\ ~refused' => NothingAsked /\ ~refused)
      <4>1. PICK r : r = room
        OBVIOUS
      <4>2. LastAskedIs(r)
        BY <1>0, <3>3, <4>1 DEF RoomWanted
      <4>3. /\ LastAskedIs(r)'
            /\ NothingAsked' /\ Head(inbox).t = "command" => NothingAsked
        BY <2>1, <2>3, <4>2, InboxTaken
      <4> QED BY <1>1, <3>2, <4>1, <4>3
    <3> QED BY <2>3, <3>1, <3>2, <3>3
  <2>4. CASE Refuse
    BY <2>3, <2>4 DEF Refuse
  <2>5. CASE send_command
    BY <2>3, <2>5 DEF send_command, NextFrame, rooms
  <2>6. CASE ServeCommand \/ ReplyLost \/ CommandTimeout \/ EngineStarts \/ EngineStops
    BY <2>2, <2>6 DEF ServeCommand, ReplyLost, CommandTimeout, EngineStarts, EngineStops, rooms
  <2> QED BY <2>4, <2>5, <2>6
<1>5. GatewayTypeOK'
  BY <1>0, <1>1, <1>2, <1>3, <1>4 DEF GatewayTypeOK
<1>6. RoomWanted'
  BY <1>0, <1>1, <1>3, <1>4 DEF RoomWanted
<1>7. JoinsTheRoom'
  BY <1>0, <1>1, <1>3 DEF JoinsTheRoom
<1>8. loop'.at = "built" => loop' = loop /\ loop'.n <= written[loop'.room]
  BY <1>0, <1>3 DEF NothingAhead
<1> QED BY <1>1, <1>3, <1>5, <1>6, <1>7, <1>8, LoopMoves

LEMMA JoinBuildsStep ==
    ASSUME GatewayInv, JoinBuilds
    PROVE  GatewayInv'
<1>0. /\ GatewayTypeOK /\ NothingAhead /\ RoomWanted /\ JoinsTheRoom
  BY DEF GatewayInv
<1>1. /\ loop.at = "build"
      /\ loop' = [at |-> "built", room |-> loop.room, n |-> written[loop.room]]
      /\ UNCHANGED <<written, published, conn, inbox, joined, refused, queue, needs_state_sync, wake, writer,
                     room, shown, owed, sent, missed, stream, engine>>
  BY DEF JoinBuilds, world, mailbox, channel, client, history, rooms
<1>2. loop.room \in Rooms /\ written[loop.room] \in Nat /\ joined = loop.room
      /\ published[joined] <= written[joined] /\ published[joined] \in Nat
  <2>1. loop.room \in Rooms
    BY <1>0, <1>1, Places
  <2> QED BY <1>0, <1>1, <2>1 DEF GatewayTypeOK, JoinsTheRoom, NothingAhead
<1>3. /\ loop'.at = "built" /\ loop'.room = loop.room /\ loop'.n = written[loop.room]
      /\ loop' \in LoopPlace
  BY <1>1, <1>2 DEF LoopPlace
<1>4. GatewayTypeOK'
  BY <1>0, <1>1, <1>3 DEF GatewayTypeOK
<1>5. RoomWanted' /\ JoinsTheRoom'
  BY <1>0, <1>1, <1>2, <1>3 DEF RoomWanted, JoinsTheRoom, LastAskedIs, NothingAsked, IsCommand
<1>6. \A e \in 1..published[joined] : e <= loop'.n
  BY <1>2, <1>3
<1> QED BY <1>1, <1>2, <1>3, <1>4, <1>5, <1>6, LoopMoves

LEMMA JoinSendsStep ==
    ASSUME GatewayInv, JoinSends
    PROVE  GatewayInv'
<1> DEFINE r == loop.room
           n == loop.n
<1>0. /\ GatewayTypeOK /\ NothingAhead /\ RoomWanted /\ JoinsTheRoom
      /\ OwedIsComing /\ FlagWakes /\ EventsAccounted /\ ToldIsShown
  BY DEF GatewayInv
<1>1. /\ loop.at = "built" /\ Receive(r, n) /\ loop' = At("idle")
      /\ UNCHANGED <<written, published, conn, inbox, joined, refused, queue, needs_state_sync, wake, writer,
                     stream, engine>>
  BY DEF JoinSends, world, mailbox, channel, rooms
<1>2. r \in Rooms /\ n \in Nat /\ n <= written[r] /\ r = joined
  BY <1>0, <1>1, Places DEF NothingAhead, JoinsTheRoom
<1>3. \A e : e \in 1..published[joined] /\ e <= n => e \in 1..n
  BY <1>0, <1>2 DEF GatewayTypeOK
<1> HIDE DEF r, n
<1>4. /\ room' = room /\ shown' \in {none} \cup SUBSET Nat
      /\ shown' # none => room # none /\ shown' \subseteq 1..written[room]
      /\ (shown # none => shown' # none) /\ (r = room => shown' # none)
      /\ owed' \subseteq owed /\ missed' \subseteq Nat /\ sent' \subseteq Nat \ {0}
      /\ 1..n \subseteq sent'
      /\ \A e \in sent \cup missed \cup owed : e >= 1 => e \in sent' \cup missed' \cup owed'
      /\ joined # none /\ joined = room /\ shown' # none => sent' \subseteq shown' \cup missed'
  BY <1>1, <1>2, Received
<1>5. loop'.at = "idle" /\ loop' \in LoopPlace
  BY <1>1, PlainPlaces
<1>6. GatewayTypeOK'
  <2>1. owed' \subseteq Nat
    BY <1>0, <1>4 DEF GatewayTypeOK
  <2> QED BY <1>0, <1>1, <1>4, <1>5, <2>1 DEF GatewayTypeOK
<1>7. NothingAhead'
  <2>1. ASSUME NEW q \in Rooms, NEW e \in Nat, Queued(<<q, e>>)' \/ Sending(<<q, e>>)'
        PROVE  e \in 1..published[q]
    <3>1. Queued(<<q, e>>) \/ Sending(<<q, e>>)
      BY <1>1, <2>1 DEF Queued, Sending
    <3> QED BY <1>0, <3>1 DEF NothingAhead
  <2> QED BY <1>0, <1>1, <1>4, <1>5, <2>1 DEF NothingAhead
<1>8. RoomWanted'
  <2>1. /\ ~conn => inbox = <<>>
        /\ room # none => LastAskedIs(room)' /\ (NothingAsked' => NothingAsked)
    BY <1>0, <1>1, <1>4 DEF RoomWanted, LastAskedIs, NothingAsked, IsCommand
  <2>2. room # none /\ conn /\ NothingAsked /\ ~refused => joined = room /\ shown' # none
    BY <1>0, <1>2, <1>4 DEF RoomWanted
  <2> QED BY <1>1, <1>4, <2>1, <2>2 DEF RoomWanted
<1>9. JoinsTheRoom' /\ ToldIsShown' /\ FlagWakes' /\ OwedIsComing'
  BY <1>0, <1>1, <1>4, <1>5 DEF JoinsTheRoom, ToldIsShown, FlagWakes, OwedIsComing
<1>10. EventsAccounted'
  <2> SUFFICES ASSUME joined # none, writer.at # "dead", NEW e \in 1..published[joined]
               PROVE  \/ e \in sent' \cup missed' \cup owed'
                      \/ Queued(<<joined, e>>)' \/ Sending(<<joined, e>>)'
    BY <1>1 DEF EventsAccounted
  <2>1. \/ e \in sent \cup missed \cup owed
        \/ Queued(<<joined, e>>) \/ Sending(<<joined, e>>) \/ e <= n
    BY <1>0, <1>1 DEF EventsAccounted, n
  <2>2. /\ Queued(<<joined, e>>) => Queued(<<joined, e>>)'
        /\ Sending(<<joined, e>>) => Sending(<<joined, e>>)'
    BY <1>1 DEF Queued, Sending
  <2>3. e >= 1
    BY <1>0 DEF GatewayTypeOK
  <2> QED BY <1>3, <1>4, <2>1, <2>2, <2>3
<1> QED BY <1>6, <1>7, <1>8, <1>9, <1>10 DEF GatewayInv

\* The connection has left the room, or has not joined one since.
LEMMA NothingOwed ==
    ASSUME GatewayInv, GatewayTypeOK', NothingAhead', RoomWanted', JoinsTheRoom', FlagWakes',
           owed' = {}, sent' = {}, joined' = none \/ loop'.at = "build"
    PROVE  GatewayInv'
  BY DEF GatewayInv, OwedIsComing, EventsAccounted, ToldIsShown

LEMMA HandleJoinStep ==
    ASSUME GatewayInv, HandleJoin
    PROVE  GatewayInv'
<1> DEFINE h == Head(inbox)
           r == h.room
<1>0. /\ GatewayTypeOK /\ NothingAhead /\ RoomWanted /\ JoinsTheRoom /\ FlagWakes
  BY DEF GatewayInv
<1>1. /\ loop.at = "idle" /\ inbox # <<>> /\ h.t = "join" /\ inbox' = Tail(inbox)
      /\ joined' = r /\ refused' = FALSE
      /\ IF joined = r THEN UNCHANGED <<owed, sent, missed>>
         ELSE owed' = {} /\ sent' = {} /\ missed' = {}
      /\ loop' = [at |-> "build", room |-> r]
      /\ UNCHANGED <<written, published, conn, queue, needs_state_sync, wake, writer, room, shown,
                     stream, engine>>
  BY DEF HandleJoin, NextFrame, Subscribe, world, mailbox, channel, client, history, rooms
<1>2. inbox' \in Seq(Frame) /\ h \in Frame /\ h.room \in Rooms /\ conn
  <2>1. inbox \in Seq(Frame) /\ conn
    BY <1>0, <1>1 DEF GatewayTypeOK, RoomWanted
  <2>2. Tail(inbox) \in Seq(Frame) /\ h \in Frame
    BY <1>1, <2>1, Taken
  <2> QED BY <1>1, <2>1, <2>2 DEF Frame
<1> HIDE DEF h
<1>3. loop'.at = "build" /\ loop'.room = r /\ loop' \in LoopPlace
  BY <1>1, <1>2 DEF LoopPlace
<1>4. GatewayTypeOK'
  <2>1. owed' \subseteq Nat /\ sent' \subseteq Nat \ {0} /\ missed' \subseteq Nat
    BY <1>0, <1>1 DEF GatewayTypeOK
  <2> QED BY <1>0, <1>1, <1>2, <1>3, <2>1 DEF GatewayTypeOK
<1>5. RoomWanted'
  <2> SUFFICES ASSUME room # none
               PROVE  LastAskedIs(room)' /\ (NothingAsked' => joined' = room)
    BY <1>1, <1>2, <1>3 DEF RoomWanted
  <2>1. PICK q : q = room
    OBVIOUS
  <2>2. LastAskedIs(q) /\ inbox \in Seq(Frame)
    BY <1>0, <2>1 DEF RoomWanted, GatewayTypeOK
  <2>3. LastAskedIs(q)' /\ (NothingAsked' => h = [t |-> "join", room |-> q])
    BY <1>1, <2>2, InboxTaken DEF h
  <2>4. NothingAsked' => r = q
    BY <2>3
  <2> QED BY <1>1, <2>1, <2>3, <2>4
<1>6. JoinsTheRoom' /\ FlagWakes'
  BY <1>0, <1>1, <1>3 DEF JoinsTheRoom, FlagWakes
<1>7. CASE joined = r
  <2>1. UNCHANGED <<joined, owed, sent, missed>>
    BY <1>1, <1>7
  <2> QED BY <1>1, <1>3, <1>4, <1>5, <1>6, <2>1, LoopMoves
<1>8. CASE joined # r
  <2>1. NothingAhead'
    <3>1. ASSUME NEW q \in Rooms, NEW e \in Nat, Queued(<<q, e>>)' \/ Sending(<<q, e>>)'
          PROVE  e \in 1..published[q]
      <4>1. Queued(<<q, e>>) \/ Sending(<<q, e>>)
        BY <1>1, <3>1 DEF Queued, Sending
      <4> QED BY <1>0, <4>1 DEF NothingAhead
    <3> QED BY <1>0, <1>1, <1>3, <3>1 DEF NothingAhead
  <2> QED BY <1>1, <1>3, <1>4, <1>5, <1>6, <1>8, <2>1, NothingOwed
<1> QED BY <1>7, <1>8

LEMMA HandleLeaveStep ==
    ASSUME GatewayInv, HandleLeave
    PROVE  GatewayInv'
<1> DEFINE h == Head(inbox)
<1>0. /\ GatewayTypeOK /\ NothingAhead /\ RoomWanted /\ JoinsTheRoom /\ FlagWakes
  BY DEF GatewayInv
<1>1. /\ loop.at = "idle" /\ inbox # <<>> /\ h.t = "leave" /\ inbox' = Tail(inbox)
      /\ \/ UNCHANGED <<joined, owed, sent, missed>>
         \/ joined' = none /\ owed' = {} /\ sent' = {} /\ missed' = {}
      /\ refused' = FALSE
      /\ UNCHANGED <<written, published, conn, queue, needs_state_sync, wake, writer, loop, room,
                     shown, stream, engine>>
  BY DEF HandleLeave, NextFrame, Subscribe, world, mailbox, channel, client, history, rooms
<1>2. inbox' \in Seq(Frame) /\ conn
  BY <1>0, <1>1, Taken DEF GatewayTypeOK, RoomWanted
<1> HIDE DEF h
<1>4. GatewayTypeOK'
  <2>1. /\ owed' \subseteq Nat /\ sent' \subseteq Nat \ {0} /\ missed' \subseteq Nat
        /\ joined' \in Rooms \cup {none}
    BY <1>0, <1>1 DEF GatewayTypeOK
  <2> QED BY <1>0, <1>1, <1>2, <2>1 DEF GatewayTypeOK
<1>5. RoomWanted'
  <2> SUFFICES ASSUME room # none PROVE LastAskedIs(room)' /\ ~NothingAsked'
    BY <1>1, <1>2 DEF RoomWanted
  <2>1. PICK q : q = room
    OBVIOUS
  <2>2. LastAskedIs(q) /\ inbox \in Seq(Frame)
    BY <1>0, <2>1 DEF RoomWanted, GatewayTypeOK
  <2>3. LastAskedIs(q)' /\ (NothingAsked' => h = [t |-> "join", room |-> q])
    BY <1>1, <2>2, InboxTaken DEF h
  <2>4. ~NothingAsked'
    BY <1>1, <2>3
  <2> QED BY <1>1, <2>1, <2>3, <2>4
<1>6. JoinsTheRoom' /\ FlagWakes'
  BY <1>0, <1>1 DEF JoinsTheRoom, FlagWakes
<1>7. CASE UNCHANGED <<joined, owed, sent, missed>>
  BY <1>0, <1>1, <1>4, <1>5, <1>6, <1>7, LoopMoves DEF NothingAhead
<1>8. CASE joined' = none /\ owed' = {} /\ sent' = {} /\ missed' = {}
  <2>1. NothingAhead'
    <3>1. ASSUME NEW q \in Rooms, NEW e \in Nat, Queued(<<q, e>>)' \/ Sending(<<q, e>>)'
          PROVE  e \in 1..published[q]
      <4>1. Queued(<<q, e>>) \/ Sending(<<q, e>>)
        BY <1>1, <3>1 DEF Queued, Sending
      <4> QED BY <1>0, <4>1 DEF NothingAhead
    <3> QED BY <1>0, <1>1, <3>1 DEF NothingAhead
  <2> QED BY <1>1, <1>4, <1>5, <1>6, <1>8, <2>1, NothingOwed
<1> QED BY <1>1, <1>7, <1>8

-----------------------------------------------------------------------------
(* The connection and the player.                                          *)

LEMMA ConnectionStep ==
    ASSUME GatewayInv, Connect \/ Disconnect
    PROVE  GatewayInv'
<1>0. /\ GatewayTypeOK /\ NothingAhead
  BY DEF GatewayInv
<1>1. /\ queue' = <<>> /\ needs_state_sync' = FALSE /\ wake' = FALSE
      /\ joined' = none /\ refused' = FALSE
      /\ owed' = {} /\ sent' = {} /\ missed' = {} /\ loop' = At("idle")
      /\ writer' \in {At("top"), At("none")} /\ conn' \in BOOLEAN
      /\ UNCHANGED <<written, published, room, shown, stream, engine>>
  BY DEF Connect, Disconnect, Fresh, world, channel, client, rooms
<1>2. loop'.at = "idle" /\ loop' \in LoopPlace /\ writer'.at \in {"top", "none"}
      /\ writer' \in WriterPlace
  BY <1>1, PlainPlaces
<1>3. /\ inbox' \in Seq(Frame)
      /\ room # none /\ conn' => inbox' = <<[t |-> "join", room |-> room]>>
      /\ ~conn' => inbox' = <<>>
  <2>1. room \in Rooms \cup {none}
    BY <1>0 DEF GatewayTypeOK
  <2>2. CASE Disconnect
    BY <2>2 DEF Disconnect
  <2>3. CASE Connect /\ room = none
    BY <2>3 DEF Connect
  <2>4. CASE Connect /\ room # none
    <3>1. [t |-> "join", room |-> room] \in Frame
      BY <2>1, <2>4 DEF Frame
    <3>2. inbox' = <<[t |-> "join", room |-> room]>> /\ conn'
      BY <2>4 DEF Connect
    <3> QED BY <3>1, <3>2
  <2> QED BY <2>2, <2>3, <2>4
<1>4. queue' \in Seq(Message) /\ Len(queue') = 0
  BY <1>1
<1>5. GatewayTypeOK'
  BY <1>0, <1>1, <1>2, <1>3, <1>4 DEF GatewayTypeOK
<1>6. NothingAhead'
  <2>1. \A x : ~Queued(x)' /\ ~Sending(x)'
    BY <1>2, <1>4 DEF Queued, Sending
  <2> QED BY <1>0, <1>1, <1>2, <2>1 DEF NothingAhead
<1>7. RoomWanted'
  <2> SUFFICES ASSUME room # none PROVE LastAskedIs(room)' /\ ~(conn' /\ NothingAsked')
    BY <1>1, <1>3 DEF RoomWanted
  <2>1. CASE conn'
    <3>1. Len(inbox') = 1 /\ inbox'[1] = [t |-> "join", room |-> room]
      BY <1>3, <2>1
    <3>2. 1..Len(inbox') = {1}
      BY <3>1
    <3>3. inbox'[1].t = "join"
      BY <3>1
    <3> QED BY <1>1, <3>1, <3>2, <3>3 DEF LastAskedIs, NothingAsked, IsCommand
  <2>2. CASE ~conn'
    <3>1. Len(inbox') = 0
      BY <1>3, <2>2
    <3> QED BY <2>2, <3>1 DEF LastAskedIs
  <2> QED BY <2>1, <2>2
<1>8. JoinsTheRoom' /\ FlagWakes'
  BY <1>1, <1>2 DEF JoinsTheRoom, FlagWakes
<1> QED BY <1>1, <1>5, <1>6, <1>7, <1>8, NothingOwed

LEMMA PlayerStep ==
    ASSUME GatewayInv, Player
    PROVE  GatewayInv'
<1>0. /\ GatewayTypeOK /\ NothingAhead /\ RoomWanted /\ JoinsTheRoom
      /\ OwedIsComing /\ FlagWakes /\ EventsAccounted /\ ToldIsShown
  BY DEF GatewayInv
<1>1. ASSUME NEW f \in Frame, Sends(f), room' \in Rooms \cup {none},
             \/ UNCHANGED <<room, shown>>
             \/ shown' = none,
             room' # none => (UNCHANGED <<room, shown>> /\ f.t = "command")
                             \/ f = [t |-> "join", room |-> room']
      PROVE  GatewayInv'
  <2>1. /\ inbox' = IF conn THEN Append(inbox, f) ELSE inbox
        /\ UNCHANGED <<written, published, conn, joined, refused, queue, needs_state_sync, wake, writer,
                       loop, stream, engine, owed, sent, missed>>
    BY <1>1 DEF Sends, world, mailbox, channel, history, rooms
  <2>2. inbox \in Seq(Frame)
    BY <1>0 DEF GatewayTypeOK
  <2>3. /\ inbox' \in Seq(Frame) /\ (~conn => inbox = <<>> /\ inbox' = <<>>)
        /\ conn /\ NothingAsked' => NothingAsked /\ f.t = "command"
    BY <1>0, <2>1, <2>2, InboxAppended DEF RoomWanted
  <2>4. GatewayTypeOK'
    BY <1>0, <1>1, <2>1, <2>3 DEF GatewayTypeOK
  <2>5. NothingAhead'
    <3>1. ASSUME NEW q \in Rooms, NEW e \in Nat, Queued(<<q, e>>)' \/ Sending(<<q, e>>)'
          PROVE  e \in 1..published[q]
      <4>1. Queued(<<q, e>>) \/ Sending(<<q, e>>)
        BY <2>1, <3>1 DEF Queued, Sending
      <4> QED BY <1>0, <4>1 DEF NothingAhead
    <3> QED BY <1>0, <1>1, <2>1, <3>1 DEF NothingAhead
  <2>6. RoomWanted'
    <3> SUFFICES ASSUME room' # none
                 PROVE  /\ LastAskedIs(room)'
                        /\ conn /\ NothingAsked' /\ ~refused =>
                              joined = room' /\ (shown' # none \/ loop.at \in {"build", "built"})
      BY <2>1, <2>3 DEF RoomWanted, LastAskedIs, IsCommand
    <3>1. PICK q : q = room'
      OBVIOUS
    <3>4. CASE ~conn
      BY <2>3, <3>4 DEF LastAskedIs
    <3>2. CASE conn /\ UNCHANGED <<room, shown>> /\ f.t = "command"
      <4>1. LastAskedIs(q)
        BY <1>0, <3>1, <3>2 DEF RoomWanted
      <4>2. LastAskedIs(q)'
        BY <2>1, <2>2, <3>2, <4>1, InboxAppended
      <4> QED BY <1>0, <2>3, <3>1, <3>2, <4>2 DEF RoomWanted, LastAskedIs, IsCommand
    <3>3. CASE conn /\ f = [t |-> "join", room |-> room']
      <4>1. LastAskedIs(q)' /\ f.t # "command"
        BY <2>1, <2>2, <3>1, <3>3, InboxAppended
      <4> QED BY <2>3, <3>1, <4>1 DEF LastAskedIs, IsCommand
    <3> QED BY <1>1, <3>2, <3>3, <3>4
  <2>7. JoinsTheRoom' /\ OwedIsComing' /\ FlagWakes'
    BY <1>0, <2>1 DEF JoinsTheRoom, OwedIsComing, FlagWakes
  <2>8. EventsAccounted'
    BY <1>0, <2>1 DEF EventsAccounted, Queued, Sending
  <2>9. ToldIsShown'
    BY <1>0, <1>1, <2>1 DEF ToldIsShown
  <2> QED BY <2>4, <2>5, <2>6, <2>7, <2>8, <2>9 DEF GatewayInv
<1>2. room \in Rooms \cup {none}
  BY <1>0 DEF GatewayTypeOK
<1>3. ASSUME NEW r \in Rooms, EnterRoom(r) PROVE GatewayInv'
  <2> DEFINE f == [t |-> "join", room |-> r]
  <2>1. Sends(f) /\ room' = r /\ shown' = IF r = room THEN shown ELSE none
    BY <1>3 DEF EnterRoom
  <2>2. f \in Frame
    BY DEF Frame
  <2>3. UNCHANGED <<room, shown>> \/ shown' = none
    BY <2>1
  <2> QED BY <1>1, <2>1, <2>2, <2>3
<1>4. ASSUME LeaveRoom PROVE GatewayInv'
  <2> DEFINE f == [t |-> "leave", room |-> room]
  <2>1. Sends(f) /\ room' = none /\ shown' = none /\ room # none
    BY <1>4 DEF LeaveRoom
  <2>2. f \in Frame
    BY <1>2, <2>1 DEF Frame
  <2> HIDE DEF f
  <2> QED BY <1>1, <2>1, <2>2
<1>5. ASSUME AskCommand PROVE GatewayInv'
  <2> DEFINE f == [t |-> "command", room |-> room]
  <2>1. Sends(f) /\ UNCHANGED <<room, shown>> /\ room # none
    BY <1>5 DEF AskCommand, client
  <2>2. f \in Frame /\ f.t = "command"
    BY <1>2, <2>1 DEF Frame
  <2> HIDE DEF f
  <2> QED BY <1>1, <1>2, <2>1, <2>2
<1> QED BY <1>3, <1>4, <1>5 DEF Player

-----------------------------------------------------------------------------
LEMMA GatewayStep == GatewayInv /\ [Next]_vars => GatewayInv'
<1> SUFFICES ASSUME GatewayInv, [Next]_vars PROVE GatewayInv'
  OBVIOUS
<1>1. CASE Engine
  BY <1>1, WriteStep, PublishStep, PublishOtherStep DEF Engine
<1>2. CASE WriterLoop \/ WriterFails
  BY <1>2, WriterTopStep, WriterBuildsStep, WriterSyncsStep, WriterGetsStep, WriterSendsStep,
     WriterFailsStep DEF WriterLoop
<1>3. CASE MessageLoop \/ Commands
  BY <1>3, HandleJoinStep, HandleLeaveStep, JoinBuildsStep, JoinSendsStep, CommandStep
     DEF MessageLoop, HandleFrame, Commands
<1>4. CASE Connect \/ Disconnect \/ Player
  BY <1>4, ConnectionStep, PlayerStep
<1>5. CASE UNCHANGED vars
  <2>1. UNCHANGED <<written, published, conn, inbox, joined, refused, queue, needs_state_sync, wake, writer,
                    loop, stream, engine, room, shown, owed, sent, missed>>
    BY <1>5, Zenon DEF vars, world, mailbox, channel, client, history, rooms
  <2>2. GatewayTypeOK' /\ OwedIsComing' /\ FlagWakes'
    BY <2>1 DEF GatewayInv, GatewayTypeOK, OwedIsComing, FlagWakes
  <2>3. NothingAhead /\ writer'.at = "sync" => writer'.n <= written[writer'.room]
    BY <2>1 DEF NothingAhead
  <2> QED BY <2>1, <2>2, <2>3, SameView DEF GatewayInv
<1> QED BY <1>1, <1>2, <1>3, <1>4, <1>5 DEF Next

LEMMA GatewayView == GatewayInv => ViewCurrent
<1> SUFFICES ASSUME GatewayInv, Quiet
             PROVE  /\ refused \/ (joined = room /\ shown # none)
                    /\ joined = room /\ shown # none =>
                          \A e : e \in (1..written[room]) \ missed <=> e \in shown \ missed
  BY DEF ViewCurrent
<1>0. /\ GatewayTypeOK /\ NothingAhead /\ RoomWanted
      /\ OwedIsComing /\ FlagWakes /\ EventsAccounted /\ ToldIsShown
  BY DEF GatewayInv
<1>1. /\ conn /\ room # none /\ inbox = <<>> /\ loop.at = "idle"
      /\ queue = <<>> /\ writer.at = "parked" /\ ~wake /\ published = written
  BY DEF Quiet
<1>2. refused \/ (joined = room /\ shown # none)
  <2>1. NothingAsked
    BY <1>1 DEF NothingAsked
  <2> QED BY <1>0, <1>1, <2>1 DEF RoomWanted
<1>3. ASSUME joined = room, shown # none, NEW e
      PROVE  e \in (1..written[room]) \ missed <=> e \in shown \ missed
  <2>1. shown \subseteq 1..written[room] /\ sent \subseteq shown \cup missed
    BY <1>0, <1>1, <1>3 DEF NothingAhead, ToldIsShown
  <2>2. owed = {}
    BY <1>0, <1>1 DEF OwedIsComing, FlagWakes
  <2>3. \A x : ~Queued(x) /\ ~Sending(x)
    BY <1>1 DEF Queued, Sending
  <2>4. ASSUME e \in 1..written[room] PROVE e \in sent \cup missed
    BY <1>0, <1>1, <1>3, <2>2, <2>3, <2>4 DEF EventsAccounted
  <2> QED BY <2>1, <2>4
<1> QED BY <1>2, <1>3

\* However joins, the writer and the hub interleave, whatever is lost or refused
\* and whoever reconnects: once a connection has nothing left to say, a player
\* whose last join was not refused is in the room of the screen and sees it, and
\* a room that is joined and shown is shown with every event of it, but for
\* those the gateway is known to lose.
THEOREM GatewaySafe == Spec => []ViewCurrent
<1> QED BY GatewayInitInv, GatewayStep, GatewayView, PTL DEF Spec

=============================================================================
