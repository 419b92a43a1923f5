--------------------------- MODULE DepositProofs ---------------------------
(***************************************************************************)
(* Deposits, for any players, amounts, handlers, messages and payments.    *)
(***************************************************************************)
EXTENDS Deposit, SumTheorems

-----------------------------------------------------------------------------
(***************************************************************************)
(* Types.                                                                  *)
(***************************************************************************)

\* The constants the proofs use.
LEMMA Constants ==
    /\ Amount \subseteq Nat /\ Paid \subseteq Nat
    /\ \A m \in Message : m.ref \in Ref /\ m.body \in Nat /\ m.amount \in Nat
    /\ \A s \in Failure : s \in {"failed", "cancelled"}
    /\ DailyCap \in Nat /\ MaxGrants \in Nat /\ TwoPerson \in Nat /\ MaxPayments \in Nat
    /\ NoUser \notin User /\ NoAdmin \notin Admin
    /\ Idle \notin Intents /\ Idle \notin ManualRequests /\ Idle \notin Redemptions
BY DepositAssumption

\* What a handler is in the middle of tells what it holds.
LEMMA HandlingKinds ==
    ASSUME TypeOK, NEW h \in Handler
    PROVE  /\ handling[h] # Idle /\ handling[h].op = "intent" => handling[h] \in Intents
           /\ handling[h] # Idle /\ handling[h].op = "manual" => handling[h] \in ManualRequests
           /\ handling[h] # Idle /\ handling[h].op = "redeem" => handling[h] \in Redemptions
           /\ handling[h] # Idle => handling[h].user \in User /\ handling[h].amount \in Nat
<1>1. handling[h] \in {Idle} \union Intents \union ManualRequests \union Redemptions
  BY DEF TypeOK
<1> QED BY <1>1 DEF Intents, ManualRequests, Redemptions

\* The next payment's number is new.
LEMMA NewRow ==
    ASSUME TypeOK, NewId <= MaxPayments
    PROVE  /\ NewId \notin Id /\ NewId \in 1 .. MaxPayments
           /\ IsFiniteSet(Id \union {NewId}) /\ Cardinality(Id \union {NewId}) = NewId
           /\ Id \union {NewId} = 1 .. NewId
<1>1. Cardinality(Id) \in Nat /\ Id = 1 .. Cardinality(Id) /\ IsFiniteSet(Id)
  BY FS_CardinalityType DEF TypeOK
<1> DEFINE n == Cardinality(Id)
<1>2. n \in Nat /\ Id = 1 .. n /\ NewId = n + 1
  BY <1>1 DEF NewId
<1> HIDE DEF n
<1>3. NewId \notin Id /\ Id \union {NewId} = 1 .. NewId
  BY <1>2
<1>4. IsFiniteSet(Id \union {NewId}) /\ Cardinality(Id \union {NewId}) = NewId
  BY <1>1, <1>3, FS_AddElement DEF NewId
<1>5. NewId \in 1 .. MaxPayments
  BY <1>2, Constants
<1> QED BY <1>3, <1>4, <1>5

\* A row is changed, and nothing that a sum is made of.
Edit(i, row) ==
    /\ i \in Id /\ row \in PaymentRow
    /\ payments' = [payments EXCEPT ![i] = row]
    /\ row.user = payments[i].user /\ row.rail = payments[i].rail /\ row.amount = payments[i].amount

\* A row is added.
Add(row) ==
    /\ row \in PaymentRow /\ NewId <= MaxPayments
    /\ payments' = [j \in Id \union {NewId} |-> IF j \in Id THEN payments[j] ELSE row]

\* What an edit leaves.
LEMMA EditFacts ==
    ASSUME TypeOK, NEW i, NEW row, Edit(i, row)
    PROVE  /\ Id' = Id /\ payments' \in [Id -> PaymentRow]
           /\ \A j \in Id : payments'[j] = IF j = i THEN row ELSE payments[j]
           /\ \A j \in Id : payments'[j].user = payments[j].user
                            /\ payments'[j].amount = payments[j].amount
           /\ Asked' = Asked
<1>1. payments \in [Id -> PaymentRow]
  BY DEF TypeOK
<1>2. Id' = Id /\ payments' \in [Id -> PaymentRow]
  BY <1>1 DEF Edit, Id
<1>3. \A j \in Id : payments'[j] = IF j = i THEN row ELSE payments[j]
  BY <1>1 DEF Edit
<1>4. \A j \in Id : payments'[j].user = payments[j].user /\ payments'[j].amount = payments[j].amount
  BY <1>3 DEF Edit
<1>5. Asked' = Asked
  BY <1>2, <1>4 DEF Asked
<1> QED BY <1>2, <1>3, <1>4, <1>5

\* What an addition leaves.
LEMMA AddFacts ==
    ASSUME TypeOK, NEW row, Add(row)
    PROVE  /\ Id' = Id \union {NewId} /\ NewId \notin Id /\ NewId \in 1 .. MaxPayments
           /\ payments' \in [Id' -> PaymentRow]
           /\ \A j \in Id : payments'[j] = payments[j]
           /\ payments'[NewId] = row
           /\ IsFiniteSet(Id') /\ Id' = 1 .. Cardinality(Id') /\ Cardinality(Id') <= MaxPayments
<1>0. payments \in [Id -> PaymentRow] /\ NewId \notin Id /\ row \in PaymentRow
  BY NewRow DEF TypeOK, Add
<1>1. payments' = [j \in Id \union {NewId} |-> IF j \in Id THEN payments[j] ELSE row]
  BY DEF Add
<1>2. Id' = Id \union {NewId}
  BY <1>1 DEF Id
<1>3. payments' \in [Id' -> PaymentRow]
  BY <1>0, <1>1, <1>2
<1>4. (\A j \in Id : payments'[j] = payments[j]) /\ payments'[NewId] = row
  BY <1>0, <1>1
<1> QED BY <1>2, <1>3, <1>4, NewRow DEF Add

\* A credit of a row that is there is an edit of it.
LEMMA CreditedEdits ==
    ASSUME TypeOK, NEW i \in Id, NEW row \in PaymentRow, Credited(i, payments, row),
           row.user = payments[i].user, row.rail = payments[i].rail, row.amount = payments[i].amount
    PROVE  Edit(i, [row EXCEPT !.status = "succeeded", !.txn = TRUE])
<1>1. [row EXCEPT !.status = "succeeded", !.txn = TRUE] \in PaymentRow
  BY DEF PaymentRow
<1>2. payments' = [payments EXCEPT ![i] = [row EXCEPT !.status = "succeeded", !.txn = TRUE]]
  BY DEF Credited, TypeOK, Id
<1> QED BY <1>1, <1>2 DEF Edit, PaymentRow

\* A credit of a redeemed message is an addition with its money.
LEMMA CreditedAdds ==
    ASSUME TypeOK, NEW row \in PaymentRow, Credited(NewId, payments, row), NewId <= MaxPayments
    PROVE  Add([row EXCEPT !.status = "succeeded", !.txn = TRUE])
<1>1. [row EXCEPT !.status = "succeeded", !.txn = TRUE] \in PaymentRow
  BY DEF PaymentRow
<1>2. payments' = [j \in Id \union {NewId} |-> IF j \in Id THEN payments[j]
                       ELSE [row EXCEPT !.status = "succeeded", !.txn = TRUE]]
  BY NewRow DEF Credited, Id
<1> QED BY <1>1, <1>2 DEF Add

\* What each rail's INSERT adds to the table.
LEMMA Inserted ==
    ASSUME TypeOK, NEW h \in Handler
    PROVE  /\ InsertIntent(h) => Add(Row(handling[h].user, "chapa", handling[h].amount, "pending"))
           /\ InsertManual(h) => Add(Row(handling[h].user, "manual", handling[h].amount, "review"))
           /\ CommitRedeem(h) =>
                Add([Row(handling[h].user, "telebirr_sms", handling[h].amount, "succeeded")
                        EXCEPT !.status = "succeeded", !.txn = TRUE])
<1>1. ASSUME NEW u \in User, NEW a \in Nat, NEW rail \in {"chapa", "manual", "telebirr_sms"},
             NEW s \in {"pending", "review", "succeeded"}
      PROVE  Row(u, rail, a, s) \in PaymentRow
  BY DEF Row, PaymentRow
<1>2. ASSUME NEW row \in PaymentRow, Insert(row) PROVE Add(row)
  <2>1. NewId <= MaxPayments
    BY <1>2, FS_CardinalityType, Constants DEF Insert, NewId, TypeOK
  <2> QED BY <2>1, <1>2 DEF Insert, Add
<1>3. InsertIntent(h) => Add(Row(handling[h].user, "chapa", handling[h].amount, "pending"))
  BY <1>1, <1>2, HandlingKinds DEF InsertIntent, At
<1>4. InsertManual(h) => Add(Row(handling[h].user, "manual", handling[h].amount, "review"))
  BY <1>1, <1>2, HandlingKinds DEF InsertManual, At
<1>5. ASSUME CommitRedeem(h)
      PROVE  Add([Row(handling[h].user, "telebirr_sms", handling[h].amount, "succeeded")
                     EXCEPT !.status = "succeeded", !.txn = TRUE])
  BY <1>5, <1>1, CreditedAdds, HandlingKinds DEF CommitRedeem, At
<1> QED BY <1>3, <1>4, <1>5

\* A row whose status, and nothing a sum is made of, changes.
LEMMA StatusEdits ==
    ASSUME TypeOK, NEW i \in Id,
           NEW s \in {"processing", "review", "rejected", "failed", "cancelled"}, SetStatus(i, s)
    PROVE  Edit(i, [payments[i] EXCEPT !.status = s])
<1>1. payments[i] \in PaymentRow
  BY DEF TypeOK
<1>2. [payments[i] EXCEPT !.status = s] \in PaymentRow
  BY <1>1 DEF PaymentRow
<1>3. payments' = [payments EXCEPT ![i] = [payments[i] EXCEPT !.status = s]]
  BY DEF SetStatus
<1> QED BY <1>1, <1>2, <1>3 DEF Edit, PaymentRow

\* What the two answers of the checkout call do to its row.
LEMMA Answered ==
    ASSUME TypeOK, CheckoutsHeld, NEW h \in Handler
    PROVE  /\ CheckoutFailed(h) =>
                Edit(handling[h].id, [payments[handling[h].id] EXCEPT !.status = "failed"])
           /\ RecordCheckout(h) =>
                Edit(handling[h].id,
                     [payments[handling[h].id] EXCEPT !.status = "processing", !.url = TRUE])
<1> DEFINE i == handling[h].id
<1>1. CheckoutFailed(h) \/ RecordCheckout(h) => i \in Id
  BY DEF CheckoutFailed, RecordCheckout, CheckoutsHeld, Calling
<1>2. CheckoutFailed(h) => Edit(i, [payments[i] EXCEPT !.status = "failed"])
  BY <1>1, StatusEdits DEF CheckoutFailed
<1>3. ASSUME RecordCheckout(h)
      PROVE  Edit(i, [payments[i] EXCEPT !.status = "processing", !.url = TRUE])
  <2> HIDE DEF i
  <2>1. i \in Id /\ payments[i] \in PaymentRow
    BY <1>1, <1>3 DEF TypeOK
  <2>2. [payments[i] EXCEPT !.status = "processing", !.url = TRUE] \in PaymentRow
    BY <2>1 DEF PaymentRow
  <2>3. payments' = [payments EXCEPT ![i] =
                        [payments[i] EXCEPT !.status = "processing", !.url = TRUE]]
    BY <2>1, <1>3 DEF RecordCheckout, i, TypeOK
  <2> QED BY <2>1, <2>2, <2>3 DEF Edit, PaymentRow
<1> QED BY <1>2, <1>3

\* What a report, heard or fetched, does to its row.
LEMMA Applied ==
    ASSUME TypeOK, NEW i \in Id, NEW event, NEW report, Apply(i, event, report)
    PROVE  \/ UNCHANGED <<payments, cash, bonuses>>
           \/ /\ payments[i].status # "succeeded" /\ UNCHANGED <<cash, bonuses>>
              /\ \E s \in Failure : /\ report.status = s
                                    /\ Edit(i, [payments[i] EXCEPT !.status = s])
           \/ /\ payments[i].status # "succeeded" /\ UNCHANGED <<cash, bonuses>>
              /\ report.status = "succeeded"
              /\ Edit(i, [payments[i] EXCEPT !.status = "review"])
           \/ /\ payments[i].status # "succeeded"
              /\ report.status = "succeeded" /\ report.amount = payments[i].amount
              /\ Edit(i, [payments[i] EXCEPT !.status = "succeeded", !.txn = TRUE])
              /\ Credited(i, payments, payments[i])
<1>0. payments[i] \in PaymentRow
  BY DEF TypeOK
<1>1. ASSUME payments[i].status # "succeeded", report.status \in Failure,
             SetStatus(i, report.status), UNCHANGED <<cash, bonuses>>
      PROVE  \E s \in Failure : /\ report.status = s
                                /\ Edit(i, [payments[i] EXCEPT !.status = s])
  BY <1>1, StatusEdits, Constants
<1>2. ASSUME SetStatus(i, "review") PROVE Edit(i, [payments[i] EXCEPT !.status = "review"])
  BY <1>2, StatusEdits
<1>3. ASSUME Credited(i, payments, payments[i])
      PROVE  Edit(i, [payments[i] EXCEPT !.status = "succeeded", !.txn = TRUE])
  BY <1>0, <1>3, CreditedEdits
<1> QED BY <1>1, <1>2, <1>3 DEF Apply

\* What an approval does to its row: it waits for a second one, or pays.
LEMMA Approved ==
    ASSUME TypeOK, NEW i, NEW a \in Admin, ApproveManual(i, a)
    PROVE  /\ i \in Id /\ payments[i].rail = "manual" /\ payments[i].status = "review"
           /\ \/ /\ Edit(i, [payments[i] EXCEPT !.first = a]) /\ UNCHANGED <<cash, bonuses>>
              \/ /\ payments[i].amount >= TwoPerson => payments[i].first \notin {NoAdmin, a}
                 /\ Edit(i, [payments[i] EXCEPT !.by = a, !.status = "succeeded", !.txn = TRUE])
                 /\ Credited(i, payments, [payments[i] EXCEPT !.by = a])
<1>0. i \in Id /\ payments[i].rail = "manual" /\ payments[i].status = "review"
  BY DEF ApproveManual, Awaiting
<1>1. payments[i] \in PaymentRow /\ [payments[i] EXCEPT !.by = a] \in PaymentRow
      /\ [payments[i] EXCEPT !.first = a] \in PaymentRow
  BY <1>0 DEF TypeOK, PaymentRow
<1>2. ASSUME payments' = [payments EXCEPT ![i].first = a]
      PROVE  Edit(i, [payments[i] EXCEPT !.first = a])
  <2>1. payments' = [payments EXCEPT ![i] = [payments[i] EXCEPT !.first = a]]
    BY <1>2
  <2> QED BY <1>0, <1>1, <2>1 DEF Edit, PaymentRow
<1>3. ASSUME Credited(i, payments, [payments[i] EXCEPT !.by = a])
      PROVE  Edit(i, [payments[i] EXCEPT !.by = a, !.status = "succeeded", !.txn = TRUE])
  <2>1. Edit(i, [[payments[i] EXCEPT !.by = a] EXCEPT !.status = "succeeded", !.txn = TRUE])
    BY <1>0, <1>1, <1>3, CreditedEdits DEF PaymentRow
  <2>2. [[payments[i] EXCEPT !.by = a] EXCEPT !.status = "succeeded", !.txn = TRUE]
        = [payments[i] EXCEPT !.by = a, !.status = "succeeded", !.txn = TRUE]
    BY <1>1 DEF PaymentRow
  <2> QED BY <2>1, <2>2
<1>4. two_person_gate(i, a) = "proceed" =>
        (payments[i].amount >= TwoPerson => payments[i].first \notin {NoAdmin, a})
  BY <1>1, Constants DEF two_person_gate, PaymentRow
<1> QED BY <1>0, <1>2, <1>3, <1>4 DEF ApproveManual

\* Every step leaves the table of payments alone, edits a row or adds one.
LEMMA RowStep ==
    ASSUME TypeOK, CheckoutsHeld, Next
    PROVE  UNCHANGED payments \/ (\E i, row : Edit(i, row)) \/ (\E row : Add(row))
<1> DEFINE Goal == UNCHANGED payments \/ (\E i, row : Edit(i, row)) \/ (\E row : Add(row))
<1>1. ASSUME NEW h \in Handler, RequestStep(h) PROVE Goal
  <2>1. InsertIntent(h) \/ InsertManual(h) \/ CommitRedeem(h) => Goal
    BY Inserted
  <2>2. CheckoutFailed(h) \/ RecordCheckout(h) => Goal
    BY Answered
  <2>3. (\E u \in User, a \in Amount : CreateIntent(h, u, a) \/ ManualRequest(h, u, a)) => Goal
    BY DEF CreateIntent, ManualRequest, Begin, rows
  <2>4. (\E u \in User, r \in Ref : RedeemEvidence(h, u, r)) => Goal
    BY DEF RedeemEvidence, Begin, rows
  <2>5. CheckoutCreated(h) \/ Crash(h) => Goal
    BY DEF CheckoutCreated, Crash, rows
  <2> QED BY <1>1, <2>1, <2>2, <2>3, <2>4, <2>5 DEF RequestStep
<1>2. ASSUME ProviderStep PROVE Goal
  <2>1. ASSUME NEW i \in 1 .. MaxPayments, NEW s, NEW a, ChapaEnds(i, s, a) PROVE Goal
    BY <2>1 DEF ChapaEnds, rows
  <2>2. ASSUME NEW i \in 1 .. MaxPayments, NEW report, HandleWebhook(i, report) PROVE Goal
    BY <2>2, Applied DEF HandleWebhook
  <2>3. ASSUME PollApply PROVE Goal
    BY <2>3, Applied DEF PollApply, TypeOK
  <2>4. ASSUME NEW i \in 1 .. MaxPayments, PollFetch(i) PROVE Goal
    BY <2>4 DEF PollFetch, rows
  <2> QED BY <1>2, <2>1, <2>2, <2>3, <2>4 DEF ProviderStep
<1>3. ASSUME ConsoleStep PROVE Goal
  <2>1. ASSUME NEW i \in 1 .. MaxPayments, RejectManual(i) PROVE Goal
    BY <2>1, StatusEdits DEF RejectManual, Awaiting
  <2>2. ASSUME NEW i \in 1 .. MaxPayments, NEW a \in Admin, ApproveManual(i, a) PROVE Goal
    BY <2>2, Approved
  <2>3. ASSUME NEW m \in Message, Ingest(m) PROVE Goal
    BY <2>3 DEF Ingest, rows
  <2>4. ASSUME NEW r \in Ref, NEW to, ResolveEvidence(r, to) PROVE Goal
    BY <2>4 DEF ResolveEvidence, rows
  <2>5. ASSUME NEW on, ConfigureDestination(on) PROVE Goal
    BY <2>5 DEF ConfigureDestination, rows
  <2> QED BY <1>3, <2>1, <2>2, <2>3, <2>4, <2>5 DEF ConsoleStep
<1> QED BY <1>1, <1>2, <1>3 DEF Next

\* The table keeps its type, its ids their order, and every row its user,
\* rail and amount.
LEMMA RowsStay ==
    ASSUME TypeOK, CheckoutsHeld, Next
    PROVE  /\ IsFiniteSet(Id') /\ Id' = 1 .. Cardinality(Id') /\ Cardinality(Id') <= MaxPayments
           /\ payments' \in [Id' -> PaymentRow]
           /\ Id \subseteq Id'
           /\ \A j \in Id : /\ payments'[j].user = payments[j].user
                            /\ payments'[j].rail = payments[j].rail
                            /\ payments'[j].amount = payments[j].amount
<1>0. IsFiniteSet(Id) /\ Id = 1 .. Cardinality(Id) /\ Cardinality(Id) <= MaxPayments
      /\ payments \in [Id -> PaymentRow]
  BY DEF TypeOK
<1>1. CASE UNCHANGED payments
  <2>1. Id' = Id
    BY <1>1 DEF Id
  <2> QED BY <1>0, <1>1, <2>1
<1>2. ASSUME NEW i, NEW row, Edit(i, row)
      PROVE  /\ Id' = Id /\ payments' \in [Id -> PaymentRow]
             /\ \A j \in Id : /\ payments'[j].user = payments[j].user
                              /\ payments'[j].rail = payments[j].rail
                              /\ payments'[j].amount = payments[j].amount
  BY <1>2, EditFacts DEF Edit
<1>3. ASSUME NEW row, Add(row)
      PROVE  /\ IsFiniteSet(Id') /\ Id' = 1 .. Cardinality(Id') /\ Cardinality(Id') <= MaxPayments
             /\ payments' \in [Id' -> PaymentRow]
             /\ Id \subseteq Id'
             /\ \A j \in Id : payments'[j] = payments[j]
  BY <1>3, AddFacts
<1>4. CASE \E i, row : Edit(i, row)
  BY <1>0, <1>2, <1>4
<1>5. CASE \E row : Add(row)
  BY <1>3, <1>5
<1> QED BY <1>1, <1>4, <1>5, RowStep

\* No row is succeeded that was not.
NoneSucceeds == \A j \in Id' : payments'[j].status = "succeeded" =>
                                   j \in Id /\ payments[j].status = "succeeded"

\* What leaves a table with no new success in it.
LEMMA Unpaid ==
    ASSUME TypeOK
    PROVE  /\ UNCHANGED payments => NoneSucceeds
           /\ \A i, row : Edit(i, row) /\ row.status # "succeeded" => NoneSucceeds
           /\ \A row : Add(row) /\ row.status # "succeeded" => NoneSucceeds
<1>1. UNCHANGED payments => NoneSucceeds
  BY DEF NoneSucceeds, Id
<1>2. ASSUME NEW i, NEW row, Edit(i, row), row.status # "succeeded" PROVE NoneSucceeds
  BY <1>2, EditFacts DEF NoneSucceeds
<1>3. ASSUME NEW row, Add(row), row.status # "succeeded" PROVE NoneSucceeds
  BY <1>3, AddFacts DEF NoneSucceeds
<1> QED BY <1>1, <1>2, <1>3

\* A credit that was not given before.
Credit(i, row) ==
    /\ Credited(i, payments, row) /\ row \in PaymentRow
    /\ row.txn => i \in Id /\ payments[i].txn
    /\ i \in Id => payments[i].status # "succeeded"

\* A step credits nobody, or the owner of one payment, whom it may grant bonuses.
LEMMA CashStep ==
    ASSUME TypeOK, CheckoutsHeld, Next
    PROVE  \/ UNCHANGED <<cash, bonuses>> /\ NoneSucceeds
           \/ \E i, row : Credit(i, row)
<1> DEFINE Goal == (UNCHANGED <<cash, bonuses>> /\ NoneSucceeds) \/ \E i, row : Credit(i, row)
<1>0. \A i \in Id : payments[i] \in PaymentRow
  BY DEF TypeOK
<1>1. ASSUME NEW h \in Handler, RequestStep(h) PROVE Goal
  <2>1. ASSUME CommitRedeem(h) PROVE Goal
    <3> DEFINE row == Row(handling[h].user, "telebirr_sms", handling[h].amount, "succeeded")
    <3>1. row \in PaymentRow /\ ~row.txn
      BY <2>1, HandlingKinds DEF CommitRedeem, At, Row, PaymentRow
    <3>2. NewId \notin Id /\ Credited(NewId, payments, row)
      BY <2>1, NewRow DEF CommitRedeem
    <3> HIDE DEF row
    <3> QED BY <3>1, <3>2 DEF Credit
  <2>2. ASSUME NEW u \in User, NEW a \in Amount, CreateIntent(h, u, a) \/ ManualRequest(h, u, a)
        PROVE  Goal
    BY <2>2, Unpaid DEF CreateIntent, ManualRequest, Begin, rows
  <2>3. ASSUME NEW u \in User, NEW r \in Ref, RedeemEvidence(h, u, r) PROVE Goal
    BY <2>3, Unpaid DEF RedeemEvidence, Begin, rows
  <2>4. ASSUME InsertIntent(h) \/ InsertManual(h) PROVE Goal
    <3>1. UNCHANGED <<cash, bonuses>>
      BY <2>4 DEF InsertIntent, InsertManual
    <3>2. \A u, a : Row(u, "chapa", a, "pending").status = "pending"
      BY DEF Row
    <3>3. \A u, a : Row(u, "manual", a, "review").status = "review"
      BY DEF Row
    <3>4. CASE Add(Row(handling[h].user, "chapa", handling[h].amount, "pending"))
      BY <3>1, <3>2, <3>4, Unpaid
    <3>5. CASE Add(Row(handling[h].user, "manual", handling[h].amount, "review"))
      BY <3>1, <3>3, <3>5, Unpaid
    <3> QED BY <2>4, <3>4, <3>5, Inserted
  <2>5. ASSUME CheckoutFailed(h) PROVE Goal
    <3> DEFINE row == [payments[handling[h].id] EXCEPT !.status = "failed"]
    <3>1. Edit(handling[h].id, row)
      BY <2>5, Answered
    <3>2. row.status = "failed"
      BY <1>0, <3>1 DEF Edit, PaymentRow
    <3> HIDE DEF row
    <3> QED BY <2>5, <3>1, <3>2, Unpaid DEF CheckoutFailed
  <2>6. ASSUME RecordCheckout(h) PROVE Goal
    <3> DEFINE row == [payments[handling[h].id] EXCEPT !.status = "processing", !.url = TRUE]
    <3>1. Edit(handling[h].id, row)
      BY <2>6, Answered
    <3>2. row.status = "processing"
      BY <1>0, <3>1 DEF Edit, PaymentRow
    <3> HIDE DEF row
    <3> QED BY <2>6, <3>1, <3>2, Unpaid DEF RecordCheckout
  <2>7. ASSUME CheckoutCreated(h) \/ Crash(h) PROVE Goal
    BY <2>7, Unpaid DEF CheckoutCreated, Crash, rows
  <2> QED BY <1>1, <2>1, <2>2, <2>3, <2>4, <2>5, <2>6, <2>7 DEF RequestStep
<1>2. ASSUME NEW i \in Id, NEW event, NEW report, Apply(i, event, report) PROVE Goal
  <2>1. ASSUME NEW s, s # "succeeded", Edit(i, [payments[i] EXCEPT !.status = s]) PROVE NoneSucceeds
    <3>1. [payments[i] EXCEPT !.status = s].status # "succeeded"
      BY <1>0, <2>1 DEF PaymentRow
    <3> QED BY <2>1, <3>1, Unpaid
  <2>2. CASE UNCHANGED <<payments, cash, bonuses>>
    BY <2>2, Unpaid
  <2>3. CASE /\ UNCHANGED <<cash, bonuses>>
             /\ \E s \in Failure : Edit(i, [payments[i] EXCEPT !.status = s])
    BY <2>1, <2>3, Constants
  <2>4. CASE UNCHANGED <<cash, bonuses>> /\ Edit(i, [payments[i] EXCEPT !.status = "review"])
    BY <2>1, <2>4
  <2>5. CASE payments[i].status # "succeeded" /\ Credited(i, payments, payments[i])
    BY <1>0, <2>5 DEF Credit
  <2> QED BY <1>2, <2>2, <2>3, <2>4, <2>5, Applied
<1>3. ASSUME ProviderStep PROVE Goal
  <2>1. ASSUME NEW i \in 1 .. MaxPayments, NEW s, NEW a, ChapaEnds(i, s, a) PROVE Goal
    BY <2>1, Unpaid DEF ChapaEnds, rows
  <2>2. ASSUME NEW i \in 1 .. MaxPayments, NEW report, HandleWebhook(i, report) PROVE Goal
    BY <1>2, <2>2 DEF HandleWebhook
  <2>3. ASSUME PollApply PROVE Goal
    BY <1>2, <2>3 DEF PollApply, TypeOK
  <2>4. ASSUME NEW i \in 1 .. MaxPayments, PollFetch(i) PROVE Goal
    BY <2>4, Unpaid DEF PollFetch, rows
  <2> QED BY <1>3, <2>1, <2>2, <2>3, <2>4 DEF ProviderStep
<1>4. ASSUME ConsoleStep PROVE Goal
  <2>1. ASSUME NEW i \in 1 .. MaxPayments, NEW a \in Admin, ApproveManual(i, a) PROVE Goal
    <3>1. i \in Id /\ payments[i] \in PaymentRow /\ payments[i].status = "review"
      BY <2>1 DEF ApproveManual, Awaiting, TypeOK
    <3>2. /\ [payments[i] EXCEPT !.by = a] \in PaymentRow
          /\ [payments[i] EXCEPT !.by = a].txn = payments[i].txn
          /\ [payments[i] EXCEPT !.first = a].status = "review"
      BY <3>1 DEF PaymentRow
    <3>3. CASE UNCHANGED <<cash, bonuses>> /\ Edit(i, [payments[i] EXCEPT !.first = a])
      <4> DEFINE row == [payments[i] EXCEPT !.first = a]
      <4>1. Edit(i, row) /\ row.status # "succeeded"
        BY <3>2, <3>3
      <4> HIDE DEF row
      <4> QED BY <3>3, <4>1, Unpaid
    <3>4. CASE Credited(i, payments, [payments[i] EXCEPT !.by = a])
      <4> DEFINE row == [payments[i] EXCEPT !.by = a]
      <4>1. Credited(i, payments, row) /\ row \in PaymentRow /\ (row.txn => payments[i].txn)
        BY <3>2, <3>4
      <4> HIDE DEF row
      <4> QED BY <3>1, <4>1 DEF Credit
    <3> QED BY <2>1, <3>3, <3>4, Approved
  <2>2. ASSUME NEW i, RejectManual(i) PROVE Goal
    <3> DEFINE row == [payments[i] EXCEPT !.status = "rejected"]
    <3>1. Edit(i, row)
      BY <2>2, StatusEdits DEF RejectManual, Awaiting
    <3>2. row.status = "rejected"
      BY <1>0, <3>1 DEF Edit, PaymentRow
    <3> HIDE DEF row
    <3> QED BY <2>2, <3>1, <3>2, Unpaid DEF RejectManual
  <2>3. ASSUME NEW m, NEW r, NEW to, NEW on,
               Ingest(m) \/ ResolveEvidence(r, to) \/ ConfigureDestination(on)
        PROVE  Goal
    BY <2>3, Unpaid DEF Ingest, ResolveEvidence, ConfigureDestination, rows
  <2> QED BY <1>4, <2>1, <2>2, <2>3 DEF ConsoleStep
<1> QED BY <1>1, <1>3, <1>4 DEF Next

\* What a checked credit grants: one bonus more, or none, for each trigger.
LEMMA GrantedFinite ==
    ASSUME NEW bs, IsFiniteSet(bs), NEW u, NEW amount
    PROVE  /\ IsFiniteSet(maybe_grant_referral_bonus(bs, u, amount))
           /\ IsFiniteSet(maybe_grant_welcome_bonus(bs, u, amount))
  BY FS_AddElement DEF maybe_grant_referral_bonus, maybe_grant_welcome_bonus

\* Requests in hand, and who had two of them, keep their types.
LEMMA HandlingTyped ==
    ASSUME TypeOK, CheckoutsHeld, Next
    PROVE  /\ handling' \in [Handler -> {Idle} \union Intents \union ManualRequests \union Redemptions]
           /\ overlapped' \subseteq User
<1> DEFINE Work == {Idle} \union Intents \union ManualRequests \union Redemptions
<1>0. handling \in [Handler -> Work] /\ overlapped \subseteq User
  BY DEF TypeOK
<1>1. ASSUME NEW h \in Handler, RequestStep(h)
      PROVE  handling' \in [Handler -> Work] /\ overlapped' \subseteq User
  <2>1. ASSUME NEW u \in User, NEW what \in Work, Begin(h, u, what)
        PROVE  handling' \in [Handler -> Work] /\ overlapped' \subseteq User
    <3> HIDE DEF Work
    <3>1. handling' \in [Handler -> Work]
      BY <1>0, <2>1 DEF Begin
    <3>2. overlapped' \subseteq User
      BY <1>0, <2>1 DEF Begin
    <3> QED BY <3>1, <3>2
  <2>2. ASSUME NEW u \in User, NEW a \in Amount, CreateIntent(h, u, a) \/ ManualRequest(h, u, a)
        PROVE  handling' \in [Handler -> Work] /\ overlapped' \subseteq User
    <3>1. a \in Nat
      BY Constants
    <3>2. [op |-> "intent", at |-> "checked", user |-> u, amount |-> a, id |-> 0] \in Work
      BY <3>1 DEF Intents
    <3>3. [op |-> "manual", at |-> "checked", user |-> u, amount |-> a] \in Work
      BY <3>1 DEF ManualRequests
    <3> QED BY <2>1, <2>2, <3>2, <3>3 DEF CreateIntent, ManualRequest
  <2>3. ASSUME NEW u \in User, NEW r \in Ref, RedeemEvidence(h, u, r)
        PROVE  handling' \in [Handler -> Work] /\ overlapped' \subseteq User
    <3>1. evidence[r].amount \in Nat
      BY <2>3 DEF RedeemEvidence, TypeOK, Evidence
    <3>2. [op |-> "redeem", at |-> "checked", user |-> u, amount |-> evidence[r].amount, ref |-> r]
          \in Work
      BY <3>1 DEF Redemptions
    <3> QED BY <2>1, <2>3, <3>2 DEF RedeemEvidence
  <2>4. ASSUME handling' = [handling EXCEPT ![h] = Idle], UNCHANGED overlapped
        PROVE  handling' \in [Handler -> Work] /\ overlapped' \subseteq User
    BY <1>0, <2>4
  <2>5. ASSUME NEW at \in {"calling", "called"}, NEW i \in Nat, handling[h] \in Intents,
               handling' = [handling EXCEPT ![h] = [handling[h] EXCEPT !.at = at, !.id = i]],
               UNCHANGED overlapped
        PROVE  handling' \in [Handler -> Work] /\ overlapped' \subseteq User
    <3>1. [handling[h] EXCEPT !.at = at, !.id = i] \in Work
      BY <2>5 DEF Intents
    <3> HIDE DEF Work
    <3> QED BY <1>0, <2>5, <3>1
  <2>6. ASSUME InsertIntent(h)
        PROVE  handling' \in [Handler -> Work] /\ overlapped' \subseteq User
    <3>1. handling[h] \in Intents /\ NewId \in Nat
      BY <2>6, HandlingKinds, FS_CardinalityType DEF InsertIntent, At, NewId, TypeOK
    <3>2. handling' = [handling EXCEPT ![h] = [handling[h] EXCEPT !.at = "calling", !.id = NewId]]
      BY <2>6 DEF InsertIntent
    <3> QED BY <3>1, <3>2, <2>5, <2>6 DEF InsertIntent
  <2>7. ASSUME CheckoutCreated(h)
        PROVE  handling' \in [Handler -> Work] /\ overlapped' \subseteq User
    <3>1. handling[h] \in Intents
      BY <2>7, HandlingKinds DEF CheckoutCreated, At
    <3>2. [handling[h] EXCEPT !.at = "called"] \in Work
      BY <3>1 DEF Intents
    <3>3. handling' = [handling EXCEPT ![h] = [handling[h] EXCEPT !.at = "called"]]
      BY <2>7 DEF CheckoutCreated
    <3> HIDE DEF Work
    <3> QED BY <1>0, <2>7, <3>2, <3>3 DEF CheckoutCreated
  <2>8. CheckoutFailed(h) \/ RecordCheckout(h) \/ InsertManual(h) \/ CommitRedeem(h) \/ Crash(h)
        => handling' = [handling EXCEPT ![h] = Idle] /\ UNCHANGED overlapped
    BY DEF CheckoutFailed, RecordCheckout, InsertManual, CommitRedeem, Crash, Done
  <2> QED BY <1>1, <2>2, <2>3, <2>4, <2>6, <2>7, <2>8 DEF RequestStep
<1>2. ProviderStep \/ ConsoleStep => UNCHANGED <<handling, overlapped>>
  BY DEF ProviderStep, ConsoleStep, ChapaEnds, HandleWebhook, PollApply, PollFetch,
         RejectManual, ApproveManual, Ingest, ResolveEvidence, ConfigureDestination
<1> QED BY <1>0, <1>1, <1>2 DEF Next

\* What a redemption, a message and a review may do to the evidence of one
\* reference: never anything to one that is redeemed.
LEMMA EvidenceStep ==
    ASSUME TypeOK, MessagesHeld, Next
    PROVE  \/ UNCHANGED evidence
           \/ \E r \in Ref, e \in Evidence :
                /\ evidence[r].status # "redeemed"
                /\ evidence' = [evidence EXCEPT ![r] = e]
                /\ e.status # "none"
                /\ \/ e.status # "redeemed" /\ e.id = 0 /\ ~Locked(r)
                   \/ \E h \in Handler : /\ CommitRedeem(h) /\ r = handling[h].ref
                                         /\ e = [evidence[r] EXCEPT !.status = "redeemed",
                                                    !.owner = handling[h].user, !.id = NewId]
<1> DEFINE Filed(r, e) ==
            /\ evidence[r].status # "redeemed"
            /\ evidence' = [evidence EXCEPT ![r] = e]
            /\ e.status # "none"
            /\ \/ e.status # "redeemed" /\ e.id = 0 /\ ~Locked(r)
               \/ \E h \in Handler : /\ CommitRedeem(h) /\ r = handling[h].ref
                                     /\ e = [evidence[r] EXCEPT !.status = "redeemed",
                                                !.owner = handling[h].user, !.id = NewId]
           Goal == UNCHANGED evidence \/ \E r \in Ref, e \in Evidence : Filed(r, e)
<1>0. evidence \in [Ref -> Evidence]
  BY DEF TypeOK
<1>1. ASSUME NEW h \in Handler, CommitRedeem(h) PROVE Goal
  <2> DEFINE r == handling[h].ref
             e == [evidence[r] EXCEPT !.status = "redeemed", !.owner = handling[h].user, !.id = NewId]
  <2>1. r \in Ref /\ handling[h].user \in User
    BY <1>1, HandlingKinds DEF CommitRedeem, At, Redemptions
  <2>2. NewId \in Nat
    BY FS_CardinalityType DEF NewId, TypeOK
  <2>3. evidence[r].status = "available"
    BY <1>1 DEF CommitRedeem, MessagesHeld
  <2>4. evidence[r] \in Evidence
    BY <1>0, <2>1
  <2>5. e \in Evidence /\ e.status = "redeemed"
    <3>1. ASSUME NEW v \in Evidence, v.status = "available", NEW u \in User, NEW n \in Nat
          PROVE  LET f == [v EXCEPT !.status = "redeemed", !.owner = u, !.id = n]
                 IN  f \in Evidence /\ f.status = "redeemed"
      <4> DEFINE On == [status : {"available", "rejected", "disputed", "blocked", "redeemed"},
                        body : Nat, amount : Nat, owner : User \union {NoUser}, id : Nat]
                 f == [v EXCEPT !.status = "redeemed", !.owner = u, !.id = n]
      <4>1. v \in On
        BY <3>1 DEF Evidence
      <4>2. f \in On
        BY <4>1
      <4>3. f.status = "redeemed"
        BY <4>1
      <4>4. f \in Evidence
        BY <4>2 DEF Evidence
      <4> QED BY <4>3, <4>4
    <3> HIDE DEF r
    <3> QED BY <2>1, <2>2, <2>3, <2>4, <3>1
  <2>6. evidence' = [evidence EXCEPT ![r] = e]
    BY <1>1 DEF CommitRedeem
  <2>7. Filed(r, e)
    BY <1>1, <2>3, <2>5, <2>6
  <2> QED BY <2>1, <2>5, <2>7
<1>2. ASSUME NEW m \in Message, Ingest(m) PROVE Goal
  <2>1. m.ref \in Ref /\ m.body \in Nat /\ m.amount \in Nat
    BY Constants
  <2> DEFINE r == m.ref
             e == [status |-> IF recipient THEN "available" ELSE "rejected",
                   body |-> m.body, amount |-> m.amount, owner |-> NoUser, id |-> 0]
             d == [evidence[r] EXCEPT !.status = "disputed"]
  <2>2. CASE evidence[r].status = "none" /\ evidence' = [evidence EXCEPT ![r] = e]
    <3>1. e \in Evidence /\ e.status \notin {"none", "redeemed"} /\ e.id = 0
      BY <2>1 DEF Evidence
    <3>2. ~Locked(r)
      BY <1>2 DEF Ingest
    <3> QED BY <2>1, <2>2, <3>1, <3>2
  <2>3. CASE /\ evidence[r].status \notin {"none", "redeemed"}
             /\ evidence' = [evidence EXCEPT ![r].status = "disputed"]
    <3>1. evidence[r] \in Evidence /\ evidence[r].id = 0
      BY <1>0, <2>1, <2>3 DEF MessagesHeld
    <3>2. d \in Evidence /\ d.status = "disputed" /\ d.id = 0
      <4> HIDE DEF r
      <4> QED BY <2>3, <3>1 DEF Evidence
    <3>3. evidence' = [evidence EXCEPT ![r] = d]
      BY <2>3
    <3>4. ~Locked(r)
      BY <1>2 DEF Ingest
    <3> QED BY <2>1, <2>3, <3>2, <3>3, <3>4
  <2> QED BY <1>2, <2>2, <2>3 DEF Ingest
<1>3. ASSUME NEW r \in Ref, NEW to \in {"available", "blocked", "disputed"}, ResolveEvidence(r, to)
      PROVE  Goal
  <2> DEFINE d == [evidence[r] EXCEPT !.status = to]
  <2>1. evidence[r].status \notin {"none", "redeemed"}
    BY <1>3 DEF ResolveEvidence, EvidenceTransitions
  <2>2. evidence[r] \in Evidence /\ evidence[r].id = 0
    BY <1>0, <2>1 DEF MessagesHeld
  <2>3. d \in Evidence /\ d.status = to /\ d.id = 0
    BY <2>1, <2>2 DEF Evidence
  <2>4. evidence' = [evidence EXCEPT ![r] = d]
    BY <1>3 DEF ResolveEvidence
  <2>5. ~Locked(r)
    BY <1>3 DEF ResolveEvidence
  <2> QED BY <2>1, <2>3, <2>4, <2>5
<1>4. ASSUME NEW h \in Handler, RequestStep(h) PROVE Goal
  <2>1. \/ CommitRedeem(h) \/ UNCHANGED evidence
    BY <1>4 DEF RequestStep, CreateIntent, ManualRequest, RedeemEvidence, Begin, InsertIntent,
       CheckoutCreated, CheckoutFailed, RecordCheckout, InsertManual, Crash
  <2> QED BY <2>1, <1>1
<1>5. ProviderStep => UNCHANGED evidence
  BY DEF ProviderStep, ChapaEnds, HandleWebhook, PollApply, PollFetch
<1>6. ASSUME ConsoleStep PROVE Goal
  <2>1. ASSUME NEW i, NEW a, NEW on, RejectManual(i) \/ ApproveManual(i, a) \/ ConfigureDestination(on)
        PROVE  Goal
    BY <2>1 DEF RejectManual, ApproveManual, ConfigureDestination
  <2> QED BY <1>2, <1>3, <1>6, <2>1 DEF ConsoleStep
<1> QED BY <1>4, <1>5, <1>6 DEF Next

\* What Chapa holds, and what the poll has in hand, keep their types.
LEMMA ProviderTyped ==
    ASSUME TypeOK, CheckoutsHeld, Next
    PROVE  /\ chapa' \in [1 .. MaxPayments -> Report]
           /\ poll'.got \in Id' \union {0} /\ poll' \in [got : Nat, report : Report]
           /\ recipient' \in BOOLEAN
<1>0. /\ chapa \in [1 .. MaxPayments -> Report] /\ poll.got \in Id \union {0}
      /\ poll \in [got : Nat, report : Report] /\ recipient \in BOOLEAN
      /\ Id \subseteq Id' /\ Id \subseteq 1 .. MaxPayments
  BY RowsStay, FS_CardinalityType, Constants DEF TypeOK
<1>1. NoReport \in Report
  BY DEF NoReport, Report
<1>2. chapa' \in [1 .. MaxPayments -> Report]
  <2>1. ASSUME NEW h \in Handler, CheckoutCreated(h) PROVE chapa' \in [1 .. MaxPayments -> Report]
    <3>1. handling[h].id \in 1 .. MaxPayments
      BY <1>0, <2>1 DEF CheckoutCreated, CheckoutsHeld, Calling
    <3> DEFINE i == handling[h].id
    <3>2. chapa' = [chapa EXCEPT ![i] = [chapa[i] EXCEPT !.status = "pending"]]
      BY <2>1 DEF CheckoutCreated
    <3>3. [chapa[i] EXCEPT !.status = "pending"] \in Report
      BY <1>0, <3>1 DEF Report
    <3> HIDE DEF i
    <3> QED BY <1>0, <3>2, <3>3
  <2>2. ASSUME NEW i \in 1 .. MaxPayments, NEW s \in {"succeeded"} \union Failure, NEW a \in Nat,
               ChapaEnds(i, s, a)
        PROVE  chapa' \in [1 .. MaxPayments -> Report]
    <3>1. [status |-> s, amount |-> a] \in Report
      BY DEF Report
    <3> QED BY <1>0, <2>2, <3>1 DEF ChapaEnds
  <2>3. ASSUME NEW h \in Handler, RequestStep(h) PROVE CheckoutCreated(h) \/ UNCHANGED chapa
    BY <2>3 DEF RequestStep, CreateIntent, ManualRequest, RedeemEvidence, Begin, InsertIntent,
       CheckoutFailed, RecordCheckout, InsertManual, CommitRedeem, Crash
  <2>4. ASSUME ProviderStep PROVE chapa' \in [1 .. MaxPayments -> Report]
    <3>1. ASSUME NEW i, NEW report, HandleWebhook(i, report) \/ PollApply \/ PollFetch(i)
          PROVE  UNCHANGED chapa
      BY <3>1 DEF HandleWebhook, PollApply, PollFetch
    <3>2. ASSUME NEW i \in 1 .. MaxPayments, NEW a \in Paid, ChapaEnds(i, "succeeded", a)
          PROVE  chapa' \in [1 .. MaxPayments -> Report]
      <4>1. a \in Nat
        BY Constants
      <4> QED BY <3>2, <4>1, <2>2
    <3>3. ASSUME NEW i \in 1 .. MaxPayments, NEW s \in Failure, ChapaEnds(i, s, 0)
          PROVE  chapa' \in [1 .. MaxPayments -> Report]
      BY <3>3, <2>2
    <3> QED BY <1>0, <2>4, <3>1, <3>2, <3>3 DEF ProviderStep
  <2>5. ConsoleStep => UNCHANGED chapa
    BY DEF ConsoleStep, RejectManual, ApproveManual, Ingest, ResolveEvidence, ConfigureDestination
  <2> QED BY <1>0, <2>1, <2>3, <2>4, <2>5 DEF Next
<1>3. poll'.got \in Id' \union {0} /\ poll' \in [got : Nat, report : Report]
  <2>1. ASSUME NEW h \in Handler, RequestStep(h) PROVE UNCHANGED poll
    BY <2>1 DEF RequestStep, CreateIntent, ManualRequest, RedeemEvidence, Begin, InsertIntent,
       CheckoutCreated, CheckoutFailed, RecordCheckout, InsertManual, CommitRedeem, Crash
  <2>2. ConsoleStep => UNCHANGED poll
    BY DEF ConsoleStep, RejectManual, ApproveManual, Ingest, ResolveEvidence, ConfigureDestination
  <2>3. ASSUME ProviderStep
        PROVE  \/ UNCHANGED poll \/ poll' = [got |-> 0, report |-> NoReport]
               \/ \E i \in Id : poll' = [got |-> i, report |-> chapa[i]]
    BY <2>3 DEF ProviderStep, ChapaEnds, HandleWebhook, PollApply, PollFetch
  <2>4. \A i \in Id : i \in Nat /\ chapa[i] \in Report
    BY <1>0
  <2> QED BY <1>0, <1>1, <2>1, <2>2, <2>3, <2>4 DEF Next
<1>4. recipient' \in BOOLEAN
  <2>1. ASSUME NEW h \in Handler, RequestStep(h) PROVE UNCHANGED recipient
    BY <2>1 DEF RequestStep, CreateIntent, ManualRequest, RedeemEvidence, Begin, InsertIntent,
       CheckoutCreated, CheckoutFailed, RecordCheckout, InsertManual, CommitRedeem, Crash
  <2>2. ProviderStep => UNCHANGED recipient
    BY DEF ProviderStep, ChapaEnds, HandleWebhook, PollApply, PollFetch
  <2>3. ConsoleStep => UNCHANGED recipient \/ recipient' \in BOOLEAN
    BY DEF ConsoleStep, RejectManual, ApproveManual, Ingest, ResolveEvidence, ConfigureDestination
  <2> QED BY <1>0, <2>1, <2>2, <2>3 DEF Next
<1> QED BY <1>2, <1>3, <1>4

\* Every step keeps the types.
LEMMA TypeStep ==
    ASSUME TypeOK, CheckoutsHeld, MessagesHeld, Next
    PROVE  TypeOK'
<1>1. cash' \in [User -> Int] /\ IsFiniteSet(bonuses')
  <2>1. ASSUME NEW i, NEW row \in PaymentRow, Credited(i, payments, row)
        PROVE  cash' \in [User -> Int] /\ IsFiniteSet(bonuses')
    <3>1. row.amount \in Nat
      BY DEF PaymentRow
    <3>2. cash' \in [User -> Int]
      <4>1. cash \in [User -> Int] /\ row.user \in User
        BY DEF TypeOK, PaymentRow
      <4>2. cash' = cash \/ cash' = [cash EXCEPT ![row.user] = cash[row.user] + row.amount]
        BY <2>1 DEF Credited
      <4> QED BY <3>1, <4>1, <4>2
    <3>3. IsFiniteSet(bonuses')
      BY <2>1, GrantedFinite DEF Credited, TypeOK
    <3> QED BY <3>2, <3>3
  <2> QED BY <2>1, CashStep DEF Credit, TypeOK
<1>2. evidence' \in [Ref -> Evidence]
  BY EvidenceStep DEF TypeOK
<1> QED BY <1>1, <1>2, RowsStay, HandlingTyped, ProviderTyped DEF TypeOK

-----------------------------------------------------------------------------
(***************************************************************************)
(* What a step may make of each payment.                                   *)
(***************************************************************************)

\* The ways a row that is there changes.
Failed(j) == \E h \in Handler : /\ CheckoutFailed(h) /\ handling[h].id = j
                               /\ payments'[j] = [payments[j] EXCEPT !.status = "failed"]
Recorded(j) == \E h \in Handler :
    /\ RecordCheckout(h) /\ handling[h].id = j
    /\ payments'[j] = [payments[j] EXCEPT !.status = "processing", !.url = TRUE]
Reported(j) ==
    /\ UNCHANGED chapa /\ payments[j].status # "succeeded"
    /\ \/ /\ chapa[j].status \in Failure
          /\ payments'[j] = [payments[j] EXCEPT !.status = chapa[j].status]
       \/ /\ chapa[j].status = "succeeded"
          /\ payments'[j] = [payments[j] EXCEPT !.status = "review"]
       \/ /\ chapa[j].status = "succeeded" /\ chapa[j].amount = payments[j].amount
          /\ payments'[j] = [payments[j] EXCEPT !.status = "succeeded", !.txn = TRUE]
Decided(j) ==
    /\ payments[j].rail = "manual" /\ payments[j].status = "review" /\ UNCHANGED chapa
    /\ \/ payments'[j] = [payments[j] EXCEPT !.status = "rejected"]
       \/ \E a \in Admin :
            \/ payments'[j] = [payments[j] EXCEPT !.first = a]
            \/ /\ payments[j].amount >= TwoPerson => payments[j].first \notin {NoAdmin, a}
               /\ payments'[j] = [payments[j] EXCEPT !.by = a, !.status = "succeeded", !.txn = TRUE]

\* An edit is all that happens to the table.
LEMMA EditOne ==
    ASSUME TypeOK, NEW i, NEW row, Edit(i, row), NEW j \in Id
    PROVE  payments'[j] = payments[j] \/ (j = i /\ payments'[j] = row)
  BY EditFacts

\* Every change of a row that is there is one of them.
LEMMA RowFate ==
    ASSUME TypeOK, CheckoutsHeld, ProviderAgrees, Next, NEW j \in Id
    PROVE  payments'[j] = payments[j] \/ Failed(j) \/ Recorded(j) \/ Reported(j) \/ Decided(j)
<1> DEFINE Goal == payments'[j] = payments[j] \/ Failed(j) \/ Recorded(j) \/ Reported(j) \/ Decided(j)
<1>1. ASSUME NEW h \in Handler, RequestStep(h) PROVE Goal
  <2>1. InsertIntent(h) \/ InsertManual(h) \/ CommitRedeem(h) => payments'[j] = payments[j]
    BY Inserted, AddFacts
  <2>2. CheckoutFailed(h) => payments'[j] = payments[j] \/ Failed(j)
    BY Answered, EditOne DEF Failed
  <2>3. ASSUME RecordCheckout(h) PROVE payments'[j] = payments[j] \/ Recorded(j)
    <3>1. Edit(handling[h].id,
               [payments[handling[h].id] EXCEPT !.status = "processing", !.url = TRUE])
      BY <2>3, Answered
    <3>2. \/ payments'[j] = payments[j]
          \/ /\ handling[h].id = j
             /\ payments'[j] = [payments[j] EXCEPT !.status = "processing", !.url = TRUE]
      BY <3>1, EditOne
    <3> QED BY <2>3, <3>2 DEF Recorded
  <2>4. (\E u \in User, a \in Amount : CreateIntent(h, u, a) \/ ManualRequest(h, u, a))
        \/ (\E u \in User, r \in Ref : RedeemEvidence(h, u, r))
        \/ CheckoutCreated(h) \/ Crash(h) => UNCHANGED payments
    BY DEF CreateIntent, ManualRequest, RedeemEvidence, Begin, CheckoutCreated, Crash, rows
  <2> QED BY <1>1, <2>1, <2>2, <2>3, <2>4 DEF RequestStep
<1>2. ASSUME NEW i \in Id, NEW event, NEW report, Apply(i, event, report), UNCHANGED chapa,
             report.status \in {"succeeded"} \union Failure => report = chapa[i]
      PROVE  Goal
  <2>1. CASE UNCHANGED payments
    BY <2>1
  <2>2. CASE /\ payments[i].status # "succeeded"
             /\ \E s \in Failure : /\ report.status = s
                                   /\ Edit(i, [payments[i] EXCEPT !.status = s])
    BY <1>2, <2>2, EditOne DEF Reported
  <2>3. CASE /\ payments[i].status # "succeeded" /\ report.status = "succeeded"
             /\ Edit(i, [payments[i] EXCEPT !.status = "review"])
    BY <1>2, <2>3, EditOne DEF Reported
  <2>4. CASE /\ payments[i].status # "succeeded" /\ report.status = "succeeded"
             /\ report.amount = payments[i].amount
             /\ Edit(i, [payments[i] EXCEPT !.status = "succeeded", !.txn = TRUE])
    <3> DEFINE row == [payments[i] EXCEPT !.status = "succeeded", !.txn = TRUE]
    <3>1. payments'[j] = payments[j] \/ (j = i /\ payments'[j] = row)
      <4>1. Edit(i, row)
        BY <2>4
      <4> HIDE DEF row
      <4> QED BY <4>1, EditOne
    <3>2. CASE j = i /\ payments'[j] = row
      <4>1. payments'[j] = [payments[j] EXCEPT !.status = "succeeded", !.txn = TRUE]
        BY <3>2
      <4> QED BY <1>2, <2>4, <3>2, <4>1 DEF Reported
    <3> QED BY <3>1, <3>2
  <2> QED BY <1>2, <2>1, <2>2, <2>3, <2>4, Applied
<1>3. ASSUME ProviderStep PROVE Goal
  <2>1. ASSUME NEW i \in 1 .. MaxPayments, NEW report \in Reports(i), HandleWebhook(i, report)
        PROVE  Goal
    <3>1. report.status \in {"succeeded"} \union Failure => report = chapa[i]
      BY Constants DEF Reports, NoReport
    <3> QED BY <2>1, <3>1, <1>2 DEF HandleWebhook
  <2>2. ASSUME PollApply PROVE Goal
    <3>1. poll.got \in Id /\ poll.got # 0
      BY <2>2 DEF PollApply, TypeOK
    <3>2. poll.report.status \in {"succeeded"} \union Failure => poll.report = chapa[poll.got]
      BY <3>1 DEF ProviderAgrees
    <3> QED BY <2>2, <3>1, <3>2, <1>2 DEF PollApply
  <2>3. ASSUME NEW i, NEW s, NEW a, ChapaEnds(i, s, a) \/ PollFetch(i) PROVE Goal
    BY <2>3 DEF ChapaEnds, PollFetch, rows
  <2> QED BY <1>3, <2>1, <2>2, <2>3 DEF ProviderStep
<1>4. ASSUME ConsoleStep PROVE Goal
  <2>1. ASSUME NEW i, RejectManual(i) PROVE Goal
    <3>1. /\ i \in Id /\ payments[i].rail = "manual" /\ payments[i].status = "review"
          /\ Edit(i, [payments[i] EXCEPT !.status = "rejected"]) /\ UNCHANGED chapa
      BY <2>1, StatusEdits DEF RejectManual, Awaiting
    <3>2. payments'[j] = payments[j] \/ (j = i /\ payments'[j] = [payments[j] EXCEPT !.status = "rejected"])
      BY <3>1, EditOne
    <3> QED BY <3>1, <3>2 DEF Decided
  <2>2. ASSUME NEW i, NEW a \in Admin, ApproveManual(i, a) PROVE Goal
    <3>1. UNCHANGED chapa
      BY <2>2 DEF ApproveManual
    <3>2. i \in Id /\ payments[i].rail = "manual" /\ payments[i].status = "review"
      BY <2>2, Approved
    <3>3. CASE Edit(i, [payments[i] EXCEPT !.first = a])
      <4>1. payments'[j] = payments[j] \/ (j = i /\ payments'[j] = [payments[j] EXCEPT !.first = a])
        BY <3>3, EditOne
      <4> QED BY <3>1, <3>2, <4>1 DEF Decided
    <3>4. CASE /\ payments[i].amount >= TwoPerson => payments[i].first \notin {NoAdmin, a}
               /\ Edit(i, [payments[i] EXCEPT !.by = a, !.status = "succeeded", !.txn = TRUE])
      <4> DEFINE row == [payments[i] EXCEPT !.by = a, !.status = "succeeded", !.txn = TRUE]
      <4>1. payments'[j] = payments[j] \/ (j = i /\ payments'[j] = row)
        <5>1. Edit(i, row)
          BY <3>4
        <5> HIDE DEF row
        <5> QED BY <5>1, EditOne
      <4>2. CASE j = i /\ payments'[j] = row
        <5>1. payments'[j] = [payments[j] EXCEPT !.by = a, !.status = "succeeded", !.txn = TRUE]
          BY <4>2
        <5> QED BY <3>1, <3>2, <3>4, <4>2, <5>1 DEF Decided
      <4> QED BY <4>1, <4>2
    <3> QED BY <2>2, <3>3, <3>4, Approved
  <2>3. ASSUME NEW m, NEW r, NEW to, NEW on, Ingest(m) \/ ResolveEvidence(r, to) \/ ConfigureDestination(on)
        PROVE  Goal
    BY <2>3 DEF Ingest, ResolveEvidence, ConfigureDestination, rows
  <2> QED BY <1>4, <2>1, <2>2, <2>3 DEF ConsoleStep
<1> QED BY <1>1, <1>3, <1>4 DEF Next

\* A row that is new is one of the three rails' INSERT.
LEMMA NewFate ==
    ASSUME TypeOK, CheckoutsHeld, Next, NEW j \in Id' \ Id
    PROVE  /\ j = NewId
           /\ \E h \in Handler :
                \/ /\ InsertIntent(h)
                   /\ payments'[j] = Row(handling[h].user, "chapa", handling[h].amount, "pending")
                \/ /\ InsertManual(h)
                   /\ payments'[j] = Row(handling[h].user, "manual", handling[h].amount, "review")
                \/ /\ CommitRedeem(h)
                   /\ payments'[j] =
                         [Row(handling[h].user, "telebirr_sms", handling[h].amount, "succeeded")
                              EXCEPT !.status = "succeeded", !.txn = TRUE]
<1>1. ASSUME UNCHANGED payments PROVE FALSE
  BY <1>1 DEF Id
<1>2. ASSUME NEW i, NEW row, Edit(i, row) PROVE FALSE
  BY <1>2, EditFacts
<1>3. ASSUME NEW row, Add(row) PROVE j = NewId /\ payments'[j] = row
  BY <1>3, AddFacts
<1>4. PICK h \in Handler : RequestStep(h)
  <2>1. ProviderStep => UNCHANGED payments \/ (\E i, row : Edit(i, row))
    <3>1. ASSUME NEW i \in 1 .. MaxPayments, NEW report, HandleWebhook(i, report)
          PROVE  UNCHANGED payments \/ (\E k, row : Edit(k, row))
      BY <3>1, Applied DEF HandleWebhook
    <3>2. PollApply => UNCHANGED payments \/ (\E i, row : Edit(i, row))
      BY Applied DEF PollApply, TypeOK
    <3>3. ASSUME NEW i, NEW s, NEW a, ChapaEnds(i, s, a) \/ PollFetch(i) PROVE UNCHANGED payments
      BY <3>3 DEF ChapaEnds, PollFetch, rows
    <3> QED BY <3>1, <3>2, <3>3 DEF ProviderStep
  <2>2. ConsoleStep => UNCHANGED payments \/ (\E i, row : Edit(i, row))
    <3>1. ASSUME NEW i, RejectManual(i) PROVE \E k, row : Edit(k, row)
      BY <3>1, StatusEdits DEF RejectManual, Awaiting
    <3>2. ASSUME NEW i, NEW a \in Admin, ApproveManual(i, a) PROVE \E k, row : Edit(k, row)
      BY <3>2, Approved
    <3>3. ASSUME NEW m, NEW r, NEW to, NEW on,
                 Ingest(m) \/ ResolveEvidence(r, to) \/ ConfigureDestination(on)
          PROVE  UNCHANGED payments
      BY <3>3 DEF Ingest, ResolveEvidence, ConfigureDestination, rows
    <3> QED BY <3>1, <3>2, <3>3 DEF ConsoleStep
  <2> QED BY <1>1, <1>2, <2>1, <2>2 DEF Next
<1>5. CheckoutFailed(h) \/ RecordCheckout(h) => FALSE
  BY <1>2, Answered
<1>6. (\E u \in User, a \in Amount : CreateIntent(h, u, a) \/ ManualRequest(h, u, a))
      \/ (\E u \in User, r \in Ref : RedeemEvidence(h, u, r))
      \/ CheckoutCreated(h) \/ Crash(h) => FALSE
  BY <1>1 DEF CreateIntent, ManualRequest, RedeemEvidence, Begin, CheckoutCreated, Crash, rows
<1>7. InsertIntent(h) \/ InsertManual(h) \/ CommitRedeem(h)
  BY <1>4, <1>5, <1>6 DEF RequestStep
<1>8. j = NewId
  BY <1>3, <1>7, Inserted
<1>9. ASSUME InsertIntent(h)
      PROVE  payments'[j] = Row(handling[h].user, "chapa", handling[h].amount, "pending")
  BY <1>3, <1>9, Inserted
<1>10. ASSUME InsertManual(h)
       PROVE  payments'[j] = Row(handling[h].user, "manual", handling[h].amount, "review")
  BY <1>3, <1>10, Inserted
<1>11. ASSUME CommitRedeem(h)
       PROVE  payments'[j] = [Row(handling[h].user, "telebirr_sms", handling[h].amount, "succeeded")
                                  EXCEPT !.status = "succeeded", !.txn = TRUE]
  BY <1>3, <1>11, Inserted
<1> QED BY <1>7, <1>8, <1>9, <1>10, <1>11

\* A checkout that is answered was in the hands of one request, which ends.
LEMMA Answering ==
    ASSUME TypeOK, CheckoutsHeld, NEW j, Failed(j) \/ Recorded(j)
    PROVE  /\ j \in Id /\ payments[j].rail = "chapa" /\ ~payments[j].url
           /\ payments[j].status # "succeeded" /\ UNCHANGED <<chapa, poll>>
           /\ \E h \in Handler : /\ CheckoutFailed(h) \/ RecordCheckout(h)
                                /\ Calling(h) /\ handling[h].id = j /\ handling'[h] = Idle
<1>1. PICK h \in Handler : (CheckoutFailed(h) \/ RecordCheckout(h)) /\ handling[h].id = j
  BY DEF Failed, Recorded
<1>2. /\ Calling(h) /\ UNCHANGED <<chapa, poll>>
      /\ handling' = [handling EXCEPT ![h] = Idle]
  BY <1>1 DEF CheckoutFailed, RecordCheckout, Calling, Done
<1>3. handling'[h] = Idle
  BY <1>2 DEF TypeOK
<1>4. /\ j \in Id /\ payments[j].rail = "chapa" /\ ~payments[j].url
      /\ payments[j].status # "succeeded"
  BY <1>1, <1>2 DEF CheckoutsHeld
<1> QED BY <1>1, <1>2, <1>3, <1>4

\* A credited row is never touched again.
LEMMA SucceededStays ==
    ASSUME TypeOK, CheckoutsHeld, ProviderAgrees, Next, NEW j \in Id, payments[j].status = "succeeded"
    PROVE  payments'[j] = payments[j]
<1>1. Failed(j) \/ Recorded(j) => FALSE
  BY Answering
<1>2. Reported(j) \/ Decided(j) => FALSE
  BY DEF Reported, Decided
<1> QED BY <1>1, <1>2, RowFate

\* The row of a credit says that the journal has its key, and no other row does.
LEMMA PostedStep ==
    ASSUME TypeOK, CheckoutsHeld, ProviderAgrees, PostedIsSucceeded, Next
    PROVE  PostedIsSucceeded'
<1>1. ASSUME NEW j \in Id PROVE payments'[j].txn <=> payments'[j].status = "succeeded"
  <2>0. payments[j] \in PaymentRow /\ (payments[j].txn <=> payments[j].status = "succeeded")
    BY DEF TypeOK, PostedIsSucceeded
  <2>1. CASE Failed(j)
    BY <2>0, <2>1, Answering DEF Failed, PaymentRow
  <2>2. CASE Recorded(j)
    <3>1. payments'[j] = [payments[j] EXCEPT !.status = "processing", !.url = TRUE]
      BY <2>2 DEF Recorded
    <3>2. ~payments[j].txn
      BY <2>0, <2>2, Answering
    <3> QED BY <2>0, <3>1, <3>2 DEF PaymentRow
  <2>3. CASE Reported(j)
    BY <2>0, <2>3, Constants DEF Reported, PaymentRow
  <2>4. CASE Decided(j)
    BY <2>0, <2>4 DEF Decided, PaymentRow
  <2> QED BY <2>0, <2>1, <2>2, <2>3, <2>4, RowFate
<1>2. ASSUME NEW j \in Id' \ Id PROVE payments'[j].txn <=> payments'[j].status = "succeeded"
  <2>1. \E u, a : \/ payments'[j] = Row(u, "chapa", a, "pending")
                  \/ payments'[j] = Row(u, "manual", a, "review")
                  \/ payments'[j] = [Row(u, "telebirr_sms", a, "succeeded")
                                         EXCEPT !.status = "succeeded", !.txn = TRUE]
    BY <1>2, NewFate, Zenon
  <2>2. ASSUME NEW u, NEW a, payments'[j] = Row(u, "chapa", a, "pending")
        PROVE  payments'[j].txn = FALSE /\ payments'[j].status = "pending"
    BY <2>2 DEF Row
  <2>3. ASSUME NEW u, NEW a, payments'[j] = Row(u, "manual", a, "review")
        PROVE  payments'[j].txn = FALSE /\ payments'[j].status = "review"
    BY <2>3 DEF Row
  <2>4. ASSUME NEW u, NEW a,
               payments'[j] = [Row(u, "telebirr_sms", a, "succeeded")
                                  EXCEPT !.status = "succeeded", !.txn = TRUE]
        PROVE  payments'[j].txn = TRUE /\ payments'[j].status = "succeeded"
    BY <2>4 DEF Row
  <2> QED BY <2>1, <2>2, <2>3, <2>4
<1> QED BY <1>1, <1>2, RowsStay DEF PostedIsSucceeded

\* What becomes of a checkout at Chapa.
LEMMA ChapaFate ==
    ASSUME TypeOK, CheckoutsHeld, Next, NEW i \in 1 .. MaxPayments
    PROVE  \/ chapa'[i] = chapa[i]
           \/ /\ UNCHANGED <<payments, poll>>
              /\ \E h \in Handler : CheckoutCreated(h) /\ handling[h].id = i
              /\ chapa'[i].status = "pending"
           \/ /\ UNCHANGED <<payments, poll, handling>>
              /\ i \in Id /\ chapa[i].status = "pending"
              /\ chapa'[i].status = "succeeded" => payments[i].url
              /\ chapa'[i].status \in {"succeeded"} \union Failure
<1> DEFINE Goal == \/ chapa'[i] = chapa[i]
                   \/ /\ UNCHANGED <<payments, poll>>
                      /\ \E h \in Handler : CheckoutCreated(h) /\ handling[h].id = i
                      /\ chapa'[i].status = "pending"
                   \/ /\ UNCHANGED <<payments, poll, handling>>
                      /\ i \in Id /\ chapa[i].status = "pending"
                      /\ chapa'[i].status = "succeeded" => payments[i].url
                      /\ chapa'[i].status \in {"succeeded"} \union Failure
<1>0. chapa \in [1 .. MaxPayments -> Report]
  BY DEF TypeOK
<1>1. ASSUME NEW h \in Handler, CheckoutCreated(h) PROVE Goal
  <2>1. chapa' = [chapa EXCEPT ![handling[h].id] = [chapa[handling[h].id] EXCEPT !.status = "pending"]]
    BY <1>1 DEF CheckoutCreated
  <2>2. CASE handling[h].id = i
    <3>1. chapa[i] \in Report
      BY <1>0
    <3>2. [chapa[i] EXCEPT !.status = "pending"].status = "pending"
      BY <3>1 DEF Report
    <3>3. chapa'[i].status = "pending"
      BY <1>0, <2>1, <2>2, <3>2
    <3> QED BY <1>1, <2>2, <3>3 DEF CheckoutCreated, rows
  <2>3. CASE handling[h].id # i
    BY <1>0, <2>1, <2>3
  <2> QED BY <2>2, <2>3
<1>2. ASSUME NEW k \in 1 .. MaxPayments, NEW s \in {"succeeded"} \union Failure, NEW a, ChapaEnds(k, s, a)
      PROVE  Goal
  BY <1>0, <1>2 DEF ChapaEnds, rows
<1>3. ASSUME NEW h \in Handler, RequestStep(h) PROVE CheckoutCreated(h) \/ UNCHANGED chapa
  BY <1>3 DEF RequestStep, CreateIntent, ManualRequest, RedeemEvidence, Begin, InsertIntent,
     CheckoutFailed, RecordCheckout, InsertManual, CommitRedeem, Crash
<1>4. ASSUME ProviderStep PROVE Goal
  <2>1. ASSUME NEW k, NEW report, HandleWebhook(k, report) \/ PollApply \/ PollFetch(k)
        PROVE  UNCHANGED chapa
    BY <2>1 DEF HandleWebhook, PollApply, PollFetch
  <2> QED BY <1>4, <2>1, <1>2 DEF ProviderStep
<1>5. ConsoleStep => UNCHANGED chapa
  BY DEF ConsoleStep, RejectManual, ApproveManual, Ingest, ResolveEvidence, ConfigureDestination
<1> QED BY <1>1, <1>3, <1>4, <1>5 DEF Next

\* What becomes of a request in hand.
Begun(h) ==
    \E u \in User : \E what :
        /\ Begin(h, u, what) /\ handling'[h] = what /\ what # Idle
        /\ what.user = u /\ what.at = "checked" /\ what.op \in {"intent", "manual", "redeem"}
        /\ what.op = "redeem" => /\ what.ref \in Ref /\ ~Locked(what.ref)
                                 /\ evidence[what.ref].status = "available"
                                 /\ evidence[what.ref].amount = what.amount
Moved(h) ==
    \/ handling'[h] = Idle /\ UNCHANGED overlapped
    \/ Begun(h)
    \/ /\ InsertIntent(h)
       /\ handling'[h] = [handling[h] EXCEPT !.at = "calling", !.id = NewId]
    \/ /\ CheckoutCreated(h)
       /\ handling'[h] = [handling[h] EXCEPT !.at = "called"]

\* One request moves, or none does.
LEMMA HandlingFate ==
    ASSUME TypeOK, Next
    PROVE  \/ UNCHANGED <<handling, overlapped>> /\ (ProviderStep \/ ConsoleStep)
           \/ \E h \in Handler :
                /\ RequestStep(h) /\ Moved(h)
                /\ \A g \in Handler \ {h} : handling'[g] = handling[g]
<1>0. handling \in [Handler -> {Idle} \union Intents \union ManualRequests \union Redemptions]
  BY DEF TypeOK
<1>1. ASSUME NEW h \in Handler, RequestStep(h)
      PROVE  Moved(h) /\ \A g \in Handler \ {h} : handling'[g] = handling[g]
  <2>1. ASSUME NEW what, handling' = [handling EXCEPT ![h] = what]
        PROVE  handling'[h] = what /\ \A g \in Handler \ {h} : handling'[g] = handling[g]
    BY <1>0, <2>1
  <2>2. ASSUME NEW u \in User, NEW a \in Amount, CreateIntent(h, u, a) \/ ManualRequest(h, u, a)
        PROVE  Moved(h) /\ \A g \in Handler \ {h} : handling'[g] = handling[g]
    <3>0. a \in Nat
      BY Constants
    <3>1. ASSUME NEW what \in Intents \union ManualRequests, Begin(h, u, what), what.user = u,
                 what.at = "checked"
          PROVE  Moved(h) /\ \A g \in Handler \ {h} : handling'[g] = handling[g]
      <4>1. what # Idle /\ what.op \in {"intent", "manual", "redeem"} /\ what.op # "redeem"
        BY Constants DEF Intents, ManualRequests
      <4>2. handling'[h] = what /\ \A g \in Handler \ {h} : handling'[g] = handling[g]
        BY <2>1, <3>1 DEF Begin
      <4> QED BY <3>1, <4>1, <4>2 DEF Moved, Begun
    <3>2. [op |-> "intent", at |-> "checked", user |-> u, amount |-> a, id |-> 0] \in Intents
      BY <3>0 DEF Intents
    <3>3. [op |-> "manual", at |-> "checked", user |-> u, amount |-> a] \in ManualRequests
      BY <3>0 DEF ManualRequests
    <3> QED BY <2>2, <3>1, <3>2, <3>3 DEF CreateIntent, ManualRequest
  <2>3. ASSUME NEW u \in User, NEW r \in Ref, RedeemEvidence(h, u, r)
        PROVE  Moved(h) /\ \A g \in Handler \ {h} : handling'[g] = handling[g]
    <3> DEFINE what == [op |-> "redeem", at |-> "checked", user |-> u,
                        amount |-> evidence[r].amount, ref |-> r]
    <3>1. evidence[r].status = "available" /\ evidence[r] \in Evidence /\ ~Locked(r)
          /\ Begin(h, u, what)
      BY <2>3 DEF RedeemEvidence, TypeOK
    <3>2. evidence[r].amount \in Nat
      BY <3>1 DEF Evidence
    <3>3. what \in Redemptions /\ what # Idle
      BY <3>2, Constants DEF Redemptions
    <3>4. handling'[h] = what /\ \A g \in Handler \ {h} : handling'[g] = handling[g]
      BY <2>1, <3>1 DEF Begin
    <3>5. /\ what.user = u /\ what.at = "checked" /\ what.op = "redeem" /\ what.ref = r
          /\ what.amount = evidence[r].amount
      OBVIOUS
    <3> HIDE DEF what
    <3> QED BY <3>1, <3>3, <3>4, <3>5 DEF Moved, Begun
  <2>4. ASSUME InsertIntent(h)
        PROVE  Moved(h) /\ \A g \in Handler \ {h} : handling'[g] = handling[g]
    <3>1. handling' = [handling EXCEPT ![h] = [handling[h] EXCEPT !.at = "calling", !.id = NewId]]
      BY <2>4 DEF InsertIntent
    <3> QED BY <2>1, <2>4, <3>1 DEF Moved
  <2>5. ASSUME CheckoutCreated(h)
        PROVE  Moved(h) /\ \A g \in Handler \ {h} : handling'[g] = handling[g]
    <3>1. handling' = [handling EXCEPT ![h] = [handling[h] EXCEPT !.at = "called"]]
      BY <2>5 DEF CheckoutCreated
    <3> QED BY <2>1, <2>5, <3>1 DEF Moved
  <2>6. CheckoutFailed(h) \/ RecordCheckout(h) \/ InsertManual(h) \/ CommitRedeem(h) \/ Crash(h)
        => handling' = [handling EXCEPT ![h] = Idle] /\ UNCHANGED overlapped
    BY DEF CheckoutFailed, RecordCheckout, InsertManual, CommitRedeem, Crash, Done
  <2>7. handling' = [handling EXCEPT ![h] = Idle] /\ UNCHANGED overlapped
        => Moved(h) /\ \A g \in Handler \ {h} : handling'[g] = handling[g]
    BY <2>1 DEF Moved
  <2> QED BY <1>1, <2>2, <2>3, <2>4, <2>5, <2>6, <2>7 DEF RequestStep
<1>2. ProviderStep \/ ConsoleStep => UNCHANGED <<handling, overlapped>>
  BY DEF ProviderStep, ConsoleStep, ChapaEnds, HandleWebhook, PollApply, PollFetch,
         RejectManual, ApproveManual, Ingest, ResolveEvidence, ConfigureDestination
<1> QED BY <1>1, <1>2 DEF Next

\* Between its INSERT and its answer, a checkout stays in one pair of hands.
LEMMA CheckoutsStep ==
    ASSUME TypeOK, CheckoutsHeld, ProviderAgrees, Next
    PROVE  CheckoutsHeld'
<1>0. Id \subseteq 1 .. MaxPayments /\ Id \subseteq Id'
  BY RowsStay, FS_CardinalityType, Constants DEF TypeOK
\* What the row of a call that goes on looks like after the step.
<1>1. ASSUME NEW h \in Handler, Calling(h), handling'[h] # Idle
      PROVE  LET row == payments'[handling[h].id]
             IN  /\ handling[h].id \in Id' /\ row.rail = "chapa" /\ ~row.url /\ row.status # "succeeded"
                 /\ row.user = handling[h].user /\ row.amount = handling[h].amount
  <2> DEFINE j == handling[h].id
  <2>1. /\ j \in Id /\ payments[j].rail = "chapa" /\ ~payments[j].url /\ payments[j].status # "succeeded"
        /\ payments[j].user = handling[h].user /\ payments[j].amount = handling[h].amount
        /\ \A g \in Handler : Calling(g) /\ handling[g].id = j => g = h
    BY <1>1 DEF CheckoutsHeld
  <2> HIDE DEF j
  <2>2. payments[j] \in PaymentRow
    BY <2>1 DEF TypeOK
  <2>3. Failed(j) \/ Recorded(j) => FALSE
    BY <2>1, <1>1, Answering
  <2>4. Decided(j) => FALSE
    BY <2>1 DEF Decided
  <2>5. ASSUME Reported(j) PROVE ~payments'[j].url /\ payments'[j].status # "succeeded"
    <3>1. chapa[j].status # "succeeded"
      BY <2>1 DEF ProviderAgrees
    <3>2. chapa[j].status \in Failure /\ payments'[j] = [payments[j] EXCEPT !.status = chapa[j].status]
      BY <2>5, <3>1 DEF Reported
    <3> QED BY <2>1, <2>2, <3>2, Constants DEF PaymentRow
  <2>6. ~payments'[j].url /\ payments'[j].status # "succeeded"
    BY <2>1, <2>3, <2>4, <2>5, RowFate
  <2>7. /\ j \in Id' /\ payments'[j].rail = "chapa"
        /\ payments'[j].user = handling[h].user /\ payments'[j].amount = handling[h].amount
    BY <2>1, RowsStay
  <2> QED BY <2>6, <2>7 DEF j
<1>2. ASSUME NEW h \in Handler, At(h, "intent", "calling"), At(h, "intent", "calling")',
             handling'[h] = handling[h]
      PROVE  chapa'[handling[h].id].status = "none"
  <2> DEFINE j == handling[h].id
  <2>1. /\ j \in Id /\ chapa[j].status = "none"
        /\ \A g \in Handler : Calling(g) /\ handling[g].id = j => g = h
    BY <1>2 DEF CheckoutsHeld, Calling
  <2> HIDE DEF j
  <2>2. ASSUME NEW g \in Handler, CheckoutCreated(g), handling[g].id = j PROVE FALSE
    <3>1. Calling(g) /\ At(g, "intent", "calling")
      BY <2>2 DEF CheckoutCreated, Calling
    <3>2. g = h
      BY <2>1, <2>2, <3>1
    <3>3. handling' = [handling EXCEPT ![h] = [handling[h] EXCEPT !.at = "called"]]
      BY <2>2, <3>2 DEF CheckoutCreated
    <3>4. handling[h] \in Intents
      BY <1>2, HandlingKinds DEF At
    <3>5. handling'[h].at = "called"
      BY <3>3, <3>4 DEF TypeOK, Intents
    <3> QED BY <3>5, <1>2 DEF At
  <2>3. chapa'[j].status = "none"
    BY <1>0, <2>1, <2>2, ChapaFate
  <2> QED BY <2>3 DEF j
<1>3. CASE UNCHANGED handling
  <2>1. \A h \in Handler : Calling(h)' => Calling(h) /\ handling'[h] = handling[h] /\ handling'[h] # Idle
    BY <1>3 DEF Calling, At
  <2>2. \A h \in Handler : At(h, "intent", "calling")' => At(h, "intent", "calling")
    BY <1>3 DEF At
  <2>3. \A g, h \in Handler : Calling(g) /\ Calling(h) /\ handling[g].id = handling[h].id => g = h
    BY DEF CheckoutsHeld
  <2> QED BY <1>1, <1>2, <2>1, <2>2, <2>3 DEF CheckoutsHeld
<1>4. ASSUME NEW h \in Handler, RequestStep(h), Moved(h),
             \A g \in Handler \ {h} : handling'[g] = handling[g]
      PROVE  CheckoutsHeld'
  <2>1. ASSUME NEW g \in Handler \ {h}, Calling(g)'
        PROVE  Calling(g) /\ handling'[g] = handling[g] /\ handling'[g] # Idle
               /\ (At(g, "intent", "calling")' => At(g, "intent", "calling"))
    BY <1>4, <2>1 DEF Calling, At
  <2>2. \A g, f \in Handler : Calling(g) /\ Calling(f) /\ handling[g].id = handling[f].id => g = f
    BY DEF CheckoutsHeld
  <2>3. CASE InsertIntent(h) /\ handling'[h] = [handling[h] EXCEPT !.at = "calling", !.id = NewId]
    <3>1. Add(Row(handling[h].user, "chapa", handling[h].amount, "pending"))
      BY <2>3, Inserted
    <3>2. /\ NewId \in Id' /\ NewId \notin Id /\ NewId \in 1 .. MaxPayments
          /\ payments'[NewId] = Row(handling[h].user, "chapa", handling[h].amount, "pending")
      BY <3>1, AddFacts
    <3>3. /\ payments'[NewId].rail = "chapa" /\ ~payments'[NewId].url
          /\ payments'[NewId].status = "pending"
          /\ payments'[NewId].user = handling[h].user /\ payments'[NewId].amount = handling[h].amount
      BY <3>2 DEF Row
    <3>4. handling[h] \in Intents
      BY <2>3, HandlingKinds DEF InsertIntent, At
    <3>5. handling'[h].id = NewId /\ handling'[h].user = handling[h].user
          /\ handling'[h].amount = handling[h].amount
      BY <2>3, <3>4 DEF Intents
    <3>6. chapa'[NewId].status = "none"
      <4>1. chapa' = chapa
        BY <2>3 DEF InsertIntent
      <4>2. chapa[NewId].status = "none"
        BY <3>2 DEF ProviderAgrees
      <4> QED BY <4>1, <4>2
    <3>7. \A g \in Handler \ {h} : Calling(g)' => handling'[g].id \in Id
      BY <2>1 DEF CheckoutsHeld
    <3>8. ASSUME NEW g \in Handler, Calling(g)'
          PROVE  /\ handling'[g].id \in Id'
                 /\ LET row == payments'[handling'[g].id]
                    IN  /\ row.rail = "chapa" /\ ~row.url /\ row.status # "succeeded"
                        /\ row.user = handling'[g].user /\ row.amount = handling'[g].amount
                 /\ At(g, "intent", "calling")' => chapa'[handling'[g].id].status = "none"
      <4>1. CASE g = h
        BY <3>2, <3>3, <3>5, <3>6, <4>1
      <4>2. CASE g # h
        BY <3>8, <2>1, <1>1, <1>2, <4>2
      <4> QED BY <4>1, <4>2
    <3>9. \A g, f \in Handler : Calling(g)' /\ Calling(f)' /\ handling'[g].id = handling'[f].id => g = f
      BY <2>1, <2>2, <3>2, <3>5, <3>7
    <3> QED BY <3>8, <3>9 DEF CheckoutsHeld
  <2>4. CASE CheckoutCreated(h) /\ handling'[h] = [handling[h] EXCEPT !.at = "called"]
    <3>1. handling[h] \in Intents /\ Calling(h)
      BY <2>4, HandlingKinds DEF CheckoutCreated, At, Calling
    <3>2. /\ handling'[h].id = handling[h].id /\ handling'[h].user = handling[h].user
          /\ handling'[h].amount = handling[h].amount /\ handling'[h].at = "called"
      BY <2>4, <3>1 DEF Intents
    <3>3. handling'[h] # Idle
      BY <2>4, <3>1, Constants DEF Intents
    <3>4. \A g \in Handler : Calling(g)' => Calling(g) /\ handling'[g] # Idle /\ handling'[g].id = handling[g].id
              /\ handling'[g].user = handling[g].user /\ handling'[g].amount = handling[g].amount
      BY <2>1, <3>1, <3>2, <3>3
    <3>5. \A g \in Handler : At(g, "intent", "calling")' => g # h /\ Calling(g)'
      BY <3>2 DEF At, Calling
    <3>6. ASSUME NEW g \in Handler, At(g, "intent", "calling")'
          PROVE  chapa'[handling'[g].id].status = "none"
      BY <3>6, <3>5, <2>1, <1>2
    <3>7. \A g, f \in Handler : Calling(g)' /\ Calling(f)' /\ handling'[g].id = handling'[f].id => g = f
      BY <2>2, <3>4
    <3>8. ASSUME NEW g \in Handler, Calling(g)'
          PROVE  /\ handling'[g].id \in Id'
                 /\ LET row == payments'[handling'[g].id]
                    IN  /\ row.rail = "chapa" /\ ~row.url /\ row.status # "succeeded"
                        /\ row.user = handling'[g].user /\ row.amount = handling'[g].amount
      BY <3>8, <3>4, <1>1
    <3> QED BY <3>6, <3>7, <3>8 DEF CheckoutsHeld
  <2>5. CASE handling'[h] = Idle \/ Begun(h)
    <3>1. ~Calling(h)'
      BY <2>5 DEF Calling, At, Begun
    <3>2. \A g \in Handler : Calling(g)' => g # h
      BY <3>1
    <3>3. \A g \in Handler : At(g, "intent", "calling")' => Calling(g)'
      BY DEF Calling
    <3>4. ASSUME NEW g \in Handler, Calling(g)'
          PROVE  /\ handling'[g].id \in Id'
                 /\ LET row == payments'[handling'[g].id]
                    IN  /\ row.rail = "chapa" /\ ~row.url /\ row.status # "succeeded"
                        /\ row.user = handling'[g].user /\ row.amount = handling'[g].amount
                 /\ At(g, "intent", "calling")' => chapa'[handling'[g].id].status = "none"
                 /\ \A f \in Handler : Calling(f)' /\ handling'[f].id = handling'[g].id => f = g
      <4>1. /\ Calling(g) /\ handling'[g] = handling[g] /\ handling'[g] # Idle
            /\ At(g, "intent", "calling")' => At(g, "intent", "calling")
        BY <3>4, <3>2, <2>1
      <4>2. \A f \in Handler : Calling(f)' /\ handling'[f].id = handling'[g].id => f = g
        BY <4>1, <3>2, <2>1, <2>2
      <4> QED BY <4>1, <4>2, <1>1, <1>2
    <3> QED BY <3>4 DEF CheckoutsHeld
  <2> QED BY <1>4, <2>3, <2>4, <2>5 DEF Moved
<1> QED BY <1>3, <1>4, HandlingFate

\* Chapa's side and ours agree after every step.
LEMMA ProviderAgreesStep ==
    ASSUME TypeOK, CheckoutsHeld, ProviderAgrees, Next
    PROVE  ProviderAgrees'
<1>0. Id \subseteq 1 .. MaxPayments /\ Id \subseteq Id' /\ Id' \subseteq 1 .. MaxPayments
  BY RowsStay, FS_CardinalityType, Constants DEF TypeOK
<1>1. ASSUME NEW i \in 1 .. MaxPayments, chapa'[i].status # "none"
      PROVE  i \in Id /\ payments'[i].rail = "chapa"
  <2>1. i \in Id /\ payments[i].rail = "chapa"
    <3>1. chapa'[i] = chapa[i] => i \in Id /\ payments[i].rail = "chapa"
      BY <1>1 DEF ProviderAgrees
    <3>2. ASSUME NEW h \in Handler, CheckoutCreated(h), handling[h].id = i
          PROVE  i \in Id /\ payments[i].rail = "chapa"
      BY <3>2 DEF CheckoutCreated, CheckoutsHeld, Calling
    <3>3. chapa[i].status = "pending" => i \in Id /\ payments[i].rail = "chapa"
      BY DEF ProviderAgrees
    <3> QED BY <3>1, <3>2, <3>3, ChapaFate
  <2> QED BY <2>1, RowsStay
\* A row that is there.
<1>2. ASSUME NEW j \in Id
      PROVE  /\ chapa'[j].status = "succeeded" =>
                  payments'[j].url /\ payments'[j].status \in {"processing", "review", "succeeded"}
             /\ chapa'[j].status = "pending" /\ payments'[j].url => payments'[j].status = "processing"
             /\ payments'[j].url => payments'[j].rail = "chapa"
  <2>0. /\ payments[j] \in PaymentRow
        /\ chapa[j].status = "succeeded" =>
                payments[j].url /\ payments[j].status \in {"processing", "review", "succeeded"}
        /\ chapa[j].status = "pending" /\ payments[j].url => payments[j].status = "processing"
        /\ payments[j].url => payments[j].rail = "chapa"
        /\ chapa[j].status # "none" => payments[j].rail = "chapa"
        /\ payments'[j].rail = payments[j].rail
    BY <1>0, RowsStay DEF TypeOK, ProviderAgrees
  <2>1. CASE payments'[j] = payments[j]
    <3>1. CASE chapa'[j] = chapa[j]
      BY <2>0, <2>1, <3>1
    <3>2. ASSUME NEW h \in Handler, CheckoutCreated(h), handling[h].id = j PROVE ~payments[j].url
      BY <3>2 DEF CheckoutCreated, CheckoutsHeld, Calling
    <3>3. CASE /\ \E h \in Handler : CheckoutCreated(h) /\ handling[h].id = j
               /\ chapa'[j].status = "pending"
      BY <2>0, <2>1, <3>2, <3>3
    <3>4. CASE /\ chapa[j].status = "pending"
               /\ chapa'[j].status = "succeeded" => payments[j].url
               /\ chapa'[j].status \in {"succeeded"} \union Failure
      BY <2>0, <2>1, <3>4, Constants
    <3> QED BY <1>0, <3>1, <3>3, <3>4, ChapaFate
  <2>2. CASE Failed(j)
    <3>1. ~payments[j].url /\ UNCHANGED chapa
      BY <2>2, Answering
    <3>2. payments'[j] = [payments[j] EXCEPT !.status = "failed"]
      BY <2>2 DEF Failed
    <3>3. ~payments'[j].url
      BY <2>0, <3>1, <3>2 DEF PaymentRow
    <3> QED BY <2>0, <3>1, <3>3
  <2>3. CASE Recorded(j)
    <3>1. ~payments[j].url /\ UNCHANGED chapa /\ payments[j].rail = "chapa"
      BY <2>3, Answering
    <3>2. payments'[j] = [payments[j] EXCEPT !.status = "processing", !.url = TRUE]
      BY <2>3 DEF Recorded
    <3>3. payments'[j].status = "processing" /\ payments'[j].url
      BY <2>0, <3>2 DEF PaymentRow
    <3> QED BY <2>0, <3>1, <3>3
  <2>4. CASE Reported(j)
    <3>1. UNCHANGED chapa
      BY <2>4 DEF Reported
    <3>2. CASE /\ chapa[j].status \in Failure
               /\ payments'[j] = [payments[j] EXCEPT !.status = chapa[j].status]
      <4>1. chapa[j].status \notin {"none", "pending", "succeeded"}
        BY <3>2, Constants
      <4> QED BY <2>0, <3>1, <3>2, <4>1
    <3>3. CASE chapa[j].status = "succeeded" /\ payments'[j] = [payments[j] EXCEPT !.status = "review"]
      BY <2>0, <3>1, <3>3 DEF PaymentRow
    <3>4. CASE /\ chapa[j].status = "succeeded"
               /\ payments'[j] = [payments[j] EXCEPT !.status = "succeeded", !.txn = TRUE]
      BY <2>0, <3>1, <3>4 DEF PaymentRow
    <3> QED BY <2>4, <3>2, <3>3, <3>4 DEF Reported
  <2>5. CASE Decided(j)
    <3>1. UNCHANGED chapa /\ payments[j].rail = "manual"
      BY <2>5 DEF Decided
    <3>2. chapa'[j].status = "none" \/ chapa'[j].status \notin {"succeeded", "pending"}
      BY <2>0, <3>1
    <3>3. ~payments[j].url
      BY <2>0, <3>1
    <3>4. ~payments'[j].url
      BY <2>0, <2>5, <3>3 DEF Decided, PaymentRow
    <3> QED BY <3>2, <3>4
  <2> QED BY <2>1, <2>2, <2>3, <2>4, <2>5, RowFate
\* A row that is new.
<1>3. ASSUME NEW j \in Id' \ Id PROVE ~payments'[j].url
  <2>1. \E u, a : \/ payments'[j] = Row(u, "chapa", a, "pending")
                  \/ payments'[j] = Row(u, "manual", a, "review")
                  \/ payments'[j] = [Row(u, "telebirr_sms", a, "succeeded")
                                         EXCEPT !.status = "succeeded", !.txn = TRUE]
    BY <1>3, NewFate, Zenon
  <2>2. ASSUME NEW u, NEW a, payments'[j] = Row(u, "chapa", a, "pending") PROVE payments'[j].url = FALSE
    BY <2>2 DEF Row
  <2>3. ASSUME NEW u, NEW a, payments'[j] = Row(u, "manual", a, "review") PROVE payments'[j].url = FALSE
    BY <2>3 DEF Row
  <2>4. ASSUME NEW u, NEW a,
               payments'[j] = [Row(u, "telebirr_sms", a, "succeeded")
                                  EXCEPT !.status = "succeeded", !.txn = TRUE]
        PROVE  payments'[j].url = FALSE
    BY <2>4 DEF Row
  <2> QED BY <2>1, <2>2, <2>3, <2>4
<1>4. ASSUME NEW j \in Id' \ Id PROVE chapa'[j].status = "none"
  BY <1>0, <1>1
<1>5. \A j \in Id' :
        /\ chapa'[j].status = "succeeded" =>
               payments'[j].url /\ payments'[j].status \in {"processing", "review", "succeeded"}
        /\ chapa'[j].status = "pending" /\ payments'[j].url => payments'[j].status = "processing"
        /\ payments'[j].url => payments'[j].rail = "chapa"
  BY <1>2, <1>3, <1>4
\* What the poll has in hand.
<1>6. ASSUME poll'.got # 0
      PROVE  /\ payments'[poll'.got].rail = "chapa"
             /\ poll'.report.status \in {"succeeded"} \union Failure => poll'.report = chapa'[poll'.got]
  <2>1. CASE poll' = poll
    <3> DEFINE i == poll.got
    <3>1. /\ i \in Id /\ i \in 1 .. MaxPayments /\ payments[i].rail = "chapa"
          /\ poll.report.status \in {"succeeded"} \union Failure => poll.report = chapa[i]
      BY <1>0, <1>6, <2>1 DEF TypeOK, ProviderAgrees
    <3> HIDE DEF i
    <3>2. ASSUME poll.report.status \in {"succeeded"} \union Failure PROVE chapa'[i] = chapa[i]
      <4>1. chapa[i].status \notin {"none", "pending"}
        BY <3>1, <3>2, Constants
      <4>2. ASSUME NEW h \in Handler, CheckoutCreated(h), handling[h].id = i PROVE chapa[i].status = "none"
        BY <4>2 DEF CheckoutCreated, CheckoutsHeld, Calling
      <4> QED BY <3>1, <4>1, <4>2, ChapaFate
    <3>3. payments'[i].rail = "chapa"
      BY <3>1, RowsStay
    <3> QED BY <2>1, <3>1, <3>2, <3>3 DEF i
  <2>2. ASSUME NEW i, PollFetch(i)
        PROVE  /\ payments'[poll'.got].rail = "chapa" /\ poll'.report = chapa'[poll'.got]
    BY <2>2 DEF PollFetch, rows
  <2>3. ASSUME poll' # poll PROVE \E i \in 1 .. MaxPayments : PollFetch(i)
    <3>1. ASSUME NEW h \in Handler, RequestStep(h) PROVE UNCHANGED poll
      BY <3>1 DEF RequestStep, CreateIntent, ManualRequest, RedeemEvidence, Begin, InsertIntent,
         CheckoutCreated, CheckoutFailed, RecordCheckout, InsertManual, CommitRedeem, Crash
    <3>2. ConsoleStep => UNCHANGED poll
      BY DEF ConsoleStep, RejectManual, ApproveManual, Ingest, ResolveEvidence, ConfigureDestination
    <3>3. PollApply => poll'.got = 0
      BY DEF PollApply
    <3>4. ASSUME NEW i, NEW s, NEW a, ChapaEnds(i, s, a) PROVE UNCHANGED poll
      BY <3>4 DEF ChapaEnds
    <3>5. ASSUME NEW i, NEW report, HandleWebhook(i, report) PROVE UNCHANGED poll
      BY <3>5 DEF HandleWebhook
    <3> QED BY <1>6, <2>3, <3>1, <3>2, <3>3, <3>4, <3>5 DEF Next, ProviderStep
  <2> QED BY <2>1, <2>2, <2>3
<1>7. \A i \in 1 .. MaxPayments : chapa'[i].status # "none" => i \in Id' /\ payments'[i].rail = "chapa"
  BY <1>0, <1>1
<1> QED BY <1>5, <1>6, <1>7 DEF ProviderAgrees

\* A message in one pair of hands stays there, available, until it is redeemed.
LEMMA MessagesStep ==
    ASSUME TypeOK, CheckoutsHeld, MessagesHeld, Next
    PROVE  MessagesHeld'
<1>0. Id \subseteq Id' /\ evidence \in [Ref -> Evidence]
  BY RowsStay DEF TypeOK
<1>1. ASSUME NEW r \in Ref, evidence'[r].status # "none"
      PROVE  IF evidence'[r].status = "redeemed" THEN evidence'[r].id \in Id' ELSE evidence'[r].id = 0
  <2>1. CASE evidence'[r] = evidence[r]
    BY <1>0, <1>1, <2>1 DEF MessagesHeld
  <2>2. CASE evidence'[r].status # "redeemed" /\ evidence'[r].id = 0
    BY <2>2
  <2>3. ASSUME NEW h \in Handler, CommitRedeem(h), NEW e, evidence'[r] = e, r = handling[h].ref,
               e = [evidence[r] EXCEPT !.status = "redeemed", !.owner = handling[h].user, !.id = NewId]
        PROVE  evidence'[r].status = "redeemed" /\ evidence'[r].id \in Id'
    <3>1. evidence[r].status = "available" /\ evidence[r] \in Evidence
      BY <1>0, <2>3 DEF CommitRedeem, MessagesHeld
    <3>2. e.status = "redeemed" /\ e.id = NewId
      BY <3>1, <2>3 DEF Evidence
    <3>3. NewId \in Id'
      BY <2>3, Inserted, AddFacts
    <3> QED BY <2>3, <3>2, <3>3
  <2>4. CASE UNCHANGED evidence
    BY <2>1, <2>4
  <2>5. ASSUME NEW q \in Ref, NEW e \in Evidence, evidence' = [evidence EXCEPT ![q] = e],
               \/ e.status # "redeemed" /\ e.id = 0
               \/ \E h \in Handler : /\ CommitRedeem(h) /\ q = handling[h].ref
                                     /\ e = [evidence[q] EXCEPT !.status = "redeemed",
                                                !.owner = handling[h].user, !.id = NewId]
        PROVE  IF evidence'[r].status = "redeemed" THEN evidence'[r].id \in Id' ELSE evidence'[r].id = 0
    <3>1. CASE q # r
      BY <1>0, <2>1, <2>5, <3>1
    <3>2. CASE q = r
      <4>1. evidence'[r] = e
        BY <1>0, <2>5, <3>2
      <4> QED BY <2>2, <2>3, <2>5, <3>2, <4>1
    <3> QED BY <3>1, <3>2
  <2> QED BY <2>4, <2>5, EvidenceStep
<1>2. ASSUME NEW h \in Handler, At(h, "redeem", "checked"), handling'[h] = handling[h]
      PROVE  evidence'[handling[h].ref] = evidence[handling[h].ref]
  <2> DEFINE r == handling[h].ref
  <2>1. /\ r \in Ref /\ Locked(r)
        /\ \A g \in Handler : At(g, "redeem", "checked") /\ handling[g].ref = r => g = h
    BY <1>2, HandlingKinds DEF At, Redemptions, Locked, MessagesHeld
  <2>2. ASSUME CommitRedeem(h) PROVE FALSE
    <3>1. handling'[h] = Idle
      BY <2>2 DEF CommitRedeem, Done, TypeOK
    <3> QED BY <1>2, <3>1 DEF At
  <2>3. ASSUME NEW g \in Handler, CommitRedeem(g), handling[g].ref = r PROVE FALSE
    BY <2>1, <2>2, <2>3 DEF CommitRedeem
  <2> HIDE DEF r
  <2>4. evidence'[r] = evidence[r]
    BY <1>0, <2>1, <2>3, EvidenceStep
  <2> QED BY <2>4 DEF r
<1>3. ASSUME NEW g \in Handler, At(g, "redeem", "checked")', ~Begun(g)
      PROVE  At(g, "redeem", "checked") /\ handling'[g] = handling[g]
  <2>1. handling'[g] = handling[g] \/ Moved(g)
    BY HandlingFate
  <2>2. ASSUME InsertIntent(g), handling'[g] = [handling[g] EXCEPT !.at = "calling", !.id = NewId]
        PROVE  FALSE
    <3>1. handling[g] \in Intents
      BY <2>2, HandlingKinds DEF InsertIntent, At
    <3>2. handling'[g].op = "intent"
      BY <2>2, <3>1 DEF Intents
    <3> QED BY <1>3, <3>2 DEF At
  <2>3. ASSUME CheckoutCreated(g), handling'[g] = [handling[g] EXCEPT !.at = "called"]
        PROVE  FALSE
    <3>1. handling[g] \in Intents
      BY <2>3, HandlingKinds DEF CheckoutCreated, At
    <3>2. handling'[g].op = "intent"
      BY <2>3, <3>1 DEF Intents
    <3> QED BY <1>3, <3>2 DEF At
  <2>4. handling'[g] = handling[g]
    BY <1>3, <2>1, <2>2, <2>3 DEF Moved, At
  <2> QED BY <1>3, <2>4 DEF At
<1>4. ASSUME NEW g \in Handler, Begun(g), At(g, "redeem", "checked")'
      PROVE  /\ evidence'[handling'[g].ref].status = "available"
             /\ evidence'[handling'[g].ref].amount = handling'[g].amount
             /\ ~Locked(handling'[g].ref)
             /\ \A f \in Handler : f # g => ~Begun(f)
  <2>1. /\ evidence[handling'[g].ref].status = "available"
        /\ evidence[handling'[g].ref].amount = handling'[g].amount
        /\ ~Locked(handling'[g].ref) /\ UNCHANGED evidence
    BY <1>4 DEF Begun, Begin, At
  <2>2. ASSUME NEW f \in Handler, f # g, Begun(f) PROVE FALSE
    <3>1. handling[f] = Idle /\ handling'[f] # Idle
      BY <2>2 DEF Begun, Begin
    <3>2. handling'[f] = handling[f]
      BY <1>4, <2>2 DEF Begun, Begin, TypeOK
    <3> QED BY <3>1, <3>2
  <2> QED BY <2>1, <2>2
<1>5. ASSUME NEW h \in Handler, At(h, "redeem", "checked")'
      PROVE  /\ evidence'[handling'[h].ref].status = "available"
             /\ evidence'[handling'[h].ref].amount = handling'[h].amount
  BY <1>2, <1>3, <1>4, <1>5 DEF MessagesHeld
<1>6. ASSUME NEW h \in Handler, NEW g \in Handler, At(h, "redeem", "checked")',
             At(g, "redeem", "checked")', handling'[g].ref = handling'[h].ref
      PROVE  g = h
  <2>1. CASE ~Begun(h) /\ ~Begun(g)
    BY <1>3, <1>6, <2>1 DEF MessagesHeld
  <2>2. CASE Begun(h) /\ Begun(g)
    BY <1>4, <1>6, <2>2
  <2>3. ASSUME NEW f \in Handler, NEW k \in Handler, Begun(f), ~Begun(k), At(f, "redeem", "checked")',
               At(k, "redeem", "checked")', handling'[f].ref = handling'[k].ref
        PROVE  FALSE
    <3>1. Locked(handling'[k].ref)
      BY <1>3, <2>3 DEF Locked, At
    <3> QED BY <1>4, <2>3, <3>1
  <2> QED BY <1>6, <2>1, <2>2, <2>3
<1> QED BY <1>1, <1>5, <1>6 DEF MessagesHeld

-----------------------------------------------------------------------------
(***************************************************************************)
(* Cash and bonuses.                                                       *)
(***************************************************************************)

\* What one credit does to the tables.
LEMMA CreditFacts ==
    ASSUME TypeOK, PostedIsSucceeded, NEW i, NEW row, Credit(i, row)
    PROVE  /\ Id' = Id \union {i} /\ payments'[i].status = "succeeded"
           /\ payments'[i].user = row.user /\ payments'[i].amount = row.amount
           /\ \A j \in Id : j # i => payments'[j] = payments[j]
           /\ i \in Id => payments[i].status # "succeeded"
           /\ row.user \in User /\ row.amount \in Nat
           /\ cash' = [cash EXCEPT ![row.user] = cash[row.user] + row.amount]
           /\ bonuses' = maybe_grant_welcome_bonus(
                              maybe_grant_referral_bonus(bonuses, row.user, row.amount),
                              row.user, row.amount)
<1> DEFINE paid == [row EXCEPT !.status = "succeeded", !.txn = TRUE]
<1>1. row \in PaymentRow /\ Credited(i, payments, row) /\ (i \in Id => payments[i].status # "succeeded")
  BY DEF Credit
<1>2. paid.status = "succeeded" /\ paid.user = row.user /\ paid.amount = row.amount
      /\ row.user \in User /\ row.amount \in Nat
  BY <1>1 DEF PaymentRow
<1>3. payments' = [j \in Id \union {i} |-> IF j = i THEN paid ELSE payments[j]]
  BY <1>1 DEF Credited, Id
<1>4. ~row.txn
  BY DEF Credit, PostedIsSucceeded
<1>5. cash' = [cash EXCEPT ![row.user] = cash[row.user] + row.amount]
  BY <1>1, <1>4 DEF Credited
<1>6. bonuses' = maybe_grant_welcome_bonus(
                     maybe_grant_referral_bonus(bonuses, row.user, row.amount), row.user, row.amount)
  BY <1>1 DEF Credited
<1> HIDE DEF paid
<1>7. Id' = Id \union {i} /\ payments'[i] = paid /\ \A j \in Id : j # i => payments'[j] = payments[j]
  BY <1>3 DEF Id
<1> QED BY <1>1, <1>2, <1>5, <1>6, <1>7

\* The succeeded deposits of a player are finitely many, each for a whole amount.
LEMMA DepositsFinite ==
    ASSUME TypeOK, NEW u, NEW statuses
    PROVE  /\ IsFiniteSet(Deposits(u, statuses)) /\ Deposits(u, statuses) \subseteq Id
           /\ \A j \in Id : Asked[j] \in Nat /\ Asked[j] = payments[j].amount
<1>1. Deposits(u, statuses) \subseteq Id /\ IsFiniteSet(Id)
  BY DEF Deposits, TypeOK
<1>2. \A j \in Id : payments[j].amount \in Nat
  BY DEF TypeOK, PaymentRow
<1> QED BY <1>1, <1>2, FS_Subset DEF Asked

\* A player's succeeded deposits grow by the one that is credited.
LEMMA SucceededGrow ==
    ASSUME TypeOK, TypeOK', CheckoutsHeld, ProviderAgrees, PostedIsSucceeded, Next, NEW u \in User
    PROVE  /\ NoneSucceeds => Deposits(u, {"succeeded"})' = Deposits(u, {"succeeded"})
           /\ \A i, row : Credit(i, row) =>
                /\ i \notin Deposits(u, {"succeeded"})
                /\ Deposits(u, {"succeeded"})' =
                      IF u = row.user THEN Deposits(u, {"succeeded"}) \union {i}
                      ELSE Deposits(u, {"succeeded"})
<1>1. \A j \in Id : j \in Id' /\ payments'[j].user = payments[j].user
  BY RowsStay
<1>2. \A j \in Id : payments[j].status = "succeeded" => payments'[j].status = "succeeded"
  BY SucceededStays
<1>3. NoneSucceeds => Deposits(u, {"succeeded"})' = Deposits(u, {"succeeded"})
  BY <1>1, <1>2 DEF NoneSucceeds, Deposits
<1>4. ASSUME NEW i, NEW row, Credit(i, row)
      PROVE  /\ i \notin Deposits(u, {"succeeded"})
             /\ Deposits(u, {"succeeded"})' =
                   IF u = row.user THEN Deposits(u, {"succeeded"}) \union {i}
                   ELSE Deposits(u, {"succeeded"})
  <2>1. /\ Id' = Id \union {i} /\ payments'[i].status = "succeeded" /\ payments'[i].user = row.user
        /\ \A j \in Id : j # i => payments'[j] = payments[j]
        /\ i \in Id => payments[i].status # "succeeded"
    BY <1>4, CreditFacts
  <2> QED BY <2>1 DEF Deposits
<1> QED BY <1>3, <1>4

\* Every player's cash is the sum of the deposits marked succeeded.
CashMatches == \A u \in User : cash[u] = SumFunctionOnSet(Asked, Deposits(u, {"succeeded"}))

\* A credit adds its amount on both sides.
LEMMA CashMatchesStep ==
    ASSUME TypeOK, TypeOK', CheckoutsHeld, ProviderAgrees, PostedIsSucceeded, CashMatches, Next
    PROVE  CashMatches'
<1> SUFFICES ASSUME NEW u \in User
             PROVE  cash'[u] = SumFunctionOnSet(Asked', Deposits(u, {"succeeded"})')
  BY DEF CashMatches
<1> DEFINE D == Deposits(u, {"succeeded"})
           E == Deposits(u, {"succeeded"})'
<1>1. IsFiniteSet(D) /\ D \subseteq Id /\ \A j \in Id : Asked[j] \in Nat /\ Asked[j] = payments[j].amount
  BY DepositsFinite
<1>2. \A j \in Id' : Asked'[j] \in Nat /\ Asked'[j] = payments'[j].amount
  <2>1. \A j \in Id' : payments'[j].amount \in Nat
    BY DEF TypeOK, PaymentRow
  <2> QED BY <2>1 DEF Asked
<1>3. \A j \in D : Asked'[j] = Asked[j] /\ Asked[j] \in Int /\ Asked'[j] \in Int
  BY <1>1, <1>2, RowsStay
<1> HIDE DEF D, E
<1>4. SumFunctionOnSet(Asked', D) = SumFunctionOnSet(Asked, D)
  BY <1>1, <1>3, SumSame
<1>5. SumFunctionOnSet(Asked, D) \in Int /\ cash[u] = SumFunctionOnSet(Asked, D)
  BY <1>1, <1>3, SumInt DEF CashMatches, D
<1>6. CASE UNCHANGED <<cash, bonuses>> /\ NoneSucceeds
  <2>1. E = D
    BY <1>6, SucceededGrow DEF D, E
  <2> QED BY <1>4, <1>5, <1>6, <2>1 DEF E
<1>7. ASSUME NEW i, NEW row, Credit(i, row) PROVE cash'[u] = SumFunctionOnSet(Asked', E)
  <2>1. /\ i \in Id' /\ payments'[i].amount = row.amount /\ row.amount \in Nat /\ row.user \in User
        /\ cash' = [cash EXCEPT ![row.user] = cash[row.user] + row.amount]
    BY <1>7, CreditFacts
  <2>2. i \notin D /\ E = IF u = row.user THEN D \union {i} ELSE D
    BY <1>7, SucceededGrow DEF D, E
  <2>3. CASE u = row.user
    <3>1. SumFunctionOnSet(Asked', D \union {i}) = SumFunctionOnSet(Asked', D) + Asked'[i]
      <4>1. \A j \in D \union {i} : Asked'[j] \in Int
        BY <1>2, <1>3, <2>1
      <4> QED BY <4>1, <1>1, <2>2, SumAdd
    <3>2. cash'[u] = cash[u] + row.amount
      BY <2>1, <2>3 DEF TypeOK
    <3> QED BY <1>2, <1>4, <1>5, <2>1, <2>2, <2>3, <3>1, <3>2
  <2>4. CASE u # row.user
    <3>1. cash'[u] = cash[u]
      BY <2>1, <2>4 DEF TypeOK
    <3> QED BY <1>4, <1>5, <2>2, <2>4, <3>1
  <2> QED BY <2>3, <2>4
<1> QED BY <1>6, <1>7, CashStep DEF E

\* The bonuses granted so far, and what they may come to.
GrantsBounded(bs) ==
    /\ IsFiniteSet(bs)
    /\ \A u \in User : Cardinality({b \in bs : b.of = u}) <= 1
    /\ \A u \in User : \A r : Cardinality(Grants(bs, u, r)) <= MaxGrants
Welcomes(bs, u) == {b \in bs : b.user = u /\ b.of = NoUser}

\* The number of the good elements of a set, when one is added to it.
LEMMA CountAdd ==
    ASSUME NEW S, IsFiniteSet(S), NEW T, NEW x, T \subseteq S \union {x}
    PROVE  /\ IsFiniteSet(T) /\ IsFiniteSet(T \intersect S) /\ Cardinality(T) \in Nat
           /\ Cardinality(T \intersect S) \in Nat
           /\ Cardinality(T) <= Cardinality(T \intersect S) + 1
<1>1. IsFiniteSet(T \intersect S)
  BY FS_Subset
<1>2. CASE x \in T /\ x \notin T \intersect S
  <2>1. T = (T \intersect S) \union {x}
    BY <1>2
  <2>2. IsFiniteSet(T) /\ Cardinality(T) = Cardinality(T \intersect S) + 1
    BY <1>1, <1>2, <2>1, FS_AddElement
  <2> QED BY <1>1, <2>2, FS_CardinalityType
<1>3. CASE ~(x \in T /\ x \notin T \intersect S)
  <2>1. T = T \intersect S
    BY <1>3
  <2>2. Cardinality(T \intersect S) \in Nat /\ IsFiniteSet(T) /\ Cardinality(T) = Cardinality(T \intersect S)
    BY <1>1, <2>1, FS_CardinalityType
  <2> QED BY <1>1, <2>2
<1> QED BY <1>2, <1>3

\* A referral grants at most one, to a referee who has earned none.
LEMMA ReferralGrants ==
    ASSUME NEW bs, GrantsBounded(bs), NEW u \in User, NEW amount
    PROVE  LET cs == maybe_grant_referral_bonus(bs, u, amount)
           IN  GrantsBounded(cs) /\ \A w \in User : Welcomes(cs, w) = Welcomes(bs, w)
<1> DEFINE cs == maybe_grant_referral_bonus(bs, u, amount)
           x == [user |-> Referrer[u], of |-> u, rule |-> ActiveRule["referral_reward"], seq |-> 0]
<1>0. NoUser \notin User /\ MaxGrants \in Nat /\ IsFiniteSet(bs)
  BY Constants DEF GrantsBounded
<1>1. CASE cs = bs
  BY <1>1
<1>2. CASE /\ cs = bs \union {x} /\ ~ \E b \in bs : b.of = u
           /\ Cardinality(Grants(bs, Referrer[u], ActiveRule["referral_reward"])) < MaxGrants
  <2>1. x.of = u /\ x.user = Referrer[u] /\ x.rule = ActiveRule["referral_reward"]
    OBVIOUS
  <2> HIDE DEF x, cs
  <2>2. IsFiniteSet(cs)
    BY <1>0, <1>2, FS_AddElement
  <2>3. ASSUME NEW w \in User PROVE Cardinality({b \in cs : b.of = w}) <= 1
    <3>1. CASE w = u
      <4>1. {b \in cs : b.of = w} = {x}
        BY <1>2, <2>1, <3>1
      <4> QED BY <4>1, FS_Singleton
    <3>2. CASE w # u
      <4>1. {b \in cs : b.of = w} = {b \in bs : b.of = w}
        BY <1>2, <2>1, <3>2
      <4> QED BY <4>1 DEF GrantsBounded
    <3> QED BY <3>1, <3>2
  <2>4. ASSUME NEW w \in User, NEW r PROVE Cardinality(Grants(cs, w, r)) <= MaxGrants
    <3>1. CASE w = x.user /\ r = x.rule
      <4>1. Grants(cs, w, r) \intersect bs = Grants(bs, w, r) /\ Grants(cs, w, r) \subseteq bs \union {x}
        BY <1>2 DEF Grants
      <4>2. /\ Cardinality(Grants(cs, w, r)) \in Nat /\ Cardinality(Grants(bs, w, r)) \in Nat
            /\ Cardinality(Grants(cs, w, r)) <= Cardinality(Grants(bs, w, r)) + 1
        BY <4>1, <1>0, CountAdd
      <4>3. Cardinality(Grants(bs, w, r)) < MaxGrants
        BY <1>2, <2>1, <3>1
      <4> QED BY <4>2, <4>3, <1>0
    <3>2. CASE ~(w = x.user /\ r = x.rule)
      <4>1. Grants(cs, w, r) = Grants(bs, w, r)
        BY <1>2, <3>2 DEF Grants
      <4> QED BY <4>1 DEF GrantsBounded
    <3> QED BY <3>1, <3>2
  <2>5. ASSUME NEW w \in User PROVE Welcomes(cs, w) = Welcomes(bs, w)
    BY <1>0, <1>2, <2>1 DEF Welcomes
  <2> QED BY <2>2, <2>3, <2>4, <2>5 DEF GrantsBounded, cs
<1> QED BY <1>1, <1>2 DEF maybe_grant_referral_bonus

\* A welcome grants at most one, to the player whose deposit it is.
LEMMA WelcomeGrants ==
    ASSUME NEW bs, GrantsBounded(bs), NEW u \in User, NEW amount
    PROVE  LET cs == maybe_grant_welcome_bonus(bs, u, amount)
           IN  /\ GrantsBounded(cs)
               /\ \A w \in User : w # u => Welcomes(cs, w) = Welcomes(bs, w)
               /\ Cardinality(Welcomes(cs, u)) \in Nat /\ Cardinality(Welcomes(bs, u)) \in Nat
               /\ Cardinality(Welcomes(cs, u)) <= Cardinality(Welcomes(bs, u)) + 1
<1> DEFINE cs == maybe_grant_welcome_bonus(bs, u, amount)
           rule == ActiveRule["welcome_bonus"]
           x == [user |-> u, of |-> NoUser, rule |-> rule, seq |-> Cardinality(Grants(bs, u, rule))]
<1>0. NoUser \notin User /\ MaxGrants \in Nat /\ IsFiniteSet(bs)
  BY Constants DEF GrantsBounded
<1>1. CASE cs = bs
  <2>1. IsFiniteSet(Welcomes(bs, u))
    BY <1>0, FS_Subset DEF Welcomes
  <2>2. Cardinality(Welcomes(bs, u)) \in Nat
    BY <2>1, FS_CardinalityType
  <2> QED BY <1>1, <2>2
<1>2. CASE cs = bs \union {x} /\ Cardinality(Grants(bs, u, rule)) < MaxGrants
  <2>1. x.of = NoUser /\ x.user = u /\ x.rule = rule
    OBVIOUS
  <2> HIDE DEF x, cs, rule
  <2>2. IsFiniteSet(cs)
    BY <1>0, <1>2, FS_AddElement
  <2>3. ASSUME NEW w \in User PROVE Cardinality({b \in cs : b.of = w}) <= 1
    <3>1. {b \in cs : b.of = w} = {b \in bs : b.of = w}
      BY <1>0, <1>2, <2>1
    <3> QED BY <3>1 DEF GrantsBounded
  <2>4. ASSUME NEW w \in User, NEW r PROVE Cardinality(Grants(cs, w, r)) <= MaxGrants
    <3>1. CASE w = u /\ r = rule
      <4>1. Grants(cs, w, r) \intersect bs = Grants(bs, w, r) /\ Grants(cs, w, r) \subseteq bs \union {x}
        BY <1>2 DEF Grants
      <4>2. /\ Cardinality(Grants(cs, w, r)) \in Nat /\ Cardinality(Grants(bs, w, r)) \in Nat
            /\ Cardinality(Grants(cs, w, r)) <= Cardinality(Grants(bs, w, r)) + 1
        BY <4>1, <1>0, CountAdd
      <4> QED BY <4>2, <1>0, <1>2, <3>1
    <3>2. CASE ~(w = u /\ r = rule)
      <4>1. Grants(cs, w, r) = Grants(bs, w, r)
        BY <1>2, <2>1, <3>2 DEF Grants
      <4> QED BY <4>1 DEF GrantsBounded
    <3> QED BY <3>1, <3>2
  <2>5. ASSUME NEW w \in User, w # u PROVE Welcomes(cs, w) = Welcomes(bs, w)
    BY <1>2, <2>1, <2>5 DEF Welcomes
  <2>6. /\ Cardinality(Welcomes(cs, u)) \in Nat /\ Cardinality(Welcomes(bs, u)) \in Nat
        /\ Cardinality(Welcomes(cs, u)) <= Cardinality(Welcomes(bs, u)) + 1
    <3>1. Welcomes(cs, u) \intersect bs = Welcomes(bs, u) /\ Welcomes(cs, u) \subseteq bs \union {x}
      BY <1>2 DEF Welcomes
    <3> QED BY <3>1, <1>0, CountAdd
  <2> QED BY <2>2, <2>3, <2>4, <2>5, <2>6 DEF GrantsBounded, cs
<1> QED BY <1>1, <1>2 DEF maybe_grant_welcome_bonus

\* The bonuses of every step stay within what was earned.
LEMMA BonusesStep ==
    ASSUME TypeOK, TypeOK', CheckoutsHeld, ProviderAgrees, PostedIsSucceeded, BonusesEarned, Next
    PROVE  BonusesEarned'
<1>0. MaxGrants \in Nat /\ IsFiniteSet(bonuses)
  BY Constants DEF TypeOK
<1>1. GrantsBounded(bonuses)
  <2>1. ASSUME NEW u \in User, NEW r PROVE Cardinality(Grants(bonuses, u, r)) <= MaxGrants
    <3>1. CASE r \in {b.rule : b \in bonuses}
      BY <3>1 DEF BonusesEarned
    <3>2. CASE r \notin {b.rule : b \in bonuses}
      <4>1. Grants(bonuses, u, r) = {}
        BY <3>2 DEF Grants
      <4> QED BY <4>1, <1>0, FS_EmptySet
    <3> QED BY <3>1, <3>2
  <2> QED BY <2>1, <1>0 DEF GrantsBounded, BonusesEarned
<1>2. ASSUME NEW u \in User
      PROVE  /\ Cardinality(Welcomes(bonuses, u)) <= Cardinality(Deposits(u, {"succeeded"}))
             /\ IsFiniteSet(Deposits(u, {"succeeded"})) /\ Cardinality(Deposits(u, {"succeeded"})) \in Nat
  BY DepositsFinite, FS_CardinalityType DEF BonusesEarned, Welcomes
<1>3. ASSUME GrantsBounded(bonuses'),
             \A u \in User : Cardinality(Welcomes(bonuses', u)) <= Cardinality(Deposits(u, {"succeeded"})')
      PROVE  BonusesEarned'
  BY <1>3 DEF GrantsBounded, BonusesEarned, Welcomes, Grants
<1>4. CASE UNCHANGED <<cash, bonuses>> /\ NoneSucceeds
  BY <1>1, <1>2, <1>3, <1>4, SucceededGrow
<1>5. ASSUME NEW i, NEW row, Credit(i, row) PROVE BonusesEarned'
  <2> DEFINE u == row.user
             bs == maybe_grant_referral_bonus(bonuses, u, row.amount)
  <2>1. u \in User /\ bonuses' = maybe_grant_welcome_bonus(bs, u, row.amount)
    BY <1>5, CreditFacts
  <2> HIDE DEF u
  <2>2. GrantsBounded(bs) /\ \A w \in User : Welcomes(bs, w) = Welcomes(bonuses, w)
    BY <1>1, <2>1, ReferralGrants
  <2> HIDE DEF bs
  <2>3. /\ GrantsBounded(bonuses')
        /\ \A w \in User : w # u => Welcomes(bonuses', w) = Welcomes(bs, w)
        /\ Cardinality(Welcomes(bonuses', u)) \in Nat /\ Cardinality(Welcomes(bs, u)) \in Nat
        /\ Cardinality(Welcomes(bonuses', u)) <= Cardinality(Welcomes(bs, u)) + 1
    BY <2>1, <2>2, WelcomeGrants
  <2>4. \A w \in User : /\ i \notin Deposits(w, {"succeeded"})
                       /\ Deposits(w, {"succeeded"})' =
                             IF w = u THEN Deposits(w, {"succeeded"}) \union {i}
                             ELSE Deposits(w, {"succeeded"})
    BY <1>5, SucceededGrow DEF u
  <2>5. ASSUME NEW w \in User
        PROVE  Cardinality(Welcomes(bonuses', w)) <= Cardinality(Deposits(w, {"succeeded"})')
    <3>1. CASE w # u
      BY <1>2, <2>2, <2>3, <2>4, <3>1
    <3>2. CASE w = u
      <4>1. Cardinality(Deposits(u, {"succeeded"}) \union {i}) = Cardinality(Deposits(u, {"succeeded"})) + 1
        BY <1>2, <2>1, <2>4, FS_AddElement
      <4>2. Cardinality(Deposits(u, {"succeeded"})') = Cardinality(Deposits(u, {"succeeded"})) + 1
        BY <2>1, <2>4, <4>1
      <4>3. Cardinality(Welcomes(bonuses', u)) <= Cardinality(Deposits(u, {"succeeded"})) + 1
        BY <1>2, <2>1, <2>2, <2>3
      <4> QED BY <3>2, <4>2, <4>3
    <3> QED BY <3>1, <3>2
  <2> QED BY <1>3, <2>3, <2>5
<1> QED BY <1>4, <1>5, CashStep

\* What stands behind a credit stays there.
LEMMA SourcesStay ==
    ASSUME TypeOK, MessagesHeld, Next, NEW j \in Id
    PROVE  Sources(j)' = Sources(j) /\ \A r \in Sources(j) : evidence'[r] = evidence[r]
<1>0. j # 0 /\ j # NewId /\ evidence \in [Ref -> Evidence]
  <2>1. Cardinality(Id) \in Nat /\ Id = 1 .. Cardinality(Id)
    BY FS_CardinalityType DEF TypeOK
  <2> QED BY <2>1 DEF NewId, TypeOK
<1>1. CASE UNCHANGED evidence
  BY <1>1 DEF Sources
<1>2. ASSUME NEW r \in Ref, NEW e \in Evidence, evidence[r].status # "redeemed",
             evidence' = [evidence EXCEPT ![r] = e], e.id # j
      PROVE  Sources(j)' = Sources(j) /\ \A q \in Sources(j) : evidence'[q] = evidence[q]
  <2>1. r \notin Sources(j)
    BY <1>0, <1>2 DEF Sources, MessagesHeld
  <2>2. evidence'[r] = e /\ \A q \in Ref : q # r => evidence'[q] = evidence[q]
    BY <1>0, <1>2
  <2>3. r \notin Sources(j)'
    BY <1>2, <2>2 DEF Sources
  <2> QED BY <2>1, <2>2, <2>3 DEF Sources
<1>3. ASSUME NEW r \in Ref, NEW e, NEW h \in Handler, CommitRedeem(h), r = handling[h].ref,
             e = [evidence[r] EXCEPT !.status = "redeemed", !.owner = handling[h].user, !.id = NewId]
      PROVE  e.id = NewId
  <2>1. evidence[r].status = "available" /\ evidence[r] \in Evidence
    BY <1>0, <1>3 DEF CommitRedeem, MessagesHeld
  <2> QED BY <1>3, <2>1 DEF Evidence
<1>4. CASE \E r \in Ref, e \in Evidence :
                /\ evidence[r].status # "redeemed" /\ evidence' = [evidence EXCEPT ![r] = e]
                /\ e.id \in {0, NewId}
  BY <1>0, <1>2, <1>4
<1> QED BY <1>1, <1>3, <1>4, EvidenceStep

\* A credit that was backed remains so.
LEMMA BackedStays ==
    ASSUME TypeOK, TypeOK', CheckoutsHeld, ProviderAgrees, MessagesHeld, Next,
           NEW j \in Id, payments[j].status = "succeeded", Backed(j)
    PROVE  Backed(j)'
<1>1. payments'[j] = payments[j] /\ j \in Id'
  BY SucceededStays, RowsStay
<1>2. Sources(j)' = Sources(j) /\ \A r \in Sources(j) : evidence'[r] = evidence[r]
  BY SourcesStay
<1>3. j \in find_evidence_source_mismatches' <=> j \in find_evidence_source_mismatches
  BY <1>1, <1>2 DEF find_evidence_source_mismatches
<1>4. payments[j].rail = "chapa" => chapa'[j] = chapa[j]
  <2>1. SUFFICES ASSUME payments[j].rail = "chapa" PROVE chapa'[j] = chapa[j]
    OBVIOUS
  <2>2. chapa[j].status = "succeeded" /\ j \in 1 .. MaxPayments
    BY <2>1, FS_CardinalityType, Constants DEF Backed, TypeOK
  <2>3. ASSUME NEW h \in Handler, CheckoutCreated(h), handling[h].id = j PROVE chapa[j].status = "none"
    BY <2>3 DEF CheckoutCreated, CheckoutsHeld, Calling
  <2> QED BY <2>2, <2>3, ChapaFate
<1>5. payments[j].rail \in {"chapa", "manual", "telebirr_sms"}
  BY DEF TypeOK, PaymentRow
<1>6. CASE payments[j].rail = "chapa"
  BY <1>1, <1>4, <1>6 DEF Backed
<1>7. CASE payments[j].rail = "manual"
  BY <1>1, <1>7 DEF Backed
<1>8. CASE payments[j].rail = "telebirr_sms"
  BY <1>1, <1>2, <1>3, <1>8 DEF Backed
<1> QED BY <1>5, <1>6, <1>7, <1>8

\* What a checked row is marked succeeded for.
LEMMA BackedRow ==
    ASSUME TypeOK, TypeOK', CheckoutsHeld, ProviderAgrees, Next,
           NEW j \in Id, payments[j].status # "succeeded", payments'[j].status = "succeeded"
    PROVE  Backed(j)'
<1>0. payments[j] \in PaymentRow /\ j \in 1 .. MaxPayments
  BY FS_CardinalityType, Constants DEF TypeOK
<1>1. payments'[j] = payments[j] => FALSE
  OBVIOUS
<1>2. Failed(j) => FALSE
  BY <1>0 DEF Failed, PaymentRow
<1>3. Recorded(j) => FALSE
  <2>1. ASSUME payments'[j] = [payments[j] EXCEPT !.status = "processing", !.url = TRUE] PROVE FALSE
    BY <1>0, <2>1 DEF PaymentRow
  <2> QED BY <2>1 DEF Recorded
<1>4. ASSUME Reported(j) PROVE Backed(j)'
  <2>1. /\ UNCHANGED chapa /\ chapa[j].status = "succeeded" /\ chapa[j].amount = payments[j].amount
        /\ payments'[j] = [payments[j] EXCEPT !.status = "succeeded", !.txn = TRUE]
    <3>1. CASE /\ chapa[j].status \in Failure
               /\ payments'[j] = [payments[j] EXCEPT !.status = chapa[j].status]
      BY <1>0, <3>1, Constants DEF PaymentRow
    <3>2. CASE payments'[j] = [payments[j] EXCEPT !.status = "review"]
      BY <1>0, <3>2 DEF PaymentRow
    <3> QED BY <1>4, <3>1, <3>2 DEF Reported
  <2>2. payments'[j].rail = payments[j].rail /\ payments'[j].amount = payments[j].amount
    BY <1>0, <2>1 DEF PaymentRow
  <2>3. payments[j].rail = "chapa"
    BY <1>0, <2>1 DEF ProviderAgrees
  <2>4. chapa[j] = [status |-> "succeeded", amount |-> payments[j].amount]
    BY <1>0, <2>1 DEF TypeOK, Report
  <2> QED BY <2>1, <2>2, <2>3, <2>4 DEF Backed
<1>5. ASSUME Decided(j) PROVE Backed(j)'
  <2>1. PICK a \in Admin :
            /\ payments[j].amount >= TwoPerson => payments[j].first \notin {NoAdmin, a}
            /\ payments'[j] = [payments[j] EXCEPT !.by = a, !.status = "succeeded", !.txn = TRUE]
    <3>1. payments'[j] = [payments[j] EXCEPT !.status = "rejected"] => FALSE
      BY <1>0 DEF PaymentRow
    <3>2. ASSUME NEW a \in Admin, payments'[j] = [payments[j] EXCEPT !.first = a] PROVE FALSE
      BY <1>0, <3>2 DEF PaymentRow
    <3> QED BY <1>5, <3>1, <3>2 DEF Decided
  <2>2. /\ payments'[j].rail = "manual" /\ payments'[j].by = a
        /\ payments'[j].amount = payments[j].amount /\ payments'[j].first = payments[j].first
    BY <1>0, <1>5, <2>1 DEF Decided, PaymentRow
  <2>3. a # NoAdmin
    BY Constants
  <2> QED BY <2>1, <2>2, <2>3 DEF Backed
<1> QED BY <1>1, <1>2, <1>3, <1>4, <1>5, RowFate

\* A redeemed message is the one source of its payment.
LEMMA BackedRedemption ==
    ASSUME TypeOK, TypeOK', CheckoutsHeld, MessagesHeld, Next, NEW j \in Id' \ Id,
           payments'[j].status = "succeeded"
    PROVE  Backed(j)'
<1>1. j = NewId
  BY NewFate
<1>2. PICK h \in Handler :
         /\ CommitRedeem(h)
         /\ payments'[j] = [Row(handling[h].user, "telebirr_sms", handling[h].amount, "succeeded")
                               EXCEPT !.status = "succeeded", !.txn = TRUE]
  <2>1. ASSUME NEW u, NEW a, payments'[j] = Row(u, "chapa", a, "pending") PROVE FALSE
    BY <2>1 DEF Row
  <2>2. ASSUME NEW u, NEW a, payments'[j] = Row(u, "manual", a, "review") PROVE FALSE
    BY <2>2 DEF Row
  <2> QED BY <2>1, <2>2, NewFate
<1> DEFINE r == handling[h].ref
           u == handling[h].user
           a == handling[h].amount
           e == [evidence[r] EXCEPT !.status = "redeemed", !.owner = u, !.id = NewId]
<1>3. payments'[j].rail = "telebirr_sms" /\ payments'[j].user = u /\ payments'[j].amount = a
  BY <1>2 DEF Row
<1>4. r \in Ref /\ evidence[r].status = "available" /\ evidence[r].amount = a /\ evidence[r] \in Evidence
  BY <1>2, HandlingKinds DEF CommitRedeem, At, Redemptions, MessagesHeld, TypeOK
<1>5. evidence' = [evidence EXCEPT ![r] = e]
  BY <1>2 DEF CommitRedeem
<1>6. e.status = "redeemed" /\ e.owner = u /\ e.id = NewId /\ e.amount = a
  <2> HIDE DEF r, u, a
  <2> QED BY <1>4 DEF Evidence
<1> HIDE DEF r, u, a, e
<1>7. evidence'[r] = e /\ \A q \in Ref : q # r => evidence'[q] = evidence[q]
  BY <1>4, <1>5 DEF TypeOK
<1>8. NewId \notin Id /\ NewId # 0
  <2>1. Cardinality(Id) \in Nat /\ Id = 1 .. Cardinality(Id)
    BY FS_CardinalityType DEF TypeOK
  <2> QED BY <2>1 DEF NewId
<1>9. Sources(j)' = {r}
  <2>1. ASSUME NEW q \in Ref, q # r, evidence[q].status # "none" PROVE evidence[q].id # NewId
    BY <1>8, <2>1 DEF MessagesHeld
  <2> QED BY <1>1, <1>4, <1>6, <1>7, <2>1 DEF Sources
<1>10. Cardinality(Sources(j)') = 1 /\ Sources(j)' # {}
  BY <1>9, FS_Singleton
<1>11. j \notin find_evidence_source_mismatches'
  BY <1>10 DEF find_evidence_source_mismatches
<1>12. \A q \in Sources(j)' : evidence'[q].owner = u /\ evidence'[q].amount = a
  BY <1>6, <1>7, <1>9
<1> QED BY <1>3, <1>10, <1>11, <1>12 DEF Backed

\* Cash and what stands behind it stay in step.
LEMMA CreditMatchesStep ==
    ASSUME TypeOK, TypeOK', CheckoutsHeld, ProviderAgrees, MessagesHeld, PostedIsSucceeded,
           CreditMatchesMoney, Next
    PROVE  CreditMatchesMoney'
<1>1. CashMatches
  BY DEF CreditMatchesMoney, CashMatches
<1>2. CashMatches'
  BY <1>1, CashMatchesStep
<1>3. ASSUME NEW j \in Id', payments'[j].status = "succeeded" PROVE Backed(j)'
  <2>1. CASE j \in Id /\ payments[j].status = "succeeded"
    BY <2>1, BackedStays DEF CreditMatchesMoney
  <2>2. CASE j \in Id /\ payments[j].status # "succeeded"
    BY <1>3, <2>2, BackedRow
  <2>3. CASE j \notin Id
    BY <1>3, <2>3, BackedRedemption
  <2> QED BY <2>1, <2>2, <2>3
<1> QED BY <1>2, <1>3 DEF CreditMatchesMoney, CashMatches

-----------------------------------------------------------------------------
(***************************************************************************)
(* The daily cap.                                                          *)
(***************************************************************************)

\* What is asked by a part of some rows is at most what those rows ask.
LEMMA PartAsks ==
    ASSUME TypeOK, TypeOK', CheckoutsHeld, Next, NEW X \in SUBSET Id, NEW Y \in SUBSET X
    PROVE  /\ SumFunctionOnSet(Asked', Y) <= SumFunctionOnSet(Asked, X)
           /\ SumFunctionOnSet(Asked', Y) \in Nat /\ SumFunctionOnSet(Asked, X) \in Nat
<1>1. IsFiniteSet(X) /\ IsFiniteSet(Y)
  BY FS_Subset DEF TypeOK
<1>2. \A j \in X : Asked[j] \in Nat
  BY DepositsFinite
<1>3. \A j \in X : Asked'[j] = Asked[j]
  BY RowsStay DEF Asked
<1>4. \A j \in Y : Asked[j] \in Int /\ Asked'[j] = Asked[j]
  BY <1>2, <1>3
<1>5. SumFunctionOnSet(Asked, Y) = SumFunctionOnSet(Asked', Y)
  BY <1>1, <1>4, SumSame
<1>6. SumFunctionOnSet(Asked, Y) <= SumFunctionOnSet(Asked, X)
  BY <1>1, <1>2, SumPart
<1>7. SumFunctionOnSet(Asked, X) \in Nat
  BY <1>1, <1>2, SumNat
<1>8. \A j \in Y : Asked[j] \in Nat
  BY <1>2
<1>9. SumFunctionOnSet(Asked, Y) \in Nat
  BY <1>1, <1>8, SumNat
<1> QED BY <1>5, <1>6, <1>7, <1>9

\* A new row adds what it asks.
LEMMA MoreAsks ==
    ASSUME TypeOK, TypeOK', CheckoutsHeld, Next, NEW row, Add(row),
           NEW X \in SUBSET Id, NEW Y \in SUBSET (X \union {NewId})
    PROVE  /\ SumFunctionOnSet(Asked', Y) <= SumFunctionOnSet(Asked, X) + row.amount
           /\ SumFunctionOnSet(Asked', Y) \in Nat
<1>1. /\ Id' = Id \union {NewId} /\ NewId \notin Id /\ payments'[NewId] = row
  BY AddFacts
<1>2. row.amount \in Nat
  BY DEF Add, PaymentRow
<1>3. Asked'[NewId] = row.amount
  BY <1>1 DEF Asked
<1> DEFINE Z == Y \ {NewId}
<1>4. Z \in SUBSET X
  OBVIOUS
<1>5. /\ SumFunctionOnSet(Asked', Z) <= SumFunctionOnSet(Asked, X)
      /\ SumFunctionOnSet(Asked', Z) \in Nat /\ SumFunctionOnSet(Asked, X) \in Nat
  BY <1>4, PartAsks
<1>6. IsFiniteSet(Y) /\ \A j \in Y : Asked'[j] \in Nat
  <2>1. \A j \in Id' : payments'[j].amount \in Nat
    BY DEF TypeOK, PaymentRow
  <2>2. Y \subseteq Id'
    BY <1>1
  <2> QED BY <2>1, <2>2, FS_Subset DEF Asked, TypeOK
<1>7. SumFunctionOnSet(Asked', Y) \in Nat
  BY <1>6, SumNat
<1>8. CASE NewId \notin Y
  <2>1. Z = Y
    BY <1>8
  <2> QED BY <1>2, <1>5, <2>1
<1>9. CASE NewId \in Y
  <2>1. IsFiniteSet(Y) /\ \A j \in Y : Asked'[j] \in Int
    BY <1>6
  <2>2. SumFunctionOnSet(Asked', Y) = Asked'[NewId] + SumFunctionOnSet(Asked', Z)
    BY <1>9, <2>1, SumRemove
  <2> HIDE DEF Z
  <2> QED BY <1>2, <1>3, <1>5, <2>2
<1> QED BY <1>8, <1>9, <1>7

\* No row counts that did not, but a checkout that is recorded and a new row.
LEMMA CountedFate ==
    ASSUME TypeOK, CheckoutsHeld, ProviderAgrees, Next, NEW u, NEW j \in Deposits(u, Counted)'
    PROVE  \/ j \in Deposits(u, Counted)
           \/ /\ j \in Id /\ payments[j].user = u
              /\ Recorded(j)
           \/ /\ j \in Id' \ Id /\ payments'[j].user = u
<1>0. j \in Id' /\ payments'[j].user = u /\ payments'[j].status \in Counted
  BY DEF Deposits, Counted
<1>1. SUFFICES ASSUME j \in Id, ~Recorded(j) PROVE j \in Deposits(u, Counted)
  BY <1>0, RowsStay
<1>2. payments[j].user = u /\ payments[j] \in PaymentRow
  BY <1>0, <1>1, RowsStay DEF TypeOK
<1>3. payments[j].status \in Counted
  <2>1. CASE payments'[j] = payments[j]
    BY <1>0, <2>1
  <2>2. CASE Failed(j)
    <3>1. payments'[j].status = "failed"
      BY <1>2, <2>2 DEF Failed, PaymentRow
    <3> QED BY <1>0, <3>1 DEF Counted
  <2>3. CASE Reported(j)
    <3>1. CASE chapa[j].status = "succeeded"
      BY <1>1, <3>1 DEF ProviderAgrees, Counted
    <3>2. CASE /\ chapa[j].status \in Failure
               /\ payments'[j] = [payments[j] EXCEPT !.status = chapa[j].status]
      <4>1. payments'[j].status \in {"failed", "cancelled"}
        BY <1>2, <3>2, Constants DEF PaymentRow
      <4> QED BY <1>0, <4>1 DEF Counted
    <3> QED BY <2>3, <3>1, <3>2 DEF Reported
  <2>4. CASE Decided(j)
    BY <2>4 DEF Decided, Counted
  <2> QED BY <1>1, <2>1, <2>2, <2>3, <2>4, RowFate
<1> QED BY <1>1, <1>2, <1>3 DEF Deposits

\* A request in hand after the step has begun with it, or was in hand before.
LEMMA BusyFate ==
    ASSUME TypeOK, Next, NEW g \in Handler, handling'[g] # Idle
    PROVE  \/ Begun(g)
           \/ /\ handling[g] # Idle
              /\ handling'[g].user = handling[g].user /\ handling'[g].amount = handling[g].amount
              /\ \/ /\ InsertIntent(g) /\ Calling(g)' /\ handling'[g].id = NewId /\ ~Calling(g)
                 \/ /\ ~InsertIntent(g)
                    /\ Calling(g)' <=> Calling(g)
                    /\ Calling(g) => handling'[g].id = handling[g].id
<1>1. handling'[g] = handling[g] \/ Moved(g)
  BY HandlingFate
<1>2. CASE handling'[g] = handling[g] /\ ~InsertIntent(g)
  BY <1>2 DEF Calling, At
<1>3. CASE InsertIntent(g)
  <2>1. handling[g] \in Intents /\ handling[g] # Idle /\ handling[g].at = "checked"
    BY <1>3, HandlingKinds DEF InsertIntent, At
  <2>0. handling'[g] = [handling[g] EXCEPT !.at = "calling", !.id = NewId]
    BY <1>3 DEF InsertIntent, TypeOK
  <2>2. /\ handling'[g].user = handling[g].user /\ handling'[g].amount = handling[g].amount
        /\ handling'[g].id = NewId /\ handling'[g].at = "calling" /\ handling'[g].op = "intent"
    BY <2>0, <2>1 DEF Intents
  <2>3. Calling(g)' /\ ~Calling(g)
    BY <2>1, <2>2 DEF Calling, At
  <2> QED BY <1>3, <2>1, <2>2, <2>3
<1>4. CASE CheckoutCreated(g) /\ handling'[g] = [handling[g] EXCEPT !.at = "called"]
  <2>1. handling[g] \in Intents /\ handling[g] # Idle /\ Calling(g) /\ ~InsertIntent(g)
    BY <1>4, HandlingKinds DEF CheckoutCreated, InsertIntent, At, Calling
  <2>2. /\ handling'[g].user = handling[g].user /\ handling'[g].amount = handling[g].amount
        /\ handling'[g].id = handling[g].id /\ handling'[g].at = "called" /\ handling'[g].op = "intent"
    BY <1>4, <2>1 DEF Intents
  <2>3. Calling(g)'
    BY <2>2 DEF Calling, At
  <2> QED BY <2>1, <2>2, <2>3
<1> QED BY <1>1, <1>2, <1>3, <1>4 DEF Moved

\* A request that begins leaves the rows as they are, and marks the player whose
\* other request is in hand.
LEMMA BegunFacts ==
    ASSUME TypeOK, NEW g \in Handler, Begun(g)
    PROVE  /\ handling'[g].user \in User /\ handling[g] = Idle /\ UNCHANGED payments
           /\ today_total(handling'[g].user) + handling'[g].amount <= DailyCap
           /\ handling'[g].user \notin overlapped' => ~Busy(handling'[g].user)
           /\ overlapped \subseteq overlapped' /\ ~Calling(g)'
           /\ \A f \in Handler \ {g} : handling'[f] = handling[f]
<1>1. PICK u, what :
        /\ u \in User /\ Begin(g, u, what) /\ handling'[g] = what
        /\ what.user = u /\ what.at = "checked"
  BY DEF Begun
<1>2. /\ handling[g] = Idle /\ UNCHANGED payments
      /\ handling' = [handling EXCEPT ![g] = what]
      /\ today_total(u) + what.amount <= DailyCap
      /\ overlapped' = IF Busy(u) THEN overlapped \union {u} ELSE overlapped
  BY <1>1 DEF Begin, rows, check_deposit_eligibility
<1>3. ~Calling(g)'
  BY <1>1 DEF Calling, At
<1>4. \A f \in Handler \ {g} : handling'[f] = handling[f]
  BY <1>2 DEF TypeOK
<1>5. overlapped \subseteq overlapped' /\ (u \notin overlapped' => ~Busy(u))
  BY <1>2
<1> QED BY <1>1, <1>2, <1>3, <1>4, <1>5

\* Who had two requests in hand is not forgotten.
LEMMA OverlappedGrows ==
    ASSUME TypeOK, Next
    PROVE  overlapped \subseteq overlapped'
<1>1. ASSUME NEW h \in Handler, Moved(h) PROVE overlapped \subseteq overlapped'
  BY <1>1, BegunFacts DEF Moved, InsertIntent, CheckoutCreated
<1> QED BY <1>1, HandlingFate

\* Two requests of a player in hand at once are noticed.
LEMMA AloneStep ==
    ASSUME TypeOK, RoomLeft, Next, NEW u \in User \ overlapped',
           NEW g \in Handler, NEW f \in Handler, handling'[g] # Idle, handling'[f] # Idle,
           handling'[g].user = u, handling'[f].user = u
    PROVE  g = f
<1>0. u \in User \ overlapped
  BY OverlappedGrows
<1>1. ASSUME NEW h \in Handler, NEW k \in Handler, h # k, Begun(h),
             handling'[h].user = u, handling'[k] # Idle, handling'[k].user = u
      PROVE  FALSE
  <2>1. ~Busy(u) /\ handling'[k] = handling[k]
    BY <1>1, BegunFacts
  <2> QED BY <1>1, <2>1 DEF Busy
<1>2. CASE Begun(g) \/ Begun(f)
  BY <1>1, <1>2
<1>3. CASE ~Begun(g) /\ ~Begun(f)
  <2>1. handling[g] # Idle /\ handling[f] # Idle /\ handling[g].user = u /\ handling[f].user = u
    BY <1>3, BusyFate
  <2> QED BY <1>0, <2>1 DEF RoomLeft
<1> QED BY <1>2, <1>3

\* What more a player may have counted: nothing, the checkout that is recorded,
\* or the row that the request in hand adds.
LEMMA CountedStep ==
    ASSUME TypeOK, CheckoutsHeld, ProviderAgrees, Next, NEW u
    PROVE  \/ Deposits(u, Counted)' \subseteq Deposits(u, Counted)
           \/ \E h \in Handler :
                /\ Calling(h) /\ handling[h].user = u /\ handling'[h] = Idle
                /\ Deposits(u, Counted)' \subseteq Deposits(u, Counted) \union {handling[h].id}
           \/ \E h \in Handler : \E row :
                /\ handling[h] # Idle /\ ~Calling(h) /\ handling[h].user = u
                /\ Add(row) /\ row.amount = handling[h].amount
                /\ Deposits(u, Counted)' \subseteq Deposits(u, Counted) \union {NewId}
                /\ InsertIntent(h) \/ handling'[h] = Idle
<1> DEFINE C == Deposits(u, Counted)
           D == Deposits(u, Counted)'
<1>1. ASSUME NEW h \in Handler, NEW row, Add(row), handling[h] # Idle, ~Calling(h),
             row.user = handling[h].user, row.amount = handling[h].amount,
             InsertIntent(h) \/ handling'[h] = Idle
      PROVE  \/ D \subseteq C
             \/ \E k \in Handler : \E r :
                  /\ handling[k] # Idle /\ ~Calling(k) /\ handling[k].user = u
                  /\ Add(r) /\ r.amount = handling[k].amount
                  /\ D \subseteq C \union {NewId}
                  /\ InsertIntent(k) \/ handling'[k] = Idle
  <2>1. Id' = Id \union {NewId} /\ payments'[NewId] = row /\ \A j \in Id : payments'[j] = payments[j]
    BY <1>1, AddFacts
  <2>2. D \subseteq C \union {NewId}
    BY <2>1 DEF Deposits, Counted
  <2>3. CASE row.user = u
    BY <1>1, <2>2, <2>3
  <2>4. CASE row.user # u
    <3>1. NewId \notin D
      BY <2>1, <2>4 DEF Deposits
    <3> QED BY <2>2, <3>1
  <2> QED BY <2>3, <2>4
<1>2. \A k, a : /\ Row(k, "chapa", a, "pending").user = k /\ Row(k, "chapa", a, "pending").amount = a
                /\ Row(k, "manual", a, "review").user = k /\ Row(k, "manual", a, "review").amount = a
  BY DEF Row
<1>3. ASSUME NEW k, NEW a
      PROVE  LET row == [Row(k, "telebirr_sms", a, "succeeded") EXCEPT !.status = "succeeded", !.txn = TRUE]
             IN  row.user = k /\ row.amount = a
  BY DEF Row
<1>4. ASSUME NEW h \in Handler, InsertIntent(h) \/ InsertManual(h) \/ CommitRedeem(h)
      PROVE  \E row : /\ Add(row) /\ row.user = handling[h].user /\ row.amount = handling[h].amount
  <2>1. CASE InsertIntent(h)
    <3> DEFINE row == Row(handling[h].user, "chapa", handling[h].amount, "pending")
    <3>1. Add(row) /\ row.user = handling[h].user /\ row.amount = handling[h].amount
      BY <1>2, <2>1, Inserted
    <3> HIDE DEF row
    <3> QED BY <3>1
  <2>2. CASE InsertManual(h)
    <3> DEFINE row == Row(handling[h].user, "manual", handling[h].amount, "review")
    <3>1. Add(row) /\ row.user = handling[h].user /\ row.amount = handling[h].amount
      BY <1>2, <2>2, Inserted
    <3> HIDE DEF row
    <3> QED BY <3>1
  <2>3. CASE CommitRedeem(h)
    <3> DEFINE row == [Row(handling[h].user, "telebirr_sms", handling[h].amount, "succeeded")
                          EXCEPT !.status = "succeeded", !.txn = TRUE]
    <3>1. Add(row)
      BY <2>3, Inserted
    <3>2. row.user = handling[h].user /\ row.amount = handling[h].amount
      BY <1>3
    <3> HIDE DEF row
    <3> QED BY <3>1, <3>2
  <2> QED BY <1>4, <2>1, <2>2, <2>3
<1>5. ASSUME NEW h \in Handler, InsertIntent(h) \/ InsertManual(h) \/ CommitRedeem(h)
      PROVE  handling[h] # Idle /\ ~Calling(h) /\ (InsertIntent(h) \/ handling'[h] = Idle)
  BY <1>5 DEF InsertIntent, InsertManual, CommitRedeem, At, Calling, Done, TypeOK
<1>6. CASE Id' # Id
  <2>1. PICK j : j \in Id' \ Id
    BY <1>6, RowsStay
  <2>2. PICK h \in Handler : InsertIntent(h) \/ InsertManual(h) \/ CommitRedeem(h)
    BY <2>1, NewFate, Zenon
  <2>3. PICK row : /\ Add(row) /\ row.user = handling[h].user /\ row.amount = handling[h].amount
    BY <2>2, <1>4
  <2> QED BY <1>1, <1>5, <2>2, <2>3
<1>7. CASE Id' = Id /\ \E j \in Id : Recorded(j) /\ payments[j].user = u
  <2>1. PICK j \in Id : Recorded(j) /\ payments[j].user = u
    BY <1>7
  <2>2. PICK h \in Handler : Calling(h) /\ handling[h].id = j /\ handling'[h] = Idle
    BY <2>1, Answering
  <2>3. handling[h].user = u
    BY <2>1, <2>2 DEF CheckoutsHeld
  <2>4. PICK g \in Handler : RecordCheckout(g) /\ handling[g].id = j
    BY <2>1 DEF Recorded
  <2>5. Edit(j, [payments[j] EXCEPT !.status = "processing", !.url = TRUE])
    BY <2>4, Answered
  <2>6. \A k \in Id : k # j => payments'[k] = payments[k]
    BY <2>5, EditOne
  <2>7. D \subseteq C \union {j}
    BY <1>7, <2>6 DEF Deposits, Counted
  <2> QED BY <2>2, <2>3, <2>7
<1>8. CASE Id' = Id /\ ~ \E j \in Id : Recorded(j) /\ payments[j].user = u
  <2>1. D \subseteq C
    BY <1>8, CountedFate
  <2> QED BY <2>1
<1> QED BY <1>6, <1>7, <1>8

\* No step takes a player past the cap, nor the request in hand of one.
LEMMA CapStep ==
    ASSUME TypeOK, TypeOK', CheckoutsHeld, ProviderAgrees, RoomLeft, CapHoldsUnlessOverlapped, Next
    PROVE  RoomLeft' /\ CapHoldsUnlessOverlapped'
<1> SUFFICES ASSUME NEW u \in User \ overlapped'
             PROVE  /\ SumFunctionOnSet(Asked', Deposits(u, Counted)') <= DailyCap
                    /\ \A h \in Handler : handling'[h] # Idle /\ handling'[h].user = u =>
                         /\ \A g \in Handler : handling'[g] # Idle /\ handling'[g].user = u => g = h
                         /\ IF Calling(h)'
                            THEN SumFunctionOnSet(Asked', Deposits(u, Counted)' \union {handling'[h].id}) <= DailyCap
                            ELSE SumFunctionOnSet(Asked', Deposits(u, Counted)') + handling'[h].amount <= DailyCap
  BY DEF RoomLeft, CapHoldsUnlessOverlapped, today_total
<1> DEFINE C == Deposits(u, Counted)
           D == Deposits(u, Counted)'
           Total(X) == SumFunctionOnSet(Asked, X)
           TotalNext(X) == SumFunctionOnSet(Asked', X)
<1>0. u \in User \ overlapped /\ DailyCap \in Nat /\ C \in SUBSET Id
  BY OverlappedGrows, Constants DEF Deposits
<1>1. ASSUME NEW X \in SUBSET Id, NEW Y \in SUBSET X
      PROVE  TotalNext(Y) <= Total(X) /\ TotalNext(Y) \in Nat /\ Total(X) \in Nat
  BY PartAsks
<1>2. ASSUME NEW row, Add(row), NEW X \in SUBSET Id, NEW Y \in SUBSET (X \union {NewId})
      PROVE  TotalNext(Y) <= Total(X) + row.amount /\ TotalNext(Y) \in Nat
  BY <1>2, MoreAsks
<1>3. Total(C) <= DailyCap /\ Total(C) \in Nat
  <2>1. Total(C) <= DailyCap
    BY <1>0 DEF CapHoldsUnlessOverlapped, today_total
  <2> QED BY <1>0, <1>1, <2>1
<1>4. ASSUME NEW h \in Handler, handling[h] # Idle, handling[h].user = u
      PROVE  /\ \A g \in Handler : handling[g] # Idle /\ handling[g].user = u => g = h
             /\ Calling(h) => Total(C \union {handling[h].id}) <= DailyCap /\ handling[h].id \in Id
             /\ ~Calling(h) => Total(C) + handling[h].amount <= DailyCap
             /\ handling[h].amount \in Nat
  <2>1. Calling(h) => handling[h].id \in Id
    BY DEF CheckoutsHeld
  <2> QED BY <1>0, <1>4, <2>1, HandlingKinds DEF RoomLeft, today_total
<1>5. \/ D \subseteq C
      \/ \E h \in Handler :
           /\ Calling(h) /\ handling[h].user = u /\ handling'[h] = Idle
           /\ D \subseteq C \union {handling[h].id}
      \/ \E h \in Handler : \E row :
           /\ handling[h] # Idle /\ ~Calling(h) /\ handling[h].user = u
           /\ Add(row) /\ row.amount = handling[h].amount
           /\ D \subseteq C \union {NewId}
           /\ InsertIntent(h) \/ handling'[h] = Idle
  BY CountedStep
<1>6. \A h \in Handler : Calling(h) => handling[h] # Idle
  BY DEF Calling, At
<1> HIDE DEF C, D, Total, TotalNext
\* The rows.
<1>7. TotalNext(D) <= DailyCap
  <2>1. CASE D \subseteq C
    <3>1. TotalNext(D) <= Total(C) /\ TotalNext(D) \in Nat
      BY <1>0, <1>1, <2>1
    <3> QED BY <1>0, <1>3, <3>1
  <2>2. ASSUME NEW h \in Handler, Calling(h), handling[h].user = u, D \subseteq C \union {handling[h].id}
        PROVE  TotalNext(D) <= DailyCap
    <3>1. Total(C \union {handling[h].id}) <= DailyCap /\ handling[h].id \in Id
      BY <1>4, <1>6, <2>2
    <3>2. C \union {handling[h].id} \in SUBSET Id
      BY <1>0, <3>1
    <3>3. /\ TotalNext(D) <= Total(C \union {handling[h].id}) /\ TotalNext(D) \in Nat
          /\ Total(C \union {handling[h].id}) \in Nat
      BY <1>1, <2>2, <3>2
    <3> QED BY <1>0, <3>1, <3>3
  <2>3. ASSUME NEW h \in Handler, NEW row, handling[h] # Idle, ~Calling(h), handling[h].user = u,
               Add(row), row.amount = handling[h].amount, D \subseteq C \union {NewId}
        PROVE  TotalNext(D) <= DailyCap
    <3>1. TotalNext(D) <= Total(C) + handling[h].amount /\ TotalNext(D) \in Nat
      BY <1>0, <1>2, <2>3
    <3>2. Total(C) + handling[h].amount <= DailyCap /\ handling[h].amount \in Nat
      BY <1>4, <2>3
    <3> QED BY <1>0, <1>3, <3>1, <3>2
  <2> QED BY <1>5, <2>1, <2>2, <2>3
\* The request in hand.
<1>8. ASSUME NEW h \in Handler, handling'[h] # Idle, handling'[h].user = u
      PROVE  IF Calling(h)'
             THEN TotalNext(D \union {handling'[h].id}) <= DailyCap
             ELSE TotalNext(D) + handling'[h].amount <= DailyCap
  <2>1. CASE Begun(h)
    <3>1. ~Calling(h)' /\ today_total(u) + handling'[h].amount <= DailyCap /\ UNCHANGED payments
      BY <1>8, <2>1, BegunFacts
    <3>2. D = C /\ Asked' = Asked
      BY <3>1 DEF D, C, Deposits, Id, Asked
    <3>3. TotalNext(D) = today_total(u)
      BY <3>2 DEF TotalNext, C, today_total
    <3> QED BY <3>1, <3>3
  <2>2. CASE /\ handling[h] # Idle /\ handling[h].user = u
             /\ InsertIntent(h) /\ Calling(h)' /\ handling'[h].id = NewId /\ ~Calling(h)
    <3> DEFINE row == Row(handling[h].user, "chapa", handling[h].amount, "pending")
    <3>1. Add(row) /\ row.amount = handling[h].amount
      BY <2>2, Inserted DEF Row
    <3> HIDE DEF row
    <3>2. D \union {NewId} \subseteq C \union {NewId}
      <4>1. Id' = Id \union {NewId} /\ \A j \in Id : payments'[j] = payments[j]
        BY <3>1, AddFacts
      <4> QED BY <4>1 DEF D, C, Deposits, Counted
    <3>3. TotalNext(D \union {NewId}) <= Total(C) + handling[h].amount /\ TotalNext(D \union {NewId}) \in Nat
      BY <1>0, <1>2, <3>1, <3>2
    <3>4. Total(C) + handling[h].amount <= DailyCap /\ handling[h].amount \in Nat
      BY <1>4, <2>2
    <3>5. TotalNext(D \union {NewId}) <= DailyCap
      BY <1>0, <1>3, <3>3, <3>4
    <3> QED BY <2>2, <3>5
  <2>3. CASE /\ handling[h] # Idle /\ handling[h].user = u
             /\ handling'[h].amount = handling[h].amount /\ ~InsertIntent(h)
             /\ Calling(h)' <=> Calling(h)
             /\ Calling(h) => handling'[h].id = handling[h].id
    <3>1. D \subseteq C
      <4>1. \A k \in Handler : handling[k] # Idle /\ handling[k].user = u => k = h
        BY <1>4, <2>3
      <4> QED BY <1>5, <1>6, <1>8, <2>3, <4>1
    <3>2. CASE Calling(h)
      <4> DEFINE X == C \union {handling[h].id}
      <4>1. Total(X) <= DailyCap /\ X \in SUBSET Id
        BY <1>0, <1>4, <2>3, <3>2
      <4>2. D \union {handling'[h].id} \in SUBSET X
        BY <2>3, <3>1, <3>2
      <4>3. /\ TotalNext(D \union {handling'[h].id}) <= Total(X) /\ Total(X) \in Nat
            /\ TotalNext(D \union {handling'[h].id}) \in Nat
        BY <1>1, <4>1, <4>2
      <4> QED BY <1>0, <2>3, <3>2, <4>1, <4>3
    <3>3. CASE ~Calling(h)
      <4>1. TotalNext(D) <= Total(C) /\ TotalNext(D) \in Nat /\ Total(C) \in Nat
        BY <1>0, <1>1, <3>1
      <4>2. Total(C) + handling[h].amount <= DailyCap /\ handling[h].amount \in Nat
        BY <1>4, <2>3, <3>3
      <4> QED BY <1>0, <2>3, <3>3, <4>1, <4>2
    <3> QED BY <3>2, <3>3
  <2> QED BY <1>8, <2>1, <2>2, <2>3, BusyFate
<1>9. ASSUME NEW h \in Handler, handling'[h] # Idle, handling'[h].user = u,
             NEW g \in Handler, handling'[g] # Idle, handling'[g].user = u
      PROVE  g = h
  BY <1>9, AloneStep
<1> QED BY <1>7, <1>8, <1>9 DEF D, TotalNext

-----------------------------------------------------------------------------
(***************************************************************************)
(* The invariant, and what it gives.                                       *)
(***************************************************************************)

\* Before the first request there is nothing to account for.
LEMMA InitInv == Init => IndInv
<1> SUFFICES ASSUME Init PROVE IndInv
  OBVIOUS
<1>1. Id = {} /\ payments = <<>>
  BY DEF Init, Id
<1>2. IsFiniteSet(Id) /\ Cardinality(Id) = 0 /\ Id = 1 .. 0
  BY <1>1, FS_EmptySet
<1>3. \A u, statuses : Deposits(u, statuses) = {}
  BY <1>1 DEF Deposits
<1>4. \A h \in Handler : handling[h] = Idle
  BY DEF Init
<1>5. TypeOK
  <2>1. payments \in [Id -> PaymentRow]
    BY <1>1
  <2>2. evidence \in [Ref -> Evidence] /\ cash \in [User -> Int]
    BY DEF Init, Evidence
  <2>3. chapa \in [1 .. MaxPayments -> Report] /\ poll \in [got : Nat, report : Report] /\ poll.got = 0
    BY DEF Init, Report, NoReport
  <2>4. handling \in [Handler -> {Idle} \union Intents \union ManualRequests \union Redemptions]
    BY DEF Init
  <2>5. IsFiniteSet(bonuses) /\ recipient \in BOOLEAN /\ overlapped \subseteq User
    BY FS_EmptySet DEF Init
  <2>6. Id = 1 .. Cardinality(Id) /\ Cardinality(Id) <= MaxPayments
    BY <1>2, Constants
  <2> QED BY <1>2, <2>1, <2>2, <2>3, <2>4, <2>5, <2>6 DEF TypeOK
<1>6. CheckoutsHeld /\ RoomLeft
  BY <1>4 DEF CheckoutsHeld, RoomLeft, Calling, At
<1>7. ProviderAgrees
  <2>1. \A i \in 1 .. MaxPayments : chapa[i].status = "none"
    BY DEF Init
  <2>2. poll.got = 0
    BY DEF Init
  <2> QED BY <1>1, <2>1, <2>2 DEF ProviderAgrees
<1>8. MessagesHeld
  <2>1. \A r \in Ref : evidence[r].status = "none"
    BY DEF Init
  <2> QED BY <1>4, <2>1 DEF MessagesHeld, At
<1>9. PostedIsSucceeded
  BY <1>1 DEF PostedIsSucceeded
<1>10. CreditMatchesMoney
  BY <1>1, <1>3, SumEmpty DEF CreditMatchesMoney, Init
<1>11. BonusesEarned
  <2>1. bonuses = {}
    BY DEF Init
  <2>2. \A u \in User : /\ {b \in bonuses : b.of = u} = {}
                       /\ {b \in bonuses : b.user = u /\ b.of = NoUser} = {}
    BY <2>1
  <2>3. {b.rule : b \in bonuses} = {}
    BY <2>1
  <2>4. \A u \in User : /\ Cardinality({b \in bonuses : b.of = u}) = 0
                       /\ Cardinality({b \in bonuses : b.user = u /\ b.of = NoUser}) = 0
                       /\ Cardinality(Deposits(u, {"succeeded"})) = 0
    BY <1>3, <2>2, FS_EmptySet
  <2>5. \A u \in User : /\ Cardinality({b \in bonuses : b.of = u}) <= 1
                       /\ Cardinality({b \in bonuses : b.user = u /\ b.of = NoUser})
                             <= Cardinality(Deposits(u, {"succeeded"}))
    <3> SUFFICES ASSUME NEW u \in User
                 PROVE  /\ Cardinality({b \in bonuses : b.of = u}) <= 1
                        /\ Cardinality({b \in bonuses : b.user = u /\ b.of = NoUser})
                             <= Cardinality(Deposits(u, {"succeeded"}))
      OBVIOUS
    <3> DEFINE m == Cardinality({b \in bonuses : b.of = u})
               n == Cardinality({b \in bonuses : b.user = u /\ b.of = NoUser})
               k == Cardinality(Deposits(u, {"succeeded"}))
    <3>1. m = 0 /\ n = 0 /\ k = 0
      BY <2>4
    <3> HIDE DEF m, n, k
    <3>2. m <= 1 /\ n <= k
      BY <3>1
    <3> QED BY <3>2 DEF m, n, k
  <2>6. \A u \in User, r \in {b.rule : b \in bonuses} : Cardinality(Grants(bonuses, u, r)) <= MaxGrants
    BY <2>3
  <2> QED BY <2>5, <2>6 DEF BonusesEarned
<1>12. CapHoldsUnlessOverlapped
  BY <1>3, SumEmpty, Constants DEF CapHoldsUnlessOverlapped, today_total
<1> QED BY <1>5, <1>6, <1>7, <1>8, <1>9, <1>10, <1>11, <1>12 DEF IndInv

\* A step of a request, of Chapa, of the poll or of the console keeps all of it.
LEMMA NextInv == IndInv /\ Next => IndInv'
<1> SUFFICES ASSUME IndInv, Next PROVE IndInv'
  OBVIOUS
<1>0. /\ TypeOK /\ CheckoutsHeld /\ ProviderAgrees /\ MessagesHeld /\ PostedIsSucceeded /\ RoomLeft
      /\ CreditMatchesMoney /\ BonusesEarned /\ CapHoldsUnlessOverlapped
  BY DEF IndInv
<1>1. TypeOK'
  BY <1>0, TypeStep
<1>2. CheckoutsHeld' /\ ProviderAgrees' /\ MessagesHeld' /\ PostedIsSucceeded'
  BY <1>0, CheckoutsStep, ProviderAgreesStep, MessagesStep, PostedStep
<1>3. CreditMatchesMoney' /\ BonusesEarned'
  BY <1>0, <1>1, CreditMatchesStep, BonusesStep
<1>4. RoomLeft' /\ CapHoldsUnlessOverlapped'
  BY <1>0, <1>1, CapStep
<1> QED BY <1>1, <1>2, <1>3, <1>4 DEF IndInv

\* A step that changes nothing keeps it too.
LEMMA StutterInv == IndInv /\ UNCHANGED vars => IndInv'
<1> SUFFICES ASSUME IndInv, UNCHANGED vars PROVE IndInv'
  OBVIOUS
<1>1. /\ payments' = payments /\ events' = events /\ cash' = cash /\ bonuses' = bonuses
      /\ evidence' = evidence /\ recipient' = recipient /\ chapa' = chapa /\ handling' = handling
      /\ poll' = poll /\ overlapped' = overlapped
  BY DEF vars
<1>2. Id' = Id /\ Asked' = Asked /\ \A u, statuses : Deposits(u, statuses)' = Deposits(u, statuses)
  BY <1>1 DEF Id, Asked, Deposits
<1>3. TypeOK' /\ ProviderAgrees' /\ PostedIsSucceeded' /\ MessagesHeld'
  BY <1>1, <1>2 DEF IndInv, TypeOK, ProviderAgrees, PostedIsSucceeded, MessagesHeld, At
<1>4. CheckoutsHeld'
  BY <1>1, <1>2 DEF IndInv, CheckoutsHeld, Calling, At
<1>5. RoomLeft' /\ CapHoldsUnlessOverlapped'
  BY <1>1, <1>2 DEF IndInv, RoomLeft, CapHoldsUnlessOverlapped, today_total, Calling, At
<1>6. CreditMatchesMoney'
  <2>1. \A i \in Id : Backed(i)' <=> Backed(i)
    BY <1>1, <1>2 DEF Backed, Sources, find_evidence_source_mismatches
  <2> QED BY <1>1, <1>2, <2>1 DEF IndInv, CreditMatchesMoney
<1>7. BonusesEarned'
  BY <1>1, <1>2 DEF IndInv, BonusesEarned, Grants
<1> QED BY <1>3, <1>4, <1>5, <1>6, <1>7 DEF IndInv

\* In every reachable state the rows, Chapa, the messages, the requests in hand,
\* the cash, the bonuses and the cap agree.
THEOREM InductiveInvariant == Spec => []IndInv
<1>1. IndInv /\ [Next]_vars => IndInv'
  BY NextInv, StutterInv
<1> QED BY <1>1, InitInv, PTL DEF Spec

\* However webhooks, polls, approvals and redemptions repeat and interleave, each
\* player's cash is the sum of the deposits marked succeeded, each of those stands
\* on money the rail received, bonuses stay within what was earned, and the hourly
\* comparison with Chapa reports only deposits under way or under review.
THEOREM DepositsAccountedHolds == Spec => []DepositsAccounted
<1>1. ASSUME IndInv PROVE AlarmsExplained
  <2> SUFFICES ASSUME NEW i \in reconcile PROVE payments[i].status \in {"processing", "review"}
    BY DEF AlarmsExplained
  <2>1. i \in Id /\ payments[i].rail = "chapa"
    BY DEF reconcile
  <2>2. payments[i].status # "succeeded"
    <3>1. SUFFICES ASSUME payments[i].status = "succeeded" PROVE FALSE
      OBVIOUS
    <3>2. chapa[i] = [status |-> "succeeded", amount |-> payments[i].amount]
      BY <1>1, <2>1, <3>1 DEF IndInv, CreditMatchesMoney, Backed
    <3>3. chapa[i].status = "succeeded" /\ chapa[i].amount = payments[i].amount
      BY <3>2
    <3> QED BY <3>1, <3>3 DEF reconcile
  <2>3. chapa[i].status = "succeeded"
    BY <2>2 DEF reconcile
  <2> QED BY <1>1, <2>1, <2>2, <2>3 DEF IndInv, ProviderAgrees
<1>2. IndInv => DepositsAccounted
  BY <1>1 DEF IndInv, DepositsAccounted
<1> QED BY <1>2, InductiveInvariant, PTL

\* A player's credited and pending deposits of the day stay within the cap, whatever
\* arrives late, unless two requests of that player were checked at once.
THEOREM CapHolds == Spec => []CapHoldsUnlessOverlapped
<1>1. IndInv => CapHoldsUnlessOverlapped
  BY DEF IndInv
<1> QED BY <1>1, InductiveInvariant, PTL

\* No late webhook, console action or unguarded UPDATE reopens a credited deposit or
\* a redeemed message.
THEOREM CreditIsFinalHolds == Spec => CreditIsFinal
<1> DEFINE Final == /\ \A i \in Id : payments[i].status = "succeeded" => payments'[i].status = "succeeded"
                    /\ \A r \in Ref : evidence[r].status = "redeemed" => evidence'[r] = evidence[r]
<1>1. ASSUME IndInv, Next PROVE Final
  <2>1. TypeOK /\ CheckoutsHeld /\ ProviderAgrees /\ MessagesHeld
    BY <1>1 DEF IndInv
  <2>2. \A i \in Id : payments[i].status = "succeeded" => payments'[i].status = "succeeded"
    BY <1>1, <2>1, SucceededStays
  <2>3. ASSUME NEW r \in Ref, evidence[r].status = "redeemed" PROVE evidence'[r] = evidence[r]
    BY <1>1, <2>1, <2>3, EvidenceStep DEF TypeOK
  <2> QED BY <2>2, <2>3
<1>2. UNCHANGED vars => Final
  BY DEF vars
<1>3. IndInv /\ [Next]_vars => [Final]_vars
  BY <1>1
<1> QED BY <1>3, InductiveInvariant, PTL DEF Spec, CreditIsFinal
=============================================================================
