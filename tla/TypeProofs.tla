----------------------------- MODULE TypeProofs -----------------------------
(***************************************************************************)
(* Type correctness of Marketplace for any number of orders, partners,     *)
(* complaints, tokens and requests.  Types alone are not inductive: the    *)
(* audit record of a confirmation, say, names an order only because the    *)
(* request was begun on a payment that exists, and a payment that exists   *)
(* belongs to an order (TypeInv).                                          *)
(***************************************************************************)
EXTENDS MarketplaceInvariant, TLAPS

-----------------------------------------------------------------------------
(* The writes on shared rows                                               *)

(* Writing a status keeps the tables well formed.                          *)
LEMMA StatusSet ==
  ASSUME TablesTyped, NEW o \in Orders, NEW s \in OrderStatus, SetStatus(o, s),
         UNCHANGED <<complaint, notices, audit>>
  PROVE  TablesTyped'
BY DEF TablesTyped, TablesTypeOK, SetStatus, OrderRow

(* So does an audit record,                                                *)
LEMMA Audited ==
  ASSUME TablesTyped, NEW action \in AuditActions,
         NEW e \in Orders \cup Partners \cup Complaints, Audit(action, e),
         UNCHANGED <<order, complaint, notices>>
  PROVE  TablesTyped'
BY DEF TablesTyped, TablesTypeOK, Audit

(* and a notification.                                                     *)
LEMMA Notified ==
  ASSUME TablesTyped, NEW template \in Templates, NEW o \in Orders,
         Notify(template, o), UNCHANGED <<order, complaint, audit>>
  PROVE  TablesTyped'
BY DEF TablesTyped, TablesTypeOK, Notify

(* A component that a step leaves alone stays well formed.                 *)
LEMMA Framed ==
  /\ TablesTyped /\ UNCHANGED tables => TablesTyped'
  /\ PayTyped /\ UNCHANGED checkoutVars => PayTyped'
  /\ JobTyped /\ UNCHANGED fulfilmentVars => JobTyped'
  /\ DeskTyped /\ UNCHANGED desk /\ ComplaintsKept /\ PaymentsKept => DeskTyped'
  /\ SweepsTypeOK /\ UNCHANGED sla => SweepsTypeOK'
  /\ UNCHANGED complaint => ComplaintsKept
  /\ UNCHANGED payment => PaymentsKept
<1>1. TablesTyped /\ UNCHANGED tables => TablesTyped'
  BY DEF TablesTyped, TablesTypeOK, tables
<1>2. PayTyped /\ UNCHANGED checkoutVars => PayTyped'
  BY DEF PayTyped, PayFits, CheckoutTypeOK, Exists, checkoutVars
<1>3. JobTyped /\ UNCHANGED fulfilmentVars => JobTyped'
  BY DEF JobTyped, JobFits, FulfilmentTypeOK, fulfilmentVars
<1>4. DeskTyped /\ UNCHANGED desk /\ ComplaintsKept /\ PaymentsKept => DeskTyped'
  BY DEF DeskTyped, DeskFits, DisputesTypeOK, ComplaintsKept, PaymentsKept, Exists
<1>5. SweepsTypeOK /\ UNCHANGED sla => SweepsTypeOK'
  BY DEF SweepsTypeOK
<1>6. (UNCHANGED complaint => ComplaintsKept) /\ (UNCHANGED payment => PaymentsKept)
  BY DEF ComplaintsKept, PaymentsKept, Exists
<1> QED
  BY <1>1, <1>2, <1>3, <1>4, <1>5, <1>6

-----------------------------------------------------------------------------
(* Payment requests                                                        *)

(* The slots, whatever a step writes into one of them.                     *)
LEMMA PaySet ==
  ASSUME PayTyped, NEW r \in PayRequests, NEW task, PayFits(task),
         pay' = [pay EXCEPT ![r] = task],
         PaymentsKept
  PROVE  /\ pay' \in [PayRequests -> PayTask]
         /\ \A i \in PayRequests : PayFits(pay[i])'
BY DEF PayTyped, PayFits, CheckoutTypeOK, Exists, PaymentsKept

(* A payment request that ends keeps the others.                           *)
LEMMA PayEnded ==
  ASSUME PayTyped, NEW r \in PayRequests, PayEnd(r),
         PaymentsKept
  PROVE  /\ pay' \in [PayRequests -> PayTask]
         /\ \A i \in PayRequests : PayFits(pay[i])'
<1>1. PayFits(PayIdle)
  BY DEF PayFits, PayIdle, PayTask, PayStages
<1> QED
  BY <1>1, PaySet DEF PayEnd

(* So does one that goes on to its next await.                             *)
LEMMA PayGone ==
  ASSUME PayTyped, NEW r \in PayRequests, NEW stage, PayGoto(r, stage),
         pay[r].at \in {"pay", "confirm", "audit", "notify"},
         stage \in {"confirm", "audit", "notify", "mark"},
         PaymentsKept
  PROVE  /\ pay' \in [PayRequests -> PayTask]
         /\ \A i \in PayRequests : PayFits(pay[i])'
<1> DEFINE task == [pay[r] EXCEPT !.at = stage]
<1>1. pay[r] \in PayTask /\ PayFits(pay[r])
  BY DEF PayTyped, CheckoutTypeOK
<1>2. PayFits(task)
  BY <1>1 DEF PayFits, PayTask, PayStages
<1>3. pay' = [pay EXCEPT ![r] = task]
  BY DEF PayGoto, PayTyped, CheckoutTypeOK
<1> QED
  BY <1>2, <1>3, PaySet

(* The payment of a request that was begun on one.                         *)
LEMMA PayRow ==
  ASSUME PayTyped, NEW r \in PayRequests,
         pay[r].at \in {"pay", "confirm", "audit", "notify", "mark"}
  PROVE  /\ pay[r].token \in Tokens
         /\ Exists(pay[r].token)
         /\ pay[r].outcome \in Outcomes
         /\ payment[pay[r].token] \in PaymentRow
         /\ payment[pay[r].token].order \in Orders
BY DEF PayTyped, PayFits, CheckoutTypeOK

(* Every step of PaymentsService keeps rows and requests well formed.      *)
LEMMA CheckoutTyped ==
  ASSUME TablesTyped, PayTyped, CheckoutNext
  PROVE  TablesTyped' /\ PayTyped' /\ PaymentsKept /\ UNCHANGED complaint
<1> DEFINE Goal == TablesTyped' /\ PayTyped' /\ PaymentsKept /\ UNCHANGED complaint
<1>1. ASSUME NEW r \in PayRequests, NEW o \in Orders, BeginIntent(r, o)
      PROVE  Goal
  <2>1. PayFits([PayIdle EXCEPT !.at = "initialize", !.order = o])
    BY <1>1 DEF BeginIntent, PayFits, PayIdle, PayTask, PayStages, Exists
  <2>2. PayTyped' /\ PaymentsKept
    BY <1>1, <2>1, PaySet DEF BeginIntent, PayTyped, CheckoutTypeOK, Exists, PaymentsKept
  <2> QED
    BY <1>1, <2>2, Framed DEF BeginIntent, tables
<1>2. ASSUME NEW r \in PayRequests, NEW t \in Tokens, InitializeForm(r, t)
      PROVE  Goal
  <2> DEFINE task == [pay[r] EXCEPT !.at = "record", !.token = t]
  <2>1. pay[r] \in PayTask /\ pay[r].order \in Orders
    BY <1>2 DEF InitializeForm, PayTyped, PayFits, CheckoutTypeOK
  <2>2. PayFits(task)
    BY <2>1 DEF PayFits, PayTask, PayStages
  <2>3. pay' = [pay EXCEPT ![r] = task]
    BY <1>2 DEF InitializeForm, PayTyped, CheckoutTypeOK
  <2>4. PayTyped' /\ PaymentsKept
    BY <1>2, <2>2, <2>3, PaySet DEF InitializeForm, PayTyped, CheckoutTypeOK, Exists, PaymentsKept
  <2> QED
    BY <1>2, <2>4, Framed DEF InitializeForm, tables
<1>3. ASSUME NEW r \in PayRequests, RefuseForm(r) PROVE Goal
  <2>1. PayTyped' /\ PaymentsKept
    BY <1>3, PayEnded DEF RefuseForm, PayTyped, CheckoutTypeOK, Exists, PaymentsKept
  <2> QED
    BY <1>3, <2>1, Framed DEF RefuseForm, tables
<1>4. ASSUME NEW r \in PayRequests, RecordIntent(r) PROVE Goal
  <2>1. pay[r].order \in Orders /\ pay[r].token \in Tokens
    BY <1>4 DEF RecordIntent, PayTyped, PayFits
  <2>2. payment' \in [Tokens -> PaymentRow] /\ inserted' \in Nat
    BY <1>4, <2>1 DEF RecordIntent, PayTyped, CheckoutTypeOK, PaymentRow
  <2>3. \A t \in Tokens : IF t = pay[r].token
                            THEN /\ payment'[t].status = "requires_action"
                                 /\ payment'[t].order = pay[r].order
                            ELSE payment'[t] = payment[t]
    BY <1>4, <2>1 DEF RecordIntent, PayTyped, CheckoutTypeOK
  <2>4. PayTyped' /\ PaymentsKept
    BY <1>4, <2>1, <2>2, <2>3, PayEnded
    DEF RecordIntent, PayTyped, CheckoutTypeOK, Exists, PaymentsKept
  <2>5. TablesTyped'
    BY <1>4, <2>1, StatusSet DEF RecordIntent, OrderStatus
  <2> QED
    BY <1>4, <2>4, <2>5 DEF RecordIntent
<1>5. ASSUME NEW t \in Tokens, PayForm(t) \/ DeclineForm(t) PROVE Goal
  <2>1. PayTyped' /\ PaymentsKept
    BY <1>5 DEF PayForm, DeclineForm, PayTyped, PayFits, CheckoutTypeOK, Exists, PaymentsKept, Outcomes
  <2> QED
    BY <1>5, <2>1, Framed DEF PayForm, DeclineForm, tables
<1>6. ASSUME NEW r \in PayRequests, NEW t \in Tokens, Callback(r, t)
      PROVE  Goal
  <2> DEFINE task(outcome) ==
        [PayIdle EXCEPT !.at = "pay", !.token = t, !.outcome = outcome]
  <2>1. \A outcome \in Outcomes : PayFits(task(outcome))
    BY <1>6 DEF Callback, PayFits, PayIdle, PayTask, PayStages
  <2>2. \E outcome \in Outcomes : pay' = [pay EXCEPT ![r] = task(outcome)]
    BY <1>6 DEF Callback, Outcomes
  <2>3. PayTyped' /\ PaymentsKept
    BY <1>6, <2>1, <2>2, PaySet DEF Callback, PayTyped, CheckoutTypeOK, Exists, PaymentsKept
  <2> QED
    BY <1>6, <2>3, Framed DEF Callback, tables
<1>7. ASSUME NEW r \in PayRequests, NEW t \in Tokens, NEW outcome \in Outcomes,
             Webhook(r, t, outcome)
      PROVE  Goal
  <2> DEFINE task == [PayIdle EXCEPT !.at = "pay", !.token = t,
                                     !.outcome = outcome, !.webhook = TRUE]
  <2>1. PayFits(task)
    BY <1>7 DEF Webhook, PayTyped, PayFits, PayIdle, PayTask, PayStages
  <2>2. PayTyped' /\ PaymentsKept
    BY <1>7, <2>1, PaySet DEF Webhook, PayTyped, CheckoutTypeOK, Exists, PaymentsKept
  <2> QED
    BY <1>7, <2>2, Framed DEF Webhook, tables
<1>8. ASSUME NEW r \in PayRequests, FinalizeRow(r) PROVE Goal
  <2>1. payment' \in [Tokens -> PaymentRow]
    BY <1>8, PayRow DEF FinalizeRow, PayTyped, CheckoutTypeOK, PaymentRow, Outcomes
  <2>2. \A t \in Tokens : /\ payment'[t].order = payment[t].order
                          /\ Exists(t) <=> payment'[t].status # "absent"
    BY <1>8, PayRow DEF FinalizeRow, PayTyped, CheckoutTypeOK, PaymentRow, Outcomes, Exists
  <2>3. PayTyped' /\ PaymentsKept
    BY <1>8, <2>1, <2>2, PayEnded, PayGone
    DEF FinalizeRow, PayTyped, CheckoutTypeOK, Exists, PaymentsKept
  <2> QED
    BY <1>8, <2>3, Framed DEF FinalizeRow, tables
<1>9. ASSUME NEW r \in PayRequests, ConfirmOrder(r) PROVE Goal
  <2>1. PayTyped' /\ PaymentsKept
    BY <1>9, PayGone DEF ConfirmOrder, PayTyped, CheckoutTypeOK, Exists, PaymentsKept
  <2>2. TablesTyped'
    BY <1>9, PayRow, StatusSet DEF ConfirmOrder, OrderStatus
  <2> QED
    BY <1>9, <2>1, <2>2 DEF ConfirmOrder
<1>10. ASSUME NEW r \in PayRequests, AuditConfirm(r) PROVE Goal
  <2>1. PayTyped' /\ PaymentsKept
    BY <1>10, PayGone DEF AuditConfirm, PayTyped, CheckoutTypeOK, Exists, PaymentsKept
  <2>2. TablesTyped'
    BY <1>10, PayRow, Audited DEF AuditConfirm, AuditActions
  <2> QED
    BY <1>10, <2>1, <2>2 DEF AuditConfirm
<1>11. ASSUME NEW r \in PayRequests, NotifyConfirm(r) PROVE Goal
  <2>1. PayTyped' /\ PaymentsKept
    BY <1>11, PayEnded, PayGone DEF NotifyConfirm, PayTyped, CheckoutTypeOK, Exists, PaymentsKept
  <2>2. TablesTyped'
    BY <1>11, PayRow, Notified DEF NotifyConfirm, Templates
  <2> QED
    BY <1>11, <2>1, <2>2 DEF NotifyConfirm
<1>12. ASSUME NEW r \in PayRequests, MarkEvent(r) \/ AbortPay(r) PROVE Goal
  <2>1. processed' \subseteq Tokens \X Outcomes
    BY <1>12, PayRow DEF MarkEvent, AbortPay, PayTyped, CheckoutTypeOK
  <2>2. PayTyped' /\ PaymentsKept
    BY <1>12, <2>1, PayEnded DEF MarkEvent, AbortPay, PayTyped, CheckoutTypeOK, Exists, PaymentsKept
  <2> QED
    BY <1>12, <2>2, Framed DEF MarkEvent, AbortPay, tables
<1> QED
  BY <1>1, <1>2, <1>3, <1>4, <1>5, <1>6, <1>7, <1>8, <1>9, <1>10, <1>11, <1>12
  DEF CheckoutNext, CheckoutWork, PayStep

-----------------------------------------------------------------------------
(* Order requests                                                          *)

(* An order request may become any well-formed request,                    *)
LEMMA JobSet ==
  ASSUME JobTyped, NEW j \in OrderRequests, NEW task, JobFits(task),
         job' = [job EXCEPT ![j] = task]
  PROVE  /\ job' \in [OrderRequests -> Job]
         /\ \A i \in OrderRequests : JobFits(job'[i])
BY DEF JobTyped, JobFits, FulfilmentTypeOK

(* begin as one,                                                           *)
LEMMA JobBegun ==
  ASSUME JobTyped, NEW j \in OrderRequests, NEW task, JobFits(task),
         JobBegin(j, task)
  PROVE  JobTyped'
BY JobSet DEF JobBegin, JobTyped, FulfilmentTypeOK

(* end,                                                                    *)
LEMMA JobEnded ==
  ASSUME JobTyped, NEW j \in OrderRequests, JobEnd(j)
  PROVE  /\ job' \in [OrderRequests -> Job]
         /\ \A i \in OrderRequests : JobFits(job'[i])
<1>1. JobFits(JobIdle)
  BY DEF JobFits, JobIdle, Job
<1> QED
  BY <1>1, JobSet DEF JobEnd

(* or go on to its next await.                                             *)
LEMMA JobGone ==
  ASSUME JobTyped, NEW j \in OrderRequests, NEW stage, JobGoto(j, stage),
         stage \in {"write", "review", "audit", "notify"},
         job[j].at # "idle",
         job[j].op = "evidence" => stage = "review",
         stage = "notify" => job[j].op \in {"assign", "complete", "complain"}
  PROVE  /\ job' \in [OrderRequests -> Job]
         /\ \A i \in OrderRequests : JobFits(job'[i])
<1> DEFINE task == [job[j] EXCEPT !.at = stage]
<1>1. job[j] \in Job /\ JobFits(job[j])
  BY DEF JobTyped, FulfilmentTypeOK
<1>2. JobFits(task)
  BY <1>1 DEF JobFits, Job
<1>3. job' = [job EXCEPT ![j] = task]
  BY DEF JobGoto, JobTyped, FulfilmentTypeOK
<1> QED
  BY <1>2, <1>3, JobSet

(* The rows of a request that is past its first step.                      *)
LEMMA JobRow ==
  ASSUME JobTyped, NEW j \in OrderRequests, job[j].at # "idle"
  PROVE  /\ job[j].op \in Operations
         /\ job[j].op \in {"active", "rejected", "assign"} => job[j].partner \in Partners
         /\ job[j].op \notin {"active", "rejected"} => job[j].order \in Orders
         /\ job[j].op = "evidence" =>
              job[j].kind \in PhotoKinds /\ job[j].at \in {"write", "review"}
         /\ job[j].at = "notify" => job[j].op \in {"assign", "complete", "complain"}
         /\ job[j].partner \in Partners \cup {None}
BY DEF JobTyped, JobFits, FulfilmentTypeOK, Job

(* So does every step of OrdersService and of the vetting of partners.     *)
LEMMA FulfilmentTyped ==
  ASSUME TablesTyped, JobTyped, FulfilmentNext
  PROVE  TablesTyped' /\ JobTyped' /\ ComplaintsKept
<1> DEFINE Goal == TablesTyped' /\ JobTyped' /\ ComplaintsKept
<1>1. ASSUME NEW o \in Orders, CreateOrder(o) PROVE Goal
  BY <1>1, StatusSet, Framed DEF CreateOrder, OrderStatus, ComplaintsKept
<1>2. ASSUME NEW p \in Partners, Onboard(p) PROVE Goal
  <2>1. JobTyped'
    BY <1>2 DEF Onboard, JobTyped, JobFits, FulfilmentTypeOK, PartnerStatus
  <2> QED
    BY <1>2, <2>1, Framed DEF Onboard, tables, ComplaintsKept
<1>3. ASSUME NEW j \in OrderRequests, NEW task, JobFits(task), JobBegin(j, task)
      PROVE  Goal
  BY <1>3, JobBegun, Framed DEF JobBegin, tables, ComplaintsKept
<1>4. ASSUME NEW j \in OrderRequests, NEW p \in Partners,
             NEW d \in {"active", "rejected"}, BeginVet(j, p, d)
      PROVE  Goal
  <2>1. JobFits([JobIdle EXCEPT !.at = "write", !.op = d, !.partner = p])
    BY DEF JobFits, JobIdle, Job, Operations
  <2> QED
    BY <1>3, <1>4, <2>1 DEF BeginVet
<1>5. ASSUME NEW j \in OrderRequests, NEW o \in Orders, NEW p \in Partners,
             BeginAssign(j, o, p) \/ BeginStart(j, o, p) \/ BeginComplete(j, o, p)
      PROVE  Goal
  <2> DEFINE task(stage, op) ==
        [JobIdle EXCEPT !.at = stage, !.op = op, !.order = o, !.partner = p]
  <2>1. JobFits(task("check", "assign"))
    BY DEF JobFits, JobIdle, Job, Operations
  <2>2. JobFits(task("write", "start"))
    BY DEF JobFits, JobIdle, Job, Operations
  <2>3. JobFits(task("check", "complete"))
    BY DEF JobFits, JobIdle, Job, Operations
  <2> QED
    BY <1>3, <1>5, <2>1, <2>2, <2>3 DEF BeginAssign, BeginStart, BeginComplete
<1>6. ASSUME NEW j \in OrderRequests, NEW o \in Orders, NEW p \in Partners,
             NEW kind \in PhotoKinds, BeginEvidence(j, o, p, kind)
      PROVE  Goal
  <2>1. JobFits([JobIdle EXCEPT !.at = "write", !.op = "evidence", !.order = o,
                                !.partner = p, !.kind = kind])
    BY DEF JobFits, JobIdle, Job, Operations
  <2> QED
    BY <1>3, <1>6, <2>1 DEF BeginEvidence
<1>7. ASSUME NEW j \in OrderRequests, NEW o \in Orders, BeginApprove(j, o)
      PROVE  Goal
  <2>1. order[o].partner \in Partners \cup {None}
    BY DEF TablesTyped, TablesTypeOK, OrderRow
  <2>2. JobFits([JobIdle EXCEPT !.at = "write", !.op = "approve", !.order = o,
                                !.partner = order[o].partner])
    BY <2>1 DEF JobFits, JobIdle, Job, Operations
  <2> QED
    BY <1>3, <1>7, <2>2 DEF BeginApprove
<1>8. ASSUME NEW j \in OrderRequests, NEW o \in Orders, BeginComplaint(j, o)
      PROVE  Goal
  <2>1. JobFits([JobIdle EXCEPT !.at = "write", !.op = "complain", !.order = o,
                   !.dispute = (order[o].status = "completed_pending_approval")])
    BY DEF JobFits, JobIdle, Job, Operations
  <2> QED
    BY <1>3, <1>8, <2>1 DEF BeginComplaint
<1>9. ASSUME NEW j \in OrderRequests, Vet(j) PROVE Goal
  <2>1. partner' \in [Partners -> PartnerStatus]
    BY <1>9 DEF Vet, At, JobTyped, FulfilmentTypeOK, PartnerStatus
  <2>2. JobTyped'
    BY <1>9, <2>1, JobGone DEF Vet, At, JobTyped, FulfilmentTypeOK
  <2> QED
    BY <1>9, <2>2, Framed DEF Vet, tables, ComplaintsKept
<1>10. ASSUME NEW j \in OrderRequests,
              CheckPartner(j) \/ CheckPhotos(j) \/ AbortJob(j)
       PROVE  Goal
  <2>1. JobTyped'
    BY <1>10, JobGone, JobEnded
    DEF CheckPartner, CheckPhotos, AbortJob, At, JobTyped, FulfilmentTypeOK
  <2> QED
    BY <1>10, <2>1, Framed
    DEF CheckPartner, CheckPhotos, AbortJob, tables, ComplaintsKept
<1>11. ASSUME NEW j \in OrderRequests, Assign(j) \/ Start(j) \/ Complete(j)
       PROVE  Goal
  <2>1. JobTyped'
    BY <1>11, JobGone DEF Assign, Start, Complete, At, JobTyped, FulfilmentTypeOK
  <2>2. TablesTyped'
    <3>1. CASE Assign(j)
      BY <3>1, JobRow DEF Assign, At, TablesTyped, TablesTypeOK, OrderRow, OrderStatus
    <3>2. CASE Start(j)
      BY <3>2, JobRow, StatusSet DEF Start, At, OrderStatus
    <3>3. CASE Complete(j)
      BY <3>3, JobRow DEF Complete, At, TablesTyped, TablesTypeOK, OrderRow, OrderStatus
    <3> QED
      BY <1>11, <3>1, <3>2, <3>3
  <2> QED
    BY <1>11, <2>1, <2>2 DEF Assign, Start, Complete, ComplaintsKept
<1>12. ASSUME NEW j \in OrderRequests, StoreEvidence(j) PROVE Goal
  <2>1. photos' \in [Orders -> SUBSET PhotoKinds]
    BY <1>12, JobRow DEF StoreEvidence, At, JobTyped, FulfilmentTypeOK
  <2>2. JobTyped'
    BY <1>12, <2>1, JobGone, JobEnded DEF StoreEvidence, At, JobTyped, FulfilmentTypeOK
  <2> QED
    BY <1>12, <2>2, Framed DEF StoreEvidence, tables, ComplaintsKept
<1>13. ASSUME NEW j \in OrderRequests, ReportForReview(j) PROVE Goal
  <2>1. JobTyped'
    BY <1>13, JobEnded DEF ReportForReview, JobTyped, FulfilmentTypeOK
  <2>2. TablesTyped'
    BY <1>13, JobRow, Notified DEF ReportForReview, At, Templates
  <2> QED
    BY <1>13, <2>1, <2>2 DEF ReportForReview, ComplaintsKept
<1>14. ASSUME NEW j \in OrderRequests, Approve(j) PROVE Goal
  <2>1. job[j].order \in Orders /\ job[j].partner \in Partners \cup {None}
    BY <1>14, JobRow DEF Approve, At
  <2>2. payouts' \in [Orders -> [Partners -> Nat]]
    <3>1. CASE job[j].partner = None
      BY <1>14, <3>1 DEF Approve, CreatePayout, JobTyped, FulfilmentTypeOK
    <3>2. CASE job[j].partner # None
      <4> DEFINE o == job[j].order
                 p == job[j].partner
      <4>1. /\ payouts' = [payouts EXCEPT ![o] = [payouts[o] EXCEPT ![p] = payouts[o][p] + 1]]
            /\ o \in Orders /\ p \in Partners
        BY <1>14, <2>1, <3>2 DEF Approve, CreatePayout, JobTyped, FulfilmentTypeOK
      <4>2. payouts[o] \in [Partners -> Nat]
        BY <2>1 DEF JobTyped, FulfilmentTypeOK
      <4>3. [payouts[o] EXCEPT ![p] = payouts[o][p] + 1] \in [Partners -> Nat]
        BY <4>1, <4>2
      <4> HIDE DEF o, p
      <4> QED
        BY <4>1, <4>3 DEF JobTyped, FulfilmentTypeOK
    <3> QED
      BY <3>1, <3>2
  <2>3. JobTyped'
    BY <1>14, <2>2, JobGone DEF Approve, At, JobTyped, FulfilmentTypeOK
  <2>4. TablesTyped'
    BY <1>14, <2>1, StatusSet DEF Approve, OrderStatus
  <2> QED
    BY <1>14, <2>3, <2>4 DEF Approve, ComplaintsKept
<1>15. ASSUME NEW j \in OrderRequests, NEW k \in Complaints, Complain(j, k)
       PROVE  Goal
  <2>1. job[j].order \in Orders
    BY <1>15, JobRow DEF Complain, At
  <2>2. JobTyped'
    BY <1>15, JobGone DEF Complain, At, JobTyped, FulfilmentTypeOK
  <2>3. order' \in [Orders -> OrderRow]
    BY <1>15, <2>1
    DEF Complain, SetStatus, TablesTyped, TablesTypeOK, OrderRow, OrderStatus
  <2>4. complaint' \in [Complaints -> ComplaintRow]
    BY <1>15, <2>1
    DEF Complain, TablesTyped, TablesTypeOK, ComplaintRow, ComplaintStatus
  <2>5. \A i \in Complaints :
          complaint'[i] = IF i = k THEN [order |-> job[j].order, status |-> "open"]
                                   ELSE complaint[i]
    BY <1>15 DEF Complain, TablesTyped, TablesTypeOK
  <2>6. TablesTyped' /\ ComplaintsKept
    BY <1>15, <2>1, <2>3, <2>4, <2>5
    DEF Complain, TablesTyped, TablesTypeOK, ComplaintsKept
  <2> QED
    BY <2>2, <2>6
<1>16. ASSUME NEW j \in OrderRequests, AuditJob(j) PROVE Goal
  <2>1. job[j].op \in Operations \ {"evidence"}
    BY <1>16, JobRow DEF AuditJob
  <2>2. AuditAction[job[j].op] \in AuditActions
    BY <2>1 DEF Operations, AuditAction, AuditActions
  <2>3. (IF job[j].op \in {"active", "rejected"} THEN job[j].partner ELSE job[j].order)
          \in Orders \cup Partners \cup Complaints
    BY <1>16, JobRow DEF AuditJob
  <2>4. TablesTyped'
    BY <1>16, <2>2, <2>3, Audited DEF AuditJob
  <2>5. JobTyped'
    BY <1>16, <2>1, JobGone, JobEnded DEF AuditJob, Template, JobTyped, FulfilmentTypeOK
  <2> QED
    BY <1>16, <2>4, <2>5 DEF AuditJob, ComplaintsKept
<1>17. ASSUME NEW j \in OrderRequests, NotifyJob(j) PROVE Goal
  <2>1. job[j].order \in Orders /\ Template[job[j].op] \in Templates
    BY <1>17, JobRow DEF NotifyJob, Template, Templates
  <2>2. TablesTyped'
    BY <1>17, <2>1, Notified DEF NotifyJob
  <2>3. JobTyped'
    BY <1>17, JobEnded DEF NotifyJob, JobTyped, FulfilmentTypeOK
  <2> QED
    BY <1>17, <2>2, <2>3 DEF NotifyJob, ComplaintsKept
<1> QED
  BY <1>1, <1>2, <1>4, <1>5, <1>6, <1>7, <1>8, <1>9, <1>10, <1>11, <1>12,
     <1>13, <1>14, <1>15, <1>16, <1>17
  DEF FulfilmentNext, FulfilmentWork, JobStep

-----------------------------------------------------------------------------
(* Complaint requests                                                      *)

(* A complaint request may become any well-formed request,                 *)
LEMMA DeskSet ==
  ASSUME DeskTyped, NEW d \in DeskRequests, NEW task, DeskFits(task),
         desk' = [desk EXCEPT ![d] = task], ComplaintsKept, PaymentsKept
  PROVE  DeskTyped'
BY DEF DeskTyped, DeskFits, DisputesTypeOK, ComplaintsKept, PaymentsKept, Exists

(* end,                                                                    *)
LEMMA DeskEnded ==
  ASSUME DeskTyped, NEW d \in DeskRequests, DeskEnd(d), ComplaintsKept, PaymentsKept
  PROVE  DeskTyped'
<1>1. DeskFits(DeskIdle)
  BY DEF DeskFits, DeskIdle, Desk, DeskStages
<1> QED
  BY <1>1, DeskSet DEF DeskEnd

(* or go on to its next await.                                             *)
LEMMA DeskGone ==
  ASSUME DeskTyped, NEW d \in DeskRequests, NEW stage, DeskGoto(d, stage),
         stage \in DeskStages \ {"idle", "resolve", "returnMoney"},
         stage = "markRefunded" => desk[d].at = "returnMoney",
         desk[d].at # "idle", ComplaintsKept, PaymentsKept
  PROVE  DeskTyped'
<1> DEFINE task == [desk[d] EXCEPT !.at = stage]
<1>1. desk[d] \in Desk /\ DeskFits(desk[d])
  BY DEF DeskTyped, DisputesTypeOK
<1>2. DeskFits(task)
  BY <1>1 DEF DeskFits, Desk
<1>3. desk' = [desk EXCEPT ![d] = task]
  BY DEF DeskGoto, DeskTyped, DisputesTypeOK
<1> QED
  BY <1>2, <1>3, DeskSet

(* The rows of a request that is past its first step.                      *)
LEMMA DeskRow ==
  ASSUME TablesTyped, DeskTyped, NEW d \in DeskRequests, desk[d].at # "idle"
  PROVE  /\ desk[d].complaint \in Complaints
         /\ complaint[desk[d].complaint].status # "absent"
         /\ OrderOf(d) \in Orders
         /\ desk[d].at = "resolve" => desk[d].outcome \in Resolutions
         /\ desk[d].at \in {"returnMoney", "markRefunded"} => desk[d].token \in Tokens
BY DEF TablesTyped, DeskTyped, DeskFits, OrderOf

(* So does every step of ComplaintsService.                                *)
LEMMA DisputesTyped ==
  ASSUME TablesTyped, PayTyped, DeskTyped, DisputesNext
  PROVE  TablesTyped' /\ PayTyped' /\ DeskTyped'
<1> DEFINE Goal == TablesTyped' /\ PayTyped' /\ DeskTyped'
<1>1. ASSUME NEW d \in DeskRequests, NEW task, DeskFits(task),
             desk' = [desk EXCEPT ![d] = task], UNCHANGED <<tables, checkoutVars>>
      PROVE  Goal
  BY <1>1, DeskSet, Framed DEF tables, checkoutVars
<1>2. ASSUME NEW d \in DeskRequests, NEW k \in Complaints, BeginInvestigate(d, k)
      PROVE  Goal
  <2>1. DeskFits([DeskIdle EXCEPT !.at = "investigate", !.complaint = k])
    BY <1>2 DEF BeginInvestigate, DeskFits, DeskIdle, Desk, DeskStages
  <2> QED
    BY <1>1, <1>2, <2>1 DEF BeginInvestigate
<1>3. ASSUME NEW d \in DeskRequests, NEW k \in Complaints,
             NEW outcome \in Resolutions, BeginResolve(d, k, outcome)
      PROVE  Goal
  <2>1. DeskFits([DeskIdle EXCEPT !.at = "resolve", !.complaint = k, !.outcome = outcome])
    BY <1>3 DEF BeginResolve, DeskFits, DeskIdle, Desk, DeskStages
  <2> QED
    BY <1>1, <1>3, <2>1 DEF BeginResolve
<1>4. ASSUME NEW d \in DeskRequests, NEW k \in Complaints, BeginRefund(d, k)
      PROVE  Goal
  <2>1. DeskFits([DeskIdle EXCEPT !.at = "findPayment", !.complaint = k])
    BY <1>4 DEF BeginRefund, DeskFits, DeskIdle, Desk, DeskStages
  <2> QED
    BY <1>1, <1>4, <2>1 DEF BeginRefund
<1>5. ASSUME NEW d \in DeskRequests, NEW s \in ComplaintStatus \ {"absent"},
             complaint' = [complaint EXCEPT ![desk[d].complaint].status = s],
             desk[d].at # "idle", UNCHANGED <<order, notices, audit>>
      PROVE  TablesTyped' /\ ComplaintsKept
  <2>1. desk[d].complaint \in Complaints /\ complaint[desk[d].complaint].status # "absent"
    BY <1>5, DeskRow
  <2>2. complaint' \in [Complaints -> ComplaintRow]
    BY <1>5, <2>1 DEF TablesTyped, TablesTypeOK, ComplaintRow
  <2>3. \A k \in Complaints :
          /\ complaint'[k].order = complaint[k].order
          /\ complaint'[k].status = IF k = desk[d].complaint THEN s ELSE complaint[k].status
    BY <1>5, <2>1 DEF TablesTyped, TablesTypeOK, ComplaintRow
  <2> QED
    BY <1>5, <2>1, <2>2, <2>3 DEF TablesTyped, TablesTypeOK, ComplaintsKept
<1>6. ASSUME NEW d \in DeskRequests, Investigate(d) PROVE Goal
  <2> DEFINE status == "investigating"
  <2>0. status \in ComplaintStatus \ {"absent"}
    BY DEF ComplaintStatus
  <2>1. TablesTyped' /\ ComplaintsKept
    BY <1>5, <1>6, <2>0 DEF Investigate
  <2>2. DeskTyped'
    BY <1>6, <2>1, DeskGone, Framed
    DEF Investigate, DeskStages, tables, checkoutVars
  <2> QED
    BY <1>6, <2>1, <2>2, Framed DEF Investigate
<1>7. ASSUME NEW d \in DeskRequests, Resolve(d) PROVE Goal
  <2>1. desk[d].outcome \in ComplaintStatus \ {"absent"}
    BY <1>7, DeskRow DEF Resolve, Resolutions, ComplaintStatus
  <2>2. TablesTyped' /\ ComplaintsKept
    BY <1>5, <1>7, <2>1 DEF Resolve
  <2>3. DeskTyped'
    BY <1>7, <2>2, DeskGone, Framed
    DEF Resolve, DeskStages, tables, checkoutVars
  <2> QED
    BY <1>7, <2>2, <2>3, Framed DEF Resolve
<1>8. ASSUME NEW d \in DeskRequests, ReadDisputed(d) PROVE Goal
  <2> DEFINE task == [desk[d] EXCEPT !.at = "notify",
                        !.disputed = (order[OrderOf(d)].status = "disputed")]
  <2>1. desk[d] \in Desk /\ DeskFits(desk[d])
    BY DEF DeskTyped, DisputesTypeOK
  <2>2. DeskFits(task)
    BY <1>8, <2>1 DEF ReadDisputed, DeskFits, Desk, DeskStages
  <2>3. desk' = [desk EXCEPT ![d] = task]
    BY <1>8 DEF ReadDisputed, DeskTyped, DisputesTypeOK
  <2> QED
    BY <1>1, <1>8, <2>2, <2>3 DEF ReadDisputed
<1>9. ASSUME NEW d \in DeskRequests, NotifyResolved(d) PROVE Goal
  <2>1. TablesTyped'
    BY <1>9, DeskRow, Notified DEF NotifyResolved, Templates
  <2>2. DeskTyped'
    BY <1>9, DeskGone, DeskEnded, Framed
    DEF NotifyResolved, DeskStages, tables, checkoutVars
  <2> QED
    BY <1>9, <2>1, <2>2, Framed DEF NotifyResolved
<1>10. ASSUME NEW d \in DeskRequests, CloseDispute(d) \/ RefundOrder(d) PROVE Goal
  <2>1. TablesTyped'
    BY <1>10, DeskRow, StatusSet DEF CloseDispute, RefundOrder, OrderStatus
  <2>2. DeskTyped'
    BY <1>10, DeskGone, Framed
    DEF CloseDispute, RefundOrder, DeskStages, tables, checkoutVars
  <2> QED
    BY <1>10, <2>1, <2>2, Framed DEF CloseDispute, RefundOrder
<1>11. ASSUME NEW d \in DeskRequests, FindPayment(d) PROVE Goal
  <2>1. CASE DeskEnd(d)
    BY <1>11, <2>1, DeskEnded, Framed DEF FindPayment, tables, checkoutVars
  <2>2. ASSUME NEW t \in Tokens,
               Exists(t),
               desk' = [desk EXCEPT ![d].at = "returnMoney", ![d].token = t]
        PROVE  Goal
    <3> DEFINE task == [desk[d] EXCEPT !.at = "returnMoney", !.token = t]
    <3>1. desk[d] \in Desk /\ DeskFits(desk[d])
      BY DEF DeskTyped, DisputesTypeOK
    <3>2. DeskFits(task)
      BY <1>11, <2>2, <3>1 DEF FindPayment, DeskFits, Desk, DeskStages
    <3>3. desk' = [desk EXCEPT ![d] = task]
      BY <2>2 DEF DeskTyped, DisputesTypeOK
    <3> QED
      BY <1>1, <1>11, <3>2, <3>3 DEF FindPayment
  <2> QED
    BY <1>11, <2>1, <2>2 DEF FindPayment, Refundable, Exists
<1>12. ASSUME NEW d \in DeskRequests, ReturnMoney(d) PROVE Goal
  <2>1. PayTyped'
    BY <1>12 DEF ReturnMoney, PayTyped, PayFits, CheckoutTypeOK, Exists
  <2>2. DeskTyped'
    BY <1>12, DeskGone, DeskEnded, Framed
    DEF ReturnMoney, DeskStages, tables, checkoutVars
  <2> QED
    BY <1>12, <2>1, <2>2, Framed DEF ReturnMoney
<1>13. ASSUME NEW d \in DeskRequests, MarkRefunded(d) PROVE Goal
  <2>1. desk[d].token \in Tokens /\ Exists(desk[d].token)
    BY <1>13 DEF MarkRefunded, DeskTyped, DeskFits
  <2>2. payment' \in [Tokens -> PaymentRow]
    BY <1>13, <2>1 DEF MarkRefunded, PayTyped, CheckoutTypeOK, PaymentRow
  <2>3. \A t \in Tokens : /\ payment'[t].order = payment[t].order
                          /\ Exists(t) <=> payment'[t].status # "absent"
    BY <1>13, <2>1 DEF MarkRefunded, PayTyped, CheckoutTypeOK, PaymentRow, Exists
  <2>4. PayTyped'
    BY <1>13, <2>2, <2>3 DEF MarkRefunded, PayTyped, PayFits, CheckoutTypeOK, Exists
  <2>5. DeskTyped'
    BY <1>13, <2>3, DeskGone, Framed DEF MarkRefunded, DeskStages, PaymentsKept, tables
  <2> QED
    BY <1>13, <2>4, <2>5, Framed DEF MarkRefunded
<1>14. ASSUME NEW d \in DeskRequests, ReadRefunded(d) PROVE Goal
  <2>1. DeskTyped'
    BY <1>14, DeskGone, Framed
    DEF ReadRefunded, DeskStages, tables, checkoutVars
  <2> QED
    BY <1>14, <2>1, Framed DEF ReadRefunded
<1>15. ASSUME NEW d \in DeskRequests, AuditDesk(d) PROVE Goal
  <2>1. DeskRecord(desk[d].at, OrderOf(d), desk[d].complaint)
          \in AuditActions \X (Orders \cup Partners \cup Complaints)
    BY <1>15, DeskRow DEF AuditDesk, DeskRecord, AuditActions
  <2>2. TablesTyped'
    BY <1>15, <2>1 DEF AuditDesk, TablesTyped, TablesTypeOK
  <2>3. DeskTyped'
    BY <1>15, DeskGone, DeskEnded, Framed
    DEF AuditDesk, DeskStages, tables, checkoutVars
  <2> QED
    BY <1>15, <2>2, <2>3, Framed DEF AuditDesk
<1>16. ASSUME NEW d \in DeskRequests, AbortDesk(d) PROVE Goal
  BY <1>16, DeskEnded, Framed DEF AbortDesk, tables, checkoutVars
<1> QED
  BY <1>2, <1>3, <1>4, <1>6, <1>7, <1>8, <1>9, <1>10, <1>11, <1>12, <1>13,
     <1>14, <1>15, <1>16
  DEF DisputesNext, DisputesWork, DeskStep

-----------------------------------------------------------------------------
(* Sweeps                                                                  *)

(* A sweep goes on with its list.                                          *)
LEMMA SweepAdvanced ==
  ASSUME SweepsTypeOK, NEW o \in Orders, SweepNext(o)
  PROVE  SweepsTypeOK'
BY DEF SweepsTypeOK, SweepNext, Sweep, SweepIdle

(* A payout is counted for its order and partner.                          *)
LEMMA PayoutCreated ==
  ASSUME JobTyped, NEW o \in Orders, NEW p \in Partners \cup {None}, CreatePayout(o, p),
         UNCHANGED <<partner, photos, job>>
  PROVE  JobTyped'
<1>1. CASE p = None
  BY <1>1, Framed DEF CreatePayout, fulfilmentVars
<1>2. CASE p # None
  <2>1. payouts' = [payouts EXCEPT ![o] = [payouts[o] EXCEPT ![p] = payouts[o][p] + 1]]
    BY <1>2 DEF CreatePayout, JobTyped, FulfilmentTypeOK
  <2>2. [payouts[o] EXCEPT ![p] = payouts[o][p] + 1] \in [Partners -> Nat]
    BY <1>2 DEF JobTyped, FulfilmentTypeOK
  <2>3. payouts' \in [Orders -> [Partners -> Nat]]
    BY <2>1, <2>2 DEF JobTyped, FulfilmentTypeOK
  <2> QED
    BY <2>3 DEF JobTyped, JobFits, FulfilmentTypeOK
<1> QED
  BY <1>1, <1>2

(* So does every step of SlaService.                                       *)
LEMMA SweepsTyped ==
  ASSUME TablesTyped, JobTyped, SweepsTypeOK, SweepsNext
  PROVE  TablesTyped' /\ JobTyped' /\ SweepsTypeOK' /\ UNCHANGED complaint
<1> DEFINE Goal == TablesTyped' /\ JobTyped' /\ SweepsTypeOK' /\ UNCHANGED complaint
<1>1. ASSUME NEW which \in Sweeps, BeginSweep(which) PROVE Goal
  <2>1. \A o \in Orders : order[o].partner \in Partners \cup {None}
    BY DEF TablesTyped, TablesTypeOK, OrderRow
  <2>2. SweepsTypeOK'
    BY <1>1, <2>1 DEF BeginSweep, SweepsTypeOK, Sweep
  <2> QED
    BY <1>1, <2>2, Framed DEF BeginSweep, tables
<1>2. ASSUME NEW o \in Orders, CancelUnpaid(o) PROVE Goal
  <2>1. SweepsTypeOK'
    BY <1>2 DEF CancelUnpaid, SweepsTypeOK, Sweep
  <2> QED
    BY <1>2, <2>1, StatusSet, Framed DEF CancelUnpaid, OrderStatus
<1>3. ASSUME NEW o \in Orders, AutoClose(o) PROVE Goal
  <2>1. SweepsTypeOK' /\ sla.owed[o] \in Partners \cup {None}
    BY <1>3 DEF AutoClose, SweepsTypeOK, Sweep
  <2>2. JobTyped'
    BY <1>3, <2>1, PayoutCreated, Framed DEF AutoClose, fulfilmentVars
  <2> QED
    BY <1>3, <2>1, <2>2, StatusSet DEF AutoClose, OrderStatus
<1>4. ASSUME NEW o \in Orders, AuditSweep(o) PROVE Goal
  BY <1>4, SweepAdvanced, Audited, Framed DEF AuditSweep, AuditActions
<1>5. ASSUME NEW o \in Orders, NotifySweep(o) PROVE Goal
  BY <1>5, SweepAdvanced, Notified, Framed DEF NotifySweep, Templates
<1>6. ASSUME AbortSweep PROVE Goal
  <2>1. SweepsTypeOK'
    BY <1>6 DEF AbortSweep, SweepsTypeOK, Sweep, SweepIdle
  <2> QED
    BY <1>6, <2>1, Framed DEF AbortSweep, tables
<1> QED
  BY <1>1, <1>2, <1>3, <1>4, <1>5, <1>6 DEF SweepsNext, SweepsWork, SweepStep

-----------------------------------------------------------------------------
(* The whole system                                                        *)

(* The initial rows and requests are well formed.                          *)
LEMMA TypeInvInit == Init => TypeInv
<1> SUFFICES ASSUME Init PROVE TypeInv
  OBVIOUS
<1>1. TablesTyped
  BY NullAssumption
  DEF Init, TablesInit, TablesTyped, TablesTypeOK, OrderRow, OrderStatus,
      ComplaintRow, ComplaintStatus
<1>2. PayTyped
  BY DEF Init, CheckoutInit, PayTyped, PayFits, CheckoutTypeOK, Exists, PaymentRow,
         PayTask, PayStages, PayIdle
<1>3. JobTyped
  BY DEF Init, FulfilmentInit, JobTyped, JobFits, FulfilmentTypeOK, PartnerStatus,
         Job, JobIdle
<1>4. DeskTyped
  BY DEF Init, DisputesInit, DeskTyped, DeskFits, DisputesTypeOK, Desk, DeskStages,
         DeskIdle
<1>5. SweepsTypeOK
  BY DEF Init, SweepsInit, SweepsTypeOK, Sweep, SweepIdle
<1> QED
  BY <1>1, <1>2, <1>3, <1>4, <1>5 DEF TypeInv

(* Every step keeps them so.                                               *)
LEMMA TypeInvStep == TypeInv /\ [Next]_vars => TypeInv'
<1> SUFFICES ASSUME TypeInv, [Next]_vars PROVE TypeInv'
  OBVIOUS
<1> USE DEF TypeInv
<1>1. CASE CheckoutNext /\ PaymentsFrame
  BY <1>1, CheckoutTyped, Framed DEF PaymentsFrame
<1>2. CASE DisputesNext /\ DeskFrame
  BY <1>2, DisputesTyped, Framed DEF DeskFrame
<1>3. CASE FulfilmentNext /\ OrdersFrame
  BY <1>3, FulfilmentTyped, Framed DEF OrdersFrame, checkoutVars
<1>4. CASE SweepsNext /\ SlaFrame
  BY <1>4, SweepsTyped, Framed DEF SlaFrame, checkoutVars
<1>5. ASSUME NEW o \in Orders, Elapse(o), ClockFrame PROVE TypeInv'
  <2>1. TablesTyped' /\ UNCHANGED complaint
    BY <1>5 DEF Elapse, TablesTyped, TablesTypeOK, OrderRow
  <2> QED
    BY <1>5, <2>1, Framed DEF ClockFrame, checkoutVars
<1>6. CASE UNCHANGED vars
  BY <1>6, Framed DEF vars, tables, checkoutVars
<1> QED
  BY <1>1, <1>2, <1>3, <1>4, <1>5, <1>6 DEF Next

(* Every row and every request is well formed in every reachable state.    *)
THEOREM WellFormed == Spec => []TypeInv
BY TypeInvInit, TypeInvStep, PTL DEF Spec

(* Every row and every request has its type in every reachable state: no   *)
(* service ever writes a record for an order, a payment or a complaint it  *)
(* does not have (payments.service.ts:441-446, complaints.service.ts:219). *)
THEOREM TypeCorrect == Spec => []TypeOK
<1>1. TypeInv => TypeOK
  BY DEF TypeInv, TypeOK, TablesTyped, PayTyped, JobTyped, DeskTyped
<1> QED
  BY <1>1, WellFormed, PTL
=============================================================================
