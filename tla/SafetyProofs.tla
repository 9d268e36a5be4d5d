---------------------------- MODULE SafetyProofs ----------------------------
(***************************************************************************)
(* The safety properties of Marketplace, for any number of orders,         *)
(* partners, complaints, tokens and overlapping requests.  Handlers write  *)
(* on stale reads, so no status is stable; the argument is that what a     *)
(* status stands for is never taken back (NothingTakenBack), so that a     *)
(* request may rely on it for as long as it takes (ClaimsInv).             *)
(***************************************************************************)
EXTENDS TypeProofs

-----------------------------------------------------------------------------
(* Money                                                                   *)

(* At the start no request rests on a form, and no form is paid.           *)
LEMMA MoneyInvInit == Init => MoneyInv
BY DEF Init, CheckoutInit, MoneyInv, FormsTell, PayClaim, Paid, Exists, PayIdle

(* A request that is past its first step knows its form.                   *)
LEMMA PayFacts ==
  ASSUME PayTyped, NEW r \in PayRequests
  PROVE  /\ pay[r].at \in {"record", "pay", "confirm", "audit", "notify", "mark"}
              => pay[r].token \in Tokens
         /\ pay[r].at \in {"pay", "confirm", "audit", "notify", "mark"}
              => Exists(pay[r].token)
BY DEF PayTyped, PayFits

(* The steps of PaymentsService.                                           *)
LEMMA CheckoutMoney ==
  ASSUME PayTyped, PayTyped', MoneyInv, CheckoutNext
  PROVE  MoneyInv'
<1> USE DEF MoneyInv, FormsTell, PayClaim, Paid, PayTyped, CheckoutTypeOK, tables
<1>1. ASSUME NEW r \in PayRequests, NEW o \in Orders, BeginIntent(r, o)
      PROVE  MoneyInv'
  BY <1>1 DEF BeginIntent, PayIdle, Exists
<1>2. ASSUME NEW r \in PayRequests, NEW t \in Tokens, InitializeForm(r, t)
      PROVE  MoneyInv'
  <2>1. \A u \in Tokens : form'[u] = IF u = t THEN "open" ELSE form[u]
    BY <1>2 DEF InitializeForm
  <2>2. \A i \in PayRequests :
          IF i = r THEN pay'[i].at = "record" /\ pay'[i].token = t
                   ELSE pay'[i] = pay[i]
    BY <1>2 DEF InitializeForm, PayTask
  <2>3. UNCHANGED <<payment, posted, processed>> /\ form[t] = "none"
    BY <1>2 DEF InitializeForm
  <2>4. \A i \in PayRequests : i # r /\ pay[i].at = "record" => pay[i].token # t
    BY <2>3
  <2>5. FormsTell'
    BY <2>1, <2>2, <2>3, <2>4 DEF Exists
  <2>6. ASSUME NEW i \in PayRequests PROVE PayClaim(i)'
    <3>1. CASE i = r
      BY <2>1, <2>2, <2>3, <3>1 DEF Exists
    <3>2. CASE i # r
      <4>1. pay'[i] = pay[i] /\ PayClaim(i)
        BY <2>2, <3>2
      <4>2. pay[i].at \in {"record", "pay", "confirm", "audit", "notify", "mark"} =>
              pay[i].token \in Tokens /\ pay[i].token # t
        BY <2>3, <2>4, <3>2, PayFacts
      <4> QED
        BY <2>1, <2>3, <4>1, <4>2 DEF Exists
    <3> QED
      BY <3>1, <3>2
  <2> QED
    BY <2>5, <2>6
<1>3. ASSUME NEW r \in PayRequests, RefuseForm(r) \/ AbortPay(r)
      PROVE  MoneyInv'
  BY <1>3 DEF RefuseForm, AbortPay, PayEnd, PayIdle, Exists
<1>4. ASSUME NEW r \in PayRequests, RecordIntent(r)
      PROVE  MoneyInv'
  BY <1>4 DEF RecordIntent, PayEnd, PayIdle, Exists
<1>5. ASSUME NEW t \in Tokens, PayForm(t) \/ DeclineForm(t)
      PROVE  MoneyInv'
  <2>1. \A u \in Tokens : form'[u] = form[u] \/ (u = t /\ form'[u] = "paid")
    BY <1>5 DEF PayForm, DeclineForm
  <2>2. <<t, "succeeded">> \in posted' \ posted => form'[t] = "paid"
    BY <1>5 DEF PayForm, DeclineForm
  <2>3. \A u \in Tokens : u # t => (<<u, "succeeded">> \in posted' => <<u, "succeeded">> \in posted)
    BY <1>5 DEF PayForm, DeclineForm
  <2>4. Exists(t) /\ form[t] = "open" /\ UNCHANGED <<payment, processed, pay>>
    BY <1>5 DEF PayForm, DeclineForm
  <2> QED
    BY <2>1, <2>2, <2>3, <2>4, PayFacts DEF Exists
<1>6. ASSUME NEW r \in PayRequests, NEW t \in Tokens, Callback(r, t)
      PROVE  MoneyInv'
  BY <1>6 DEF Callback, PayIdle, Exists
<1>7. ASSUME NEW r \in PayRequests, NEW t \in Tokens, NEW outcome \in Outcomes,
             Webhook(r, t, outcome)
      PROVE  MoneyInv'
  BY <1>7 DEF Webhook, PayIdle, Exists
<1>8. ASSUME NEW r \in PayRequests, FinalizeRow(r)
      PROVE  MoneyInv'
  <2>1. \A t \in Tokens : Exists(t) <=> payment'[t].status # "absent"
    BY <1>8, PayRow DEF FinalizeRow, PaymentRow, Exists, Outcomes
  <2>2. \A i \in PayRequests \ {r} : pay'[i] = pay[i]
    BY <1>8 DEF FinalizeRow, PayGoto, PayEnd
  <2>3. \/ pay'[r] = PayIdle
        \/ pay'[r] = [pay[r] EXCEPT !.at = "confirm"] /\ pay[r].outcome = "succeeded"
        \/ pay'[r] = [pay[r] EXCEPT !.at = "mark"]
    BY <1>8 DEF FinalizeRow, PayGoto, PayEnd
  <2>4. /\ UNCHANGED <<form, posted, processed>>
        /\ pay[r].at = "pay" /\ pay[r] \in PayTask
    BY <1>8 DEF FinalizeRow
  <2>5. /\ pay'[r].at \in {"idle", "confirm", "mark"}
        /\ pay'[r].at # "idle" => pay'[r].token = pay[r].token /\ pay'[r].outcome = pay[r].outcome
        /\ pay'[r].at = "confirm" => pay[r].outcome = "succeeded"
    BY <2>3, <2>4 DEF PayIdle, PayTask
  <2> QED
    BY SMTT(30), <2>1, <2>2, <2>4, <2>5, PayFacts DEF Exists
<1>9. ASSUME NEW r \in PayRequests,
             ConfirmOrder(r) \/ AuditConfirm(r) \/ NotifyConfirm(r)
      PROVE  MoneyInv'
  <2>1. \A i \in PayRequests \ {r} : pay'[i] = pay[i]
    BY <1>9 DEF ConfirmOrder, AuditConfirm, NotifyConfirm, PayGoto, PayEnd
  <2>2. \/ pay'[r] = PayIdle
        \/ \E stage \in {"audit", "notify", "mark"} : pay'[r] = [pay[r] EXCEPT !.at = stage]
    BY <1>9 DEF ConfirmOrder, AuditConfirm, NotifyConfirm, PayGoto, PayEnd
  <2>3. /\ UNCHANGED <<payment, form, posted, processed>>
        /\ pay[r].at \in {"confirm", "audit", "notify"} /\ pay[r] \in PayTask
    BY <1>9 DEF ConfirmOrder, AuditConfirm, NotifyConfirm
  <2>4. /\ pay'[r].at \in {"idle", "audit", "notify", "mark"}
        /\ pay'[r].at # "idle" => pay'[r].token = pay[r].token /\ pay'[r].outcome = pay[r].outcome
    BY <2>2, <2>3 DEF PayIdle, PayTask
  <2> QED
    BY <2>1, <2>3, <2>4, PayFacts DEF Exists
<1>10. ASSUME NEW r \in PayRequests, MarkEvent(r)
       PROVE  MoneyInv'
  BY <1>10 DEF MarkEvent, PayEnd, PayIdle, Exists
<1> QED
  BY <1>1, <1>2, <1>3, <1>4, <1>5, <1>6, <1>7, <1>8, <1>9, <1>10
  DEF CheckoutNext, CheckoutWork, PayStep

(* The steps of ComplaintsService: money is returned from a paid form, and *)
(* a payment that exists is marked refunded.                               *)
LEMMA DisputesMoney ==
  ASSUME TablesTyped, PayTyped, DeskTyped, MoneyInv, DisputesNext
  PROVE  MoneyInv'
<1>1. UNCHANGED checkoutVars => MoneyInv'
  BY DEF MoneyInv, FormsTell, PayClaim, Paid, Exists, checkoutVars
<1>2. ASSUME NEW d \in DeskRequests, ReturnMoney(d)
      PROVE  MoneyInv'
  <2>1. \A t \in Tokens : \/ form'[t] = form[t]
                          \/ form[t] = "paid" /\ form'[t] = "returned"
    BY <1>2, DeskRow DEF ReturnMoney, PayTyped, CheckoutTypeOK
  <2>2. UNCHANGED <<payment, posted, processed, pay>>
    BY <1>2 DEF ReturnMoney
  <2> QED
    BY <2>1, <2>2, PayFacts DEF MoneyInv, FormsTell, PayClaim, Paid, Exists
<1>3. ASSUME NEW d \in DeskRequests, MarkRefunded(d)
      PROVE  MoneyInv'
  <2>1. desk[d].token \in Tokens /\ Exists(desk[d].token)
    BY <1>3 DEF MarkRefunded, DeskTyped, DeskFits
  <2>2. \A t \in Tokens : Exists(t) <=> payment'[t].status # "absent"
    BY <1>3, <2>1 DEF MarkRefunded, PayTyped, CheckoutTypeOK, PaymentRow, Exists
  <2>3. UNCHANGED <<form, posted, processed, pay>>
    BY <1>3 DEF MarkRefunded
  <2> QED
    BY <2>2, <2>3, PayFacts DEF MoneyInv, FormsTell, PayClaim, Paid, Exists
<1>4. ASSUME NEW d \in DeskRequests,
             \/ \E k \in Complaints :
                  \/ BeginInvestigate(d, k)
                  \/ \E outcome \in Resolutions : BeginResolve(d, k, outcome)
                  \/ BeginRefund(d, k)
             \/ Investigate(d) \/ Resolve(d) \/ ReadDisputed(d) \/ NotifyResolved(d)
             \/ CloseDispute(d) \/ FindPayment(d) \/ ReadRefunded(d) \/ RefundOrder(d)
             \/ AuditDesk(d) \/ AbortDesk(d)
      PROVE  UNCHANGED checkoutVars
  BY <1>4 DEF BeginInvestigate, BeginResolve, BeginRefund, Investigate, Resolve,
              ReadDisputed, NotifyResolved, CloseDispute, FindPayment, ReadRefunded,
              RefundOrder, AuditDesk, AbortDesk
<1> QED
  BY <1>1, <1>2, <1>3, <1>4 DEF DisputesNext, DisputesWork, DeskStep

(* Requests of other services leave the forms alone, or return paid money  *)
(* only.                                                                   *)
LEMMA MoneyInvStep ==
  ASSUME TypeInv, TypeInv', MoneyInv, [Next]_vars
  PROVE  MoneyInv'
<1>1. UNCHANGED checkoutVars => MoneyInv'
  BY DEF MoneyInv, FormsTell, PayClaim, Paid, Exists, checkoutVars
<1>2. CASE CheckoutNext
  BY <1>2, CheckoutMoney DEF TypeInv
<1>3. CASE DisputesNext
  BY <1>3, DisputesMoney DEF TypeInv
<1>4. CASE ~CheckoutNext /\ ~DisputesNext
  <2>1. UNCHANGED checkoutVars
    BY <1>4 DEF Next, vars, OrdersFrame, SlaFrame, ClockFrame
  <2> QED
    BY <1>1, <2>1
<1> QED
  BY <1>2, <1>3, <1>4

-----------------------------------------------------------------------------
(* Nothing is taken back                                                   *)

(* What the rows of payments give for orders.                              *)
PaymentFactsKept ==
  \A t \in Tokens :
    /\ Exists(t) => Exists(t)' /\ payment'[t].order = payment[t].order
    /\ Paid(t) => Paid(t)'
    /\ form[t] = "returned" => form'[t] = "returned"

(* A step of PaymentsService keeps payments with their orders, and paid    *)
(* forms paid; it returns no money.                                        *)
LEMMA CheckoutKeepsPayments ==
  ASSUME PayTyped, MoneyInv, CheckoutNext
  PROVE  PaymentFactsKept /\ \A t \in Tokens : form'[t] = "returned" => form[t] = "returned"
<1> DEFINE Goal == PaymentFactsKept
                     /\ \A t \in Tokens : form'[t] = "returned" => form[t] = "returned"
<1>1. ASSUME NEW r \in PayRequests, NEW t \in Tokens, InitializeForm(r, t) PROVE Goal
  BY <1>1 DEF InitializeForm, PaymentFactsKept, Paid, Exists, PayTyped, CheckoutTypeOK
<1>2. ASSUME NEW r \in PayRequests, RecordIntent(r) PROVE Goal
  <2>1. \A t \in Tokens : Exists(t) => payment'[t] = payment[t]
    BY <1>2 DEF RecordIntent, MoneyInv, PayClaim, PayTyped, CheckoutTypeOK
  <2> QED
    BY <1>2, <2>1 DEF RecordIntent, PaymentFactsKept, Paid, Exists
<1>3. ASSUME NEW t \in Tokens, PayForm(t) PROVE Goal
  BY <1>3 DEF PayForm, PaymentFactsKept, Paid, Exists, PayTyped, CheckoutTypeOK
<1>4. ASSUME NEW r \in PayRequests, FinalizeRow(r) PROVE Goal
  <2>1. \A t \in Tokens : /\ payment'[t].order = payment[t].order
                          /\ Exists(t) => payment'[t].status # "absent"
    BY <1>4, PayRow DEF FinalizeRow, PayTyped, CheckoutTypeOK, PaymentRow, Exists, Outcomes
  <2> QED
    BY <1>4, <2>1 DEF FinalizeRow, PaymentFactsKept, Paid, Exists
<1>5. UNCHANGED <<payment, form>> => Goal
  BY DEF PaymentFactsKept, Paid, Exists
<1>6. ASSUME NEW r \in PayRequests,
             \/ \E o \in Orders : BeginIntent(r, o)
             \/ \E t \in Tokens : Callback(r, t)
             \/ \E t \in Tokens, outcome \in Outcomes : Webhook(r, t, outcome)
             \/ RefuseForm(r) \/ ConfirmOrder(r) \/ AuditConfirm(r) \/ NotifyConfirm(r)
             \/ MarkEvent(r) \/ AbortPay(r)
      PROVE  UNCHANGED <<payment, form>>
  BY <1>6 DEF BeginIntent, Callback, Webhook, RefuseForm, ConfirmOrder, AuditConfirm,
              NotifyConfirm, MarkEvent, AbortPay
<1>7. ASSUME NEW t \in Tokens, DeclineForm(t) PROVE UNCHANGED <<payment, form>>
  BY <1>7 DEF DeclineForm
<1> QED
  BY <1>1, <1>2, <1>3, <1>4, <1>5, <1>6, <1>7 DEF CheckoutNext, CheckoutWork, PayStep

(* A step of ComplaintsService keeps payments with their orders; money it  *)
(* returns was paid.                                                       *)
LEMMA DisputesKeepPayments ==
  ASSUME TablesTyped, PayTyped, DeskTyped, MoneyInv, DisputesNext
  PROVE  PaymentFactsKept
<1>1. UNCHANGED <<payment, form>> => PaymentFactsKept
  BY DEF PaymentFactsKept, Paid, Exists
<1>2. ASSUME NEW d \in DeskRequests, ReturnMoney(d) PROVE PaymentFactsKept
  BY <1>2, DeskRow DEF ReturnMoney, PaymentFactsKept, Paid, Exists, PayTyped, CheckoutTypeOK
<1>3. ASSUME NEW d \in DeskRequests, MarkRefunded(d) PROVE PaymentFactsKept
  <2>1. \A t \in Tokens : /\ payment'[t].order = payment[t].order
                          /\ Exists(t) => payment'[t].status # "absent"
    BY <1>3, DeskRow DEF MarkRefunded, PayTyped, CheckoutTypeOK, PaymentRow, Exists
  <2> QED
    BY <1>3, <2>1 DEF MarkRefunded, PaymentFactsKept, Paid, Exists
<1>4. ASSUME NEW d \in DeskRequests,
             \/ \E k \in Complaints :
                  \/ BeginInvestigate(d, k)
                  \/ \E outcome \in Resolutions : BeginResolve(d, k, outcome)
                  \/ BeginRefund(d, k)
             \/ Investigate(d) \/ Resolve(d) \/ ReadDisputed(d) \/ NotifyResolved(d)
             \/ CloseDispute(d) \/ FindPayment(d) \/ ReadRefunded(d) \/ RefundOrder(d)
             \/ AuditDesk(d) \/ AbortDesk(d)
      PROVE  UNCHANGED <<payment, form>>
  BY <1>4 DEF BeginInvestigate, BeginResolve, BeginRefund, Investigate, Resolve,
              ReadDisputed, NotifyResolved, CloseDispute, FindPayment, ReadRefunded,
              RefundOrder, AuditDesk, AbortDesk, checkoutVars
<1> QED
  BY <1>1, <1>2, <1>3, <1>4 DEF DisputesNext, DisputesWork, DeskStep

(* What the writes on shared rows do.                                      *)
LEMMA StatusWritten ==
  ASSUME TablesTyped, NEW o \in Orders, NEW s, SetStatus(o, s)
  PROVE  \A i \in Orders :
           /\ order'[i].status = IF i = o THEN s ELSE order[i].status
           /\ order'[i].partner = order[i].partner
           /\ order'[i].completed = order[i].completed
BY DEF TablesTyped, TablesTypeOK, OrderRow, SetStatus

(* So do assign and complete, which write more than the status.            *)
LEMMA AssignWritten ==
  ASSUME TablesTyped, NEW j \in OrderRequests, Assign(j)
  PROVE  \A i \in Orders :
           /\ order'[i].status = IF i = job[j].order THEN "assigned" ELSE order[i].status
           /\ order'[i].partner = IF i = job[j].order THEN job[j].partner ELSE order[i].partner
           /\ order'[i].completed = order[i].completed
           /\ i # job[j].order => order'[i] = order[i]
<1> SUFFICES ASSUME NEW i \in Orders
             PROVE  /\ order'[i].status = IF i = job[j].order THEN "assigned" ELSE order[i].status
                    /\ order'[i].partner = IF i = job[j].order THEN job[j].partner
                                                               ELSE order[i].partner
                    /\ order'[i].completed = order[i].completed
                    /\ i # job[j].order => order'[i] = order[i]
  OBVIOUS
<1>1. order \in [Orders -> OrderRow]
  BY DEF TablesTyped, TablesTypeOK
<1>2. order'[i] = IF i = job[j].order
                    THEN [order[i] EXCEPT !.status = "assigned", !.partner = job[j].partner,
                                          !.age = "fresh"]
                    ELSE order[i]
  BY <1>1 DEF Assign
<1> QED
  BY <1>1, <1>2 DEF OrderRow

LEMMA CompleteWritten ==
  ASSUME TablesTyped, NEW j \in OrderRequests, Complete(j)
  PROVE  \A i \in Orders :
           /\ order'[i].status = IF i = job[j].order THEN "completed_pending_approval"
                                                     ELSE order[i].status
           /\ order'[i].partner = order[i].partner
           /\ order'[i].completed = (i = job[j].order \/ order[i].completed)
           /\ i # job[j].order => order'[i] = order[i]
<1> SUFFICES ASSUME NEW i \in Orders
             PROVE  /\ order'[i].status = IF i = job[j].order THEN "completed_pending_approval"
                                                              ELSE order[i].status
                    /\ order'[i].partner = order[i].partner
                    /\ order'[i].completed = (i = job[j].order \/ order[i].completed)
                    /\ i # job[j].order => order'[i] = order[i]
  OBVIOUS
<1>1. order \in [Orders -> OrderRow]
  BY DEF TablesTyped, TablesTypeOK
<1>2. order'[i] = IF i = job[j].order
                    THEN [order[i] EXCEPT !.status = "completed_pending_approval",
                                          !.completed = TRUE, !.age = "fresh"]
                    ELSE order[i]
  BY <1>1 DEF Complete
<1> QED
  BY <1>1, <1>2 DEF OrderRow

(* Audit records and notification rows are only added.                     *)
LEMMA RecordsAdded ==
  /\ \A action, e : Audit(action, e) => audit \subseteq audit'
  /\ \A template, o : Notify(template, o) => notices \subseteq notices'
BY DEF Audit, Notify

RowFactsKept ==
  /\ \A o \in Orders : /\ order[o].completed => order'[o].completed
                       /\ Photographed(o) => Photographed(o)'
  /\ \A p \in Partners : Vetted(p) => Vetted(p)'
  /\ \A k \in Complaints :
       /\ complaint[k].status # "absent" => complaint'[k].order = complaint[k].order
       /\ TakenUp(k) => TakenUp(k)'
  /\ audit \subseteq audit'
  /\ notices \subseteq notices'

(* A step of PaymentsService keeps the other facts.                        *)
LEMMA CheckoutKeepsRows ==
  ASSUME TablesTyped, PayTyped, CheckoutNext, UNCHANGED fulfilmentVars
  PROVE  RowFactsKept
<1> USE DEF RowFactsKept, Photographed, Vetted, TakenUp, fulfilmentVars
<1>1. UNCHANGED tables => RowFactsKept
  BY DEF tables
<1>2. ASSUME NEW r \in PayRequests, RecordIntent(r) PROVE RowFactsKept
  <2>1. pay[r].order \in Orders
    BY <1>2 DEF RecordIntent, PayTyped, PayFits
  <2> QED
    BY <1>2, <2>1, StatusWritten DEF RecordIntent
<1>3. ASSUME NEW r \in PayRequests, ConfirmOrder(r) PROVE RowFactsKept
  BY <1>3, PayRow, StatusWritten DEF ConfirmOrder
<1>4. ASSUME NEW r \in PayRequests, AuditConfirm(r) \/ NotifyConfirm(r)
      PROVE  RowFactsKept
  BY <1>4, RecordsAdded DEF AuditConfirm, NotifyConfirm
<1>5. ASSUME NEW r \in PayRequests,
             \/ \E o \in Orders : BeginIntent(r, o)
             \/ \E t \in Tokens : InitializeForm(r, t) \/ Callback(r, t)
             \/ \E t \in Tokens, outcome \in Outcomes : Webhook(r, t, outcome)
             \/ RefuseForm(r) \/ FinalizeRow(r) \/ MarkEvent(r) \/ AbortPay(r)
      PROVE  UNCHANGED tables
  BY <1>5 DEF BeginIntent, InitializeForm, Callback, Webhook, RefuseForm, FinalizeRow,
              MarkEvent, AbortPay
<1>6. ASSUME NEW t \in Tokens, PayForm(t) \/ DeclineForm(t) PROVE UNCHANGED tables
  BY <1>6 DEF PayForm, DeclineForm
<1> QED
  BY <1>1, <1>2, <1>3, <1>4, <1>5, <1>6 DEF CheckoutNext, CheckoutWork, PayStep

(* So does a step of ComplaintsService.                                    *)
LEMMA DisputesKeepRows ==
  ASSUME TablesTyped, DeskTyped, DisputesNext, UNCHANGED fulfilmentVars
  PROVE  RowFactsKept
<1> USE DEF RowFactsKept, Photographed, Vetted, TakenUp, fulfilmentVars
<1>1. UNCHANGED tables => RowFactsKept
  BY DEF tables
<1>2. ASSUME NEW d \in DeskRequests, Investigate(d) \/ Resolve(d) PROVE RowFactsKept
  <2>1. /\ complaint \in [Complaints -> ComplaintRow]
        /\ desk[d].complaint \in Complaints
        /\ desk[d].at = "resolve" => desk[d].outcome \in Resolutions
    BY <1>2, DeskRow DEF TablesTyped, TablesTypeOK, Investigate, Resolve
  <2>2. \A k \in Complaints :
          /\ complaint'[k].order = complaint[k].order
          /\ complaint'[k].status \in
               {complaint[k].status, "investigating"} \cup Resolutions
    BY <1>2, <2>1 DEF Investigate, Resolve, ComplaintRow
  <2> QED
    BY <1>2, <2>2 DEF Investigate, Resolve, Resolutions
<1>3. ASSUME NEW d \in DeskRequests, CloseDispute(d) \/ RefundOrder(d) PROVE RowFactsKept
  BY <1>3, DeskRow, StatusWritten DEF CloseDispute, RefundOrder
<1>4. ASSUME NEW d \in DeskRequests, NotifyResolved(d) \/ AuditDesk(d) PROVE RowFactsKept
  BY <1>4, RecordsAdded DEF NotifyResolved, AuditDesk
<1>5. ASSUME NEW d \in DeskRequests,
             \/ \E k \in Complaints :
                  \/ BeginInvestigate(d, k)
                  \/ \E outcome \in Resolutions : BeginResolve(d, k, outcome)
                  \/ BeginRefund(d, k)
             \/ ReadDisputed(d) \/ FindPayment(d) \/ ReturnMoney(d) \/ MarkRefunded(d)
             \/ ReadRefunded(d) \/ AbortDesk(d)
      PROVE  UNCHANGED tables
  BY <1>5 DEF BeginInvestigate, BeginResolve, BeginRefund, ReadDisputed, FindPayment,
              ReturnMoney, MarkRefunded, ReadRefunded, AbortDesk
<1> QED
  BY <1>1, <1>2, <1>3, <1>4, <1>5 DEF DisputesNext, DisputesWork, DeskStep

(* So does a step of OrdersService: it adds photographs, decides on        *)
(* partners and inserts complaints.                                        *)
LEMMA FulfilmentKeepsRows ==
  ASSUME TablesTyped, JobTyped, FulfilmentNext
  PROVE  RowFactsKept
<1> USE DEF RowFactsKept, Photographed, Vetted, TakenUp
<1>1. UNCHANGED <<tables, partner, photos>> => RowFactsKept
  BY DEF tables
<1>2. ASSUME NEW o \in Orders, CreateOrder(o) PROVE RowFactsKept
  BY <1>2, StatusWritten DEF CreateOrder, fulfilmentVars
<1>3. ASSUME NEW p \in Partners, Onboard(p) PROVE RowFactsKept
  BY <1>3 DEF Onboard, tables, JobTyped, FulfilmentTypeOK
<1>4. ASSUME NEW j \in OrderRequests, Vet(j) PROVE RowFactsKept
  BY <1>4, JobRow DEF Vet, At, tables, JobTyped, FulfilmentTypeOK
<1>5. ASSUME NEW j \in OrderRequests, Assign(j) \/ Complete(j) PROVE RowFactsKept
  <2>1. UNCHANGED <<complaint, notices, audit, partner, photos>>
    BY <1>5 DEF Assign, Complete
  <2>2. \A o \in Orders : order[o].completed => order'[o].completed
    BY <1>5, AssignWritten, CompleteWritten
  <2> QED
    BY <2>1, <2>2
<1>6. ASSUME NEW j \in OrderRequests, Start(j) \/ Approve(j) PROVE RowFactsKept
  BY <1>6, JobRow, StatusWritten DEF Start, Approve, At
<1>7. ASSUME NEW j \in OrderRequests, StoreEvidence(j) PROVE RowFactsKept
  BY <1>7, JobRow DEF StoreEvidence, At, tables, JobTyped, FulfilmentTypeOK
<1>8. ASSUME NEW j \in OrderRequests, NEW k \in Complaints, Complain(j, k)
      PROVE  RowFactsKept
  <2>1. \A o \in Orders : order'[o].completed = order[o].completed
    BY <1>8, JobRow, StatusWritten DEF Complain, At
  <2>2. \A i \in Complaints : i # k => complaint'[i] = complaint[i]
    BY <1>8 DEF Complain, TablesTyped, TablesTypeOK
  <2> QED
    BY <1>8, <2>1, <2>2 DEF Complain
<1>9. ASSUME NEW j \in OrderRequests, AuditJob(j) \/ NotifyJob(j) \/ ReportForReview(j)
      PROVE  RowFactsKept
  BY <1>9, RecordsAdded DEF AuditJob, NotifyJob, ReportForReview
<1>10. ASSUME NEW j \in OrderRequests,
              \/ \E p \in Partners, d \in {"active", "rejected"} : BeginVet(j, p, d)
              \/ \E o \in Orders, p \in Partners :
                   \/ BeginAssign(j, o, p)
                   \/ BeginStart(j, o, p)
                   \/ \E kind \in PhotoKinds : BeginEvidence(j, o, p, kind)
                   \/ BeginComplete(j, o, p)
              \/ \E o \in Orders : BeginApprove(j, o) \/ BeginComplaint(j, o)
              \/ CheckPartner(j) \/ CheckPhotos(j) \/ AbortJob(j)
       PROVE  UNCHANGED <<tables, partner, photos>>
  BY <1>10 DEF BeginVet, BeginAssign, BeginStart, BeginEvidence, BeginComplete,
               BeginApprove, BeginComplaint, JobBegin, CheckPartner, CheckPhotos, AbortJob
<1> QED
  BY <1>1, <1>2, <1>3, <1>4, <1>5, <1>6, <1>7, <1>8, <1>9, <1>10
  DEF FulfilmentNext, FulfilmentWork, JobStep

(* So does a step of the SLA worker.                                       *)
LEMMA SweepsKeepRows ==
  ASSUME TablesTyped, SweepsTypeOK, SweepsNext
  PROVE  RowFactsKept
<1> USE DEF RowFactsKept, Photographed, Vetted, TakenUp, fulfilmentVars
<1>1. ASSUME NEW o \in Orders, CancelUnpaid(o) \/ AutoClose(o) PROVE RowFactsKept
  BY <1>1, StatusWritten DEF CancelUnpaid, AutoClose
<1>2. ASSUME NEW o \in Orders, AuditSweep(o) \/ NotifySweep(o) PROVE RowFactsKept
  BY <1>2, RecordsAdded DEF AuditSweep, NotifySweep
<1>3. ASSUME AbortSweep \/ \E which \in Sweeps : BeginSweep(which) PROVE RowFactsKept
  BY <1>3 DEF AbortSweep, BeginSweep, tables
<1> QED
  BY <1>1, <1>2, <1>3 DEF SweepsNext, SweepsWork, SweepStep

(* No step of any service takes back what the status of an order may stand *)
(* for, however its requests overlap.                                      *)
LEMMA Monotone ==
  ASSUME TypeInv, MoneyInv, [Next]_vars
  PROVE  NothingTakenBack
<1> USE DEF TypeInv
<1>1. PaymentFactsKept
  <2>1. UNCHANGED <<payment, form>> => PaymentFactsKept
    BY DEF PaymentFactsKept, Paid, Exists
  <2> QED
    BY <2>1, CheckoutKeepsPayments, DisputesKeepPayments
    DEF Next, vars, checkoutVars, OrdersFrame, SlaFrame, ClockFrame
<1>2. RowFactsKept
  <2>1. CASE UNCHANGED vars
    BY <2>1 DEF vars, tables, fulfilmentVars, RowFactsKept, Photographed, Vetted, TakenUp
  <2>2. ASSUME NEW o \in Orders, Elapse(o), ClockFrame PROVE RowFactsKept
    BY <2>2 DEF Elapse, ClockFrame, fulfilmentVars, RowFactsKept, Photographed, Vetted,
                TakenUp, TablesTyped, TablesTypeOK, OrderRow
  <2> QED
    BY <2>1, <2>2, CheckoutKeepsRows, DisputesKeepRows, FulfilmentKeepsRows,
       SweepsKeepRows
    DEF Next, PaymentsFrame, DeskFrame
<1>3. ASSUME NEW o \in Orders
      PROVE  (Charged(o) => Charged(o)') /\ (Returned(o) => Returned(o)')
  BY <1>1 DEF PaymentFactsKept, MoneyInv, FormsTell, Charged, Returned, Paid
<1>4. ASSUME NEW o \in Orders
      PROVE  (Complained(o) => Complained(o)') /\ (Examined(o) => Examined(o)')
  BY <1>2 DEF RowFactsKept, Complained, Examined, TablesTyped
<1>5. ASSUME NEW o \in Orders PROVE Evidenced(o) => Evidenced(o)'
  BY <1>2 DEF RowFactsKept, Evidenced, Photographed
<1> QED
  BY <1>1, <1>2, <1>3, <1>4, <1>5 DEF NothingTakenBack, PaymentFactsKept, RowFactsKept

-----------------------------------------------------------------------------
(* A claim survives every step that leaves its own row or request alone    *)

(* A new status that stands for something true keeps the claim of the      *)
(* order.                                                                  *)
LEMMA OrderClaimSet ==
  ASSUME NothingTakenBack, NEW o \in Orders, OrderClaim(o),
         order'[o].partner = order[o].partner,
         order'[o].completed = order[o].completed,
         order'[o].status \notin UnpaidStatus => Charged(o),
         order'[o].status \in DoneStatus => Evidenced(o),
         order'[o].status = "refunded" => Returned(o),
         order'[o].status = "disputed" => Complained(o)',
         order[o].partner \in Partners \cup {None}
  PROVE  OrderClaim(o)'
BY DEF OrderClaim, NothingTakenBack

(* An order that is not written keeps its claim.                           *)
LEMMA OrderClaimKept ==
  ASSUME TablesTyped, NothingTakenBack, NEW o \in Orders, OrderClaim(o),
         order'[o] = order[o]
  PROVE  OrderClaim(o)'
<1>1. order[o].partner \in Partners \cup {None}
  BY DEF TablesTyped, TablesTypeOK, OrderRow
<1>2. order[o].status = "disputed" => Complained(o)'
  BY DEF OrderClaim, NothingTakenBack
<1> QED
  BY <1>1, <1>2, OrderClaimSet DEF OrderClaim

(* So does a payout,                                                       *)
LEMMA PayoutClaimKept ==
  ASSUME NothingTakenBack, NEW o \in Orders, PayoutClaim(o), payouts'[o] = payouts[o]
  PROVE  PayoutClaim(o)'
BY DEF PayoutClaim, NothingTakenBack, Done

(* the returned money, when none is returned,                              *)
LEMMA ReturnClaimKept ==
  ASSUME NothingTakenBack, MoneyInv, NEW o \in Orders, ReturnClaim(o),
         \A t \in Tokens : form'[t] = "returned" => form[t] = "returned"
  PROVE  ReturnClaim(o)'
<1>1. Returned(o)' => Returned(o)
  BY DEF Returned, NothingTakenBack, MoneyInv, FormsTell, Paid
<1> QED
  BY <1>1 DEF ReturnClaim, NothingTakenBack

(* an order request,                                                       *)
LEMMA JobClaimKept ==
  ASSUME JobTyped, NothingTakenBack, NEW j \in OrderRequests, JobClaim(j),
         job'[j] = job[j]
  PROVE  JobClaim(j)'
BY JobRow DEF JobClaim, NothingTakenBack, Done

(* a complaint request,                                                    *)
LEMMA DeskClaimKept ==
  ASSUME TablesTyped, DeskTyped, NothingTakenBack, NEW d \in DeskRequests, DeskClaim(d),
         desk'[d] = desk[d]
  PROVE  DeskClaim(d)'
<1>1. CASE desk[d].at = "idle"
  BY <1>1 DEF DeskClaim
<1>2. CASE desk[d].at # "idle"
  <2>1. OrderOf(d)' = OrderOf(d) /\ OrderOf(d) \in Orders /\ desk[d].complaint \in Complaints
    BY <1>2, DeskRow DEF OrderOf, NothingTakenBack
  <2>2. desk[d].at \in {"returnMoney", "markRefunded"} =>
          desk[d].token \in Tokens /\ Exists(desk[d].token)
    BY DEF DeskTyped, DeskFits
  <2> QED
    BY <2>1, <2>2 DEF DeskClaim, NothingTakenBack, Done
<1> QED
  BY <1>1, <1>2

(* and a sweep that goes on with its list.                                 *)
LEMMA SlaClaimKept ==
  ASSUME SweepsTypeOK, NothingTakenBack, SlaClaim,
         sla'.job = sla.job, sla'.todo \subseteq sla.todo, sla'.owed = sla.owed
  PROVE  SlaClaim'
BY DEF SlaClaim, SweepsTypeOK, Sweep, NothingTakenBack, Done

-----------------------------------------------------------------------------
(* Every step keeps every claim                                            *)

(* The partner of an order is a partner or NULL.                           *)
LEMMA PartnerTyped ==
  TablesTyped => \A o \in Orders : order[o].partner \in Partners \cup {None}
BY DEF TablesTyped, TablesTypeOK, OrderRow

(* A confirmation rests on a form that iyzico says is paid.                *)
LEMMA CheckoutClaims ==
  ASSUME TypeInv, MoneyInv, ClaimsInv, NothingTakenBack, CheckoutNext, PaymentsFrame
  PROVE  ClaimsInv'
<1> USE DEF TypeInv
<1>1. ASSUME NEW o \in Orders PROVE PayoutClaim(o)' /\ ReturnClaim(o)'
  BY <1>1, PayoutClaimKept, ReturnClaimKept, CheckoutKeepsPayments
  DEF ClaimsInv, PaymentsFrame, fulfilmentVars
<1>2. ASSUME NEW j \in OrderRequests PROVE JobClaim(j)'
  BY <1>2, JobClaimKept DEF ClaimsInv, PaymentsFrame, fulfilmentVars
<1>3. ASSUME NEW d \in DeskRequests PROVE DeskClaim(d)'
  BY <1>3, DeskClaimKept DEF ClaimsInv, PaymentsFrame
<1>4. SlaClaim'
  BY SlaClaimKept DEF ClaimsInv, PaymentsFrame
<1>5. ASSUME NEW o \in Orders PROVE OrderClaim(o)'
  <2>1. OrderClaim(o) /\ order[o].partner \in Partners \cup {None}
    BY <1>5, PartnerTyped DEF ClaimsInv
  <2>2. ASSUME NEW r \in PayRequests, RecordIntent(r) PROVE OrderClaim(o)'
    <3>1. pay[r].order \in Orders
      BY <2>2 DEF RecordIntent, PayTyped, PayFits
    <3>2. order'[o] = order[o] \/ order'[o].status = "pending_payment"
      BY <2>2, <3>1 DEF RecordIntent, SetStatus, TablesTyped, TablesTypeOK, OrderRow
    <3> QED
      BY <1>5, <2>1, <2>2, <3>1, <3>2, StatusWritten, OrderClaimKept, OrderClaimSet
      DEF RecordIntent, UnpaidStatus, DoneStatus
  <2>3. ASSUME NEW r \in PayRequests, ConfirmOrder(r) PROVE OrderClaim(o)'
    <3> DEFINE c == payment[pay[r].token].order
    <3>1. c \in Orders /\ pay[r].token \in Tokens
      BY <2>3, PayRow DEF ConfirmOrder
    <3>2. Charged(c)
      BY <2>3, <3>1 DEF ConfirmOrder, MoneyInv, PayClaim, Charged
    <3>3. order'[o] = order[o] \/ (o = c /\ order'[o].status = "confirmed")
      BY <2>3, <3>1 DEF ConfirmOrder, SetStatus, TablesTyped, TablesTypeOK, OrderRow
    <3> QED
      BY <1>5, <2>1, <2>3, <3>1, <3>2, <3>3, StatusWritten, OrderClaimKept, OrderClaimSet
      DEF ConfirmOrder, UnpaidStatus, DoneStatus
  <2>4. ASSUME NEW r \in PayRequests,
               \/ \E i \in Orders : BeginIntent(r, i)
               \/ \E t \in Tokens : InitializeForm(r, t) \/ Callback(r, t)
               \/ \E t \in Tokens, outcome \in Outcomes : Webhook(r, t, outcome)
               \/ RefuseForm(r) \/ FinalizeRow(r) \/ AuditConfirm(r) \/ NotifyConfirm(r)
               \/ MarkEvent(r) \/ AbortPay(r)
        PROVE  UNCHANGED order
    BY <2>4 DEF BeginIntent, InitializeForm, Callback, Webhook, RefuseForm, FinalizeRow,
                AuditConfirm, NotifyConfirm, MarkEvent, AbortPay, tables
  <2>5. ASSUME NEW t \in Tokens, PayForm(t) \/ DeclineForm(t) PROVE UNCHANGED order
    BY <2>5 DEF PayForm, DeclineForm, tables
  <2> QED
    BY <1>5, <2>1, <2>2, <2>3, <2>4, <2>5, OrderClaimKept DEF CheckoutNext, CheckoutWork, PayStep
<1> QED
  BY <1>1, <1>2, <1>3, <1>4, <1>5 DEF ClaimsInv

(* A sweep cancels without claiming anything, and closes what it read as   *)
(* awaiting approval.                                                      *)
LEMMA SweepsClaims ==
  ASSUME TypeInv, MoneyInv, ClaimsInv, NothingTakenBack, SweepsNext, SlaFrame
  PROVE  ClaimsInv'
<1> USE DEF TypeInv
<1>1. ASSUME NEW o \in Orders PROVE ReturnClaim(o)'
  BY <1>1, ReturnClaimKept DEF ClaimsInv, SlaFrame, checkoutVars
<1>2. ASSUME NEW j \in OrderRequests PROVE JobClaim(j)'
  <2>1. UNCHANGED job
    BY DEF SweepsNext, SweepsWork, BeginSweep, SweepStep, CancelUnpaid, AutoClose, AuditSweep,
           NotifySweep, AbortSweep, fulfilmentVars
  <2> QED
    BY <1>2, <2>1, JobClaimKept DEF ClaimsInv
<1>3. ASSUME NEW d \in DeskRequests PROVE DeskClaim(d)'
  BY <1>3, DeskClaimKept DEF ClaimsInv, SlaFrame
<1>4. SlaClaim'
  <2>1. ASSUME NEW which \in Sweeps, BeginSweep(which) PROVE SlaClaim'
    <3>1. /\ sla'.job = which
          /\ sla'.todo = {o \in Orders : Selected(which, o)}
          /\ \A o \in Orders : sla'.owed[o] \in {None, order[o].partner}
      BY <2>1 DEF BeginSweep
    <3>2. which = "close" => \A o \in Orders : Selected(which, o) => Done(o)
      BY DEF Selected, ClaimsInv, OrderClaim, Done, UnpaidStatus, DoneStatus
    <3>3. \A o \in Orders : order[o].partner # None => Vetted(order[o].partner)
      BY DEF ClaimsInv, OrderClaim
    <3>4. UNCHANGED <<order, partner, photos, payment, form>>
      BY <2>1 DEF BeginSweep, tables, fulfilmentVars, SlaFrame, checkoutVars
    <3> QED
      BY <3>1, <3>2, <3>3, <3>4 DEF SlaClaim, Done, Charged, Paid, Evidenced, Vetted
  <2>2. ASSUME NEW o \in Orders, CancelUnpaid(o) \/ AutoClose(o) PROVE SlaClaim'
    BY <2>2, SlaClaimKept DEF CancelUnpaid, AutoClose, ClaimsInv, SweepsTypeOK, Sweep
  <2>3. ASSUME NEW o \in Orders, AuditSweep(o) \/ NotifySweep(o) PROVE SlaClaim'
    <3>1. CASE sla' = SweepIdle
      BY <3>1 DEF SlaClaim, SweepIdle
    <3>2. CASE sla' = [sla EXCEPT !.todo = @ \ {o}, !.auditing = None]
      BY <3>2, SlaClaimKept DEF ClaimsInv, SweepsTypeOK, Sweep
    <3> QED
      BY <2>3, <3>1, <3>2 DEF AuditSweep, NotifySweep, SweepNext
  <2>4. ASSUME AbortSweep PROVE SlaClaim'
    BY <2>4 DEF AbortSweep, SlaClaim, SweepIdle
  <2> QED
    BY <2>1, <2>2, <2>3, <2>4 DEF SweepsNext, SweepsWork, SweepStep
<1>5. ASSUME NEW o \in Orders PROVE OrderClaim(o)' /\ PayoutClaim(o)'
  <2>1. /\ OrderClaim(o) /\ PayoutClaim(o)
        /\ order[o].partner \in Partners \cup {None}
    BY <1>5, PartnerTyped DEF ClaimsInv
  <2>2. ASSUME NEW i \in Orders, CancelUnpaid(i) PROVE OrderClaim(o)' /\ PayoutClaim(o)'
    <3>1. order'[o] = order[o] \/ order'[o].status = "cancelled"
      BY <2>2 DEF CancelUnpaid, SetStatus, TablesTyped, TablesTypeOK, OrderRow
    <3> QED
      BY <1>5, <2>1, <2>2, <3>1, StatusWritten, OrderClaimKept, OrderClaimSet, PayoutClaimKept
      DEF CancelUnpaid, fulfilmentVars, UnpaidStatus, DoneStatus
  <2>3. ASSUME NEW i \in Orders, AutoClose(i) PROVE OrderClaim(o)' /\ PayoutClaim(o)'
    <3>1. Done(i) /\ (sla.owed[i] # None => Vetted(sla.owed[i]))
      BY <2>3 DEF AutoClose, Take, ClaimsInv, SlaClaim
    <3>2. order'[o] = order[o] \/ (o = i /\ order'[o].status = "closed")
      BY <2>3 DEF AutoClose, SetStatus, TablesTyped, TablesTypeOK, OrderRow
    <3>3. OrderClaim(o)'
      BY <1>5, <2>1, <2>3, <3>1, <3>2, StatusWritten, OrderClaimKept, OrderClaimSet
      DEF AutoClose, UnpaidStatus, DoneStatus, Done
    <3>4. \A p \in Partners :
            payouts'[o][p] = payouts[o][p] \/ (o = i /\ p = sla.owed[i] /\ p # None)
      BY <2>3, NullAssumption DEF AutoClose, CreatePayout, JobTyped, FulfilmentTypeOK
    <3>5. PayoutClaim(o)'
      BY <1>5, <2>1, <3>1, <3>4 DEF PayoutClaim, NothingTakenBack, Done
    <3> QED
      BY <3>3, <3>5
  <2>4. ASSUME NEW i \in Orders, AuditSweep(i) \/ NotifySweep(i)
        PROVE  OrderClaim(o)' /\ PayoutClaim(o)'
    BY <1>5, <2>1, <2>4, OrderClaimKept, PayoutClaimKept
    DEF AuditSweep, NotifySweep, fulfilmentVars
  <2>5. ASSUME AbortSweep \/ \E which \in Sweeps : BeginSweep(which)
        PROVE  OrderClaim(o)' /\ PayoutClaim(o)'
    BY <1>5, <2>1, <2>5, OrderClaimKept, PayoutClaimKept
    DEF AbortSweep, BeginSweep, tables, fulfilmentVars
  <2> QED
    BY <2>2, <2>3, <2>4, <2>5 DEF SweepsNext, SweepsWork, SweepStep
<1> QED
  BY <1>1, <1>2, <1>3, <1>4, <1>5 DEF ClaimsInv

(* A complaint request: money is returned only over a complaint it found   *)
(* resolved, and an order is refunded only behind the return.              *)
LEMMA DisputesClaims ==
  ASSUME TypeInv, MoneyInv, ClaimsInv, NothingTakenBack, DisputesNext, DeskFrame
  PROVE  ClaimsInv'
<1> USE DEF TypeInv
<1>1. ASSUME NEW o \in Orders PROVE PayoutClaim(o)'
  BY <1>1, PayoutClaimKept DEF ClaimsInv, DeskFrame, fulfilmentVars
<1>2. ASSUME NEW j \in OrderRequests PROVE JobClaim(j)'
  BY <1>2, JobClaimKept DEF ClaimsInv, DeskFrame, fulfilmentVars
<1>3. SlaClaim'
  BY SlaClaimKept DEF ClaimsInv, DeskFrame
<1>4. PICK d \in DeskRequests :
        \/ \E k \in Complaints :
             \/ BeginInvestigate(d, k)
             \/ \E outcome \in Resolutions : BeginResolve(d, k, outcome)
             \/ BeginRefund(d, k)
        \/ DeskStep(d)
        \/ AbortDesk(d)
  BY DEF DisputesNext, DisputesWork
<1>5. ASSUME NEW o \in Orders PROVE ReturnClaim(o)'
  <2>1. ASSUME ReturnMoney(d), Returned(o)', ~Returned(o) PROVE Examined(o)'
    <3>1. /\ desk[d].token \in Tokens /\ Exists(desk[d].token)
          /\ TakenUp(desk[d].complaint) /\ desk[d].complaint \in Complaints
          /\ payment[desk[d].token].order = OrderOf(d)
      BY <2>1, DeskRow DEF ReturnMoney, DeskTyped, DeskFits, ClaimsInv, DeskClaim
    <3>2. \A t \in Tokens : t # desk[d].token => form'[t] = form[t]
      BY <2>1 DEF ReturnMoney, PayTyped, CheckoutTypeOK
    <3>3. o = OrderOf(d)
      BY <2>1, <3>1, <3>2 DEF ReturnMoney, Returned
    <3>4. Examined(o)
      BY <3>1, <3>3 DEF Examined, OrderOf
    <3> QED
      BY <1>5, <3>4 DEF NothingTakenBack
  <2>2. CASE ReturnMoney(d)
    BY <1>5, <2>1, <2>2 DEF ReturnClaim, ClaimsInv, NothingTakenBack
  <2>3. CASE ~ReturnMoney(d)
    <3>1. UNCHANGED form
      BY <1>4, <2>3
      DEF BeginInvestigate, BeginResolve, BeginRefund, DeskStep, Investigate, Resolve,
          ReadDisputed, NotifyResolved, CloseDispute, FindPayment, MarkRefunded,
          ReadRefunded, RefundOrder, AuditDesk, AbortDesk, checkoutVars
    <3> QED
      BY <1>5, <3>1, ReturnClaimKept DEF ClaimsInv
  <2> QED
    BY <2>2, <2>3
<1>6. ASSUME NEW o \in Orders PROVE OrderClaim(o)'
  <2>1. OrderClaim(o) /\ order[o].partner \in Partners \cup {None}
    BY <1>6, PartnerTyped DEF ClaimsInv
  <2>2. CASE CloseDispute(d)
    <3>1. Done(OrderOf(d)) /\ OrderOf(d) \in Orders
      BY <2>2, DeskRow DEF CloseDispute, ClaimsInv, DeskClaim
    <3>2. order'[o] = order[o] \/ (o = OrderOf(d) /\ order'[o].status = "closed")
      BY <2>2, <3>1 DEF CloseDispute, SetStatus, TablesTyped, TablesTypeOK, OrderRow
    <3> QED
      BY <1>6, <2>1, <2>2, <3>1, <3>2, StatusWritten, OrderClaimKept, OrderClaimSet
      DEF CloseDispute, UnpaidStatus, DoneStatus, Done
  <2>3. CASE RefundOrder(d)
    <3>1. Returned(OrderOf(d)) /\ OrderOf(d) \in Orders
      BY <2>3, DeskRow DEF RefundOrder, ClaimsInv, DeskClaim
    <3>2. Charged(OrderOf(d))
      BY <3>1 DEF Returned, Charged, Paid
    <3>3. order'[o] = order[o] \/ (o = OrderOf(d) /\ order'[o].status = "refunded")
      BY <2>3, <3>1 DEF RefundOrder, SetStatus, TablesTyped, TablesTypeOK, OrderRow
    <3> QED
      BY <1>6, <2>1, <2>3, <3>1, <3>2, <3>3, StatusWritten, OrderClaimKept, OrderClaimSet
      DEF RefundOrder, UnpaidStatus, DoneStatus
  <2>4. CASE ~CloseDispute(d) /\ ~RefundOrder(d)
    <3>1. UNCHANGED order
      BY <1>4, <2>4
      DEF BeginInvestigate, BeginResolve, BeginRefund, DeskStep, Investigate, Resolve,
          ReadDisputed, NotifyResolved, FindPayment, ReturnMoney, MarkRefunded,
          ReadRefunded, AuditDesk, AbortDesk, tables
    <3> QED
      BY <1>6, <2>1, <3>1, OrderClaimKept
  <2> QED
    BY <2>2, <2>3, <2>4
<1>7. ASSUME NEW i \in DeskRequests PROVE DeskClaim(i)'
  <2>1. CASE i # d
    <3>1. desk'[i] = desk[i]
      BY <1>4, <2>1
      DEF BeginInvestigate, BeginResolve, BeginRefund, DeskStep, Investigate, Resolve,
          ReadDisputed, NotifyResolved, CloseDispute, FindPayment, ReturnMoney,
          MarkRefunded, ReadRefunded, RefundOrder, AuditDesk, AbortDesk, DeskGoto, DeskEnd,
          DeskTyped, DisputesTypeOK
    <3> QED
      BY <1>7, <3>1, DeskClaimKept DEF ClaimsInv
  <2>2. DeskClaim(d)'
    <3> USE DEF DeskTyped, DisputesTypeOK
    <3>1. ASSUME desk'[d].at \in DeskStages \ {"findPayment", "returnMoney", "markRefunded",
                                  "readRefunded", "refundOrder", "close", "notify"}
          PROVE  DeskClaim(d)'
      BY <3>1 DEF DeskClaim
    <3>2. CASE \/ Investigate(d) \/ Resolve(d) \/ CloseDispute(d) \/ RefundOrder(d)
               \/ AuditDesk(d) \/ AbortDesk(d)
      <4>1. desk'[d].at \in {"idle", "auditInvestigate", "auditResolve", "auditReject",
                             "auditRefund", "auditProcess", "readOrder"}
        BY <3>2
        DEF Investigate, Resolve, CloseDispute, RefundOrder, AuditDesk, AbortDesk, DeskGoto,
            DeskEnd, DeskIdle, Desk
      <4> QED
        BY <3>1, <4>1 DEF DeskStages
    <3>10. ASSUME NEW k \in Complaints,
                  \/ BeginInvestigate(d, k)
                  \/ \E outcome \in Resolutions : BeginResolve(d, k, outcome)
           PROVE  DeskClaim(d)'
      <4>1. desk'[d].at \in {"investigate", "resolve"}
        BY <3>10 DEF BeginInvestigate, BeginResolve, DeskIdle
      <4> QED
        BY <3>1, <4>1 DEF DeskStages
    <3>3. ASSUME NEW k \in Complaints, BeginRefund(d, k) PROVE DeskClaim(d)'
      <4>1. desk'[d].at = "findPayment" /\ desk'[d].complaint = k /\ UNCHANGED complaint
        BY <3>3 DEF BeginRefund, DeskIdle, tables
      <4> QED
        BY <3>3, <4>1 DEF BeginRefund, DeskClaim, TakenUp
    <3>4. CASE ReadDisputed(d)
      <4>1. /\ desk'[d].at = "notify" /\ UNCHANGED <<tables, checkoutVars>>
            /\ desk'[d].complaint = desk[d].complaint
            /\ desk'[d].disputed => order[OrderOf(d)].status = "disputed"
        BY <3>4 DEF ReadDisputed, Desk
      <4>2. desk'[d].disputed => Done(OrderOf(d))
        BY <3>4, <4>1, DeskRow
        DEF ReadDisputed, ClaimsInv, OrderClaim, UnpaidStatus, DoneStatus, Done
      <4>3. desk'[d].disputed => Done(OrderOf(d))'
        <5>1. OrderOf(d)' = OrderOf(d) /\ OrderOf(d) \in Orders
          BY <3>4, <4>1, DeskRow DEF ReadDisputed, OrderOf, tables
        <5> QED
          BY <4>2, <5>1 DEF NothingTakenBack, Done
      <4> QED
        BY <4>1, <4>3 DEF DeskClaim
    <3>5. CASE NotifyResolved(d)
      <4>1. \/ desk'[d].at = "idle"
            \/ /\ desk'[d].at = "close" /\ desk[d].disputed
               /\ desk'[d].disputed = desk[d].disputed
               /\ desk'[d].complaint = desk[d].complaint
        BY <3>5 DEF NotifyResolved, DeskGoto, DeskEnd, DeskIdle, Desk
      <4>2. desk[d].disputed => Done(OrderOf(d))
        BY <3>5 DEF NotifyResolved, ClaimsInv, DeskClaim
      <4>3. OrderOf(d) \in Orders /\ UNCHANGED complaint
        BY <3>5, DeskRow DEF NotifyResolved
      <4> QED
        BY <4>1, <4>2, <4>3 DEF DeskClaim, OrderOf, NothingTakenBack, Done
    <3>6. CASE FindPayment(d)
      <4>1. \/ desk'[d].at = "idle"
            \/ /\ desk'[d].at = "returnMoney"
               /\ desk'[d].complaint = desk[d].complaint
               /\ payment[desk'[d].token].order = OrderOf(d)
        BY <3>6 DEF FindPayment, Refundable, DeskEnd, DeskIdle, Desk
      <4>2. /\ TakenUp(desk[d].complaint) /\ desk[d].complaint \in Complaints
            /\ UNCHANGED <<complaint, payment>>
        BY <3>6, DeskRow DEF FindPayment, ClaimsInv, DeskClaim, tables, checkoutVars
      <4> QED
        BY <4>1, <4>2 DEF DeskClaim, OrderOf, NothingTakenBack
    <3>7. CASE ReturnMoney(d)
      <4>1. \/ desk'[d].at = "idle"
            \/ /\ desk'[d].at = "markRefunded"
               /\ desk'[d].complaint = desk[d].complaint
               /\ desk'[d].token = desk[d].token
               /\ form'[desk[d].token] = "returned"
        BY <3>7, DeskRow
        DEF ReturnMoney, DeskGoto, DeskEnd, DeskIdle, Desk, PayTyped, CheckoutTypeOK
      <4>2. /\ TakenUp(desk[d].complaint) /\ desk[d].complaint \in Complaints
            /\ payment[desk[d].token].order = OrderOf(d)
            /\ UNCHANGED <<complaint, payment>>
        BY <3>7, DeskRow DEF ReturnMoney, ClaimsInv, DeskClaim, tables
      <4> QED
        BY <4>1, <4>2 DEF DeskClaim, OrderOf, NothingTakenBack
    <3>8. CASE MarkRefunded(d)
      <4>1. /\ desk'[d].at = "readRefunded" /\ desk'[d].complaint = desk[d].complaint
            /\ UNCHANGED complaint
        BY <3>8 DEF MarkRefunded, DeskGoto, Desk, tables
      <4>2. Returned(OrderOf(d)) /\ OrderOf(d) \in Orders
        BY <3>8, DeskRow DEF MarkRefunded, ClaimsInv, DeskClaim, Returned
      <4> QED
        BY <4>1, <4>2 DEF DeskClaim, OrderOf, NothingTakenBack
    <3>9. CASE ReadRefunded(d)
      <4>1. /\ desk'[d].at \in {"auditProcess", "refundOrder"}
            /\ desk'[d].complaint = desk[d].complaint
            /\ UNCHANGED complaint
        BY <3>9 DEF ReadRefunded, DeskGoto, Desk, tables
      <4>2. Returned(OrderOf(d)) /\ OrderOf(d) \in Orders
        BY <3>9, DeskRow DEF ReadRefunded, ClaimsInv, DeskClaim
      <4> QED
        BY <4>1, <4>2 DEF DeskClaim, OrderOf, NothingTakenBack
    <3> QED
      BY <1>4, <3>2, <3>10, <3>3, <3>4, <3>5, <3>6, <3>7, <3>8, <3>9 DEF DeskStep
  <2> QED
    BY <2>1, <2>2
<1> QED
  BY <1>1, <1>2, <1>3, <1>5, <1>6, <1>7 DEF ClaimsInv

(* An order request: partners are vetted before they are assigned, work is *)
(* evidenced before it is completed, and approved only once completed.     *)
LEMMA FulfilmentClaims ==
  ASSUME TypeInv, MoneyInv, ClaimsInv, NothingTakenBack, FulfilmentNext, OrdersFrame
  PROVE  ClaimsInv'
<1> USE DEF TypeInv
<1>1. ASSUME NEW o \in Orders PROVE ReturnClaim(o)'
  BY <1>1, ReturnClaimKept DEF ClaimsInv, OrdersFrame, checkoutVars
<1>2. ASSUME NEW d \in DeskRequests PROVE DeskClaim(d)'
  BY <1>2, DeskClaimKept DEF ClaimsInv, OrdersFrame
<1>3. SlaClaim'
  BY SlaClaimKept DEF ClaimsInv, OrdersFrame
<1>4. CASE \E o \in Orders : CreateOrder(o)
  <2>1. PICK c \in Orders : CreateOrder(c)
    BY <1>4
  <2>2. ASSUME NEW o \in Orders PROVE OrderClaim(o)' /\ PayoutClaim(o)'
    <3>1. /\ OrderClaim(o) /\ PayoutClaim(o)
          /\ order[o].partner \in Partners \cup {None}
      BY <2>2, PartnerTyped DEF ClaimsInv
    <3>2. order'[o] = order[o] \/ order'[o].status = "draft"
      BY <2>1 DEF CreateOrder, SetStatus, TablesTyped, TablesTypeOK, OrderRow
    <3> QED
      BY <2>1, <2>2, <3>1, <3>2, StatusWritten, OrderClaimKept, OrderClaimSet, PayoutClaimKept
      DEF CreateOrder, fulfilmentVars, UnpaidStatus, DoneStatus
  <2>3. ASSUME NEW j \in OrderRequests PROVE JobClaim(j)'
    BY <2>1, <2>3, JobClaimKept DEF CreateOrder, fulfilmentVars, ClaimsInv
  <2> QED
    BY <1>1, <1>2, <1>3, <2>2, <2>3 DEF ClaimsInv
<1>5. CASE \E p \in Partners : Onboard(p)
  <2>1. UNCHANGED <<order, payouts, job>>
    BY <1>5 DEF Onboard, tables
  <2> QED
    BY <1>1, <1>2, <1>3, <2>1, OrderClaimKept, PayoutClaimKept, JobClaimKept DEF ClaimsInv
<1>6. ASSUME NEW j \in OrderRequests,
             \/ \E p \in Partners, d \in {"active", "rejected"} : BeginVet(j, p, d)
             \/ \E o \in Orders, p \in Partners :
                  \/ BeginAssign(j, o, p)
                  \/ BeginStart(j, o, p)
                  \/ \E kind \in PhotoKinds : BeginEvidence(j, o, p, kind)
                  \/ BeginComplete(j, o, p)
             \/ \E o \in Orders : BeginApprove(j, o) \/ BeginComplaint(j, o)
      PROVE  ClaimsInv'
  <2> USE DEF JobTyped, FulfilmentTypeOK
  <2>1. /\ UNCHANGED <<tables, partner, photos, payouts>>
        /\ \A i \in OrderRequests \ {j} : job'[i] = job[i]
    BY <1>6 DEF BeginVet, BeginAssign, BeginStart, BeginEvidence, BeginComplete,
                BeginApprove, BeginComplaint, JobBegin
  <2>2. JobClaim(j)'
    <3>1. ASSUME NEW p \in Partners, NEW d \in {"active", "rejected"}, BeginVet(j, p, d)
          PROVE  JobClaim(j)'
      BY <3>1 DEF BeginVet, JobBegin, JobIdle, JobClaim
    <3>2. ASSUME NEW o \in Orders, NEW p \in Partners, NEW kind \in PhotoKinds,
                 BeginEvidence(j, o, p, kind)
          PROVE  JobClaim(j)'
      BY <3>2 DEF BeginEvidence, JobBegin, JobIdle, JobClaim
    <3>3. ASSUME NEW o \in Orders, NEW p \in Partners,
                 BeginAssign(j, o, p) \/ BeginStart(j, o, p) \/ BeginComplete(j, o, p)
          PROVE  JobClaim(j)'
      <4>1. Charged(o)'
        BY <3>3 DEF BeginAssign, BeginStart, BeginComplete, ClaimsInv, OrderClaim,
                    UnpaidStatus, NothingTakenBack
      <4>2. /\ job'[j].order = o
            /\ \/ job'[j].op \in {"assign", "complete"} /\ job'[j].at = "check"
               \/ job'[j].op = "start"
        BY ZenonT(60), <3>3 DEF BeginAssign, BeginStart, BeginComplete, JobBegin, JobIdle
      <4> QED
        BY <4>1, <4>2 DEF JobClaim
    <3>4. ASSUME NEW o \in Orders, BeginApprove(j, o) PROVE JobClaim(j)'
      <4>1. Done(o) /\ (order[o].partner # None => Vetted(order[o].partner))
        BY <3>4 DEF BeginApprove, ClaimsInv, OrderClaim, UnpaidStatus, DoneStatus, Done
      <4>2. Done(o)' /\ (order[o].partner # None => partner'[order[o].partner] \in {"active", "rejected"})
        BY <2>1, <4>1 DEF NothingTakenBack, Done, Vetted
      <4>3. job'[j].order = o /\ job'[j].partner = order[o].partner /\ job'[j].op = "approve"
        BY <3>4 DEF BeginApprove, JobBegin, JobIdle
      <4> QED
        BY <4>2, <4>3 DEF JobClaim, Vetted, Done
    <3>5. ASSUME NEW o \in Orders, BeginComplaint(j, o) PROVE JobClaim(j)'
      <4>1. order[o].status = "completed_pending_approval" => Done(o)'
        BY <3>5 DEF ClaimsInv, OrderClaim, UnpaidStatus, DoneStatus, Done, NothingTakenBack
      <4>2. /\ job'[j].order = o /\ job'[j].op = "complain"
            /\ job'[j].dispute => order[o].status = "completed_pending_approval"
        BY <3>5 DEF BeginComplaint, JobBegin, JobIdle
      <4> QED
        BY <4>1, <4>2 DEF JobClaim
    <3> QED
      BY <1>6, <3>1, <3>2, <3>3, <3>4, <3>5
  <2>3. ASSUME NEW i \in OrderRequests PROVE JobClaim(i)'
    BY <2>1, <2>2, <2>3, JobClaimKept DEF ClaimsInv
  <2> QED
    BY <1>1, <1>2, <1>3, <2>1, <2>3, OrderClaimKept, PayoutClaimKept DEF ClaimsInv, tables
<1>7. ASSUME NEW j \in OrderRequests, JobStep(j) \/ AbortJob(j)
      PROVE  \A i \in OrderRequests : JobClaim(i)'
  <2> USE DEF JobTyped, FulfilmentTypeOK
  <2>1. \A i \in OrderRequests \ {j} : job'[i] = job[i]
    BY <1>7 DEF JobStep, AbortJob, Vet, CheckPartner, Assign, Start, StoreEvidence,
                ReportForReview, CheckPhotos, Complete, Approve, Complain, AuditJob,
                NotifyJob, JobGoto, JobEnd
  <2>2. JobClaim(j)'
    <3>1. ASSUME job'[j].at \notin {"check", "write"} PROVE JobClaim(j)'
      BY <3>1 DEF JobClaim
    <3>2. CASE CheckPartner(j) /\ JobGoto(j, "write")
      <4>1. /\ job[j].order \in Orders /\ job[j].partner \in Partners
            /\ Charged(job[j].order) /\ Vetted(job[j].partner)
        BY <3>2, JobRow DEF CheckPartner, At, ClaimsInv, JobClaim, Vetted, JobEnd, JobGoto, JobIdle
      <4>2. /\ job'[j].order = job[j].order /\ job'[j].partner = job[j].partner
            /\ job'[j].op = "assign"
        BY <3>2 DEF CheckPartner, At, JobGoto, Job
      <4> QED
        BY <4>1, <4>2 DEF JobClaim, NothingTakenBack
    <3>3. CASE CheckPhotos(j) /\ JobGoto(j, "write")
      <4>1. /\ job[j].order \in Orders
            /\ Charged(job[j].order) /\ Photographed(job[j].order)
        BY <3>3, JobRow DEF CheckPhotos, At, ClaimsInv, JobClaim, Photographed, JobEnd, JobGoto, JobIdle
      <4>2. job'[j].order = job[j].order /\ job'[j].op = "complete"
        BY <3>3 DEF CheckPhotos, At, JobGoto, Job
      <4> QED
        BY <4>1, <4>2 DEF JobClaim, NothingTakenBack
    <3>4. CASE JobEnd(j)
      BY <3>1, <3>4 DEF JobEnd, JobIdle
    <3>5. ASSUME NEW stage \in {"review", "audit", "notify"}, JobGoto(j, stage)
          PROVE  JobClaim(j)'
      BY <3>1, <3>5 DEF JobGoto, Job
    <3> QED
      BY <1>7, <3>2, <3>3, <3>4, <3>5
      DEF JobStep, AbortJob, Vet, CheckPartner, Assign, Start, StoreEvidence,
          ReportForReview, CheckPhotos, Complete, Approve, Complain, AuditJob, NotifyJob
  <2> QED
    BY <2>1, <2>2, JobClaimKept DEF ClaimsInv
<1>8. ASSUME NEW j \in OrderRequests, JobStep(j) \/ AbortJob(j), NEW o \in Orders
      PROVE  OrderClaim(o)' /\ PayoutClaim(o)'
  <2>1. /\ OrderClaim(o) /\ PayoutClaim(o) /\ JobClaim(j)
        /\ order[o].partner \in Partners \cup {None}
    BY <1>8, PartnerTyped DEF ClaimsInv
  <2>2. CASE Assign(j)
    <3>1. /\ job[j].order \in Orders /\ job[j].partner \in Partners
          /\ Charged(job[j].order) /\ Vetted(job[j].partner)
      BY <2>1, <2>2, JobRow DEF Assign, At, JobClaim
    <3>2. \/ order'[o] = order[o]
          \/ /\ o = job[j].order
             /\ order'[o].status = "assigned" /\ order'[o].partner = job[j].partner
             /\ order'[o].completed = order[o].completed
      BY <2>2, AssignWritten
    <3>3. UNCHANGED <<partner, payouts>>
      BY <2>2 DEF Assign
    <3>4. OrderClaim(o)'
      <4>1. CASE order'[o] = order[o]
        BY <1>8, <2>1, <4>1, OrderClaimKept
      <4>2. CASE order'[o] # order[o]
        <5>1. Charged(o)' /\ Vetted(job[j].partner)
          BY <3>1, <3>2, <4>2 DEF NothingTakenBack
        <5>2. order[o].completed => Charged(o)' /\ Photographed(o)'
          BY <1>8, <2>1 DEF OrderClaim, NothingTakenBack
        <5> QED
          BY <3>2, <3>3, <4>2, <5>1, <5>2 DEF OrderClaim, DoneStatus, Vetted
      <4> QED
        BY <4>1, <4>2
    <3> QED
      BY <1>8, <2>1, <3>3, <3>4, PayoutClaimKept
  <2>3. CASE Start(j)
    <3>1. job[j].order \in Orders /\ Charged(job[j].order)
      BY <2>1, <2>3, JobRow DEF Start, At, JobClaim
    <3>2. order'[o] = order[o] \/ (o = job[j].order /\ order'[o].status = "in_progress")
      BY <2>3, <3>1 DEF Start, SetStatus, TablesTyped, TablesTypeOK, OrderRow
    <3> QED
      BY <1>8, <2>1, <2>3, <3>1, <3>2, StatusWritten, OrderClaimKept, OrderClaimSet, PayoutClaimKept
      DEF Start, UnpaidStatus, DoneStatus
  <2>4. CASE Complete(j)
    <3>1. /\ job[j].order \in Orders
          /\ Charged(job[j].order) /\ Photographed(job[j].order)
      BY <2>1, <2>4, JobRow DEF Complete, At, JobClaim
    <3>2. \/ order'[o] = order[o]
          \/ /\ o = job[j].order
             /\ order'[o].status = "completed_pending_approval"
             /\ order'[o].partner = order[o].partner
             /\ order'[o].completed
      BY <2>4, CompleteWritten
    <3>3. UNCHANGED <<partner, photos, payouts>>
      BY <2>4 DEF Complete
    <3>4. OrderClaim(o)'
      <4>1. CASE order'[o] = order[o]
        BY <1>8, <2>1, <4>1, OrderClaimKept
      <4>2. CASE order'[o] # order[o]
        <5>1. Charged(o)' /\ Photographed(o)'
          BY <3>1, <3>2, <4>2 DEF NothingTakenBack
        <5>2. order[o].partner # None => Vetted(order[o].partner)
          BY <2>1 DEF OrderClaim
        <5> QED
          BY <3>2, <3>3, <4>2, <5>1, <5>2
          DEF OrderClaim, DoneStatus, Vetted, Evidenced, Photographed
      <4> QED
        BY <4>1, <4>2
    <3> QED
      BY <1>8, <2>1, <3>3, <3>4, PayoutClaimKept
  <2>5. CASE Approve(j)
    <3>1. /\ job[j].order \in Orders /\ Done(job[j].order)
          /\ job[j].partner \in Partners \cup {None}
          /\ job[j].partner # None => Vetted(job[j].partner)
      BY <2>1, <2>5, JobRow DEF Approve, At, JobClaim
    <3>2. order'[o] = order[o] \/ (o = job[j].order /\ order'[o].status = "closed")
      BY <2>5, <3>1 DEF Approve, SetStatus, TablesTyped, TablesTypeOK, OrderRow
    <3>3. OrderClaim(o)'
      BY <1>8, <2>1, <2>5, <3>1, <3>2, StatusWritten, OrderClaimKept, OrderClaimSet
      DEF Approve, UnpaidStatus, DoneStatus, Done
    <3>4. \A p \in Partners :
            \/ payouts'[o][p] = payouts[o][p]
            \/ o = job[j].order /\ p = job[j].partner /\ p # None
      BY <2>5, NullAssumption DEF Approve, CreatePayout, JobTyped, FulfilmentTypeOK
    <3>5. PayoutClaim(o)'
      BY <1>8, <2>1, <3>1, <3>4 DEF PayoutClaim, NothingTakenBack, Done
    <3> QED
      BY <3>3, <3>5
  <2>6. ASSUME NEW k \in Complaints, Complain(j, k) PROVE OrderClaim(o)' /\ PayoutClaim(o)'
    <3> DEFINE c == job[j].order
    <3>1. c \in Orders /\ UNCHANGED payouts
      BY <2>6, JobRow DEF Complain, At
    <3>2. job[j].dispute => Done(c)
      BY <2>1, <2>6 DEF Complain, At, JobClaim
    <3>3. complaint'[k].order = c
      BY <2>6 DEF Complain, TablesTyped, TablesTypeOK
    <3>4. \/ order'[o] = order[o]
          \/ o = c /\ order'[o].status = "disputed" /\ job[j].dispute
      BY <2>6, <3>1 DEF Complain, SetStatus, TablesTyped, TablesTypeOK, OrderRow
    <3>5. order'[o].partner = order[o].partner /\ order'[o].completed = order[o].completed
      BY <1>8, <2>6, <3>1, StatusWritten DEF Complain
    <3>6. o = c => Complained(o)'
      BY <3>3 DEF Complained
    <3> QED
      BY <1>8, <2>1, <3>1, <3>2, <3>4, <3>5, <3>6, OrderClaimKept, OrderClaimSet, PayoutClaimKept
      DEF UnpaidStatus, DoneStatus, Done
  <2>7. CASE \/ Vet(j) \/ CheckPartner(j) \/ StoreEvidence(j) \/ ReportForReview(j)
             \/ CheckPhotos(j) \/ AuditJob(j) \/ NotifyJob(j) \/ AbortJob(j)
    <3>1. UNCHANGED <<order, payouts>>
      BY <2>7 DEF Vet, CheckPartner, StoreEvidence, ReportForReview, CheckPhotos, AuditJob,
                  NotifyJob, AbortJob, tables
    <3> QED
      BY <1>8, <2>1, <3>1, OrderClaimKept, PayoutClaimKept
  <2> QED
    BY <1>8, <2>2, <2>3, <2>4, <2>5, <2>6, <2>7 DEF JobStep
<1> QED
  BY <1>1, <1>2, <1>3, <1>4, <1>5, <1>6, <1>7, <1>8 DEF FulfilmentNext, FulfilmentWork, ClaimsInv

-----------------------------------------------------------------------------
(* The inductive invariant                                                 *)

(* The initial state claims nothing.                                       *)
LEMMA InvariantInit == Init => Invariant
<1> SUFFICES ASSUME Init PROVE Invariant
  OBVIOUS
<1>1. ClaimsInv
  BY NullAssumption
  DEF Init, TablesInit, CheckoutInit, DisputesInit, FulfilmentInit, SweepsInit, ClaimsInv,
      OrderClaim, PayoutClaim, ReturnClaim, JobClaim, DeskClaim, SlaClaim, UnpaidStatus,
      DoneStatus, Returned, JobIdle, DeskIdle, SweepIdle
<1> QED
  BY <1>1, TypeInvInit, MoneyInvInit DEF Invariant

(* Every step keeps the invariant: the types, then the forms, then, since  *)
(* nothing is taken back, the claims.                                      *)
LEMMA InvariantStep == Invariant /\ [Next]_vars => Invariant'
<1> SUFFICES ASSUME Invariant, [Next]_vars PROVE Invariant'
  OBVIOUS
<1> USE DEF Invariant
<1>1. TypeInv'
  BY TypeInvStep
<1>2. MoneyInv'
  BY <1>1, MoneyInvStep
<1>3. NothingTakenBack
  BY Monotone
<1>4. ClaimsInv'
  <2>1. CASE UNCHANGED vars \/ \E i \in Orders : Elapse(i) /\ ClockFrame
    <3>1. UNCHANGED <<checkoutVars, desk, fulfilmentVars, sla>>
      BY <2>1 DEF vars, ClockFrame
    <3>2. ASSUME NEW o \in Orders PROVE OrderClaim(o)'
      <4>1. OrderClaim(o) /\ order[o].partner \in Partners \cup {None}
        BY <3>2, PartnerTyped DEF ClaimsInv, TypeInv
      <4>2. CASE UNCHANGED vars
        BY <1>3, <3>2, <4>1, <4>2, OrderClaimKept DEF vars, tables, TypeInv
      <4>3. ASSUME NEW i \in Orders, Elapse(i) PROVE OrderClaim(o)'
        <5>1. /\ order'[o].partner = order[o].partner
              /\ order'[o].completed = order[o].completed
              /\ order'[o].status = order[o].status
          BY <3>2, <4>3 DEF Elapse, TypeInv, TablesTyped, TablesTypeOK, OrderRow
        <5> QED
          BY <1>3, <3>2, <4>1, <5>1, OrderClaimSet DEF OrderClaim, NothingTakenBack
      <4> QED
        BY <2>1, <4>2, <4>3
    <3> QED
      BY <1>3, <3>1, <3>2, PayoutClaimKept, ReturnClaimKept, JobClaimKept, DeskClaimKept,
         SlaClaimKept
      DEF TypeInv, ClaimsInv, fulfilmentVars, checkoutVars
  <2> QED
    BY <1>3, <2>1, CheckoutClaims, DisputesClaims, FulfilmentClaims, SweepsClaims
    DEF Next
<1> QED
  BY <1>1, <1>2, <1>4

-----------------------------------------------------------------------------
(* The theorems                                                            *)

(* The invariant holds in every reachable state, for any number of         *)
(* orders, partners, complaints, forms and overlapping requests.           *)
LEMMA Inductive == Spec => []Invariant
BY InvariantInit, InvariantStep, PTL DEF Spec

(* No order is ever beyond payment unless iyzico charged its customer,     *)
(* although every handler writes the status it decided upon earlier        *)
(* (payments.service.ts:437-457, orders.service.ts:278-285).               *)
THEOREM WorkPaid == Spec => []WorkIsPaid
<1>1. Invariant => WorkIsPaid
  BY DEF Invariant, ClaimsInv, OrderClaim, WorkIsPaid
<1> QED
  BY <1>1, Inductive, PTL

(* No order awaits approval, is disputed or is closed unless its           *)
(* completion was accepted with both photographs                           *)
(* (orders.service.ts:486-508).                                            *)
THEOREM DoneEvidenced == Spec => []DoneIsEvidenced
<1>1. Invariant => DoneIsEvidenced
  BY DEF Invariant, ClaimsInv, OrderClaim, DoneIsEvidenced
<1> QED
  BY <1>1, Inductive, PTL

(* No partner is owed money but for evidenced work on a charged order, and *)
(* never one whose onboarding had not been decided upon                    *)
(* (orders.service.ts:272,565-582, sla.service.ts:93-108).                 *)
THEOREM PayoutEarned == Spec => []PayoutIsEarned
<1>1. Invariant => PayoutIsEarned
  BY DEF Invariant, ClaimsInv, PayoutClaim, Done, Vetted, PayoutIsEarned
<1> QED
  BY <1>1, Inductive, PTL

(* No order reads refunded unless iyzico returned the money                *)
(* (complaints.service.ts:214-226).                                        *)
THEOREM RefundedReturned == Spec => []RefundedIsReturned
<1>1. Invariant => RefundedIsReturned
  BY DEF Invariant, ClaimsInv, OrderClaim, RefundedIsReturned
<1> QED
  BY <1>1, Inductive, PTL

(* No dispute without a complaint on that order                            *)
(* (orders.service.ts:616-634).                                            *)
THEOREM DisputedComplained == Spec => []DisputedHasComplaint
<1>1. Invariant => DisputedHasComplaint
  BY DEF Invariant, ClaimsInv, OrderClaim, Complained, DisputedHasComplaint
<1> QED
  BY <1>1, Inductive, PTL

(* No money is returned but over a complaint that the desk had taken up    *)
(* (complaints.service.ts:202-217).                                        *)
THEOREM ReturnedComplained == Spec => []ReturnedHasComplaint
<1>1. Invariant => ReturnedHasComplaint
  BY DEF Invariant, ClaimsInv, ReturnClaim, Examined, TakenUp, ReturnedHasComplaint
<1> QED
  BY <1>1, Inductive, PTL
=============================================================================
