------------------------------ MODULE Checkout ------------------------------
(***************************************************************************)
(* PaymentsService (apps/api/src/payments/payments.service.ts): opening an *)
(* iyzico checkout form for an order, and the two independent paths that   *)
(* confirm it, the browser's callback and the signed webhook.  refund() is *)
(* in module Disputes, its only caller.                                    *)
(*                                                                         *)
(* iyzico is external: a form that is opened may be paid once, every       *)
(* attempt raises a webhook event, events are delivered any number of      *)
(* times and in any order, and retrieving a form tells whether it was      *)
(* paid, even after the money has been returned.                           *)
(***************************************************************************)
EXTENDS Tables

CONSTANTS
  Tokens,       \* checkout form tokens iyzico may issue
  ConfirmPaths, \* which of "callback" and "webhook" reach the API
  PayRequests   \* slots for payment requests being handled at a time

ASSUME TokenAssumption == None \notin Tokens

VARIABLES
  payment,      \* [Tokens -> PaymentRow], by providerPaymentIntentId
  inserted,     \* payment rows inserted so far: the clock of createdAt
  form,         \* iyzico's own state of each checkout form
  posted,       \* webhook events iyzico delivers, again and again
  processed,    \* rows of processed_webhook_events
  pay           \* [PayRequests -> PayTask]

checkoutVars == <<payment, inserted, form, posted, processed, pay>>

Outcomes == {"succeeded", "failed"}

PaymentRow ==
  [ order  : Orders \cup {None},
    status : {"absent", "requires_action", "succeeded", "failed", "refunded"},
    nth    : Nat ]

PayStages == { "idle", "initialize", "record", "pay", "confirm", "audit",
               "notify", "mark" }

PayTask ==
  [ at : PayStages, order : Orders \cup {None}, token : Tokens \cup {None},
    outcome : Outcomes \cup {None}, webhook : BOOLEAN ]

PayIdle == [at |-> "idle", order |-> None, token |-> None,
            outcome |-> None, webhook |-> FALSE]

CheckoutTypeOK ==
  /\ payment \in [Tokens -> PaymentRow]
  /\ inserted \in Nat
  /\ form \in [Tokens -> {"none", "open", "paid", "returned"}]
  /\ posted \subseteq Tokens \X Outcomes
  /\ processed \subseteq Tokens \X Outcomes
  /\ pay \in [PayRequests -> PayTask]

CheckoutInit ==
  /\ payment = [t \in Tokens |->
                  [order |-> None, status |-> "absent", nth |-> 0]]
  /\ inserted = 0
  /\ form = [t \in Tokens |-> "none"]
  /\ posted = {}
  /\ processed = {}
  /\ pay = [r \in PayRequests |-> PayIdle]

Exists(t) == payment[t].status # "absent"

PayGoto(r, stage) == pay' = [pay EXCEPT ![r].at = stage]
PayEnd(r) == pay' = [pay EXCEPT ![r] = PayIdle]

-----------------------------------------------------------------------------
(* createIntent *)

(* The order is read and must still be unpaid.                             *)
BeginIntent(r, o) ==
  /\ pay[r].at = "idle"
  /\ order[o].status \in {"draft", "pending_payment"}
  /\ pay' = [pay EXCEPT ![r] = [PayIdle EXCEPT !.at = "initialize", !.order = o]]
  /\ UNCHANGED <<tables, payment, inserted, form, posted, processed>>

(* checkoutFormInitialize.create answers with a token ...                  *)
InitializeForm(r, t) ==
  /\ pay[r].at = "initialize"
  /\ form[t] = "none"
  /\ form' = [form EXCEPT ![t] = "open"]
  /\ pay' = [pay EXCEPT ![r].at = "record", ![r].token = t]
  /\ UNCHANGED <<tables, payment, inserted, posted, processed>>

(* ... or with an error: 400, nothing written.                             *)
RefuseForm(r) ==
  /\ pay[r].at = "initialize"
  /\ PayEnd(r)
  /\ UNCHANGED <<tables, payment, inserted, form, posted, processed>>

(* One transaction inserts the payment and moves the order.                *)
RecordIntent(r) ==
  /\ pay[r].at = "record"
  /\ payment' = [payment EXCEPT ![pay[r].token] =
                   [order |-> pay[r].order, status |-> "requires_action",
                    nth |-> inserted + 1]]
  /\ inserted' = inserted + 1
  /\ SetStatus(pay[r].order, "pending_payment")
  /\ PayEnd(r)
  /\ UNCHANGED <<complaint, notices, audit, form, posted, processed>>

-----------------------------------------------------------------------------
(* The customer at iyzico's hosted page.  The token reaches the browser in *)
(* the response of createIntent, after the payment row is inserted.        *)

PayForm(t) ==
  /\ form[t] = "open" /\ Exists(t)
  /\ form' = [form EXCEPT ![t] = "paid"]
  /\ posted' = posted \cup {<<t, "succeeded">>}
  /\ UNCHANGED <<tables, payment, inserted, processed, pay>>

DeclineForm(t) ==
  /\ form[t] = "open" /\ Exists(t)
  /\ posted' = posted \cup {<<t, "failed">>}
  /\ UNCHANGED <<tables, payment, inserted, form, processed, pay>>

-----------------------------------------------------------------------------
(* The two confirmation paths *)

(* Mutant of Callback: the browser's word is taken for the outcome.        *)
CallbackUnverified(r, t) ==
  /\ pay[r].at = "idle"
  /\ Exists(t)
  /\ pay' = [pay EXCEPT ![r] = [PayIdle EXCEPT !.at = "pay", !.token = t,
                                  !.outcome = "succeeded"]]
  /\ UNCHANGED <<tables, payment, inserted, form, posted, processed>>

(* handleCallback: anyone holding the token may post it, at any time and   *)
(* any number of times; the form is retrieved from iyzico.                 *)
Callback(r, t) ==
  /\ "callback" \in ConfirmPaths
  /\ pay[r].at = "idle"
  /\ Exists(t)
  /\ pay' = [pay EXCEPT ![r] =
               [PayIdle EXCEPT !.at = "pay", !.token = t,
                  !.outcome = IF form[t] \in {"paid", "returned"}
                                THEN "succeeded" ELSE "failed"]]
  /\ UNCHANGED <<tables, payment, inserted, form, posted, processed>>

(* Mutant of Webhook: the event is marked before it is handled.            *)
WebhookMarksFirst(r, t, outcome) ==
  /\ "webhook" \in ConfirmPaths
  /\ pay[r].at = "idle"
  /\ <<t, outcome>> \in posted \ processed
  /\ processed' = processed \cup {<<t, outcome>>}
  /\ pay' = [pay EXCEPT ![r] = [PayIdle EXCEPT !.at = "pay", !.token = t,
                                  !.outcome = outcome, !.webhook = TRUE]]
  /\ UNCHANGED <<tables, payment, inserted, form, posted>>

(* handleIyzicoWebhook: a delivery of an event not yet marked processed.   *)
(* One that is marked is answered "duplicate" and changes nothing.         *)
Webhook(r, t, outcome) ==
  /\ "webhook" \in ConfirmPaths
  /\ pay[r].at = "idle"
  /\ <<t, outcome>> \in posted \ processed
  /\ pay' = [pay EXCEPT ![r] = [PayIdle EXCEPT !.at = "pay", !.token = t,
                                  !.outcome = outcome, !.webhook = TRUE]]
  /\ UNCHANGED <<tables, payment, inserted, form, posted, processed>>

(* finalizePayment: the payment takes the outcome, whatever it was; only a *)
(* success goes on to the order.                                           *)
FinalizeRow(r) ==
  /\ pay[r].at = "pay"
  /\ payment' = [payment EXCEPT ![pay[r].token].status = pay[r].outcome]
  /\ \/ pay[r].outcome = "succeeded" /\ PayGoto(r, "confirm")
     \/ pay[r].outcome = "failed" /\ pay[r].webhook /\ PayGoto(r, "mark")
     \/ pay[r].outcome = "failed" /\ ~pay[r].webhook /\ PayEnd(r)
  /\ UNCHANGED <<tables, inserted, form, posted, processed>>

ConfirmOrder(r) ==
  /\ pay[r].at = "confirm"
  /\ SetStatus(payment[pay[r].token].order, "confirmed")
  /\ PayGoto(r, "audit")
  /\ UNCHANGED <<complaint, notices, audit, payment, inserted, form, posted, processed>>

AuditConfirm(r) ==
  /\ pay[r].at = "audit"
  /\ Audit("order.confirm", payment[pay[r].token].order)
  /\ PayGoto(r, "notify")
  /\ UNCHANGED <<order, complaint, notices, payment, inserted, form, posted, processed>>

NotifyConfirm(r) ==
  /\ pay[r].at = "notify"
  /\ Notify("order_confirmed", payment[pay[r].token].order)
  /\ \/ pay[r].webhook /\ PayGoto(r, "mark")
     \/ ~pay[r].webhook /\ PayEnd(r)
  /\ UNCHANGED <<order, complaint, audit, payment, inserted, form, posted, processed>>

(* processedWebhookEvent.create: the unique constraint makes a second      *)
(* insert fail, after everything else has been done.                       *)
MarkEvent(r) ==
  /\ pay[r].at = "mark"
  /\ processed' = processed \cup {<<pay[r].token, pay[r].outcome>>}
  /\ PayEnd(r)
  /\ UNCHANGED <<tables, payment, inserted, form, posted>>

(* A request dies between two awaits: the process is restarted, or a call  *)
(* of the database or of iyzico throws.                                    *)
AbortPay(r) ==
  /\ pay[r].at # "idle"
  /\ PayEnd(r)
  /\ UNCHANGED <<tables, payment, inserted, form, posted, processed>>

-----------------------------------------------------------------------------
PayStep(r) ==
  \/ \E t \in Tokens : InitializeForm(r, t)
  \/ RefuseForm(r)
  \/ RecordIntent(r)
  \/ FinalizeRow(r)
  \/ ConfirmOrder(r)
  \/ AuditConfirm(r)
  \/ NotifyConfirm(r)
  \/ MarkEvent(r)

(* What happens when no request dies ...                                   *)
CheckoutWork ==
  \/ \E r \in PayRequests :
       \/ \E o \in Orders : BeginIntent(r, o)
       \/ \E t \in Tokens : Callback(r, t)
       \/ \E t \in Tokens, outcome \in Outcomes : Webhook(r, t, outcome)
       \/ PayStep(r)
  \/ \E t \in Tokens : PayForm(t) \/ DeclineForm(t)

(* ... and what happens.                                                   *)
CheckoutNext == CheckoutWork \/ \E r \in PayRequests : AbortPay(r)
=============================================================================
