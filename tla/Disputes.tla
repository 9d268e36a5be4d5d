------------------------------ MODULE Disputes ------------------------------
(***************************************************************************)
(* ComplaintsService (apps/api/src/complaints/complaints.service.ts) and   *)
(* PaymentsService.refund, which only it calls: a complaint is             *)
(* investigated, resolved, and, if so resolved, refunded at iyzico.        *)
(* iyzico returns the money of a payment at most once.                     *)
(***************************************************************************)
EXTENDS Checkout

CONSTANT DeskRequests   \* slots for complaint requests being handled at a time

VARIABLE desk           \* [DeskRequests -> Desk]

Resolutions == {"resolved_reservice", "resolved_refund", "rejected"}

DeskStages ==
  { "idle", "investigate", "auditInvestigate",
    "resolve", "auditResolve", "readOrder", "notify", "close", "auditReject",
    "findPayment", "returnMoney", "markRefunded", "readRefunded", "refundOrder",
    "auditRefund", "auditProcess" }

Desk ==
  [ at : DeskStages, complaint : Complaints \cup {None},
    outcome : Resolutions \cup {None}, token : Tokens \cup {None},
    disputed : BOOLEAN ]

DeskIdle == [at |-> "idle", complaint |-> None, outcome |-> None,
             token |-> None, disputed |-> FALSE]

DisputesTypeOK == desk \in [DeskRequests -> Desk]

DisputesInit == desk = [d \in DeskRequests |-> DeskIdle]

OrderOf(d) == complaint[desk[d].complaint].order

DeskGoto(d, stage) == desk' = [desk EXCEPT ![d].at = stage]
DeskEnd(d) == desk' = [desk EXCEPT ![d] = DeskIdle]

-----------------------------------------------------------------------------
(* investigate *)
BeginInvestigate(d, k) ==
  /\ desk[d].at = "idle"
  /\ complaint[k].status = "open"
  /\ desk' = [desk EXCEPT ![d] = [DeskIdle EXCEPT !.at = "investigate", !.complaint = k]]
  /\ UNCHANGED <<tables, checkoutVars>>

Investigate(d) ==
  /\ desk[d].at = "investigate"
  /\ complaint' = [complaint EXCEPT ![desk[d].complaint].status = "investigating"]
  /\ DeskGoto(d, "auditInvestigate")
  /\ UNCHANGED <<order, notices, audit, checkoutVars>>

-----------------------------------------------------------------------------
(* resolve *)
BeginResolve(d, k, outcome) ==
  /\ desk[d].at = "idle"
  /\ complaint[k].status = "investigating"
  /\ desk' = [desk EXCEPT ![d] = [DeskIdle EXCEPT !.at = "resolve",
                                    !.complaint = k, !.outcome = outcome]]
  /\ UNCHANGED <<tables, checkoutVars>>

Resolve(d) ==
  /\ desk[d].at = "resolve"
  /\ complaint' = [complaint EXCEPT ![desk[d].complaint].status = desk[d].outcome]
  /\ DeskGoto(d, "auditResolve")
  /\ UNCHANGED <<order, notices, audit, checkoutVars>>

ReadDisputed(d) ==
  /\ desk[d].at = "readOrder"
  /\ desk' = [desk EXCEPT ![d].at = "notify",
                          ![d].disputed = (order[OrderOf(d)].status = "disputed")]
  /\ UNCHANGED <<tables, checkoutVars>>

(* The order is closed only after the customer was notified, and only if   *)
(* it was read as disputed before that.                                    *)
NotifyResolved(d) ==
  /\ desk[d].at = "notify"
  /\ Notify("complaint_resolved", OrderOf(d))
  /\ IF desk[d].outcome = "rejected" /\ desk[d].disputed
       THEN DeskGoto(d, "close") ELSE DeskEnd(d)
  /\ UNCHANGED <<order, complaint, audit, checkoutVars>>

CloseDispute(d) ==
  /\ desk[d].at = "close"
  /\ SetStatus(OrderOf(d), "closed")
  /\ DeskGoto(d, "auditReject")
  /\ UNCHANGED <<complaint, notices, audit, checkoutVars>>

-----------------------------------------------------------------------------
(* processRefund *)
(* Mutant of BeginRefund: the resolution is not checked.                   *)
BeginRefundUnresolved(d, k) ==
  /\ desk[d].at = "idle"
  /\ complaint[k].status # "absent"
  /\ desk' = [desk EXCEPT ![d] = [DeskIdle EXCEPT !.at = "findPayment", !.complaint = k]]
  /\ UNCHANGED <<tables, checkoutVars>>

BeginRefund(d, k) ==
  /\ desk[d].at = "idle"
  /\ complaint[k].status = "resolved_refund"
  /\ desk' = [desk EXCEPT ![d] = [DeskIdle EXCEPT !.at = "findPayment", !.complaint = k]]
  /\ UNCHANGED <<tables, checkoutVars>>

Refundable(o) ==
  {t \in Tokens : payment[t].order = o /\ payment[t].status = "succeeded"}

(* Mutant of FindPayment: an order without a payment is refunded as well.  *)
FindPaymentOrSkip(d) ==
  /\ desk[d].at = "findPayment"
  /\ \/ \E t \in Refundable(OrderOf(d)) :
          desk' = [desk EXCEPT ![d].at = "returnMoney", ![d].token = t]
     \/ Refundable(OrderOf(d)) = {} /\ DeskGoto(d, "readRefunded")
  /\ UNCHANGED <<tables, checkoutVars>>

(* payment.findFirst: the newest succeeded payment of the order, or 400.   *)
FindPayment(d) ==
  /\ desk[d].at = "findPayment"
  /\ \/ \E t \in Refundable(OrderOf(d)) :
          /\ \A u \in Refundable(OrderOf(d)) : payment[u].nth <= payment[t].nth
          /\ desk' = [desk EXCEPT ![d].at = "returnMoney", ![d].token = t]
     \/ Refundable(OrderOf(d)) = {} /\ DeskEnd(d)
  /\ UNCHANGED <<tables, checkoutVars>>

(* iyzico.refund.create: 400 if iyzico refuses.                            *)
ReturnMoney(d) ==
  /\ desk[d].at = "returnMoney"
  /\ \/ /\ form[desk[d].token] = "paid"
        /\ form' = [form EXCEPT ![desk[d].token] = "returned"]
        /\ DeskGoto(d, "markRefunded")
     \/ /\ form[desk[d].token] = "returned"
        /\ DeskEnd(d)
        /\ UNCHANGED form
  /\ UNCHANGED <<tables, payment, inserted, posted, processed, pay>>

MarkRefunded(d) ==
  /\ desk[d].at = "markRefunded"
  /\ payment' = [payment EXCEPT ![desk[d].token].status = "refunded"]
  /\ DeskGoto(d, "readRefunded")
  /\ UNCHANGED <<tables, inserted, form, posted, processed, pay>>

ReadRefunded(d) ==
  /\ desk[d].at = "readRefunded"
  /\ IF order[OrderOf(d)].status = "refunded" THEN DeskGoto(d, "auditProcess")
                                              ELSE DeskGoto(d, "refundOrder")
  /\ UNCHANGED <<tables, checkoutVars>>

RefundOrder(d) ==
  /\ desk[d].at = "refundOrder"
  /\ SetStatus(OrderOf(d), "refunded")
  /\ DeskGoto(d, "auditRefund")
  /\ UNCHANGED <<complaint, notices, audit, checkoutVars>>

-----------------------------------------------------------------------------
(* The audit records of the three operations: what each one says, and what *)
(* the request does next.                                                  *)
DeskRecord(stage, o, k) ==
  CASE stage = "auditInvestigate" -> <<"complaint.investigate", k>>
    [] stage = "auditResolve"     -> <<"complaint.resolve", k>>
    [] stage = "auditReject"      -> <<"order.dispute_rejected", o>>
    [] stage = "auditRefund"      -> <<"order.refund", o>>
    [] stage = "auditProcess"     -> <<"complaint.process_refund", k>>

AuditDesk(d) ==
  /\ desk[d].at \in {"auditInvestigate", "auditResolve", "auditReject",
                     "auditRefund", "auditProcess"}
  /\ audit' = audit \cup {DeskRecord(desk[d].at, OrderOf(d), desk[d].complaint)}
  /\ CASE desk[d].at = "auditResolve" -> DeskGoto(d, "readOrder")
       [] desk[d].at = "auditRefund"  -> DeskGoto(d, "auditProcess")
       [] OTHER                       -> DeskEnd(d)
  /\ UNCHANGED <<order, complaint, notices, checkoutVars>>

(* A request dies between two awaits.                                      *)
AbortDesk(d) ==
  /\ desk[d].at # "idle"
  /\ DeskEnd(d)
  /\ UNCHANGED <<tables, checkoutVars>>

-----------------------------------------------------------------------------
DeskStep(d) ==
  \/ Investigate(d)
  \/ Resolve(d)
  \/ ReadDisputed(d)
  \/ NotifyResolved(d)
  \/ CloseDispute(d)
  \/ FindPayment(d)
  \/ ReturnMoney(d)
  \/ MarkRefunded(d)
  \/ ReadRefunded(d)
  \/ RefundOrder(d)
  \/ AuditDesk(d)

DisputesWork ==
  \E d \in DeskRequests :
    \/ \E k \in Complaints :
         \/ BeginInvestigate(d, k)
         \/ \E outcome \in Resolutions : BeginResolve(d, k, outcome)
         \/ BeginRefund(d, k)
    \/ DeskStep(d)

DisputesNext == DisputesWork \/ \E d \in DeskRequests : AbortDesk(d)
=============================================================================
