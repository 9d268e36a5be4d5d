---------------------------- MODULE Marketplace ----------------------------
(***************************************************************************)
(* The order life cycle as the API runs it: payment requests, order        *)
(* requests, complaint requests and the SLA worker, all interleaved over   *)
(* the same rows.                                                          *)
(***************************************************************************)
EXTENDS Disputes, Sweeps

vars == <<tables, checkoutVars, desk, fulfilmentVars, sla>>

Init ==
  /\ TablesInit
  /\ CheckoutInit
  /\ DisputesInit
  /\ FulfilmentInit
  /\ SweepsInit

(* What each service leaves alone.                                         *)
PaymentsFrame == UNCHANGED <<desk, fulfilmentVars, sla>>
DeskFrame     == UNCHANGED <<fulfilmentVars, sla>>
OrdersFrame   == UNCHANGED <<checkoutVars, desk, sla>>
SlaFrame      == UNCHANGED <<checkoutVars, desk>>
ClockFrame    == UNCHANGED <<checkoutVars, desk, fulfilmentVars, sla>>

Next ==
  \/ CheckoutNext /\ PaymentsFrame
  \/ DisputesNext /\ DeskFrame
  \/ FulfilmentNext /\ OrdersFrame
  \/ SweepsNext /\ SlaFrame
  \/ \E o \in Orders : Elapse(o) /\ ClockFrame

Spec == Init /\ [][Next]_vars

-----------------------------------------------------------------------------
(* Fairness.  A handler that has begun runs to its end, time passes, the   *)
(* cron keeps adding sweeps to a queue that is worked off in order, and    *)
(* iyzico keeps delivering an event until it is answered as processed.     *)
(* Strong fairness for the last two, because the worker and the slots for  *)
(* requests may be taken by others in between.                             *)
Fairness ==
  /\ \A r \in PayRequests : WF_vars(PayStep(r) /\ PaymentsFrame)
  /\ \A j \in OrderRequests : WF_vars(JobStep(j) /\ OrdersFrame)
  /\ \A d \in DeskRequests : WF_vars(DeskStep(d) /\ DeskFrame)
  /\ \A o \in Orders : WF_vars(SweepStep(o) /\ SlaFrame)
  /\ \A o \in Orders : WF_vars(Elapse(o) /\ ClockFrame)
  /\ \A which \in Sweeps : SF_vars(BeginSweep(which) /\ SlaFrame)
  /\ \A t \in Tokens : SF_vars(\E r \in PayRequests :
                                  Webhook(r, t, "succeeded") /\ PaymentsFrame)

(* Requests die again and again only for so long: from some point on,      *)
(* every step is one of a request or a sweep that goes on.  (To forbid the *)
(* steps of AbortPay, AbortSweep ... instead would forbid the last step of *)
(* a sweep with nothing new to write, too, which looks just like them.)    *)
Work ==
  \/ CheckoutWork /\ PaymentsFrame
  \/ DisputesWork /\ DeskFrame
  \/ FulfilmentWork /\ OrdersFrame
  \/ SweepsWork /\ SlaFrame
  \/ \E o \in Orders : Elapse(o) /\ ClockFrame

FairSpec == Spec /\ Fairness /\ <>[][Work]_vars

TypeOK ==
  /\ TablesTypeOK
  /\ CheckoutTypeOK
  /\ DisputesTypeOK
  /\ FulfilmentTypeOK
  /\ SweepsTypeOK

-----------------------------------------------------------------------------
(* What the rows say about an order *)

Paid(t) == form[t] \in {"paid", "returned"}

(* The customer's card was charged for the order.                          *)
Charged(o) == \E t \in Tokens : payment[t].order = o /\ Paid(t)

(* Money was returned for the order.                                       *)
Returned(o) == \E t \in Tokens : payment[t].order = o /\ form[t] = "returned"

(* Its completion was accepted with the two photographs.                   *)
Evidenced(o) == order[o].completed /\ RequiredKinds \subseteq photos[o]

UnpaidStatus == {"absent", "draft", "pending_payment", "cancelled"}
DoneStatus == {"completed_pending_approval", "disputed", "closed"}

-----------------------------------------------------------------------------
(* Safety *)

(* No order is beyond payment unless iyzico charged the customer for it,   *)
(* whatever the callback, the webhook, the sweeps and stale requests wrote *)
(* over each other (payments.service.ts:437-457).                          *)
WorkIsPaid ==
  \A o \in Orders : order[o].status \notin UnpaidStatus => Charged(o)

(* An order awaiting approval, disputed or closed was completed with a     *)
(* wide shot and a detail shot (orders.service.ts:478-508), although every *)
(* later status is written without looking at the photographs again.       *)
DoneIsEvidenced ==
  \A o \in Orders : order[o].status \in DoneStatus => Evidenced(o)

(* A partner is owed money for an order only if the customer was charged,  *)
(* the work was evidenced, and the partner's onboarding was decided upon   *)
(* before the partner was assigned (orders.service.ts:272,565-582,         *)
(* sla.service.ts:93-108).                                                 *)
PayoutIsEarned ==
  \A o \in Orders, p \in Partners : payouts[o][p] > 0 =>
    Charged(o) /\ Evidenced(o) /\ partner[p] \in {"active", "rejected"}

(* An order that reads refunded had money returned to the customer: the    *)
(* status is written only behind iyzico's answer                           *)
(* (complaints.service.ts:214-228).                                        *)
RefundedIsReturned ==
  \A o \in Orders : order[o].status = "refunded" => Returned(o)

(* A webhook event is marked processed only behind everything it stands    *)
(* for: a success that is marked, and so never handled again, has left its *)
(* audit record and its notification (payments.service.ts:295-306).        *)
ProcessedIsFinal ==
  \A t \in Tokens : <<t, "succeeded">> \in processed =>
    /\ Paid(t)
    /\ <<"order.confirm", payment[t].order>> \in audit
    /\ <<"order_confirmed", payment[t].order>> \in notices

(* A dispute is always over a complaint on that very order, in spite of    *)
(* the stale status it may have been opened on (orders.service.ts:611-634).*)
DisputedHasComplaint ==
  \A o \in Orders : order[o].status = "disputed" =>
    \E k \in Complaints : complaint[k].order = o

(* Money goes back to the customer only over a complaint on the order that *)
(* had been taken up by the desk (complaints.service.ts:202-217).          *)
ReturnedHasComplaint ==
  \A o \in Orders : Returned(o) =>
    \E k \in Complaints :
      complaint[k].order = o /\ complaint[k].status \notin {"absent", "open"}

-----------------------------------------------------------------------------
(* Refinement *)

(* Charge before work, evidence before earnings, no return of what was not *)
(* charged: however its requests interleave, the API keeps the promise of  *)
(* Settlement.                                                             *)
Settled == INSTANCE Settlement WITH
  charged   <- {o \in Orders : Charged(o)},
  delivered <- {o \in Orders : order[o].completed},
  earned    <- {o \in Orders : \E p \in Partners : payouts[o][p] > 0},
  returned  <- {o \in Orders : Returned(o)}

ImplementsSettlement == Settled!SettlementSpec

(* What handles an order: the requests and the sweep that may still read   *)
(* or write it.                                                            *)
PayOrder(r) == IF pay[r].at \in {"initialize", "record"} THEN pay[r].order
                                                       ELSE payment[pay[r].token].order

Handling(o) ==
  UNION { {"payment"} \X {r \in PayRequests : pay[r].at # "idle" /\ PayOrder(r) = o},
          {"order"} \X {j \in OrderRequests : job[j].at # "idle" /\ job[j].order = o},
          {"complaint"} \X {d \in DeskRequests : desk[d].at # "idle" /\ OrderOf(d) = o},
          {"sweep"} \X {which \in {sla.job} : o \in sla.todo} }

(* What a lock on the order would give, and the API does not take.         *)
OneAtATime == \A o \in Orders : \A h, i \in Handling(o) : h = i

(* No confirmation is written once the order has gone on.  The code writes *)
(* it whatever the status is (payments.service.ts:452-458).                *)
NoLateConfirmation ==
  \A r \in PayRequests :
    pay[r].at = "confirm" =>
      order[payment[pay[r].token].order].status \in {"pending_payment", "cancelled", "confirmed"}

(* Handled one request at a time (OneAtATime), and but for late            *)
(* confirmations, orders follow the machine of OrderLifecycle: the checks  *)
(* of four services add up to it (orders.service.ts:263-270,320-330,       *)
(* 486-500,548-554,611-615, complaints.service.ts:138-158,                 *)
(* sla.service.ts:39-118).                                                 *)
Lifecycle == INSTANCE OrderLifecycle WITH
  status  <- [o \in Orders |-> order[o].status],
  charged <- {o \in Orders : Charged(o)}

FollowsLifecycle == Lifecycle!LifecycleSpec

-----------------------------------------------------------------------------
(* Liveness, under FairSpec *)

(* A payment made at iyzico is confirmed in the end, through any number of *)
(* crashed deliveries: an event is retried until it is marked, and it is   *)
(* marked last (payments.service.ts:281-306).                              *)
PaidIsConfirmed ==
  \A t \in Tokens :
    form[t] = "paid" ~> <<"order.confirm", payment[t].order>> \in audit

(* An order does not wait for its payment forever: the sweep cancels it 24 *)
(* hours after its last attempt (sla.service.ts:39-63).                    *)
UnpaidIsSettled ==
  \A o \in Orders :
    order[o].status = "pending_payment" ~> order[o].status # "pending_payment"

(* Nor for its approval (sla.service.ts:79-118).                           *)
ApprovalEnds ==
  \A o \in Orders :
    order[o].status = "completed_pending_approval"
      ~> order[o].status # "completed_pending_approval"

-----------------------------------------------------------------------------
(* What comments and tests of the repository say, and the code does not do *)

(* "durumlar geriye gitmez": a status never goes back, disputed and        *)
(* refunded branch off after completion, cancelled off pending_payment     *)
(* (kpi.service.ts:12-15).                                                 *)
Stage ==
  [ absent |-> 0, draft |-> 1, pending_payment |-> 2, confirmed |-> 3,
    assigned |-> 4, in_progress |-> 5, completed_pending_approval |-> 6,
    disputed |-> 7, closed |-> 8, refunded |-> 8, cancelled |-> 3 ]

StatusNeverGoesBack ==
  [][\A o \in Orders : Stage[order'[o].status] >= Stage[order[o].status]]_order

(* "'cancelled' branches off pending_payment only" (kpi.service.ts:14):    *)
(* the sweep writes it to an order that was paid since it was selected.    *)
CancelledFromPending ==
  [][\A o \in Orders :
       order'[o].status = "cancelled" /\ order[o].status # "cancelled"
         => order[o].status = "pending_payment"]_order

(* "must not create a second payout for the same order"                    *)
(* (sla.e2e-spec.ts:169-174).                                              *)
OnePayoutPerOrder ==
  \A o \in Orders, p \in Partners : payouts[o][p] <= 1

(* Only a partner that is onboarding is approved or rejected; approving    *)
(* one that is already active or rejected is refused                       *)
(* (partners.service.ts:123-125).                                          *)
DecisionIsFinal ==
  [][\A p \in Partners : partner[p] \in {"active", "rejected"}
                            => partner'[p] = partner[p]]_partner

(* When a complaint is rejected, the order leaves the disputed state and   *)
(* becomes closed (complaints.service.ts:140-142).                         *)
RejectionEndsDispute ==
  \A k \in Complaints, o \in Orders :
    complaint[k] = [order |-> o, status |-> "rejected"]
      ~> order[o].status # "disputed"
=============================================================================
