------------------------ MODULE MarketplaceInvariant ------------------------
(***************************************************************************)
(* Why the safety properties of Marketplace hold: what a request that was  *)
(* decided upon stale rows may still rely on when it writes.  A status may *)
(* change behind its back, but the facts it stands for are never taken     *)
(* back, so each claim below, once it is true of a request, stays true.    *)
(***************************************************************************)
EXTENDS Marketplace

-----------------------------------------------------------------------------
(* Well-formed rows and requests: types, and what makes them inductive.    *)

(* An inserted complaint belongs to an order.                              *)
TablesTyped ==
  /\ TablesTypeOK
  /\ \A k \in Complaints :
       complaint[k].status # "absent" <=> complaint[k].order \in Orders

(* A request that is past its first step knows the rows it works on; an    *)
(* inserted payment belongs to an order, and only its form raises events.  *)
PayFits(task) ==
  /\ task \in PayTask
  /\ task.at \in {"initialize", "record"} => task.order \in Orders
  /\ task.at = "record" => task.token \in Tokens
  /\ task.at \in {"pay", "confirm", "audit", "notify", "mark"} =>
       task.token \in Tokens /\ Exists(task.token) /\ task.outcome \in Outcomes

PayTyped ==
  /\ CheckoutTypeOK
  /\ \A t \in Tokens : Exists(t) => payment[t].order \in Orders
  /\ \A t \in Tokens, outcome \in Outcomes : <<t, outcome>> \in posted => Exists(t)
  /\ \A r \in PayRequests : PayFits(pay[r])

JobFits(task) ==
  /\ task \in Job
  /\ task.at # "idle" =>
       /\ task.op \in Operations
       /\ task.op \in {"active", "rejected", "assign"} => task.partner \in Partners
       /\ task.op \notin {"active", "rejected"} => task.order \in Orders
       /\ task.op = "evidence" =>
            task.kind \in PhotoKinds /\ task.at \in {"write", "review"}
       /\ task.at = "notify" => task.op \in {"assign", "complete", "complain"}

JobTyped ==
  /\ FulfilmentTypeOK
  /\ \A j \in OrderRequests : JobFits(job[j])

DeskFits(task) ==
  /\ task \in Desk
  /\ task.at # "idle" =>
       /\ task.complaint \in Complaints
       /\ complaint[task.complaint].status # "absent"
       /\ task.at = "resolve" => task.outcome \in Resolutions
       /\ task.at \in {"returnMoney", "markRefunded"} =>
            task.token \in Tokens /\ Exists(task.token)

DeskTyped ==
  /\ DisputesTypeOK
  /\ \A d \in DeskRequests : DeskFits(desk[d])

(* A complaint, once inserted, stays.                                      *)
ComplaintsKept ==
  \A k \in Complaints :
    complaint[k].status # "absent" => complaint'[k].status # "absent"

(* So does a payment.                                                      *)
PaymentsKept == \A t \in Tokens : Exists(t) => payment'[t].status # "absent"

TypeInv == TablesTyped /\ PayTyped /\ JobTyped /\ DeskTyped /\ SweepsTypeOK

-----------------------------------------------------------------------------
(* Money: what a payment request may say of its form.                      *)

(* iyzico takes a payment only on a form whose row was inserted, and tells *)
(* of a success only then; one request at a time inserts the row of a form.*)
FormsTell ==
  /\ \A t \in Tokens : /\ Paid(t) => Exists(t)
                       /\ form[t] = "none" => ~Exists(t)
                       /\ <<t, "succeeded">> \in posted \cup processed => Paid(t)
  /\ \A r, s \in PayRequests :
       pay[r].at = "record" /\ pay[s].at = "record" /\ pay[r].token = pay[s].token
         => r = s

PayClaim(r) ==
  /\ pay[r].at = "record" => form[pay[r].token] = "open" /\ ~Exists(pay[r].token)
  /\ pay[r].at \in {"confirm", "audit", "notify"} => pay[r].outcome = "succeeded"
  /\ pay[r].at \in {"pay", "confirm", "audit", "notify", "mark"} =>
       (pay[r].outcome = "succeeded" => Paid(pay[r].token))

MoneyInv == FormsTell /\ \A r \in PayRequests : PayClaim(r)

-----------------------------------------------------------------------------
(* What no step takes back.                                                *)

Vetted(p) == partner[p] \in {"active", "rejected"}

TakenUp(k) == complaint[k].status \notin {"absent", "open"}

Photographed(o) == RequiredKinds \subseteq photos[o]

Complained(o) == \E k \in Complaints : complaint[k].order = o
Examined(o) == \E k \in Complaints : complaint[k].order = o /\ TakenUp(k)

NothingTakenBack ==
  /\ \A o \in Orders : /\ Charged(o) => Charged(o)'
                       /\ Returned(o) => Returned(o)'
                       /\ Photographed(o) => Photographed(o)'
                       /\ Evidenced(o) => Evidenced(o)'
                       /\ Complained(o) => Complained(o)'
                       /\ Examined(o) => Examined(o)'
                       /\ order[o].completed => order'[o].completed
  /\ \A p \in Partners : Vetted(p) => Vetted(p)'
  /\ \A k \in Complaints :
       /\ complaint[k].status # "absent" => complaint'[k].order = complaint[k].order
       /\ TakenUp(k) => TakenUp(k)'
  /\ \A t \in Tokens :
       /\ Exists(t) => Exists(t)' /\ payment'[t].order = payment[t].order
       /\ Paid(t) => Paid(t)'
       /\ form[t] = "returned" => form'[t] = "returned"
  /\ audit \subseteq audit'
  /\ notices \subseteq notices'

-----------------------------------------------------------------------------
(* What the status of an order stands for, and what every request that was *)
(* begun on that status still relies on.                                   *)

Done(o) == Charged(o) /\ Evidenced(o)

OrderClaim(o) ==
  /\ order[o].status \notin UnpaidStatus => Charged(o)
  /\ order[o].status \in DoneStatus => Evidenced(o)
  /\ order[o].status = "refunded" => Returned(o)
  /\ order[o].status = "disputed" => Complained(o)
  /\ order[o].completed => Charged(o) /\ Photographed(o)
  /\ order[o].partner # None => Vetted(order[o].partner)

PayoutClaim(o) == \A p \in Partners : payouts[o][p] > 0 => Done(o) /\ Vetted(p)

ReturnClaim(o) == Returned(o) => Examined(o)

JobClaim(j) ==
  job[j].at \in {"check", "write"} =>
    /\ job[j].op \in {"assign", "start", "complete", "approve"} => Charged(job[j].order)
    /\ job[j].op = "assign" /\ job[j].at = "write" => Vetted(job[j].partner)
    /\ job[j].op = "complete" /\ job[j].at = "write" => Photographed(job[j].order)
    /\ job[j].op = "approve" =>
         /\ Done(job[j].order)
         /\ job[j].partner # None => Vetted(job[j].partner)
    /\ job[j].op = "complain" /\ job[j].dispute => Done(job[j].order)

DeskClaim(d) ==
  /\ desk[d].at \in {"findPayment", "returnMoney", "markRefunded"} =>
       TakenUp(desk[d].complaint)
  /\ desk[d].at \in {"returnMoney", "markRefunded"} =>
       payment[desk[d].token].order = OrderOf(d)
  /\ desk[d].at = "markRefunded" => form[desk[d].token] = "returned"
  /\ desk[d].at \in {"readRefunded", "refundOrder"} => Returned(OrderOf(d))
  /\ desk[d].at = "close" => desk[d].disputed
  /\ desk[d].at \in {"notify", "close"} /\ desk[d].disputed => Done(OrderOf(d))

SlaClaim ==
  sla.job = "close" =>
    \A o \in sla.todo : Done(o) /\ (sla.owed[o] # None => Vetted(sla.owed[o]))

ClaimsInv ==
  /\ \A o \in Orders : OrderClaim(o) /\ PayoutClaim(o) /\ ReturnClaim(o)
  /\ \A j \in OrderRequests : JobClaim(j)
  /\ \A d \in DeskRequests : DeskClaim(d)
  /\ SlaClaim

Invariant == TypeInv /\ MoneyInv /\ ClaimsInv

-----------------------------------------------------------------------------
(* What an event that is marked processed has left behind, in an instance  *)
(* that keeps the audit record and the notification of a confirmation.     *)
Recorded(t) == <<"order.confirm", payment[t].order>> \in audit
Announced(t) == <<"order_confirmed", payment[t].order>> \in notices

MarkClaim(r) ==
  /\ pay[r].at = "notify" => Recorded(pay[r].token)
  /\ pay[r].at = "mark" /\ pay[r].outcome = "succeeded" =>
       Recorded(pay[r].token) /\ Announced(pay[r].token)

MarkInv ==
  /\ \A r \in PayRequests : MarkClaim(r)
  /\ \A t \in Tokens : <<t, "succeeded">> \in processed => Recorded(t) /\ Announced(t)

KeepsConfirmations == {"order.confirm", "order_confirmed"} \subseteq Observed

-----------------------------------------------------------------------------
(* What a request may rely on beyond its claim when nothing else handles   *)
(* its order (OneAtATime): the status it was begun on is still there.      *)

PayFresh(r) ==
  pay[r].at \in {"initialize", "record"} =>
    order[pay[r].order].status \in {"draft", "pending_payment"}

AsRead ==
  [ assign |-> "confirmed", start |-> "assigned", complete |-> "in_progress",
    approve |-> "completed_pending_approval" ]

JobFresh(j) ==
  job[j].at \in {"check", "write"} =>
    /\ job[j].op \in DOMAIN AsRead => order[job[j].order].status = AsRead[job[j].op]
    /\ job[j].op = "complain" /\ job[j].dispute =>
         order[job[j].order].status = "completed_pending_approval"

DeskFresh(d) ==
  desk[d].at \in {"notify", "close"} /\ desk[d].disputed =>
    order[OrderOf(d)].status = "disputed"

SlaFresh ==
  \A o \in sla.todo \ {sla.auditing} :
    /\ sla.job = "cancel" => order[o].status = "pending_payment"
    /\ sla.job = "close" => order[o].status = "completed_pending_approval"

(* An order with a payment has left the draft, however requests overlap.   *)
Placed ==
  \A t \in Tokens : Exists(t) => order[payment[t].order].status \notin {"absent", "draft"}

FreshInv ==
  /\ Placed
  /\ \A r \in PayRequests : PayFresh(r)
  /\ \A j \in OrderRequests : JobFresh(j)
  /\ \A d \in DeskRequests : DeskFresh(d)
  /\ SlaFresh

-----------------------------------------------------------------------------
(* What holds when, besides, no status goes back (StatusNeverGoesBack).    *)

(* A payout is the only one of its order, which is closed or refunded.     *)
PaidOutOnce(o, p) ==
  payouts[o][p] > 0 =>
    /\ payouts[o][p] = 1 /\ Stage[order[o].status] >= 8
    /\ \A q \in Partners \ {p} : payouts[o][q] = 0

PaidOut == \A o \in Orders, p \in Partners : PaidOutOnce(o, p)

(* An order that has a partner is past "confirmed", for good.              *)
PastConfirmed == \A o \in Orders : order[o].partner # None => Stage[order[o].status] >= 4

-----------------------------------------------------------------------------
(* The onboarding of a partner is decided by one request at a time: what   *)
(* PartnersService would get from a lock on the row, and does not take.    *)
Vetting(j) == job[j].at = "write" /\ job[j].op \in {"active", "rejected"}

OneVetting ==
  \A i, j \in OrderRequests :
    Vetting(i) /\ Vetting(j) /\ job[i].partner = job[j].partner => i = j

(* Then the partner still is as the request found him.                     *)
VetFresh == \A j \in OrderRequests : Vetting(j) => partner[job[j].partner] = "onboarding"
=============================================================================
