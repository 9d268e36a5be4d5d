----------------------------- MODULE Fulfilment -----------------------------
(***************************************************************************)
(* OrdersService (apps/api/src/orders/orders.service.ts) after checkout,   *)
(* and the decision on a partner's onboarding of PartnersService           *)
(* (apps/api/src/partners/partners.service.ts).                            *)
(*                                                                         *)
(* Every operation reads rows, decides, writes one row unconditionally,    *)
(* then records the transition and notifies, each in its own await.        *)
(***************************************************************************)
EXTENDS Tables

CONSTANTS
  OrderRequests,  \* slots for order requests being handled at a time
  OtherKinds,     \* photo types complete does not ask for (before, after)
  MaxPayouts      \* bound on the payouts of a partner for one order

ASSUME MaxPayoutsAssumption == MaxPayouts \in Nat

VARIABLES
  partner,        \* [Partners -> PartnerStatus]
  photos,         \* [Orders -> SUBSET PhotoKinds]: kinds with an evidence row
  payouts,        \* [Orders -> [Partners -> Nat]]: partner_payouts rows
  job             \* [OrderRequests -> Job]

fulfilmentVars == <<partner, photos, payouts, job>>

PartnerStatus == {"absent", "onboarding", "active", "rejected"}

RequiredKinds == {"wide_shot", "detail_shot"}
PhotoKinds == RequiredKinds \cup OtherKinds

Operations == { "assign", "start", "evidence", "complete", "approve",
                "complain", "active", "rejected" }

Job ==
  [ at : {"idle", "check", "write", "review", "audit", "notify"},
    op : Operations \cup {None}, order : Orders \cup {None},
    partner : Partners \cup {None}, kind : PhotoKinds \cup {None},
    dispute : BOOLEAN ]

JobIdle == [at |-> "idle", op |-> None, order |-> None, partner |-> None,
            kind |-> None, dispute |-> FALSE]

FulfilmentTypeOK ==
  /\ partner \in [Partners -> PartnerStatus]
  /\ photos \in [Orders -> SUBSET PhotoKinds]
  /\ payouts \in [Orders -> [Partners -> Nat]]
  /\ job \in [OrderRequests -> Job]

FulfilmentInit ==
  /\ partner = [p \in Partners |-> "absent"]
  /\ photos = [o \in Orders |-> {}]
  /\ payouts = [o \in Orders |-> [p \in Partners |-> 0]]
  /\ job = [j \in OrderRequests |-> JobIdle]

At(j, op, stage) == job[j].op = op /\ job[j].at = stage

JobBegin(j, task) ==
  /\ job[j].at = "idle"
  /\ job' = [job EXCEPT ![j] = task]
  /\ UNCHANGED <<tables, partner, photos, payouts>>
JobGoto(j, stage) == job' = [job EXCEPT ![j].at = stage]
JobEnd(j) == job' = [job EXCEPT ![j] = JobIdle]

-----------------------------------------------------------------------------
(* create *)
CreateOrder(o) ==
  /\ order[o].status = "absent"
  /\ SetStatus(o, "draft")
  /\ UNCHANGED <<complaint, notices, audit, fulfilmentVars>>

-----------------------------------------------------------------------------
(* Partner onboarding *)

(* submitOnboarding: the upsert never touches the status of a row it finds. *)
Onboard(p) ==
  /\ partner[p] = "absent"
  /\ partner' = [partner EXCEPT ![p] = "onboarding"]
  /\ UNCHANGED <<tables, photos, payouts, job>>

(* approve and reject: read, then write the decision.                      *)
BeginVet(j, p, decision) ==
  /\ partner[p] = "onboarding"
  /\ JobBegin(j, [JobIdle EXCEPT !.at = "write", !.op = decision, !.partner = p])

Vet(j) ==
  /\ At(j, "active", "write") \/ At(j, "rejected", "write")
  /\ partner' = [partner EXCEPT ![job[j].partner] = job[j].op]
  /\ JobGoto(j, "audit")
  /\ UNCHANGED <<tables, photos, payouts>>

-----------------------------------------------------------------------------
(* Mutant of BeginAssign: the status of the order is not checked.          *)
BeginAssignAnyOrder(j, o, p) ==
  /\ order[o].status # "absent"
  /\ JobBegin(j, [JobIdle EXCEPT !.at = "check", !.op = "assign",
                    !.order = o, !.partner = p])

(* Mutant of CheckPartner: any partner that is found will do.              *)
CheckPartnerExists(j) ==
  /\ At(j, "assign", "check")
  /\ \/ partner[job[j].partner] # "absent" /\ JobGoto(j, "write")
     \/ partner[job[j].partner] = "absent" /\ JobEnd(j)
  /\ UNCHANGED <<tables, partner, photos, payouts>>

(* assign: the order is read, then the partner, then the order is written. *)
BeginAssign(j, o, p) ==
  /\ order[o].status = "confirmed"
  /\ JobBegin(j, [JobIdle EXCEPT !.at = "check", !.op = "assign",
                    !.order = o, !.partner = p])

CheckPartner(j) ==
  /\ At(j, "assign", "check")
  /\ \/ partner[job[j].partner] = "active" /\ JobGoto(j, "write")
     \/ partner[job[j].partner] # "active" /\ JobEnd(j)
  /\ UNCHANGED <<tables, partner, photos, payouts>>

Assign(j) ==
  /\ At(j, "assign", "write")
  /\ order' = [order EXCEPT ![job[j].order].status = "assigned",
                            ![job[j].order].partner = job[j].partner,
                            ![job[j].order].age = "fresh"]
  /\ JobGoto(j, "audit")
  /\ UNCHANGED <<complaint, notices, audit, partner, photos, payouts>>

-----------------------------------------------------------------------------
(* start, addEvidence and complete belong to the assigned partner.         *)
BeginStart(j, o, p) ==
  /\ order[o].status = "assigned"
  /\ order[o].partner = p
  /\ JobBegin(j, [JobIdle EXCEPT !.at = "write", !.op = "start",
                    !.order = o, !.partner = p])

Start(j) ==
  /\ At(j, "start", "write")
  /\ SetStatus(job[j].order, "in_progress")
  /\ JobGoto(j, "audit")
  /\ UNCHANGED <<complaint, notices, audit, partner, photos, payouts>>

(* addEvidence: the file is fetched, its EXIF examined and a derivative    *)
(* stored between the check of the status and the insertion of the row.    *)
BeginEvidence(j, o, p, kind) ==
  /\ order[o].status = "in_progress"
  /\ order[o].partner = p
  /\ JobBegin(j, [JobIdle EXCEPT !.at = "write", !.op = "evidence",
                    !.order = o, !.partner = p, !.kind = kind])

(* The geotag verdict is data: a photo that is not "valid" goes to review. *)
StoreEvidence(j) ==
  /\ At(j, "evidence", "write")
  /\ photos' = [photos EXCEPT ![job[j].order] = @ \cup {job[j].kind}]
  /\ JobGoto(j, "review") \/ JobEnd(j)
  /\ UNCHANGED <<tables, partner, payouts>>

(* notifyOpsForManualReview                                                *)
ReportForReview(j) ==
  /\ At(j, "evidence", "review")
  /\ Notify("evidence_manual_review", job[j].order)
  /\ JobEnd(j)
  /\ UNCHANGED <<order, complaint, audit, partner, photos, payouts>>

BeginComplete(j, o, p) ==
  /\ order[o].status = "in_progress"
  /\ order[o].partner = p
  /\ JobBegin(j, [JobIdle EXCEPT !.at = "check", !.op = "complete",
                    !.order = o, !.partner = p])

(* Mutant of CheckPhotos: any photograph of a required kind will do.       *)
CheckPhotosAny(j) ==
  /\ At(j, "complete", "check")
  /\ \/ RequiredKinds \cap photos[job[j].order] # {} /\ JobGoto(j, "write")
     \/ RequiredKinds \cap photos[job[j].order] = {} /\ JobEnd(j)
  /\ UNCHANGED <<tables, partner, photos, payouts>>

(* 422 unless there is a wide shot and a detail shot, hence two photos.    *)
CheckPhotos(j) ==
  /\ At(j, "complete", "check")
  /\ \/ RequiredKinds \subseteq photos[job[j].order] /\ JobGoto(j, "write")
     \/ ~(RequiredKinds \subseteq photos[job[j].order]) /\ JobEnd(j)
  /\ UNCHANGED <<tables, partner, photos, payouts>>

Complete(j) ==
  /\ At(j, "complete", "write")
  /\ order' = [order EXCEPT ![job[j].order].status = "completed_pending_approval",
                            ![job[j].order].completed = TRUE,
                            ![job[j].order].age = "fresh"]
  /\ JobGoto(j, "audit")
  /\ UNCHANGED <<complaint, notices, audit, partner, photos, payouts>>

-----------------------------------------------------------------------------
(* Mutant of BeginApprove: any order that was assigned can be approved.    *)
BeginApproveEarly(j, o) ==
  /\ order[o].partner # None
  /\ JobBegin(j, [JobIdle EXCEPT !.at = "write", !.op = "approve",
                    !.order = o, !.partner = order[o].partner])

(* approve: the customer accepts the work; the assigned partner that was   *)
(* read with the order earns a payout in the transaction that closes it.   *)
BeginApprove(j, o) ==
  /\ order[o].status = "completed_pending_approval"
  /\ JobBegin(j, [JobIdle EXCEPT !.at = "write", !.op = "approve",
                    !.order = o, !.partner = order[o].partner])

CreatePayout(o, p) ==
  IF p = None THEN UNCHANGED payouts
              ELSE payouts' = [payouts EXCEPT ![o][p] = @ + 1]

Approve(j) ==
  /\ At(j, "approve", "write")
  /\ job[j].partner # None => payouts[job[j].order][job[j].partner] < MaxPayouts
  /\ SetStatus(job[j].order, "closed")
  /\ CreatePayout(job[j].order, job[j].partner)
  /\ JobGoto(j, "audit")
  /\ UNCHANGED <<complaint, notices, audit, partner, photos>>

-----------------------------------------------------------------------------
(* Mutant of Complain: no transaction, the complaint is lost.              *)
ComplainNotInserted(j, k) ==
  /\ At(j, "complain", "write")
  /\ complaint[k].status = "absent"
  /\ IF job[j].dispute
       THEN SetStatus(job[j].order, "disputed") /\ JobGoto(j, "audit")
       ELSE UNCHANGED order /\ JobGoto(j, "notify")
  /\ UNCHANGED <<complaint, notices, audit, partner, photos, payouts>>

(* addComplaint: on an order in any status; only one awaiting approval, as *)
(* it was read, becomes disputed.                                          *)
BeginComplaint(j, o) ==
  /\ order[o].status # "absent"
  /\ JobBegin(j, [JobIdle EXCEPT !.at = "write", !.op = "complain", !.order = o,
                    !.dispute = (order[o].status = "completed_pending_approval")])

Complain(j, k) ==
  /\ At(j, "complain", "write")
  /\ complaint[k].status = "absent"
  /\ complaint' = [complaint EXCEPT ![k] = [order |-> job[j].order, status |-> "open"]]
  /\ IF job[j].dispute
       THEN SetStatus(job[j].order, "disputed") /\ JobGoto(j, "audit")
       ELSE UNCHANGED order /\ JobGoto(j, "notify")
  /\ UNCHANGED <<notices, audit, partner, photos, payouts>>

-----------------------------------------------------------------------------
(* What follows the write: the audit record, then the notification.        *)

AuditAction ==
  [ assign |-> "order.assign", start |-> "order.start",
    complete |-> "order.complete", approve |-> "order.approve",
    complain |-> "order.dispute", active |-> "partner.approve",
    rejected |-> "partner.reject" ]

Template == [ assign |-> "field_assigned", complete |-> "task_completed",
              complain |-> "complaint_opened" ]

(* Mutant of AuditJob: every record is written on an order.                *)
AuditJobOnOrder(j) ==
  /\ job[j].at = "audit"
  /\ Audit(AuditAction[job[j].op], job[j].order)
  /\ IF job[j].op \in DOMAIN Template THEN JobGoto(j, "notify") ELSE JobEnd(j)
  /\ UNCHANGED <<order, complaint, notices, partner, photos, payouts>>

AuditJob(j) ==
  /\ job[j].at = "audit"
  /\ Audit(AuditAction[job[j].op],
           IF job[j].op \in {"active", "rejected"} THEN job[j].partner
                                                   ELSE job[j].order)
  /\ IF job[j].op \in DOMAIN Template THEN JobGoto(j, "notify") ELSE JobEnd(j)
  /\ UNCHANGED <<order, complaint, notices, partner, photos, payouts>>

NotifyJob(j) ==
  /\ job[j].at = "notify"
  /\ Notify(Template[job[j].op], job[j].order)
  /\ JobEnd(j)
  /\ UNCHANGED <<order, complaint, audit, partner, photos, payouts>>

(* A request dies between two awaits.                                      *)
AbortJob(j) ==
  /\ job[j].at # "idle"
  /\ JobEnd(j)
  /\ UNCHANGED <<tables, partner, photos, payouts>>

-----------------------------------------------------------------------------
JobStep(j) ==
  \/ Vet(j)
  \/ CheckPartner(j)
  \/ Assign(j)
  \/ Start(j)
  \/ StoreEvidence(j)
  \/ ReportForReview(j)
  \/ CheckPhotos(j)
  \/ Complete(j)
  \/ Approve(j)
  \/ \E k \in Complaints : Complain(j, k)
  \/ AuditJob(j)
  \/ NotifyJob(j)

FulfilmentWork ==
  \/ \E o \in Orders : CreateOrder(o)
  \/ \E p \in Partners : Onboard(p)
  \/ \E j \in OrderRequests :
       \/ \E p \in Partners, d \in {"active", "rejected"} : BeginVet(j, p, d)
       \/ \E o \in Orders, p \in Partners :
            \/ BeginAssign(j, o, p)
            \/ BeginStart(j, o, p)
            \/ \E kind \in PhotoKinds : BeginEvidence(j, o, p, kind)
            \/ BeginComplete(j, o, p)
       \/ \E o \in Orders : BeginApprove(j, o) \/ BeginComplaint(j, o)
       \/ JobStep(j)

FulfilmentNext == FulfilmentWork \/ \E j \in OrderRequests : AbortJob(j)
=============================================================================
