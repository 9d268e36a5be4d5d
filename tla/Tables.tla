------------------------------- MODULE Tables -------------------------------
(***************************************************************************)
(* The database rows that the services of apps/api/src share: orders,      *)
(* complaints, notification rows and the audit log.  Every service reads a *)
(* row with one awaited call and writes it with another, so the modules    *)
(* that extend this one model a request as a small state machine whose     *)
(* steps are the awaited calls, interleaved with those of other requests.  *)
(*                                                                         *)
(* Time is abstracted to what the queries of SlaService compare: how long  *)
(* ago the order row was written.  completedAt and approvalDeadline are    *)
(* written together with the only status in which they are compared, so    *)
(* one age serves updatedAt and both of them.                              *)
(***************************************************************************)
EXTENDS Naturals

CONSTANTS
  Orders,       \* rows of table orders
  Partners,     \* rows of table field_partners
  Complaints,   \* rows of table complaints
  None,         \* SQL NULL
  Observed      \* the audit actions and notification templates that the
                \* instance keeps; what it does not keep, no property reads

ASSUME NullAssumption == None \notin Orders \cup Partners \cup Complaints

VARIABLES
  order,        \* [Orders -> OrderRow]
  complaint,    \* [Complaints -> ComplaintRow]
  notices,      \* <<template, order>> pairs that have a notification row
  audit         \* <<action, entity>> pairs that have an audit_log row

tables == <<order, complaint, notices, audit>>

(* "absent" stands for a row that has not been inserted yet.               *)
OrderStatus ==
  { "absent", "draft", "pending_payment", "confirmed", "assigned",
    "in_progress", "completed_pending_approval", "closed", "disputed",
    "refunded", "cancelled" }

OrderRow ==
  [ status    : OrderStatus,
    partner   : Partners \cup {None},                    \* assignedPartnerId
    completed : BOOLEAN,                                 \* completedAt is set
    age       : {"fresh", "half_hour", "day", "two_days"} ]

ComplaintStatus ==
  { "absent", "open", "investigating",
    "resolved_reservice", "resolved_refund", "rejected" }

ComplaintRow == [order : Orders \cup {None}, status : ComplaintStatus]

Templates ==
  { "order_confirmed", "field_assigned", "task_completed",
    "complaint_opened", "complaint_resolved", "evidence_manual_review",
    "assignment_sla_escalation", "approval_reminder_24h" }

AuditActions ==
  { "order.confirm", "order.assign", "order.start", "order.complete",
    "order.approve", "order.dispute", "order.dispute_rejected",
    "order.refund", "order.auto_cancel", "order.auto_close",
    "complaint.investigate", "complaint.resolve",
    "complaint.process_refund", "partner.approve", "partner.reject" }

TablesTypeOK ==
  /\ order \in [Orders -> OrderRow]
  /\ complaint \in [Complaints -> ComplaintRow]
  /\ notices \subseteq Templates \X Orders
  /\ audit \subseteq AuditActions \X (Orders \cup Partners \cup Complaints)

TablesInit ==
  /\ order = [o \in Orders |->
                [status |-> "absent", partner |-> None, completed |-> FALSE,
                 age |-> "fresh"]]
  /\ complaint = [k \in Complaints |-> [order |-> None, status |-> "absent"]]
  /\ notices = {}
  /\ audit = {}

-----------------------------------------------------------------------------
(* prisma.order.update({where: {id}, data: {status}}): the row is found by *)
(* its key alone, whatever its status has become since the caller read it, *)
(* and @updatedAt stamps it.                                               *)
SetStatus(o, s) ==
  order' = [order EXCEPT ![o].status = s, ![o].age = "fresh"]

(* AuditLogService.record                                                  *)
Audit(action, entity) ==
  audit' = IF action \in Observed THEN audit \cup {<<action, entity>>} ELSE audit

(* NotificationsService.notify: the row is written; a failure to enqueue   *)
(* its delivery is swallowed.                                              *)
Notify(template, o) ==
  notices' = IF template \in Observed THEN notices \cup {<<template, o>>}
                                      ELSE notices

(* The clock, where a sweep compares it: 24 hours unpaid, 30 minutes       *)
(* unassigned, 24 and 48 hours awaiting approval.                          *)
Elapse(o) ==
  /\ \E step \in { <<"pending_payment", "fresh", "day">>,
                  <<"confirmed", "fresh", "half_hour">>,
                  <<"completed_pending_approval", "fresh", "day">>,
                  <<"completed_pending_approval", "day", "two_days">> } :
       /\ order[o].status = step[1]
       /\ order[o].age = step[2]
       /\ order' = [order EXCEPT ![o].age = step[3]]
  /\ UNCHANGED <<complaint, notices, audit>>
=============================================================================
