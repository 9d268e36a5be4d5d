------------------------------- MODULE Sweeps -------------------------------
(***************************************************************************)
(* SlaService (apps/api/src/sla/sla.service.ts): the periodic jobs of the  *)
(* BullMQ worker, one job at a time.  A sweep selects its orders with one  *)
(* query and then works through that list, order by order, without reading *)
(* their status again.  The ops users that an escalation reaches are one   *)
(* row here.                                                               *)
(***************************************************************************)
EXTENDS Fulfilment

VARIABLE sla   \* the running sweep

Sweeps == {"cancel", "close", "escalate", "remind"}

Sweep ==
  [ job : Sweeps \cup {None}, todo : SUBSET Orders,
    auditing : Orders \cup {None},                  \* written, not yet audited
    owed : [Orders -> Partners \cup {None}] ]       \* assignedPartnerId as read

SweepIdle == [job |-> None, todo |-> {}, auditing |-> None,
              owed |-> [o \in Orders |-> None]]

SweepsTypeOK == sla \in Sweep

SweepsInit == sla = SweepIdle

(* The query of each sweep.                                                *)
Selected(which, o) ==
  CASE which = "cancel"   -> order[o].status = "pending_payment" /\ order[o].age = "day"
    [] which = "close"    -> /\ order[o].status = "completed_pending_approval"
                             /\ order[o].age = "two_days"
    [] which = "escalate" -> /\ order[o].status = "confirmed"
                             /\ order[o].partner = None
                             /\ order[o].age = "half_hour"
    [] which = "remind"   -> /\ order[o].status = "completed_pending_approval"
                             /\ order[o].age \in {"day", "two_days"}

BeginSweep(which) ==
  /\ sla.job = None
  /\ \E o \in Orders : Selected(which, o)
  /\ sla' = [ job |-> which, todo |-> {o \in Orders : Selected(which, o)},
              auditing |-> None,
              owed |-> [o \in Orders |-> IF which = "close" /\ Selected(which, o)
                                           THEN order[o].partner ELSE None] ]
  /\ UNCHANGED <<tables, fulfilmentVars>>

(* The loop over the selected orders.                                      *)
Take(o) == o \in sla.todo /\ sla.auditing = None

SweepNext(o) ==
  sla' = IF sla.todo = {o} THEN SweepIdle
         ELSE [sla EXCEPT !.todo = @ \ {o}, !.auditing = None]

(* Mutant of CancelUnpaid: the update is forgotten, the audit is not.      *)
CancelNothing(o) ==
  /\ sla.job = "cancel" /\ Take(o)
  /\ sla' = [sla EXCEPT !.auditing = o]
  /\ UNCHANGED <<tables, fulfilmentVars>>

(* cancelUnpaidOrders *)
CancelUnpaid(o) ==
  /\ sla.job = "cancel" /\ Take(o)
  /\ SetStatus(o, "cancelled")
  /\ sla' = [sla EXCEPT !.auditing = o]
  /\ UNCHANGED <<complaint, notices, audit, fulfilmentVars>>

(* autoCloseApprovedOrders: one transaction, with a payout unless the      *)
(* order has one.                                                          *)
AutoClose(o) ==
  /\ sla.job = "close" /\ Take(o)
  /\ SetStatus(o, "closed")
  /\ IF \E p \in Partners : payouts[o][p] > 0
       THEN UNCHANGED payouts ELSE CreatePayout(o, sla.owed[o])
  /\ sla' = [sla EXCEPT !.auditing = o]
  /\ UNCHANGED <<complaint, notices, audit, partner, photos, job>>

AuditSweep(o) ==
  /\ sla.job \in {"cancel", "close"} /\ sla.auditing = o
  /\ Audit(IF sla.job = "cancel" THEN "order.auto_cancel" ELSE "order.auto_close", o)
  /\ SweepNext(o)
  /\ UNCHANGED <<order, complaint, notices, fulfilmentVars>>

(* Mutant of NotifySweep: the sweep comes back to the same order.          *)
NotifySweepAgain(o) ==
  /\ sla.job \in {"escalate", "remind"} /\ Take(o)
  /\ Notify(IF sla.job = "escalate" THEN "assignment_sla_escalation"
                                    ELSE "approval_reminder_24h", o)
  /\ UNCHANGED <<order, complaint, audit, sla, fulfilmentVars>>

(* escalateOverdueAssignments and sendApprovalReminders: a row that is     *)
(* already there is not written again, and no one else writes it.          *)
NotifySweep(o) ==
  /\ sla.job \in {"escalate", "remind"} /\ Take(o)
  /\ Notify(IF sla.job = "escalate" THEN "assignment_sla_escalation"
                                    ELSE "approval_reminder_24h", o)
  /\ SweepNext(o)
  /\ UNCHANGED <<order, complaint, audit, fulfilmentVars>>

(* The worker dies in the middle of a sweep; the cron runs it again.       *)
AbortSweep ==
  /\ sla.job # None
  /\ sla' = SweepIdle
  /\ UNCHANGED <<tables, fulfilmentVars>>

-----------------------------------------------------------------------------
SweepStep(o) ==
  CancelUnpaid(o) \/ AutoClose(o) \/ AuditSweep(o) \/ NotifySweep(o)

SweepsWork ==
  \/ \E which \in Sweeps : BeginSweep(which)
  \/ \E o \in Orders : SweepStep(o)

SweepsNext == SweepsWork \/ AbortSweep
=============================================================================
