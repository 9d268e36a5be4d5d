------------------------------ MODULE MCOffice ------------------------------
(* Model checking of Office.  Staff decide about one kind of rows (orders  *)
(* and accounts count as one): other rows share only the dialog.  Permits  *)
(* matter to AuditNamesStatus alone: the office run sends one at a time.   *)
EXTENDS Office, TLC

CONSTANTS
  MaxSent,     \* mutations in flight
  MaxPermits   \* mutations of permits in flight

VARIABLE topic   \* the rows decided on

Symmetry == Permutations(Admins) \cup Permutations(Partners)

Topics == {Orders \cup Staff, Partners, Complaints, Cemeteries}

Bounded ==
  /\ Cardinality(sent) <= IF topic = Cemeteries THEN MaxPermits ELSE MaxSent
  /\ OneHandlerPerRow
  /\ \A a \in Admins : /\ dialog[a] # None => dialog[a].row \in topic
                       /\ permit[a] # None => permit[a].row \in topic

(* The audit records decide nothing and no property of the office run      *)
(* speaks of them.                                                         *)
Unrecorded == <<status, reason, screens, sent, topic>>

BoundedInit == Init /\ topic \in Topics

BoundedSpec ==
  BoundedInit /\ [][Next /\ topic' = topic /\ Bounded']_<<vars, topic>>
=============================================================================
