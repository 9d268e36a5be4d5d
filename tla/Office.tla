------------------------------- MODULE Office -------------------------------
(***************************************************************************)
(* The admin panel (apps/admin): several members of staff decide on the    *)
(* same rows, each on screens that show a copy fetched some time ago, each *)
(* decision through the one confirmation dialog.  At the API a decision is *)
(* a row read, a guard, a row written and an audit record.  How the        *)
(* handlers of orders, partners and complaints interleave is in            *)
(* Marketplace; here they read and write only what the screens show.       *)
(***************************************************************************)
EXTENDS Naturals, FiniteSets

CONSTANTS
  Admins,       \* browser tabs of the panel
  Orders, Partners, Complaints, Cemeteries, Staff,   \* the rows decided on
  None

Rows == Orders \cup Partners \cup Complaints \cup Cemeteries \cup Staff

ASSUME RowAssumption ==
  /\ None \notin Rows
  /\ Orders \cap (Partners \cup Complaints \cup Cemeteries \cup Staff) = {}
  /\ Partners \cap (Complaints \cup Cemeteries \cup Staff) = {}
  /\ Complaints \cap (Cemeteries \cup Staff) = {}
  /\ Cemeteries \cap Staff = {}

VARIABLES
  status,     \* [Rows -> Status], in the database
  reason,     \* [Rows -> what accompanied the decision], beside it
  audited,    \* [Rows -> Status], the new value of the last audit record
  cache,      \* [Admins -> [Rows -> Status]], TanStack Query's
  permit,     \* [Admins -> the open PermitEditForm]
  notes,      \* [Admins -> [Complaints -> the ResolveForm]], outcome and text
  dialog,     \* [Admins -> the pending confirmation]
  typed,      \* [Admins -> inputValue]
  sent        \* the mutations in flight

screens == <<cache, permit, notes, dialog, typed>>
tables == <<status, reason, audited>>
vars == <<tables, screens, sent>>

Outcomes == {"resolved_refund", "resolved_reservice", "rejected"}
Permits == {"pending", "approved", "rejected"}

StatusOf(r) ==
  CASE r \in Orders     -> {"confirmed", "assigned"}
    [] r \in Partners   -> {"onboarding", "active", "rejected"}
    [] r \in Complaints -> {"open", "investigating"} \cup Outcomes
    [] r \in Cemeteries -> Permits
    [] r \in Staff      -> {"active", "disabled"}

Status == UNION {StatusOf(r) : r \in Rows}

(* A text stands for what it was written for: the reason of a rejection    *)
(* for the partner whose dialog it was typed in, the notes of a resolution *)
(* for the outcome whose template they are, unless they were edited.       *)
Texts == Partners \cup Outcomes \cup {"edited", None}

Decision == [row : Rows, to : Status, seen : Status, text : Texts]

Sent ==
  [ by : Admins \cup {None},        \* None: its screen has been left
    what : Decision, at : {"sent", "read", "written"}, read : Status \cup {None} ]

ResolveForm == [outcome : Outcomes, text : Outcomes \cup {"edited"}]
NewResolveForm == [outcome |-> "resolved_refund", text |-> "resolved_refund"]

TypeOK ==
  /\ status \in [Rows -> Status] /\ audited \in [Rows -> Status]
  /\ reason \in [Rows -> Texts]
  /\ cache \in [Admins -> [Rows -> Status]]
  /\ permit \in [Admins -> [row : Cemeteries, status : Permits] \cup {None}]
  /\ notes \in [Admins -> [Complaints -> ResolveForm]]
  /\ dialog \in [Admins -> Decision \cup {None}]
  /\ typed \in [Admins -> Partners \cup {None}]
  /\ sent \subseteq Sent

First(r) ==
  CASE r \in Orders     -> "confirmed"
    [] r \in Partners   -> "onboarding"
    [] r \in Complaints -> "open"
    [] r \in Cemeteries -> "pending"
    [] r \in Staff      -> "active"

Init ==
  /\ status = [r \in Rows |-> First(r)] /\ audited = status
  /\ reason = [r \in Rows |-> None]
  /\ cache = [a \in Admins |-> status]
  /\ permit = [a \in Admins |-> None]
  /\ notes = [a \in Admins |-> [k \in Complaints |-> NewResolveForm]]
  /\ dialog = [a \in Admins |-> None]
  /\ typed = [a \in Admins |-> None]
  /\ sent = {}

-----------------------------------------------------------------------------
(* What each screen offers for a row it shows with a status *)

OfferAssignment(shown) == IF shown = "confirmed" THEN {"assigned"} ELSE {}
OfferVetting(shown)    == IF shown = "onboarding" THEN {"active", "rejected"} ELSE {}
OfferAccess(shown)     == IF shown = "active" THEN {"disabled"} ELSE {"active"}
OfferInquiry(shown)    == IF shown = "open" THEN {"investigating"} ELSE {}

(* Every mutation has its own isPending, which disables its buttons:       *)
(* approve and reject are two, the outcomes of resolve are one.            *)
SameMutation(d, e) ==
  \/ \E rows \in {Orders, Cemeteries, Staff} : d.row \in rows /\ e.row \in rows
  \/ d.row \in Partners /\ e.row \in Partners /\ d.to = e.to
  \/ d.row \in Complaints /\ e.row \in Complaints
       /\ (d.to = "investigating") = (e.to = "investigating")

(* Mutant of confirm: the text of the last dialog is still there.          *)
confirmKeepingInput(a, d) ==
  /\ dialog[a] = None
  /\ \A q \in sent : q.by = a => ~SameMutation(q.what, d)
  /\ dialog' = [dialog EXCEPT ![a] = d]
  /\ UNCHANGED typed

(* confirmedMutate opens the dialog, which covers the screens; the         *)
(* variables are those of the click.                                       *)
confirm(a, d) ==
  /\ dialog[a] = None
  /\ \A q \in sent : q.by = a => ~SameMutation(q.what, d)
  /\ dialog' = [dialog EXCEPT ![a] = d]
  /\ typed' = [typed EXCEPT ![a] = None]

Ask(a, r, to, text) ==
  /\ confirm(a, [row |-> r, to |-> to, seen |-> cache[a][r], text |-> text])
  /\ UNCHANGED <<tables, cache, permit, notes, sent>>

AskAssignment(a, r) ==
  r \in Orders /\ \E to \in OfferAssignment(cache[a][r]) : Ask(a, r, to, None)

AskVetting(a, r) ==
  r \in Partners /\ \E to \in OfferVetting(cache[a][r]) : Ask(a, r, to, None)

AskAccess(a, r) ==
  r \in Staff /\ \E to \in OfferAccess(cache[a][r]) : Ask(a, r, to, None)

AskInquiry(a, r) ==
  r \in Complaints /\ \E to \in OfferInquiry(cache[a][r]) : Ask(a, r, to, None)

AskResolution(a, r) ==
  /\ r \in Complaints /\ cache[a][r] = "investigating"
  /\ Ask(a, r, notes[a][r].outcome, notes[a][r].text)

AskPermit(a) ==
  permit[a] # None /\ Ask(a, permit[a].row, permit[a].status, None)

(* A ResolveForm is on the card of a complaint under investigation.        *)
ShowsResolveForm(a, k) == dialog[a] = None /\ cache[a][k] = "investigating"

(* Mutant of handleOutcomeChange: the text stays as it is.                 *)
handleOutcomeChangeOnly(a, k, next) ==
  /\ ShowsResolveForm(a, k) /\ next # notes[a][k].outcome
  /\ notes' = [notes EXCEPT ![a][k].outcome = next]
  /\ UNCHANGED <<tables, cache, permit, dialog, typed, sent>>

(* ResolveForm: a text that is still the template of the outcome before    *)
(* becomes that of the next, an edited one stays.                          *)
handleOutcomeChange(a, k, next) ==
  /\ ShowsResolveForm(a, k) /\ next # notes[a][k].outcome
  /\ notes' = [notes EXCEPT ![a][k] =
       [outcome |-> next, text |-> IF @.text = @.outcome THEN next ELSE @.text]]
  /\ UNCHANGED <<tables, cache, permit, dialog, typed, sent>>

EditNotes(a, k) ==
  /\ ShowsResolveForm(a, k)
  /\ notes' = [notes EXCEPT ![a][k].text = "edited"]
  /\ UNCHANGED <<tables, cache, permit, dialog, typed, sent>>

(* PermitEditForm begins with the row as it is shown and keeps its own     *)
(* state from then on; one row is edited at a time.                        *)
EditPermit(a, r) ==
  /\ r \in Cemeteries /\ dialog[a] = None
  /\ permit' = [permit EXCEPT ![a] = [row |-> r, status |-> cache[a][r]]]
  /\ UNCHANGED <<tables, cache, notes, dialog, typed, sent>>

ChoosePermit(a, s) ==
  /\ permit[a] # None /\ dialog[a] = None
  /\ permit' = [permit EXCEPT ![a].status = s]
  /\ UNCHANGED <<tables, cache, notes, dialog, typed, sent>>

CancelPermit(a) ==
  /\ permit[a] # None /\ dialog[a] = None
  /\ permit' = [permit EXCEPT ![a] = None]
  /\ UNCHANGED <<tables, cache, notes, dialog, typed, sent>>

-----------------------------------------------------------------------------
(* The dialog, and the copy the screens show *)

NeedsReason(d) == d.row \in Partners /\ d.to = "rejected"

TypeReason(a) ==
  /\ dialog[a] # None /\ NeedsReason(dialog[a])
  /\ typed' = [typed EXCEPT ![a] = dialog[a].row]
  /\ UNCHANGED <<tables, cache, permit, notes, dialog, sent>>

Cancel(a) ==
  /\ dialog[a] # None
  /\ dialog' = [dialog EXCEPT ![a] = None]
  /\ UNCHANGED <<tables, cache, permit, notes, typed, sent>>

(* settle(true): the value typed becomes the field of the variables that   *)
(* awaits it, and the mutation is sent.                                    *)
Approve(a) ==
  /\ dialog[a] # None /\ (NeedsReason(dialog[a]) => typed[a] # None)
  /\ sent' = sent \cup
       {[ by |-> a, at |-> "sent", read |-> None,
          what |-> IF NeedsReason(dialog[a])
                     THEN [dialog[a] EXCEPT !.text = typed[a]] ELSE dialog[a] ]}
  /\ dialog' = [dialog EXCEPT ![a] = None]
  /\ UNCHANGED <<tables, cache, permit, notes, typed>>

(* Every 30 seconds, on focus and after a success (invalidate).  A card    *)
(* that has left its column takes its ResolveForm with it.                 *)
Refetch(a) ==
  /\ cache[a] # status
  /\ cache' = [cache EXCEPT ![a] = status]
  /\ notes' = [notes EXCEPT ![a] = [k \in Complaints |->
       IF cache[a][k] # status[k] THEN NewResolveForm ELSE notes[a][k]]]
  /\ UNCHANGED <<tables, permit, dialog, typed, sent>>

(* Another screen: the forms are gone, and so is isPending, while what was *)
(* sent is still under way.                                                *)
Navigate(a) ==
  /\ dialog[a] = None
  /\ permit' = [permit EXCEPT ![a] = None]
  /\ notes' = [notes EXCEPT ![a] = [k \in Complaints |-> NewResolveForm]]
  /\ sent' = {IF q.by = a THEN [q EXCEPT !.by = None] ELSE q : q \in sent}
  /\ UNCHANGED <<tables, cache, dialog, typed>>

-----------------------------------------------------------------------------
(* The API *)

(* Mutant of Accepts: a partner is vetted whatever his status.             *)
AcceptsAnyPartner(d) ==
  CASE d.row \in Orders     -> status[d.row] = "confirmed"
    [] d.row \in Partners   -> TRUE
    [] d.row \in Complaints -> status[d.row] = IF d.to = "investigating" THEN "open"
                                                                         ELSE "investigating"
    [] OTHER                -> TRUE

(* The guards of assign, approve and reject, investigate and resolve; the  *)
(* permit and the access of an account are written whatever they were.     *)
Accepts(d) ==
  CASE d.row \in Orders     -> status[d.row] = "confirmed"
    [] d.row \in Partners   -> status[d.row] = "onboarding"
    [] d.row \in Complaints -> status[d.row] = IF d.to = "investigating" THEN "open"
                                                                         ELSE "investigating"
    [] OTHER                -> TRUE

ReadRow(q) ==
  /\ q.at = "sent"
  /\ sent' = (sent \ {q}) \cup
       (IF Accepts(q.what) THEN {[q EXCEPT !.at = "read", !.read = status[q.what.row]]} ELSE {})
  /\ UNCHANGED <<tables, screens>>

(* A permit is recorded when it differs from what was read.                *)
Audit(q) ==
  IF q.what.row \in Cemeteries /\ q.what.to = q.read
    THEN UNCHANGED audited
    ELSE audited' = [audited EXCEPT ![q.what.row] = q.what.to]

WriteRow(q) ==
  /\ q.at = "read"
  /\ status' = [status EXCEPT ![q.what.row] = q.what.to]
  /\ reason' = [reason EXCEPT ![q.what.row] = q.what.text]
  /\ sent' = (sent \ {q}) \cup {[q EXCEPT !.at = "written"]}
  /\ UNCHANGED <<audited, screens>>

(* The record, and the answer, unless it is lost: onSuccess of the         *)
(* permit's mutation closes the form that is open.                         *)
AuditRow(q) ==
  /\ q.at = "written"
  /\ Audit(q)
  /\ permit' \in {permit, [a \in Admins |->
       IF a = q.by /\ q.what.row \in Cemeteries THEN None ELSE permit[a]]}
  /\ sent' = sent \ {q}
  /\ UNCHANGED <<status, reason, cache, notes, dialog, typed>>

(* The request is lost; or the handler throws or dies at one of its        *)
(* awaits, what it has written so far staying written.                     *)
Lose(q) ==
  /\ sent' = sent \ {q}
  /\ UNCHANGED <<tables, screens>>

-----------------------------------------------------------------------------
Decide(a, r) ==
  \/ AskAssignment(a, r) \/ AskVetting(a, r) \/ AskAccess(a, r)
  \/ AskInquiry(a, r) \/ AskResolution(a, r) \/ EditPermit(a, r)

Next ==
  \/ \E a \in Admins :
       \/ \E r \in Rows : Decide(a, r)
       \/ \E k \in Complaints :
            EditNotes(a, k) \/ \E next \in Outcomes : handleOutcomeChange(a, k, next)
       \/ \E s \in Permits : ChoosePermit(a, s)
       \/ CancelPermit(a) \/ AskPermit(a)
       \/ TypeReason(a) \/ Cancel(a) \/ Approve(a)
       \/ Refetch(a) \/ Navigate(a)
  \/ \E q \in sent : ReadRow(q) \/ WriteRow(q) \/ AuditRow(q) \/ Lose(q)

Spec == Init /\ [][Next]_vars

-----------------------------------------------------------------------------
(* What a lock on the row would give, and the API does not take: no two    *)
(* handlers are between their read and their record of one row.            *)
Handling(q, r) == q.what.row = r /\ q.at \in {"read", "written"}

OneHandlerPerRow ==
  \A r \in Rows : \A p, q \in sent : Handling(p, r) /\ Handling(q, r) => p = q

(* Staff decide on what they saw: an order is assigned, a partner vetted   *)
(* and a complaint taken a step further only by somebody whose screen      *)
(* showed the status the row still has, however old the screen and whoever *)
(* was faster (orders.service.ts:260-264, partners.service.ts:128-133,     *)
(* complaints.service.ts:80-84,113-117), if OneHandlerPerRow.              *)
DecidedAsSeen ==
  [][\A r \in Orders \cup Partners \cup Complaints :
       <<status'[r], reason'[r]>> # <<status[r], reason[r]>> =>
         \E q \in sent : q.what.row = r /\ q.what.to = status'[r] /\ q.what.seen = status[r]]_vars

(* A rejected partner is told the reason that was typed for him, not one   *)
(* left over from another dialog (ConfirmDialogProvider.tsx:36-48,         *)
(* useConfirmedMutation.ts:36-58).                                         *)
ReasonIsHis == \A p \in Partners : status[p] = "rejected" => reason[p] = p

(* The customer is told what fits the outcome, or what was written for the *)
(* case (ComplaintsPage.tsx:239-252).                                      *)
NotesFitOutcome ==
  \A k \in Complaints : status[k] \in Outcomes => reason[k] \in {status[k], "edited"}

-----------------------------------------------------------------------------
(* What a document says, and the code does not do *)

(* "The backend writes audit_log unconditionally on every critical         *)
(* mutation" (HANDOVER.md:386): once no handler is at a row, the last      *)
(* record names the status it has.  The record is an await of its own      *)
(* after the row's (cemeteries.service.ts:149,164): one that is lost is    *)
(* not made up for, since a permit chosen again equals what was read.      *)
AuditNamesStatus ==
  \A r \in Rows : (\A q \in sent : ~Handling(q, r)) => audited[r] = status[r]

(* Every handler that has written its row comes to its record.             *)
NoneFails == [][\A q \in sent : q.at = "written" /\ Lose(q) => AuditRow(q)]_vars
=============================================================================
