---------------------------- MODULE OfficeProofs ----------------------------
(***************************************************************************)
(* Proofs about Office, for any number of staff, rows, mutations in flight *)
(* and handlers that overlap.                                              *)
(***************************************************************************)
EXTENDS Office, TLAPS

(* A text goes with a decision: the reason with its partner, the notes     *)
(* with their outcome.                                                     *)
Fits(row, to, text) ==
  /\ row \in Partners /\ to = "rejected" => text = row
  /\ row \in Complaints /\ to \in Outcomes => text \in {to, "edited"}

DialogFits(a) ==
  dialog[a] # None =>
    IF NeedsReason(dialog[a]) THEN typed[a] \in {None, dialog[a].row}
                              ELSE Fits(dialog[a].row, dialog[a].to, dialog[a].text)

TextInv ==
  /\ \A a \in Admins, k \in Complaints : notes[a][k].text \in {notes[a][k].outcome, "edited"}
  /\ \A a \in Admins : DialogFits(a)
  /\ \A q \in sent : Fits(q.what.row, q.what.to, q.what.text)
  /\ \A r \in Rows : Fits(r, status[r], reason[r])

(* A row has a status of its kind, wherever it is kept.                    *)
KindInv ==
  /\ \A r \in Rows : status[r] \in StatusOf(r)
  /\ \A a \in Admins, r \in Rows : cache[a][r] \in StatusOf(r)
  /\ \A a \in Admins : dialog[a] # None => dialog[a].to \in StatusOf(dialog[a].row)
  /\ \A q \in sent : q.what.to \in StatusOf(q.what.row)

OfficeInv == TypeOK /\ KindInv /\ TextInv

-----------------------------------------------------------------------------
LEMMA StatusOfRow == \A r \in Rows : StatusOf(r) \subseteq Status
BY DEF Status

(* Each kind of row has its statuses.                                      *)
LEMMA KindStatuses ==
  /\ \A r \in Orders : StatusOf(r) = {"confirmed", "assigned"}
  /\ \A r \in Partners : StatusOf(r) = {"onboarding", "active", "rejected"}
  /\ \A r \in Complaints : StatusOf(r) = {"open", "investigating"} \cup Outcomes
  /\ \A r \in Cemeteries : StatusOf(r) = Permits
  /\ \A r \in Staff : StatusOf(r) = {"active", "disabled"}
BY RowAssumption DEF StatusOf

LEMMA FirstTyped == \A r \in Rows : First(r) \in StatusOf(r)
BY RowAssumption DEF First, StatusOf, Rows, Permits

LEMMA NewResolveFormTyped ==
  NewResolveForm \in ResolveForm /\ NewResolveForm.text = NewResolveForm.outcome
BY DEF NewResolveForm, ResolveForm, Outcomes

-----------------------------------------------------------------------------
(* A dialog that is opened is about a row of the screen.                   *)
LEMMA AskKeeps ==
  ASSUME OfficeInv, NEW a \in Admins, NEW r \in Rows, NEW to \in StatusOf(r), NEW text \in Texts,
         Ask(a, r, to, text), ~NeedsReason([row |-> r, to |-> to]) => Fits(r, to, text)
  PROVE  OfficeInv'
<1> DEFINE d == [row |-> r, to |-> to, seen |-> cache[a][r], text |-> text]
<1>1. d \in Decision
  BY StatusOfRow DEF OfficeInv, TypeOK, Decision
<1>2. dialog' = [dialog EXCEPT ![a] = d] /\ typed' = [typed EXCEPT ![a] = None]
      /\ UNCHANGED <<tables, cache, permit, notes, sent>>
  BY DEF Ask, confirm
<1>3. TypeOK'
  BY <1>1, <1>2 DEF OfficeInv, TypeOK, tables
<1>4. ASSUME NEW b \in Admins PROVE DialogFits(b)'
  <2>1. CASE b # a
    BY <1>2, <2>1 DEF OfficeInv, TypeOK, TextInv, DialogFits
  <2>2. CASE b = a
    BY <1>2, <2>2 DEF OfficeInv, TypeOK, DialogFits, NeedsReason
  <2> QED BY <2>1, <2>2
<1>5. TextInv'
  BY <1>2, <1>4 DEF OfficeInv, TextInv, tables
<1>6. KindInv'
  BY <1>2 DEF OfficeInv, TypeOK, KindInv, tables
<1> QED BY <1>3, <1>5, <1>6 DEF OfficeInv

(* Whatever leaves decisions and their texts alone keeps the invariant.    *)
LEMMA ScreenKeeps ==
  ASSUME OfficeInv, TypeOK', UNCHANGED <<tables, cache, notes, dialog, typed, sent>>
  PROVE  OfficeInv'
<1>1. KindInv'
  BY DEF OfficeInv, KindInv, tables
<1>2. TextInv'
  BY DEF OfficeInv, TextInv, DialogFits, tables
<1> QED BY <1>1, <1>2 DEF OfficeInv

(* What the screens offer fits.                                            *)
LEMMA DecideKeeps ==
  ASSUME OfficeInv, NEW a \in Admins, NEW r \in Rows, Decide(a, r) \/ AskPermit(a)
  PROVE  OfficeInv'
<1>1. None \in Texts
  BY DEF Texts
<1>2. CASE AskAssignment(a, r)
  BY <1>1, <1>2, AskKeeps, KindStatuses, RowAssumption
  DEF AskAssignment, OfferAssignment, Fits
<1>3. CASE AskVetting(a, r)
  BY <1>1, <1>3, AskKeeps, KindStatuses, RowAssumption
  DEF AskVetting, OfferVetting, Fits, NeedsReason
<1>4. CASE AskAccess(a, r)
  BY <1>1, <1>4, AskKeeps, KindStatuses, RowAssumption
  DEF AskAccess, OfferAccess, Fits
<1>5. CASE AskInquiry(a, r)
  BY <1>1, <1>5, AskKeeps, KindStatuses, RowAssumption
  DEF AskInquiry, OfferInquiry, Fits, Outcomes
<1>6. CASE AskResolution(a, r)
  <2>1. r \in Complaints /\ notes[a][r] \in ResolveForm
    BY <1>6 DEF AskResolution, OfficeInv, TypeOK
  <2>2. notes[a][r].outcome \in StatusOf(r) /\ notes[a][r].text \in Texts
    BY <2>1, KindStatuses DEF ResolveForm, Texts, Outcomes
  <2>3. Fits(r, notes[a][r].outcome, notes[a][r].text)
    BY <2>1, RowAssumption DEF OfficeInv, TextInv, Fits
  <2> QED BY <1>6, <2>2, <2>3, AskKeeps DEF AskResolution
<1>7. CASE AskPermit(a)
  <2>1. permit[a] \in [row : Cemeteries, status : Permits]
    BY <1>7 DEF AskPermit, OfficeInv, TypeOK
  <2>2. permit[a].row \in Cemeteries /\ permit[a].row \in Rows
        /\ permit[a].status \in StatusOf(permit[a].row)
    BY <2>1, KindStatuses DEF Rows
  <2>3. Fits(permit[a].row, permit[a].status, None)
    BY <2>2, RowAssumption DEF Fits
  <2> QED BY <1>1, <1>7, <2>2, <2>3, AskKeeps DEF AskPermit
<1>8. CASE EditPermit(a, r)
  <2>1. [row |-> r, status |-> cache[a][r]] \in [row : Cemeteries, status : Permits]
    BY <1>8, KindStatuses DEF EditPermit, OfficeInv, KindInv
  <2>2. TypeOK'
    BY <1>8, <2>1 DEF EditPermit, OfficeInv, TypeOK, tables
  <2> QED BY <1>8, <2>2, ScreenKeeps DEF EditPermit
<1> QED BY <1>2, <1>3, <1>4, <1>5, <1>6, <1>7, <1>8 DEF Decide

(* The forms.                                                              *)
LEMMA FormKeeps ==
  ASSUME OfficeInv, NEW a \in Admins,
         \/ \E k \in Complaints :
              EditNotes(a, k) \/ \E next \in Outcomes : handleOutcomeChange(a, k, next)
         \/ \E s \in Permits : ChoosePermit(a, s)
         \/ CancelPermit(a)
  PROVE  OfficeInv'
<1>1. ASSUME NEW k \in Complaints, NEW f \in ResolveForm, f.text \in {f.outcome, "edited"},
             notes' = [notes EXCEPT ![a][k] = f],
             UNCHANGED <<tables, cache, permit, dialog, typed, sent>>
      PROVE  OfficeInv'
  <2>1. TypeOK'
    BY <1>1 DEF OfficeInv, TypeOK, tables
  <2>2. KindInv'
    BY <1>1 DEF OfficeInv, KindInv, tables
  <2>3. \A b \in Admins, l \in Complaints :
          notes'[b][l] = IF b = a /\ l = k THEN f ELSE notes[b][l]
    BY <1>1 DEF OfficeInv, TypeOK
  <2>4. TextInv'
    BY <1>1, <2>3 DEF OfficeInv, TextInv, DialogFits, tables
  <2> QED BY <2>1, <2>2, <2>4 DEF OfficeInv
<1>2. ASSUME NEW k \in Complaints, EditNotes(a, k) PROVE OfficeInv'
  <2>1. [notes[a][k] EXCEPT !.text = "edited"] \in ResolveForm
    <3>1. notes[a][k] \in ResolveForm
      BY DEF OfficeInv, TypeOK
    <3> QED BY <3>1 DEF ResolveForm
  <2>2. notes' = [notes EXCEPT ![a][k] = [notes[a][k] EXCEPT !.text = "edited"]]
    BY <1>2 DEF EditNotes, OfficeInv, TypeOK
  <2>3. [notes[a][k] EXCEPT !.text = "edited"].text = "edited"
    BY DEF OfficeInv, TypeOK, ResolveForm
  <2> QED BY <1>1, <1>2, <2>1, <2>2, <2>3 DEF EditNotes
<1>3. ASSUME NEW k \in Complaints, NEW next \in Outcomes, handleOutcomeChange(a, k, next)
      PROVE  OfficeInv'
  <2> DEFINE f == [ outcome |-> next,
                    text |-> IF notes[a][k].text = notes[a][k].outcome THEN next
                                                                       ELSE notes[a][k].text ]
  <2>1. notes[a][k] \in ResolveForm /\ notes[a][k].text \in {notes[a][k].outcome, "edited"}
    BY DEF OfficeInv, TypeOK, TextInv
  <2>2. f \in ResolveForm /\ f.text \in {f.outcome, "edited"}
    BY <2>1 DEF ResolveForm
  <2>3. notes' = [notes EXCEPT ![a][k] = f]
    BY <1>3 DEF handleOutcomeChange, OfficeInv, TypeOK
  <2> HIDE DEF f
  <2> QED BY <1>1, <1>3, <2>2, <2>3 DEF handleOutcomeChange
<1>4. ASSUME NEW s \in Permits, ChoosePermit(a, s) PROVE OfficeInv'
  <2>1. [permit[a] EXCEPT !.status = s] \in [row : Cemeteries, status : Permits]
    <3>1. permit[a] \in [row : Cemeteries, status : Permits]
      BY <1>4 DEF ChoosePermit, OfficeInv, TypeOK
    <3> QED BY <3>1
  <2>2. TypeOK'
    BY <1>4, <2>1 DEF ChoosePermit, OfficeInv, TypeOK, tables
  <2> QED BY <1>4, <2>2, ScreenKeeps DEF ChoosePermit
<1>5. CASE CancelPermit(a)
  <2>1. TypeOK'
    BY <1>5 DEF CancelPermit, OfficeInv, TypeOK, tables
  <2> QED BY <1>5, <2>1, ScreenKeeps DEF CancelPermit
<1> QED BY <1>2, <1>3, <1>4, <1>5

(* The dialog.                                                             *)
LEMMA DialogKeeps ==
  ASSUME OfficeInv, NEW a \in Admins, TypeReason(a) \/ Cancel(a) \/ Approve(a)
  PROVE  OfficeInv'
<1>1. CASE TypeReason(a)
  <2>1. dialog[a] \in Decision /\ dialog[a].row \in Partners
    BY <1>1 DEF TypeReason, NeedsReason, OfficeInv, TypeOK
  <2>2. TypeOK'
    BY <1>1, <2>1 DEF TypeReason, OfficeInv, TypeOK, tables
  <2>3. KindInv'
    BY <1>1 DEF TypeReason, OfficeInv, KindInv, tables
  <2>4. TextInv'
    BY <1>1, <2>1 DEF TypeReason, OfficeInv, TypeOK, TextInv, DialogFits, tables
  <2> QED BY <2>2, <2>3, <2>4 DEF OfficeInv
<1>2. CASE Cancel(a)
  <2>1. TypeOK'
    BY <1>2 DEF Cancel, OfficeInv, TypeOK, tables
  <2>2. KindInv'
    BY <1>2 DEF Cancel, OfficeInv, TypeOK, KindInv, tables
  <2>3. TextInv'
    BY <1>2 DEF Cancel, OfficeInv, TypeOK, TextInv, DialogFits, tables
  <2> QED BY <2>1, <2>2, <2>3 DEF OfficeInv
<1>3. CASE Approve(a)
  <2> DEFINE d == IF NeedsReason(dialog[a]) THEN [dialog[a] EXCEPT !.text = typed[a]] ELSE dialog[a]
             q == [by |-> a, at |-> "sent", read |-> None, what |-> d]
  <2>1. dialog[a] \in Decision /\ typed[a] \in Texts
    BY <1>3 DEF Approve, OfficeInv, TypeOK, Texts
  <2>2. d \in Decision /\ d.row = dialog[a].row /\ d.to = dialog[a].to
    BY <2>1 DEF Decision
  <2>3. Fits(d.row, d.to, d.text)
    <3>1. CASE NeedsReason(dialog[a])
      <4>1. typed[a] = dialog[a].row /\ dialog[a].row \in Partners
        BY <1>3, <3>1 DEF Approve, NeedsReason, OfficeInv, TextInv, DialogFits
      <4>2. d.text = typed[a]
        BY <2>1, <3>1 DEF Decision
      <4> HIDE DEF d
      <4> QED BY <2>2, <4>1, <4>2, RowAssumption DEF Fits
    <3>2. CASE ~NeedsReason(dialog[a])
      BY <1>3, <3>2 DEF Approve, OfficeInv, TextInv, DialogFits
    <3> QED BY <3>1, <3>2
  <2>4. sent' = sent \cup {q} /\ dialog' = [dialog EXCEPT ![a] = None]
        /\ UNCHANGED <<tables, cache, permit, notes, typed>>
    BY <1>3 DEF Approve
  <2> HIDE DEF d
  <2>5. q \in Sent /\ q.what = d
    BY <2>2 DEF Sent
  <2>6. d.to \in StatusOf(d.row)
    BY <1>3, <2>2 DEF Approve, OfficeInv, KindInv
  <2> HIDE DEF q
  <2>7. TypeOK'
    BY <2>4, <2>5 DEF OfficeInv, TypeOK, tables
  <2>8. KindInv'
    BY <2>4, <2>5, <2>6 DEF OfficeInv, TypeOK, KindInv, tables
  <2>9. TextInv'
    BY <2>3, <2>4, <2>5 DEF OfficeInv, TypeOK, TextInv, DialogFits, tables
  <2> QED BY <2>7, <2>8, <2>9 DEF OfficeInv
<1> QED BY <1>1, <1>2, <1>3

(* The copy the screens show, and the way from screen to screen.           *)
LEMMA CopyKeeps ==
  ASSUME OfficeInv, NEW a \in Admins, Refetch(a) \/ Navigate(a)
  PROVE  OfficeInv'
<1>1. CASE Refetch(a)
  <2>1. TypeOK'
    BY <1>1, NewResolveFormTyped DEF Refetch, OfficeInv, TypeOK, tables
  <2>2. KindInv'
    BY <1>1 DEF Refetch, OfficeInv, TypeOK, KindInv, tables
  <2>3. \A b \in Admins, k \in Complaints : notes'[b][k] \in {notes[b][k], NewResolveForm}
    BY <1>1 DEF Refetch, OfficeInv, TypeOK
  <2>4. TextInv'
    BY <1>1, <2>3, NewResolveFormTyped DEF Refetch, OfficeInv, TextInv, DialogFits, tables
  <2> QED BY <2>1, <2>2, <2>4 DEF OfficeInv
<1>2. CASE Navigate(a)
  <2>1. \A q \in sent' : \E p \in sent :
          q.what = p.what /\ q \in Sent
    <3> SUFFICES ASSUME NEW p \in sent
                 PROVE  LET q == IF p.by = a THEN [p EXCEPT !.by = None] ELSE p
                        IN  q.what = p.what /\ q \in Sent
      BY <1>2 DEF Navigate
    <3>1. p \in Sent
      BY DEF OfficeInv, TypeOK
    <3> QED BY <3>1 DEF Sent
  <2>2. TypeOK'
    BY <1>2, <2>1, NewResolveFormTyped DEF Navigate, OfficeInv, TypeOK, tables
  <2>3. KindInv'
    BY <1>2, <2>1 DEF Navigate, OfficeInv, KindInv, tables
  <2>4. \A b \in Admins, k \in Complaints : notes'[b][k] \in {notes[b][k], NewResolveForm}
    BY <1>2 DEF Navigate, OfficeInv, TypeOK
  <2>5. TextInv'
    BY <1>2, <2>1, <2>4, NewResolveFormTyped DEF Navigate, OfficeInv, TextInv, DialogFits, tables
  <2> QED BY <2>2, <2>3, <2>5 DEF OfficeInv
<1> QED BY <1>1, <1>2

(* The API.                                                                *)
LEMMA ApiKeeps ==
  ASSUME OfficeInv, NEW q \in sent, ReadRow(q) \/ WriteRow(q) \/ AuditRow(q) \/ Lose(q)
  PROVE  OfficeInv'
<1>1. q \in Sent /\ q.what \in Decision /\ q.what.row \in Rows
      /\ Fits(q.what.row, q.what.to, q.what.text) /\ q.what.to \in StatusOf(q.what.row)
  BY DEF OfficeInv, TypeOK, TextInv, KindInv, Sent, Decision
<1>2. CASE ReadRow(q)
  <2>1. ASSUME NEW p \in sent' PROVE p \in Sent /\ \E o \in sent : p.what = o.what
    <3>1. CASE p \in sent
      BY <3>1 DEF OfficeInv, TypeOK
    <3>2. CASE p = [q EXCEPT !.at = "read", !.read = status[q.what.row]]
      BY <1>1, <3>2 DEF OfficeInv, TypeOK, Sent
    <3> QED BY <1>2, <2>1, <3>1, <3>2 DEF ReadRow
  <2>2. UNCHANGED <<tables, screens>>
    BY <1>2 DEF ReadRow
  <2>3. TypeOK'
    BY <2>1, <2>2 DEF OfficeInv, TypeOK, tables, screens
  <2>4. KindInv' /\ TextInv'
    BY <2>1, <2>2 DEF OfficeInv, KindInv, TextInv, DialogFits, tables, screens
  <2> QED BY <2>3, <2>4 DEF OfficeInv
<1>3. CASE WriteRow(q)
  <2> DEFINE p == [q EXCEPT !.at = "written"]
  <2>1. status' = [status EXCEPT ![q.what.row] = q.what.to]
        /\ reason' = [reason EXCEPT ![q.what.row] = q.what.text]
        /\ sent' \subseteq sent \cup {p} /\ UNCHANGED <<audited, screens>>
    BY <1>3 DEF WriteRow
  <2>2. p \in Sent /\ p.what = q.what
    BY <1>1 DEF Sent
  <2> HIDE DEF p
  <2>3. sent' \subseteq Sent
    BY <2>1, <2>2 DEF OfficeInv, TypeOK
  <2>4. TypeOK'
    BY <1>1, <2>1, <2>3 DEF OfficeInv, TypeOK, Decision, screens
  <2>5. KindInv'
    BY <1>1, <2>1, <2>2 DEF OfficeInv, TypeOK, KindInv, screens
  <2>6. ASSUME NEW r \in Rows PROVE Fits(r, status'[r], reason'[r])
    BY <1>1, <2>1 DEF OfficeInv, TypeOK, TextInv
  <2>7. \A o \in sent' : Fits(o.what.row, o.what.to, o.what.text)
    BY <1>1, <2>1, <2>2 DEF OfficeInv, TextInv
  <2>8. TextInv'
    BY <2>1, <2>6, <2>7 DEF OfficeInv, TextInv, DialogFits, screens
  <2> QED BY <2>4, <2>5, <2>8 DEF OfficeInv
<1>4. CASE AuditRow(q)
  <2>1. permit' \in [Admins -> [row : Cemeteries, status : Permits] \cup {None}]
    BY <1>4 DEF AuditRow, OfficeInv, TypeOK
  <2>2. audited' \in [Rows -> Status]
    BY <1>1, <1>4 DEF AuditRow, Audit, OfficeInv, TypeOK, Decision
  <2>3. sent' \subseteq sent /\ UNCHANGED <<status, reason, cache, notes, dialog, typed>>
    BY <1>4 DEF AuditRow
  <2>4. TypeOK'
    BY <2>1, <2>2, <2>3 DEF OfficeInv, TypeOK
  <2>5. KindInv' /\ TextInv'
    BY <2>3 DEF OfficeInv, KindInv, TextInv, DialogFits
  <2> QED BY <2>4, <2>5 DEF OfficeInv
<1>5. CASE Lose(q)
  BY <1>5 DEF Lose, OfficeInv, TypeOK, KindInv, TextInv, DialogFits, tables, screens
<1> QED BY <1>2, <1>3, <1>4, <1>5

-----------------------------------------------------------------------------
LEMMA OfficeInductive == Spec => []OfficeInv
<1>1. Init => OfficeInv
  <2> SUFFICES ASSUME Init PROVE OfficeInv
    OBVIOUS
  <2>1. status \in [Rows -> Status] /\ \A r \in Rows : status[r] = First(r)
    BY FirstTyped, StatusOfRow DEF Init
  <2>2. TypeOK
    BY <2>1, NewResolveFormTyped DEF Init, TypeOK, Texts
  <2>3. KindInv
    BY <2>1, FirstTyped DEF Init, KindInv
  <2>4. \A r \in Rows : Fits(r, status[r], reason[r])
    BY <2>1, RowAssumption DEF Init, Fits, First, Outcomes
  <2>5. TextInv
    BY <2>4, NewResolveFormTyped DEF Init, TextInv, DialogFits
  <2> QED BY <2>2, <2>3, <2>5 DEF OfficeInv
<1>2. OfficeInv /\ [Next]_vars => OfficeInv'
  <2> SUFFICES ASSUME OfficeInv, [Next]_vars PROVE OfficeInv'
    OBVIOUS
  <2>1. CASE UNCHANGED vars
    BY <2>1 DEF vars, tables, screens, OfficeInv, TypeOK, KindInv, TextInv, DialogFits
  <2>2. ASSUME NEW a \in Admins, AskPermit(a) PROVE OfficeInv'
    <3>1. permit[a].row \in Rows
      BY <2>2 DEF AskPermit, OfficeInv, TypeOK, Rows
    <3> QED BY <2>2, <3>1, DecideKeeps
  <2> QED BY <2>1, <2>2, DecideKeeps, FormKeeps, DialogKeeps, CopyKeeps, ApiKeeps DEF Next
<1> QED BY <1>1, <1>2, PTL DEF Spec

(* Rows, copies, forms and decisions keep their types and kinds, from      *)
(* whichever screen a decision came.                                       *)
THEOREM OfficeTyped == Spec => []TypeOK
<1>1. OfficeInv => TypeOK
  BY DEF OfficeInv
<1> QED BY <1>1, OfficeInductive, PTL

(* A rejected partner is told the reason that was typed for him            *)
(* (ConfirmDialogProvider.tsx:36-48, useConfirmedMutation.ts:36-58).       *)
THEOREM ReasonTyped == Spec => []ReasonIsHis
<1>1. OfficeInv => ReasonIsHis
  BY DEF OfficeInv, TextInv, Fits, ReasonIsHis, Rows
<1> QED BY <1>1, OfficeInductive, PTL

(* The customer is told what fits the outcome, or was written for the case *)
(* (ComplaintsPage.tsx:237-242).                                           *)
THEOREM NotesFitted == Spec => []NotesFitOutcome
<1>1. OfficeInv => NotesFitOutcome
  BY DEF OfficeInv, TextInv, Fits, NotesFitOutcome, Rows
<1> QED BY <1>1, OfficeInductive, PTL

-----------------------------------------------------------------------------
(* What one handler at a time on a row gives                               *)

(* A decision was taken on the status that its guard asks for.             *)
SeenFits(d) ==
  /\ d.row \in Orders => d.seen = "confirmed"
  /\ d.row \in Partners => d.seen = "onboarding"
  /\ d.row \in Complaints => d.seen = IF d.to = "investigating" THEN "open" ELSE "investigating"

Guarded == Orders \cup Partners \cup Complaints

(* What a handler has read is still there.                                 *)
HandlerFits(q) ==
  q.at = "read" =>
    /\ q.read = status[q.what.row]
    /\ q.what.row \in Guarded => status[q.what.row] = q.what.seen

HandlingInv ==
  /\ \A a \in Admins : dialog[a] # None => SeenFits(dialog[a])
  /\ \A q \in sent : SeenFits(q.what) /\ HandlerFits(q)

(* A dialog shows the status its row was offered with.                     *)
LEMMA AskSeen ==
  ASSUME OfficeInv, HandlingInv, NEW a \in Admins, NEW r \in Rows, NEW to, NEW text,
         Ask(a, r, to, text),
         SeenFits([row |-> r, to |-> to, seen |-> cache[a][r], text |-> text])
  PROVE  HandlingInv'
BY DEF Ask, confirm, tables, HandlingInv, HandlerFits, OfficeInv, TypeOK

(* So does every dialog that is opened.                                    *)
LEMMA DecideSeen ==
  ASSUME OfficeInv, HandlingInv, NEW a \in Admins, NEW r \in Rows, Decide(a, r)
  PROVE  HandlingInv'
<1>1. CASE AskAssignment(a, r)
  BY <1>1, AskSeen, RowAssumption DEF AskAssignment, OfferAssignment, SeenFits
<1>2. CASE AskVetting(a, r)
  BY <1>2, AskSeen, RowAssumption DEF AskVetting, OfferVetting, SeenFits
<1>3. CASE AskAccess(a, r)
  BY <1>3, AskSeen, RowAssumption DEF AskAccess, SeenFits
<1>4. CASE AskInquiry(a, r)
  BY <1>4, AskSeen, RowAssumption DEF AskInquiry, OfferInquiry, SeenFits
<1>5. CASE AskResolution(a, r)
  <2>1. notes[a][r].outcome # "investigating"
    BY <1>5 DEF AskResolution, OfficeInv, TypeOK, ResolveForm, Outcomes
  <2> QED
    BY <1>5, <2>1, AskSeen, RowAssumption DEF AskResolution, SeenFits
<1>6. CASE EditPermit(a, r)
  BY <1>6 DEF EditPermit, tables, HandlingInv, HandlerFits
<1> QED
  BY <1>1, <1>2, <1>3, <1>4, <1>5, <1>6 DEF Decide

(* The permit's dialog has no guard to fit.                                *)
LEMMA PermitSeen ==
  ASSUME OfficeInv, HandlingInv, NEW a \in Admins, AskPermit(a)
  PROVE  HandlingInv'
<1>1. permit[a].row \in Cemeteries
  BY DEF AskPermit, OfficeInv, TypeOK
<1>2. permit[a].row \in Rows
  BY <1>1 DEF Rows
<1>3. permit[a].row \notin Orders \cup Partners \cup Complaints
  BY <1>1, RowAssumption
<1> QED
  BY <1>2, <1>3, AskSeen DEF AskPermit, SeenFits

(* What is sent is what the dialog showed.                                 *)
LEMMA ApproveSeen ==
  ASSUME OfficeInv, HandlingInv, NEW a \in Admins, Approve(a)
  PROVE  HandlingInv'
<1> DEFINE d == IF NeedsReason(dialog[a]) THEN [dialog[a] EXCEPT !.text = typed[a]] ELSE dialog[a]
           q == [by |-> a, at |-> "sent", read |-> None, what |-> d]
<1>1. dialog[a] \in Decision /\ dialog[a] # None
  BY DEF Approve, OfficeInv, TypeOK
<1>2. d.row = dialog[a].row /\ d.to = dialog[a].to /\ d.seen = dialog[a].seen
  BY <1>1 DEF Decision
<1>3. SeenFits(d)
  BY <1>1, <1>2 DEF HandlingInv, SeenFits
<1>4. sent' = sent \cup {q} /\ dialog' = [dialog EXCEPT ![a] = None]
      /\ UNCHANGED <<tables, cache, permit, notes, typed>>
  BY DEF Approve
<1> HIDE DEF d
<1>5. q.what = d /\ q.at = "sent"
  OBVIOUS
<1> HIDE DEF q
<1> QED
  BY <1>3, <1>4, <1>5 DEF HandlingInv, HandlerFits, tables, OfficeInv, TypeOK

(* Leaving a screen leaves what was sent as it is, but for its sender.     *)
LEMMA NavigateSeen ==
  ASSUME OfficeInv, HandlingInv, NEW a \in Admins, Navigate(a)
  PROVE  HandlingInv'
<1>1. \A q \in sent' : \E p \in sent : q.what = p.what /\ q.at = p.at /\ q.read = p.read
  <2> SUFFICES ASSUME NEW p \in sent
               PROVE  LET q == IF p.by = a THEN [p EXCEPT !.by = None] ELSE p
                      IN  q.what = p.what /\ q.at = p.at /\ q.read = p.read
    BY DEF Navigate
  <2>1. p \in Sent
    BY DEF OfficeInv, TypeOK
  <2> QED
    BY <2>1 DEF Sent
<1> QED
  BY <1>1 DEF Navigate, HandlingInv, HandlerFits, tables

(* The guard finds the status that was seen, ...                           *)
LEMMA ReadSeen ==
  ASSUME OfficeInv, HandlingInv, NEW q \in sent, ReadRow(q)
  PROVE  HandlingInv'
<1> DEFINE p == [q EXCEPT !.at = "read", !.read = status[q.what.row]]
<1>1. q \in Sent /\ q.what \in Decision /\ SeenFits(q.what)
  BY DEF OfficeInv, TypeOK, HandlingInv, Sent
<1>2. p.what = q.what /\ p.read = status[q.what.row] /\ p.at = "read"
  BY <1>1 DEF Sent
<1>3. Accepts(q.what) /\ q.what.row \in Guarded => status[q.what.row] = q.what.seen
  BY <1>1, RowAssumption DEF Accepts, SeenFits, Guarded
<1>4. sent' \subseteq sent \cup {p} /\ (p \in sent' => Accepts(q.what) \/ p \in sent)
      /\ UNCHANGED <<tables, screens>>
  BY DEF ReadRow
<1> HIDE DEF p
<1>5. ASSUME NEW s \in sent' PROVE SeenFits(s.what) /\ HandlerFits(s)
  BY <1>1, <1>2, <1>3, <1>4 DEF HandlingInv, HandlerFits
<1> QED
  BY <1>4, <1>5 DEF HandlingInv, HandlerFits, tables, screens

(* ... and nobody else writes the row before it is written.                *)
LEMMA WriteSeen ==
  ASSUME OfficeInv, HandlingInv, OneHandlerPerRow, NEW q \in sent, WriteRow(q)
  PROVE  HandlingInv'
<1> DEFINE p == [q EXCEPT !.at = "written"]
<1>1. q.at = "read" /\ q \in Sent /\ q.what.row \in Rows
  BY DEF WriteRow, OfficeInv, TypeOK, Sent, Decision
<1>2. status' = [status EXCEPT ![q.what.row] = q.what.to] /\ sent' = (sent \ {q}) \cup {p}
      /\ UNCHANGED dialog
  BY DEF WriteRow, screens
<1>3. p.at = "written" /\ p.what = q.what
  BY <1>1 DEF Sent
<1> HIDE DEF p
<1>4. ASSUME NEW s \in sent' PROVE SeenFits(s.what) /\ HandlerFits(s)'
  <2>1. CASE s = p
    BY <1>3, <2>1 DEF HandlingInv, HandlerFits
  <2>2. CASE s # p
    <3>1. s \in sent /\ (s.at = "read" => s.what.row # q.what.row)
      BY <1>1, <1>2, <2>2 DEF OneHandlerPerRow, Handling
    <3> QED
      BY <1>2, <3>1 DEF HandlingInv, HandlerFits, OfficeInv, TypeOK
  <2> QED
    BY <2>1, <2>2
<1> QED
  BY <1>2, <1>4 DEF HandlingInv

LEMMA HandlingInductive == Spec /\ []OneHandlerPerRow => []HandlingInv
<1>1. Init => HandlingInv
  BY DEF Init, HandlingInv
<1>2. OfficeInv /\ HandlingInv /\ OneHandlerPerRow /\ [Next]_vars => HandlingInv'
  <2> SUFFICES ASSUME OfficeInv, HandlingInv, OneHandlerPerRow, [Next]_vars PROVE HandlingInv'
    OBVIOUS
  <2>1. CASE UNCHANGED vars
    BY <2>1 DEF vars, tables, screens, HandlingInv, HandlerFits
  <2>2. ASSUME NEW a \in Admins,
               \/ \E k \in Complaints :
                    EditNotes(a, k) \/ \E next \in Outcomes : handleOutcomeChange(a, k, next)
               \/ \E s \in Permits : ChoosePermit(a, s)
               \/ CancelPermit(a) \/ TypeReason(a) \/ Refetch(a)
        PROVE  HandlingInv'
    BY <2>2
    DEF EditNotes, handleOutcomeChange, ChoosePermit, CancelPermit, TypeReason, Refetch,
        tables, HandlingInv, HandlerFits
  <2>3. ASSUME NEW a \in Admins, Cancel(a) PROVE HandlingInv'
    BY <2>3 DEF Cancel, tables, HandlingInv, HandlerFits, OfficeInv, TypeOK
  <2>4. ASSUME NEW q \in sent, AuditRow(q) \/ Lose(q) PROVE HandlingInv'
    BY <2>4 DEF AuditRow, Lose, tables, screens, HandlingInv, HandlerFits
  <2> QED
    BY <2>1, <2>2, <2>3, <2>4, DecideSeen, PermitSeen, ApproveSeen, NavigateSeen,
       ReadSeen, WriteSeen
    DEF Next
<1> QED
  BY <1>1, <1>2, OfficeInductive, PTL DEF Spec

(* Rows are written by WriteRow.                                           *)
LEMMA OnlyWriteRow ==
  ASSUME Next  PROVE  UNCHANGED <<status, reason>> \/ \E q \in sent : WriteRow(q)
<1>1. ASSUME NEW a \in Admins, NEW r \in Rows, Decide(a, r)
      PROVE  UNCHANGED <<status, reason>>
  BY <1>1 DEF Decide, AskAssignment, AskVetting, AskAccess, AskInquiry, AskResolution, Ask,
              EditPermit, tables
<1>2. ASSUME NEW a \in Admins,
             \/ \E k \in Complaints :
                  EditNotes(a, k) \/ \E next \in Outcomes : handleOutcomeChange(a, k, next)
             \/ \E s \in Permits : ChoosePermit(a, s)
             \/ CancelPermit(a) \/ TypeReason(a) \/ Cancel(a) \/ Approve(a)
             \/ Refetch(a) \/ Navigate(a)
      PROVE  UNCHANGED <<status, reason>>
  BY <1>2 DEF EditNotes, handleOutcomeChange, ChoosePermit, CancelPermit, TypeReason, Cancel,
              Approve, Refetch, Navigate, tables
<1>3. ASSUME NEW q \in sent, ReadRow(q) \/ AuditRow(q) \/ Lose(q)
      PROVE  UNCHANGED <<status, reason>>
  BY <1>3 DEF ReadRow, AuditRow, Lose, tables
<1>4. ASSUME NEW a \in Admins, AskPermit(a) PROVE UNCHANGED <<status, reason>>
  BY <1>4 DEF AskPermit, Ask, tables
<1> QED
  BY <1>1, <1>2, <1>3, <1>4 DEF Next

(* An assignment, a vetting or a step of a complaint takes effect only on  *)
(* a row as it was shown, as long as no two handlers of a row overlap      *)
(* (orders.service.ts:260-264, partners.service.ts:128-133,                *)
(* complaints.service.ts:80-84,113-117).                                   *)
THEOREM DecidedOnSight == Spec /\ []OneHandlerPerRow => DecidedAsSeen
<1> DEFINE Unchanged(r) == <<status'[r], reason'[r]>> = <<status[r], reason[r]>>
           Seen(r) == \E q \in sent :
                        q.what.row = r /\ q.what.to = status'[r] /\ q.what.seen = status[r]
<1>1. OfficeInv /\ HandlingInv /\ [Next]_vars => [\A r \in Guarded : ~Unchanged(r) => Seen(r)]_vars
  <2> SUFFICES ASSUME OfficeInv, HandlingInv, Next, NEW r \in Guarded, ~Unchanged(r)
               PROVE  Seen(r)
    OBVIOUS
  <2>1. PICK q \in sent : WriteRow(q)
    BY OnlyWriteRow
  <2>2. status' = [status EXCEPT ![q.what.row] = q.what.to]
        /\ reason' = [reason EXCEPT ![q.what.row] = q.what.text] /\ q.at = "read"
    BY <2>1 DEF WriteRow
  <2>3. r \in Rows /\ status \in [Rows -> Status] /\ reason \in [Rows -> Texts]
    BY DEF Guarded, Rows, OfficeInv, TypeOK
  <2>4. r = q.what.row
    BY <2>2, <2>3
  <2>5. status'[r] = q.what.to /\ status[r] = q.what.seen
    BY <2>2, <2>3, <2>4 DEF HandlingInv, HandlerFits
  <2> QED
    BY <2>4, <2>5
<1>2. [\A r \in Guarded : ~Unchanged(r) => Seen(r)]_vars =>
        [\A r \in Orders \cup Partners \cup Complaints :
           <<status'[r], reason'[r]>> # <<status[r], reason[r]>> =>
             \E q \in sent : q.what.row = r /\ q.what.to = status'[r] /\ q.what.seen = status[r]]_vars
  BY DEF Guarded
<1> QED
  BY <1>1, <1>2, HandlingInductive, OfficeInductive, PTL DEF Spec, DecidedAsSeen

-----------------------------------------------------------------------------
(* What a handler that comes to its end gives the audit log                *)

(* At a row that is written the record is still to come; otherwise the     *)
(* last one names its status.                                              *)
AuditInv ==
  /\ AuditNamesStatus
  /\ \A q \in sent :
       /\ q.at = "read" => audited[q.what.row] = status[q.what.row]
       /\ q.at = "written" => status[q.what.row] = q.what.to
                              /\ audited[q.what.row] = q.read

(* The row of a handler is nobody else's.                                  *)
LEMMA Alone ==
  ASSUME OfficeInv, OneHandlerPerRow, NEW q \in sent, q.at \in {"read", "written"},
         NEW p \in sent, p # q, p.at \in {"read", "written"}
  PROVE  p.what.row # q.what.row
<1>1. q.what.row \in Rows
  BY DEF OfficeInv, TypeOK, Sent, Decision
<1> QED
  BY <1>1 DEF OneHandlerPerRow, Handling

(* Only a handler moves its row and its record.                            *)
LEMMA HandlersKeep ==
  ASSUME OfficeInv, AuditInv, UNCHANGED tables,
         \A q \in sent' : q.at = "sent" \/ \E p \in sent : q.what = p.what /\ q.at = p.at /\ q.read = p.read,
         \A p \in sent : p.at = "sent" \/ \E q \in sent' : q.what = p.what /\ q.at = p.at /\ q.read = p.read
  PROVE  AuditInv'
<1>1. ASSUME NEW r \in Rows, \A q \in sent' : ~Handling(q, r)
      PROVE  \A p \in sent : ~Handling(p, r)
  BY <1>1 DEF Handling
<1>2. AuditNamesStatus'
  BY <1>1 DEF AuditInv, AuditNamesStatus, Handling, tables
<1> QED
  BY <1>2 DEF AuditInv, tables

LEMMA ScreensKeepAudit ==
  ASSUME OfficeInv, AuditInv, NEW a \in Admins,
         \/ \E r \in Rows : Decide(a, r)
         \/ \E k \in Complaints :
              EditNotes(a, k) \/ \E next \in Outcomes : handleOutcomeChange(a, k, next)
         \/ \E s \in Permits : ChoosePermit(a, s)
         \/ CancelPermit(a) \/ AskPermit(a) \/ TypeReason(a) \/ Cancel(a) \/ Refetch(a)
  PROVE  AuditInv'
<1>1. UNCHANGED <<tables, sent>>
  BY DEF Decide, AskAssignment, AskVetting, AskAccess, AskInquiry, AskResolution, AskPermit, Ask,
         EditPermit, EditNotes, handleOutcomeChange, ChoosePermit, CancelPermit, TypeReason,
         Cancel, Refetch
<1> QED
  BY <1>1, HandlersKeep

LEMMA SentKeepsAudit ==
  ASSUME OfficeInv, AuditInv, NEW a \in Admins, Approve(a) \/ Navigate(a)
  PROVE  AuditInv'
<1>1. CASE Approve(a)
  <2>1. PICK d : sent' = sent \cup {[by |-> a, at |-> "sent", read |-> None, what |-> d]}
    BY <1>1 DEF Approve
  <2>2. \A q \in sent' : q \in sent \/ q.at = "sent"
    BY <2>1
  <2>3. sent \subseteq sent' /\ UNCHANGED tables
    BY <1>1, <2>1 DEF Approve
  <2> QED
    BY <2>2, <2>3, HandlersKeep
<1>2. CASE Navigate(a)
  <2>1. \A p \in sent : LET q == IF p.by = a THEN [p EXCEPT !.by = None] ELSE p
                        IN  q.what = p.what /\ q.at = p.at /\ q.read = p.read
    BY DEF OfficeInv, TypeOK, Sent
  <2> DEFINE left(p) == IF p.by = a THEN [p EXCEPT !.by = None] ELSE p
  <2>2. sent' = {left(p) : p \in sent} /\ UNCHANGED tables
    BY <1>2 DEF Navigate
  <2>3. \A p \in sent : left(p).what = p.what /\ left(p).at = p.at /\ left(p).read = p.read
    BY <2>1
  <2> HIDE DEF left
  <2> QED
    BY <2>2, <2>3, HandlersKeep
<1> QED
  BY <1>1, <1>2

(* A handler that reads finds nobody at its row, ...                       *)
LEMMA ReadKeepsAudit ==
  ASSUME OfficeInv, AuditInv, OneHandlerPerRow', NEW q \in sent, ReadRow(q)
  PROVE  AuditInv'
<1> DEFINE p == [q EXCEPT !.at = "read", !.read = status[q.what.row]]
           r == q.what.row
<1>1. q \in Sent /\ r \in Rows /\ q.at = "sent" /\ UNCHANGED tables
  BY DEF ReadRow, OfficeInv, TypeOK, Sent, Decision
<1>2. p.what = q.what /\ p.at = "read"
  BY <1>1 DEF Sent
<1>3. sent' = sent \ {q} \/ sent' = (sent \ {q}) \cup {p}
  BY DEF ReadRow
<1> HIDE DEF p
<1>4. CASE sent' = sent \ {q}
  BY <1>1, <1>4, HandlersKeep
<1>5. CASE sent' = (sent \ {q}) \cup {p}
  <2>1. \A s \in sent' : s # p => s \in sent /\ ~Handling(s, r)
    BY <1>1, <1>2, <1>5 DEF OneHandlerPerRow, Handling
  <2>2. p \in sent \/ \A s \in sent : ~Handling(s, r)
    BY <1>1, <1>5, <2>1 DEF Handling
  <2>3. audited[r] = status[r]
    BY <1>1, <1>2, <2>2 DEF AuditInv, AuditNamesStatus
  <2>4. ASSUME NEW t \in Rows, \A s \in sent' : ~Handling(s, t) PROVE audited[t] = status[t]
    BY <1>1, <1>5, <2>4 DEF AuditInv, AuditNamesStatus, Handling
  <2>5. \A s \in sent' : s # p => s \in sent
    BY <2>1
  <2> QED
    BY <1>1, <1>2, <2>3, <2>4, <2>5 DEF AuditInv, AuditNamesStatus, Handling, tables
<1> QED
  BY <1>3, <1>4, <1>5

(* ... what it writes is its own to record, ...                            *)
LEMMA WriteKeepsAudit ==
  ASSUME OfficeInv, AuditInv, HandlingInv, OneHandlerPerRow, NEW q \in sent, WriteRow(q)
  PROVE  AuditInv'
<1> DEFINE p == [q EXCEPT !.at = "written"]
           r == q.what.row
<1>1. q \in Sent /\ r \in Rows /\ q.at = "read" /\ q.read = status[r]
  BY DEF WriteRow, OfficeInv, TypeOK, Sent, Decision, HandlingInv, HandlerFits
<1>2. p.what = q.what /\ p.at = "written" /\ p.read = q.read
  BY <1>1 DEF Sent
<1>3. status' = [status EXCEPT ![r] = q.what.to] /\ sent' = (sent \ {q}) \cup {p}
      /\ UNCHANGED audited
  BY DEF WriteRow
<1> HIDE DEF p
<1>4. status'[r] = q.what.to /\ \A t \in Rows \ {r} : status'[t] = status[t]
  BY <1>1, <1>3 DEF OfficeInv, TypeOK
<1>5. audited[r] = q.read
  BY <1>1 DEF AuditInv
<1>6. AuditNamesStatus'
  <2> SUFFICES ASSUME NEW t \in Rows, \A s \in sent' : ~Handling(s, t)
               PROVE  audited'[t] = status'[t]
    BY DEF AuditNamesStatus, Handling
  <2>1. t # r
    BY <1>2, <1>3 DEF Handling
  <2>2. \A s \in sent : ~Handling(s, t)
    BY <1>3, <2>1 DEF Handling
  <2> QED
    BY <1>3, <1>4, <2>1, <2>2 DEF AuditInv, AuditNamesStatus
<1>7. ASSUME NEW s \in sent'
      PROVE  /\ s.at = "read" => audited'[s.what.row] = status'[s.what.row]
             /\ s.at = "written" => status'[s.what.row] = s.what.to
                                    /\ audited'[s.what.row] = s.read
  <2>1. CASE s = p
    BY <1>2, <1>3, <1>4, <1>5, <2>1
  <2>2. CASE s # p
    <3>1. s \in sent /\ s # q
      BY <1>3, <2>2
    <3>2. s.what.row \in Rows
      BY <3>1 DEF OfficeInv, TypeOK, Sent, Decision
    <3>3. s.at \in {"read", "written"} => s.what.row # r
      BY <1>1, <3>1, Alone
    <3> QED
      BY <1>3, <1>4, <3>1, <3>2, <3>3 DEF AuditInv
  <2> QED
    BY <2>1, <2>2
<1> QED
  BY <1>6, <1>7 DEF AuditInv

(* ... and its record names what it wrote.                                 *)
LEMMA RecordKeepsAudit ==
  ASSUME OfficeInv, AuditInv, OneHandlerPerRow, NEW q \in sent, AuditRow(q)
  PROVE  AuditInv'
<1> DEFINE r == q.what.row
<1>1. r \in Rows /\ q.at = "written" /\ status[r] = q.what.to /\ audited[r] = q.read
  BY DEF AuditRow, OfficeInv, TypeOK, Sent, Decision, AuditInv
<1>2. sent' = sent \ {q} /\ UNCHANGED status
  BY DEF AuditRow
<1>3. audited'[r] = status[r] /\ \A t \in Rows \ {r} : audited'[t] = audited[t]
  BY <1>1 DEF AuditRow, Audit, OfficeInv, TypeOK
<1>4. AuditNamesStatus'
  <2> SUFFICES ASSUME NEW t \in Rows, \A s \in sent' : ~Handling(s, t)
               PROVE  audited'[t] = status'[t]
    BY DEF AuditNamesStatus, Handling
  <2>1. t # r => \A s \in sent : ~Handling(s, t)
    BY <1>2 DEF Handling
  <2> QED
    BY <1>2, <1>3, <2>1 DEF AuditInv, AuditNamesStatus
<1>5. ASSUME NEW s \in sent', s.at \in {"read", "written"} PROVE s.what.row \in Rows \ {r} /\ s \in sent
  BY <1>1, <1>2, <1>5, Alone DEF OfficeInv, TypeOK, Sent, Decision
<1> QED
  BY <1>2, <1>3, <1>4, <1>5 DEF AuditInv

(* One that is lost before it wrote has nothing to record.                 *)
LEMMA LoseKeepsAudit ==
  ASSUME OfficeInv, AuditInv, NEW q \in sent, Lose(q), q.at # "written"
  PROVE  AuditInv'
<1>1. sent' = sent \ {q} /\ UNCHANGED tables
  BY DEF Lose
<1>2. AuditNamesStatus'
  <2> SUFFICES ASSUME NEW t \in Rows, \A s \in sent' : ~Handling(s, t)
               PROVE  audited[t] = status[t]
    BY <1>1 DEF AuditNamesStatus, Handling, tables
  <2>1. CASE Handling(q, t)
    BY <2>1 DEF AuditInv, Handling
  <2>2. CASE ~Handling(q, t)
    BY <1>1, <2>2 DEF AuditInv, AuditNamesStatus, Handling
  <2> QED
    BY <2>1, <2>2
<1> QED
  BY <1>1, <1>2 DEF AuditInv, tables

(* As long as no two handlers of a row overlap and each that has written   *)
(* its row comes to its record, the last record names the status the row   *)
(* has, from whichever stale form it was written.  Of the two hypotheses   *)
(* the code takes neither (cemeteries.service.ts:149,158,164).             *)
THEOREM AuditNamed == Spec /\ []OneHandlerPerRow /\ NoneFails => []AuditNamesStatus
<1>1. Init => AuditInv
  BY DEF Init, AuditInv, AuditNamesStatus
<1>2. OfficeInv /\ HandlingInv /\ OneHandlerPerRow /\ OneHandlerPerRow' /\ AuditInv /\ [Next]_vars
        /\ [\A q \in sent : q.at = "written" /\ Lose(q) => AuditRow(q)]_vars => AuditInv'
  <2> SUFFICES ASSUME OfficeInv, HandlingInv, OneHandlerPerRow, OneHandlerPerRow', AuditInv, [Next]_vars,
                      [\A q \in sent : q.at = "written" /\ Lose(q) => AuditRow(q)]_vars
               PROVE  AuditInv'
    OBVIOUS
  <2>1. CASE UNCHANGED vars
    BY <2>1 DEF vars, tables, AuditInv, AuditNamesStatus, Handling
  <2>2. ASSUME NEW q \in sent, Lose(q), ~UNCHANGED vars PROVE AuditInv'
    BY <2>2, LoseKeepsAudit, RecordKeepsAudit
  <2> QED
    BY <2>1, <2>2, ScreensKeepAudit, SentKeepsAudit, ReadKeepsAudit, WriteKeepsAudit,
       RecordKeepsAudit DEF Next
<1>3. AuditInv => AuditNamesStatus
  BY DEF AuditInv
<1> QED
  BY <1>1, <1>2, <1>3, HandlingInductive, OfficeInductive, PTL DEF Spec, NoneFails
=============================================================================
