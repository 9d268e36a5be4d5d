---------------------------- MODULE FieldScreens ----------------------------
(***************************************************************************)
(* A partner's visit to one grave: the screens of the field app            *)
(* (apps/field-pwa/src/pages), the rows they queue, the contexts that send *)
(* them, what OrdersService does with them, and the customer's             *)
(* notification (Outbox).  FieldQueue has the way of one row in detail;    *)
(* here an action that the API has carried out answers the same again.     *)
(***************************************************************************)
EXTENDS Outbox, Sequences, FiniteSets

CONSTANTS
  Contexts,     \* "page", "worker"
  Referenced,   \* whether the grave has coordinates
  MaxRows,      \* no more than these rows are queued
  MaxTaps,      \* handlers of the screens under way at a time
  None

ASSUME ContextAssumption == Contexts \subseteq {"page", "worker"}
ASSUME ReferencedAssumption == Referenced \in BOOLEAN
ASSUME BoundAssumption == MaxRows \in Nat /\ MaxTaps \in Nat \ {0}
ASSUME EventAssumption == "task_completed" \in Events

VARIABLES
  screen,     \* the route and the state of its component
  cached,     \* the last answers the service worker has kept
  locating,   \* handleStart calls that wait for a position
  putting,    \* enqueueAction calls on their way into IndexedDB
  rows,       \* pendingActions, by seq
  flush,      \* [Contexts -> flushOrder in each context]
  status,     \* of the order, at the API
  photos      \* evidence_photos: the row each came from, and its check

screenVars == <<screen, cached, locating, putting>>
queueVars == <<rows, flush>>
orderVars == <<status, photos>>
vars == <<screenVars, queueVars, orderVars, outboxVars>>

Statuses == {"assigned", "in_progress", "completed_pending_approval"}

ASSUME NoneAssumption == None \notin Statuses

Shots == <<"wide_shot", "detail_shot">>   \* STEPS
Kinds == {"start", "wide_shot", "detail_shot", "complete"}
Geotags == {"manual_review", "missing_exif", "gps_mismatch", "timestamp_mismatch", "valid"}

Action == [kind : Kinds, note : BOOLEAN]

Screen ==
  [ at      : {"list", "detail", "capture", "complete"},
    task    : Statuses \cup {None},    \* list and detail: the status they show
    step    : 0 .. 2 + MaxTaps,        \* stepIndex, and queuedCount
    preview : BOOLEAN,
    note    : BOOLEAN,                 \* fieldNote is not blank
    queued  : BOOLEAN ]

Row == [ kind : Kinds, note : BOOLEAN,
         status : {"pending", "syncing", "synced", "failed"},
         done : BOOLEAN ]              \* the API has carried it out

RowIds == 1 .. MaxRows

Photo == [row : RowIds, geotag : Geotags, reviewed : BOOLEAN]

Flush == [key : RowIds \cup {None}, todo : SUBSET RowIds]

TypeOK ==
  /\ screen \in Screen
  /\ cached \in [{"list", "detail"} -> Statuses \cup {None}]
  /\ locating \in 0 .. MaxTaps
  /\ putting \in Seq([action : Action, live : BOOLEAN]) /\ Len(putting) <= MaxTaps
  /\ rows \in Seq(Row) /\ Len(rows) <= MaxRows
  /\ flush \in [Contexts -> Flush]
  /\ status \in Statuses
  /\ photos \subseteq Photo
  /\ OutboxTypeOK

Fresh(at) ==
  [at |-> at, task |-> None, step |-> 0, preview |-> FALSE, note |-> FALSE, queued |-> FALSE]

FlushIdle == [key |-> None, todo |-> {}]

(* The task has been listed.                                               *)
Init ==
  /\ screen = [Fresh("list") EXCEPT !.task = "assigned"]
  /\ cached = [list |-> "assigned", detail |-> None]
  /\ locating = 0
  /\ putting = <<>>
  /\ rows = <<>>
  /\ flush = [x \in Contexts |-> FlushIdle]
  /\ status = "assigned"
  /\ photos = {}
  /\ OutboxInit

Done == screen.step >= Len(Shots)
LastStep == screen.step = Len(Shots) - 1

(* startAction is the first, whatever became of it.                        *)
StartRows == {i \in DOMAIN rows : rows[i].kind = "start"}
StartQueued == \E i \in StartRows : (\A j \in StartRows : i <= j) /\ rows[i].status # "failed"

(* Mutant of effectiveStarted: the button is believed before the queue.    *)
effectiveStartedAtOnce == screen.task # "assigned" \/ StartQueued \/ locating > 0

effectiveStarted == screen.task # "assigned" \/ StartQueued

-----------------------------------------------------------------------------
(* From screen to screen *)

Leave == putting' = [i \in DOMAIN putting |-> [putting[i] EXCEPT !.live = FALSE]]

(* The list and the task are fetched when they are entered (NetworkFirst): *)
(* from the API, or what the cache has; without either the task is not     *)
(* shown.                                                                  *)
Enter(at) ==
  /\ \/ screen' = [Fresh(at) EXCEPT !.task = status] /\ cached' = [cached EXCEPT ![at] = status]
     \/ screen' = [Fresh(at) EXCEPT !.task = cached[at]] /\ UNCHANGED cached
  /\ Leave

Goto(at) == screen' = Fresh(at) /\ Leave /\ UNCHANGED cached

OpenTask == screen.at = "list" /\ screen.task \in {"assigned", "in_progress"} /\ Enter("detail")

OpenCapture ==
  /\ screen.at = "detail" /\ screen.task \in {"assigned", "in_progress"}
  /\ effectiveStarted
  /\ Goto("capture")

OpenComplete == screen.at = "capture" /\ Done /\ Goto("complete")

BackToList == (screen.at = "detail" \/ screen.queued) /\ Enter("list")

BackButton ==
  \/ screen.at = "capture" /\ Enter("detail")
  \/ screen.at = "complete" /\ Goto("capture")

Navigate ==
  /\ OpenTask \/ OpenCapture \/ OpenComplete \/ BackToList \/ BackButton
  /\ UNCHANGED <<locating, queueVars, orderVars, outboxVars>>

(* The page is closed and opened again: its handlers and its flush are     *)
(* gone, and main.tsx has the rows that are syncing sent again, those the  *)
(* worker is at included.                                                  *)
Reload ==
  /\ IF screen.at \in {"list", "detail"}
       THEN \/ screen' = [Fresh(screen.at) EXCEPT !.task = status]
               /\ cached' = [cached EXCEPT ![screen.at] = status]
            \/ screen' = [Fresh(screen.at) EXCEPT !.task = cached[screen.at]] /\ UNCHANGED cached
       ELSE screen' = Fresh(screen.at) /\ UNCHANGED cached
  /\ locating' = 0 /\ putting' = <<>>
  /\ rows' = [i \in DOMAIN rows |->
       IF rows[i].status = "syncing" THEN [rows[i] EXCEPT !.status = "pending"] ELSE rows[i]]
  /\ flush' = [x \in Contexts |-> IF x = "page" THEN FlushIdle ELSE flush[x]]
  /\ UNCHANGED <<orderVars, outboxVars>>

-----------------------------------------------------------------------------
(* The handlers of the screens.  No button is disabled while its handler   *)
(* waits.                                                                  *)

MayTap == locating + Len(putting) < MaxTaps

(* live: the handler goes on to set the state of the screen that is shown. *)
enqueueAction(kind, note, live) ==
  putting' = Append(putting, [action |-> [kind |-> kind, note |-> note], live |-> live])

(* "Basla": the position is asked for, for eight seconds at most, ...      *)
handleStart ==
  /\ screen.at = "detail" /\ screen.task = "assigned" /\ ~effectiveStarted /\ MayTap
  /\ locating' = locating + 1
  /\ UNCHANGED <<screen, cached, putting, queueVars, orderVars, outboxVars>>

(* ... and a warning is all that comes of it.  Once the row is there       *)
(* handleStart has nothing left to do.                                     *)
Located ==
  /\ locating > 0
  /\ locating' = locating - 1
  /\ enqueueAction("start", FALSE, FALSE)
  /\ UNCHANGED <<screen, cached, queueVars, orderVars, outboxVars>>

OnCapture == screen.at = "capture" /\ ~Done

handleShoot ==
  /\ OnCapture /\ ~screen.preview
  /\ screen' = [screen EXCEPT !.preview = TRUE]
  /\ UNCHANGED <<cached, locating, putting, queueVars, orderVars, outboxVars>>

handleRetake ==
  /\ OnCapture /\ screen.preview
  /\ screen' = [screen EXCEPT !.preview = FALSE]
  /\ UNCHANGED <<cached, locating, putting, queueVars, orderVars, outboxVars>>

WriteNote ==
  /\ OnCapture /\ screen.preview /\ LastStep /\ ~screen.note
  /\ screen' = [screen EXCEPT !.note = TRUE]
  /\ UNCHANGED <<cached, locating, putting, queueVars, orderVars, outboxVars>>

(* Mutant of handleConfirm: the last photograph does without its note.     *)
handleConfirmAnyway ==
  /\ OnCapture /\ screen.preview /\ MayTap
  /\ enqueueAction(Shots[screen.step + 1], LastStep /\ screen.note, TRUE)
  /\ UNCHANGED <<screen, cached, locating, queueVars, orderVars, outboxVars>>

(* The note goes with the last photograph, which does not go without it.   *)
handleConfirm ==
  /\ OnCapture /\ screen.preview /\ (LastStep => screen.note) /\ MayTap
  /\ enqueueAction(Shots[screen.step + 1], LastStep, TRUE)
  /\ UNCHANGED <<screen, cached, locating, queueVars, orderVars, outboxVars>>

handleComplete ==
  /\ screen.at = "complete" /\ ~screen.queued /\ MayTap
  /\ enqueueAction("complete", FALSE, TRUE)
  /\ UNCHANGED <<screen, cached, locating, queueVars, orderVars, outboxVars>>

(* The row is there; the handler goes on, if its component is.             *)
Put ==
  /\ putting # <<>> /\ Len(rows) < MaxRows
  /\ LET p == Head(putting)
     IN  /\ rows' = Append(rows, [ kind |-> p.action.kind, note |-> p.action.note,
                                   status |-> "pending", done |-> FALSE ])
         /\ screen' = CASE p.live /\ screen.at = "capture" ->
                             [screen EXCEPT !.preview = FALSE, !.step = @ + 1]
                        [] p.live /\ screen.at = "complete" -> [screen EXCEPT !.queued = TRUE]
                        [] OTHER -> screen
  /\ putting' = Tail(putting)
  /\ UNCHANGED <<cached, locating, flush, orderVars, outboxVars>>

-----------------------------------------------------------------------------
(* OrdersService *)

Taken == {rows[p.row].kind : p \in photos}

(* Mutant of hasEvidence: the photographs are only counted.                *)
hasTwoPhotos == Cardinality(photos) >= 2

hasEvidence == {"wide_shot", "detail_shot"} \subseteq Taken

Accepts(kind) ==
  CASE kind = "start"    -> status = "assigned"
    [] kind = "complete" -> status = "in_progress" /\ hasEvidence
    [] OTHER             -> status = "in_progress"

(* A canvas writes no EXIF.                                                *)
extractExifData == [gps |-> "none", time |-> "none"]

resolveGeotagStatus(exif) ==
  CASE ~Referenced         -> "manual_review"
    [] exif.gps = "none"   -> "missing_exif"
    [] exif.gps = "far"    -> "gps_mismatch"
    [] exif.time = "old"   -> "timestamp_mismatch"
    [] OTHER               -> "valid"

(* Mutant of NeedsReview: the two the specification names.                 *)
NeedsReviewAsSpecified(geotag) == geotag \in {"missing_exif", "gps_mismatch"}

NeedsReview(geotag) == geotag # "valid"

(* start, addEvidence and complete, to their end, or "broken": the row is  *)
(* written and what follows throws.                                        *)
CarryOut(i, broken) ==
  CASE rows[i].kind = "start" ->
         status' = "in_progress" /\ UNCHANGED <<photos, outboxVars>>
    [] rows[i].kind = "complete" ->
         /\ status' = "completed_pending_approval"
         /\ IF broken THEN UNCHANGED outboxVars
                      ELSE notify("task_completed", {"email", "sms", "whatsapp"})
         /\ UNCHANGED photos
    [] OTHER ->
         LET geotag == resolveGeotagStatus(extractExifData)
         IN  /\ photos' = photos \cup
                  {[row |-> i, geotag |-> geotag, reviewed |-> NeedsReview(geotag) /\ ~broken]}
             /\ UNCHANGED <<status, outboxVars>>

-----------------------------------------------------------------------------
(* flushOrder, as in FieldQueue *)

Pending == {i \in DOMAIN rows : rows[i].status = "pending"}

BeginFlush(x) ==
  /\ flush[x] = FlushIdle
  /\ \E i \in Pending : \A j \in 1 .. i : rows[j].status # "failed"
  /\ flush' = [flush EXCEPT ![x].todo =
       {i \in Pending : \A j \in 1 .. i : rows[j].status # "failed"}]
  /\ UNCHANGED <<screenVars, rows, orderVars, outboxVars>>

MarkSyncing(x) ==
  /\ flush[x].key = None
  /\ \E i \in flush[x].todo :
       /\ \A j \in flush[x].todo : i <= j
       /\ rows' = [rows EXCEPT ![i].status = "syncing"]
       /\ flush' = [flush EXCEPT ![x] = [key |-> i, todo |-> @.todo \ {i}]]
  /\ UNCHANGED <<screenVars, orderVars, outboxVars>>

(* What was done before, or is done now, is answered and noted; what was   *)
(* refused, or threw, is refused for good.                                 *)
Synced(x) ==
  /\ flush[x].key # None
  /\ LET i == flush[x].key
     IN  /\ \/ rows[i].done /\ UNCHANGED <<orderVars, outboxVars>>
            \/ ~rows[i].done /\ Accepts(rows[i].kind) /\ CarryOut(i, FALSE)
         /\ rows' = [rows EXCEPT ![i].status = "synced", ![i].done = TRUE]
  /\ flush' = [flush EXCEPT ![x].key = None]
  /\ UNCHANGED screenVars

Refused(x) ==
  /\ flush[x].key # None
  /\ LET i == flush[x].key
     IN  /\ ~rows[i].done /\ ~Accepts(rows[i].kind)
         /\ rows' = [rows EXCEPT ![i].status = "failed"]
  /\ flush' = [flush EXCEPT ![x] = FlushIdle]
  /\ UNCHANGED <<screenVars, orderVars, outboxVars>>

(* The API answers 500 after its first write.                              *)
Broken(x) ==
  /\ flush[x].key # None
  /\ LET i == flush[x].key
     IN  /\ ~rows[i].done /\ Accepts(rows[i].kind) /\ CarryOut(i, TRUE)
         /\ rows' = [rows EXCEPT ![i].status = "failed"]
  /\ flush' = [flush EXCEPT ![x] = FlushIdle]
  /\ UNCHANGED screenVars

(* The connection is gone: before the request, or before its answer; or    *)
(* the other context's request is still being handled (409).               *)
Lost(x) ==
  /\ flush[x].key # None
  /\ LET i == flush[x].key
     IN  \/ /\ rows' = [rows EXCEPT ![i].status = "pending"]
            /\ UNCHANGED <<orderVars, outboxVars>>
         \/ /\ ~rows[i].done /\ Accepts(rows[i].kind) /\ CarryOut(i, FALSE)
            /\ rows' = [rows EXCEPT ![i].status = "pending", ![i].done = TRUE]
  /\ flush' = [flush EXCEPT ![x] = FlushIdle]
  /\ UNCHANGED screenVars

(* The loop has come to its end.                                           *)
SyncStep(x) == BeginFlush(x) \/ MarkSyncing(x) \/ Synced(x) \/ Refused(x)

-----------------------------------------------------------------------------
Tap ==
  \/ handleStart \/ handleShoot \/ handleRetake \/ WriteNote
  \/ handleConfirm \/ handleComplete

Worker(n) == WorkerStep(n) /\ UNCHANGED <<screenVars, queueVars, orderVars>>

(* What happens while the connection and the API hold ...                  *)
Work ==
  \/ Navigate \/ Tap \/ Located \/ Put
  \/ \E x \in Contexts : SyncStep(x)
  \/ \E n \in Notices : Worker(n)

(* ... and what happens.                                                   *)
Next ==
  \/ Work
  \/ Reload
  \/ \E x \in Contexts : Broken(x) \/ Lost(x)
  \/ \E n \in Notices : Stall(n) /\ UNCHANGED <<screenVars, queueVars, orderVars>>

Spec == Init /\ [][Next]_vars

(* The queue is flushed every 20 seconds and the workers work, and sooner  *)
(* or later the connection holds, the page stays open and nothing dies.    *)
Fairness ==
  /\ WF_vars(Located) /\ WF_vars(Put)
  /\ \A x \in Contexts : WF_vars(SyncStep(x))
  /\ \A n \in Notices : WF_vars(Worker(n))

FairSpec == Spec /\ Fairness /\ <>[][Work]_vars

-----------------------------------------------------------------------------
(* A completed order has a wide shot and a detail shot with its field      *)
(* note, however the buttons were tapped, the screens left and entered     *)
(* again and the rows sent (orders.service.ts:486-500,                     *)
(* CapturePage.tsx:103-113,175).                                           *)
CompletedIsReported ==
  status = "completed_pending_approval" =>
    /\ \E p \in photos : rows[p.row].kind = "wide_shot"
    /\ \E p \in photos : rows[p.row].kind = "detail_shot" /\ rows[p.row].note

(* Nothing is queued before the start: a photograph in front of it would   *)
(* be refused for good and keep the start from ever being sent             *)
(* (TaskDetailPage.tsx:48-49,71, queue.ts:118-127).                        *)
StartComesFirst == rows # <<>> => rows[1].kind = "start"

(* Of a photograph the partner sees as sent, Ops has been told unless its  *)
(* place and time were confirmed, though the API may have failed half way  *)
(* and the other context have sent it again (orders.service.ts:432-445).   *)
SyncedIsReviewed ==
  \A i \in DOMAIN rows :
    rows[i].kind \in {"wide_shot", "detail_shot"} /\ rows[i].status = "synced"
      => \E p \in photos : p.row = i /\ (p.geotag = "valid" \/ p.reviewed)

-----------------------------------------------------------------------------
(* What a comment says, and the code does not do *)

(* "The real upload is done in the background, when the device comes       *)
(* online" (CapturePage.tsx:23-27): a photograph that was queued is sent.  *)
(* A second tap on "Basla" while the position is asked for queues a start  *)
(* that is refused, and a row that was refused keeps all after it back.    *)
Queued(i) == i \in DOMAIN rows /\ rows[i].kind \in {"wide_shot", "detail_shot"}

PhotosAreSent ==
  \A i \in RowIds : Queued(i) ~> Queued(i) /\ rows[i].status = "synced"
=============================================================================
