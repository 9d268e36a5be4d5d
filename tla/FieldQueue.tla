----------------------------- MODULE FieldQueue -----------------------------
(***************************************************************************)
(* The offline queue of the field app (apps/field-pwa/src/lib/queue.ts)    *)
(* for one assigned order: actions wait as rows of IndexedDB and are sent  *)
(* one after the other, with the row's id as Idempotency-Key, by the page  *)
(* and by the service worker, each with its own copy of the module.  At    *)
(* the API, OrdersService handles them.  Only this device works on the     *)
(* order.                                                                  *)
(***************************************************************************)
EXTENDS Idempotency, Sequences

CONSTANT MaxWrites   \* how often an action took effect is counted up to here

(* What the screens queue: TaskDetailPage, CapturePage twice, CompletePage.*)
Plan == <<"start", "wide_shot", "detail_shot", "complete">>

ASSUME PlanAssumption == \E n \in DOMAIN Plan : Keys = 1 .. n
ASSUME CountAssumption == MaxWrites \in Nat /\ MaxWrites > 1
ASSUME ContextAssumption == Clients \subseteq {"page", "worker"}

VARIABLES
  row,       \* [Keys -> RowStatus], pendingActions, by seq
  stuck,     \* rows resetInterruptedSyncs has read and will write back
  flush,     \* [Clients -> Flush], flushQueue in each context
  status,    \* of the order, at the API
  writes     \* [Keys -> Nat], how often the API carried an action out

queueVars == <<row, stuck, flush>>
orderVars == <<status, writes>>
vars == <<interceptorVars, queueVars, orderVars>>

RowStatus == {"absent", "pending", "syncing", "synced", "failed"}

Flush ==
  [ at   : {"idle", "next", "upload", "send", "wait", "closed"},
    key  : Keys \cup {None},    \* the row in syncOne
    todo : SUBSET Keys ]        \* rows the loop will still get to

FlushIdle == [at |-> "idle", key |-> None, todo |-> {}]

TypeOK ==
  /\ IdempotencyTypeOK
  /\ row \in [Keys -> RowStatus]
  /\ stuck \subseteq Keys
  /\ flush \in [Clients -> Flush]
  /\ status \in {"assigned", "in_progress", "completed_pending_approval"}
  /\ writes \in [Keys -> Nat]

Init ==
  /\ IdempotencyInit
  /\ row = [k \in Keys |-> "absent"]
  /\ stuck = {}
  /\ flush = [x \in Clients |-> FlushIdle]
  /\ status = "assigned"
  /\ writes = [k \in Keys |-> 0]

FlushEnd(x) == flush' = [flush EXCEPT ![x] = FlushIdle]

-----------------------------------------------------------------------------
(* The partner's screens *)

(* Mutant of Enqueue: with a status that no flush looks for.               *)
EnqueueUnknown(k) ==
  /\ row[k] = "absent"
  /\ \A j \in Keys : j < k => row[j] # "absent"
  /\ "page" \in Clients => flush["page"].at # "closed"
  /\ row' = [row EXCEPT ![k] = "queued"]
  /\ UNCHANGED <<interceptorVars, stuck, flush, orderVars>>

(* enqueueAction: rows are put in the order of the screens.                *)
Enqueue(k) ==
  /\ row[k] = "absent"
  /\ \A j \in Keys : j < k => row[j] # "absent"
  /\ "page" \in Clients => flush["page"].at # "closed"
  /\ row' = [row EXCEPT ![k] = "pending"]
  /\ UNCHANGED <<interceptorVars, stuck, flush, orderVars>>

(* The tab is closed, or the browser stops the service worker.             *)
Close(x) ==
  /\ flush[x].at # "closed"
  /\ x = "worker" => flush[x].at # "idle"
  /\ flush' = [flush EXCEPT ![x] =
                 [FlushIdle EXCEPT !.at = IF x = "page" THEN "closed" ELSE "idle"]]
  /\ stuck' = IF x = "page" THEN {} ELSE stuck
  /\ Forget(x, "nothing")
  /\ UNCHANGED <<row, orderVars>>

(* Mutant of Boot: interrupted rows are not looked for.                    *)
BootWithoutReset(x) ==
  /\ flush[x].at = "closed"
  /\ FlushEnd(x)
  /\ UNCHANGED <<interceptorVars, row, stuck, orderVars>>

(* main.tsx: the page is opened again, and resetInterruptedSyncs lists the *)
(* rows that are syncing.                                                  *)
Boot(x) ==
  /\ flush[x].at = "closed"
  /\ FlushEnd(x)
  /\ stuck' = {k \in Keys : row[k] = "syncing"}
  /\ UNCHANGED <<interceptorVars, row, orderVars>>

(* It writes them back in a transaction of its own.  main.tsx does not     *)
(* flush before; a screen that queues an action, or the browser that comes *)
(* online, may.                                                            *)
ResetStuck ==
  /\ stuck # {}
  /\ row' = [k \in Keys |-> IF k \in stuck THEN "pending" ELSE row[k]]
  /\ stuck' = {}
  /\ UNCHANGED <<interceptorVars, flush, orderVars>>

-----------------------------------------------------------------------------
(* flushQueue, once per context at a time (flushing).  A refresh of the    *)
(* access token that fails ends it before it begins.                       *)

(* The rows are listed once, in order; the loop goes by what the list      *)
(* says.  It passes over rows that are synced or syncing and stops at one  *)
(* that failed.                                                            *)
BeginFlush(x) ==
  /\ flush[x].at = "idle"
  /\ \E k \in Keys : row[k] = "pending"
  /\ flush' = [flush EXCEPT ![x] =
       [ at |-> "next", key |-> None,
         todo |-> {k \in Keys : row[k] = "pending"
                                  /\ \A j \in Keys : j < k => row[j] # "failed"} ]]
  /\ UNCHANGED <<interceptorVars, row, stuck, orderVars>>

Photos == {k \in Keys : Plan[k] \in {"wide_shot", "detail_shot"}}

(* syncOne begins ...                                                      *)
MarkSyncing(x) ==
  /\ flush[x].at = "next"
  /\ \E k \in flush[x].todo :
       /\ \A j \in flush[x].todo : k <= j
       /\ row' = [row EXCEPT ![k] = "syncing"]
       /\ flush' = [flush EXCEPT ![x] =
            [ at |-> IF k \in Photos THEN "upload" ELSE "send", key |-> k,
              todo |-> flush[x].todo \ {k} ]]
  /\ UNCHANGED <<interceptorVars, stuck, orderVars>>

(* ... or the loop has come to its end.                                    *)
EndFlush(x) ==
  /\ flush[x].at = "next" /\ flush[x].todo = {}
  /\ FlushEnd(x)
  /\ UNCHANGED <<interceptorVars, row, stuck, orderVars>>

(* A photograph is uploaded first: createEvidenceUploadUrl looks at the    *)
(* order too, and its refusal is final.                                    *)
Upload(x) ==
  /\ flush[x].at = "upload"
  /\ IF status = "in_progress"
       THEN /\ flush' = [flush EXCEPT ![x].at = "send"]
            /\ UNCHANGED row
       ELSE /\ row' = [row EXCEPT ![flush[x].key] = "failed"]
            /\ FlushEnd(x)
  /\ UNCHANGED <<interceptorVars, stuck, orderVars>>

SendAction(x) ==
  /\ flush[x].at = "send"
  /\ Deliver(x, flush[x].key)
  /\ flush' = [flush EXCEPT ![x].at = "wait"]
  /\ UNCHANGED <<row, stuck, orderVars>>

SendInVain(x) ==
  /\ flush[x].at \in {"upload", "send"}
  /\ LoseRequest(x)
  /\ flush' = [flush EXCEPT ![x].at = "wait"]
  /\ UNCHANGED <<row, stuck, orderVars>>

(* Mutant of RecordAnswer: 409 is taken for done.                          *)
RecordBusyAsSynced(x) ==
  /\ flush[x].at = "wait" /\ told[x] \notin {"nothing", "waiting"}
  /\ row' = [row EXCEPT ![flush[x].key] =
               CASE told[x] \in {"ok", "busy"} -> "synced"
                 [] told[x] = "error"          -> "failed"
                 [] told[x] = "lost"           -> "pending"]
  /\ IF told[x] = "ok" THEN flush' = [flush EXCEPT ![x].at = "next", ![x].key = None]
                       ELSE FlushEnd(x)
  /\ told' = [told EXCEPT ![x] = "nothing"]
  /\ UNCHANGED <<entry, call, stuck, orderVars>>

(* syncOne ends: 409 and a broken connection leave the row for the next    *)
(* flush, any other error is final.  Only a success goes on.               *)
RecordAnswer(x) ==
  /\ flush[x].at = "wait" /\ told[x] \notin {"nothing", "waiting"}
  /\ row' = [row EXCEPT ![flush[x].key] =
               CASE told[x] = "ok"               -> "synced"
                 [] told[x] = "error"            -> "failed"
                 [] told[x] \in {"busy", "lost"} -> "pending"]
  /\ IF told[x] = "ok" THEN flush' = [flush EXCEPT ![x].at = "next", ![x].key = None]
                       ELSE FlushEnd(x)
  /\ told' = [told EXCEPT ![x] = "nothing"]
  /\ UNCHANGED <<entry, call, stuck, orderVars>>

-----------------------------------------------------------------------------
(* OrdersService.start, addEvidence and complete: the guard is read, the   *)
(* row is written later.                                                   *)

Accepts(k) ==
  CASE Plan[k] = "start"    -> status = "assigned"
    [] Plan[k] = "complete" -> /\ status = "in_progress"
                               /\ \A j \in Photos : writes[j] > 0
    [] OTHER                -> status = "in_progress"

Check(c) ==
  /\ call[c].at = "handle"
  /\ IF Accepts(call[c].key) THEN CallGoto(c, "write") ELSE CallGoto(c, "release")
  /\ UNCHANGED <<entry, told, queueVars, orderVars>>

(* "broken": what follows the write, an audit record or a notification,    *)
(* throws.                                                                 *)
Write(c) ==
  /\ call[c].at = "write"
  /\ writes' = [writes EXCEPT ![call[c].key] = IF @ < MaxWrites THEN @ + 1 ELSE @]
  /\ status' = CASE Plan[call[c].key] = "start"    -> "in_progress"
                 [] Plan[call[c].key] = "complete" -> "completed_pending_approval"
                 [] OTHER                          -> status
  /\ CallGoto(c, "save") \/ ("broken" \in Mishaps /\ CallGoto(c, "release"))
  /\ UNCHANGED <<entry, told, queueVars>>

-----------------------------------------------------------------------------
ContextStep(x) ==
  \/ BeginFlush(x)
  \/ MarkSyncing(x)
  \/ EndFlush(x)
  \/ Upload(x)
  \/ SendAction(x)
  \/ RecordAnswer(x)
  \/ Boot(x)

CallStep(c) ==
  \/ InterceptStep(c) /\ UNCHANGED <<queueVars, orderVars>>
  \/ Check(c)
  \/ Write(c)

Expire(k) == LockExpires(k) /\ UNCHANGED <<queueVars, orderVars>>

(* What happens while the connection holds and nothing is shut down ...    *)
Work ==
  \/ \E k \in Keys : Enqueue(k)
  \/ \E x \in Clients : ContextStep(x)
  \/ ResetStuck
  \/ \E c \in Calls : CallStep(c)
  \/ \E k \in Keys : Expire(k)
  \/ \E k \in Keys : ResultExpires(k) /\ UNCHANGED <<queueVars, orderVars>>

(* ... and what happens.                                                   *)
Next ==
  \/ Work
  \/ \E x \in Clients : SendInVain(x) \/ Close(x)
  \/ \E x \in Clients : LoseAnswer(x) /\ UNCHANGED <<queueVars, orderVars>>
  \/ \E c \in Calls : Die(c) /\ UNCHANGED <<queueVars, orderVars>>

Spec == Init /\ [][Next]_vars

(* The queue is flushed every 20 seconds (startPeriodicSync), the API      *)
(* works, orphaned locks expire, and sooner or later the connection holds, *)
(* the page stays open and the API stays up.                               *)
Fairness ==
  /\ \A x \in Clients : WF_vars(ContextStep(x))
  /\ WF_vars(ResetStuck)
  /\ \A c \in Calls : WF_vars(CallStep(c))
  /\ \A k \in Keys : WF_vars(Expire(k))
  /\ <>[][Work]_vars

FairSpec == Spec /\ Fairness

-----------------------------------------------------------------------------
(* An action takes effect at most once, however often it is sent: by a     *)
(* page that lost the answer, by one that was closed and opened again, and *)
(* by the service worker next to it (queue.ts:38-42,                       *)
(* idempotency.interceptor.ts:55-93).  It needs a handler that ends within *)
(* the lock's minute and a process that does not die between the write and *)
(* the result (Mishaps has at most "session").                             *)
DoneOnce == \A k \in Keys : writes[k] <= 1

(* A row the partner sees as synced was carried out at the API, whatever   *)
(* goes wrong (queue.ts:92): no 409, no answer to an earlier attempt and   *)
(* no expired lock is mistaken for it.                                     *)
SyncedIsDone == \A k \in Keys : row[k] = "synced" => writes[k] > 0

(* A queued action does not wait forever: it is synced in the end, unless  *)
(* it, or one before it, was refused for good (queue.ts:34-51,118-127).    *)
(* Only the start of the page comes back to a row whose context was        *)
(* stopped: a worker stopped at one must not leave it to an open page.     *)
Refused(k) == \E j \in Keys : j <= k /\ row[j] = "failed"

QueueDrains ==
  \A k \in Keys : row[k] = "pending" ~> row[k] = "synced" \/ Refused(k)

-----------------------------------------------------------------------------
(* What the queue promises *)

(* The photographs need the order to be started, and its completion needs  *)
(* the photographs.                                                        *)
NeededFor == [k \in Keys |->
  {j \in Keys : \/ (Plan[j] = "start" /\ Plan[k] # "start")
               \/ (j \in Photos /\ Plan[k] = "complete")}]

Promised == INSTANCE Delivery WITH
  Actions    <- Keys,
  Needs      <- NeededFor,
  queued     <- {k \in Keys : row[k] # "absent"},
  carriedOut <- {k \in Keys : writes[k] > 0},
  reported   <- {k \in Keys : row[k] = "synced"}

(* The queue implements Delivery: every row stays until it is synced, the  *)
(* API carries an action out only after those it depends on, although the  *)
(* two contexts may send the rows out of order, and a row says synced only *)
(* once the API did (queue.ts:34-112, orders.service.ts:323-515).          *)
ImplementsDelivery == Promised!DeliverySpec

-----------------------------------------------------------------------------
(* What a comment says, and the code does not do *)

(* "evidence is never tried before start has been synced, complete never   *)
(* before both pieces of evidence have" (queue.ts:115-117): when a row is  *)
(* taken up, everything queued before it has been carried out.             *)
NeverAhead ==
  \A x \in Clients : flush[x].key # None =>
    \A j \in Keys : j < flush[x].key => writes[j] > 0
=============================================================================
