-------------------------- MODULE FieldQueueProofs --------------------------
(***************************************************************************)
(* Proofs about FieldQueue, for any number of calls at the API.            *)
(***************************************************************************)
EXTENDS FieldQueue, TLAPS

(* A call is about a key, and so is a row that is being synced.            *)
Fits ==
  /\ \A c \in Calls : call[c].at # "idle" => call[c].key \in Keys
  /\ \A x \in Clients : flush[x].at \in {"upload", "send", "wait"} => flush[x].key \in Keys

(* At most one call answers to a client, and it is about the row that the  *)
(* client waits for: no late answer to an earlier attempt gets through.    *)
Answerable ==
  /\ \A c \in Calls, x \in Clients : call[c].client = x =>
       told[x] = "waiting" /\ flush[x].at = "wait" /\ flush[x].key = call[c].key
  /\ \A c, d \in Calls : call[c].client # None /\ call[c].client = call[d].client => c = d

(* Whatever says that an action was carried out is right.                  *)
Truthful ==
  /\ \A x \in Clients : told[x] = "ok" =>
       flush[x].at = "wait" /\ writes[flush[x].key] > 0
  /\ \A k \in Keys : entry[k] = "done" => writes[k] > 0
  /\ \A c \in Calls : call[c].at = "save" => writes[call[c].key] > 0
  /\ SyncedIsDone

QueueInv == TypeOK /\ Fits /\ Answerable /\ Truthful

(* The lock works: one handler per key, and only a key that is locked by   *)
(* the call that wrote, or done, has been written.                         *)
Locked ==
  /\ \A c \in Calls, k \in Keys : Holding(c, k) => entry[k] = "processing"
  /\ \A c, d \in Calls, k \in Keys : Holding(c, k) /\ Holding(d, k) => c = d
  /\ \A k \in Keys :
       \/ writes[k] = 0
       \/ /\ writes[k] = 1
          /\ entry[k] = "done" \/ \E c \in Calls : call[c].at = "save" /\ call[c].key = k

-----------------------------------------------------------------------------
(* A client that gives up is no longer answered.                           *)
LEMMA ForgetTyped ==
  ASSUME IdempotencyTypeOK, NEW x \in Clients, NEW a \in Told, Forget(x, a)
  PROVE  /\ IdempotencyTypeOK'
         /\ \A c \in Calls : /\ call'[c].at = call[c].at /\ call'[c].key = call[c].key
                             /\ call'[c].client = IF call[c].client = x THEN None
                                                                      ELSE call[c].client
         /\ told' = [told EXCEPT ![x] = a]
         /\ entry' = entry
BY DEF Forget, IdempotencyTypeOK, Call

(* An answer frees its call and reaches the client that waits for it.      *)
LEMMA AnswerTyped ==
  ASSUME IdempotencyTypeOK, NEW c \in Calls, NEW a \in Told, Answer(c, a)
  PROVE  /\ call' \in [Calls -> Call]
         /\ told' \in [Clients -> Told]
         /\ call' = [call EXCEPT ![c] = CallIdle]
         /\ \A x \in Clients : told'[x] = IF x = call[c].client THEN a ELSE told[x]
BY DEF Answer, IdempotencyTypeOK, Call, CallIdle, CallStages

(* An answer keeps the invariant if it is true.                            *)
LEMMA AnswerKeeps ==
  ASSUME QueueInv, NEW c \in Calls, NEW a \in Told, Answer(c, a),
         UNCHANGED <<queueVars, orderVars>>,
         a = "ok" => writes[call[c].key] > 0,
         entry' \in [Keys -> EntryStatus],
         \A k \in Keys : entry'[k] = "done" => writes[k] > 0
  PROVE  QueueInv'
<1> USE DEF QueueInv, TypeOK, queueVars, orderVars
<1>1. /\ call' \in [Calls -> Call] /\ told' \in [Clients -> Told]
      /\ call' = [call EXCEPT ![c] = CallIdle]
      /\ \A x \in Clients : told'[x] = IF x = call[c].client THEN a ELSE told[x]
  BY AnswerTyped
<1>2. /\ \A d \in Calls : d # c => call'[d] = call[d]
      /\ call'[c].at = "idle" /\ call'[c].client = None /\ None \notin Clients
  BY <1>1, ClientAssumption DEF IdempotencyTypeOK, CallIdle
<1>3. TypeOK' /\ Fits'
  BY <1>1, <1>2 DEF IdempotencyTypeOK, Fits
<1>4. ASSUME NEW d \in Calls, NEW x \in Clients, call'[d].client = x
      PROVE  told'[x] = "waiting" /\ flush[x].at = "wait" /\ flush[x].key = call'[d].key
  <2>1. d # c /\ call[d].client = x
    BY <1>2, <1>4
  <2>2. x # call[c].client
    BY <1>2, <2>1 DEF Answerable
  <2> QED BY <1>1, <1>2, <2>1, <2>2 DEF Answerable
<1>5. Answerable'
  BY <1>2, <1>4 DEF Answerable
<1>6. ASSUME NEW x \in Clients, told'[x] = "ok"
      PROVE  flush[x].at = "wait" /\ writes[flush[x].key] > 0
  BY <1>1, <1>6 DEF Answerable, Truthful
<1>7. Truthful'
  BY <1>2, <1>6 DEF Truthful, SyncedIsDone
<1> QED BY <1>3, <1>5, <1>7

(* So does a call that goes on without claiming to have written.           *)
LEMMA GotoKeeps ==
  ASSUME QueueInv, NEW c \in Calls, call[c].at # "idle",
         NEW s \in CallStages \ {"save"}, CallGoto(c, s),
         UNCHANGED <<told, queueVars, orderVars>>,
         entry' \in [Keys -> EntryStatus],
         \A k \in Keys : entry'[k] = "done" => entry[k] = "done"
  PROVE  QueueInv'
<1> USE DEF QueueInv, TypeOK, queueVars, orderVars
<1>1. /\ call' \in [Calls -> Call] /\ call'[c].at = s
      /\ \A d \in Calls : call'[d].key = call[d].key /\ call'[d].client = call[d].client
      /\ \A d \in Calls : d # c => call'[d].at = call[d].at
  BY DEF CallGoto, IdempotencyTypeOK, Call
<1>2. TypeOK' /\ Fits'
  BY <1>1 DEF IdempotencyTypeOK, Fits
<1>3. Answerable'
  BY <1>1 DEF Answerable
<1>4. Truthful'
  BY <1>1 DEF Truthful, SyncedIsDone
<1> QED BY <1>2, <1>3, <1>4

(* What the interceptor does to a call.                                    *)
LEMMA InterceptKeeps ==
  ASSUME QueueInv, NEW c \in Calls, InterceptStep(c), UNCHANGED <<queueVars, orderVars>>
  PROVE  QueueInv'
<1>1. /\ "busy" \in Told /\ "ok" \in Told /\ "error" \in Told
      /\ {"claim", "handle"} \subseteq CallStages \ {"save"}
      /\ entry \in [Keys -> EntryStatus] /\ {"free", "processing", "done"} \subseteq EntryStatus
      /\ \A k \in Keys : entry[k] = "done" => writes[k] > 0
      /\ call[c].at # "idle" => call[c].key \in Keys
      /\ call[c].at = "save" => writes[call[c].key] > 0
  BY DEF Told, CallStages, EntryStatus, QueueInv, TypeOK, IdempotencyTypeOK, Truthful, Fits
<1>2. CASE Look(c)
  <2>1. CASE entry[call[c].key] = "free" /\ CallGoto(c, "claim") /\ UNCHANGED told
    BY <1>1, <1>2, <2>1, GotoKeeps DEF Look
  <2>2. CASE entry[call[c].key] = "processing" /\ Answer(c, "busy")
    BY <1>1, <1>2, <2>2, AnswerKeeps DEF Look
  <2>3. CASE entry[call[c].key] = "done" /\ Answer(c, "ok")
    BY <1>1, <1>2, <2>3, AnswerKeeps DEF Look
  <2> QED BY <1>2, <2>1, <2>2, <2>3 DEF Look
<1>3. CASE Claim(c)
  <2>1. CASE entry[call[c].key] = "free"
    BY <1>1, <1>3, <2>1, GotoKeeps DEF Claim
  <2>2. CASE entry[call[c].key] # "free"
    BY <1>1, <1>3, <2>2, AnswerKeeps DEF Claim
  <2> QED BY <2>1, <2>2
<1>4. CASE Save(c)
  <2>1. entry' \in [Keys -> EntryStatus] /\ \A k \in Keys : entry'[k] = "done" => writes[k] > 0
    BY <1>1, <1>4 DEF Save
  <2> QED BY <1>1, <1>4, <2>1, AnswerKeeps DEF Save
<1>5. CASE Release(c)
  <2>1. entry' \in [Keys -> EntryStatus] /\ \A k \in Keys : entry'[k] = "done" => writes[k] > 0
    BY <1>1, <1>5 DEF Release
  <2> QED BY <1>1, <1>5, <2>1, AnswerKeeps DEF Release
<1> QED BY <1>2, <1>3, <1>4, <1>5 DEF InterceptStep

(* What the handler does.                                                  *)
LEMMA HandlerKeeps ==
  ASSUME QueueInv, NEW c \in Calls, Check(c) \/ Write(c)
  PROVE  QueueInv'
<1>1. CASE Check(c)
  <2>1. \E s \in {"write", "release"} : CallGoto(c, s)
    BY <1>1 DEF Check
  <2> QED
    BY <1>1, <2>1, GotoKeeps DEF Check, CallStages, QueueInv, TypeOK, IdempotencyTypeOK
<1>2. CASE Write(c)
  <2> USE DEF QueueInv, Fits, Answerable, Truthful, SyncedIsDone, TypeOK, queueVars, orderVars
  <2>1. call[c].key \in Keys /\ \A k \in Keys : writes'[k] \in Nat /\ writes'[k] >= writes[k]
    BY <1>2 DEF Write
  <2>2. writes'[call[c].key] > 0 /\ writes' \in [Keys -> Nat]
    BY <1>2, <2>1, CountAssumption DEF Write
  <2>3. status' \in {"assigned", "in_progress", "completed_pending_approval"}
    BY <1>2 DEF Write
  <2>4. \E s \in {"save", "release"} : call' = [call EXCEPT ![c].at = s]
    BY <1>2 DEF Write, CallGoto
  <2>5. UNCHANGED <<entry, told, row, stuck, flush>>
    BY <1>2 DEF Write
  <2>6. call' \in [Calls -> Call]
    BY <2>4 DEF IdempotencyTypeOK, Call, CallStages
  <2>7. \A d \in Calls : call'[d].key = call[d].key /\ call'[d].client = call[d].client
    BY <2>4 DEF IdempotencyTypeOK, Call
  <2>8. TypeOK'
    BY <2>2, <2>3, <2>5, <2>6 DEF IdempotencyTypeOK
  <2>9. Fits' /\ Answerable'
    BY <2>1, <2>4, <2>5, <2>7 DEF IdempotencyTypeOK
  <2>10. Truthful'
    BY <2>1, <2>2, <2>4, <2>5, <2>7 DEF IdempotencyTypeOK, Call, Flush
  <2> QED BY <2>8, <2>9, <2>10
<1> QED BY <1>1, <1>2

(* What each context of the app does.                                      *)
LEMMA ContextKeeps ==
  ASSUME QueueInv, NEW x \in Clients, ContextStep(x)
  PROVE  QueueInv'
<1> USE DEF QueueInv, Fits, Answerable, Truthful, SyncedIsDone, TypeOK, interceptorVars, orderVars
<1>1. CASE BeginFlush(x)
  BY <1>1 DEF BeginFlush, IdempotencyTypeOK, Flush
<1>2. CASE MarkSyncing(x)
  BY <1>2 DEF MarkSyncing, IdempotencyTypeOK, Flush, RowStatus, Photos
<1>3. CASE EndFlush(x)
  BY <1>3 DEF EndFlush, FlushEnd, FlushIdle, IdempotencyTypeOK, Flush
<1>4. CASE Upload(x)
  <2>1. /\ flush' \in [Clients -> Flush]
        /\ \/ flush'[x].at = "send" /\ flush'[x].key = flush[x].key
           \/ flush'[x].at = "idle"
        /\ \A y \in Clients \ {x} : flush'[y] = flush[y]
    BY <1>4 DEF Upload, FlushEnd, FlushIdle, Flush
  <2>2. /\ row' \in [Keys -> RowStatus]
        /\ \A k \in Keys : row'[k] = "synced" => row[k] = "synced"
    BY <1>4 DEF Upload, RowStatus
  <2>3. flush[x].at = "upload" /\ UNCHANGED <<entry, call, told, stuck, status, writes>>
    BY <1>4 DEF Upload
  <2>4. TypeOK' /\ Fits' /\ Answerable'
    BY <2>1, <2>2, <2>3 DEF IdempotencyTypeOK
  <2>5. Truthful'
    BY <2>1, <2>2, <2>3 DEF IdempotencyTypeOK
  <2> QED BY <2>4, <2>5
<1>5. CASE SendAction(x)
  BY <1>5, ClientAssumption
  DEF SendAction, Deliver, IdempotencyTypeOK, Flush, Call, CallStages, Told
<1>6. CASE RecordAnswer(x)
  <2>1. /\ row' \in [Keys -> RowStatus]
        /\ \A k \in Keys : row'[k] = "synced" =>
             row[k] = "synced" \/ (k = flush[x].key /\ told[x] = "ok")
    BY <1>6 DEF RecordAnswer, RowStatus, IdempotencyTypeOK, Told
  <2>2. flush' \in [Clients -> Flush]
    BY <1>6 DEF RecordAnswer, FlushEnd, FlushIdle, Flush
  <2>3. told' = [told EXCEPT ![x] = "nothing"] /\ told[x] # "waiting"
    BY <1>6 DEF RecordAnswer
  <2>4. \A y \in Clients \ {x} : flush'[y] = flush[y]
    BY <1>6 DEF RecordAnswer, FlushEnd
  <2>5. flush'[x].at \in {"next", "idle"}
    BY <1>6 DEF RecordAnswer, FlushEnd, FlushIdle, Flush
  <2>6. UNCHANGED <<entry, call, stuck, status, writes>>
    BY <1>6 DEF RecordAnswer
  <2>7. TypeOK'
    BY <2>1, <2>2, <2>3, <2>6 DEF IdempotencyTypeOK, Told
  <2>8. Fits' /\ Answerable'
    BY <2>3, <2>4, <2>5, <2>6 DEF IdempotencyTypeOK
  <2>9. Truthful'
    BY <2>1, <2>3, <2>4, <2>6 DEF IdempotencyTypeOK
  <2> QED BY <2>7, <2>8, <2>9
<1>7. CASE Boot(x)
  BY <1>7 DEF Boot, FlushEnd, FlushIdle, IdempotencyTypeOK, Flush
<1> QED BY <1>1, <1>2, <1>3, <1>4, <1>5, <1>6, <1>7 DEF ContextStep

(* Everything else: screens, lost messages, closed pages, crashes, expiry. *)
LEMMA TroubleKeeps ==
  ASSUME QueueInv,
         \/ \E k \in Keys : Enqueue(k) \/ Expire(k)
         \/ \E k \in Keys : ResultExpires(k) /\ UNCHANGED <<queueVars, orderVars>>
         \/ ResetStuck
         \/ \E x \in Clients : SendInVain(x) \/ Close(x)
         \/ \E x \in Clients : LoseAnswer(x) /\ UNCHANGED <<queueVars, orderVars>>
         \/ \E c \in Calls : Die(c) /\ UNCHANGED <<queueVars, orderVars>>
  PROVE  QueueInv'
<1> USE DEF QueueInv, Fits, Answerable, Truthful, SyncedIsDone, TypeOK, interceptorVars,
            queueVars, orderVars
<1>1. "lost" \in Told /\ "nothing" \in Told /\ None \notin Clients
  BY ClientAssumption DEF Told
<1>2. ASSUME NEW k \in Keys, Enqueue(k) PROVE QueueInv'
  BY <1>2 DEF Enqueue, IdempotencyTypeOK, RowStatus
<1>3. ASSUME NEW k \in Keys, Expire(k) PROVE QueueInv'
  BY <1>3 DEF Expire, LockExpires, IdempotencyTypeOK, EntryStatus
<1>4. ASSUME NEW k \in Keys, ResultExpires(k), UNCHANGED <<queueVars, orderVars>> PROVE QueueInv'
  BY <1>4 DEF ResultExpires, IdempotencyTypeOK, EntryStatus
<1>5. CASE ResetStuck
  BY <1>5 DEF ResetStuck, IdempotencyTypeOK, RowStatus
<1>6. ASSUME NEW x \in Clients, SendInVain(x) PROVE QueueInv'
  <2>1. PICK a \in {"lost", "error"} : told' = [told EXCEPT ![x] = a]
    BY <1>6 DEF SendInVain, LoseRequest
  <2>2. /\ flush' = [flush EXCEPT ![x].at = "wait"] /\ flush[x].at \in {"upload", "send"}
        /\ UNCHANGED <<entry, call, row, stuck, status, writes>>
    BY <1>6 DEF SendInVain, LoseRequest
  <2>3. flush' \in [Clients -> Flush] /\ told' \in [Clients -> Told]
    BY <2>1, <2>2 DEF IdempotencyTypeOK, Flush, Told
  <2>4. TypeOK' /\ Fits'
    BY <2>2, <2>3 DEF IdempotencyTypeOK, Flush
  <2>5. Answerable' /\ Truthful'
    BY <2>1, <2>2 DEF IdempotencyTypeOK, Flush
  <2> QED BY <2>4, <2>5
<1>7. ASSUME NEW x \in Clients, Close(x) PROVE QueueInv'
  <2>1. Forget(x, "nothing")
    BY <1>7 DEF Close
  <2>2. flush' \in [Clients -> Flush] /\ stuck' \subseteq Keys
    BY <1>7 DEF Close, Flush, FlushIdle
  <2>3. /\ \A y \in Clients \ {x} : flush'[y] = flush[y]
        /\ flush'[x].at \in {"closed", "idle"}
    BY <1>7 DEF Close, FlushIdle
  <2>4. UNCHANGED <<row, status, writes>>
    BY <1>7 DEF Close
  <2>5. TypeOK'
    BY <1>1, <2>1, <2>2, <2>4, ForgetTyped
  <2>6. /\ \A c \in Calls : call'[c].client # x
        /\ told'[x] = "nothing" /\ \A y \in Clients \ {x} : told'[y] = told[y]
    BY <1>1, <2>1, ForgetTyped DEF IdempotencyTypeOK
  <2>7. Fits' /\ Answerable'
    BY <1>1, <2>1, <2>3, <2>6, ForgetTyped
  <2>8. Truthful'
    BY <1>1, <2>1, <2>3, <2>4, <2>6, ForgetTyped
  <2> QED BY <2>5, <2>7, <2>8
<1>8. ASSUME NEW x \in Clients, LoseAnswer(x), UNCHANGED <<queueVars, orderVars>> PROVE QueueInv'
  BY <1>1, <1>8, ForgetTyped DEF LoseAnswer, IdempotencyTypeOK, Call
<1>9. ASSUME NEW c \in Calls, Die(c), UNCHANGED <<queueVars, orderVars>> PROVE QueueInv'
  BY <1>1, <1>9, AnswerKeeps DEF Die, IdempotencyTypeOK
<1> QED BY <1>2, <1>3, <1>4, <1>5, <1>6, <1>7, <1>8, <1>9

-----------------------------------------------------------------------------
(* The invariant holds at first and is kept by every step.                 *)
LEMMA QueueInductive == Spec => []QueueInv
<1>1. Init => QueueInv
  BY ClientAssumption
  DEF Init, IdempotencyInit, QueueInv, TypeOK, IdempotencyTypeOK, Fits, Answerable, Truthful,
      SyncedIsDone, Call, CallIdle, CallStages, Flush, FlushIdle, EntryStatus, RowStatus, Told
<1>2. QueueInv /\ [Next]_vars => QueueInv'
  <2> SUFFICES ASSUME QueueInv, [Next]_vars PROVE QueueInv'
    OBVIOUS
  <2>1. CASE UNCHANGED vars
    BY <2>1
    DEF vars, interceptorVars, queueVars, orderVars, QueueInv, TypeOK, IdempotencyTypeOK, Fits,
        Answerable, Truthful, SyncedIsDone
  <2>2. CASE \E x \in Clients : ContextStep(x)
    BY <2>2, ContextKeeps
  <2>3. CASE \E c \in Calls : CallStep(c)
    BY <2>3, InterceptKeeps, HandlerKeeps DEF CallStep
  <2>4. CASE Next /\ ~(\E x \in Clients : ContextStep(x)) /\ ~(\E c \in Calls : CallStep(c))
    BY <2>4, TroubleKeeps DEF Next, Work
  <2> QED BY <2>1, <2>2, <2>3, <2>4
<1> QED BY <1>1, <1>2, PTL DEF Spec

(* Rows, flushes, locks and requests keep their types, although every row  *)
(* is written by two contexts and every answer finds its client by name    *)
(* (queue.ts:43-62, idempotency.interceptor.ts:55-93).                     *)
THEOREM QueueTyped == Spec => []TypeOK
<1>1. QueueInv => TypeOK
  BY DEF QueueInv
<1> QED BY <1>1, QueueInductive, PTL

(* A row the partner sees as synced was carried out at the API, whichever  *)
(* mishaps occur and however many requests are on their way                *)
(* (queue.ts:60-112, idempotency.interceptor.ts:55-93).                    *)
THEOREM SyncedIsTrue == Spec => []SyncedIsDone
<1>1. QueueInv => SyncedIsDone
  BY DEF QueueInv, Truthful
<1> QED BY <1>1, QueueInductive, PTL

-----------------------------------------------------------------------------
(* Whatever takes no call through the interceptor or the handler keeps the *)
(* lock: a call may only lose its client, end before it wrote, or be new.  *)
LEMMA LockUntouched ==
  ASSUME QueueInv, Locked, UNCHANGED <<entry, writes>>,
         \A c \in Calls :
           \/ call'[c].at = call[c].at /\ call'[c].key = call[c].key
           \/ call'[c].at \in {"idle", "look"} /\ call[c].at # "save"
  PROVE  Locked'
BY DEF Locked, Holding

(* Nothing undermines the lock: no handler outlives it, none fails after   *)
(* it wrote, no process dies between the write and the result, and no      *)
(* result is forgotten.  The session may expire.                           *)
LockHolds == Mishaps \subseteq {"session"}

LEMMA Harmless ==
  ASSUME LockHolds
  PROVE  /\ "slow" \notin Mishaps /\ "unsaved" \notin Mishaps
         /\ "broken" \notin Mishaps /\ "expire" \notin Mishaps
BY DEF LockHolds

(* Then every step keeps the lock.                                         *)
LEMMA LockKept ==
  ASSUME LockHolds, QueueInv, Locked, [Next]_vars
  PROVE  Locked'
<1> USE Harmless DEF QueueInv, TypeOK, interceptorVars, queueVars, orderVars
<1>1. CASE UNCHANGED vars
  BY <1>1 DEF vars, Locked, Holding
<1>2. ASSUME NEW c \in Calls, Look(c), UNCHANGED <<queueVars, orderVars>> PROVE Locked'
  <2>1. \A d \in Calls : d # c => call'[d] = call[d]
    BY <1>2 DEF Look, CallGoto, Answer, IdempotencyTypeOK
  <2>2. call[c].at = "look" /\ call'[c].at \in {"claim", "idle"}
    BY <1>2 DEF Look, CallGoto, Answer, CallIdle, IdempotencyTypeOK, Call
  <2>3. UNCHANGED <<entry, writes>>
    BY <1>2 DEF Look
  <2> QED BY <2>1, <2>2, <2>3 DEF Locked, Holding
<1>3. ASSUME NEW c \in Calls, Claim(c), UNCHANGED <<queueVars, orderVars>> PROVE Locked'
  <2>1. CASE entry[call[c].key] = "free"
    <3>1. call[c].key \in Keys /\ \A d \in Calls : ~Holding(d, call[c].key)
      BY <1>3, <2>1 DEF Claim, Fits, Locked
    <3>2. writes[call[c].key] = 0
      BY <2>1, <3>1 DEF Locked, Holding
    <3>3. /\ call' = [call EXCEPT ![c].at = "handle"] /\ call[c].at = "claim"
          /\ entry' = [entry EXCEPT ![call[c].key] = "processing"] /\ writes' = writes
      BY <1>3, <2>1 DEF Claim, CallGoto
    <3>4. /\ \A d \in Calls : d # c => call'[d] = call[d]
          /\ call'[c].at = "handle" /\ call'[c].key = call[c].key
      BY <3>3 DEF IdempotencyTypeOK, Call
    <3>5. \A k \in Keys : entry'[k] = IF k = call[c].key THEN "processing" ELSE entry[k]
      BY <3>3 DEF IdempotencyTypeOK
    <3>6. \A d \in Calls, k \in Keys : Holding(d, k)' <=>
            IF d = c THEN k = call[c].key ELSE Holding(d, k)
      BY <3>4 DEF Holding
    <3> QED BY <3>1, <3>2, <3>3, <3>4, <3>5, <3>6 DEF Locked
  <2>2. CASE entry[call[c].key] # "free"
    BY <1>3, <2>2, LockUntouched DEF Claim, Answer, CallIdle, IdempotencyTypeOK, Call
  <2> QED BY <2>1, <2>2
<1>4. ASSUME NEW c \in Calls, Save(c) \/ Release(c), UNCHANGED <<queueVars, orderVars>> PROVE Locked'
  <2>1. call[c].key \in Keys /\ Holding(c, call[c].key)
    BY <1>4 DEF Save, Release, Fits, Holding
  <2>2. \A d \in Calls : d # c => ~Holding(d, call[c].key)
    BY <2>1 DEF Locked
  <2>3. \A d \in Calls : d # c => call'[d] = call[d]
    BY <1>4 DEF Save, Release, Answer, IdempotencyTypeOK
  <2>4. call'[c].at = "idle"
    BY <1>4 DEF Save, Release, Answer, CallIdle, IdempotencyTypeOK
  <2>5. \A k \in Keys : k # call[c].key => entry'[k] = entry[k]
    BY <1>4 DEF Save, Release, IdempotencyTypeOK
  <2>6. CASE Save(c)
    BY <2>1, <2>2, <2>3, <2>4, <2>5, <2>6, <1>4 DEF Save, Locked, Holding, IdempotencyTypeOK
  <2>7. CASE Release(c)
    <3>1. entry[call[c].key] # "done" /\ \A d \in Calls : ~(call[d].at = "save" /\ call[d].key = call[c].key)
      BY <2>1, <2>2, <2>7 DEF Locked, Holding, Release
    <3>2. writes[call[c].key] = 0
      BY <2>1, <3>1 DEF Locked
    <3> QED
      BY <2>1, <2>2, <2>3, <2>4, <2>5, <2>7, <3>2, <1>4 DEF Release, Locked, Holding, IdempotencyTypeOK
  <2> QED BY <1>4, <2>6, <2>7
<1>5. ASSUME NEW c \in Calls, Check(c) PROVE Locked'
  BY SMTT(30), <1>5 DEF Check, CallGoto, IdempotencyTypeOK, Call, Locked, Holding
<1>6. ASSUME NEW c \in Calls, Write(c) PROVE Locked'
  <2>1. call[c].key \in Keys /\ Holding(c, call[c].key)
    BY <1>6 DEF Write, Fits, Holding
  <2>2. entry[call[c].key] # "done" /\ \A d \in Calls : ~(call[d].at = "save" /\ call[d].key = call[c].key)
    BY <2>1, <1>6 DEF Locked, Holding, Write
  <2>3. writes[call[c].key] = 0
    BY <2>1, <2>2 DEF Locked
  <2>4. writes' = [writes EXCEPT ![call[c].key] = 1]
    <3>1. writes[call[c].key] < MaxWrites /\ writes[call[c].key] + 1 = 1
      BY <2>3, CountAssumption
    <3> QED BY <1>6, <3>1 DEF Write
  <2>5. call' = [call EXCEPT ![c].at = "save"]
    BY <1>6 DEF Write, CallGoto
  <2> QED BY <2>1, <2>4, <2>5, <1>6 DEF Write, IdempotencyTypeOK, Call, Locked, Holding
<1>7. ASSUME NEW x \in Clients, ContextStep(x) PROVE Locked'
  <2>1. CASE SendAction(x)
    BY <2>1, LockUntouched DEF SendAction, Deliver, IdempotencyTypeOK, Call
  <2>2. CASE ~SendAction(x)
    BY <1>7, <2>2, LockUntouched
    DEF ContextStep, BeginFlush, MarkSyncing, EndFlush, Upload, RecordAnswer, Boot
  <2> QED BY <2>1, <2>2
<1>8. ASSUME NEW k \in Keys, Enqueue(k) PROVE Locked'
  BY <1>8, LockUntouched DEF Enqueue
<1>9. ASSUME NEW k \in Keys, Expire(k) PROVE Locked'
  <2>1. \A c \in Calls : ~Holding(c, k)
    BY <1>9 DEF Expire, LockExpires
  <2>2. writes[k] = 0
    BY <2>1, <1>9 DEF Expire, LockExpires, Locked, Holding
  <2> QED BY <2>1, <2>2, <1>9 DEF Expire, LockExpires, IdempotencyTypeOK, Locked, Holding
<1>10. CASE ResetStuck
  BY <1>10, LockUntouched DEF ResetStuck
<1>11. ASSUME NEW x \in Clients, SendInVain(x) PROVE Locked'
  BY <1>11, LockUntouched DEF SendInVain, LoseRequest
<1>12. ASSUME NEW x \in Clients, \E a \in Told : Forget(x, a), UNCHANGED writes PROVE Locked'
  BY <1>12, ForgetTyped, LockUntouched
<1>13. ASSUME NEW c \in Calls, Die(c), UNCHANGED <<queueVars, orderVars>> PROVE Locked'
  BY <1>13, LockUntouched DEF Die, Answer, CallIdle, IdempotencyTypeOK, Call
<1>14. ASSUME NEW x \in Clients, Close(x) PROVE Locked'
  BY <1>12, <1>14 DEF Close, Told
<1>15. ASSUME NEW x \in Clients, LoseAnswer(x), UNCHANGED <<queueVars, orderVars>> PROVE Locked'
  BY <1>12, <1>15 DEF LoseAnswer, Told
<1>16. ~(\E k \in Keys : ResultExpires(k))
  BY DEF ResultExpires
<1>17. CASE Work
  BY <1>2, <1>3, <1>4, <1>5, <1>6, <1>7, <1>8, <1>9, <1>10, <1>16, <1>17
  DEF Work, CallStep, InterceptStep
<1> QED BY <1>1, <1>11, <1>13, <1>14, <1>15, <1>17 DEF Next

(* An action takes effect at most once, for any number of calls and even   *)
(* if sessions expire, as long as nothing undermines the lock              *)
(* (idempotency.interceptor.ts:55-93).                                     *)
THEOREM AtMostOnce == LockHolds => (Spec => []DoneOnce)
<1> SUFFICES ASSUME LockHolds PROVE Spec => []DoneOnce
  OBVIOUS
<1>1. Init => Locked
  BY DEF Init, IdempotencyInit, Locked, Holding, CallIdle
<1>2. QueueInv /\ Locked /\ [Next]_vars => Locked'
  BY LockKept
<1>3. QueueInv /\ Locked => DoneOnce
  <2> SUFFICES ASSUME QueueInv, Locked, NEW k \in Keys PROVE writes[k] <= 1
    BY DEF DoneOnce
  <2>1. writes[k] = 0 \/ writes[k] = 1
    BY DEF Locked
  <2> QED BY <2>1
<1> QED BY <1>1, <1>2, <1>3, QueueInductive, PTL DEF Spec

-----------------------------------------------------------------------------
(* The refinement of Delivery *)

Written == {k \in Keys : writes[k] > 0}

(* Whatever is on its way is about a queued row, an order that was started *)
(* was started by its action, and what a call is about to carry out has    *)
(* everything it needs: the guard that was read before is still true.      *)
Queued ==
  /\ \A c \in Calls : call[c].at # "idle" => row[call[c].key] # "absent"
  /\ \A x \in Clients : flush[x].at \in {"upload", "send", "wait"} => row[flush[x].key] # "absent"
  /\ \A x \in Clients : \A k \in flush[x].todo : row[k] # "absent"
  /\ \A k \in stuck : row[k] # "absent"

Prepared ==
  /\ status # "assigned" => \A k \in Keys : Plan[k] = "start" => writes[k] > 0
  /\ \A c \in Calls : call[c].at = "write" => NeededFor[call[c].key] \subseteq Written

(* An action that the guard lets through has what it needs.                *)
LEMMA AcceptsNeeded ==
  ASSUME Prepared, NEW k \in Keys, Accepts(k)
  PROVE  NeededFor[k] \subseteq Written
<1>1. CASE Plan[k] = "start"
  BY <1>1 DEF NeededFor
<1>2. CASE Plan[k] = "complete"
  BY <1>2 DEF NeededFor, Written, Accepts, Prepared
<1>3. CASE Plan[k] # "start" /\ Plan[k] # "complete"
  BY <1>3 DEF NeededFor, Written, Accepts, Prepared
<1> QED BY <1>1, <1>2, <1>3

(* Only one action starts the order.                                       *)
LEMMA OneStart ==
  ASSUME NEW j \in Keys, NEW k \in Keys, Plan[j] = "start", Plan[k] = "start"
  PROVE  j = k
<1>1. j \in 1 .. 4 /\ k \in 1 .. 4
  BY PlanAssumption DEF Plan
<1> QED BY <1>1 DEF Plan

(* A row that exists stays.                                                *)
LEMMA RowsStay ==
  ASSUME QueueInv, Queued, [Next]_vars
  PROVE  \A k \in Keys : row[k] # "absent" => row'[k] # "absent"
<1> USE DEF QueueInv, TypeOK
<1>1. CASE UNCHANGED row
  BY <1>1
<1>2. ASSUME NEW k \in Keys, Enqueue(k) PROVE \A j \in Keys : row[j] # "absent" => row'[j] # "absent"
  BY <1>2 DEF Enqueue
<1>3. CASE ResetStuck
  BY <1>3 DEF ResetStuck
<1>4. ASSUME NEW x \in Clients, MarkSyncing(x) \/ Upload(x)
      PROVE \A j \in Keys : row[j] # "absent" => row'[j] # "absent"
  BY <1>4 DEF MarkSyncing, Upload
<1>5. ASSUME NEW x \in Clients, RecordAnswer(x)
      PROVE \A j \in Keys : row[j] # "absent" => row'[j] # "absent"
  <2>1. told[x] \in {"ok", "error", "busy", "lost"}
    BY <1>5 DEF RecordAnswer, IdempotencyTypeOK, Told
  <2> QED BY <1>5, <2>1 DEF RecordAnswer
<1>6. \/ UNCHANGED row
      \/ \E k \in Keys : Enqueue(k)
      \/ ResetStuck
      \/ \E x \in Clients : MarkSyncing(x) \/ Upload(x) \/ RecordAnswer(x)
  BY DEF Next, Work, ContextStep, CallStep, Check, Write, Expire, BeginFlush, EndFlush, SendAction,
         Boot, SendInVain, Close, vars, queueVars, orderVars
<1> QED BY <1>1, <1>2, <1>3, <1>4, <1>5, <1>6

(* A step of the page, the worker or the screens is about queued rows.     *)
LEMMA QueuedKept ==
  ASSUME QueueInv, Queued, [Next]_vars
  PROVE  Queued'
<1> USE DEF QueueInv, TypeOK, Fits
<1>1. \A k \in Keys : row[k] # "absent" => row'[k] # "absent"
  BY RowsStay
<1>2. (\A c \in Calls : call[c].at # "idle" => row[call[c].key] # "absent")'
  <2>1. \A c \in Calls :
          \/ call'[c].at = "idle"
          \/ call[c].at # "idle" /\ call'[c].key = call[c].key
          \/ \E x \in Clients : flush[x].at = "send" /\ call'[c].key = flush[x].key
    <3>1. CASE \E x \in Clients : SendAction(x)
      BY <3>1 DEF SendAction, Deliver, IdempotencyTypeOK, Call
    <3>2. CASE \E d \in Calls : CallStep(d) \/ Die(d)
      BY <3>2 DEF CallStep, InterceptStep, Look, Claim, Save, Release, Check, Write, Die, Answer,
                  CallGoto, CallIdle, IdempotencyTypeOK, Call
    <3>3. CASE \E x \in Clients, a \in Told : Forget(x, a)
      BY <3>3, ForgetTyped
    <3>4. CASE UNCHANGED call
      BY <3>4
    <3>5. \/ \E x \in Clients : SendAction(x)
          \/ \E d \in Calls : CallStep(d) \/ Die(d)
          \/ \E x \in Clients, a \in Told : Forget(x, a)
          \/ UNCHANGED call
      BY DEF Next, Work, ContextStep, Expire, LockExpires, ResultExpires, BeginFlush, MarkSyncing,
             EndFlush, Upload, RecordAnswer, Boot, Enqueue, ResetStuck, SendInVain, LoseRequest,
             Close, LoseAnswer, Told, vars, interceptorVars
    <3> QED BY <3>1, <3>2, <3>3, <3>4, <3>5
  <2> QED BY <1>1, <2>1 DEF Queued
<1>3. /\ (\A x \in Clients : flush[x].at \in {"upload", "send", "wait"} => row[flush[x].key] # "absent")'
      /\ (\A x \in Clients : \A k \in flush[x].todo : row[k] # "absent")'
  <2>1. CASE UNCHANGED flush
    BY <1>1, <2>1 DEF Queued, Flush
  <2>2. ASSUME NEW x \in Clients, MarkSyncing(x)
        PROVE  /\ flush'[x].key \in Keys /\ row'[flush'[x].key] # "absent"
               /\ flush'[x].todo \subseteq flush[x].todo
               /\ \A y \in Clients \ {x} : flush'[y] = flush[y]
    BY <2>2 DEF MarkSyncing, Flush
  <2>3. ASSUME NEW x \in Clients,
               \/ BeginFlush(x) \/ EndFlush(x) \/ Upload(x) \/ SendAction(x) \/ RecordAnswer(x)
               \/ Boot(x) \/ SendInVain(x) \/ Close(x)
        PROVE  /\ flush'[x].at \in {"upload", "send", "wait"} =>
                    flush[x].at \in {"upload", "send", "wait"} /\ flush'[x].key = flush[x].key
               /\ \A k \in flush'[x].todo : k \in flush[x].todo \/ (k \in Keys /\ row[k] = "pending")
               /\ \A y \in Clients \ {x} : flush'[y] = flush[y]
    BY <2>3 DEF BeginFlush, EndFlush, Upload, SendAction, RecordAnswer, Boot, SendInVain, Close,
                FlushEnd, FlushIdle, Flush
  <2>4. \/ UNCHANGED flush
        \/ \E x \in Clients : MarkSyncing(x)
        \/ \E x \in Clients :
             \/ BeginFlush(x) \/ EndFlush(x) \/ Upload(x) \/ SendAction(x) \/ RecordAnswer(x)
             \/ Boot(x) \/ SendInVain(x) \/ Close(x)
    BY DEF Next, Work, ContextStep, CallStep, Check, Write, Expire, Enqueue, ResetStuck,
           vars, queueVars
  <2>5. CASE \E x \in Clients : MarkSyncing(x)
    BY <1>1, <2>2, <2>5 DEF Queued, Flush
  <2>6. ASSUME NEW x \in Clients,
               \/ BeginFlush(x) \/ EndFlush(x) \/ Upload(x) \/ SendAction(x) \/ RecordAnswer(x)
               \/ Boot(x) \/ SendInVain(x) \/ Close(x)
        PROVE  /\ (\A y \in Clients : flush[y].at \in {"upload", "send", "wait"} => row[flush[y].key] # "absent")'
               /\ (\A y \in Clients : \A k \in flush[y].todo : row[k] # "absent")'
    BY <1>1, <2>3, <2>6 DEF Queued, Flush
  <2> QED BY <2>1, <2>4, <2>5, <2>6
<1>4. (\A k \in stuck : row[k] # "absent")'
  <2>1. \A k \in stuck' : k \in Keys /\ (k \in stuck \/ row[k] = "syncing")
    BY DEF Next, Work, ContextStep, CallStep, Check, Write, Expire, BeginFlush, MarkSyncing, EndFlush,
           Upload, SendAction, RecordAnswer, Boot, Enqueue, ResetStuck, SendInVain, Close,
           vars, queueVars
  <2> QED BY <1>1, <2>1 DEF Queued
<1> QED BY <1>2, <1>3, <1>4 DEF Queued

(* What was carried out stays so.                                          *)
LEMMA WritesStay ==
  ASSUME QueueInv, [Next]_vars
  PROVE  Written \subseteq Written'
<1>1. CASE UNCHANGED writes
  BY <1>1 DEF Written
<1>2. ASSUME NEW c \in Calls, Write(c) PROVE Written \subseteq Written'
  BY <1>2 DEF Written, Write, QueueInv, TypeOK
<1>3. UNCHANGED writes \/ \E c \in Calls : Write(c)
  BY DEF Next, Work, ContextStep, CallStep, Check, Expire, BeginFlush, MarkSyncing, EndFlush,
         Upload, SendAction, RecordAnswer, Boot, Enqueue, ResetStuck, SendInVain, Close,
         vars, orderVars
<1> QED BY <1>1, <1>2, <1>3

(* The guard that was read stays true until the write.                     *)
LEMMA PreparedKept ==
  ASSUME QueueInv, Prepared, [Next]_vars
  PROVE  Prepared'
<1> USE DEF QueueInv, TypeOK, Fits
<1>1. Written \subseteq Written'
  BY WritesStay
<1>2. (status # "assigned" => \A k \in Keys : Plan[k] = "start" => writes[k] > 0)'
  <2>1. CASE UNCHANGED status
    BY <1>1, <2>1 DEF Prepared, Written
  <2>2. ASSUME NEW c \in Calls, Write(c), status' # status
        PROVE  \A k \in Keys : Plan[k] = "start" => writes'[k] > 0
    <3>1. call[c].key \in Keys /\ call[c].at = "write"
      BY <2>2 DEF Write
    <3>2. CASE Plan[call[c].key] = "start"
      <4>1. writes'[call[c].key] > 0
        BY <2>2, <3>1, CountAssumption DEF Write
      <4> QED BY <3>1, <3>2, <4>1, OneStart
    <3>3. CASE Plan[call[c].key] = "complete"
      BY <1>1, <3>1, <3>3 DEF Prepared, NeededFor, Written
    <3> QED BY <2>2, <3>2, <3>3 DEF Write
  <2>3. UNCHANGED status \/ \E c \in Calls : Write(c)
    BY DEF Next, Work, ContextStep, CallStep, Check, Expire, BeginFlush, MarkSyncing, EndFlush,
           Upload, SendAction, RecordAnswer, Boot, Enqueue, ResetStuck, SendInVain, Close,
           vars, orderVars
  <2> QED BY <2>1, <2>2, <2>3
<1>3. (\A c \in Calls : call[c].at = "write" => NeededFor[call[c].key] \subseteq Written)'
  <2>1. ASSUME NEW c \in Calls, call'[c].at = "write"
        PROVE  /\ call'[c].key = call[c].key
               /\ call[c].at = "write" \/ (call[c].at = "handle" /\ Accepts(call[c].key))
    <3>1. CASE \E x \in Clients : SendAction(x)
      BY <2>1, <3>1 DEF SendAction, Deliver, IdempotencyTypeOK, Call
    <3>2. CASE \E d \in Calls : Check(d)
      BY <2>1, <3>2 DEF Check, CallGoto, IdempotencyTypeOK, Call
    <3>3. CASE \E d \in Calls : InterceptStep(d) \/ Write(d) \/ Die(d)
      BY <2>1, <3>3 DEF InterceptStep, Look, Claim, Save, Release, Write, Die, Answer,
                  CallGoto, CallIdle, IdempotencyTypeOK, Call
    <3>4. CASE \E x \in Clients, a \in Told : Forget(x, a)
      BY <2>1, <3>4, ForgetTyped
    <3>5. CASE UNCHANGED call
      BY <2>1, <3>5
    <3>6. \/ \E x \in Clients : SendAction(x)
          \/ \E d \in Calls : Check(d)
          \/ \E d \in Calls : InterceptStep(d) \/ Write(d) \/ Die(d)
          \/ \E x \in Clients, a \in Told : Forget(x, a)
          \/ UNCHANGED call
      BY DEF Next, Work, ContextStep, CallStep, Expire, LockExpires, ResultExpires, BeginFlush,
             MarkSyncing, EndFlush, Upload, RecordAnswer, Boot, Enqueue, ResetStuck, SendInVain,
             LoseRequest, Close, LoseAnswer, Told, vars, interceptorVars
    <3> QED BY <2>1, <3>1, <3>2, <3>3, <3>4, <3>5, <3>6
  <2>2. ASSUME NEW c \in Calls, call'[c].at = "write"
        PROVE  NeededFor[call'[c].key] \subseteq Written'
    <3>1. CASE call[c].at = "write"
      BY <1>1, <2>1, <2>2, <3>1 DEF Prepared
    <3>2. CASE call[c].at = "handle" /\ Accepts(call[c].key)
      BY <1>1, <2>1, <2>2, <3>2, AcceptsNeeded
    <3> QED BY <2>1, <2>2, <3>1, <3>2
  <2> QED BY <2>2
<1> QED BY <1>2, <1>3 DEF Prepared

(* A step that carries nothing out and reports nothing new is a retry.     *)
LEMMA Retried ==
  ASSUME UNCHANGED writes,
         \A k \in Keys : row'[k] = "absent" <=> row[k] = "absent",
         \A k \in Keys : row'[k] = "synced" => row[k] = "synced"
  PROVE  Promised!TryAgain
BY DEF Promised!TryAgain

(* Each step of the queue is a step of Delivery.                           *)
LEMMA PromiseStep ==
  ASSUME QueueInv, Queued, Prepared, [Next]_vars
  PROVE  [Promised!DeliveryNext]_Promised!deliveryVars
<1> USE DEF QueueInv, TypeOK, Fits
<1> SUFFICES \/ \E k \in Keys : Promised!Queue(k) \/ Promised!CarryOut(k) \/ Promised!Report(k)
             \/ Promised!TryAgain
  BY DEF Promised!DeliveryNext
<1>1. CASE UNCHANGED <<row, writes>>
  BY <1>1, Retried
<1>2. ASSUME NEW k \in Keys, Enqueue(k) PROVE Promised!Queue(k)
  BY <1>2 DEF Enqueue, Promised!Queue, orderVars
<1>3. CASE ResetStuck
  BY <1>3, Retried DEF ResetStuck, Queued, orderVars
<1>4. ASSUME NEW x \in Clients, MarkSyncing(x) \/ Upload(x) PROVE Promised!TryAgain
  <2>1. CASE MarkSyncing(x)
    BY <2>1, Retried DEF MarkSyncing, Queued, Flush, orderVars
  <2>2. CASE Upload(x)
    BY <2>2, Retried DEF Upload, Queued, orderVars
  <2> QED BY <1>4, <2>1, <2>2
<1>5. ASSUME NEW x \in Clients, RecordAnswer(x)
      PROVE  (\E k \in Keys : Promised!Report(k)) \/ Promised!TryAgain
  <2>1. /\ flush[x].key \in Keys /\ row[flush[x].key] # "absent"
        /\ told[x] \in {"ok", "error", "busy", "lost"} /\ UNCHANGED writes
    BY <1>5 DEF RecordAnswer, IdempotencyTypeOK, Told, Queued, orderVars
  <2>2. CASE told[x] = "ok"
    <3>1. row' = [row EXCEPT ![flush[x].key] = "synced"] /\ writes[flush[x].key] > 0
      BY <1>5, <2>2 DEF RecordAnswer, Truthful
    <3>2. PICK k \in Keys : k = flush[x].key
      BY <2>1
    <3>3. Promised!Report(k)
      BY <2>1, <3>1, <3>2 DEF Promised!Report
    <3> QED BY <3>3
  <2>3. CASE told[x] # "ok"
    <3>1. \E s \in {"failed", "pending"} : row' = [row EXCEPT ![flush[x].key] = s]
      BY <1>5, <2>1, <2>3 DEF RecordAnswer
    <3> QED BY <2>1, <3>1, Retried
  <2> QED BY <2>2, <2>3
<1>6. ASSUME NEW c \in Calls, Write(c) PROVE \E k \in Keys : Promised!CarryOut(k)
  <2>1. call[c].at = "write" /\ call[c].key \in Keys /\ row[call[c].key] # "absent"
    BY <1>6 DEF Write, Queued
  <2>2. NeededFor[call[c].key] \subseteq Written
    BY <2>1 DEF Prepared
  <2>3. /\ UNCHANGED row
        /\ \A k \in Keys : writes'[k] > 0 <=> k = call[c].key \/ writes[k] > 0
    BY <1>6, <2>1, CountAssumption DEF Write, queueVars
  <2>4. PICK k \in Keys : k = call[c].key
    BY <2>1
  <2>5. Promised!CarryOut(k)
    BY <2>1, <2>2, <2>3, <2>4 DEF Promised!CarryOut, Written
  <2> QED BY <2>5
<1>7. \/ UNCHANGED <<row, writes>>
      \/ \E k \in Keys : Enqueue(k)
      \/ ResetStuck
      \/ \E x \in Clients : MarkSyncing(x) \/ Upload(x) \/ RecordAnswer(x)
      \/ \E c \in Calls : Write(c)
  BY DEF Next, Work, ContextStep, CallStep, Check, Expire, BeginFlush, EndFlush, SendAction,
         Boot, SendInVain, Close, vars, queueVars, orderVars
<1> QED BY <1>1, <1>2, <1>3, <1>4, <1>5, <1>6, <1>7

(* The queue implements Delivery, whichever mishaps occur: no row is       *)
(* lost, the API carries an action out only after those it depends on      *)
(* although page and service worker overtake each other, and only what it  *)
(* carried out is reported (queue.ts:34-112, orders.service.ts:323-515).   *)
THEOREM QueueDelivers == Spec => ImplementsDelivery
<1>1. Init => Promised!DeliveryInit
  BY DEF Init, Promised!DeliveryInit
<1>2. Init => Queued /\ Prepared
  BY DEF Init, IdempotencyInit, Queued, Prepared, CallIdle, FlushIdle
<1>3. QueueInv /\ Queued /\ Prepared /\ [Next]_vars => Queued' /\ Prepared'
  BY QueuedKept, PreparedKept
<1>4. QueueInv /\ Queued /\ Prepared /\ [Next]_vars
        => [Promised!DeliveryNext]_Promised!deliveryVars
  BY PromiseStep
<1>5. Spec => [](Queued /\ Prepared)
  BY <1>2, <1>3, QueueInductive, PTL DEF Spec
<1> QED
  BY <1>1, <1>4, <1>5, QueueInductive, PTL DEF Spec, ImplementsDelivery, Promised!DeliverySpec
=============================================================================
