---------------------------- MODULE Idempotency ----------------------------
(***************************************************************************)
(* IdempotencyInterceptor (apps/api/src/common/idempotency) between a      *)
(* client that retries and a handler: one Redis value per Idempotency-Key  *)
(* says whether a request with that key is being handled or was handled.   *)
(* The handler's own steps belong to the module that extends this one: it  *)
(* takes a call from "handle" to "save", or to "release" if it throws.     *)
(***************************************************************************)
EXTENDS Naturals

CONSTANTS
  Keys,      \* Idempotency-Key values, of one user and route
  Clients,   \* who sends requests; one request at a time each
  Calls,     \* slots for requests the API is handling
  None,
  Mishaps    \* what may go wrong beyond lost messages and crashes that
             \* strike before anything was written

ASSUME ClientAssumption == None \notin Keys /\ None \notin Clients
ASSUME MishapAssumption ==
  Mishaps \subseteq {"slow", "unsaved", "expire", "broken", "session"}

VARIABLES
  entry,     \* [Keys -> EntryStatus], the values in Redis
  call,      \* [Calls -> Call], requests at the API
  told       \* [Clients -> Told], what a client knows of its request

interceptorVars == <<entry, call, told>>

EntryStatus == {"free", "processing", "done"}

CallStages == {"idle", "look", "claim", "handle", "write", "save", "release"}

Call == [at : CallStages, key : Keys \cup {None}, client : Clients \cup {None}]

CallIdle == [at |-> "idle", key |-> None, client |-> None]

(* "busy" is 409, "error" any other error status, "lost" no answer at all. *)
Told == {"nothing", "waiting", "ok", "busy", "error", "lost"}

IdempotencyTypeOK ==
  /\ entry \in [Keys -> EntryStatus]
  /\ call \in [Calls -> Call]
  /\ told \in [Clients -> Told]

IdempotencyInit ==
  /\ entry = [k \in Keys |-> "free"]
  /\ call = [c \in Calls |-> CallIdle]
  /\ told = [x \in Clients |-> "nothing"]

CallGoto(c, stage) == call' = [call EXCEPT ![c].at = stage]

(* The API answers; nobody listens if the client has gone.                 *)
Answer(c, answer) ==
  /\ call' = [call EXCEPT ![c] = CallIdle]
  /\ told' = [x \in Clients |-> IF x = call[c].client THEN answer ELSE told[x]]

(* The handler of key k is running, or has run and is not answered yet.    *)
Holding(c, k) ==
  call[c].key = k /\ call[c].at \in {"handle", "write", "save", "release"}

-----------------------------------------------------------------------------
(* The network *)

Deliver(x, k) ==
  /\ \E c \in Calls :
       /\ call[c].at = "idle"
       /\ call' = [call EXCEPT ![c] = [at |-> "look", key |-> k, client |-> x]]
  /\ told' = [told EXCEPT ![x] = "waiting"]
  /\ UNCHANGED entry

(* The request never arrives, or the session has expired for good: 401     *)
(* comes before the interceptor.                                           *)
LoseRequest(x) ==
  /\ \/ told' = [told EXCEPT ![x] = "lost"]
     \/ "session" \in Mishaps /\ told' = [told EXCEPT ![x] = "error"]
  /\ UNCHANGED <<entry, call>>

(* The client is gone, or no longer listens; the API carries on.           *)
Forget(x, answer) ==
  /\ call' = [c \in Calls |-> IF call[c].client = x
                                THEN [call[c] EXCEPT !.client = None] ELSE call[c]]
  /\ told' = [told EXCEPT ![x] = answer]
  /\ UNCHANGED entry

LoseAnswer(x) == told[x] = "waiting" /\ Forget(x, "lost")

-----------------------------------------------------------------------------
(* intercept *)

(* redis.get                                                               *)
Look(c) ==
  /\ call[c].at = "look"
  /\ \/ entry[call[c].key] = "free" /\ CallGoto(c, "claim") /\ UNCHANGED told
     \/ entry[call[c].key] = "processing" /\ Answer(c, "busy")
     \/ entry[call[c].key] = "done" /\ Answer(c, "ok")
  /\ UNCHANGED entry

(* Mutant of Claim: set without NX.                                        *)
ClaimAlways(c) ==
  /\ call[c].at = "claim"
  /\ entry' = [entry EXCEPT ![call[c].key] = "processing"]
  /\ CallGoto(c, "handle")
  /\ UNCHANGED told

(* redis.set(..., 'NX')                                                    *)
Claim(c) ==
  /\ call[c].at = "claim"
  /\ \/ /\ entry[call[c].key] = "free"
        /\ entry' = [entry EXCEPT ![call[c].key] = "processing"]
        /\ CallGoto(c, "handle")
        /\ UNCHANGED told
     \/ /\ entry[call[c].key] # "free"
        /\ Answer(c, "busy")
        /\ UNCHANGED entry

(* tap: the result is stored by a write nobody waits for; on the one       *)
(* connection to Redis it precedes every later look.                       *)
Save(c) ==
  /\ call[c].at = "save"
  /\ \/ entry' = [entry EXCEPT ![call[c].key] = "done"]
     \/ "unsaved" \in Mishaps /\ UNCHANGED entry
  /\ Answer(c, "ok")

(* catchError: whatever the key holds by now is deleted.                   *)
Release(c) ==
  /\ call[c].at = "release"
  /\ entry' = [entry EXCEPT ![call[c].key] = "free"]
  /\ Answer(c, "error")

(* The process dies; its client gets no answer and its key stays locked.   *)
Die(c) ==
  /\ call[c].at # "idle"
  /\ call[c].at \in {"save", "release"} => "unsaved" \in Mishaps
  /\ Answer(c, "lost")
  /\ UNCHANGED entry

(* LOCK_TTL_SECONDS: a minute, enough for every handler unless "slow".     *)
LockExpires(k) ==
  /\ entry[k] = "processing"
  /\ "slow" \in Mishaps \/ \A c \in Calls : ~Holding(c, k)
  /\ entry' = [entry EXCEPT ![k] = "free"]
  /\ UNCHANGED <<call, told>>

(* RESULT_TTL_SECONDS: a day.                                              *)
ResultExpires(k) ==
  /\ "expire" \in Mishaps
  /\ entry[k] = "done"
  /\ entry' = [entry EXCEPT ![k] = "free"]
  /\ UNCHANGED <<call, told>>

InterceptStep(c) == Look(c) \/ Claim(c) \/ Save(c) \/ Release(c)
=============================================================================
