------------------------------- MODULE Outbox -------------------------------
(***************************************************************************)
(* Notifications: NotificationsService writes a row for each channel and a *)
(* job for those that have a sender, NotificationsProcessor works on the   *)
(* jobs.  BullMQ, Postmark and Netgsm are external: a job is tried again   *)
(* after an attempt that throws, up to Attempts times, and once more when  *)
(* its worker has died (one API process, and BullMQ's concurrency of one); *)
(* a provider may accept a message and its answer be lost all the same.    *)
(***************************************************************************)
EXTENDS Naturals

CONSTANTS
  Events,      \* template keys
  Attempts,    \* NOTIFICATION_JOB_ATTEMPTS
  HasPhone     \* whether the recipient has a phone number

ASSUME AttemptsAssumption == Attempts \in Nat \ {0} /\ HasPhone \in BOOLEAN

VARIABLES
  notice,      \* [Notices -> the status of its row]
  task,        \* [Notices -> its job in BullMQ, and the worker at it]
  deliveries   \* [Notices -> how often the provider accepted it]

outboxVars == <<notice, task, deliveries>>

Channels == {"email", "sms", "whatsapp", "push"}
Notices == Events \X Channels

MaxStalled == 1   \* BullMQ's default

Task ==
  [ at     : {"none", "wait", "send", "mark", "caught", "return", "throw", "done", "dead"},
    made   : 0 .. Attempts,
    stalls : 0 .. MaxStalled ]

OutboxTypeOK ==
  /\ notice \in [Notices -> {"absent", "queued", "sent", "failed"}]
  /\ task \in [Notices -> Task]
  /\ deliveries \in [Notices -> Nat]

NoTask == [at |-> "none", made |-> 0, stalls |-> 0]

OutboxInit ==
  /\ notice = [n \in Notices |-> "absent"]
  /\ task = [n \in Notices |-> NoTask]
  /\ deliveries = [n \in Notices |-> 0]

TaskAt(n, at) == task' = [task EXCEPT ![n].at = at]

-----------------------------------------------------------------------------
(* notify: a row for each channel; a job for an e-mail or a text message,  *)
(* unless Redis cannot be reached, which is only logged.                   *)
notify(event, channels) ==
  LET rows == {event} \X channels
      senders == {event} \X (channels \cap {"email", "sms"})
  IN  /\ notice' = [n \in Notices |-> IF n \in rows THEN "queued" ELSE notice[n]]
      /\ \E reached \in SUBSET senders :
           task' = [n \in Notices |-> IF n \in reached THEN [NoTask EXCEPT !.at = "wait"]
                                                       ELSE task[n]]
      /\ UNCHANGED deliveries

-----------------------------------------------------------------------------
(* NotificationsProcessor.process, for one job at a time *)

UnderWork == {"send", "mark", "caught", "return", "throw"}

Idle == \A n \in Notices : task[n].at \notin UnderWork

(* Mutant of ReadNotice: the row's status is not looked at.                *)
ReadNoticeBlindly(n) ==
  /\ task[n].at = "wait" /\ Idle
  /\ TaskAt(n, "send") \/ TaskAt(n, "throw")
  /\ UNCHANGED <<notice, deliveries>>

(* The database may not answer: the attempt is used up before the try.     *)
ReadNotice(n) ==
  /\ task[n].at = "wait" /\ Idle
  /\ TaskAt(n, IF notice[n] = "sent" THEN "return" ELSE "send") \/ TaskAt(n, "throw")
  /\ UNCHANGED <<notice, deliveries>>

(* templates.ts: what there is no text for is not sent, nor is a text      *)
(* message without a number.                                               *)
Sendable(n) ==
  \/ n[2] = "email" /\ n[1] # "approval_reminder_24h"
  \/ n[2] = "sms" /\ n[1] # "field_assigned" /\ HasPhone

Accepted(n) == deliveries' = [deliveries EXCEPT ![n] = @ + 1]

(* Mutant of Send: an answer that is no success is not looked at.          *)
SendUnchecked(n) ==
  /\ task[n].at = "send"
  /\ TaskAt(n, "mark")
  /\ Accepted(n) \/ UNCHANGED deliveries
  /\ UNCHANGED notice

(* EmailService.send and SmsService.send throw at anything but success; so  *)
(* does an answer that never comes.                                        *)
Provider(n) ==
  \/ Accepted(n) /\ TaskAt(n, "mark")
  \/ Accepted(n) /\ TaskAt(n, "caught")
  \/ TaskAt(n, "caught") /\ UNCHANGED deliveries

Send(n) ==
  /\ task[n].at = "send"
  /\ IF Sendable(n) THEN Provider(n) ELSE TaskAt(n, "caught") /\ UNCHANGED deliveries
  /\ UNCHANGED notice

MarkSent(n) ==
  /\ task[n].at = "mark"
  /\ \/ notice' = [notice EXCEPT ![n] = "sent"] /\ TaskAt(n, "return")
     \/ TaskAt(n, "caught") /\ UNCHANGED notice
  /\ UNCHANGED deliveries

(* Only the last attempt marks the row, if the database lets it; each of   *)
(* them throws.                                                            *)
LastAttempt(n) == task[n].made + 1 >= Attempts

Catch(n) ==
  /\ task[n].at = "caught"
  /\ notice' \in {notice, [notice EXCEPT ![n] = "failed"]}
  /\ ~LastAttempt(n) => UNCHANGED notice
  /\ TaskAt(n, "throw")
  /\ UNCHANGED deliveries

-----------------------------------------------------------------------------
(* BullMQ *)

(* Mutant of Finish: there is no last attempt.                             *)
FinishUnlimited(n) ==
  /\ \/ task[n].at = "return" /\ TaskAt(n, "done")
     \/ /\ task[n].at = "throw"
        /\ task' = [task EXCEPT ![n].made = @ + 1, ![n].at = "wait"]
  /\ UNCHANGED <<notice, deliveries>>

Finish(n) ==
  /\ \/ task[n].at = "return" /\ TaskAt(n, "done")
     \/ /\ task[n].at = "throw"
        /\ task' = [task EXCEPT ![n] =
             [ at     |-> IF @.made + 1 < Attempts THEN "wait" ELSE "done",
               made   |-> @.made + 1,
               stalls |-> @.stalls ]]
  /\ UNCHANGED <<notice, deliveries>>

(* The worker dies.  Whoever comes next finds the job stalled.             *)
Stall(n) ==
  /\ task[n].at \in UnderWork
  /\ task' = [task EXCEPT ![n] =
       IF @.stalls < MaxStalled
         THEN [at |-> "wait", made |-> @.made, stalls |-> @.stalls + 1]
         ELSE [@ EXCEPT !.at = "dead"]]
  /\ UNCHANGED <<notice, deliveries>>

WorkerStep(n) == ReadNotice(n) \/ Send(n) \/ MarkSent(n) \/ Catch(n) \/ Finish(n)

-----------------------------------------------------------------------------
(* A row says sent only when the provider has taken the message, whichever *)
(* attempt it was (notifications.processor.ts:50-73).                      *)
SentIsSent == \A n \in Notices : notice[n] = "sent" => deliveries[n] > 0

(* What is marked as sent is never sent again: not by the attempt that     *)
(* follows a worker that died before BullMQ knew (notifications.           *)
(* processor.ts:34-36).  One that died before the mark does send twice.    *)
SentIsLast ==
  [][\A n \in Notices : notice[n] = "sent" => deliveries'[n] = deliveries[n]]_outboxVars

-----------------------------------------------------------------------------
(* What a document says, and the code does not do *)

(* "Marking 'failed' only on BullMQ's last retry attempt" (HANDOVER.md:421,*)
(* notifications.processor.ts:75-77): a job that has had its attempts has  *)
(* decided its notification, as sent or as failed.  An attempt whose       *)
(* lookup throws never gets to the mark, and the mark may throw.           *)
EndedIsDecided ==
  \A n \in Notices : task[n].at = "done" => notice[n] \in {"sent", "failed"}

(* The database answers where it decides: the last attempt reads its row   *)
(* and marks it.                                                           *)
LastAttemptAnswered ==
  [][\A n \in Notices : LastAttempt(n) =>
       /\ task[n].at = "wait" => task'[n].at # "throw"
       /\ task[n].at = "caught" /\ task'[n].at = "throw" => notice'[n] = "failed"]_outboxVars
=============================================================================
