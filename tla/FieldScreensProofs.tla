------------------------- MODULE FieldScreensProofs -------------------------
(***************************************************************************)
(* Proofs about FieldScreens and Outbox, for any number of rows, taps that *)
(* overlap, contexts that flush, events and attempts.                      *)
(***************************************************************************)
EXTENDS FieldScreens, SequenceTheorems, TLAPS

(* Where a job is says what its row says, and whether the provider has     *)
(* taken the message.                                                      *)
JobFits(n) ==
  /\ task[n].at \in {"send", "mark", "caught"} => notice[n] # "sent"
  /\ task[n].at = "mark" \/ notice[n] = "sent" => deliveries[n] > 0
  /\ task[n].at = "return" => notice[n] = "sent"
  /\ task[n].at \in {"wait", "send", "mark", "caught", "return", "throw"} => task[n].made < Attempts

OutboxInv == OutboxTypeOK /\ \A n \in Notices : JobFits(n)

-----------------------------------------------------------------------------
LEMMA TaskMoved ==
  ASSUME OutboxTypeOK, NEW n \in Notices,
         NEW at \in {"none", "wait", "send", "mark", "caught", "return", "throw", "done", "dead"},
         TaskAt(n, at)
  PROVE  /\ task' \in [Notices -> Task]
         /\ task'[n].at = at /\ task'[n].made = task[n].made
         /\ \A m \in Notices \ {n} : task'[m] = task[m]
<1>1. task[n] \in Task
  BY DEF OutboxTypeOK
<1>2. [task[n] EXCEPT !.at = at] \in Task
  BY <1>1 DEF Task
<1>3. task' = [task EXCEPT ![n] = [task[n] EXCEPT !.at = at]]
  BY DEF TaskAt
<1>4. [task[n] EXCEPT !.at = at].at = at /\ [task[n] EXCEPT !.at = at].made = task[n].made
  BY <1>1 DEF Task
<1> HIDE DEF Task
<1> QED BY <1>2, <1>3, <1>4 DEF OutboxTypeOK

(* One job moves, with its row.                                            *)
LEMMA OthersFit ==
  ASSUME OutboxInv, NEW n \in Notices, OutboxTypeOK', JobFits(n)',
         \A m \in Notices \ {n} :
           task'[m] = task[m] /\ notice'[m] = notice[m] /\ deliveries'[m] = deliveries[m]
  PROVE  OutboxInv'
BY DEF OutboxInv, JobFits

LEMMA WorkerKeeps ==
  ASSUME OutboxInv, NEW n \in Notices, WorkerStep(n) \/ Stall(n)
  PROVE  OutboxInv' /\ (notice[n] = "sent" => deliveries' = deliveries)
<1>1. /\ task[n] \in Task /\ notice \in [Notices -> {"absent", "queued", "sent", "failed"}]
      /\ deliveries \in [Notices -> Nat] /\ JobFits(n)
      /\ task[n].made \in 0 .. Attempts /\ Attempts \in Nat
  BY AttemptsAssumption DEF OutboxInv, OutboxTypeOK, Task
<1>2. CASE ReadNotice(n)
  <2>1. PICK at \in {"return", "send", "throw"} :
          TaskAt(n, at) /\ (at = "return" => notice[n] = "sent") /\ (at = "send" => notice[n] # "sent")
    BY <1>2 DEF ReadNotice
  <2>2. OutboxTypeOK' /\ JobFits(n)'
    BY <1>1, <1>2, <2>1, TaskMoved DEF ReadNotice, OutboxInv, OutboxTypeOK, JobFits
  <2> QED BY <1>2, <2>1, <2>2, TaskMoved, OthersFit DEF ReadNotice, OutboxInv
<1>3. CASE Send(n)
  <2>1. notice' = notice /\ notice[n] # "sent" /\ task[n].made < Attempts
    BY <1>1, <1>3 DEF Send, JobFits
  <2>2. \/ TaskAt(n, "mark") /\ Accepted(n)
        \/ TaskAt(n, "caught") /\ (Accepted(n) \/ UNCHANGED deliveries)
    BY <1>3 DEF Send, Provider
  <2>3. deliveries' \in [Notices -> Nat] /\ (Accepted(n) => deliveries'[n] > 0)
        /\ \A m \in Notices \ {n} : deliveries'[m] = deliveries[m]
    BY <1>1, <2>2 DEF Accepted
  <2>4. OutboxTypeOK' /\ JobFits(n)'
    BY <1>1, <2>1, <2>2, <2>3, TaskMoved DEF OutboxInv, OutboxTypeOK, JobFits
  <2> QED BY <2>1, <2>2, <2>3, <2>4, TaskMoved, OthersFit DEF OutboxInv
<1>4. CASE MarkSent(n)
  <2>1. /\ \/ TaskAt(n, "return") /\ notice' = [notice EXCEPT ![n] = "sent"]
           \/ TaskAt(n, "caught") /\ notice' = notice
        /\ deliveries' = deliveries /\ task[n].at = "mark"
    BY <1>4 DEF MarkSent
  <2>2. OutboxTypeOK' /\ JobFits(n)'
    BY <1>1, <2>1, TaskMoved DEF OutboxInv, OutboxTypeOK, JobFits
  <2> QED BY <1>1, <2>1, <2>2, TaskMoved, OthersFit DEF OutboxInv
<1>5. CASE Catch(n)
  <2>1. TaskAt(n, "throw") /\ deliveries' = deliveries /\ task[n].at = "caught"
    BY <1>5 DEF Catch
  <2>2. notice' \in [Notices -> {"absent", "queued", "sent", "failed"}]
        /\ notice'[n] \in {notice[n], "failed"}
        /\ \A m \in Notices \ {n} : notice'[m] = notice[m]
    BY <1>1, <1>5 DEF Catch
  <2>3. OutboxTypeOK' /\ JobFits(n)'
    BY <1>1, <2>1, <2>2, TaskMoved DEF OutboxInv, OutboxTypeOK, JobFits
  <2> QED BY <2>1, <2>2, <2>3, TaskMoved, OthersFit DEF OutboxInv
<1>6. CASE Finish(n)
  <2>1. CASE task[n].at = "return" /\ TaskAt(n, "done")
    <3>1. OutboxTypeOK' /\ JobFits(n)'
      BY <1>1, <1>6, <2>1, TaskMoved DEF Finish, OutboxInv, OutboxTypeOK, JobFits
    <3> QED BY <1>6, <2>1, <3>1, TaskMoved, OthersFit DEF Finish, OutboxInv
  <2>2. CASE task[n].at = "throw"
    <3>1. PICK at \in {"wait", "done"} :
            /\ at = "wait" <=> task[n].made + 1 < Attempts
            /\ task' = [task EXCEPT ![n] = [at |-> at, made |-> task[n].made + 1, stalls |-> task[n].stalls]]
      BY <1>6, <2>2, <1>1 DEF Finish
    <3>2. task[n].made < Attempts
      BY <1>1, <2>2 DEF JobFits
    <3>3. [at |-> at, made |-> task[n].made + 1, stalls |-> task[n].stalls] \in Task
      BY <1>1, <3>1, <3>2 DEF Task
    <3>4. task'[n].at = at
      BY <1>1, <3>1 DEF OutboxInv, OutboxTypeOK, Task
    <3>5. task'[n].made = task[n].made + 1
      BY <1>1, <3>1 DEF OutboxInv, OutboxTypeOK, Task
    <3>6. OutboxTypeOK' /\ UNCHANGED <<notice, deliveries>>
      BY <1>6, <3>1, <3>3 DEF Finish, OutboxInv, OutboxTypeOK
    <3>7. JobFits(n)'
      BY <1>1, <2>2, <3>1, <3>2, <3>4, <3>5, <3>6 DEF JobFits
    <3> QED BY <3>1, <3>6, <3>7, OthersFit DEF OutboxInv, OutboxTypeOK
  <2> QED BY <1>6, <2>1, <2>2 DEF Finish
<1>7. CASE Stall(n)
  <2>1. /\ \/ /\ task[n].stalls < MaxStalled
              /\ task' = [task EXCEPT ![n] = [at |-> "wait", made |-> task[n].made, stalls |-> task[n].stalls + 1]]
           \/ task' = [task EXCEPT ![n] = [task[n] EXCEPT !.at = "dead"]]
        /\ UNCHANGED <<notice, deliveries>>
    BY <1>7 DEF Stall
  <2>2. [task[n] EXCEPT !.at = "dead"] \in Task
    BY <1>1 DEF Task
  <2>3. task[n].stalls < MaxStalled
        => [at |-> "wait", made |-> task[n].made, stalls |-> task[n].stalls + 1] \in Task
    BY <1>1 DEF Task, MaxStalled
  <2>4. task'[n].at \in {"wait", "dead"} /\ task'[n].made = task[n].made
    BY <1>1, <2>1 DEF OutboxInv, OutboxTypeOK, Task
  <2>5. OutboxTypeOK'
    BY <2>1, <2>2, <2>3 DEF OutboxInv, OutboxTypeOK
  <2>6. JobFits(n)'
    BY <1>1, <1>7, <2>1, <2>4 DEF JobFits, Stall, UnderWork
  <2> QED BY <2>1, <2>5, <2>6, OthersFit DEF OutboxInv, OutboxTypeOK
<1> QED BY <1>2, <1>3, <1>4, <1>5, <1>6, <1>7 DEF WorkerStep

(* Notifications that are new, while no job is at work.                    *)
LEMMA NotifyKeeps ==
  ASSUME OutboxInv, NEW e \in Events, NEW channels \in SUBSET Channels, notify(e, channels),
         \A n \in Notices : task[n].at = "none"
  PROVE  OutboxInv' /\ deliveries' = deliveries
<1>1. PICK reached \in SUBSET ({e} \X (channels \cap {"email", "sms"})) :
        task' = [n \in Notices |-> IF n \in reached THEN [NoTask EXCEPT !.at = "wait"] ELSE task[n]]
  BY DEF notify
<1>2. [NoTask EXCEPT !.at = "wait"] \in Task /\ [NoTask EXCEPT !.at = "wait"].at = "wait"
      /\ [NoTask EXCEPT !.at = "wait"].made = 0
  BY AttemptsAssumption DEF NoTask, Task, MaxStalled
<1>3. notice' = [n \in Notices |-> IF n \in {e} \X channels THEN "queued" ELSE notice[n]]
      /\ deliveries' = deliveries
  BY DEF notify
<1>4. OutboxTypeOK'
  BY <1>1, <1>2, <1>3 DEF OutboxInv, OutboxTypeOK
<1>5. ASSUME NEW n \in Notices PROVE JobFits(n)'
  BY <1>1, <1>2, <1>3, AttemptsAssumption DEF OutboxInv, OutboxTypeOK, JobFits
<1> QED BY <1>3, <1>4, <1>5 DEF OutboxInv

-----------------------------------------------------------------------------
(* The screens: no more handlers than taps, so that the step stays within  *)
(* what they can add, and the last photograph has its note.                *)
Tapped == [action : Action, live : BOOLEAN]

ScreenInv ==
  /\ screen \in Screen
  /\ cached \in [{"list", "detail"} -> Statuses \cup {None}]
  /\ locating \in Nat
  /\ putting \in Seq(Tapped)
  /\ locating + Len(putting) <= MaxTaps
  /\ screen.at = "capture" => screen.step + locating + Len(putting) <= 2 + MaxTaps
  /\ \A i \in 1 .. Len(putting) :
       putting[i].action.kind = "detail_shot" => putting[i].action.note

(* Until a row is queued nobody can think the task was started.            *)
StartInv ==
  IF rows # <<>> THEN rows[1].kind = "start"
  ELSE /\ \A i \in 1 .. Len(putting) : putting[i].action.kind = "start"
       /\ screen.at \in {"list", "detail"}
       /\ {screen.task, cached["list"], cached["detail"], status} \subseteq {"assigned", None}

RowInv ==
  /\ rows \in Seq(Row) /\ Len(rows) <= MaxRows
  /\ \A i \in 1 .. Len(rows) : rows[i].kind = "detail_shot" => rows[i].note
  /\ flush \in [Contexts -> Flush]
  /\ \A x \in Contexts :
       flush[x].todo \subseteq 1 .. Len(rows) /\ flush[x].key \in (1 .. Len(rows)) \cup {None}

(* What was carried out has left its trace.                                *)
OrderInv ==
  /\ status \in Statuses
  /\ photos \subseteq Photo
  /\ \A p \in photos : p.row \in 1 .. Len(rows)
  /\ \A i \in 1 .. Len(rows) :
       /\ rows[i].status = "synced" => rows[i].done
       /\ rows[i].done /\ rows[i].kind \in {"wide_shot", "detail_shot"}
            => \E p \in photos : p.row = i /\ (p.geotag = "valid" \/ p.reviewed)
  /\ IF status = "completed_pending_approval" THEN hasEvidence
     ELSE \A n \in Notices : task[n].at = "none"

VisitInv == ScreenInv /\ StartInv /\ RowInv /\ OrderInv /\ OutboxInv

LEMMA FreshScreen ==
  ASSUME NEW at \in {"list", "detail", "capture", "complete"}, NEW t \in Statuses \cup {None}
  PROVE  /\ Fresh(at) \in Screen /\ Fresh(at).at = at /\ Fresh(at).task = None /\ Fresh(at).step = 0
         /\ [Fresh(at) EXCEPT !.task = t] \in Screen
         /\ [Fresh(at) EXCEPT !.task = t].at = at /\ [Fresh(at) EXCEPT !.task = t].task = t
<1>1. /\ Fresh(at) \in Screen /\ Fresh(at).at = at /\ Fresh(at).task = None /\ Fresh(at).step = 0
  BY BoundAssumption DEF Fresh, Screen
<1>2. [Fresh(at) EXCEPT !.task = t] \in Screen
      /\ [Fresh(at) EXCEPT !.task = t].at = at /\ [Fresh(at) EXCEPT !.task = t].task = t
  BY <1>1 DEF Screen
<1> QED BY <1>1, <1>2

LEMMA InitVisit == ASSUME Init PROVE VisitInv
<1>1. ScreenInv
  <2>1. screen \in Screen /\ screen.at = "list"
    BY FreshScreen DEF Init, Statuses
  <2> QED BY <2>1, BoundAssumption DEF Init, Statuses, ScreenInv
<1>2. StartInv
  BY DEF Init, Fresh, StartInv
<1>3. RowInv
  BY BoundAssumption DEF Init, FlushIdle, Flush, RowInv
<1>4. OrderInv
  BY DEF Init, OutboxInit, NoTask, Statuses, OrderInv
<1>5. NoTask \in Task
  BY AttemptsAssumption DEF NoTask, Task, MaxStalled
<1>6. OutboxInv
  BY <1>5 DEF Init, OutboxInit, OutboxInv, OutboxTypeOK, JobFits, NoTask
<1> QED BY <1>1, <1>2, <1>3, <1>4, <1>6 DEF VisitInv

-----------------------------------------------------------------------------
(* Screens that are left and entered.                                      *)
LEMMA Left ==
  ASSUME putting \in Seq(Tapped), Leave
  PROVE  /\ putting' \in Seq(Tapped) /\ Len(putting') = Len(putting)
         /\ \A i \in 1 .. Len(putting) : putting'[i].action = putting[i].action
<1>1. \A i \in 1 .. Len(putting) :
        /\ [putting[i] EXCEPT !.live = FALSE] \in Tapped
        /\ [putting[i] EXCEPT !.live = FALSE].action = putting[i].action
  <2> TAKE i \in 1 .. Len(putting)
  <2>1. putting[i] \in Tapped
    OBVIOUS
  <2> QED BY <2>1 DEF Tapped
<1>2. putting' = [i \in 1 .. Len(putting) |-> [putting[i] EXCEPT !.live = FALSE]]
  BY DEF Leave
<1>3. putting' \in Seq(Tapped) /\ Len(putting') = Len(putting)
  BY <1>1, <1>2
<1>4. \A i \in 1 .. Len(putting) : putting'[i] = [putting[i] EXCEPT !.live = FALSE]
  BY <1>2
<1> QED BY <1>1, <1>3, <1>4

LEMMA NavigateKeeps ==
  ASSUME VisitInv, Navigate
  PROVE  VisitInv'
<1> USE DEF VisitInv
<1>1. /\ ScreenInv /\ StartInv /\ status \in Statuses
      /\ putting' \in Seq(Tapped) /\ Len(putting') = Len(putting)
      /\ \A i \in 1 .. Len(putting) : putting'[i].action = putting[i].action
      /\ UNCHANGED <<locating, queueVars, orderVars, outboxVars>>
  <2>1. Leave
    BY DEF Navigate, OpenTask, OpenCapture, OpenComplete, BackToList, BackButton, Enter, Goto
  <2> QED BY <2>1, Left DEF Navigate, ScreenInv, OrderInv
<1>2. CASE \E at \in {"list", "detail"} : Enter(at)
  <2>1. PICK at \in {"list", "detail"}, t \in {status, cached["list"], cached["detail"]} :
          /\ screen' = [Fresh(at) EXCEPT !.task = t]
          /\ cached' \in {cached, [cached EXCEPT ![at] = status]}
    BY <1>2 DEF Enter
  <2>2. t \in Statuses \cup {None}
    BY <1>1 DEF ScreenInv
  <2>3. screen' \in Screen /\ screen'.at = at /\ screen'.task = t
    BY <2>1, <2>2, FreshScreen
  <2>4. cached' \in [{"list", "detail"} -> Statuses \cup {None}]
        /\ {cached'["list"], cached'["detail"]} \subseteq {status, cached["list"], cached["detail"]}
    BY <1>1, <2>1 DEF ScreenInv
  <2>5. ScreenInv'
    BY <1>1, <2>3, <2>4 DEF ScreenInv
  <2>6. StartInv'
    BY <1>1, <2>1, <2>3, <2>4 DEF StartInv, queueVars, orderVars
  <2> QED BY <1>1, <2>5, <2>6 DEF queueVars, orderVars, outboxVars, RowInv, OrderInv, OutboxInv,
                                  OutboxTypeOK, JobFits, hasEvidence, Taken
<1>3. CASE \E at \in {"capture", "complete"} : Goto(at) /\ rows # <<>>
  <2>1. PICK at \in {"capture", "complete"} : screen' = Fresh(at) /\ cached' = cached /\ rows # <<>>
    BY <1>3 DEF Goto
  <2>2. screen' \in Screen /\ screen'.step = 0
    BY <2>1, FreshScreen
  <2>3. ScreenInv'
    <3>1. Len(putting) \in Nat /\ locating \in Nat /\ MaxTaps \in Nat
      BY <1>1, LenProperties, BoundAssumption DEF ScreenInv
    <3>2. screen'.step + locating + Len(putting) <= 2 + MaxTaps
      BY <1>1, <2>2, <3>1 DEF ScreenInv
    <3> QED BY <1>1, <2>1, <2>2, <3>2 DEF ScreenInv
  <2>4. StartInv'
    BY <1>1, <2>1 DEF StartInv, queueVars
  <2> QED BY <1>1, <2>3, <2>4 DEF queueVars, orderVars, outboxVars, RowInv, OrderInv, OutboxInv,
                                  OutboxTypeOK, JobFits, hasEvidence, Taken
<1>4. OpenCapture => rows # <<>>
  BY NoneAssumption DEF OpenCapture, effectiveStarted, StartQueued, StartRows, StartInv, Statuses
<1>5. OpenComplete \/ (screen.at = "complete") => rows # <<>>
  BY DEF OpenComplete, StartInv
<1> QED BY <1>2, <1>3, <1>4, <1>5
        DEF Navigate, OpenTask, OpenCapture, OpenComplete, BackToList, BackButton

(* Taps.                                                                   *)
LEMMA Enqueued ==
  ASSUME putting \in Seq(Tapped), NEW kind \in Kinds, NEW note \in BOOLEAN, NEW live \in BOOLEAN,
         enqueueAction(kind, note, live)
  PROVE  /\ putting' \in Seq(Tapped) /\ Len(putting') = Len(putting) + 1
         /\ \A i \in 1 .. Len(putting) : putting'[i] = putting[i]
         /\ putting'[Len(putting) + 1].action = [kind |-> kind, note |-> note]
<1>1. [action |-> [kind |-> kind, note |-> note], live |-> live] \in Tapped
  BY DEF Tapped, Action
<1> QED BY <1>1, AppendProperties DEF enqueueAction

LEMMA TapKeeps ==
  ASSUME VisitInv, Tap \/ Located
  PROVE  VisitInv'
<1> USE DEF VisitInv
<1>1. ScreenInv /\ StartInv /\ UNCHANGED <<cached, queueVars, orderVars, outboxVars>>
  BY DEF Tap, Located, handleStart, handleShoot, handleRetake, WriteNote, handleConfirm, handleComplete
<1>2. Len(putting) \in Nat /\ locating \in Nat /\ MaxTaps \in Nat
  BY <1>1, LenProperties, BoundAssumption DEF ScreenInv
<1>3. RowInv' /\ OrderInv' /\ OutboxInv'
  <2>1. RowInv'
    BY <1>1 DEF queueVars, RowInv
  <2>2. OrderInv'
    BY <1>1 DEF queueVars, orderVars, outboxVars, OrderInv, hasEvidence, Taken
  <2>3. OutboxInv'
    BY <1>1 DEF outboxVars, OutboxInv, OutboxTypeOK, JobFits
  <2> QED BY <2>1, <2>2, <2>3
<1>4. CASE handleStart
  <2>1. ScreenInv'
    BY <1>1, <1>2, <1>4 DEF handleStart, MayTap, ScreenInv
  <2>2. StartInv'
    BY <1>1, <1>4 DEF handleStart, StartInv, queueVars, orderVars
  <2> QED BY <1>3, <2>1, <2>2
<1>5. ASSUME NEW kind \in Kinds, NEW note \in BOOLEAN, NEW live \in BOOLEAN,
             enqueueAction(kind, note, live), screen' = screen,
             \/ locating' = locating /\ MayTap /\ (screen.at = "capture" => screen.step < 2)
             \/ locating > 0 /\ locating' = locating - 1,
             kind = "detail_shot" => note,
             rows = <<>> => kind = "start"
      PROVE  VisitInv'
  <2>2. /\ putting' \in Seq(Tapped) /\ Len(putting') = Len(putting) + 1
        /\ \A i \in 1 .. Len(putting) : putting'[i] = putting[i]
        /\ putting'[Len(putting) + 1].action = [kind |-> kind, note |-> note]
    BY <1>1, <1>5, Enqueued DEF ScreenInv
  <2>3. \A i \in 1 .. Len(putting') :
          putting'[i].action.kind = "detail_shot" => putting'[i].action.note
    <3>1. ASSUME NEW i \in 1 .. Len(putting), putting'[i].action.kind = "detail_shot"
          PROVE  putting'[i].action.note
      BY <1>1, <2>2, <3>1 DEF ScreenInv
    <3>2. putting'[Len(putting')].action.kind = kind /\ putting'[Len(putting')].action.note = note
      BY <2>2
    <3>3. \A i \in 1 .. Len(putting') : i \in 1 .. Len(putting) \/ i = Len(putting')
      BY <1>2, <2>2
    <3> QED BY <1>5, <3>1, <3>2, <3>3
  <2>4. screen.step \in Nat
    BY <1>1, <1>2 DEF ScreenInv, Screen
  <2>5. locating' \in Nat /\ locating' + Len(putting') <= MaxTaps
        /\ (screen'.at = "capture" => screen'.step + locating' + Len(putting') <= 2 + MaxTaps)
    BY SMTT(30), <1>1, <1>2, <1>5, <2>2, <2>4 DEF ScreenInv, MayTap
  <2>6. ScreenInv'
    BY <1>1, <1>5, <2>2, <2>3, <2>5 DEF ScreenInv
  <2>7. rows = <<>> => \A i \in 1 .. Len(putting') : putting'[i].action.kind = "start"
    BY <1>1, <1>2, <1>5, <2>2 DEF StartInv
  <2>8. StartInv'
    BY <1>1, <1>5, <2>7 DEF StartInv, queueVars, orderVars
  <2> QED BY <1>3, <2>6, <2>8
<1>6. CASE handleShoot \/ handleRetake \/ WriteNote
  <2>1. UNCHANGED <<locating, putting>>
    BY <1>6 DEF handleShoot, handleRetake, WriteNote
  <2>2. screen' \in Screen /\ screen'.at = screen.at /\ screen'.task = screen.task
        /\ screen'.step = screen.step
    BY <1>1, <1>6 DEF handleShoot, handleRetake, WriteNote, ScreenInv, Screen
  <2>3. ScreenInv'
    BY <1>1, <2>1, <2>2 DEF ScreenInv
  <2>4. StartInv'
    BY <1>1, <2>1, <2>2 DEF StartInv, queueVars, orderVars
  <2> QED BY <1>3, <2>3, <2>4
<1>7. CASE Located
  <2>1. enqueueAction("start", FALSE, FALSE) /\ screen' = screen /\ locating > 0 /\ locating' = locating - 1
    BY <1>7 DEF Located
  <2> QED BY <1>5, <2>1 DEF Kinds
<1>8. CASE handleConfirm
  <2>1. screen.step \in 0 .. 1 /\ screen.at = "capture"
    BY <1>1, <1>2, <1>8 DEF handleConfirm, OnCapture, Done, Shots, ScreenInv, Screen
  <2>2. Shots[screen.step + 1] \in {"wide_shot", "detail_shot"}
        /\ (Shots[screen.step + 1] = "detail_shot" => LastStep) /\ LastStep \in BOOLEAN
    BY <2>1 DEF Shots, LastStep
  <2>3. rows # <<>>
    BY <1>1, <2>1 DEF StartInv
  <2>4. /\ enqueueAction(Shots[screen.step + 1], LastStep, TRUE) /\ screen' = screen
        /\ locating' = locating /\ MayTap /\ screen.step < 2
    BY <1>8, <2>1 DEF handleConfirm, enqueueAction
  <2>5. Shots[screen.step + 1] \in Kinds
    BY <2>2 DEF Kinds
  <2> QED BY <1>5, <2>2, <2>3, <2>4, <2>5
<1>9. CASE handleComplete
  <2>1. rows # <<>>
    BY <1>1, <1>9 DEF handleComplete, StartInv
  <2>2. /\ enqueueAction("complete", FALSE, TRUE) /\ screen' = screen /\ locating' = locating /\ MayTap
        /\ screen.at # "capture"
    BY <1>9 DEF handleComplete
  <2> QED BY <1>5, <2>1, <2>2 DEF Kinds
<1> QED BY <1>4, <1>6, <1>7, <1>8, <1>9 DEF Tap

(* The first row is a start, for until then nothing else is tapped.        *)
LEMMA PutKeeps ==
  ASSUME VisitInv, Put
  PROVE  VisitInv'
<1> USE DEF VisitInv
<1> DEFINE p == Head(putting)
           r == [kind |-> p.action.kind, note |-> p.action.note, status |-> "pending", done |-> FALSE]
<1>1. /\ ScreenInv /\ StartInv /\ RowInv /\ OrderInv /\ OutboxInv
      /\ putting # <<>> /\ Len(rows) < MaxRows /\ rows' = Append(rows, r) /\ putting' = Tail(putting)
      /\ UNCHANGED <<cached, locating, flush, orderVars, outboxVars>>
  BY DEF Put
<1>2. Len(putting) \in Nat /\ locating \in Nat /\ MaxTaps \in Nat /\ Len(rows) \in Nat /\ MaxRows \in Nat
  BY <1>1, LenProperties, BoundAssumption DEF ScreenInv, RowInv
<1>3. p \in Tapped /\ p = putting[1] /\ 1 \in 1 .. Len(putting)
      /\ putting' \in Seq(Tapped) /\ Len(putting') = Len(putting) - 1
      /\ \A i \in 1 .. Len(putting') : putting'[i] = putting[i + 1] /\ i + 1 \in 1 .. Len(putting)
  BY <1>1, <1>2, HeadTailProperties DEF ScreenInv
<1>4. r \in Row /\ r.kind = p.action.kind /\ r.note = p.action.note
      /\ r.status = "pending" /\ r.done = FALSE
  BY <1>3 DEF Tapped, Action, Row
<1>5. (p.action.kind = "detail_shot" => p.action.note) /\ (rows = <<>> => p.action.kind = "start")
  BY <1>1, <1>3 DEF ScreenInv, StartInv
<1> HIDE DEF p, r
<1>6. /\ rows' \in Seq(Row) /\ Len(rows') = Len(rows) + 1 /\ rows' # <<>>
      /\ \A i \in 1 .. Len(rows) : rows'[i] = rows[i]
      /\ rows'[Len(rows) + 1] = r
  BY <1>1, <1>4, AppendProperties DEF RowInv
<1>7. screen' \in Screen /\ screen'.at = screen.at
      /\ (screen.at = "capture" => screen'.step \in {screen.step, screen.step + 1})
  <2>1. CASE screen' = screen
    BY <1>1, <2>1 DEF ScreenInv
  <2>2. CASE screen.at = "capture" /\ screen' = [screen EXCEPT !.preview = FALSE, !.step = @ + 1]
    <3>1. screen \in Screen /\ screen.step \in Nat /\ screen.step + 1 <= 2 + MaxTaps
      BY <1>1, <1>2, <1>3, <2>2 DEF ScreenInv, Screen
    <3>2. screen'.at = screen.at /\ screen'.step = screen.step + 1
      BY <2>2, <3>1 DEF Screen
    <3>3. screen' \in Screen
      <4>1. [screen EXCEPT !.preview = FALSE] \in Screen
            /\ [screen EXCEPT !.preview = FALSE].step = screen.step
        BY <3>1 DEF Screen
      <4>2. \A s \in Screen : s.step + 1 \in 0 .. 2 + MaxTaps => [s EXCEPT !.step = s.step + 1] \in Screen
        BY DEF Screen
      <4>3. screen' = [[screen EXCEPT !.preview = FALSE] EXCEPT !.step = screen.step + 1]
        BY <2>2
      <4>4. screen.step + 1 \in 0 .. 2 + MaxTaps
        BY <1>2, <3>1
      <4> HIDE DEF Screen
      <4> QED BY <4>1, <4>2, <4>3, <4>4
    <3> QED BY <2>2, <3>2, <3>3
  <2>3. CASE screen' = [screen EXCEPT !.queued = TRUE] /\ screen.at = "complete"
    BY <1>1, <2>3 DEF ScreenInv, Screen
  <2> QED BY <2>1, <2>2, <2>3 DEF Put
<1>8. ScreenInv'
  <2>1. locating' + Len(putting') <= MaxTaps
    BY <1>1, <1>2, <1>3 DEF ScreenInv
  <2>2. screen'.at = "capture" => screen'.step + locating' + Len(putting') <= 2 + MaxTaps
    BY <1>1, <1>2, <1>3, <1>7 DEF ScreenInv, Screen
  <2>3. \A i \in 1 .. Len(putting') :
          putting'[i].action.kind = "detail_shot" => putting'[i].action.note
    BY <1>1, <1>3 DEF ScreenInv
  <2> QED BY <1>1, <1>3, <1>7, <2>1, <2>2, <2>3 DEF ScreenInv
<1>9. StartInv'
  <2>1. rows'[1].kind = "start"
    BY <1>1, <1>2, <1>4, <1>5, <1>6 DEF StartInv
  <2> QED BY <1>6, <2>1 DEF StartInv
<1>10. RowInv'
  <2>1. \A i \in 1 .. Len(rows') : rows'[i].kind = "detail_shot" => rows'[i].note
    BY <1>1, <1>2, <1>4, <1>5, <1>6 DEF RowInv
  <2> QED BY <1>1, <1>2, <1>6, <2>1 DEF RowInv
<1>11. OrderInv'
  <2>1. \A i \in 1 .. Len(rows') :
          /\ rows'[i].status = "synced" => rows'[i].done
          /\ rows'[i].done /\ rows'[i].kind \in {"wide_shot", "detail_shot"}
               => \E q \in photos : q.row = i /\ (q.geotag = "valid" \/ q.reviewed)
    BY <1>1, <1>2, <1>4, <1>6 DEF OrderInv
  <2>2. Taken' = Taken
    BY <1>1, <1>2, <1>6 DEF Taken, OrderInv, orderVars
  <2> QED BY <1>1, <1>2, <1>6, <2>1, <2>2 DEF OrderInv, orderVars, outboxVars, hasEvidence
<1>12. OutboxInv'
  BY <1>1 DEF outboxVars, OutboxInv, OutboxTypeOK, JobFits
<1> QED BY <1>8, <1>9, <1>10, <1>11, <1>12

-----------------------------------------------------------------------------
(* Rows are marked; what they ask for stays.                               *)
SameRows ==
  /\ rows' \in Seq(Row) /\ Len(rows') = Len(rows)
  /\ \A j \in 1 .. Len(rows) : rows'[j].kind = rows[j].kind /\ rows'[j].note = rows[j].note

RowStatuses == {"pending", "syncing", "synced", "failed"}

LEMMA Marked ==
  ASSUME rows \in Seq(Row), NEW i \in 1 .. Len(rows), NEW st \in RowStatuses,
         rows' = [rows EXCEPT ![i].status = st]
  PROVE  SameRows /\ \A j \in 1 .. Len(rows) :
           rows'[j].done = rows[j].done /\ rows'[j].status = IF j = i THEN st ELSE rows[j].status
<1>1. rows[i] \in Row
  BY ElementOfSeq
<1>2. [rows[i] EXCEPT !.status = st] \in Row /\ [rows[i] EXCEPT !.status = st].status = st
      /\ [rows[i] EXCEPT !.status = st].kind = rows[i].kind
      /\ [rows[i] EXCEPT !.status = st].note = rows[i].note
      /\ [rows[i] EXCEPT !.status = st].done = rows[i].done
  BY <1>1 DEF Row, RowStatuses
<1>3. rows' = [rows EXCEPT ![i] = [rows[i] EXCEPT !.status = st]]
  OBVIOUS
<1> QED BY <1>2, <1>3, ExceptSeq DEF SameRows

LEMMA MarkedDone ==
  ASSUME rows \in Seq(Row), NEW i \in 1 .. Len(rows), NEW st \in RowStatuses,
         rows' = [rows EXCEPT ![i].status = st, ![i].done = TRUE]
  PROVE  SameRows /\ \A j \in 1 .. Len(rows) :
           /\ rows'[j].done = (j = i \/ rows[j].done)
           /\ rows'[j].status = IF j = i THEN st ELSE rows[j].status
<1> DEFINE q == [rows EXCEPT ![i].status = st]
<1>1. rows[i] \in Row
  BY ElementOfSeq
<1>2. [rows[i] EXCEPT !.status = st] \in Row /\ [rows[i] EXCEPT !.status = st].status = st
      /\ [rows[i] EXCEPT !.status = st].kind = rows[i].kind
      /\ [rows[i] EXCEPT !.status = st].note = rows[i].note
  BY <1>1 DEF Row, RowStatuses
<1>3. q = [rows EXCEPT ![i] = [rows[i] EXCEPT !.status = st]]
  OBVIOUS
<1>4. /\ q \in Seq(Row) /\ Len(q) = Len(rows)
      /\ \A j \in 1 .. Len(rows) : j # i => q[j] = rows[j]
      /\ q[i] \in Row /\ q[i].status = st /\ q[i].kind = rows[i].kind /\ q[i].note = rows[i].note
  BY <1>2, <1>3, ExceptSeq
<1>5. rows' = [q EXCEPT ![i].done = TRUE]
  OBVIOUS
<1> HIDE DEF q
<1>6. [q[i] EXCEPT !.done = TRUE] \in Row /\ [q[i] EXCEPT !.done = TRUE].done = TRUE
      /\ [q[i] EXCEPT !.done = TRUE].status = st
      /\ [q[i] EXCEPT !.done = TRUE].kind = rows[i].kind
      /\ [q[i] EXCEPT !.done = TRUE].note = rows[i].note
  BY <1>4 DEF Row
<1>7. rows' = [q EXCEPT ![i] = [q[i] EXCEPT !.done = TRUE]]
  BY <1>5
<1> DEFINE e == [q[i] EXCEPT !.done = TRUE]
<1>8. /\ e \in Row /\ e.done = TRUE /\ e.status = st /\ e.kind = rows[i].kind /\ e.note = rows[i].note
      /\ rows' = [q EXCEPT ![i] = e]
  BY <1>6, <1>7
<1> HIDE DEF e
<1>9. i \in 1 .. Len(q)
  BY <1>4
<1>10. /\ rows' \in Seq(Row) /\ Len(rows') = Len(q)
       /\ \A j \in 1 .. Len(q) : rows'[j] = IF j = i THEN e ELSE q[j]
  <2>1. q \in Seq(Row) /\ e \in Row
    BY <1>4, <1>8
  <2>2. /\ [q EXCEPT ![i] = e] \in Seq(Row) /\ Len([q EXCEPT ![i] = e]) = Len(q)
        /\ \A j \in 1 .. Len(q) : [q EXCEPT ![i] = e][j] = IF j = i THEN e ELSE q[j]
    BY <1>9, <2>1, ExceptSeq
  <2> QED BY <1>8, <2>2
<1>11. \A j \in 1 .. Len(rows) : rows'[j] = IF j = i THEN e ELSE rows[j]
  BY <1>4, <1>10
<1>12. ASSUME NEW j \in 1 .. Len(rows)
       PROVE  rows[j].done \in BOOLEAN
  <2>1. rows[j] \in Row
    BY ElementOfSeq
  <2> QED BY <2>1 DEF Row
<1> QED BY <1>4, <1>8, <1>10, <1>11, <1>12 DEF SameRows

(* Photographs stay with their rows.                                       *)
LEMMA RowsKeep ==
  ASSUME VisitInv, SameRows
  PROVE  /\ photos' = photos => Taken' = Taken
         /\ rows' # <<>> <=> rows # <<>>
         /\ rows # <<>> => rows'[1].kind = rows[1].kind
         /\ \A j \in 1 .. Len(rows') : rows'[j].kind = "detail_shot" => rows'[j].note
<1>1. rows \in Seq(Row) /\ Len(rows) \in Nat /\ (rows # <<>> <=> Len(rows) > 0)
  BY LenProperties, EmptySeq DEF VisitInv, RowInv
<1>2. rows' # <<>> <=> Len(rows') > 0
  BY LenProperties, EmptySeq DEF SameRows
<1>3. \A p \in photos : p.row \in 1 .. Len(rows)
  BY DEF VisitInv, OrderInv
<1>4. photos' = photos => Taken' = Taken
  BY <1>3 DEF SameRows, Taken
<1> QED BY <1>1, <1>2, <1>4 DEF SameRows, VisitInv, RowInv

(* What the API does with a row it accepts, to its end or not.             *)
LEMMA CarryOutKeeps ==
  ASSUME VisitInv, NEW i \in 1 .. Len(rows), NEW broken \in BOOLEAN,
         Accepts(rows[i].kind), CarryOut(i, broken)
  PROVE  /\ status' \in Statuses
         /\ photos' \subseteq Photo /\ photos \subseteq photos'
         /\ \A p \in photos' : p.row \in 1 .. Len(rows)
         /\ ~broken /\ rows[i].kind \in {"wide_shot", "detail_shot"}
              => \E p \in photos' : p.row = i /\ (p.geotag = "valid" \/ p.reviewed)
         /\ IF status' = "completed_pending_approval"
              THEN hasEvidence /\ photos' = photos
              ELSE \A n \in Notices : task'[n].at = "none"
         /\ OutboxInv' /\ deliveries' = deliveries
         /\ status # "completed_pending_approval" /\ \A n \in Notices : task[n].at = "none"
<1> USE DEF VisitInv
<1>1. ScreenInv /\ RowInv /\ OrderInv /\ OutboxInv /\ rows[i] \in Row /\ i \in RowIds
  BY BoundAssumption, LenProperties, ElementOfSeq DEF RowInv, RowIds
<1>2. status # "completed_pending_approval"
  BY DEF Accepts
<1>3. \A n \in Notices : task[n].at = "none"
  BY <1>1, <1>2 DEF OrderInv
<1>4. CASE rows[i].kind = "start"
  BY <1>1, <1>2, <1>3, <1>4 DEF CarryOut, Statuses, OrderInv, outboxVars, OutboxInv, OutboxTypeOK, JobFits
<1>5. CASE rows[i].kind = "complete"
  <2>1. status' = "completed_pending_approval" /\ photos' = photos /\ hasEvidence
    BY <1>5 DEF CarryOut, Accepts
  <2>2. OutboxInv' /\ deliveries' = deliveries
    <3>1. CASE broken
      BY <1>1, <1>5, <3>1 DEF CarryOut, outboxVars, OutboxInv, OutboxTypeOK, JobFits
    <3>2. CASE ~broken
      <4>1. notify("task_completed", {"email", "sms", "whatsapp"})
        BY <1>5, <3>2 DEF CarryOut
      <4> QED BY <1>1, <1>3, <4>1, NotifyKeeps, EventAssumption DEF Channels
    <3> QED BY <3>1, <3>2
  <2> QED BY <1>1, <1>2, <1>3, <1>5, <2>1, <2>2 DEF Statuses, OrderInv
<1>6. CASE rows[i].kind \in {"wide_shot", "detail_shot"}
  <2> DEFINE g == resolveGeotagStatus(extractExifData)
             p == [row |-> i, geotag |-> g, reviewed |-> NeedsReview(g) /\ ~broken]
  <2>1. photos' = photos \cup {p} /\ UNCHANGED <<status, outboxVars>>
    BY <1>6 DEF CarryOut
  <2>2. g \in Geotags
    BY DEF resolveGeotagStatus, extractExifData, Geotags
  <2> HIDE DEF g
  <2>3. p \in Photo /\ p.row = i /\ (~broken => p.geotag = "valid" \/ p.reviewed)
    BY <1>1, <2>2 DEF Photo, NeedsReview
  <2> HIDE DEF p
  <2>4. OutboxInv'
    BY <1>1, <2>1 DEF outboxVars, OutboxInv, OutboxTypeOK, JobFits
  <2> QED BY <1>1, <1>2, <1>3, <1>6, <2>1, <2>3, <2>4 DEF OrderInv, outboxVars
<1> QED BY <1>1, <1>2, <1>3, <1>4, <1>5, <1>6 DEF Row, Kinds

LEMMA FlushKeeps ==
  ASSUME VisitInv, SameRows, NEW x \in Contexts, NEW f \in Flush,
         f.todo \subseteq 1 .. Len(rows), f.key \in (1 .. Len(rows)) \cup {None},
         flush' = [flush EXCEPT ![x] = f]
  PROVE  RowInv'
<1>1. RowInv /\ \A j \in 1 .. Len(rows') : rows'[j].kind = "detail_shot" => rows'[j].note
  BY RowsKeep DEF VisitInv
<1>2. flush' \in [Contexts -> Flush] /\ \A y \in Contexts : flush'[y] = IF y = x THEN f ELSE flush[y]
  BY <1>1 DEF RowInv
<1> QED BY <1>1, <1>2 DEF RowInv, SameRows

LEMMA SyncKeeps ==
  ASSUME VisitInv, NEW x \in Contexts, SyncStep(x) \/ Broken(x) \/ Lost(x)
  PROVE  VisitInv' /\ deliveries' = deliveries
<1> DEFINE i == flush[x].key
<1> USE DEF VisitInv
<1>1. /\ ScreenInv /\ StartInv /\ RowInv /\ OrderInv /\ OutboxInv /\ UNCHANGED screenVars
      /\ rows \in Seq(Row) /\ Len(rows) \in Nat /\ 1 .. Len(rows) \subseteq RowIds
      /\ flush[x] \in Flush /\ flush[x].todo \subseteq 1 .. Len(rows)
      /\ i \in (1 .. Len(rows)) \cup {None}
  <2>1. UNCHANGED screenVars
    BY DEF SyncStep, BeginFlush, MarkSyncing, Synced, Refused, Broken, Lost
  <2>2. rows \in Seq(Row) /\ Len(rows) \in Nat /\ Len(rows) <= MaxRows /\ MaxRows \in Nat
    BY LenProperties, BoundAssumption DEF RowInv
  <2>3. 1 .. Len(rows) \subseteq RowIds
    BY <2>2 DEF RowIds
  <2>4. flush[x] \in Flush /\ flush[x].todo \subseteq 1 .. Len(rows)
        /\ i \in (1 .. Len(rows)) \cup {None}
    BY DEF RowInv
  <2> QED BY <2>1, <2>2, <2>3, <2>4
<1>2. ScreenInv'
  BY <1>1 DEF ScreenInv, screenVars
<1>3. FlushIdle \in Flush /\ FlushIdle.todo = {} /\ FlushIdle.key = None
  BY DEF FlushIdle, Flush
<1>4. ASSUME NEW j \in 1 .. Len(rows), SameRows
      PROVE  StartInv'
  <2>1. rows # <<>>
    BY <1>1, <1>4, EmptySeq
  <2> QED BY <1>1, <1>4, <2>1, RowsKeep DEF StartInv
<1>5. CASE BeginFlush(x)
  <2>1. UNCHANGED <<screenVars, rows, orderVars, outboxVars>> /\ SameRows
    BY <1>1, <1>5 DEF BeginFlush, SameRows
  <2>2. PICK todo \in SUBSET (1 .. Len(rows)) : flush' = [flush EXCEPT ![x].todo = todo]
    BY <1>1, <1>5, LenProperties DEF BeginFlush, Pending
  <2>3. [flush[x] EXCEPT !.todo = todo] \in Flush
        /\ [flush[x] EXCEPT !.todo = todo].todo = todo /\ [flush[x] EXCEPT !.todo = todo].key = i
    BY <1>1 DEF Flush
  <2>4. flush' = [flush EXCEPT ![x] = [flush[x] EXCEPT !.todo = todo]]
    BY <2>2
  <2>5. RowInv'
    BY <1>1, <2>1, <2>3, <2>4, FlushKeeps
  <2>6. StartInv' /\ OrderInv' /\ OutboxInv' /\ deliveries' = deliveries
    BY <1>1, <2>1 DEF screenVars, orderVars, outboxVars, StartInv, OrderInv, OutboxInv,
                      OutboxTypeOK, JobFits, hasEvidence, Taken
  <2> QED BY <1>2, <2>5, <2>6
<1>6. CASE MarkSyncing(x)
  <2>1. PICK k \in 1 .. Len(rows) :
          /\ rows' = [rows EXCEPT ![k].status = "syncing"]
          /\ flush' = [flush EXCEPT ![x] = [key |-> k, todo |-> flush[x].todo \ {k}]]
    BY <1>1, <1>6 DEF MarkSyncing
  <2>2. UNCHANGED <<orderVars, outboxVars>>
    BY <1>6 DEF MarkSyncing
  <2>3. SameRows /\ \A j \in 1 .. Len(rows) :
          rows'[j].done = rows[j].done /\ rows'[j].status \in {rows[j].status, "syncing"}
    <3>1. "syncing" \in RowStatuses
      BY DEF RowStatuses
    <3>2. SameRows /\ \A j \in 1 .. Len(rows) :
            rows'[j].done = rows[j].done /\ rows'[j].status = IF j = k THEN "syncing" ELSE rows[j].status
      BY <1>1, <2>1, <3>1, Marked
    <3> QED BY <3>2
  <2>4. [key |-> k, todo |-> flush[x].todo \ {k}] \in Flush
    BY <1>1 DEF Flush
  <2>5. RowInv'
    BY <1>1, <2>1, <2>3, <2>4, FlushKeeps
  <2>6. Taken' = Taken
    BY <2>2, <2>3, RowsKeep DEF orderVars
  <2>7. OrderInv'
    BY <1>1, <2>2, <2>3, <2>6 DEF SameRows, OrderInv, orderVars, outboxVars, hasEvidence
  <2>8. OutboxInv' /\ deliveries' = deliveries
    BY <1>1, <2>2 DEF outboxVars, OutboxInv, OutboxTypeOK, JobFits
  <2> QED BY <1>2, <1>4, <2>3, <2>5, <2>7, <2>8
<1>7. ASSUME i \in 1 .. Len(rows), NEW st \in RowStatuses \ {"synced"},
             rows' = [rows EXCEPT ![i].status = st], UNCHANGED <<orderVars, outboxVars>>,
             flush' = [flush EXCEPT ![x] = FlushIdle]
      PROVE  VisitInv' /\ deliveries' = deliveries
  <2> HIDE DEF i
  <2>1. SameRows /\ \A j \in 1 .. Len(rows) :
          rows'[j].done = rows[j].done /\ rows'[j].status \in {rows[j].status, st}
    <3>1. st \in RowStatuses
      BY <1>7
    <3>2. SameRows /\ \A j \in 1 .. Len(rows) :
            rows'[j].done = rows[j].done /\ rows'[j].status = IF j = i THEN st ELSE rows[j].status
      BY <1>1, <1>7, <3>1, Marked
    <3> QED BY <3>2
  <2>2. RowInv'
    BY <1>1, <1>3, <1>7, <2>1, FlushKeeps
  <2>3. Taken' = Taken
    BY <1>7, <2>1, RowsKeep DEF orderVars
  <2>4. OrderInv'
    BY <1>1, <1>7, <2>1, <2>3 DEF SameRows, OrderInv, orderVars, outboxVars, hasEvidence
  <2>5. OutboxInv' /\ deliveries' = deliveries
    BY <1>1, <1>7 DEF outboxVars, OutboxInv, OutboxTypeOK, JobFits
  <2> QED BY <1>2, <1>4, <1>7, <2>1, <2>2, <2>4, <2>5
<1>8. ASSUME i \in 1 .. Len(rows), NEW st \in {"synced", "pending"},
             rows' = [rows EXCEPT ![i].status = st, ![i].done = TRUE],
             \/ rows[i].done /\ UNCHANGED <<orderVars, outboxVars>>
             \/ Accepts(rows[i].kind) /\ CarryOut(i, FALSE),
             NEW f \in Flush, f.todo \subseteq 1 .. Len(rows), f.key = None,
             flush' = [flush EXCEPT ![x] = f]
      PROVE  VisitInv' /\ deliveries' = deliveries
  <2> HIDE DEF i
  <2>1. SameRows /\ \A j \in 1 .. Len(rows) :
           /\ rows'[j].done = (j = i \/ rows[j].done)
           /\ rows'[j].status = IF j = i THEN st ELSE rows[j].status
    <3>1. st \in RowStatuses
      BY <1>8 DEF RowStatuses
    <3> QED BY <1>1, <1>8, <3>1, MarkedDone
  <2>2. RowInv'
    BY <1>8, <2>1, FlushKeeps
  <2>3. StartInv'
    BY <1>4, <1>8, <2>1
  <2>4. CASE rows[i].done /\ UNCHANGED <<orderVars, outboxVars>>
    <3>1. Taken' = Taken
      BY <2>1, <2>4, RowsKeep DEF orderVars
    <3>2. \A j \in 1 .. Len(rows) : rows'[j].done => rows[j].done
      BY <2>1, <2>4
    <3>3. OrderInv'
      BY <1>1, <1>8, <2>1, <2>4, <3>1, <3>2 DEF SameRows, OrderInv, orderVars, outboxVars, hasEvidence
    <3>4. OutboxInv' /\ deliveries' = deliveries
      BY <1>1, <2>4 DEF outboxVars, OutboxInv, OutboxTypeOK, JobFits
    <3> QED BY <1>2, <2>2, <2>3, <3>3, <3>4
  <2>5. CASE Accepts(rows[i].kind) /\ CarryOut(i, FALSE)
    <3>1. /\ status' \in Statuses
          /\ photos' \subseteq Photo /\ photos \subseteq photos'
          /\ \A p \in photos' : p.row \in 1 .. Len(rows)
          /\ rows[i].kind \in {"wide_shot", "detail_shot"}
               => \E p \in photos' : p.row = i /\ (p.geotag = "valid" \/ p.reviewed)
          /\ IF status' = "completed_pending_approval"
               THEN hasEvidence /\ photos' = photos
               ELSE \A n \in Notices : task'[n].at = "none"
          /\ OutboxInv' /\ deliveries' = deliveries
      BY <1>8, <2>5, CarryOutKeeps
    <3>2. status' = "completed_pending_approval" => hasEvidence'
      BY <2>1, <3>1, RowsKeep DEF hasEvidence
    <3>3. \A j \in 1 .. Len(rows') :
            /\ rows'[j].status = "synced" => rows'[j].done
            /\ rows'[j].done /\ rows'[j].kind \in {"wide_shot", "detail_shot"}
                 => \E p \in photos' : p.row = j /\ (p.geotag = "valid" \/ p.reviewed)
      BY <1>1, <1>8, <2>1, <3>1 DEF SameRows, OrderInv
    <3>4. OrderInv'
      BY <2>1, <3>1, <3>2, <3>3 DEF SameRows, OrderInv
    <3> QED BY <1>2, <2>2, <2>3, <3>1, <3>4
  <2> QED BY <1>8, <2>4, <2>5
<1>9. ASSUME i \in 1 .. Len(rows), Accepts(rows[i].kind), CarryOut(i, TRUE), ~rows[i].done,
             rows' = [rows EXCEPT ![i].status = "failed"], flush' = [flush EXCEPT ![x] = FlushIdle]
      PROVE  VisitInv' /\ deliveries' = deliveries
  <2> HIDE DEF i
  <2>1. SameRows /\ \A j \in 1 .. Len(rows) :
          rows'[j].done = rows[j].done /\ rows'[j].status \in {rows[j].status, "failed"}
    <3>1. "failed" \in RowStatuses
      BY DEF RowStatuses
    <3>2. SameRows /\ \A j \in 1 .. Len(rows) :
            rows'[j].done = rows[j].done /\ rows'[j].status = IF j = i THEN "failed" ELSE rows[j].status
      BY <1>1, <1>9, <3>1, Marked
    <3> QED BY <3>2
  <2>2. RowInv'
    BY <1>1, <1>3, <1>9, <2>1, FlushKeeps
  <2>3. /\ status' \in Statuses
        /\ photos' \subseteq Photo /\ photos \subseteq photos'
        /\ \A p \in photos' : p.row \in 1 .. Len(rows)
        /\ IF status' = "completed_pending_approval"
             THEN hasEvidence /\ photos' = photos
             ELSE \A n \in Notices : task'[n].at = "none"
        /\ OutboxInv' /\ deliveries' = deliveries
    BY <1>9, CarryOutKeeps
  <2>4. status' = "completed_pending_approval" => hasEvidence'
    BY <2>1, <2>3, RowsKeep DEF hasEvidence
  <2>5. \A j \in 1 .. Len(rows') :
          /\ rows'[j].status = "synced" => rows'[j].done
          /\ rows'[j].done /\ rows'[j].kind \in {"wide_shot", "detail_shot"}
               => \E p \in photos' : p.row = j /\ (p.geotag = "valid" \/ p.reviewed)
    BY <1>1, <2>1, <2>3 DEF SameRows, OrderInv
  <2>6. OrderInv'
    BY <2>1, <2>3, <2>4, <2>5 DEF SameRows, OrderInv
  <2> QED BY <1>2, <1>4, <1>9, <2>1, <2>2, <2>3, <2>6
<1>10. i # None => i \in 1 .. Len(rows)
  BY <1>1
<1>11. CASE Synced(x)
  <2>1. [flush[x] EXCEPT !.key = None] \in Flush /\ [flush[x] EXCEPT !.key = None].key = None
        /\ [flush[x] EXCEPT !.key = None].todo = flush[x].todo
    BY <1>1 DEF Flush
  <2>2. flush' = [flush EXCEPT ![x] = [flush[x] EXCEPT !.key = None]]
    BY <1>11 DEF Synced
  <2>3. /\ rows' = [rows EXCEPT ![i].status = "synced", ![i].done = TRUE]
        /\ \/ rows[i].done /\ UNCHANGED <<orderVars, outboxVars>>
           \/ Accepts(rows[i].kind) /\ CarryOut(i, FALSE)
        /\ i # None
    BY <1>11 DEF Synced
  <2> QED BY <1>1, <1>8, <1>10, <2>1, <2>2, <2>3
<1>12. CASE Refused(x)
  <2>1. i # None /\ rows' = [rows EXCEPT ![i].status = "failed"]
        /\ flush' = [flush EXCEPT ![x] = FlushIdle] /\ UNCHANGED <<orderVars, outboxVars>>
    BY <1>12 DEF Refused
  <2> HIDE DEF i
  <2> QED BY <1>7, <1>10, <2>1 DEF RowStatuses
<1>13. CASE Broken(x)
  BY <1>9, <1>10, <1>13 DEF Broken
<1>14. CASE Lost(x)
  <2>1. i # None /\ flush' = [flush EXCEPT ![x] = FlushIdle]
    BY <1>14 DEF Lost
  <2>2. \/ rows' = [rows EXCEPT ![i].status = "pending"] /\ UNCHANGED <<orderVars, outboxVars>>
        \/ /\ rows' = [rows EXCEPT ![i].status = "pending", ![i].done = TRUE]
           /\ Accepts(rows[i].kind) /\ CarryOut(i, FALSE)
    BY <1>14 DEF Lost
  <2> HIDE DEF i
  <2>3. "pending" \in RowStatuses \ {"synced"} /\ i \in 1 .. Len(rows)
    BY <1>10, <2>1 DEF RowStatuses
  <2>4. CASE rows' = [rows EXCEPT ![i].status = "pending"] /\ UNCHANGED <<orderVars, outboxVars>>
    BY <1>7, <2>1, <2>3, <2>4
  <2>5. CASE /\ rows' = [rows EXCEPT ![i].status = "pending", ![i].done = TRUE]
             /\ Accepts(rows[i].kind) /\ CarryOut(i, FALSE)
    BY <1>3, <1>8, <2>1, <2>3, <2>5
  <2> QED BY <2>2, <2>4, <2>5
<1> QED BY <1>5, <1>6, <1>11, <1>12, <1>13, <1>14 DEF SyncStep

(* Reload: handlers and the page's flush are gone, rows are sent again.    *)
LEMMA ReloadKeeps ==
  ASSUME VisitInv, Reload
  PROVE  VisitInv'
<1> USE DEF VisitInv
<1> DEFINE again(j) == IF rows[j].status = "syncing" THEN [rows[j] EXCEPT !.status = "pending"] ELSE rows[j]
<1>1. /\ ScreenInv /\ StartInv /\ RowInv /\ OrderInv /\ OutboxInv /\ UNCHANGED <<orderVars, outboxVars>>
      /\ locating' = 0 /\ putting' = <<>> /\ rows' = [j \in 1 .. Len(rows) |-> again(j)]
      /\ flush' = [x \in Contexts |-> IF x = "page" THEN FlushIdle ELSE flush[x]]
  BY LenProperties DEF Reload, RowInv
<1>2. \A j \in 1 .. Len(rows) :
        /\ again(j) \in Row /\ again(j).kind = rows[j].kind /\ again(j).note = rows[j].note
        /\ again(j).done = rows[j].done /\ again(j).status \in {rows[j].status, "pending"}
  <2> TAKE j \in 1 .. Len(rows)
  <2>1. rows[j] \in Row
    BY <1>1, ElementOfSeq DEF RowInv
  <2> QED BY <2>1 DEF Row
<1> HIDE DEF again
<1>3. SameRows
  <2>1. Len(rows) \in Nat
    BY <1>1, LenProperties DEF RowInv
  <2>2. rows' \in Seq(Row) /\ Len(rows') = Len(rows)
    BY <1>1, <1>2, <2>1
  <2>3. \A j \in 1 .. Len(rows) : rows'[j] = again(j)
    BY <1>1
  <2> QED BY <1>2, <2>2, <2>3 DEF SameRows
<1>4. \A j \in 1 .. Len(rows) :
        rows'[j].done = rows[j].done /\ rows'[j].status \in {rows[j].status, "pending"}
  BY <1>1, <1>2
<1>5. RowInv'
  <2>1. FlushIdle \in Flush /\ FlushIdle.todo = {} /\ FlushIdle.key = None
    BY DEF FlushIdle, Flush
  <2>2. /\ flush' \in [Contexts -> Flush]
        /\ \A x \in Contexts : flush'[x].todo \subseteq 1 .. Len(rows)
                               /\ flush'[x].key \in (1 .. Len(rows)) \cup {None}
    BY <1>1, <2>1 DEF RowInv
  <2> QED BY <1>1, <1>3, <2>2, RowsKeep DEF RowInv, SameRows
<1>6. OrderInv'
  <2>1. Taken' = Taken
    BY <1>1, <1>3, RowsKeep DEF orderVars
  <2> QED BY <1>1, <1>3, <1>4, <2>1 DEF SameRows, OrderInv, orderVars, outboxVars, hasEvidence
<1>7. OutboxInv'
  BY <1>1 DEF outboxVars, OutboxInv, OutboxTypeOK, JobFits
<1>8. PICK t \in {status, cached["list"], cached["detail"], None} :
        /\ screen' \in {Fresh(screen.at), [Fresh(screen.at) EXCEPT !.task = t]}
        /\ cached' \in {cached, [cached EXCEPT ![screen.at] = status]}
        /\ screen.at \notin {"list", "detail"} => cached' = cached
  BY DEF Reload
<1>9. screen.at \in {"list", "detail", "capture", "complete"} /\ t \in Statuses \cup {None}
  BY <1>1 DEF ScreenInv, Screen, OrderInv
<1>10. screen' \in Screen /\ screen'.at = screen.at /\ screen'.step = 0 /\ screen'.task \in {t, None}
  <2>1. PICK at \in {"list", "detail", "capture", "complete"} : at = screen.at
    BY <1>9
  <2>2. [Fresh(at) EXCEPT !.task = t].step = 0
    BY DEF Fresh
  <2>3. /\ Fresh(at) \in Screen /\ Fresh(at).at = at /\ Fresh(at).task = None /\ Fresh(at).step = 0
        /\ [Fresh(at) EXCEPT !.task = t] \in Screen
        /\ [Fresh(at) EXCEPT !.task = t].at = at /\ [Fresh(at) EXCEPT !.task = t].task = t
    BY <1>9, FreshScreen
  <2>4. screen' = Fresh(at) \/ screen' = [Fresh(at) EXCEPT !.task = t]
    BY <1>8, <2>1
  <2> QED BY <2>1, <2>2, <2>3, <2>4
<1>11. cached' \in [{"list", "detail"} -> Statuses \cup {None}]
       /\ {cached'["list"], cached'["detail"]} \subseteq {status, cached["list"], cached["detail"]}
  <2>1. cached \in [{"list", "detail"} -> Statuses \cup {None}] /\ status \in Statuses
    BY <1>1 DEF ScreenInv, OrderInv
  <2>2. CASE cached' = cached
    BY <2>1, <2>2
  <2>3. CASE screen.at \in {"list", "detail"} /\ cached' = [cached EXCEPT ![screen.at] = status]
    BY <2>1, <2>3
  <2> QED BY <1>8, <2>2, <2>3
<1>12. ScreenInv'
  <2>1. <<>> \in Seq(Tapped) /\ Len(<<>>) = 0
    OBVIOUS
  <2> QED BY <1>1, <1>10, <1>11, <2>1, BoundAssumption DEF ScreenInv
<1>13. StartInv'
  BY <1>1, <1>3, <1>8, <1>10, <1>11, RowsKeep DEF StartInv, orderVars
<1> QED BY <1>5, <1>6, <1>7, <1>12, <1>13

-----------------------------------------------------------------------------
LEMMA JobKeeps ==
  ASSUME VisitInv, NEW n \in Notices, WorkerStep(n) \/ Stall(n),
         UNCHANGED <<screenVars, queueVars, orderVars>>
  PROVE  VisitInv' /\ (notice[n] = "sent" => deliveries' = deliveries)
<1>1. OutboxInv' /\ (notice[n] = "sent" => deliveries' = deliveries)
  BY WorkerKeeps DEF VisitInv
<1>2. ScreenInv' /\ StartInv' /\ RowInv'
  BY DEF VisitInv, ScreenInv, StartInv, RowInv, screenVars, queueVars, orderVars
<1>3. task[n].at # "none"
  BY DEF WorkerStep, ReadNotice, Send, MarkSent, Catch, Finish, Stall, UnderWork
<1>4. OrderInv'
  BY <1>3 DEF VisitInv, OrderInv, screenVars, queueVars, orderVars, hasEvidence, Taken
<1> QED BY <1>1, <1>2, <1>4 DEF VisitInv

LEMMA VisitStep ==
  ASSUME VisitInv, [Next]_vars
  PROVE  VisitInv'
<1>1. CASE Work
  BY <1>1, NavigateKeeps, TapKeeps, PutKeeps, SyncKeeps, JobKeeps DEF Work, Worker
<1>2. CASE Reload
  BY <1>2, ReloadKeeps
<1>3. CASE \E x \in Contexts : Broken(x) \/ Lost(x)
  BY <1>3, SyncKeeps
<1>4. CASE \E n \in Notices : Stall(n) /\ UNCHANGED <<screenVars, queueVars, orderVars>>
  BY <1>4, JobKeeps
<1>5. CASE UNCHANGED vars
  BY <1>5 DEF vars, screenVars, queueVars, orderVars, outboxVars, VisitInv, ScreenInv, StartInv, RowInv,
              OrderInv, OutboxInv, OutboxTypeOK, JobFits, hasEvidence, Taken
<1> QED BY <1>1, <1>2, <1>3, <1>4, <1>5 DEF Next

THEOREM VisitHolds == Spec => []VisitInv
BY InitVisit, VisitStep, PTL DEF Spec

(* Every variable keeps its type, and no more taps, rows and attempts are  *)
(* counted than the bounds allow.                                          *)
THEOREM VisitTyped == Spec => []TypeOK
<1>1. ASSUME VisitInv PROVE TypeOK
  <2>1. Len(putting) \in Nat /\ MaxTaps \in Nat
    BY <1>1, LenProperties, BoundAssumption DEF VisitInv, ScreenInv
  <2> QED BY <1>1, <2>1 DEF VisitInv, ScreenInv, RowInv, OrderInv, OutboxInv, TypeOK, Tapped
<1> QED BY <1>1, VisitHolds, PTL

(* No report is completed without its two photographs and the note of the  *)
(* second, however the buttons are tapped, the screens left and entered    *)
(* and the rows sent (orders.service.ts:486-500, CapturePage.tsx:103-113). *)
THEOREM ReportedFirst == Spec => []CompletedIsReported
<1>1. ASSUME VisitInv PROVE CompletedIsReported
  BY <1>1 DEF VisitInv, OrderInv, RowInv, CompletedIsReported, hasEvidence, Taken
<1> QED BY <1>1, VisitHolds, PTL

(* The first row that is queued is a start (TaskDetailPage.tsx:48-49,71).  *)
THEOREM StartedFirst == Spec => []StartComesFirst
<1>1. ASSUME VisitInv PROVE StartComesFirst
  BY <1>1 DEF VisitInv, StartInv, StartComesFirst
<1> QED BY <1>1, VisitHolds, PTL

(* Ops is told of every photograph that is seen as sent and whose place    *)
(* and time are not confirmed (orders.service.ts:432-445).                 *)
THEOREM ReviewedBefore == Spec => []SyncedIsReviewed
<1>1. ASSUME VisitInv PROVE SyncedIsReviewed
  BY <1>1, LenProperties DEF VisitInv, OrderInv, RowInv, SyncedIsReviewed
<1> QED BY <1>1, VisitHolds, PTL

(* A row says sent only once the provider has taken the message, for any   *)
(* number of attempts (notifications.processor.ts:50-73).                  *)
THEOREM SentBefore == Spec => []SentIsSent
<1>1. ASSUME VisitInv PROVE SentIsSent
  BY <1>1 DEF VisitInv, OutboxInv, JobFits, SentIsSent
<1> QED BY <1>1, VisitHolds, PTL

(* Nothing that is marked as sent is sent again, whatever dies             *)
(* (notifications.processor.ts:34-36).                                     *)
THEOREM SentOnce == Spec => SentIsLast
<1>1. ASSUME VisitInv, [Next]_vars
      PROVE  [\A n \in Notices : notice[n] = "sent" => deliveries'[n] = deliveries[n]]_outboxVars
  <2>1. CASE \E n \in Notices : WorkerStep(n) \/ Stall(n)
    <3>1. PICK n \in Notices : WorkerStep(n) \/ Stall(n)
      BY <2>1
    <3>2. notice[n] = "sent" => deliveries' = deliveries
      BY <1>1, <3>1, WorkerKeeps DEF VisitInv
    <3>3. \A m \in Notices \ {n} : deliveries'[m] = deliveries[m]
      BY <1>1, <3>1 DEF WorkerStep, ReadNotice, Send, Provider, Accepted, MarkSent, Catch, Finish, Stall,
                        VisitInv, OutboxInv, OutboxTypeOK
    <3> QED BY <3>2, <3>3
  <2>2. CASE deliveries' = deliveries
    BY <2>2
  <2>3. CASE Navigate \/ Tap \/ Located \/ Put \/ Reload \/ UNCHANGED vars
    BY <2>3 DEF Navigate, Tap, handleStart, handleShoot, handleRetake, WriteNote, handleConfirm,
                handleComplete, Located, Put, Reload, vars, outboxVars
  <2>4. CASE \E x \in Contexts : SyncStep(x) \/ Broken(x) \/ Lost(x)
    BY <1>1, <2>2, <2>4, SyncKeeps
  <2> QED BY <1>1, <2>1, <2>3, <2>4 DEF Next, Work, Worker
<1> QED BY <1>1, VisitHolds, PTL DEF Spec, SentIsLast

-----------------------------------------------------------------------------
(* What a database that answers at the last attempt gives                  *)

DecidedFits(n) ==
  /\ task[n].at = "throw" /\ LastAttempt(n) => notice[n] \in {"sent", "failed"}
  /\ task[n].at = "done" => notice[n] \in {"sent", "failed"}

DecidedInv == \A n \in Notices : DecidedFits(n)

Answered ==
  \A n \in Notices : LastAttempt(n) =>
    /\ task[n].at = "wait" => task'[n].at # "throw"
    /\ task[n].at = "caught" /\ task'[n].at = "throw" => notice'[n] = "failed"

LEMMA JobDecides ==
  ASSUME OutboxInv, DecidedInv, [Answered]_outboxVars, NEW n \in Notices, WorkerStep(n) \/ Stall(n)
  PROVE  DecidedInv'
<1>1. /\ task[n] \in Task /\ JobFits(n) /\ task[n].made \in Nat /\ Attempts \in Nat
      /\ task \in [Notices -> Task] /\ notice \in [Notices -> {"absent", "queued", "sent", "failed"}]
  BY AttemptsAssumption DEF OutboxInv, OutboxTypeOK, Task
<1>2. \A m \in Notices \ {n} : task'[m] = task[m] /\ notice'[m] = notice[m]
  BY <1>1 DEF WorkerStep, ReadNotice, Send, Provider, MarkSent, Catch, Finish, Stall, TaskAt
<1>3. DecidedFits(n)'
  <2>1. CASE ReadNotice(n)
    <3>1. task[n].at = "wait" /\ \E at \in {"return", "send", "throw"} : TaskAt(n, at)
      BY <2>1 DEF ReadNotice
    <3>2. task'[n].at \in {"return", "send", "throw"} /\ task'[n].made = task[n].made
      BY <3>1, TaskMoved DEF OutboxInv
    <3>3. task'[n].at = "throw" => ~LastAttempt(n)
      BY <3>1, <3>2 DEF Answered, outboxVars
    <3> QED BY <3>2, <3>3 DEF DecidedFits, LastAttempt
  <2>2. CASE Send(n) \/ MarkSent(n)
    <3>1. \E at \in {"mark", "caught", "return"} : TaskAt(n, at)
      BY <2>2 DEF Send, Provider, MarkSent
    <3> QED BY <3>1, TaskMoved DEF OutboxInv, DecidedFits
  <2>3. CASE Catch(n)
    <3>1. TaskAt(n, "throw") /\ task[n].at = "caught"
      BY <2>3 DEF Catch
    <3>2. task'[n].at = "throw" /\ task'[n].made = task[n].made
      BY <3>1, TaskMoved DEF OutboxInv
    <3>3. LastAttempt(n) => notice'[n] = "failed"
      BY <3>1, <3>2 DEF Answered, outboxVars
    <3> QED BY <3>2, <3>3 DEF DecidedFits, LastAttempt
  <2>4. CASE Finish(n)
    <3>1. CASE task[n].at = "return" /\ TaskAt(n, "done")
      <4>1. task'[n].at = "done" /\ notice'[n] = "sent"
        BY <1>1, <2>4, <3>1, TaskMoved DEF OutboxInv, Finish, JobFits
      <4> QED BY <4>1 DEF DecidedFits
    <3>2. CASE task[n].at = "throw"
      <4>1. task'[n].at = (IF task[n].made + 1 < Attempts THEN "wait" ELSE "done") /\ notice' = notice
        BY <1>1, <2>4, <3>2 DEF Finish
      <4>2. task'[n].at = "done" => LastAttempt(n)
        BY <1>1, <4>1 DEF LastAttempt
      <4> QED BY <3>2, <4>1, <4>2 DEF DecidedFits, DecidedInv
    <3> QED BY <2>4, <3>1, <3>2 DEF Finish
  <2>5. CASE Stall(n)
    <3>1. task'[n].at \in {"wait", "dead"}
      BY <1>1, <2>5 DEF Stall
    <3> QED BY <3>1 DEF DecidedFits
  <2> QED BY <2>1, <2>2, <2>3, <2>4, <2>5 DEF WorkerStep
<1> QED BY <1>2, <1>3 DEF DecidedInv, DecidedFits, LastAttempt

(* What the API carries out starts jobs, and ends none.                    *)
LEMMA SyncDecides ==
  ASSUME VisitInv, DecidedInv, NEW x \in Contexts, SyncStep(x) \/ Broken(x) \/ Lost(x)
  PROVE  DecidedInv'
<1>1. CASE UNCHANGED outboxVars
  BY <1>1 DEF DecidedInv, DecidedFits, LastAttempt, outboxVars
<1>2. ASSUME NEW i \in 1 .. Len(rows), NEW broken \in BOOLEAN, Accepts(rows[i].kind), CarryOut(i, broken)
      PROVE  DecidedInv'
  <2>1. \A n \in Notices : task[n].at = "none"
    BY <1>2, CarryOutKeeps
  <2>2. CASE rows[i].kind = "complete" /\ ~broken
    <3>1. notify("task_completed", {"email", "sms", "whatsapp"})
      BY <1>2, <2>2 DEF CarryOut
    <3>2. \A n \in Notices : task'[n] = [NoTask EXCEPT !.at = "wait"] \/ task'[n] = task[n]
      BY <3>1 DEF notify
    <3>3. \A n \in Notices : task'[n].at \in {"wait", "none"}
      BY <2>1, <3>2 DEF NoTask
    <3> QED BY <3>3 DEF DecidedInv, DecidedFits
  <2>3. CASE UNCHANGED outboxVars
    BY <2>3 DEF DecidedInv, DecidedFits, LastAttempt, outboxVars
  <2> QED BY <1>2, <2>2, <2>3 DEF CarryOut
<1>3. flush[x].key # None => flush[x].key \in 1 .. Len(rows)
  BY DEF VisitInv, RowInv
<1> QED BY <1>1, <1>2, <1>3 DEF SyncStep, BeginFlush, MarkSyncing, Synced, Refused, Broken, Lost

(* A job that has had its attempts has decided its notification, whatever  *)
(* the provider answers and whichever worker dies, as long as the database *)
(* answers at the last attempt (notifications.processor.ts:23-36,74-90).   *)
THEOREM EndedDecided == Spec /\ LastAttemptAnswered => []EndedIsDecided
<1>1. Init => DecidedInv
  BY DEF Init, OutboxInit, NoTask, DecidedInv, DecidedFits
<1>2. VisitInv /\ DecidedInv /\ [Next]_vars /\ [Answered]_outboxVars => DecidedInv'
  <2> SUFFICES ASSUME VisitInv, DecidedInv, [Next]_vars, [Answered]_outboxVars PROVE DecidedInv'
    OBVIOUS
  <2>1. CASE \E n \in Notices : WorkerStep(n) \/ Stall(n)
    BY <2>1, JobDecides DEF VisitInv
  <2>2. CASE Navigate \/ Tap \/ Located \/ Put \/ Reload \/ UNCHANGED vars
    <3>1. UNCHANGED outboxVars
      BY <2>2 DEF Navigate, Tap, handleStart, handleShoot, handleRetake, WriteNote, handleConfirm,
                  handleComplete, Located, Put, Reload, vars
    <3> QED BY <3>1 DEF DecidedInv, DecidedFits, LastAttempt, outboxVars
  <2>3. CASE \E x \in Contexts : SyncStep(x) \/ Broken(x) \/ Lost(x)
    BY <2>3, SyncDecides
  <2> QED BY <2>1, <2>2, <2>3 DEF Next, Work, Worker
<1>3. DecidedInv => EndedIsDecided
  BY DEF DecidedInv, DecidedFits, EndedIsDecided
<1>4. LastAttemptAnswered => [][Answered]_outboxVars
  BY PTL DEF LastAttemptAnswered, Answered
<1> QED BY <1>1, <1>2, <1>3, <1>4, VisitHolds, PTL DEF Spec
=============================================================================
