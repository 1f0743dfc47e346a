------------------------- MODULE InquiryNotifications -------------------------
(***************************************************************************)
(* Inquiries composed with the Celery workers that turn the enqueued tasks *)
(* into rows of the notification feed and FCM pushes                       *)
(* (apps/notifications/tasks.py, services.notify_user).                    *)
(*                                                                         *)
(* A task carries only the inquiry's id: what it says is decided by the    *)
(* status it reads when it runs.  Messages are acknowledged when taken, so *)
(* a worker that dies loses its task; a task that raises is put back up to *)
(* MaxRetries times.                                                       *)
(***************************************************************************)
EXTENDS Inquiries

CONSTANTS Workers,       \* Celery worker processes
          PushMayRaise,  \* may send_push_to_user raise (FCM or credentials unavailable)?
          WorkersCrash,  \* may a worker die in the middle of a task?
          NoTask         \* placeholder in an idle worker

ASSUME WorkersAssumption ==
  PushMayRaise \in BOOLEAN /\ WorkersCrash \in BOOLEAN /\ NoTask \notin Tasks

VARIABLES worker,  \* [Workers -> the task each is running and how far it got]
          feed     \* [FeedRows -> how many such Notification rows are stored]

allVars == <<vars, worker, feed>>

-----------------------------------------------------------------------------
Recipients == {"family", "tutor"}
Row(i, to, type, s) == [inquiry |-> i, to |-> to, type |-> type, status |-> s]

\* Mutation: the payload's status is hard-coded by the answer branch.
ResultRowAccepted(i, s) ==
  CASE s \in {"ACCEPTED", "DECLINED"} -> Row(i, "family", "INQUIRY_RESPONSE", "ACCEPTED")
    [] s = "PENDING"                  -> Row(i, "tutor", "INQUIRY_REQUEST", s)
    [] s = "CANCELLED"                -> Row(i, "tutor", "INQUIRY_CANCEL", s)

\* notify_inquiry_result: recipient and type by the status the task read.
ResultRow(i, s) ==
  CASE s \in {"ACCEPTED", "DECLINED"} -> Row(i, "family", "INQUIRY_RESPONSE", s)
    [] s = "PENDING"                  -> Row(i, "tutor", "INQUIRY_REQUEST", s)
    [] s = "CANCELLED"                -> Row(i, "tutor", "INQUIRY_CANCEL", s)

\* notify_admin_created_inquiry: the tutor first, then the family.
CreatedRow(i, s, to) ==
  Row(i, to, IF to = "tutor" THEN "INQUIRY_REQUEST" ELSE "INQUIRY_CREATED", s)

\* The rows the two tasks can store.
FeedRows ==
  {ResultRow(i, s) : i \in Inquiries, s \in Statuses} \cup
  {CreatedRow(i, s, to) : i \in Inquiries, s \in Statuses, to \in Recipients}

WorkerState ==
  [pc     : {"idle", "get", "write", "push"},
   task   : Tasks \cup {NoTask},
   seen   : Statuses \cup {"none"},
   to     : Recipients]

Resting == [pc |-> "idle", task |-> NoTask, seen |-> "none", to |-> "tutor"]

RowOf(w) ==
  LET m == worker[w].task
  IN IF m.kind = "result" THEN ResultRow(m.inquiry, worker[w].seen)
                          ELSE CreatedRow(m.inquiry, worker[w].seen, worker[w].to)

InitNotifications ==
  /\ Init
  /\ worker = [w \in Workers |-> Resting]
  /\ feed = [n \in FeedRows |-> 0]

-----------------------------------------------------------------------------
(* Mutations of the actions below.                                         *)

\* A message is delivered although it was already taken.
TakeTaskTwice(w, m) ==
  /\ worker[w].pc = "idle"
  /\ queue' = [queue EXCEPT ![m] = @ - 1]
  /\ worker' = [worker EXCEPT ![w] = [Resting EXCEPT !.pc = "get", !.task = m]]
  /\ UNCHANGED <<rows, account, request, history, feed>>

\* The push moves inside notify_user's transaction: a push that raises rolls the row back.
PushRaisesRollsBack(w) ==
  LET m == worker[w].task
  IN /\ PushMayRaise
     /\ worker[w].pc = "push"
     /\ feed' = [feed EXCEPT ![RowOf(w)] = @ - 1]
     /\ IF m.retries < MaxRetries THEN Send([m EXCEPT !.retries = @ + 1])
                                  ELSE UNCHANGED queue
     /\ worker' = [worker EXCEPT ![w] = Resting]
     /\ UNCHANGED <<rows, account, request, history>>

\* Retries are not counted.
PushRaisesForever(w) ==
  /\ PushMayRaise
  /\ worker[w].pc = "push"
  /\ Send(worker[w].task)
  /\ worker' = [worker EXCEPT ![w] = Resting]
  /\ UNCHANGED <<rows, account, request, history, feed>>

-----------------------------------------------------------------------------
\* The message is acknowledged as soon as a worker takes it.
TakeTask(w, m) ==
  /\ worker[w].pc = "idle"
  /\ queue[m] > 0
  /\ queue' = [queue EXCEPT ![m] = @ - 1]
  /\ worker' = [worker EXCEPT ![w] = [Resting EXCEPT !.pc = "get", !.task = m]]
  /\ UNCHANGED <<rows, account, request, history, feed>>

\* Inquiry.objects.get: an inquiry that is gone is logged and skipped.
GetInquiry(w) ==
  LET i == worker[w].task.inquiry
  IN /\ worker[w].pc = "get"
     /\ worker' = [worker EXCEPT ![w] =
                     IF Exists(i) THEN [@ EXCEPT !.pc = "write", !.seen = status[i]]
                                  ELSE Resting]
     /\ UNCHANGED <<vars, feed>>

\* notify_user commits the feed row ...
WriteFeed(w) ==
  /\ worker[w].pc = "write"
  /\ feed' = [feed EXCEPT ![RowOf(w)] = @ + 1]
  /\ worker' = [worker EXCEPT ![w].pc = "push"]
  /\ UNCHANGED vars

\* ... and then sends the push; the task on a created inquiry goes on to the family.
Push(w) ==
  /\ worker[w].pc = "push"
  /\ worker' = [worker EXCEPT ![w] =
                  IF @.task.kind = "created" /\ @.to = "tutor"
                  THEN [@ EXCEPT !.pc = "write", !.to = "family"]
                  ELSE Resting]
  /\ UNCHANGED <<vars, feed>>

\* A push that raises fails the task after its feed row is stored: autoretry_for
\* puts the whole task back, until the retries are used up.
PushRaises(w) ==
  LET m == worker[w].task
  IN /\ PushMayRaise
     /\ worker[w].pc = "push"
     /\ IF m.retries < MaxRetries THEN Send([m EXCEPT !.retries = @ + 1])
                                  ELSE UNCHANGED queue
     /\ worker' = [worker EXCEPT ![w] = Resting]
     /\ UNCHANGED <<rows, account, request, history, feed>>

WorkerDies(w) ==
  /\ WorkersCrash
  /\ worker[w].pc # "idle"
  /\ worker' = [worker EXCEPT ![w] = Resting]
  /\ UNCHANGED <<vars, feed>>

WorkerStep(w) ==
  \/ \E m \in Tasks : TakeTask(w, m)
  \/ GetInquiry(w)
  \/ WriteFeed(w)
  \/ Push(w)
  \/ PushRaises(w)

NextNotifications ==
  \/ Next /\ UNCHANGED <<worker, feed>>
  \/ \E w \in Workers : WorkerStep(w) \/ WorkerDies(w)

SpecNotifications == InitNotifications /\ [][NextNotifications]_allVars

\* gunicorn finishes the requests it started and the Celery workers keep taking tasks;
\* nothing is assumed of users, administrators or crashes.
Fairness ==
  /\ \A r \in Requests : WF_allVars(RequestStep(r) /\ UNCHANGED <<worker, feed>>)
  /\ \A w \in Workers : WF_allVars(WorkerStep(w))

FairSpecNotifications == SpecNotifications /\ Fairness

-----------------------------------------------------------------------------
TypeOKNotifications ==
  /\ TypeOK
  /\ worker \in [Workers -> WorkerState]
  /\ feed \in [FeedRows -> Nat]

\* The kinds of task that will store ResultRow(i, s) if they read status s.
Announces(kind, s) == kind = "result" \/ (kind = "created" /\ s = "PENDING")

\* Who knows, or will learn, the current status of inquiry i: the feed, a request that
\* still has to enqueue, a queued task, or a running task.
InFeed(i) == feed[ResultRow(i, status[i])] > 0

ToEnqueue(r, i) ==
  /\ request[r].inquiry = i
  /\ \/ request[r].pc \in {"reveal", "notify"}
     \/ request[r].pc = "notify_created" /\ status[i] = "PENDING"

Enqueued(m, i) == queue[m] > 0 /\ m.inquiry = i /\ Announces(m.kind, status[i])

Running(w, i) ==
  /\ worker[w].pc \in {"get", "write"}
  /\ worker[w].task.inquiry = i
  /\ Announces(worker[w].task.kind, status[i])
  /\ worker[w].pc = "write" => worker[w].seen = status[i] /\ worker[w].to = "tutor"

(***************************************************************************)
(* No status change is forgotten: at any moment the current status of an   *)
(* inquiry is in the feed of the party it concerns, or a request, a queued *)
(* task or a running task is still going to put it there.  It rests on the *)
(* order of the code: save before delay, feed row before push.  Crashes    *)
(* (early acknowledgement) and the silent admin change form break it.      *)
(***************************************************************************)
NoChangeForgotten ==
  ~RequestsCrash /\ ~WorkersCrash /\ "edit" \notin AdminForms =>
    \A i \in Inquiries : Exists(i) =>
      \/ InFeed(i)
      \/ \E r \in Requests : ToEnqueue(r, i)
      \/ \E m \in Tasks : Enqueued(m, i)
      \/ \E w \in Workers : Running(w, i)

(***************************************************************************)
(* The feed never reports a status the inquiry did not have.               *)
(***************************************************************************)
FeedReportsRealStatuses ==
  \A n \in FeedRows : feed[n] > 0 => <<n.inquiry, n.status>> \in written

(***************************************************************************)
(* A retried task stores its feed row again (notify_user commits the row   *)
(* before the push that raises), but the request notification reaches the  *)
(* tutor at most once per delivery of the one task that can carry it: the  *)
(* tasks enqueued by answers and cancellations never read PENDING.         *)
(***************************************************************************)
RequestRowsBounded ==
  "edit" \notin AdminForms =>
    \A i \in Inquiries : feed[Row(i, "tutor", "INQUIRY_REQUEST", "PENDING")] <= 1 + MaxRetries

(***************************************************************************)
(* Without crashes, once an inquiry has a status and keeps it, the party   *)
(* concerned eventually finds it in the feed -- whether or not the pushes  *)
(* go through.                                                             *)
(***************************************************************************)
FinalStatusReachesFeed ==
  \A i \in Inquiries, s \in Statuses :
    status[i] = s ~> (feed[ResultRow(i, s)] > 0 \/ status[i] # s)
=============================================================================
