--------------------- MODULE InquiryNotifications_proofs ---------------------
(***************************************************************************)
(* Proofs about the feed, for any number of inquiries, requests, workers   *)
(* and retries.                                                            *)
(***************************************************************************)
EXTENDS InquiryNotifications, Inquiries_proofs

WorkersCarry ==
  \A w \in Workers :
    /\ worker[w].pc # "idle" => worker[w].task \in Tasks
    /\ worker[w].pc \in {"write", "push"} =>
         /\ worker[w].seen \in Statuses
         /\ <<worker[w].task.inquiry, worker[w].seen>> \in written
         /\ worker[w].task.kind = "result" => worker[w].to = "tutor"
    /\ worker[w].pc = "get" => worker[w].to = "tutor"

StoredIsWritten == \A i \in Inquiries : Exists(i) => <<i, status[i]>> \in written

NInv == IInv /\ TypeOKNotifications /\ WorkersCarry /\ StoredIsWritten

\* A worker without a task is a well-formed worker record.
LEMMA RestingState == Resting \in WorkerState /\ Resting.pc = "idle"
  BY DEF Resting, WorkerState, Recipients

\* The rows the two tasks build are feed rows.
LEMMA RowsOfTasks ==
  ASSUME NEW i \in Inquiries, NEW s \in Statuses, NEW to \in Recipients
  PROVE  ResultRow(i, s) \in FeedRows /\ CreatedRow(i, s, to) \in FeedRows
  BY DEF FeedRows

\* ... and carry the inquiry and the status they were built from.
LEMMA RowFields ==
  ASSUME NEW i \in Inquiries, NEW s \in Statuses, NEW to \in Recipients
  PROVE  /\ ResultRow(i, s).inquiry = i /\ ResultRow(i, s).status = s
         /\ CreatedRow(i, s, to).inquiry = i /\ CreatedRow(i, s, to).status = s
  BY DEF ResultRow, CreatedRow, Row, Statuses

\* A row a running task stores names an inquiry and a status it had.
LEMMA RunningRow ==
  ASSUME NInv, NEW w \in Workers, worker[w].pc \in {"write", "push"}
  PROVE  /\ RowOf(w) \in FeedRows
         /\ RowOf(w).inquiry = worker[w].task.inquiry
         /\ RowOf(w).status = worker[w].seen
<1>1. worker[w].task \in Tasks /\ worker[w].seen \in Statuses /\ worker[w].to \in Recipients
  BY DEF NInv, WorkersCarry, TypeOKNotifications, WorkerState
<1>2. worker[w].task.inquiry \in Inquiries
  BY <1>1 DEF Tasks
<1> QED BY <1>1, <1>2, RowsOfTasks, RowFields DEF RowOf

\* A step of the requests that leaves the workers alone only adds to written.
LEMMA WrittenGrows == [Next]_vars => written \subseteq written'
  BY DEF Next, RequestStep, UserStep, vars, history, Store, StartCreate, InsertInquiry,
         StartTransition, SaveStatus, RevealContact, SaveFails, Enqueue, RequestDies,
         AdminAdd, AdminEdit, AdminDelete, ChangeAccount

\* The status a row holds was committed by somebody, and stays so.
LEMMA StoredIsWrittenStep ==
  ASSUME IInv, StoredIsWritten, [Next]_vars
  PROVE  StoredIsWritten'
<1> SUFFICES ASSUME NEW i \in Inquiries, Exists(i)'
             PROVE  <<i, status'[i]>> \in written'
  BY DEF StoredIsWritten
<1>1. CASE status'[i] = status[i]
  BY <1>1, WrittenGrows DEF StoredIsWritten, Exists
<1>2. CASE status'[i] # status[i]
  <2>1. PICK j \in Inquiries, s \in Statuses : Store(j, s) \/ AdminDelete(j)
    <3>1. ASSUME NEW r \in Requests, SaveStatus(r)
          PROVE  \E j \in Inquiries, s \in Statuses : Store(j, s)
      BY <3>1 DEF SaveStatus, IInv, RequestsCarry, Bound, Statuses
    <3>2. "PENDING" \in Statuses BY DEF Statuses
    <3> QED BY <1>2, <3>1, <3>2
         DEF Next, RequestStep, UserStep, vars, rows, StartCreate, InsertInquiry,
             StartTransition, RevealContact, SaveFails, Enqueue, RequestDies,
             AdminAdd, AdminEdit, ChangeAccount
  <2>2. CASE Store(j, s)
    BY <1>2, <2>2 DEF Store, IInv, TypeOK
  <2>3. CASE AdminDelete(j)
    BY <1>2, <2>3 DEF AdminDelete, Exists, Statuses, IInv, TypeOK
  <2> QED BY <2>1, <2>2, <2>3
<1> QED BY <1>1, <1>2

\* Workers touch nothing of the inquiries but the queue.
LEMMA QueueOnly ==
  ASSUME IInv, StoredIsWritten, queue' \in [Tasks -> Nat],
         UNCHANGED <<rows, account, request, history>>
  PROVE  IInv' /\ StoredIsWritten'
  BY DEF IInv, TypeOK, RequestsCarry, Bound, StoredIsWritten, Exists, rows, history

\* A step that touches nothing of the inquiries keeps what is known of them.
LEMMA RowsKept ==
  ASSUME IInv, StoredIsWritten, UNCHANGED vars
  PROVE  IInv' /\ StoredIsWritten'
  BY DEF IInv, TypeOK, RequestsCarry, Bound, StoredIsWritten, Exists, vars

\* The initial feed and workers satisfy the invariant of the composition.
LEMMA InitNInv == InitNotifications => NInv
  BY InitIInv, RestingState
     DEF InitNotifications, NInv, IInv, TypeOKNotifications, WorkersCarry, StoredIsWritten,
         Init, Exists, Statuses

\* Every step of requests and workers keeps it.
LEMMA NextNInv == NInv /\ [NextNotifications]_allVars => NInv'
<1> SUFFICES ASSUME NInv, [NextNotifications]_allVars PROVE NInv'
  OBVIOUS
<1>1. CASE [Next]_vars /\ UNCHANGED <<worker, feed>>
  <2>1. IInv' /\ TypeOKNotifications'
    BY <1>1, NextIInv DEF NInv, IInv, TypeOKNotifications
  <2>2. WorkersCarry'
    BY <1>1, WrittenGrows DEF NInv, WorkersCarry
  <2> QED BY <1>1, <2>1, <2>2, StoredIsWrittenStep DEF NInv
<1>2. ASSUME NEW w \in Workers, NEW m \in Tasks, TakeTask(w, m)
      PROVE NInv'
  <2> DEFINE b == [Resting EXCEPT !.pc = "get", !.task = m]
  <2>1. b \in WorkerState /\ b.pc = "get" /\ b.task = m /\ b.to = "tutor"
    BY DEF Resting, WorkerState, Recipients
  <2> HIDE DEF b
  <2>2. worker' = [worker EXCEPT ![w] = b]
    BY <1>2 DEF TakeTask, b
  <2>3. queue' \in [Tasks -> Nat]
    BY <1>2 DEF TakeTask, NInv, IInv, TypeOK
  <2>4. IInv' /\ StoredIsWritten'
    BY <1>2, <2>3, QueueOnly DEF TakeTask, NInv
  <2>5. TypeOKNotifications'
    BY <1>2, <2>1, <2>2, <2>4 DEF TakeTask, NInv, IInv, TypeOKNotifications
  <2>6. WorkersCarry'
    BY <1>2, <2>1, <2>2 DEF TakeTask, NInv, TypeOKNotifications, WorkersCarry, history
  <2> QED BY <2>4, <2>5, <2>6 DEF NInv
<1>3. ASSUME NEW w \in Workers, GetInquiry(w)
      PROVE NInv'
  <2>1. worker[w].task.inquiry \in Inquiries
    BY <1>3 DEF GetInquiry, NInv, WorkersCarry, Tasks
  <2>2. IInv' /\ StoredIsWritten'
    BY <1>3, RowsKept DEF GetInquiry, NInv
  <2>3. TypeOKNotifications'
    BY <1>3, <2>1, <2>2, RestingState
       DEF GetInquiry, NInv, IInv, TypeOKNotifications, WorkerState, Exists
  <2>4. WorkersCarry'
    BY <1>3, <2>1, RestingState
       DEF GetInquiry, NInv, TypeOKNotifications, WorkersCarry, WorkerState,
           StoredIsWritten, Exists, vars
  <2> QED BY <2>2, <2>3, <2>4 DEF NInv
<1>4. ASSUME NEW w \in Workers, WriteFeed(w)
      PROVE NInv'
  <2>1. feed' \in [FeedRows -> Nat]
    BY <1>4, RunningRow DEF WriteFeed, NInv, TypeOKNotifications
  <2> QED BY <1>4, <2>1
       DEF WriteFeed, NInv, IInv, TypeOK, TypeOKNotifications, WorkersCarry, WorkerState,
           StoredIsWritten, RequestsCarry, Exists, vars
<1>5. ASSUME NEW w \in Workers, Push(w)
      PROVE NInv'
  <2>1. IInv' /\ StoredIsWritten'
    BY <1>5, RowsKept DEF Push, NInv
  <2> DEFINE b == IF worker[w].task.kind = "created" /\ worker[w].to = "tutor"
                  THEN [worker[w] EXCEPT !.pc = "write", !.to = "family"]
                  ELSE Resting
  <2>2. b \in WorkerState
    BY RestingState DEF NInv, TypeOKNotifications, WorkerState, Recipients
  <2>3. worker' = [worker EXCEPT ![w] = b] /\ feed' = feed
    BY <1>5 DEF Push
  <2> HIDE DEF b
  <2>4. TypeOKNotifications'
    BY <2>1, <2>2, <2>3 DEF NInv, IInv, TypeOKNotifications
  <2>5. WorkersCarry'
    BY <1>5, RestingState DEF Push, NInv, TypeOKNotifications, WorkersCarry, WorkerState, vars
  <2> QED BY <2>1, <2>4, <2>5 DEF NInv
<1>6. ASSUME NEW w \in Workers, PushRaises(w)
      PROVE NInv'
  <2> DEFINE m == worker[w].task
  <2>1. m \in Tasks
    BY <1>6 DEF PushRaises, NInv, WorkersCarry
  <2>2. m.retries < MaxRetries => [m EXCEPT !.retries = @ + 1] \in Tasks
    BY <2>1, InquiriesAssumption DEF Tasks
  <2>3. queue' \in [Tasks -> Nat]
    BY <1>6, <2>2, SendType DEF PushRaises, NInv, IInv, TypeOK
  <2> QED BY <1>6, <2>3, RestingState
       DEF PushRaises, NInv, IInv, TypeOK, TypeOKNotifications, WorkersCarry,
           StoredIsWritten, RequestsCarry, Exists, rows, history
<1>7. ASSUME NEW w \in Workers, WorkerDies(w)
      PROVE NInv'
  BY <1>7, RestingState
     DEF WorkerDies, NInv, IInv, TypeOK, TypeOKNotifications, WorkersCarry,
         StoredIsWritten, RequestsCarry, Exists, vars
<1>8. CASE UNCHANGED allVars
  BY <1>8, <1>1 DEF allVars
<1> QED
  BY <1>1, <1>2, <1>3, <1>4, <1>5, <1>6, <1>7, <1>8 DEF NextNotifications, WorkerStep

\* The inductive invariant of the composition holds in every reachable state.
THEOREM NotificationsInvariant == SpecNotifications => []NInv
  BY InitNInv, NextNInv, PTL DEF SpecNotifications

(***************************************************************************)
(* Type correctness of the composition.                                    *)
(***************************************************************************)
\* Workers and feed keep their declared shape (TypeOKNotifications).
THEOREM NotificationsTypeCorrect == SpecNotifications => []TypeOKNotifications
<1>1. NInv => TypeOKNotifications
  BY DEF NInv
<1> QED BY <1>1, NotificationsInvariant, PTL

-----------------------------------------------------------------------------
(***************************************************************************)
(* The feed never invents: every row names a status its inquiry had.       *)
(***************************************************************************)
LEMMA FeedKept ==
  ASSUME NInv, [NextNotifications]_allVars,
         \A w \in Workers : ~WriteFeed(w)
  PROVE  feed' = feed
  BY DEF NextNotifications, WorkerStep, TakeTask, GetInquiry, Push, PushRaises, WorkerDies,
         allVars

\* The history of committed statuses only grows.
LEMMA WrittenKept == [NextNotifications]_allVars => written \subseteq written'
<1>1. CASE [Next]_vars
  BY <1>1, WrittenGrows
<1>2. CASE \E w \in Workers : WorkerStep(w) \/ WorkerDies(w)
  BY <1>2 DEF WorkerStep, TakeTask, GetInquiry, WriteFeed, Push, PushRaises, WorkerDies,
         vars, history
<1> QED BY <1>1, <1>2 DEF NextNotifications, allVars, vars

\* Every feed row names a status its inquiry was once given (notify_inquiry_result).
THEOREM FeedIsTruthful == SpecNotifications => []FeedReportsRealStatuses
<1>1. InitNotifications => FeedReportsRealStatuses
  BY DEF InitNotifications, FeedReportsRealStatuses
<1>2. NInv /\ FeedReportsRealStatuses /\ [NextNotifications]_allVars
        => FeedReportsRealStatuses'
  <2> SUFFICES ASSUME NInv, FeedReportsRealStatuses, [NextNotifications]_allVars,
                      NEW n \in FeedRows, feed'[n] > 0
               PROVE  <<n.inquiry, n.status>> \in written'
    BY DEF FeedReportsRealStatuses
  <2>1. CASE feed[n] > 0
    BY <2>1, WrittenKept DEF FeedReportsRealStatuses
  <2>2. CASE ~(feed[n] > 0)
    <3>1. PICK w \in Workers : WriteFeed(w)
      BY <2>2, FeedKept
    <3>2. n = RowOf(w)
      BY <2>2, <3>1, RunningRow DEF WriteFeed, NInv, TypeOKNotifications
    <3>3. <<worker[w].task.inquiry, worker[w].seen>> \in written
      BY <3>1 DEF WriteFeed, NInv, WorkersCarry
    <3> QED BY <3>1, <3>2, <3>3, RunningRow, WrittenKept DEF WriteFeed
  <2> QED BY <2>1, <2>2
<1> QED BY <1>1, <1>2, NotificationsInvariant, PTL DEF SpecNotifications

-----------------------------------------------------------------------------
(***************************************************************************)
(* No status change is forgotten, as long as nothing crashes and the       *)
(* admin's change form is not used.                                        *)
(***************************************************************************)
Covered(i) ==
  \/ InFeed(i)
  \/ \E r \in Requests : ToEnqueue(r, i)
  \/ \E m \in Tasks : Enqueued(m, i)
  \/ \E w \in Workers : Running(w, i)

NoSilence == ~RequestsCrash /\ ~WorkersCrash /\ "edit" \notin AdminForms

\* A request's own save leaves it bound to announce the status it stored.
LEMMA WriterAnnounces ==
  ASSUME NInv, NEW i \in Inquiries, NEW r \in Requests,
         \/ SaveStatus(r) /\ request[r].inquiry = i
         \/ InsertInquiry(r, i)
         \/ \E t \in Tutors : AdminAdd(r, i, t)
  PROVE  ToEnqueue(r, i)'
<1>1. CASE SaveStatus(r) /\ request[r].inquiry = i
  BY <1>1 DEF SaveStatus, ToEnqueue, NInv, IInv, TypeOK, RequestState
<1>2. CASE InsertInquiry(r, i)
  BY <1>2 DEF InsertInquiry, At, ToEnqueue, NInv, IInv, TypeOK
<1>3. CASE \E t \in Tutors : AdminAdd(r, i, t)
  BY <1>3 DEF AdminAdd, Store, At, ToEnqueue, NInv, IInv, TypeOK
<1> QED BY <1>1, <1>2, <1>3

\* A request step that leaves inquiry i's status alone keeps i covered.
LEMMA RequestsKeepCovered ==
  ASSUME NInv, NoSilence, Next, UNCHANGED <<worker, feed>>,
         NEW i \in Inquiries, Exists(i), Covered(i), status'[i] = status[i]
  PROVE  Covered(i)'
<1>1. ASSUME NEW m \in Tasks, Enqueued(m, i)
      PROVE  Covered(i)'
  <2>1. queue[m] \in Nat /\ queue[m] > 0
    BY <1>1 DEF Enqueued, NInv, IInv, TypeOK
  <2>2. CASE \E r \in Requests : Enqueue(r)
    <3>1. PICK x : Send(x)
      BY <2>2 DEF Enqueue
    <3>2. queue'[m] = queue[m] \/ queue'[m] = queue[m] + 1
      BY <3>1 DEF Send, NInv, IInv, TypeOK
    <3> QED BY <1>1, <2>1, <3>2 DEF Enqueued, Covered, Announces
  <2>3. CASE ~\E r \in Requests : Enqueue(r)
    <3>1. queue' = queue
      BY <2>3 DEF Next, RequestStep, UserStep, StartCreate, InsertInquiry, StartTransition,
           SaveStatus, RevealContact, SaveFails, RequestDies, AdminAdd, AdminEdit,
           AdminDelete, ChangeAccount
    <3> QED BY <1>1, <3>1 DEF Enqueued, Covered, Announces
  <2> QED BY <2>2, <2>3
<1>2. CASE InFeed(i)
  BY <1>2 DEF InFeed, Covered
<1>3. ASSUME NEW w \in Workers, Running(w, i)
      PROVE  Covered(i)'
  BY <1>3 DEF Running, Covered
<1>4. ASSUME NEW r \in Requests, ToEnqueue(r, i)
      PROVE  Covered(i)'
  <2>1. CASE request'[r] = request[r]
    BY <1>4, <2>1 DEF ToEnqueue, Covered
  <2>2. CASE RevealContact(r)
    BY <1>4, <2>2 DEF RevealContact, ToEnqueue, Covered, NInv, IInv, TypeOK, RequestState
  <2>3. CASE Enqueue(r)
    <3> DEFINE kind == IF request[r].pc = "notify" THEN "result" ELSE "created"
               m == Task(kind, i, 0)
    <3>1. m \in Tasks /\ m.inquiry = i /\ m.kind = kind
      BY FirstTask DEF Task
    <3>2. Send(m)
      BY <1>4, <2>3 DEF Enqueue, ToEnqueue
    <3>3. queue'[m] > 0
      BY <3>1, <3>2 DEF Send, NInv, IInv, TypeOK
    <3>4. Announces(kind, status'[i])
      BY <1>4, <2>3 DEF Enqueue, ToEnqueue, Announces
    <3> QED BY <3>1, <3>3, <3>4 DEF Enqueued, Covered
  <2>4. request'[r] = request[r] \/ RevealContact(r) \/ Enqueue(r)
    <3>1. request[r].pc \in {"reveal", "notify", "notify_created"}
          /\ request[r].inquiry = i /\ request[r] # Idle
      BY <1>4 DEF ToEnqueue, Idle
    <3>2. ~SaveStatus(r) /\ ~SaveFails(r) /\ ~RequestDies(r)
          /\ \A j \in Inquiries : ~InsertInquiry(r, j)
      BY <3>1 DEF SaveStatus, SaveFails, RequestDies, InsertInquiry, NoSilence
    <3>3. ASSUME NEW q \in Requests, q # r,
                 \/ RequestStep(q) \/ RequestDies(q)
                 \/ \E t \in Tutors : StartCreate(q, t)
                 \/ \E j \in Inquiries, s \in Statuses : StartTransition(q, j, s)
                 \/ \E j \in Inquiries, t \in Tutors : AdminAdd(q, j, t)
          PROVE  request'[r] = request[r]
      BY <3>3 DEF RequestStep, RequestDies, StartCreate, StartTransition, AdminAdd,
           InsertInquiry, SaveStatus, RevealContact, SaveFails, Enqueue, NInv, IInv, TypeOK
    <3>4. CASE \E q \in Requests : RequestStep(q) \/ RequestDies(q)
      BY <3>2, <3>3, <3>4 DEF RequestStep
    <3>5. CASE UserStep
      BY <3>1, <3>3, <3>5 DEF UserStep, StartCreate, StartTransition, AdminAdd, AdminEdit,
           AdminDelete, ChangeAccount
    <3> QED BY <3>4, <3>5 DEF Next
  <2> QED BY <2>1, <2>2, <2>3, <2>4
<1> QED BY <1>1, <1>2, <1>3, <1>4 DEF Covered

\* A request step that changes inquiry i's status covers it itself.
LEMMA StatusChangeIsCovered ==
  ASSUME NInv, NoSilence, Next, NEW i \in Inquiries, Exists(i)', status'[i] # status[i]
  PROVE  Covered(i)'
<1>1. ASSUME NEW r \in Requests, SaveStatus(r)
      PROVE  Covered(i)'
  <2>1. request[r].inquiry = i
    BY <1>1 DEF SaveStatus, Store, NInv, IInv, TypeOK
  <2> QED BY <1>1, <2>1, WriterAnnounces DEF Covered
<1>2. ASSUME NEW r \in Requests, NEW j \in Inquiries,
             \/ InsertInquiry(r, j)
             \/ \E t \in Tutors : AdminAdd(r, j, t)
      PROVE  Covered(i)'
  <2>1. j = i
    BY <1>2 DEF InsertInquiry, AdminAdd, Store, NInv, IInv, TypeOK
  <2> QED BY <1>2, <2>1, WriterAnnounces DEF Covered
<1>3. ASSUME NEW j \in Inquiries, AdminDelete(j)
      PROVE  FALSE
  BY <1>3 DEF AdminDelete, Exists, Statuses, NInv, IInv, TypeOK
<1>4. CASE \E r \in Requests : RequestStep(r)
  BY <1>1, <1>2, <1>4 DEF RequestStep, RevealContact, SaveFails, Enqueue, rows
<1>5. CASE UserStep
  BY <1>2, <1>3, <1>5 DEF UserStep, StartCreate, StartTransition, AdminEdit, ChangeAccount,
                          rows, NoSilence
<1> QED BY <1>4, <1>5 DEF Next, RequestDies, NoSilence

\* Storing a row never takes another one away.
LEMMA FeedGrows ==
  ASSUME NInv, NEW w \in Workers, WriteFeed(w)
  PROVE  /\ \A n \in FeedRows : feed[n] > 0 => feed'[n] > 0
         /\ feed'[RowOf(w)] > 0
<1>1. RowOf(w) \in FeedRows
  BY RunningRow DEF WriteFeed
<1>2. feed \in [FeedRows -> Nat] /\ feed' = [feed EXCEPT ![RowOf(w)] = @ + 1]
  BY DEF WriteFeed, NInv, TypeOKNotifications
<1>3. feed[RowOf(w)] \in Nat /\ feed'[RowOf(w)] = feed[RowOf(w)] + 1
  BY <1>1, <1>2
<1>4. \A n \in FeedRows : n # RowOf(w) => feed'[n] = feed[n]
  BY <1>2
<1> QED BY <1>3, <1>4

\* A running task that covers its inquiry stores the very row that is missing.
LEMMA RunningRowIsMissing ==
  ASSUME NInv, NEW i \in Inquiries, NEW w \in Workers, Running(w, i), worker[w].pc = "write"
  PROVE  RowOf(w) = ResultRow(i, status[i])
<1>1. worker[w].task \in Tasks /\ worker[w].task.inquiry = i /\ worker[w].seen = status[i]
  BY DEF NInv, WorkersCarry, Running
<1>2. CASE worker[w].task.kind = "result"
  BY <1>1, <1>2 DEF RowOf
<1>3. CASE worker[w].task.kind # "result"
  <2>1. status[i] = "PENDING" /\ worker[w].to = "tutor"
    BY <1>3 DEF Running, Announces
  <2>2. ResultRow(i, "PENDING") = Row(i, "tutor", "INQUIRY_REQUEST", "PENDING")
    BY DEF ResultRow
  <2> QED BY <1>1, <1>3, <2>1, <2>2 DEF RowOf, CreatedRow
<1> QED BY <1>2, <1>3

\* A worker step keeps every inquiry covered.
LEMMA WorkersKeepCovered ==
  ASSUME NInv, NoSilence, NEW w \in Workers, WorkerStep(w),
         NEW i \in Inquiries, Exists(i), Covered(i)
  PROVE  Covered(i)'
<1>1. ASSUME NEW m \in Tasks, TakeTask(w, m)
      PROVE  Covered(i)'
  <2>1. worker'[w].pc = "get" /\ worker'[w].task = m
    BY <1>1 DEF TakeTask, Resting, NInv, TypeOKNotifications
  <2>2. CASE Enqueued(m, i)
    <3>1. Running(w, i)'
      BY <1>1, <2>1, <2>2 DEF Running, Enqueued, Announces, TakeTask, rows
    <3> QED BY <3>1 DEF Covered
  <2>3. ASSUME NEW x \in Tasks, x # m, Enqueued(x, i)
        PROVE  Enqueued(x, i)'
    BY <1>1, <2>3 DEF TakeTask, Enqueued, Announces, rows, NInv, IInv, TypeOK
  <2>4. ASSUME NEW v \in Workers, Running(v, i)
        PROVE  Running(v, i)'
    BY <1>1, <2>4 DEF TakeTask, Running, Announces, rows, NInv, TypeOKNotifications
  <2>5. /\ InFeed(i) => InFeed(i)'
        /\ \A r \in Requests : ToEnqueue(r, i) => ToEnqueue(r, i)'
    BY <1>1 DEF TakeTask, InFeed, ToEnqueue, rows
  <2> QED BY <2>2, <2>3, <2>4, <2>5 DEF Covered
<1>2. ASSUME GetInquiry(w) \/ Push(w)
      PROVE  Covered(i)'
  <2>1. ASSUME NEW v \in Workers, Running(v, i)
        PROVE  Running(v, i)'
    <3>1. CASE v = w
      <4>1. GetInquiry(w) /\ worker[w].pc = "get" /\ worker[w].task.inquiry = i
        BY <1>2, <2>1, <3>1 DEF GetInquiry, Push, Running
      <4>2. worker[w] \in WorkerState /\ worker[w].to = "tutor"
        BY <4>1 DEF NInv, TypeOKNotifications, WorkersCarry
      <4>3. worker'[w] = [worker[w] EXCEPT !.pc = "write", !.seen = status[i]]
        BY <4>1 DEF GetInquiry, NInv, TypeOKNotifications
      <4>4. /\ worker'[w].pc = "write" /\ worker'[w].task = worker[w].task
            /\ worker'[w].seen = status[i] /\ worker'[w].to = "tutor"
        BY <4>2, <4>3 DEF WorkerState
      <4> QED BY <2>1, <3>1, <4>1, <4>4 DEF Running, Announces, GetInquiry, vars
    <3>2. CASE v # w
      BY <1>2, <2>1, <3>2 DEF GetInquiry, Push, Running, Announces, vars,
                              NInv, TypeOKNotifications
    <3> QED BY <3>1, <3>2
  <2>2. /\ InFeed(i) => InFeed(i)'
        /\ \A r \in Requests : ToEnqueue(r, i) => ToEnqueue(r, i)'
        /\ \A m \in Tasks : Enqueued(m, i) => Enqueued(m, i)'
    BY <1>2 DEF GetInquiry, Push, InFeed, ToEnqueue, Enqueued, Announces, vars
  <2> QED BY <2>1, <2>2 DEF Covered
<1>3. ASSUME WriteFeed(w)
      PROVE  Covered(i)'
  <2>1. status' = status /\ request' = request /\ queue' = queue
    BY <1>3 DEF WriteFeed, vars
  <2>2. CASE InFeed(i)
    <3>1. ResultRow(i, status[i]) \in FeedRows
      BY RowsOfTasks DEF Exists, Recipients
    <3>2. InFeed(i)'
      BY <1>3, <2>1, <2>2, <3>1, FeedGrows DEF InFeed
    <3> QED BY <3>2 DEF Covered
  <2>3. CASE Running(w, i)
    <3>1. InFeed(i)'
      BY <1>3, <2>1, <2>3, FeedGrows, RunningRowIsMissing DEF InFeed, WriteFeed
    <3> QED BY <3>1 DEF Covered
  <2>4. ASSUME NEW v \in Workers, v # w, Running(v, i)
        PROVE  Running(v, i)'
    BY <1>3, <2>1, <2>4 DEF WriteFeed, Running, Announces, NInv, TypeOKNotifications
  <2>5. /\ \A r \in Requests : ToEnqueue(r, i) => ToEnqueue(r, i)'
        /\ \A m \in Tasks : Enqueued(m, i) => Enqueued(m, i)'
    BY <2>1 DEF ToEnqueue, Enqueued, Announces
  <2> QED BY <2>2, <2>3, <2>4, <2>5 DEF Covered
<1>4. ASSUME PushRaises(w)
      PROVE  Covered(i)'
  <2>1. ASSUME NEW v \in Workers, Running(v, i)
        PROVE  Running(v, i)'
    BY <1>4, <2>1 DEF PushRaises, Running, Announces, rows, NInv, TypeOKNotifications
  <2>2. \A m \in Tasks : queue[m] > 0 => queue'[m] > 0
    BY <1>4 DEF PushRaises, Send, NInv, IInv, TypeOK
  <2>3. /\ InFeed(i) => InFeed(i)'
        /\ \A r \in Requests : ToEnqueue(r, i) => ToEnqueue(r, i)'
        /\ \A m \in Tasks : Enqueued(m, i) => Enqueued(m, i)'
    BY <1>4, <2>2 DEF PushRaises, InFeed, ToEnqueue, Enqueued, Announces, rows
  <2> QED BY <2>1, <2>3 DEF Covered
<1> QED BY <1>1, <1>2, <1>3, <1>4 DEF WorkerStep

\* Save before delay, row before push: no status is forgotten without a crash.
THEOREM NothingForgotten == SpecNotifications => []NoChangeForgotten
<1>1. InitNotifications => NoChangeForgotten
  BY DEF InitNotifications, Init, NoChangeForgotten, Exists, Statuses
<1>2. NInv /\ NoChangeForgotten /\ [NextNotifications]_allVars => NoChangeForgotten'
  <2> SUFFICES ASSUME NInv, NoChangeForgotten, [NextNotifications]_allVars, NoSilence,
                      NEW i \in Inquiries, Exists(i)'
               PROVE  Covered(i)'
    BY DEF NoChangeForgotten, NoSilence, Covered
  <2>1. Exists(i) => Covered(i)
    BY DEF NoChangeForgotten, NoSilence, Covered
  <2>2. CASE Next /\ UNCHANGED <<worker, feed>>
    <3>1. CASE status'[i] = status[i]
      BY <2>1, <2>2, <3>1, RequestsKeepCovered DEF Exists
    <3>2. CASE status'[i] # status[i]
      BY <2>2, <3>2, StatusChangeIsCovered
    <3> QED BY <3>1, <3>2
  <2>3. ASSUME NEW w \in Workers, WorkerStep(w)
        PROVE  Covered(i)'
    <3>1. status' = status
      BY <2>3 DEF WorkerStep, TakeTask, GetInquiry, WriteFeed, Push, PushRaises, vars, rows
    <3> QED BY <2>1, <2>3, <3>1, WorkersKeepCovered DEF Exists
  <2>4. CASE UNCHANGED allVars
    BY <2>1, <2>4 DEF allVars, vars, Exists, Covered, InFeed, ToEnqueue, Enqueued, Running,
                      Announces
  <2> QED BY <2>2, <2>3, <2>4 DEF NextNotifications, WorkerDies, NoSilence
<1> QED BY <1>1, <1>2, NotificationsInvariant, PTL DEF SpecNotifications

-----------------------------------------------------------------------------
(***************************************************************************)
(* The tutor hears of a request at most once per delivery of its one task. *)
(* The invariant follows that delivery: while an inquiry is pending there  *)
(* is a single carrier of the news -- the request that still has to        *)
(* enqueue, one queued copy, or one worker -- and what the feed already    *)
(* holds is bounded by the retries behind it.                              *)
(***************************************************************************)
RequestRow(i) == Row(i, "tutor", "INQUIRY_REQUEST", "PENDING")

Sends(r, i) ==
  /\ request[r].pc \in {"notify", "notify_created"}
  /\ request[r].inquiry = i
  /\ status[i] = "PENDING"

Waits(m, i) == queue[m] > 0 /\ m.inquiry = i /\ status[i] = "PENDING"

Carries(w, i) ==
  /\ worker[w].pc # "idle"
  /\ worker[w].task.inquiry = i
  /\ IF worker[w].pc = "get" THEN status[i] = "PENDING" ELSE worker[w].seen = "PENDING"

\* This delivery has already stored the tutor's row.
Stored(w) == worker[w].pc = "push" \/ worker[w].to = "family"

Unheard(i) ==
  /\ \A m \in Tasks : m.inquiry = i => queue[m] = 0
  /\ \A w \in Workers : worker[w].pc # "idle" => worker[w].task.inquiry # i
  /\ feed[RequestRow(i)] = 0

NotYetAnswered(i) ==
  status[i] \in {"UNUSED", "PENDING"} => \A s \in Statuses : <<i, s>> \in written => s = "PENDING"

OneCarrier(i) ==
  /\ \A r, q \in Requests : Sends(r, i) /\ Sends(q, i) => q = r
  /\ \A m, n \in Tasks : Waits(m, i) /\ Waits(n, i) => n = m
  /\ \A m \in Tasks : Waits(m, i) => queue[m] = 1
  /\ \A w, v \in Workers : Carries(w, i) /\ Carries(v, i) => v = w
  /\ \A r \in Requests, m \in Tasks : ~(Sends(r, i) /\ Waits(m, i))
  /\ \A r \in Requests, w \in Workers : ~(Sends(r, i) /\ Carries(w, i))
  /\ \A m \in Tasks, w \in Workers : ~(Waits(m, i) /\ Carries(w, i))

StoredSoFar(i) ==
  /\ \A r \in Requests : Sends(r, i) => feed[RequestRow(i)] = 0
  /\ \A m \in Tasks : Waits(m, i) => feed[RequestRow(i)] <= m.retries
  /\ \A w \in Workers : Carries(w, i) =>
       /\ feed[RequestRow(i)] <= 1 + worker[w].task.retries
       /\ ~Stored(w) => feed[RequestRow(i)] <= worker[w].task.retries
  /\ feed[RequestRow(i)] <= 1 + MaxRetries

Delivered(i) ==
  /\ status[i] = "UNUSED" => Unheard(i)
  /\ NotYetAnswered(i)
  /\ OneCarrier(i)
  /\ StoredSoFar(i)

\* The tutor's row is a row of the feed, counted by a natural number.
LEMMA RequestRowCounted ==
  ASSUME NInv, NEW i \in Inquiries
  PROVE  /\ RequestRow(i) \in FeedRows
         /\ feed[RequestRow(i)] \in Nat
         /\ RequestRow(i).inquiry = i
<1>1. ResultRow(i, "PENDING") = RequestRow(i) /\ "PENDING" \in Statuses
  BY DEF ResultRow, RequestRow, Statuses
<1>2. RequestRow(i) \in FeedRows
  BY <1>1, RowsOfTasks DEF Recipients
<1> QED BY <1>2 DEF NInv, TypeOKNotifications, RequestRow, Row

\* A running task is a task, with an inquiry and a natural number of retries.
LEMMA RunningTask ==
  ASSUME NInv, NEW w \in Workers, worker[w].pc # "idle"
  PROVE  /\ worker[w].task \in Tasks
         /\ worker[w].task.inquiry \in Inquiries
         /\ worker[w].task.retries \in 0..MaxRetries
  BY DEF NInv, WorkersCarry, Tasks

\* Losing carriers, or moving one on, disturbs neither bound.
LEMMA FewerCarriers ==
  ASSUME NEW i \in Inquiries, OneCarrier(i), StoredSoFar(i),
         feed'[RequestRow(i)] = feed[RequestRow(i)],
         \A r \in Requests : Sends(r, i)' => Sends(r, i),
         \A m \in Tasks : Waits(m, i)' => Waits(m, i) /\ queue'[m] = queue[m],
         \A w \in Workers : Carries(w, i)' =>
           /\ Carries(w, i)
           /\ worker'[w].task = worker[w].task
           /\ Stored(w) => Stored(w)'
  PROVE  OneCarrier(i)' /\ StoredSoFar(i)'
<1>1. RequestRow(i)' = RequestRow(i)
  BY DEF RequestRow, Row
<1>2. OneCarrier(i)'
  BY DEF OneCarrier
<1>3. StoredSoFar(i)'
  BY <1>1 DEF StoredSoFar
<1> QED BY <1>2, <1>3

\* Without the change form a status is stored by an insert, a save or a deletion.
LEMMA WhoStores ==
  ASSUME [Next]_vars, "edit" \notin AdminForms
  PROVE  \/ UNCHANGED <<status, written>>
         \/ \E r \in Requests, j \in Inquiries :
              InsertInquiry(r, j) \/ \E t \in Tutors : AdminAdd(r, j, t)
         \/ \E r \in Requests : SaveStatus(r)
         \/ \E j \in Inquiries : AdminDelete(j)
<1>1. CASE \E r \in Requests : RequestStep(r) \/ RequestDies(r)
  BY <1>1 DEF RequestStep, RevealContact, SaveFails, Enqueue, RequestDies, rows, history
<1>2. CASE UserStep
  BY <1>2 DEF UserStep, StartCreate, StartTransition, AdminEdit, ChangeAccount, rows, history
<1>3. CASE UNCHANGED vars
  BY <1>3 DEF vars
<1> QED BY <1>1, <1>2, <1>3 DEF Next

\* A pending inquiry was pending, or is brand new; and it has not been answered.
LEMMA PendingIsNew ==
  ASSUME NInv, [Next]_vars, "edit" \notin AdminForms, NEW i \in Inquiries, Delivered(i)
  PROVE  /\ status'[i] = "UNUSED" => status[i] = "UNUSED"
         /\ status'[i] = "PENDING" /\ status[i] # "PENDING" =>
              /\ status[i] = "UNUSED"
              /\ \E r \in Requests :
                   InsertInquiry(r, i) \/ \E t \in Tutors : AdminAdd(r, i, t)
         /\ NotYetAnswered(i)'
<1> USE DEF NotYetAnswered
<1> DEFINE Goal ==
             /\ status'[i] = "UNUSED" => status[i] = "UNUSED"
             /\ status'[i] = "PENDING" /\ status[i] # "PENDING" =>
                  /\ status[i] = "UNUSED"
                  /\ \E r \in Requests :
                       InsertInquiry(r, i) \/ \E t \in Tutors : AdminAdd(r, i, t)
             /\ NotYetAnswered(i)'
<1>0. NotYetAnswered(i) /\ status \in [Inquiries -> Statuses \cup {"UNUSED", "DELETED"}]
  BY DEF Delivered, NInv, IInv, TypeOK
<1>1. ASSUME UNCHANGED <<status, written>>
      PROVE  Goal
  BY <1>0, <1>1
<1>2. ASSUME NEW r \in Requests, NEW j \in Inquiries,
             InsertInquiry(r, j) \/ \E t \in Tutors : AdminAdd(r, j, t)
      PROVE  Goal
  <2>1. status[j] = "UNUSED" /\ Store(j, "PENDING")
    BY <1>2 DEF InsertInquiry, AdminAdd
  <2> QED BY <1>0, <1>2, <2>1 DEF Store
<1>3. ASSUME NEW r \in Requests, SaveStatus(r)
      PROVE  Goal
  <2> DEFINE j == request[r].inquiry
             s == request[r].target
  <2>1. j \in Inquiries /\ s \in {"ACCEPTED", "DECLINED", "CANCELLED"} /\ Store(j, s)
    BY <1>3 DEF SaveStatus, NInv, IInv, RequestsCarry, Bound
  <2> QED BY <1>0, <2>1 DEF Store
<1>4. ASSUME NEW j \in Inquiries, AdminDelete(j)
      PROVE  Goal
  BY <1>0, <1>4 DEF AdminDelete, history
<1> QED BY <1>1, <1>2, <1>3, <1>4, WhoStores

\* A step of the requests: the news of a new inquiry starts at its request and
\* moves to one queued copy; everything else only ends carriers.
LEMMA RequestsDeliver ==
  ASSUME NInv, [Next]_vars, UNCHANGED <<worker, feed>>, "edit" \notin AdminForms,
         NEW i \in Inquiries, Delivered(i)
  PROVE  Delivered(i)'
<1>1. RequestRow(i)' = RequestRow(i)
  BY DEF RequestRow, Row
<1>2. CASE status'[i] = "PENDING" /\ status[i] # "PENDING"
  <2>1. PICK r \in Requests : InsertInquiry(r, i) \/ \E t \in Tutors : AdminAdd(r, i, t)
    BY <1>2, PendingIsNew
  <2>2. queue' = queue /\ Unheard(i)
    BY <1>2, <2>1, PendingIsNew DEF InsertInquiry, AdminAdd, Delivered
  <2>3. \A q \in Requests : Sends(q, i)' => q = r
    <3>1. SUFFICES ASSUME NEW q \in Requests, q # r, Sends(q, i)'
                   PROVE  FALSE
      OBVIOUS
    <3>2. request'[q] = request[q]
      BY <2>1, <3>1 DEF InsertInquiry, AdminAdd, NInv, IInv, TypeOK
    <3>3. Bound(request[q]) /\ request[q].inquiry = i
      BY <3>1, <3>2 DEF Sends, Bound
    <3> QED BY <1>2, <3>3, PendingIsNew DEF NInv, IInv, RequestsCarry
  <2>4. /\ \A m \in Tasks : ~Waits(m, i)'
        /\ \A w \in Workers : ~Carries(w, i)'
        /\ feed'[RequestRow(i)] = 0
    BY <2>2 DEF Unheard, Waits, Carries
  <2>5. OneCarrier(i)' /\ StoredSoFar(i)'
    BY <1>1, <2>3, <2>4, InquiriesAssumption DEF OneCarrier, StoredSoFar
  <2> QED BY <1>2, <2>5, PendingIsNew DEF Delivered
<1>3. CASE status'[i] = "PENDING" => status[i] = "PENDING"
  <2>1. \A w \in Workers : Carries(w, i)' =>
          Carries(w, i) /\ worker'[w].task = worker[w].task /\ (Stored(w) => Stored(w)')
    BY <1>3 DEF Carries, Stored
  <2>2. CASE \E r \in Requests : Sends(r, i) /\ Enqueue(r)
    <3>1. PICK r \in Requests : Sends(r, i) /\ Enqueue(r)
      BY <2>2
    <3>2. PICK m \in Tasks : m.inquiry = i /\ m.retries = 0 /\ Send(m)
      <4>1. \A k \in {"result", "created"} :
              Task(k, i, 0) \in Tasks /\ Task(k, i, 0).inquiry = i /\ Task(k, i, 0).retries = 0
        BY FirstTask DEF Task
      <4> QED BY <3>1, <4>1 DEF Enqueue, Sends
    <3>3. \A n \in Tasks : n.inquiry = i => queue[n] = 0
      BY <3>1 DEF Delivered, OneCarrier, Waits, Sends, NInv, IInv, TypeOK
    <3>4. queue'[m] = 1 /\ \A n \in Tasks : Waits(n, i)' => n = m
      BY <3>2, <3>3 DEF Send, Waits, NInv, IInv, TypeOK
    <3>5. \A q \in Requests : ~Sends(q, i)'
      <4>1. request'[r].pc = "idle" /\ \A q \in Requests : q # r => request'[q] = request[q]
        BY <3>1 DEF Enqueue, Idle, NInv, IInv, TypeOK
      <4> QED BY <3>1, <4>1, <1>3 DEF Sends, Delivered, OneCarrier
    <3>6. \A w \in Workers : ~Carries(w, i)'
      BY <2>1, <3>1 DEF Delivered, OneCarrier
    <3>7. feed'[RequestRow(i)] = 0
      BY <3>1 DEF Delivered, StoredSoFar
    <3>8. OneCarrier(i)'
      BY <3>4, <3>5, <3>6 DEF OneCarrier
    <3>9. StoredSoFar(i)'
      BY <1>1, <3>2, <3>4, <3>5, <3>6, <3>7, InquiriesAssumption DEF StoredSoFar
    <3>10. status'[i] # "UNUSED"
      BY <3>1, PendingIsNew DEF Sends
    <3> QED BY <3>8, <3>9, <3>10, PendingIsNew DEF Delivered
  <2>3. CASE ~\E r \in Requests : Sends(r, i) /\ Enqueue(r)
    <3>1. \A m \in Tasks : m.inquiry = i /\ status[i] \in {"UNUSED", "PENDING"}
                             => queue'[m] = queue[m]
      <4>1. CASE \E r \in Requests : Enqueue(r)
        <5>1. PICK r \in Requests : Enqueue(r)
          BY <4>1
        <5>2. request[r].inquiry \in Inquiries /\ status[request[r].inquiry] # "UNUSED"
          BY <5>1 DEF Enqueue, NInv, IInv, RequestsCarry, Bound
        <5>3. request[r].inquiry = i => status[i] \notin {"UNUSED", "PENDING"}
          BY <2>3, <5>1, <5>2 DEF Sends, Enqueue
        <5>4. PICK k \in {"result", "created"} : Send(Task(k, request[r].inquiry, 0))
          BY <5>1 DEF Enqueue
        <5> QED BY <5>2, <5>3, <5>4, FirstTask DEF Send, Task, NInv, IInv, TypeOK
      <4>2. CASE ~\E r \in Requests : Enqueue(r)
        BY <4>2 DEF Next, RequestStep, UserStep, StartCreate, InsertInquiry, StartTransition,
             SaveStatus, RevealContact, SaveFails, RequestDies, AdminAdd, AdminEdit,
             AdminDelete, ChangeAccount, vars
      <4> QED BY <4>1, <4>2
    <3>2. \A m \in Tasks : Waits(m, i)' => Waits(m, i) /\ queue'[m] = queue[m]
      BY <1>3, <3>1 DEF Waits
    <3>3. \A r \in Requests : Sends(r, i)' => Sends(r, i)
      <4>1. SUFFICES ASSUME NEW r \in Requests, Sends(r, i)', status[i] = "PENDING",
                            request'[r] # request[r]
                     PROVE  FALSE
        BY <1>3 DEF Sends
      <4>2. ~SaveStatus(r)
        <5>1. SUFFICES ASSUME SaveStatus(r) PROVE FALSE
          OBVIOUS
        <5>2. request'[r].inquiry = request[r].inquiry
          BY <5>1 DEF SaveStatus, NInv, IInv, TypeOK, RequestState
        <5>3. /\ request[r].target \in {"ACCEPTED", "DECLINED", "CANCELLED"}
              /\ request[r].inquiry = i /\ Store(i, request[r].target)
          BY <4>1, <5>1, <5>2 DEF SaveStatus, Sends, NInv, IInv, RequestsCarry, Bound
        <5> QED BY <4>1, <5>3 DEF Store, Sends, NInv, IInv, TypeOK
      <4>3. ~RevealContact(r)
        <5>1. SUFFICES ASSUME RevealContact(r) PROVE FALSE
          OBVIOUS
        <5>2. request'[r].inquiry = request[r].inquiry
          BY <5>1 DEF RevealContact, NInv, IInv, TypeOK, RequestState
        <5>3. <<i, "ACCEPTED">> \in written
          BY <4>1, <5>1, <5>2 DEF RevealContact, Sends, NInv, IInv, RequestsCarry
        <5> QED BY <4>1, <5>3 DEF Delivered, NotYetAnswered, Statuses
      <4>5. \A q \in Requests : RequestStep(q) \/ RequestDies(q) => q = r
        BY <4>1 DEF RequestStep, RequestDies, InsertInquiry, SaveStatus, RevealContact,
             SaveFails, Enqueue, NInv, IInv, TypeOK
      <4>6. ~SaveFails(r) /\ ~Enqueue(r) /\ ~RequestDies(r)
        BY <4>1 DEF SaveFails, Enqueue, RequestDies, Sends, Idle, NInv, IInv, TypeOK
      <4>7. \A j \in Inquiries : ~InsertInquiry(r, j)
        <5>1. SUFFICES ASSUME NEW j \in Inquiries, InsertInquiry(r, j) PROVE FALSE
          OBVIOUS
        <5>2. request'[r].inquiry = j /\ status[j] = "UNUSED"
          BY <5>1 DEF InsertInquiry, At, NInv, IInv, TypeOK
        <5> QED BY <4>1, <5>2 DEF Sends
      <4>8. ~UserStep
        <5>1. ASSUME NEW q \in Requests, NEW t \in Tutors, StartCreate(q, t)
              PROVE  FALSE
          BY <4>1, <5>1 DEF StartCreate, Sends, Idle, NInv, IInv, TypeOK
        <5>2. ASSUME NEW q \in Requests, NEW j \in Inquiries, NEW s \in Statuses,
                     StartTransition(q, j, s)
              PROVE  FALSE
          BY <4>1, <5>2 DEF StartTransition, Sends, At, NInv, IInv, TypeOK
        <5>3. ASSUME NEW q \in Requests, NEW j \in Inquiries, NEW t \in Tutors,
                     AdminAdd(q, j, t)
              PROVE  FALSE
          BY <4>1, <5>3 DEF AdminAdd, Sends, At, NInv, IInv, TypeOK
        <5> QED BY <4>1, <5>1, <5>2, <5>3
             DEF UserStep, AdminEdit, AdminDelete, ChangeAccount
      <4> QED BY <4>1, <4>2, <4>3, <4>5, <4>6, <4>7, <4>8 DEF Next, RequestStep, vars
    <3>4. OneCarrier(i)' /\ StoredSoFar(i)'
      BY <2>1, <3>2, <3>3, FewerCarriers DEF Delivered
    <3>5. status'[i] = "UNUSED" => Unheard(i)'
      BY <1>1, <3>1, PendingIsNew DEF Delivered, Unheard
    <3> QED BY <3>4, <3>5, PendingIsNew DEF Delivered
  <2> QED BY <2>2, <2>3
<1> QED BY <1>2, <1>3

\* A step of a worker: the copy it takes becomes its task, the row it stores is paid
\* for by its delivery, and a push that raises puts back one copy with one more retry.
LEMMA WorkersDeliver ==
  ASSUME NInv, "edit" \notin AdminForms, NEW w \in Workers, WorkerStep(w) \/ WorkerDies(w),
         NEW i \in Inquiries, Delivered(i)
  PROVE  Delivered(i)'
<1> DEFINE P == RequestRow(i)
<1>1. P' = P /\ P \in FeedRows /\ feed[P] \in Nat /\ P.inquiry = i
  BY RequestRowCounted DEF RequestRow, Row
<1>2. /\ status' = status /\ request' = request /\ written' = written
      /\ \A v \in Workers : v # w => worker'[v] = worker[v]
  BY DEF WorkerStep, WorkerDies, TakeTask, GetInquiry, WriteFeed, Push, PushRaises, vars, rows,
         history, NInv, TypeOKNotifications
<1>3. NotYetAnswered(i)' /\ \A r \in Requests : Sends(r, i)' <=> Sends(r, i)
  BY <1>2 DEF NotYetAnswered, Sends, Delivered
<1>4. /\ \A v \in Workers : v # w => (Carries(v, i)' <=> Carries(v, i))
      /\ \A v \in Workers : v # w => (Stored(v)' <=> Stored(v))
  BY <1>2 DEF Carries, Stored
<1>5. ASSUME NEW m \in Tasks, TakeTask(w, m)
      PROVE  Delivered(i)'
  <2>1. /\ worker'[w].pc = "get" /\ worker'[w].task = m /\ worker'[w].to = "tutor"
        /\ ~Carries(w, i) /\ feed' = feed /\ queue[m] > 0
        /\ queue'[m] = queue[m] - 1 /\ \A n \in Tasks : n # m => queue'[n] = queue[n]
    BY <1>5 DEF TakeTask, Resting, Carries, NInv, IInv, TypeOK, TypeOKNotifications
  <2>2. CASE Waits(m, i)
    <3>1. /\ \A n \in Tasks : ~Waits(n, i)'
          /\ \A v \in Workers : Carries(v, i)' => v = w
          /\ \A r \in Requests : ~Sends(r, i)'
      BY <1>2, <1>3, <1>4, <2>1, <2>2 DEF Delivered, OneCarrier, Waits
    <3>2. feed'[P] <= m.retries /\ m.retries \in 0..MaxRetries
      BY <2>1, <2>2 DEF Delivered, StoredSoFar, Tasks
    <3>3. OneCarrier(i)'
      BY <3>1 DEF OneCarrier
    <3>4. StoredSoFar(i)'
      BY <1>1, <2>1, <3>1, <3>2, InquiriesAssumption DEF StoredSoFar
    <3> QED BY <1>2, <1>3, <2>2, <3>3, <3>4 DEF Delivered, Waits
  <2>3. CASE ~Waits(m, i)
    <3>1. \A n \in Tasks : Waits(n, i)' => Waits(n, i) /\ queue'[n] = queue[n]
      BY <1>2, <2>1, <2>3 DEF Waits
    <3>2. ~Carries(w, i)'
      BY <1>2, <2>1, <2>3 DEF Carries, Waits
    <3>3. OneCarrier(i)' /\ StoredSoFar(i)'
      BY <1>2, <1>3, <1>4, <2>1, <3>1, <3>2, FewerCarriers DEF Delivered
    <3>4. status'[i] = "UNUSED" => Unheard(i)'
      BY <1>1, <1>2, <2>1 DEF Delivered, Unheard, NInv, IInv, TypeOK
    <3> QED BY <1>3, <3>3, <3>4 DEF Delivered
  <2> QED BY <2>2, <2>3
<1>6. ASSUME GetInquiry(w) \/ Push(w) \/ WorkerDies(w)
      PROVE  Delivered(i)'
  <2>1. queue' = queue /\ feed' = feed
    BY <1>6 DEF GetInquiry, Push, WorkerDies, vars
  <2>2. worker'[w].pc # "idle" =>
          /\ worker[w].pc # "idle" /\ worker'[w].task = worker[w].task
          /\ Stored(w) => Stored(w)'
          /\ \/ /\ worker[w].pc = "get" /\ worker'[w].pc = "write"
                /\ worker'[w].seen = status[worker[w].task.inquiry]
             \/ /\ worker[w].pc = "push" /\ worker'[w].pc = "write"
                /\ worker'[w].seen = worker[w].seen
    <3>1. CASE GetInquiry(w)
      <4>1. worker[w].to = "tutor" /\ worker[w].pc = "get"
        BY <3>1 DEF GetInquiry, NInv, WorkersCarry
      <4> QED BY <3>1, <4>1, RestingState
           DEF GetInquiry, Stored, NInv, TypeOKNotifications, WorkerState
    <3>2. CASE Push(w)
      BY <3>2, RestingState DEF Push, Stored, NInv, TypeOKNotifications, WorkerState
    <3>3. CASE WorkerDies(w)
      BY <3>3, RestingState DEF WorkerDies, NInv, TypeOKNotifications
    <3> QED BY <1>6, <3>1, <3>2, <3>3
  <2>3. Carries(w, i)' =>
          Carries(w, i) /\ worker'[w].task = worker[w].task /\ (Stored(w) => Stored(w)')
    BY <1>2, <2>2 DEF Carries
  <2>4. OneCarrier(i)' /\ StoredSoFar(i)'
    BY <1>2, <1>3, <1>4, <2>1, <2>3, FewerCarriers DEF Delivered, Waits
  <2>5. status'[i] = "UNUSED" => Unheard(i)'
    BY <1>1, <1>2, <2>1, <2>2 DEF Delivered, Unheard
  <2> QED BY <1>3, <2>4, <2>5 DEF Delivered
<1>7. ASSUME WriteFeed(w)
      PROVE  Delivered(i)'
  <2>1. /\ queue' = queue /\ worker[w].pc = "write" /\ worker'[w].pc = "push"
        /\ worker'[w].task = worker[w].task /\ worker'[w].seen = worker[w].seen
    BY <1>7 DEF WriteFeed, vars, NInv, TypeOKNotifications, WorkerState
  <2>2. /\ RowOf(w) \in FeedRows /\ RowOf(w).inquiry = worker[w].task.inquiry
        /\ feed' = [feed EXCEPT ![RowOf(w)] = @ + 1]
    BY <1>7, RunningRow DEF WriteFeed
  <2>3. (Carries(w, i)' <=> Carries(w, i)) /\ Stored(w)'
    BY <1>2, <2>1 DEF Carries, Stored
  <2>4. RowOf(w) = P => Carries(w, i) /\ ~Stored(w)
    BY <1>1, <2>1, <2>2 DEF RowOf, ResultRow, CreatedRow, RequestRow, Row, Carries, Stored,
         NInv, WorkersCarry, Statuses, Tasks
  <2>5. CASE RowOf(w) = P
    <3>1. feed'[P] = feed[P] + 1 /\ feed[P] <= worker[w].task.retries
      BY <1>1, <2>2, <2>4, <2>5 DEF Delivered, StoredSoFar, NInv, TypeOKNotifications
    <3>2. worker[w].task.retries \in 0..MaxRetries
      BY <2>1, RunningTask
    <3>3. /\ \A m \in Tasks : ~Waits(m, i)'
          /\ \A r \in Requests : ~Sends(r, i)'
          /\ \A v \in Workers : Carries(v, i)' => v = w
      BY <1>2, <1>3, <1>4, <2>1, <2>4, <2>5 DEF Delivered, OneCarrier, Waits
    <3>4. OneCarrier(i)'
      BY <3>3 DEF OneCarrier
    <3>5. StoredSoFar(i)'
      BY <1>1, <2>1, <2>3, <3>1, <3>2, <3>3, InquiriesAssumption DEF StoredSoFar
    <3>6. status'[i] # "UNUSED"
      BY <1>2, <2>1, <2>2, <2>5, <1>1 DEF Delivered, Unheard
    <3> QED BY <1>3, <3>4, <3>5, <3>6 DEF Delivered
  <2>6. CASE RowOf(w) # P
    <3>1. feed'[P] = feed[P]
      BY <1>1, <2>2, <2>6 DEF NInv, TypeOKNotifications
    <3>2. OneCarrier(i)' /\ StoredSoFar(i)'
      BY <1>2, <1>3, <1>4, <2>1, <2>3, <3>1, FewerCarriers DEF Delivered, Waits
    <3>3. status'[i] = "UNUSED" => Unheard(i)'
      BY <1>1, <1>2, <2>1, <3>1 DEF Delivered, Unheard
    <3> QED BY <1>3, <3>2, <3>3 DEF Delivered
  <2> QED BY <2>5, <2>6
<1>8. ASSUME PushRaises(w)
      PROVE  Delivered(i)'
  <2> DEFINE m == worker[w].task
             x == [m EXCEPT !.retries = @ + 1]
  <2>1. /\ m \in Tasks /\ m.inquiry \in Inquiries /\ m.retries \in 0..MaxRetries
        /\ worker'[w].pc = "idle" /\ feed' = feed /\ worker[w].pc = "push"
    BY <1>8, RunningTask, RestingState DEF PushRaises, NInv, TypeOKNotifications
  <2>2. ~Carries(w, i)'
    BY <2>1 DEF Carries
  <2>3. CASE m.retries < MaxRetries /\ m.inquiry = i /\ status[i] = "PENDING"
    <3>1. Send(x)
      BY <1>8, <2>3 DEF PushRaises
    <3>2. x \in Tasks /\ x.inquiry = i /\ x.retries = m.retries + 1
      BY <2>1, <2>3, InquiriesAssumption DEF Tasks
    <3> HIDE DEF x
    <3>3. Carries(w, i)
      <4>1. worker[w].seen \in Statuses /\ <<i, worker[w].seen>> \in written
        BY <2>1, <2>3 DEF NInv, WorkersCarry
      <4> QED BY <2>1, <2>3, <4>1 DEF Carries, Delivered, NotYetAnswered
    <3>4. /\ \A n \in Tasks : n.inquiry = i => queue[n] = 0
          /\ \A r \in Requests : ~Sends(r, i)'
          /\ \A v \in Workers : ~Carries(v, i)'
      BY <1>3, <1>4, <2>2, <2>3, <3>3 DEF Delivered, OneCarrier, Waits, NInv, IInv, TypeOK
    <3>5. queue'[x] = 1 /\ \A n \in Tasks : Waits(n, i)' => n = x
      BY <3>1, <3>2, <3>4 DEF Send, Waits, NInv, IInv, TypeOK
    <3>6. feed'[P] <= x.retries /\ feed'[P] <= 1 + MaxRetries
      BY <2>1, <3>2, <3>3 DEF Delivered, StoredSoFar
    <3>7. OneCarrier(i)'
      BY <3>4, <3>5 DEF OneCarrier
    <3>8. StoredSoFar(i)'
      BY <1>1, <3>4, <3>5, <3>6 DEF StoredSoFar
    <3> QED BY <1>2, <1>3, <2>3, <3>7, <3>8 DEF Delivered
  <2>4. CASE ~(m.retries < MaxRetries /\ m.inquiry = i /\ status[i] = "PENDING")
    <3>1. \A n \in Tasks : n.inquiry = i /\ status[i] \in {"UNUSED", "PENDING"}
                             => queue'[n] = queue[n]
      <4>1. status[i] = "UNUSED" => m.inquiry # i
        BY <2>1 DEF Delivered, Unheard
      <4>2. CASE m.retries < MaxRetries
        <5>1. Send(x) /\ x.inquiry = m.inquiry
          BY <1>8, <2>1, <4>2 DEF PushRaises, Tasks
        <5> QED BY <2>4, <4>1, <4>2, <5>1 DEF Send, NInv, IInv, TypeOK
      <4>3. CASE ~(m.retries < MaxRetries)
        BY <1>8, <4>3 DEF PushRaises
      <4> QED BY <4>2, <4>3
    <3>2. \A n \in Tasks : Waits(n, i)' => Waits(n, i) /\ queue'[n] = queue[n]
      BY <1>2, <3>1 DEF Waits
    <3>3. OneCarrier(i)' /\ StoredSoFar(i)'
      BY <1>2, <1>3, <1>4, <2>1, <2>2, <3>2, FewerCarriers DEF Delivered
    <3>4. status'[i] = "UNUSED" => Unheard(i)'
      BY <1>1, <1>2, <2>1, <3>1 DEF Delivered, Unheard
    <3> QED BY <1>3, <3>3, <3>4 DEF Delivered
  <2> QED BY <2>3, <2>4
<1> QED BY <1>5, <1>6, <1>7, <1>8 DEF WorkerStep

\* Whatever is retried, the feed holds the request at most once per delivery of its task.
THEOREM RequestsBounded == SpecNotifications => []RequestRowsBounded
<1> DEFINE DInv == "edit" \notin AdminForms => \A i \in Inquiries : Delivered(i)
<1>1. InitNotifications => DInv
  <2> SUFFICES ASSUME InitNotifications, NEW i \in Inquiries PROVE Delivered(i)
    OBVIOUS
  <2>1. feed[RequestRow(i)] = 0
    <3>1. NInv
      BY InitNInv
    <3> QED BY <3>1, RequestRowCounted DEF InitNotifications
  <2>2. /\ \A r \in Requests : ~Sends(r, i)
        /\ \A m \in Tasks : ~Waits(m, i)
        /\ \A w \in Workers : ~Carries(w, i)
    BY RestingState DEF InitNotifications, Init, Sends, Waits, Carries
  <2>3. OneCarrier(i)
    BY <2>2 DEF OneCarrier
  <2>4. StoredSoFar(i)
    BY <2>1, <2>2, InquiriesAssumption DEF StoredSoFar
  <2>5. Unheard(i) /\ NotYetAnswered(i)
    BY <2>1, RestingState DEF Unheard, NotYetAnswered, InitNotifications, Init
  <2> QED BY <2>3, <2>4, <2>5 DEF Delivered
<1>2. NInv /\ DInv /\ [NextNotifications]_allVars => DInv'
  <2> SUFFICES ASSUME NInv, [NextNotifications]_allVars, "edit" \notin AdminForms,
                      NEW i \in Inquiries, Delivered(i)
               PROVE  Delivered(i)'
    OBVIOUS
  <2>1. CASE [Next]_vars /\ UNCHANGED <<worker, feed>>
    BY <2>1, RequestsDeliver
  <2>2. CASE \E w \in Workers : WorkerStep(w) \/ WorkerDies(w)
    BY <2>2, WorkersDeliver
  <2> QED BY <2>1, <2>2 DEF NextNotifications, allVars
<1>3. DInv => RequestRowsBounded
  BY DEF RequestRowsBounded, Delivered, StoredSoFar, RequestRow
<1> QED BY <1>1, <1>2, <1>3, NotificationsInvariant, PTL DEF SpecNotifications
=============================================================================
