--------------------------- MODULE Inquiries_proofs ---------------------------
(***************************************************************************)
(* Proofs about Inquiries, for any number of inquiries, tutors and         *)
(* concurrent requests.                                                    *)
(***************************************************************************)
EXTENDS Inquiries, TLAPS

(***************************************************************************)
(* What a request carries from step to step.  It is what makes the safety  *)
(* properties inductive: a request about to reveal has itself stored an    *)
(* acceptance, and no request is about to store PENDING over an answer.    *)
(***************************************************************************)
Bound(q) == q.pc \in {"save", "reveal", "notify", "notify_created"}

RequestsCarry ==
  \A r \in Requests :
    /\ request[r].pc = "insert" => request[r].tutor \in Tutors
    /\ Bound(request[r]) => request[r].inquiry \in Inquiries
    /\ Bound(request[r]) => status[request[r].inquiry] # "UNUSED"
    /\ request[r].pc = "save" => request[r].target \in {"ACCEPTED", "DECLINED", "CANCELLED"}
    /\ request[r].pc = "reveal" =>
         ~BillingGateEnabled /\ <<request[r].inquiry, "ACCEPTED">> \in written

IInv == TypeOK /\ RequestsCarry

\* A request that has ended is a well-formed request record.
LEMMA IdleState == Idle \in RequestState
  BY DEF Idle, RequestState

\* So is a request positioned at one of its steps.
LEMMA AtState ==
  ASSUME NEW pc \in {"idle", "insert", "save", "reveal", "notify", "notify_created"},
         NEW i \in Inquiries, NEW s \in Statuses
  PROVE  /\ At(pc, i, s) \in RequestState
         /\ At(pc, i, s).pc = pc
         /\ At(pc, i, s).inquiry = i
         /\ At(pc, i, s).target = s
  BY DEF At, RequestState

\* Enqueuing a task keeps the queue a bag of tasks.
LEMMA SendType ==
  ASSUME queue \in [Tasks -> Nat], NEW m \in Tasks, Send(m)
  PROVE  queue' \in [Tasks -> Nat]
  BY DEF Send

\* The tasks requests enqueue are first deliveries.
LEMMA FirstTask ==
  ASSUME NEW i \in Inquiries, NEW kind \in {"result", "created"}
  PROVE  Task(kind, i, 0) \in Tasks
  BY InquiriesAssumption DEF Task, Tasks

(***************************************************************************)
(* Every step keeps the types and what the requests carry.                 *)
(***************************************************************************)
\* The empty tables satisfy the inductive invariant.
LEMMA InitIInv == Init => IInv
  BY IdleState DEF Init, IInv, TypeOK, RequestsCarry, Bound, Idle, Accounts

\* Every request step, admin form and account change keeps it.
LEMMA NextIInv == IInv /\ [Next]_vars => IInv'
<1> SUFFICES ASSUME IInv, [Next]_vars PROVE IInv'
  OBVIOUS
<1>1. ASSUME NEW r \in Requests, NEW t \in Tutors, StartCreate(r, t)
      PROVE IInv'
  <2> DEFINE q == [Idle EXCEPT !.pc = "insert", !.tutor = t]
  <2>1. q \in RequestState /\ q.pc = "insert" /\ q.tutor = t
    BY IdleState DEF RequestState, Idle
  <2> HIDE DEF q
  <2>2. request' = [request EXCEPT ![r] = q]
    BY <1>1 DEF StartCreate, q
  <2>3. TypeOK'
    BY <1>1, <2>1, <2>2 DEF IInv, TypeOK, StartCreate, rows, history
  <2>4. RequestsCarry'
    BY <1>1, <2>1, <2>2 DEF IInv, TypeOK, RequestsCarry, Bound, StartCreate, rows, history
  <2> QED BY <2>3, <2>4 DEF IInv
<1>2. ASSUME NEW r \in Requests, NEW i \in Inquiries, InsertInquiry(r, i)
      PROVE IInv'
  <2>1. "PENDING" \in Statuses BY DEF Statuses
  <2>2. request[r].tutor \in Tutors
    BY <1>2 DEF IInv, RequestsCarry, InsertInquiry
  <2>3. TypeOK'
    BY <1>2, <2>1, <2>2, AtState DEF IInv, TypeOK, InsertInquiry, Store
  <2>4. RequestsCarry'
    BY <1>2, <2>1, AtState DEF IInv, TypeOK, RequestsCarry, Bound, InsertInquiry, Store
  <2> QED BY <2>3, <2>4 DEF IInv
<1>3. ASSUME NEW r \in Requests, NEW i \in Inquiries, NEW s \in Statuses,
             StartTransition(r, i, s)
      PROVE IInv'
  <2>1. s \in {"ACCEPTED", "DECLINED", "CANCELLED"}
    BY <1>3 DEF StartTransition, Allowed
  <2>2. status[i] # "UNUSED"
    BY <1>3 DEF StartTransition, Exists, Statuses
  <2>3. TypeOK'
    BY <1>3, AtState DEF IInv, TypeOK, StartTransition, rows, history
  <2>4. RequestsCarry'
    BY <1>3, <2>1, <2>2, AtState
       DEF IInv, TypeOK, RequestsCarry, Bound, StartTransition, rows, history
  <2> QED BY <2>3, <2>4 DEF IInv
<1>4. ASSUME NEW r \in Requests, SaveStatus(r)
      PROVE IInv'
  <2> DEFINE i == request[r].inquiry
             s == request[r].target
             pc == IF s = "ACCEPTED" /\ ~BillingGateEnabled THEN "reveal" ELSE "notify"
  <2>1. /\ request[r].pc = "save" /\ Exists(i) /\ Store(i, s)
        /\ request' = [request EXCEPT ![r].pc = pc]
        /\ UNCHANGED <<revealed, tutor, account, queue, added>>
    BY <1>4 DEF SaveStatus
  <2>2. i \in Inquiries /\ s \in Statuses /\ s # "UNUSED"
    BY <2>1 DEF IInv, RequestsCarry, Bound, Statuses
  <2>3. TypeOK'
    BY <2>1, <2>2 DEF IInv, TypeOK, RequestState, Store
  <2>4. RequestsCarry'
    BY <2>1, <2>2 DEF IInv, TypeOK, RequestsCarry, Bound, RequestState, Store
  <2> QED BY <2>3, <2>4 DEF IInv
<1>5. ASSUME NEW r \in Requests, RevealContact(r)
      PROVE IInv'
  <2>1. request[r].inquiry \in Inquiries
    BY <1>5 DEF RevealContact, IInv, RequestsCarry, Bound
  <2>2. TypeOK'
    BY <1>5, <2>1 DEF IInv, TypeOK, RequestState, RevealContact, history
  <2>3. RequestsCarry'
    BY <1>5, <2>1 DEF IInv, TypeOK, RequestsCarry, Bound, RequestState, RevealContact, history
  <2> QED BY <2>2, <2>3 DEF IInv
<1>6. ASSUME NEW r \in Requests, SaveFails(r) \/ RequestDies(r)
      PROVE IInv'
  <2>1. TypeOK'
    BY <1>6, IdleState DEF IInv, TypeOK, SaveFails, RequestDies, rows, history
  <2>2. RequestsCarry'
    BY <1>6, IdleState
       DEF IInv, TypeOK, RequestsCarry, Bound, Idle, SaveFails, RequestDies, rows, history
  <2> QED BY <2>1, <2>2 DEF IInv
<1>7. ASSUME NEW r \in Requests, Enqueue(r)
      PROVE IInv'
  <2>1. request[r].inquiry \in Inquiries
    BY <1>7 DEF Enqueue, IInv, RequestsCarry, Bound
  <2>2. queue' \in [Tasks -> Nat]
    BY <1>7, <2>1, FirstTask, SendType DEF Enqueue, IInv, TypeOK
  <2>3. TypeOK'
    BY <1>7, <2>2, IdleState DEF IInv, TypeOK, Enqueue, rows, history
  <2>4. RequestsCarry'
    BY <1>7, IdleState DEF IInv, TypeOK, RequestsCarry, Bound, Idle, Enqueue, rows, history
  <2> QED BY <2>3, <2>4 DEF IInv
<1>8. ASSUME NEW r \in Requests, NEW i \in Inquiries, NEW t \in Tutors, AdminAdd(r, i, t)
      PROVE IInv'
  <2>1. "PENDING" \in Statuses BY DEF Statuses
  <2>2. TypeOK'
    BY <1>8, <2>1, AtState DEF IInv, TypeOK, AdminAdd, Store
  <2>3. RequestsCarry'
    BY <1>8, <2>1, AtState DEF IInv, TypeOK, RequestsCarry, Bound, AdminAdd, Store
  <2> QED BY <2>2, <2>3 DEF IInv
<1>9. ASSUME NEW i \in Inquiries, NEW s \in Statuses, NEW b \in BOOLEAN, NEW t \in Tutors,
             AdminEdit(i, s, b, t)
      PROVE IInv'
  BY <1>9 DEF IInv, TypeOK, RequestsCarry, Bound, AdminEdit, Store, Statuses
<1>10. ASSUME NEW i \in Inquiries, AdminDelete(i)
       PROVE IInv'
  BY <1>10 DEF IInv, TypeOK, RequestsCarry, Bound, AdminDelete, history
<1>11. ASSUME NEW t \in Tutors, NEW a \in Accounts, ChangeAccount(t, a)
       PROVE IInv'
  BY <1>11 DEF IInv, TypeOK, RequestsCarry, Bound, ChangeAccount, rows, history
<1>12. CASE UNCHANGED vars
  BY <1>12 DEF IInv, TypeOK, RequestsCarry, Bound, vars
<1>13. CASE \E r \in Requests : RequestStep(r)
  BY <1>13, <1>2, <1>4, <1>5, <1>6, <1>7 DEF RequestStep
<1>14. CASE \E r \in Requests : RequestDies(r)
  BY <1>14, <1>6
<1>15. CASE UserStep
  BY <1>15, <1>1, <1>3, <1>8, <1>9, <1>10, <1>11 DEF UserStep
<1> QED
  BY <1>12, <1>13, <1>14, <1>15 DEF Next

(***************************************************************************)
(* Type correctness: every reachable state has the declared shape.         *)
(***************************************************************************)
\* Types, and requests bound to existing ids, hold in every reachable state.
THEOREM InductiveInvariant == Spec => []IInv
  BY InitIInv, NextIInv, PTL DEF Spec

\* Rows, requests and queue keep their declared shape (TypeOK).
THEOREM TypeCorrect == Spec => []TypeOK
<1>1. IInv => TypeOK
  BY DEF IInv
<1> QED BY <1>1, InductiveInvariant, PTL

-----------------------------------------------------------------------------
(***************************************************************************)
(* However many requests race, a contact is revealed only with the gate    *)
(* off and for an inquiry that was accepted.                               *)
(***************************************************************************)
THEOREM RevealNeedsAcceptance == Spec => []RevealedWasAccepted
<1>1. Init => RevealedWasAccepted
  BY DEF Init, RevealedWasAccepted
<1>2. IInv /\ RevealedWasAccepted /\ [Next]_vars => RevealedWasAccepted'
  <2> SUFFICES ASSUME IInv, RevealedWasAccepted, [Next]_vars, "edit" \notin AdminForms,
                      NEW i \in Inquiries, revealed'[i]
               PROVE  ~BillingGateEnabled /\ <<i, "ACCEPTED">> \in written'
    BY DEF RevealedWasAccepted
  <2>1. written \subseteq written'
    BY DEF Next, RequestStep, UserStep, vars, history, Store, StartCreate, InsertInquiry,
           StartTransition, SaveStatus, RevealContact, SaveFails, Enqueue, RequestDies,
           AdminAdd, AdminEdit, AdminDelete, ChangeAccount
  <2>2. CASE revealed[i]
    BY <2>1, <2>2 DEF RevealedWasAccepted
  <2>3. CASE ~revealed[i]
    <3>1. PICK r \in Requests : RevealContact(r)
      BY <2>3 DEF Next, RequestStep, UserStep, vars, rows, StartCreate, InsertInquiry,
           StartTransition, SaveStatus, SaveFails, Enqueue, RequestDies,
           AdminAdd, AdminEdit, AdminDelete, ChangeAccount
    <3>2. request[r].inquiry = i
      BY <2>3, <3>1 DEF RevealContact, IInv, TypeOK
    <3> QED BY <2>1, <3>1, <3>2 DEF RevealContact, IInv, RequestsCarry
  <2> QED BY <2>2, <2>3
<1> QED BY <1>1, <1>2, InductiveInvariant, PTL DEF Spec

(***************************************************************************)
(* An answered or cancelled inquiry never becomes pending again.           *)
(***************************************************************************)
THEOREM NoReopening == Spec => NeverPendingAgain
<1>1. IInv /\ [Next]_vars =>
        [\A i \in Inquiries :
          "edit" \notin AdminForms /\ status[i] # "UNUSED" /\ status[i] # "PENDING"
            => status'[i] # "PENDING"]_vars
  <2> SUFFICES ASSUME IInv, Next, "edit" \notin AdminForms, NEW i \in Inquiries,
                      status[i] # "UNUSED", status[i] # "PENDING"
               PROVE  status'[i] # "PENDING"
    OBVIOUS
  <2>1. CASE status'[i] = status[i]
    BY <2>1
  <2>2. CASE status'[i] # status[i]
    <3>1. ASSUME NEW r \in Requests, SaveStatus(r)
          PROVE  status'[i] # "PENDING"
      BY <3>1 DEF SaveStatus, Store, IInv, TypeOK, RequestsCarry
    <3>2. ASSUME NEW j \in Inquiries, AdminDelete(j)
          PROVE  status'[i] # "PENDING"
      BY <3>2 DEF AdminDelete, IInv, TypeOK
    <3>3. ASSUME NEW r \in Requests, NEW j \in Inquiries, NEW t \in Tutors,
                 AdminAdd(r, j, t)
          PROVE  status'[i] = status[i]
      BY <3>3 DEF AdminAdd, Store, IInv, TypeOK
    <3>4. \/ \E r \in Requests : SaveStatus(r)
          \/ \E j \in Inquiries : AdminDelete(j)
          \/ \E r \in Requests, j \in Inquiries : InsertInquiry(r, j)
          \/ \E r \in Requests, j \in Inquiries, t \in Tutors : AdminAdd(r, j, t)
      BY <2>2 DEF Next, RequestStep, UserStep, rows, StartCreate, StartTransition,
           RevealContact, SaveFails, Enqueue, RequestDies, AdminEdit, ChangeAccount
    <3>5. ASSUME NEW r \in Requests, NEW j \in Inquiries, InsertInquiry(r, j)
          PROVE  status'[i] = status[i]
      BY <3>5 DEF InsertInquiry, Store, IInv, TypeOK
    <3> QED BY <2>2, <3>1, <3>2, <3>3, <3>4, <3>5
  <2> QED BY <2>1, <2>2
<1> QED BY <1>1, InductiveInvariant, PTL DEF Spec, NeverPendingAgain

(***************************************************************************)
(* Without crashes, with the gate off, every accepted inquiry is revealed  *)
(* or some request is just about to reveal it.                             *)
(***************************************************************************)
THEOREM AcceptanceReveals == Spec => []AcceptedGetsRevealed
<1>1. Init => AcceptedGetsRevealed
  BY DEF Init, AcceptedGetsRevealed
<1>2. IInv /\ AcceptedGetsRevealed /\ [Next]_vars => AcceptedGetsRevealed'
  <2> DEFINE Revealing(i) == \E r \in Requests :
                               request[r].pc = "reveal" /\ request[r].inquiry = i
  <2> SUFFICES ASSUME IInv, AcceptedGetsRevealed, [Next]_vars,
                      ~RequestsCrash, ~BillingGateEnabled, "edit" \notin AdminForms,
                      NEW i \in Inquiries, status'[i] = "ACCEPTED"
               PROVE  revealed'[i] \/ Revealing(i)'
    BY DEF AcceptedGetsRevealed
  <2>1. ASSUME NEW r \in Requests, SaveStatus(r)
        PROVE  revealed'[i] \/ Revealing(i)'
    <3>1. request[r].inquiry \in Inquiries /\ request[r] \in RequestState
      BY <2>1 DEF SaveStatus, IInv, TypeOK, RequestsCarry, Bound
    <3>2. CASE request[r].inquiry = i
      <4>1. request[r].target = "ACCEPTED"
        BY <2>1, <3>1, <3>2 DEF SaveStatus, Store, IInv, TypeOK
      <4>2. request'[r].pc = "reveal" /\ request'[r].inquiry = i
        BY <2>1, <3>1, <3>2, <4>1 DEF SaveStatus, IInv, TypeOK, RequestState
      <4> QED BY <4>2
    <3>3. CASE request[r].inquiry # i
      <4>1. status[i] = "ACCEPTED" /\ revealed' = revealed
        BY <2>1, <3>1, <3>3 DEF SaveStatus, Store, IInv, TypeOK
      <4>2. Revealing(i) => Revealing(i)'
        BY <2>1, <3>1, <3>3 DEF SaveStatus, IInv, TypeOK, RequestState
      <4> QED BY <4>1, <4>2 DEF AcceptedGetsRevealed
    <3> QED BY <3>2, <3>3
  <2>2. ASSUME NEW r \in Requests, RevealContact(r)
        PROVE  revealed'[i] \/ Revealing(i)'
    <3>1. status[i] = "ACCEPTED" /\ request[r].inquiry \in Inquiries
      BY <2>2 DEF RevealContact, IInv, RequestsCarry, Bound
    <3>2. revealed[i] => revealed'[i]
      BY <2>2, <3>1 DEF RevealContact, IInv, TypeOK
    <3>3. request[r].inquiry = i => revealed'[i]
      BY <2>2, <3>1 DEF RevealContact, IInv, TypeOK
    <3>4. Revealing(i) /\ request[r].inquiry # i => Revealing(i)'
      BY <2>2 DEF RevealContact, IInv, TypeOK
    <3> QED BY <3>1, <3>2, <3>3, <3>4 DEF AcceptedGetsRevealed
  <2>3. ASSUME NEW r \in Requests,
               \/ SaveFails(r)
               \/ Enqueue(r)
               \/ \E t \in Tutors : StartCreate(r, t)
               \/ \E j \in Inquiries, s \in Statuses : StartTransition(r, j, s)
        PROVE  revealed'[i] \/ Revealing(i)'
    <3>1. status[i] = "ACCEPTED" /\ revealed' = revealed
      BY <2>3 DEF SaveFails, Enqueue, StartCreate, StartTransition, rows
    <3>2. ~(request[r].pc = "reveal" /\ request[r].inquiry = i)
      <4>1. CASE SaveFails(r)
        BY <3>1, <4>1 DEF SaveFails, Exists, Statuses
      <4>2. CASE request[r].pc \in {"notify", "notify_created"} \/ request[r] = Idle
        BY <4>2 DEF Idle
      <4> QED BY <2>3, <4>1, <4>2 DEF Enqueue, StartCreate, StartTransition
    <3>3. \A r2 \in Requests \ {r} : request'[r2] = request[r2]
      BY <2>3 DEF SaveFails, Enqueue, StartCreate, StartTransition, IInv, TypeOK
    <3>4. Revealing(i) => Revealing(i)'
      BY <3>2, <3>3
    <3> QED BY <3>1, <3>4 DEF AcceptedGetsRevealed
  <2>4. ASSUME NEW r \in Requests,
               \/ \E j \in Inquiries : InsertInquiry(r, j)
               \/ \E j \in Inquiries, t \in Tutors : AdminAdd(r, j, t)
        PROVE  revealed'[i] \/ Revealing(i)'
    <3>1. status[i] = "ACCEPTED" /\ revealed' = revealed
      BY <2>4 DEF InsertInquiry, AdminAdd, Store, IInv, TypeOK
    <3>2. request[r].pc # "reveal" /\ \A r2 \in Requests \ {r} : request'[r2] = request[r2]
      BY <2>4 DEF InsertInquiry, AdminAdd, Idle, IInv, TypeOK
    <3>3. Revealing(i) => Revealing(i)'
      BY <3>2
    <3> QED BY <3>1, <3>3 DEF AcceptedGetsRevealed
  <2>5. ASSUME \/ \E j \in Inquiries : AdminDelete(j)
               \/ \E t \in Tutors, a \in Accounts : ChangeAccount(t, a)
               \/ UNCHANGED vars
        PROVE  revealed'[i] \/ Revealing(i)'
    <3>1. status[i] = "ACCEPTED" /\ revealed' = revealed /\ request' = request
      BY <2>5 DEF AdminDelete, ChangeAccount, vars, rows, IInv, TypeOK
    <3> QED BY <3>1 DEF AcceptedGetsRevealed
  <2>6. CASE \E r \in Requests : RequestStep(r)
    BY <2>6, <2>1, <2>2, <2>3, <2>4 DEF RequestStep
  <2>7. CASE UserStep
    BY <2>7, <2>3, <2>4, <2>5 DEF UserStep, AdminEdit
  <2> QED BY <2>5, <2>6, <2>7 DEF Next, RequestDies
<1> QED BY <1>1, <1>2, InductiveInvariant, PTL DEF Spec

-----------------------------------------------------------------------------
(***************************************************************************)
(* Requests served one at a time.  Between a request's read and its saves  *)
(* only an administrator's deletion can touch the row, so the transition   *)
(* it checked is still the transition it makes.                            *)
(***************************************************************************)
Serial == OneAtATime /\ "edit" \notin AdminForms

ReadIsCurrent ==
  \A r \in Requests :
    /\ request[r].pc = "save" /\ Exists(request[r].inquiry) =>
         request[r].target \in Allowed(status[request[r].inquiry])
    /\ request[r].pc = "reveal" /\ Exists(request[r].inquiry) =>
         status[request[r].inquiry] = "ACCEPTED"

\* With one request at a time, what a request read is still what the row holds.
LEMMA SerialReads == Serial => (Spec => []ReadIsCurrent)
<1> SUFFICES ASSUME Serial PROVE Spec => []ReadIsCurrent
  OBVIOUS
<1>1. Init => ReadIsCurrent
  BY DEF Init, ReadIsCurrent, Idle
<1>2. IInv /\ ReadIsCurrent /\ [Next]_vars => ReadIsCurrent'
  <2> SUFFICES ASSUME IInv, ReadIsCurrent, [Next]_vars PROVE ReadIsCurrent'
    OBVIOUS
  <2>1. ASSUME NEW r \in Requests, SaveStatus(r)
        PROVE  ReadIsCurrent'
    <3>1. request[r].inquiry \in Inquiries /\ request[r] \in RequestState
      BY <2>1 DEF SaveStatus, IInv, TypeOK, RequestsCarry, Bound
    <3>2. /\ request'[r].pc # "save"
          /\ request'[r].pc = "reveal" => request[r].target = "ACCEPTED"
          /\ request'[r].inquiry = request[r].inquiry
      BY <2>1, <3>1 DEF SaveStatus, IInv, TypeOK, RequestState
    <3>3. status'[request[r].inquiry] = request[r].target
      BY <2>1, <3>1 DEF SaveStatus, Store, IInv, TypeOK
    <3> QED BY <3>2, <3>3 DEF ReadIsCurrent, Serial, OneAtATime
  <2>2. ASSUME NEW r \in Requests, RevealContact(r)
        PROVE  ReadIsCurrent'
    BY <2>2 DEF RevealContact, ReadIsCurrent, Exists, Serial, OneAtATime, IInv, TypeOK,
                RequestState
  <2>3. ASSUME NEW r \in Requests, SaveFails(r) \/ Enqueue(r) \/ RequestDies(r)
        PROVE  ReadIsCurrent'
    BY <2>3 DEF SaveFails, Enqueue, RequestDies, ReadIsCurrent, Exists, Idle, rows,
                Serial, OneAtATime, IInv, TypeOK
  <2>4. ASSUME NEW r \in Requests, NEW t \in Tutors, StartCreate(r, t)
        PROVE  ReadIsCurrent'
    BY <2>4, IdleState DEF StartCreate, ReadIsCurrent, Exists, rows, Idle,
                Serial, OneAtATime, IInv, TypeOK, RequestState
  <2>5. ASSUME NEW r \in Requests, NEW i \in Inquiries, NEW s \in Statuses,
               StartTransition(r, i, s)
        PROVE  ReadIsCurrent'
    BY <2>5, AtState DEF StartTransition, ReadIsCurrent, Exists, rows,
                Serial, OneAtATime, IInv, TypeOK
  <2>6. ASSUME NEW r \in Requests, NEW i \in Inquiries,
               \/ InsertInquiry(r, i)
               \/ \E t \in Tutors : AdminAdd(r, i, t)
        PROVE  ReadIsCurrent'
    <3>1. request'[r].pc \in {"notify", "notify_created"}
      BY <2>6 DEF InsertInquiry, AdminAdd, At, IInv, TypeOK
    <3> QED BY <3>1 DEF ReadIsCurrent, Serial, OneAtATime
  <2>7. ASSUME NEW i \in Inquiries, AdminDelete(i)
        PROVE  ReadIsCurrent'
    BY <2>7 DEF AdminDelete, ReadIsCurrent, Exists, Statuses, IInv, TypeOK, RequestsCarry,
                Bound
  <2>8. ASSUME \/ \E t \in Tutors, a \in Accounts : ChangeAccount(t, a)
               \/ UNCHANGED vars
        PROVE  ReadIsCurrent'
    BY <2>8 DEF ChangeAccount, vars, rows, ReadIsCurrent, Exists
  <2>9. CASE \E r \in Requests : RequestStep(r)
    BY <2>9, <2>1, <2>2, <2>3, <2>6 DEF RequestStep
  <2>10. CASE UserStep
    BY <2>10, <2>4, <2>5, <2>6, <2>7, <2>8 DEF UserStep, AdminEdit, Serial
  <2> QED BY <2>3, <2>8, <2>9, <2>10 DEF Next
<1> QED BY <1>1, <1>2, InductiveInvariant, PTL DEF Spec

(***************************************************************************)
(* Served one at a time, the requests implement the atomic state machine:  *)
(* each database write is one of its steps, everything else a stutter.     *)
(***************************************************************************)
THEOREM SerialImplements == Serial => (Spec => ImplementsLifecycle)
<1> SUFFICES ASSUME Serial PROVE Spec => Lifecycle!Spec
  BY DEF ImplementsLifecycle
<1>1. Init => Lifecycle!Init
  BY DEF Init, Lifecycle!Init
<1>2. IInv /\ RevealedWasAccepted /\ ReadIsCurrent /\ [Next]_vars =>
        [Lifecycle!Next]_Lifecycle!vars
  <2> SUFFICES ASSUME IInv, ReadIsCurrent, [Next]_vars
               PROVE  Lifecycle!Next \/ UNCHANGED <<status, revealed>>
    BY DEF Lifecycle!vars
  <2>1. ASSUME NEW r \in Requests, SaveStatus(r)
        PROVE  Lifecycle!Next
    <3> DEFINE i == request[r].inquiry
               s == request[r].target
    <3>1. i \in Inquiries /\ s \in Statuses
      BY <2>1 DEF SaveStatus, RequestsCarry, Bound, IInv, Statuses
    <3>2. s \in Lifecycle!Allowed(status[i])
      BY <2>1 DEF SaveStatus, ReadIsCurrent, Allowed, Lifecycle!Allowed
    <3>3. Lifecycle!Move(i, s)
      BY <2>1, <3>2 DEF SaveStatus, Store, Lifecycle!Move
    <3> QED BY <3>1, <3>3 DEF Lifecycle!Next, Lifecycle!Statuses, Statuses
  <2>2. ASSUME NEW r \in Requests, RevealContact(r)
        PROVE  Lifecycle!Next
    <3>1. request[r].inquiry \in Inquiries /\ ~BillingGateEnabled
      BY <2>2 DEF RevealContact, RequestsCarry, Bound, IInv
    <3>2. Lifecycle!Reveal(request[r].inquiry)
      BY <2>2, <3>1 DEF RevealContact, ReadIsCurrent, Lifecycle!Reveal
    <3> QED BY <3>1, <3>2 DEF Lifecycle!Next
  <2>3. ASSUME NEW r \in Requests, NEW i \in Inquiries,
               \/ InsertInquiry(r, i)
               \/ \E t \in Tutors : AdminAdd(r, i, t)
        PROVE  Lifecycle!Next
    BY <2>3 DEF InsertInquiry, AdminAdd, Store, Lifecycle!Next, Lifecycle!Create
  <2>4. ASSUME NEW i \in Inquiries, AdminDelete(i)
        PROVE  Lifecycle!Next
    BY <2>4 DEF AdminDelete, Exists, Statuses, Lifecycle!Next, Lifecycle!Remove,
                Lifecycle!Statuses
  <2>5. ASSUME NEW r \in Requests,
               \/ SaveFails(r)
               \/ Enqueue(r)
               \/ RequestDies(r)
               \/ \E t \in Tutors : StartCreate(r, t)
               \/ \E i \in Inquiries, s \in Statuses : StartTransition(r, i, s)
        PROVE  UNCHANGED <<status, revealed>>
    BY <2>5 DEF SaveFails, Enqueue, RequestDies, StartCreate, StartTransition, rows
  <2>6. ASSUME \/ \E t \in Tutors, a \in Accounts : ChangeAccount(t, a)
               \/ UNCHANGED vars
        PROVE  UNCHANGED <<status, revealed>>
    BY <2>6 DEF ChangeAccount, vars, rows
  <2>7. CASE \E r \in Requests : RequestStep(r)
    BY <2>7, <2>1, <2>2, <2>3, <2>5 DEF RequestStep
  <2>8. CASE UserStep
    BY <2>8, <2>3, <2>4, <2>5, <2>6 DEF UserStep, AdminEdit, Serial
  <2> QED BY <2>5, <2>6, <2>7, <2>8 DEF Next
<1> QED
  BY <1>1, <1>2, InductiveInvariant, SerialReads, RevealNeedsAcceptance, PTL
     DEF Spec, Lifecycle!Spec

(***************************************************************************)
(* The atomic state machine never shows a contact to a tutor who declined; *)
(* so neither do requests served one at a time.                            *)
(***************************************************************************)
LEMMA LifecycleHidesDeclined == Lifecycle!Spec => []Lifecycle!DeclinedStaysHidden
<1> DEFINE LInv == Lifecycle!TypeOK /\ Lifecycle!DeclinedStaysHidden
<1>1. Lifecycle!Init => LInv
  BY DEF Lifecycle!Init, Lifecycle!TypeOK, Lifecycle!DeclinedStaysHidden
<1>2. LInv /\ [Lifecycle!Next]_Lifecycle!vars => LInv'
  <2> SUFFICES ASSUME LInv, [Lifecycle!Next]_Lifecycle!vars PROVE LInv'
    OBVIOUS
  <2>1. ASSUME NEW i \in Inquiries, Lifecycle!Create(i)
        PROVE  LInv'
    BY <2>1 DEF Lifecycle!Create, Lifecycle!TypeOK, Lifecycle!DeclinedStaysHidden,
                Lifecycle!Statuses
  <2>2. ASSUME NEW i \in Inquiries, NEW s \in Lifecycle!Statuses, Lifecycle!Move(i, s)
        PROVE  LInv'
    BY <2>2 DEF Lifecycle!Move, Lifecycle!Allowed, Lifecycle!TypeOK,
                Lifecycle!DeclinedStaysHidden, Lifecycle!Statuses
  <2>3. ASSUME NEW i \in Inquiries, Lifecycle!Reveal(i) \/ Lifecycle!Remove(i)
        PROVE  LInv'
    BY <2>3 DEF Lifecycle!Reveal, Lifecycle!Remove, Lifecycle!TypeOK,
                Lifecycle!DeclinedStaysHidden, Lifecycle!Statuses
  <2>4. CASE UNCHANGED Lifecycle!vars
    BY <2>4 DEF Lifecycle!vars, Lifecycle!TypeOK, Lifecycle!DeclinedStaysHidden
  <2> QED BY <2>1, <2>2, <2>3, <2>4 DEF Lifecycle!Next
<1>3. LInv => Lifecycle!DeclinedStaysHidden
  OBVIOUS
<1> QED BY <1>1, <1>2, <1>3, PTL DEF Lifecycle!Spec

\* Served one at a time, the requests never leave a declined inquiry revealed.
THEOREM SerialHidesDeclined == Serial => (Spec => []DeclinedStaysHidden)
<1> SUFFICES ASSUME Serial PROVE Spec => []Lifecycle!DeclinedStaysHidden
  BY DEF DeclinedStaysHidden
<1>1. Spec => Lifecycle!Spec
  BY SerialImplements DEF ImplementsLifecycle
<1> QED BY <1>1, LifecycleHidesDeclined, PTL
=============================================================================
