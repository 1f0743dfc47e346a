-------------------------- MODULE Verification_proofs --------------------------
(***************************************************************************)
(* Proofs about Verification, for any primary keys, any number of          *)
(* requests at a time and any choice of the flags: type correctness, a     *)
(* rejection keeps its explanation, nothing is granted or shown as         *)
(* verified without an approval, whatever stale copies are saved, and only *)
(* the steps named write an approval or bring back what is gone.  With     *)
(* one request at a time and nobody editing by hand: the copies of the     *)
(* verdict follow it, no decision is forgotten, and the records and roles  *)
(* implement VerificationLifecycle.                                        *)
(***************************************************************************)
EXTENDS Verification, TLAPS

(***************************************************************************)
(* What a request carries at each of its steps.                            *)
(***************************************************************************)
Writing == {"save_sync", "rerequest", "review", "verdict", "role", "mirror", "notify"}

Carries(j) ==
  /\ j.pc # "idle" => j.type \in Types
  /\ j.pc \in {"insert", "save_detail"} => j.type = "TUTOR"
  /\ j.pc \in Writing \cup {"save_detail", "soft_delete"} => j.id \in Ids
  /\ j.pc \in Writing => j.status \in Statuses
  /\ j.pc \in {"insert", "sync"} => j.status \in {"PENDING", "UPDATED"}
  /\ j.pc = "save_detail" => j.status \in {"NONE", "UPDATED"}
  /\ j.pc = "save_sync" => j.status # "REJECTED"
  /\ j.pc = "rerequest" => j.status = "UPDATED"
  /\ j.pc \in {"review", "verdict"} /\ j.status = "REJECTED" => j.comment

RequestsCarry == \A r \in Requests : Carries(job[r])

\* Only a tutor has a detail.
DetailOfTutor == detail.id # NoId => "TUTOR" \in Types

IInv == TypeOK /\ RequestsCarry /\ DetailOfTutor

-----------------------------------------------------------------------------
\* A request moved to a step it may be at keeps the requests well-formed.
LEMMA JobKept ==
  ASSUME job \in [Requests -> Job], RequestsCarry, NEW r \in Requests,
         NEW j \in Job, Carries(j), job' = [job EXCEPT ![r] = j]
  PROVE  job' \in [Requests -> Job] /\ RequestsCarry'
  BY DEF RequestsCarry, Carries

\* A request that has ended is well-formed.
LEMMA IdleJob == Idle \in Job /\ Carries(Idle)
  BY DEF Idle, Job, Carries, Writing

\* So is a request at a step with the columns the step needs.
LEMMA AtJob ==
  ASSUME NEW pc \in {"insert", "save_detail", "sync", "save_sync", "soft_delete",
                     "avatar", "rerequest", "cancel", "review", "verdict"},
         NEW p \in Types, NEW n \in Ids \cup {NoId}, NEW s \in Statuses \cup {"NONE"},
         NEW c \in BOOLEAN
  PROVE  At(pc, p, n, s, c) \in Job
  BY DEF At, Job

\* Storing a record keeps the table and the history well-formed.
LEMMA PutType ==
  ASSUME TypeOK, NEW p \in Types, NEW n \in Ids, NEW s \in Statuses, NEW c \in BOOLEAN,
         Put(p, n, s, c)
  PROVE  row' \in [Types -> Rows \cup {NoRow}] /\ approved' \subseteq Types
  BY DEF TypeOK, Put, Rows

\* A record that exists has a key, a status and a comment flag.
LEMMA RowFields ==
  ASSUME TypeOK, NEW p \in Types
  PROVE  /\ Exists(p) => row[p].id \in Ids /\ row[p].status \in Statuses
         /\ row[p].comment \in BOOLEAN
         /\ ~Exists(p) => row[p] = NoRow
<1>1. row[p] \in Rows \cup {NoRow}
  BY DEF TypeOK
<1>2. CASE row[p] \in Rows
  BY <1>2, VerificationAssumption DEF Rows, Exists
<1>3. CASE row[p] = NoRow
  BY <1>3 DEF NoRow, Exists
<1> QED BY <1>1, <1>2, <1>3

\* A detail that exists is a row of the table, and so is it with its flags changed.
LEMMA DetailFields ==
  ASSUME IInv, detail.id # NoId
  PROVE  /\ detail \in Details
         /\ \A d \in BOOLEAN : /\ [detail EXCEPT !.deleted = d] \in Details
                              /\ [detail EXCEPT !.deleted = d].id = detail.id
         /\ \A v \in BOOLEAN : /\ [detail EXCEPT !.verified = v] \in Details
                              /\ [detail EXCEPT !.verified = v].id = detail.id
         /\ \A d, v \in BOOLEAN :
              /\ [detail EXCEPT !.deleted = d, !.verified = v] \in Details
              /\ [detail EXCEPT !.deleted = d, !.verified = v].id = detail.id
<1>1. detail \in Details
  BY DEF IInv, TypeOK, NoDetail
<1> QED BY <1>1 DEF Details

\* The empty tables satisfy the inductive invariant.
LEMMA InitIInv == Init => IInv
  BY IdleJob DEF Init, IInv, TypeOK, RequestsCarry, DetailOfTutor, NoDetail

\* A step that only moves one request keeps the invariant.
LEMMA OnlyJob ==
  ASSUME IInv, NEW r \in Requests, NEW j \in Job, Carries(j), job' = [job EXCEPT ![r] = j],
         UNCHANGED <<row, detail, role, active, tasks, told, used, detailUsed, approved>>
  PROVE  IInv'
<1>1. job' \in [Requests -> Job] /\ RequestsCarry'
  BY JobKept DEF IInv, TypeOK
<1> QED BY <1>1 DEF IInv, TypeOK, DetailOfTutor

\* The requests that read and check, and those that fail or die.
LEMMA StartsKeep ==
  ASSUME IInv, NEW r \in Requests,
         \/ StartCreateDetail(r) \/ (\E b \in BOOLEAN : StartUpdateDetail(r, b))
         \/ StartSoftDelete(r) \/ Fails(r) \/ RequestDies(r)
         \/ \E p \in Types :
              \/ StartRerequest(r, p) \/ StartCancel(r, p)
              \/ \E s \in Statuses, c \in BOOLEAN : StartReview(r, p, s, c)
              \/ \E s \in Verdicts : StartVerdict(r, p, s)
  PROVE  IInv'
<1> USE DEF Begin, End
<1>1. CASE StartCreateDetail(r)
  <2>1. At("insert", "TUTOR", NoId, "PENDING", FALSE) \in Job
    BY <1>1, AtJob DEF StartCreateDetail, Statuses
  <2>2. Carries(At("insert", "TUTOR", NoId, "PENDING", FALSE))
    BY <1>1 DEF StartCreateDetail, Carries, At, Writing, Statuses
  <2> QED BY <1>1, <2>1, <2>2, OnlyJob DEF StartCreateDetail
<1>2. ASSUME NEW b \in BOOLEAN, StartUpdateDetail(r, b)
      PROVE  IInv'
  <2> DEFINE j == [pc |-> "save_detail", type |-> "TUTOR", id |-> detail.id,
                   status |-> IF b THEN "NONE" ELSE "UPDATED", comment |-> FALSE,
                   verified |-> detail.verified]
  <2>1. "TUTOR" \in Types /\ detail \in Details
    BY <1>2 DEF IInv, DetailOfTutor, StartUpdateDetail, LiveDetail, TypeOK, NoDetail
  <2>3. j \in Job
    BY <2>1 DEF Job, Details, Statuses
  <2>4. Carries(j)
    BY <2>1 DEF Carries, Writing, Details
  <2>5. job' = [job EXCEPT ![r] = j]
    BY <1>2 DEF StartUpdateDetail
  <2> QED BY <1>2, <2>3, <2>4, <2>5, OnlyJob DEF StartUpdateDetail
<1>3. CASE StartSoftDelete(r)
  <2>1. "TUTOR" \in Types /\ detail.id \in Ids
    BY <1>3 DEF IInv, DetailOfTutor, StartSoftDelete, LiveDetail, TypeOK, NoDetail, Details
  <2>2. At("soft_delete", "TUTOR", detail.id, "NONE", FALSE) \in Job
    BY <2>1, AtJob
  <2>3. Carries(At("soft_delete", "TUTOR", detail.id, "NONE", FALSE))
    BY <2>1 DEF Carries, At, Writing
  <2> QED BY <1>3, <2>2, <2>3, OnlyJob DEF StartSoftDelete
<1>4. CASE Fails(r) \/ RequestDies(r)
  BY <1>4, IdleJob, OnlyJob DEF Fails, RequestDies
<1>5. ASSUME NEW p \in Types, StartRerequest(r, p)
      PROVE  IInv'
  <2>1. row[p].id \in Ids
    BY <1>5, RowFields DEF IInv, StartRerequest
  <2>2. At("rerequest", p, row[p].id, "UPDATED", FALSE) \in Job
    BY <2>1, AtJob DEF Statuses
  <2>3. Carries(At("rerequest", p, row[p].id, "UPDATED", FALSE))
    BY <2>1 DEF Carries, At, Writing, Statuses
  <2> QED BY <1>5, <2>2, <2>3, OnlyJob DEF StartRerequest
<1>6. ASSUME NEW p \in Types, StartCancel(r, p)
      PROVE  IInv'
  <2>1. row[p].id \in Ids
    BY <1>6, RowFields DEF IInv, StartCancel
  <2>2. At("cancel", p, row[p].id, "NONE", FALSE) \in Job
    BY <2>1, AtJob
  <2>3. Carries(At("cancel", p, row[p].id, "NONE", FALSE))
    BY <2>1 DEF Carries, At, Writing
  <2> QED BY <1>6, <2>2, <2>3, OnlyJob DEF StartCancel
<1>7. ASSUME NEW p \in Types, NEW s \in Statuses, NEW c \in BOOLEAN, StartReview(r, p, s, c)
      PROVE  IInv'
  <2>1. row[p].id \in Ids
    BY <1>7, RowFields DEF IInv, StartReview
  <2>2. At("review", p, row[p].id, s, c) \in Job
    BY <2>1, AtJob
  <2>3. Carries(At("review", p, row[p].id, s, c))
    BY <1>7, <2>1 DEF StartReview, Carries, At, Writing
  <2> QED BY <1>7, <2>2, <2>3, OnlyJob DEF StartReview
<1>8. ASSUME NEW p \in Types, NEW s \in Verdicts, StartVerdict(r, p, s)
      PROVE  IInv'
  <2>1. row[p].id \in Ids /\ s \in Statuses /\ (s = "REJECTED") \in BOOLEAN
    BY <1>8, RowFields DEF IInv, StartVerdict, Verdicts, Statuses
  <2>2. At("verdict", p, row[p].id, s, s = "REJECTED") \in Job
    BY <2>1, AtJob
  <2>3. Carries(At("verdict", p, row[p].id, s, s = "REJECTED"))
    BY <2>1 DEF Carries, At, Writing
  <2> QED BY <1>8, <2>2, <2>3, OnlyJob DEF StartVerdict
<1> QED BY <1>1, <1>2, <1>3, <1>4, <1>5, <1>6, <1>7, <1>8

\* A request that moves on to its next statement keeps the columns it carries.
LEMMA StepJob ==
  ASSUME IInv, NEW r \in Requests, NEW pc, Step(r, pc),
         <<job[r].pc, pc>> \in {<<"insert", "sync">>, <<"soft_delete", "drop_role">>,
                              <<"cancel", "cancel_detail">>, <<"review", "role">>,
                              <<"verdict", "role">>, <<"role", "mirror">>,
                              <<"role", "notify">>, <<"mirror", "notify">>}
  PROVE  job' \in [Requests -> Job] /\ RequestsCarry'
<1> DEFINE j == [job[r] EXCEPT !.pc = pc]
<1>1. job[r] \in Job /\ Carries(job[r])
  BY DEF IInv, TypeOK, RequestsCarry
<1>2. j \in Job
  BY <1>1 DEF Job
<1>3. Carries(j)
  BY <1>1, <1>2 DEF Job, Carries, Writing
<1>4. job' = [job EXCEPT ![r] = j]
  BY DEF Step
<1> QED BY <1>2, <1>3, <1>4, JobKept DEF IInv, TypeOK

\* So does one that ends.
LEMMA EndJob ==
  ASSUME IInv, NEW r \in Requests, End(r)
  PROVE  job' \in [Requests -> Job] /\ RequestsCarry'
  BY IdleJob, JobKept DEF End, IInv, TypeOK

\* A record inserted under a fresh key is a record.
LEMMA InsertType ==
  ASSUME TypeOK, NEW p \in Types, NEW s \in Statuses, Insert(p, s)
  PROVE  /\ row' \in [Types -> Rows \cup {NoRow}]
         /\ approved' \subseteq Types /\ used' \subseteq Ids
<1>1. PICK n \in Ids \ used : Put(p, n, s, FALSE) /\ used' = used \cup {n}
  BY DEF Insert
<1>2. row' \in [Types -> Rows \cup {NoRow}] /\ approved' \subseteq Types
  BY <1>1, PutType
<1> QED BY <1>1, <1>2 DEF TypeOK

\* A detail inserted under a fresh key is a detail.
LEMMA InsertDetailType ==
  ASSUME TypeOK, InsertDetailRow
  PROVE  detail' \in Details /\ detailUsed' \subseteq Ids
  BY DEF TypeOK, InsertDetailRow, Details

(***************************************************************************)
(* The applicant's statements that write keep the invariant.               *)
(***************************************************************************)
LEMMA ApplicantWritesKeep ==
  ASSUME IInv, NEW r \in Requests,
         \/ InsertDetail(r) \/ SaveDetail(r) \/ SyncVerification(r) \/ SaveSync(r)
         \/ SoftDelete(r) \/ DropRole(r)
         \/ (\E upload \in BOOLEAN : StartAvatar(r, upload)) \/ AvatarVerification(r)
         \/ (\E p \in Types : RequestVerification(r, p))
         \/ SaveRerequest(r) \/ CancelVerification(r) \/ CancelDetail(r)
         \/ DeleteMe(r)
  PROVE  IInv'
<1>1. job[r] \in Job /\ Carries(job[r])
  BY DEF IInv, TypeOK, RequestsCarry
<1>2. CASE InsertDetail(r)
  <2>1. job' \in [Requests -> Job] /\ RequestsCarry'
    BY <1>2, StepJob DEF InsertDetail
  <2>2. detail' \in Details /\ detailUsed' \subseteq Ids /\ "TUTOR" \in Types
    BY <1>1, <1>2, InsertDetailType DEF InsertDetail, IInv, Carries
  <2> QED BY <1>2, <2>1, <2>2 DEF InsertDetail, IInv, TypeOK, DetailOfTutor
<1>3. CASE SaveDetail(r)
  <2> DEFINE j == At("sync", "TUTOR", NoId, job[r].status, FALSE)
  <2>1. /\ job[r].pc = "save_detail" /\ "TUTOR" \in Types
        /\ job[r].id \in Ids /\ job[r].verified \in BOOLEAN
        /\ job[r].status \in {"NONE", "UPDATED"}
    BY <1>1, <1>3 DEF SaveDetail, Carries, Job
  <2>2. detail' \in Details
    BY <1>3, <2>1 DEF SaveDetail, Details
  <2>3. job' \in [Requests -> Job] /\ RequestsCarry'
    <3>1. CASE job[r].status = "NONE"
      BY <1>3, <3>1, EndJob DEF SaveDetail
    <3>2. CASE job[r].status = "UPDATED"
      <4>1. j \in Job
        BY <2>1, <3>2, AtJob DEF Statuses
      <4>2. Carries(j)
        BY <2>1, <3>2 DEF At, Carries, Writing
      <4>3. job' = [job EXCEPT ![r] = j]
        BY <1>3, <3>2 DEF SaveDetail, GoOn
      <4> QED BY <4>1, <4>2, <4>3, JobKept DEF IInv, TypeOK
    <3> QED BY <2>1, <3>1, <3>2
  <2> QED BY <1>3, <2>1, <2>2, <2>3 DEF SaveDetail, IInv, TypeOK, DetailOfTutor
<1>4. CASE SyncVerification(r)
  <2> DEFINE p == job[r].type
             s == IF row[p].status = "APPROVED" THEN "APPROVED" ELSE job[r].status
             j == At("save_sync", p, row[p].id, s, FALSE)
  <2>1. /\ p \in Types /\ job[r].pc = "sync" /\ job[r].status \in {"PENDING", "UPDATED"}
        /\ job[r].status \in Statuses
    BY <1>1, <1>4 DEF SyncVerification, Carries, Statuses
  <2>2. CASE ~Exists(p)
    <3>1. Insert(p, job[r].status) /\ End(r)
      BY <1>4, <2>2 DEF SyncVerification
    <3>2. /\ row' \in [Types -> Rows \cup {NoRow}]
          /\ approved' \subseteq Types /\ used' \subseteq Ids
      BY <2>1, <3>1, InsertType DEF IInv
    <3>3. job' \in [Requests -> Job] /\ RequestsCarry'
      BY <3>1, EndJob
    <3> QED BY <1>4, <3>2, <3>3 DEF SyncVerification, IInv, TypeOK, DetailOfTutor
  <2>3. CASE Exists(p)
    <3>1. row[p].id \in Ids /\ s \in {"APPROVED", "PENDING", "UPDATED"} /\ s \in Statuses
      BY <2>1, <2>3, RowFields DEF IInv, Statuses
    <3>2. j \in Job
      BY <2>1, <3>1, AtJob
    <3>3. Carries(j)
      BY <2>1, <3>1 DEF At, Carries, Writing
    <3>4. /\ job' = [job EXCEPT ![r] = j]
          /\ UNCHANGED <<row, detail, role, active, tasks, told, used, detailUsed, approved>>
      BY <1>4, <2>3 DEF SyncVerification, GoOn
    <3> HIDE DEF j
    <3> QED BY <3>2, <3>3, <3>4, OnlyJob
  <2> QED BY <2>2, <2>3
<1>5. CASE SaveSync(r) \/ SaveRerequest(r)
  <2>1. job[r].type \in Types /\ job[r].id \in Ids /\ job[r].status \in Statuses
    BY <1>1, <1>5 DEF SaveSync, SaveRerequest, Carries, Writing
  <2>2. Put(job[r].type, job[r].id, job[r].status, FALSE) /\ End(r)
    BY <1>5 DEF SaveSync, SaveRerequest
  <2>3. row' \in [Types -> Rows \cup {NoRow}] /\ approved' \subseteq Types
    BY <2>1, <2>2, PutType DEF IInv
  <2>4. job' \in [Requests -> Job] /\ RequestsCarry'
    BY <2>2, EndJob
  <2> QED BY <1>5, <2>3, <2>4 DEF SaveSync, SaveRerequest, IInv, TypeOK, DetailOfTutor
<1>6. CASE SoftDelete(r)
  <2>1. job' \in [Requests -> Job] /\ RequestsCarry'
    BY <1>6, StepJob DEF SoftDelete
  <2>2. detail' \in Details /\ detail'.id = detail.id
    BY <1>1, <1>6, VerificationAssumption, DetailFields
       DEF SoftDelete, Carries
  <2> QED BY <1>6, <2>1, <2>2 DEF SoftDelete, IInv, TypeOK, DetailOfTutor
<1>7. CASE DropRole(r)
  <2>1. job' \in [Requests -> Job] /\ RequestsCarry'
    BY <1>7, EndJob DEF DropRole
  <2> QED BY <1>7, <2>1 DEF DropRole, IInv, TypeOK, DetailOfTutor
<1>8. ASSUME NEW upload \in BOOLEAN, StartAvatar(r, upload)
      PROVE  IInv'
  <2> DEFINE j == At("avatar", "TUTOR", NoId, "PENDING", FALSE)
  <2>1. "TUTOR" \in Types
    BY <1>8 DEF StartAvatar
  <2>2. job' \in [Requests -> Job] /\ RequestsCarry'
    <3>1. j \in Job
      BY <2>1, AtJob DEF Statuses
    <3>2. Carries(j)
      BY <2>1 DEF At, Carries, Writing
    <3>3. job' = [job EXCEPT ![r] = j] \/ UNCHANGED job
      BY <1>8 DEF StartAvatar, GoOn
    <3>4. CASE job' = [job EXCEPT ![r] = j]
      BY <3>1, <3>2, <3>4, JobKept DEF IInv, TypeOK
    <3>5. CASE UNCHANGED job
      BY <3>5 DEF IInv, TypeOK, RequestsCarry
    <3> QED BY <3>3, <3>4, <3>5
  <2>3. detail' \in Details \cup {NoDetail} /\ detailUsed' \subseteq Ids
    BY <1>8, InsertDetailType DEF StartAvatar, IInv, TypeOK
  <2> QED BY <1>8, <2>1, <2>2, <2>3 DEF StartAvatar, IInv, TypeOK, DetailOfTutor
<1>9. CASE AvatarVerification(r)
  <2>1. job[r].type \in Types /\ "PENDING" \in Statuses
    BY <1>1, <1>9 DEF AvatarVerification, Carries, Statuses
  <2>2. /\ row' \in [Types -> Rows \cup {NoRow}]
        /\ approved' \subseteq Types /\ used' \subseteq Ids
    BY <1>9, <2>1, InsertType DEF AvatarVerification, IInv, TypeOK
  <2>3. job' \in [Requests -> Job] /\ RequestsCarry'
    BY <1>9, EndJob DEF AvatarVerification
  <2> QED BY <1>9, <2>2, <2>3 DEF AvatarVerification, IInv, TypeOK, DetailOfTutor
<1>10. ASSUME NEW p \in Types, RequestVerification(r, p)
       PROVE  IInv'
  <2>1. /\ row' \in [Types -> Rows \cup {NoRow}]
        /\ approved' \subseteq Types /\ used' \subseteq Ids
    BY <1>10, InsertType DEF RequestVerification, IInv, Statuses
  <2> QED BY <1>10, <2>1
          DEF RequestVerification, IInv, TypeOK, RequestsCarry, DetailOfTutor
<1>11. CASE CancelVerification(r)
  <2>1. job' \in [Requests -> Job] /\ RequestsCarry'
    BY <1>11, StepJob, EndJob DEF CancelVerification
  <2>2. row' \in [Types -> Rows \cup {NoRow}]
    BY <1>11 DEF CancelVerification, IInv, TypeOK
  <2> QED BY <1>11, <2>1, <2>2 DEF CancelVerification, IInv, TypeOK, DetailOfTutor
<1>12. CASE CancelDetail(r)
  <2>1. job' \in [Requests -> Job] /\ RequestsCarry'
    BY <1>12, EndJob DEF CancelDetail
  <2> QED BY <1>12, <2>1 DEF CancelDetail, IInv, TypeOK, DetailOfTutor, NoDetail
<1>13. CASE DeleteMe(r)
  BY <1>13 DEF DeleteMe, IInv, TypeOK, RequestsCarry, DetailOfTutor
<1> QED BY <1>2, <1>3, <1>4, <1>5, <1>6, <1>7, <1>8, <1>9, <1>10, <1>11, <1>12, <1>13

(***************************************************************************)
(* The reviewers' statements, the task and the change forms keep it.       *)
(***************************************************************************)
LEMMA ReviewAndAdminKeep ==
  ASSUME IInv,
         \/ \E r \in Requests : \/ SaveReview(r) \/ SaveVerdict(r)
                                \/ GrantOrRevoke(r) \/ SetMirror(r) \/ Notify(r)
         \/ \E n \in Ids : RunTask(n)
         \/ AdminStep
  PROVE  IInv'
<1>1. ASSUME NEW r \in Requests, SaveReview(r) \/ SaveVerdict(r)
      PROVE  IInv'
  <2>1. /\ job[r].type \in Types /\ job[r].id \in Ids /\ job[r].status \in Statuses
        /\ job[r].comment \in BOOLEAN
    BY <1>1 DEF SaveReview, SaveVerdict, IInv, TypeOK, RequestsCarry, Carries, Writing, Job
  <2>2. /\ Put(job[r].type, job[r].id, job[r].status, job[r].comment) /\ Step(r, "role")
        /\ UNCHANGED <<detail, role, active, tasks, told, used, detailUsed>>
    BY <1>1 DEF SaveReview, SaveVerdict
  <2>3. row' \in [Types -> Rows \cup {NoRow}] /\ approved' \subseteq Types
    BY <2>1, <2>2, PutType DEF IInv
  <2>4. job' \in [Requests -> Job] /\ RequestsCarry'
    BY <1>1, <2>2, StepJob DEF SaveReview, SaveVerdict
  <2> QED BY <2>2, <2>3, <2>4 DEF IInv, TypeOK, DetailOfTutor
<1>2. ASSUME NEW r \in Requests, GrantOrRevoke(r)
      PROVE  IInv'
  <2>1. job[r].type \in Types
    BY <1>2 DEF GrantOrRevoke, IInv, RequestsCarry, Carries
  <2>2. job' \in [Requests -> Job] /\ RequestsCarry'
    BY <1>2, StepJob DEF GrantOrRevoke
  <2> QED BY <1>2, <2>1, <2>2 DEF GrantOrRevoke, IInv, TypeOK, DetailOfTutor
<1>3. ASSUME NEW r \in Requests, SetMirror(r)
      PROVE  IInv'
  <2>1. job' \in [Requests -> Job] /\ RequestsCarry'
    BY <1>3, StepJob DEF SetMirror
  <2>2. detail' \in Details \cup {NoDetail} /\ detail'.id = detail.id
    <3>1. CASE LiveDetail
      BY <1>3, <3>1, DetailFields DEF SetMirror, LiveDetail
    <3>2. CASE ~LiveDetail
      BY <1>3, <3>2 DEF SetMirror, IInv, TypeOK
    <3> QED BY <3>1, <3>2
  <2> QED BY <1>3, <2>1, <2>2 DEF SetMirror, IInv, TypeOK, DetailOfTutor
<1>4. ASSUME NEW r \in Requests, Notify(r)
      PROVE  IInv'
  <2>1. job' \in [Requests -> Job] /\ RequestsCarry'
    BY <1>4, EndJob DEF Notify
  <2>2. job[r].id \in Ids
    BY <1>4 DEF Notify, IInv, RequestsCarry, Carries, Writing
  <2> QED BY <1>4, <2>1, <2>2 DEF Notify, IInv, TypeOK, DetailOfTutor
<1>5. ASSUME NEW n \in Ids, RunTask(n)
      PROVE  IInv'
  <2> DEFINE now == {row[p].status : p \in {q \in Types : row[q].id = n
                                              /\ row[q].status \in Verdicts}}
  <2>1. now \in SUBSET Verdicts
    OBVIOUS
  <2>2. told' = [told EXCEPT ![n] = told[n] \cup now]
    BY <1>5 DEF RunTask
  <2> HIDE DEF now
  <2>3. told' \in [Ids -> SUBSET Verdicts]
    BY <2>1, <2>2 DEF IInv, TypeOK
  <2>4. tasks' \subseteq Ids
    BY <1>5 DEF RunTask, IInv, TypeOK
  <2> QED BY <1>5, <2>3, <2>4 DEF RunTask, IInv, TypeOK, RequestsCarry, DetailOfTutor
<1>6. ASSUME NEW p \in Types, NEW s \in Statuses, NEW c \in BOOLEAN,
             AdminEditVerification(p, s, c)
      PROVE  IInv'
  <2>1. row[p].id \in Ids
    BY <1>6, RowFields DEF IInv, AdminEditVerification
  <2>2. row' \in [Types -> Rows \cup {NoRow}] /\ approved' \subseteq Types
    BY <1>6, <2>1, PutType DEF IInv, AdminEditVerification
  <2> QED BY <1>6, <2>2
          DEF AdminEditVerification, IInv, TypeOK, RequestsCarry, DetailOfTutor
<1>7. ASSUME NEW p \in Types, AdminDeleteVerification(p)
      PROVE  IInv'
  BY <1>7 DEF AdminDeleteVerification, IInv, TypeOK, RequestsCarry, DetailOfTutor
<1>8. ASSUME NEW d \in BOOLEAN, NEW v \in BOOLEAN, AdminEditDetail(d, v)
      PROVE  IInv'
  <2>1. detail' \in Details /\ detail'.id = detail.id
    BY <1>8, DetailFields DEF AdminEditDetail
  <2> QED BY <1>8, <2>1 DEF AdminEditDetail, IInv, TypeOK, RequestsCarry, DetailOfTutor
<1>9. CASE AdminDeleteDetail
  BY <1>9 DEF AdminDeleteDetail, IInv, TypeOK, RequestsCarry, DetailOfTutor, NoDetail
<1>10. ASSUME NEW given \in SUBSET Types, AdminSetRoles(given)
       PROVE  IInv'
  BY <1>10 DEF AdminSetRoles, IInv, TypeOK, RequestsCarry, DetailOfTutor
<1> QED BY <1>1, <1>2, <1>3, <1>4, <1>5, <1>6, <1>7, <1>8, <1>9, <1>10 DEF AdminStep

\* Every step keeps the invariant.
LEMMA NextIInv == IInv /\ [Next]_vars => IInv'
<1> SUFFICES ASSUME IInv, [Next]_vars PROVE IInv'
  OBVIOUS
<1>1. ASSUME NEW r \in Requests, ApplicantStep(r)
      PROVE  IInv'
  BY <1>1, StartsKeep, ApplicantWritesKeep DEF ApplicantStep
<1>2. ASSUME NEW r \in Requests, ReviewerStep(r)
      PROVE  IInv'
  BY <1>2, StartsKeep, ReviewAndAdminKeep DEF ReviewerStep
<1>3. ASSUME NEW r \in Requests, Fails(r) \/ RequestDies(r)
      PROVE  IInv'
  BY <1>3, StartsKeep
<1>4. CASE (\E n \in Ids : RunTask(n)) \/ AdminStep
  BY <1>4, ReviewAndAdminKeep
<1>5. CASE UNCHANGED vars
  BY <1>5 DEF vars, IInv, TypeOK, RequestsCarry, DetailOfTutor
<1> QED BY <1>1, <1>2, <1>3, <1>4, <1>5 DEF Next

\* The invariant holds throughout.
LEMMA InductiveInvariant == Spec => []IInv
  BY InitIInv, NextIInv, PTL DEF Spec

(***************************************************************************)
(* Type correctness: every table row, role and request stays well-formed.  *)
(***************************************************************************)
THEOREM TypeCorrect == Spec => []TypeOK
<1>1. IInv => TypeOK
  BY DEF IInv
<1> QED BY <1>1, InductiveInvariant, PTL

-----------------------------------------------------------------------------
(***************************************************************************)
(* A rejection keeps its explanation: the only writers of REJECTED are the *)
(* reviewers' requests, which carry the comment beside the status.         *)
(***************************************************************************)
\* A record just inserted is not a rejection.
LEMMA InsertExplained ==
  ASSUME IInv, RejectionExplained, NEW p \in Types, NEW s \in {"PENDING", "UPDATED"},
         Insert(p, s)
  PROVE  RejectionExplained'
  BY DEF IInv, TypeOK, RejectionExplained, Insert, Put

\* A save that carries a comment with a rejection keeps every rejection explained.
LEMMA PutExplained ==
  ASSUME IInv, RejectionExplained, NEW p \in Types, NEW n, NEW s, NEW c,
         s = "REJECTED" => c, Put(p, n, s, c)
  PROVE  RejectionExplained'
  BY DEF IInv, TypeOK, RejectionExplained, Put

\* Every step keeps the explanations.
LEMMA NextExplained == IInv /\ RejectionExplained /\ [Next]_vars => RejectionExplained'
<1> SUFFICES ASSUME IInv, RejectionExplained, [Next]_vars PROVE RejectionExplained'
  OBVIOUS
<1>1. CASE UNCHANGED row
  BY <1>1 DEF RejectionExplained
<1>2. ASSUME NEW r \in Requests,
             \/ SaveSync(r) \/ SaveRerequest(r) \/ SaveReview(r) \/ SaveVerdict(r)
      PROVE  RejectionExplained'
  <2>1. job[r].type \in Types /\ Carries(job[r])
    BY <1>2 DEF IInv, RequestsCarry, Carries, SaveSync, SaveRerequest, SaveReview, SaveVerdict
  <2>2. CASE SaveSync(r) \/ SaveRerequest(r)
    <3>1. /\ Put(job[r].type, job[r].id, job[r].status, FALSE)
          /\ job[r].status # "REJECTED"
      BY <2>1, <2>2 DEF SaveSync, SaveRerequest, Carries
    <3> QED BY <2>1, <3>1, PutExplained
  <2>3. CASE SaveReview(r) \/ SaveVerdict(r)
    <3>1. /\ Put(job[r].type, job[r].id, job[r].status, job[r].comment)
          /\ job[r].status = "REJECTED" => job[r].comment
      BY <2>1, <2>3 DEF SaveReview, SaveVerdict, Carries
    <3> QED BY <2>1, <3>1, PutExplained
  <2> QED BY <1>2, <2>2, <2>3
<1>3. ASSUME NEW r \in Requests, SyncVerification(r) \/ AvatarVerification(r)
      PROVE  RejectionExplained'
  <2>1. /\ job[r].type \in Types
        /\ UNCHANGED row \/ (\E s \in {"PENDING", "UPDATED"} : Insert(job[r].type, s))
    BY <1>3 DEF SyncVerification, AvatarVerification, IInv, RequestsCarry, Carries
  <2> QED BY <1>1, <2>1, InsertExplained
<1>4. ASSUME NEW r \in Requests, NEW p \in Types, RequestVerification(r, p)
      PROVE  RejectionExplained'
  BY <1>4, InsertExplained DEF RequestVerification
<1>5. ASSUME NEW r \in Requests, CancelVerification(r)
      PROVE  RejectionExplained'
  BY <1>5 DEF CancelVerification, RejectionExplained, IInv, TypeOK, NoRow
<1>6. CASE "verification" \in AdminForms
  BY <1>6 DEF RejectionExplained
<1>7. CASE AdminStep
  <2>1. UNCHANGED row \/ "verification" \in AdminForms
    BY <1>7 DEF AdminStep, AdminDeleteVerification, AdminEditVerification, AdminEditDetail,
                AdminDeleteDetail, AdminSetRoles
  <2> QED BY <1>1, <1>6, <2>1
<1>8. ASSUME NEW r \in Requests, ApplicantStep(r)
      PROVE  RejectionExplained'
  <2>1. \/ UNCHANGED row
        \/ SaveSync(r) \/ SaveRerequest(r) \/ SyncVerification(r) \/ AvatarVerification(r)
        \/ (\E p \in Types : RequestVerification(r, p)) \/ CancelVerification(r)
    BY <1>8 DEF ApplicantStep, StartCreateDetail, InsertDetail, StartUpdateDetail, SaveDetail,
                StartSoftDelete, SoftDelete, DropRole, StartAvatar, StartRerequest,
                StartCancel, CancelDetail, DeleteMe
  <2> QED BY <1>1, <1>2, <1>3, <1>4, <1>5, <2>1
<1>9. ASSUME NEW r \in Requests, ReviewerStep(r) \/ Fails(r) \/ RequestDies(r)
      PROVE  RejectionExplained'
  <2>1. UNCHANGED row \/ SaveReview(r) \/ SaveVerdict(r)
    BY <1>9 DEF ReviewerStep, StartReview, StartVerdict, GrantOrRevoke, SetMirror, Notify,
                Fails, RequestDies
  <2> QED BY <1>1, <1>2, <2>1
<1>10. ASSUME NEW n \in Ids, RunTask(n)
       PROVE  RejectionExplained'
  BY <1>1, <1>10 DEF RunTask
<1>11. CASE UNCHANGED vars
  BY <1>1, <1>11 DEF vars
<1> QED BY <1>7, <1>8, <1>9, <1>10, <1>11 DEF Next

(***************************************************************************)
(* A rejected applicant always has a comment to read, however the          *)
(* re-submissions, syncs and reviews of the same record interleave.        *)
(***************************************************************************)
THEOREM RejectionKeepsComment == Spec => []RejectionExplained
<1>1. Init => RejectionExplained
  BY DEF Init, RejectionExplained, NoRow
<1> QED BY <1>1, NextExplained, InductiveInvariant, PTL DEF Spec

-----------------------------------------------------------------------------
(***************************************************************************)
(* Nothing without an approval.  What makes it inductive: a copy that says *)
(* APPROVED, or that shows the detail as verified, was read or written     *)
(* when the approval was already on record, and the history only grows.    *)
(***************************************************************************)
Backed(j, history) ==
  /\ j.pc \in {"save_sync", "role", "mirror"} /\ j.status = "APPROVED" => j.type \in history
  /\ j.pc = "mirror" => j.type = "TUTOR"
  /\ j.pc = "save_detail" /\ j.verified => "TUTOR" \in history

RowsBacked == \A p \in Types : row[p].status = "APPROVED" => p \in approved
RequestsBacked == \A r \in Requests : Backed(job[r], approved)
ApprovalsRecorded == RowsBacked /\ RequestsBacked /\ NothingWithoutApproval

\* The history is never forgotten.
LEMMA ApprovedGrows == [Next]_vars => approved \subseteq approved'
<1> SUFFICES ASSUME [Next]_vars PROVE approved \subseteq approved'
  OBVIOUS
<1>1. ASSUME NEW r \in Requests, ApplicantStep(r)
      PROVE  approved \subseteq approved'
  BY <1>1 DEF ApplicantStep, StartCreateDetail, InsertDetail, StartUpdateDetail, SaveDetail,
              StartSoftDelete, SoftDelete, DropRole, StartAvatar, StartRerequest, StartCancel,
              CancelDetail, DeleteMe, SyncVerification, SaveSync, AvatarVerification,
              RequestVerification, SaveRerequest, CancelVerification, Insert, Put
<1>2. ASSUME NEW r \in Requests, ReviewerStep(r) \/ Fails(r) \/ RequestDies(r)
      PROVE  approved \subseteq approved'
  BY <1>2 DEF ReviewerStep, StartReview, StartVerdict, SaveReview, SaveVerdict, GrantOrRevoke,
              SetMirror, Notify, Fails, RequestDies, Put
<1>3. CASE (\E n \in Ids : RunTask(n)) \/ AdminStep
  BY <1>3 DEF RunTask, AdminStep, AdminDeleteVerification, AdminEditVerification,
              AdminEditDetail, AdminDeleteDetail, AdminSetRoles, Put
<1>4. CASE UNCHANGED vars
  BY <1>4 DEF vars
<1> QED BY <1>1, <1>2, <1>3, <1>4 DEF Next

\* Storing a record enters an approval in the history.
LEMMA PutBacked ==
  ASSUME IInv, RowsBacked, NEW p \in Types, NEW n, NEW s, NEW c, Put(p, n, s, c)
  PROVE  RowsBacked' /\ (s = "APPROVED" => p \in approved')
  BY DEF IInv, TypeOK, RowsBacked, Put

\* Storing a record changes that record.
LEMMA PutRow ==
  ASSUME TypeOK, NEW p \in Types, NEW n, NEW s, NEW c, Put(p, n, s, c)
  PROVE  /\ row'[p].id = n /\ row'[p].status = s
         /\ \A q \in Types : q # p => row'[q] = row[q]
  BY DEF TypeOK, Put

\* A record just inserted has a fresh key and waits for its review.
LEMMA InsertRow ==
  ASSUME TypeOK, NEW p \in Types, NEW s, Insert(p, s)
  PROVE  /\ row'[p].id \in Ids \ used /\ row'[p].status = s
         /\ used' = used \cup {row'[p].id}
         /\ \A q \in Types : q # p => row'[q] = row[q]
<1>1. PICK n \in Ids \ used : Put(p, n, s, FALSE) /\ used' = used \cup {n}
  BY DEF Insert
<1> QED BY <1>1, PutRow

\* Who writes the records, and how.
LEMMA WhoWritesRows ==
  ASSUME IInv, [Next]_vars
  PROVE  \/ UNCHANGED row
         \/ \E p \in Types : row' = [row EXCEPT ![p] = NoRow]
         \/ \E p \in Types, s \in {"PENDING", "UPDATED"} : Insert(p, s)
         \/ \E r \in Requests :
              SaveSync(r) \/ SaveRerequest(r) \/ SaveReview(r) \/ SaveVerdict(r)
         \/ \E p \in Types, s \in Statuses, c \in BOOLEAN : AdminEditVerification(p, s, c)
<1>1. ASSUME NEW r \in Requests, ApplicantStep(r)
      PROVE  \/ UNCHANGED row
             \/ \E p \in Types : row' = [row EXCEPT ![p] = NoRow]
             \/ \E p \in Types, s \in {"PENDING", "UPDATED"} : Insert(p, s)
             \/ SaveSync(r) \/ SaveRerequest(r)
  <2>1. \/ UNCHANGED row
        \/ SaveSync(r) \/ SaveRerequest(r) \/ SyncVerification(r) \/ AvatarVerification(r)
        \/ (\E p \in Types : RequestVerification(r, p)) \/ CancelVerification(r)
    BY <1>1 DEF ApplicantStep, StartCreateDetail, InsertDetail, StartUpdateDetail,
                SaveDetail, StartSoftDelete, SoftDelete, DropRole, StartAvatar,
                StartRerequest, StartCancel, CancelDetail, DeleteMe
  <2>2. Carries(job[r])
    BY DEF IInv, RequestsCarry
  <2>3. CASE SyncVerification(r) \/ AvatarVerification(r)
    BY <2>2, <2>3 DEF SyncVerification, AvatarVerification, Carries
  <2>4. CASE \E p \in Types : RequestVerification(r, p)
    BY <2>4 DEF RequestVerification
  <2>5. CASE CancelVerification(r)
    BY <2>2, <2>5 DEF CancelVerification, Carries
  <2> QED BY <2>1, <2>3, <2>4, <2>5
<1>2. ASSUME NEW r \in Requests, ReviewerStep(r) \/ Fails(r) \/ RequestDies(r)
      PROVE  UNCHANGED row \/ SaveReview(r) \/ SaveVerdict(r)
  BY <1>2 DEF ReviewerStep, StartReview, StartVerdict, GrantOrRevoke, SetMirror, Notify,
              Fails, RequestDies
<1>3. CASE (\E n \in Ids : RunTask(n)) \/ AdminStep
  BY <1>3 DEF RunTask, AdminStep, AdminDeleteVerification, AdminEditDetail,
              AdminDeleteDetail, AdminSetRoles
<1>4. CASE UNCHANGED vars
  BY <1>4 DEF vars
<1> QED BY <1>1, <1>2, <1>3, <1>4 DEF Next

\* Every step keeps the approved records in the history.
LEMMA NextRowsBacked == IInv /\ RowsBacked /\ [Next]_vars => RowsBacked'
<1> SUFFICES ASSUME IInv, RowsBacked, [Next]_vars PROVE RowsBacked'
  OBVIOUS
<1> DEFINE Stores == \E p \in Types, n \in Ids, s \in Statuses, c \in BOOLEAN : Put(p, n, s, c)
           Removes == \E p \in Types : row' = [row EXCEPT ![p] = NoRow]
<1>1. UNCHANGED row \/ Stores \/ Removes
  <2>1. CASE \E p \in Types, s \in {"PENDING", "UPDATED"} : Insert(p, s)
    BY <2>1 DEF Insert, Statuses
  <2>2. ASSUME NEW r \in Requests,
               SaveSync(r) \/ SaveRerequest(r) \/ SaveReview(r) \/ SaveVerdict(r)
        PROVE  Stores
    <3>1. job[r] \in Job /\ Carries(job[r])
      BY DEF IInv, TypeOK, RequestsCarry
    <3>2. CASE SaveSync(r) \/ SaveRerequest(r)
      BY <3>1, <3>2 DEF SaveSync, SaveRerequest, Carries, Writing
    <3>3. CASE SaveReview(r) \/ SaveVerdict(r)
      BY <3>1, <3>3 DEF SaveReview, SaveVerdict, Carries, Writing, Job
    <3> QED BY <2>2, <3>2, <3>3
  <2>3. CASE \E p \in Types, s \in Statuses, c \in BOOLEAN : AdminEditVerification(p, s, c)
    BY <2>3, RowFields DEF AdminEditVerification, IInv
  <2> QED BY <2>1, <2>2, <2>3, WhoWritesRows
<1>2. CASE Stores
  BY <1>2, PutBacked
<1>3. CASE UNCHANGED row
  BY <1>3, ApprovedGrows DEF RowsBacked
<1>4. CASE Removes
  BY <1>4, ApprovedGrows DEF RowsBacked, NoRow, IInv, TypeOK
<1> HIDE DEF Stores, Removes
<1> QED BY <1>1, <1>2, <1>3, <1>4

\* What backed a request before a step backs it after.
LEMMA StillBacked ==
  ASSUME [Next]_vars, NEW j, Backed(j, approved)
  PROVE  Backed(j, approved')
  BY ApprovedGrows DEF Backed

\* A step of one request keeps all requests backed if it leaves that one backed.
LEMMA OneBacked ==
  ASSUME [Next]_vars, IInv, RequestsBacked, NEW r \in Requests, NEW j,
         job' = [job EXCEPT ![r] = j], Backed(j, approved')
  PROVE  RequestsBacked'
<1> SUFFICES ASSUME NEW q \in Requests PROVE Backed(job'[q], approved')
  BY DEF RequestsBacked
<1>1. job'[q] = IF q = r THEN j ELSE job[q]
  BY DEF IInv, TypeOK
<1>2. Backed(job[q], approved)
  BY DEF RequestsBacked
<1> QED BY <1>1, <1>2, ApprovedGrows DEF Backed

\* A request at any other step, or ended, needs no backing.
LEMMA NeedsNone ==
  ASSUME [Next]_vars, IInv, RequestsBacked, NEW r \in Requests, NEW j,
         job' = [job EXCEPT ![r] = j],
         j.pc \notin {"save_sync", "role", "mirror", "save_detail"}
  PROVE  RequestsBacked'
  BY OneBacked DEF Backed

\* Nor does one that moves on to a step that grants nothing.
LEMMA StepNeedsNone ==
  ASSUME [Next]_vars, IInv, RequestsBacked, NEW r \in Requests, NEW pc, Step(r, pc),
         pc \notin {"save_sync", "role", "mirror", "save_detail"}
  PROVE  RequestsBacked'
<1> DEFINE j == [job[r] EXCEPT !.pc = pc]
<1>1. job[r] \in Job
  BY DEF IInv, TypeOK
<1>2. j.pc = pc
  BY <1>1 DEF Job
<1>3. job' = [job EXCEPT ![r] = j]
  BY DEF Step
<1> HIDE DEF j
<1> QED BY <1>2, <1>3, NeedsNone

\* Nor does one that has ended.
LEMMA EndNeedsNone ==
  ASSUME [Next]_vars, IInv, RequestsBacked, NEW r \in Requests, End(r)
  PROVE  RequestsBacked'
  BY NeedsNone DEF End, Idle

\* The requests read and store nothing the history does not back.
LEMMA NextRequestsBacked ==
  IInv /\ ApprovalsRecorded /\ [Next]_vars => RequestsBacked'
<1> SUFFICES ASSUME IInv, ApprovalsRecorded, [Next]_vars PROVE RequestsBacked'
  OBVIOUS
<1> USE DEF ApprovalsRecorded
<1>1. CASE UNCHANGED job
  BY <1>1, ApprovedGrows DEF RequestsBacked, Backed
<1>2. ASSUME NEW r \in Requests, ApplicantStep(r)
      PROVE  RequestsBacked'
  <2>1. job[r] \in Job /\ Carries(job[r]) /\ Backed(job[r], approved)
    BY DEF IInv, TypeOK, RequestsCarry, RequestsBacked
  <2>2. CASE StartCreateDetail(r) \/ StartSoftDelete(r)
             \/ \E p \in Types : StartRerequest(r, p) \/ StartCancel(r, p)
    BY <2>2, NeedsNone DEF StartCreateDetail, StartSoftDelete, StartRerequest, StartCancel,
                           Begin, At
  <2>3. ASSUME NEW b \in BOOLEAN, StartUpdateDetail(r, b)
        PROVE  RequestsBacked'
    <3> DEFINE j == [pc |-> "save_detail", type |-> "TUTOR", id |-> detail.id,
                     status |-> IF b THEN "NONE" ELSE "UPDATED", comment |-> FALSE,
                     verified |-> detail.verified]
    <3>1. job' = [job EXCEPT ![r] = j]
      BY <2>3 DEF StartUpdateDetail, Begin
    <3>2. Backed(j, approved')
      BY ApprovedGrows DEF Backed, NothingWithoutApproval
    <3> QED BY <3>1, <3>2, OneBacked
  <2>4. CASE InsertDetail(r) \/ SoftDelete(r)
    BY <2>4, StepNeedsNone DEF InsertDetail, SoftDelete
  <2>5. CASE SaveDetail(r)
    <3>1. End(r) \/ GoOn(r, At("sync", "TUTOR", NoId, job[r].status, FALSE))
      BY <2>5 DEF SaveDetail
    <3> QED BY <3>1, EndNeedsNone, NeedsNone DEF GoOn, At
  <2>6. CASE SyncVerification(r)
    <3> DEFINE p == job[r].type
               s == IF row[p].status = "APPROVED" THEN "APPROVED" ELSE job[r].status
               j == At("save_sync", p, row[p].id, s, FALSE)
    <3>1. End(r) \/ (job' = [job EXCEPT ![r] = j] /\ UNCHANGED approved)
      BY <2>6 DEF SyncVerification, GoOn
    <3>2. p \in Types /\ job[r].status # "APPROVED"
      BY <2>1, <2>6 DEF SyncVerification, Carries
    <3>3. s = "APPROVED" => p \in approved
      BY <3>2 DEF RowsBacked
    <3>4. j.pc = "save_sync" /\ j.type = p /\ j.status = s
      BY DEF At
    <3> HIDE DEF j, s
    <3>5. Backed(j, approved')
      BY <3>3, <3>4, ApprovedGrows DEF Backed
    <3> QED BY <3>1, <3>5, EndNeedsNone, OneBacked
  <2>7. CASE SaveSync(r) \/ DropRole(r) \/ AvatarVerification(r) \/ SaveRerequest(r)
             \/ CancelDetail(r)
    BY <2>7, EndNeedsNone
       DEF SaveSync, DropRole, AvatarVerification, SaveRerequest, CancelDetail
  <2>8. CASE (\E upload \in BOOLEAN : StartAvatar(r, upload))
             \/ (\E p \in Types : RequestVerification(r, p)) \/ DeleteMe(r)
    <3>1. \/ UNCHANGED job
          \/ GoOn(r, At("avatar", "TUTOR", NoId, "PENDING", FALSE))
      BY <2>8 DEF StartAvatar, RequestVerification, DeleteMe
    <3> QED BY <1>1, <3>1, NeedsNone DEF GoOn, At
  <2>9. CASE CancelVerification(r)
    BY <2>9, StepNeedsNone, EndNeedsNone DEF CancelVerification
  <2> QED BY <1>2, <2>2, <2>3, <2>4, <2>5, <2>6, <2>7, <2>8, <2>9 DEF ApplicantStep
<1>3. ASSUME NEW r \in Requests, ReviewerStep(r)
      PROVE  RequestsBacked'
  <2> DEFINE next(pc) == [job[r] EXCEPT !.pc = pc]
  <2>1. job[r] \in Job /\ Carries(job[r]) /\ Backed(job[r], approved)
    BY DEF IInv, TypeOK, RequestsCarry, RequestsBacked
  <2>2. \A pc : /\ next(pc).pc = pc /\ next(pc).type = job[r].type
                /\ next(pc).status = job[r].status
    BY <2>1 DEF Job
  <2>3. CASE \/ \E p \in Types, s \in Statuses, c \in BOOLEAN : StartReview(r, p, s, c)
             \/ \E p \in Types, s \in Verdicts : StartVerdict(r, p, s)
    BY <2>3, NeedsNone DEF StartReview, StartVerdict, Begin, At
  <2>4. CASE SaveReview(r) \/ SaveVerdict(r)
    <3>1. /\ Put(job[r].type, job[r].id, job[r].status, job[r].comment)
          /\ job' = [job EXCEPT ![r] = next("role")]
      BY <2>4 DEF SaveReview, SaveVerdict, Step
    <3>2. job[r].status = "APPROVED" => job[r].type \in approved'
      BY <3>1 DEF Put
    <3> HIDE DEF next
    <3>3. Backed(next("role"), approved')
      BY <2>2, <3>1, <3>2 DEF Backed
    <3> QED BY <3>1, <3>3, OneBacked
  <2>5. CASE GrantOrRevoke(r)
    <3>1. CASE job[r].type = "TUTOR"
      <4>1. job' = [job EXCEPT ![r] = next("mirror")] /\ UNCHANGED approved
        BY <2>5, <3>1 DEF GrantOrRevoke, Step
      <4>2. job[r].status = "APPROVED" => job[r].type \in approved
        BY <2>1, <2>5 DEF Backed, GrantOrRevoke
      <4> HIDE DEF next
      <4>3. Backed(next("mirror"), approved')
        BY <2>2, <3>1, <4>1, <4>2 DEF Backed
      <4> QED BY <4>1, <4>3, OneBacked
    <3>2. CASE job[r].type # "TUTOR"
      BY <2>5, <3>2, StepNeedsNone DEF GrantOrRevoke
    <3> QED BY <3>1, <3>2
  <2>6. CASE SetMirror(r)
    BY <2>6, StepNeedsNone DEF SetMirror
  <2>7. CASE Notify(r)
    BY <2>7, EndNeedsNone DEF Notify
  <2> QED BY <1>3, <2>3, <2>4, <2>5, <2>6, <2>7 DEF ReviewerStep
<1>4. ASSUME NEW r \in Requests, Fails(r) \/ RequestDies(r)
      PROVE  RequestsBacked'
  BY <1>4, EndNeedsNone DEF Fails, RequestDies
<1>5. CASE (\E n \in Ids : RunTask(n)) \/ AdminStep
  <2>1. UNCHANGED job
    BY <1>5 DEF RunTask, AdminStep, AdminDeleteVerification, AdminEditVerification,
                AdminEditDetail, AdminDeleteDetail, AdminSetRoles
  <2> QED BY <1>1, <2>1
<1>6. CASE UNCHANGED vars
  BY <1>1, <1>6 DEF vars
<1> QED BY <1>2, <1>3, <1>4, <1>5, <1>6 DEF Next

\* Every step grants and shows only what the history backs.
LEMMA NextNothing ==
  IInv /\ ApprovalsRecorded /\ [Next]_vars => NothingWithoutApproval'
<1> SUFFICES ASSUME IInv, ApprovalsRecorded, [Next]_vars PROVE NothingWithoutApproval'
  OBVIOUS
<1> USE DEF ApprovalsRecorded
<1>1. CASE UNCHANGED <<role, detail>>
  BY <1>1, ApprovedGrows DEF NothingWithoutApproval
<1>2. ASSUME NEW r \in Requests, ApplicantStep(r)
      PROVE  NothingWithoutApproval'
  <2>1. \/ UNCHANGED <<role, detail>>
        \/ role' \subseteq role /\ UNCHANGED detail
        \/ UNCHANGED role /\ detail'.verified = FALSE
        \/ SaveDetail(r) \/ SoftDelete(r)
    <3>1. \/ UNCHANGED <<role, detail>>
          \/ DropRole(r) \/ DeleteMe(r) \/ SaveDetail(r) \/ SoftDelete(r)
          \/ InsertDetail(r) \/ CancelDetail(r)
          \/ \E upload \in BOOLEAN : StartAvatar(r, upload)
      BY <1>2 DEF ApplicantStep, StartCreateDetail, StartUpdateDetail, StartSoftDelete,
                  StartRerequest, StartCancel, SyncVerification, SaveSync,
                  AvatarVerification, RequestVerification, SaveRerequest, CancelVerification
    <3>2. CASE DropRole(r) \/ DeleteMe(r)
      BY <3>2 DEF DropRole, DeleteMe
    <3>3. CASE InsertDetail(r) \/ CancelDetail(r)
      BY <3>3 DEF InsertDetail, CancelDetail, InsertDetailRow, NoDetail
    <3>4. CASE \E upload \in BOOLEAN : StartAvatar(r, upload)
      BY <3>4 DEF StartAvatar, InsertDetailRow
    <3> QED BY <3>1, <3>2, <3>3, <3>4
  <2>2. CASE role' \subseteq role /\ UNCHANGED detail
    BY <2>2, ApprovedGrows DEF NothingWithoutApproval
  <2>3. CASE UNCHANGED role /\ detail'.verified = FALSE
    BY <2>3, ApprovedGrows DEF NothingWithoutApproval
  <2>4. CASE SaveDetail(r)
    <3>1. UNCHANGED role /\ detail'.verified = job[r].verified /\ job[r].pc = "save_detail"
      BY <2>4 DEF SaveDetail
    <3>2. Backed(job[r], approved)
      BY DEF RequestsBacked
    <3> QED BY <3>1, <3>2, ApprovedGrows DEF Backed, NothingWithoutApproval
  <2>5. CASE SoftDelete(r)
    <3>1. job[r].id \in Ids /\ detail.id = job[r].id
      BY <2>5 DEF SoftDelete, IInv, RequestsCarry, Carries
    <3>2. detail \in Details
      BY <3>1, VerificationAssumption, DetailFields
    <3>3. UNCHANGED role /\ detail'.verified = detail.verified
      BY <2>5, <3>2 DEF SoftDelete, Details
    <3> QED BY <3>3, ApprovedGrows DEF NothingWithoutApproval
  <2> QED BY <1>1, <2>1, <2>2, <2>3, <2>4, <2>5
<1>3. ASSUME NEW r \in Requests, ReviewerStep(r) \/ Fails(r) \/ RequestDies(r)
      PROVE  NothingWithoutApproval'
  <2>1. Backed(job[r], approved)
    BY DEF RequestsBacked
  <2>2. UNCHANGED <<role, detail>> \/ GrantOrRevoke(r) \/ SetMirror(r)
    BY <1>3 DEF ReviewerStep, StartReview, StartVerdict, SaveReview, SaveVerdict, Notify,
                Fails, RequestDies
  <2>3. CASE GrantOrRevoke(r)
    BY <2>1, <2>3 DEF GrantOrRevoke, Backed, NothingWithoutApproval
  <2>4. CASE SetMirror(r)
    <3>1. CASE LiveDetail
      <4>1. detail \in Details
        BY <3>1, DetailFields DEF LiveDetail
      <4>2. /\ detail'.verified = (job[r].status = "APPROVED")
            /\ UNCHANGED <<role, approved>>
        BY <2>4, <3>1, <4>1 DEF SetMirror, Details
      <4>3. job[r].status = "APPROVED" => "TUTOR" \in approved
        BY <2>1, <2>4 DEF SetMirror, Backed
      <4> QED BY <4>2, <4>3 DEF NothingWithoutApproval
    <3>2. CASE ~LiveDetail
      BY <1>1, <2>4, <3>2 DEF SetMirror
    <3> QED BY <3>1, <3>2
  <2> QED BY <1>1, <2>2, <2>3, <2>4
<1>4. CASE (\E n \in Ids : RunTask(n)) \/ AdminStep
  <2>1. \/ UNCHANGED <<role, detail>>
        \/ \E d, v \in BOOLEAN : AdminEditDetail(d, v)
        \/ AdminDeleteDetail
        \/ \E given \in SUBSET Types : AdminSetRoles(given)
    BY <1>4 DEF RunTask, AdminStep, AdminDeleteVerification, AdminEditVerification
  <2>2. ASSUME NEW d \in BOOLEAN, NEW v \in BOOLEAN, AdminEditDetail(d, v)
        PROVE  NothingWithoutApproval'
    <3>1. detail \in Details
      BY <2>2, DetailFields DEF AdminEditDetail
    <3>2. UNCHANGED role /\ detail'.verified = v /\ (v => "TUTOR" \in approved')
      BY <2>2, <3>1 DEF AdminEditDetail, Details
    <3> QED BY <3>2, ApprovedGrows DEF NothingWithoutApproval
  <2>3. CASE AdminDeleteDetail
    BY <2>3, ApprovedGrows DEF AdminDeleteDetail, NoDetail, NothingWithoutApproval
  <2>4. ASSUME NEW given \in SUBSET Types, AdminSetRoles(given)
        PROVE  NothingWithoutApproval'
    BY <2>4, ApprovedGrows DEF AdminSetRoles, NothingWithoutApproval
  <2> QED BY <1>1, <2>1, <2>2, <2>3, <2>4
<1>5. CASE UNCHANGED vars
  BY <1>1, <1>5 DEF vars
<1> QED BY <1>2, <1>3, <1>4, <1>5 DEF Next

\* Records, requests, roles and detail are backed in every state.
LEMMA Recorded == Spec => []ApprovalsRecorded
<1>1. Init => ApprovalsRecorded
  BY DEF Init, ApprovalsRecorded, RowsBacked, RequestsBacked, Backed, NothingWithoutApproval,
         NoRow, NoDetail, Idle
<1>2. IInv /\ ApprovalsRecorded /\ [Next]_vars => ApprovalsRecorded'
  BY NextRowsBacked, NextRequestsBacked, NextNothing DEF ApprovalsRecorded
<1> QED BY <1>1, <1>2, InductiveInvariant, PTL DEF Spec

(***************************************************************************)
(* Whatever the interleaving of stale copies, crashes and reviews, nobody  *)
(* holds a provider role or shows as a verified tutor without an approval. *)
(***************************************************************************)
THEOREM NothingGranted == Spec => []NothingWithoutApproval
<1>1. ApprovalsRecorded => NothingWithoutApproval
  BY DEF ApprovalsRecorded
<1> QED BY <1>1, Recorded, PTL

\* The copy a request is about to store, and what the step leaves of the others.
LEMMA SavedRow ==
  ASSUME IInv, NEW r \in Requests, NEW p \in Types, row'[p] # row[p],
         \/ SaveSync(r) \/ SaveRerequest(r) \/ SaveReview(r) \/ SaveVerdict(r)
  PROVE  /\ p = job[r].type /\ row'[p].id = job[r].id /\ row'[p].status = job[r].status
         /\ SaveSync(r) \/ SaveRerequest(r) \/ SaveVerdict(r) => row[p].id = job[r].id
         /\ SaveReview(r) => row[p].id \in {job[r].id, NoId}
<1>1. job[r].type \in Types
  BY DEF SaveSync, SaveRerequest, SaveReview, SaveVerdict, IInv, RequestsCarry, Carries
<1>2. \E c : Put(job[r].type, job[r].id, job[r].status, c)
  BY DEF SaveSync, SaveRerequest, SaveReview, SaveVerdict
<1>3. p = job[r].type /\ row'[p].id = job[r].id /\ row'[p].status = job[r].status
  BY <1>1, <1>2, PutRow DEF IInv
<1> QED BY <1>3 DEF SaveSync, SaveRerequest, SaveReview, SaveVerdict

\* A review or a verdict that has been saved goes on to the role; a sync ends.
LEMMA AfterSave ==
  ASSUME IInv, NEW r \in Requests
  PROVE  /\ SaveReview(r) => job[r].pc = "review" /\ job'[r].pc = "role"
         /\ SaveVerdict(r) => job[r].pc = "verdict" /\ job'[r].pc = "role"
         /\ SaveSync(r) => job[r].pc = "save_sync" /\ job'[r] = Idle
<1>1. job \in [Requests -> Job] /\ job[r] \in Job
  BY DEF IInv, TypeOK
<1> QED BY <1>1 DEF SaveReview, SaveVerdict, SaveSync, Step, End, Job

\* Every approval that a step writes has one of the causes named.
LEMMA ApprovalsHaveCauses ==
  ASSUME IInv, ApprovalsRecorded, [Next]_vars, NEW p \in Types,
         row'[p].status = "APPROVED", row[p].status # "APPROVED"
  PROVE  \/ \E r \in Requests :
              job[r].pc \in {"review", "verdict"} /\ job[r].type = p /\ job'[r].pc = "role"
         \/ /\ p \in approved
            /\ \E r \in Requests :
                 job[r].pc = "save_sync" /\ job[r].type = p /\ job'[r] = Idle
         \/ "verification" \in AdminForms /\ UNCHANGED job
<1>1. row'[p] # row[p]
  OBVIOUS
<1>2. ~\E q \in Types : row' = [row EXCEPT ![q] = NoRow]
  BY <1>1 DEF NoRow, IInv, TypeOK
<1>3. ~\E q \in Types, s \in {"PENDING", "UPDATED"} : Insert(q, s)
  BY <1>1, InsertRow DEF IInv
<1>4. ASSUME NEW r \in Requests, SaveSync(r)
      PROVE  p \in approved /\ job[r].pc = "save_sync" /\ job[r].type = p /\ job'[r] = Idle
  <2>1. p = job[r].type /\ job[r].status = "APPROVED"
    BY <1>1, <1>4, SavedRow
  <2>2. job[r].pc = "save_sync" /\ job'[r] = Idle
    BY <1>4, AfterSave
  <2>3. Backed(job[r], approved)
    BY DEF ApprovalsRecorded, RequestsBacked
  <2> QED BY <2>1, <2>2, <2>3 DEF Backed
<1>5. ASSUME NEW r \in Requests, SaveRerequest(r) PROVE FALSE
  <2>1. job[r].status = "APPROVED"
    BY <1>1, <1>5, SavedRow
  <2> QED BY <1>5, <2>1 DEF SaveRerequest, IInv, RequestsCarry, Carries
<1>6. ASSUME NEW r \in Requests, SaveReview(r) \/ SaveVerdict(r)
      PROVE  job[r].pc \in {"review", "verdict"} /\ job[r].type = p /\ job'[r].pc = "role"
  BY <1>1, <1>6, SavedRow, AfterSave
<1>7. ASSUME NEW q \in Types, NEW s \in Statuses, NEW c \in BOOLEAN,
             AdminEditVerification(q, s, c)
      PROVE  "verification" \in AdminForms /\ UNCHANGED job
  BY <1>7 DEF AdminEditVerification
<1> QED BY <1>1, <1>2, <1>3, <1>4, <1>5, <1>6, <1>7, WhoWritesRows

(***************************************************************************)
(* A record becomes APPROVED only by a reviewer's save of it, by hand, or  *)
(* by the sync of a profile edit that read an approval: with any number of *)
(* requests that interleave and die (_sync_verification, views.py).        *)
(***************************************************************************)
THEOREM ApprovalsAreReviewers == Spec => OnlyReviewersApprove
<1>1. IInv /\ ApprovalsRecorded /\ [Next]_vars =>
        [\A p \in Types :
           row'[p].status = "APPROVED" /\ row[p].status # "APPROVED" =>
             \/ \E r \in Requests :
                  job[r].pc \in {"review", "verdict"} /\ job[r].type = p /\ job'[r].pc = "role"
             \/ /\ p \in approved
                /\ \E r \in Requests :
                     job[r].pc = "save_sync" /\ job[r].type = p /\ job'[r] = Idle
             \/ "verification" \in AdminForms /\ UNCHANGED job]_vars
  BY ApprovalsHaveCauses
<1> QED BY <1>1, InductiveInvariant, Recorded, PTL DEF Spec, OnlyReviewersApprove

\* Who writes the detail: only a full save stores a key that was handed out before.
LEMMA WhoWritesDetail ==
  ASSUME IInv, [Next]_vars
  PROVE  \/ detail'.id = detail.id \/ detail'.id = NoId \/ detail'.id \notin detailUsed
         \/ \E r \in Requests : SaveDetail(r)
<1>1. ASSUME NEW r \in Requests, ApplicantStep(r)
      PROVE  \/ detail'.id = detail.id \/ detail'.id = NoId \/ detail'.id \notin detailUsed
             \/ SaveDetail(r)
  <2>1. \/ UNCHANGED detail \/ SaveDetail(r) \/ InsertDetailRow
        \/ SoftDelete(r) \/ CancelDetail(r)
    BY <1>1 DEF ApplicantStep, StartCreateDetail, StartUpdateDetail, StartSoftDelete,
                InsertDetail, StartAvatar, DropRole, DeleteMe, StartRerequest, StartCancel,
                SyncVerification, SaveSync, AvatarVerification, RequestVerification,
                SaveRerequest, CancelVerification
  <2>2. CASE InsertDetailRow
    BY <2>2 DEF InsertDetailRow
  <2>3. CASE SoftDelete(r)
    BY <2>3 DEF SoftDelete, IInv, TypeOK, Details, NoDetail
  <2>4. CASE CancelDetail(r)
    BY <2>4 DEF CancelDetail, NoDetail
  <2> QED BY <2>1, <2>2, <2>3, <2>4
<1>2. ASSUME NEW r \in Requests, ReviewerStep(r) \/ Fails(r) \/ RequestDies(r)
      PROVE  detail'.id = detail.id
  <2>1. UNCHANGED detail \/ SetMirror(r)
    BY <1>2 DEF ReviewerStep, StartReview, StartVerdict, SaveReview, SaveVerdict,
                GrantOrRevoke, Notify, Fails, RequestDies
  <2>2. CASE SetMirror(r)
    BY <2>2 DEF SetMirror, IInv, TypeOK, Details, NoDetail
  <2> QED BY <2>1, <2>2
<1>3. CASE (\E n \in Ids : RunTask(n)) \/ AdminStep
  <2>1. \/ UNCHANGED detail \/ AdminDeleteDetail
        \/ \E d, v \in BOOLEAN : AdminEditDetail(d, v)
    BY <1>3 DEF RunTask, AdminStep, AdminDeleteVerification, AdminEditVerification,
                AdminSetRoles
  <2>2. CASE AdminDeleteDetail
    BY <2>2 DEF AdminDeleteDetail, NoDetail
  <2>3. ASSUME NEW d \in BOOLEAN, NEW v \in BOOLEAN, AdminEditDetail(d, v)
        PROVE  detail'.id = detail.id
    BY <2>3 DEF AdminEditDetail, IInv, TypeOK, Details, NoDetail
  <2> QED BY <2>1, <2>2, <2>3
<1>4. CASE UNCHANGED vars
  BY <1>4 DEF vars
<1> QED BY <1>1, <1>2, <1>3, <1>4 DEF Next

\* A record that comes back is saved by a review that loaded it.
LEMMA RecordsReviveByReview ==
  ASSUME IInv, [Next]_vars, NEW p \in Types, row'[p].id \in used, row'[p].id # row[p].id
  PROVE  /\ ~Exists(p)
         /\ \E r \in Requests :
              /\ job[r].pc = "review" /\ job[r].type = p /\ job[r].id = row'[p].id
              /\ job'[r].pc = "role"
<1>1. row'[p] # row[p] /\ row'[p].id # NoId
  BY VerificationAssumption DEF IInv, TypeOK
<1>2. ~\E q \in Types : row' = [row EXCEPT ![q] = NoRow]
  BY <1>1 DEF NoRow, IInv, TypeOK
<1>3. ~\E q \in Types, s \in {"PENDING", "UPDATED"} : Insert(q, s)
  BY <1>1, InsertRow DEF IInv
<1>4. ASSUME NEW r \in Requests, SaveSync(r) \/ SaveRerequest(r) \/ SaveVerdict(r)
      PROVE  FALSE
  BY <1>1, <1>4, SavedRow
<1>5. ASSUME NEW r \in Requests, SaveReview(r)
      PROVE  /\ row[p].id = NoId
             /\ job[r].pc = "review" /\ job[r].type = p /\ job[r].id = row'[p].id
             /\ job'[r].pc = "role"
  BY <1>1, <1>5, SavedRow, AfterSave
<1>6. ~\E q \in Types, s \in Statuses, c \in BOOLEAN : AdminEditVerification(q, s, c)
  BY <1>1, PutRow DEF AdminEditVerification, IInv
<1> QED BY <1>1, <1>2, <1>3, <1>4, <1>5, <1>6, WhoWritesRows DEF Exists

\* A detail that comes back is saved by a PATCH that loaded it.
LEMMA DetailRevivesByPatch ==
  ASSUME IInv, [Next]_vars, detail'.id \in detailUsed, detail'.id # detail.id
  PROVE  /\ detail.id = NoId
         /\ \E r \in Requests : job[r].pc = "save_detail" /\ job[r].id = detail'.id
<1>1. detail'.id # NoId
  BY VerificationAssumption DEF IInv, TypeOK
<1>2. PICK r \in Requests : SaveDetail(r)
  BY <1>1, WhoWritesDetail
<1>3. /\ job[r].pc = "save_detail" /\ detail.id \in {job[r].id, NoId}
      /\ detail'.id = job[r].id
  BY <1>2 DEF SaveDetail
<1> QED BY <1>3

(***************************************************************************)
(* Whatever interleaves and dies, a deleted record comes back only by the  *)
(* full save of a review, a deleted detail only by that of a PATCH, each   *)
(* of a copy loaded before (perform_update, TutorDetailSerializer.update). *)
(***************************************************************************)
THEOREM RevivalsAreFullSaves == Spec => OnlyFullSavesRevive
<1>1. IInv /\ [Next]_vars =>
        [/\ \A p \in Types :
              row'[p].id \in used /\ row'[p].id # row[p].id =>
                /\ ~Exists(p)
                /\ \E r \in Requests :
                     /\ job[r].pc = "review" /\ job[r].type = p /\ job[r].id = row'[p].id
                     /\ job'[r].pc = "role"
         /\ detail'.id \in detailUsed /\ detail'.id # detail.id =>
              /\ detail.id = NoId
              /\ \E r \in Requests : job[r].pc = "save_detail" /\ job[r].id = detail'.id]_vars
  BY RecordsReviveByReview, DetailRevivesByPatch
<1> QED BY <1>1, InductiveInvariant, PTL DEF Spec, OnlyFullSavesRevive

(***************************************************************************)
(* Requests served one at a time, with nobody editing by hand.  Between a  *)
(* request's read and its last write nobody else writes, so what it read   *)
(* is still so, and what it wrote so far agrees with the verdict.          *)
(***************************************************************************)
OneAtATime == \A q, r \in Requests : q = r
Serial == OneAtATime /\ ~RequestsCrash /\ AdminForms = {}

Reviewing == {"role", "mirror", "notify"}

\* What request r holds of its record and of the detail is what the tables hold.
ReadIsCurrent(r) ==
  LET j == job[r]
      p == job[r].type
  IN /\ j.pc \in Writing \cup {"cancel"} => row[p].id = j.id
     /\ j.pc \in Writing => j.status # "CANCELLED"
     /\ j.pc = "save_sync" => (j.status = "APPROVED" <=> row[p].status = "APPROVED")
     /\ j.pc = "rerequest" => row[p].status = "REJECTED" /\ j.status = "UPDATED"
     /\ j.pc = "cancel" => row[p].status # "APPROVED"
     /\ j.pc = "cancel_detail" => p = "TUTOR" /\ ~Exists(p)
     /\ j.pc = "review" => j.status \in Verdicts \/ j.status = row[p].status
     /\ j.pc = "verdict" => j.status \in Verdicts
     /\ j.pc = "save_detail" => detail.id = j.id /\ ~detail.deleted /\ detail.verified = j.verified
     /\ j.pc = "drop_role" => detail.deleted

\* How far apply_verification_outcome has come in request r.
OutcomeApplied(r) ==
  LET j == job[r]
      p == job[r].type
  IN /\ j.pc \in Reviewing => row[p].status = j.status
     /\ j.pc \in {"mirror", "notify"} => (p \in role <=> j.status = "APPROVED")
     /\ j.pc = "mirror" => p = "TUTOR"
     /\ j.pc = "notify" /\ p = "TUTOR" /\ LiveDetail =>
          (detail.verified <=> j.status = "APPROVED")

RequestsCurrent == \A r \in Requests : ReadIsCurrent(r) /\ OutcomeApplied(r)

\* The key of a record was handed out, and without change forms nothing is CANCELLED.
RecordsInUse == \A p \in Types : /\ Exists(p) => row[p].id \in used
                                 /\ row[p].status # "CANCELLED"

SerialInv == RequestsCurrent /\ RecordsInUse /\ CopiesFollowVerdict /\ VerdictTold
\* With one request at a time, the requests are as current as that one.
LEMMA TheOnlyRequest ==
  ASSUME Serial, NEW r \in Requests
  PROVE  /\ RequestsCurrent <=> ReadIsCurrent(r) /\ OutcomeApplied(r)
         /\ RequestsCurrent' <=> ReadIsCurrent(r)' /\ OutcomeApplied(r)'
         /\ \A p : Concluding(p) <=> job[r].pc \in Reviewing /\ job[r].type = p
         /\ \A p : Concluding(p)' <=> job'[r].pc \in Reviewing /\ job'[r].type = p
  BY DEF Serial, OneAtATime, RequestsCurrent, Concluding, Reviewing

\* What the invariants say of the one request.
LEMMA RequestFacts ==
  ASSUME Serial, IInv, SerialInv, NEW r \in Requests
  PROVE  /\ job[r] \in Job /\ job \in [Requests -> Job] /\ Carries(job[r])
         /\ ReadIsCurrent(r) /\ OutcomeApplied(r)
         /\ role \subseteq Types /\ (detail.id # NoId => "TUTOR" \in Types)
         /\ detail.verified \in BOOLEAN /\ detail.deleted \in BOOLEAN
<1>1. detail \in Details \cup {NoDetail}
  BY DEF IInv, TypeOK
<1>2. CASE detail \in Details
  BY <1>2 DEF Details, IInv, TypeOK, RequestsCarry, DetailOfTutor, SerialInv, RequestsCurrent
<1>3. CASE detail = NoDetail
  BY <1>3 DEF NoDetail, IInv, TypeOK, RequestsCarry, DetailOfTutor, SerialInv, RequestsCurrent
<1> QED
  BY <1>1, <1>2, <1>3

\* A request that ends by inserting a record that waits for its review.
LEMMA SerialInsert ==
  ASSUME Serial, IInv, SerialInv, NEW r \in Requests, NEW q \in Types,
         NEW s \in {"PENDING", "UPDATED"}, ~Exists(q), Insert(q, s), job'[r] = Idle,
         job[r].pc \in {"sync", "avatar", "idle"},
         UNCHANGED <<detail, role, active, tasks, told>>
  PROVE  SerialInv'
<1>1. /\ row'[q].id \in Ids \ used /\ row'[q].status = s
      /\ used' = used \cup {row'[q].id}
      /\ \A t \in Types : t # q => row'[t] = row[t]
  BY InsertRow DEF IInv
<1>2. row[q].status = "NONE"
  BY RowFields DEF IInv, NoRow
<1> USE DEF Serial, OneAtATime, SerialInv, RequestsCurrent, ReadIsCurrent, OutcomeApplied,
            RecordsInUse, CopiesFollowVerdict, VerdictTold, RoleMeansApproved,
            ApprovedHasRole, MirrorNotOverclaimed, Concluding, Reviewing, Writing,
            LiveDetail, Exists, End, Idle
<1> QED BY <1>1, <1>2, RequestFacts DEF Verdicts

\* A request that ends by re-submitting its record.
LEMMA SerialResave ==
  ASSUME Serial, IInv, SerialInv, NEW r \in Requests, SaveSync(r) \/ SaveRerequest(r)
  PROVE  SerialInv'
<1> DEFINE p == job[r].type
<1>1. /\ job[r] \in Job /\ job \in [Requests -> Job] /\ Carries(job[r])
      /\ role \subseteq Types /\ (detail.id # NoId => "TUTOR" \in Types)
  BY RequestFacts
<1>2. /\ p \in Types /\ job[r].pc \in {"save_sync", "rerequest"} /\ p = job[r].type
      /\ job[r].status \in Statuses \ {"REJECTED"} /\ job[r].id \in Ids
  BY <1>1 DEF SaveSync, SaveRerequest, Carries, Writing
<1>3. /\ Put(p, job[r].id, job[r].status, FALSE) /\ job'[r] = Idle /\ row[p].id = job[r].id
      /\ UNCHANGED <<detail, role, active, tasks, told, used>>
  BY <1>1 DEF SaveSync, SaveRerequest, End
<1>4. /\ row'[p].id = row[p].id /\ row'[p].status = job[r].status
      /\ \A t \in Types : t # p => row'[t] = row[t]
  BY <1>2, <1>3 DEF IInv, TypeOK, Put
<1>5. /\ row[p].status = "APPROVED" <=> job[r].status = "APPROVED"
      /\ job[r].status # "CANCELLED"
  BY <1>2, RequestFacts DEF ReadIsCurrent, Writing
<1> HIDE DEF p
<1> USE DEF Serial, OneAtATime, SerialInv, RequestsCurrent, ReadIsCurrent, OutcomeApplied,
            RecordsInUse, CopiesFollowVerdict, VerdictTold, RoleMeansApproved,
            ApprovedHasRole, MirrorNotOverclaimed, Concluding, Reviewing, Writing,
            LiveDetail, Exists, End, Idle
<1>6. RequestsCurrent' /\ RecordsInUse'
  BY <1>2, <1>3, <1>4, <1>5
<1>7. RoleMeansApproved'
  BY <1>1, <1>2, <1>3, <1>4, <1>5
<1>8. ApprovedHasRole'
  BY <1>1, <1>2, <1>3, <1>4, <1>5
<1>9. MirrorNotOverclaimed'
  BY <1>1, <1>2, <1>3, <1>4, <1>5
<1>10. VerdictTold'
  BY <1>2, <1>3, <1>4, <1>5 DEF Verdicts
<1> QED BY <1>6, <1>7, <1>8, <1>9, <1>10

\* A request that is not in a review and only moves keeps what holds of the tables.
LEMMA SerialMove ==
  ASSUME Serial, SerialInv, NEW r \in Requests, job[r].pc \notin Reviewing,
         ReadIsCurrent(r)', OutcomeApplied(r)',
         UNCHANGED <<row, detail, role, active, tasks, told, used>>
  PROVE  SerialInv'
<1>1. \A p : ~Concluding(p)
  BY TheOnlyRequest
<1>2. RequestsCurrent'
  BY TheOnlyRequest
<1>3. RoleMeansApproved' /\ ApprovedHasRole' /\ MirrorNotOverclaimed'
  BY <1>1 DEF SerialInv, CopiesFollowVerdict, RoleMeansApproved, ApprovedHasRole,
              MirrorNotOverclaimed, LiveDetail
<1>4. VerdictTold' /\ RecordsInUse'
  BY <1>1 DEF SerialInv, VerdictTold, RecordsInUse, Exists
<1> QED BY <1>2, <1>3, <1>4 DEF SerialInv, CopiesFollowVerdict

\* So does one that writes the tutor detail, as far as the detail claims no more than it did
\* and an approved tutor without the role keeps a closed profile.
LEMMA SerialDetail ==
  ASSUME Serial, SerialInv, NEW r \in Requests, job[r].pc \notin Reviewing,
         ReadIsCurrent(r)', OutcomeApplied(r)',
         UNCHANGED <<row, role, active, tasks, told, used>>,
         LiveDetail' /\ detail'.verified => LiveDetail /\ detail.verified,
         detail.deleted => detail'.deleted \/ row["TUTOR"].status = "NONE"
  PROVE  SerialInv'
<1>1. \A p : ~Concluding(p)
  BY TheOnlyRequest
<1>2. RequestsCurrent'
  BY TheOnlyRequest
<1>3. RoleMeansApproved' /\ ApprovedHasRole' /\ MirrorNotOverclaimed'
  BY <1>1 DEF SerialInv, CopiesFollowVerdict, RoleMeansApproved, ApprovedHasRole,
              MirrorNotOverclaimed
<1>4. VerdictTold' /\ RecordsInUse'
  BY <1>1 DEF SerialInv, VerdictTold, RecordsInUse, Exists
<1> QED BY <1>2, <1>3, <1>4 DEF SerialInv, CopiesFollowVerdict

\* A request that ends has nothing to be current.
LEMMA EndIsCurrent ==
  ASSUME NEW r \in Requests,
         job'[r].pc \in {"idle", "insert", "sync", "avatar", "soft_delete"}
  PROVE  ReadIsCurrent(r)' /\ OutcomeApplied(r)'
  BY DEF ReadIsCurrent, OutcomeApplied, Writing, Reviewing

(***************************************************************************)
(* The applicant's statements that write the detail or the roles, one      *)
(* request at a time.                                                      *)
(***************************************************************************)
LEMMA SerialProfile ==
  ASSUME Serial, IInv, SerialInv, NEW r \in Requests,
         \/ InsertDetail(r) \/ SaveDetail(r) \/ SoftDelete(r) \/ DropRole(r)
         \/ (\E upload \in BOOLEAN : StartAvatar(r, upload)) \/ CancelDetail(r) \/ DeleteMe(r)
  PROVE  SerialInv'
<1>1. /\ job[r] \in Job /\ job \in [Requests -> Job] /\ Carries(job[r])
      /\ ReadIsCurrent(r) /\ OutcomeApplied(r) /\ role \subseteq Types
  BY RequestFacts
<1>2. detail.id = NoId => detail = NoDetail
  BY VerificationAssumption DEF IInv, TypeOK, Details
<1>3. CASE InsertDetail(r)
  <2>1. job'[r].pc = "sync" /\ ~detail'.deleted /\ ~detail'.verified
    BY <1>1, <1>3 DEF InsertDetail, Step, Job, InsertDetailRow
  <2>2. job[r].pc \notin Reviewing /\ ~detail.deleted
    BY <1>2, <1>3 DEF InsertDetail, NoDetail, Reviewing
  <2> QED BY <1>3, <2>1, <2>2, EndIsCurrent, SerialDetail DEF InsertDetail
<1>4. CASE SaveDetail(r)
  <2>1. job'[r].pc \in {"idle", "sync"} /\ job[r].pc = "save_detail"
    BY <1>1, <1>4 DEF SaveDetail, End, GoOn, Idle, At
  <2>2. detail.id = job[r].id /\ ~detail.deleted /\ detail.verified = job[r].verified
    BY <1>1, <2>1 DEF ReadIsCurrent
  <2>3. detail'.id = detail.id /\ ~detail'.deleted /\ detail'.verified = detail.verified
    BY <1>4, <2>2 DEF SaveDetail
  <2>4. ReadIsCurrent(r)' /\ OutcomeApplied(r)'
    BY <2>1, EndIsCurrent
  <2> QED BY <1>4, <2>1, <2>2, <2>3, <2>4, SerialDetail DEF SaveDetail, LiveDetail, Reviewing
<1>5. CASE SoftDelete(r)
  <2>1. job'[r].pc = "drop_role" /\ job[r].pc = "soft_delete"
    BY <1>1, <1>5 DEF SoftDelete, Step, Job
  <2>2. detail \in Details
    BY <1>1, <1>5, VerificationAssumption, DetailFields DEF SoftDelete, Carries
  <2>3. detail'.deleted
    BY <1>5, <2>2 DEF SoftDelete, Details
  <2>4. ReadIsCurrent(r)' /\ OutcomeApplied(r)'
    BY <2>1, <2>3 DEF ReadIsCurrent, OutcomeApplied, Writing, Reviewing
  <2> QED BY <1>5, <2>1, <2>3, <2>4, SerialDetail DEF SoftDelete, LiveDetail, Reviewing
<1>6. ASSUME NEW upload \in BOOLEAN, StartAvatar(r, upload)
      PROVE  SerialInv'
  <2>1. job'[r].pc \in {"avatar", "idle"} /\ job[r].pc = "idle"
    BY <1>1, <1>6 DEF StartAvatar, GoOn, At, Idle
  <2>2. ReadIsCurrent(r)' /\ OutcomeApplied(r)'
    BY <2>1, EndIsCurrent
  <2>3. CASE detail.id = NoId
    <3>1. ~detail'.deleted /\ ~detail'.verified
      BY <1>6, <2>3 DEF StartAvatar, InsertDetailRow
    <3> QED BY <1>2, <1>6, <2>1, <2>2, <2>3, <3>1, SerialDetail
            DEF StartAvatar, NoDetail, Reviewing
  <2>4. CASE detail.id # NoId
    BY <1>6, <2>1, <2>2, <2>4, SerialMove DEF StartAvatar, Reviewing
  <2> QED BY <2>3, <2>4
<1>7. CASE CancelDetail(r)
  <2>1. job'[r].pc = "idle" /\ job[r].pc = "cancel_detail"
    BY <1>1, <1>7 DEF CancelDetail, End, Idle
  <2>2. job[r].type = "TUTOR" /\ job[r].type \in Types /\ ~Exists(job[r].type)
    BY <1>1, <2>1 DEF Carries, ReadIsCurrent
  <2>3. row["TUTOR"].status = "NONE"
    BY <2>2, RowFields DEF IInv, NoRow
  <2>4. ReadIsCurrent(r)' /\ OutcomeApplied(r)'
    BY <2>1, EndIsCurrent
  <2> QED BY <1>7, <2>1, <2>3, <2>4, SerialDetail
          DEF CancelDetail, LiveDetail, NoDetail, Reviewing
<1>8. CASE DropRole(r) \/ DeleteMe(r)
  <2>1. job'[r].pc = "idle" /\ job[r].pc \in {"idle", "drop_role"}
    BY <1>1, <1>8 DEF DropRole, DeleteMe, End, Idle
  <2>2. RequestsCurrent'
    BY <2>1, EndIsCurrent, TheOnlyRequest
  <2>3. \A p : ~Concluding(p)
    BY <2>1, TheOnlyRequest DEF Reviewing
  <2>4. RoleMeansApproved' /\ MirrorNotOverclaimed'
    BY <1>8, <2>3 DEF DropRole, DeleteMe, SerialInv, CopiesFollowVerdict, RoleMeansApproved,
                      MirrorNotOverclaimed, LiveDetail
  <2>5. ApprovedHasRole'
    <3>1. CASE DropRole(r)
      <4>1. detail.deleted
        BY <1>1, <3>1 DEF DropRole, ReadIsCurrent
      <4> QED BY <2>3, <3>1, <4>1
              DEF DropRole, SerialInv, CopiesFollowVerdict, ApprovedHasRole
    <3>2. CASE DeleteMe(r)
      BY <3>2 DEF DeleteMe, ApprovedHasRole
    <3> QED BY <1>8, <3>1, <3>2
  <2>6. VerdictTold' /\ RecordsInUse'
    BY <1>8, <2>3 DEF DropRole, DeleteMe, SerialInv, VerdictTold, RecordsInUse, Exists
  <2> QED BY <2>2, <2>4, <2>5, <2>6 DEF SerialInv, CopiesFollowVerdict
<1> QED BY <1>3, <1>4, <1>5, <1>6, <1>7, <1>8

(***************************************************************************)
(* The applicant's statements about the records, one request at a time.    *)
(***************************************************************************)
LEMMA SerialRecords ==
  ASSUME Serial, IInv, SerialInv, NEW r \in Requests,
         \/ SyncVerification(r) \/ SaveSync(r) \/ AvatarVerification(r)
         \/ (\E p \in Types : RequestVerification(r, p))
         \/ SaveRerequest(r) \/ CancelVerification(r)
  PROVE  SerialInv'
<1> DEFINE p == job[r].type
<1>1. /\ job[r] \in Job /\ job \in [Requests -> Job] /\ Carries(job[r])
      /\ ReadIsCurrent(r) /\ OutcomeApplied(r)
      /\ role \subseteq Types /\ (detail.id # NoId => "TUTOR" \in Types)
  BY RequestFacts
<1>2. CASE SyncVerification(r)
  <2>1. p \in Types /\ job[r].status \in {"PENDING", "UPDATED"} /\ job[r].pc = "sync"
    BY <1>1, <1>2 DEF SyncVerification, Carries
  <2>2. CASE ~Exists(p)
    <3>1. /\ Insert(p, job[r].status) /\ job'[r] = Idle
          /\ UNCHANGED <<detail, role, active, tasks, told>>
      BY <1>1, <1>2, <2>2 DEF SyncVerification, End
    <3> QED BY <2>1, <2>2, <3>1, SerialInsert
  <2>3. CASE Exists(p)
    <3>1. /\ job'[r] = At("save_sync", p, row[p].id,
                          IF row[p].status = "APPROVED" THEN "APPROVED" ELSE job[r].status,
                          FALSE)
          /\ UNCHANGED <<row, detail, role, active, tasks, told, used>>
      BY <1>1, <1>2, <2>3 DEF SyncVerification, GoOn
    <3>2. ReadIsCurrent(r)' /\ OutcomeApplied(r)'
      BY <2>1, <3>1 DEF At, ReadIsCurrent, OutcomeApplied, Writing, Reviewing
    <3> QED BY <2>1, <3>1, <3>2, SerialMove DEF Reviewing
  <2> QED BY <2>2, <2>3
<1>3. CASE AvatarVerification(r)
  <2>1. p \in Types /\ job'[r] = Idle /\ job[r].pc = "avatar"
    BY <1>1, <1>3 DEF AvatarVerification, Carries, End
  <2>2. CASE Exists(p)
    <3>1. ReadIsCurrent(r)' /\ OutcomeApplied(r)'
      BY <2>1, EndIsCurrent DEF Idle
    <3> QED BY <1>3, <2>1, <2>2, <3>1, SerialMove DEF AvatarVerification, Reviewing
  <2>3. CASE ~Exists(p)
    <3>1. Insert(p, "PENDING") /\ UNCHANGED <<detail, role, active, tasks, told>>
      BY <1>3, <2>3 DEF AvatarVerification
    <3> QED BY <2>1, <2>3, <3>1, SerialInsert
  <2> QED BY <2>2, <2>3
<1>4. ASSUME NEW q \in Types, RequestVerification(r, q)
      PROVE  SerialInv'
  <2>1. /\ ~Exists(q) /\ Insert(q, "PENDING") /\ job'[r] = Idle /\ job[r].pc = "idle"
        /\ UNCHANGED <<detail, role, active, tasks, told>>
    BY <1>4 DEF RequestVerification, Idle
  <2> QED BY <2>1, SerialInsert
<1>5. CASE SaveSync(r) \/ SaveRerequest(r)
  BY <1>5, SerialResave
<1>6. CASE CancelVerification(r)
  <2>1. p \in Types /\ job[r].pc = "cancel" /\ row[p].id = job[r].id
    BY <1>1, <1>6 DEF CancelVerification, Carries, ReadIsCurrent
  <2>2. /\ row'[p] = NoRow /\ \A q \in Types : q # p => row'[q] = row[q]
        /\ UNCHANGED <<detail, role, active, tasks, told, used>>
    BY <1>6, <2>1 DEF CancelVerification, IInv, TypeOK
  <2>3. /\ job'[r].pc \in {"idle", "cancel_detail"}
        /\ job'[r].pc = "cancel_detail" => job'[r].type = p /\ p = "TUTOR"
    BY <1>1, <1>6 DEF CancelVerification, Step, End, Job, Idle
  <2>4. row[p].status # "APPROVED"
    BY <1>1, <2>1 DEF ReadIsCurrent
  <2>5. \A q : ~Concluding(q)
    BY <2>1, TheOnlyRequest DEF Reviewing
  <2> HIDE DEF p
  <2>6. ReadIsCurrent(r)' /\ OutcomeApplied(r)'
    BY <2>2, <2>3 DEF ReadIsCurrent, OutcomeApplied, Writing, Reviewing, Exists, NoRow
  <2>7. RoleMeansApproved' /\ ApprovedHasRole'
    BY <1>1, <2>1, <2>2, <2>4, <2>5
       DEF SerialInv, CopiesFollowVerdict, RoleMeansApproved, ApprovedHasRole, NoRow
  <2>8. MirrorNotOverclaimed'
    BY <1>1, <2>1, <2>2, <2>4, <2>5
       DEF SerialInv, CopiesFollowVerdict, MirrorNotOverclaimed, LiveDetail, NoRow
  <2>9. VerdictTold' /\ RecordsInUse'
    BY <2>1, <2>2, <2>5 DEF SerialInv, VerdictTold, RecordsInUse, Exists, NoRow, Verdicts
  <2> QED BY <2>6, <2>7, <2>8, <2>9, TheOnlyRequest DEF SerialInv, CopiesFollowVerdict
<1> HIDE DEF p
<1> QED BY <1>2, <1>3, <1>4, <1>5, <1>6

(***************************************************************************)
(* The reviewers' statements, one request at a time.                       *)
(***************************************************************************)
\* A review that saves its verdict.
LEMMA SerialVerdict ==
  ASSUME Serial, IInv, SerialInv, NEW r \in Requests, SaveReview(r) \/ SaveVerdict(r)
  PROVE  SerialInv'
<1> DEFINE p == job[r].type
<1>1. /\ job[r] \in Job /\ job \in [Requests -> Job] /\ Carries(job[r])
      /\ role \subseteq Types /\ (detail.id # NoId => "TUTOR" \in Types)
  BY RequestFacts
<1>2. /\ p \in Types /\ job[r].pc \in {"review", "verdict"} /\ p = job[r].type
      /\ job[r].id \in Ids
  BY <1>1 DEF SaveReview, SaveVerdict, Carries, Writing
<1>3. /\ Put(p, job[r].id, job[r].status, job[r].comment) /\ Step(r, "role")
      /\ UNCHANGED <<detail, role, active, tasks, told, used>>
  BY <1>1 DEF SaveReview, SaveVerdict
<1>4. /\ row'[p].id = job[r].id /\ row'[p].status = job[r].status
      /\ \A t \in Types : t # p => row'[t] = row[t]
  BY <1>2, <1>3 DEF IInv, TypeOK, Put
<1>5. job[r].status # "CANCELLED" /\ row[p].id = job[r].id
  BY <1>2, RequestFacts DEF ReadIsCurrent, Writing
<1>6. /\ job'[r].pc = "role" /\ job'[r].type = p /\ job'[r].id = job[r].id
      /\ job'[r].status = job[r].status
  <2>1. job'[r] = [job[r] EXCEPT !.pc = "role"]
    BY <1>1, <1>3 DEF Step
  <2> QED BY <1>1, <2>1 DEF Job
<1> HIDE DEF p
<1> USE DEF Serial, OneAtATime, SerialInv, RequestsCurrent, ReadIsCurrent, OutcomeApplied,
            RecordsInUse, CopiesFollowVerdict, VerdictTold, RoleMeansApproved,
            ApprovedHasRole, MirrorNotOverclaimed, Concluding, Reviewing, Writing,
            LiveDetail, Exists, End, Idle
<1>7. RequestsCurrent' /\ RecordsInUse'
  BY <1>2, <1>3, <1>4, <1>5, <1>6
<1>8. RoleMeansApproved' /\ ApprovedHasRole'
  BY <1>1, <1>2, <1>3, <1>4, <1>5, <1>6
<1>9. MirrorNotOverclaimed'
  BY <1>1, <1>2, <1>3, <1>4, <1>5, <1>6
<1>10. VerdictTold'
  BY <1>2, <1>3, <1>4, <1>5, <1>6
<1> QED BY <1>7, <1>8, <1>9, <1>10

\* What follows the verdict in apply_verification_outcome.
LEMMA SerialOutcome ==
  ASSUME Serial, IInv, SerialInv, NEW r \in Requests,
         GrantOrRevoke(r) \/ SetMirror(r) \/ Notify(r)
  PROVE  SerialInv'
<1> DEFINE p == job[r].type
<1>1. /\ job[r] \in Job /\ job \in [Requests -> Job] /\ Carries(job[r])
      /\ role \subseteq Types /\ (detail.id # NoId => "TUTOR" \in Types)
      /\ detail.verified \in BOOLEAN /\ detail.deleted \in BOOLEAN
  BY RequestFacts
<1> USE DEF Serial, OneAtATime, SerialInv, RequestsCurrent, ReadIsCurrent, OutcomeApplied,
            RecordsInUse, CopiesFollowVerdict, VerdictTold, RoleMeansApproved,
            ApprovedHasRole, MirrorNotOverclaimed, Concluding, Reviewing, Writing,
            LiveDetail, Exists, End, Idle
<1>2. CASE GrantOrRevoke(r)
  BY <1>1, <1>2 DEF GrantOrRevoke, Step, Job
<1>3. CASE Notify(r)
  BY <1>1, <1>3, VerificationAssumption DEF Notify
<1>4. CASE SetMirror(r)
  <2>1. /\ job'[r].pc = "notify" /\ job'[r].type = p /\ job'[r].id = job[r].id
        /\ job'[r].status = job[r].status /\ p = "TUTOR" /\ job[r].pc = "mirror"
    BY <1>1, <1>4 DEF SetMirror, Step, Job
  <2>2. CASE LiveDetail
    <3>1. detail \in Details
      BY <2>2, DetailFields
    <3>2. /\ detail'.id = detail.id /\ ~detail'.deleted
          /\ detail'.verified <=> job[r].status = "APPROVED"
      BY <1>4, <2>2, <3>1 DEF SetMirror, Details
    <3>3. UNCHANGED <<row, role, active, tasks, told, used>>
      BY <1>4 DEF SetMirror
    <3>4. RequestsCurrent' /\ RecordsInUse'
      BY <1>1, <2>1, <2>2, <3>2, <3>3
    <3>5. CopiesFollowVerdict' /\ VerdictTold'
      BY <2>1, <2>2, <3>2, <3>3
    <3> QED BY <3>4, <3>5
  <2>3. CASE ~LiveDetail
    BY <1>1, <1>4, <2>1, <2>3 DEF SetMirror
  <2> QED BY <2>2, <2>3
<1> HIDE DEF Serial, SerialInv, End, Idle
<1> QED BY <1>2, <1>3, <1>4

\* The requests that read and check, and those that fail.
LEMMA SerialStarts ==
  ASSUME Serial, IInv, SerialInv, NEW r \in Requests,
         \/ StartCreateDetail(r) \/ (\E b \in BOOLEAN : StartUpdateDetail(r, b))
         \/ StartSoftDelete(r) \/ Fails(r)
         \/ \E p \in Types :
              \/ StartRerequest(r, p) \/ StartCancel(r, p)
              \/ \E s \in Statuses, c \in BOOLEAN : StartReview(r, p, s, c)
              \/ \E s \in Verdicts : StartVerdict(r, p, s)
  PROVE  SerialInv'
<1>1. /\ job[r] \in Job /\ job \in [Requests -> Job] /\ Carries(job[r])
  BY RequestFacts
<1>2. /\ UNCHANGED <<row, detail, role, active, tasks, told, used>>
      /\ job[r].pc \notin Reviewing
  <2>1. CASE Fails(r)
    BY <2>1 DEF Fails, Reviewing
  <2>2. CASE ~Fails(r)
    <3>1. job[r] = Idle /\ UNCHANGED <<row, detail, role, active, tasks, told, used>>
      BY <2>2 DEF StartCreateDetail, StartUpdateDetail, StartSoftDelete, StartRerequest,
                  StartCancel, StartReview, StartVerdict, Begin
    <3> QED BY <3>1 DEF Idle, Reviewing
  <2> QED BY <2>1, <2>2
<1>3. SUFFICES ReadIsCurrent(r)' /\ OutcomeApplied(r)'
  BY <1>2, SerialMove
<1>4. CASE StartCreateDetail(r) \/ StartSoftDelete(r) \/ Fails(r)
  <2>1. job'[r].pc \in {"idle", "insert", "soft_delete"}
    BY <1>1, <1>4 DEF StartCreateDetail, StartSoftDelete, Fails, Begin, End, Idle, At
  <2> QED BY <2>1, EndIsCurrent
<1>5. ASSUME NEW b \in BOOLEAN, StartUpdateDetail(r, b)
      PROVE  ReadIsCurrent(r)' /\ OutcomeApplied(r)'
  BY <1>1, <1>5 DEF StartUpdateDetail, LiveDetail, Begin, ReadIsCurrent, OutcomeApplied,
                    Writing, Reviewing
<1>6. ASSUME NEW p \in Types, StartRerequest(r, p) \/ StartCancel(r, p)
      PROVE  ReadIsCurrent(r)' /\ OutcomeApplied(r)'
  <2>1. row[p].status # "CANCELLED"
    BY DEF SerialInv, RecordsInUse
  <2> QED BY <1>1, <1>6, <2>1 DEF StartRerequest, StartCancel, Begin, At, ReadIsCurrent,
                                  OutcomeApplied, Writing, Reviewing
<1>7. ASSUME NEW p \in Types, NEW s \in Statuses, NEW c \in BOOLEAN, StartReview(r, p, s, c)
      PROVE  ReadIsCurrent(r)' /\ OutcomeApplied(r)'
  <2>1. row[p].status # "CANCELLED"
    BY DEF SerialInv, RecordsInUse
  <2> QED BY <1>1, <1>7, <2>1 DEF StartReview, Begin, At, ReadIsCurrent, OutcomeApplied,
                                  Writing, Reviewing, Verdicts
<1>8. ASSUME NEW p \in Types, NEW s \in Verdicts, StartVerdict(r, p, s)
      PROVE  ReadIsCurrent(r)' /\ OutcomeApplied(r)'
  BY <1>1, <1>8 DEF StartVerdict, Begin, At, ReadIsCurrent, OutcomeApplied,
                    Writing, Reviewing, Verdicts
<1> QED BY <1>4, <1>5, <1>6, <1>7, <1>8

\* The task takes a verdict from the queue only by telling it.
LEMMA SerialTask ==
  ASSUME IInv, SerialInv, NEW n \in Ids, RunTask(n)
  PROVE  SerialInv'
<1>1. \A q \in Types : row[q].id = n /\ row[q].status \in Verdicts => row[q].status \in told'[n]
  BY DEF RunTask, IInv, TypeOK
<1>2. \A m \in Ids : told[m] \subseteq told'[m] /\ (m \in tasks => m \in tasks' \/ m = n)
  BY DEF RunTask, IInv, TypeOK
<1>3. UNCHANGED <<row, detail, role, active, job, used>>
  BY DEF RunTask
<1>4. \A q \in Types : row[q].status \in Verdicts => row[q].id \in Ids
  BY RowFields DEF IInv, NoRow, Verdicts
<1>5. VerdictTold'
  BY <1>1, <1>2, <1>3, <1>4 DEF SerialInv, VerdictTold, Concluding
<1> QED BY <1>3, <1>5 DEF SerialInv, RequestsCurrent, ReadIsCurrent, OutcomeApplied,
             RecordsInUse, CopiesFollowVerdict, RoleMeansApproved, ApprovedHasRole,
             MirrorNotOverclaimed, Concluding, LiveDetail, Exists

\* Every step keeps the serial invariant.
LEMMA SerialNext == Serial /\ IInv /\ SerialInv /\ [Next]_vars => SerialInv'
<1> SUFFICES ASSUME Serial, IInv, SerialInv, [Next]_vars PROVE SerialInv'
  OBVIOUS
<1>1. ASSUME NEW r \in Requests, ApplicantStep(r)
      PROVE  SerialInv'
  BY <1>1, SerialStarts, SerialProfile, SerialRecords DEF ApplicantStep
<1>2. ASSUME NEW r \in Requests, ReviewerStep(r)
      PROVE  SerialInv'
  BY <1>2, SerialStarts, SerialVerdict, SerialOutcome DEF ReviewerStep
<1>3. ASSUME NEW r \in Requests, Fails(r) \/ RequestDies(r)
      PROVE  SerialInv'
  BY <1>3, SerialStarts DEF RequestDies, Serial
<1>4. ASSUME NEW n \in Ids, RunTask(n)
      PROVE  SerialInv'
  BY <1>4, SerialTask
<1>5. ~AdminStep
  BY DEF AdminStep, AdminDeleteVerification, AdminEditVerification, AdminEditDetail,
         AdminDeleteDetail, AdminSetRoles, Serial
<1>6. CASE UNCHANGED vars
  BY <1>6 DEF vars, SerialInv, RequestsCurrent, ReadIsCurrent, OutcomeApplied, RecordsInUse,
              CopiesFollowVerdict, RoleMeansApproved, ApprovedHasRole, MirrorNotOverclaimed,
              VerdictTold, Concluding, LiveDetail, Exists
<1> QED BY <1>1, <1>2, <1>3, <1>4, <1>5, <1>6 DEF Next

\* With one request at a time, the serial invariant holds throughout.
LEMMA SerialInvariant == Serial => (Spec => []SerialInv)
<1> SUFFICES ASSUME Serial PROVE Spec => []SerialInv
  OBVIOUS
<1>1. Init => SerialInv
  <2> SUFFICES ASSUME Init PROVE SerialInv
    OBVIOUS
  <2>1. \A r \in Requests : job[r].pc = "idle"
    BY DEF Init, Idle
  <2>2. \A p \in Types : row[p] = NoRow
    BY DEF Init
  <2>3. RequestsCurrent
    BY <2>1 DEF RequestsCurrent, ReadIsCurrent, OutcomeApplied, Writing, Reviewing
  <2>4. RecordsInUse /\ VerdictTold
    BY <2>2 DEF RecordsInUse, VerdictTold, Exists, NoRow, Verdicts
  <2>5. CopiesFollowVerdict
    BY <2>2 DEF Init, CopiesFollowVerdict, RoleMeansApproved, ApprovedHasRole,
                MirrorNotOverclaimed, LiveDetail, NoRow, NoDetail
  <2> QED BY <2>3, <2>4, <2>5 DEF SerialInv
<1>2. IInv /\ SerialInv /\ [Next]_vars => SerialInv'
  BY SerialNext
<1> QED BY <1>1, <1>2, InductiveInvariant, PTL DEF Spec

(***************************************************************************)
(* Served one at a time, the requests keep the roles and the mirror flag   *)
(* in step with the verdict.                                               *)
(***************************************************************************)
THEOREM SerialCopies == Serial => (Spec => []CopiesFollowVerdict)
<1>1. SerialInv => CopiesFollowVerdict
  BY DEF SerialInv
<1> QED BY <1>1, SerialInvariant, PTL

(***************************************************************************)
(* Served one at a time, no decision is forgotten: it is in the feed, in   *)
(* the queue, or its review is about to enqueue it.                        *)
(***************************************************************************)
THEOREM SerialTells == Serial => (Spec => []VerdictTold)
<1>1. SerialInv => VerdictTold
  BY DEF SerialInv
<1> QED BY <1>1, SerialInvariant, PTL

-----------------------------------------------------------------------------
(***************************************************************************)
(* What one step can do to the records while requests are served one at a  *)
(* time: nothing, insert under a fresh key, remove a record that is not    *)
(* approved, re-submit one that is not approved, or store a verdict.       *)
(***************************************************************************)
Changed(p, n, s) ==
  /\ row'[p].id = n /\ row'[p].status = s
  /\ \A q \in Types \ {p} : row'[q] = row[q]

RecordStep ==
  \/ \A p \in Types : row'[p].id = row[p].id /\ row'[p].status = row[p].status
  \/ \E p \in Types :
       \/ \E n \in Ids \ used, s \in {"PENDING", "UPDATED"} :
            row[p].status = "NONE" /\ Changed(p, n, s)
       \/ row[p].status \in {"PENDING", "UPDATED", "REJECTED"} /\ Changed(p, NoId, "NONE")
       \/ \E s \in {"PENDING", "UPDATED"} :
            /\ row[p].status \in {"PENDING", "UPDATED", "REJECTED"}
            /\ Changed(p, row[p].id, s)
       \/ \E s \in Verdicts :
            /\ row[p].status # "NONE"
            /\ Changed(p, row[p].id, s)

\* The applicant's statements that touch the records.
LEMMA ApplicantRecordStep ==
  ASSUME Serial, IInv, SerialInv, NEW r \in Requests,
         \/ SyncVerification(r) \/ SaveSync(r) \/ SaveRerequest(r) \/ AvatarVerification(r)
         \/ (\E p \in Types : RequestVerification(r, p)) \/ CancelVerification(r)
  PROVE  RecordStep
<1> DEFINE p == job[r].type
<1>1. /\ job[r] \in Job /\ Carries(job[r]) /\ ReadIsCurrent(r)
  BY RequestFacts
<1>2. ASSUME NEW q \in Types, NEW s \in {"PENDING", "UPDATED"}, ~Exists(q), Insert(q, s)
      PROVE  RecordStep
  <2>1. row[q].status = "NONE"
    BY <1>2, RowFields DEF IInv, NoRow
  <2>2. Changed(q, row'[q].id, s) /\ row'[q].id \in Ids \ used
    BY <1>2, InsertRow DEF IInv, Changed
  <2> QED BY <1>2, <2>1, <2>2 DEF RecordStep
<1>3. CASE SyncVerification(r) \/ AvatarVerification(r)
  <2>1. p \in Types /\ (job[r].pc = "sync" => job[r].status \in {"PENDING", "UPDATED"})
    BY <1>1, <1>3 DEF SyncVerification, AvatarVerification, Carries
  <2>2. \/ UNCHANGED row
        \/ ~Exists(p) /\ \E s \in {"PENDING", "UPDATED"} : Insert(p, s)
    BY <1>3, <2>1 DEF SyncVerification, AvatarVerification
  <2>3. CASE UNCHANGED row
    BY <2>3 DEF RecordStep
  <2> QED BY <1>2, <2>1, <2>2, <2>3
<1>4. CASE \E q \in Types : RequestVerification(r, q)
  BY <1>2, <1>4 DEF RequestVerification
<1>5. CASE SaveSync(r) \/ SaveRerequest(r)
  <2>1. /\ p \in Types /\ job[r].id \in Ids /\ row[p].id = job[r].id
        /\ job[r].status \in {"PENDING", "UPDATED", "APPROVED"}
        /\ job[r].status = "APPROVED" <=> row[p].status = "APPROVED"
    BY <1>1, <1>5 DEF SaveSync, SaveRerequest, Carries, ReadIsCurrent, Writing, Statuses
  <2>2. Changed(p, row[p].id, job[r].status)
    BY <1>5, <2>1 DEF SaveSync, SaveRerequest, Put, Changed, IInv, TypeOK
  <2>3. row[p].status \in {"PENDING", "UPDATED", "REJECTED", "APPROVED"}
    BY <2>1, RowFields, VerificationAssumption
       DEF IInv, SerialInv, RecordsInUse, Statuses, Exists
  <2>4. CASE job[r].status = "APPROVED"
    BY <2>1, <2>2, <2>4 DEF RecordStep, Changed
  <2>5. CASE job[r].status # "APPROVED"
    BY <2>1, <2>2, <2>3, <2>5 DEF RecordStep
  <2> QED BY <2>4, <2>5
<1>6. CASE CancelVerification(r)
  <2>1. p \in Types /\ row[p].status # "APPROVED"
    BY <1>1, <1>6 DEF CancelVerification, Carries, ReadIsCurrent
  <2>2. CASE Exists(p)
    <3>1. Changed(p, NoId, "NONE") \/ UNCHANGED row
      BY <1>6, <2>1 DEF CancelVerification, Changed, NoRow, IInv, TypeOK
    <3>2. row[p].status \in {"PENDING", "UPDATED", "REJECTED"}
      BY <2>1, <2>2, RowFields DEF IInv, SerialInv, RecordsInUse, Statuses
    <3> QED BY <2>1, <3>1, <3>2 DEF RecordStep
  <2>3. CASE ~Exists(p)
    <3>1. row[p] = NoRow
      BY <2>1, <2>3, RowFields DEF IInv
    <3> QED BY <1>6, <3>1 DEF CancelVerification, RecordStep, IInv, TypeOK
  <2> QED BY <2>2, <2>3
<1> HIDE DEF p
<1> QED BY <1>3, <1>4, <1>5, <1>6

\* A review stores a verdict, or the status it read.
LEMMA ReviewRecordStep ==
  ASSUME Serial, IInv, SerialInv, NEW r \in Requests, SaveReview(r) \/ SaveVerdict(r)
  PROVE  RecordStep
<1> DEFINE p == job[r].type
<1>1. /\ job[r] \in Job /\ job \in [Requests -> Job] /\ Carries(job[r]) /\ ReadIsCurrent(r)
  BY RequestFacts
<1>2. /\ p \in Types /\ job[r].id \in Ids /\ row[p].id = job[r].id
      /\ job[r].status \in Verdicts \/ job[r].status = row[p].status
      /\ job[r].pc \in {"review", "verdict"}
  BY <1>1 DEF SaveReview, SaveVerdict, Carries, ReadIsCurrent, Writing
<1>3. Changed(p, row[p].id, job[r].status)
  BY <1>2 DEF SaveReview, SaveVerdict, Put, Changed, IInv, TypeOK
<1>5. row[p].status # "NONE"
  BY <1>2, RowFields, VerificationAssumption DEF IInv, Exists, Statuses
<1>6. CASE job[r].status \in Verdicts
  BY <1>2, <1>3, <1>5, <1>6 DEF RecordStep
<1>7. CASE job[r].status = row[p].status
  BY <1>2, <1>3, <1>7 DEF RecordStep, Changed
<1> QED BY <1>2, <1>6, <1>7

\* So every step is one of these.
LEMMA EveryRecordStep == Serial /\ IInv /\ SerialInv /\ [Next]_vars => RecordStep
<1> SUFFICES ASSUME Serial, IInv, SerialInv, [Next]_vars PROVE RecordStep
  OBVIOUS
<1>1. CASE UNCHANGED row
  BY <1>1 DEF RecordStep
<1>2. ASSUME NEW r \in Requests, ApplicantStep(r)
      PROVE  RecordStep
  <2>1. \/ UNCHANGED row
        \/ SaveSync(r) \/ SaveRerequest(r) \/ SyncVerification(r) \/ AvatarVerification(r)
        \/ (\E p \in Types : RequestVerification(r, p)) \/ CancelVerification(r)
    BY <1>2 DEF ApplicantStep, StartCreateDetail, InsertDetail, StartUpdateDetail,
                SaveDetail, StartSoftDelete, SoftDelete, DropRole, StartAvatar,
                StartRerequest, StartCancel, CancelDetail, DeleteMe
  <2> QED BY <1>1, <2>1, ApplicantRecordStep
<1>3. ASSUME NEW r \in Requests, ReviewerStep(r) \/ Fails(r) \/ RequestDies(r)
      PROVE  RecordStep
  <2>1. UNCHANGED row \/ SaveReview(r) \/ SaveVerdict(r)
    BY <1>3 DEF ReviewerStep, StartReview, StartVerdict, GrantOrRevoke, SetMirror, Notify,
                Fails, RequestDies
  <2> QED BY <1>1, <2>1, ReviewRecordStep
<1>4. CASE (\E n \in Ids : RunTask(n)) \/ AdminStep
  BY <1>1, <1>4 DEF RunTask, AdminStep, AdminDeleteVerification, AdminEditVerification,
                    AdminEditDetail, AdminDeleteDetail, AdminSetRoles, Serial
<1>5. CASE UNCHANGED vars
  BY <1>1, <1>5 DEF vars
<1> QED BY <1>2, <1>3, <1>4, <1>5 DEF Next

-----------------------------------------------------------------------------
\* A step of the records is a step of the lifecycle.
LEMMA RecordsRefine ==
  ASSUME IInv, RecordStep, UNCHANGED role
  PROVE  [Lifecycle!Next]_Lifecycle!vars
<1> DEFINE st == [p \in Types |-> row[p].status]
           st2 == [p \in Types |-> row'[p].status]
<1>1. ASSUME NEW p \in Types, NEW n, NEW s, Changed(p, n, s)
      PROVE  st2 = [st EXCEPT ![p] = s]
  BY <1>1 DEF Changed
<1>2. CASE \A p \in Types : row'[p].id = row[p].id /\ row'[p].status = row[p].status
  BY <1>2 DEF Lifecycle!vars
<1>3. ASSUME NEW p \in Types, NEW n \in Ids \ used, NEW s \in {"PENDING", "UPDATED"},
             row[p].status = "NONE", Changed(p, n, s)
      PROVE  Lifecycle!Next
  <2>1. Lifecycle!Submit(p, s)
    BY <1>1, <1>3 DEF Lifecycle!Submit, Lifecycle!Open
  <2> QED BY <2>1 DEF Lifecycle!Next, Lifecycle!Open
<1>4. ASSUME NEW p \in Types, row[p].status \in {"PENDING", "UPDATED", "REJECTED"},
             Changed(p, NoId, "NONE")
      PROVE  Lifecycle!Next
  <2>1. Lifecycle!Withdraw(p)
    BY <1>1, <1>4 DEF Lifecycle!Withdraw, Lifecycle!Open
  <2> QED BY <2>1 DEF Lifecycle!Next
<1>5. ASSUME NEW p \in Types, NEW s \in {"PENDING", "UPDATED"},
             row[p].status \in {"PENDING", "UPDATED", "REJECTED"}, Changed(p, row[p].id, s)
      PROVE  Lifecycle!Next
  <2>1. Lifecycle!Resubmit(p, s)
    BY <1>1, <1>5 DEF Lifecycle!Resubmit, Lifecycle!Open
  <2> QED BY <2>1 DEF Lifecycle!Next, Lifecycle!Open
<1>6. ASSUME NEW p \in Types, NEW s \in Verdicts, row[p].status # "NONE",
             Changed(p, row[p].id, s)
      PROVE  Lifecycle!Next
  <2>1. Lifecycle!Decide(p, s)
    BY <1>1, <1>6 DEF Lifecycle!Decide, Lifecycle!Verdicts, Verdicts
  <2> QED BY <2>1 DEF Lifecycle!Next, Lifecycle!Verdicts, Verdicts
<1> QED BY <1>2, <1>3, <1>4, <1>5, <1>6 DEF RecordStep

\* What one step can do to the roles: nothing, take some away, grant an approved one.
RoleStep ==
  \/ UNCHANGED role
  \/ /\ UNCHANGED row
     /\ \/ role' \subseteq role
        \/ \E p \in Types : row[p].status = "APPROVED" /\ role' = role \cup {p}

\* Every step is one of these.
LEMMA EveryRoleStep == Serial /\ IInv /\ SerialInv /\ [Next]_vars => RoleStep
<1> SUFFICES ASSUME Serial, IInv, SerialInv, [Next]_vars PROVE RoleStep
  OBVIOUS
<1>1. ASSUME NEW r \in Requests, ApplicantStep(r)
      PROVE  RoleStep
  <2>1. UNCHANGED role \/ DropRole(r) \/ DeleteMe(r)
    BY <1>1 DEF ApplicantStep, StartCreateDetail, InsertDetail, StartUpdateDetail, SaveDetail,
                StartSoftDelete, SoftDelete, StartAvatar, StartRerequest, StartCancel,
                CancelDetail, SyncVerification, SaveSync, AvatarVerification,
                RequestVerification, SaveRerequest, CancelVerification
  <2> QED BY <2>1 DEF DropRole, DeleteMe, RoleStep
<1>2. ASSUME NEW r \in Requests, ReviewerStep(r) \/ Fails(r) \/ RequestDies(r)
      PROVE  RoleStep
  <2>1. UNCHANGED role \/ GrantOrRevoke(r)
    BY <1>2 DEF ReviewerStep, StartReview, StartVerdict, SaveReview, SaveVerdict, SetMirror,
                Notify, Fails, RequestDies
  <2>2. CASE GrantOrRevoke(r)
    <3>1. Carries(job[r]) /\ OutcomeApplied(r)
      BY RequestFacts
    <3>2. job[r].type \in Types /\ row[job[r].type].status = job[r].status
      BY <2>2, <3>1 DEF GrantOrRevoke, Carries, OutcomeApplied, Reviewing
    <3> QED BY <2>2, <3>2 DEF GrantOrRevoke, RoleStep
  <2> QED BY <2>1, <2>2 DEF RoleStep
<1>3. CASE (\E n \in Ids : RunTask(n)) \/ AdminStep
  BY <1>3 DEF RunTask, AdminStep, AdminDeleteVerification, AdminEditVerification,
              AdminEditDetail, AdminDeleteDetail, AdminSetRoles, Serial, RoleStep
<1>4. CASE UNCHANGED vars
  BY <1>4 DEF vars, RoleStep
<1> QED BY <1>1, <1>2, <1>3, <1>4 DEF Next

\* A step of the roles is a step of the lifecycle.
LEMMA RolesRefine ==
  ASSUME IInv, UNCHANGED row,
         \/ role' \subseteq role
         \/ \E p \in Types : row[p].status = "APPROVED" /\ role' = role \cup {p}
  PROVE  Lifecycle!Next
<1> DEFINE st == [p \in Types |-> row[p].status]
<1>1. st' = st
  OBVIOUS
<1>2. CASE role' \subseteq role
  <2>1. role \ role' \in SUBSET Types /\ role' = role \ (role \ role')
    BY <1>2 DEF IInv, TypeOK
  <2>2. Lifecycle!Revoke(role \ role')
    BY <1>1, <2>1 DEF Lifecycle!Revoke
  <2> QED BY <2>1, <2>2 DEF Lifecycle!Next
<1>3. ASSUME NEW p \in Types, row[p].status = "APPROVED", role' = role \cup {p}
      PROVE  Lifecycle!Next
  <2>1. Lifecycle!Grant(p)
    BY <1>1, <1>3 DEF Lifecycle!Grant
  <2> QED BY <2>1 DEF Lifecycle!Next
<1> QED BY <1>2, <1>3

(***************************************************************************)
(* Served one at a time, the requests implement VerificationLifecycle:     *)
(* every statement is one of its steps or a stutter.                       *)
(***************************************************************************)
THEOREM SerialImplements == Serial => (Spec => ImplementsVerification)
<1> SUFFICES ASSUME Serial PROVE Spec => Lifecycle!Spec
  BY DEF ImplementsVerification
<1>1. Init => Lifecycle!Init
  BY DEF Init, Lifecycle!Init, NoRow
<1>2. IInv /\ SerialInv /\ [Next]_vars => [Lifecycle!Next]_Lifecycle!vars
  <2> SUFFICES ASSUME IInv, SerialInv, [Next]_vars PROVE [Lifecycle!Next]_Lifecycle!vars
    OBVIOUS
  <2>1. RecordStep /\ RoleStep
    BY EveryRecordStep, EveryRoleStep
  <2>2. CASE UNCHANGED role
    BY <2>1, <2>2, RecordsRefine
  <2>3. CASE ~UNCHANGED role
    BY <2>1, <2>3, RolesRefine DEF RoleStep
  <2> QED BY <2>2, <2>3
<1> QED BY <1>1, <1>2, InductiveInvariant, SerialInvariant, PTL DEF Spec, Lifecycle!Spec

(***************************************************************************)
(* So served, an approval ends in a rejection and in nothing else, and a   *)
(* role is granted only on a verification approved at that moment.         *)
(***************************************************************************)
THEOREM SerialApprovalEnds == Serial => (Spec => ApprovalEndsInRejection /\ GrantsAreApproved)
<1> SUFFICES ASSUME Serial PROVE Spec => ApprovalEndsInRejection /\ GrantsAreApproved
  OBVIOUS
<1>1. IInv /\ SerialInv /\ [Next]_vars =>
        /\ [\A p \in Types : row[p].status = "APPROVED" =>
              row'[p].status \in {"APPROVED", "REJECTED"}]_Lifecycle!vars
        /\ [\A p \in Types : p \in role' \ role => row[p].status = "APPROVED"]_Lifecycle!vars
  <2> SUFFICES ASSUME IInv, SerialInv, [Next]_vars
               PROVE  /\ \A p \in Types : row[p].status = "APPROVED" =>
                           row'[p].status \in {"APPROVED", "REJECTED"}
                      /\ \A p \in Types : p \in role' \ role => row[p].status = "APPROVED"
    OBVIOUS
  <2>1. RecordStep /\ RoleStep
    BY EveryRecordStep, EveryRoleStep
  <2> QED BY <2>1 DEF RecordStep, RoleStep, Changed, Verdicts
<1> DEFINE st == [p \in Types |-> row[p].status]
<1>2. IInv /\ SerialInv /\ [Next]_vars =>
        [\A p \in Types : st[p] = "APPROVED" => st'[p] \in Lifecycle!Verdicts]_Lifecycle!vars
  BY <1>1 DEF Lifecycle!Verdicts
<1>3. IInv /\ SerialInv /\ [Next]_vars =>
        [\A p \in Types : p \in role' \ role => st[p] = "APPROVED"]_Lifecycle!vars
  BY <1>1
<1>4. Spec => ApprovalEndsInRejection
  BY <1>2, InductiveInvariant, SerialInvariant, PTL
     DEF Spec, ApprovalEndsInRejection, Lifecycle!ApprovalEndsInRejection
<1>5. Spec => GrantsAreApproved
  BY <1>3, InductiveInvariant, SerialInvariant, PTL
     DEF Spec, GrantsAreApproved, Lifecycle!GrantsAreApproved
<1> QED BY <1>4, <1>5

================================================================================
