----------------------------- MODULE Verification -----------------------------
(***************************************************************************)
(* Provider verification for one applicant: the verification records, the  *)
(* tutor detail with its is_verified mirror, the provider roles, the       *)
(* requests of the applicant and of the reviewers, and the notification    *)
(* task (apps/providers views, services and admin).                        *)
(*                                                                         *)
(* All of this state belongs to one user, so one applicant is enough; a    *)
(* bulk admin action is its loop body once per row.  Every ORM statement   *)
(* commits by itself: a request is a sequence of steps, and what it writes *)
(* was computed from what it read.  save(update_fields) writes the named   *)
(* columns and fails on a row that is gone; a plain save() writes every    *)
(* column and inserts the row again if it is gone.                         *)
(***************************************************************************)
EXTENDS Naturals, FiniteSets

CONSTANTS Types,             \* ProviderChoices: "TUTOR", "MASTERCLASS"
          Ids,               \* primary keys the tables can still hand out
          Requests,          \* requests that may be in progress at the same time
          RequestsCrash,     \* may a request die half-way?
          DetailReferenced,  \* may inquiries or reviews PROTECT the tutor detail?
          AdminForms,        \* admin change forms in use: "verification", "detail", "roles"
          NoId               \* no primary key

ASSUME VerificationAssumption ==
  /\ Types \subseteq {"TUTOR", "MASTERCLASS"}
  /\ RequestsCrash \in BOOLEAN
  /\ DetailReferenced \in BOOLEAN
  /\ AdminForms \subseteq {"verification", "detail", "roles"}
  /\ NoId \notin Ids

VARIABLES row,       \* [Types -> the verification record, or NoRow]
          detail,    \* the tutor detail, or NoDetail
          role,      \* the provider roles in user.roles
          active,    \* is the account there (not deleted by its owner)?
          job,       \* [Requests -> what each request is about to do]
          tasks,     \* ids with a notify_verification_result in the broker
          told,      \* [Ids -> the verdicts in the applicant's feed]
          used,      \* primary keys of verification records handed out
          detailUsed,\* primary keys of tutor details handed out
          approved   \* history: the types whose record ever held APPROVED, or that an
                     \* administrator granted or marked as verified by hand

vars == <<row, detail, role, active, job, tasks, told, used, detailUsed, approved>>

-----------------------------------------------------------------------------
Statuses == {"PENDING", "UPDATED", "APPROVED", "REJECTED", "CANCELLED"}
Verdicts == {"APPROVED", "REJECTED"}

\* _MUTABLE_FOR_APPROVE, _MUTABLE_FOR_REJECT: the rows the admin actions take.
Mutable(s) ==
  IF s = "APPROVED" THEN {"PENDING", "REJECTED", "UPDATED"}
                    ELSE {"PENDING", "APPROVED", "UPDATED"}

\* comment: is there a reviewer's comment?
Rows == [id : Ids, status : Statuses, comment : BOOLEAN]
NoRow == [id |-> NoId, status |-> "NONE", comment |-> FALSE]
Details == [id : Ids, deleted : BOOLEAN, verified : BOOLEAN]
NoDetail == [id |-> NoId, deleted |-> FALSE, verified |-> FALSE]

Exists(p) == row[p].id # NoId
LiveDetail == detail.id # NoId /\ ~detail.deleted

\* What a request is about to do (pc) to the record of type, and the columns it is
\* going to write: the key and values of its own copy.
Job == [pc : {"idle", "insert", "save_detail", "sync", "save_sync", "soft_delete",
              "drop_role", "avatar", "rerequest", "cancel", "cancel_detail",
              "review", "verdict", "role", "mirror", "notify"},
        type     : Types \cup {"none"},
        id       : Ids \cup {NoId},
        status   : Statuses \cup {"NONE"},
        comment  : BOOLEAN,
        verified : BOOLEAN]

Idle == [pc |-> "idle", type |-> "none", id |-> NoId, status |-> "NONE",
         comment |-> FALSE, verified |-> FALSE]

At(pc, p, n, s, c) ==
  [pc |-> pc, type |-> p, id |-> n, status |-> s, comment |-> c, verified |-> FALSE]

Begin(r, j) == job[r] = Idle /\ job' = [job EXCEPT ![r] = j]
GoOn(r, j) == job' = [job EXCEPT ![r] = j]
Step(r, pc) == job' = [job EXCEPT ![r].pc = pc]
End(r) == job' = [job EXCEPT ![r] = Idle]

Put(p, n, s, c) ==
  /\ row' = [row EXCEPT ![p] = [id |-> n, status |-> s, comment |-> c]]
  /\ approved' = approved \cup (IF s = "APPROVED" THEN {p} ELSE {})

\* A row inserted under a primary key never used before.
Insert(p, s) ==
  \E n \in Ids \ used : Put(p, n, s, FALSE) /\ used' = used \cup {n}

InsertDetailRow ==
  \E n \in Ids \ detailUsed :
    /\ detail' = [id |-> n, deleted |-> FALSE, verified |-> FALSE]
    /\ detailUsed' = detailUsed \cup {n}

Init ==
  /\ row = [p \in Types |-> NoRow]
  /\ detail = NoDetail
  /\ role = {}
  /\ active = TRUE
  /\ job = [r \in Requests |-> Idle]
  /\ tasks = {}
  /\ told = [n \in Ids |-> {}]
  /\ used = {}
  /\ detailUsed = {}
  /\ approved = {}

-----------------------------------------------------------------------------
(* The tutor detail: POST, PATCH and DELETE /provider/tutor-detail/.       *)

\* POST is refused with 409 while a live detail exists.
StartCreateDetail(r) ==
  /\ active /\ "TUTOR" \in Types
  /\ ~LiveDetail
  /\ Begin(r, At("insert", "TUTOR", NoId, "PENDING", FALSE))
  /\ UNCHANGED <<row, detail, role, active, tasks, told, used, detailUsed, approved>>

\* serializer.save(user=...): the one-to-one column refuses a second row per user.
InsertDetail(r) ==
  /\ job[r].pc = "insert"
  /\ detail.id = NoId
  /\ InsertDetailRow
  /\ Step(r, "sync")
  /\ UNCHANGED <<row, role, active, tasks, told, used, approved>>

\* PATCH reads the live detail; a body with nothing but status is not re-submitted.
StartUpdateDetail(r, statusOnly) ==
  /\ active /\ LiveDetail
  /\ Begin(r, [pc |-> "save_detail", type |-> "TUTOR", id |-> detail.id,
               status |-> IF statusOnly THEN "NONE" ELSE "UPDATED",
               comment |-> FALSE, verified |-> detail.verified])
  /\ UNCHANGED <<row, detail, role, active, tasks, told, used, detailUsed, approved>>

(* Mutations, here and below: what a plausible bug would make of the       *)
(* operation that follows.  No specification uses them.                    *)

\* A status-only PATCH is synced like any other.
SaveDetailAlwaysSyncs(r) ==
  LET j == job[r]
  IN /\ j.pc = "save_detail"
     /\ detail.id \in {j.id, NoId}
     /\ detail' = [id |-> j.id, deleted |-> FALSE, verified |-> j.verified]
     /\ GoOn(r, At("sync", "TUTOR", NoId, j.status, FALSE))
     /\ UNCHANGED <<row, role, active, tasks, told, used, detailUsed, approved>>

\* A full save: it also writes back the mirror flag and deleted_at it read.
SaveDetail(r) ==
  LET j == job[r]
  IN /\ j.pc = "save_detail"
     /\ detail.id \in {j.id, NoId}
     /\ detail' = [id |-> j.id, deleted |-> FALSE, verified |-> j.verified]
     /\ IF j.status = "NONE" THEN End(r) ELSE GoOn(r, At("sync", "TUTOR", NoId, j.status, FALSE))
     /\ UNCHANGED <<row, role, active, tasks, told, used, detailUsed, approved>>

\* _sync_verification: get_or_create ...
SyncVerification(r) ==
  LET p == job[r].type
  IN /\ job[r].pc = "sync"
     /\ \/ ~Exists(p) /\ Insert(p, job[r].status) /\ End(r)
        \/ /\ Exists(p)
           /\ GoOn(r, At("save_sync", p, row[p].id,
                         IF row[p].status = "APPROVED" THEN "APPROVED" ELSE job[r].status,
                         FALSE))
           /\ UNCHANGED <<row, used, approved>>
     /\ UNCHANGED <<detail, role, active, tasks, told, detailUsed>>

\* Mutation: update_fields forgets the status.
SaveSyncCommentOnly(r) ==
  LET j == job[r]
  IN /\ j.pc = "save_sync"
     /\ row[j.type].id = j.id
     /\ Put(j.type, j.id, row[j.type].status, FALSE)
     /\ End(r)
     /\ UNCHANGED <<detail, role, active, tasks, told, used, detailUsed>>

\* ... and for a record that was there, a save of the status and of an empty comment.
SaveSync(r) ==
  LET j == job[r]
  IN /\ j.pc = "save_sync"
     /\ row[j.type].id = j.id
     /\ Put(j.type, j.id, j.status, FALSE)
     /\ End(r)
     /\ UNCHANGED <<detail, role, active, tasks, told, used, detailUsed>>

\* DELETE marks the detail and then removes the TUTOR role; the verification stays.
StartSoftDelete(r) ==
  /\ active /\ LiveDetail
  /\ Begin(r, At("soft_delete", "TUTOR", detail.id, "NONE", FALSE))
  /\ UNCHANGED <<row, detail, role, active, tasks, told, used, detailUsed, approved>>

SoftDelete(r) ==
  /\ job[r].pc = "soft_delete"
  /\ detail.id = job[r].id
  /\ detail' = [detail EXCEPT !.deleted = TRUE]
  /\ Step(r, "drop_role")
  /\ UNCHANGED <<row, role, active, tasks, told, used, detailUsed, approved>>

DropRole(r) ==
  /\ job[r].pc = "drop_role"
  /\ role' = role \ {"TUTOR"}
  /\ End(r)
  /\ UNCHANGED <<row, detail, active, tasks, told, used, detailUsed, approved>>

-----------------------------------------------------------------------------
(* POST and DELETE /provider/avatar/: both get_or_create the detail, the   *)
(* upload the verification too.                                            *)

StartAvatar(r, upload) ==
  /\ active /\ "TUTOR" \in Types
  /\ job[r] = Idle
  /\ IF detail.id = NoId THEN InsertDetailRow ELSE UNCHANGED <<detail, detailUsed>>
  /\ IF upload THEN GoOn(r, At("avatar", "TUTOR", NoId, "PENDING", FALSE)) ELSE UNCHANGED job
  /\ UNCHANGED <<row, role, active, tasks, told, used, approved>>

AvatarVerification(r) ==
  LET p == job[r].type
  IN /\ job[r].pc = "avatar"
     /\ IF Exists(p) THEN UNCHANGED <<row, used, approved>> ELSE Insert(p, "PENDING")
     /\ End(r)
     /\ UNCHANGED <<detail, role, active, tasks, told, detailUsed>>

-----------------------------------------------------------------------------
(* POST /provider/verify/ and DELETE /provider/verify/{type}/.             *)

\* A first request creates the record; one that is open or approved answers 409.
RequestVerification(r, p) ==
  /\ active /\ job[r] = Idle
  /\ ~Exists(p)
  /\ Insert(p, "PENDING")
  /\ UNCHANGED <<detail, role, active, job, tasks, told, detailUsed>>

StartRerequest(r, p) ==
  /\ active
  /\ Exists(p) /\ row[p].status \in {"REJECTED", "CANCELLED"}
  /\ Begin(r, At("rerequest", p, row[p].id, "UPDATED", FALSE))
  /\ UNCHANGED <<row, detail, role, active, tasks, told, used, detailUsed, approved>>

\* Mutation: a provider approved before is approved again at once.
SaveRerequestRestores(r) ==
  LET j == job[r]
  IN /\ j.pc = "rerequest"
     /\ row[j.type].id = j.id
     /\ Put(j.type, j.id, IF j.type \in approved THEN "APPROVED" ELSE j.status, FALSE)
     /\ End(r)
     /\ UNCHANGED <<detail, role, active, tasks, told, used, detailUsed>>

\* save(update_fields=["status", "comment", ...]).
SaveRerequest(r) ==
  LET j == job[r]
  IN /\ j.pc = "rerequest"
     /\ row[j.type].id = j.id
     /\ Put(j.type, j.id, j.status, FALSE)
     /\ End(r)
     /\ UNCHANGED <<detail, role, active, tasks, told, used, detailUsed>>

\* Mutation: an approved verification can be cancelled.
StartCancelAny(r, p) ==
  /\ active
  /\ Exists(p) /\ row[p].status # "CANCELLED"
  /\ Begin(r, At("cancel", p, row[p].id, "NONE", FALSE))
  /\ UNCHANGED <<row, detail, role, active, tasks, told, used, detailUsed, approved>>

\* An approved verification is refused; one already CANCELLED answers 204 and does nothing.
StartCancel(r, p) ==
  /\ active
  /\ Exists(p) /\ row[p].status \notin {"APPROVED", "CANCELLED"}
  /\ Begin(r, At("cancel", p, row[p].id, "NONE", FALSE))
  /\ UNCHANGED <<row, detail, role, active, tasks, told, used, detailUsed, approved>>

\* verification.delete(): by primary key, whatever the row says by now.
CancelVerification(r) ==
  LET p == job[r].type
  IN /\ job[r].pc = "cancel"
     /\ row' = IF row[p].id = job[r].id THEN [row EXCEPT ![p] = NoRow] ELSE row
     /\ IF p = "TUTOR" THEN Step(r, "cancel_detail") ELSE End(r)
     /\ UNCHANGED <<detail, role, active, tasks, told, used, detailUsed, approved>>

CancelDetail(r) ==
  /\ job[r].pc = "cancel_detail"
  /\ detail' = NoDetail
  /\ End(r)
  /\ UNCHANGED <<row, role, active, tasks, told, used, detailUsed, approved>>

-----------------------------------------------------------------------------
(* Review: PATCH /provider/verify/admin/{id}/ and the two admin actions,   *)
(* all three ending in apply_verification_outcome.                         *)

\* ProviderVerificationReviewSerializer: status APPROVED or REJECTED or not given, a
\* comment with a rejection, nothing on a CANCELLED record.
StartReview(r, p, s, c) ==
  /\ Exists(p) /\ row[p].status # "CANCELLED"
  /\ s \in Verdicts \cup {row[p].status}
  /\ s = "REJECTED" => c
  /\ Begin(r, At("review", p, row[p].id, s, c))
  /\ UNCHANGED <<row, detail, role, active, tasks, told, used, detailUsed, approved>>

\* serializer.save(): a full save.
SaveReview(r) ==
  LET j == job[r]
  IN /\ j.pc = "review"
     /\ row[j.type].id \in {j.id, NoId}
     /\ Put(j.type, j.id, j.status, j.comment)
     /\ Step(r, "role")
     /\ UNCHANGED <<detail, role, active, tasks, told, used, detailUsed>>

\* One iteration of approve_provider_request or reject_provider_request.
StartVerdict(r, p, s) ==
  /\ s \in Verdicts
  /\ Exists(p) /\ row[p].status \in Mutable(s)
  /\ Begin(r, At("verdict", p, row[p].id, s, s = "REJECTED"))
  /\ UNCHANGED <<row, detail, role, active, tasks, told, used, detailUsed, approved>>

\* Mutation: update_fields is forgotten, and the save inserts a record that is gone.
SaveVerdictWhole(r) ==
  LET j == job[r]
  IN /\ j.pc = "verdict"
     /\ row[j.type].id \in {j.id, NoId}
     /\ Put(j.type, j.id, j.status, j.comment)
     /\ Step(r, "role")
     /\ UNCHANGED <<detail, role, active, tasks, told, used, detailUsed>>

\* save(update_fields=["status", "comment", "updated_at"]).
SaveVerdict(r) ==
  LET j == job[r]
  IN /\ j.pc = "verdict"
     /\ row[j.type].id = j.id
     /\ Put(j.type, j.id, j.status, j.comment)
     /\ Step(r, "role")
     /\ UNCHANGED <<detail, role, active, tasks, told, used, detailUsed>>

\* Mutation: everything but a rejection grants.
GrantUnlessRejected(r) ==
  LET j == job[r]
  IN /\ j.pc = "role"
     /\ role' = IF j.status # "REJECTED" THEN role \cup {j.type} ELSE role \ {j.type}
     /\ Step(r, IF j.type = "TUTOR" THEN "mirror" ELSE "notify")
     /\ UNCHANGED <<row, detail, active, tasks, told, used, detailUsed, approved>>

\* apply_verification_outcome: the role, by the status this request wrote ...
GrantOrRevoke(r) ==
  LET j == job[r]
  IN /\ j.pc = "role"
     /\ role' = IF j.status = "APPROVED" THEN role \cup {j.type} ELSE role \ {j.type}
     /\ Step(r, IF j.type = "TUTOR" THEN "mirror" ELSE "notify")
     /\ UNCHANGED <<row, detail, active, tasks, told, used, detailUsed, approved>>

\* Mutation: without a live detail the function returns.
SetMirrorOrReturn(r) ==
  /\ job[r].pc = "mirror"
  /\ detail' = IF LiveDetail THEN [detail EXCEPT !.verified = (job[r].status = "APPROVED")]
                             ELSE detail
  /\ IF LiveDetail THEN Step(r, "notify") ELSE End(r)
  /\ UNCHANGED <<row, role, active, tasks, told, used, detailUsed, approved>>

\* ... then the mirror flag of a live detail ...
SetMirror(r) ==
  /\ job[r].pc = "mirror"
  /\ detail' = IF LiveDetail THEN [detail EXCEPT !.verified = (job[r].status = "APPROVED")]
                             ELSE detail
  /\ Step(r, "notify")
  /\ UNCHANGED <<row, role, active, tasks, told, used, detailUsed, approved>>

\* ... then notify_verification_result.delay(verification.id).
Notify(r) ==
  /\ job[r].pc = "notify"
  /\ tasks' = tasks \cup {job[r].id}
  /\ End(r)
  /\ UNCHANGED <<row, detail, role, active, told, used, detailUsed, approved>>

-----------------------------------------------------------------------------
\* A statement raises DatabaseError, IntegrityError or ProtectedError: a 500.
Fails(r) ==
  LET j == job[r]
  IN /\ \/ j.pc \in {"save_sync", "rerequest", "verdict"} /\ row[j.type].id # j.id
        \/ j.pc = "review" /\ row[j.type].id \notin {j.id, NoId}
        \/ j.pc = "insert" /\ detail.id # NoId
        \/ j.pc = "save_detail" /\ detail.id \notin {j.id, NoId}
        \/ j.pc = "soft_delete" /\ detail.id # j.id
        \/ j.pc = "cancel_detail" /\ DetailReferenced /\ detail.id # NoId
     /\ End(r)
     /\ UNCHANGED <<row, detail, role, active, tasks, told, used, detailUsed, approved>>

RequestDies(r) ==
  /\ RequestsCrash
  /\ job[r] # Idle
  /\ End(r)
  /\ UNCHANGED <<row, detail, role, active, tasks, told, used, detailUsed, approved>>

\* notify_verification_result: the verdict it reads when it runs.  A verification
\* decided several times has several copies of the task, so one may be left.
RunTask(n) ==
  /\ n \in tasks
  /\ tasks' \in {tasks, tasks \ {n}}
  /\ told' = [told EXCEPT ![n] =
                @ \cup {row[p].status : p \in {q \in Types : row[q].id = n
                                                /\ row[q].status \in Verdicts}}]
  /\ UNCHANGED <<row, detail, role, active, job, used, detailUsed, approved>>

\* DELETE /users/me/: one transaction; the verification records are kept.
DeleteMe(r) ==
  /\ active
  /\ job[r] = Idle
  /\ active' = FALSE
  /\ role' = {}
  /\ UNCHANGED <<row, detail, job, tasks, told, used, detailUsed, approved>>

-----------------------------------------------------------------------------
(* The admin change forms write the columns and nothing else.              *)

AdminEditVerification(p, s, c) ==
  /\ "verification" \in AdminForms
  /\ Exists(p)
  /\ Put(p, row[p].id, s, c)
  /\ UNCHANGED <<detail, role, active, job, tasks, told, used, detailUsed>>

AdminDeleteVerification(p) ==
  /\ "verification" \in AdminForms
  /\ Exists(p)
  /\ row' = [row EXCEPT ![p] = NoRow]
  /\ UNCHANGED <<detail, role, active, job, tasks, told, used, detailUsed, approved>>

AdminEditDetail(d, v) ==
  /\ "detail" \in AdminForms
  /\ detail.id # NoId
  /\ detail' = [detail EXCEPT !.deleted = d, !.verified = v]
  /\ approved' = approved \cup (IF v THEN {"TUTOR"} ELSE {})
  /\ UNCHANGED <<row, role, active, job, tasks, told, used, detailUsed>>

AdminDeleteDetail ==
  /\ "detail" \in AdminForms
  /\ detail.id # NoId
  /\ detail' = NoDetail
  /\ UNCHANGED <<row, role, active, job, tasks, told, used, detailUsed, approved>>

AdminSetRoles(given) ==
  /\ "roles" \in AdminForms
  /\ role' = given
  /\ approved' = approved \cup given
  /\ UNCHANGED <<row, detail, active, job, tasks, told, used, detailUsed>>

-----------------------------------------------------------------------------
ApplicantStep(r) ==
  \/ StartCreateDetail(r) \/ InsertDetail(r)
  \/ \E statusOnly \in BOOLEAN : StartUpdateDetail(r, statusOnly)
  \/ SaveDetail(r) \/ SyncVerification(r) \/ SaveSync(r)
  \/ StartSoftDelete(r) \/ SoftDelete(r) \/ DropRole(r)
  \/ \E upload \in BOOLEAN : StartAvatar(r, upload)
  \/ AvatarVerification(r)
  \/ \E p \in Types : RequestVerification(r, p) \/ StartRerequest(r, p) \/ StartCancel(r, p)
  \/ SaveRerequest(r) \/ CancelVerification(r) \/ CancelDetail(r)
  \/ DeleteMe(r)

ReviewerStep(r) ==
  \/ \E p \in Types, s \in Statuses, c \in BOOLEAN : StartReview(r, p, s, c)
  \/ \E p \in Types, s \in Verdicts : StartVerdict(r, p, s)
  \/ SaveReview(r) \/ SaveVerdict(r)
  \/ GrantOrRevoke(r) \/ SetMirror(r) \/ Notify(r)

AdminStep ==
  \/ \E p \in Types :
       \/ AdminDeleteVerification(p)
       \/ \E s \in Statuses, c \in BOOLEAN : AdminEditVerification(p, s, c)
  \/ \E d, v \in BOOLEAN : AdminEditDetail(d, v)
  \/ AdminDeleteDetail
  \/ \E given \in SUBSET Types : AdminSetRoles(given)

Next ==
  \/ \E r \in Requests : ApplicantStep(r) \/ ReviewerStep(r) \/ Fails(r) \/ RequestDies(r)
  \/ \E n \in Ids : RunTask(n)
  \/ AdminStep

Spec == Init /\ [][Next]_vars

-----------------------------------------------------------------------------
TypeOK ==
  /\ row \in [Types -> Rows \cup {NoRow}]
  /\ detail \in Details \cup {NoDetail}
  /\ role \subseteq Types
  /\ active \in BOOLEAN
  /\ job \in [Requests -> Job]
  /\ tasks \subseteq Ids
  /\ told \in [Ids -> SUBSET Verdicts]
  /\ used \subseteq Ids
  /\ detailUsed \subseteq Ids
  /\ approved \subseteq Types

(***************************************************************************)
(* A rejection is explained: no order of reviews, re-submissions (which    *)
(* clear the comment and the status in one statement) and syncs leaves a   *)
(* REJECTED record without a reviewer's comment.  TLC checks the orders of *)
(* one request at a time; RejectionKeepsComment proves it for the          *)
(* interleavings of any number.                                            *)
(***************************************************************************)
RejectionExplained ==
  "verification" \notin AdminForms =>
    \A p \in Types : row[p].status = "REJECTED" => row[p].comment

(***************************************************************************)
(* Whatever the interleaving, the deaths of requests, the change forms and *)
(* the stale copies saved, a provider role is held, and a tutor detail     *)
(* shown as verified, only if a reviewer approved the verification or an   *)
(* administrator ticked it by hand at some time.                           *)
(***************************************************************************)
NothingWithoutApproval ==
  /\ role \subseteq approved
  /\ detail.verified => "TUTOR" \in approved

\* Is some request between the verdict it saved and the end of apply_verification_outcome?
Concluding(p) ==
  \E r \in Requests : job[r].pc \in {"role", "mirror", "notify"} /\ job[r].type = p

(***************************************************************************)
(* "Approving grants the matching provider role ...; rejecting revokes     *)
(* it" (views.py): outside a review in progress, a role is held only on an *)
(* approved verification.  It holds while requests are served one at a     *)
(* time; two reviewers at once can leave a rejected applicant the role.    *)
(***************************************************************************)
RoleMeansApproved ==
  ~RequestsCrash /\ AdminForms = {} =>
    \A p \in role : row[p].status = "APPROVED" \/ Concluding(p)

(***************************************************************************)
(* The other way round: an approved applicant has the role, until the      *)
(* tutor closes the profile or deletes the account.                        *)
(***************************************************************************)
ApprovedHasRole ==
  ~RequestsCrash /\ AdminForms = {} /\ active =>
    \A p \in Types :
      row[p].status = "APPROVED" =>
        p \in role \/ Concluding(p) \/ (p = "TUTOR" /\ detail.deleted)

(***************************************************************************)
(* The tutor detail never shows "verified" without an approval.            *)
(***************************************************************************)
MirrorNotOverclaimed ==
  ~RequestsCrash /\ AdminForms = {} =>
    (LiveDetail /\ detail.verified => row["TUTOR"].status = "APPROVED" \/ Concluding("TUTOR"))

(***************************************************************************)
(* While requests are served one at a time and nobody edits by hand, what  *)
(* apply_verification_outcome keeps beside the status follows the verdict: *)
(* the role both ways, the mirror flag as far as it claims anything.       *)
(***************************************************************************)
CopiesFollowVerdict ==
  /\ RoleMeansApproved
  /\ ApprovedHasRole
  /\ MirrorNotOverclaimed

(***************************************************************************)
(* "TutorDetail.is_verified mirror flag is kept in step so the             *)
(* tutor-detail API stays truthful" (views.py): the flag says what the     *)
(* verification says.  It fails even with one request at a time: a detail  *)
(* first submitted after the approval is not marked.                       *)
(***************************************************************************)
MirrorTruthful ==
  LiveDetail /\ ~Concluding("TUTOR") => (detail.verified <=> row["TUTOR"].status = "APPROVED")

(***************************************************************************)
(* A decision is not forgotten: the applicant's feed has the current       *)
(* verdict, or a review is about to enqueue the task, or it is queued.     *)
(***************************************************************************)
VerdictTold ==
  ~RequestsCrash /\ AdminForms = {} =>
    \A p \in Types :
      row[p].status \in Verdicts =>
        row[p].status \in told[row[p].id] \/ row[p].id \in tasks \/ Concluding(p)

(***************************************************************************)
(* "A manager/admin then APPROVES or REJECTS it" (models.py): a record     *)
(* becomes APPROVED only by a reviewer's save of that record, by hand in   *)
(* the admin site, or by a profile edit that read an approval and writes   *)
(* it back after a rejection; never by a new or a repeated request, and by *)
(* no edit of a provider who was never approved.                           *)
(***************************************************************************)
OnlyReviewersApprove ==
  [][\A p \in Types :
       row'[p].status = "APPROVED" /\ row[p].status # "APPROVED" =>
         \/ \E r \in Requests :
              job[r].pc \in {"review", "verdict"} /\ job[r].type = p /\ job'[r].pc = "role"
         \/ /\ p \in approved
            /\ \E r \in Requests :
                 job[r].pc = "save_sync" /\ job[r].type = p /\ job'[r] = Idle
         \/ "verification" \in AdminForms /\ UNCHANGED job]_vars

(***************************************************************************)
(* What was deleted stays deleted, but for the two full saves: a record    *)
(* comes back only by the API review (views.py, perform_update) that       *)
(* loaded it before, and goes on to apply its verdict; a tutor detail only *)
(* by a PATCH that loaded it before.  Syncs, repeated requests and the     *)
(* admin actions name their columns and fail on a row that is gone, and no *)
(* save writes over another row.                                           *)
(***************************************************************************)
OnlyFullSavesRevive ==
  [][/\ \A p \in Types :
          row'[p].id \in used /\ row'[p].id # row[p].id =>
            /\ ~Exists(p)
            /\ \E r \in Requests :
                 /\ job[r].pc = "review" /\ job[r].type = p /\ job[r].id = row'[p].id
                 /\ job'[r].pc = "role"
     /\ detail'.id \in detailUsed /\ detail'.id # detail.id =>
          /\ detail.id = NoId
          /\ \E r \in Requests : job[r].pc = "save_detail" /\ job[r].id = detail'.id]_vars

\* With one request at a time and no change forms in the admin, the records behave as
\* VerificationLifecycle.
Lifecycle == INSTANCE VerificationLifecycle WITH status <- [p \in Types |-> row[p].status]
ImplementsVerification == Lifecycle!Spec
ApprovalEndsInRejection == Lifecycle!ApprovalEndsInRejection
GrantsAreApproved == Lifecycle!GrantsAreApproved
=============================================================================
