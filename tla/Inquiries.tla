------------------------------ MODULE Inquiries ------------------------------
(***************************************************************************)
(* Family-to-tutor inquiries: the database rows, the web requests that     *)
(* create and transition them, the admin site, and the notification tasks  *)
(* the requests enqueue (apps/inquiries).                                  *)
(*                                                                         *)
(* Every ORM statement is its own transaction (no ATOMIC_REQUESTS), so a   *)
(* request is a sequence of steps: it reads the row, checks the transition *)
(* against what it read, saves the status, on accept saves                 *)
(* contact_revealed in a second statement, and then enqueues the task.     *)
(* Requests served by different gunicorn workers interleave at each step.  *)
(***************************************************************************)
EXTENDS Naturals, FiniteSets

CONSTANTS Inquiries,           \* primary keys of inquiry rows
          Tutors,              \* tutor profiles an inquiry can be addressed to
          Requests,            \* requests that may be in progress at the same time
          BillingGateEnabled,  \* settings.BILLING_GATE_ENABLED
          AdminForms,          \* the admin-site forms in use: "add", "edit", "delete"
          RequestsCrash,       \* may a request die (or the broker refuse) half-way?
          MaxRetries,          \* BaseTaskWithRetry: retries after the first delivery (3)
          NoInquiry, NoTutor   \* placeholders in an idle request

ASSUME InquiriesAssumption ==
  /\ BillingGateEnabled \in BOOLEAN
  /\ RequestsCrash \in BOOLEAN
  /\ MaxRetries \in Nat
  /\ AdminForms \subseteq {"add", "edit", "delete"}
  /\ NoInquiry \notin Inquiries
  /\ NoTutor \notin Tutors

VARIABLES status,    \* [Inquiries -> status column, or "UNUSED" / "DELETED"]
          revealed,  \* [Inquiries -> contact_revealed column]
          tutor,     \* [Inquiries -> the tutor addressed]
          account,   \* [Tutors -> can the tutor be inquired, can the tutor answer]
          request,   \* [Requests -> what each request is about to do]
          queue,     \* [Tasks -> copies of the task waiting in the broker]
          written,   \* history: the <<inquiry, status>> pairs ever committed
          added      \* history: the inquiries created in the admin site

rows == <<status, revealed, tutor>>
history == <<written, added>>
vars == <<status, revealed, tutor, account, request, queue, written, added>>

-----------------------------------------------------------------------------
Statuses == {"PENDING", "ACCEPTED", "DECLINED", "CANCELLED"}

(* Mutations: what a plausible bug would make of an operation below.  No   *)
(* specification uses them; each breaks a property it is paired with.      *)

\* An answer may be taken back: ACCEPTED -> DECLINED.
AllowedSecondThoughts(s) ==
  CASE s = "PENDING"  -> {"ACCEPTED", "DECLINED", "CANCELLED"}
    [] s = "ACCEPTED" -> {"CANCELLED", "DECLINED"}
    [] OTHER          -> {}

\* _ALLOWED: the transitions services.transition accepts.
Allowed(s) ==
  CASE s = "PENDING"  -> {"ACCEPTED", "DECLINED", "CANCELLED"}
    [] s = "ACCEPTED" -> {"CANCELLED"}
    [] OTHER          -> {}

TutorSettable == {"ACCEPTED", "DECLINED"}

\* "open": active, public, can answer.  "closed": profile paused (or soft-deleted,
\* role not yet removed): no new inquiry, can still answer.  "gone": role removed or
\* user deactivated: neither.
Accounts == {"open", "closed", "gone"}

\* notify_inquiry_result ("result") and notify_admin_created_inquiry ("created"),
\* with the number of retries behind this delivery.
Task(kind, i, n) == [kind |-> kind, inquiry |-> i, retries |-> n]
Tasks == [kind : {"result", "created"}, inquiry : Inquiries, retries : 0..MaxRetries]

RequestState ==
  [pc      : {"idle", "insert", "save", "reveal", "notify", "notify_created"},
   inquiry : Inquiries \cup {NoInquiry},
   target  : Statuses \cup {"none"},
   tutor   : Tutors \cup {NoTutor}]

Idle == [pc |-> "idle", inquiry |-> NoInquiry, target |-> "none", tutor |-> NoTutor]
At(pc, i, s) == [pc |-> pc, inquiry |-> i, target |-> s, tutor |-> NoTutor]

Exists(i) == status[i] \in Statuses

Store(i, s) ==
  /\ status' = [status EXCEPT ![i] = s]
  /\ written' = written \cup {<<i, s>>}

Send(task) == queue' = [queue EXCEPT ![task] = @ + 1]

\* IsFamily and the family's queryset; IsTutor and the choices of
\* InquiryStatusUpdateSerializer.
MayAsk(i, s) ==
  \/ s = "CANCELLED"
  \/ s \in TutorSettable /\ account[tutor[i]] # "gone"

Init ==
  /\ status = [i \in Inquiries |-> "UNUSED"]
  /\ revealed = [i \in Inquiries |-> FALSE]
  /\ tutor = [i \in Inquiries |-> NoTutor]
  /\ account = [t \in Tutors |-> "open"]
  /\ request = [r \in Requests |-> Idle]
  /\ queue = [m \in Tasks |-> 0]
  /\ written = {}
  /\ added = {}

-----------------------------------------------------------------------------
(* Mutations of the actions below.                                         *)

\* The initial status of the documents' older state machine.
InsertInquiryNew(r, i) ==
  /\ request[r].pc = "insert"
  /\ status[i] = "UNUSED"
  /\ Store(i, "NEW")
  /\ tutor' = [tutor EXCEPT ![i] = request[r].tutor]
  /\ request' = [request EXCEPT ![r] = At("notify", i, "PENDING")]
  /\ UNCHANGED <<revealed, account, queue, added>>

\* update_or_create: a family that asks again reopens its earlier inquiry.
InsertInquiryUpsert(r, i) ==
  /\ request[r].pc = "insert"
  /\ status[i] # "DELETED"
  /\ Store(i, "PENDING")
  /\ tutor' = [tutor EXCEPT ![i] = request[r].tutor]
  /\ request' = [request EXCEPT ![r] = At("notify", i, "PENDING")]
  /\ UNCHANGED <<revealed, account, queue, added>>

\* The reveal is not limited to ACCEPTED.
SaveStatusRevealAlways(r) ==
  /\ request[r].pc = "save"
  /\ Exists(request[r].inquiry)
  /\ Store(request[r].inquiry, request[r].target)
  /\ request' = [request EXCEPT ![r].pc = IF BillingGateEnabled THEN "notify" ELSE "reveal"]
  /\ UNCHANGED <<revealed, tutor, account, queue, added>>

\* The reveal tests the gate the wrong way round.
SaveStatusGateInverted(r) ==
  /\ request[r].pc = "save"
  /\ Exists(request[r].inquiry)
  /\ Store(request[r].inquiry, request[r].target)
  /\ request' = [request EXCEPT ![r].pc =
                   IF request[r].target = "ACCEPTED" /\ BillingGateEnabled
                   THEN "reveal" ELSE "notify"]
  /\ UNCHANGED <<revealed, tutor, account, queue, added>>

\* transition returns after the save and notifies nobody.
SaveStatusSilent(r) ==
  /\ request[r].pc = "save"
  /\ Exists(request[r].inquiry)
  /\ Store(request[r].inquiry, request[r].target)
  /\ request' = [request EXCEPT ![r] = Idle]
  /\ UNCHANGED <<revealed, tutor, account, queue, added>>

-----------------------------------------------------------------------------
(* POST /inquiries/ : FamilyInquiryViewSet.create, services.create_inquiry *)

\* The tutor is loaded and found available.
StartCreate(r, t) ==
  /\ request[r] = Idle
  /\ account[t] = "open"
  /\ request' = [request EXCEPT ![r] = [Idle EXCEPT !.pc = "insert", !.tutor = t]]
  /\ UNCHANGED <<rows, account, queue, history>>

\* Inquiry.objects.create under a fresh UUID; availability is not looked at again.
InsertInquiry(r, i) ==
  /\ request[r].pc = "insert"
  /\ status[i] = "UNUSED"
  /\ Store(i, "PENDING")
  /\ tutor' = [tutor EXCEPT ![i] = request[r].tutor]
  /\ request' = [request EXCEPT ![r] = At("notify", i, "PENDING")]
  /\ UNCHANGED <<revealed, account, queue, added>>

-----------------------------------------------------------------------------
(* POST /inquiries/{id}/cancel/ by the family, PATCH /tutor/inquiries/{id}/ *)
(* by the tutor: both end in services.transition.                          *)

\* The row is read and the transition checked against the status just read.  (A
\* refused transition answers 409 and changes nothing.)
StartTransition(r, i, s) ==
  /\ request[r] = Idle
  /\ Exists(i)
  /\ MayAsk(i, s)
  /\ s \in Allowed(status[i])
  /\ request' = [request EXCEPT ![r] = At("save", i, s)]
  /\ UNCHANGED <<rows, account, queue, history>>

\* inquiry.save(update_fields=["status", ...]): written whatever the row holds by now.
SaveStatus(r) ==
  LET i == request[r].inquiry
      s == request[r].target
  IN /\ request[r].pc = "save"
     /\ Exists(i)
     /\ Store(i, s)
     /\ request' = [request EXCEPT ![r].pc =
                      IF s = "ACCEPTED" /\ ~BillingGateEnabled THEN "reveal" ELSE "notify"]
     /\ UNCHANGED <<revealed, tutor, account, queue, added>>

\* The second save, of contact_revealed only.
RevealContact(r) ==
  LET i == request[r].inquiry
  IN /\ request[r].pc = "reveal"
     /\ Exists(i)
     /\ revealed' = [revealed EXCEPT ![i] = TRUE]
     /\ request' = [request EXCEPT ![r].pc = "notify"]
     /\ UNCHANGED <<status, tutor, account, queue, history>>

\* save(update_fields) on a row that is gone raises DatabaseError: a 500.
SaveFails(r) ==
  /\ request[r].pc \in {"save", "reveal"}
  /\ ~Exists(request[r].inquiry)
  /\ request' = [request EXCEPT ![r] = Idle]
  /\ UNCHANGED <<rows, account, queue, history>>

\* notify_inquiry_result.delay, or the on_commit hook of the admin's add form.
Enqueue(r) ==
  LET i == request[r].inquiry
  IN /\ \/ request[r].pc = "notify" /\ Send(Task("result", i, 0))
        \/ request[r].pc = "notify_created" /\ Send(Task("created", i, 0))
     /\ request' = [request EXCEPT ![r] = Idle]
     /\ UNCHANGED <<rows, account, history>>

\* The worker process is killed, or .delay raises because the broker is down: what was
\* committed stays, the rest never happens.
RequestDies(r) ==
  /\ RequestsCrash
  /\ request[r] # Idle
  /\ request' = [request EXCEPT ![r] = Idle]
  /\ UNCHANGED <<rows, account, queue, history>>

-----------------------------------------------------------------------------
(* The admin site (InquiryAdmin): each form is one transaction.            *)

\* The add form, left at the model's defaults.
AdminAdd(r, i, t) ==
  /\ "add" \in AdminForms
  /\ request[r] = Idle
  /\ status[i] = "UNUSED"
  /\ Store(i, "PENDING")
  /\ tutor' = [tutor EXCEPT ![i] = t]
  /\ request' = [request EXCEPT ![r] = At("notify_created", i, "PENDING")]
  /\ added' = added \cup {i}
  /\ UNCHANGED <<revealed, account, queue>>

\* The change form posts every editable column; save_model notifies nobody.
AdminEdit(i, s, b, t) ==
  /\ "edit" \in AdminForms
  /\ Exists(i)
  /\ Store(i, s)
  /\ revealed' = [revealed EXCEPT ![i] = b]
  /\ tutor' = [tutor EXCEPT ![i] = t]
  /\ UNCHANGED <<account, request, queue, added>>

AdminDelete(i) ==
  /\ "delete" \in AdminForms
  /\ Exists(i)
  /\ status' = [status EXCEPT ![i] = "DELETED"]
  /\ UNCHANGED <<revealed, tutor, account, request, queue, history>>

-----------------------------------------------------------------------------
\* The tutor pauses or resumes the profile, or leaves for good (soft delete, role
\* revoked, user deactivated): other components' handlers, seen from here.
ChangeAccount(t, a) ==
  /\ account[t] # "gone"
  /\ account' = [account EXCEPT ![t] = a]
  /\ UNCHANGED <<rows, request, queue, history>>

RequestStep(r) ==
  \/ \E i \in Inquiries : InsertInquiry(r, i)
  \/ SaveStatus(r)
  \/ RevealContact(r)
  \/ SaveFails(r)
  \/ Enqueue(r)

UserStep ==
  \/ \E r \in Requests, t \in Tutors : StartCreate(r, t)
  \/ \E r \in Requests, i \in Inquiries, s \in Statuses : StartTransition(r, i, s)
  \/ \E r \in Requests, i \in Inquiries, t \in Tutors : AdminAdd(r, i, t)
  \/ \E i \in Inquiries, s \in Statuses, b \in BOOLEAN, t \in Tutors : AdminEdit(i, s, b, t)
  \/ \E i \in Inquiries : AdminDelete(i)
  \/ \E t \in Tutors, a \in Accounts : ChangeAccount(t, a)

Next ==
  \/ \E r \in Requests : RequestStep(r)
  \/ \E r \in Requests : RequestDies(r)
  \/ UserStep

Spec == Init /\ [][Next]_vars

-----------------------------------------------------------------------------
TypeOK ==
  /\ status \in [Inquiries -> Statuses \cup {"UNUSED", "DELETED"}]
  /\ revealed \in [Inquiries -> BOOLEAN]
  /\ tutor \in [Inquiries -> Tutors \cup {NoTutor}]
  /\ account \in [Tutors -> Accounts]
  /\ request \in [Requests -> RequestState]
  /\ queue \in [Tasks -> Nat]
  /\ written \subseteq Inquiries \X Statuses
  /\ added \subseteq Inquiries

(***************************************************************************)
(* The family's contact is revealed only behind an open gate, and only for *)
(* an inquiry some request accepted -- however many requests raced on it   *)
(* (services.transition, the second save).                                 *)
(***************************************************************************)
RevealedWasAccepted ==
  "edit" \notin AdminForms =>
    \A i \in Inquiries :
      revealed[i] => ~BillingGateEnabled /\ <<i, "ACCEPTED">> \in written

(***************************************************************************)
(* With the gate off, an accepted inquiry has its contact revealed, unless *)
(* the request that accepted it (or one that raced with it) is still on    *)
(* its way to the second save.  Only a crash between the two saves, or the *)
(* admin's change form, leaves an accepted inquiry hidden.                 *)
(***************************************************************************)
AcceptedGetsRevealed ==
  ~RequestsCrash /\ ~BillingGateEnabled /\ "edit" \notin AdminForms =>
    \A i \in Inquiries :
      status[i] = "ACCEPTED" =>
        \/ revealed[i]
        \/ \E r \in Requests : request[r].pc = "reveal" /\ request[r].inquiry = i

(***************************************************************************)
(* No interleaving of requests makes an answered or cancelled inquiry      *)
(* pending again, so no stale request can reopen it for a second answer    *)
(* after every request that read it pending is done.                       *)
(***************************************************************************)
NeverPendingAgain ==
  [][\A i \in Inquiries :
       "edit" \notin AdminForms /\ status[i] # "UNUSED" /\ status[i] # "PENDING"
         => status'[i] # "PENDING"]_vars

(***************************************************************************)
(* With one request at a time and no admin change form, the rows behave as *)
(* the atomic state machine InquiryLifecycle.                              *)
(***************************************************************************)
OneAtATime == \A r1, r2 \in Requests : r1 = r2

Lifecycle == INSTANCE InquiryLifecycle
ImplementsLifecycle == Lifecycle!Spec
DeclinedStaysHidden == Lifecycle!DeclinedStaysHidden

=============================================================================
