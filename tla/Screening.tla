------------------------------ MODULE Screening ------------------------------
(***************************************************************************)
(* Advisory screening of the CV of one masterclass application             *)
(* (apps/providers/tasks.py, ai_screening.py, views.py, admin.py).  A      *)
(* request commits the CV, then a screening row, then a task; a worker     *)
(* takes the task, marks the row, asks the AI service, and saves the       *)
(* answer.  Requests and workers die, and the broker delivers a reserved   *)
(* task again.                                                             *)
(***************************************************************************)
EXTENDS Integers

CONSTANTS
  Askers,          \* requests that can be under way at the same time
  Screeners,       \* workers
  MaxCvs,          \* bound: CVs handed in
  MaxScreenings,   \* bound: screening rows
  MaxDeliveries    \* bound: deliveries of a task that are waiting at the same time

ASSUME ScreeningAssumption == MaxCvs \in Nat /\ MaxScreenings \in Nat /\ MaxDeliveries \in Nat \ {0}

VARIABLES
  cv,              \* the CV of the application (they are numbered); 0: none yet
  asker,           \* [Askers -> next step of the request and its row]
  screening,       \* [Screenings -> row]
  issued,         \* rows created so far; their ids are 1..issued
  tasks,           \* [Screenings -> deliveries waiting at the broker]
  screener,        \* [Screeners -> what the worker has read and does next]
  calls,           \* history: [Screenings -> calls of the AI service, 2 standing for more]
  lost,            \* history: rows whose request or worker has died
  unasked,         \* history: a request died before it issued its row
  doubled          \* history: rows two deliveries of which were found QUEUED

screeningVars == <<cv, asker, screening, issued, tasks, screener, calls, lost, unasked, doubled>>

Screenings == 1..MaxScreenings
Cvs == 0..MaxCvs
OpenStatuses == {"QUEUED", "PROCESSING"}
ClosedStatuses == {"VERDICT", "FAILED"}    \* VERDICT: one of the three recommendations
ScreeningRows == [status: {"none"} \cup OpenStatuses \cup ClosedStatuses, of: Cvs]
NoScreening == [status |-> "none", of |-> 0]
AskerStates == [step: {"idle", "create", "delay"}, row: 0..MaxScreenings]
NoAsker == [step |-> "idle", row |-> 0]
ScreenerStates == [step: {"idle", "mark", "call", "save"}, row: 0..MaxScreenings, of: Cvs,
                   status: {"QUEUED"} \cup ClosedStatuses]
NoScreener == [step |-> "idle", row |-> 0, of |-> 0, status |-> "QUEUED"]

ScreeningInit ==
  /\ cv = 0 /\ issued = 0
  /\ asker = [a \in Askers |-> NoAsker]
  /\ screening = [i \in Screenings |-> NoScreening]
  /\ tasks = [i \in Screenings |-> 0]
  /\ screener = [w \in Screeners |-> NoScreener]
  /\ calls = [i \in Screenings |-> 0]
  /\ lost = {} /\ unasked = FALSE /\ doubled = {}

(***************************************************************************)
(* Requests.                                                               *)
(***************************************************************************)
\* VerificationStatusView.post: the application, new or again, is saved with its CV.
HandIn(a) ==
  /\ asker[a].step = "idle" /\ cv < MaxCvs
  /\ cv' = cv + 1
  /\ asker' = [asker EXCEPT ![a].step = "create"]
  /\ UNCHANGED <<screening, issued, tasks, screener, calls, lost, unasked, doubled>>

\* The admin's action, on applications that have a CV.
ScreenAgain(a) ==
  /\ asker[a].step = "idle" /\ cv # 0
  /\ asker' = [asker EXCEPT ![a].step = "create"]
  /\ UNCHANGED <<cv, screening, issued, tasks, screener, calls, lost, unasked, doubled>>

\* queue_cv_screening: the row ...
CreateScreening(a) ==
  /\ asker[a].step = "create" /\ issued < MaxScreenings
  /\ issued' = issued + 1
  /\ screening' = [screening EXCEPT ![issued + 1].status = "QUEUED"]
  /\ asker' = [asker EXCEPT ![a] = [step |-> "delay", row |-> issued + 1]]
  /\ UNCHANGED <<cv, tasks, screener, calls, lost, unasked, doubled>>

\* ... and its task.
DelayScreening(a) ==
  /\ asker[a].step = "delay"
  /\ tasks' = [tasks EXCEPT ![asker[a].row] = @ + 1]
  /\ asker' = [asker EXCEPT ![a] = NoAsker]
  /\ UNCHANGED <<cv, screening, issued, screener, calls, lost, unasked, doubled>>

\* The process dies, or the broker cannot be reached.
AskerDies(a) ==
  /\ asker[a].step # "idle"
  /\ asker' = [asker EXCEPT ![a] = NoAsker]
  /\ IF asker[a].step = "delay" THEN lost' = lost \cup {asker[a].row} /\ UNCHANGED unasked
     ELSE unasked' = TRUE /\ UNCHANGED lost
  /\ UNCHANGED <<cv, screening, issued, tasks, screener, calls, doubled>>

(***************************************************************************)
(* screen_provider_cv                                                      *)
(***************************************************************************)
\* The broker delivers a waiting task twice; to bound the instance, while no other one waits.
Redeliver(i) ==
  /\ tasks[i] \in 1..(MaxDeliveries - 1)
  /\ \A j \in Screenings \ {i} : tasks[j] = 0
  /\ tasks' = [tasks EXCEPT ![i] = @ + 1]
  /\ UNCHANGED <<cv, asker, screening, issued, screener, calls, lost, unasked, doubled>>

ToScreen(i) == screening[i].status = "QUEUED"

Busy(i) == \E w \in Screeners : screener[w].row = i

\* The row is read, together with the CV the application has by now.
TakeScreening(w, i) ==
  /\ screener[w].step = "idle" /\ tasks[i] > 0
  /\ tasks' = [tasks EXCEPT ![i] = @ - 1]
  /\ IF ToScreen(i)
     THEN /\ screener' = [screener EXCEPT ![w] = [step |-> "mark", row |-> i, of |-> cv, status |-> "QUEUED"]]
          /\ doubled' = IF Busy(i) /\ screening[i].status = "QUEUED" THEN doubled \cup {i} ELSE doubled
     ELSE UNCHANGED <<screener, doubled>>
  /\ UNCHANGED <<cv, asker, screening, issued, calls, lost, unasked>>

MarkProcessing(w) ==
  /\ screener[w].step = "mark"
  /\ screening' = [screening EXCEPT ![screener[w].row].status = "PROCESSING"]
  /\ screener' = [screener EXCEPT ![w].step = "call"]
  /\ UNCHANGED <<cv, asker, issued, tasks, calls, lost, unasked, doubled>>

\* Mutation: an exception ends the task.
AfterCallUncaught(w, status) ==
  IF status = "FAILED" THEN NoScreener
  ELSE [screener[w] EXCEPT !.step = "save", !.status = status]

AfterCall(w, status) == [screener[w] EXCEPT !.step = "save", !.status = status]

\* The service answers, or anything raises: both end in the finally clause.
CallService(w) ==
  /\ screener[w].step = "call"
  /\ \E status \in ClosedStatuses : screener' = [screener EXCEPT ![w] = AfterCall(w, status)]
  /\ calls' = [calls EXCEPT ![screener[w].row] = IF @ < 2 THEN @ + 1 ELSE @]
  /\ UNCHANGED <<cv, asker, screening, issued, tasks, lost, unasked, doubled>>

\* The whole row.
SaveScreening(w) ==
  /\ screener[w].step = "save"
  /\ screening' = [screening EXCEPT ![screener[w].row] =
       [status |-> screener[w].status, of |-> IF screener[w].status = "VERDICT" THEN screener[w].of ELSE 0]]
  /\ screener' = [screener EXCEPT ![w] = NoScreener]
  /\ UNCHANGED <<cv, asker, issued, tasks, calls, lost, unasked, doubled>>

\* The worker is killed, or the save fails; the task is not delivered again.
ScreenerDies(w) ==
  /\ screener[w].step # "idle"
  /\ lost' = lost \cup {screener[w].row}
  /\ screener' = [screener EXCEPT ![w] = NoScreener]
  /\ UNCHANGED <<cv, asker, screening, issued, tasks, calls, unasked, doubled>>

ScreeningNext ==
  \/ \E a \in Askers :
       HandIn(a) \/ ScreenAgain(a) \/ CreateScreening(a) \/ DelayScreening(a) \/ AskerDies(a)
  \/ \E i \in Screenings : Redeliver(i)
  \/ \E w \in Screeners :
       \/ \E i \in Screenings : TakeScreening(w, i)
       \/ MarkProcessing(w) \/ CallService(w) \/ SaveScreening(w) \/ ScreenerDies(w)

ScreeningSpec == ScreeningInit /\ [][ScreeningNext]_screeningVars

(***************************************************************************)
(* What reviewer and provider are shown.                                   *)
(***************************************************************************)
\* ai_screenings.first(): the newest.
Shown == issued

(***************************************************************************)
(* Properties.                                                             *)
(***************************************************************************)
\* Rows, requests, tasks and workers are well-formed.
ScreeningTypeOK ==
  /\ cv \in Cvs /\ issued \in 0..MaxScreenings
  /\ asker \in [Askers -> AskerStates]
  /\ screening \in [Screenings -> ScreeningRows]
  /\ \A i \in Screenings : screening[i].status = "none" <=> i > issued
  /\ tasks \in [Screenings -> 0..MaxDeliveries]
  /\ screener \in [Screeners -> ScreenerStates]
  /\ calls \in [Screenings -> 0..2]
  /\ lost \subseteq Screenings /\ unasked \in BOOLEAN /\ doubled \subseteq Screenings

\* A CV is sent to the service once for each screening, however often the task is delivered,
\* unless two deliveries found the row QUEUED.
ScreenedOnce == \A i \in Screenings : calls[i] > 1 => i \in doubled

\* A screening that is neither answered nor failed is still being worked on, or a process that
\* had it in hand has died: nothing else leaves a row QUEUED or PROCESSING for ever.
OpenIsUnderWay ==
  \A i \in Screenings : screening[i].status \in OpenStatuses =>
    \/ tasks[i] > 0 \/ Busy(i) \/ \E a \in Askers : asker[a].row = i
    \/ i \in lost

\* The verdict shown is about the CV that the application has, unless the request that handed
\* in another one is about to create its screening or died before it did.
ShownVerdictIsCurrent ==
  issued > 0 /\ screening[Shown].status = "VERDICT" =>
    \/ screening[Shown].of = cv
    \/ \E a \in Askers : asker[a].step = "create"
    \/ unasked

\* What the screening of a CV promises of every state.
ScreeningSound ==
  /\ ScreeningTypeOK
  /\ ScreenedOnce
  /\ OpenIsUnderWay
  /\ ShownVerdictIsCurrent
=============================================================================
