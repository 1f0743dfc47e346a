------------------------------ MODULE Listings ------------------------------
(***************************************************************************)
(* One listing of the catalogue between its owner, the moderators, the     *)
(* clock and the public list (apps/catalog: admin.py, services.py,         *)
(* views.py; apps/providers/views.py; apps/notifications/tasks.py).        *)
(* A request is a sequence of database statements: most handlers load the  *)
(* whole row and later save a copy of it, the bulk expiry and the          *)
(* moderators' actions write single columns.  No operation relates two     *)
(* listings, so one row stands for all.  Its texts, prices and categories  *)
(* are one value, content, renewed by every edit.                          *)
(***************************************************************************)
EXTENDS Integers, FiniteSets

CONSTANTS
  Editors,        \* requests that can be under way at the same time
  Comments,       \* what moderators give as reasons
  NoComment,
  ReviewWorkers,  \* Celery workers running notify_review_result
  MaxContent,     \* bound: contents an owner or an admin form can write
  MaxTime,        \* bound: hours the clock runs
  MaxTold         \* bound: review tasks of one kind in the queue

ASSUME ListingsAssumption ==
  /\ NoComment \notin Comments
  /\ MaxContent \in Nat \ {0} /\ MaxTime \in Nat /\ MaxTold \in Nat

VARIABLES
  listing,        \* the row; life tells a new id from a row and from a deleted one
  editor,         \* [Editors -> what the request has read and does next]
  hour,           \* the clock
  reviewQueue,    \* [Reasons -> Nat], the tasks notify_review_result waiting
  reviewer,       \* [ReviewWorkers -> the task at work and what it read of the row]
  shown,          \* history: contents a moderator has had on the screen
  decision,       \* history: the decision taken by an action and in force, or NoNews
  told,           \* history: the owner was told of that decision
  overtaken       \* history: a request has written after its reading was out of date

listingVars == <<listing, editor, hour, reviewQueue, reviewer, shown, decision, told, overtaken>>

ListingStatus == {"DRAFT", "PENDING", "ACTIVE", "REJECTED"}
MutableForApprove == {"DRAFT", "PENDING"}
MutableForReject == {"DRAFT", "PENDING", "ACTIVE"}
Reasons == Comments \cup {NoComment}
Contents == 1..MaxContent
\* The last hour is never due: events without a date and far ones.
Starts == 1..MaxTime + 1

ListingRows == [life: {"new", "live", "gone"}, owned: BOOLEAN, status: ListingStatus,
                reason: Reasons, content: Contents, starts: Starts]
News == [status: {"ACTIVE", "REJECTED", "none"}, reason: Reasons]
NoNews == [status |-> "none", reason |-> NoComment]
ReviewJobs == [task: Reasons, news: News]
NoJob == [task |-> NoComment, news |-> NoNews]
EditorSteps == {"idle", "patch", "delete", "screen", "form", "approve", "reject", "feature",
                "announce", "select"}
EditorStates == [step: EditorSteps, copy: ListingRows, reason: Reasons, began: 0..MaxTime, stale: BOOLEAN]

NewRow == [life |-> "new", owned |-> TRUE, status |-> "DRAFT", reason |-> NoComment,
           content |-> 1, starts |-> MaxTime + 1]
EditorIdle == [step |-> "idle", copy |-> NewRow, reason |-> NoComment, began |-> 0, stale |-> FALSE]

ListingsInit ==
  /\ listing = NewRow
  /\ editor = [r \in Editors |-> EditorIdle]
  /\ hour = 0
  /\ reviewQueue = [c \in Reasons |-> 0]
  /\ reviewer = [w \in ReviewWorkers |-> NoJob]
  /\ shown = {}
  /\ decision = NoNews
  /\ told = FALSE
  /\ overtaken = FALSE

(***************************************************************************)
(* What a request does with the row.                                       *)
(***************************************************************************)
\* Mutation: an hour late.
DueLate(row, now) == row.starts + 1 < now

\* draft_expired_one_time_masterclasses counts from one hour after the start.
Due(row, now) == row.starts + 1 <= now

\* Request r goes on to step s; everybody else's reading is out of date once the row changed.
Proceed(r, state, changed) ==
  editor' = [e \in Editors |->
    IF e = r THEN state
    ELSE IF changed /\ editor[e].step \notin {"idle", "delete", "announce"} THEN [editor[e] EXCEPT !.stale = TRUE]
    ELSE editor[e]]

\* A first read: the request keeps what it will use of the row.
Opened(s, copy) == [EditorIdle EXCEPT !.step = s, !.copy = copy]

\* A decision stays in force while the row has its status, its reason and an owner.
InForce(row, news) ==
  /\ row.life = "live" /\ row.owned /\ row.status = news.status
  /\ row.status = "REJECTED" => row.reason = news.reason

\* Request r saves row, whatever has happened to the row since it was read, and ends.
Save(r, row) ==
  /\ listing' = row
  /\ Proceed(r, EditorIdle, TRUE)
  /\ overtaken' = (overtaken \/ editor[r].stale)
  /\ decision' = IF InForce(row, decision) THEN decision ELSE NoNews
  /\ told' = (told /\ InForce(row, decision))
  /\ UNCHANGED <<hour, reviewQueue, reviewer>>

ReadOnly == UNCHANGED <<listing, hour, reviewQueue, reviewer, decision, told, overtaken>>

(***************************************************************************)
(* The owner, through ProviderListingViewSet.                              *)
(***************************************************************************)
\* The status of every write of an owner: ?status= asks, the account's flag decides.
Resolved(wanted, verified) == IF verified /\ wanted # "DRAFT" THEN "PENDING" ELSE "DRAFT"

\* The serializer refuses dates that are past.
MayStart(s) == s > hour

\* Mutation: the client chooses the id, also one that was used before.
CreateListingReusedId(r) ==
  /\ editor[r].step = "idle"
  /\ listing.life \in {"new", "gone"}
  /\ listing' = [NewRow EXCEPT !.life = "live"]
  /\ Proceed(r, EditorIdle, TRUE)
  /\ UNCHANGED <<hour, reviewQueue, reviewer, shown, decision, told, overtaken>>

CreateListing(r) ==
  /\ editor[r].step = "idle"
  /\ listing.life = "new"
  /\ \E wanted \in {"DRAFT", "PENDING"}, verified \in BOOLEAN, s \in Starts :
       /\ MayStart(s)
       /\ listing' = [NewRow EXCEPT !.life = "live", !.status = Resolved(wanted, verified), !.starts = s]
  /\ Proceed(r, EditorIdle, TRUE)
  /\ UNCHANGED <<hour, reviewQueue, reviewer, shown, decision, told, overtaken>>

StartPatch(r) ==
  /\ editor[r].step = "idle"
  /\ listing.life = "live" /\ listing.owned
  /\ Proceed(r, Opened("patch", [listing EXCEPT !.status = "DRAFT", !.content = 1]), FALSE)
  /\ UNCHANGED shown /\ ReadOnly

\* A full save of the copy with the submitted fields: new content, a new date or the old one
\* (dates are looked at only when an event field is submitted).
SavePatch(r) ==
  /\ editor[r].step = "patch"
  /\ \E wanted \in {"DRAFT", "PENDING"}, verified \in BOOLEAN, s \in Starts :
       LET copy == editor[r].copy IN
       /\ MayStart(s) \/ s = copy.starts
       /\ listing.content < MaxContent
       /\ Save(r, [copy EXCEPT !.status = Resolved(wanted, verified),
                               !.content = listing.content + 1, !.starts = s])
  /\ UNCHANGED shown

StartDeleteListing(r) ==
  /\ editor[r].step = "idle"
  /\ listing.life = "live"
  /\ Proceed(r, Opened("delete", NewRow), FALSE)
  /\ UNCHANGED shown /\ ReadOnly

\* delete_listing; deleting a row that is gone deletes nothing.  Rows with reviews or
\* subscriptions are PROTECTed: GiveUp.
DeleteListing(r) ==
  /\ editor[r].step = "delete"
  /\ listing' = [listing EXCEPT !.life = "gone"]
  /\ Proceed(r, EditorIdle, TRUE)
  /\ decision' = NoNews /\ told' = FALSE
  /\ UNCHANGED <<hour, reviewQueue, reviewer, shown, overtaken>>

(***************************************************************************)
(* The moderators, in the admin site.                                      *)
(***************************************************************************)
\* The add form takes any status.
AddListing(r) ==
  /\ editor[r].step = "idle"
  /\ listing.life = "new"
  /\ \E st \in ListingStatus, s \in Starts, o \in BOOLEAN :
       listing' = [NewRow EXCEPT !.life = "live", !.owned = o, !.status = st, !.starts = s]
  /\ shown' = shown \cup {1}
  /\ Proceed(r, EditorIdle, TRUE)
  /\ UNCHANGED <<hour, reviewQueue, reviewer, decision, told, overtaken>>

\* The changelist, the rejection page or the change form with the row on it.
OpenScreen(r) ==
  /\ editor[r].step = "idle"
  /\ listing.life = "live"
  /\ Proceed(r, Opened("screen", [NewRow EXCEPT !.life = "live", !.content = listing.content]), FALSE)
  /\ shown' = shown \cup {listing.content}
  /\ ReadOnly

\* approve_listings and reject_listings load the eligible rows of the selection ...
LoadSelected(r) ==
  /\ editor[r].step = "screen"
  /\ listing.life = "live"
  /\ \/ /\ listing.status \in MutableForApprove
        /\ Proceed(r, [editor[r] EXCEPT !.step = "approve", !.copy = NewRow], FALSE)
     \/ /\ listing.status \in MutableForReject
        /\ \E c \in Comments : Proceed(r, [editor[r] EXCEPT !.step = "reject", !.copy = NewRow, !.reason = c], FALSE)
  /\ UNCHANGED shown /\ ReadOnly

\* ... and save single columns one by one, each followed by its notification.
Decide(r, news, row) ==
  /\ listing.life = "live"
  /\ listing' = row
  /\ Proceed(r, [editor[r] EXCEPT !.step = "announce", !.stale = FALSE], TRUE)
  /\ overtaken' = (overtaken \/ editor[r].stale)
  /\ decision' = IF row.owned THEN news ELSE NoNews
  /\ told' = FALSE
  /\ UNCHANGED <<hour, reviewQueue, reviewer, shown>>

SaveApproved(r) ==
  /\ editor[r].step = "approve"
  /\ Decide(r, [status |-> "ACTIVE", reason |-> NoComment], [listing EXCEPT !.status = "ACTIVE"])

SaveRejected(r) ==
  /\ editor[r].step = "reject"
  /\ Decide(r, [status |-> "REJECTED", reason |-> editor[r].reason],
            [listing EXCEPT !.status = "REJECTED", !.reason = editor[r].reason])

Announce(r) ==
  /\ editor[r].step = "announce"
  /\ reviewQueue[editor[r].reason] < MaxTold
  /\ reviewQueue' = [reviewQueue EXCEPT ![editor[r].reason] = @ + 1]
  /\ Proceed(r, EditorIdle, FALSE)
  /\ UNCHANGED <<listing, hour, reviewer, shown, decision, told, overtaken>>

\* The change form posts what the screen showed; the reason is no field of it and comes from
\* the row loaded now.
LoadForm(r) ==
  /\ editor[r].step = "screen"
  /\ listing.life = "live"
  /\ Proceed(r, [editor[r] EXCEPT !.step = "form", !.copy = [@ EXCEPT !.reason = listing.reason]], FALSE)
  /\ UNCHANGED shown /\ ReadOnly

SaveForm(r) ==
  /\ editor[r].step = "form"
  /\ \E st \in ListingStatus, s \in Starts, o \in BOOLEAN, edits \in BOOLEAN :
       LET copy == editor[r].copy
           content == IF edits THEN listing.content + 1 ELSE copy.content
       IN
       /\ content \in Contents
       /\ Save(r, [copy EXCEPT !.status = st, !.starts = s, !.owned = o, !.content = content])
       /\ shown' = shown \cup {content}

\* is_featured edited in the changelist: the row is loaded and saved whole.
LoadFeature(r) ==
  /\ editor[r].step = "screen"
  /\ listing.life = "live"
  /\ Proceed(r, [editor[r] EXCEPT !.step = "feature", !.copy = listing], FALSE)
  /\ UNCHANGED shown /\ ReadOnly

SaveFeature(r) ==
  /\ editor[r].step = "feature"
  /\ Save(r, editor[r].copy)
  /\ UNCHANGED shown

(***************************************************************************)
(* The public list: ListingViewSet.list drafts what is over, then selects. *)
(***************************************************************************)
ExpireListings(r) ==
  /\ editor[r].step = "idle"
  /\ LET over == listing.life = "live" /\ Due(listing, hour) /\ listing.status \in {"ACTIVE", "PENDING"} IN
     /\ listing' = IF over THEN [listing EXCEPT !.status = "DRAFT"] ELSE listing
     /\ Proceed(r, [EditorIdle EXCEPT !.step = "select", !.began = hour], over)
     /\ decision' = IF over THEN NoNews ELSE decision
     /\ told' = (told /\ ~over)
  /\ UNCHANGED <<hour, reviewQueue, reviewer, shown, overtaken>>

Selected == listing.life = "live" /\ listing.status = "ACTIVE"

SelectActive(r) ==
  /\ editor[r].step = "select"
  /\ Selected
  /\ Proceed(r, EditorIdle, FALSE)
  /\ UNCHANGED shown /\ ReadOnly

(***************************************************************************)
(* notify_review_result reads the row when it runs.  A push that fails     *)
(* after the feed row is written has the task run again.                   *)
(***************************************************************************)
\* Mutation: a decision without a comment is not worth a message.
ReadDecisionWithReason(w, c) ==
  /\ reviewer[w] = NoJob
  /\ reviewQueue[c] > 0
  /\ reviewQueue' = [reviewQueue EXCEPT ![c] = @ - 1]
  /\ reviewer' = IF listing.status = "REJECTED" /\ c # NoComment
                  THEN [reviewer EXCEPT ![w] = [task |-> c, news |-> [status |-> "REJECTED", reason |-> c]]]
                  ELSE reviewer
  /\ UNCHANGED <<listing, editor, hour, shown, decision, told, overtaken>>

ReadDecision(w, c) ==
  /\ reviewer[w] = NoJob
  /\ reviewQueue[c] > 0
  /\ reviewQueue' = [reviewQueue EXCEPT ![c] = @ - 1]
  /\ reviewer' = IF listing.life = "live" /\ listing.owned /\ listing.status \in {"ACTIVE", "REJECTED"}
                  THEN [reviewer EXCEPT ![w] = [task |-> c, news |->
                         [status |-> listing.status,
                          reason |-> IF listing.status = "REJECTED" THEN c ELSE NoComment]]]
                  ELSE reviewer
  /\ UNCHANGED <<listing, editor, hour, shown, decision, told, overtaken>>

TellOwner(w) ==
  /\ reviewer[w] # NoJob
  /\ told' = (told \/ reviewer[w].news = decision)
  /\ \/ UNCHANGED reviewQueue
     \/ /\ reviewQueue[reviewer[w].task] < MaxTold
        /\ reviewQueue' = [reviewQueue EXCEPT ![reviewer[w].task] = @ + 1]
  /\ reviewer' = [reviewer EXCEPT ![w] = NoJob]
  /\ UNCHANGED <<listing, editor, hour, shown, decision, overtaken>>

(***************************************************************************)
(* Time, answers without a write, and killed processes.                    *)
(***************************************************************************)
HourPasses ==
  /\ hour < MaxTime
  /\ hour' = hour + 1
  /\ UNCHANGED <<listing, editor, reviewQueue, reviewer, shown, decision, told, overtaken>>

\* A page without the row, a closed screen, a selection of no eligible row, a 400, 404 or ProtectedError.  A notification
\* once due is not skipped; it is lost only with the process.
GiveUp(r) ==
  /\ editor[r].step \notin {"idle", "announce"}
  /\ Proceed(r, EditorIdle, FALSE)
  /\ UNCHANGED shown /\ ReadOnly

\* A message that dies with its process is owed no more.
EditorDies(r) ==
  /\ editor[r].step = "announce"
  /\ Proceed(r, EditorIdle, FALSE)
  /\ decision' = NoNews /\ told' = FALSE
  /\ UNCHANGED <<listing, hour, reviewQueue, reviewer, shown, overtaken>>

ReviewerDies(w) ==
  /\ reviewer[w] # NoJob
  /\ reviewer' = [reviewer EXCEPT ![w] = NoJob]
  /\ decision' = NoNews /\ told' = FALSE
  /\ UNCHANGED <<listing, editor, hour, reviewQueue, shown, overtaken>>

OwnerStep(r) == CreateListing(r) \/ StartPatch(r) \/ SavePatch(r)
DeleteStep(r) == StartDeleteListing(r) \/ DeleteListing(r)
ModeratorStep(r) ==
  \/ AddListing(r) \/ OpenScreen(r) \/ LoadSelected(r) \/ SaveApproved(r) \/ SaveRejected(r)
  \/ Announce(r) \/ LoadForm(r) \/ SaveForm(r) \/ LoadFeature(r) \/ SaveFeature(r)
VisitorStep(r) == ExpireListings(r) \/ SelectActive(r)
ReviewerStep(w) == (\E c \in Reasons : ReadDecision(w, c)) \/ TellOwner(w) \/ ReviewerDies(w)

ListingsNext ==
  \/ \E r \in Editors : OwnerStep(r) \/ DeleteStep(r) \/ ModeratorStep(r) \/ VisitorStep(r)
                        \/ GiveUp(r) \/ EditorDies(r)
  \/ \E w \in ReviewWorkers : ReviewerStep(w)
  \/ HourPasses

ListingsSpec == ListingsInit /\ [][ListingsNext]_listingVars

(***************************************************************************)
(* Properties.                                                             *)
(***************************************************************************)
\* The row, the requests, the queue and the histories are well-formed.
ListingsTypeOK ==
  /\ listing \in ListingRows
  /\ editor \in [Editors -> EditorStates]
  /\ hour \in 0..MaxTime
  /\ reviewQueue \in [Reasons -> 0..MaxTold]
  /\ reviewer \in [ReviewWorkers -> ReviewJobs]
  /\ shown \subseteq Contents
  /\ decision \in News
  /\ told \in BOOLEAN /\ overtaken \in BOOLEAN

\* The texts, prices and categories that are public were on a moderator's screen as they are: an
\* owner's edit of them takes the listing off the catalogue (perform_update), and only a save of an
\* outdated reading, or a decision on an outdated screen, can publish what nobody has seen.
\* Images are not among them: ListingImageView adds one to a listing that stays ACTIVE.
ActiveWasShown ==
  listing.life = "live" /\ listing.status = "ACTIVE" /\ ~overtaken => listing.content \in shown

\* A deleted listing comes back only as the full save of a copy read before the deletion
\* (save_model, perform_update); the moderators' single-column saves never insert it.
OnlyRacesReviveListings ==
  [][listing.life = "gone" /\ listing'.life = "live" => overtaken']_listingVars

\* When nothing is left to do, the owner has been told of the decision in force, with its
\* reason, however many decisions, edits and retries went before: notify_review_result reads
\* the row when it runs.  (A message lost with a killed process is owed no more.)
DecisionInForceTold ==
  /\ decision # NoNews
  /\ \A c \in Reasons : reviewQueue[c] = 0
  /\ \A w \in ReviewWorkers : reviewer[w] = NoJob
  /\ \A r \in Editors : editor[r].step # "announce"
  => told

\* What moderation promises of every state.
ModerationSound ==
  /\ ListingsTypeOK
  /\ ActiveWasShown
  /\ DecisionInForceTold

\* A page of the public list holds no event that was over when the page was asked for, unless
\* somebody changed the row between the two statements of the handler.
PageFresh ==
  [][\A r \in Editors :
      SelectActive(r) /\ listing.starts < editor[r].began => editor[r].stale]_listingVars
=============================================================================
