------------------------------- MODULE Reviews -------------------------------
(***************************************************************************)
(* Reviews of one listing or tutor and the rating it shows: the review     *)
(* rows, the denormalised rating and review_count columns, the requests    *)
(* that write them and the post_save and post_delete signals that          *)
(* recompute them (apps/reviews).  Review and TutorReview are the same     *)
(* code twice; only the engagement gate differs.                           *)
(*                                                                         *)
(* A POST or PATCH commits the row, then the signal aggregates the rows,   *)
(* then saves the columns: three statements, each on its own.  A delete    *)
(* and the admin's forms run in one transaction: the row is locked at      *)
(* once, but others see the change only when the columns are saved too.    *)
(***************************************************************************)
EXTENDS Naturals, FiniteSets, FiniteSetsExt

CONSTANTS Authors,   \* families; one review each (unique_review_per_listing_author)
          Ids,       \* primary keys of reviews
          Ratings,   \* the ratings families give, within 1..5
          Requests,  \* requests, and pages of the admin site, open at the same time
          Gated,     \* is there an engagement gate (tutors, TUTORING, MASTERCLASSES)?
          RequestsCrash,  \* may a request die half-way?
          Typed,     \* rating and count pairs that seed_catalog or the admin form put in
          NoId, NoAuthor  \* placeholders

ASSUME ReviewsAssumption ==
  /\ Ratings \subseteq 1..5
  /\ Gated \in BOOLEAN /\ RequestsCrash \in BOOLEAN 
  /\ Typed \subseteq [rating : Nat, count : Nat]
  /\ NoId \notin Ids /\ NoAuthor \notin Authors

VARIABLES review,     \* [Authors -> the committed row, or NoReview]
          shown,      \* the rating and review_count columns of the listing or tutor
          listed,     \* is it ACTIVE (a listing), not deleted (a tutor)?
          engaged,    \* authors with an accepted inquiry or a subscription
          reports,    \* [Authors -> who reported the author's review]
          job,        \* [Requests -> what each request is about to do]
          met,        \* history: authors ever engaged
          deleted,    \* history: primary keys of deleted reviews
          crossed,    \* requests in progress that ran beside another one
          disturbed   \* history: has there been an overlap, a death or a rating put in since a
                      \* recompute that ran alone?

vars == <<review, shown, listed, engaged, reports, job, met, deleted, crossed, disturbed>>
history == <<met, deleted>>

-----------------------------------------------------------------------------
NoReview == [id |-> NoId, rating |-> 0]
Rows == [id : Ids, rating : Ratings]

\* round(avg, 1) of a sum over n ratings, in tenths; a tie goes to the even digit (with 20
\* ratings or more the binary value of the average may decide a tie otherwise).
Tenths(sum, n) ==
  LET q == (10 * sum) \div n
      rest == 2 * ((10 * sum) % n)
  IN IF rest < n \/ (rest = n /\ q % 2 = 0) THEN q ELSE q + 1

\* aggregate(avg=Avg("rating"), count=Count("id")): given[a] is a's rating, 0 for none.
Aggregate(given) ==
  LET by == {a \in Authors : given[a] # 0}
  IN IF by = {} THEN [rating |-> 0, count |-> 0]
     ELSE [rating |-> Tenths(MapThenSumSet(LAMBDA a : given[a], by), Cardinality(by)),
           count |-> Cardinality(by)]

\* What the columns may hold: the aggregate of some reviews, or what was put in.
Columns == {Aggregate(given) : given \in [Authors -> Ratings \cup {0}]} \cup Typed

Given(rows) == [a \in Authors |-> rows[a].rating]

\* The request's copy of a review, the transaction it holds on it, and the aggregate.
Job == [pc     : {"idle", "insert", "save", "delete", "aggregate", "store", "edit"},
        author : Authors \cup {NoAuthor},
        row    : [id : Ids \cup {NoId}, rating : Ratings \cup {0}],
        atomic : BOOLEAN,  \* does the request run in one transaction?
        holds  : BOOLEAN,  \* is row written but not committed?
        sums   : Columns]

Nothing == Aggregate([a \in Authors |-> 0])

Idle == [pc |-> "idle", author |-> NoAuthor, row |-> NoReview, atomic |-> FALSE,
         holds |-> FALSE, sums |-> Nothing]

At(pc, a, row, atomic) ==
  [pc |-> pc, author |-> a, row |-> row, atomic |-> atomic, holds |-> FALSE, sums |-> Nothing]

Busy == {r \in Requests : job[r].pc # "idle"}

\* An uncommitted change of a's review: whoever wants to write it waits.
Locked(a) == \E r \in Requests : job[r].holds /\ job[r].author = a

\* The reviews as request r sees them: the committed rows and its own change.
Seen(r) ==
  IF job[r].holds THEN [review EXCEPT ![job[r].author] = job[r].row] ELSE review

Begin(r, j) ==
  /\ r \notin Busy
  /\ job' = [job EXCEPT ![r] = j]
  /\ crossed' = IF Busy = {} THEN {} ELSE Busy \cup {r}
  /\ disturbed' = (disturbed \/ Busy # {})

GoOn(r, j) == job' = [job EXCEPT ![r] = j] /\ UNCHANGED <<crossed, disturbed>>

End(r) == job' = [job EXCEPT ![r] = Idle]

Init ==
  /\ review = [a \in Authors |-> NoReview]
  /\ shown \in {Nothing} \cup Typed
  /\ listed = TRUE
  /\ engaged = {}
  /\ reports = [a \in Authors |-> {}]
  /\ job = [r \in Requests |-> Idle]
  /\ met = {}
  /\ deleted = {}
  /\ crossed = {}
  /\ disturbed = (shown # Nothing)

-----------------------------------------------------------------------------
(* POST: the target is loaded, can_review or can_review_tutor checked ...  *)

\* Mutation: no engagement gate.
MayReviewAnyway(a) == TRUE

MayReview(a) == Gated => a \in engaged

StartPost(r, a, x) ==
  /\ listed
  /\ MayReview(a)
  /\ Begin(r, At("insert", a, [id |-> NoId, rating |-> x], FALSE))
  /\ UNCHANGED <<review, shown, listed, engaged, reports, history>>

\* Mutation: primary keys are used again.
InsertReviewReusedKey(r) ==
  LET a == job[r].author
  IN /\ job[r].pc = "insert"
     /\ ~Locked(a) /\ review[a] = NoReview
     /\ \E n \in Ids :
          /\ \A b \in Authors : review[b].id # n
          /\ review' = [review EXCEPT ![a] = [id |-> n, rating |-> job[r].row.rating]]
     /\ GoOn(r, [job[r] EXCEPT !.pc = "aggregate"])
     /\ UNCHANGED <<shown, listed, engaged, reports, history>>

\* ... and the row created; nothing is checked again but the unique constraint.
InsertReview(r) ==
  LET a == job[r].author
  IN /\ job[r].pc = "insert"
     /\ ~Locked(a) /\ review[a] = NoReview
     /\ \E n \in Ids \ deleted :
          /\ \A b \in Authors : review[b].id # n
          /\ review' = [review EXCEPT ![a] = [id |-> n, rating |-> job[r].row.rating]]
     /\ GoOn(r, [job[r] EXCEPT !.pc = "aggregate"])
     /\ UNCHANGED <<shown, listed, engaged, reports, history>>

\* PATCH by the author, and the admin's change form: the row is read ...
StartChange(r, a, x, atomic) ==
  /\ review[a] # NoReview
  /\ Begin(r, At("save", a, [id |-> review[a].id, rating |-> x], atomic))
  /\ UNCHANGED <<review, shown, listed, engaged, reports, history>>

\* Mutation: post_save recomputes for new rows only.
SaveReviewNoSignal(r) ==
  LET a == job[r].author
  IN /\ job[r].pc = "save"
     /\ ~Locked(a) /\ review[a].id \in {job[r].row.id, NoId}
     /\ review' = [review EXCEPT ![a] = job[r].row]
     /\ End(r)
     /\ UNCHANGED <<shown, listed, engaged, reports, history, crossed, disturbed>>

\* ... and saved whole: a row deleted in between is inserted again.
SaveReview(r) ==
  LET a == job[r].author
  IN /\ job[r].pc = "save"
     /\ ~Locked(a) /\ review[a].id \in {job[r].row.id, NoId}
     /\ IF job[r].atomic THEN UNCHANGED review
                         ELSE review' = [review EXCEPT ![a] = job[r].row]
     /\ GoOn(r, [job[r] EXCEPT !.pc = "aggregate", !.holds = job[r].atomic])
     /\ UNCHANGED <<shown, listed, engaged, reports, history>>

\* DELETE by the author or in the admin site: the row is read, then deleted by its key in a
\* transaction that also runs post_delete.
StartDelete(r, a) ==
  /\ review[a] # NoReview
  /\ Begin(r, At("delete", a, review[a], TRUE))
  /\ UNCHANGED <<review, shown, listed, engaged, reports, history>>

DeleteReview(r) ==
  LET a == job[r].author
  IN /\ job[r].pc = "delete"
     /\ ~Locked(a)
     /\ GoOn(r, [job[r] EXCEPT !.pc = "aggregate", !.row = NoReview,
                               !.holds = (review[a].id = job[r].row.id)])
     /\ UNCHANGED <<review, shown, listed, engaged, reports, history>>

-----------------------------------------------------------------------------
(* The signal: recompute_listing_rating, recompute_tutor_rating.           *)

AggregateRows(r) ==
  /\ job[r].pc = "aggregate"
  /\ GoOn(r, [job[r] EXCEPT !.pc = "store", !.sums = Aggregate(Given(Seen(r)))])
  /\ UNCHANGED <<review, shown, listed, engaged, reports, history>>

\* Mutation: review_count is missing in update_fields.
StoreRatingOnly(r) ==
  LET a == job[r].author
      removes == job[r].holds /\ job[r].row = NoReview
  IN /\ job[r].pc = "store"
     /\ shown' = [job[r].sums EXCEPT !.count = shown.count]
     /\ review' = Seen(r)
     /\ reports' = IF removes THEN [reports EXCEPT ![a] = {}] ELSE reports
     /\ deleted' = IF removes THEN deleted \cup {review[a].id} ELSE deleted
     /\ End(r)
     /\ disturbed' = (disturbed /\ r \in crossed)
     /\ UNCHANGED <<listed, engaged, met, crossed>>

\* save(update_fields=["rating", "review_count", "updated_at"]); a transaction commits.
StoreRating(r) ==
  LET a == job[r].author
      removes == job[r].holds /\ job[r].row = NoReview
  IN /\ job[r].pc = "store"
     /\ shown' = job[r].sums
     /\ review' = Seen(r)
     /\ reports' = IF removes THEN [reports EXCEPT ![a] = {}] ELSE reports
     /\ deleted' = IF removes THEN deleted \cup {review[a].id} ELSE deleted
     /\ End(r)
     /\ disturbed' = (disturbed /\ r \in crossed)
     /\ UNCHANGED <<listed, engaged, met, crossed>>

-----------------------------------------------------------------------------
(* The target's own row: PATCH of the listing or the tutor detail is a     *)
(* full save of a copy, and the admin's change form posts the rating and   *)
(* review_count it displayed.                                              *)

StartEdit(r) ==
  /\ Begin(r, [Idle EXCEPT !.pc = "edit", !.sums = shown])
  /\ UNCHANGED <<review, shown, listed, engaged, reports, history>>

SaveEdit(r) ==
  /\ job[r].pc = "edit"
  /\ shown' = job[r].sums
  /\ listed' \in BOOLEAN
  /\ End(r)
  /\ UNCHANGED <<review, engaged, reports, history, crossed, disturbed>>

\* An administrator types other values in.
TypeRating(s) ==
  /\ shown' = s
  /\ disturbed' = TRUE
  /\ UNCHANGED <<review, listed, engaged, reports, job, history, crossed>>

-----------------------------------------------------------------------------
\* The unique constraint refuses a second review of the author (409; 500 for a PATCH).
Refused(r) ==
  LET a == job[r].author
  IN /\ \/ job[r].pc = "insert" /\ review[a] # NoReview
        \/ job[r].pc = "save" /\ review[a].id \notin {job[r].row.id, NoId}
     /\ ~Locked(a)
     /\ End(r)
     /\ UNCHANGED <<review, shown, listed, engaged, reports, history, crossed, disturbed>>

\* The process dies: a transaction is rolled back, what was committed stays.
RequestDies(r) ==
  /\ RequestsCrash
  /\ r \in Busy
  /\ End(r)
  /\ disturbed' = (disturbed \/ (job[r].pc \in {"aggregate", "store"} /\ ~job[r].atomic))
  /\ UNCHANGED <<review, shown, listed, engaged, reports, history, crossed>>

\* POST .../report/: get_or_create; the foreign key makes it wait for a deletion in
\* progress, and refuses it once the review is gone.
Report(a, b) ==
  /\ review[a] # NoReview
  /\ \A r \in Requests : ~(job[r].holds /\ job[r].author = a /\ job[r].row = NoReview)
  /\ reports' = [reports EXCEPT ![a] = @ \cup {b}]
  /\ UNCHANGED <<review, shown, listed, engaged, job, history, crossed, disturbed>>

\* An inquiry of the family is accepted, or cancelled again (apps/inquiries).
Engage(a) ==
  /\ Gated
  /\ engaged' \in {engaged \cup {a}, engaged \ {a}}
  /\ met' = met \cup engaged'
  /\ UNCHANGED <<review, shown, listed, reports, job, deleted, crossed, disturbed>>

RequestStep(r) ==
  \/ \E a \in Authors, x \in Ratings :
       \/ StartPost(r, a, x)
       \/ \E atomic \in BOOLEAN : StartChange(r, a, x, atomic)
  \/ \E a \in Authors : StartDelete(r, a)
  \/ InsertReview(r) \/ SaveReview(r) \/ DeleteReview(r)
  \/ AggregateRows(r) \/ StoreRating(r)
  \/ StartEdit(r) \/ SaveEdit(r)
  \/ Refused(r) \/ RequestDies(r)

Next ==
  \/ \E r \in Requests : RequestStep(r)
  \/ \E s \in Typed : TypeRating(s)
  \/ \E a, b \in Authors : Report(a, b)
  \/ \E a \in Authors : Engage(a)

Spec == Init /\ [][Next]_vars

-----------------------------------------------------------------------------
TypeOK ==
  /\ review \in [Authors -> Rows \cup {NoReview}]
  /\ shown \in Columns
  /\ listed \in BOOLEAN
  /\ engaged \subseteq Authors
  /\ reports \in [Authors -> SUBSET Authors]
  /\ job \in [Requests -> Job]
  /\ met \subseteq Authors
  /\ deleted \subseteq Ids
  /\ crossed \subseteq Requests
  /\ disturbed \in BOOLEAN

InStep == shown = Aggregate(Given(review))

(***************************************************************************)
(* The rating and review_count describe the rows whenever nothing is in    *)
(* progress, unless requests overlapped, one died half-way or a rating was *)
(* seeded or typed in; and a single recompute that runs alone puts right   *)
(* whatever went wrong before.                                             *)
(***************************************************************************)
InStepUnlessDisturbed == Busy = {} /\ ~disturbed => InStep

(***************************************************************************)
(* A deleted review comes back only through a request that ran beside      *)
(* another one: the full save of a copy read before the deletion.          *)
(***************************************************************************)
OnlyRacesRevive ==
  [][\A a \in Authors :
       review'[a].id \in deleted /\ review'[a].id # review[a].id =>
         \E r \in Busy \cap crossed : job'[r] # job[r]]_vars

(***************************************************************************)
(* "A review may only be created when the family has an accepted Inquiry   *)
(* with this tutor" (TutorReview): whatever happens to the inquiry between *)
(* the check and the insert, an author was engaged at some time.           *)
(***************************************************************************)
AuthorsWereEngaged ==
  Gated => \A a \in Authors : review[a] # NoReview => a \in met
=============================================================================
