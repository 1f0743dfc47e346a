# Sabil Life backend: TLA+ models

Formal models of the Sabil Life backend (Django + DRF + Celery): TLA+ modules translated
from `src/apps`, TLC runs over small instances, and TLAPS proofs for instances of any size.
`PROJECT.json` holds the machine-readable inventory: components, runs, mutants, the
definition-to-source map, findings, hazards and theorems.

## 1. The system

Families look for tutors, masterclasses and events; providers are verified by reviewers;
families send inquiries to tutors, review them, subscribe, and are told about everything in
a notification feed with a push.  The deployment (`docker-compose.prod.yml`) runs gunicorn
with three worker processes, Celery workers, Celery beat, PostgreSQL and Redis.

Three facts about that runtime shape every model:

* There is no `ATOMIC_REQUESTS` and no `select_for_update`: each ORM statement commits by
  itself, and two requests interleave between any two statements.  What a request writes was
  computed from what it read before.
* `save(update_fields=[...])` writes the named columns and raises `DatabaseError` when the
  row is gone.  A plain `save()` writes **every** column of the copy and, when the row is
  gone, **inserts it again**.
* Celery acknowledges a message when a worker takes it (no `acks_late`): a task that raises
  is retried up to three times (`core/tasks.py`), a worker that dies loses it.

### Components

| # | Component | State | Operations | Talks to |
|---|---|---|---|---|
| 1 | **Inquiries** (`apps/inquiries`) | inquiry rows: status, `contact_revealed`, tutor | create, cancel, accept/decline, admin add/change/delete | enqueues tasks of 2; reads 3's availability |
| 2 | **Notifications** (`apps/notifications`, `core/tasks.py`) | feed rows, devices, read flags | the notify tasks, `notify_user`, register/unregister, mark read | reads the rows of 1, 3, 4 when the task runs |
| 3 | **Provider verification** (`apps/providers`) | verification records, tutor detail with `is_verified`, roles | submit, edit, withdraw, avatar, review by API and by admin actions, soft delete | grants roles, enqueues 2 |
| 4 | **Listings** (`apps/catalog`, `providers/views.py`) | listings with status, expiry, contacts, images | create, edit, submit, approve, reject, draft when expired, upload and remove images | enqueues 2, deletes storage objects |
| 5 | **Search** (`catalog/filters.py`, `views.py`, imports and seeds) | tags, groups, links; cached driving distances; page offsets | import, edit tags, filter, sort, page | reads 4 |
| 6 | **Reviews** (`apps/reviews`) | review rows; rating and `review_count` on listings and tutor details | post, edit, delete, report, recompute by signal | gates on 1; writes columns of 3 and 4 |
| 7 | **Subscriptions and listing clients** | bookings, client requests with status and comment | book, cancel, enrol, answer, withdraw | decide with 1 and 4 who is shown whose contact |
| 8 | **Accounts** (`apps/users`) | users, roles, tokens, one-time codes and throttle lists in the cache | register, confirm, log in, reset, change, delete account | roles of 3, mail tasks |
| 9 | **AI screening** (`providers/tasks.py`, `ai_screening.py`) | screening rows per CV | enqueue, process, store the result | reads 3 |
| 10 | **Favorites, suggestions** | single rows | mark, unmark, submit, resolve | refer to 4 |
| 11 | core views, middleware, schema, configuration, migrations, data sets | none at run time | - | - |

### What is hard, and what correctness means

* **Inquiries.** Accept is two saves and a `delay`; the transition is checked on a copy.
  Correct: no status change against `_ALLOWED`, a contact revealed only for an accepted
  inquiry with the gate off, an accepted inquiry always revealed.
* **Notifications.** A task carries an id and reads the row when it runs; a push may raise
  after the feed row is stored; a token reported dead may have been registered again.
  Correct: every status that stays reaches the feed of the party concerned, no row reports what
  never was, retries duplicate within a bound, a push is shown only to its addressee.
* **Verification.** Status, role and mirror flag are three statements of a reviewer's
  request, racing with the applicant's own edits, withdrawals and deletes.  Correct: the role
  follows the approval, nothing is granted without one, a rejection is explained and told.
* **Listings.** Full saves of stale copies, positions counted rather than allocated, objects
  removed by a task after the row, expiry that only a listing of the catalogue triggers.
  Correct: the texts, prices and categories that are public were on a moderator's screen (not the
  images: `ListingImageView.post` adds one to a listing that stays ACTIVE), a decision in force is told, no page shows an event that was over, every object has a row or a task that will remove it.
* **Search.** Offsets into a moving list, names that are not unique across categories, half a
  pair of coordinates.  Correct: a walk misses nothing that stayed where it was, a tag search
  means what the tags' groups say, a distance is the way to the place that was loaded.
* **Reviews.** Aggregate, then save.  Correct: rating and count describe the rows.
* **Subscriptions, clients, disclosure.** Check-then-insert, two-field answers saved from a
  copy, visibility that depends on three tables.  Correct: one confirmed booking, no rejection
  without a reason, a contact only to those who had their turn.
* **Accounts.** Counters kept by read-then-set in a cache, an account saved whole from the copy
  that authentication loaded, addresses compared in two ways.  Correct: a code is used once and
  its attempts are bounded, no session outlives its password, a deleted account keeps nothing,
  one account per mailbox.
* **AI screening.** A row that needs a second step to be left.  Correct: a screening ends or
  somebody had died, and what is shown is about the CV on file.

`PROJECT.json` lists every hazard at its line with the properties that would catch it.

## 2. Plan

Ordered by how much of the product rests on the component.

| | Modules | What they promise | Status |
|---|---|---|---|
| A | `InquiryLifecycle`, `Inquiries`, `InquiryNotifications` | the atomic state machine of `_ALLOWED`, a truthful feed | checked; proved but for liveness |
| B | `VerificationLifecycle`, `Verification` | submit / withdraw / decide / grant | checked and proved, the refinement for requests one at a time |
| C | `Reviews` | a rating that is a function of the rows | checked and proved |
| D | `Listings`; `ListingImages`, `ListingForms`, `ListingContacts` | texts published only as shown to a moderator; objects and rows agree | checked and proved |
| E | `OneTimeCodes`, `Sessions`, `Registrations`, `Throttles`, `Mails` | codes, sessions, addresses, budgets | checked and proved |
| F | `Devices`, `ReadFlags` | pushes reach their owner | checked and proved |
| G | `Subscriptions`, `ListingClients`, `Disclosure` | one booking, explained rejections, contacts by turn | checked and proved |
| H | `Screening`, `Tagging`, `Seeding`, `TutorSeeding`, `Browsing`, `Distances`, `Favorites`, `Suggestions` | see section 3 | checked and proved |

What could follow: `Verification` of two applicants composed with the feed of
`InquiryNotifications`, and a refinement of each component of `MCAccounts` and `MCCatalogue` to an
atomic specification like `InquiryLifecycle`, instead of invariants with named exceptions.

## 3. Modules and the code

### `InquiryLifecycle`
The abstract state machine: `Create`, `Move` along `_ALLOWED`, `Reveal`, `Remove`, each one
step.  `DeclinedStaysHidden` is what it promises the family.

### `Inquiries`
Rows (`status`, `revealed`, `tutor`), the availability of tutors (`account`), what each
request is about to do (`request`), and the broker (`queue`, a bag of tasks).  `written` and
`added` are history variables.

| Action | Code |
|---|---|
| `StartCreate`, `InsertInquiry` | `FamilyInquiryViewSet.create`, `services.create_inquiry` |
| `StartTransition` | the read and the check of `services.transition`; refused transitions change nothing |
| `SaveStatus`, `RevealContact` | the two saves of `transition` |
| `Enqueue` | `notify_inquiry_result.delay`, or the `on_commit` hook of the admin's add form |
| `SaveFails` | `DatabaseError` on a row that is gone |
| `RequestDies` | a killed process, or a broker that refuses `.delay` |
| `AdminAdd`, `AdminEdit`, `AdminDelete` | the forms of `InquiryAdmin` |
| `ChangeAccount` | a tutor pausing, leaving or being deactivated, seen from here |

### `InquiryNotifications`
Extends `Inquiries` with Celery workers: `TakeTask` (acknowledges), `GetInquiry` (reads the
row), `WriteFeed` (`Notification.objects.create`), `Push`, `PushRaises` (autoretry),
`WorkerDies`.  The task for an inquiry created in the admin site writes and pushes twice, to
the tutor first.

### `VerificationLifecycle`
What verification promises: only a reviewer decides, a role is granted on an approved record.

### `Verification`
One applicant, with all the rows that belong to that user: verification records by type
(`row`), the tutor detail (`detail`, with its soft-delete and `verified` flags), the provider
`role`s, the account, the requests (`job`: program counter plus the copy each carries), the
queued notifications and the verdicts in the feed.  `approved`, `used` and `detailUsed` are
history: the types that ever were approved and the primary keys handed out.

| Action | Code |
|---|---|
| `StartCreateDetail`, `InsertDetail`, `StartUpdateDetail`, `SaveDetail` | `TutorDetailView` create and update |
| `SyncVerification`, `SaveSync` | `_sync_verification`: `get_or_create`, then a save |
| `StartSoftDelete`, `SoftDelete`, `DropRole` | `TutorDetailView.delete` |
| `StartAvatar`, `AvatarVerification` | `AvatarUploadView` post and delete |
| `RequestVerification`, `StartRerequest`, `SaveRerequest` | `VerifyProviderView.post` |
| `StartCancel`, `CancelVerification`, `CancelDetail` | `VerifyProviderView.delete` |
| `StartReview`, `SaveReview` | `ProviderVerificationAdminViewSet` PATCH and its serializer |
| `StartVerdict`, `SaveVerdict` | the two admin actions, one row of the loop |
| `GrantOrRevoke`, `SetMirror`, `Notify` | the three statements of `apply_verification_outcome` |
| `Fails`, `RequestDies` | `IntegrityError`, `ProtectedError`, `DatabaseError`; a killed request |
| `RunTask` | `notify_verification_result` |
| `DeleteMe` | `DELETE /users/me/`, one transaction |
| `AdminEdit*`, `AdminDelete*`, `AdminSetRoles` | the change forms of the admin site |

### `Reviews`
One rated target -- a listing, or a tutor: `Review` and `TutorReview` are the same code twice --
with its review rows (`review`, one per family), the two denormalised columns (`shown`), the
reports, and the requests (`job`).  A POST or PATCH commits its row before the signal
aggregates and saves: three statements.  A delete (Django's collector, because of the signal
and the cascade) and the admin's forms are transactions: the row is locked at once, others see
the change at the end (`Seen`, `Locked`).  `met`, `deleted`, `crossed` and `disturbed` are
history: who was ever engaged, which keys were deleted, which requests ran beside another one,
and whether anything overlapped, died or was put in by hand since a recompute that ran alone.

| Action | Code |
|---|---|
| `StartPost`, `InsertReview` | the two POST views, the gate in `validate`, `create` |
| `StartChange`, `SaveReview` | PATCH by the author (`atomic` FALSE), the admin's change form (TRUE) |
| `StartDelete`, `DeleteReview` | DELETE by the author or in the admin site |
| `AggregateRows`, `StoreRating` | `recompute_listing_rating`, `recompute_tutor_rating` |
| `StartEdit`, `SaveEdit` | PATCH of the listing or tutor detail: a full save of a copy |
| `TypeRating` | rating and count typed into the admin form of the rated row (and `Init`: seeded) |
| `Refused`, `RequestDies` | the unique constraint (409, 500); a killed process |
| `Report`, `Engage` | `get_or_create` of a report; inquiries as the gate sees them |

### `Listings`
One listing: its row (`life` tells a new id, a live row and a deleted one apart), the requests
(`editor`: step, the copy loaded, whether the row has changed since), the clock, the review
tasks and their workers.  `shown`, `decision`, `told`, `overtaken` are history: contents (texts,
prices and categories in one value) a moderator had on the screen, the decision in force, whether
its owner was told, whether an outdated reading has been saved.

| Action | Code |
|---|---|
| `CreateListing`, `StartPatch`, `SavePatch`, `StartDeleteListing`, `DeleteListing` | `ProviderListingViewSet`: a PATCH loads the row and saves all of it, off the catalogue |
| `OpenScreen`, `LoadSelected`, `SaveApproved`, `SaveRejected`, `Announce` | the changelist and its actions `approve_listings`, `reject_listings`: two columns, then the task |
| `AddListing`, `LoadForm`, `SaveForm`, `LoadFeature`, `SaveFeature` | the add and change forms, the editable changelist |
| `ExpireListings`, `SelectActive` | the two statements of the public list |
| `ReadDecision`, `TellOwner`, `ReviewerDies` | `notify_review_result` |
| `GiveUp`, `EditorDies`, `HourPasses` | a row that is gone, a killed process, the clock |

### Around a listing
These modules share no variable with each other; `MCCatalogue` instantiates them side by side.

| Module | State | Main actions and the code |
|---|---|---|
| `ListingImages` | rows by key with their positions, objects, uploads, cleanup tasks | `StoreObject`, `InsertImage`, `SubmitForm`, `RemoveImage`, `RemoveListing`, `EnqueueCleanup`, `RunCleanup`, `FailCleanup`: `ListingImageView`, `ListingAdmin`, `catalog/services.py`, `tasks.py` |
| `ListingForms` | the columns that depend on one another | `CreateForm`, `PatchForm` (`validate`, `validate_category` over every subset of fields), `SubmitByHand` (the admin's `clean`) |
| `ListingContacts` | contacts, open transactions, the row lock | `SaveListing` (takes the lock), `ClearContacts`, `InsertContacts`, `RollBackContacts`, `TypeContact` |
| `Subscriptions` | rows by id, requests, whether the listing is on offer | `CheckFree`, `InsertSub`, `InsertSubRefused`, `CancelSub`, `SaveSub` (admin form), `DeleteSub` |
| `ListingClients` | one request with status and comment | `Enrol`, `AnswerClient`, `Withdraw`, each after the read it rests on |
| `Tagging` | tags with groups, editorial listings with links, running commands | `ImportTags`, `LoadTagMap`, `ImportListings`, tags and groups edited by hand; `Found` is `filter_category` and `filter_tags` |
| `Seeding` | seeded rows and their images, runs | `UpsertListing`, `LookForImages`, `FetchImage`, `InsertSeedImage`, `SeedingStops`: `seed_catalog` |
| `Browsing` | the order of the public rows, a client's walk | `ExpireRows`, `CountRows`, `ReadPage`, rows that come, leave and move |
| `Distances` | the listing's place, cached routes, requests | `HitCache`, `MissCache`, `RouteAnswers`, `RouteFails`; `SearchByDistance` is the parsing, annotating and sorting of `ListingViewSet` |
| `Disclosure` | owner, editions, booking, enrolment, inquiry, the page being read | one action per page: what it shows, and to whom |

### Around an account
Side by side in `MCAccounts`.

| Module | State | Main actions and the code |
|---|---|---|
| `OneTimeCodes` | the cache entry, guesses under way | `IssueCode`, `ReadEntry`, `ReadTtl`, `StoreGuess`, `DropLast`, `DropCode`, `ConsumeCode`, `ExpireCode`, `GuessDies`: `otp.py` and the views that consume |
| `Sessions` | one account, its tokens and roles, requests with their copies | login, change, reset, confirmed change, profile, `DeleteMe`, admin forms, `ApplyOutcome` (a verdict): `users/views.py`, `serializers.py`, `models.py`, `providers/services.py` |
| `Registrations` | addresses (mailbox and spelling), pending entries | `AskRegistration`, `VerifyRegistration`, `AskChange`, `ConfirmAddress`, `CreateAccount`, `DeleteAccount` |
| `Throttles` | the lists of admitted calls, calls under way | `Admit`, `Count`, `Pass`, `Refuse`, `DropBudget`: `throttles.py` over the framework's cache list |
| `Mails` | the code in force, requests, letters under way | `StoreCode`, `DelayCode`, `ConfirmPost`, `DelayNotice`, `SendLetter`, `SenderDies`: `users/tasks.py` and the views that delay |
| `Devices` | rows by token, who uses the phone, pushes under way, the admin form | `RegisterDevice`, `UnregisterDevice`, `ReadTokens`, `SendPush`, `DeactivateDead` |
| `ReadFlags` | `is_read`, `read_at` | `MarkRead`, the admin form |
| `Screening` | rows, tasks, workers, the CV on file | `HandIn`, `ScreenAgain`, `CreateScreening`, `TakeScreening`, `MarkProcessing`, `CallService`, `SaveScreening`, deaths and redeliveries |
| `TutorSeeding` | accounts of one seeded address, avatars, objects, the run | `seed_tutors` in one transaction beside uploads, departures and verdicts; `seed --clean` |
| `Favorites` | one row per family, requests | `StartMark`, `InsertMark`, `RefuseMark`, `StartUnmark`, `DeleteMark`, the listing's removal and return |
| `Suggestions` | one row, the pages opened on it | `Suggest`, `Mark`, `OpenDesk`, `SaveDesk` |

Each module also holds a few operators under the heading "Mutations".  They are what a
plausible bug would make of the action that follows; no specification uses them, and each
breaks the property it is paired with in `PROJECT.json`.

### Abstractions
* Message texts, payload wording, filters, pagination, throttling and permissions that do not
  depend on the modelled state are left out.  The reviewer's comment is one bit: is there one.
* A form of the admin site is one transaction and one step.  `AdminAdd` leaves the model's
  defaults; other initial values are an `AdminAdd` followed by an `AdminEdit`.
* `get_or_create` is one step: its unique constraint makes the losing side re-read.
* `RunTask` of `Verification` is one step and the feed a set: order and retries of tasks are
  the subject of `InquiryNotifications`, whose worker runs the same code path.
* One applicant is enough, because no statement of `apps/providers` writes rows of two users;
  an admin action over many rows is its loop body once per row.
* In `Reviews` the arithmetic of `round(avg, 1)` is kept (`Tenths`); the ratings that
  `seed_catalog` or an administrator put in are one constant, `Typed`.  `delete_selected` is modelled
  for one review at a time.  `SaveEdit` leaves open whether the target is visible afterwards,
  which covers moderation.  PROTECT keeps the target while reviews exist.
* The legacy role that every save of an account grants again is in `Sessions`, the CV in
  `Screening`; both are left out of `Verification`.
* Texts are numbers (`content`, `edition`), coordinates points of a line with cells for what
  rounding leaves, addresses pairs of mailbox and spelling, times of throttles units of which
  `Window` make up the window.  Every password ever set has a number of its own.
* The app is assumed to call `unregister` on sign-out (`Devices`); a deleted account does not,
  which leaves its device rows active.
* `ListingForms` validates one write at a time: a write validates and saves one copy whole, so a
  row is always the outcome of writes one after the other; which of them win is `Listings`.
* Only cancelled, confirmed and hand-written statuses of `Subscriptions` occur, as in the code;
  nothing expires a booking.

## 4. Runs

`Requests = {r1, r2}` stands for the three gunicorn workers: the races of this code are
between a check and the write that follows it, and one other request is enough to get in
between.  `Ids = {n1, n2}` lets a record be deleted and created anew once; `verification_forms`,
where every form multiplies the states, has one key, so a deleted record comes back only through
a stale copy (what new keys add there is left to the theorems `NothingGranted`,
`ApprovalsAreReviewers` and `RevivalsAreFullSaves`).  Ids, keys, codes,
hours and runs of every instance run out and users may stop asking, so deadlock is not checked.

| Run | Question | Instance |
|---|---|---|
| `inquiry_races` | What survives every race of two requests? | 2 requests, 2 inquiries, add and delete forms, gate off |
| `inquiry_serial` | Does the code implement `InquiryLifecycle` one request at a time, even if requests die between statements? | 1 request, 2 inquiries |
| `inquiry_feed` | Is any status change forgotten, misreported, or repeated without bound, and does a status that stays reach the feed? | 2 requests, 1 worker, pushes that raise, 1 retry, weak fairness |
| `inquiry_crash` | What is left of that when requests and workers die and every form is used? | 1 request, 1 worker, all forms, gate on |
| `verification_serial` | One request at a time: do role, flag, feed, comment and records agree?  Two requests break all but the comment (see below), and the theorem `RejectionKeepsComment` covers any number. | 1 request, both provider types |
| `verification_forms` | Is anything granted or shown without an approval or a grant by hand? Who writes an approval, and what brings a deleted row back? | 2 requests that may die, every form, a detail that may be protected, tutors only, 1 key |
| `verification_mirror` | *violated*: does `is_verified` say what the verification says? | 1 request |
| `reviews` | Does the rating follow the rows unless requests overlap or die? Who can revive a review, and who can write one? | 2 requests that may die, 2 families, 2 keys, ratings 4 and 5, gate on, one seeded rating |
| `listings` | Are the public texts, prices and categories what a moderator saw, is a decision told, who revives a listing, is a page fresh? | 2 requests, 1 comment, 1 worker, 2 contents, 2 hours |
| `catalogue` | Does each part around a listing keep its promise? | 2 requests per part, 2 or 3 rows |
| `accounts` | Does each part around an account keep its promise? | 2 requests per part, 1 in some |
| `tags_case` | *violated*: does a category in lower case find what it finds in upper case? | the tags of `catalogue` |

`catalogue` and `accounts` check many modules in one run.  Their parts share no variable, so a
behaviour of `MCCatalogue` or `MCAccounts` is one of one part, chosen at the start, while the
others rest; each invariant of these runs is guarded by its part and names the promise of one or
more modules:

| Invariant | Promise |
|---|---|
| `UploadsSound` | no row without an object; an object without a row or a task has a death, a refusal or a used-up retry behind it; positions collide only after a removal or beside another upload |
| `ListingWritesSound` | online masterclasses have a link, only masterclasses have dates, and what is missing came from the admin's form or a recategorising PATCH; the stored contacts are one list that was sent |
| `SubscriptionsSound` | the uncaught `IntegrityError` needs two overlapping requests; a cancelled row is stamped and only it is |
| `ClientsSound` | a rejection has a reason; a withdrawn request returns only with an answer that began before |
| `TagSearchSound` | a search by tags means "one of each group"; an import links the whole set of tags or nothing |
| `SeedsSound` | reruns do not collide; a set of images is complete unless a run was cut short or ran beside another |
| `SearchSound` | a walk misses, repeats or runs past the end only for a named reason; a distance is that of the place loaded and no older than the TTL; searches are answered |
| `PrivacySound` | contacts, private details and unpublished listings are shown to those who had their turn |
| `CodesSound` | wrong guesses are bounded, a code is used once and only the newest is, unless operations on its entry overlap |
| `SignInSound` | no token outlives its password, the last password is in force, a deleted account keeps nothing and has no role but one a verdict granted since, unless a copy was saved over it |
| `AccessSound` | one account per mailbox; budgets hold unless calls overlap, and no call is refused for another's; one notice per changed password, to the holder |
| `OwnRowsSound` | pushes reach their owner; a notification is stamped once; a favorite is of a listing that exists and a slow removal spares a newer one; the last word on a suggestion stands |
| `CvSound` | a CV is screened once, an open screening has somebody at work or somebody had died, the verdict shown is of the CV on file |
| `SeededTutorsSound` | avatars have objects, objects rows or tasks, and a committed run leaves a tutor |

Bounds and reductions, all named in the configurations or the MC modules:

* `MaxRetries` is 3 in the code and 1 where retries interleave with requests and with crashes;
  it is a constant of the theorems.
* `FewMessages` (only `inquiry_crash`) cuts states with more than one queued task or two feed
  rows, because the change form can reopen an inquiry for ever; `AccountsRest` (`inquiry_crash`) and `FairSpecAccountsRest` (`inquiry_feed`)
  leave the availability of tutors, which only guards the start of a request, to
  `inquiry_races`.
* `SYMMETRY` permutes requests, inquiries, workers or keys, which the specifications never
  order or name; it is not used with liveness.
* `VIEW Records` (`verification_forms`) leaves out `tasks` and `told`: no guard reads them but
  that of `RunTask`, which changes nothing else, and the properties of the run do not mention
  them.  `VIEW WithoutReports` leaves out the reports of `Reviews` for the same reason.
  `VIEW PartAtWork` leaves out the parts that rest: they are as they were at first.
* Two families and two keys suffice for `Reviews`: the smallest wrong average needs two rows, a
  revival one key deleted and one in use.  Ratings 4 and 5 give distinct averages for every set
  of rows.
* `MCListings` checks `Listings` in two scenes: in "texts" the clock rests (contents, decisions and
  tasks change), in "events" contents and the queue rest (the clock passes a start).  An edition and
  the one after it are enough for a decision to be about another one than is saved, two hours for
  an event to end between two statements.  The theorems are about `ListingsSpec`, without scenes.
* Images: 2 uploads of up to 2 files and positions 0 and 1, so that a removal in the middle and an
  overlap both collide.  Tags: 1 command of any kind, 3 insertions and 1 edit by hand, on two
  categories that share a name.  Seeding: 2 runs over 2 listings with 2 images.  Walks: 3 rows in
  pages of 1, 2 moves.  Distances: a line of 3 points, 2 places, a TTL of one tick.  Disclosure:
  2 owners, 2 editions, gate off (with the gate on no inquiry is ever revealed), its pages,
  bookings and inquiries in turn.
* Codes: 2 codes, 2 guesses at a time, 3 attempts instead of 5.  Sessions: 2 requests, 2 passwords.
  Throttles: 1 call per 2 units of time in 2 scopes.  Mails: 2 requests, 2 codes, 2 letters, 1
  address change by hand.  Screening: 1 request, 2 workers, 2 CVs, a task delivered twice.
  Favorites: 2 families, 2 requests, 3 rows.
* The properties that hold only without crashes, forms, overlaps or the gate say so in their
  antecedent or name the exception by a history variable; the run that lists them lets both sides
  happen.

**Fairness** (`FairSpecNotifications`, `FairSpecAccountsRest`): weak fairness of the steps of a
request already in progress (gunicorn finishes what it started) and of each worker's steps
(Celery keeps taking tasks).  Nothing is assumed of users, administrators, crashes, or the
outcome of a push: `PushRaises` is one of the steps the scheduler may choose every time.

### What the runs show about the code

Three runs show the code at odds with the repository's own text, two by a violation:

1. `verification_mirror`: a tutor approved through `POST /provider/verify/` who fills in the
   detail later stays `is_verified = False` until the next verdict.
2. `tags_case`: `filter_tags` compares the category as it is spelled, `filter_category` in upper
   case; `?category=tutoring&tags=...` ignores the tags.
3. `accounts`, which passes: a password change, a reset and a confirmed change each delete every token
   of the account (`users/views.py:136`, `:175`, `:272`), so `SessionsUseLastPassword` holds.
   `docs/MOBILE_INTEGRATION.md:233` ("Existing tokens are not invalidated on password change") and `:731`
   ("Password changes do not invalidate tokens.") say the contrary; the PATCH of `/auth/me/` they
   describe no longer takes a password.

The rest passes with exceptions that the properties name by history variables or antecedents
(dropping one makes TLC print the steps), or was met while modelling and is kept in the actions:

* *Inquiries, feed.*  `transition` checks a copy and writes unconditionally, so an acceptance saved
  late overwrites a decline or a cancellation: the terminal states are terminal one request at a
  time.  What remains: no inquiry becomes PENDING again, and a contact is revealed only if the
  inquiry really was accepted.  The task for an inquiry made in the admin site tells the tutor first;
  if the push raises on every attempt, the family never gets a row and the tutor gets four.
* *Verification.*  Of two reviewers, or a reviewer and a withdrawal, one can save its status last and
  the other its role last; a sync after a profile edit writes back an APPROVED over a rejection
  (`views.py:170`); a review inserts a withdrawn record again, with its verdict (`views.py:549`), and a
  PATCH a deleted detail.  `OnlyReviewersApprove` and `OnlyFullSavesRevive` say that these are the
  only ways an approval is written without a reviewer and a deleted row comes back.
  `CopiesFollowVerdict`, `VerdictTold` and `ImplementsVerification` are checked for one request at a
  time, so none of these overlaps occurs in their run: they say what the code keeps without them.  A
  soft-deleted
  tutor cannot come back (the row keeps the one-to-one column), and a `DELETE` of a detail that a
  review or inquiry protects leaves the detail without its verification.
* *Reviews.*  Of two reviews written at once, the request that aggregated first may save last.
* *Listings.*  A PATCH saved after a decision takes it back, with the comment, rating and review count
  that it had loaded before.  A decision is on the row as it is when the action runs: an
  edit saved after the moderator's page was opened is published unseen; an image that the owner adds
  is public at once.  A deleted
  listing is revived by the full save of a copy loaded before.  `views.py:300-302` says that a
  verified provider's writes become PENDING; the code asks for `?status=PENDING` as well.  A
  PATCH of the category alone can leave an offline masterclass without a place.
* *Search.*  Offsets miss and repeat rows when the list moves, and ties under `sort=rating` or
  `price_low` may do so on a list at rest.  Unknown tag names are ignored; without a category,
  a choice between two tags of a group becomes a demand for one of them if another category
  uses its name too.  A latitude that is a number with a longitude that is none, together with a
  sort or a limit by distance, raises `FieldError` although the code logs that it is ignored.
* *Imports and seeds.*  A rerun publishes rejected listings again; an image set cut short is not
  completed while one image exists; `import_schools --clean` leaves the objects of the images;
  `seed --clean` deletes everybody in a committed step of its own before the seeding that may
  fail; `seed_tutors` restores neither a hidden profile nor a lost role, and its `--clean` stops at a
  protected row; its aborts leave the objects of avatars.
* *Disclosure.*  A family keeps the private details of a booking it has cancelled; an enrolled family
  sees the card of a listing no longer published; a new owner sees the contacts of families
  enrolled with the former one; a page under way during a PATCH can show the contacts of an edition
  not yet published.  The docstring of `TutorInquirySerializer` says
  that contact fields are null regardless of `contact_revealed`; the method under it shows them.
* *Subscriptions.*  The admin form makes a cancelled booking active again, against the "No
  re-activate from CANCELLED" of the docstring; two bookings at once end in an uncaught
  `IntegrityError`, and so does marking a favorite twice.
* *Accounts.*  Guesses at the same time count once, and a wrong guess that overlaps stores back a code
  that was used or replaced.  `PATCH /users/me/` undoes a password change or a deletion that it
  overlaps; a login may issue a token for the old password after all tokens were deleted; an approval after the
  deletion gives the deleted account a provider role.  Two
  spellings of one mailbox can become two accounts between the check and the confirmation.  A new
  address is never proven; the notice of a changed password goes to the new address when one
  confirmation changes both, and there is none after a reset.  `DELETE /users/me/` leaves the device rows active.
* *Screening.*  A worker killed while screening leaves its row PROCESSING for ever; a new screening
  is a row of its own and is not refused.
* *Forms.*  The suggestion form posts back the status and notes that its page displayed; the
  notification form, though read-only, saves the whole row.  `Favorite.__str__` returns no string,
  so admin pages that name a favorite fail.

## 5. Proofs

All constants are arbitrary: any number of inquiries, tutors, listings, keys, codes and concurrent
requests, both values of every flag.  The assumptions are the named `ASSUME`s of the modules:
flags are Booleans, bounds such as `MaxRetries` and `MaxAttempts` are natural numbers, ratings lie in
1..5, placeholders are no keys.

* `Inquiries_proofs`.  `IInv` = types plus `RequestsCarry`: what a request knows at each
  program counter (one about to reveal has itself stored ACCEPTED with the gate off; none is
  about to store PENDING).  `TypeOK` alone is not inductive, because a request's columns have
  their meaning only at some steps.  From it `TypeCorrect`, `RevealNeedsAcceptance`,
  `NoReopening`, `AcceptanceReveals`; with at most one request (`Serial`), `SerialImplements`
  maps each save to one step of `InquiryLifecycle`, and `SerialHidesDeclined` transfers the
  abstract invariant through the refinement.
* `InquiryNotifications_proofs`.  Adds the workers to the invariant.  `FeedIsTruthful` rests on
  a running task having read a status that was written; `NothingForgotten` on a case analysis
  of who is responsible for the current status after each step (feed row, request, queued task
  or running task).
* `Verification_proofs`.  `IInv` = types, `RequestsCarry` (the key, type and values a request
  holds at each of its statements) and `DetailOfTutor`.  `TypeCorrect` follows.
  `RejectionKeepsComment` uses that only a request whose copy has a comment carries REJECTED.
  `NothingGranted` adds `ApprovalsRecorded`: every copy that says APPROVED or shows the detail
  as verified is backed by the history, which only grows.  So stale saves can restore an old
  approval but never invent one (`ApprovalsAreReviewers`: only a sync that read one, besides the
  reviewers and the admin's form, writes APPROVED); the history also counts roles and flags an administrator
  grants by hand.  `RevivalsAreFullSaves` needs no more than `IInv`, but of every step: each save is
  shown to fail, to keep the key of its row, to use a fresh one, or to be one of the two full saves.
* `Reviews_proofs`.  `IInv` = types, `RequestsCarry` and `LocksHeld`: a transaction that removes
  a review keeps the row from everybody else, without which the deleted key would not be known
  to be one.  `EngagementComesFirst` carries the author's engagement along with the request.
  `RatingFollowsRows` and `NoRevivalAlone` share `AloneInv`: a request that nobody ran beside
  still has the key of its row and an aggregate of the rows it sees, and an undisturbed rating
  agrees with the rows unless a committed change awaits its recompute.  A crossed request
  falsifies nothing, because the rating then already counts as disturbed; so each action is
  proved for a sole request (`SoleGoesOn`) and once for all for a crossed one.
* `Listings_proofs`.  `EditorsKnow`: as long as nobody has written since it read, the row a
  request is about to write is there and its content was on a screen, and the row a visitor is
  about to select is not over.  `Owed`: a decision stands on the row as it was made, and is told or
  carried by a request about to announce it, a task or a worker.  From these `ModerationHolds`; the
  action properties `RevivalNeedsRace` and `PagesAreFresh` follow from the same invariant.
* `Accounts_proofs` and `Catalogue_proofs`.  One section per component, described below, each with an
  inductive invariant and a theorem about the component's own specification.  At the end, for each
  invariant that `accounts` and `catalogue` check, a theorem about the specification of the run:
  a step of `MCAccounts` or `MCCatalogue` is a step of each component or leaves it as it is
  (`PartsInTurn` and its like), so that what a component keeps, the composition keeps.

What the invariants of those two modules add to the promise of the component, and why it is not
inductive without:

| Component | What the induction carries |
|---|---|
| `OneTimeCodes` | what a guess holds at each cache call; a copy that is not out of date is the entry (`FreshGuesses`); while nothing has overlapped the entry is of the newest code and counts its wrong guesses (`InStep`), since the code compares the counter of the entry, not the history |
| `Sessions` | a request whose reading is not out of date holds the account as it is (`HoldsAccount`); a verdict touches a role and no copy |
| `Registrations` | a check that is not out of date still finds its mailbox free (`Free`), because whoever takes a mailbox overtakes every other check of it; pending entries name who asked |
| `Throttles` | the list in the cache mirrors the end of the admitted calls (`Mirrors`): what it lacks was out of the window when it was read; so calls `Rate` apart are a window apart (`Spaced`), and each entry is a call of its own (`Named`) |
| `Mails` | of a code in force that is not entangled the only mail under way is its own (`OnlyItsMail`); an open request has loaded the address of the account (`LoadedIsCurrent`); the notices are counted against the changes |
| `Devices` | what a push has read stays true of the phones the service can reach (`Reach`, `DeadAreGone`, `FormHolds`) |
| `ReadFlags`, `Suggestions`, `Favorites` | what a form or page posts back is the newest row unless told otherwise; of `Favorites` the promise is inductive as it stands |
| `Screening` | a QUEUED row has cost no call (`Untouched`); a row that no two deliveries found QUEUED has one worker at most (`OneScreener`) |
| `TutorSeeding` | what a run dropped or inserted stays until it ends (`RunInOrder`, `Restored`); every object is of one avatar, in one hand, on its way out or left behind (`HandsApart`, `AvatarsKept`, `AllAccounted`) |
| `ListingForms` | nothing: the serializer checks the merged row whenever one of its columns was sent |
| `ListingContacts` | what a transaction inserts is a list that `validate_contacts` has taken, and what it deleted is all there was (`AllCleared`), by the lock |
| `Subscriptions` | only requests of a family confirm its rows (`RequestsLinked`), no other is under way (`RequestsApart`), so that the check still holds at the insert (`ChecksStillHold`) |
| `ListingClients` | the copy of an answer is the row unless somebody wrote in between (`AnswersKnow`) |
| `Disclosure` | what is stored is justified by the turns that led to it (`StoredIsJustified`), and what is shown by what was stored (`ShownIsJustified`) |
| `Seeding` | unless runs overlap, a listing's images are all there or the run is at it (`SetsWhole`), which found all or none (`LookFinds`) and has put as many as it has counted (`ImagesInOrder`) |
| `Tagging` | ids are not used again (`IdsKnown`), so a resolved name is that tag, is gone or was renamed (`MapsMean`) |
| `Distances` | a cached distance is a way from its cell and lives for an hour from its answer; a request that asks alone found nothing under its key, and nobody else can have cached anything there (`AloneMissed`, `AskedBeside`) |
| `Browsing` | how many rows are above one says which page it is on: what is unseen lies at or after the offset (`UnseenAhead`), what was seen before it (`SeenBehind`), as long as nothing moved them |
| `ListingImages` | what a request holds is stored, its own, and has never had a row (`HeldAreNew`); a row's object is in nobody's hands (`RowsAreKept`); until a row is removed or uploads overlap, the positions taken are 0 to m - 1 and a request holds those from m on (`InOrder`), so that there are m rows (`RowsCounted`) and `count()` is free |

In the other modules:

* `RequestsBounded` (`InquiryNotifications_proofs`): the announcement of an inquiry is carried by one
  request, one queued task or one worker (`OneCarrier`), and the rows stored so far are no more than
  the retries that carrier has used, and one more once it has stored its own (`StoredSoFar`); the
  tasks that answers and cancellations enqueue never read PENDING, unless the change form edits.
* The serial theorems of `Verification_proofs` assume `Serial`: one request at a time, which does not
  die, and no change forms, as in the run `verification_serial`.  `SerialInv` says that what the
  request has read is still so (`ReadIsCurrent`) and that role, flag and feed agree with the verdict
  as far as its statements have got (`OutcomeApplied`).  From it `SerialCopies` and
  `SerialTells`; `SerialImplements` maps the save of the record to a step of `VerificationLifecycle`
  and every other statement to a stutter, and `SerialApprovalEnds` carries the properties of the
  lifecycle back.

The assumptions that the last proofs needed and the code justifies: special values are no members
of the sets (`"nobody"`, `"deleted"`, `NoTask`, the parties of `Disclosure`), a page has a row at
least, editions and the TTL are positive, and the rows of a list and the requests of `Mails` are
finitely many.  No bound has a fixed value in them.

One definition was found wrong by its proof: at the bound of the model two files of one upload could
both get the last position (`ListingImages`); `next` now runs one past `MaxPosition`.

Only model-checked: `FinalStatusReachesFeed`, since liveness under fairness is out of the prover's
reach.  The properties of the violated runs are refuted by TLC's counterexamples.

## 6. Not modelled

* Views, middleware, schema modules and the health check of `core`; settings beyond the few the models
  use (throttle rates, cache, broker, page size); migrations, templates, documentation: no
  state at run time, or plumbing with no protocol.
* The data sets: `Tagging` keeps a few entries of each shape of `schools.py`, `nurseries.py` and
  the tag files (a listing with tags of two groups, one with a name that both categories use), not
  the several hundred entries, which differ in text only.
* Single values: e-mail and phone patterns, price and age ranges, file sizes and types.
* Filters of list endpoints other than those of `Tagging`, `Browsing` and `Distances`.
* External services (FCM, mail, object storage, OpenAI, OpenRouteService, PostgreSQL, Redis)
  appear only as what they do to the modelled code: a push that raises, a broker that refuses, a
  call that fails, a row that is gone, a cache entry that expires.
