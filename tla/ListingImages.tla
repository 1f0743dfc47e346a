---------------------------- MODULE ListingImages ----------------------------
(***************************************************************************)
(* The images of one listing: rows in the database, objects in the store,  *)
(* and the Celery tasks that remove objects after their rows               *)
(* (apps/providers/views.py, apps/catalog/admin.py, services.py, tasks.py).*)
(* Rows and objects change in separate steps, so an interrupted or refused *)
(* request may leave one without the other.                                *)
(***************************************************************************)
EXTENDS Integers, FiniteSets

CONSTANTS
  Keys,             \* storage keys: every upload takes one never used before (uuid4)
  Uploads,          \* requests that can be under way at the same time
  MaxFiles,         \* bound: files of one upload
  MaxPosition       \* bound: positions

ASSUME ImagesAssumption == MaxFiles \in Nat /\ MaxPosition \in Nat

VARIABLES
  hasListing,       \* the listing exists
  imageAt,          \* [Keys -> position of the image row with that key, or NoRow]
  stored,           \* objects in the store
  usedKeys,         \* keys drawn so far
  upload,           \* [Uploads -> what the request is doing]
  cleanups,         \* tasks delete_storage_objects waiting, each as its keys
  gap,              \* history: a row was removed or moved
  crowded,          \* history: two uploads overlapped
  reinserted,       \* history: keys whose row the admin's formset wrote after its deletion
  stranded,         \* history: keys whose object outlived a refused, killed or given up step
  collided          \* history: a position was taken although rows were neither removed nor moved
                    \* and uploads did not overlap

imagesVars ==
  <<hasListing, imageAt, stored, usedKeys, upload, cleanups, gap, crowded, reinserted, stranded, collided>>

NoRow == -1
Positions == 0..MaxPosition
Images == {k \in Keys : imageAt[k] # NoRow}
Taken(p) == \E k \in Keys : imageAt[k] = p

\* held: the objects stored for rows not inserted yet, with their positions; keys: the rows
\* the request has read.
UploadSteps == {"idle", "store", "insert", "form", "remove", "cascade", "enqueue"}
UploadStates == [step: UploadSteps, next: 0..(MaxPosition + 1), left: 0..MaxFiles,
                 held: SUBSET (Keys \X Positions), keys: SUBSET Keys]
Waiting == [step |-> "idle", next |-> 0, left |-> 0, held |-> {}, keys |-> {}]
HeldKeys(u) == {h[1] : h \in upload[u].held}

ImagesInit ==
  /\ hasListing = TRUE
  /\ imageAt = [k \in Keys |-> NoRow]
  /\ stored = {} /\ usedKeys = {}
  /\ upload = [u \in Uploads |-> Waiting]
  /\ cleanups = {}
  /\ gap = FALSE /\ crowded = FALSE
  /\ reinserted = {} /\ stranded = {} /\ collided = FALSE

Step(u, state) == upload' = [upload EXCEPT ![u] = state]
Uploading(u) == upload[u].step \in {"store", "insert", "form"}

(***************************************************************************)
(* Uploads.                                                                *)
(***************************************************************************)
FirstPosition == Cardinality(Images)

\* ListingImageView.post and ListingAdmin.save_model count the rows once; the form of the
\* admin site has also read the rows it shows.
StartUpload(u, s) ==
  /\ upload[u].step = "idle"
  /\ hasListing /\ FirstPosition \in Positions
  /\ \E n \in 0..MaxFiles :
       Step(u, [step |-> s, next |-> FirstPosition, left |-> n, held |-> {},
                keys |-> IF s = "form" THEN Images ELSE {}])
  /\ crowded' = (crowded \/ \E v \in Uploads : Uploading(v))
  /\ UNCHANGED <<hasListing, imageAt, stored, usedKeys, cleanups, gap, reinserted, stranded, collided>>

\* default_storage.save of the next file, under a fresh key.
StoreObject(u) ==
  /\ upload[u].step \in {"store", "form"}
  /\ upload[u].left > 0 /\ upload[u].next \in Positions
  /\ \E k \in Keys \ usedKeys :
       /\ stored' = stored \cup {k}
       /\ usedKeys' = usedKeys \cup {k}
       /\ Step(u, [upload[u] EXCEPT !.step = IF @ = "store" THEN "insert" ELSE "form",
                                    !.held = @ \cup {<<k, upload[u].next>>},
                                    !.left = @ - 1, !.next = @ + 1])
  /\ UNCHANGED <<hasListing, imageAt, cleanups, gap, crowded, reinserted, stranded, collided>>

\* The rows a request holds go in only if the listing is there and every position is free.
Fits(u) == hasListing /\ \A h \in upload[u].held : ~Taken(h[2])

WithHeld(u, at) ==
  [k \in Keys |-> IF k \in HeldKeys(u) THEN (CHOOSE h \in upload[u].held : h[1] = k)[2] ELSE at[k]]

InsertImage(u) ==
  /\ upload[u].step = "insert"
  /\ Fits(u)
  /\ imageAt' = WithHeld(u, imageAt)
  /\ Step(u, [upload[u] EXCEPT !.step = "store", !.held = {}])
  /\ UNCHANGED <<hasListing, stored, usedKeys, cleanups, gap, crowded, reinserted, stranded, collided>>

\* The unique constraint or the foreign key refuses: the request ends with the object stored.
InsertRefused(u) ==
  /\ upload[u].step \in {"insert", "form"}
  /\ ~Fits(u)
  /\ Step(u, Waiting)
  /\ collided' = (collided \/ (hasListing /\ ~gap /\ ~crowded))
  /\ stranded' = stranded \cup HeldKeys(u)
  /\ UNCHANGED <<hasListing, imageAt, stored, usedKeys, cleanups, gap, crowded, reinserted>>

\* The admin's form is one transaction: rows of the uploads, rows removed, a row moved to a
\* free position by a full save, which inserts it again if it is gone.  Removals enqueue
\* their cleanup when the transaction has committed.
SubmitForm(u) ==
  /\ upload[u].step = "form" /\ upload[u].left = 0
  /\ Fits(u)
  /\ \E drops \in SUBSET upload[u].keys, moves \in SUBSET upload[u].keys, p \in Positions :
       LET dropped == [k \in Keys |-> IF k \in drops THEN NoRow ELSE WithHeld(u, imageAt)[k]]
       IN
       /\ drops \cap moves = {} /\ Cardinality(moves) <= 1
       /\ moves # {} => \A k \in Keys : dropped[k] # p /\ imageAt[k] # p
       /\ imageAt' = [k \in Keys |-> IF k \in moves THEN p ELSE dropped[k]]
       /\ gap' = (gap \/ drops \cup moves # {})
       /\ reinserted' = reinserted \cup {k \in moves : imageAt[k] = NoRow}
       /\ Step(u, IF drops = {} THEN Waiting ELSE [Waiting EXCEPT !.step = "enqueue", !.keys = drops])
  /\ UNCHANGED <<hasListing, stored, usedKeys, cleanups, crowded, stranded, collided>>

\* A later row of the form is refused: everything is rolled back except the store.
RollBackForm(u) ==
  /\ upload[u].step = "form"
  /\ Step(u, Waiting)
  /\ stranded' = stranded \cup HeldKeys(u)
  /\ UNCHANGED <<hasListing, imageAt, stored, usedKeys, cleanups, gap, crowded, reinserted, collided>>

FinishUpload(u) ==
  /\ upload[u].step = "store" /\ upload[u].left = 0
  /\ Step(u, Waiting)
  /\ UNCHANGED <<hasListing, imageAt, stored, usedKeys, cleanups, gap, crowded, reinserted, stranded, collided>>

(***************************************************************************)
(* Removals: delete_listing_image and delete_listing.                      *)
(***************************************************************************)
StartRemoveImage(u) ==
  /\ upload[u].step = "idle"
  /\ \E k \in Images : Step(u, [Waiting EXCEPT !.step = "remove", !.keys = {k}])
  /\ UNCHANGED <<hasListing, imageAt, stored, usedKeys, cleanups, gap, crowded, reinserted, stranded, collided>>

RemoveImage(u) ==
  /\ upload[u].step = "remove"
  /\ imageAt' = [k \in Keys |-> IF k \in upload[u].keys THEN NoRow ELSE imageAt[k]]
  /\ gap' = TRUE
  /\ Step(u, [upload[u] EXCEPT !.step = "enqueue"])
  /\ UNCHANGED <<hasListing, stored, usedKeys, cleanups, crowded, reinserted, stranded, collided>>

StartRemoveListing(u) ==
  /\ upload[u].step = "idle"
  /\ hasListing
  /\ Step(u, [Waiting EXCEPT !.step = "cascade", !.keys = Images])
  /\ UNCHANGED <<hasListing, imageAt, stored, usedKeys, cleanups, gap, crowded, reinserted, stranded, collided>>

\* The rows go with the listing; one inserted after the keys were read is not cleaned up.
RemoveListing(u) ==
  /\ upload[u].step = "cascade"
  /\ hasListing' = FALSE
  /\ imageAt' = [k \in Keys |-> NoRow]
  /\ stranded' = stranded \cup (Images \ upload[u].keys)
  /\ Step(u, IF upload[u].keys = {} THEN Waiting ELSE [upload[u] EXCEPT !.step = "enqueue"])
  /\ UNCHANGED <<stored, usedKeys, cleanups, gap, crowded, reinserted, collided>>

\* Mutation: the batch is capped.
EnqueueCleanupCapped(u) ==
  /\ upload[u].step = "enqueue"
  /\ cleanups' = cleanups \cup {{CHOOSE k \in upload[u].keys : TRUE}}
  /\ Step(u, Waiting)
  /\ UNCHANGED <<hasListing, imageAt, stored, usedKeys, gap, crowded, reinserted, stranded, collided>>

EnqueueCleanup(u) ==
  /\ upload[u].step = "enqueue"
  /\ cleanups' = cleanups \cup {upload[u].keys}
  /\ Step(u, Waiting)
  /\ UNCHANGED <<hasListing, imageAt, stored, usedKeys, gap, crowded, reinserted, stranded, collided>>

\* A PROTECTed listing, a failing store, a killed process.
UploadDies(u) ==
  /\ upload[u].step # "idle"
  /\ Step(u, Waiting)
  /\ stranded' = stranded \cup HeldKeys(u) \cup (IF upload[u].step = "enqueue" THEN upload[u].keys ELSE {})
  /\ UNCHANGED <<hasListing, imageAt, stored, usedKeys, cleanups, gap, crowded, reinserted, collided>>

(***************************************************************************)
(* delete_storage_objects goes through its keys; a failure has the whole   *)
(* batch tried again, until the retries are used up (core/tasks.py; how    *)
(* many they are does not matter here).                                    *)
(***************************************************************************)
RunCleanup(c) ==
  /\ stored' = stored \ c
  /\ cleanups' = cleanups \ {c}
  /\ UNCHANGED <<hasListing, imageAt, usedKeys, upload, gap, crowded, reinserted, stranded, collided>>

FailCleanup(c) ==
  /\ \E done \in SUBSET c : done # c /\ stored' = stored \ done
  /\ \/ UNCHANGED <<cleanups, stranded>>
     \/ cleanups' = cleanups \ {c} /\ stranded' = stranded \cup c
  /\ UNCHANGED <<hasListing, imageAt, usedKeys, upload, gap, crowded, reinserted, collided>>

ImagesNext ==
  \/ \E u \in Uploads :
       \/ \E s \in {"store", "form"} : StartUpload(u, s)
       \/ StoreObject(u) \/ InsertImage(u) \/ InsertRefused(u) \/ FinishUpload(u)
       \/ SubmitForm(u) \/ RollBackForm(u)
       \/ StartRemoveImage(u) \/ RemoveImage(u) \/ StartRemoveListing(u) \/ RemoveListing(u)
       \/ EnqueueCleanup(u) \/ UploadDies(u)
  \/ \E c \in cleanups : RunCleanup(c) \/ FailCleanup(c)

ImagesSpec == ImagesInit /\ [][ImagesNext]_imagesVars

(***************************************************************************)
(* Properties.                                                             *)
(***************************************************************************)
\* Rows, objects, requests and tasks are well-formed, and no two rows share a position.
ImagesTypeOK ==
  /\ hasListing \in BOOLEAN /\ gap \in BOOLEAN /\ crowded \in BOOLEAN /\ collided \in BOOLEAN
  /\ imageAt \in [Keys -> Positions \cup {NoRow}]
  /\ \A j, k \in Images : imageAt[j] = imageAt[k] => j = k
  /\ stored \subseteq usedKeys /\ usedKeys \subseteq Keys
  /\ reinserted \subseteq Keys /\ stranded \subseteq Keys
  /\ upload \in [Uploads -> UploadStates]
  /\ cleanups \subseteq SUBSET Keys

\* An image row always has its object: the object is stored before the row is inserted and
\* removed after the row's deletion has committed.  Only the formset of the admin site, saving
\* a row deleted meanwhile, brings a row back whose object is going.
RowsHaveObjects == Images \subseteq stored \cup reinserted

\* No object is forgotten: without a row it is still held by a request, or about to be removed
\* by a task, or one of the known mishaps has happened to it.
NoObjectForgotten ==
  \A k \in stored :
    \/ k \in Images \/ k \in stranded
    \/ \E u \in Uploads : k \in HeldKeys(u) \/ (upload[u].step = "enqueue" /\ k \in upload[u].keys)
    \/ \E c \in cleanups : k \in c

\* position = count() + i collides only after an image was removed or moved, or between two
\* uploads at the same time: without those the rows of a listing are numbered 0, 1, 2, ...
CollisionHasCause == ~collided

\* Rows, objects and tasks fit together, in whatever order requests, refusals and retries come.
ImagesSound ==
  /\ ImagesTypeOK
  /\ RowsHaveObjects
  /\ NoObjectForgotten
  /\ CollisionHasCause
=============================================================================
