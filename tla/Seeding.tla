------------------------------- MODULE Seeding -------------------------------
(***************************************************************************)
(* seed_catalog: listings under fixed ids, written one after the other     *)
(* outside any transaction, and placeholder images for those without any   *)
(* (apps/catalog/management/commands/seed_catalog.py).  Every run writes   *)
(* all columns anew, so only the rows and their images are kept here.      *)
(* Runs are killed, the image service fails, and editors are at work.      *)
(***************************************************************************)
EXTENDS Integers, FiniteSets

CONSTANTS
  Seeders,        \* runs of the command that can be under way at the same time
  SeedSlugs,      \* LISTINGS
  ImageCount,     \* image_count of a listing
  MaxRuns         \* bound: runs

ASSUME SeedingAssumption == ImageCount \in Nat /\ MaxRuns \in Nat /\ SeedSlugs # {}

VARIABLES
  seeded,         \* slugs whose listing exists
  images,         \* [SeedSlugs -> positions of the image rows]
  seeder,         \* [Seeders -> what the run does next]
  runs,           \* runs started
  together,       \* history: two runs overlapped
  touched,        \* history: slugs whose listing or images somebody else changed
  cut,            \* history: slugs some of whose images a run failed to fetch or store, or at
                  \* which a run was stopped
  tripped         \* history: a run ended with an IntegrityError

seedingVars == <<seeded, images, seeder, runs, together, touched, cut, tripped>>

Places == 0..ImageCount
SeederSteps == {"idle", "clean", "upsert", "look", "fetch", "insert"}
SeederStates == [step: SeederSteps, todo: SUBSET SeedSlugs, index: Places, position: Places]
Unseeded == [step |-> "idle", todo |-> {}, index |-> 0, position |-> 0]

SeedingInit ==
  /\ seeded = {} /\ images = [s \in SeedSlugs |-> {}]
  /\ seeder = [r \in Seeders |-> Unseeded]
  /\ runs = 0 /\ together = FALSE /\ touched = {} /\ cut = {} /\ tripped = FALSE

Seeder(r, state) == seeder' = [seeder EXCEPT ![r] = state]

\* LISTINGS is worked off in its order; which one it is does not matter here.
Current(r) == CHOOSE s \in seeder[r].todo : TRUE
NextListing(r) ==
  LET rest == seeder[r].todo \ {Current(r)} IN
  IF rest = {} THEN Unseeded ELSE [Unseeded EXCEPT !.step = "upsert", !.todo = rest]

\* --clean loads the seeded listings first.
StartSeeding(r, clean) ==
  /\ seeder[r].step = "idle" /\ runs < MaxRuns
  /\ runs' = runs + 1
  /\ together' = (together \/ \E q \in Seeders : seeder[q].step # "idle")
  /\ Seeder(r, IF clean THEN [Unseeded EXCEPT !.step = "clean", !.todo = seeded]
               ELSE [Unseeded EXCEPT !.step = "upsert", !.todo = SeedSlugs])
  /\ UNCHANGED <<seeded, images, touched, cut, tripped>>

\* delete_listing for each; the images go with the row.
CleanListing(r) ==
  /\ seeder[r].step = "clean"
  /\ IF seeder[r].todo = {}
     THEN /\ Seeder(r, [Unseeded EXCEPT !.step = "upsert", !.todo = SeedSlugs])
          /\ UNCHANGED <<seeded, images, cut>>
     ELSE LET s == Current(r) IN
          /\ Seeder(r, [seeder[r] EXCEPT !.todo = @ \ {s}])
          /\ seeded' = seeded \ {s}
          /\ images' = [images EXCEPT ![s] = {}]
          /\ cut' = cut \ {s}
  /\ UNCHANGED <<runs, together, touched, tripped>>

\* update_or_create
UpsertListing(r) ==
  /\ seeder[r].step = "upsert"
  /\ seeded' = seeded \cup {Current(r)}
  /\ Seeder(r, [seeder[r] EXCEPT !.step = "look"])
  /\ UNCHANGED <<images, runs, together, touched, cut, tripped>>

\* Mutation: a listing short of images gets the full set.
LacksImagesToFill(s) == Cardinality(images[s]) < ImageCount

LacksImages(s) == images[s] = {}

LookForImages(r) ==
  /\ seeder[r].step = "look"
  /\ Seeder(r, IF LacksImages(Current(r)) /\ ImageCount > 0 THEN [seeder[r] EXCEPT !.step = "fetch", !.index = 1]
               ELSE NextListing(r))
  /\ UNCHANGED <<seeded, images, runs, together, touched, cut, tripped>>

AfterImage(r, position) ==
  IF seeder[r].index = ImageCount THEN NextListing(r)
  ELSE [seeder[r] EXCEPT !.step = "fetch", !.index = @ + 1, !.position = position]

\* _fetch_image, and default_storage.save if there is one.
FetchImage(r) ==
  /\ seeder[r].step = "fetch"
  /\ \/ Seeder(r, [seeder[r] EXCEPT !.step = "insert"]) /\ UNCHANGED cut
     \/ Seeder(r, AfterImage(r, seeder[r].position)) /\ cut' = cut \cup {Current(r)}
  /\ UNCHANGED <<seeded, images, runs, together, touched, tripped>>

InsertSeedImage(r) ==
  /\ seeder[r].step = "insert"
  /\ LET s == Current(r) IN
     IF s \in seeded /\ seeder[r].position \notin images[s]
     THEN /\ images' = [images EXCEPT ![s] = @ \cup {seeder[r].position}]
          /\ Seeder(r, AfterImage(r, seeder[r].position + 1))
          /\ UNCHANGED <<cut, tripped>>
     ELSE /\ tripped' = TRUE /\ cut' = cut \cup {s}
          /\ Seeder(r, Unseeded)
          /\ UNCHANGED images
  /\ UNCHANGED <<seeded, runs, together, touched>>

\* Killed, or stopped by a PROTECTed listing.
SeedingStops(r) ==
  /\ seeder[r].step # "idle"
  /\ cut' = IF seeder[r].todo = {} THEN cut ELSE cut \cup {Current(r)}
  /\ Seeder(r, Unseeded)
  /\ UNCHANGED <<seeded, images, runs, together, touched, tripped>>

\* Images added, removed and moved, and listings deleted, through the API or the admin site.
TouchImages(s) ==
  /\ s \in seeded
  /\ \E at \in SUBSET Places : images' = [images EXCEPT ![s] = at]
  /\ touched' = touched \cup {s}
  /\ UNCHANGED <<seeded, seeder, runs, together, cut, tripped>>

DeleteSeeded(s) ==
  /\ s \in seeded
  /\ seeded' = seeded \ {s} /\ images' = [images EXCEPT ![s] = {}]
  /\ touched' = touched \cup {s}
  /\ UNCHANGED <<seeder, runs, together, cut, tripped>>

SeedingNext ==
  \/ \E r \in Seeders :
       \/ \E clean \in BOOLEAN : StartSeeding(r, clean)
       \/ CleanListing(r) \/ UpsertListing(r) \/ LookForImages(r) \/ FetchImage(r) \/ InsertSeedImage(r)
       \/ SeedingStops(r)
  \/ \E s \in SeedSlugs : TouchImages(s) \/ DeleteSeeded(s)

SeedingSpec == SeedingInit /\ [][SeedingNext]_seedingVars

(***************************************************************************)
(* Properties.                                                             *)
(***************************************************************************)
\* Rows and runs are well-formed, and only listings have images.
SeedingTypeOK ==
  /\ seeded \subseteq SeedSlugs
  /\ images \in [SeedSlugs -> SUBSET Places]
  /\ \A s \in SeedSlugs : images[s] # {} => s \in seeded
  /\ seeder \in [Seeders -> SeederStates]
  /\ \A r \in Seeders : seeder[r].step \in {"upsert", "look", "fetch", "insert"} => seeder[r].todo # {}
  /\ runs \in 0..MaxRuns
  /\ together \in BOOLEAN /\ tripped \in BOOLEAN
  /\ touched \subseteq SeedSlugs /\ cut \subseteq SeedSlugs

\* "Safe to run multiple times": however often the command was run, killed, or left without some
\* images, a later run alone does not trip over what the earlier ones left behind.
RerunsDoNotCollide == tripped => together \/ touched # {}

\* A listing no run is at has its full set of images, at 0, 1, 2, ..., unless one of them could
\* not be fetched or a run was stopped at it: a set that has got some of its images is completed
\* by --clean only, one that has got none by the next run.
ImagesComplete ==
  \A s \in seeded \ (cut \cup touched) :
    \/ images[s] = 0..(ImageCount - 1)
    \/ \E r \in Seeders : s \in seeder[r].todo
    \/ together

\* What seeding promises of every state.
SeedingSound ==
  /\ SeedingTypeOK
  /\ RerunsDoNotCollide
  /\ ImagesComplete
=============================================================================
