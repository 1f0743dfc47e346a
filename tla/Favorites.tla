----------------------------- MODULE Favorites -----------------------------
(***************************************************************************)
(* The favorites of one listing (apps/favorites): rows that families       *)
(* create and delete, each in a check or a load and a write of its own,    *)
(* under a unique constraint of family and listing.  Marking a listing     *)
(* twice is refused by the constraint alone (an uncaught IntegrityError).  *)
(* Favorite.__str__ returns no string, so every admin page that shows a    *)
(* favorite raises: the admin site cannot touch one, nor delete a listing  *)
(* that has one, since the confirmation lists what would go with it.       *)
(* Families stay.                                                          *)
(***************************************************************************)
EXTENDS Integers

CONSTANTS
  Fans,           \* families
  Taps,           \* requests that can be under way at the same time
  MaxFavorites    \* bound: favorites created

ASSUME FavoritesAssumption == MaxFavorites \in Nat

VARIABLES
  listingThere,   \* the row of the listing exists
  favorite,       \* [Fans -> id of the favorite]; 0: none
  tap,            \* [Taps -> what the request does next]
  marks,          \* favorites created so far; their ids are 1..marks
  mislaid         \* history: favorites removed by a request that had loaded another one

favoritesVars == <<listingThere, favorite, tap, marks, mislaid>>

FavoriteIds == 1..MaxFavorites
NoTap == [step |-> "idle"]
TapStates ==
  {NoTap} \cup [step: {"mark"}, fan: Fans] \cup [step: {"unmark"}, fan: Fans, id: FavoriteIds]

FavoritesInit ==
  /\ listingThere = TRUE
  /\ favorite = [f \in Fans |-> 0]
  /\ tap = [t \in Taps |-> NoTap]
  /\ marks = 0
  /\ mislaid = {}

\* The serializer finds the listing, whatever its status, and looks for no favorite.
StartMark(t, f) ==
  /\ tap[t] = NoTap
  /\ listingThere
  /\ tap' = [tap EXCEPT ![t] = [step |-> "mark", fan |-> f]]
  /\ UNCHANGED <<listingThere, favorite, marks, mislaid>>

InsertMark(t) ==
  /\ tap[t].step = "mark"
  /\ listingThere /\ favorite[tap[t].fan] = 0
  /\ marks < MaxFavorites
  /\ favorite' = [favorite EXCEPT ![tap[t].fan] = marks + 1]
  /\ marks' = marks + 1
  /\ tap' = [tap EXCEPT ![t] = NoTap]
  /\ UNCHANGED <<listingThere, mislaid>>

\* The unique constraint or the foreign key.
RefuseMark(t) ==
  /\ tap[t].step = "mark"
  /\ ~listingThere \/ favorite[tap[t].fan] # 0
  /\ tap' = [tap EXCEPT ![t] = NoTap]
  /\ UNCHANGED <<listingThere, favorite, marks, mislaid>>

\* The lookup is by listing, among the caller's own.
StartUnmark(t, f) ==
  /\ tap[t] = NoTap
  /\ favorite[f] # 0
  /\ tap' = [tap EXCEPT ![t] = [step |-> "unmark", fan |-> f, id |-> favorite[f]]]
  /\ UNCHANGED <<listingThere, favorite, marks, mislaid>>

\* Mutation: the favorite of the listing goes, whichever it is by now.
RemovedByListing(t) == [favorite EXCEPT ![tap[t].fan] = 0]

\* The deletion is by the primary key.
Removed(t) ==
  [favorite EXCEPT ![tap[t].fan] = IF @ = tap[t].id THEN 0 ELSE @]

DeleteMark(t) ==
  /\ tap[t].step = "unmark"
  /\ favorite' = Removed(t)
  /\ mislaid' = IF favorite' # favorite THEN mislaid \cup ({favorite[tap[t].fan]} \ {tap[t].id}) ELSE mislaid
  /\ tap' = [tap EXCEPT ![t] = NoTap]
  /\ UNCHANGED <<listingThere, marks>>

TapDies(t) ==
  /\ tap[t] # NoTap
  /\ tap' = [tap EXCEPT ![t] = NoTap]
  /\ UNCHANGED <<listingThere, favorite, marks, mislaid>>

\* The admin's deletion of a listing, which raises over a favorite of it.
DeleteListing ==
  /\ listingThere
  /\ \A f \in Fans : favorite[f] = 0
  /\ listingThere' = FALSE
  /\ UNCHANGED <<favorite, tap, marks, mislaid>>

\* The owner's DELETE and the --clean of seed_catalog: the favorites go with the listing.
RemoveListing ==
  /\ listingThere
  /\ listingThere' = FALSE
  /\ favorite' = [f \in Fans |-> 0]
  /\ UNCHANGED <<tap, marks, mislaid>>

\* The commands that seed and import create it again under the same id; with --clean an import
\* deletes it before, in the same transaction.
ImportListing(clean) ==
  /\ clean \/ ~listingThere
  /\ listingThere' = TRUE
  /\ favorite' = IF clean THEN [f \in Fans |-> 0] ELSE favorite
  /\ UNCHANGED <<tap, marks, mislaid>>

FavoritesNext ==
  \/ DeleteListing \/ RemoveListing
  \/ \E clean \in BOOLEAN : ImportListing(clean)
  \/ \E t \in Taps : InsertMark(t) \/ RefuseMark(t) \/ DeleteMark(t) \/ TapDies(t)
  \/ \E t \in Taps, f \in Fans : StartMark(t, f) \/ StartUnmark(t, f)

FavoritesSpec == FavoritesInit /\ [][FavoritesNext]_favoritesVars

(***************************************************************************)
(* Properties.                                                             *)
(***************************************************************************)
\* Rows and requests are well-formed; no two favorites share an id.
FavoritesTypeOK ==
  /\ listingThere \in BOOLEAN
  /\ favorite \in [Fans -> 0..marks] /\ marks \in 0..MaxFavorites
  /\ \A f, g \in Fans : favorite[f] = favorite[g] /\ favorite[f] # 0 => f = g
  /\ tap \in [Taps -> TapStates]
  /\ mislaid \subseteq FavoriteIds

\* A favorite is of a listing that exists, also when a request that has found the listing
\* inserts after its deletion.
FavoriteOfListing == (\E f \in Fans : favorite[f] # 0) => listingThere

\* A family that unmarks a listing, or has done so twice, and marks it again keeps the new mark:
\* a slow request removes the favorite it has loaded and no newer one.
NewMarkStays == mislaid = {}

\* What the favorites promise of every state.
FavoritesSound ==
  /\ FavoritesTypeOK
  /\ FavoriteOfListing
  /\ NewMarkStays
=============================================================================
