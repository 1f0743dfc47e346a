------------------------------ MODULE Browsing ------------------------------
(***************************************************************************)
(* Walking through a list page by page: the catalogue and the tutors       *)
(* (apps/catalog/views.py, filters.py, models.py, conf/settings.py).  A    *)
(* request drafts what is over, counts the matching rows and reads one     *)
(* page of them, in three statements; the client follows the next links.   *)
(* Rows come, go and change their place meanwhile.  The framework cuts     *)
(* pages; the database is free to order rows that the ORDER BY leaves      *)
(* equal, in every query anew.                                             *)
(***************************************************************************)
EXTENDS Integers, FiniteSets

CONSTANTS
  Cards,          \* rows
  PageSize,
  MaxRank,        \* bound: ranks
  MaxMoves        \* bound: changes of the list during a walk

ASSUME BrowsingAssumption ==
  /\ IsFiniteSet(Cards)
  /\ PageSize \in Nat \ {0} /\ MaxRank \in Nat \ {0} /\ MaxMoves \in Nat

VARIABLES
  rank,           \* [Cards -> place of a public row that matches the filters, or Unlisted]
  sort,           \* "newest" or "rating"
  walk,           \* what the client and its request do next
  seen,           \* [Cards -> pages of the walk the row was on, 2 standing for more]
  stays,          \* rows listed since the walk began
  moves,          \* changes of the list since then
  mishaps         \* history: what has happened to the list since then

browsingVars == <<rank, sort, walk, seen, stays, moves, mishaps>>

Unlisted == 0
Ranks == 1..MaxRank
Listed == {c \in Cards : rank[c] # Unlisted}
WalkStates == [step: {"start", "count", "slice", "done", "lost"}, page: Nat, pages: Nat]
Mishaps == {"came", "left", "moved", "tied", "came in between"}

\* Creation times are distinct; many ratings are equal.
Distinct(at) == \A c, d \in Cards : at[c] # Unlisted /\ at[c] = at[d] => c = d

BrowsingInit ==
  /\ sort \in {"newest", "rating"}
  /\ rank \in [Cards -> Ranks \cup {Unlisted}]
  /\ sort = "newest" => Distinct(rank)
  /\ walk = [step |-> "start", page |-> 1, pages |-> 0]
  /\ seen = [c \in Cards |-> 0]
  /\ stays = Listed
  /\ moves = 0
  /\ mishaps = IF Distinct(rank) THEN {} ELSE {"tied"}

(***************************************************************************)
(* The client and its requests.                                            *)
(***************************************************************************)
\* ListingViewSet.list drafts the events that are over by now.
ExpireRows ==
  /\ walk.step = "start"
  /\ \E over \in SUBSET Listed :
       /\ Cardinality(over) <= MaxMoves - moves
       /\ rank' = [c \in Cards |-> IF c \in over THEN Unlisted ELSE rank[c]]
       /\ stays' = stays \ over
       /\ moves' = moves + Cardinality(over)
       /\ mishaps' = IF over = {} THEN mishaps ELSE mishaps \cup {"left"}
  /\ walk' = [walk EXCEPT !.step = "count"]
  /\ UNCHANGED <<sort, seen>>

NumPages == IF Listed = {} THEN 1 ELSE ((Cardinality(Listed) - 1) \div PageSize) + 1

\* A page beyond the last one is a 404.
CountRows ==
  /\ walk.step = "count"
  /\ walk' = IF walk.page > NumPages THEN [walk EXCEPT !.step = "lost"]
             ELSE [walk EXCEPT !.step = "slice", !.pages = NumPages]
  /\ UNCHANGED <<rank, sort, seen, stays, moves, mishaps>>

Precedes(c, d) == rank[c] >= rank[d]

Until(n) == IF n < Cardinality(Listed) THEN n ELSE Cardinality(Listed)

\* Some order of the rows that the ORDER BY allows starts with first, then page.
Slice(first, page) ==
  /\ Cardinality(first) = Until((walk.page - 1) * PageSize)
  /\ page \subseteq Listed \ first
  /\ Cardinality(first \cup page) = Until(walk.page * PageSize)
  /\ \A c \in first, d \in Listed \ first : Precedes(c, d)
  /\ \A c \in page, d \in Listed \ (first \cup page) : Precedes(c, d)

ReadPage ==
  /\ walk.step = "slice"
  /\ \E first \in SUBSET Listed, page \in SUBSET Listed :
       /\ Slice(first, page)
       /\ seen' = [c \in Cards |-> IF c \in page /\ seen[c] < 2 THEN seen[c] + 1 ELSE seen[c]]
  /\ walk' = IF walk.page < walk.pages THEN [walk EXCEPT !.step = "start", !.page = @ + 1]
             ELSE [walk EXCEPT !.step = "done"]
  /\ UNCHANGED <<rank, sort, stays, moves, mishaps>>

(***************************************************************************)
(* Everybody else.                                                         *)
(***************************************************************************)
Under == IF walk.step = "slice" THEN {"came", "came in between"} ELSE {"came"}
Move(c, place, what) ==
  /\ walk.step \in {"start", "count", "slice"} /\ moves < MaxMoves
  /\ rank' = [rank EXCEPT ![c] = place]
  /\ sort = "newest" => Distinct(rank')
  /\ moves' = moves + 1
  /\ mishaps' = mishaps \cup what \cup (IF Distinct(rank') THEN {} ELSE {"tied"})
  /\ UNCHANGED <<sort, walk, seen>>

\* A listing is approved, or matches by now: its place is that of its creation or its rating.
RowComes(c) ==
  /\ c \notin Listed
  /\ \E place \in Ranks : Move(c, place, Under)
  /\ UNCHANGED stays

RowLeaves(c) ==
  /\ c \in Listed
  /\ Move(c, Unlisted, {"left"})
  /\ stays' = stays \ {c}

\* A new rating, or is_featured, which comes first in the default order.
RowMoves(c) ==
  /\ c \in Listed
  /\ \E place \in Ranks \ {rank[c]} : Move(c, place, {"moved"})
  /\ UNCHANGED stays

BrowsingNext ==
  \/ ExpireRows \/ CountRows \/ ReadPage
  \/ \E c \in Cards : RowComes(c) \/ RowLeaves(c) \/ RowMoves(c)

BrowsingSpec == BrowsingInit /\ [][BrowsingNext]_browsingVars

(***************************************************************************)
(* Properties.                                                             *)
(***************************************************************************)
\* List, walk and histories are well-formed.
BrowsingTypeOK ==
  /\ rank \in [Cards -> Ranks \cup {Unlisted}]
  /\ sort \in {"newest", "rating"}
  /\ sort = "newest" => Distinct(rank)
  /\ walk \in WalkStates
  /\ seen \in [Cards -> 0..2]
  /\ stays \subseteq Listed
  /\ moves \in 0..MaxMoves /\ mishaps \subseteq Mishaps

\* Who walks to the end has seen every row that was listed all the while, unless a row left or
\* moved meanwhile, rows are equal for the ORDER BY, or a row came between the count and the
\* slice of one request; rows that merely come make nobody miss one.
NothingMissed ==
  walk.step = "done" =>
    \/ \A c \in stays : seen[c] > 0
    \/ mishaps \cap {"left", "moved", "tied", "came in between"} # {}

\* No row is shown twice, unless a row came or moved meanwhile, or rows are equal; rows that
\* merely leave repeat nothing.
NothingRepeated ==
  (\A c \in Cards : seen[c] < 2) \/ mishaps \cap {"came", "moved", "tied"} # {}

\* A walk ends with a 404 only if a row has left.
NothingBeyond == walk.step = "lost" => "left" \in mishaps

\* What a walk through the pages promises of every state.
BrowsingSound ==
  /\ BrowsingTypeOK
  /\ NothingMissed
  /\ NothingRepeated
  /\ NothingBeyond
=============================================================================
