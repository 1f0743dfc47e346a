------------------------------ MODULE Distances ------------------------------
(***************************************************************************)
(* How far away a listing is (apps/catalog/services.py, views.py): the     *)
(* driving distance of one listing, asked of a routing service and cached  *)
(* for an hour under rounded coordinates, and the parameters of a search   *)
(* by distance.  Coordinates are points of a line, and a cell is what      *)
(* rounding an origin leaves.  Routing service, cache and the form of the  *)
(* filters are external.                                                   *)
(***************************************************************************)
EXTENDS Integers, FiniteSets

CONSTANTS
  Visits,         \* requests for the listing's page that can be under way at the same time
  MaxPoint,       \* bound: points
  Sites,          \* points the listing is moved to
  CacheTTL,       \* ORS_CACHE_TTL, in ticks
  MaxTicks        \* bound: ticks

ASSUME DistancesAssumption == MaxPoint \in Nat /\ Sites \subseteq 0..MaxPoint /\ CacheTTL \in Nat \ {0} /\ MaxTicks \in Nat

VARIABLES
  place,          \* point of the listing, or NoPlace
  tick,
  routes,         \* cached distances: [key, km, asked, until]
  visit,          \* [Visits -> the request under way]
  told,           \* the distance the last step has shown, and what it was meant to be
  repeated,       \* history: the service answered, to a request alone, what the cache held
  search          \* the last search by distance: its parameters and its answer

distancesVars == <<place, tick, routes, visit, told, repeated, search>>

Points == 0..MaxPoint
NoPlace == -1
\* An origin beyond the range of a coordinate, or not finite.
OffMap == MaxPoint + 1
Origins == Points \cup {OffMap}
Spots == Sites \cup {NoPlace}
NoKm == -1
Kms == -1..(2 * MaxPoint)
\* The way there is not the way back.
Way(a, b) == IF a < b THEN b - a ELSE 2 * (a - b)

\* {:.3f} of the origin, {:.5f} of the destination.
Cell(o) == o \div 2
CacheKeys == {Cell(o) : o \in Points} \X Sites

\* Mutation: the destination is not part of the key.
KeyOfOrigin(o, d) == <<Cell(o), 0>>

KeyOf(o, d) == <<Cell(o), d>>

VisitStates == [step: {"idle", "asking"}, origin: Origins, dest: Spots, asked: 0..MaxTicks, late: BOOLEAN, beside: BOOLEAN]
NoVisit == [step |-> "idle", origin |-> 0, dest |-> NoPlace, asked |-> 0, late |-> FALSE, beside |-> FALSE]
Routes == [key: CacheKeys, km: Kms \ {NoKm}, asked: 0..MaxTicks, until: 0..(MaxTicks + CacheTTL), late: BOOLEAN]
NothingTold == [origin |-> 0, dest |-> NoPlace, km |-> NoKm, age |-> 0, late |-> FALSE]
Tellings == [origin: Origins, dest: Spots, km: Kms, age: 0..MaxTicks, late: BOOLEAN]

\* A parameter is missing, empty, a number, or something else.
Texts == {"absent", "empty", "number", "words"}
Sorts == {"distance", "other"}
Searches == [lat: Texts, lng: Texts, within: Texts, sort: Sorts]
Answers == {"none", "by distance", "default order", "400", "500"}
NoSearch == [asked |-> [lat |-> "absent", lng |-> "absent", within |-> "absent", sort |-> "other"], answer |-> "none"]

DistancesInit ==
  /\ place \in Spots
  /\ tick = 0 /\ routes = {}
  /\ visit = [v \in Visits |-> NoVisit]
  /\ told = NothingTold
  /\ repeated = FALSE
  /\ search = NoSearch

(***************************************************************************)
(* The page of a listing.                                                  *)
(***************************************************************************)
Visit(v, state) == visit' = [visit EXCEPT ![v] = state]
Tell(o, d, km, age, late) == told' = [origin |-> o, dest |-> d, km |-> km, age |-> age, late |-> late]

Routable(o, d) == d # NoPlace /\ o # OffMap
Cached(o, d) == {r \in routes : r.key = KeyOf(o, d) /\ r.until > tick}

\* Nothing to ask for: the distance is null.
SkipDistance(v, o) ==
  /\ visit[v].step = "idle" /\ ~Routable(o, place)
  /\ Tell(o, place, NoKm, 0, FALSE)
  /\ UNCHANGED <<place, tick, routes, visit, repeated, search>>

\* retrieve loads the listing; `cached is not None`: a distance of zero is one.
HitCache(v, o) ==
  /\ visit[v].step = "idle" /\ Routable(o, place)
  /\ \E r \in Cached(o, place) : Tell(o, place, r.km, tick - r.asked, r.late)
  /\ UNCHANGED <<place, tick, routes, visit, repeated, search>>

MissCache(v, o) ==
  /\ visit[v].step = "idle" /\ Routable(o, place)
  /\ Cached(o, place) = {}
  /\ LET others == {w \in Visits \ {v} : visit[w].step = "asking"} IN
     visit' = [w \in Visits |->
       IF w = v THEN [NoVisit EXCEPT !.step = "asking", !.origin = o, !.dest = place, !.asked = tick,
                                     !.beside = others # {}]
       ELSE IF w \in others THEN [visit[w] EXCEPT !.beside = TRUE] ELSE visit[w]]
  /\ told' = NothingTold
  /\ UNCHANGED <<place, tick, routes, repeated, search>>

\* The service has answered within the hour, for this cell and place.
AnsweredBefore(o, d) ==
  \E r \in routes : Cell(o) = r.key[1] /\ d = r.key[2] /\ tick < r.asked + CacheTTL

\* httpx.post answers, and the answer is cached from now on for an hour.
RouteAnswers(v) ==
  /\ visit[v].step = "asking"
  /\ LET o == visit[v].origin
         d == visit[v].dest
     IN
     /\ routes' = {r \in routes : r.key # KeyOf(o, d)} \cup
          {[key |-> KeyOf(o, d), km |-> Way(o, d), asked |-> visit[v].asked, until |-> tick + CacheTTL,
            late |-> visit[v].late]}
     /\ Tell(o, d, Way(o, d), tick - visit[v].asked, visit[v].late)
     /\ repeated' = (repeated \/ (~visit[v].beside /\ AnsweredBefore(o, d)))
  /\ Visit(v, NoVisit)
  /\ UNCHANGED <<place, tick, search>>

\* One of many errors: None, which is not cached.
RouteFails(v) ==
  /\ visit[v].step = "asking"
  /\ Tell(visit[v].origin, visit[v].dest, NoKm, 0, FALSE)
  /\ Visit(v, NoVisit)
  /\ UNCHANGED <<place, tick, routes, repeated, search>>

(***************************************************************************)
(* Meanwhile.                                                              *)
(***************************************************************************)
MovePlace ==
  /\ place' \in Spots \ {place}
  /\ told' = NothingTold
  /\ UNCHANGED <<tick, routes, visit, repeated, search>>

\* A request that has asked is late once the clock goes on, and what has expired is gone.
Ticks ==
  /\ tick < MaxTicks
  /\ tick' = tick + 1
  /\ visit' = [v \in Visits |->
       IF visit[v].step # "idle" THEN [visit[v] EXCEPT !.late = TRUE] ELSE visit[v]]
  /\ routes' = {r \in routes : r.until > tick + 1}
  /\ told' = NothingTold
  /\ UNCHANGED <<place, repeated, search>>

\* The cache is restarted or short of memory.
Evict ==
  /\ routes # {}
  /\ \E r \in routes : routes' = routes \ {r}
  /\ told' = NothingTold
  /\ UNCHANGED <<place, tick, visit, repeated, search>>

(***************************************************************************)
(* A search.                                                               *)
(***************************************************************************)
\* lat is set before lng is parsed.
LatParsed(s) == s.lat = "number" /\ s.lng # "absent"
Annotated(s) == LatParsed(s) /\ s.lng = "number"

\* get_queryset raises a FieldError: it filters or sorts by a column it did not annotate.
Raises(s) == LatParsed(s) /\ ~Annotated(s) /\ (s.within = "number" \/ s.sort = "distance")

\* The filter's form refuses what is neither empty nor a number, after get_queryset.
RefusedByForm(s) == "words" \in {s.lat, s.lng, s.within}

AnswerTo(s) ==
  IF Raises(s) THEN "500"
  ELSE IF RefusedByForm(s) THEN "400"
  ELSE IF s.sort = "distance" /\ LatParsed(s) THEN "by distance" ELSE "default order"

SearchByDistance ==
  /\ \E s \in Searches : search' = [asked |-> s, answer |-> AnswerTo(s)]
  /\ UNCHANGED <<place, tick, routes, visit, told, repeated>>

VisitNext ==
  \/ \E v \in Visits :
       \/ \E o \in Origins : SkipDistance(v, o) \/ HitCache(v, o) \/ MissCache(v, o)
       \/ RouteAnswers(v) \/ RouteFails(v)
  \/ MovePlace \/ Ticks \/ Evict

DistancesNext == VisitNext \/ SearchByDistance

DistancesSpec == DistancesInit /\ [][DistancesNext]_distancesVars

(***************************************************************************)
(* Properties.                                                             *)
(***************************************************************************)
\* Cache, requests and answers are well-formed; a key is cached once.
DistancesTypeOK ==
  /\ place \in Spots /\ tick \in 0..MaxTicks
  /\ routes \subseteq Routes
  /\ \A r, q \in routes : r.key = q.key => r = q
  /\ visit \in [Visits -> VisitStates]
  /\ told \in Tellings
  /\ repeated \in BOOLEAN
  /\ search.asked \in Searches /\ search.answer \in Answers

\* However often the listing moved while its distances were cached, a visitor is told the way
\* from some point that rounds like his to the place his request has loaded, or nothing.
TrueOfPlace ==
  told.km # NoKm =>
    \E o \in Points : Cell(o) = Cell(told.origin) /\ told.km = Way(o, told.dest)

\* A distance is no older than the hour, unless its own call to the service was slow: it is
\* stored for an hour from the answer, and it dates from the question.
NotOlderThanTTL == told.km = NoKm \/ told.late \/ told.age < CacheTTL

\* "Keeps repeat lookups cheap and shields the ORS quota": of what the cache holds the service
\* is asked again within the hour only by requests to it that overlap.
QuotaShielded == ~repeated

\* A search is answered, with 400 at worst, unless its latitude is a number and its longitude
\* is not; what is sorted by distance has both.
SearchesAnswered ==
  /\ search.answer = "500" => search.asked.lat = "number" /\ search.asked.lng \in {"empty", "words"}
  /\ search.answer = "by distance" => search.asked.lat = "number" /\ search.asked.lng = "number"

\* What distances promise of every state.
DistancesSound ==
  /\ DistancesTypeOK
  /\ TrueOfPlace
  /\ NotOlderThanTTL
  /\ QuotaShielded
  /\ SearchesAnswered
=============================================================================
