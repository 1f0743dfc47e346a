---------------------------- MODULE Subscriptions ----------------------------
(***************************************************************************)
(* Subscriptions of families to one masterclass (apps/subscriptions).  The *)
(* service looks for a confirmed row and inserts one in two statements; a  *)
(* conditional unique constraint has the last word.  Cancelled rows stay.  *)
(***************************************************************************)
EXTENDS Integers, FiniteSets

CONSTANTS
  Families,
  Subs,            \* ids of the rows
  Bookings,        \* requests that can be under way at the same time
  StatusByHand     \* the admin's form is used

ASSUME SubscriptionsAssumption == StatusByHand \in BOOLEAN

VARIABLES
  sub,             \* [Subs -> row]
  offered,         \* the listing is an ACTIVE masterclass with an owner
  booking,         \* [Bookings -> the request under way]
  alongside,       \* history: two requests of one family overlapped
  refused          \* history: the constraint has refused an insert

subscriptionsVars == <<sub, offered, booking, alongside, refused>>

SubStatus == {"free", "CONFIRMED", "CANCELLED", "gone"}
NoFamily == "nobody"
SubRows == [status: SubStatus, family: Families \cup {NoFamily}, stamped: BOOLEAN, edited: BOOLEAN]
FreeSub == [status |-> "free", family |-> NoFamily, stamped |-> FALSE, edited |-> FALSE]
NoSub == "none"
BookingStates == [step: {"idle", "check", "insert", "cancel", "edit"},
                  family: Families \cup {NoFamily}, sub: Subs \cup {NoSub}]
NoBooking == [step |-> "idle", family |-> NoFamily, sub |-> NoSub]

SubscriptionsInit ==
  /\ sub = [s \in Subs |-> FreeSub]
  /\ offered = FALSE
  /\ booking = [b \in Bookings |-> NoBooking]
  /\ alongside = FALSE /\ refused = FALSE

Book(b, state) == booking' = [booking EXCEPT ![b] = state]
Confirmed(f) == {s \in Subs : sub[s].status = "CONFIRMED" /\ sub[s].family = f}
Others(b, f) == \E c \in Bookings \ {b} : booking[c].family = f

\* create loads the listing; what create_subscription refuses of it ends the request here.
LoadListing(b, f) ==
  /\ booking[b].step = "idle"
  /\ offered
  /\ Book(b, [NoBooking EXCEPT !.step = "check", !.family = f])
  /\ alongside' = (alongside \/ Others(b, f))
  /\ UNCHANGED <<sub, offered, refused>>

\* Mutation: the wrong status is looked for.
FreeOfCancelled(f) == \A s \in Subs : sub[s].family = f => sub[s].status # "CANCELLED"

FreeToBook(f) == Confirmed(f) = {}

\* exists(), or the 409.
CheckFree(b) ==
  /\ booking[b].step = "check"
  /\ Book(b, IF FreeToBook(booking[b].family) THEN [booking[b] EXCEPT !.step = "insert"] ELSE NoBooking)
  /\ UNCHANGED <<sub, offered, alongside, refused>>

InsertSub(b) ==
  /\ booking[b].step = "insert"
  /\ Confirmed(booking[b].family) = {}
  /\ \E s \in Subs :
       /\ sub[s].status = "free"
       /\ sub' = [sub EXCEPT ![s] = [FreeSub EXCEPT !.status = "CONFIRMED", !.family = booking[b].family]]
  /\ Book(b, NoBooking)
  /\ UNCHANGED <<offered, alongside, refused>>

\* unique_active_subscription: an IntegrityError nobody catches.
InsertSubRefused(b) ==
  /\ booking[b].step = "insert"
  /\ Confirmed(booking[b].family) # {}
  /\ Book(b, NoBooking)
  /\ refused' = TRUE
  /\ UNCHANGED <<sub, offered, alongside>>

\* destroy loads any of the family's rows, also a cancelled one.
LoadSub(b, s) ==
  /\ booking[b].step = "idle"
  /\ sub[s].status \in {"CONFIRMED", "CANCELLED"}
  /\ Book(b, [NoBooking EXCEPT !.step = "cancel", !.family = sub[s].family, !.sub = s])
  /\ alongside' = (alongside \/ Others(b, sub[s].family))
  /\ UNCHANGED <<sub, offered, refused>>

Cancelled(s) == [sub[s] EXCEPT !.status = "CANCELLED", !.stamped = TRUE]

CancelSub(b) ==
  /\ booking[b].step = "cancel"
  /\ sub[booking[b].sub].status # "gone"
  /\ sub' = [sub EXCEPT ![booking[b].sub] = Cancelled(booking[b].sub)]
  /\ Book(b, NoBooking)
  /\ UNCHANGED <<offered, alongside, refused>>

\* The admin's change form shows a row ...
ShowSub(b, s) ==
  /\ StatusByHand
  /\ booking[b].step = "idle"
  /\ sub[s].status \in {"CONFIRMED", "CANCELLED"}
  /\ Book(b, [NoBooking EXCEPT !.step = "edit", !.family = sub[s].family, !.sub = s])
  /\ alongside' = (alongside \/ Others(b, sub[s].family))
  /\ UNCHANGED <<sub, offered, refused>>

\* ... and writes status and cancelled_at as the form has them when it is submitted; a full
\* save, which inserts the row again if it was deleted.
SaveSub(b) ==
  /\ booking[b].step = "edit"
  /\ \E st \in {"CONFIRMED", "CANCELLED"}, stamp \in BOOLEAN :
       LET s == booking[b].sub IN
       /\ st = "CONFIRMED" => Confirmed(booking[b].family) \subseteq {s}
       /\ sub' = [sub EXCEPT ![s] = [@ EXCEPT !.status = st, !.stamped = stamp, !.edited = TRUE]]
  /\ Book(b, NoBooking)
  /\ UNCHANGED <<offered, alongside, refused>>

\* Nothing refers to a subscription: the admin site may delete it.
DeleteSub(s) ==
  /\ StatusByHand
  /\ sub[s].status \in {"CONFIRMED", "CANCELLED"}
  /\ sub' = [sub EXCEPT ![s].status = "gone"]
  /\ UNCHANGED <<offered, booking, alongside, refused>>

\* A form refused or left, a process killed, a 404.
DropBooking(b) ==
  /\ booking[b].step # "idle"
  /\ Book(b, NoBooking)
  /\ UNCHANGED <<sub, offered, alongside, refused>>

\* The listing is published, drafted, given to somebody else or to nobody.
OfferChanges ==
  /\ offered' = ~offered
  /\ UNCHANGED <<sub, booking, alongside, refused>>

SubscriptionsNext ==
  \/ \E b \in Bookings :
       \/ \E f \in Families : LoadListing(b, f)
       \/ \E s \in Subs : LoadSub(b, s) \/ ShowSub(b, s)
       \/ CheckFree(b) \/ InsertSub(b) \/ InsertSubRefused(b) \/ CancelSub(b) \/ SaveSub(b)
       \/ DropBooking(b)
  \/ \E s \in Subs : DeleteSub(s)
  \/ OfferChanges

SubscriptionsSpec == SubscriptionsInit /\ [][SubscriptionsNext]_subscriptionsVars

(***************************************************************************)
(* Properties.                                                             *)
(***************************************************************************)
\* Rows and requests are well-formed, and a family has at most one confirmed row.
SubscriptionsTypeOK ==
  /\ sub \in [Subs -> SubRows]
  /\ offered \in BOOLEAN /\ alongside \in BOOLEAN /\ refused \in BOOLEAN
  /\ booking \in [Bookings -> BookingStates]
  /\ \A s, t \in Subs : sub[s].family = sub[t].family
       /\ sub[s].status = "CONFIRMED" /\ sub[t].status = "CONFIRMED" => s = t

\* The family sees the uncaught IntegrityError instead of the 409 only when two requests about
\* its bookings overlapped: the check before the insert (services.py) covers all else.
RefusalNeedsOverlap == refused => alongside

\* The rows kept for audit say when they were cancelled, and only they do, through any
\* repeated or overlapping cancellations, unless somebody edited them in the admin site.
CancelledIsStamped ==
  \A s \in Subs : sub[s].status \in {"CONFIRMED", "CANCELLED"} /\ ~sub[s].edited =>
    (sub[s].stamped <=> sub[s].status = "CANCELLED")

\* What the subscriptions of a family promise of every state.
SubscriptionsSound ==
  /\ SubscriptionsTypeOK
  /\ RefusalNeedsOverlap
  /\ CancelledIsStamped
=============================================================================
