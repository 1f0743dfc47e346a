--------------------------- MODULE Catalogue_proofs ---------------------------
(***************************************************************************)
(* Proofs about the parts of the catalogue: forms, contacts, bookings,     *)
(* requests, disclosure, seeding, tags, the searches by distance and by    *)
(* pages, and the images of a listing; for any number of requests, rows    *)
(* and runs. The components share no variable, so each section strengthens *)
(* what its module promises to an inductive invariant and proves it for    *)
(* that module's specification; at the end, each property the run of       *)
(* MCCatalogue checks follows for its specification.                       *)
(***************************************************************************)
EXTENDS MCCatalogue, FiniteSetTheorems, TLAPS

(***************************************************************************)
(* The form of a listing (ListingForms).  FormsSound is inductive as it    *)
(* stands: each check of the serializer looks at the merged row whenever   *)
(* one of its columns was sent, and a column not sent is as it was.        *)
(***************************************************************************)

\* Hours of the clock are numbers, and a row without a date has 0.
LEMMA DatesAreNumbers == 0 \in Dates /\ Dates \subseteq Nat
  BY FormsAssumption DEF FormsAssumption, Dates

\* A row that was not written before has the fields of one, and none of a masterclass.
LEMMA FieldsOfForms ==
  ASSUME FormsTypeOK
  PROVE  /\ form.category \in Categories \cup {"none"}
         /\ form.online \in BOOLEAN /\ form.url \in BOOLEAN /\ form.place \in BOOLEAN
         /\ form.type \in {"ONGOING", "ONE_TIME"} /\ form.starts \in Nat
<1>1. CASE form \in Forms
  BY <1>1, DatesAreNumbers DEF Forms
<1>2. CASE form = NoForm
  BY <1>2 DEF NoForm
<1> QED
  BY <1>1, <1>2 DEF FormsTypeOK

\* Other categories keep neither a link nor a date.
LEMMA PlainForms ==
  ASSUME NEW merged \in Forms
  PROVE  /\ Plain(merged) \in Forms
         /\ Plain(merged).category = merged.category
         /\ ~Plain(merged).online /\ Plain(merged).type = "ONGOING" /\ Plain(merged).starts = 0
         /\ Plain(merged).place = merged.place
  BY DatesAreNumbers DEF Plain, Forms

\* A POST is checked whole.
LEMMA CreateFormHolds ==
  ASSUME FormsSound, CreateForm
  PROVE  FormsSound'
<1>1. PICK new \in Forms : Submit(FALSE, Fields, new)
  BY DEF CreateForm
<1>2. UNCHANGED <<clock, byHand, recategorised>>
  BY DEF CreateForm
<1>3. clock \in Nat
  BY FormsAssumption DEF FormsAssumption, FormsSound, FormsTypeOK
<1>4. CASE new.category # "MASTERCLASSES"
  <2>1. form' = Plain(new)
    BY <1>1, <1>4 DEF Submit
  <2> QED
    BY <2>1, <1>2, <1>4, PlainForms
    DEF FormsSound, FormsTypeOK, OnlineHasUrl, OnlyMasterclassesDated, UndatedOnlyByHand,
        PlacelessHasCause
<1>5. CASE new.category = "MASTERCLASSES"
  <2>1. form' = new
    BY <1>1, <1>5 DEF Submit
  <2>2. (new.online => new.url) /\ (~new.online => new.place) /\ new.starts > clock
    BY <1>1, <1>5 DEF Submit, OnlineChecked, PlaceChecked, DateChecked, Touches
  <2>3. new.starts # 0
    BY <2>2, <1>3
  <2> QED
    BY <2>1, <2>2, <2>3, <1>2, <1>5
    DEF FormsSound, FormsTypeOK, OnlineHasUrl, OnlyMasterclassesDated, UndatedOnlyByHand,
        PlacelessHasCause
<1> QED
  BY <1>4, <1>5

\* A PATCH is checked as far as it sends, and keeps what it does not send.
LEMMA PatchFormHolds ==
  ASSUME FormsSound, PatchForm
  PROVE  FormsSound'
<1>1. PICK merged \in Forms : \E unsent \in SUBSET {f \in Fields : merged[f] = form[f]} :
        Submit(TRUE, Fields \ unsent, merged)
  BY DEF PatchForm
<1>2. PICK unsent \in SUBSET {f \in Fields : merged[f] = form[f]} :
        Submit(TRUE, Fields \ unsent, merged)
  BY <1>1
<1>3. UNCHANGED <<clock, byHand>>
      /\ recategorised' = (recategorised \/ form.category # form'.category)
  BY DEF PatchForm
<1>4. clock \in Nat /\ recategorised' \in BOOLEAN
  BY <1>3, FormsAssumption DEF FormsAssumption, FormsSound, FormsTypeOK
<1>5. CASE merged.category # "MASTERCLASSES"
  <2>1. form' = Plain(merged)
    BY <1>2, <1>5 DEF Submit
  <2> QED
    BY <2>1, <1>3, <1>4, <1>5, PlainForms
    DEF FormsSound, FormsTypeOK, OnlineHasUrl, OnlyMasterclassesDated, UndatedOnlyByHand,
        PlacelessHasCause
<1>6. CASE merged.category = "MASTERCLASSES"
  <2>1. form' = merged
    BY <1>2, <1>6 DEF Submit
  <2>2. \A f \in Fields : f \notin Fields \ unsent => merged[f] = form[f]
    OBVIOUS
  <2>3. merged.online => merged.url
    <3>1. CASE Touches(TRUE, Fields \ unsent, {"online", "url"})
      BY <3>1, <1>2, <1>6 DEF Submit, OnlineChecked
    <3>2. CASE ~Touches(TRUE, Fields \ unsent, {"online", "url"})
      <4>1. merged.online = form.online /\ merged.url = form.url
        BY <3>2, <2>2 DEF Touches, Fields
      <4> QED
        BY <4>1 DEF FormsSound, OnlineHasUrl
    <3> QED
      BY <3>1, <3>2
  <2>4. merged.starts = 0 => byHand
    <3>1. CASE Touches(TRUE, Fields \ unsent, {"category", "type", "starts"})
      BY <3>1, <1>2, <1>4, <1>6 DEF Submit, DateChecked
    <3>2. CASE ~Touches(TRUE, Fields \ unsent, {"category", "type", "starts"})
      <4>1. merged.category = form.category /\ merged.starts = form.starts
        BY <3>2, <2>2 DEF Touches, Fields
      <4> QED
        BY <4>1, <1>6 DEF FormsSound, UndatedOnlyByHand
    <3> QED
      BY <3>1, <3>2
  <2>5. ~merged.online /\ ~merged.place => byHand \/ recategorised'
    <3>1. CASE Touches(TRUE, Fields \ unsent, {"online", "place"})
      BY <3>1, <1>2, <1>6 DEF Submit, PlaceChecked
    <3>2. CASE ~Touches(TRUE, Fields \ unsent, {"online", "place"})
      <4>1. merged.online = form.online /\ merged.place = form.place
        BY <3>2, <2>2 DEF Touches, Fields
      <4> QED
        BY <4>1, <2>1, <1>3, <1>6 DEF FormsSound, PlacelessHasCause
    <3> QED
      BY <3>1, <3>2
  <2> QED
    BY <2>1, <2>3, <2>4, <2>5, <1>3, <1>4, <1>6
    DEF FormsSound, FormsTypeOK, OnlineHasUrl, OnlyMasterclassesDated, UndatedOnlyByHand,
        PlacelessHasCause
<1> QED
  BY <1>5, <1>6

\* The admin's form does not touch the pair of an online listing.
LEMMA SubmitByHandHolds ==
  ASSUME FormsSound, SubmitByHand
  PROVE  FormsSound'
<1>1. PICK new \in Forms :
        LET kept == [new EXCEPT !.online = form.online, !.url = form.url]
        IN form' = IF new.category = "MASTERCLASSES" THEN kept
                   ELSE [kept EXCEPT !.type = "ONGOING", !.starts = 0]
  BY DEF SubmitByHand
<1>2. byHand' = TRUE /\ UNCHANGED <<clock, recategorised>>
  BY DEF SubmitByHand
<1>3. form.online \in BOOLEAN /\ form.url \in BOOLEAN
  BY FieldsOfForms DEF FormsSound
<1>4. /\ form' \in Forms
      /\ form'.online = form.online
      /\ form'.url = form.url
      /\ form'.category # "MASTERCLASSES" => form'.type = "ONGOING" /\ form'.starts = 0
  BY <1>1, <1>3, DatesAreNumbers DEF Forms
<1>5. form'.online => form'.url
  BY <1>4 DEF FormsSound, OnlineHasUrl
<1> QED
  BY <1>2, <1>4, <1>5
  DEF FormsSound, FormsTypeOK, OnlineHasUrl, OnlyMasterclassesDated, UndatedOnlyByHand,
      PlacelessHasCause

\* The clock touches no row.
LEMMA ClockTicksHolds ==
  ASSUME FormsSound, ClockTicks
  PROVE  FormsSound'
  BY FormsAssumption
  DEF FormsAssumption, ClockTicks, FormsSound, FormsTypeOK, OnlineHasUrl, OnlyMasterclassesDated,
      UndatedOnlyByHand, PlacelessHasCause

\* At first there is no row.
LEMMA FormsInitHolds ==
  ASSUME FormsInit
  PROVE  FormsSound
<1>1. FormsTypeOK
  <2>1. form \in Forms \cup {NoForm} /\ byHand \in BOOLEAN /\ recategorised \in BOOLEAN
    BY DEF FormsInit
  <2>2. clock \in 0..MaxClock
    BY FormsAssumption DEF FormsAssumption, FormsInit
  <2> QED
    BY <2>1, <2>2 DEF FormsTypeOK
<1>2. form.category = "none" /\ form.online = FALSE /\ form.type = "ONGOING" /\ form.starts = 0
  BY DEF FormsInit, NoForm
<1> QED
  BY <1>1, <1>2
  DEF FormsSound, OnlineHasUrl, OnlyMasterclassesDated, UndatedOnlyByHand, PlacelessHasCause

\* Every step keeps the columns fitting together.
LEMMA FormsNextHolds ==
  ASSUME FormsSound, [FormsNext]_formsVars
  PROVE  FormsSound'
<1>1. CASE UNCHANGED formsVars
  BY <1>1
  DEF formsVars, FormsSound, FormsTypeOK, OnlineHasUrl, OnlyMasterclassesDated,
      UndatedOnlyByHand, PlacelessHasCause
<1>2. CASE FormsNext
  BY <1>2, CreateFormHolds, PatchFormHolds, SubmitByHandHolds, ClockTicksHolds DEF FormsNext
<1> QED
  BY <1>1, <1>2

\* The columns of a listing fit together whatever partial updates, changes of category and
\* admin's forms the row has been through (validate of apps/providers/serializers.py).
THEOREM FormsKeepTheirWord == FormsSpec => []FormsSound
  BY FormsInitHolds, FormsNextHolds, PTL DEF FormsSpec

(***************************************************************************)
(* The contacts of a listing (ListingContacts).  What a transaction has    *)
(* under way is a list validate_contacts has taken, and what it deleted is *)
(* everything there was: nobody else writes while it holds the lock.       *)
(***************************************************************************)

\* A list under way was validated.
SentLists == \A p \in Patches : patching[p].step # "idle" => Acceptable(patching[p].sent)

\* The stored list was validated as well.
LastList == Acceptable(lastSent)

\* The transaction that is about to insert has deleted all there is.
AllCleared == \A p \in Patches : patching[p].step = "insert" => patching[p].cleared = contacts

ContactsInv == ContactsTypeOK /\ ContactsOfLastPatch /\ SentLists /\ LastList /\ AllCleared

\* A validated list is distinct and within its limit.
LEMMA ContactsInvSuffices ==
  ASSUME ContactsInv
  PROVE  ContactsSound
BY DEF ContactsInv, ContactsSound, ContactsDistinct, ContactsOfLastPatch, LastList, Acceptable,
       SameContact

\* No list is a validated list.
LEMMA EmptyListAcceptable == Acceptable({})
BY FS_EmptySet, ContactsAssumption DEF ContactsAssumption, Acceptable

\* At first there is no contact and no request.
LEMMA ContactsInitHolds ==
  ASSUME ContactsInit
  PROVE  ContactsInv
<1>1. \A p \in Patches : patching[p] = NoPatch
  BY DEF ContactsInit
<1>2. NoPatch \in PatchStates /\ NoPatch.step = "idle"
  BY DEF NoPatch, PatchStates, PatchSteps
<1> QED
  BY <1>1, <1>2, EmptyListAcceptable, ContactsAssumption
  DEF ContactsAssumption, ContactsInit, ContactsInv, ContactsTypeOK, ContactsOfLastPatch,
      SentLists, LastList, AllCleared

\* Only one transaction changes, and what is under way in the others stays.
LEMMA OnePatchChanges ==
  ASSUME ContactsTypeOK, NEW p \in Patches, NEW state \in PatchStates, Patching(p, state)
  PROVE  /\ patching' \in [Patches -> PatchStates]
         /\ patching'[p] = state
         /\ \A q \in Patches : q # p => patching'[q] = patching[q]
BY DEF ContactsTypeOK, Patching

\* The fields of a request under way.
LEMMA PatchFields ==
  ASSUME ContactsTypeOK, NEW p \in Patches
  PROVE  /\ patching[p] \in PatchStates
         /\ patching[p].step \in PatchSteps
         /\ patching[p].sent \subseteq ContactRows
         /\ patching[p].cleared \subseteq ContactRows
BY DEF ContactsTypeOK, PatchStates

\* A request sends a list that was validated.
LEMMA SendContactsHolds ==
  ASSUME ContactsInv, NEW p \in Patches, SendContacts(p)
  PROVE  ContactsInv'
<1>1. PICK list \in SUBSET ContactRows :
        Acceptable(list) /\ Patching(p, [NoPatch EXCEPT !.step = "save", !.sent = list])
  BY DEF SendContacts
<1> DEFINE new == [NoPatch EXCEPT !.step = "save", !.sent = list]
<1>2. new \in PatchStates /\ new.step = "save" /\ new.sent = list
  BY DEF NoPatch, PatchStates, PatchSteps
<1>3. Patching(p, new)
  BY <1>1
<1> HIDE DEF new
<1>4. UNCHANGED <<contacts, lockedBy, lastSent, typed>> /\ patching[p].step = "idle"
  BY DEF SendContacts
<1> QED
  BY <1>1, <1>2, <1>3, <1>4, OnePatchChanges
  DEF ContactsInv, ContactsTypeOK, ContactsOfLastPatch, SentLists, LastList, AllCleared,
      Acceptable

\* The lock is taken when nobody has it.
LEMMA SaveListingHolds ==
  ASSUME ContactsInv, NEW p \in Patches, SaveListing(p)
  PROVE  ContactsInv'
<1> DEFINE new == [patching[p] EXCEPT !.step = "clear"]
<1>1. /\ new \in PatchStates /\ new.step = "clear"
      /\ new.sent = patching[p].sent /\ patching[p].step = "save"
  BY DEF SaveListing, ContactsInv, ContactsTypeOK, PatchStates, PatchSteps
<1>2. Patching(p, new)
  BY DEF SaveListing
<1> HIDE DEF new
<1>3. UNCHANGED <<contacts, lastSent, typed>> /\ lockedBy = "nobody" /\ lockedBy' = p
  BY DEF SaveListing
<1>4. \A q \in Patches : patching[q].step \notin {"clear", "insert"}
  BY <1>3, ContactsAssumption DEF ContactsAssumption, ContactsInv, ContactsTypeOK
<1> QED
  BY <1>1, <1>2, <1>3, <1>4, OnePatchChanges
  DEF ContactsInv, ContactsTypeOK, ContactsOfLastPatch, SentLists, LastList, AllCleared,
      Acceptable

\* The delete covers what is committed.
LEMMA ClearContactsHolds ==
  ASSUME ContactsInv, NEW p \in Patches, ClearContacts(p)
  PROVE  ContactsInv'
<1> DEFINE new == [patching[p] EXCEPT !.step = "insert", !.cleared = contacts]
<1>1. /\ new \in PatchStates /\ new.step = "insert" /\ new.cleared = contacts
      /\ new.sent = patching[p].sent /\ patching[p].step = "clear"
  BY DEF ClearContacts, ContactsInv, ContactsTypeOK, PatchStates, PatchSteps
<1>2. Patching(p, new)
  BY DEF ClearContacts
<1> HIDE DEF new
<1>3. UNCHANGED <<contacts, lockedBy, lastSent, typed>>
  BY DEF ClearContacts
<1> QED
  BY <1>1, <1>2, <1>3, OnePatchChanges
  DEF ContactsInv, ContactsTypeOK, ContactsOfLastPatch, SentLists, LastList, AllCleared,
      Acceptable

\* Only the transaction that inserts was past the lock, so nothing of the old list remains.
LEMMA InsertContactsHolds ==
  ASSUME ContactsInv, NEW p \in Patches, InsertContacts(p)
  PROVE  ContactsInv'
<1>1. NoPatch \in PatchStates /\ NoPatch.step = "idle"
  BY DEF NoPatch, PatchStates, PatchSteps
<1>2. Patching(p, NoPatch) /\ patching[p].step = "insert"
  BY DEF InsertContacts
<1>3. lockedBy = p
  BY <1>2 DEF ContactsInv, ContactsTypeOK
<1>4. lockedBy' = "nobody" /\ typed' = FALSE /\ lastSent' = patching[p].sent
  BY <1>3 DEF InsertContacts, Unlocked
<1>5. contacts' = patching[p].sent
  BY <1>2 DEF InsertContacts, ContactsInv, AllCleared
<1>6. \A q \in Patches : q # p => patching[q].step \notin {"clear", "insert"}
  BY <1>3 DEF ContactsInv, ContactsTypeOK
<1>7. patching[p].sent \subseteq ContactRows /\ Acceptable(patching[p].sent)
  BY <1>2, PatchFields DEF ContactsInv, SentLists
<1>8. /\ patching' \in [Patches -> PatchStates] /\ patching'[p].step = "idle"
      /\ \A q \in Patches : q # p => patching'[q] = patching[q]
  BY <1>1, <1>2, OnePatchChanges DEF ContactsInv
<1>9. ContactsTypeOK'
  <2>1. \A q \in Patches : lockedBy' = q <=> patching'[q].step \in {"clear", "insert"}
    BY <1>4, <1>6, <1>8, ContactsAssumption DEF ContactsAssumption
  <2> QED
    BY <1>4, <1>5, <1>7, <1>8, <2>1 DEF ContactsTypeOK
<1>10. ContactsOfLastPatch' /\ LastList'
  BY <1>4, <1>5, <1>7 DEF ContactsOfLastPatch, LastList
<1>11. SentLists'
  BY <1>8 DEF ContactsInv, SentLists
<1>12. AllCleared'
  BY <1>6, <1>8 DEF AllCleared
<1> QED
  BY <1>9, <1>10, <1>11, <1>12 DEF ContactsInv

\* A request that fails leaves the rows, and the lock if it had it.
LEMMA RollBackContactsHolds ==
  ASSUME ContactsInv, NEW p \in Patches, RollBackContacts(p)
  PROVE  ContactsInv'
<1>1. NoPatch \in PatchStates /\ NoPatch.step = "idle"
  BY DEF NoPatch, PatchStates, PatchSteps
<1>2. Patching(p, NoPatch) /\ UNCHANGED <<contacts, lastSent, typed>>
  BY DEF RollBackContacts
<1>3. lockedBy' = (IF lockedBy = p THEN "nobody" ELSE lockedBy)
  BY DEF RollBackContacts, Unlocked
<1>4. /\ lockedBy' \in Patches \cup {"nobody"}
      /\ lockedBy' # p
      /\ \A q \in Patches : q # p => (lockedBy' = q <=> lockedBy = q)
  BY <1>3, ContactsAssumption DEF ContactsAssumption, ContactsInv, ContactsTypeOK
<1> QED
  BY <1>1, <1>2, <1>4, OnePatchChanges
  DEF ContactsInv, ContactsTypeOK, ContactsOfLastPatch, SentLists, LastList, AllCleared,
      Acceptable

\* The admin's form writes while nobody has deleted anything.
LEMMA TypeContactHolds ==
  ASSUME ContactsInv, TypeContact
  PROVE  ContactsInv'
<1>1. lockedBy = "nobody" /\ typed' = TRUE /\ UNCHANGED <<patching, lockedBy, lastSent>>
  BY DEF TypeContact
<1>2. contacts' \subseteq ContactRows
  BY DEF TypeContact, ContactsInv, ContactsTypeOK
<1>3. \A q \in Patches : patching[q].step \notin {"clear", "insert"}
  BY <1>1, ContactsAssumption DEF ContactsAssumption, ContactsInv, ContactsTypeOK
<1> QED
  BY <1>1, <1>2, <1>3
  DEF ContactsInv, ContactsTypeOK, ContactsOfLastPatch, SentLists, LastList, AllCleared,
      Acceptable

\* Every step keeps the lists whole.
LEMMA ContactsNextHolds ==
  ASSUME ContactsInv, [ContactsNext]_contactsVars
  PROVE  ContactsInv'
<1>1. CASE UNCHANGED contactsVars
  BY <1>1
  DEF contactsVars, ContactsInv, ContactsTypeOK, ContactsOfLastPatch, SentLists, LastList,
      AllCleared, Acceptable
<1>2. CASE ContactsNext
  BY <1>2, SendContactsHolds, SaveListingHolds, ClearContactsHolds, InsertContactsHolds,
     RollBackContactsHolds, TypeContactHolds
  DEF ContactsNext
<1> QED
  BY <1>1, <1>2

\* The stored contacts are always one valid list that was sent, that of the request that
\* committed last (_sync_contacts under the lock of the listing's row), unless the admin site
\* has written single rows.
THEOREM ContactsKeepTheirWord == ContactsSpec => []ContactsSound
BY ContactsInitHolds, ContactsNextHolds, ContactsInvSuffices, PTL DEF ContactsSpec

(***************************************************************************)
(* Bookings (Subscriptions).  The check before the insert is not atomic    *)
(* with it; what makes it enough for a family's single request is that     *)
(* only requests of that family confirm rows of it (RequestsLinked) and    *)
(* none else is under way (RequestsApart).                                 *)
(***************************************************************************)

\* A family has at most one confirmed row.
OneConfirmed ==
  \A s, t \in Subs : sub[s].family = sub[t].family
    /\ sub[s].status = "CONFIRMED" /\ sub[t].status = "CONFIRMED" => s = t

\* A request that has loaded a row is of the row's family, also when the row was deleted since.
RequestsLinked ==
  \A b \in Bookings : booking[b].step \in {"cancel", "edit"} =>
    /\ booking[b].sub \in Subs
    /\ sub[booking[b].sub].status # "free"
    /\ sub[booking[b].sub].family = booking[b].family

\* Without an overlap, requests under way are of different families ...
RequestsApart ==
  ~alongside => \A b, c \in Bookings :
    booking[b].step # "idle" /\ booking[c].step # "idle" /\ booking[b].family = booking[c].family
      => b = c

\* ... and what a request has checked still holds when it inserts.
ChecksStillHold ==
  ~alongside => \A b \in Bookings : booking[b].step = "insert" =>
    \A s \in Subs : sub[s].family = booking[b].family => sub[s].status # "CONFIRMED"

BookingsInv ==
  SubscriptionsSound /\ OneConfirmed /\ RequestsLinked /\ RequestsApart /\ ChecksStillHold

\* At first there is no row and no request.
LEMMA SubscriptionsInitHolds == SubscriptionsInit => BookingsInv
<1> SUFFICES ASSUME SubscriptionsInit PROVE BookingsInv
  OBVIOUS
<1>1. FreeSub \in SubRows /\ NoBooking \in BookingStates
  BY DEF FreeSub, SubRows, SubStatus, NoBooking, BookingStates, NoFamily, NoSub
<1>2. /\ \A s \in Subs : sub[s].status = "free"
      /\ \A b \in Bookings : booking[b].step = "idle"
  BY DEF SubscriptionsInit, FreeSub, NoBooking
<1>3. SubscriptionsTypeOK
  BY <1>1, <1>2 DEF SubscriptionsInit, SubscriptionsTypeOK
<1> QED BY <1>2, <1>3 DEF SubscriptionsInit, BookingsInv, SubscriptionsSound, RefusalNeedsOverlap,
  CancelledIsStamped, OneConfirmed, RequestsLinked, RequestsApart, ChecksStillHold

\* A request that takes a listing or a row up.
LEMMA SubLoadHolds ==
  ASSUME BookingsInv, NEW b \in Bookings, NEW f \in Families \cup {NoFamily},
         NEW state \in BookingStates,
         booking[b].step = "idle", state.family = f, state.step \in {"check", "cancel", "edit"},
         state.step # "check" =>
           state.sub \in Subs /\ sub[state.sub].status # "free" /\ sub[state.sub].family = f,
         Book(b, state), alongside' = (alongside \/ Others(b, f)),
         UNCHANGED <<sub, offered, refused>>
  PROVE  BookingsInv'
<1> USE DEF BookingsInv, SubscriptionsSound
<1>1. SubscriptionsTypeOK'
  BY DEF SubscriptionsTypeOK, Book
<1>2. RefusalNeedsOverlap' /\ CancelledIsStamped' /\ OneConfirmed'
  BY DEF RefusalNeedsOverlap, CancelledIsStamped, OneConfirmed
<1>3. RequestsLinked'
  BY DEF RequestsLinked, Book, SubscriptionsTypeOK
<1>4. RequestsApart'
  BY DEF RequestsApart, Book, Others, SubscriptionsTypeOK
<1>5. ChecksStillHold'
  BY DEF ChecksStillHold, Book, SubscriptionsTypeOK
<1> QED BY <1>1, <1>2, <1>3, <1>4, <1>5

\* A request that ends, or goes on after its check, and leaves the rows alone.
LEMMA SubGoOnHolds ==
  ASSUME BookingsInv, NEW b \in Bookings, NEW state \in BookingStates,
         booking[b].step # "idle",
         \/ state = NoBooking
         \/ /\ state.step = "insert" /\ state.family = booking[b].family
            /\ Confirmed(state.family) = {},
         Book(b, state), refused' = refused \/ (refused' = TRUE /\ alongside),
         UNCHANGED <<sub, offered, alongside>>
  PROVE  BookingsInv'
<1> USE DEF BookingsInv, SubscriptionsSound
<1>1. refused' \in BOOLEAN /\ (refused' => alongside)
  <2>1. CASE refused' = refused
    BY <2>1, Zenon DEF SubscriptionsTypeOK, RefusalNeedsOverlap
  <2>2. CASE refused' = TRUE /\ alongside
    BY <2>2
  <2> QED BY <2>1, <2>2
<1>2. SubscriptionsTypeOK' /\ RefusalNeedsOverlap' /\ CancelledIsStamped' /\ OneConfirmed'
  BY <1>1 DEF SubscriptionsTypeOK, Book, RefusalNeedsOverlap, CancelledIsStamped, OneConfirmed
<1>3. RequestsLinked'
  BY DEF RequestsLinked, Book, SubscriptionsTypeOK, NoBooking
<1>4. RequestsApart'
  BY DEF RequestsApart, Book, SubscriptionsTypeOK, NoBooking
<1>5. ChecksStillHold'
  BY DEF ChecksStillHold, Book, SubscriptionsTypeOK, NoBooking, Confirmed
<1> QED BY <1>1, <1>2, <1>3, <1>4, <1>5

\* A request that writes a row of its family and ends: the row was free, or it had loaded it.
LEMMA SubWriteHolds ==
  ASSUME BookingsInv, NEW b \in Bookings, NEW s \in Subs, NEW row \in SubRows,
         booking[b].step # "idle",
         row.family = booking[b].family,
         sub[s].status # "free" => sub[s].family = row.family,
         row.status \in {"CONFIRMED", "CANCELLED"},
         row.status = "CONFIRMED" => Confirmed(row.family) \subseteq {s},
         row.edited \/ (row.stamped <=> row.status = "CANCELLED"),
         sub' = [sub EXCEPT ![s] = row], Book(b, NoBooking),
         UNCHANGED <<offered, alongside, refused>>
  PROVE  BookingsInv'
<1> USE DEF BookingsInv, SubscriptionsSound
<1>1. sub' \in [Subs -> SubRows] /\ booking' \in [Bookings -> BookingStates]
  BY DEF SubscriptionsTypeOK, Book, NoBooking, BookingStates, NoSub, NoFamily
<1>2. OneConfirmed'
  BY DEF OneConfirmed, Confirmed, SubscriptionsTypeOK
<1>3. SubscriptionsTypeOK' /\ RefusalNeedsOverlap'
  BY <1>1, <1>2 DEF SubscriptionsTypeOK, OneConfirmed, RefusalNeedsOverlap
<1>4. CancelledIsStamped'
  BY DEF CancelledIsStamped, SubscriptionsTypeOK
<1>5. RequestsLinked'
  BY DEF RequestsLinked, Book, SubscriptionsTypeOK, NoBooking
<1>6. RequestsApart'
  BY DEF RequestsApart, Book, SubscriptionsTypeOK, NoBooking
<1>7. ChecksStillHold'
  <2> SUFFICES ASSUME ~alongside, NEW c \in Bookings, booking'[c].step = "insert",
                      NEW t \in Subs, sub'[t].family = booking'[c].family
               PROVE  sub'[t].status # "CONFIRMED"
    BY DEF ChecksStillHold
  <2>1. c # b /\ booking'[c] = booking[c]
    BY DEF Book, SubscriptionsTypeOK, NoBooking
  <2>2. booking[c].family # row.family
    BY <2>1 DEF RequestsApart
  <2>3. t # s /\ sub'[t] = sub[t]
    BY <2>1, <2>2 DEF SubscriptionsTypeOK
  <2> QED BY <2>1, <2>3 DEF ChecksStillHold
<1> QED BY <1>2, <1>3, <1>4, <1>5, <1>6, <1>7

\* A request to book begins with the listing.
LEMMA LoadListingHolds ==
  ASSUME BookingsInv, NEW b \in Bookings, NEW f \in Families, LoadListing(b, f) PROVE BookingsInv'
<1> DEFINE state == [NoBooking EXCEPT !.step = "check", !.family = f]
<1>1. state \in BookingStates /\ state.family = f /\ state.step = "check"
  BY DEF NoBooking, BookingStates
<1>2. Book(b, state) /\ booking[b].step = "idle"
      /\ alongside' = (alongside \/ Others(b, f)) /\ UNCHANGED <<sub, offered, refused>>
  BY DEF LoadListing
<1> HIDE DEF state
<1> QED BY <1>1, <1>2, SubLoadHolds

\* A request about a row begins with the row, which is its family's.
LEMMA LoadSubHolds ==
  ASSUME BookingsInv, NEW b \in Bookings, NEW s \in Subs, LoadSub(b, s) \/ ShowSub(b, s)
  PROVE  BookingsInv'
<1>1. PICK step \in {"cancel", "edit"} :
        Book(b, [NoBooking EXCEPT !.step = step, !.family = sub[s].family, !.sub = s])
  BY DEF LoadSub, ShowSub
<1> DEFINE state == [NoBooking EXCEPT !.step = step, !.family = sub[s].family, !.sub = s]
<1>2. sub[s].family \in Families \cup {NoFamily}
  BY DEF BookingsInv, SubscriptionsSound, SubscriptionsTypeOK, SubRows
<1>3. /\ state \in BookingStates
      /\ state.family = sub[s].family /\ state.sub = s /\ state.step \in {"cancel", "edit"}
  BY <1>2 DEF NoBooking, BookingStates
<1>4. /\ booking[b].step = "idle" /\ Book(b, state) /\ sub[s].status # "free"
      /\ alongside' = (alongside \/ Others(b, sub[s].family)) /\ UNCHANGED <<sub, offered, refused>>
  BY <1>1 DEF LoadSub, ShowSub
<1> HIDE DEF state
<1> QED BY <1>2, <1>3, <1>4, SubLoadHolds

\* A request that is not under way.
LEMMA NoBookingType == NoBooking \in BookingStates
BY DEF NoBooking, BookingStates, NoSub, NoFamily

\* The check finds no confirmed row of the family.
LEMMA CheckFreeHolds ==
  ASSUME BookingsInv, NEW b \in Bookings, CheckFree(b) PROVE BookingsInv'
<1> DEFINE state == IF FreeToBook(booking[b].family) THEN [booking[b] EXCEPT !.step = "insert"]
                    ELSE NoBooking
<1>1. state \in BookingStates
  BY NoBookingType DEF BookingsInv, SubscriptionsSound, SubscriptionsTypeOK, BookingStates
<1>2. \/ state = NoBooking
      \/ /\ state.step = "insert" /\ state.family = booking[b].family
         /\ Confirmed(state.family) = {}
  BY DEF FreeToBook, BookingsInv, SubscriptionsSound, SubscriptionsTypeOK, BookingStates
<1>3. Book(b, state) /\ booking[b].step # "idle" /\ UNCHANGED <<sub, offered, alongside, refused>>
  BY DEF CheckFree
<1> HIDE DEF state
<1> QED BY <1>1, <1>2, <1>3, SubGoOnHolds

\* The refusal: what the request has checked is no longer so, which takes an overlap.
LEMMA InsertSubRefusedHolds ==
  ASSUME BookingsInv, NEW b \in Bookings, InsertSubRefused(b) PROVE BookingsInv'
<1>1. alongside
  BY DEF InsertSubRefused, Confirmed, BookingsInv, ChecksStillHold
<1> QED BY <1>1, NoBookingType, SubGoOnHolds DEF InsertSubRefused

\* A request ends without a trace.
LEMMA DropBookingHolds ==
  ASSUME BookingsInv, NEW b \in Bookings, DropBooking(b) PROVE BookingsInv'
BY NoBookingType, SubGoOnHolds DEF DropBooking

\* A row is inserted confirmed, where the constraint finds no other.
LEMMA InsertSubHolds ==
  ASSUME BookingsInv, NEW b \in Bookings, InsertSub(b) PROVE BookingsInv'
<1>1. PICK s \in Subs :
        /\ sub[s].status = "free"
        /\ sub' = [sub EXCEPT ![s] =
             [FreeSub EXCEPT !.status = "CONFIRMED", !.family = booking[b].family]]
  BY DEF InsertSub
<1> DEFINE row == [FreeSub EXCEPT !.status = "CONFIRMED", !.family = booking[b].family]
<1>2. booking[b].family \in Families \cup {NoFamily}
  BY DEF BookingsInv, SubscriptionsSound, SubscriptionsTypeOK, BookingStates
<1>3. /\ row \in SubRows /\ row.family = booking[b].family
      /\ row.status = "CONFIRMED" /\ row.stamped = FALSE
  BY <1>2 DEF FreeSub, SubRows, SubStatus
<1>4. /\ booking[b].step # "idle" /\ Confirmed(booking[b].family) \subseteq {s}
      /\ Book(b, NoBooking) /\ UNCHANGED <<offered, alongside, refused>>
  BY DEF InsertSub
<1>5. sub' = [sub EXCEPT ![s] = row]
  BY <1>1
<1> HIDE DEF row
<1> QED BY <1>1, <1>3, <1>4, <1>5, SubWriteHolds

\* A row is cancelled, and stamped.
LEMMA CancelSubHolds ==
  ASSUME BookingsInv, NEW b \in Bookings, CancelSub(b) PROVE BookingsInv'
<1> DEFINE s == booking[b].sub
           row == Cancelled(s)
<1>1. s \in Subs /\ sub[s].status # "free" /\ sub[s].family = booking[b].family
  BY DEF CancelSub, BookingsInv, RequestsLinked
<1>2. sub[s] \in SubRows
  BY <1>1 DEF BookingsInv, SubscriptionsSound, SubscriptionsTypeOK
<1>3. /\ row \in SubRows /\ row.family = sub[s].family
      /\ row.status = "CANCELLED" /\ row.stamped = TRUE
  BY <1>2 DEF Cancelled, SubRows, SubStatus
<1>4. /\ booking[b].step # "idle" /\ sub' = [sub EXCEPT ![s] = row]
      /\ Book(b, NoBooking) /\ UNCHANGED <<offered, alongside, refused>>
  BY DEF CancelSub
<1> HIDE DEF row, s
<1> QED BY <1>1, <1>3, <1>4, SubWriteHolds

\* The admin's form saves a status, where the constraint allows it.
LEMMA SaveSubHolds ==
  ASSUME BookingsInv, NEW b \in Bookings, SaveSub(b) PROVE BookingsInv'
<1> DEFINE s == booking[b].sub
<1>1. s \in Subs /\ sub[s].status # "free" /\ sub[s].family = booking[b].family
  BY DEF SaveSub, BookingsInv, RequestsLinked
<1>2. PICK st \in {"CONFIRMED", "CANCELLED"}, stamp \in BOOLEAN :
        /\ st = "CONFIRMED" => Confirmed(booking[b].family) \subseteq {s}
        /\ sub' = [sub EXCEPT ![s] =
                     [sub[s] EXCEPT !.status = st, !.stamped = stamp, !.edited = TRUE]]
  BY DEF SaveSub
<1> DEFINE row == [sub[s] EXCEPT !.status = st, !.stamped = stamp, !.edited = TRUE]
<1>3. sub \in [Subs -> SubRows] /\ sub[s] \in SubRows
  BY <1>1 DEF BookingsInv, SubscriptionsSound, SubscriptionsTypeOK
<1>4. row \in SubRows /\ row.family = sub[s].family /\ row.status = st /\ row.edited = TRUE
  BY <1>3 DEF SubRows, SubStatus
<1>5. sub' = [sub EXCEPT ![s] = row]
  BY <1>2
<1>6. /\ booking[b].step # "idle"
      /\ Book(b, NoBooking) /\ UNCHANGED <<offered, alongside, refused>>
  BY DEF SaveSub
<1>7. row.family = booking[b].family /\ row.status \in {"CONFIRMED", "CANCELLED"}
  BY <1>1, <1>2, <1>4
<1>8. row.status = "CONFIRMED" => Confirmed(row.family) \subseteq {s}
  BY <1>2, <1>4, <1>7
<1> HIDE DEF row, s
<1> QED BY <1>1, <1>4, <1>5, <1>6, <1>7, <1>8, SubWriteHolds

\* The admin's deletion keeps the row's family, for the forms that still show it.
LEMMA DeleteSubHolds ==
  ASSUME BookingsInv, NEW s \in Subs, DeleteSub(s) PROVE BookingsInv'
<1> USE DEF BookingsInv, SubscriptionsSound, DeleteSub
<1>1. sub \in [Subs -> SubRows]
  BY DEF SubscriptionsTypeOK
<1>2. /\ sub' \in [Subs -> SubRows]
      /\ \A t \in Subs : /\ sub'[t].family = sub[t].family
                         /\ sub'[t].status = IF t = s THEN "gone" ELSE sub[t].status
                         /\ sub'[t].stamped = sub[t].stamped /\ sub'[t].edited = sub[t].edited
  BY <1>1 DEF SubRows, SubStatus
<1>3. SubscriptionsTypeOK' /\ RefusalNeedsOverlap' /\ OneConfirmed' /\ CancelledIsStamped'
  BY <1>2 DEF SubscriptionsTypeOK, RefusalNeedsOverlap, OneConfirmed, CancelledIsStamped
<1>4. RequestsLinked' /\ RequestsApart' /\ ChecksStillHold'
  BY <1>2 DEF RequestsLinked, RequestsApart, ChecksStillHold
<1> QED BY <1>3, <1>4

\* The offer changes, or nothing.
LEMMA OffersAndRestHold ==
  ASSUME BookingsInv, OfferChanges \/ UNCHANGED subscriptionsVars PROVE BookingsInv'
<1>1. UNCHANGED <<sub, booking, alongside, refused>> /\ offered' \in BOOLEAN
  BY DEF OfferChanges, subscriptionsVars, BookingsInv, SubscriptionsSound, SubscriptionsTypeOK
<1> QED BY <1>1 DEF BookingsInv, SubscriptionsSound, SubscriptionsTypeOK, RefusalNeedsOverlap,
  CancelledIsStamped, OneConfirmed, RequestsLinked, RequestsApart, ChecksStillHold

\* Every step keeps the invariant.
LEMMA SubscriptionsNextHolds ==
  ASSUME BookingsInv, [SubscriptionsNext]_subscriptionsVars PROVE BookingsInv'
<1>1. CASE OfferChanges \/ UNCHANGED subscriptionsVars
  BY <1>1, OffersAndRestHold
<1>2. ASSUME NEW s \in Subs, DeleteSub(s) PROVE BookingsInv'
  BY <1>2, DeleteSubHolds
<1>3. ASSUME NEW b \in Bookings, NEW f \in Families, LoadListing(b, f) PROVE BookingsInv'
  BY <1>3, LoadListingHolds
<1>4. ASSUME NEW b \in Bookings, NEW s \in Subs, LoadSub(b, s) \/ ShowSub(b, s) PROVE BookingsInv'
  BY <1>4, LoadSubHolds
<1>5. ASSUME NEW b \in Bookings,
             \/ CheckFree(b) \/ InsertSub(b) \/ InsertSubRefused(b) \/ CancelSub(b) \/ SaveSub(b)
             \/ DropBooking(b)
      PROVE  BookingsInv'
  BY <1>5, CheckFreeHolds, InsertSubHolds, InsertSubRefusedHolds, CancelSubHolds,
     SaveSubHolds, DropBookingHolds
<1> QED BY <1>1, <1>2, <1>3, <1>4, <1>5 DEF SubscriptionsNext

\* For any number of families, rows and overlapping requests: a family never has two confirmed
\* rows, an IntegrityError reaches it only when two requests about its bookings overlapped, and
\* the rows kept for audit say when they were cancelled (create_subscription,
\* unique_active_subscription, FamilySubscriptionViewSet.destroy).
THEOREM SubscriptionsKeepTheirWord == SubscriptionsSpec => [](SubscriptionsSound /\ OneConfirmed)
<1>1. BookingsInv /\ [SubscriptionsNext]_subscriptionsVars => BookingsInv'
  BY SubscriptionsNextHolds
<1>2. BookingsInv => SubscriptionsSound /\ OneConfirmed
  BY DEF BookingsInv
<1> QED BY SubscriptionsInitHolds, <1>1, <1>2, PTL DEF SubscriptionsSpec

(***************************************************************************)
(* Requests for a listing (ListingClients).  The induction says what an    *)
(* answer knows while it is not out of date: that its copy is the row      *)
(* (AnswerKnows).                                                          *)
(***************************************************************************)

\* What answers carry: a row that was there, and is as it was unless somebody wrote since.
AnswerKnows(s) ==
  s.step = "answer" => s.copy.id # 0 /\ (~s.stale => client.id # 0)

AnswersKnow == \A c \in Callers : AnswerKnows(call[c])

ClientsInv == ClientsSound /\ AnswersKnow

USE ClientsAssumption

\* A request that is not under way, and the row before there is one.
LEMMA NoCallType == NoCall \in CallStates /\ NoCall.step = "idle" /\ NoClient \in ClientRows
BY DEF NoCall, NoClient, CallStates, ClientRows, ClientStatus

\* At first there is no row and no request.
LEMMA ClientsInitHolds == ClientsInit => ClientsInv
<1> SUFFICES ASSUME ClientsInit PROVE ClientsInv
  OBVIOUS
<1>1. ClientsTypeOK
  <2>1. lastId \in 0..MaxRows
    BY DEF ClientsInit
  <2>2. outdone \in BOOLEAN /\ returned \in BOOLEAN
    BY DEF ClientsInit
  <2>3. client \in ClientRows /\ call \in [Callers -> CallStates]
    BY NoCallType DEF ClientsInit
  <2> QED BY <2>1, <2>2, <2>3 DEF ClientsTypeOK
<1>2. RejectedHasReason /\ OnlyRacesUndoWithdrawal
  BY DEF ClientsInit, RejectedHasReason, OnlyRacesUndoWithdrawal, NoClient
<1>3. AnswersKnow
  BY NoCallType DEF ClientsInit, AnswersKnow, AnswerKnows
<1> QED BY <1>1, <1>2, <1>3 DEF ClientsInv, ClientsSound

\* The calls after a step of one of them: its own state, and the others out of date if the row
\* was written.
LEMMA CallType ==
  ASSUME ClientsTypeOK, NEW c \in Callers, NEW state \in CallStates, NEW changed \in BOOLEAN,
         Call(c, state, changed)
  PROVE  /\ call' \in [Callers -> CallStates]
         /\ call'[c] = state
         /\ \A d \in Callers \ {c} :
              /\ call'[d].step = call[d].step /\ call'[d].copy = call[d].copy
              /\ call[d].step # "idle" /\ changed => call'[d].stale = TRUE
              /\ ~changed => call'[d] = call[d]
<1>1. \A d \in Callers : call[d] \in CallStates
  BY DEF ClientsTypeOK
<1>2. \A d \in Callers : [call[d] EXCEPT !.stale = TRUE] \in CallStates
  BY <1>1 DEF CallStates
<1> QED BY <1>1, <1>2 DEF Call, CallStates

\* A step that leaves the row alone: a request that has just read it, or ends.
LEMMA ReadClientHolds ==
  ASSUME ClientsInv, NEW c \in Callers, NEW state \in CallStates,
         state.step = "answer" => client.id # 0 /\ state.copy.id # 0,
         Call(c, state, FALSE), UNCHANGED <<client, lastId, outdone, returned>>
  PROVE  ClientsInv'
<1>1. ClientsTypeOK
  BY DEF ClientsInv, ClientsSound
<1>2. /\ call' \in [Callers -> CallStates] /\ call'[c] = state
      /\ \A d \in Callers \ {c} : call'[d] = call[d]
  BY <1>1, CallType
<1>3. ClientsSound'
  BY <1>2 DEF ClientsInv, ClientsSound, ClientsTypeOK, RejectedHasReason, OnlyRacesUndoWithdrawal
<1>4. AnswersKnow'
  BY <1>2 DEF ClientsInv, AnswersKnow, AnswerKnows
<1> QED BY <1>3, <1>4 DEF ClientsInv

\* A step that writes the row: every other request is out of date then.
LEMMA PutClientHolds ==
  ASSUME ClientsInv, NEW c \in Callers, NEW row \in ClientRows,
         row.status = "REJECTED" => row.reason,
         call[c].step = "answer" \/ lastId < row.id,
         lastId' \in 0..MaxRows, Put(c, row)
  PROVE  ClientsInv'
<1>1. ClientsTypeOK
  BY DEF ClientsInv, ClientsSound
<1>2. /\ call' \in [Callers -> CallStates] /\ call'[c] = NoCall
      /\ \A d \in Callers \ {c} :
           call'[d].step = call[d].step /\ call'[d].copy = call[d].copy
           /\ (call[d].step # "idle" => call'[d].stale = TRUE)
  BY <1>1, NoCallType, CallType DEF Put
<1>3. call[c].stale \in BOOLEAN
  BY <1>1 DEF ClientsTypeOK, CallStates
<1>4. ClientsTypeOK'
  BY <1>1, <1>2, <1>3 DEF Put, ClientsTypeOK
<1>5. RejectedHasReason'
  BY DEF Put, RejectedHasReason
<1>6. OnlyRacesUndoWithdrawal'
  <2>1. CASE client.id = 0 /\ row.id <= lastId
    <3>1. call[c].step = "answer"
      BY <1>1, <2>1 DEF ClientsTypeOK, ClientRows
    <3>2. call[c].stale
      BY <2>1, <3>1 DEF ClientsInv, AnswersKnow, AnswerKnows
    <3> QED BY <3>2 DEF Put, OnlyRacesUndoWithdrawal
  <2>2. CASE ~(client.id = 0 /\ row.id <= lastId)
    BY <2>2 DEF Put, OnlyRacesUndoWithdrawal, ClientsInv, ClientsSound
  <2> QED BY <2>1, <2>2
<1>7. AnswersKnow'
  BY <1>2, NoCallType DEF ClientsInv, AnswersKnow, AnswerKnows
<1> QED BY <1>4, <1>5, <1>6, <1>7 DEF ClientsInv, ClientsSound

\* A request reads the row.
LEMMA LoadClientHolds ==
  ASSUME ClientsInv, NEW c \in Callers, StartEnrol(c) \/ StartAnswer(c) \/ StartWithdraw(c)
  PROVE  ClientsInv'
<1>1. PICK s \in {"insert", "answer", "withdraw"} :
        Load(c, s) /\ (s = "answer" => client.id # 0)
  BY DEF StartEnrol, StartAnswer, StartWithdraw
<1> DEFINE state == [NoCall EXCEPT !.step = s, !.copy = client]
<1>2. state \in CallStates /\ state.step = s /\ state.copy = client
  BY DEF NoCall, CallStates, ClientsInv, ClientsSound, ClientsTypeOK
<1>3. Call(c, state, FALSE) /\ UNCHANGED <<client, lastId, outdone, returned>>
  BY <1>1 DEF Load
<1> HIDE DEF state
<1> QED BY <1>1, <1>2, <1>3, ReadClientHolds

\* A request ends without a trace.
LEMMA ClientHangUpHolds ==
  ASSUME ClientsInv, NEW c \in Callers, HangUp(c) PROVE ClientsInv'
BY NoCallType, ReadClientHolds DEF HangUp

\* The row is inserted, pending.
LEMMA EnrolClientHolds ==
  ASSUME ClientsInv, NEW c \in Callers, Enrol(c) PROVE ClientsInv'
<1> DEFINE row == [id |-> lastId + 1, status |-> "ACCEPTED", reason |-> FALSE]
<1>1. lastId \in 0..MaxRows /\ lastId < MaxRows /\ lastId' = lastId + 1
  BY DEF Enrol, ClientsInv, ClientsSound, ClientsTypeOK
<1>2. row \in ClientRows /\ row.status # "REJECTED" /\ lastId < row.id /\ lastId' \in 0..MaxRows
  BY <1>1 DEF ClientRows, ClientStatus
<1>3. Put(c, row)
  BY DEF Enrol
<1> HIDE DEF row
<1> QED BY <1>2, <1>3, PutClientHolds

\* The pair that is validated is the pair that is stored.
LEMMA AnswerClientHolds ==
  ASSUME ClientsInv, NEW c \in Callers, AnswerClient(c) PROVE ClientsInv'
<1>1. PICK sent \in SUBSET {"status", "comment"}, st \in ClientStatus, reason \in BOOLEAN :
        LET row == [call[c].copy EXCEPT !.status = IF "status" \in sent THEN st ELSE @,
                                        !.reason = IF "comment" \in sent THEN reason ELSE @]
        IN  AnswerAllowed(row, sent) /\ Put(c, Answered(c, row, sent))
  BY DEF AnswerClient
<1> DEFINE row == [call[c].copy EXCEPT !.status = IF "status" \in sent THEN st ELSE @,
                                       !.reason = IF "comment" \in sent THEN reason ELSE @]
<1>2. call[c].copy \in ClientRows
  BY DEF ClientsInv, ClientsSound, ClientsTypeOK, CallStates
<1>3. row \in ClientRows
  BY <1>2 DEF ClientRows
<1>4. AnswerAllowed(row, sent) /\ Put(c, row)
  BY <1>1 DEF Answered
<1>5. lastId' \in 0..MaxRows /\ call[c].step = "answer"
  BY DEF AnswerClient, ClientsInv, ClientsSound, ClientsTypeOK
<1> HIDE DEF row
<1> QED BY <1>3, <1>4, <1>5, PutClientHolds DEF AnswerAllowed

\* The row is deleted, and answers under way are out of date.
LEMMA WithdrawClientHolds ==
  ASSUME ClientsInv, NEW c \in Callers, Withdraw(c) PROVE ClientsInv'
<1>1. CASE client.id = call[c].copy.id
  <2>1. ClientsTypeOK
    BY DEF ClientsInv, ClientsSound
  <2>2. Call(c, NoCall, TRUE) /\ client' = NoClient /\ UNCHANGED <<lastId, outdone, returned>>
    BY <1>1 DEF Withdraw
  <2>3. /\ call' \in [Callers -> CallStates] /\ call'[c] = NoCall
        /\ \A d \in Callers \ {c} :
             call'[d].step = call[d].step /\ call'[d].copy = call[d].copy
             /\ (call[d].step # "idle" => call'[d].stale = TRUE)
    BY <2>1, <2>2, NoCallType, CallType
  <2>4. ClientsSound'
    BY <2>1, <2>2, <2>3, NoCallType
    DEF ClientsInv, ClientsSound, ClientsTypeOK, RejectedHasReason, OnlyRacesUndoWithdrawal,
        NoClient
  <2>5. AnswersKnow'
    BY <2>3, NoCallType DEF ClientsInv, AnswersKnow, AnswerKnows
  <2> QED BY <2>4, <2>5 DEF ClientsInv
<1>2. CASE client.id # call[c].copy.id
  BY <1>2, NoCallType, ReadClientHolds DEF Withdraw
<1> QED BY <1>1, <1>2

\* Every step keeps the invariant.
LEMMA ClientsNextHolds ==
  ASSUME ClientsInv, [ClientsNext]_clientsVars PROVE ClientsInv'
<1>1. CASE UNCHANGED clientsVars
  BY <1>1 DEF clientsVars, ClientsInv, ClientsSound, ClientsTypeOK, RejectedHasReason,
    OnlyRacesUndoWithdrawal, AnswersKnow, AnswerKnows
<1>2. CASE ClientsNext
  BY <1>2, LoadClientHolds, EnrolClientHolds, AnswerClientHolds, WithdrawClientHolds,
     ClientHangUpHolds
  DEF ClientsNext
<1> QED BY <1>1, <1>2

\* For any number of overlapping requests: a rejected client is told why, and a withdrawn
\* request comes back only by an answer that began before the withdrawal
\* (ListingClientOwnerSerializer.validate, ListingClientViewSet).
THEOREM ClientsKeepTheirWord == ClientsSpec => []ClientsSound
<1>1. ClientsInv /\ [ClientsNext]_clientsVars => ClientsInv'
  BY ClientsNextHolds
<1>2. ClientsInv => ClientsSound
  BY DEF ClientsInv
<1> QED BY ClientsInitHolds, <1>1, <1>2, PTL DEF ClientsSpec

HIDE ClientsAssumption

(***************************************************************************)
(* Who is shown what (Disclosure).  A response is justified by what is     *)
(* stored when it is made, and what is stored by the turns that led to it: *)
(* owners have owned, bookings were made with the owner of their time, an  *)
(* enrolment was made for, or came to, the present owner, and what is      *)
(* public has been approved.                                               *)
(***************************************************************************)

\* The present owner is one who has owned the listing.
HostHasOwned == host # NoHost => <<"owned", host>> \in turned

\* A roster names those the family has turned to.
BookingsWereMade == \A h \in bookedWith : <<"booked", h>> \in turned

\* A request for the listing was made with its owner, or came to him with the listing.
EnrolmentWasMade ==
  enrolled =>
    /\ <<"enrolled", Family>> \in turned
    /\ host # NoHost => {<<"enrolled", host>>, <<"inherited", host>>} \cap turned # {}

\* Contacts are revealed, or about to be, because the tutor accepted.
RevealWasAccepted == revealed \/ revealing => <<"accepted", Tutor>> \in turned

\* What is public was approved.
PublicWasApproved == isPublic => edition \in published

\* A page under way was loaded by an owner, or is that of an approved edition, which is still
\* the present one unless the owner has saved another meanwhile.
PageIsJustified ==
  page # NoPage =>
    IF page.reader = Visitor THEN page.row \in published /\ (page.row = edition \/ page.passed)
    ELSE <<"owned", page.reader>> \in turned

\* What is stored is justified.
StoredIsJustified ==
  /\ HostHasOwned /\ BookingsWereMade /\ EnrolmentWasMade /\ RevealWasAccepted
  /\ PublicWasApproved /\ PageIsJustified

\* What is shown is justified.
ShownIsJustified ==
  ContactNeedsTurn /\ RosterIsOfBooking /\ PrivateNeedsBooking /\ UnpublishedStaysInside

DisclosureInv == DisclosureTypeOK /\ StoredIsJustified /\ ShownIsJustified

\* The invariant is what the module promises.
LEMMA DisclosureInvSuffices ==
  ASSUME DisclosureInv
  PROVE  DisclosureSound
BY DEF DisclosureInv, ShownIsJustified, DisclosureSound

\* The names of readers that are no hosts are apart.
LEMMA ReadersApart ==
  /\ NoHost \notin Hosts /\ Tutor \notin Hosts /\ Visitor \notin Hosts /\ Family \notin Hosts
  /\ Family # Tutor /\ Family # Visitor /\ Tutor # Visitor
BY DisclosureAssumption DEF DisclosureAssumption, NoHost, Tutor, Visitor, Family

\* An empty response discloses nothing.
LEMMA NothingDisclosed ==
  ASSUME shown' = Nothing
  PROVE  shown' \in Shown /\ ShownIsJustified'
<1>1. Nothing \in Shown /\ Nothing.what = "nothing"
  BY DEF Nothing, Shown, Facts
<1> QED
  BY <1>1
  DEF ShownIsJustified, ContactNeedsTurn, RosterIsOfBooking, PrivateNeedsBooking,
      UnpublishedStaysInside

\* The fields of a response.
LEMMA ShowFields ==
  ASSUME NEW to \in Readers \cup {NoHost}, NEW what \in Facts, NEW row \in Editions \cup {0},
         Show(to, what, row)
  PROVE  shown' \in Shown /\ shown'.to = to /\ shown'.what = what /\ shown'.row = row
<1> DEFINE new == [Nothing EXCEPT !.to = to, !.what = what, !.row = row]
<1>1. new \in Shown /\ new.to = to /\ new.what = what /\ new.row = row
  BY DEF Nothing, Shown, Facts
<1>2. shown' = new
  BY DEF Show
<1> QED
  BY <1>1, <1>2

\* The types of what is stored and shown, one by one.
LEMMA DisclosureFields ==
  ASSUME DisclosureTypeOK
  PROVE  /\ host \in Readers \cup {NoHost} /\ edition \in Editions /\ edition \in Editions \cup {0}
         /\ bookedWith \subseteq Hosts
BY DEF DisclosureTypeOK, Readers

\* A step that touches neither what is stored of bookings and inquiries nor the listing, and
\* shows nothing.
LEMMA QuietStep ==
  ASSUME DisclosureInv, shown' = Nothing, UNCHANGED <<bookingVars, inquiryVars, page, turned>>,
         UNCHANGED <<host, edition>>,
         trusted' \subseteq Hosts, isPublic' \in BOOLEAN, published \subseteq published',
         published' \subseteq Editions, isPublic' => edition \in published'
  PROVE  DisclosureInv'
BY NothingDisclosed
DEF DisclosureInv, DisclosureTypeOK, StoredIsJustified, HostHasOwned, BookingsWereMade,
    EnrolmentWasMade, RevealWasAccepted, PublicWasApproved, PageIsJustified, bookingVars,
    inquiryVars

\* Moderation approves what it makes public.
LEMMA ModerateHolds ==
  ASSUME DisclosureInv, NEW active \in BOOLEAN, Moderate(active)
  PROVE  DisclosureInv'
BY QuietStep DEF Moderate, DisclosureInv, DisclosureTypeOK

\* Roles are granted and revoked.
LEMMA ChangeTrustHolds ==
  ASSUME DisclosureInv, NEW h \in Hosts, ChangeTrust(h)
  PROVE  DisclosureInv'
BY QuietStep DEF ChangeTrust, DisclosureInv, DisclosureTypeOK, StoredIsJustified, PublicWasApproved

\* A new edition is no public one; the page under way shows an older row.
LEMMA NewEditionHolds ==
  ASSUME DisclosureInv, NEW h \in Hosts, NewEdition(h)
  PROVE  DisclosureInv'
<1>1. shown' \in Shown /\ ShownIsJustified'
  BY NothingDisclosed DEF NewEdition
<1>2. edition' \in Editions
  BY DisclosureAssumption
  DEF NewEdition, DisclosureInv, DisclosureTypeOK, Editions, DisclosureAssumption
<1>3. /\ isPublic' = FALSE
      /\ UNCHANGED <<host, trusted, published, bookedWith, confirmed, enrolled, inquiry,
                     revealed, revealing, turned>>
  BY DEF NewEdition, bookingVars, inquiryVars
<1>4. page' \in Pages /\ PageIsJustified'
  <2>1. CASE page = NoPage
    BY <2>1, <1>3 DEF NewEdition, PageIsJustified, DisclosureInv, DisclosureTypeOK
  <2>2. CASE page # NoPage
    <3>1. page' = [page EXCEPT !.passed = TRUE]
      BY <2>2 DEF NewEdition
    <3>2. /\ page' \in Pages /\ page'.reader = page.reader /\ page'.row = page.row
          /\ page'.passed = TRUE
      BY <3>1 DEF DisclosureInv, DisclosureTypeOK, Pages
    <3> QED
      BY <2>2, <3>2, <1>3 DEF DisclosureInv, StoredIsJustified, PageIsJustified
  <2> QED
    BY <2>1, <2>2
<1> QED
  BY <1>1, <1>2, <1>3, <1>4
  DEF DisclosureInv, DisclosureTypeOK, StoredIsJustified, HostHasOwned, BookingsWereMade,
      EnrolmentWasMade, RevealWasAccepted, PublicWasApproved

\* An owner the admin's form names has owned the listing, and inherits the requests there are.
LEMMA ChangeHostHolds ==
  ASSUME DisclosureInv, NEW h \in Hosts \cup {NoHost}, ChangeHost(h)
  PROVE  DisclosureInv'
<1>1. shown' \in Shown /\ ShownIsJustified'
  BY NothingDisclosed DEF ChangeHost
<1>2. /\ host' = h
      /\ UNCHANGED <<trusted, edition, isPublic, published, bookedWith, confirmed, enrolled,
                     inquiry, revealed, revealing, page>>
  BY DEF ChangeHost, bookingVars, inquiryVars
<1>3. /\ turned \subseteq turned'
      /\ h # NoHost => <<"owned", h>> \in turned'
      /\ h # NoHost /\ enrolled => <<"inherited", h>> \in turned'
  BY DEF ChangeHost
<1>4. turned' \subseteq Turns \X Readers
  <2>1. h # NoHost => <<"owned", h>> \in Turns \X Readers
                      /\ <<"inherited", h>> \in Turns \X Readers
    BY DEF Turns, Readers
  <2> QED
    BY <2>1 DEF ChangeHost, DisclosureInv, DisclosureTypeOK
<1>5. /\ HostHasOwned' /\ BookingsWereMade' /\ EnrolmentWasMade' /\ RevealWasAccepted'
      /\ PublicWasApproved'
  BY <1>2, <1>3
  DEF DisclosureInv, StoredIsJustified, HostHasOwned, BookingsWereMade, EnrolmentWasMade,
      RevealWasAccepted, PublicWasApproved
<1>6. PageIsJustified'
  BY <1>2, <1>3 DEF DisclosureInv, StoredIsJustified, PageIsJustified
<1> QED
  BY <1>1, <1>2, <1>4, <1>5, <1>6 DEF DisclosureInv, DisclosureTypeOK, StoredIsJustified

\* What a page shows to a visitor is approved when it is loaded.
LEMMA LoadPageHolds ==
  ASSUME DisclosureInv, NEW r \in Hosts \cup {Visitor}, LoadPage(r)
  PROVE  DisclosureInv'
<1>1. shown' \in Shown /\ ShownIsJustified'
  BY NothingDisclosed DEF LoadPage
<1>2. UNCHANGED <<host, trusted, edition, isPublic, published, bookedWith, confirmed, enrolled,
                  inquiry, revealed, revealing, turned>>
  BY DEF LoadPage, offerVars, bookingVars, inquiryVars
<1>3. page' = [reader |-> r, row |-> edition, passed |-> FALSE] /\ MayLoad(r)
  BY DEF LoadPage
<1>4. page' \in Pages
  BY <1>3 DEF Pages, DisclosureInv, DisclosureTypeOK
<1>5. page'.reader = r /\ page'.row = edition
  BY <1>3
<1>6. PageIsJustified'
  <2>1. CASE r = Visitor
    BY <2>1, <1>2, <1>3, <1>5
    DEF MayLoad, PageIsJustified, DisclosureInv, StoredIsJustified, PublicWasApproved
  <2>2. CASE r # Visitor
    BY <2>2, <1>2, <1>3, <1>5, ReadersApart
    DEF MayLoad, PageIsJustified, DisclosureInv, StoredIsJustified, HostHasOwned
  <2> QED
    BY <2>1, <2>2
<1> QED
  BY <1>1, <1>2, <1>4, <1>6
  DEF DisclosureInv, DisclosureTypeOK, StoredIsJustified, HostHasOwned, BookingsWereMade,
      EnrolmentWasMade, RevealWasAccepted, PublicWasApproved

\* What a page shows was loaded with right, and its contacts are the present ones.
LEMMA RenderPageHolds ==
  ASSUME DisclosureInv, RenderPage
  PROVE  DisclosureInv'
<1>1. UNCHANGED <<host, trusted, edition, isPublic, published, bookedWith, confirmed, enrolled,
                  inquiry, revealed, revealing, turned>>
  BY DEF RenderPage, offerVars, bookingVars, inquiryVars
<1>2. /\ page # NoPage /\ page' = NoPage
      /\ shown' = [to |-> page.reader, what |-> "page", row |-> page.row, contacts |-> edition,
                   passed |-> page.passed]
  BY DEF RenderPage
<1>3. page' \in Pages /\ PageIsJustified'
  BY <1>2 DEF NoPage, Pages, PageIsJustified
<1>4. /\ page.reader \in Readers \cup {NoHost} /\ page.row \in Editions \cup {0}
      /\ page.passed \in BOOLEAN
  BY DEF DisclosureInv, DisclosureTypeOK, Pages, Readers
<1>5. shown' \in Shown
  BY <1>2, <1>4 DEF Shown, Facts, DisclosureInv, DisclosureTypeOK
<1>6. /\ shown'.what = "page" /\ shown'.to = page.reader /\ shown'.row = page.row
      /\ shown'.contacts = edition
  BY <1>2
<1>7. shown'.passed = page.passed
  BY <1>2
<1>8. page.reader = Visitor => page.row \in published /\ (edition \in published \/ page.passed)
  BY <1>2 DEF DisclosureInv, StoredIsJustified, PageIsJustified
<1>9. page.reader # Visitor => <<"owned", page.reader>> \in turned
  BY <1>2 DEF DisclosureInv, StoredIsJustified, PageIsJustified
<1>10. ShownIsJustified'
  BY <1>1, <1>6, <1>7, <1>8, <1>9
  DEF ShownIsJustified, ContactNeedsTurn, RosterIsOfBooking, PrivateNeedsBooking,
      UnpublishedStaysInside
<1> QED
  BY <1>1, <1>3, <1>5, <1>10
  DEF DisclosureInv, DisclosureTypeOK, StoredIsJustified, HostHasOwned, BookingsWereMade,
      EnrolmentWasMade, RevealWasAccepted, PublicWasApproved

\* A step of bookings or inquiries leaves the listing and its pages; what it adds to the turns
\* justifies what it stores.
LEMMA OfferStays ==
  ASSUME DisclosureInv, UNCHANGED <<offerVars, page>>, shown' \in Shown, ShownIsJustified',
         turned \subseteq turned', turned' \subseteq Turns \X Readers,
         bookedWith' \subseteq Hosts, confirmed' \in BOOLEAN, enrolled' \in BOOLEAN,
         inquiry' \in InquiryStages, revealed' \in BOOLEAN, revealing' \in BOOLEAN,
         BookingsWereMade', EnrolmentWasMade', RevealWasAccepted'
  PROVE  DisclosureInv'
<1>1. UNCHANGED <<host, trusted, edition, isPublic, published, page>>
  BY DEF offerVars
<1>2. HostHasOwned' /\ PublicWasApproved'
  BY <1>1 DEF DisclosureInv, StoredIsJustified, HostHasOwned, PublicWasApproved
<1>3. PageIsJustified'
  BY <1>1 DEF DisclosureInv, StoredIsJustified, PageIsJustified
<1> QED
  BY <1>1, <1>2, <1>3 DEF DisclosureInv, DisclosureTypeOK, StoredIsJustified

\* A step that only shows something.
LEMMA OnlyShows ==
  ASSUME DisclosureInv, UNCHANGED <<offerVars, bookingVars, inquiryVars, page, turned>>,
         shown' \in Shown, ShownIsJustified'
  PROVE  DisclosureInv'
<1>1. UNCHANGED <<host, trusted, edition, isPublic, published, page, bookedWith, confirmed,
                  enrolled, inquiry, revealed, revealing, turned>>
  BY DEF offerVars, bookingVars, inquiryVars
<1>2. BookingsWereMade' /\ EnrolmentWasMade' /\ RevealWasAccepted'
  BY <1>1
  DEF DisclosureInv, StoredIsJustified, BookingsWereMade, EnrolmentWasMade, RevealWasAccepted
<1> QED
  BY <1>1, <1>2, OfferStays DEF DisclosureInv, DisclosureTypeOK

\* A booking is made with the owner of its time.
LEMMA BookMasterclassHolds ==
  ASSUME DisclosureInv, BookMasterclass
  PROVE  DisclosureInv'
<1>1. /\ host \in Hosts /\ bookedWith' = bookedWith \cup {host} /\ confirmed' = TRUE
      /\ turned' = turned \cup {<<"booked", host>>}
      /\ UNCHANGED <<enrolled, inquiry, revealed, revealing, host>>
      /\ UNCHANGED <<offerVars, page>>
  BY DEF BookMasterclass, DisclosureInv, DisclosureTypeOK, offerVars, inquiryVars
<1>2. <<"booked", host>> \in Turns \X Readers
  BY <1>1 DEF Turns, Readers
<1>3. shown' \in Shown /\ shown'.what = "private"
  BY ShowFields, DisclosureFields DEF BookMasterclass, DisclosureInv, Readers, Facts
<1>4. ShownIsJustified'
  BY <1>1, <1>3
  DEF ShownIsJustified, ContactNeedsTurn, RosterIsOfBooking, PrivateNeedsBooking,
      UnpublishedStaysInside
<1>5. BookingsWereMade' /\ EnrolmentWasMade' /\ RevealWasAccepted'
  BY <1>1
  DEF DisclosureInv, StoredIsJustified, BookingsWereMade, EnrolmentWasMade, RevealWasAccepted
<1>6. turned' \subseteq Turns \X Readers
  BY <1>1, <1>2 DEF DisclosureInv, DisclosureTypeOK
<1> QED
  BY <1>1, <1>3, <1>4, <1>5, <1>6, OfferStays DEF DisclosureInv, DisclosureTypeOK

\* A cancelled booking stays in the rosters.
LEMMA CancelBookingHolds ==
  ASSUME DisclosureInv, CancelBooking
  PROVE  DisclosureInv'
<1>1. /\ confirmed' = FALSE /\ UNCHANGED <<offerVars, page>>
      /\ UNCHANGED <<host, bookedWith, enrolled, inquiry, revealed, revealing, turned>>
  BY DEF CancelBooking, offerVars, inquiryVars
<1>2. shown' \in Shown /\ ShownIsJustified'
  BY NothingDisclosed DEF CancelBooking
<1>3. BookingsWereMade' /\ EnrolmentWasMade' /\ RevealWasAccepted'
  BY <1>1
  DEF DisclosureInv, StoredIsJustified, BookingsWereMade, EnrolmentWasMade, RevealWasAccepted
<1> QED
  BY <1>1, <1>2, <1>3, OfferStays DEF DisclosureInv, DisclosureTypeOK

\* Only a family with a booking sees the private details.
LEMMA ShowBookingHolds ==
  ASSUME DisclosureInv, ShowBooking
  PROVE  DisclosureInv'
<1>1. PICK h \in Hosts : <<"booked", h>> \in turned
  BY DisclosureFields DEF ShowBooking, DisclosureInv, StoredIsJustified, BookingsWereMade
<1>2. shown' \in Shown /\ shown'.what = "private"
  BY ShowFields, DisclosureFields DEF ShowBooking, DisclosureInv, Readers, Facts
<1>3. turned' = turned /\ UNCHANGED <<offerVars, bookingVars, inquiryVars, page, turned>>
  BY DEF ShowBooking
<1>4. ShownIsJustified'
  BY <1>1, <1>2, <1>3
  DEF ShownIsJustified, ContactNeedsTurn, RosterIsOfBooking, PrivateNeedsBooking,
      UnpublishedStaysInside
<1> QED
  BY <1>2, <1>3, <1>4, OnlyShows

\* A roster is shown to those it names.
LEMMA ShowRosterHolds ==
  ASSUME DisclosureInv, NEW h \in Hosts, ShowRoster(h)
  PROVE  DisclosureInv'
<1>1. <<"booked", h>> \in turned
  BY DEF ShowRoster, RosterOf, DisclosureInv, StoredIsJustified, BookingsWereMade
<1>2. Show(h, "name", 0) /\ h \in Readers \cup {NoHost} /\ "name" \in Facts
  BY DEF ShowRoster, Readers, Facts
<1>3. shown' \in Shown /\ shown'.what = "name" /\ shown'.to = h
  BY <1>2, ShowFields
<1>4. turned' = turned /\ UNCHANGED <<offerVars, bookingVars, inquiryVars, page, turned>>
  BY DEF ShowRoster
<1>5. ShownIsJustified'
  BY <1>1, <1>3, <1>4
  DEF ShownIsJustified, ContactNeedsTurn, RosterIsOfBooking, PrivateNeedsBooking,
      UnpublishedStaysInside
<1> QED
  BY <1>3, <1>4, <1>5, OnlyShows

\* A request for the listing is made with its owner.
LEMMA EnrolFamilyHolds ==
  ASSUME DisclosureInv, EnrolFamily
  PROVE  DisclosureInv'
<1>1. /\ enrolled' = TRUE
      /\ UNCHANGED <<host, bookedWith, confirmed, inquiry, revealed, revealing, published>>
      /\ UNCHANGED <<offerVars, page>>
  BY DEF EnrolFamily, offerVars, inquiryVars
<1>2. /\ turned \subseteq turned' /\ <<"enrolled", Family>> \in turned'
      /\ host # NoHost => <<"enrolled", host>> \in turned'
  BY DEF EnrolFamily
<1>3. turned' \subseteq Turns \X Readers
  <2>1. <<"enrolled", Family>> \in Turns \X Readers
    BY DEF Turns, Readers
  <2>2. host # NoHost => <<"enrolled", host>> \in Turns \X Readers
    BY DEF Turns, Readers, DisclosureInv, DisclosureTypeOK
  <2> QED
    BY <2>1, <2>2 DEF EnrolFamily, DisclosureInv, DisclosureTypeOK
<1>4. Show(Family, "card", edition) /\ Family \in Readers \cup {NoHost} /\ "card" \in Facts
  BY DEF EnrolFamily, Readers, Facts
<1>5. shown' \in Shown /\ shown'.what = "card"
  BY <1>4, ShowFields, DisclosureFields DEF DisclosureInv
<1>6. ShownIsJustified'
  BY <1>2, <1>5
  DEF ShownIsJustified, ContactNeedsTurn, RosterIsOfBooking, PrivateNeedsBooking,
      UnpublishedStaysInside
<1>7. BookingsWereMade' /\ EnrolmentWasMade' /\ RevealWasAccepted'
  BY <1>1, <1>2
  DEF DisclosureInv, StoredIsJustified, BookingsWereMade, EnrolmentWasMade, RevealWasAccepted
<1> QED
  BY <1>1, <1>2, <1>3, <1>5, <1>6, <1>7, OfferStays DEF DisclosureInv, DisclosureTypeOK

\* A request withdrawn is shown to nobody.
LEMMA WithdrawFamilyHolds ==
  ASSUME DisclosureInv, WithdrawFamily
  PROVE  DisclosureInv'
<1>1. /\ enrolled' = FALSE /\ UNCHANGED <<offerVars, page>>
      /\ UNCHANGED <<host, bookedWith, confirmed, inquiry, revealed, revealing, turned>>
  BY DEF WithdrawFamily, offerVars, inquiryVars
<1>2. shown' \in Shown /\ ShownIsJustified'
  BY NothingDisclosed DEF WithdrawFamily
<1>3. BookingsWereMade' /\ EnrolmentWasMade' /\ RevealWasAccepted'
  BY <1>1
  DEF DisclosureInv, StoredIsJustified, BookingsWereMade, EnrolmentWasMade, RevealWasAccepted
<1> QED
  BY <1>1, <1>2, <1>3, OfferStays DEF DisclosureInv, DisclosureTypeOK

\* The card is shown to the family that made the request.
LEMMA ShowEnrolmentHolds ==
  ASSUME DisclosureInv, ShowEnrolment
  PROVE  DisclosureInv'
<1>1. <<"enrolled", Family>> \in turned
  BY DEF ShowEnrolment, DisclosureInv, StoredIsJustified, EnrolmentWasMade
<1>2. Show(Family, "card", edition) /\ Family \in Readers \cup {NoHost} /\ "card" \in Facts
  BY DEF ShowEnrolment, Readers, Facts
<1>3. shown' \in Shown /\ shown'.what = "card"
  BY <1>2, ShowFields, DisclosureFields DEF DisclosureInv
<1>4. turned' = turned /\ UNCHANGED <<offerVars, bookingVars, inquiryVars, page, turned>>
  BY DEF ShowEnrolment
<1>5. ShownIsJustified'
  BY <1>1, <1>3, <1>4
  DEF ShownIsJustified, ContactNeedsTurn, RosterIsOfBooking, PrivateNeedsBooking,
      UnpublishedStaysInside
<1> QED
  BY <1>3, <1>4, <1>5, OnlyShows

\* The family's contact is shown to the present owner, who got the request or inherited it.
LEMMA ShowClientsHolds ==
  ASSUME DisclosureInv, NEW h \in Hosts, ShowClients(h)
  PROVE  DisclosureInv'
<1>1. {<<"enrolled", h>>, <<"inherited", h>>} \cap turned # {} /\ h # Tutor
  BY ReadersApart DEF ShowClients, DisclosureInv, StoredIsJustified, EnrolmentWasMade
<1>2. Show(h, "contact", 0) /\ h \in Readers \cup {NoHost} /\ "contact" \in Facts
  BY DEF ShowClients, Readers, Facts
<1>3. shown' \in Shown /\ shown'.what = "contact" /\ shown'.to = h
  BY <1>2, ShowFields
<1>4. turned' = turned /\ UNCHANGED <<offerVars, bookingVars, inquiryVars, page, turned>>
  BY DEF ShowClients
<1>5. ShownIsJustified'
  BY <1>1, <1>3, <1>4
  DEF ShownIsJustified, ContactNeedsTurn, RosterIsOfBooking, PrivateNeedsBooking,
      UnpublishedStaysInside
<1> QED
  BY <1>3, <1>4, <1>5, OnlyShows

\* An inquiry that moves on shows nothing.
LEMMA InquiryMovesHolds ==
  ASSUME DisclosureInv, AskTutor \/ CloseInquiry
  PROVE  DisclosureInv'
<1>1. /\ UNCHANGED <<offerVars, page>> /\ inquiry' \in InquiryStages
      /\ UNCHANGED <<host, bookedWith, confirmed, enrolled, revealed, revealing, turned>>
  BY DEF AskTutor, CloseInquiry, offerVars, bookingVars, InquiryStages
<1>2. shown' \in Shown /\ ShownIsJustified'
  BY NothingDisclosed DEF AskTutor, CloseInquiry
<1>3. BookingsWereMade' /\ EnrolmentWasMade' /\ RevealWasAccepted'
  BY <1>1
  DEF DisclosureInv, StoredIsJustified, BookingsWereMade, EnrolmentWasMade, RevealWasAccepted
<1> QED
  BY <1>1, <1>2, <1>3, OfferStays DEF DisclosureInv, DisclosureTypeOK

\* The tutor turns to the family by accepting.
LEMMA AcceptInquiryHolds ==
  ASSUME DisclosureInv, AcceptInquiry
  PROVE  DisclosureInv'
<1>1. /\ UNCHANGED <<offerVars, page>> /\ inquiry' \in InquiryStages /\ revealing' \in BOOLEAN
      /\ UNCHANGED <<host, bookedWith, confirmed, enrolled, revealed>>
      /\ turned' = turned \cup {<<"accepted", Tutor>>}
  BY DEF AcceptInquiry, offerVars, bookingVars, InquiryStages
<1>2. shown' \in Shown /\ ShownIsJustified'
  BY NothingDisclosed DEF AcceptInquiry
<1>3. BookingsWereMade' /\ EnrolmentWasMade' /\ RevealWasAccepted'
  BY <1>1
  DEF DisclosureInv, StoredIsJustified, BookingsWereMade, EnrolmentWasMade, RevealWasAccepted
<1>4. turned' \subseteq Turns \X Readers
  BY <1>1 DEF DisclosureInv, DisclosureTypeOK, Turns, Readers
<1> QED
  BY <1>1, <1>2, <1>3, <1>4, OfferStays DEF DisclosureInv, DisclosureTypeOK

\* A contact shown to a tutor who accepted.
LEMMA ContactShownToTutor ==
  ASSUME DisclosureInv, revealed \/ revealing, Show(Tutor, "contact", 0), turned' = turned
  PROVE  shown' \in Shown /\ ShownIsJustified'
<1>1. <<"accepted", Tutor>> \in turned
  BY DEF DisclosureInv, StoredIsJustified, RevealWasAccepted
<1>2. Tutor \in Readers \cup {NoHost} /\ "contact" \in Facts
  BY DEF Readers, Facts
<1>3. shown' \in Shown /\ shown'.what = "contact" /\ shown'.to = Tutor
  BY <1>2, ShowFields
<1> QED
  BY <1>1, <1>3
  DEF ShownIsJustified, ContactNeedsTurn, RosterIsOfBooking, PrivateNeedsBooking,
      UnpublishedStaysInside

\* The contact is revealed after the status is stored.
LEMMA RevealContactHolds ==
  ASSUME DisclosureInv, RevealContact
  PROVE  DisclosureInv'
<1>1. /\ UNCHANGED <<offerVars, page>> /\ revealing /\ revealing' = FALSE
      /\ UNCHANGED <<host, bookedWith, confirmed, enrolled, inquiry, turned>>
      /\ revealed' = TRUE \/ revealed' = revealed
  BY DEF RevealContact, offerVars, bookingVars
<1>2. shown' \in Shown /\ ShownIsJustified'
  BY <1>1, NothingDisclosed, ContactShownToTutor DEF RevealContact
<1>3. BookingsWereMade' /\ EnrolmentWasMade' /\ RevealWasAccepted'
  BY <1>1
  DEF DisclosureInv, StoredIsJustified, BookingsWereMade, EnrolmentWasMade, RevealWasAccepted
<1> QED
  BY <1>1, <1>2, <1>3, OfferStays DEF DisclosureInv, DisclosureTypeOK

\* A contact once revealed goes on being shown.
LEMMA ShowInquiryHolds ==
  ASSUME DisclosureInv, ShowInquiry
  PROVE  DisclosureInv'
<1>1. shown' \in Shown /\ ShownIsJustified'
  BY ContactShownToTutor DEF ShowInquiry
<1> QED
  BY <1>1, OnlyShows DEF ShowInquiry

\* At first nothing is stored or shown.
LEMMA DisclosureInitHolds ==
  ASSUME DisclosureInit
  PROVE  DisclosureInv
<1>1. Nothing \in Shown /\ Nothing.what = "nothing" /\ NoPage \in Pages
  BY DEF Nothing, Shown, Facts, NoPage, Pages
<1>2. <<"owned", host>> \in Turns \X Readers
  BY DEF DisclosureInit, Turns, Readers
<1>3. 1 \in Editions
  BY DisclosureAssumption DEF DisclosureAssumption, Editions
<1>4. DisclosureTypeOK
  BY <1>1, <1>2, <1>3 DEF DisclosureInit, DisclosureTypeOK, InquiryStages
<1>5. StoredIsJustified
  BY DEF DisclosureInit, StoredIsJustified, HostHasOwned, BookingsWereMade, EnrolmentWasMade,
     RevealWasAccepted, PublicWasApproved, PageIsJustified
<1>6. ShownIsJustified
  BY <1>1
  DEF DisclosureInit, ShownIsJustified, ContactNeedsTurn, RosterIsOfBooking, PrivateNeedsBooking,
      UnpublishedStaysInside
<1> QED
  BY <1>4, <1>5, <1>6 DEF DisclosureInv

\* Every step keeps what is stored and shown justified.
LEMMA DisclosureNextHolds ==
  ASSUME DisclosureInv, [DisclosureNext]_disclosureVars
  PROVE  DisclosureInv'
<1>1. CASE UNCHANGED disclosureVars
  <2>1. UNCHANGED <<offerVars, bookingVars, inquiryVars, page, turned, shown>>
    BY <1>1 DEF disclosureVars
  <2>2. shown' \in Shown
    BY <2>1 DEF DisclosureInv, DisclosureTypeOK
  <2>3. ShownIsJustified'
    BY <2>1
    DEF DisclosureInv, ShownIsJustified, ContactNeedsTurn, RosterIsOfBooking,
        PrivateNeedsBooking, UnpublishedStaysInside, offerVars
  <2> QED
    BY <2>1, <2>2, <2>3, OnlyShows
<1>2. CASE ListingSteps
  BY <1>2, NewEditionHolds, ChangeTrustHolds, ModerateHolds, ChangeHostHolds DEF ListingSteps
<1>3. CASE PageSteps
  BY <1>3, LoadPageHolds, RenderPageHolds DEF PageSteps
<1>4. CASE BookingSteps
  BY <1>4, BookMasterclassHolds, CancelBookingHolds, ShowBookingHolds, EnrolFamilyHolds,
     WithdrawFamilyHolds, ShowEnrolmentHolds, ShowRosterHolds, ShowClientsHolds
  DEF BookingSteps
<1>5. CASE InquirySteps
  BY <1>5, InquiryMovesHolds, AcceptInquiryHolds, RevealContactHolds, ShowInquiryHolds
  DEF InquirySteps
<1> QED
  BY <1>1, <1>2, <1>3, <1>4, <1>5 DEF DisclosureNext

\* Private details, contacts and drafts reach only whom a turn of the family, a booking or an
\* approval justifies, whatever owners, roles and pages overlap.
THEOREM DisclosureKeepsItsWord == DisclosureSpec => []DisclosureSound
BY DisclosureInitHolds, DisclosureNextHolds, DisclosureInvSuffices, PTL DEF DisclosureSpec

(***************************************************************************)
(* Seeding of the catalogue (Seeding).  As long as runs do not overlap, a  *)
(* listing nobody touched or cut short has all its images or the run is at *)
(* it (SetsWhole), which found it with all or none (LookFinds) and has put *)
(* as many as it has counted (ImagesInOrder).                              *)
(***************************************************************************)

\* A run counts images from the first; each gets a position below its number.
Counting(r) ==
  IF seeder[r].step \in {"fetch", "insert"}
  THEN seeder[r].index \in 1..ImageCount /\ seeder[r].position < seeder[r].index
  ELSE seeder[r].index = 0 /\ seeder[r].position = 0

\* Without an overlap one run at most is under way.
RunsAlone == \A q, r \in Seeders : seeder[q].step # "idle" /\ seeder[r].step # "idle" => q = r

FullSet == 0..(ImageCount - 1)

\* The listing a run looks at, or is filling.
WorkedAt(r, s) == seeder[r].step \in {"look", "fetch", "insert"} /\ s = Current(r)

\* A listing nobody touched or cut short is whole or is being worked at.
SetsWhole ==
  \A s \in seeded \ (cut \cup touched) :
    images[s] = FullSet \/ \E r \in Seeders : WorkedAt(r, s)

\* A run that looks for images finds the listing it has written, with all images or none.
LookFinds ==
  \A r \in Seeders : seeder[r].step = "look" /\ Current(r) \notin touched =>
    /\ Current(r) \in seeded
    /\ Current(r) \notin cut => images[Current(r)] \in {{}, FullSet}

\* The images of the listing being filled are those the run has put, in order.
ImagesInOrder ==
  \A r \in Seeders : seeder[r].step \in {"fetch", "insert"} /\ Current(r) \notin touched =>
    /\ Current(r) \in seeded
    /\ images[Current(r)] \subseteq 0..(seeder[r].position - 1)
    /\ Current(r) \notin cut =>
         /\ seeder[r].position = seeder[r].index - 1
         /\ images[Current(r)] = 0..(seeder[r].position - 1)

SeedingInv ==
  /\ SeedingTypeOK /\ RerunsDoNotCollide
  /\ \A r \in Seeders : Counting(r)
  /\ ~together => RunsAlone /\ SetsWhole /\ LookFinds /\ ImagesInOrder

\* The listing a run is at is one of those it has left.
LEMMA CurrentIsLeft ==
  ASSUME SeedingTypeOK, NEW r \in Seeders, seeder[r].todo # {}
  PROVE  Current(r) \in seeder[r].todo /\ Current(r) \in SeedSlugs
BY DEF Current, SeedingTypeOK, SeederStates

\* What is worked at is left to do, so the invariant implies what the module promises.
LEMMA SeedingInvSuffices ==
  ASSUME SeedingInv
  PROVE  SeedingSound
<1>1. ASSUME NEW r \in Seeders, NEW s, WorkedAt(r, s)
      PROVE  s \in seeder[r].todo
  BY <1>1, CurrentIsLeft DEF WorkedAt, SeedingInv, SeedingTypeOK
<1>2. ImagesComplete
  BY <1>1 DEF SeedingInv, SetsWhole, FullSet, ImagesComplete
<1> QED
  BY <1>2 DEF SeedingInv, SeedingSound

\* Only one run changes; what the others are at stays.
LEMMA OneRunChanges ==
  ASSUME SeedingTypeOK, NEW r \in Seeders, NEW state \in SeederStates, Seeder(r, state)
  PROVE  /\ seeder' \in [Seeders -> SeederStates]
         /\ seeder'[r] = state
         /\ \A q \in Seeders : q # r => seeder'[q] = seeder[q] /\ Current(q)' = Current(q)
<1>1. seeder' \in [Seeders -> SeederStates] /\ seeder'[r] = state
  BY DEF SeedingTypeOK, Seeder
<1>2. \A q \in Seeders : q # r => seeder'[q] = seeder[q]
  BY DEF SeedingTypeOK, Seeder
<1>3. \A q \in Seeders : seeder'[q] = seeder[q] => Current(q)' = Current(q)
  BY DEF Current
<1> QED
  BY <1>1, <1>2, <1>3

\* The fields of a run.
LEMMA RunFields ==
  ASSUME SeedingTypeOK, NEW r \in Seeders
  PROVE  /\ seeder[r] \in SeederStates /\ seeder[r].step \in SeederSteps
         /\ seeder[r].todo \subseteq SeedSlugs
         /\ seeder[r].index \in Nat /\ seeder[r].position \in Nat
         /\ seeder[r].index \in Places /\ seeder[r].position \in Places
BY SeedingAssumption DEF SeedingAssumption, SeedingTypeOK, SeederStates, Places

\* The run of a killed or finished command.
LEMMA UnseededFields ==
  /\ Unseeded \in SeederStates /\ Unseeded.step = "idle" /\ Unseeded.todo = {}
  /\ Unseeded.index = 0 /\ Unseeded.position = 0
BY SeedingAssumption DEF SeedingAssumption, Unseeded, SeederStates, SeederSteps, Places

\* When a listing is done the run goes on to the next, or ends.
LEMMA NextListingFields ==
  ASSUME SeedingTypeOK, NEW r \in Seeders
  PROVE  /\ NextListing(r) \in SeederStates
         /\ NextListing(r).step \in {"idle", "upsert"}
         /\ NextListing(r).step = "upsert" => NextListing(r).todo # {}
         /\ NextListing(r).index = 0 /\ NextListing(r).position = 0
<1> DEFINE rest == seeder[r].todo \ {Current(r)}
<1>1. CASE rest = {}
  BY <1>1, UnseededFields DEF NextListing
<1>2. CASE rest # {}
  <2>1. NextListing(r) = [step |-> "upsert", todo |-> rest, index |-> 0, position |-> 0]
    BY <1>2 DEF NextListing, Unseeded
  <2>2. rest \in SUBSET SeedSlugs
    BY RunFields
  <2> HIDE DEF rest
  <2> QED
    BY <1>2, <2>1, <2>2, SeedingAssumption
    DEF SeedingAssumption, SeederStates, SeederSteps, Places
<1> QED
  BY <1>1, <1>2

\* A step of a run under way: without an overlap the others are idle, so what has to be shown
\* is about this run alone.
LEMMA RunStepHolds ==
  ASSUME SeedingInv, NEW r \in Seeders, NEW new \in SeederStates, Seeder(r, new),
         seeder[r].step # "idle", UNCHANGED <<runs, together, touched>>,
         seeded' \subseteq SeedSlugs, cut' \subseteq SeedSlugs, tripped' \in BOOLEAN,
         images' \in [SeedSlugs -> SUBSET Places],
         \A s \in SeedSlugs : images'[s] # {} => s \in seeded',
         new.step \in {"upsert", "look", "fetch", "insert"} => new.todo # {},
         Counting(r)',
         tripped' => together \/ touched # {},
         ~together =>
           /\ \A s \in seeded' \ (cut' \cup touched) : images'[s] = FullSet \/ WorkedAt(r, s)'
           /\ new.step = "look" /\ Current(r)' \notin touched =>
                /\ Current(r)' \in seeded'
                /\ Current(r)' \notin cut' => images'[Current(r)'] \in {{}, FullSet}
           /\ new.step \in {"fetch", "insert"} /\ Current(r)' \notin touched =>
                /\ Current(r)' \in seeded'
                /\ images'[Current(r)'] \subseteq 0..(new.position - 1)
                /\ Current(r)' \notin cut' =>
                     /\ new.position = new.index - 1
                     /\ images'[Current(r)'] = 0..(new.position - 1)
  PROVE  SeedingInv'
<1>1. SeedingTypeOK
  BY DEF SeedingInv
<1>2. /\ seeder' \in [Seeders -> SeederStates] /\ seeder'[r] = new
      /\ \A q \in Seeders : q # r => seeder'[q] = seeder[q] /\ Current(q)' = Current(q)
  BY <1>1, OneRunChanges
<1>3. SeedingTypeOK'
  BY <1>1, <1>2 DEF SeedingTypeOK
<1>4. RerunsDoNotCollide'
  BY DEF RerunsDoNotCollide
<1>5. \A q \in Seeders : Counting(q)'
  BY <1>2 DEF SeedingInv, Counting
<1>6. ASSUME ~together
      PROVE  RunsAlone' /\ SetsWhole' /\ LookFinds' /\ ImagesInOrder'
  <2>1. \A q \in Seeders : q # r => seeder'[q].step = "idle"
    BY <1>2, <1>6 DEF SeedingInv, RunsAlone
  <2>2. RunsAlone'
    BY <2>1 DEF RunsAlone
  <2>3. SetsWhole'
    BY <1>6 DEF SetsWhole, FullSet
  <2>4. LookFinds'
    BY <1>2, <1>6, <2>1 DEF LookFinds, FullSet
  <2>5. ImagesInOrder'
    BY <1>2, <1>6, <2>1 DEF ImagesInOrder
  <2> QED
    BY <2>2, <2>3, <2>4, <2>5
<1> QED
  BY <1>3, <1>4, <1>5, <1>6 DEF SeedingInv

\* A run starts with the listings it deletes or writes; if nobody else is at work every listing
\* is whole.
LEMMA StartSeedingHolds ==
  ASSUME SeedingInv, NEW r \in Seeders, NEW clean \in BOOLEAN, StartSeeding(r, clean)
  PROVE  SeedingInv'
<1> DEFINE new == IF clean THEN [Unseeded EXCEPT !.step = "clean", !.todo = seeded]
                  ELSE [Unseeded EXCEPT !.step = "upsert", !.todo = SeedSlugs]
<1>1. SeedingTypeOK
  BY DEF SeedingInv
<1>2. /\ new \in SeederStates /\ new.step \in {"clean", "upsert"}
      /\ new.step = "upsert" => new.todo # {}
      /\ new.index = 0 /\ new.position = 0
  <2>1. CASE clean
    <3>1. new = [step |-> "clean", todo |-> seeded, index |-> 0, position |-> 0]
      BY <2>1 DEF Unseeded
    <3>2. 0 \in Places /\ seeded \in SUBSET SeedSlugs
      BY <1>1, SeedingAssumption DEF SeedingAssumption, SeedingTypeOK, Places
    <3> HIDE DEF new
    <3> QED
      BY <3>1, <3>2 DEF SeederStates, SeederSteps
  <2>2. CASE ~clean
    <3>1. new = [step |-> "upsert", todo |-> SeedSlugs, index |-> 0, position |-> 0]
      BY <2>2 DEF Unseeded
    <3>2. 0 \in Places /\ SeedSlugs # {}
      BY SeedingAssumption DEF SeedingAssumption, Places
    <3> HIDE DEF new
    <3> QED
      BY <3>1, <3>2 DEF SeederStates, SeederSteps
  <2> QED
    BY <2>1, <2>2
<1>3. Seeder(r, new)
  BY DEF StartSeeding
<1> HIDE DEF new
<1>4. /\ seeder' \in [Seeders -> SeederStates] /\ seeder'[r] = new
      /\ \A q \in Seeders : q # r => seeder'[q] = seeder[q] /\ Current(q)' = Current(q)
  BY <1>1, <1>2, <1>3, OneRunChanges
<1>5. /\ runs' = runs + 1 /\ runs < MaxRuns /\ UNCHANGED <<seeded, images, touched, cut, tripped>>
      /\ together' = (together \/ \E q \in Seeders : seeder[q].step # "idle")
  BY DEF StartSeeding
<1>6. together' \in BOOLEAN /\ runs' \in 0..MaxRuns
  BY <1>1, <1>5, SeedingAssumption DEF SeedingAssumption, SeedingTypeOK
<1>7. SeedingTypeOK'
  BY <1>1, <1>2, <1>4, <1>5, <1>6 DEF SeedingTypeOK
<1>8. RerunsDoNotCollide'
  BY <1>5 DEF SeedingInv, RerunsDoNotCollide
<1>9. \A q \in Seeders : Counting(q)'
  BY <1>2, <1>4 DEF SeedingInv, Counting
<1>10. ASSUME ~together'
       PROVE  RunsAlone' /\ SetsWhole' /\ LookFinds' /\ ImagesInOrder'
  <2>1. ~together /\ \A q \in Seeders : seeder[q].step = "idle"
    BY <1>5, <1>10
  <2>2. \A q \in Seeders : q # r => seeder'[q].step = "idle"
    BY <1>4, <2>1
  <2>3. RunsAlone'
    BY <2>2 DEF RunsAlone
  <2>4. \A s \in seeded \ (cut \cup touched) : images[s] = FullSet
    BY <2>1 DEF SeedingInv, SetsWhole, WorkedAt
  <2>5. SetsWhole'
    BY <1>5, <2>4 DEF SetsWhole, FullSet
  <2>6. \A q \in Seeders : seeder'[q].step \notin {"look", "fetch", "insert"}
    BY <1>2, <1>4, <2>2
  <2> QED
    BY <2>3, <2>5, <2>6 DEF LookFinds, ImagesInOrder
<1> QED
  BY <1>7, <1>8, <1>9, <1>10 DEF SeedingInv

\* A listing that is deleted has neither images nor gaps.
LEMMA CleanListingHolds ==
  ASSUME SeedingInv, NEW r \in Seeders, CleanListing(r)
  PROVE  SeedingInv'
<1>1. SeedingTypeOK /\ seeder[r].step = "clean" /\ Counting(r)
  BY DEF SeedingInv, CleanListing
<1>2. UNCHANGED <<runs, together, touched, tripped>>
  BY DEF CleanListing
<1>3. 0 \in Places /\ SeedSlugs # {}
  BY SeedingAssumption DEF SeedingAssumption, Places
<1>4. CASE seeder[r].todo = {}
  <2> DEFINE new == [Unseeded EXCEPT !.step = "upsert", !.todo = SeedSlugs]
  <2>1. /\ new \in SeederStates /\ new.step = "upsert" /\ new.todo = SeedSlugs
        /\ new.index = 0 /\ new.position = 0
    BY <1>3 DEF Unseeded, SeederStates, SeederSteps
  <2>2. Seeder(r, new) /\ UNCHANGED <<seeded, images, cut>>
    BY <1>4 DEF CleanListing
  <2> HIDE DEF new
  <2>3. /\ new \in SeederStates /\ new.step = "upsert" /\ new.todo # {}
        /\ new.index = 0 /\ new.position = 0
    BY <2>1, <1>3
  <2>4. seeder'[r] = new
    BY <1>1, <2>2, <2>3, OneRunChanges
  <2>5. Counting(r)'
    BY <2>3, <2>4 DEF Counting
  <2>6. ASSUME ~together, NEW s \in seeded' \ (cut' \cup touched)
        PROVE  images'[s] = FullSet
    <3>1. \A q \in Seeders : q # r => seeder[q].step = "idle"
      BY <1>1, <2>6 DEF SeedingInv, RunsAlone
    <3>2. \A q \in Seeders : ~WorkedAt(q, s)
      BY <1>1, <3>1 DEF WorkedAt
    <3> QED
      BY <2>2, <2>6, <3>2 DEF SeedingInv, SetsWhole
  <2> QED
    BY <1>1, <1>2, <2>2, <2>3, <2>5, <2>6, RunStepHolds
    DEF SeedingInv, SeedingTypeOK, RerunsDoNotCollide
<1>5. CASE seeder[r].todo # {}
  <2>1. PICK at \in SeedSlugs : at = Current(r) /\ at \in seeder[r].todo
    BY <1>1, <1>5, CurrentIsLeft
  <2> DEFINE new == [seeder[r] EXCEPT !.todo = @ \ {at}]
  <2>2. /\ Seeder(r, new) /\ seeded' = seeded \ {at} /\ cut' = cut \ {at}
        /\ images' = [images EXCEPT ![at] = {}]
    BY <1>5, <2>1 DEF CleanListing
  <2>3. /\ new \in SeederStates /\ new.step = "clean"
        /\ new.index = 0 /\ new.position = 0
    BY <1>1, RunFields DEF SeederStates, Counting
  <2> HIDE DEF new
  <2>4. seeder'[r] = new
    BY <1>1, <2>2, <2>3, OneRunChanges
  <2>5. Counting(r)'
    BY <2>3, <2>4 DEF Counting
  <2>6. /\ images' \in [SeedSlugs -> SUBSET Places]
        /\ images'[at] = {} /\ \A s \in SeedSlugs \ {at} : images'[s] = images[s]
    BY <1>1, <2>2 DEF SeedingTypeOK
  <2>7. \A s \in SeedSlugs : images'[s] # {} => s \in seeded'
    BY <1>1, <2>2, <2>6 DEF SeedingTypeOK
  <2>8. ASSUME ~together, NEW s \in seeded' \ (cut' \cup touched)
        PROVE  images'[s] = FullSet
    <3>1. \A q \in Seeders : q # r => seeder[q].step = "idle"
      BY <1>1, <2>8 DEF SeedingInv, RunsAlone
    <3>2. \A q \in Seeders : ~WorkedAt(q, s)
      BY <1>1, <3>1 DEF WorkedAt
    <3>3. s # at /\ s \in seeded \ (cut \cup touched) /\ s \in SeedSlugs
      BY <1>1, <2>2 DEF SeedingTypeOK
    <3> QED
      BY <2>6, <2>8, <3>2, <3>3 DEF SeedingInv, SetsWhole
  <2> QED
    BY <1>1, <1>2, <2>2, <2>3, <2>5, <2>6, <2>7, <2>8, RunStepHolds
    DEF SeedingInv, SeedingTypeOK, RerunsDoNotCollide
<1> QED
  BY <1>4, <1>5

\* A listing that is written anew has its images, or none as it is new.
LEMMA UpsertListingHolds ==
  ASSUME SeedingInv, NEW r \in Seeders, UpsertListing(r)
  PROVE  SeedingInv'
<1>1. SeedingTypeOK /\ seeder[r].step = "upsert" /\ Counting(r) /\ seeder[r].todo # {}
  BY DEF SeedingInv, SeedingTypeOK, UpsertListing
<1>2. PICK at \in SeedSlugs : at = Current(r) /\ at \in seeder[r].todo
  BY <1>1, CurrentIsLeft
<1> DEFINE new == [seeder[r] EXCEPT !.step = "look"]
<1>3. /\ Seeder(r, new) /\ seeded' = seeded \cup {at}
      /\ UNCHANGED <<images, runs, together, touched, cut, tripped>>
  BY <1>2 DEF UpsertListing
<1>4. /\ new \in SeederStates /\ new.step = "look" /\ new.todo = seeder[r].todo
      /\ new.index = 0 /\ new.position = 0
  BY <1>1, RunFields DEF SeederStates, SeederSteps, Counting
<1> HIDE DEF new
<1>5. seeder'[r] = new
  BY <1>1, <1>3, <1>4, OneRunChanges
<1>6. Current(r)' = at
  BY <1>2, <1>4, <1>5 DEF Current
<1>7. Counting(r)'
  BY <1>4, <1>5 DEF Counting
<1>8. ASSUME ~together, NEW s \in seeded \ (cut \cup touched)
      PROVE  images[s] = FullSet
  <2>1. \A q \in Seeders : q # r => seeder[q].step = "idle"
    BY <1>1, <1>8 DEF SeedingInv, RunsAlone
  <2>2. \A q \in Seeders : ~WorkedAt(q, s)
    BY <1>1, <2>1 DEF WorkedAt
  <2> QED
    BY <1>8, <2>2 DEF SeedingInv, SetsWhole
<1>9. ASSUME ~together, at \notin cut \cup touched
      PROVE  images[at] \in {{}, FullSet}
  BY <1>1, <1>8, <1>9 DEF SeedingTypeOK
<1>10. WorkedAt(r, at)'
  BY <1>4, <1>5, <1>6 DEF WorkedAt
<1>11. ASSUME ~together, NEW s \in seeded' \ (cut' \cup touched)
       PROVE  images'[s] = FullSet \/ WorkedAt(r, s)'
  BY <1>3, <1>4, <1>5, <1>6, <1>8, <1>11 DEF WorkedAt
<1> QED
  BY <1>1, <1>3, <1>4, <1>6, <1>7, <1>9, <1>11, RunStepHolds
  DEF SeedingInv, SeedingTypeOK, RerunsDoNotCollide

\* A listing that is whole keeps its images; one without any is filled from the first.
LEMMA LookForImagesHolds ==
  ASSUME SeedingInv, NEW r \in Seeders, LookForImages(r)
  PROVE  SeedingInv'
<1>1. SeedingTypeOK /\ seeder[r].step = "look" /\ Counting(r) /\ seeder[r].todo # {}
  BY DEF SeedingInv, SeedingTypeOK, LookForImages
<1>2. PICK at \in SeedSlugs : at = Current(r) /\ at \in seeder[r].todo
  BY <1>1, CurrentIsLeft
<1>3. UNCHANGED <<seeded, images, runs, together, touched, cut, tripped>>
  BY DEF LookForImages
<1>4. ASSUME ~together, NEW s \in seeded \ (cut \cup touched)
      PROVE  images[s] = FullSet \/ s = at
  <2>1. \A q \in Seeders : q # r => seeder[q].step = "idle"
    BY <1>1, <1>4 DEF SeedingInv, RunsAlone
  <2>2. \A q \in Seeders : q # r => ~WorkedAt(q, s)
    BY <2>1 DEF WorkedAt
  <2>3. WorkedAt(r, s) => s = at
    BY <1>2 DEF WorkedAt
  <2> QED
    BY <1>4, <2>2, <2>3 DEF SeedingInv, SetsWhole
<1>5. ASSUME ~together, at \notin touched
      PROVE  at \in seeded /\ (at \notin cut => images[at] \in {{}, FullSet})
  BY <1>1, <1>2, <1>5 DEF SeedingInv, LookFinds
<1>6. CASE LacksImages(at) /\ ImageCount > 0
  <2> DEFINE new == [seeder[r] EXCEPT !.step = "fetch", !.index = 1]
  <2>1. Seeder(r, new)
    BY <1>2, <1>6 DEF LookForImages
  <2>2. 1 \in Places /\ 1 \in 1..ImageCount
    BY <1>6, SeedingAssumption DEF SeedingAssumption, Places
  <2>3. /\ new \in SeederStates /\ new.step = "fetch" /\ new.todo = seeder[r].todo
        /\ new.index = 1 /\ new.position = 0
    BY <1>1, <2>2, RunFields DEF SeederStates, SeederSteps, Counting
  <2> HIDE DEF new
  <2>4. seeder'[r] = new
    BY <1>1, <2>1, <2>3, OneRunChanges
  <2>5. Current(r)' = at
    BY <1>2, <2>3, <2>4 DEF Current
  <2>6. Counting(r)'
    BY <2>2, <2>3, <2>4 DEF Counting
  <2>7. WorkedAt(r, at)'
    BY <2>3, <2>4, <2>5 DEF WorkedAt
  <2>8. \A s : s = at => WorkedAt(r, s)'
    BY <2>3, <2>4, <2>5 DEF WorkedAt
  <2>9. images[at] = {} /\ 0..(new.position - 1) = {} /\ new.position = new.index - 1
    BY <1>6, <2>3 DEF LacksImages
  <2>10. ~together =>
           \A s \in seeded' \ (cut' \cup touched) : images'[s] = FullSet \/ WorkedAt(r, s)'
    BY <1>3, <1>4, <2>8
  <2> QED
    BY <1>1, <1>2, <1>3, <1>5, <2>1, <2>3, <2>5, <2>6, <2>9, <2>10, RunStepHolds
    DEF SeedingInv, SeedingTypeOK, RerunsDoNotCollide
<1>7. CASE ~(LacksImages(at) /\ ImageCount > 0)
  <2>1. Seeder(r, NextListing(r))
    BY <1>2, <1>7 DEF LookForImages
  <2>2. PICK new \in SeederStates : new = NextListing(r)
    BY <1>1, NextListingFields
  <2>3. /\ new.step \in {"idle", "upsert"} /\ (new.step = "upsert" => new.todo # {})
        /\ new.index = 0 /\ new.position = 0
    BY <1>1, <2>2, NextListingFields
  <2>4. seeder'[r] = new
    BY <1>1, <2>1, <2>2, OneRunChanges
  <2>5. Counting(r)'
    BY <2>3, <2>4 DEF Counting
  <2>6. ImageCount = 0 => FullSet = {}
    BY DEF FullSet
  <2>7. ~together => \A s \in seeded' \ (cut' \cup touched) : images'[s] = FullSet
    <3>1. ASSUME ~together, at \in seeded \ (cut \cup touched)
          PROVE  images[at] = FullSet
      <4>1. images[at] \in {{}, FullSet}
        BY <1>5, <3>1
      <4>2. images[at] = {} => ImageCount = 0
        BY <1>7, SeedingAssumption DEF SeedingAssumption, LacksImages
      <4> QED
        BY <2>6, <4>1, <4>2
    <3> QED
      BY <1>3, <1>4, <3>1
  <2> QED
    BY <1>1, <1>3, <2>1, <2>2, <2>3, <2>5, <2>7, RunStepHolds
    DEF SeedingInv, SeedingTypeOK, RerunsDoNotCollide
<1> QED
  BY <1>6, <1>7

\* What a run that fills a listing knows of it.
LEMMA FillingFacts ==
  ASSUME SeedingInv, NEW r \in Seeders, seeder[r].step \in {"fetch", "insert"}
  PROVE  /\ SeedingTypeOK /\ seeder[r].todo # {}
         /\ Current(r) \in SeedSlugs /\ Current(r) \in seeder[r].todo
         /\ seeder[r].index \in 1..ImageCount /\ seeder[r].index \in Nat
         /\ seeder[r].position \in Nat /\ seeder[r].position < seeder[r].index
         /\ ImageCount \in Nat
         /\ ~together => \A s \in seeded \ (cut \cup touched) :
                          images[s] = FullSet \/ s = Current(r)
<1>1. SeedingTypeOK /\ Counting(r) /\ seeder[r].todo # {}
  BY DEF SeedingInv, SeedingTypeOK
<1>2. ASSUME ~together, NEW s \in seeded \ (cut \cup touched)
      PROVE  images[s] = FullSet \/ s = Current(r)
  <2>1. \A q \in Seeders : q # r => seeder[q].step = "idle"
    BY <1>2 DEF SeedingInv, RunsAlone
  <2>2. \A q \in Seeders : q # r => ~WorkedAt(q, s)
    BY <2>1 DEF WorkedAt
  <2>3. WorkedAt(r, s) => s = Current(r)
    BY DEF WorkedAt
  <2> QED
    BY <1>2, <2>2, <2>3 DEF SeedingInv, SetsWhole
<1> QED
  BY <1>1, <1>2, CurrentIsLeft, RunFields, SeedingAssumption DEF Counting, SeedingAssumption

\* After the last image the run goes on to the next listing, after another to the next image.
LEMMA AfterImageFields ==
  ASSUME SeedingInv, NEW r \in Seeders, seeder[r].step \in {"fetch", "insert"},
         NEW p \in 0..seeder[r].index
  PROVE  /\ AfterImage(r, p) \in SeederStates
         /\ \/ /\ seeder[r].index = ImageCount
               /\ AfterImage(r, p).step \in {"idle", "upsert"}
               /\ AfterImage(r, p).step = "upsert" => AfterImage(r, p).todo # {}
               /\ AfterImage(r, p).index = 0 /\ AfterImage(r, p).position = 0
            \/ /\ seeder[r].index < ImageCount
               /\ AfterImage(r, p).step = "fetch" /\ AfterImage(r, p).todo = seeder[r].todo
               /\ AfterImage(r, p).index = seeder[r].index + 1
               /\ AfterImage(r, p).position = p
<1>1. CASE seeder[r].index = ImageCount
  <2>1. AfterImage(r, p) = NextListing(r)
    BY <1>1 DEF AfterImage
  <2> QED
    BY <1>1, <2>1, FillingFacts, NextListingFields
<1>2. CASE seeder[r].index # ImageCount
  <2>1. AfterImage(r, p) = [seeder[r] EXCEPT !.step = "fetch", !.index = @ + 1, !.position = p]
    BY <1>2 DEF AfterImage
  <2>2. seeder[r].index + 1 \in Places /\ p \in Places /\ seeder[r].index < ImageCount
    BY <1>2, FillingFacts DEF Places
  <2>3. seeder[r] \in SeederStates
    BY FillingFacts, RunFields
  <2> QED
    BY <2>1, <2>2, <2>3 DEF SeederStates, SeederSteps
<1> QED
  BY <1>1, <1>2

\* A fetched image is inserted next; one that cannot be had leaves a gap at the end.
LEMMA FetchImageHolds ==
  ASSUME SeedingInv, NEW r \in Seeders, FetchImage(r)
  PROVE  SeedingInv'
<1>1. seeder[r].step = "fetch"
  BY DEF FetchImage
<1>2. PICK at \in SeedSlugs : at = Current(r) /\ at \in seeder[r].todo
  BY <1>1, FillingFacts
<1>3. UNCHANGED <<seeded, images, runs, together, touched, tripped>>
  BY DEF FetchImage
<1>4. /\ SeedingTypeOK /\ seeder[r].index \in 1..ImageCount /\ seeder[r].position \in Nat
      /\ seeder[r].position < seeder[r].index /\ ImageCount \in Nat
      /\ ~together => \A s \in seeded \ (cut \cup touched) : images[s] = FullSet \/ s = at
  BY <1>1, <1>2, FillingFacts
<1>5. ~together /\ at \notin touched =>
        /\ at \in seeded
        /\ images[at] \subseteq 0..(seeder[r].position - 1)
        /\ at \notin cut => /\ seeder[r].position = seeder[r].index - 1
                           /\ images[at] = 0..(seeder[r].position - 1)
  BY <1>1, <1>2 DEF SeedingInv, ImagesInOrder
<1>6. ASSUME Seeder(r, [seeder[r] EXCEPT !.step = "insert"]), UNCHANGED cut
      PROVE  SeedingInv'
  <2> DEFINE new == [seeder[r] EXCEPT !.step = "insert"]
  <2>1. /\ new \in SeederStates /\ new.step = "insert" /\ new.todo = seeder[r].todo
        /\ new.index = seeder[r].index /\ new.position = seeder[r].position
    BY <1>4, RunFields DEF SeederStates, SeederSteps
  <2>2. Seeder(r, new)
    BY <1>6
  <2> HIDE DEF new
  <2>3. seeder'[r] = new
    BY <1>4, <2>1, <2>2, OneRunChanges
  <2>4. Current(r)' = at
    BY <1>2, <2>1, <2>3 DEF Current
  <2>5. Counting(r)'
    BY <1>4, <2>1, <2>3 DEF Counting
  <2>6. ~together =>
          \A s \in seeded' \ (cut' \cup touched) : images'[s] = FullSet \/ WorkedAt(r, s)'
    BY <1>3, <1>4, <1>6, <2>1, <2>3, <2>4 DEF WorkedAt
  <2>7. /\ seeded' \subseteq SeedSlugs /\ cut' \subseteq SeedSlugs /\ tripped' \in BOOLEAN
        /\ images' \in [SeedSlugs -> SUBSET Places]
        /\ \A s \in SeedSlugs : images'[s] # {} => s \in seeded'
        /\ new.todo # {}
        /\ tripped' => together \/ touched # {}
    BY <1>2, <1>3, <1>4, <1>6, <2>1 DEF SeedingInv, SeedingTypeOK, RerunsDoNotCollide
  <2> QED
    BY <1>1, <1>3, <1>5, <1>6, <2>1, <2>2, <2>4, <2>5, <2>6, <2>7, RunStepHolds
<1>7. ASSUME Seeder(r, AfterImage(r, seeder[r].position)), cut' = cut \cup {at}
      PROVE  SeedingInv'
  <2>1. seeder[r].position \in 0..seeder[r].index
    BY <1>4
  <2>2. PICK new \in SeederStates : new = AfterImage(r, seeder[r].position)
    BY <1>1, <2>1, AfterImageFields
  <2>3. \/ /\ new.step \in {"idle", "upsert"} /\ (new.step = "upsert" => new.todo # {})
           /\ new.index = 0 /\ new.position = 0
        \/ /\ new.step = "fetch" /\ new.todo = seeder[r].todo
           /\ new.index \in 1..ImageCount /\ new.position < new.index
           /\ new.position = seeder[r].position
    BY <1>1, <1>4, <2>1, <2>2, AfterImageFields
  <2>4. seeder'[r] = new
    BY <1>4, <1>7, <2>2, OneRunChanges
  <2>5. new.step = "fetch" => Current(r)' = at
    BY <1>2, <2>3, <2>4 DEF Current
  <2>6. Counting(r)'
    BY <2>3, <2>4 DEF Counting
  <2>7. ~together => \A s \in seeded' \ (cut' \cup touched) : images'[s] = FullSet
    BY <1>3, <1>4, <1>7
  <2>8. /\ seeded' \subseteq SeedSlugs /\ cut' \subseteq SeedSlugs /\ tripped' \in BOOLEAN
        /\ images' \in [SeedSlugs -> SUBSET Places]
        /\ \A s \in SeedSlugs : images'[s] # {} => s \in seeded'
        /\ tripped' => together \/ touched # {}
    BY <1>2, <1>3, <1>4, <1>7 DEF SeedingInv, SeedingTypeOK, RerunsDoNotCollide
  <2>9. new.step \in {"upsert", "look", "fetch", "insert"} => new.todo # {}
    BY <1>2, <2>3
  <2>10. new.step # "look" /\ new.step # "insert" /\ Seeder(r, new)
    BY <1>7, <2>2, <2>3
  <2>11. new.step = "fetch" /\ ~together /\ Current(r)' \notin touched =>
           /\ Current(r)' \in seeded'
           /\ images'[Current(r)'] \subseteq 0..(new.position - 1)
           /\ Current(r)' \in cut'
    BY <1>3, <1>5, <1>7, <2>3, <2>5
  <2> QED
    BY <1>1, <1>3, <2>6, <2>7, <2>8, <2>9, <2>10, <2>11, RunStepHolds
<1> QED
  BY <1>2, <1>6, <1>7 DEF FetchImage

\* An image goes to the next position, which is free unless somebody else was at the listing.
LEMMA InsertSeedImageHolds ==
  ASSUME SeedingInv, NEW r \in Seeders, InsertSeedImage(r)
  PROVE  SeedingInv'
<1>1. seeder[r].step = "insert"
  BY DEF InsertSeedImage
<1>2. PICK at \in SeedSlugs : at = Current(r) /\ at \in seeder[r].todo
  BY <1>1, FillingFacts
<1>3. PICK put \in Nat : put = seeder[r].position
  BY <1>1, FillingFacts
<1>4. /\ SeedingTypeOK /\ seeder[r].index \in 1..ImageCount
      /\ put < seeder[r].index /\ ImageCount \in Nat
      /\ ~together => \A s \in seeded \ (cut \cup touched) : images[s] = FullSet \/ s = at
  BY <1>1, <1>2, <1>3, FillingFacts
<1>5. ~together /\ at \notin touched =>
        /\ at \in seeded
        /\ images[at] \subseteq 0..(put - 1)
        /\ at \notin cut => put = seeder[r].index - 1 /\ images[at] = 0..(put - 1)
  BY <1>1, <1>2, <1>3 DEF SeedingInv, ImagesInOrder
<1>6. UNCHANGED <<seeded, runs, together, touched>>
  BY DEF InsertSeedImage
<1>7. CASE at \in seeded /\ put \notin images[at]
  <2>1. /\ images' = [images EXCEPT ![at] = @ \cup {put}]
        /\ Seeder(r, AfterImage(r, put + 1)) /\ UNCHANGED <<cut, tripped>>
    BY <1>2, <1>3, <1>7 DEF InsertSeedImage
  <2>2. put \in Places /\ put + 1 \in 0..seeder[r].index
    BY <1>4 DEF Places
  <2>3. PICK new \in SeederStates : new = AfterImage(r, put + 1)
    BY <1>1, <2>2, AfterImageFields
  <2>4. \/ /\ new.step \in {"idle", "upsert"} /\ (new.step = "upsert" => new.todo # {})
           /\ new.index = 0 /\ new.position = 0 /\ seeder[r].index = ImageCount
        \/ /\ new.step = "fetch" /\ new.todo = seeder[r].todo
           /\ new.index \in 1..ImageCount /\ new.position < new.index
           /\ new.index = seeder[r].index + 1 /\ new.position = put + 1
    BY <1>1, <1>4, <2>2, <2>3, AfterImageFields
  <2>5. seeder'[r] = new
    BY <1>4, <2>1, <2>3, OneRunChanges
  <2>6. new.step = "fetch" => Current(r)' = at
    BY <1>2, <2>4, <2>5 DEF Current
  <2>7. Counting(r)'
    BY <2>4, <2>5 DEF Counting
  <2>8. /\ images' \in [SeedSlugs -> SUBSET Places] /\ images'[at] = images[at] \cup {put}
        /\ \A s \in SeedSlugs : s # at => images'[s] = images[s]
    BY <1>4, <2>1, <2>2 DEF SeedingTypeOK
  <2>9. ~together /\ at \notin touched =>
          /\ images'[at] \subseteq 0..put
          /\ at \notin cut => images'[at] = 0..put
    BY <1>5, <2>8
  <2>10. ~together =>
           \A s \in seeded' \ (cut' \cup touched) : images'[s] = FullSet \/ WorkedAt(r, s)'
    <3>1. ASSUME ~together, at \notin cut \cup touched, new.step # "fetch"
          PROVE  images'[at] = FullSet
      <4>1. put = ImageCount - 1
        BY <1>5, <2>4, <3>1
      <4> QED
        BY <2>9, <3>1, <4>1 DEF FullSet
    <3>2. new.step = "fetch" => WorkedAt(r, at)'
      BY <2>5, <2>6 DEF WorkedAt
    <3>3. seeded \subseteq SeedSlugs
      BY <1>4 DEF SeedingTypeOK
    <3> QED
      BY <1>4, <1>6, <2>1, <2>5, <2>6, <2>8, <3>1, <3>3 DEF WorkedAt
  <2>11. /\ seeded' \subseteq SeedSlugs /\ cut' \subseteq SeedSlugs /\ tripped' \in BOOLEAN
         /\ tripped' => together \/ touched # {}
    BY <1>4, <1>6, <2>1 DEF SeedingInv, SeedingTypeOK, RerunsDoNotCollide
  <2>12. \A s \in SeedSlugs : images'[s] # {} => s \in seeded'
    BY <1>4, <1>6, <1>7, <2>8 DEF SeedingTypeOK
  <2>13. new.step \in {"upsert", "look", "fetch", "insert"} => new.todo # {}
    BY <1>2, <2>4
  <2>14. new.step # "look" /\ new.step # "insert" /\ Seeder(r, new)
    BY <2>1, <2>3, <2>4
  <2>15. new.step = "fetch" /\ ~together /\ Current(r)' \notin touched =>
           /\ Current(r)' \in seeded'
           /\ images'[Current(r)'] \subseteq 0..(new.position - 1)
           /\ Current(r)' \notin cut' =>
                /\ new.position = new.index - 1
                /\ images'[Current(r)'] = 0..(new.position - 1)
    <3> SUFFICES ASSUME new.step = "fetch", ~together, at \notin touched
                 PROVE  /\ at \in seeded
                        /\ images'[at] \subseteq 0..(new.position - 1)
                        /\ at \notin cut =>
                             /\ new.position = new.index - 1
                             /\ images'[at] = 0..(new.position - 1)
      BY <1>6, <2>1, <2>6
    <3>1. new.position - 1 = put
      BY <2>4
    <3>2. at \notin cut => new.position = new.index - 1
      <4>1. at \notin cut => put = seeder[r].index - 1
        BY <1>5
      <4>2. new.index = seeder[r].index + 1 /\ new.position = put + 1
        BY <2>4
      <4> QED
        BY <1>4, <4>1, <4>2
    <3> QED
      BY <1>5, <2>9, <3>1, <3>2
  <2> QED
    BY <1>1, <1>6, <2>7, <2>8, <2>10, <2>11, <2>12, <2>13, <2>14, <2>15, RunStepHolds
<1>8. CASE ~(at \in seeded /\ put \notin images[at])
  <2>1. /\ tripped' = TRUE /\ cut' = cut \cup {at} /\ Seeder(r, Unseeded) /\ images' = images
    BY <1>2, <1>3, <1>8 DEF InsertSeedImage
  <2>2. together \/ touched # {}
    <3>1. put \notin 0..(put - 1)
      OBVIOUS
    <3> QED
      BY <1>5, <1>8, <3>1
  <2>3. Unseeded \in SeederStates /\ Unseeded.step = "idle"
    BY UnseededFields
  <2>4. seeder'[r] = Unseeded
    BY <1>4, <2>1, <2>3, OneRunChanges
  <2>5. Counting(r)'
    BY <2>4, UnseededFields DEF Counting
  <2>6. ~together => \A s \in seeded' \ (cut' \cup touched) : images'[s] = FullSet
    BY <1>4, <1>6, <2>1
  <2> QED
    BY <1>1, <1>4, <1>6, <2>1, <2>2, <2>3, <2>5, <2>6, RunStepHolds DEF SeedingTypeOK
<1> QED
  BY <1>7, <1>8

\* A run that is stopped leaves the listing it is at cut short.
LEMMA SeedingStopsHolds ==
  ASSUME SeedingInv, NEW r \in Seeders, SeedingStops(r)
  PROVE  SeedingInv'
<1>1. SeedingTypeOK /\ seeder[r].step # "idle"
  BY DEF SeedingInv, SeedingStops
<1>2. /\ UNCHANGED <<seeded, images, runs, together, touched, tripped>> /\ Seeder(r, Unseeded)
      /\ cut' = IF seeder[r].todo = {} THEN cut ELSE cut \cup {Current(r)}
  BY DEF SeedingStops
<1>3. Unseeded \in SeederStates /\ Unseeded.step = "idle"
  BY UnseededFields
<1>4. seeder'[r] = Unseeded
  BY <1>1, <1>2, <1>3, OneRunChanges
<1>5. Counting(r)'
  BY <1>4, UnseededFields DEF Counting
<1>6. cut' \subseteq SeedSlugs /\ cut \subseteq cut'
  BY <1>1, <1>2, CurrentIsLeft DEF SeedingTypeOK
<1>7. ASSUME ~together, NEW s \in seeded' \ (cut' \cup touched)
      PROVE  images'[s] = FullSet
  <2>1. \A q \in Seeders : q # r => seeder[q].step = "idle"
    BY <1>1, <1>7 DEF SeedingInv, RunsAlone
  <2>2. \A q \in Seeders : q # r => ~WorkedAt(q, s)
    BY <2>1 DEF WorkedAt
  <2>3. ~WorkedAt(r, s)
    BY <1>1, <1>2, <1>7 DEF WorkedAt, SeedingTypeOK
  <2>4. s \in seeded \ (cut \cup touched)
    BY <1>2, <1>6
  <2> QED
    BY <1>2, <1>7, <2>2, <2>3, <2>4 DEF SeedingInv, SetsWhole
<1> QED
  BY <1>1, <1>2, <1>3, <1>5, <1>6, <1>7, RunStepHolds
  DEF SeedingInv, SeedingTypeOK, RerunsDoNotCollide

\* What editors do at a listing is not the runs' promise any more.
LEMMA SomebodyTouchesHolds ==
  ASSUME SeedingInv, NEW s \in SeedSlugs, TouchImages(s) \/ DeleteSeeded(s)
  PROVE  SeedingInv'
<1>1. SeedingTypeOK
  BY DEF SeedingInv
<1>2. /\ s \in seeded /\ touched' = touched \cup {s}
      /\ UNCHANGED <<seeder, runs, together, cut, tripped>>
      /\ seeded' \subseteq seeded /\ seeded \ seeded' \subseteq {s}
  BY DEF TouchImages, DeleteSeeded
<1>3. /\ images' \in [SeedSlugs -> SUBSET Places]
      /\ \A t \in SeedSlugs : t # s => images'[t] = images[t]
      /\ images'[s] # {} => s \in seeded'
  BY <1>1 DEF TouchImages, DeleteSeeded, SeedingTypeOK
<1>4. SeedingTypeOK'
  BY <1>1, <1>2, <1>3 DEF SeedingTypeOK
<1>5. RerunsDoNotCollide'
  BY <1>2 DEF RerunsDoNotCollide
<1>6. \A q \in Seeders : Counting(q)'
  BY <1>2 DEF SeedingInv, Counting
<1>7. \A q \in Seeders : Current(q)' = Current(q)
  BY <1>2 DEF Current
<1>8. seeded \subseteq SeedSlugs /\ \A q \in Seeders : seeder[q].step \in
        {"look", "fetch", "insert"} => Current(q) \in SeedSlugs
  BY <1>1, CurrentIsLeft DEF SeedingTypeOK
<1>9. ASSUME ~together
      PROVE  RunsAlone' /\ SetsWhole' /\ LookFinds' /\ ImagesInOrder'
  <2>1. RunsAlone'
    BY <1>2, <1>9 DEF SeedingInv, RunsAlone
  <2>2. SetsWhole'
    <3>1. \A q \in Seeders : \A t : WorkedAt(q, t) => WorkedAt(q, t)'
      BY <1>2, <1>7 DEF WorkedAt
    <3>2. \A t \in seeded' \ (cut' \cup touched') : images'[t] = images[t]
                                                /\ t \in seeded \ (cut \cup touched)
      BY <1>2, <1>3, <1>8
    <3>3. \A t \in seeded \ (cut \cup touched) :
            images[t] = FullSet \/ \E r \in Seeders : WorkedAt(r, t)
      BY <1>9 DEF SeedingInv, SetsWhole
    <3>4. FullSet' = FullSet
      BY DEF FullSet
    <3> QED
      BY <3>1, <3>2, <3>3, <3>4 DEF SetsWhole
  <2>3. LookFinds'
    BY <1>2, <1>3, <1>7, <1>8, <1>9 DEF SeedingInv, LookFinds, FullSet
  <2>4. ImagesInOrder'
    BY <1>2, <1>3, <1>7, <1>8, <1>9 DEF SeedingInv, ImagesInOrder
  <2> QED
    BY <2>1, <2>2, <2>3, <2>4
<1> QED
  BY <1>2, <1>4, <1>5, <1>6, <1>9 DEF SeedingInv

\* At first there is neither a listing nor a run.
LEMMA SeedingInitHolds ==
  ASSUME SeedingInit
  PROVE  SeedingInv
<1>1. \A r \in Seeders : seeder[r] = Unseeded
  BY DEF SeedingInit
<1>2. SeedingTypeOK
  <2>1. runs \in 0..MaxRuns
    BY SeedingAssumption DEF SeedingAssumption, SeedingInit
  <2>2. seeder \in [Seeders -> SeederStates]
    BY UnseededFields DEF SeedingInit
  <2>3. /\ images \in [SeedSlugs -> SUBSET Places]
        /\ \A s \in SeedSlugs : images[s] = {}
    BY DEF SeedingInit
  <2>4. /\ seeded \subseteq SeedSlugs /\ together \in BOOLEAN /\ tripped \in BOOLEAN
        /\ touched \subseteq SeedSlugs /\ cut \subseteq SeedSlugs
    BY DEF SeedingInit
  <2> QED
    BY <1>1, <2>1, <2>2, <2>3, <2>4, UnseededFields DEF SeedingTypeOK
<1>3. \A r \in Seeders : Counting(r) /\ seeder[r].step = "idle"
  BY <1>1, UnseededFields DEF Counting
<1> QED
  BY <1>2, <1>3
  DEF SeedingInit, SeedingInv, RerunsDoNotCollide, RunsAlone, SetsWhole, LookFinds, ImagesInOrder

\* Every step keeps the invariant.
LEMMA SeedingNextHolds ==
  ASSUME SeedingInv, [SeedingNext]_seedingVars
  PROVE  SeedingInv'
<1>1. CASE UNCHANGED seedingVars
  <2>1. \A r \in Seeders : Current(r)' = Current(r)
    BY <1>1 DEF seedingVars, Current
  <2>2. SeedingTypeOK' /\ RerunsDoNotCollide' /\ \A r \in Seeders : Counting(r)'
    BY <1>1 DEF seedingVars, SeedingInv, SeedingTypeOK, RerunsDoNotCollide, Counting
  <2>3. ~together' => RunsAlone' /\ SetsWhole' /\ LookFinds' /\ ImagesInOrder'
    BY <1>1, <2>1
    DEF seedingVars, SeedingInv, RunsAlone, SetsWhole, LookFinds, ImagesInOrder, WorkedAt, FullSet
  <2> QED
    BY <2>2, <2>3 DEF SeedingInv
<1>2. ASSUME NEW r \in Seeders,
             \/ \E clean \in BOOLEAN : StartSeeding(r, clean)
             \/ CleanListing(r) \/ UpsertListing(r) \/ LookForImages(r) \/ FetchImage(r)
             \/ InsertSeedImage(r) \/ SeedingStops(r)
      PROVE  SeedingInv'
  BY <1>2, StartSeedingHolds, CleanListingHolds, UpsertListingHolds, LookForImagesHolds,
     FetchImageHolds, InsertSeedImageHolds, SeedingStopsHolds
<1> QED
  BY <1>1, <1>2, SomebodyTouchesHolds DEF SeedingNext

\* Seeding is safe to repeat: however often the command was run, killed or left without images,
\* a run alone does not trip over what is there, and a listing nobody touched or cut short has
\* its full set of images (seed_catalog).
THEOREM SeedingKeepsItsWord == SeedingSpec => []SeedingSound
BY SeedingInitHolds, SeedingNextHolds, SeedingInvSuffices, PTL DEF SeedingSpec

(***************************************************************************)
(* Tags (Tagging).  Ids are never used again (IdsKnown), so what a run has *)
(* resolved is the tag of that name, is gone, or was renamed (MapsMean).   *)
(* That the search means the facets follows from the names being unique    *)
(* within a category.                                                      *)
(***************************************************************************)

\* Ids come from insertions of the past.
IdsKnown ==
  /\ \A i \in DOMAIN tags : i.since <= insertions
  /\ \A p \in Commands : \A m \in command[p].map : m[2].since <= insertions

\* The run has resolved every name its records need.
MapCovers(p) ==
  \A s \in Records(command[p].category) : \A n \in Needed(s) : \E m \in command[p].map : m[1] = n

\* What it has resolved is what it says, unless a tag was renamed.
MapMeans(p) ==
  ~command[p].renamed => \A m \in command[p].map : m[2] \in DOMAIN tags => tags[m[2]].name = m[1]

MapsMean ==
  \A p \in Commands : command[p] # NoCommand =>
    command[p].category \in TagCategories /\ MapCovers(p) /\ MapMeans(p)

TaggingInv == TaggingTypeOK /\ ImportsTagWhole /\ IdsKnown /\ MapsMean

\* The parts of the rows and commands.
LEMMA TaggingFields ==
  ASSUME TaggingTypeOK
  PROVE  /\ \A i \in DOMAIN tags : /\ i \in TagIds /\ tags[i] \in TagRows
                                   /\ tags[i].name \in TagNames
                                   /\ tags[i].category \in TagCategories
                                   /\ tags[i].group \in TagGroups \cup {Ungrouped}
                                   /\ i.since \in 1..MaxInsertions
         /\ \A s \in Slugs : /\ editorial[s] \in EditorialRows
                             /\ editorial[s].tags \subseteq DOMAIN tags
                             /\ editorial[s].tags \in SUBSET TagIds
                             /\ editorial[s].status \in {"none", "ACTIVE", "REJECTED"}
         /\ \A p \in Commands : /\ command[p] \in CommandStates
                                /\ command[p].map \subseteq TagNames \X TagIds
                                /\ command[p].category \in TagCategories \cup {"none"}
                                /\ command[p].renamed \in BOOLEAN
         /\ insertions \in Nat /\ edits \in Nat /\ MaxInsertions \in Nat /\ MaxEdits \in Nat
BY TaggingAssumption
DEF TaggingAssumption, TaggingTypeOK, TagIds, TagRows, EditorialRows, CommandStates

\* Every listing is of one of the two categories.
LEMMA CategoryOfListings == \A s \in Slugs : CategoryOf(s) \in TagCategories
BY DEF CategoryOf, TagCategories

\* Within a category the search compares tags, as names are unique there: it shows the listings
\* that carry one of the tags named of every group.
LEMMA SearchMeansTags ==
  ASSUME TaggingTypeOK
  PROVE  SearchMeansFacets
<1> SUFFICES ASSUME \A s \in Slugs, i \in DOMAIN tags :
                      i \in editorial[s].tags => tags[i].category = CategoryOf(s),
                    NEW c \in TagCategories, NEW names \in SUBSET {tags[i].name : i \in DOMAIN tags}
             PROVE  LET named == {i \in DOMAIN tags :
                                    tags[i].category = c /\ tags[i].name \in names} IN
                    Found(<<c, "upper">>, names) =
                      {s \in Slugs :
                         /\ CategoryOf(s) = c /\ editorial[s].status = "ACTIVE"
                         /\ \A i \in named :
                              \/ i \in editorial[s].tags
                              \/ /\ tags[i].group # Ungrouped
                                 /\ \E j \in named \cap editorial[s].tags :
                                      tags[j].group = tags[i].group}
  BY DEF SearchMeansFacets
<1> DEFINE named == {i \in DOMAIN tags : tags[i].category = c /\ tags[i].name \in names}
<1> DEFINE Carries(s) ==
             \A i \in named : \/ i \in editorial[s].tags
                              \/ /\ tags[i].group # Ungrouped
                                 /\ \E j \in named \cap editorial[s].tags :
                                      tags[j].group = tags[i].group
<1> DEFINE Matches(s) ==
             \A i \in named : \E j \in named, t \in editorial[s].tags :
               SameFacet(i, j) /\ tags[t].name = tags[j].name
<1>1. Asked(<<c, "upper">>, names) = named
  BY DEF Asked, Given, AsWritten, TagCategories, School, Nursery
<1>2. InCategory(<<c, "upper">>) = {s \in Slugs : CategoryOf(s) = c}
  BY DEF InCategory, Given, Upper, TagCategories, School, Nursery
<1>3. ASSUME NEW s \in Slugs, CategoryOf(s) = c
      PROVE  Matches(s) <=> Carries(s)
  <2>1. editorial[s].tags \subseteq DOMAIN tags
    BY TaggingFields
  <2>2. \A t \in editorial[s].tags : tags[t].category = c
    BY <1>3, <2>1
  <2>3. \A t \in editorial[s].tags, j \in named : tags[t].name = tags[j].name => t = j
    BY <2>1, <2>2 DEF TaggingTypeOK, Unique
  <2>4. ASSUME Matches(s), NEW i \in named
        PROVE  \/ i \in editorial[s].tags
               \/ /\ tags[i].group # Ungrouped
                  /\ \E j \in named \cap editorial[s].tags : tags[j].group = tags[i].group
    <3>1. PICK j \in named, t \in editorial[s].tags : SameFacet(i, j) /\ tags[t].name = tags[j].name
      BY <2>4
    <3>2. t = j
      BY <2>3, <3>1
    <3> QED
      BY <3>1, <3>2 DEF SameFacet
  <2>5. ASSUME Carries(s), NEW i \in named
        PROVE  \E j \in named, t \in editorial[s].tags :
                 SameFacet(i, j) /\ tags[t].name = tags[j].name
    <3>1. CASE i \in editorial[s].tags
      BY <3>1 DEF SameFacet
    <3>2. CASE i \notin editorial[s].tags
      <4>1. PICK j \in named \cap editorial[s].tags :
              tags[i].group # Ungrouped /\ tags[j].group = tags[i].group
        BY <2>5, <3>2
      <4> QED
        BY <4>1 DEF SameFacet
    <3> QED
      BY <3>1, <3>2
  <2> QED
    BY <2>4, <2>5
<1>4. Found(<<c, "upper">>, names) =
        {s \in {x \in Slugs : CategoryOf(x) = c} : editorial[s].status = "ACTIVE" /\ Matches(s)}
  BY <1>1, <1>2 DEF Found
<1> QED
  BY <1>3, <1>4

\* The invariant is what the module promises.
LEMMA TaggingInvSuffices ==
  ASSUME TaggingInv
  PROVE  TaggingSound
BY SearchMeansTags DEF TaggingInv, TaggingSound

\* A run that does not move knows as much as before when no id is used again and no tag it has
\* resolved is renamed.
LEMMA MapsStay ==
  ASSUME TaggingInv, UNCHANGED command, insertions' \in Nat, insertions <= insertions',
         \A i \in DOMAIN tags' : i \in DOMAIN tags \/ i.since > insertions,
         \A i \in DOMAIN tags' : i \in DOMAIN tags => tags'[i].name = tags[i].name,
         \A i \in DOMAIN tags' : i.since <= insertions'
  PROVE  IdsKnown' /\ MapsMean'
<1>1. \A p \in Commands : \A m \in command[p].map : m[2].since \in Nat
  BY TaggingFields DEF TaggingInv, TagIds
<1>2. \A p \in Commands : \A m \in command[p].map : m[2].since <= insertions
  BY DEF TaggingInv, IdsKnown
<1>3. IdsKnown'
  BY <1>1, <1>2, TaggingFields DEF TaggingInv, IdsKnown
<1>4. \A p \in Commands : \A m \in command[p].map : m[2] \in DOMAIN tags' => m[2] \in DOMAIN tags
  BY <1>1, <1>2, TaggingFields DEF TaggingInv
<1>5. \A p \in Commands : MapCovers(p) => MapCovers(p)'
  BY DEF MapCovers
<1>6. \A p \in Commands : MapMeans(p) => MapMeans(p)'
  BY <1>4 DEF MapMeans
<1>7. MapsMean'
  BY <1>5, <1>6 DEF TaggingInv, MapsMean
<1> QED
  BY <1>3, <1>7

\* Links that go with their tags lead to tags.
LEMMA UnlinkedLinks ==
  ASSUME TaggingTypeOK, NEW rows, editorial' = Unlinked(rows)
  PROVE  /\ editorial' \in [Slugs -> EditorialRows]
         /\ \A s \in Slugs : editorial'[s].tags \subseteq DOMAIN rows
<1>1. \A s \in Slugs : [editorial[s] EXCEPT !.tags = @ \cap DOMAIN rows] \in EditorialRows
  BY DEF TaggingTypeOK, EditorialRows
<1>2. \A s \in Slugs :
        [editorial[s] EXCEPT !.tags = @ \cap DOMAIN rows].tags = editorial[s].tags \cap DOMAIN rows
  BY DEF TaggingTypeOK, EditorialRows
<1> QED
  BY <1>1, <1>2 DEF Unlinked

\* The group of a name is one of its category.
LEMMA GroupOfName ==
  ASSUME NEW c \in TagCategories, NEW n \in {f[2] : f \in Facets(c)}
  PROVE  <<c, (CHOOSE f \in Facets(c) : f[2] = n)[1]>> \in TagGroups /\ n \in TagNames
<1>1. PICK g \in Facets(c) : g = CHOOSE f \in Facets(c) : f[2] = n
  OBVIOUS
<1>2. \/ c = School /\ Facets(c) = SchoolTagFacets
      \/ c = Nursery /\ Facets(c) = NurseryTagFacets
  <2>1. c = School \/ c = Nursery
    BY DEF TagCategories
  <2>2. c = School => Facets(c) = SchoolTagFacets
    BY DEF Facets
  <2>3. c # School => Facets(c) = NurseryTagFacets
    BY DEF Facets
  <2> QED
    BY <2>1, <2>2, <2>3
<1>3. <<c, g[1]>> \in TagGroups
  BY <1>2 DEF TagGroups
<1> QED
  BY <1>1, <1>2, <1>3 DEF TagNames

\* The vocabulary of a category is written anew, under new ids as far as names are new.
LEMMA ImportTagsHolds ==
  ASSUME TaggingInv, NEW c \in TagCategories, NEW clean \in BOOLEAN, ImportTags(c, clean)
  PROVE  TaggingInv'
<1> DEFINE kept == {i \in DOMAIN tags : ~(clean /\ tags[i].category = c)}
<1> DEFINE Group(n) == <<c, (CHOOSE f \in Facets(c) : f[2] = n)[1]>>
<1> DEFINE names == {f[2] : f \in Facets(c)}
<1> DEFINE old == {tags[i].name : i \in {j \in kept : tags[j].category = c}}
<1> DEFINE fresh == names \ old
<1> DEFINE id(n) == [since |-> insertions + 1, category |-> c, name |-> n]
<1> DEFINE ids == {id(n) : n \in fresh}
<1> DEFINE Row(i) == IF i \notin kept
                     THEN [name |-> i.name, category |-> c, group |-> Group(i.name)]
                     ELSE IF tags[i].category = c /\ tags[i].name \in names
                     THEN [tags[i] EXCEPT !.group = Group(tags[i].name)]
                     ELSE tags[i]
<1>1. /\ insertions < MaxInsertions
      /\ tags' = [i \in kept \cup ids |-> Row(i)]
      /\ insertions' = IF fresh = {} THEN insertions ELSE insertions + 1
      /\ editorial' = Unlinked(tags')
      /\ UNCHANGED <<command, edits, halfTagged>>
  BY DEF ImportTags
<1>2. TaggingTypeOK
  BY DEF TaggingInv
<1>3. insertions \in Nat /\ insertions + 1 \in 1..MaxInsertions /\ insertions' \in Nat
      /\ insertions <= insertions' /\ insertions' \in 0..MaxInsertions
  <2>1. insertions' = insertions \/ insertions' = insertions + 1
    BY <1>1
  <2>2. insertions \in Nat /\ MaxInsertions \in Nat /\ insertions < MaxInsertions
    BY <1>1, <1>2, TaggingFields
  <2> QED
    BY <2>1, <2>2
<1>4. \A n \in names : n \in TagNames /\ Group(n) \in TagGroups
  BY GroupOfName
<1>5. \A n \in fresh : id(n) \in TagIds /\ id(n).since = insertions + 1 /\ id(n).name = n
                      /\ id(n).category = c /\ id(n) \notin DOMAIN tags
  <2>1. \A n \in fresh : id(n) \in TagIds
    BY <1>3, <1>4 DEF TagIds
  <2>2. \A i \in DOMAIN tags : i.since <= insertions /\ i.since \in Nat
    BY <1>2, TaggingFields DEF TaggingInv, IdsKnown
  <2>3. \A n \in fresh : id(n).since = insertions + 1 /\ ~(insertions + 1 <= insertions)
    BY <1>3
  <2> QED
    BY <2>1, <2>2, <2>3
<1> HIDE DEF id
<1>6. DOMAIN tags' = kept \cup ids /\ \A i \in kept \cup ids : tags'[i] = Row(i)
  BY <1>1
<1>7. \A i \in ids : /\ i \in TagIds /\ i.since = insertions + 1 /\ i \notin DOMAIN tags
                    /\ i.name \in fresh /\ i = id(i.name)
                    /\ tags'[i].name = i.name /\ tags'[i].category = c /\ tags'[i] \in TagRows
  <2>1. TAKE i \in ids
  <2>2. PICK n \in fresh : i = id(n)
    OBVIOUS
  <2>3. i.name = n /\ i \in TagIds /\ i.since = insertions + 1 /\ i \notin DOMAIN tags
    BY <1>5, <2>2
  <2>4. tags'[i] = [name |-> i.name, category |-> c, group |-> Group(i.name)]
    BY <1>6, <2>3
  <2>5. i.name \in names /\ i.name \in TagNames /\ Group(i.name) \in TagGroups
    BY <1>4, <2>3
  <2> HIDE DEF Group
  <2> QED
    BY <2>2, <2>3, <2>4, <2>5 DEF TagRows
<1>8. \A i \in kept : /\ tags'[i].name = tags[i].name /\ tags'[i].category = tags[i].category
                     /\ tags'[i] \in TagRows
  <2>1. TAKE i \in kept
  <2>2. tags[i] \in TagRows /\ tags[i].name \in names => Group(tags[i].name) \in TagGroups
    BY <1>2, <1>4, TaggingFields
  <2>3. tags'[i] = IF tags[i].category = c /\ tags[i].name \in names
                   THEN [tags[i] EXCEPT !.group = Group(tags[i].name)] ELSE tags[i]
    BY <1>6
  <2>4. tags[i] \in TagRows
    BY <1>2, TaggingFields
  <2> HIDE DEF Group, kept, names
  <2> QED
    BY <2>2, <2>3, <2>4 DEF TagRows
<1>9. Unique(tags')
  <2>1. ASSUME NEW i \in DOMAIN tags', NEW j \in DOMAIN tags',
               tags'[i].name = tags'[j].name, tags'[i].category = tags'[j].category
        PROVE  i = j
    <3>1. CASE i \in kept /\ j \in kept
      BY <1>2, <1>8, <2>1, <3>1 DEF TaggingTypeOK, Unique
    <3>2. CASE i \in kept /\ j \in ids
      <4>1. tags[i].category = c /\ tags[i].name = j.name /\ j.name \in fresh
        BY <1>7, <1>8, <2>1, <3>2
      <4> QED
        BY <3>2, <4>1
    <3>3. CASE i \in ids /\ j \in kept
      <4>1. tags[j].category = c /\ tags[j].name = i.name /\ i.name \in fresh
        BY <1>7, <1>8, <2>1, <3>3
      <4> QED
        BY <3>3, <4>1
    <3>4. CASE i \in ids /\ j \in ids
      <4>1. i.name = j.name /\ i = id(i.name) /\ j = id(j.name)
        BY <1>7, <2>1, <3>4
      <4> QED
        BY <4>1
    <3> QED
      BY <1>6, <2>1, <3>1, <3>2, <3>3, <3>4
  <2> QED
    BY <2>1 DEF Unique
<1>10. kept \subseteq DOMAIN tags /\ (ids # {} => insertions' = insertions + 1)
  <2>1. ids # {} => fresh # {}
    BY <1>7
  <2> QED
    BY <1>1, <2>1
<1> HIDE DEF kept, ids, fresh, Row, names, Group
<1>11. TaggingTypeOK'
  <2>1. DOMAIN tags' \subseteq TagIds /\ \A i \in DOMAIN tags' : tags'[i] \in TagRows
    BY <1>2, <1>6, <1>7, <1>8, <1>10, TaggingFields
  <2>2. /\ editorial' \in [Slugs -> EditorialRows]
        /\ \A s \in Slugs : editorial'[s].tags \subseteq DOMAIN tags'
    BY <1>1, <1>2, UnlinkedLinks
  <2> QED
    BY <1>1, <1>2, <1>3, <1>9, <2>1, <2>2 DEF TaggingTypeOK
<1>12. IdsKnown' /\ MapsMean'
  <2>1. \A i \in DOMAIN tags : i.since <= insertions /\ i.since \in Nat
    BY <1>2, TaggingFields DEF TaggingInv, IdsKnown
  <2>2. \A i \in DOMAIN tags' : i \in DOMAIN tags \/ i.since > insertions
    BY <1>3, <1>6, <1>7, <1>10
  <2>3. \A i \in DOMAIN tags' : i \in DOMAIN tags => tags'[i].name = tags[i].name
    BY <1>6, <1>7, <1>8
  <2>4. \A i \in DOMAIN tags' : i.since <= insertions'
    BY <1>3, <1>6, <1>7, <1>10, <2>1
  <2> QED
    BY <1>1, <1>3, <2>2, <2>3, <2>4, MapsStay
<1> QED
  BY <1>1, <1>11, <1>12 DEF TaggingInv, ImportsTagWhole

\* A run that has resolved nothing.
LEMMA NoCommandFields == NoCommand \in CommandStates /\ NoCommand.map = {}
BY DEF NoCommand, CommandStates

\* One run changes; it may know only what is so.
LEMMA OneCommandChanges ==
  ASSUME TaggingInv, NEW p \in Commands, NEW state \in CommandStates,
         command' = [command EXCEPT ![p] = state],
         UNCHANGED <<tags, insertions>>,
         \A m \in state.map : m[2].since <= insertions,
         state # NoCommand =>
           /\ state.category \in TagCategories
           /\ \A s \in Records(state.category) : \A n \in Needed(s) : \E m \in state.map : m[1] = n
           /\ \A m \in state.map : m[2] \in DOMAIN tags => tags[m[2]].name = m[1]
  PROVE  command' \in [Commands -> CommandStates] /\ IdsKnown' /\ MapsMean'
<1>1. command' \in [Commands -> CommandStates] /\ command'[p] = state
  BY DEF TaggingInv, TaggingTypeOK
<1>2. \A q \in Commands : q # p => command'[q] = command[q]
  BY DEF TaggingInv, TaggingTypeOK
<1>3. IdsKnown'
  BY <1>1, <1>2 DEF TaggingInv, IdsKnown
<1>4. \A q \in Commands : q # p => (MapCovers(q) => MapCovers(q)') /\ (MapMeans(q) => MapMeans(q)')
  BY <1>2 DEF MapCovers, MapMeans
<1>5. state # NoCommand => MapCovers(p)' /\ MapMeans(p)'
  BY <1>1 DEF MapCovers, MapMeans
<1>6. MapsMean'
  BY <1>1, <1>2, <1>4, <1>5 DEF TaggingInv, MapsMean
<1> QED
  BY <1>1, <1>3, <1>6

\* A run resolves every name it needs, or aborts.
LEMMA LoadTagMapHolds ==
  ASSUME TaggingInv, NEW c \in TagCategories, NEW p \in Commands, LoadTagMap(p, c)
  PROVE  TaggingInv'
<1> DEFINE map == {<<tags[i].name, i>> : i \in NamedIn(c)}
<1> DEFINE new == [category |-> c, renamed |-> FALSE, map |-> map]
<1>1. /\ command' = [command EXCEPT ![p] = new] /\ Complete(c)
      /\ UNCHANGED <<tags, insertions, editorial, edits, halfTagged>>
  BY DEF LoadTagMap
<1>2. TaggingTypeOK /\ NamedIn(c) \subseteq DOMAIN tags
  BY DEF TaggingInv, NamedIn
<1>3. \A m \in map : m[2] \in NamedIn(c) /\ m[1] = tags[m[2]].name
  <2>1. TAKE m \in map
  <2>2. PICK i \in NamedIn(c) : m = <<tags[i].name, i>>
    OBVIOUS
  <2>3. m[1] = tags[i].name /\ m[2] = i
    BY <2>2
  <2> QED
    BY <2>3
<1>4. map \subseteq TagNames \X TagIds
  BY <1>2, TaggingFields
<1>5. \A i \in NamedIn(c) : \E m \in map : m[1] = tags[i].name
  <2>1. TAKE i \in NamedIn(c)
  <2>2. <<tags[i].name, i>> \in map /\ <<tags[i].name, i>>[1] = tags[i].name
    OBVIOUS
  <2> QED
    BY <2>2
<1>6. \A s \in Records(c) : \A n \in Needed(s) : \E i \in NamedIn(c) : tags[i].name = n
  BY <1>1 DEF Complete
<1> HIDE DEF map
<1>7. new \in CommandStates /\ new.map = map /\ new.category = c
  BY <1>4 DEF CommandStates
<1> HIDE DEF new
<1>8. \A m \in map : m[2].since <= insertions
  BY <1>2, <1>3 DEF TaggingInv, IdsKnown
<1>9. \A s \in Records(new.category) : \A n \in Needed(s) : \E m \in new.map : m[1] = n
  BY <1>5, <1>6, <1>7
<1>10. /\ \A m \in new.map : m[2].since <= insertions
       /\ \A m \in new.map : m[2] \in DOMAIN tags => tags[m[2]].name = m[1]
       /\ new.category \in TagCategories
  BY <1>3, <1>7, <1>8
<1>11. command' \in [Commands -> CommandStates] /\ IdsKnown' /\ MapsMean'
  BY <1>1, <1>7, <1>9, <1>10, OneCommandChanges
<1> QED
  BY <1>1, <1>11 DEF TaggingInv, TaggingTypeOK, ImportsTagWhole, Unique

\* A run links what it has resolved: each listing gets all its names.
LEMMA ImportListingsHolds ==
  ASSUME TaggingInv, NEW p \in Commands, ImportListings(p)
  PROVE  TaggingInv'
<1>1. /\ command[p] # NoCommand /\ \A m \in command[p].map : m[2] \in DOMAIN tags
      /\ editorial' = [s \in Slugs |->
           IF CategoryOf(s) = command[p].category THEN [status |-> "ACTIVE", tags |-> Links(p, s)]
           ELSE editorial[s]]
      /\ command' = [command EXCEPT ![p] = NoCommand]
      /\ UNCHANGED <<tags, insertions, edits>>
  BY DEF ImportListings
<1>2. TaggingTypeOK /\ MapCovers(p) /\ MapMeans(p)
  BY <1>1 DEF TaggingInv, MapsMean
<1>3. \A s \in Slugs : Links(p, s) \subseteq DOMAIN tags
  BY <1>1 DEF Links
<1>4. \A s \in Slugs : /\ editorial'[s] \in EditorialRows
                      /\ editorial'[s].tags \subseteq DOMAIN tags
  <2>1. TAKE s \in Slugs
  <2>2. CASE CategoryOf(s) = command[p].category
    <3>1. editorial'[s] = [status |-> "ACTIVE", tags |-> Links(p, s)]
      BY <1>1, <2>2
    <3> QED
      BY <1>2, <1>3, <3>1 DEF TaggingTypeOK, EditorialRows
  <2>3. CASE CategoryOf(s) # command[p].category
    <3>1. editorial'[s] = editorial[s]
      BY <1>1, <2>3
    <3> QED
      BY <1>2, <3>1, TaggingFields
  <2> QED
    BY <2>2, <2>3
<1>5. editorial' \in [Slugs -> EditorialRows]
  BY <1>1, <1>4
<1>6. ASSUME ~command[p].renamed, NEW s \in Records(command[p].category)
      PROVE  {tags[i].name : i \in editorial'[s].tags} = Needed(s)
  <2>1. editorial'[s].tags = Links(p, s)
    BY <1>1 DEF Records
  <2>2. \A m \in command[p].map : tags[m[2]].name = m[1]
    BY <1>1, <1>2, <1>6 DEF MapMeans
  <2>3. ASSUME NEW i \in Links(p, s)
        PROVE  tags[i].name \in Needed(s)
    BY <2>2 DEF Links
  <2>4. ASSUME NEW n \in Needed(s)
        PROVE  \E i \in Links(p, s) : tags[i].name = n
    <3>1. PICK m \in command[p].map : m[1] = n
      BY <1>2 DEF MapCovers
    <3>2. m[2] \in Links(p, s)
      BY <3>1 DEF Links
    <3> QED
      BY <2>2, <3>1, <3>2
  <2> QED
    BY <2>1, <2>3, <2>4
<1>7. halfTagged' = FALSE
  <2>1. halfTagged = FALSE
    BY DEF TaggingInv, ImportsTagWhole, TaggingTypeOK
  <2>2. halfTagged' = (halfTagged \/ (~command[p].renamed /\ \E s \in Records(command[p].category) :
          {tags[i].name : i \in editorial'[s].tags} # Needed(s)))
    BY DEF ImportListings
  <2> QED
    BY <1>6, <2>1, <2>2
<1>8. command' \in [Commands -> CommandStates] /\ IdsKnown' /\ MapsMean'
  BY <1>1, NoCommandFields, OneCommandChanges
<1> QED
  BY <1>1, <1>2, <1>4, <1>5, <1>7, <1>8 DEF TaggingInv, TaggingTypeOK, ImportsTagWhole, Unique

\* A run that fails leaves everything as it was.
LEMMA ImportFailsHolds ==
  ASSUME TaggingInv, NEW p \in Commands, ImportFails(p)
  PROVE  TaggingInv'
<1>1. /\ command' = [command EXCEPT ![p] = NoCommand]
      /\ UNCHANGED <<tags, insertions, editorial, edits, halfTagged>>
  BY DEF ImportFails
<1>2. command' \in [Commands -> CommandStates] /\ IdsKnown' /\ MapsMean'
  BY <1>1, NoCommandFields, OneCommandChanges
<1> QED
  BY <1>1, <1>2 DEF TaggingInv, TaggingTypeOK, ImportsTagWhole, Unique

\* A step that leaves tags and runs alone and links what is there.
LEMMA OnlyListingsChange ==
  ASSUME TaggingInv, UNCHANGED <<tags, insertions, command, halfTagged>>, edits' \in 0..MaxEdits,
         editorial' \in [Slugs -> EditorialRows],
         \A s \in Slugs : editorial'[s].tags \subseteq DOMAIN tags
  PROVE  TaggingInv'
<1>1. IdsKnown' /\ MapsMean'
  BY DEF TaggingInv, IdsKnown, MapsMean, MapCovers, MapMeans
<1> QED
  BY <1>1 DEF TaggingInv, TaggingTypeOK, ImportsTagWhole, Unique

\* --skip-tags leaves links, or none.
LEMMA ImportUntaggedHolds ==
  ASSUME TaggingInv, NEW c \in TagCategories, NEW clean \in BOOLEAN, ImportUntagged(c, clean)
  PROVE  TaggingInv'
<1>1. /\ editorial' = [s \in Slugs |->
           IF CategoryOf(s) # c THEN editorial[s]
           ELSE [status |-> "ACTIVE", tags |-> IF clean THEN {} ELSE editorial[s].tags]]
      /\ UNCHANGED <<tags, insertions, command, edits, halfTagged>>
  BY DEF ImportUntagged
<1>2. ASSUME NEW s \in Slugs
      PROVE  editorial'[s] \in EditorialRows /\ editorial'[s].tags \subseteq DOMAIN tags
  <2>1. /\ editorial[s].tags \subseteq DOMAIN tags /\ editorial[s].tags \in SUBSET TagIds
        /\ editorial[s] \in EditorialRows
    BY TaggingFields DEF TaggingInv
  <2>2. CASE CategoryOf(s) # c
    BY <1>1, <2>1, <2>2
  <2>3. CASE CategoryOf(s) = c /\ clean
    <3>1. editorial'[s] = [status |-> "ACTIVE", tags |-> {}]
      BY <1>1, <2>3
    <3> QED
      BY <3>1 DEF EditorialRows
  <2>4. CASE CategoryOf(s) = c /\ ~clean
    <3>1. editorial'[s] = [status |-> "ACTIVE", tags |-> editorial[s].tags]
      BY <1>1, <2>4
    <3> QED
      BY <2>1, <3>1 DEF EditorialRows
  <2> QED
    BY <2>2, <2>3, <2>4
<1>3. editorial' \in [Slugs -> EditorialRows] /\ edits' \in 0..MaxEdits
  BY <1>1, <1>2 DEF TaggingInv, TaggingTypeOK
<1> QED
  BY <1>1, <1>2, <1>3, OnlyListingsChange

\* What is changed by hand is counted.
LEMMA EditsCounted ==
  ASSUME TaggingTypeOK, ByHand
  PROVE  edits' \in 0..MaxEdits
BY TaggingFields DEF TaggingTypeOK, ByHand

\* A tag added by hand has a new id.
LEMMA AddTagHolds ==
  ASSUME TaggingInv, NEW row \in TagRows, AddTag(row)
  PROVE  TaggingInv'
<1> DEFINE id == [since |-> insertions + 1, category |-> row.category, name |-> row.name]
<1> DEFINE rows == [i \in DOMAIN tags \cup {id} |-> IF i = id THEN row ELSE tags[i]]
<1>1. /\ ByHand /\ insertions < MaxInsertions /\ Unique(rows) /\ tags' = rows
      /\ insertions' = insertions + 1
      /\ UNCHANGED <<editorial, command, halfTagged>>
  BY DEF AddTag
<1>2. TaggingTypeOK
  BY DEF TaggingInv
<1>3. insertions \in Nat /\ insertions + 1 \in 1..MaxInsertions
  BY <1>1, <1>2, TaggingFields
<1>4. id \in TagIds /\ id.since = insertions + 1
  BY <1>3 DEF TagIds, TagRows
<1> HIDE DEF id
<1>5. DOMAIN tags' = DOMAIN tags \cup {id} /\ tags'[id] = row
      /\ \A i \in DOMAIN tags : i # id => tags'[i] = tags[i]
  BY <1>1
<1> HIDE DEF rows
<1>6. \A i \in DOMAIN tags : i.since <= insertions /\ i.since \in Nat
  BY <1>2, TaggingFields DEF TaggingInv, IdsKnown
<1>7. id \notin DOMAIN tags
  <2>1. ~(insertions + 1 <= insertions)
    BY <1>3
  <2> QED
    BY <1>4, <1>6, <2>1
<1>8. TaggingTypeOK'
  <2>1. DOMAIN tags' \subseteq TagIds /\ \A i \in DOMAIN tags' : tags'[i] \in TagRows
    BY <1>2, <1>4, <1>5 DEF TaggingTypeOK
  <2>2. edits' \in 0..MaxEdits /\ insertions' \in 0..MaxInsertions
    BY <1>1, <1>2, <1>3, EditsCounted
  <2> QED
    BY <1>1, <1>2, <1>5, <2>1, <2>2 DEF TaggingTypeOK
<1>9. IdsKnown' /\ MapsMean'
  <2>1. \A i \in DOMAIN tags' : i \in DOMAIN tags \/ i.since > insertions
    BY <1>3, <1>4, <1>5
  <2>2. \A i \in DOMAIN tags' : i \in DOMAIN tags => tags'[i].name = tags[i].name
    BY <1>5, <1>7
  <2>3. \A i \in DOMAIN tags' : i.since <= insertions'
    BY <1>1, <1>3, <1>4, <1>5, <1>6
  <2>4. insertions' \in Nat /\ insertions <= insertions'
    BY <1>1, <1>3
  <2> QED
    BY <1>1, <2>1, <2>2, <2>3, <2>4, MapsStay
<1> QED
  BY <1>1, <1>8, <1>9 DEF TaggingInv, ImportsTagWhole

\* A tag that is renamed is known to be renamed by the runs that have resolved it.
LEMMA EditTagHolds ==
  ASSUME TaggingInv, NEW row \in TagRows, NEW i \in DOMAIN tags, EditTag(i, row)
  PROVE  TaggingInv'
<1>1. /\ ByHand /\ Unique([tags EXCEPT ![i] = row]) /\ tags' = [tags EXCEPT ![i] = row]
      /\ command' = [p \in Commands |->
           [command[p] EXCEPT !.renamed = @ \/ (row.name # tags[i].name
                                               /\ \E m \in command[p].map : m[2] = i)]]
      /\ UNCHANGED <<insertions, editorial, halfTagged>>
  BY DEF EditTag
<1>2. TaggingTypeOK
  BY DEF TaggingInv
<1>3. /\ DOMAIN tags' = DOMAIN tags
      /\ \A j \in DOMAIN tags : j # i => tags'[j] = tags[j]
      /\ tags'[i] = row
  BY <1>1
<1>4. \A p \in Commands :
        /\ command'[p] \in CommandStates
        /\ command'[p].category = command[p].category /\ command'[p].map = command[p].map
        /\ command'[p].renamed =
             (command[p].renamed \/ (row.name # tags[i].name
                                     /\ \E m \in command[p].map : m[2] = i))
  <2>1. TAKE p \in Commands
  <2>2. PICK r \in BOOLEAN :
          r = (command[p].renamed \/ (row.name # tags[i].name
                                      /\ \E m \in command[p].map : m[2] = i))
    OBVIOUS
  <2>3. command'[p] = [command[p] EXCEPT !.renamed = r]
    BY <1>1, <2>2
  <2>4. command[p] \in CommandStates
    BY <1>2, TaggingFields
  <2>5. /\ command'[p] \in CommandStates
        /\ command'[p].category = command[p].category /\ command'[p].map = command[p].map
    BY <2>3, <2>4 DEF CommandStates
  <2>6. command'[p].renamed = r
    BY <2>3, <2>4 DEF CommandStates
  <2> QED
    BY <2>2, <2>5, <2>6
<1>5. command' \in [Commands -> CommandStates]
  BY <1>1, <1>4
<1>6. TaggingTypeOK'
  <2>1. edits' \in 0..MaxEdits
    BY <1>1, <1>2, EditsCounted
  <2>2. \A j \in DOMAIN tags' : tags'[j] \in TagRows
    BY <1>2, <1>3, TaggingFields
  <2>3. Unique(tags')
    BY <1>1
  <2> QED
    BY <1>1, <1>2, <1>3, <1>5, <2>1, <2>2, <2>3 DEF TaggingTypeOK
<1>7. IdsKnown'
  BY <1>1, <1>3, <1>4 DEF TaggingInv, IdsKnown
<1>8. ASSUME NEW p \in Commands, command'[p] # NoCommand
      PROVE  command'[p].category \in TagCategories /\ MapCovers(p)' /\ MapMeans(p)'
  <2>1. command[p] # NoCommand
    <3>1. ASSUME command[p] = NoCommand
          PROVE  FALSE
      <4>1. command[p].map = {} /\ command[p].renamed = FALSE
        BY <3>1 DEF NoCommand
      <4>2. PICK r \in BOOLEAN :
              r = (command[p].renamed \/ (row.name # tags[i].name
                                          /\ \E m \in command[p].map : m[2] = i))
        OBVIOUS
      <4>3. r = FALSE
        BY <4>1, <4>2
      <4>4. command'[p] = [command[p] EXCEPT !.renamed = r]
        BY <1>1, <4>2
      <4>5. command[p] = [category |-> "none", map |-> {}, renamed |-> r]
        BY <3>1, <4>3 DEF NoCommand
      <4>6. [[category |-> "none", map |-> {}, renamed |-> r] EXCEPT !.renamed = r]
              = [category |-> "none", map |-> {}, renamed |-> r]
        OBVIOUS
      <4>7. command'[p] = command[p]
        BY <4>4, <4>5, <4>6
      <4> QED
        BY <1>8, <3>1, <4>7
    <3> QED
      BY <3>1
  <2>2. command[p].category \in TagCategories /\ MapCovers(p) /\ MapMeans(p)
    BY <2>1 DEF TaggingInv, MapsMean
  <2>3. MapCovers(p)'
    BY <1>4, <2>2 DEF MapCovers
  <2>4. ASSUME ~command'[p].renamed, NEW m \in command[p].map, m[2] \in DOMAIN tags
        PROVE  tags'[m[2]].name = m[1]
    <3>1. tags[m[2]].name = m[1]
      BY <1>4, <2>2, <2>4 DEF MapMeans
    <3>2. m[2] = i => row.name = tags[i].name
      BY <1>4, <2>4
    <3> QED
      BY <1>3, <2>4, <3>1, <3>2
  <2>5. MapMeans(p)'
    BY <1>3, <1>4, <2>4 DEF MapMeans
  <2> QED
    BY <1>4, <2>2, <2>3, <2>5
<1>9. MapsMean'
  BY <1>8 DEF MapsMean
<1> QED
  BY <1>1, <1>6, <1>7, <1>9 DEF TaggingInv, ImportsTagWhole

\* A tag that is deleted takes its links with it.
LEMMA DeleteTagHolds ==
  ASSUME TaggingInv, NEW i \in DOMAIN tags, DeleteTag(i)
  PROVE  TaggingInv'
<1>1. /\ ByHand /\ tags' = [j \in DOMAIN tags \ {i} |-> tags[j]] /\ editorial' = Unlinked(tags')
      /\ UNCHANGED <<insertions, command, halfTagged>>
  BY DEF DeleteTag
<1>2. TaggingTypeOK
  BY DEF TaggingInv
<1>3. DOMAIN tags' = DOMAIN tags \ {i} /\ \A j \in DOMAIN tags' : tags'[j] = tags[j]
  BY <1>1
<1>4. /\ editorial' \in [Slugs -> EditorialRows]
      /\ \A s \in Slugs : editorial'[s].tags \subseteq DOMAIN tags'
  BY <1>1, <1>2, UnlinkedLinks
<1>5. edits' \in 0..MaxEdits
  BY <1>1, <1>2, EditsCounted
<1>6. /\ DOMAIN tags' \subseteq TagIds /\ \A j \in DOMAIN tags' : tags'[j] \in TagRows
      /\ Unique(tags')
  BY <1>2, <1>3 DEF TaggingTypeOK, Unique
<1>7. IdsKnown' /\ MapsMean'
  <2>1. /\ insertions' \in Nat /\ insertions <= insertions'
        /\ \A j \in DOMAIN tags' : j.since <= insertions'
    BY <1>1, <1>2, <1>3, TaggingFields DEF TaggingInv, IdsKnown
  <2> QED
    BY <1>1, <1>3, <2>1, MapsStay
<1> QED
  BY <1>1, <1>2, <1>4, <1>5, <1>6, <1>7 DEF TaggingInv, TaggingTypeOK, ImportsTagWhole

\* A group that is deleted leaves its tags without one.
LEMMA DeleteGroupHolds ==
  ASSUME TaggingInv, NEW g \in TagGroups, DeleteGroup(g)
  PROVE  TaggingInv'
<1>1. /\ ByHand
      /\ tags' = [i \in DOMAIN tags |->
                    IF tags[i].group = g THEN [tags[i] EXCEPT !.group = Ungrouped] ELSE tags[i]]
      /\ UNCHANGED <<insertions, editorial, command, halfTagged>>
  BY DEF DeleteGroup
<1>2. TaggingTypeOK
  BY DEF TaggingInv
<1>3. DOMAIN tags' = DOMAIN tags
  BY <1>1
<1>4. \A j \in DOMAIN tags : /\ tags'[j] \in TagRows
                            /\ tags'[j].name = tags[j].name
                            /\ tags'[j].category = tags[j].category
  <2>1. TAKE j \in DOMAIN tags
  <2>2. tags[j] \in TagRows
    BY <1>2, TaggingFields
  <2>3. tags'[j] = tags[j] \/ tags'[j] = [tags[j] EXCEPT !.group = Ungrouped]
    BY <1>1
  <2> QED
    BY <2>2, <2>3 DEF TagRows
<1>5. edits' \in 0..MaxEdits
  BY <1>1, <1>2, EditsCounted
<1>6. /\ DOMAIN tags' \subseteq TagIds /\ \A j \in DOMAIN tags' : tags'[j] \in TagRows
      /\ Unique(tags')
  BY <1>2, <1>3, <1>4 DEF TaggingTypeOK, Unique
<1>7. IdsKnown' /\ MapsMean'
  <2>1. /\ insertions' \in Nat /\ insertions <= insertions'
        /\ \A j \in DOMAIN tags' : j.since <= insertions'
    BY <1>1, <1>2, <1>3, TaggingFields DEF TaggingInv, IdsKnown
  <2> QED
    BY <1>1, <1>3, <1>4, <2>1, MapsStay
<1> QED
  BY <1>1, <1>2, <1>3, <1>5, <1>6, <1>7 DEF TaggingInv, TaggingTypeOK, ImportsTagWhole

\* A listing is edited or deleted by hand.
LEMMA EditListingHolds ==
  ASSUME TaggingInv, NEW s \in Slugs,
         DeleteEditorial(s) \/ \E st \in {"ACTIVE", "REJECTED"} : EditListing(s, st)
  PROVE  TaggingInv'
<1>1. /\ ByHand /\ UNCHANGED <<tags, insertions, command, halfTagged>>
  BY DEF DeleteEditorial, EditListing
<1>2. TaggingTypeOK
  BY DEF TaggingInv
<1>3. edits' \in 0..MaxEdits
  BY <1>1, <1>2, EditsCounted
<1>4. PICK row \in EditorialRows :
        row.tags \subseteq DOMAIN tags /\ editorial' = [editorial EXCEPT ![s] = row]
  <2>1. CASE DeleteEditorial(s)
    <3>1. NoListing \in EditorialRows /\ NoListing.tags = {}
      BY DEF NoListing, EditorialRows
    <3> QED
      BY <2>1, <3>1 DEF DeleteEditorial
  <2>2. ASSUME NEW st \in {"ACTIVE", "REJECTED"}, EditListing(s, st)
        PROVE  \E row \in EditorialRows :
                 row.tags \subseteq DOMAIN tags /\ editorial' = [editorial EXCEPT ![s] = row]
    <3>1. PICK i \in DOMAIN tags, change \in {{}, {"add"}, {"remove"}} :
            editorial' = [editorial EXCEPT ![s] =
              [status |-> st, tags |-> IF "add" \in change THEN @.tags \cup {i}
                                       ELSE IF "remove" \in change THEN @.tags \ {i} ELSE @.tags]]
      BY <2>2 DEF EditListing
    <3> DEFINE links == IF "add" \in change THEN editorial[s].tags \cup {i}
                        ELSE IF "remove" \in change THEN editorial[s].tags \ {i}
                        ELSE editorial[s].tags
    <3>2. links \subseteq DOMAIN tags /\ links \in SUBSET TagIds
      BY <1>2, TaggingFields
    <3>3. editorial' = [editorial EXCEPT ![s] = [status |-> st, tags |-> links]]
      BY <3>1
    <3> HIDE DEF links
    <3> QED
      BY <3>2, <3>3 DEF EditorialRows
  <2> QED
    BY <2>1, <2>2
<1>5. /\ editorial' \in [Slugs -> EditorialRows]
      /\ \A t \in Slugs : editorial'[t].tags \subseteq DOMAIN tags
  BY <1>2, <1>4 DEF TaggingTypeOK
<1> QED
  BY <1>1, <1>3, <1>5, OnlyListingsChange

\* At first there is neither a tag nor a listing.
LEMMA TaggingInitHolds ==
  ASSUME TaggingInit
  PROVE  TaggingInv
<1>1. DOMAIN tags = {}
  BY DEF TaggingInit
<1>2. insertions \in 0..MaxInsertions /\ edits \in 0..MaxEdits
  BY TaggingAssumption DEF TaggingAssumption, TaggingInit
<1>3. NoListing \in EditorialRows /\ NoListing.tags = {}
  BY DEF NoListing, EditorialRows
<1>4. /\ editorial \in [Slugs -> EditorialRows] /\ \A s \in Slugs : editorial[s].tags = {}
      /\ halfTagged = FALSE
  BY <1>3 DEF TaggingInit
<1>5. command \in [Commands -> CommandStates] /\ \A p \in Commands : command[p] = NoCommand
  BY NoCommandFields DEF TaggingInit
<1>6. TaggingTypeOK
  BY <1>1, <1>2, <1>4, <1>5 DEF TaggingTypeOK, Unique
<1> QED
  BY <1>1, <1>4, <1>5, <1>6, NoCommandFields DEF TaggingInv, ImportsTagWhole, IdsKnown, MapsMean

\* Every step keeps the invariant.
LEMMA TaggingNextHolds ==
  ASSUME TaggingInv, [TaggingNext]_taggingVars
  PROVE  TaggingInv'
<1>1. CASE UNCHANGED taggingVars
  BY <1>1
  DEF taggingVars, TaggingInv, TaggingTypeOK, Unique, ImportsTagWhole, IdsKnown, MapsMean,
      MapCovers, MapMeans
<1>2. ASSUME NEW c \in TagCategories,
             \/ \E clean \in BOOLEAN : ImportTags(c, clean) \/ ImportUntagged(c, clean)
             \/ \E p \in Commands : LoadTagMap(p, c)
      PROVE  TaggingInv'
  BY <1>2, ImportTagsHolds, ImportUntaggedHolds, LoadTagMapHolds
<1>3. ASSUME NEW p \in Commands, ImportListings(p) \/ ImportFails(p)
      PROVE  TaggingInv'
  BY <1>3, ImportListingsHolds, ImportFailsHolds
<1>4. ASSUME NEW row \in TagRows, AddTag(row) \/ \E i \in DOMAIN tags : EditTag(i, row)
      PROVE  TaggingInv'
  BY <1>4, AddTagHolds, EditTagHolds
<1> QED
  BY <1>1, <1>2, <1>3, <1>4, DeleteTagHolds, DeleteGroupHolds, EditListingHolds DEF TaggingNext

\* Whatever names, groups and categories become, the search shows the listings that carry one
\* of the tags named of every group (filter_tags), and a run that links tags gives each listing
\* all of them (import_schools, import_nurseries).
THEOREM TaggingKeepsItsWord == TaggingSpec => []TaggingSound
BY TaggingInitHolds, TaggingNextHolds, TaggingInvSuffices, PTL DEF TaggingSpec

(***************************************************************************)
(* Distances.  A cached distance is the way from some point of its cell,   *)
(* lives for an hour from its answer and is gone when that is over; a      *)
(* request that asks the service alone found nothing under its key, and    *)
(* nobody but itself can have cached anything there since.                 *)
(***************************************************************************)
\* A distance is the way from some point of the cell to the place.
WayFrom(cell, d, km) == \E o \in Points : Cell(o) = cell /\ km = Way(o, d)

\* What holds of a cached distance at the time t.
RouteHolds(r, t) ==
  /\ WayFrom(r.key[1], r.key[2], r.km)
  /\ r.asked <= t /\ t < r.until /\ r.until <= t + CacheTTL
  /\ ~r.late => r.until = r.asked + CacheTTL

\* What holds of a request at the time t.
VisitHolds(m, t) ==
  m.step = "asking" =>
    /\ m.origin \in Points /\ m.dest \in Sites
    /\ m.asked <= t
    /\ ~m.late => m.asked = t

\* Requests that ask at the same time know of each other.
AskedBeside ==
  \A v, w \in Visits : v # w /\ visit[v].step = "asking" /\ visit[w].step = "asking"
                       => visit[v].beside /\ visit[w].beside

\* A request that asks alone has nothing in the cache to ask for.
AloneMissed ==
  \A v \in Visits : visit[v].step = "asking" /\ ~visit[v].beside =>
    \A r \in routes : r.key # KeyOf(visit[v].origin, visit[v].dest)

DistancesInv ==
  /\ DistancesSound
  /\ \A r \in routes : RouteHolds(r, tick)
  /\ \A v \in Visits : VisitHolds(visit[v], tick)
  /\ AskedBeside
  /\ AloneMissed

\* A way between two points is a distance, and never the missing one.
LEMMA WaysAreDistances ==
  ASSUME NEW o \in Points, NEW d \in Points
  PROVE  Way(o, d) \in Kms \ {NoKm} /\ Cell(o) \in {Cell(p) : p \in Points}
<1>1. o \in Int /\ d \in Int /\ 0 <= o /\ o <= MaxPoint /\ 0 <= d /\ d <= MaxPoint
  BY DistancesAssumption DEF Points, DistancesAssumption
<1>2. MaxPoint \in Nat
  BY DistancesAssumption DEF DistancesAssumption
<1> QED
  BY <1>1, <1>2 DEF Kms, NoKm, Way

\* A site is a point; where there is no place is none.
LEMMA SitesAreSpots ==
  /\ Sites \subseteq Points /\ Points \subseteq Origins
  /\ Sites = Spots \ {NoPlace}
  /\ Points = Origins \ {OffMap}
<1>1. MaxPoint \in Nat /\ Sites \subseteq Points
  BY DistancesAssumption DEF DistancesAssumption, Points
<1>2. NoPlace \notin Points /\ OffMap \notin Points
  BY <1>1 DEF NoPlace, OffMap, Points
<1> QED
  BY <1>1, <1>2 DEF Spots, Origins

\* What can be asked of the service goes from a point to a site.
LEMMA RoutableMeans ==
  ASSUME NEW o \in Origins, NEW d \in Spots, Routable(o, d)
  PROVE  o \in Points /\ d \in Sites /\ d \in Points /\ KeyOf(o, d) \in CacheKeys
BY SitesAreSpots DEF Routable, CacheKeys, KeyOf

\* The time is a natural number and so is the cache's hour.
LEMMA TimesAreNumbers ==
  /\ MaxTicks \in Nat /\ CacheTTL \in Nat /\ CacheTTL >= 1
  /\ 0 \in 0..MaxTicks /\ 0..MaxTicks \subseteq Nat
BY DistancesAssumption DEF DistancesAssumption

\* A step that leaves cache and requests alone, tells a sound distance and no error.
LEMMA OnlyTells ==
  ASSUME DistancesInv, UNCHANGED <<place, tick, routes, visit, repeated, search>>,
         told' \in Tellings,
         told'.km # NoKm => WayFrom(Cell(told'.origin), told'.dest, told'.km),
         told'.km = NoKm \/ told'.late \/ told'.age < CacheTTL
  PROVE  DistancesInv'
<1>1. DistancesTypeOK'
  BY DEF DistancesInv, DistancesSound, DistancesTypeOK
<1>2. TrueOfPlace'
  BY DEF TrueOfPlace, WayFrom
<1>3. NotOlderThanTTL'
  BY DEF NotOlderThanTTL
<1>4. QuotaShielded' /\ SearchesAnswered'
  BY DEF DistancesInv, DistancesSound, QuotaShielded, SearchesAnswered
<1>5. (\A r \in routes : RouteHolds(r, tick))' /\ (\A v \in Visits : VisitHolds(visit[v], tick))'
  BY DEF DistancesInv
<1>6. AskedBeside' /\ AloneMissed'
  BY DEF DistancesInv, AskedBeside, AloneMissed
<1> QED
  BY <1>1, <1>2, <1>3, <1>4, <1>5, <1>6 DEF DistancesInv, DistancesSound

\* Nothing told is a telling, and one that nobody has to answer for.
LEMMA NothingIsTold ==
  /\ NothingTold \in Tellings /\ NothingTold.km = NoKm
<1>1. 0 \in Origins /\ NoPlace \in Spots /\ NoKm \in Kms /\ 0 \in 0..MaxTicks
  <2>1. MaxPoint \in Nat /\ MaxTicks \in Nat
    BY DistancesAssumption DEF DistancesAssumption
  <2>2. 0 \in Points /\ NoKm \in Kms
    BY <2>1 DEF Points, NoKm, Kms
  <2> QED
    BY <2>1, <2>2 DEF Origins, Spots
<1> QED
  BY <1>1 DEF NothingTold, Tellings

\* A page that has nothing to ask for tells nothing.
LEMMA SkipDistanceHolds ==
  ASSUME DistancesInv, NEW v \in Visits, NEW o \in Origins, SkipDistance(v, o)
  PROVE  DistancesInv'
<1>1. told' = [origin |-> o, dest |-> place, km |-> NoKm, age |-> 0, late |-> FALSE]
  BY DEF SkipDistance, Tell
<1>2. NoKm \in Kms /\ 0 \in 0..MaxTicks
  BY NothingIsTold DEF NothingTold, Tellings
<1>3. place \in Spots
  BY DEF DistancesInv, DistancesSound, DistancesTypeOK
<1>4. told' \in Tellings /\ told'.km = NoKm
  BY <1>1, <1>2, <1>3 DEF Tellings
<1> QED
  BY <1>4, OnlyTells DEF SkipDistance

\* A page that finds its distance in the cache tells a sound one.
LEMMA HitCacheHolds ==
  ASSUME DistancesInv, NEW v \in Visits, NEW o \in Origins, HitCache(v, o)
  PROVE  DistancesInv'
<1>1. PICK r \in Cached(o, place) :
        told' = [origin |-> o, dest |-> place, km |-> r.km, age |-> tick - r.asked, late |-> r.late]
  BY DEF HitCache, Tell
<1>2. place \in Spots /\ tick \in 0..MaxTicks /\ routes \subseteq Routes
  BY DEF DistancesInv, DistancesSound, DistancesTypeOK
<1>3. r \in routes /\ r \in Routes /\ r.key = KeyOf(o, place) /\ RouteHolds(r, tick)
  BY <1>1, <1>2 DEF Cached, DistancesInv
<1>4. r.km \in Kms \ {NoKm} /\ r.asked \in 0..MaxTicks /\ r.late \in BOOLEAN
      /\ r.until \in 0..(MaxTicks + CacheTTL)
  BY <1>3 DEF Routes
<1>5. tick - r.asked \in 0..MaxTicks /\ (r.late \/ tick - r.asked < CacheTTL)
  <2>1. r.asked <= tick /\ tick < r.until /\ (~r.late => r.until = r.asked + CacheTTL)
    BY <1>3 DEF RouteHolds
  <2> QED
    BY <1>2, <1>4, <2>1, TimesAreNumbers
<1>6. told' \in Tellings
  BY <1>1, <1>2, <1>4, <1>5 DEF Tellings
<1>7. WayFrom(Cell(o), place, r.km)
  BY <1>3 DEF RouteHolds, KeyOf
<1> QED
  BY <1>1, <1>5, <1>6, <1>7, OnlyTells DEF HitCache

\* A request finds nothing and asks; those that ask already are beside it from now on.
LEMMA MissCacheHolds ==
  ASSUME DistancesInv, NEW v \in Visits, NEW o \in Origins, MissCache(v, o)
  PROVE  DistancesInv'
<1> DEFINE others == {w \in Visits \ {v} : visit[w].step = "asking"}
<1> DEFINE N == [NoVisit EXCEPT !.step = "asking", !.origin = o, !.dest = place, !.asked = tick,
                                !.beside = others # {}]
<1>1. /\ UNCHANGED <<place, tick, routes, repeated, search>> /\ told' = NothingTold
      /\ o \in Points /\ place \in Sites
      /\ Cached(o, place) = {}
      /\ place \in Spots /\ tick \in 0..MaxTicks
  BY RoutableMeans DEF MissCache, DistancesInv, DistancesSound, DistancesTypeOK
<1>2. visit \in [Visits -> VisitStates]
  BY DEF DistancesInv, DistancesSound, DistancesTypeOK
<1>3. /\ DOMAIN visit' = Visits
      /\ visit'[v] = N
      /\ \A w \in others : visit'[w] = [visit[w] EXCEPT !.beside = TRUE]
      /\ \A w \in Visits : w # v /\ w \notin others => visit'[w] = visit[w]
  BY DEF MissCache
<1>4. /\ N \in VisitStates /\ N.step = "asking" /\ N.origin = o /\ N.dest = place
      /\ N.asked = tick /\ N.late = FALSE /\ (N.beside <=> others # {})
  <2>1. PICK b \in BOOLEAN : b = (others # {})
    OBVIOUS
  <2>2. PICK q : q = [NoVisit EXCEPT !.step = "asking", !.origin = o, !.dest = place,
                                     !.asked = tick, !.beside = b]
    OBVIOUS
  <2>3. NoVisit = [step |-> "idle", origin |-> 0, dest |-> NoPlace, asked |-> 0,
                   late |-> FALSE, beside |-> FALSE]
    BY DEF NoVisit
  <2>4. /\ q.step = "asking" /\ q.origin = o /\ q.dest = place /\ q.asked = tick
        /\ q.late = FALSE /\ q.beside = b
    BY <2>2, <2>3
  <2>5. q \in VisitStates
    BY <1>1, <2>2, <2>3, SitesAreSpots DEF VisitStates
  <2>6. N = q
    BY <2>1, <2>2
  <2> HIDE DEF N, others
  <2> QED
    BY <2>1, <2>4, <2>5, <2>6
<1> HIDE DEF N
<1>5. \A w \in others : /\ visit'[w] \in VisitStates
                        /\ visit'[w].step = visit[w].step /\ visit'[w].origin = visit[w].origin
                        /\ visit'[w].dest = visit[w].dest /\ visit'[w].asked = visit[w].asked
                        /\ visit'[w].late = visit[w].late /\ visit'[w].beside = TRUE
  <2>1. TAKE w \in others
  <2>2. PICK m \in VisitStates : m = visit[w]
    BY <1>2
  <2>3. visit'[w] = [m EXCEPT !.beside = TRUE]
    BY <1>3, <2>2
  <2> HIDE DEF others
  <2> QED
    BY <2>2, <2>3 DEF VisitStates
<1>6. visit' \in [Visits -> VisitStates]
  <2>1. ASSUME NEW w \in Visits PROVE visit'[w] \in VisitStates
    <3>1. CASE w = v
      BY <1>3, <1>4, <3>1
    <3>2. CASE w \in others
      BY <1>5, <3>2
    <3>3. CASE w # v /\ w \notin others
      <4>1. visit'[w] = visit[w]
        BY <1>3, <3>3
      <4> QED
        BY <1>2, <4>1
    <3> QED
      BY <3>1, <3>2, <3>3
  <2>2. visit' = [w \in Visits |-> visit'[w]]
    BY <1>3 DEF MissCache
  <2> QED
    BY <2>1, <2>2
<1>7. DistancesTypeOK'
  BY <1>1, <1>6, NothingIsTold DEF DistancesInv, DistancesSound, DistancesTypeOK
<1>8. TrueOfPlace' /\ NotOlderThanTTL'
  BY <1>1, NothingIsTold DEF TrueOfPlace, NotOlderThanTTL
<1>9. QuotaShielded' /\ SearchesAnswered'
  BY <1>1 DEF DistancesInv, DistancesSound, QuotaShielded, SearchesAnswered
<1>10. (\A r \in routes : RouteHolds(r, tick))'
  BY <1>1 DEF DistancesInv
<1>11. (\A w \in Visits : VisitHolds(visit[w], tick))'
  <2>1. TAKE w \in Visits
  <2>2. VisitHolds(visit[w], tick)
    BY DEF DistancesInv
  <2>3. CASE w = v
    <3>1. tick <= tick
      BY <1>1, TimesAreNumbers
    <3> QED
      BY <1>1, <1>3, <1>4, <2>3, <3>1 DEF VisitHolds
  <2>4. CASE w \in others
    BY <1>1, <1>5, <2>2, <2>4 DEF VisitHolds
  <2>5. CASE w # v /\ w \notin others
    BY <1>1, <1>3, <2>2, <2>5
  <2> QED
    BY <2>3, <2>4, <2>5
<1>12. AskedBeside'
  <2>1. \A w \in Visits : w # v /\ visit'[w].step = "asking" => w \in others /\ visit'[w].beside
    BY <1>3, <1>5
  <2>2. (\E w \in others : TRUE) => visit'[v].beside
    BY <1>3, <1>4
  <2> QED
    BY <2>1, <2>2 DEF AskedBeside
<1>13. AloneMissed'
  <2>1. \A r \in routes : r.key # KeyOf(o, place)
    BY <1>1 DEF Cached, DistancesInv, RouteHolds
  <2>2. \A w \in Visits : w # v /\ visit'[w].step = "asking" => visit'[w].beside
    BY <1>3, <1>5
  <2> QED
    BY <1>1, <1>3, <1>4, <2>1, <2>2 DEF AloneMissed
<1> QED
  BY <1>7, <1>8, <1>9, <1>10, <1>11, <1>12, <1>13 DEF DistancesInv, DistancesSound
\* A request that is over leaves the others as they were.
LEMMA VisitOver ==
  ASSUME DistancesInv, NEW v \in Visits, visit[v].step = "asking",
         visit' = [visit EXCEPT ![v] = NoVisit], UNCHANGED tick
  PROVE  /\ visit' \in [Visits -> VisitStates]
         /\ visit'[v].step # "asking"
         /\ \A w \in Visits : w # v => visit'[w] = visit[w]
         /\ (\A w \in Visits : VisitHolds(visit[w], tick))'
         /\ AskedBeside'
<1>1. visit \in [Visits -> VisitStates]
  BY DEF DistancesInv, DistancesSound, DistancesTypeOK
<1>2. NoVisit.step # "asking" /\ NoVisit \in VisitStates
  BY NothingIsTold, TimesAreNumbers, DistancesAssumption
     DEF NoVisit, VisitStates, NothingTold, Tellings
<1>3. /\ visit' \in [Visits -> VisitStates]
      /\ visit'[v].step # "asking"
      /\ \A w \in Visits : w # v => visit'[w] = visit[w]
  BY <1>1, <1>2
<1>4. (\A w \in Visits : VisitHolds(visit[w], tick))'
  BY <1>3 DEF DistancesInv, VisitHolds
<1>5. AskedBeside'
  BY <1>3 DEF DistancesInv, AskedBeside
<1> QED
  BY <1>3, <1>4, <1>5

\* The request that asks: what it asks for and since when.
LEMMA AskingMeans ==
  ASSUME DistancesInv, NEW v \in Visits, visit[v].step = "asking"
  PROVE  /\ visit[v].origin \in Points /\ visit[v].dest \in Sites
         /\ visit[v].dest \in Points /\ visit[v].dest \in Spots /\ visit[v].origin \in Origins
         /\ visit[v].asked \in 0..MaxTicks /\ visit[v].late \in BOOLEAN
         /\ visit[v].beside \in BOOLEAN
         /\ visit[v].asked <= tick /\ (~visit[v].late => visit[v].asked = tick)
         /\ tick \in 0..MaxTicks
<1>1. visit[v] \in VisitStates /\ VisitHolds(visit[v], tick) /\ tick \in 0..MaxTicks
  BY DEF DistancesInv, DistancesSound, DistancesTypeOK
<1> QED
  BY <1>1, SitesAreSpots DEF VisitStates, VisitHolds

\* An answer of the service is true, told, and cached for an hour from now.
LEMMA RouteAnswersHolds ==
  ASSUME DistancesInv, NEW v \in Visits, RouteAnswers(v)
  PROVE  DistancesInv'
<1>1. PICK o \in Points, d \in Sites, a \in 0..MaxTicks, l \in BOOLEAN, b \in BOOLEAN :
        /\ o = visit[v].origin /\ d = visit[v].dest /\ a = visit[v].asked
        /\ l = visit[v].late /\ b = visit[v].beside
  BY AskingMeans DEF RouteAnswers
<1>2. /\ d \in Points /\ d \in Spots /\ o \in Origins /\ a <= tick /\ (~l => a = tick)
      /\ tick \in 0..MaxTicks
      /\ visit[v].step = "asking"
  BY <1>1, AskingMeans DEF RouteAnswers
<1> DEFINE r == [key |-> KeyOf(o, d), km |-> Way(o, d), asked |-> a, until |-> tick + CacheTTL,
                 late |-> l]
<1>3. /\ routes' = {q \in routes : q.key # KeyOf(o, d)} \cup {r}
      /\ told' = [origin |-> o, dest |-> d, km |-> Way(o, d), age |-> tick - a, late |-> l]
      /\ repeated' = (repeated \/ (~b /\ AnsweredBefore(o, d)))
      /\ visit' = [visit EXCEPT ![v] = NoVisit]
      /\ UNCHANGED <<place, tick, search>>
  BY <1>1 DEF RouteAnswers, Tell, Visit
<1>4. Way(o, d) \in Kms /\ Way(o, d) # NoKm
  BY <1>2, WaysAreDistances
<1>5. tick - a \in 0..MaxTicks /\ tick + CacheTTL \in 0..(MaxTicks + CacheTTL)
      /\ tick < tick + CacheTTL /\ (~l => tick - a < CacheTTL)
      /\ tick + CacheTTL <= tick + CacheTTL
  BY <1>2, TimesAreNumbers
<1>6. /\ r \in Routes /\ r.key = <<Cell(o), d>> /\ r.km = Way(o, d) /\ r.asked = a
      /\ r.until = tick + CacheTTL /\ r.late = l
  <2>1. KeyOf(o, d) \in CacheKeys
    BY DEF KeyOf, CacheKeys
  <2> QED
    BY <2>1, <1>4, <1>5 DEF Routes, KeyOf
<1> HIDE DEF r
<1>7. \A w \in Visits : w # v => visit'[w] = visit[w]
  BY <1>2, <1>3, VisitOver
<1>8. visit' \in [Visits -> VisitStates] /\ visit'[v].step # "asking" /\ AskedBeside'
      /\ (\A w \in Visits : VisitHolds(visit[w], tick))'
  BY <1>2, <1>3, VisitOver
<1>9. DistancesTypeOK'
  <2>1. routes \subseteq Routes /\ \A p, q \in routes : p.key = q.key => p = q
    BY DEF DistancesInv, DistancesSound, DistancesTypeOK
  <2>2. routes' \subseteq Routes /\ \A p, q \in routes' : p.key = q.key => p = q
    BY <1>3, <1>6, <2>1 DEF KeyOf
  <2>3. told' \in Tellings
    BY <1>2, <1>3, <1>4, <1>5 DEF Tellings
  <2>4. repeated' \in BOOLEAN
    BY <1>3 DEF DistancesInv, DistancesSound, DistancesTypeOK
  <2> QED
    BY <1>3, <1>8, <2>2, <2>3, <2>4 DEF DistancesInv, DistancesSound, DistancesTypeOK
<1>10. TrueOfPlace' /\ NotOlderThanTTL'
  BY <1>3, <1>5 DEF TrueOfPlace, NotOlderThanTTL
<1>11. QuotaShielded'
  <2>1. ~repeated
    BY DEF DistancesInv, DistancesSound, QuotaShielded
  <2>2. ASSUME ~b, AnsweredBefore(o, d) PROVE FALSE
    <3>1. PICK q \in routes : Cell(o) = q.key[1] /\ d = q.key[2]
      BY <2>2 DEF AnsweredBefore
    <3>2. q.key \in CacheKeys
      BY DEF DistancesInv, DistancesSound, DistancesTypeOK, Routes
    <3>3. q.key = KeyOf(o, d)
      BY <3>1, <3>2 DEF CacheKeys, KeyOf
    <3> QED
      BY <1>1, <1>2, <2>2, <3>3 DEF DistancesInv, AloneMissed
  <2> QED
    BY <1>3, <2>1, <2>2 DEF QuotaShielded
<1>12. SearchesAnswered'
  BY <1>3 DEF DistancesInv, DistancesSound, SearchesAnswered
<1>13. (\A q \in routes : RouteHolds(q, tick))'
  <2>1. RouteHolds(r, tick)
    <3>1. WayFrom(Cell(o), d, Way(o, d))
      BY DEF WayFrom
    <3>2. ~l => tick + CacheTTL = a + CacheTTL
      BY <1>2
    <3> QED
      BY <1>2, <1>5, <1>6, <3>1, <3>2 DEF RouteHolds
  <2> QED
    BY <1>3, <2>1 DEF DistancesInv
<1>14. AloneMissed'
  <2>1. \A w \in Visits : visit'[w].step = "asking" =>
           visit[w].step = "asking" /\ visit'[w].beside /\ visit[w].beside
    BY <1>2, <1>7, <1>8 DEF DistancesInv, AskedBeside
  <2> QED
    BY <2>1 DEF AloneMissed
<1> QED
  BY <1>8, <1>9, <1>10, <1>11, <1>12, <1>13, <1>14 DEF DistancesInv, DistancesSound

\* An error of the service is told as nothing and is not cached.
LEMMA RouteFailsHolds ==
  ASSUME DistancesInv, NEW v \in Visits, RouteFails(v)
  PROVE  DistancesInv'
<1>1. /\ visit[v].step = "asking" /\ visit' = [visit EXCEPT ![v] = NoVisit]
      /\ UNCHANGED <<place, tick, routes, repeated, search>>
  BY DEF RouteFails, Visit
<1>2. PICK o \in Origins, d \in Spots :
        told' = [origin |-> o, dest |-> d, km |-> NoKm, age |-> 0, late |-> FALSE]
  BY AskingMeans DEF RouteFails, Tell
<1>3. told' \in Tellings /\ told'.km = NoKm
  <2>1. NoKm \in Kms /\ 0 \in 0..MaxTicks
    BY NothingIsTold DEF NothingTold, Tellings
  <2> QED
    BY <1>2, <2>1 DEF Tellings
<1>4. \A w \in Visits : w # v => visit'[w] = visit[w]
  BY <1>1, VisitOver
<1>5. visit' \in [Visits -> VisitStates] /\ visit'[v].step # "asking" /\ AskedBeside'
      /\ (\A w \in Visits : VisitHolds(visit[w], tick))'
  BY <1>1, VisitOver
<1>6. DistancesTypeOK'
  BY <1>1, <1>3, <1>5 DEF DistancesInv, DistancesSound, DistancesTypeOK
<1>7. TrueOfPlace' /\ NotOlderThanTTL'
  BY <1>3 DEF TrueOfPlace, NotOlderThanTTL
<1>8. QuotaShielded' /\ SearchesAnswered'
  BY <1>1 DEF DistancesInv, DistancesSound, QuotaShielded, SearchesAnswered
<1>9. (\A r \in routes : RouteHolds(r, tick))'
  BY <1>1 DEF DistancesInv
<1>10. AloneMissed'
  BY <1>1, <1>4, <1>5 DEF DistancesInv, AloneMissed
<1> QED
  BY <1>5, <1>6, <1>7, <1>8, <1>9, <1>10 DEF DistancesInv, DistancesSound

\* A step that tells nothing, asks nothing and at most empties the cache.
LEMMA CacheOnlyLoses ==
  ASSUME DistancesInv, UNCHANGED <<tick, visit, repeated, search>>, place' \in Spots,
         routes' \subseteq routes, told' = NothingTold
  PROVE  DistancesInv'
<1>1. DistancesTypeOK'
  BY NothingIsTold DEF DistancesInv, DistancesSound, DistancesTypeOK
<1>2. TrueOfPlace' /\ NotOlderThanTTL'
  BY NothingIsTold DEF TrueOfPlace, NotOlderThanTTL
<1>3. QuotaShielded' /\ SearchesAnswered'
  BY DEF DistancesInv, DistancesSound, QuotaShielded, SearchesAnswered
<1>4. (\A r \in routes : RouteHolds(r, tick))' /\ (\A v \in Visits : VisitHolds(visit[v], tick))'
  BY DEF DistancesInv
<1>5. AskedBeside' /\ AloneMissed'
  BY DEF DistancesInv, AskedBeside, AloneMissed
<1> QED
  BY <1>1, <1>2, <1>3, <1>4, <1>5 DEF DistancesInv, DistancesSound

\* Time makes open requests late and takes out of the cache what is over.
LEMMA TicksHolds ==
  ASSUME DistancesInv, Ticks
  PROVE  DistancesInv'
<1>1. /\ tick \in 0..MaxTicks /\ tick < MaxTicks /\ tick' = tick + 1
      /\ told' = NothingTold /\ UNCHANGED <<place, repeated, search>>
      /\ routes' = {r \in routes : r.until > tick + 1}
      /\ visit \in [Visits -> VisitStates] /\ routes \subseteq Routes
  BY DEF Ticks, DistancesInv, DistancesSound, DistancesTypeOK
<1>2. tick' \in 0..MaxTicks
  BY <1>1, TimesAreNumbers
<1>3. \A v \in Visits :
        /\ visit'[v] \in VisitStates
        /\ visit'[v].step = visit[v].step /\ visit'[v].origin = visit[v].origin
        /\ visit'[v].dest = visit[v].dest /\ visit'[v].asked = visit[v].asked
        /\ visit'[v].beside = visit[v].beside
        /\ visit[v].step = "asking" => visit'[v].late
  <2>1. TAKE v \in Visits
  <2>2. PICK m \in VisitStates : m = visit[v]
    BY <1>1
  <2>3. CASE m.step = "idle"
    <3>1. visit'[v] = m
      BY <2>2, <2>3 DEF Ticks
    <3> QED
      BY <2>2, <2>3, <3>1
  <2>4. CASE m.step # "idle"
    <3>1. visit'[v] = [m EXCEPT !.late = TRUE]
      BY <2>2, <2>4 DEF Ticks
    <3> QED
      BY <2>2, <3>1 DEF VisitStates
  <2> QED
    BY <2>3, <2>4
<1>4. visit' \in [Visits -> VisitStates]
  BY <1>3 DEF Ticks
<1>5. DistancesTypeOK'
  BY <1>1, <1>2, <1>4, NothingIsTold DEF DistancesInv, DistancesSound, DistancesTypeOK
<1>6. TrueOfPlace' /\ NotOlderThanTTL'
  BY <1>1, NothingIsTold DEF TrueOfPlace, NotOlderThanTTL
<1>7. QuotaShielded' /\ SearchesAnswered'
  BY <1>1 DEF DistancesInv, DistancesSound, QuotaShielded, SearchesAnswered
<1>8. (\A r \in routes : RouteHolds(r, tick))'
  <2>1. SUFFICES ASSUME NEW r \in routes' PROVE RouteHolds(r, tick')
    OBVIOUS
  <2>2. r \in Routes /\ RouteHolds(r, tick) /\ r.until > tick + 1
    BY <1>1 DEF DistancesInv
  <2>3. r.asked \in 0..MaxTicks /\ r.until \in 0..(MaxTicks + CacheTTL)
    BY <2>2 DEF Routes
  <2>4. r.asked <= tick' /\ tick' < r.until /\ r.until <= tick' + CacheTTL
    BY <1>1, <2>2, <2>3, TimesAreNumbers DEF RouteHolds
  <2> QED
    BY <2>2, <2>4 DEF RouteHolds
<1>9. (\A v \in Visits : VisitHolds(visit[v], tick))'
  <2>1. SUFFICES ASSUME NEW v \in Visits, visit'[v].step = "asking"
                 PROVE  VisitHolds(visit[v], tick)'
    BY DEF VisitHolds
  <2>2. VisitHolds(visit[v], tick) /\ visit[v].asked \in 0..MaxTicks
    BY <1>1 DEF DistancesInv, VisitStates
  <2>3. visit'[v].late /\ visit[v].asked <= tick'
    BY <1>1, <1>3, <2>1, <2>2, TimesAreNumbers DEF VisitHolds
  <2> QED
    BY <1>3, <2>1, <2>2, <2>3 DEF VisitHolds
<1>10. AskedBeside'
  BY <1>3 DEF DistancesInv, AskedBeside
<1>11. AloneMissed'
  <2>1. SUFFICES ASSUME NEW v \in Visits, visit'[v].step = "asking", ~visit'[v].beside,
                        NEW r \in routes'
                 PROVE  r.key # KeyOf(visit'[v].origin, visit'[v].dest)
    BY DEF AloneMissed
  <2>2. r \in routes /\ visit[v].step = "asking" /\ ~visit[v].beside
        /\ visit'[v].origin = visit[v].origin /\ visit'[v].dest = visit[v].dest
    BY <1>1, <1>3, <2>1
  <2> QED
    BY <2>2 DEF DistancesInv, AloneMissed
<1> QED
  BY <1>5, <1>6, <1>7, <1>8, <1>9, <1>10, <1>11 DEF DistancesInv, DistancesSound

\* Whatever the parameters of a search, its answer is one of the known ones, an error only for
\* a latitude without a longitude, and sorted by distance only with both.
LEMMA AnswersMean ==
  ASSUME NEW s \in Searches
  PROVE  /\ AnswerTo(s) \in Answers
         /\ AnswerTo(s) = "500" => s.lat = "number" /\ s.lng \in {"empty", "words"}
         /\ AnswerTo(s) = "by distance" => s.lat = "number" /\ s.lng = "number"
<1>1. s.lat \in Texts /\ s.lng \in Texts /\ s.within \in Texts /\ s.sort \in Sorts
  BY DEF Searches
<1> QED
  BY <1>1 DEF AnswerTo, Answers, Raises, Annotated, LatParsed, RefusedByForm, Texts

\* A search changes nothing else.
LEMMA SearchByDistanceHolds ==
  ASSUME DistancesInv, SearchByDistance
  PROVE  DistancesInv'
<1>1. /\ UNCHANGED <<place, tick, routes, visit, told, repeated>>
  BY DEF SearchByDistance
<1>2. PICK s \in Searches : search' = [asked |-> s, answer |-> AnswerTo(s)]
  BY DEF SearchByDistance
<1>3. DistancesTypeOK'
  BY <1>1, <1>2, AnswersMean DEF DistancesInv, DistancesSound, DistancesTypeOK
<1>4. TrueOfPlace' /\ NotOlderThanTTL' /\ QuotaShielded'
  BY <1>1 DEF DistancesInv, DistancesSound, TrueOfPlace, NotOlderThanTTL, QuotaShielded
<1>5. SearchesAnswered'
  BY <1>2, AnswersMean DEF SearchesAnswered
<1>6. (\A r \in routes : RouteHolds(r, tick))' /\ (\A v \in Visits : VisitHolds(visit[v], tick))'
  BY <1>1 DEF DistancesInv
<1>7. AskedBeside' /\ AloneMissed'
  BY <1>1 DEF DistancesInv, AskedBeside, AloneMissed
<1> QED
  BY <1>3, <1>4, <1>5, <1>6, <1>7 DEF DistancesInv, DistancesSound

\* At first nothing is cached, asked or told.
LEMMA DistancesStart ==
  ASSUME DistancesInit
  PROVE  DistancesInv
<1>1. NoVisit \in VisitStates /\ NoVisit.step # "asking"
  BY NothingIsTold DEF NoVisit, VisitStates, NothingTold, Tellings
<1>2. visit \in [Visits -> VisitStates] /\ \A v \in Visits : visit[v].step # "asking"
  BY <1>1 DEF DistancesInit
<1>3. search.asked \in Searches /\ search.answer = "none"
  BY DEF DistancesInit, NoSearch, Searches, Texts, Sorts
<1>4. DistancesTypeOK
  BY <1>2, <1>3, NothingIsTold, TimesAreNumbers DEF DistancesInit, DistancesTypeOK, Answers
<1>5. TrueOfPlace /\ NotOlderThanTTL /\ QuotaShielded /\ SearchesAnswered
  BY <1>3, NothingIsTold
     DEF DistancesInit, TrueOfPlace, NotOlderThanTTL, QuotaShielded, SearchesAnswered
<1> QED
  BY <1>2, <1>4, <1>5
     DEF DistancesInit, DistancesInv, DistancesSound, VisitHolds, AskedBeside, AloneMissed

\* Distances keeps its word: for any number of requests, points, sites and ticks, a visitor is
\* told a way to the place he asked about, no older than the cache's hour unless the service was
\* slow, the service is asked again only by requests that overlap, and searches are answered.
THEOREM DistancesKeepTheirWord == DistancesSpec => []DistancesSound
<1>1. DistancesInit => DistancesInv
  BY DistancesStart
<1>2. DistancesInv /\ [DistancesNext]_distancesVars => DistancesInv'
  <2>1. ASSUME DistancesInv, DistancesNext PROVE DistancesInv'
    <3>1. CASE \E v \in Visits, o \in Origins : SkipDistance(v, o)
      BY <2>1, <3>1, SkipDistanceHolds
    <3>2. CASE \E v \in Visits, o \in Origins : HitCache(v, o)
      BY <2>1, <3>2, HitCacheHolds
    <3>3. CASE \E v \in Visits, o \in Origins : MissCache(v, o)
      BY <2>1, <3>3, MissCacheHolds
    <3>4. CASE \E v \in Visits : RouteAnswers(v)
      BY <2>1, <3>4, RouteAnswersHolds
    <3>5. CASE \E v \in Visits : RouteFails(v)
      BY <2>1, <3>5, RouteFailsHolds
    <3>6. CASE MovePlace
      BY <2>1, <3>6, CacheOnlyLoses DEF MovePlace
    <3>7. CASE Ticks
      BY <2>1, <3>7, TicksHolds
    <3>8. CASE Evict
      <4>1. place' \in Spots
        BY <2>1, <3>8 DEF Evict, DistancesInv, DistancesSound, DistancesTypeOK
      <4> QED
        BY <2>1, <3>8, <4>1, CacheOnlyLoses DEF Evict
    <3>9. CASE SearchByDistance
      BY <2>1, <3>9, SearchByDistanceHolds
    <3> QED
      BY <2>1, <3>1, <3>2, <3>3, <3>4, <3>5, <3>6, <3>7, <3>8, <3>9 DEF DistancesNext, VisitNext
  <2>2. ASSUME DistancesInv, UNCHANGED distancesVars PROVE DistancesInv'
    BY <2>2 DEF distancesVars, DistancesInv, DistancesSound, DistancesTypeOK, TrueOfPlace,
       NotOlderThanTTL, QuotaShielded, SearchesAnswered, AskedBeside, AloneMissed
  <2> QED
    BY <2>1, <2>2
<1>3. DistancesInv => DistancesSound
  BY DEF DistancesInv
<1> QED
  BY <1>1, <1>2, <1>3, PTL DEF DistancesSpec

(***************************************************************************)
(* Browsing.  As long as no two rows are equal, the page a row is on       *)
(* follows from the number of rows above it; whatever comes or leaves      *)
(* moves that number one way only.                                         *)
(***************************************************************************)
\* The rows before c in every order.
Above(c) == {d \in Cards : rank[d] > rank[c]}

\* Distinct rows are told of as such.
TiesAreTold == Distinct(rank) \/ "tied" \in mishaps

Walking == walk.step \in {"start", "count", "slice"}

\* What has not been seen of the rows that stay is on this page or on a later one.
UnseenAhead ==
  Walking /\ mishaps \cap {"left", "moved", "tied", "came in between"} = {} =>
    \A c \in stays : seen[c] = 0 => Cardinality(Above(c)) >= (walk.page - 1) * PageSize

\* What has been seen and is still listed was on an earlier page, as it would be now.
SeenBehind ==
  Walking /\ mishaps \cap {"came", "moved", "tied"} = {} =>
    \A c \in Listed : seen[c] > 0 => Cardinality(Above(c)) < (walk.page - 1) * PageSize

\* There are rows for the page to come, unless it is the first or a row has left.
PageExists ==
  Walking /\ "left" \notin mishaps =>
    walk.page = 1 \/ (walk.page - 1) * PageSize < Cardinality(Listed)

\* While the rows are read, those that were counted are still there unless one has left, and
\* nobody else is unless a row came in between.
CountHolds ==
  walk.step = "slice" =>
    /\ walk.pages >= 1
    /\ "left" \in mishaps \/ walk.pages = 1 \/ (walk.pages - 1) * PageSize < Cardinality(Listed)
    /\ "came in between" \in mishaps \/ Cardinality(Listed) <= walk.pages * PageSize

BrowsingInv ==
  /\ BrowsingSound
  /\ walk.page >= 1
  /\ TiesAreTold
  /\ UnseenAhead
  /\ SeenBehind
  /\ PageExists
  /\ CountHolds

\* The rows and what is above one of them can be counted.
LEMMA RowsAreFinite ==
  /\ IsFiniteSet(Cards) /\ PageSize \in Nat /\ PageSize >= 1 /\ MaxMoves \in Nat
  /\ \A S \in SUBSET Cards : IsFiniteSet(S) /\ Cardinality(S) \in Nat
BY BrowsingAssumption, FS_Subset, FS_CardinalityType DEF BrowsingAssumption

\* Fewer rows are no more rows.
LEMMA FewerRows ==
  ASSUME NEW S \in SUBSET Cards, NEW T \in SUBSET S
  PROVE  /\ Cardinality(T) <= Cardinality(S)
         /\ Cardinality(T) \in Nat /\ Cardinality(S) \in Nat
         /\ Cardinality(S) = Cardinality(T) => S = T
BY RowsAreFinite, FS_Subset

\* What a rank is.
LEMMA RanksAreNumbers ==
  ASSUME rank \in [Cards -> Ranks \cup {Unlisted}], NEW c \in Cards
  PROVE  /\ rank[c] \in Nat /\ (c \in Listed <=> rank[c] >= 1)
         /\ c \in Listed => Above(c) \subseteq Listed \ {c}
<1>1. \A d \in Cards : rank[d] \in Nat
  BY BrowsingAssumption DEF BrowsingAssumption, Ranks, Unlisted
<1>2. \A d \in Cards : d \in Listed <=> rank[d] >= 1
  BY <1>1 DEF Listed, Unlisted
<1> QED
  BY <1>1, <1>2 DEF Above

\* A product with the size of a page grows with the page.
LEMMA PagesGrow ==
  ASSUME NEW a \in Int, NEW b \in Int
  PROVE  /\ a * PageSize \in Int
         /\ a <= b => a * PageSize <= b * PageSize
         /\ a * PageSize < b * PageSize => a < b
         /\ (a + 1) * PageSize = a * PageSize + PageSize
         /\ a >= 0 => a * PageSize >= 0
<1>1. PICK p \in Int : p = PageSize /\ p >= 1
  BY RowsAreFinite
<1>2. a * p \in Int /\ b * p \in Int /\ (a + 1) * p = a * p + p
  OBVIOUS
<1>3. a <= b => a * p <= b * p
  <2>1. ASSUME a <= b PROVE a * p <= b * p
    <3>1. PICK k \in Int : k >= 0 /\ b = a + k
      <4>1. b - a \in Int /\ b - a >= 0 /\ b = a + (b - a)
        BY <2>1
      <4> QED
        BY <4>1
    <3>2. b * p = a * p + k * p
      BY <3>1
    <3>3. k * p >= 0
      BY <1>1, <3>1
    <3> QED
      BY <1>2, <3>2, <3>3
  <2> QED
    BY <2>1
<1>4. a * p < b * p => a < b
  <2>1. ASSUME b <= a PROVE b * p <= a * p
    <3>1. PICK k \in Int : k >= 0 /\ a = b + k
      <4>1. a - b \in Int /\ a - b >= 0 /\ a = b + (a - b)
        BY <2>1
      <4> QED
        BY <4>1
    <3>2. a * p = b * p + k * p
      BY <3>1
    <3>3. k * p >= 0
      BY <1>1, <3>1
    <3> QED
      BY <1>2, <3>2, <3>3
  <2> QED
    BY <1>2, <2>1
<1>5. a >= 0 => a * p >= 0
  BY <1>1
<1> QED
  BY <1>1, <1>2, <1>3, <1>4, <1>5

\* The number of pages: they hold every row, and each but the first has one.
LEMMA PagesSuffice ==
  /\ NumPages \in Nat /\ NumPages >= 1
  /\ Cardinality(Listed) <= NumPages * PageSize
  /\ NumPages = 1 \/ (NumPages - 1) * PageSize < Cardinality(Listed)
<1>1. Listed \subseteq Cards /\ IsFiniteSet(Listed) /\ Cardinality(Listed) \in Nat
  BY RowsAreFinite DEF Listed
<1>2. CASE Listed = {}
  <2>1. NumPages = 1 /\ Cardinality(Listed) = 0
    BY <1>2, FS_EmptySet DEF NumPages
  <2>2. 1 * PageSize = PageSize /\ PageSize >= 1 /\ PageSize \in Nat
    BY RowsAreFinite
  <2> QED
    BY <2>1, <2>2
<1>3. CASE Listed # {}
  <2>1. Cardinality(Listed) # 0
    BY <1>1, <1>3, FS_EmptySet
  <2>2. PICK k \in Nat : k = Cardinality(Listed) - 1
    BY <1>1, <2>1
  <2>3. PICK p \in Nat : p = PageSize /\ p >= 1
    BY RowsAreFinite
  <2>4. PICK q \in Nat : q = k \div p
    BY <2>3
  <2>5. q * p <= k /\ k < q * p + p
    BY <2>3, <2>4
  <2>6. NumPages = q + 1
    BY <1>3, <2>2, <2>3, <2>4 DEF NumPages
  <2>7. Cardinality(Listed) = k + 1 /\ q * p \in Nat /\ (q + 1) * p = q * p + p
    BY <1>1, <2>2
  <2>8. (NumPages - 1) * PageSize = q * p /\ NumPages * PageSize = q * p + p
    BY <2>3, <2>6, <2>7
  <2> QED
    BY <2>3, <2>5, <2>6, <2>7, <2>8
<1> QED
  BY <1>2, <1>3

\* The first n rows of any order the ORDER BY allows are those with fewer than n above them,
\* if no two are equal.
LEMMA PrefixMeans ==
  ASSUME rank \in [Cards -> Ranks \cup {Unlisted}], Distinct(rank),
         NEW top \in SUBSET Listed, NEW n \in Nat,
         Cardinality(top) = Until(n),
         \A c \in top, d \in Listed \ top : Precedes(c, d),
         NEW c \in Listed
  PROVE  c \in top <=> Cardinality(Above(c)) < n
<1>1. c \in Cards /\ Listed \subseteq Cards /\ top \subseteq Cards
  BY DEF Listed
<1>2. Above(c) \subseteq Listed \ {c}
  BY <1>1, RanksAreNumbers
<1>3. /\ IsFiniteSet(top) /\ Cardinality(top) \in Nat
      /\ IsFiniteSet(Above(c)) /\ Cardinality(Above(c)) \in Nat
      /\ Cardinality(Listed) \in Nat
  BY <1>1, <1>2, RowsAreFinite
<1>4. Cardinality(top) <= n
  BY <1>3 DEF Until
<1>5. ASSUME c \in top PROVE Cardinality(Above(c)) < n
  <2>1. Above(c) \subseteq top \ {c}
    <3>1. SUFFICES ASSUME NEW d \in Above(c), d \notin top PROVE FALSE
      BY <1>2
    <3>2. d \in Listed \ top /\ d \in Cards /\ rank[d] > rank[c]
      BY <1>1, <1>2, <3>1 DEF Above
    <3>3. rank[c] >= rank[d] /\ rank[c] \in Nat /\ rank[d] \in Nat
      BY <1>1, <1>5, <3>2, RanksAreNumbers DEF Precedes
    <3> QED
      BY <3>2, <3>3
  <2>2. Above(c) \subseteq top /\ Above(c) # top
    BY <1>5, <2>1
  <2>3. Cardinality(Above(c)) <= Cardinality(top) /\ Cardinality(Above(c)) # Cardinality(top)
    BY <1>1, <2>2, FewerRows
  <2> QED
    BY <1>3, <1>4, <2>3
<1>6. ASSUME c \notin top PROVE Cardinality(Above(c)) >= n
  <2>1. top \subseteq Above(c)
    <3>1. SUFFICES ASSUME NEW d \in top PROVE d \in Cards /\ rank[d] > rank[c]
      BY DEF Above
    <3>2. d \in Cards /\ d # c /\ rank[d] >= rank[c] /\ rank[d] \in Nat /\ rank[c] \in Nat
          /\ rank[d] # Unlisted
      BY <1>1, <1>6, RanksAreNumbers DEF Precedes, Listed
    <3>3. rank[d] # rank[c]
      BY <1>1, <3>2 DEF Distinct
    <3> QED
      BY <3>2, <3>3
  <2>2. Cardinality(top) <= Cardinality(Above(c))
    BY <1>1, <1>2, <2>1, FewerRows
  <2>3. Cardinality(top) # Cardinality(Listed)
    BY <1>1, <1>6, FewerRows
  <2>4. Cardinality(top) = n
    BY <2>3 DEF Until
  <2> QED
    BY <2>2, <2>4
<1> QED
  BY <1>3, <1>5, <1>6
\* What a walk is made of.
LEMMA WalksAreWalks ==
  ASSUME BrowsingInv
  PROVE  /\ walk.page \in Nat /\ walk.pages \in Nat /\ walk.page >= 1
         /\ walk \in WalkStates
         /\ rank \in [Cards -> Ranks \cup {Unlisted}] /\ seen \in [Cards -> 0..2]
         /\ stays \subseteq Listed /\ moves \in 0..MaxMoves /\ mishaps \subseteq Mishaps
BY DEF BrowsingInv, BrowsingSound, BrowsingTypeOK, WalkStates

\* Rows leave: what is above a row that stays only gets less, and so does the list.
LEMMA RowsGone ==
  ASSUME BrowsingInv, Walking,
         NEW gone \in SUBSET Listed,
         rank' = [c \in Cards |-> IF c \in gone THEN Unlisted ELSE rank[c]],
         stays' = stays \ gone,
         mishaps \subseteq mishaps', mishaps' \subseteq Mishaps,
         gone # {} => "left" \in mishaps',
         moves' \in 0..MaxMoves,
         walk' \in WalkStates, walk'.page = walk.page, walk'.pages = walk.pages,
         walk'.step \in {"count", walk.step},
         UNCHANGED <<sort, seen>>
  PROVE  BrowsingInv'
<1>1. /\ walk.page \in Nat /\ walk.pages \in Nat /\ walk.page >= 1
      /\ rank \in [Cards -> Ranks \cup {Unlisted}] /\ seen \in [Cards -> 0..2]
      /\ stays \subseteq Listed
  BY WalksAreWalks
<1>2. rank' \in [Cards -> Ranks \cup {Unlisted}]
  BY <1>1
<1>3. Listed' = Listed \ gone
  BY DEF Listed
<1>4. Distinct(rank) => Distinct(rank')
  BY <1>1 DEF Distinct
<1>5. Walking' /\ walk'.step \notin {"done", "lost"}
      /\ (walk'.step = "slice" => walk.step = "slice")
  BY DEF Walking
<1>6. BrowsingTypeOK'
  BY <1>1, <1>2, <1>3, <1>4 DEF BrowsingInv, BrowsingSound, BrowsingTypeOK
<1>7. NothingMissed' /\ NothingBeyond'
  BY <1>5 DEF NothingMissed, NothingBeyond
<1>8. NothingRepeated'
  BY DEF BrowsingInv, BrowsingSound, NothingRepeated
<1>9. TiesAreTold'
  BY <1>4 DEF BrowsingInv, TiesAreTold
<1>10. ASSUME gone = {} PROVE rank' = rank /\ Listed' = Listed /\ stays' = stays
  BY <1>1, <1>3, <1>10
<1>11. UnseenAhead'
  <2>1. CASE gone = {}
    BY <1>10, <2>1 DEF BrowsingInv, UnseenAhead, Above
  <2>2. CASE gone # {}
    BY <2>2 DEF UnseenAhead
  <2> QED
    BY <2>1, <2>2
<1>12. SeenBehind'
  <2>1. SUFFICES ASSUME mishaps \cap {"came", "moved", "tied"} = {},
                        NEW c \in Listed', seen'[c] > 0
                 PROVE  Cardinality(Above(c)') < (walk.page - 1) * PageSize
    BY DEF SeenBehind
  <2>2. c \in Listed /\ c \in Cards /\ c \notin gone /\ Listed \subseteq Cards
    BY <1>3 DEF Listed
  <2>3. Above(c)' \subseteq Above(c) /\ Above(c) \subseteq Cards
    BY <1>1, <2>2, RanksAreNumbers DEF Above, Unlisted
  <2>4. Cardinality(Above(c)) < (walk.page - 1) * PageSize
    BY <2>1, <2>2 DEF BrowsingInv, SeenBehind
  <2>5. Cardinality(Above(c)') <= Cardinality(Above(c))
        /\ Cardinality(Above(c)') \in Nat /\ Cardinality(Above(c)) \in Nat
    BY <2>3, FewerRows
  <2>6. (walk.page - 1) * PageSize \in Int
    BY <1>1, PagesGrow
  <2> QED
    BY <2>4, <2>5, <2>6
<1>13. PageExists'
  <2>1. CASE gone = {}
    BY <1>10, <2>1 DEF BrowsingInv, PageExists
  <2>2. CASE gone # {}
    BY <2>2 DEF PageExists
  <2> QED
    BY <2>1, <2>2
<1>14. CountHolds'
  <2>1. SUFFICES ASSUME walk'.step = "slice" PROVE CountHolds'
    BY DEF CountHolds
  <2>2. walk.step = "slice"
    BY <1>5, <2>1
  <2>3. CASE gone = {}
    BY <1>10, <2>2, <2>3 DEF BrowsingInv, CountHolds
  <2>4. CASE gone # {}
    <3>1. Cardinality(Listed') <= Cardinality(Listed)
          /\ Cardinality(Listed') \in Nat /\ Cardinality(Listed) \in Nat
      BY <1>3, FewerRows DEF Listed
    <3>2. walk.pages * PageSize \in Int
      BY <1>1, PagesGrow
    <3>3. "came in between" \notin mishaps => Cardinality(Listed) <= walk.pages * PageSize
      BY <2>2 DEF BrowsingInv, CountHolds
    <3>4. "came in between" \notin mishaps => Cardinality(Listed') <= walk.pages * PageSize
      <4>1. PICK m \in Int, n \in Nat, l \in Nat :
              m = walk.pages * PageSize /\ n = Cardinality(Listed') /\ l = Cardinality(Listed)
        BY <3>1, <3>2
      <4>2. "came in between" \notin mishaps => l <= m
        BY <3>3, <4>1
      <4>3. n <= l
        BY <3>1, <4>1
      <4>4. "came in between" \notin mishaps => n <= m
        <5>1. SUFFICES ASSUME "came in between" \notin mishaps PROVE n <= m
          OBVIOUS
        <5>2. l <= m
          BY <4>2, <5>1
        <5> QED
          BY <4>3, <5>2
      <4> QED
        BY <4>1, <4>4
    <3> QED
      BY <2>2, <2>4, <3>4 DEF BrowsingInv, CountHolds
  <2> QED
    BY <2>3, <2>4
<1> QED
  BY <1>1, <1>6, <1>7, <1>8, <1>9, <1>11, <1>12, <1>13, <1>14 DEF BrowsingInv, BrowsingSound

\* ListingViewSet.list: the rows that are over leave before the count.
LEMMA ExpireRowsHolds ==
  ASSUME BrowsingInv, ExpireRows
  PROVE  BrowsingInv'
<1>1. PICK over \in SUBSET Listed :
        /\ Cardinality(over) <= MaxMoves - moves
        /\ rank' = [c \in Cards |-> IF c \in over THEN Unlisted ELSE rank[c]]
        /\ stays' = stays \ over
        /\ moves' = moves + Cardinality(over)
        /\ mishaps' = IF over = {} THEN mishaps ELSE mishaps \cup {"left"}
  BY DEF ExpireRows
<1>2. walk.step = "start" /\ walk' = [walk EXCEPT !.step = "count"] /\ UNCHANGED <<sort, seen>>
  BY DEF ExpireRows
<1>3. moves' \in 0..MaxMoves
  <2>1. Cardinality(over) \in Nat /\ MaxMoves \in Nat
    BY <1>1, RowsAreFinite DEF Listed
  <2>2. moves \in 0..MaxMoves
    BY WalksAreWalks
  <2> QED
    BY <1>1, <2>1, <2>2
<1>4. walk' \in WalkStates /\ walk'.page = walk.page /\ walk'.pages = walk.pages
      /\ walk'.step = "count"
  BY <1>2, WalksAreWalks DEF WalkStates
<1>5. mishaps \subseteq mishaps' /\ mishaps' \subseteq Mishaps /\ (over # {} => "left" \in mishaps')
  BY <1>1, WalksAreWalks DEF Mishaps
<1> QED
  BY <1>1, <1>2, <1>3, <1>4, <1>5, RowsGone DEF Walking

\* What a move of one row does to the number of moves and the mishaps.
LEMMA MovesAreTold ==
  ASSUME BrowsingInv, NEW c \in Cards, NEW spot \in Ranks \cup {Unlisted},
         NEW what \in SUBSET Mishaps, Move(c, spot, what)
  PROVE  /\ Walking /\ moves' \in 0..MaxMoves
         /\ mishaps \subseteq mishaps' /\ what \subseteq mishaps' /\ mishaps' \subseteq Mishaps
         /\ rank' = [rank EXCEPT ![c] = spot]
         /\ rank' \in [Cards -> Ranks \cup {Unlisted}]
         /\ rank'[c] = spot /\ \A d \in Cards : d # c => rank'[d] = rank[d]
         /\ sort = "newest" => Distinct(rank')
         /\ Distinct(rank') \/ "tied" \in mishaps'
         /\ UNCHANGED <<sort, walk, seen>>
<1>1. rank \in [Cards -> Ranks \cup {Unlisted}] /\ moves \in 0..MaxMoves
      /\ mishaps \subseteq Mishaps
  BY WalksAreWalks
<1>2. moves' \in 0..MaxMoves
  BY <1>1, RowsAreFinite DEF Move
<1>3. "tied" \in Mishaps
  BY DEF Mishaps
<1> QED
  BY <1>1, <1>2, <1>3 DEF Move, Walking

\* A row that leaves is one of the rows gone.
LEMMA RowLeavesHolds ==
  ASSUME BrowsingInv, NEW c \in Cards, RowLeaves(c)
  PROVE  BrowsingInv'
<1>1. c \in Listed /\ Move(c, Unlisted, {"left"}) /\ stays' = stays \ {c}
  BY DEF RowLeaves
<1>2. {"left"} \in SUBSET Mishaps
  BY DEF Mishaps
<1>3. /\ Walking /\ moves' \in 0..MaxMoves
      /\ mishaps \subseteq mishaps' /\ "left" \in mishaps' /\ mishaps' \subseteq Mishaps
      /\ rank' = [rank EXCEPT ![c] = Unlisted]
      /\ UNCHANGED <<sort, walk, seen>>
  BY <1>1, <1>2, MovesAreTold
<1>4. rank' = [d \in Cards |-> IF d \in {c} THEN Unlisted ELSE rank[d]]
  BY <1>3, WalksAreWalks
<1>5. walk' \in WalkStates /\ walk'.step \in {"count", walk.step}
  BY <1>3, WalksAreWalks
<1> QED
  BY <1>1, <1>3, <1>4, <1>5, RowsGone

\* A row gets a place: nothing leaves the list.
LEMMA RowPlaced ==
  ASSUME BrowsingInv, NEW c \in Cards, NEW spot \in Ranks, NEW what \in SUBSET Mishaps,
         Move(c, spot, what), stays' = stays,
         (c \in Listed /\ "moved" \in what) \/ (c \notin Listed /\ Under \subseteq what)
  PROVE  BrowsingInv'
<1>1. /\ Walking /\ moves' \in 0..MaxMoves
      /\ mishaps \subseteq mishaps' /\ what \subseteq mishaps' /\ mishaps' \subseteq Mishaps
      /\ rank' \in [Cards -> Ranks \cup {Unlisted}]
      /\ rank'[c] = spot /\ \A d \in Cards : d # c => rank'[d] = rank[d]
      /\ sort = "newest" => Distinct(rank')
      /\ Distinct(rank') \/ "tied" \in mishaps'
      /\ UNCHANGED <<sort, walk, seen>>
  BY MovesAreTold
<1>2. spot \in Nat /\ spot >= 1 /\ spot # Unlisted
  BY BrowsingAssumption DEF BrowsingAssumption, Ranks, Unlisted
<1>3. /\ walk.page \in Nat /\ walk.pages \in Nat /\ walk.page >= 1
      /\ rank \in [Cards -> Ranks \cup {Unlisted}] /\ stays \subseteq Listed
  BY WalksAreWalks
<1>4. Listed' = Listed \cup {c}
  BY <1>1, <1>2 DEF Listed
<1>5. Walking' /\ walk'.step \notin {"done", "lost"}
  BY <1>1 DEF Walking
<1>6. BrowsingTypeOK'
  BY <1>1, <1>3, <1>4 DEF BrowsingInv, BrowsingSound, BrowsingTypeOK
<1>7. NothingMissed' /\ NothingBeyond' /\ NothingRepeated' /\ TiesAreTold'
  BY <1>1, <1>5
     DEF NothingMissed, NothingBeyond, BrowsingInv, BrowsingSound, NothingRepeated, TiesAreTold
<1>8. UnseenAhead'
  <2>1. SUFFICES ASSUME mishaps' \cap {"left", "moved", "tied", "came in between"} = {},
                        NEW d \in stays, seen[d] = 0
                 PROVE  Cardinality(Above(d)') >= (walk.page - 1) * PageSize
    BY <1>1 DEF UnseenAhead
  <2>2. c \notin Listed /\ d # c /\ d \in Cards
    BY <1>1, <1>3, <2>1 DEF Listed
  <2>3. Above(d) \subseteq Above(d)' /\ Above(d)' \subseteq Cards
    BY <1>1, <1>3, <2>2, RanksAreNumbers DEF Above
  <2>4. Cardinality(Above(d)) <= Cardinality(Above(d)')
        /\ Cardinality(Above(d)') \in Nat /\ Cardinality(Above(d)) \in Nat
    BY <2>3, FewerRows
  <2>5. Cardinality(Above(d)) >= (walk.page - 1) * PageSize
    BY <1>1, <2>1 DEF BrowsingInv, UnseenAhead
  <2>6. (walk.page - 1) * PageSize \in Int
    BY <1>3, PagesGrow
  <2> QED
    BY <2>4, <2>5, <2>6
<1>9. SeenBehind'
  BY <1>1 DEF SeenBehind, Under
<1>10. Cardinality(Listed) <= Cardinality(Listed')
       /\ Cardinality(Listed') \in Nat /\ Cardinality(Listed) \in Nat
  BY <1>4, FewerRows DEF Listed
<1>11. (walk.page - 1) * PageSize \in Int /\ (walk.pages - 1) * PageSize \in Int
  <2>1. walk.page - 1 \in Int /\ walk.pages - 1 \in Int
    BY <1>3
  <2> QED
    BY <2>1, PagesGrow
<1>12. PageExists'
  BY <1>1, <1>10, <1>11 DEF BrowsingInv, PageExists
<1>13. CountHolds'
  <2>1. SUFFICES ASSUME walk.step = "slice" PROVE CountHolds'
    BY <1>1 DEF CountHolds
  <2>2. "came in between" \notin mishaps' => Listed' = Listed
    BY <1>1, <1>4, <2>1 DEF Under, Move
  <2>3. "left" \in mishaps' \/ walk'.pages = 1
        \/ (walk'.pages - 1) * PageSize < Cardinality(Listed')
    <3>1. "left" \in mishaps \/ walk.pages = 1
          \/ (walk.pages - 1) * PageSize < Cardinality(Listed)
      BY <2>1 DEF BrowsingInv, CountHolds
    <3>2. (walk.pages - 1) * PageSize < Cardinality(Listed)
            => (walk.pages - 1) * PageSize < Cardinality(Listed')
      BY <1>10, <1>11
    <3> QED
      BY <1>1, <3>1, <3>2
  <2> QED
    BY <1>1, <2>1, <2>2, <2>3 DEF BrowsingInv, CountHolds
<1> QED
  BY <1>1, <1>3, <1>6, <1>7, <1>8, <1>9, <1>12, <1>13 DEF BrowsingInv, BrowsingSound
\* A row that comes gets a place.
LEMMA RowComesHolds ==
  ASSUME BrowsingInv, NEW c \in Cards, RowComes(c)
  PROVE  BrowsingInv'
<1>1. PICK spot \in Ranks : Move(c, spot, Under)
  BY DEF RowComes
<1>2. c \notin Listed /\ stays' = stays /\ Under \in SUBSET Mishaps
  BY DEF RowComes, Under, Mishaps
<1> QED
  BY <1>1, <1>2, RowPlaced

\* A row that moves gets another place.
LEMMA RowMovesHolds ==
  ASSUME BrowsingInv, NEW c \in Cards, RowMoves(c)
  PROVE  BrowsingInv'
<1>1. PICK spot \in Ranks : Move(c, spot, {"moved"})
  BY DEF RowMoves
<1>2. c \in Listed /\ stays' = stays /\ {"moved"} \in SUBSET Mishaps
  BY DEF RowMoves, Mishaps
<1> QED
  BY <1>1, <1>2, RowPlaced

\* A page that exists is counted as one; the count is right when it is made.
LEMMA CountRowsHolds ==
  ASSUME BrowsingInv, CountRows
  PROVE  BrowsingInv'
<1>1. /\ walk.page \in Nat /\ walk.pages \in Nat /\ walk.page >= 1 /\ walk \in WalkStates
  BY WalksAreWalks
<1>2. walk.step = "count" /\ Walking /\ UNCHANGED <<rank, sort, seen, stays, moves, mishaps>>
  BY DEF CountRows, Walking
<1>3. Listed' = Listed
  BY <1>2 DEF Listed
<1>4. PICK n \in Nat : n = NumPages
  BY PagesSuffice
<1>5. Cardinality(Listed) \in Nat /\ PageSize \in Nat
  BY RowsAreFinite DEF Listed
<1>6. CASE walk.page > NumPages
  <2>1. walk' \in WalkStates /\ walk'.step = "lost" /\ walk'.page = walk.page
    BY <1>1, <1>6 DEF CountRows, WalkStates
  <2>2. "left" \in mishaps
    <3>1. SUFFICES ASSUME "left" \notin mishaps PROVE FALSE
      OBVIOUS
    <3>2. walk.page = 1 \/ (walk.page - 1) * PageSize < Cardinality(Listed)
      BY <1>2, <3>1 DEF BrowsingInv, PageExists
    <3>3. n >= 1 /\ Cardinality(Listed) <= n * PageSize
      BY <1>4, PagesSuffice
    <3>4. PICK m \in Nat : m = walk.page - 1
      BY <1>1
    <3>5. m * PageSize < n * PageSize
      <4>1. m * PageSize \in Int /\ n * PageSize \in Int
        BY PagesGrow
      <4>2. m * PageSize < Cardinality(Listed)
        BY <1>1, <1>4, <1>6, <3>2, <3>3, <3>4
      <4> QED
        BY <1>5, <3>3, <4>1, <4>2
    <3>6. m < n
      BY <3>5, PagesGrow
    <3> QED
      BY <1>1, <1>4, <1>6, <3>4, <3>6
  <2>3. BrowsingTypeOK'
    BY <1>2, <1>3, <2>1 DEF BrowsingInv, BrowsingSound, BrowsingTypeOK
  <2>4. NothingMissed' /\ NothingBeyond' /\ NothingRepeated' /\ TiesAreTold'
    BY <1>2, <2>1, <2>2
       DEF NothingMissed, NothingBeyond, BrowsingInv, BrowsingSound, NothingRepeated, TiesAreTold
  <2>5. UnseenAhead' /\ SeenBehind' /\ PageExists' /\ CountHolds'
    BY <2>1 DEF UnseenAhead, SeenBehind, PageExists, CountHolds, Walking
  <2> QED
    BY <1>1, <2>1, <2>3, <2>4, <2>5 DEF BrowsingInv, BrowsingSound
<1>7. CASE ~(walk.page > NumPages)
  <2>1. /\ walk' \in WalkStates /\ walk'.step = "slice" /\ walk'.page = walk.page
        /\ walk'.pages = n
    BY <1>1, <1>4, <1>7 DEF CountRows, WalkStates
  <2>2. BrowsingTypeOK'
    BY <1>2, <1>3, <2>1 DEF BrowsingInv, BrowsingSound, BrowsingTypeOK
  <2>3. NothingMissed' /\ NothingBeyond' /\ NothingRepeated' /\ TiesAreTold'
    BY <1>2, <2>1
       DEF NothingMissed, NothingBeyond, BrowsingInv, BrowsingSound, NothingRepeated, TiesAreTold
  <2>4. UnseenAhead'
    <3>1. SUFFICES ASSUME mishaps \cap {"left", "moved", "tied", "came in between"} = {},
                          NEW d \in stays, seen[d] = 0
                   PROVE  Cardinality(Above(d)') >= (walk.page - 1) * PageSize
      BY <1>2, <2>1 DEF UnseenAhead
    <3>2. Above(d)' = Above(d)
      BY <1>2 DEF Above
    <3> QED
      BY <1>2, <3>1, <3>2 DEF BrowsingInv, UnseenAhead
  <2>5. SeenBehind'
    <3>1. SUFFICES ASSUME mishaps \cap {"came", "moved", "tied"} = {},
                          NEW d \in Listed, seen[d] > 0
                   PROVE  Cardinality(Above(d)') < (walk.page - 1) * PageSize
      BY <1>2, <1>3, <2>1 DEF SeenBehind
    <3>2. Above(d)' = Above(d)
      BY <1>2 DEF Above
    <3> QED
      BY <1>2, <3>1, <3>2 DEF BrowsingInv, SeenBehind
  <2>6. PageExists'
    BY <1>2, <1>3, <2>1 DEF BrowsingInv, PageExists
  <2>7. CountHolds'
    <3>1. n >= 1 /\ Cardinality(Listed) <= n * PageSize
          /\ (n = 1 \/ (n - 1) * PageSize < Cardinality(Listed))
      BY <1>4, PagesSuffice
    <3> QED
      BY <1>3, <2>1, <3>1 DEF CountHolds
  <2> QED
    BY <1>1, <2>1, <2>2, <2>3, <2>4, <2>5, <2>6, <2>7 DEF BrowsingInv, BrowsingSound
<1> QED
  BY <1>6, <1>7

\* Which rows a page shows, if no two are equal.
LEMMA PageMeans ==
  ASSUME BrowsingInv, Distinct(rank), NEW first \in SUBSET Listed, NEW sheet \in SUBSET Listed,
         Slice(first, sheet), NEW c \in Listed
  PROVE  c \in sheet <=> /\ Cardinality(Above(c)) >= (walk.page - 1) * PageSize
                        /\ Cardinality(Above(c)) < walk.page * PageSize
<1>1. rank \in [Cards -> Ranks \cup {Unlisted}] /\ walk.page \in Nat /\ walk.page >= 1
  BY WalksAreWalks
<1>2. PICK n \in Nat, m \in Nat :
        n = (walk.page - 1) * PageSize /\ m = walk.page * PageSize /\ n <= m
  <2>1. PICK k \in Nat : k = walk.page - 1 /\ k + 1 = walk.page
    BY <1>1
  <2>2. k * PageSize \in Int /\ k * PageSize >= 0 /\ (k + 1) * PageSize = k * PageSize + PageSize
    BY PagesGrow
  <2> QED
    BY <2>1, <2>2, RowsAreFinite
<1>3. c \in first <=> Cardinality(Above(c)) < n
  <2>1. Cardinality(first) = Until(n) /\ \A a \in first, d \in Listed \ first : Precedes(a, d)
    BY <1>2 DEF Slice
  <2> QED
    BY <1>1, <2>1, PrefixMeans
<1>4. c \in first \cup sheet <=> Cardinality(Above(c)) < m
  <2>1. PICK top \in SUBSET Listed : top = first \cup sheet
    OBVIOUS
  <2>2. Cardinality(top) = Until(m)
    BY <1>2, <2>1 DEF Slice
  <2>3. \A a \in top, d \in Listed \ top : Precedes(a, d)
    BY <2>1 DEF Slice
  <2>4. c \in top <=> Cardinality(Above(c)) < m
    BY <1>1, <2>2, <2>3, PrefixMeans
  <2> QED
    BY <2>1, <2>4
<1>5. sheet \cap first = {}
  BY DEF Slice
<1>6. Cardinality(Above(c)) \in Nat
  BY RowsAreFinite DEF Above
<1> QED
  BY <1>2, <1>3, <1>4, <1>5, <1>6

\* A page shows the rows whose turn it is, as far as no two are equal.
LEMMA ReadPageHolds ==
  ASSUME BrowsingInv, ReadPage
  PROVE  BrowsingInv'
<1>1. /\ walk.page \in Nat /\ walk.pages \in Nat /\ walk.page >= 1 /\ walk \in WalkStates
      /\ seen \in [Cards -> 0..2] /\ stays \subseteq Listed
  BY WalksAreWalks
<1>2. /\ walk.step = "slice" /\ Walking /\ UNCHANGED <<rank, sort, stays, moves, mishaps>>
      /\ walk' = IF walk.page < walk.pages THEN [walk EXCEPT !.step = "start", !.page = @ + 1]
                 ELSE [walk EXCEPT !.step = "done"]
  BY DEF ReadPage, Walking
<1>3. PICK first \in SUBSET Listed, sheet \in SUBSET Listed :
        /\ Slice(first, sheet)
        /\ seen' = [c \in Cards |-> IF c \in sheet /\ seen[c] < 2 THEN seen[c] + 1 ELSE seen[c]]
  BY DEF ReadPage
<1>4. Listed' = Listed /\ Listed \subseteq Cards /\ \A c \in Cards : Above(c)' = Above(c)
  BY <1>2 DEF Listed, Above
<1>5. PICK k \in Nat : k = walk.page - 1 /\ k + 1 = walk.page
  BY <1>1
<1>6. /\ k * PageSize \in Int /\ walk.page * PageSize \in Int
      /\ k * PageSize <= walk.page * PageSize
      /\ Cardinality(Listed) \in Nat
      /\ \A c \in Cards : Cardinality(Above(c)) \in Nat
  <2>1. k <= walk.page
    BY <1>5
  <2> QED
    BY <1>1, <2>1, PagesGrow, RowsAreFinite DEF Listed, Above
<1>7. /\ seen' \in [Cards -> 0..2]
      /\ \A c \in Cards : seen'[c] >= seen[c] /\ (seen'[c] = 0 => seen[c] = 0 /\ c \notin sheet)
      /\ \A c \in Cards : c \notin sheet => seen'[c] = seen[c]
  BY <1>1, <1>3
<1>8. /\ walk' \in WalkStates /\ walk'.pages = walk.pages
      /\ walk'.step = "done" => walk.pages <= walk.page
      /\ Walking' => walk.page < walk.pages /\ walk'.page = walk.page + 1
      /\ walk'.step \notin {"slice", "lost"} /\ walk'.page >= 1
  <2>1. PICK p \in Nat, q \in Nat : p = walk.page /\ q = walk.pages /\ p >= 1
    BY <1>1
  <2>2. CASE p < q
    <3>1. walk' = [walk EXCEPT !.step = "start", !.page = p + 1]
      BY <1>2, <2>1, <2>2
    <3>2. PICK w \in WalkStates, n \in Nat : w = walk /\ n = p + 1
      BY <1>1
    <3>3. walk' = [w EXCEPT !.step = "start", !.page = n]
      BY <3>1, <3>2
    <3>4. walk' \in WalkStates /\ walk'.step = "start" /\ walk'.page = n /\ walk'.pages = w.pages
      BY <3>2, <3>3 DEF WalkStates
    <3>5. walk'.page = p + 1 /\ walk'.pages = q /\ p + 1 >= 1
      BY <2>1, <3>2, <3>4
    <3> QED
      BY <2>1, <2>2, <3>4, <3>5
  <2>3. CASE ~(p < q)
    <3>1. walk' = [walk EXCEPT !.step = "done"]
      BY <1>2, <2>1, <2>3
    <3>2. walk' \in WalkStates /\ walk'.step = "done" /\ walk'.page = p /\ walk'.pages = q
      BY <1>1, <2>1, <3>1 DEF WalkStates
    <3> QED
      BY <2>1, <2>3, <3>2 DEF Walking
  <2> QED
    BY <2>2, <2>3
<1>9. BrowsingTypeOK'
  BY <1>2, <1>4, <1>7, <1>8 DEF BrowsingInv, BrowsingSound, BrowsingTypeOK
<1>10. ASSUME mishaps \cap {"left", "moved", "tied", "came in between"} = {},
              NEW c \in stays, seen'[c] = 0
       PROVE  Cardinality(Above(c)) >= walk.page * PageSize
  <2>1. Distinct(rank)
    BY <1>10 DEF BrowsingInv, TiesAreTold
  <2>2. c \in Listed /\ c \in Cards /\ seen[c] = 0 /\ c \notin sheet
    BY <1>1, <1>4, <1>7, <1>10
  <2>3. Cardinality(Above(c)) >= (walk.page - 1) * PageSize
    BY <1>2, <1>10, <2>2 DEF BrowsingInv, UnseenAhead
  <2>4. ~(Cardinality(Above(c)) < walk.page * PageSize)
    BY <1>3, <2>1, <2>2, <2>3, PageMeans
  <2> QED
    BY <1>6, <2>2, <2>4
<1>11. ASSUME mishaps \cap {"came", "moved", "tied"} = {}, NEW c \in sheet
       PROVE  seen[c] = 0 /\ Cardinality(Above(c)) < walk.page * PageSize
  <2>1. Distinct(rank)
    BY <1>11 DEF BrowsingInv, TiesAreTold
  <2>2. c \in Listed /\ c \in Cards
    BY <1>4
  <2>3. Cardinality(Above(c)) >= (walk.page - 1) * PageSize
        /\ Cardinality(Above(c)) < walk.page * PageSize
    BY <1>3, <2>1, <2>2, PageMeans
  <2>4. seen[c] > 0 => Cardinality(Above(c)) < (walk.page - 1) * PageSize
    BY <1>2, <1>11, <2>2 DEF BrowsingInv, SeenBehind
  <2>5. seen[c] \in 0..2
    BY <1>1, <2>2
  <2> QED
    BY <1>5, <1>6, <2>2, <2>3, <2>4, <2>5
<1>12. NothingMissed'
  <2>1. SUFFICES ASSUME walk'.step = "done",
                        mishaps \cap {"left", "moved", "tied", "came in between"} = {},
                        NEW c \in stays, ~(seen'[c] > 0)
                 PROVE  FALSE
    BY <1>2 DEF NothingMissed
  <2>2. c \in Cards /\ seen'[c] = 0 /\ c \in Listed
    <3>1. c \in Listed /\ c \in Cards
      BY <1>1, <1>4
    <3>2. PICK n \in 0..2 : n = seen'[c]
      BY <1>7, <3>1
    <3>3. ~(n > 0)
      BY <2>1, <3>2
    <3>4. n = 0
      BY <3>3
    <3> QED
      BY <3>1, <3>2, <3>4
  <2>3. Cardinality(Above(c)) >= walk.page * PageSize
    BY <1>10, <2>1, <2>2
  <2>4. walk.pages <= walk.page
    BY <1>8, <2>1
  <2>5. walk.pages * PageSize <= walk.page * PageSize /\ walk.pages * PageSize \in Int
    BY <1>1, <2>4, PagesGrow
  <2>6. Cardinality(Listed) <= walk.pages * PageSize
    BY <1>2, <2>1 DEF BrowsingInv, CountHolds
  <2>7. Above(c) \subseteq Listed \ {c}
    BY <2>2, RanksAreNumbers, WalksAreWalks
  <2>8. Cardinality(Above(c)) <= Cardinality(Listed) /\ Cardinality(Above(c)) # Cardinality(Listed)
    BY <1>4, <2>2, <2>7, FewerRows
  <2> QED
    BY <1>6, <2>2, <2>3, <2>5, <2>6, <2>8
<1>13. NothingRepeated'
  <2>1. SUFFICES ASSUME mishaps \cap {"came", "moved", "tied"} = {}, NEW c \in Cards
                 PROVE  seen'[c] < 2
    BY <1>2 DEF NothingRepeated
  <2>2. seen[c] < 2 /\ seen[c] \in 0..2
    BY <1>1, <2>1 DEF BrowsingInv, BrowsingSound, NothingRepeated
  <2>3. CASE c \in sheet
    <3>1. seen[c] = 0
      BY <1>11, <2>1, <2>3
    <3> QED
      BY <1>3, <2>3, <3>1
  <2>4. CASE c \notin sheet
    BY <1>7, <2>2, <2>4
  <2> QED
    BY <2>3, <2>4
<1>14. NothingBeyond' /\ TiesAreTold'
  BY <1>2, <1>8 DEF NothingBeyond, BrowsingInv, TiesAreTold
<1>15. UnseenAhead'
  <2>1. SUFFICES ASSUME Walking', mishaps \cap {"left", "moved", "tied", "came in between"} = {},
                        NEW c \in stays, seen'[c] = 0
                 PROVE  Cardinality(Above(c)') >= (walk'.page - 1) * PageSize
    BY <1>2 DEF UnseenAhead
  <2>2. walk'.page = walk.page + 1 /\ walk'.page - 1 = walk.page
    <3>1. walk'.page = walk.page + 1
      BY <1>8, <2>1
    <3> QED
      BY <1>1, <3>1
  <2>3. Above(c)' = Above(c)
    BY <1>1, <1>4
  <2> QED
    BY <1>10, <2>1, <2>2, <2>3
<1>16. SeenBehind'
  <2>1. SUFFICES ASSUME Walking', mishaps \cap {"came", "moved", "tied"} = {},
                        NEW c \in Listed, seen'[c] > 0
                 PROVE  Cardinality(Above(c)') < (walk'.page - 1) * PageSize
    BY <1>2, <1>4 DEF SeenBehind
  <2>2. walk'.page = walk.page + 1 /\ walk'.page - 1 = walk.page
    BY <1>1, <1>8, <2>1
  <2>3. Above(c)' = Above(c) /\ c \in Cards
    BY <1>4
  <2>4. CASE c \in sheet
    BY <1>11, <2>1, <2>2, <2>3, <2>4
  <2>5. CASE c \notin sheet
    <3>1. Cardinality(Above(c)) < (walk.page - 1) * PageSize
      BY <1>2, <1>7, <2>1, <2>3, <2>5 DEF BrowsingInv, SeenBehind
    <3> QED
      BY <1>5, <1>6, <2>2, <2>3, <3>1
  <2> QED
    BY <2>4, <2>5
<1>17. PageExists'
  <2>1. SUFFICES ASSUME Walking', "left" \notin mishaps
                 PROVE  (walk'.page - 1) * PageSize < Cardinality(Listed)
    BY <1>2, <1>4 DEF PageExists
  <2>2. walk.page < walk.pages /\ walk'.page - 1 = walk.page
    BY <1>1, <1>8, <2>1
  <2>3. walk.pages # 1 /\ walk.pages - 1 \in Int /\ walk.page <= walk.pages - 1
    BY <1>1, <2>2
  <2>4. (walk.pages - 1) * PageSize < Cardinality(Listed)
    BY <1>2, <2>1, <2>3 DEF BrowsingInv, CountHolds
  <2>5. walk.page * PageSize <= (walk.pages - 1) * PageSize /\ (walk.pages - 1) * PageSize \in Int
    <3>1. PICK a \in Int, d \in Int : a = walk.page /\ d = walk.pages - 1
      BY <1>1, <2>3
    <3>2. a <= d
      BY <2>3, <3>1
    <3>3. a * PageSize <= d * PageSize /\ d * PageSize \in Int
      BY <3>2, PagesGrow
    <3> QED
      BY <3>1, <3>3
  <2> QED
    BY <1>6, <2>2, <2>4, <2>5
<1>18. CountHolds' /\ walk'.page >= 1
  BY <1>8 DEF CountHolds
<1> QED
  BY <1>9, <1>12, <1>13, <1>14, <1>15, <1>16, <1>17, <1>18 DEF BrowsingInv, BrowsingSound

\* Before the first page there is nothing to miss and nothing seen.
LEMMA BrowsingStart ==
  ASSUME BrowsingInit
  PROVE  BrowsingInv
<1>1. walk \in WalkStates /\ walk.step = "start" /\ walk.page = 1
  BY DEF BrowsingInit, WalkStates
<1>2. seen \in [Cards -> 0..2] /\ \A c \in Cards : seen[c] = 0
  BY DEF BrowsingInit
<1>3. BrowsingTypeOK
  <2>1. moves \in 0..MaxMoves
    BY RowsAreFinite DEF BrowsingInit
  <2>2. mishaps \subseteq Mishaps
    BY DEF BrowsingInit, Mishaps
  <2>3. stays \subseteq Listed
    BY DEF BrowsingInit
  <2> QED
    BY <1>1, <1>2, <2>1, <2>2, <2>3 DEF BrowsingInit, BrowsingTypeOK
<1>4. NothingMissed /\ NothingRepeated /\ NothingBeyond /\ TiesAreTold /\ CountHolds /\ PageExists
  BY <1>1, <1>2
     DEF BrowsingInit, NothingMissed, NothingRepeated, NothingBeyond, TiesAreTold, CountHolds,
         PageExists
<1>5. UnseenAhead
  <2>1. (walk.page - 1) * PageSize = 0
    BY <1>1, RowsAreFinite
  <2>2. \A c \in Cards : Cardinality(Above(c)) \in Nat
    BY RowsAreFinite DEF Above
  <2>3. \A c \in Cards : Cardinality(Above(c)) >= 0
    BY <2>2
  <2>4. stays \subseteq Cards
    BY DEF BrowsingInit, Listed
  <2> QED
    BY <2>1, <2>3, <2>4 DEF UnseenAhead
<1>6. SeenBehind
  BY <1>2 DEF SeenBehind, Listed
<1> QED
  BY <1>1, <1>3, <1>4, <1>5, <1>6 DEF BrowsingInv, BrowsingSound

\* Browsing keeps its word: for any number of rows, ranks and changes and any size of a page, a
\* walk misses a row, shows one twice or ends with a 404 only for the reasons its module names.
THEOREM BrowsingKeepsItsWord == BrowsingSpec => []BrowsingSound
<1>1. BrowsingInit => BrowsingInv
  BY BrowsingStart
<1>2. BrowsingInv /\ [BrowsingNext]_browsingVars => BrowsingInv'
  <2>1. ASSUME BrowsingInv, BrowsingNext PROVE BrowsingInv'
    BY <2>1, ExpireRowsHolds, CountRowsHolds, ReadPageHolds, RowComesHolds, RowLeavesHolds,
       RowMovesHolds DEF BrowsingNext
  <2>2. ASSUME BrowsingInv, UNCHANGED browsingVars PROVE BrowsingInv'
    <3>1. /\ UNCHANGED <<rank, sort, walk, seen, stays, moves, mishaps>>
          /\ \A c \in Cards : Above(c)' = Above(c)
      BY <2>2 DEF browsingVars, Above
    <3>2. Listed' = Listed /\ Listed \subseteq Cards
      BY <3>1 DEF Listed
    <3>3. BrowsingTypeOK' /\ NothingMissed' /\ NothingRepeated' /\ NothingBeyond'
      BY <2>2, <3>1, <3>2 DEF BrowsingInv, BrowsingSound, BrowsingTypeOK, NothingMissed,
         NothingRepeated, NothingBeyond
    <3>4. Walking' = Walking /\ TiesAreTold' /\ PageExists' /\ CountHolds'
      BY <2>2, <3>1, <3>2 DEF BrowsingInv, Walking, TiesAreTold, PageExists, CountHolds
    <3>5. UnseenAhead'
      BY <2>2, <3>1, <3>2, <3>4, WalksAreWalks DEF BrowsingInv, UnseenAhead
    <3>6. SeenBehind'
      BY <2>2, <3>1, <3>2, <3>4 DEF BrowsingInv, SeenBehind
    <3> QED
      BY <2>2, <3>1, <3>3, <3>4, <3>5, <3>6 DEF BrowsingInv, BrowsingSound
  <2> QED
    BY <2>1, <2>2
<1>3. BrowsingInv => BrowsingSound
  BY DEF BrowsingInv
<1> QED
  BY <1>1, <1>2, <1>3, PTL DEF BrowsingSpec

(***************************************************************************)
(* ListingImages.  A key is drawn once, held by one request, then has a    *)
(* row, and after the row's removal is on its way out: no key goes back,   *)
(* except by the formset of the admin site.  As long as rows are only      *)
(* added, by one request at a time, the taken positions are the first few. *)
(***************************************************************************)
KeysHeld(s) == {h[1] : h \in s.held}

\* A request holds each key and each position once, and only before it inserts.
HoldsApart(s) ==
  /\ s.step \notin {"insert", "form"} => s.held = {}
  /\ \A g, h \in s.held : g[1] = h[1] \/ g[2] = h[2] => g = h
  /\ \A h \in s.held : h[2] < s.next

\* Keys on their way out, by the requests that have removed rows and by the tasks.
Leaving(k) ==
  \/ \E c \in cleanups : k \in c
  \/ \E u \in Uploads : upload[u].step = "enqueue" /\ k \in upload[u].keys

KeysAreUsed ==
  /\ IsFiniteSet(usedKeys) /\ Images \subseteq usedKeys
  /\ \A u \in Uploads : upload[u].keys \subseteq usedKeys
  /\ \A c \in cleanups : c \subseteq usedKeys

\* What a request holds is stored, its own, and has never had a row.
HeldAreNew ==
  \A u \in Uploads : \A k \in KeysHeld(upload[u]) :
    /\ k \in stored /\ k \notin Images
    /\ \A c \in cleanups : k \notin c
    /\ \A v \in Uploads : k \notin upload[v].keys /\ (v # u => k \notin KeysHeld(upload[v]))

\* A row that is there and was not brought back has an object that nobody is going to remove.
RowsAreKept == \A k \in Images \ reinserted : k \in stored /\ ~Leaving(k)

\* Uploads overlap only if that is told.
OneUploads == ~crowded => \A u, v \in Uploads : Uploading(u) /\ Uploading(v) => u = v

\* The taken positions are those below m.
Numbered(m) == \A i \in Nat : Taken(i) <=> i < m

\* A request that uploads holds the positions from m to its next one.
HeldInOrder(s, m) ==
  /\ m <= s.next
  /\ \A i \in Nat : (\E h \in s.held : h[2] = i) <=> (m <= i /\ i < s.next)

InOrder ==
  hasListing /\ ~gap /\ ~crowded =>
    \E m \in Nat : Numbered(m) /\ \A u \in Uploads : Uploading(u) => HeldInOrder(upload[u], m)

ImagesInv ==
  /\ ImagesSound
  /\ \A u \in Uploads : HoldsApart(upload[u])
  /\ KeysAreUsed
  /\ HeldAreNew
  /\ RowsAreKept
  /\ OneUploads
  /\ InOrder

\* Positions are numbers, and there is one at least.
LEMMA PositionsAreNumbers ==
  /\ MaxFiles \in Nat /\ MaxPosition \in Nat /\ Positions \subseteq Nat
  /\ NoRow \notin Nat /\ NoRow \notin Positions
  /\ 0 \in Positions /\ 0 \in 0..(MaxPosition + 1) /\ 0 \in 0..MaxFiles
  /\ \A p \in Positions : p \in 0..(MaxPosition + 1) /\ p + 1 \in 0..(MaxPosition + 1)
  /\ 0..(MaxPosition + 1) \subseteq Nat
BY ImagesAssumption DEF ImagesAssumption, Positions, NoRow

\* If the taken positions are those below m, there are m rows.
LEMMA RowsCounted ==
  ASSUME NEW m \in Nat, Numbered(m),
         imageAt \in [Keys -> Positions \cup {NoRow}],
         \A j, k \in Images : imageAt[j] = imageAt[k] => j = k
  PROVE  FirstPosition = m
<1>1. PICK f : f = [i \in 0..(m - 1) |-> CHOOSE k \in Images : imageAt[k] = i]
  OBVIOUS
<1>2. \A k \in Images : k \in Keys /\ imageAt[k] \in Nat /\ imageAt[k] \in 0..(m - 1)
  <2>1. TAKE k \in Images
  <2>2. k \in Keys /\ imageAt[k] \in Positions
    BY DEF Images
  <2>3. PICK i \in Nat : i = imageAt[k]
    BY <2>2, PositionsAreNumbers
  <2>4. i < m
    BY <2>2, <2>3 DEF Numbered, Taken
  <2> QED
    BY <2>2, <2>3, <2>4
<1>3. \A i \in 0..(m - 1) : \E k \in Images : imageAt[k] = i
  <2>1. TAKE i \in 0..(m - 1)
  <2>2. i \in Nat /\ i < m
    OBVIOUS
  <2>3. PICK k \in Keys : imageAt[k] = i
    BY <2>2 DEF Numbered, Taken
  <2>4. imageAt[k] # NoRow
    BY <2>2, <2>3, PositionsAreNumbers
  <2> QED
    BY <2>3, <2>4 DEF Images
<1>4. \A i \in 0..(m - 1) : f[i] \in Images /\ imageAt[f[i]] = i
  BY <1>1, <1>3
<1>5. f \in [0..(m - 1) -> Images]
  BY <1>1, <1>4
<1>6. \A i, j \in 0..(m - 1) : f[i] = f[j] => i = j
  BY <1>4
<1>7. \A k \in Images : \E i \in 0..(m - 1) : f[i] = k
  BY <1>2, <1>4
<1>8. ExistsBijection(0..(m - 1), Images)
  BY <1>5, <1>6, <1>7 DEF ExistsBijection, Bijection, Injection, Surjection, IsInjective
<1>9. IsFiniteSet(0..(m - 1)) /\ Cardinality(0..(m - 1)) = m
  <2>1. 0 \in Int /\ m - 1 \in Int
    OBVIOUS
  <2> QED
    BY <2>1, FS_Interval
<1>10. Cardinality(Images) = m
  BY <1>8, <1>9, FS_Bijection
<1> QED
  BY <1>10 DEF FirstPosition

\* A step of one request changes that request alone.
LEMMA OneUploadChanges ==
  ASSUME ImagesTypeOK, NEW u \in Uploads, NEW s \in UploadStates, Step(u, s)
  PROVE  /\ upload' \in [Uploads -> UploadStates]
         /\ upload'[u] = s
         /\ \A v \in Uploads : v # u => upload'[v] = upload[v]
         /\ \A v \in Uploads : v # u => Uploading(v)' = Uploading(v)
         /\ Uploading(u)' <=> s.step \in {"store", "insert", "form"}
<1>1. /\ upload' \in [Uploads -> UploadStates]
      /\ upload'[u] = s
      /\ \A v \in Uploads : v # u => upload'[v] = upload[v]
  BY DEF Step, ImagesTypeOK
<1> QED
  BY <1>1 DEF Uploading

\* What is known of the parts of a request.
LEMMA UploadParts ==
  ASSUME ImagesInv, NEW u \in Uploads
  PROVE  /\ upload[u] \in UploadStates /\ upload[u].held \subseteq Keys \X Positions
         /\ upload[u].next \in 0..(MaxPosition + 1) /\ upload[u].next \in Nat
         /\ upload[u].left \in 0..MaxFiles /\ upload[u].keys \subseteq Keys
         /\ HoldsApart(upload[u])
         /\ HeldKeys(u) = KeysHeld(upload[u])
         /\ KeysHeld(upload[u]) \subseteq Keys /\ KeysHeld(upload[u]) \subseteq stored
<1>1. upload[u] \in UploadStates /\ HoldsApart(upload[u])
  BY DEF ImagesInv, ImagesSound, ImagesTypeOK
<1>2. HeldKeys(u) = KeysHeld(upload[u])
  BY DEF HeldKeys, KeysHeld
<1>3. KeysHeld(upload[u]) \subseteq stored
  BY DEF ImagesInv, HeldAreNew
<1>4. upload[u].held \subseteq Keys \X Positions
  BY <1>1 DEF UploadStates
<1>5. KeysHeld(upload[u]) \subseteq Keys
  BY <1>4 DEF KeysHeld
<1> QED
  BY <1>1, <1>2, <1>3, <1>4, <1>5, PositionsAreNumbers DEF UploadStates

\* Waiting holds nothing.
LEMMA WaitingMeans ==
  /\ Waiting \in UploadStates /\ Waiting.step = "idle" /\ Waiting.held = {} /\ Waiting.keys = {}
  /\ Waiting.left = 0 /\ Waiting.next = 0
  /\ HoldsApart(Waiting) /\ KeysHeld(Waiting) = {}
<1>1. Waiting = [step |-> "idle", next |-> 0, left |-> 0, held |-> {}, keys |-> {}]
  BY DEF Waiting
<1>2. Waiting \in UploadStates
  BY <1>1, PositionsAreNumbers DEF UploadStates, UploadSteps
<1> QED
  BY <1>1, <1>2 DEF HoldsApart, KeysHeld

\* A key has a row, or a request or a task has it, or a mishap has happened to it.
Remembered(k) ==
  \/ k \in Images \/ k \in stranded \/ Leaving(k)
  \/ \E u \in Uploads : k \in KeysHeld(upload[u])

\* What it means, key by key, that no object is forgotten.
LEMMA ForgottenMeans ==
  NoObjectForgotten <=> \A k \in stored : Remembered(k)
<1>1. \A u \in Uploads : HeldKeys(u) = KeysHeld(upload[u])
  BY DEF HeldKeys, KeysHeld
<1> QED
  BY <1>1 DEF NoObjectForgotten, Remembered, Leaving

\* The same after a step.
LEMMA ForgottenMeansThen ==
  NoObjectForgotten' <=> \A k \in stored' : Remembered(k)'
<1>1. \A u \in Uploads : HeldKeys(u)' = KeysHeld(upload'[u])
  BY DEF HeldKeys, KeysHeld
<1> QED
  BY <1>1 DEF NoObjectForgotten, Remembered, Leaving

\* A request gives up what it holds, or hands what it has removed to a task.
LEMMA UploadEnds ==
  ASSUME ImagesInv, NEW u \in Uploads, Step(u, Waiting),
         UNCHANGED <<hasListing, imageAt, stored, usedKeys, gap, crowded, reinserted>>,
         \/ cleanups' = cleanups
         \/ upload[u].step = "enqueue" /\ cleanups' = cleanups \cup {upload[u].keys},
         stranded \subseteq stranded', stranded' \subseteq Keys,
         KeysHeld(upload[u]) \subseteq stranded',
         upload[u].step = "enqueue" =>
           upload[u].keys \subseteq stranded' \/ upload[u].keys \in cleanups',
         collided' = FALSE
  PROVE  ImagesInv'
<1>1. /\ upload' \in [Uploads -> UploadStates]
      /\ upload'[u] = Waiting
      /\ \A v \in Uploads : v # u => upload'[v] = upload[v]
      /\ \A v \in Uploads : v # u => Uploading(v)' = Uploading(v)
  BY OneUploadChanges, WaitingMeans DEF ImagesInv, ImagesSound
<1>2. Images' = Images /\ ~Uploading(u)' /\ \A i : Taken(i)' = Taken(i)
  BY <1>1, WaitingMeans DEF Images, Taken, Uploading
<1>3. KeysHeld(upload'[u]) = {} /\ upload'[u].keys = {} /\ upload'[u].step # "enqueue"
      /\ HoldsApart(upload'[u])
  BY <1>1, WaitingMeans
<1>4. ImagesTypeOK'
  <2>1. cleanups' \subseteq SUBSET Keys
    BY UploadParts DEF ImagesInv, ImagesSound, ImagesTypeOK
  <2> QED
    BY <1>1, <1>2, <2>1 DEF ImagesInv, ImagesSound, ImagesTypeOK
<1>5. \A k \in Images \ reinserted : ~Leaving(k)'
  <2>1. \A k \in Images \ reinserted : ~Leaving(k)
    BY DEF ImagesInv, RowsAreKept
  <2> QED
    BY <1>1, <1>3, <2>1 DEF Leaving
<1>6. RowsAreKept' /\ RowsHaveObjects'
  BY <1>2, <1>5 DEF ImagesInv, ImagesSound, RowsAreKept, RowsHaveObjects
<1>7. NoObjectForgotten'
  <2>1. \A k \in stored : Remembered(k)
    BY ForgottenMeans DEF ImagesInv, ImagesSound
  <2>2. \A k \in stored : Remembered(k)'
    <3>1. TAKE k \in stored
    <3>2. CASE k \in Images \/ k \in stranded
      BY <1>2, <3>2 DEF Remembered
    <3>3. CASE Leaving(k)
      BY <1>1, <3>3 DEF Leaving, Remembered
    <3>4. CASE \E v \in Uploads : k \in KeysHeld(upload[v])
      BY <1>1, <3>4 DEF Remembered
    <3> QED
      BY <2>1, <3>2, <3>3, <3>4 DEF Remembered
  <2> QED
    BY <2>2, ForgottenMeansThen
<1>8. \A v \in Uploads : HoldsApart(upload'[v])
  BY <1>1, <1>3 DEF ImagesInv
<1>9. KeysAreUsed'
  BY <1>1, <1>2, <1>3 DEF ImagesInv, KeysAreUsed
<1>10. HeldAreNew'
  BY <1>1, <1>2, <1>3 DEF ImagesInv, HeldAreNew
<1>11. OneUploads'
  BY <1>1, <1>2 DEF ImagesInv, OneUploads
<1>12. InOrder'
  <2>1. \A m \in Nat : Numbered(m)' = Numbered(m)
    BY <1>2 DEF Numbered
  <2> QED
    BY <1>1, <1>2, <2>1 DEF ImagesInv, InOrder
<1>13. (\A v \in Uploads : HoldsApart(upload[v]))'
  BY <1>8
<1>14. CollisionHasCause'
  BY DEF CollisionHasCause
<1> QED
  BY <1>4, <1>6, <1>7, <1>9, <1>10, <1>11, <1>12, <1>13, <1>14 DEF ImagesInv, ImagesSound

\* A request begins: it has read the rows and holds nothing yet.
LEMMA UploadStarts ==
  ASSUME ImagesInv, NEW u \in Uploads, upload[u].step = "idle",
         NEW s \in UploadStates, Step(u, s),
         s.held = {}, s.keys \subseteq Images, s.step # "enqueue",
         UNCHANGED <<hasListing, imageAt, stored, usedKeys, cleanups, gap, reinserted, stranded,
                     collided>>,
         \/ s.step \notin {"store", "insert", "form"} /\ UNCHANGED crowded
         \/ /\ s.next = FirstPosition
            /\ crowded' = (crowded \/ \E v \in Uploads : Uploading(v))
  PROVE  ImagesInv'
<1>1. /\ upload' \in [Uploads -> UploadStates]
      /\ upload'[u] = s
      /\ \A v \in Uploads : v # u => upload'[v] = upload[v]
      /\ \A v \in Uploads : v # u => Uploading(v)' = Uploading(v)
      /\ Uploading(u)' <=> s.step \in {"store", "insert", "form"}
  BY OneUploadChanges DEF ImagesInv, ImagesSound
<1>2. Images' = Images /\ ~Uploading(u) /\ \A i : Taken(i)' = Taken(i)
  BY DEF Images, Taken, Uploading
<1>3. HoldsApart(s) /\ KeysHeld(s) = {}
  BY DEF HoldsApart, KeysHeld
<1>4. crowded' \in BOOLEAN /\ (~crowded' => ~crowded)
      /\ (~crowded' /\ Uploading(u)' => s.next = FirstPosition /\ \A v \in Uploads : ~Uploading(v))
  BY <1>1 DEF ImagesInv, ImagesSound, ImagesTypeOK
<1>5. KeysHeld(upload[u]) = {}
  BY UploadParts DEF HoldsApart, KeysHeld
<1>6. ImagesTypeOK'
  BY <1>1, <1>2, <1>4 DEF ImagesInv, ImagesSound, ImagesTypeOK
<1>7. \A k : Leaving(k)' <=> Leaving(k)
  BY <1>1 DEF Leaving
<1>8. RowsAreKept' /\ RowsHaveObjects' /\ CollisionHasCause'
  BY <1>2, <1>7 DEF ImagesInv, ImagesSound, RowsAreKept, RowsHaveObjects, CollisionHasCause
<1>9. NoObjectForgotten'
  <2>1. \A k \in stored : Remembered(k)
    BY ForgottenMeans DEF ImagesInv, ImagesSound
  <2>2. \A k \in stored : Remembered(k)'
    BY <1>1, <1>2, <1>5, <1>7, <2>1 DEF Remembered
  <2> QED
    BY <2>2, ForgottenMeansThen
<1>10. (\A v \in Uploads : HoldsApart(upload[v]))'
  BY <1>1, <1>3 DEF ImagesInv
<1>11. KeysAreUsed'
  BY <1>1, <1>2 DEF ImagesInv, KeysAreUsed
<1>12. HeldAreNew'
  BY <1>1, <1>2, <1>3 DEF ImagesInv, HeldAreNew
<1>13. OneUploads'
  BY <1>1, <1>4 DEF ImagesInv, OneUploads
<1>14. InOrder'
  <2>1. SUFFICES ASSUME hasListing, ~gap, ~crowded' PROVE InOrder'
    BY DEF InOrder
  <2>2. PICK m \in Nat :
          Numbered(m) /\ \A v \in Uploads : Uploading(v) => HeldInOrder(upload[v], m)
    BY <1>4, <2>1 DEF ImagesInv, InOrder
  <2>3. Numbered(m)'
    BY <1>2, <2>2 DEF Numbered
  <2>4. Uploading(u)' => HeldInOrder(s, m)
    <3>1. SUFFICES ASSUME Uploading(u)' PROVE HeldInOrder(s, m)
      OBVIOUS
    <3>2. s.next = m
      BY <1>4, <2>1, <2>2, <3>1, RowsCounted DEF ImagesInv, ImagesSound, ImagesTypeOK
    <3> QED
      BY <3>2 DEF HeldInOrder
  <2>5. \A v \in Uploads : Uploading(v)' => HeldInOrder(upload'[v], m)
    BY <1>1, <2>2, <2>4
  <2> QED
    BY <2>3, <2>5 DEF InOrder
<1> QED
  BY <1>6, <1>8, <1>9, <1>10, <1>11, <1>12, <1>13, <1>14 DEF ImagesInv, ImagesSound

\* ListingImageView.post, ListingAdmin.save_model: an upload counts the rows.
LEMMA StartUploadHolds ==
  ASSUME ImagesInv, NEW u \in Uploads, NEW t \in {"store", "form"}, StartUpload(u, t)
  PROVE  ImagesInv'
<1>1. PICK n \in 0..MaxFiles, K \in {Images, {}} :
        Step(u, [step |-> t, next |-> FirstPosition, left |-> n, held |-> {}, keys |-> K])
  BY DEF StartUpload
<1>2. PICK s : s = [step |-> t, next |-> FirstPosition, left |-> n, held |-> {}, keys |-> K]
  OBVIOUS
<1>3. /\ upload[u].step = "idle" /\ FirstPosition \in Positions
      /\ UNCHANGED <<hasListing, imageAt, stored, usedKeys, cleanups, gap, reinserted, stranded,
                     collided>>
      /\ crowded' = (crowded \/ \E v \in Uploads : Uploading(v))
  BY DEF StartUpload
<1>4. K \subseteq Images /\ K \subseteq Keys
  BY DEF Images
<1>5. s \in UploadStates
  BY <1>2, <1>3, <1>4, PositionsAreNumbers DEF UploadStates, UploadSteps
<1>6. s.held = {} /\ s.keys \subseteq Images /\ s.step # "enqueue" /\ s.next = FirstPosition
  BY <1>2, <1>4
<1> QED
  BY <1>1, <1>2, <1>3, <1>5, <1>6, UploadStarts

\* A request that removes begins by reading keys.
LEMMA StartRemoveHolds ==
  ASSUME ImagesInv, NEW u \in Uploads, StartRemoveImage(u) \/ StartRemoveListing(u)
  PROVE  ImagesInv'
<1>1. PICK t \in {"remove", "cascade"}, K \in SUBSET Images :
        Step(u, [Waiting EXCEPT !.step = t, !.keys = K])
  <2>1. CASE StartRemoveImage(u)
    <3>1. PICK k \in Images : Step(u, [Waiting EXCEPT !.step = "remove", !.keys = {k}])
      BY <2>1 DEF StartRemoveImage
    <3>2. {k} \in SUBSET Images
      OBVIOUS
    <3> QED
      BY <3>1, <3>2
  <2>2. CASE StartRemoveListing(u)
    <3>1. Step(u, [Waiting EXCEPT !.step = "cascade", !.keys = Images])
      BY <2>2 DEF StartRemoveListing
    <3> QED
      BY <3>1
  <2> QED
    BY <2>1, <2>2
<1>2. PICK s : s = [Waiting EXCEPT !.step = t, !.keys = K]
  OBVIOUS
<1>3. /\ upload[u].step = "idle"
      /\ UNCHANGED <<hasListing, imageAt, stored, usedKeys, cleanups, gap, crowded, reinserted,
                     stranded, collided>>
  BY DEF StartRemoveImage, StartRemoveListing
<1>4. /\ s \in UploadStates /\ s.held = {} /\ s.keys = K /\ s.step = t
      /\ s.step \notin {"store", "insert", "form"} /\ s.step # "enqueue"
  <2>1. Waiting = [step |-> "idle", next |-> 0, left |-> 0, held |-> {}, keys |-> {}]
    BY DEF Waiting
  <2>2. K \subseteq Keys
    BY DEF Images
  <2> QED
    BY <1>2, <2>1, <2>2, PositionsAreNumbers DEF UploadStates, UploadSteps
<1>5. Step(u, s)
  BY <1>1, <1>2
<1> QED
  BY <1>3, <1>4, <1>5, UploadStarts

\* A key of a request that waits for its positions: none is taken as long as rows are only
\* added, one upload at a time.
LEMMA RefusalHasCause ==
  ASSUME ImagesInv, NEW u \in Uploads, upload[u].step \in {"insert", "form"}, ~Fits(u)
  PROVE  ~(hasListing /\ ~gap /\ ~crowded)
<1>1. SUFFICES ASSUME hasListing, ~gap, ~crowded PROVE FALSE
  OBVIOUS
<1>2. PICK m \in Nat :
        Numbered(m) /\ \A v \in Uploads : Uploading(v) => HeldInOrder(upload[v], m)
  BY <1>1 DEF ImagesInv, InOrder
<1>3. HeldInOrder(upload[u], m)
  BY <1>2 DEF Uploading
<1>4. PICK h \in upload[u].held : Taken(h[2])
  BY <1>1 DEF Fits
<1>5. PICK i \in Nat : i = h[2]
  BY UploadParts, PositionsAreNumbers
<1>6. m <= i
  BY <1>3, <1>5 DEF HeldInOrder
<1>7. i < m
  BY <1>2, <1>4, <1>5 DEF Numbered
<1> QED
  BY <1>6, <1>7

\* What a request holds, and what it has removed, are keys.
LEMMA UploadKeys ==
  ASSUME ImagesInv, NEW u \in Uploads
  PROVE  KeysHeld(upload[u]) \subseteq Keys /\ upload[u].keys \subseteq Keys
         /\ stranded \subseteq Keys /\ HeldKeys(u) = KeysHeld(upload[u])
BY UploadParts DEF ImagesInv, ImagesSound, ImagesTypeOK

\* Requests that end without a row: refused, rolled back, killed, or done.
LEMMA RequestEndsHolds ==
  ASSUME ImagesInv, NEW u \in Uploads,
         InsertRefused(u) \/ RollBackForm(u) \/ FinishUpload(u) \/ UploadDies(u)
         \/ EnqueueCleanup(u)
  PROVE  ImagesInv'
<1>1. collided = FALSE
  BY DEF ImagesInv, ImagesSound, CollisionHasCause, ImagesTypeOK
<1>2. KeysHeld(upload[u]) \subseteq Keys /\ upload[u].keys \subseteq Keys
      /\ stranded \subseteq Keys /\ HeldKeys(u) = KeysHeld(upload[u])
  BY UploadKeys
<1>3. upload[u].step \notin {"insert", "form"} => KeysHeld(upload[u]) = {}
  BY UploadParts DEF HoldsApart, KeysHeld
<1>4. CASE InsertRefused(u)
  <2>1. collided' = FALSE
    BY <1>1, <1>4, RefusalHasCause DEF InsertRefused
  <2>2. /\ upload[u].step # "enqueue" /\ Step(u, Waiting)
        /\ UNCHANGED <<hasListing, imageAt, stored, usedKeys, cleanups, gap, crowded, reinserted>>
        /\ stranded' = stranded \cup KeysHeld(upload[u])
    BY <1>2, <1>4 DEF InsertRefused
  <2> QED
    BY <1>2, <2>1, <2>2, UploadEnds
<1>5. CASE RollBackForm(u)
  <2>1. /\ upload[u].step # "enqueue" /\ Step(u, Waiting)
        /\ UNCHANGED <<hasListing, imageAt, stored, usedKeys, cleanups, gap, crowded, reinserted,
                       collided>>
        /\ stranded' = stranded \cup KeysHeld(upload[u])
    BY <1>2, <1>5 DEF RollBackForm
  <2> QED
    BY <1>1, <1>2, <2>1, UploadEnds
<1>6. CASE FinishUpload(u)
  <2>1. /\ upload[u].step = "store" /\ Step(u, Waiting)
        /\ UNCHANGED <<hasListing, imageAt, stored, usedKeys, cleanups, gap, crowded, reinserted,
                       stranded, collided>>
    BY <1>6 DEF FinishUpload
  <2> QED
    BY <1>1, <1>2, <1>3, <2>1, UploadEnds
<1>7. CASE UploadDies(u)
  <2>1. /\ Step(u, Waiting)
        /\ UNCHANGED <<hasListing, imageAt, stored, usedKeys, cleanups, gap, crowded, reinserted,
                       collided>>
        /\ stranded' = stranded \cup KeysHeld(upload[u])
                         \cup (IF upload[u].step = "enqueue" THEN upload[u].keys ELSE {})
    BY <1>2, <1>7 DEF UploadDies
  <2>2. stranded \subseteq stranded' /\ stranded' \subseteq Keys
        /\ KeysHeld(upload[u]) \subseteq stranded'
        /\ (upload[u].step = "enqueue" => upload[u].keys \subseteq stranded')
    BY <1>2, <2>1
  <2> QED
    BY <1>1, <2>1, <2>2, UploadEnds
<1>8. CASE EnqueueCleanup(u)
  <2>1. /\ upload[u].step = "enqueue" /\ Step(u, Waiting)
        /\ cleanups' = cleanups \cup {upload[u].keys}
        /\ UNCHANGED <<hasListing, imageAt, stored, usedKeys, gap, crowded, reinserted, stranded,
                       collided>>
    BY <1>8 DEF EnqueueCleanup
  <2> QED
    BY <1>1, <1>2, <1>3, <2>1, UploadEnds
<1> QED
  BY <1>4, <1>5, <1>6, <1>7, <1>8

\* An object is stored under a key nobody has drawn, for the next position.
LEMMA StoreObjectHolds ==
  ASSUME ImagesInv, NEW u \in Uploads, StoreObject(u)
  PROVE  ImagesInv'
<1>1. PICK k \in Keys \ usedKeys :
        /\ stored' = stored \cup {k}
        /\ usedKeys' = usedKeys \cup {k}
        /\ Step(u, [upload[u] EXCEPT !.step = IF @ = "store" THEN "insert" ELSE "form",
                                     !.held = @ \cup {<<k, upload[u].next>>},
                                     !.left = @ - 1, !.next = @ + 1])
  BY DEF StoreObject
<1>2. /\ upload[u].step \in {"store", "form"} /\ upload[u].left > 0 /\ upload[u].next \in Positions
      /\ UNCHANGED <<hasListing, imageAt, cleanups, gap, crowded, reinserted, stranded, collided>>
  BY DEF StoreObject
<1>3. PICK old \in UploadStates, p \in Positions, t \in {"insert", "form"}, n \in 0..MaxFiles :
        /\ old = upload[u] /\ p = old.next
        /\ t = (IF old.step = "store" THEN "insert" ELSE "form")
        /\ n = old.left - 1
  <2>1. PICK old \in UploadStates : old = upload[u]
    BY UploadParts
  <2>2. old.left \in 0..MaxFiles /\ old.left > 0
    BY <1>2, <2>1 DEF UploadStates
  <2>3. old.left - 1 \in 0..MaxFiles
    BY <2>2, PositionsAreNumbers
  <2> QED
    BY <1>2, <2>1, <2>3
<1>4. p \in Nat /\ p + 1 \in 0..(MaxPosition + 1) /\ p + 1 \in Nat
  BY PositionsAreNumbers
<1>5. PICK s : s = [old EXCEPT !.step = t, !.held = old.held \cup {<<k, p>>}, !.left = n,
                                !.next = p + 1]
  OBVIOUS
<1>6. Step(u, s)
  BY <1>1, <1>3, <1>5
<1>7. old.held \subseteq Keys \X Positions /\ old.keys \subseteq Keys
  BY DEF UploadStates
<1>8. /\ s \in UploadStates
      /\ s.step = t /\ s.held = old.held \cup {<<k, p>>} /\ s.next = p + 1 /\ s.keys = old.keys
  <2>1. old.held \cup {<<k, p>>} \in SUBSET (Keys \X Positions)
    BY <1>7
  <2>2. t \in UploadSteps
    BY DEF UploadSteps
  <2> QED
    BY <1>4, <1>5, <2>1, <2>2 DEF UploadStates
<1>9. /\ upload' \in [Uploads -> UploadStates]
      /\ upload'[u] = s
      /\ \A v \in Uploads : v # u => upload'[v] = upload[v]
      /\ \A v \in Uploads : Uploading(v)' = Uploading(v)
  <2>1. Uploading(u)
    BY <1>2 DEF Uploading
  <2>2. Uploading(u)'
    BY <1>6, <1>8, OneUploadChanges DEF ImagesInv, ImagesSound
  <2>3. /\ upload' \in [Uploads -> UploadStates]
        /\ upload'[u] = s
        /\ \A v \in Uploads : v # u => upload'[v] = upload[v]
        /\ \A v \in Uploads : v # u => Uploading(v)' = Uploading(v)
    BY <1>6, <1>8, OneUploadChanges DEF ImagesInv, ImagesSound
  <2> QED
    BY <2>1, <2>2, <2>3 DEF Uploading
<1>10. KeysHeld(s) = KeysHeld(old) \cup {k}
  <2>1. <<k, p>>[1] = k
    OBVIOUS
  <2>2. \A j : j \in KeysHeld(s) <=> \E h \in s.held : j = h[1]
    BY DEF KeysHeld
  <2>3. \A j : j \in KeysHeld(old) <=> \E h \in old.held : j = h[1]
    BY DEF KeysHeld
  <2>4. \A h : h \in s.held <=> h \in old.held \/ h = <<k, p>>
    BY <1>8
  <2> QED
    BY <2>1, <2>2, <2>3, <2>4
<1>11. Images' = Images /\ \A i : Taken(i)' = Taken(i)
  BY <1>2 DEF Images, Taken
<1>12. /\ k \notin Images /\ k \notin stored
       /\ \A v \in Uploads : k \notin upload[v].keys /\ k \notin KeysHeld(upload[v])
       /\ \A c \in cleanups : k \notin c
  <2>1. /\ k \notin Images /\ (\A v \in Uploads : k \notin upload[v].keys)
        /\ \A c \in cleanups : k \notin c
    BY DEF ImagesInv, KeysAreUsed
  <2>2. k \notin stored /\ \A v \in Uploads : KeysHeld(upload[v]) \subseteq stored
    BY UploadParts DEF ImagesInv, ImagesSound, ImagesTypeOK
  <2> QED
    BY <2>1, <2>2
<1>13. ImagesTypeOK'
  <2>1. stored' \subseteq usedKeys' /\ usedKeys' \subseteq Keys
    BY <1>1 DEF ImagesInv, ImagesSound, ImagesTypeOK
  <2> QED
    BY <1>2, <1>9, <1>11, <2>1 DEF ImagesInv, ImagesSound, ImagesTypeOK
<1>14. \A j : Leaving(j)' <=> Leaving(j)
  <2>1. s.step # "enqueue" /\ upload[u].step # "enqueue"
    BY <1>2, <1>8
  <2> QED
    BY <1>2, <1>9, <2>1 DEF Leaving
<1>15. RowsAreKept' /\ RowsHaveObjects' /\ CollisionHasCause'
  BY <1>1, <1>2, <1>11, <1>14
     DEF ImagesInv, ImagesSound, RowsAreKept, RowsHaveObjects, CollisionHasCause
<1>16. NoObjectForgotten'
  <2>1. \A j \in stored : Remembered(j)
    BY ForgottenMeans DEF ImagesInv, ImagesSound
  <2>2. \A v \in Uploads : KeysHeld(upload[v]) \subseteq KeysHeld(upload'[v])
    BY <1>3, <1>9, <1>10
  <2>3. k \in KeysHeld(upload'[u])
    BY <1>9, <1>10
  <2>4. \A j \in stored' : Remembered(j)'
    BY <1>1, <1>2, <1>11, <1>14, <2>1, <2>2, <2>3 DEF Remembered
  <2> QED
    BY <2>4, ForgottenMeansThen
<1>17. HoldsApart(s)
  <2>1. HoldsApart(old)
    BY <1>3, UploadParts
  <2>2. \A h \in old.held : h[1] # k /\ h[2] # p /\ h[2] < p /\ h[2] \in Nat
    <3>1. TAKE h \in old.held
    <3>2. PICK i \in Nat : i = h[2]
      BY <1>7, PositionsAreNumbers
    <3>3. i < p
      BY <1>3, <2>1, <3>2 DEF HoldsApart
    <3>4. h[1] # k
      BY <1>3, <1>12 DEF KeysHeld
    <3> QED
      BY <1>4, <3>2, <3>3, <3>4
  <2>3. \A g, h \in s.held : g[1] = h[1] \/ g[2] = h[2] => g = h
    BY <1>8, <2>1, <2>2 DEF HoldsApart
  <2>4. \A h \in s.held : h[2] < s.next
    <3>1. \A h \in old.held : h[2] < p + 1
      BY <1>4, <2>2
    <3>2. p < p + 1
      BY <1>4
    <3> QED
      BY <1>8, <3>1, <3>2
  <2> QED
    BY <1>8, <2>3, <2>4 DEF HoldsApart
<1>18. (\A v \in Uploads : HoldsApart(upload[v]))'
  BY <1>9, <1>17 DEF ImagesInv
<1>19. KeysAreUsed'
  <2>1. IsFiniteSet(usedKeys')
    BY <1>1, FS_AddElement DEF ImagesInv, KeysAreUsed
  <2>2. \A v \in Uploads : upload'[v].keys = upload[v].keys
    BY <1>3, <1>8, <1>9
  <2> QED
    BY <1>1, <1>2, <1>11, <2>1, <2>2 DEF ImagesInv, KeysAreUsed
<1>20. HeldAreNew'
  <2>1. \A v \in Uploads : upload'[v].keys = upload[v].keys
    BY <1>3, <1>8, <1>9
  <2>2. \A v \in Uploads : \A j \in KeysHeld(upload'[v]) :
          (v = u /\ j = k) \/ (j # k /\ j \in KeysHeld(upload[v]))
    BY <1>3, <1>9, <1>10, <1>12
  <2>3. k \in stored' /\ stored \subseteq stored'
    BY <1>1
  <2> QED
    BY <1>2, <1>11, <1>12, <2>1, <2>2, <2>3 DEF ImagesInv, HeldAreNew
<1>21. OneUploads'
  BY <1>2, <1>9 DEF ImagesInv, OneUploads
<1>22. InOrder'
  <2>1. SUFFICES ASSUME hasListing, ~gap, ~crowded PROVE InOrder'
    BY <1>2 DEF InOrder
  <2>2. PICK m \in Nat :
          Numbered(m) /\ \A v \in Uploads : Uploading(v) => HeldInOrder(upload[v], m)
    BY <2>1 DEF ImagesInv, InOrder
  <2>3. Numbered(m)'
    BY <1>11, <2>2 DEF Numbered
  <2>4. HeldInOrder(s, m)
    <3>1. HeldInOrder(old, m)
      BY <1>2, <1>3, <2>2 DEF Uploading
    <3>2. m <= p /\ \A i \in Nat : (\E h \in old.held : h[2] = i) <=> (m <= i /\ i < p)
      BY <1>3, <3>1 DEF HeldInOrder
    <3>3. m <= p + 1
      BY <1>4, <3>2
    <3>4. ASSUME NEW i \in Nat
          PROVE  (\E h \in s.held : h[2] = i) <=> (m <= i /\ i < p + 1)
      <4>1. (\E h \in s.held : h[2] = i) <=> (\E h \in old.held : h[2] = i) \/ i = p
        <5>1. <<k, p>>[2] = p
          OBVIOUS
        <5>2. \A h : h \in s.held <=> h \in old.held \/ h = <<k, p>>
          BY <1>8
        <5> QED
          BY <5>1, <5>2
      <4>2. (m <= i /\ i < p) \/ i = p <=> (m <= i /\ i < p + 1)
        BY <1>4, <3>2
      <4> QED
        BY <3>2, <4>1, <4>2
    <3> QED
      BY <1>8, <3>3, <3>4 DEF HeldInOrder
  <2>5. \A v \in Uploads : Uploading(v)' => HeldInOrder(upload'[v], m)
    BY <1>9, <2>2, <2>4
  <2> QED
    BY <2>3, <2>5 DEF InOrder
<1> QED
  BY <1>13, <1>15, <1>16, <1>18, <1>19, <1>20, <1>21, <1>22 DEF ImagesInv, ImagesSound

\* What the rows are once those a request holds are in.
LEMMA WithHeldMeans ==
  ASSUME ImagesInv, NEW u \in Uploads
  PROVE  LET W == WithHeld(u, imageAt) IN
         /\ W \in [Keys -> Positions \cup {NoRow}]
         /\ \A k \in KeysHeld(upload[u]) : <<k, W[k]>> \in upload[u].held /\ W[k] \in Positions
         /\ \A k \in Keys \ KeysHeld(upload[u]) : W[k] = imageAt[k]
         /\ \A h \in upload[u].held : h[1] \in KeysHeld(upload[u]) /\ W[h[1]] = h[2]
<1>1. PICK H, K : H = upload[u].held /\ K = KeysHeld(upload[u])
  OBVIOUS
<1>2. /\ H \subseteq Keys \X Positions /\ K \subseteq Keys /\ HeldKeys(u) = K
      /\ \A g, h \in H : g[1] = h[1] \/ g[2] = h[2] => g = h
  BY <1>1, UploadParts DEF HoldsApart
<1>3. \A k : k \in K <=> \E h \in H : h[1] = k
  BY <1>1 DEF KeysHeld
<1>4. PICK W : W = WithHeld(u, imageAt)
  OBVIOUS
<1>5. W = [k \in Keys |-> IF k \in K THEN (CHOOSE h \in H : h[1] = k)[2] ELSE imageAt[k]]
  BY <1>1, <1>2, <1>4 DEF WithHeld
<1>6. \A k \in K : <<k, W[k]>> \in H /\ W[k] \in Positions
  <2>1. TAKE k \in K
  <2>2. PICK h : h = (CHOOSE g \in H : g[1] = k)
    OBVIOUS
  <2>3. h \in H /\ h[1] = k
    BY <1>3, <2>2
  <2>4. W[k] = h[2]
    BY <1>2, <1>5, <2>2
  <2>5. h = <<h[1], h[2]>> /\ h[2] \in Positions
    BY <1>2, <2>3
  <2> QED
    BY <2>3, <2>4, <2>5
<1>7. \A k \in Keys \ K : W[k] = imageAt[k]
  BY <1>5
<1>8. \A h \in H : h[1] \in K /\ W[h[1]] = h[2]
  <2>1. TAKE h \in H
  <2>2. h[1] \in K
    BY <1>3
  <2>3. PICK k \in K : k = h[1]
    BY <2>2
  <2>4. PICK g \in H : g = <<k, W[k]>>
    BY <1>6
  <2>5. g[1] = k /\ g[2] = W[k]
    BY <2>4
  <2>6. g = h
    BY <1>2, <2>3, <2>5
  <2> QED
    BY <2>2, <2>3, <2>5, <2>6
<1>9. W \in [Keys -> Positions \cup {NoRow}]
  <2>1. \A k \in Keys : imageAt[k] \in Positions \cup {NoRow}
    BY DEF ImagesInv, ImagesSound, ImagesTypeOK
  <2>2. \A k \in Keys : W[k] \in Positions \cup {NoRow}
    BY <1>6, <1>7, <2>1
  <2>3. W = [k \in Keys |-> W[k]]
    BY <1>5
  <2> QED
    BY <2>2, <2>3
<1> QED
  BY <1>1, <1>4, <1>6, <1>7, <1>8, <1>9

\* A request u writes the rows it holds, drops some and shifts some of those it has read, to p,
\* and goes on as s; W is what the rows are with those it holds.
RowsWritten(u, drops, shifts, p, W, s) ==
  /\ upload[u].step \in {"insert", "form"} /\ Fits(u)
  /\ drops \cap shifts = {} /\ \A j, k \in shifts : j = k
  /\ W = WithHeld(u, imageAt)
  /\ shifts # {} => \A k \in Keys : k \notin drops => W[k] # p
  /\ imageAt' = [k \in Keys |-> IF k \in shifts THEN p ELSE IF k \in drops THEN NoRow ELSE W[k]]
  /\ gap' = (gap \/ drops \cup shifts # {})
  /\ reinserted' = reinserted \cup {k \in shifts : imageAt[k] = NoRow}
  /\ Step(u, s) /\ s.held = {} /\ s.keys \subseteq upload[u].keys
  /\ \/ s.step = "idle" /\ drops = {}
     \/ s.step = "enqueue" /\ s.keys = drops
     \/ s.step = "store" /\ drops = {} /\ s.next = upload[u].next
  /\ UNCHANGED <<hasListing, stored, usedKeys, cleanups, crowded, stranded, collided>>

\* Rows go in, and by the form of the admin site rows are dropped and one is moved.
LEMMA RowsIn ==
  ASSUME ImagesInv, NEW u \in Uploads,
         NEW drops \in SUBSET upload[u].keys, NEW shifts \in SUBSET upload[u].keys,
         NEW p \in Positions,
         NEW W, NEW s \in UploadStates, RowsWritten(u, drops, shifts, p, W, s)
  PROVE  ImagesInv'
<1> USE DEF RowsWritten
<1>1. /\ upload' \in [Uploads -> UploadStates]
      /\ upload'[u] = s
      /\ \A v \in Uploads : v # u => upload'[v] = upload[v]
      /\ \A v \in Uploads : v # u => Uploading(v)' = Uploading(v)
      /\ Uploading(u)' <=> s.step \in {"store", "insert", "form"}
  BY OneUploadChanges DEF ImagesInv, ImagesSound
<1>2. Uploading(u) /\ upload[u].step # "enqueue"
  BY DEF Uploading
<1>3. PICK H, K, old : H = upload[u].held /\ K = KeysHeld(upload[u]) /\ old = upload[u].keys
  OBVIOUS
<1>4. /\ W \in [Keys -> Positions \cup {NoRow}]
      /\ \A k \in K : <<k, W[k]>> \in H /\ W[k] \in Positions
      /\ \A k \in Keys \ K : W[k] = imageAt[k]
      /\ \A h \in H : h[1] \in K /\ W[h[1]] = h[2]
  BY <1>3, WithHeldMeans
<1>5. K \subseteq Keys /\ K \subseteq stored /\ old \subseteq Keys
  BY <1>3, UploadParts
<1>6. /\ \A k \in K : k \notin Images /\ ~Leaving(k) /\ \A v \in Uploads : k \notin upload[v].keys
      /\ \A k \in K : \A v \in Uploads : v # u => k \notin KeysHeld(upload[v])
  BY <1>3 DEF ImagesInv, HeldAreNew, Leaving
<1>7. \A k \in K : k \notin drops /\ k \notin shifts
  BY <1>3, <1>6
<1>8. KeysHeld(s) = {} /\ HoldsApart(s)
  BY DEF KeysHeld, HoldsApart
<1>9. NoRow \notin Positions
  BY PositionsAreNumbers
<1>10. \A k \in Keys : W[k] # NoRow <=> k \in K \/ k \in Images
  BY <1>4, <1>9 DEF Images
<1>11. \A k \in Keys : /\ imageAt'[k] \in Positions \cup {NoRow}
                       /\ k \in shifts => imageAt'[k] = p
                       /\ k \notin shifts /\ k \in drops => imageAt'[k] = NoRow
                       /\ k \notin shifts /\ k \notin drops => imageAt'[k] = W[k]
  BY <1>4
<1>12. \A k : k \in Images' <=>
         k \in Keys /\ (k \in shifts \/ (k \notin drops /\ (k \in K \/ k \in Images)))
  <2>1. \A k : k \in Images' <=> k \in Keys /\ imageAt'[k] # NoRow
    BY DEF Images
  <2> QED
    BY <1>9, <1>10, <1>11, <2>1
<1>13. \A j, k \in Keys : W[j] = W[k] /\ W[j] # NoRow => j = k
  <2>1. SUFFICES ASSUME NEW j \in Keys, NEW k \in Keys, W[j] = W[k], W[j] # NoRow PROVE j = k
    OBVIOUS
  <2>2. \A i \in K : ~Taken(W[i])
    <3>1. TAKE i \in K
    <3>2. PICK h \in H : h = <<i, W[i]>>
      BY <1>4
    <3>3. ~Taken(h[2])
      BY <1>3 DEF Fits
    <3> QED
      BY <3>2, <3>3
  <2>3. CASE j \in K /\ k \in K
    <3>1. HoldsApart(upload[u])
      BY UploadParts
    <3>2. PICK g \in H, h \in H : g = <<j, W[j]>> /\ h = <<k, W[k]>>
      BY <1>4, <2>3
    <3>3. g[2] = h[2] /\ g[1] = j /\ h[1] = k
      BY <2>1, <3>2
    <3>4. g = h
      BY <1>3, <3>1, <3>3 DEF HoldsApart
    <3> QED
      BY <3>3, <3>4
  <2>4. CASE j \in K /\ k \notin K
    BY <1>4, <2>1, <2>2, <2>4 DEF Taken
  <2>5. CASE j \notin K /\ k \in K
    BY <1>4, <2>1, <2>2, <2>5 DEF Taken
  <2>6. CASE j \notin K /\ k \notin K
    BY <1>4, <2>1, <2>6 DEF ImagesInv, ImagesSound, ImagesTypeOK, Images
  <2> QED
    BY <2>3, <2>4, <2>5, <2>6
<1>14. \A j, k \in Images' : imageAt'[j] = imageAt'[k] => j = k
  <2>1. SUFFICES ASSUME NEW j \in Images', NEW k \in Images', imageAt'[j] = imageAt'[k] PROVE j = k
    OBVIOUS
  <2>2. j \in Keys /\ k \in Keys
    BY <1>12
  <2>3. CASE j \in shifts /\ k \in shifts
    BY <2>3
  <2>4. CASE j \in shifts /\ k \notin shifts
    BY <1>11, <1>12, <2>1, <2>2, <2>4
  <2>5. CASE j \notin shifts /\ k \in shifts
    BY <1>11, <1>12, <2>1, <2>2, <2>5
  <2>6. CASE j \notin shifts /\ k \notin shifts
    <3>1. j \notin drops /\ k \notin drops /\ W[j] # NoRow
      BY <1>10, <1>12, <2>2, <2>6
    <3> QED
      BY <1>11, <1>13, <2>1, <2>2, <2>6, <3>1
  <2> QED
    BY <2>3, <2>4, <2>5, <2>6
<1>15. ImagesTypeOK'
  <2>1. imageAt' \in [Keys -> Positions \cup {NoRow}]
    BY <1>11
  <2>2. gap' \in BOOLEAN /\ reinserted' \subseteq Keys
    BY <1>3, <1>5 DEF ImagesInv, ImagesSound, ImagesTypeOK
  <2> QED
    BY <1>1, <1>14, <2>1, <2>2 DEF ImagesInv, ImagesSound, ImagesTypeOK
<1>16. \A k : Leaving(k)' <=> Leaving(k) \/ (s.step = "enqueue" /\ k \in s.keys)
  BY <1>1, <1>2 DEF Leaving
<1>17. \A k : Leaving(k)' <=> Leaving(k) \/ k \in drops
  BY <1>16
<1>18. RowsAreKept'
  <2>1. SUFFICES ASSUME NEW k \in Images', k \notin reinserted' PROVE k \in stored /\ ~Leaving(k)'
    BY DEF RowsAreKept
  <2>2. k \in Keys /\ k \notin drops
    BY <1>12, <2>1
  <2>3. k \notin reinserted /\ (k \in shifts => k \in Images)
    BY <2>1, <2>2 DEF Images
  <2>4. k \in K \/ k \in Images
    BY <1>12, <2>1, <2>3
  <2>5. k \in Images => k \in stored /\ ~Leaving(k)
    BY <2>3 DEF ImagesInv, RowsAreKept
  <2> QED
    BY <1>5, <1>6, <1>17, <2>2, <2>4, <2>5
<1>19. RowsHaveObjects' /\ CollisionHasCause'
  BY <1>18 DEF RowsAreKept, RowsHaveObjects, ImagesInv, ImagesSound, CollisionHasCause
<1>20. NoObjectForgotten'
  <2>1. \A k \in stored : Remembered(k)
    BY ForgottenMeans DEF ImagesInv, ImagesSound
  <2>2. \A k \in stored : Remembered(k)'
    <3>1. TAKE k \in stored
    <3>2. CASE k \in Images
      <4>1. k \in drops \/ k \in Images'
        BY <1>12, <3>2 DEF Images
      <4> QED
        BY <1>17, <4>1 DEF Remembered
    <3>3. CASE k \in stranded
      BY <3>3 DEF Remembered
    <3>4. CASE Leaving(k)
      BY <1>17, <3>4 DEF Remembered
    <3>5. CASE \E v \in Uploads : k \in KeysHeld(upload[v])
      <4>1. PICK v \in Uploads : k \in KeysHeld(upload[v])
        BY <3>5
      <4>2. CASE v = u
        <5>1. k \in Images'
          BY <1>3, <1>5, <1>7, <1>12, <4>1, <4>2
        <5> QED
          BY <5>1 DEF Remembered
      <4>3. CASE v # u
        BY <1>1, <4>1, <4>3 DEF Remembered
      <4> QED
        BY <4>2, <4>3
    <3> QED
      BY <2>1, <3>2, <3>3, <3>4, <3>5 DEF Remembered
  <2> QED
    BY <2>2, ForgottenMeansThen
<1>21. (\A v \in Uploads : HoldsApart(upload[v]))'
  BY <1>1, <1>8 DEF ImagesInv
<1>22. KeysAreUsed'
  <2>1. stored \subseteq usedKeys /\ Images \subseteq usedKeys /\ old \subseteq usedKeys
    BY <1>3 DEF ImagesInv, ImagesSound, ImagesTypeOK, KeysAreUsed
  <2>2. Images' \subseteq usedKeys
    BY <1>3, <1>5, <1>12, <2>1
  <2>3. \A v \in Uploads : upload'[v].keys \subseteq usedKeys
    BY <1>1, <1>3, <2>1 DEF ImagesInv, KeysAreUsed
  <2> QED
    BY <2>2, <2>3 DEF ImagesInv, KeysAreUsed
<1>23. HeldAreNew'
  <2>1. SUFFICES ASSUME NEW v \in Uploads, NEW k \in KeysHeld(upload'[v])
                 PROVE  /\ k \in stored /\ k \notin Images'
                        /\ \A c \in cleanups : k \notin c
                        /\ \A w \in Uploads : k \notin upload'[w].keys
                                              /\ (w # v => k \notin KeysHeld(upload'[w]))
    BY DEF HeldAreNew
  <2>2. v # u /\ k \in KeysHeld(upload[v])
    BY <1>1, <1>8, <2>1
  <2>3. /\ k \in stored /\ k \notin Images
        /\ \A c \in cleanups : k \notin c
        /\ \A w \in Uploads : k \notin upload[w].keys /\ (w # v => k \notin KeysHeld(upload[w]))
    BY <2>2 DEF ImagesInv, HeldAreNew
  <2>4. k \notin Images'
    BY <1>3, <1>12, <2>2, <2>3
  <2>5. \A w \in Uploads : k \notin upload'[w].keys /\ (w # v => k \notin KeysHeld(upload'[w]))
    BY <1>1, <1>8, <2>3
  <2> QED
    BY <2>3, <2>4, <2>5
<1>24. OneUploads'
  BY <1>1, <1>2 DEF ImagesInv, OneUploads
<1>25. InOrder'
  <2>1. SUFFICES ASSUME hasListing, ~gap', ~crowded PROVE InOrder'
    BY DEF InOrder
  <2>2. ~gap /\ drops = {} /\ shifts = {}
    BY <2>1
  <2>3. PICK m \in Nat :
          Numbered(m) /\ \A v \in Uploads : Uploading(v) => HeldInOrder(upload[v], m)
    BY <2>1, <2>2 DEF ImagesInv, InOrder
  <2>4. PICK n \in Nat : n = upload[u].next
    BY UploadParts
  <2>5. m <= n /\ \A i \in Nat : (\E h \in H : h[2] = i) <=> (m <= i /\ i < n)
    BY <1>2, <1>3, <2>3, <2>4 DEF HeldInOrder
  <2>6. Numbered(n)'
    <3>1. SUFFICES ASSUME NEW i \in Nat PROVE Taken(i)' <=> i < n
      BY DEF Numbered
    <3>2. Taken(i)' <=> \E k \in Keys : W[k] = i
      BY <1>11, <2>2 DEF Taken
    <3>3. (\E k \in Keys : W[k] = i) <=> Taken(i) \/ \E h \in H : h[2] = i
      <4>1. ASSUME NEW k \in Keys, W[k] = i PROVE Taken(i) \/ \E h \in H : h[2] = i
        <5>1. CASE k \in K
          <6>1. PICK h \in H : h = <<k, W[k]>>
            BY <1>4, <5>1
          <6>2. h[2] = i
            BY <4>1, <6>1
          <6> QED
            BY <6>2
        <5>2. CASE k \notin K
          BY <1>4, <4>1, <5>2 DEF Taken
        <5> QED
          BY <5>1, <5>2
      <4>2. ASSUME Taken(i) PROVE \E k \in Keys : W[k] = i
        <5>1. PICK k \in Keys : imageAt[k] = i
          BY <4>2 DEF Taken
        <5>2. k \in Images
          BY <5>1, PositionsAreNumbers DEF Images
        <5> QED
          BY <1>4, <1>6, <5>1, <5>2
      <4>3. ASSUME NEW h \in H, h[2] = i PROVE \E k \in Keys : W[k] = i
        BY <1>4, <1>5, <4>3
      <4> QED
        BY <4>1, <4>2, <4>3
    <3>4. Taken(i) <=> i < m
      BY <2>3 DEF Numbered
    <3> QED
      BY <2>5, <3>2, <3>3, <3>4
  <2>7. \A v \in Uploads : v # u => ~Uploading(v)'
    BY <1>1, <1>2, <2>1 DEF ImagesInv, OneUploads
  <2>8. Uploading(u)' => HeldInOrder(s, n)
    <3>1. SUFFICES ASSUME Uploading(u)' PROVE HeldInOrder(s, n)
      OBVIOUS
    <3>2. s.next = n
      BY <1>1, <2>4, <3>1
    <3> QED
      BY <3>2 DEF HeldInOrder
  <2>9. \A v \in Uploads : Uploading(v)' => HeldInOrder(upload'[v], n)
    BY <1>1, <2>7, <2>8
  <2> QED
    BY <2>6, <2>9 DEF InOrder
<1> QED
  BY <1>15, <1>18, <1>19, <1>20, <1>21, <1>22, <1>23, <1>24, <1>25 DEF ImagesInv, ImagesSound

\* ListingImageView.post: the row of the stored object goes in, before the next file.
LEMMA InsertImageHolds ==
  ASSUME ImagesInv, NEW u \in Uploads, InsertImage(u)
  PROVE  ImagesInv'
<1>1. PICK W : W = WithHeld(u, imageAt)
  OBVIOUS
<1>2. PICK s : s = [upload[u] EXCEPT !.step = "store", !.held = {}]
  OBVIOUS
<1>3. PICK old \in UploadStates : old = upload[u]
  BY UploadParts
<1>4. /\ s \in UploadStates /\ s.step = "store" /\ s.held = {} /\ s.next = old.next
      /\ s.keys = old.keys
  <2>1. "store" \in UploadSteps /\ {} \subseteq Keys \X Positions
    BY DEF UploadSteps
  <2> QED
    BY <1>2, <1>3, <2>1 DEF UploadStates
<1>5. /\ upload[u].step \in {"insert", "form"} /\ Fits(u) /\ imageAt' = W /\ Step(u, s)
      /\ UNCHANGED <<hasListing, stored, usedKeys, cleanups, gap, crowded, reinserted, stranded,
                     collided>>
  BY <1>1, <1>2 DEF InsertImage
<1>6. PICK drops \in SUBSET upload[u].keys, shifts \in SUBSET upload[u].keys, p \in Positions :
        drops = {} /\ shifts = {}
  BY PositionsAreNumbers
<1>7. imageAt' = [k \in Keys |-> IF k \in shifts THEN p ELSE IF k \in drops THEN NoRow ELSE W[k]]
  <2>1. W \in [Keys -> Positions \cup {NoRow}]
    BY <1>1, WithHeldMeans
  <2> QED
    BY <1>5, <1>6, <2>1
<1>8. gap' = (gap \/ drops \cup shifts # {})
      /\ reinserted' = reinserted \cup {k \in shifts : imageAt[k] = NoRow}
  BY <1>5, <1>6 DEF ImagesInv, ImagesSound, ImagesTypeOK
<1>9. /\ drops \cap shifts = {} /\ \A j, k \in shifts : j = k
      /\ shifts # {} => \A k \in Keys : k \notin drops => W[k] # p
      /\ s \in UploadStates /\ s.held = {} /\ s.keys \subseteq upload[u].keys
      /\ s.step = "store" /\ drops = {} /\ s.next = upload[u].next
  BY <1>3, <1>4, <1>6
<1>10. /\ upload[u].step \in {"insert", "form"} /\ Fits(u) /\ Step(u, s)
       /\ UNCHANGED <<hasListing, stored, usedKeys, cleanups, crowded, stranded, collided>>
  BY <1>5
<1> QED
  <2>1. RowsWritten(u, drops, shifts, p, W, s)
    BY <1>1, <1>7, <1>8, <1>9, <1>10 DEF RowsWritten
  <2> QED
    BY <1>9, <2>1, RowsIn

\* One row at most shifts.
LEMMA OneMoves ==
  ASSUME ImagesInv, NEW u \in Uploads, NEW shifts \in SUBSET upload[u].keys,
         Cardinality(shifts) <= 1
  PROVE  \A j, k \in shifts : j = k
<1>1. IsFiniteSet(shifts)
  <2>1. shifts \in SUBSET usedKeys /\ IsFiniteSet(usedKeys)
    BY DEF ImagesInv, KeysAreUsed
  <2> QED
    BY <2>1, FS_Subset
<1>2. SUFFICES ASSUME NEW j \in shifts, NEW k \in shifts, j # k PROVE FALSE
  OBVIOUS
<1>3. {j, k} \in SUBSET shifts
  OBVIOUS
<1>4. IsFiniteSet({j}) /\ Cardinality({j}) = 1
  BY FS_Singleton
<1>5. Cardinality({j} \cup {k}) = 2
  <2>1. k \notin {j}
    BY <1>2
  <2>2. Cardinality({j} \cup {k}) = Cardinality({j}) + 1
    BY <1>4, <2>1, FS_AddElement
  <2> QED
    BY <1>4, <2>2
<1>6. {j, k} = {j} \cup {k}
  OBVIOUS
<1>7. Cardinality({j, k}) <= Cardinality(shifts) /\ Cardinality(shifts) \in Nat
  BY <1>1, <1>3, FS_Subset, FS_CardinalityType
<1> QED
  BY <1>5, <1>6, <1>7

\* ListingAdmin.save_formset: rows go in, go out and move in one transaction.
LEMMA SubmitFormHolds ==
  ASSUME ImagesInv, NEW u \in Uploads, SubmitForm(u)
  PROVE  ImagesInv'
<1>1. PICK W : W = WithHeld(u, imageAt)
  OBVIOUS
<1>2. PICK drops \in SUBSET upload[u].keys, shifts \in SUBSET upload[u].keys, p \in Positions :
        LET dropped == [k \in Keys |-> IF k \in drops THEN NoRow ELSE WithHeld(u, imageAt)[k]]
        IN
        /\ drops \cap shifts = {} /\ Cardinality(shifts) <= 1
        /\ shifts # {} => \A k \in Keys : dropped[k] # p /\ imageAt[k] # p
        /\ imageAt' = [k \in Keys |-> IF k \in shifts THEN p ELSE dropped[k]]
        /\ gap' = (gap \/ drops \cup shifts # {})
        /\ reinserted' = reinserted \cup {k \in shifts : imageAt[k] = NoRow}
        /\ Step(u, IF drops = {} THEN Waiting
                   ELSE [Waiting EXCEPT !.step = "enqueue", !.keys = drops])
  BY DEF SubmitForm
<1>3. /\ drops \cap shifts = {} /\ Cardinality(shifts) <= 1
      /\ gap' = (gap \/ drops \cup shifts # {})
      /\ reinserted' = reinserted \cup {k \in shifts : imageAt[k] = NoRow}
      /\ Step(u, IF drops = {} THEN Waiting
                 ELSE [Waiting EXCEPT !.step = "enqueue", !.keys = drops])
  BY <1>2
<1>4. shifts # {} => \A k \in Keys : k \notin drops => W[k] # p
  BY <1>1, <1>2
<1>5. imageAt' = [k \in Keys |-> IF k \in shifts THEN p ELSE IF k \in drops THEN NoRow ELSE W[k]]
  <2>1. PICK dropped : dropped = [k \in Keys |-> IF k \in drops THEN NoRow ELSE W[k]]
    OBVIOUS
  <2>2. imageAt' = [k \in Keys |-> IF k \in shifts THEN p ELSE dropped[k]]
    BY <1>1, <1>2, <2>1
  <2> QED
    BY <2>1, <2>2
<1>6. \A j, k \in shifts : j = k
  BY <1>3, OneMoves
<1>7. PICK s : s = IF drops = {} THEN Waiting
                   ELSE [Waiting EXCEPT !.step = "enqueue", !.keys = drops]
  OBVIOUS
<1>8. /\ s \in UploadStates /\ s.held = {} /\ s.keys \subseteq upload[u].keys
      /\ (s.step = "idle" /\ drops = {}) \/ (s.step = "enqueue" /\ s.keys = drops)
  <2>1. Waiting = [step |-> "idle", next |-> 0, left |-> 0, held |-> {}, keys |-> {}]
    BY DEF Waiting
  <2>2. drops \subseteq Keys
    BY UploadParts
  <2>3. CASE drops = {}
    BY <1>7, <2>3, WaitingMeans
  <2>4. CASE drops # {}
    <3>1. s = [Waiting EXCEPT !.step = "enqueue", !.keys = drops]
      BY <1>7, <2>4
    <3> QED
      BY <2>1, <2>2, <3>1, PositionsAreNumbers DEF UploadStates, UploadSteps
  <2> QED
    BY <2>3, <2>4
<1>9. /\ upload[u].step \in {"insert", "form"} /\ Fits(u) /\ Step(u, s)
      /\ UNCHANGED <<hasListing, stored, usedKeys, cleanups, crowded, stranded, collided>>
  BY <1>3, <1>7 DEF SubmitForm
<1> QED
  <2>1. RowsWritten(u, drops, shifts, p, W, s)
    BY <1>1, <1>3, <1>4, <1>5, <1>6, <1>8, <1>9 DEF RowsWritten
  <2> QED
    BY <1>8, <2>1, RowsIn

\* Rows go out, their keys being on their way out or stranded.
LEMMA RowsOut ==
  ASSUME ImagesInv, NEW u \in Uploads, upload[u].step \in {"remove", "cascade"},
         NEW out \in SUBSET Keys, upload[u].keys \subseteq out,
         imageAt' = [k \in Keys |-> IF k \in out THEN NoRow ELSE imageAt[k]],
         hasListing' \in BOOLEAN, gap' \in BOOLEAN, gap' \/ ~hasListing',
         stranded \subseteq stranded', stranded' \subseteq Keys,
         Images \cap out \subseteq upload[u].keys \cup stranded',
         NEW s \in UploadStates, Step(u, s), s.held = {}, s.keys = upload[u].keys,
         s.step = "enqueue" \/ (s.step = "idle" /\ s.keys = {}),
         UNCHANGED <<stored, usedKeys, cleanups, crowded, reinserted, collided>>
  PROVE  ImagesInv'
<1>1. /\ upload' \in [Uploads -> UploadStates]
      /\ upload'[u] = s
      /\ \A v \in Uploads : v # u => upload'[v] = upload[v]
      /\ \A v \in Uploads : v # u => Uploading(v)' = Uploading(v)
      /\ Uploading(u)' <=> s.step \in {"store", "insert", "form"}
  BY OneUploadChanges DEF ImagesInv, ImagesSound
<1>2. ~Uploading(u)' /\ upload[u].step # "enqueue" /\ KeysHeld(upload[u]) = {}
  <2>1. HoldsApart(upload[u])
    BY UploadParts
  <2> QED
    BY <1>1, <2>1 DEF HoldsApart, KeysHeld
<1>3. HoldsApart(s) /\ KeysHeld(s) = {}
  BY DEF HoldsApart, KeysHeld
<1>4. \A k : k \in Images' <=> k \in Images /\ k \notin out
  BY DEF Images
<1>5. \A k \in Images' : k \in Keys /\ imageAt'[k] = imageAt[k]
  BY <1>4 DEF Images
<1>6. ImagesTypeOK'
  <2>1. imageAt' \in [Keys -> Positions \cup {NoRow}]
    BY DEF ImagesInv, ImagesSound, ImagesTypeOK
  <2>2. \A j, k \in Images' : imageAt'[j] = imageAt'[k] => j = k
    BY <1>4, <1>5 DEF ImagesInv, ImagesSound, ImagesTypeOK
  <2> QED
    BY <1>1, <2>1, <2>2 DEF ImagesInv, ImagesSound, ImagesTypeOK
<1>7. \A k : Leaving(k)' <=> Leaving(k) \/ k \in upload[u].keys
  BY <1>1, <1>2 DEF Leaving
<1>8. RowsAreKept'
  <2>1. SUFFICES ASSUME NEW k \in Images', k \notin reinserted PROVE k \in stored /\ ~Leaving(k)'
    BY DEF RowsAreKept
  <2>2. k \in Images /\ k \notin upload[u].keys
    BY <1>4, <2>1
  <2> QED
    BY <1>7, <2>1, <2>2 DEF ImagesInv, RowsAreKept
<1>9. RowsHaveObjects' /\ CollisionHasCause'
  BY <1>8 DEF RowsAreKept, RowsHaveObjects, ImagesInv, ImagesSound, CollisionHasCause
<1>10. NoObjectForgotten'
  <2>1. \A k \in stored : Remembered(k)
    BY ForgottenMeans DEF ImagesInv, ImagesSound
  <2>2. \A k \in stored : Remembered(k)'
    BY <1>1, <1>2, <1>4, <1>7, <2>1 DEF Remembered
  <2> QED
    BY <2>2, ForgottenMeansThen
<1>11. (\A v \in Uploads : HoldsApart(upload[v]))'
  BY <1>1, <1>3 DEF ImagesInv
<1>12. \A v \in Uploads : upload'[v].keys = upload[v].keys
  BY <1>1
<1>13. KeysAreUsed'
  BY <1>4, <1>12 DEF ImagesInv, KeysAreUsed
<1>14. HeldAreNew'
  BY <1>1, <1>3, <1>4, <1>12 DEF ImagesInv, HeldAreNew
<1>15. OneUploads'
  BY <1>1, <1>2 DEF ImagesInv, OneUploads
<1>16. InOrder'
  BY DEF InOrder
<1> QED
  BY <1>6, <1>8, <1>9, <1>10, <1>11, <1>13, <1>14, <1>15, <1>16 DEF ImagesInv, ImagesSound

\* ListingImageDetailView.delete: the row goes, its key is to be cleaned up.
LEMMA RemoveImageHolds ==
  ASSUME ImagesInv, NEW u \in Uploads, RemoveImage(u)
  PROVE  ImagesInv'
<1>1. PICK out : out = upload[u].keys
  OBVIOUS
<1>2. PICK s : s = [upload[u] EXCEPT !.step = "enqueue"]
  OBVIOUS
<1>3. PICK old \in UploadStates : old = upload[u]
  BY UploadParts
<1>4. s \in UploadStates /\ s.step = "enqueue" /\ s.held = old.held /\ s.keys = old.keys
  <2>1. "enqueue" \in UploadSteps
    BY DEF UploadSteps
  <2> QED
    BY <1>2, <1>3, <2>1 DEF UploadStates
<1>5. upload[u].step = "remove" /\ old.held = {} /\ out \in SUBSET Keys
  <2>1. HoldsApart(upload[u]) /\ upload[u].keys \subseteq Keys /\ upload[u].step = "remove"
    BY UploadParts DEF RemoveImage
  <2> QED
    BY <1>1, <1>3, <2>1 DEF HoldsApart
<1>6. /\ imageAt' = [k \in Keys |-> IF k \in out THEN NoRow ELSE imageAt[k]]
      /\ gap' = TRUE /\ Step(u, s)
      /\ UNCHANGED <<hasListing, stored, usedKeys, cleanups, crowded, reinserted, stranded,
                     collided>>
  BY <1>1, <1>2 DEF RemoveImage
<1>7. hasListing' \in BOOLEAN /\ stranded' \subseteq Keys
  BY <1>6 DEF ImagesInv, ImagesSound, ImagesTypeOK
<1> QED
  BY <1>1, <1>3, <1>4, <1>5, <1>6, <1>7, RowsOut

\* The listing is deleted with all of its rows.
LEMMA RemoveListingHolds ==
  ASSUME ImagesInv, NEW u \in Uploads, RemoveListing(u)
  PROVE  ImagesInv'
<1>1. PICK old \in UploadStates : old = upload[u]
  BY UploadParts
<1>2. PICK s : s = IF old.keys = {} THEN Waiting ELSE [old EXCEPT !.step = "enqueue"]
  OBVIOUS
<1>3. upload[u].step = "cascade" /\ old.held = {} /\ old.keys \subseteq Keys
  <2>1. HoldsApart(upload[u]) /\ upload[u].keys \subseteq Keys /\ upload[u].step = "cascade"
    BY UploadParts DEF RemoveListing
  <2> QED
    BY <1>1, <2>1 DEF HoldsApart
<1>4. /\ s \in UploadStates /\ s.held = {} /\ s.keys = old.keys
      /\ s.step = "enqueue" \/ (s.step = "idle" /\ s.keys = {})
  <2>1. CASE old.keys = {}
    BY <1>2, <2>1, WaitingMeans
  <2>2. CASE old.keys # {}
    <3>1. "enqueue" \in UploadSteps
      BY DEF UploadSteps
    <3> QED
      BY <1>2, <1>3, <2>2, <3>1 DEF UploadStates
  <2> QED
    BY <2>1, <2>2
<1>5. /\ imageAt' = [k \in Keys |-> NoRow] /\ hasListing' = FALSE
      /\ stranded' = stranded \cup (Images \ old.keys) /\ Step(u, s)
      /\ UNCHANGED <<stored, usedKeys, cleanups, gap, crowded, reinserted, collided>>
  BY <1>1, <1>2 DEF RemoveListing
<1>6. imageAt' = [k \in Keys |-> IF k \in Keys THEN NoRow ELSE imageAt[k]]
  BY <1>5
<1>7. gap' \in BOOLEAN /\ hasListing' \in BOOLEAN /\ stranded' \subseteq Keys
  BY <1>5 DEF ImagesInv, ImagesSound, ImagesTypeOK, Images
<1> QED
  BY <1>1, <1>3, <1>4, <1>5, <1>6, <1>7, RowsOut

\* A task removes some of its objects, and is done or given up with what is left of it told as
\* stranded.
LEMMA ObjectsGo ==
  ASSUME ImagesInv, NEW c \in cleanups, NEW done \in SUBSET c,
         stored' = stored \ done,
         \/ cleanups' = cleanups
         \/ cleanups' = cleanups \ {c} /\ (done = c \/ c \subseteq stranded'),
         stranded \subseteq stranded', stranded' \subseteq Keys,
         UNCHANGED <<hasListing, imageAt, usedKeys, upload, gap, crowded, reinserted, collided>>
  PROVE  ImagesInv'
<1>1. /\ Images' = Images /\ (\A i : Taken(i)' = Taken(i))
      /\ \A v \in Uploads : Uploading(v)' = Uploading(v)
  BY DEF Images, Taken, Uploading
<1>2. cleanups' \subseteq cleanups
  OBVIOUS
<1>3. ImagesTypeOK'
  BY <1>1, <1>2 DEF ImagesInv, ImagesSound, ImagesTypeOK
<1>4. \A k : Leaving(k)' => Leaving(k)
  BY <1>2 DEF Leaving
<1>5. \A k \in done : Leaving(k)
  BY DEF Leaving
<1>6. RowsAreKept'
  BY <1>1, <1>4, <1>5 DEF ImagesInv, RowsAreKept
<1>7. RowsHaveObjects' /\ CollisionHasCause'
  BY <1>6 DEF RowsAreKept, RowsHaveObjects, ImagesInv, ImagesSound, CollisionHasCause
<1>8. NoObjectForgotten'
  <2>1. \A k \in stored : Remembered(k)
    BY ForgottenMeans DEF ImagesInv, ImagesSound
  <2>2. \A k \in stored' : Leaving(k) => Leaving(k)' \/ k \in stranded'
    BY DEF Leaving
  <2>3. \A k \in stored' : Remembered(k)'
    BY <1>1, <2>1, <2>2 DEF Remembered
  <2> QED
    BY <2>3, ForgottenMeansThen
<1>9. (\A v \in Uploads : HoldsApart(upload[v]))'
  BY DEF ImagesInv
<1>10. KeysAreUsed'
  BY <1>1, <1>2 DEF ImagesInv, KeysAreUsed
<1>11. HeldAreNew'
  <2>1. \A v \in Uploads : \A k \in KeysHeld(upload[v]) : k \notin done
    BY DEF ImagesInv, HeldAreNew
  <2> QED
    BY <1>1, <1>2, <2>1 DEF ImagesInv, HeldAreNew
<1>12. OneUploads'
  BY <1>1 DEF ImagesInv, OneUploads
<1>13. InOrder'
  <2>1. \A m \in Nat : Numbered(m)' = Numbered(m)
    BY <1>1 DEF Numbered
  <2> QED
    BY <1>1, <2>1 DEF ImagesInv, InOrder
<1> QED
  BY <1>3, <1>6, <1>7, <1>8, <1>9, <1>10, <1>11, <1>12, <1>13 DEF ImagesInv, ImagesSound

\* delete_image_objects: a task removes the objects of the keys it was given.
LEMMA CleanupHolds ==
  ASSUME ImagesInv, NEW c \in cleanups, RunCleanup(c) \/ FailCleanup(c)
  PROVE  ImagesInv'
<1>1. c \subseteq Keys /\ stranded \subseteq Keys
  BY DEF ImagesInv, ImagesSound, ImagesTypeOK
<1>2. CASE RunCleanup(c)
  <2>1. /\ stored' = stored \ c /\ cleanups' = cleanups \ {c}
        /\ UNCHANGED <<hasListing, imageAt, usedKeys, upload, gap, crowded, reinserted, stranded,
                       collided>>
    BY <1>2 DEF RunCleanup
  <2>2. c \in SUBSET c
    OBVIOUS
  <2> QED
    BY <1>1, <2>1, <2>2, ObjectsGo
<1>3. CASE FailCleanup(c)
  <2>1. PICK done \in SUBSET c : stored' = stored \ done
    BY <1>3 DEF FailCleanup
  <2>2. UNCHANGED <<hasListing, imageAt, usedKeys, upload, gap, crowded, reinserted, collided>>
    BY <1>3 DEF FailCleanup
  <2>3. CASE UNCHANGED <<cleanups, stranded>>
    BY <1>1, <2>1, <2>2, <2>3, ObjectsGo
  <2>4. CASE cleanups' = cleanups \ {c} /\ stranded' = stranded \cup c
    BY <1>1, <2>1, <2>2, <2>4, ObjectsGo
  <2> QED
    BY <1>3, <2>3, <2>4 DEF FailCleanup
<1> QED
  BY <1>2, <1>3

\* At first there are no images and nobody works on them.
LEMMA ImagesStart ==
  ASSUME ImagesInit
  PROVE  ImagesInv
<1>1. /\ upload \in [Uploads -> UploadStates]
      /\ \A u \in Uploads : upload[u] = Waiting /\ ~Uploading(u)
  BY WaitingMeans DEF ImagesInit, Uploading
<1>2. Images = {} /\ \A i \in Nat : ~Taken(i)
  BY PositionsAreNumbers DEF ImagesInit, Images, Taken
<1>3. imageAt \in [Keys -> Positions \cup {NoRow}]
  BY DEF ImagesInit
<1>4. ImagesTypeOK
  BY <1>1, <1>2, <1>3 DEF ImagesInit, ImagesTypeOK
<1>5. RowsHaveObjects /\ NoObjectForgotten /\ CollisionHasCause /\ RowsAreKept
  BY <1>2 DEF ImagesInit, RowsHaveObjects, NoObjectForgotten, CollisionHasCause, RowsAreKept
<1>6. \A u \in Uploads : HoldsApart(upload[u])
  BY <1>1, WaitingMeans
<1>7. KeysAreUsed
  BY <1>1, <1>2, WaitingMeans, FS_EmptySet DEF ImagesInit, KeysAreUsed
<1>8. HeldAreNew /\ OneUploads
  BY <1>1, WaitingMeans DEF HeldAreNew, OneUploads
<1>9. InOrder
  <2>1. Numbered(0)
    BY <1>2 DEF Numbered
  <2> QED
    BY <1>1, <2>1 DEF InOrder
<1> QED
  BY <1>4, <1>5, <1>6, <1>7, <1>8, <1>9 DEF ImagesInv, ImagesSound

\* ListingImages keeps its word: for any number of requests, keys, files and positions, rows have
\* their objects, no object is forgotten, and a position collides only for a reason.
THEOREM ImagesKeepTheirWord == ImagesSpec => []ImagesSound
<1>1. ImagesInit => ImagesInv
  BY ImagesStart
<1>2. ImagesInv /\ [ImagesNext]_imagesVars => ImagesInv'
  <2>1. ASSUME ImagesInv, ImagesNext PROVE ImagesInv'
    <3>1. CASE \E u \in Uploads, s \in {"store", "form"} : StartUpload(u, s)
      BY <2>1, <3>1, StartUploadHolds
    <3>2. CASE \E u \in Uploads : StoreObject(u)
      BY <2>1, <3>2, StoreObjectHolds
    <3>3. CASE \E u \in Uploads : InsertImage(u)
      BY <2>1, <3>3, InsertImageHolds
    <3>4. CASE \E u \in Uploads : SubmitForm(u)
      BY <2>1, <3>4, SubmitFormHolds
    <3>5. CASE \E u \in Uploads : InsertRefused(u) \/ RollBackForm(u) \/ FinishUpload(u)
                                  \/ UploadDies(u) \/ EnqueueCleanup(u)
      BY <2>1, <3>5, RequestEndsHolds
    <3>6. CASE \E u \in Uploads : StartRemoveImage(u) \/ StartRemoveListing(u)
      BY <2>1, <3>6, StartRemoveHolds
    <3>7. CASE \E u \in Uploads : RemoveImage(u)
      BY <2>1, <3>7, RemoveImageHolds
    <3>8. CASE \E u \in Uploads : RemoveListing(u)
      BY <2>1, <3>8, RemoveListingHolds
    <3>9. CASE \E c \in cleanups : RunCleanup(c) \/ FailCleanup(c)
      BY <2>1, <3>9, CleanupHolds
    <3> QED
      BY <2>1, <3>1, <3>2, <3>3, <3>4, <3>5, <3>6, <3>7, <3>8, <3>9 DEF ImagesNext
  <2>2. ASSUME ImagesInv, UNCHANGED imagesVars PROVE ImagesInv'
    <3>1. UNCHANGED <<hasListing, imageAt, stored, usedKeys, upload, cleanups, gap, crowded,
                      reinserted, stranded, collided>>
      BY <2>2 DEF imagesVars
    <3>2. /\ Images' = Images /\ (\A i : Taken(i)' = Taken(i)) /\ (\A k : Leaving(k)' = Leaving(k))
          /\ \A u \in Uploads : Uploading(u)' = Uploading(u) /\ HeldKeys(u)' = HeldKeys(u)
      BY <3>1 DEF Images, Taken, Leaving, Uploading, HeldKeys
    <3>3. ImagesTypeOK' /\ RowsHaveObjects' /\ NoObjectForgotten' /\ CollisionHasCause'
      BY <2>2, <3>1, <3>2 DEF ImagesInv, ImagesSound, ImagesTypeOK, RowsHaveObjects,
         NoObjectForgotten, CollisionHasCause
    <3>4. (\A u \in Uploads : HoldsApart(upload[u]))' /\ KeysAreUsed' /\ HeldAreNew'
          /\ RowsAreKept' /\ OneUploads'
      BY <2>2, <3>1, <3>2 DEF ImagesInv, KeysAreUsed, HeldAreNew, RowsAreKept, OneUploads
    <3>5. \A m \in Nat : Numbered(m)' = Numbered(m)
      BY <3>2 DEF Numbered
    <3>6. InOrder'
      BY <2>2, <3>1, <3>2, <3>5 DEF ImagesInv, InOrder
    <3> QED
      BY <3>3, <3>4, <3>6 DEF ImagesInv, ImagesSound
  <2> QED
    BY <2>1, <2>2
<1>3. ImagesInv => ImagesSound
  BY DEF ImagesInv
<1> QED
  BY <1>1, <1>2, <1>3, PTL DEF ImagesSpec

(***************************************************************************)
(* The specification of the run.                                           *)
(***************************************************************************)

\* A step of the run is a step of each component, or leaves it as it is.
LEMMA PartsInTurn ==
  ASSUME [CatalogueNext]_CatalogueVars
  PROVE  /\ [FormsNext]_formsVars
         /\ [ContactsNext]_contactsVars
         /\ [SubscriptionsNext]_subscriptionsVars
         /\ [ClientsNext]_clientsVars
         /\ [DisclosureNext]_disclosureVars
         /\ [SeedingNext]_seedingVars
         /\ [TaggingNext]_taggingVars
         /\ [BrowsingNext]_browsingVars
         /\ [DistancesNext]_distancesVars
         /\ [ImagesNext]_imagesVars
<1>1. CASE CatalogueNext
  BY <1>1 DEF CatalogueNext, Disclosing, DisclosureNext, DistancesNext
<1>2. CASE UNCHANGED CatalogueVars
  BY <1>2 DEF CatalogueVars
<1> QED
  BY <1>1, <1>2

\* ListingForms and ListingContacts: what the run checks of a listing's columns and contacts
\* holds for any clock, limit and number of requests.
THEOREM ListingWritesKept == CatalogueSpec => []ListingWritesSound
<1>1. CatalogueInit => FormsInit /\ ContactsInit
  BY DEF CatalogueInit
<1>2. [CatalogueNext]_CatalogueVars => [FormsNext]_formsVars /\ [ContactsNext]_contactsVars
  BY PartsInTurn
<1>3. FormsSound /\ ContactsSound => ListingWritesSound
  BY DEF ListingWritesSound
<1>4. CatalogueSpec => FormsSpec /\ ContactsSpec
  BY <1>1, <1>2, PTL DEF CatalogueSpec, FormsSpec, ContactsSpec
<1> QED
  BY <1>3, <1>4, FormsKeepTheirWord, ContactsKeepTheirWord, PTL

\* Disclosure: what the run checks of pages, bookings and inquiries holds for any number of
\* hosts and editions, with the billing gate and without.
THEOREM PrivacyKept == CatalogueSpec => []PrivacySound
<1>1. CatalogueInit => DisclosureInit
  BY DEF CatalogueInit
<1>2. [CatalogueNext]_CatalogueVars => [DisclosureNext]_disclosureVars
  BY PartsInTurn
<1>3. DisclosureSound => PrivacySound
  BY DEF PrivacySound
<1> QED
  BY <1>1, <1>2, <1>3, DisclosureKeepsItsWord, PTL DEF CatalogueSpec, DisclosureSpec

\* Seeding: what the run checks of seeded listings holds for any number of runs, listings and
\* images.
THEOREM SeedsKept == CatalogueSpec => []SeedsSound
<1>1. CatalogueInit => SeedingInit
  BY DEF CatalogueInit
<1>2. [CatalogueNext]_CatalogueVars => [SeedingNext]_seedingVars
  BY PartsInTurn
<1>3. SeedingSound => SeedsSound
  BY DEF SeedsSound
<1> QED
  BY <1>1, <1>2, <1>3, SeedingKeepsItsWord, PTL DEF CatalogueSpec, SeedingSpec

\* Tagging: what the run checks of the search by tags holds for any number of runs, insertions
\* and changes by hand.
THEOREM TagSearchKept == CatalogueSpec => []TagSearchSound
<1>1. CatalogueInit => TaggingInit
  BY DEF CatalogueInit
<1>2. [CatalogueNext]_CatalogueVars => [TaggingNext]_taggingVars
  BY PartsInTurn
<1>3. TaggingSound => TagSearchSound
  BY DEF TagSearchSound
<1> QED
  BY <1>1, <1>2, <1>3, TaggingKeepsItsWord, PTL DEF CatalogueSpec, TaggingSpec

\* Browsing and Distances: what the run checks of a search by pages and by distance holds for
\* any number of rows, requests, points and changes.
THEOREM SearchKept == CatalogueSpec => []SearchSound
<1>1. CatalogueInit => BrowsingInit /\ DistancesInit
  BY DEF CatalogueInit
<1>2. [CatalogueNext]_CatalogueVars => [BrowsingNext]_browsingVars /\ [DistancesNext]_distancesVars
  BY PartsInTurn
<1>3. BrowsingSound /\ DistancesSound => SearchSound
  BY DEF SearchSound
<1>4. CatalogueSpec => BrowsingSpec /\ DistancesSpec
  BY <1>1, <1>2, PTL DEF CatalogueSpec, BrowsingSpec, DistancesSpec
<1> QED
  BY <1>3, <1>4, BrowsingKeepsItsWord, DistancesKeepTheirWord, PTL

\* ListingImages: what the run checks of images, objects and cleanups holds for any number of
\* requests, keys, files and positions.
THEOREM UploadsKept == CatalogueSpec => []UploadsSound
<1>1. CatalogueInit => ImagesInit
  BY DEF CatalogueInit
<1>2. [CatalogueNext]_CatalogueVars => [ImagesNext]_imagesVars
  BY PartsInTurn
<1>3. ImagesSound => UploadsSound
  BY DEF UploadsSound
<1> QED
  BY <1>1, <1>2, <1>3, ImagesKeepTheirWord, PTL DEF CatalogueSpec, ImagesSpec
===============================================================================
