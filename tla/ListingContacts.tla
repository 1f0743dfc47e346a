--------------------------- MODULE ListingContacts ---------------------------
(***************************************************************************)
(* The contacts of one listing, replaced as a whole by every PATCH that    *)
(* sends them (apps/providers/serializers.py): the transaction saves the   *)
(* listing, which locks its row, then deletes all contacts it sees and     *)
(* inserts the new ones.  The admin's form saves the listing first as well.*)
(***************************************************************************)
EXTENDS Integers, FiniteSets

CONSTANTS
  Patches,         \* requests that can be under way at the same time
  ContactNames,    \* what validate_contacts takes for the same contact: type and folded value
  MaxContacts      \* 20 in the code

ASSUME ContactsAssumption == MaxContacts \in Nat /\ "nobody" \notin Patches

VARIABLES
  contacts,        \* the committed rows
  patching,        \* [Patches -> the open transaction]
  lockedBy,        \* the transaction that holds the listing's row, or "nobody"
  lastSent,        \* history: the list of the last transaction that committed
  typed            \* history: the admin's form has added a row

contactsVars == <<contacts, patching, lockedBy, lastSent, typed>>

\* Two spellings of a value differ for the unique constraint, not for the serializer.
ContactRows == ContactNames \X {"plain", "capitals"}
SameContact(c, d) == c[1] = d[1]
PatchSteps == {"idle", "save", "clear", "insert"}
PatchStates == [step: PatchSteps, sent: SUBSET ContactRows, cleared: SUBSET ContactRows]
NoPatch == [step |-> "idle", sent |-> {}, cleared |-> {}]

ContactsInit ==
  /\ contacts = {} /\ lastSent = {} /\ typed = FALSE
  /\ patching = [p \in Patches |-> NoPatch]
  /\ lockedBy = "nobody"

\* validate_contacts, after every value was stripped and checked on its own.
Acceptable(list) ==
  /\ Cardinality(list) <= MaxContacts
  /\ \A c, d \in list : SameContact(c, d) => c = d

Patching(p, state) == patching' = [patching EXCEPT ![p] = state]

SendContacts(p) ==
  /\ patching[p].step = "idle"
  /\ \E list \in SUBSET ContactRows :
       Acceptable(list) /\ Patching(p, [NoPatch EXCEPT !.step = "save", !.sent = list])
  /\ UNCHANGED <<contacts, lockedBy, lastSent, typed>>

\* Mutation: the listing is not saved when only contacts are sent.
SaveListingUnlocked(p) ==
  /\ patching[p].step = "save"
  /\ Patching(p, [patching[p] EXCEPT !.step = "clear"])
  /\ UNCHANGED <<contacts, lockedBy, lastSent, typed>>

SaveListing(p) ==
  /\ patching[p].step = "save"
  /\ lockedBy = "nobody"
  /\ lockedBy' = p
  /\ Patching(p, [patching[p] EXCEPT !.step = "clear"])
  /\ UNCHANGED <<contacts, lastSent, typed>>

\* The delete sees what is committed now.
ClearContacts(p) ==
  /\ patching[p].step = "clear"
  /\ Patching(p, [patching[p] EXCEPT !.step = "insert", !.cleared = contacts])
  /\ UNCHANGED <<contacts, lockedBy, lastSent, typed>>

Unlocked(p) == IF lockedBy = p THEN "nobody" ELSE lockedBy

\* bulk_create and the commit.
InsertContacts(p) ==
  /\ patching[p].step = "insert"
  /\ contacts' = (contacts \ patching[p].cleared) \cup patching[p].sent
  /\ lastSent' = patching[p].sent
  /\ lockedBy' = Unlocked(p)
  /\ Patching(p, NoPatch)
  /\ typed' = FALSE

\* Any failure rolls all of it back.
RollBackContacts(p) ==
  /\ patching[p].step # "idle"
  /\ lockedBy' = Unlocked(p)
  /\ Patching(p, NoPatch)
  /\ UNCHANGED <<contacts, lastSent, typed>>

\* The inline of the admin site adds and removes single rows, under the row lock of the
\* listing it saved first, and checks each value but not the list.
TypeContact ==
  /\ lockedBy = "nobody"
  /\ \E c \in ContactRows :
       contacts' \in {contacts \cup {c}, contacts \ {c}}
  /\ typed' = TRUE
  /\ UNCHANGED <<patching, lockedBy, lastSent>>

ContactsNext ==
  \/ \E p \in Patches : SendContacts(p) \/ SaveListing(p) \/ ClearContacts(p) \/ InsertContacts(p)
                       \/ RollBackContacts(p)
  \/ TypeContact

ContactsSpec == ContactsInit /\ [][ContactsNext]_contactsVars

(***************************************************************************)
(* Properties.                                                             *)
(***************************************************************************)
\* Rows, transactions and the lock are well-formed, and who holds the lock is at work.
ContactsTypeOK ==
  /\ contacts \subseteq ContactRows /\ lastSent \subseteq ContactRows
  /\ patching \in [Patches -> PatchStates]
  /\ lockedBy \in Patches \cup {"nobody"} /\ typed \in BOOLEAN
  /\ \A p \in Patches : lockedBy = p <=> patching[p].step \in {"clear", "insert"}

\* Concurrent PATCHes never mix their lists: the stored contacts are those of the request that
\* committed last, because the listing's row is locked before the old contacts are read.
ContactsOfLastPatch == ~typed => contacts = lastSent

\* Contacts stay within their limit, and one contact is listed once, however its value is
\* spelled and whatever requests overlap (validate_contacts), unless it was typed in the
\* admin site.
ContactsDistinct ==
  ~typed => /\ Cardinality(contacts) <= MaxContacts
            /\ \A c, d \in contacts : c[1] = d[1] => c = d

\* The stored contacts are always one valid list that was sent.
ContactsSound ==
  /\ ContactsTypeOK
  /\ ContactsOfLastPatch
  /\ ContactsDistinct
=============================================================================
