---------------------------- MODULE ListingForms ----------------------------
(***************************************************************************)
(* The rules that tie the columns of a listing together, kept by forms and *)
(* not by the database: the provider's serializer with its partial updates *)
(* (apps/providers/serializers.py) and the admin's form                    *)
(* (apps/catalog/admin.py).  Every write validates and saves one copy of   *)
(* the row whole, so a row is always the outcome of writes one after the   *)
(* other, also when requests overlap.                                      *)
(***************************************************************************)
EXTENDS Integers

CONSTANTS
  FormsByHand,   \* the admin site is used
  MaxClock       \* bound: hours the clock runs

ASSUME FormsAssumption == FormsByHand \in BOOLEAN /\ MaxClock \in Nat

VARIABLES
  form,          \* the row, or NoForm
  clock,
  byHand,        \* history: the admin's form has written the row
  recategorised  \* history: a PATCH made a masterclass of it

formsVars == <<form, clock, byHand, recategorised>>

\* url: meeting_url is given; place: neighborhood is given; starts: 0 without starts_at.
Categories == {"MASTERCLASSES", "SCHOOLS"}
Dates == 0..MaxClock + 1
Forms == [category: Categories, online: BOOLEAN, url: BOOLEAN, place: BOOLEAN,
          type: {"ONGOING", "ONE_TIME"}, starts: Dates]
Fields == {"category", "online", "url", "place", "type", "starts"}
NoForm == [category |-> "none", online |-> FALSE, url |-> FALSE, place |-> FALSE,
           type |-> "ONGOING", starts |-> 0]

FormsInit == form = NoForm /\ clock = 0 /\ byHand = FALSE /\ recategorised = FALSE

(***************************************************************************)
(* ProviderListingSerializer: sent are the submitted fields, merged the    *)
(* row with them.                                                          *)
(***************************************************************************)
MayUse(role, sent, merged) ==
  "category" \in sent /\ role = "MASTERCLASS" => merged.category = "MASTERCLASSES"

Touches(partial, sent, fields) == ~partial \/ sent \cap fields # {}

OnlineChecked(partial, sent, merged) ==
  Touches(partial, sent, {"online", "url"}) /\ merged.online => merged.url

PlaceChecked(partial, sent, merged) ==
  Touches(partial, sent, {"online", "place"}) /\ ~merged.online => merged.place

DateChecked(partial, sent, merged) ==
  Touches(partial, sent, {"category", "type", "starts"}) => merged.starts > clock

\* What every other category is reset to.
Plain(merged) == [merged EXCEPT !.online = FALSE, !.url = FALSE, !.type = "ONGOING", !.starts = 0]

Submit(partial, sent, merged) ==
  /\ \E role \in {"MASTERCLASS", "MANAGER"} : MayUse(role, sent, merged)
  /\ \/ merged.category # "MASTERCLASSES" /\ form' = Plain(merged)
     \/ /\ merged.category = "MASTERCLASSES"
        /\ OnlineChecked(partial, sent, merged)
        /\ PlaceChecked(partial, sent, merged)
        /\ DateChecked(partial, sent, merged)
        /\ form' = merged

CreateForm ==
  /\ form = NoForm
  /\ \E new \in Forms : Submit(FALSE, Fields, new)
  /\ UNCHANGED <<clock, byHand, recategorised>>

PatchForm ==
  /\ form # NoForm
  /\ \E merged \in Forms : \E unsent \in SUBSET {f \in Fields : merged[f] = form[f]} :
       Submit(TRUE, Fields \ unsent, merged)
  /\ recategorised' = (recategorised \/ form.category # form'.category)
  /\ UNCHANGED <<clock, byHand>>

\* ListingAdminForm: clean resets the fields of other categories, but is_online and
\* meeting_url are in no fieldset and keep their values.
SubmitByHand ==
  /\ FormsByHand
  /\ \E new \in Forms :
       LET kept == [new EXCEPT !.online = form.online, !.url = form.url]
       IN form' = IF new.category = "MASTERCLASSES" THEN kept
                  ELSE [kept EXCEPT !.type = "ONGOING", !.starts = 0]
  /\ byHand' = TRUE
  /\ UNCHANGED <<clock, recategorised>>

ClockTicks ==
  /\ clock < MaxClock
  /\ clock' = clock + 1
  /\ UNCHANGED <<form, byHand, recategorised>>

FormsNext == CreateForm \/ PatchForm \/ SubmitByHand \/ ClockTicks

FormsSpec == FormsInit /\ [][FormsNext]_formsVars

(***************************************************************************)
(* Properties.                                                             *)
(***************************************************************************)
\* The row is well-formed.
FormsTypeOK ==
  /\ form \in Forms \cup {NoForm}
  /\ clock \in 0..MaxClock
  /\ byHand \in BOOLEAN /\ recategorised \in BOOLEAN

\* An online listing has a meeting link, whatever partial updates, changes of category and
\* admin's forms it has been through: the serializer checks the pair when either is sent.
OnlineHasUrl == form.online => form.url

\* Only masterclasses carry a date, so the expiry of events (services.py) drafts nothing else.
OnlyMasterclassesDated ==
  form.category # "MASTERCLASSES" => form.type = "ONGOING" /\ form.starts = 0

\* A masterclass without a date comes from the admin's form: the serializer asks for one also
\* when only the category is sent.
UndatedOnlyByHand == form.category = "MASTERCLASSES" /\ form.starts = 0 => byHand

\* An offline masterclass without a neighborhood comes from the admin's form or from a PATCH
\* that changed the category without the field.
PlacelessHasCause ==
  form.category = "MASTERCLASSES" /\ ~form.online /\ ~form.place => byHand \/ recategorised

\* The columns of a listing fit together, however many partial updates it has been through.
FormsSound ==
  /\ FormsTypeOK
  /\ OnlineHasUrl
  /\ OnlyMasterclassesDated
  /\ UndatedOnlyByHand
  /\ PlacelessHasCause
=============================================================================
