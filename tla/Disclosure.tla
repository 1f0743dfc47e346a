----------------------------- MODULE Disclosure -----------------------------
(***************************************************************************)
(* Who is shown what (the serializers and querysets of apps/inquiries,     *)
(* apps/subscriptions and apps/catalog): the contact of one family, and    *)
(* one masterclass whose editions are public, or private to its owner.     *)
(* The owner changes in the admin's form, roles are granted and revoked,   *)
(* bookings keep a snapshot of the provider, and a page is read in         *)
(* several statements.                                                     *)
(***************************************************************************)
EXTENDS Integers

CONSTANTS
  Hosts,          \* accounts that may own the listing
  MaxEditions,    \* bound: editions of the listing
  BillingGate     \* BILLING_GATE_ENABLED

ASSUME DisclosureAssumption ==
  /\ MaxEditions \in Nat \ {0} /\ BillingGate \in BOOLEAN
  /\ Hosts \cap {"nobody", "family", "tutor", "visitor"} = {}

VARIABLES
  host,           \* owner of the listing, or NoHost
  trusted,        \* hosts with the role MASTERCLASS
  edition,        \* content of the listing and its contacts
  isPublic,       \* the listing is ACTIVE
  published,      \* history: editions that have been public
  bookedWith,     \* providers in the family's subscriptions
  confirmed,      \* one of them is CONFIRMED
  enrolled,       \* the family has a ListingClient row
  inquiry,        \* the family's latest inquiry to one tutor
  revealed,       \* contact_revealed of one of its inquiries
  revealing,      \* the accepting request is about to save contact_revealed
  page,           \* a page of the listing between its first and its last statement
  shown,          \* what the last response has shown to whom
  turned          \* history: whom the family has turned to, how, and how it was passed on

offerVars == <<host, trusted, edition, isPublic, published>>
bookingVars == <<bookedWith, confirmed, enrolled>>
inquiryVars == <<inquiry, revealed, revealing>>
disclosureVars == <<offerVars, bookingVars, inquiryVars, page, shown, turned>>

NoHost == "nobody"
Family == "family"
Tutor == "tutor"
Visitor == "visitor"
Readers == Hosts \cup {Family, Tutor, Visitor}
Editions == 1..MaxEditions

InquiryStages == {"none", "PENDING", "ACCEPTED", "closed"}
NoPage == [reader |-> NoHost, row |-> 0, passed |-> FALSE]
Pages == [reader: Hosts \cup {Visitor, NoHost}, row: Editions \cup {0}, passed: BOOLEAN]
Facts == {"nothing", "contact", "name", "private", "card", "page"}
Shown == [to: Readers \cup {NoHost}, what: Facts, row: Editions \cup {0}, contacts: Editions \cup {0}, passed: BOOLEAN]
Nothing == [to |-> NoHost, what |-> "nothing", row |-> 0, contacts |-> 0, passed |-> FALSE]
Turns == {"booked", "enrolled", "inherited", "accepted", "owned"}

DisclosureInit ==
  /\ host \in Hosts /\ trusted = {host}
  /\ edition = 1 /\ isPublic = FALSE /\ published = {}
  /\ bookedWith = {} /\ confirmed = FALSE /\ enrolled = FALSE
  /\ inquiry = "none" /\ revealed = FALSE /\ revealing = FALSE
  /\ page = NoPage /\ shown = Nothing
  /\ turned = {<<"owned", host>>}

Show(to, what, row) == shown' = [Nothing EXCEPT !.to = to, !.what = what, !.row = row]

(***************************************************************************)
(* The listing.                                                            *)
(***************************************************************************)
\* perform_update: a new edition is a draft or waits for approval; row and contacts commit together.
NewEdition(h) ==
  /\ h = host /\ h \in trusted
  /\ edition < MaxEditions
  /\ edition' = edition + 1 /\ isPublic' = FALSE
  /\ page' = IF page = NoPage THEN page ELSE [page EXCEPT !.passed = TRUE]
  /\ shown' = Nothing
  /\ UNCHANGED <<host, trusted, published, bookingVars, inquiryVars, turned>>

\* Moderators approve, reject and draft what is there.
Moderate(active) ==
  /\ isPublic # active
  /\ isPublic' = active
  /\ published' = IF active THEN published \cup {edition} ELSE published
  /\ shown' = Nothing
  /\ UNCHANGED <<host, trusted, edition, bookingVars, inquiryVars, page, turned>>

\* The owner is a field of the admin's form, and it may be empty.
ChangeHost(h) ==
  /\ h # host
  /\ host' = h
  /\ shown' = Nothing
  /\ turned' = turned \cup (IF h = NoHost THEN {} ELSE {<<"owned", h>>})
                      \cup (IF enrolled /\ h # NoHost THEN {<<"inherited", h>>} ELSE {})
  /\ UNCHANGED <<trusted, edition, isPublic, published, bookingVars, inquiryVars, page>>

\* A verification is decided; managers hold the role as well.
ChangeTrust(h) ==
  /\ trusted' = IF h \in trusted THEN trusted \ {h} ELSE trusted \cup {h}
  /\ shown' = Nothing
  /\ UNCHANGED <<host, edition, isPublic, published, bookingVars, inquiryVars, page, turned>>

(***************************************************************************)
(* A page of the listing: the row, then its contacts.                      *)
(***************************************************************************)
\* ListingViewSet shows what is ACTIVE, ProviderListingViewSet what the caller owns.
MayLoad(r) == IF r = Visitor THEN isPublic ELSE r = host /\ r \in trusted

LoadPage(r) ==
  /\ page = NoPage /\ MayLoad(r)
  /\ page' = [reader |-> r, row |-> edition, passed |-> FALSE]
  /\ shown' = Nothing
  /\ UNCHANGED <<offerVars, bookingVars, inquiryVars, turned>>

\* prefetch_related
RenderPage ==
  /\ page # NoPage
  /\ shown' = [to |-> page.reader, what |-> "page", row |-> page.row, contacts |-> edition, passed |-> page.passed]
  /\ page' = NoPage
  /\ UNCHANGED <<offerVars, bookingVars, inquiryVars, turned>>

(***************************************************************************)
(* Bookings and requests of the family.                                    *)
(***************************************************************************)
\* create_subscription; the response shows the private details.
BookMasterclass ==
  /\ isPublic /\ host # NoHost /\ ~confirmed
  /\ bookedWith' = bookedWith \cup {host} /\ confirmed' = TRUE
  /\ turned' = turned \cup {<<"booked", host>>}
  /\ Show(Family, "private", edition)
  /\ UNCHANGED <<offerVars, enrolled, inquiryVars, page>>

\* The row is kept.
CancelBooking ==
  /\ bookedWith # {}
  /\ confirmed' = FALSE
  /\ shown' = Nothing
  /\ UNCHANGED <<offerVars, bookedWith, enrolled, inquiryVars, page, turned>>

\* FamilySubscriptionSerializer: of any subscription, whatever its status and the listing's.
ShowBooking ==
  /\ bookedWith # {}
  /\ Show(Family, "private", edition)
  /\ UNCHANGED <<offerVars, bookingVars, inquiryVars, page, turned>>

\* Mutation: the roster is that of the present owner.
RosterOfOwner(h) == h = host /\ bookedWith # {}

RosterOf(h) == h \in bookedWith

\* ProviderSubscriptionSerializer, to any provider.
ShowRoster(h) ==
  /\ h \in trusted /\ RosterOf(h)
  /\ Show(h, "name", 0)
  /\ UNCHANGED <<offerVars, bookingVars, inquiryVars, page, turned>>

\* validate_listing asks for neither an ACTIVE listing nor an owner.
EnrolFamily ==
  /\ ~enrolled
  /\ enrolled' = TRUE
  /\ turned' = turned \cup {<<"enrolled", Family>>} \cup (IF host = NoHost THEN {} ELSE {<<"enrolled", host>>})
  /\ Show(Family, "card", edition)
  /\ UNCHANGED <<offerVars, bookedWith, confirmed, inquiryVars, page>>

WithdrawFamily ==
  /\ enrolled
  /\ enrolled' = FALSE
  /\ shown' = Nothing
  /\ UNCHANGED <<offerVars, bookedWith, confirmed, inquiryVars, page, turned>>

\* ListingClientListSerializer embeds the card of the listing as it is now.
ShowEnrolment ==
  /\ enrolled
  /\ Show(Family, "card", edition)
  /\ UNCHANGED <<offerVars, bookingVars, inquiryVars, page, turned>>

\* ListingClientOwnerSerializer: full name, e-mail address and telephone number.
ShowClients(h) ==
  /\ h \in trusted /\ h = host /\ enrolled
  /\ Show(h, "contact", 0)
  /\ UNCHANGED <<offerVars, bookingVars, inquiryVars, page, turned>>

(***************************************************************************)
(* Inquiries of the family to one tutor; the older ones stay.              *)
(***************************************************************************)
AskTutor ==
  /\ inquiry \in {"none", "closed"}
  /\ inquiry' = "PENDING"
  /\ shown' = Nothing
  /\ UNCHANGED <<offerVars, bookingVars, revealed, revealing, page, turned>>

\* Declined by the tutor or cancelled by the family.
CloseInquiry ==
  /\ inquiry \in {"PENDING", "ACCEPTED"}
  /\ inquiry' = "closed"
  /\ shown' = Nothing
  /\ UNCHANGED <<offerVars, bookingVars, revealed, revealing, page, turned>>

\* transition: the status first; the copy it is checked on may be older than a cancellation.
AcceptInquiry ==
  /\ inquiry \in {"PENDING", "closed"} /\ ~revealing
  /\ inquiry' = "ACCEPTED"
  /\ revealing' = ~BillingGate
  /\ turned' = turned \cup {<<"accepted", Tutor>>}
  /\ shown' = Nothing
  /\ UNCHANGED <<offerVars, bookingVars, revealed, page>>

\* ... then contact_revealed, unless the process dies; the response shows the contact.
RevealContact ==
  /\ revealing
  /\ revealing' = FALSE
  /\ \/ revealed' = TRUE /\ Show(Tutor, "contact", 0)
     \/ revealed' = revealed /\ shown' = Nothing
  /\ UNCHANGED <<offerVars, bookingVars, inquiry, page, turned>>

\* TutorInquirySerializer.get_family
ShowInquiry ==
  /\ inquiry # "none" /\ revealed
  /\ Show(Tutor, "contact", 0)
  /\ UNCHANGED <<offerVars, bookingVars, inquiryVars, page, turned>>

ListingSteps ==
  \/ \E h \in Hosts : NewEdition(h) \/ ChangeTrust(h)
  \/ \E active \in BOOLEAN : Moderate(active)
  \/ \E h \in Hosts \cup {NoHost} : ChangeHost(h)

PageSteps == (\E r \in Hosts \cup {Visitor} : LoadPage(r)) \/ RenderPage

BookingSteps ==
  \/ BookMasterclass \/ CancelBooking \/ ShowBooking
  \/ EnrolFamily \/ WithdrawFamily \/ ShowEnrolment
  \/ \E h \in Hosts : ShowRoster(h) \/ ShowClients(h)

InquirySteps == AskTutor \/ CloseInquiry \/ AcceptInquiry \/ RevealContact \/ ShowInquiry

DisclosureNext == ListingSteps \/ PageSteps \/ BookingSteps \/ InquirySteps

DisclosureSpec == DisclosureInit /\ [][DisclosureNext]_disclosureVars

(***************************************************************************)
(* Properties.                                                             *)
(***************************************************************************)
\* Listing, rows and responses are well-formed.
DisclosureTypeOK ==
  /\ host \in Hosts \cup {NoHost} /\ trusted \subseteq Hosts
  /\ edition \in Editions /\ isPublic \in BOOLEAN /\ published \subseteq Editions
  /\ bookedWith \subseteq Hosts /\ confirmed \in BOOLEAN /\ enrolled \in BOOLEAN
  /\ inquiry \in InquiryStages /\ revealed \in BOOLEAN /\ revealing \in BOOLEAN
  /\ page \in Pages /\ shown \in Shown
  /\ turned \subseteq Turns \X Readers

\* The family's address and number reach a host only through a request for a listing he owned
\* when it was made or was given while it stood, and the tutor only after he accepted an
\* inquiry; a booking alone never shows them.
ContactNeedsTurn ==
  shown.what = "contact" =>
    IF shown.to = Tutor THEN <<"accepted", Tutor>> \in turned
    ELSE {<<"enrolled", shown.to>>, <<"inherited", shown.to>>} \cap turned # {}

\* The name in a roster is shown to the provider the family has booked with, also when the
\* listing is somebody else's by now, and to no later owner.
RosterIsOfBooking == shown.what = "name" => <<"booked", shown.to>> \in turned

\* The address and schedule of the listing are shown to the family only if it has booked it,
\* once, while it was public; it may have cancelled, and the listing may be another by now.
PrivateNeedsBooking ==
  shown.what = "private" => \E h \in Hosts : <<"booked", h>> \in turned

\* An edition nobody has approved is shown to owners and to families with a booking or a
\* request; to a visitor never its row, and its contacts only by a page under way when the
\* owner saved the edition.
UnpublishedStaysInside ==
  /\ shown.what = "page" /\ shown.to = Visitor =>
       shown.row \in published /\ (shown.contacts \in published \/ shown.passed)
  /\ shown.what = "page" /\ shown.to # Visitor => <<"owned", shown.to>> \in turned
  /\ shown.what = "card" => shown.row \in published \/ <<"enrolled", Family>> \in turned

\* What the responses promise.
DisclosureSound ==
  /\ DisclosureTypeOK
  /\ ContactNeedsTurn
  /\ RosterIsOfBooking
  /\ PrivateNeedsBooking
  /\ UnpublishedStaysInside
=============================================================================
