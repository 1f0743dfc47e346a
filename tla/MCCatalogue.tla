---------------------------- MODULE MCCatalogue ----------------------------
(***************************************************************************)
(* Small instances around a listing.  The parts share no variable; a       *)
(* behaviour is one of one part while the others rest, so the run checks   *)
(* them one beside the other.                                              *)
(***************************************************************************)
EXTENDS ListingImages, ListingForms, ListingContacts, Subscriptions, ListingClients, Tagging,
        Seeding, Browsing, Distances, Disclosure, TLC

VARIABLE part

\* Disclosure is checked with its pages, its bookings and its inquiries in turn.
Disclosing == {"pages", "bookings", "inquiries"}

CatalogueInit ==
  /\ ImagesInit
  /\ FormsInit
  /\ ContactsInit
  /\ SubscriptionsInit
  /\ ClientsInit
  /\ TaggingInit
  /\ SeedingInit
  /\ DistancesInit /\ DisclosureInit
  /\ part \in {"images", "forms", "contacts", "subscriptions", "clients", "tags", "seeding", "browsing",
               "distances", "searches", "pages", "bookings", "inquiries"}
  \* Only a walk starts from any list, only a way from any place, only disclosure with any host.
  /\ BrowsingInit
  /\ part = "browsing" \/ (Listed = {} /\ sort = "newest")
  /\ part = "distances" \/ place = NoPlace
  /\ part \in Disclosing \/ host = CHOOSE h \in Hosts : TRUE

CatalogueNext ==
  /\ \/ part = "images" /\ ImagesNext
     \/ part = "forms" /\ FormsNext
     \/ part = "contacts" /\ ContactsNext
     \/ part = "subscriptions" /\ SubscriptionsNext
     \/ part = "clients" /\ ClientsNext
     \/ part = "tags" /\ TaggingNext
     \/ part = "seeding" /\ SeedingNext
     \/ part = "browsing" /\ BrowsingNext
     \/ part = "distances" /\ VisitNext
     \/ part = "searches" /\ SearchByDistance
     \/ part = "pages" /\ (ListingSteps \/ PageSteps)
     \/ part = "bookings" /\ (ListingSteps \/ BookingSteps)
     \/ part = "inquiries" /\ InquirySteps
  /\ part # "images" => UNCHANGED imagesVars
  /\ part # "forms" => UNCHANGED formsVars
  /\ part # "contacts" => UNCHANGED contactsVars
  /\ part # "subscriptions" => UNCHANGED subscriptionsVars
  /\ part # "clients" => UNCHANGED clientsVars
  /\ part # "tags" => UNCHANGED taggingVars
  /\ part # "seeding" => UNCHANGED seedingVars
  /\ part # "browsing" => UNCHANGED browsingVars
  /\ part \notin {"distances", "searches"} => UNCHANGED distancesVars
  /\ part \notin Disclosing => UNCHANGED disclosureVars
  /\ UNCHANGED part

CatalogueVars ==
  <<imagesVars, formsVars, contactsVars, subscriptionsVars, clientsVars, taggingVars, seedingVars, browsingVars,
    distancesVars, disclosureVars, part>>

CatalogueSpec == CatalogueInit /\ [][CatalogueNext]_CatalogueVars

\* The resting parts are as they were at first: they need not be told apart.
PartAtWork ==
  <<part,
    CASE part = "images" -> imagesVars
      [] part = "forms" -> formsVars
      [] part = "contacts" -> contactsVars
      [] part = "subscriptions" -> subscriptionsVars
      [] part = "clients" -> clientsVars
      [] part = "tags" -> taggingVars
      [] part = "seeding" -> seedingVars
      [] part = "browsing" -> browsingVars
      [] part \in {"distances", "searches"} -> distancesVars
      [] part \in Disclosing -> disclosureVars>>

\* The form of a listing and its contacts keep what their modules promise, whatever PATCHes
\* and admin forms they came from.  (A part at rest is as it was at first.)
ListingWritesSound ==
  /\ part = "forms" => FormsSound
  /\ part = "contacts" => ContactsSound

\* The search by tags means what the tags' groups say, and imports link whole tag sets,
\* whatever names, groups and categories have become.
TagSearchSound == part = "tags" => TaggingSound

\* The images of a listing, their objects and the cleanup tasks keep what their module promises.
UploadsSound == part = "images" => ImagesSound

\* Seeded and imported listings keep what their module promises.
SeedsSound == part = "seeding" => SeedingSound

\* Private details and contacts reach whom their module says, by pages, bookings and inquiries.
PrivacySound == part \in Disclosing => DisclosureSound

\* A search by pages and by distance keeps what the modules promise.
SearchSound ==
  /\ part = "browsing" => BrowsingSound
  /\ part \in {"distances", "searches"} => DistancesSound
=============================================================================
