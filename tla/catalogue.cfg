SPECIFICATION CatalogueSpec
CONSTANTS
  Keys = {k1, k2}
  Uploads = {u1, u2}
  MaxFiles = 2
  MaxPosition = 1
  FormsByHand = TRUE
  MaxClock = 1
  Patches = {p1, p2}
  ContactNames = {n1, n2}
  MaxContacts = 2
  Families = {f1, f2}
  Subs = {s1, s2}
  Bookings = {b1, b2}
  StatusByHand = TRUE
  Callers = {c1, c2}
  MaxRows = 3
  Commands = {i1}
  MaxInsertions = 3
  MaxEdits = 1
  Seeders = {x1, x2}
  SeedSlugs = {l1, l2}
  ImageCount = 2
  MaxRuns = 2
  Cards = {d1, d2, d3}
  PageSize = 1
  MaxRank = 3
  MaxMoves = 2
  Visits = {v1, v2}
  MaxPoint = 2
  Sites = {0, 2}
  CacheTTL = 1
  MaxTicks = 1
  Hosts = {h1, h2}
  MaxEditions = 2
  BillingGate = FALSE
VIEW PartAtWork
\* Keys, ids, hours and runs of the instance run out.
CHECK_DEADLOCK FALSE
INVARIANTS
  UploadsSound ListingWritesSound SubscriptionsSound ClientsSound TagSearchSound
  SeedsSound SearchSound PrivacySound
