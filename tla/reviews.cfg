SPECIFICATION Spec
CONSTANTS
  Authors = {a1, a2}
  Ids = {n1, n2}
  Ratings = {4, 5}
  Requests = {r1, r2}
  Gated = TRUE
  RequestsCrash = TRUE
  Typed <- Seeded
  NoId = NoId
  NoAuthor = NoAuthor
\* Families may stop reviewing, and the primary keys of the instance run out.
CHECK_DEADLOCK FALSE
SYMMETRY Symmetry
VIEW WithoutReports
INVARIANTS TypeOK InStepUnlessDisturbed AuthorsWereEngaged
PROPERTY OnlyRacesRevive
