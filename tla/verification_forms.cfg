SPECIFICATION Spec
CONSTANTS
  Types = {"TUTOR"}
  Ids = {n1}
  Requests = {r1, r2}
  RequestsCrash = TRUE
  DetailReferenced = TRUE
  AdminForms = {"verification", "detail", "roles"}
  NoId = NoId
\* The applicant may stop asking, and the primary keys of the instance run out.
CHECK_DEADLOCK FALSE
SYMMETRY Symmetry
VIEW Records
INVARIANT NothingWithoutApproval
PROPERTIES OnlyReviewersApprove 
