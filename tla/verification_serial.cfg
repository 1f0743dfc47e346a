SPECIFICATION Spec
CONSTANTS
  Types = {"TUTOR", "MASTERCLASS"}
  Ids = {n1, n2}
  Requests = {r1}
  RequestsCrash = FALSE
  DetailReferenced = FALSE
  AdminForms = {}
  NoId = NoId
\* The applicant may stop asking, and the primary keys of the instance run out.
CHECK_DEADLOCK FALSE
SYMMETRY Symmetry
INVARIANTS TypeOK CopiesFollowVerdict VerdictTold RejectionExplained
PROPERTY ImplementsVerification
