SPECIFICATION SpecInquiries
CONSTANTS
  Requests = {r1, r2}
  Inquiries = {i1, i2}
  Tutors = {t1}
  BillingGateEnabled = FALSE
  AdminForms = {"add", "delete"}
  RequestsCrash = FALSE
  MaxRetries = 3
  NoInquiry = NoInquiry
  NoTutor = NoTutor
  NoTask = NoTask
  Workers = {w1}
  PushMayRaise = TRUE
  WorkersCrash = FALSE
\* Users may stop asking, and the inquiry ids of the instance run out.
CHECK_DEADLOCK FALSE
SYMMETRY Symmetry
INVARIANTS TypeOK RevealedWasAccepted AcceptedGetsRevealed
PROPERTY NeverPendingAgain
