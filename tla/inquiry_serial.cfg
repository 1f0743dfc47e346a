SPECIFICATION SpecInquiries
CONSTANTS
  Requests = {r1}
  Inquiries = {i1, i2}
  Tutors = {t1}
  BillingGateEnabled = FALSE
  AdminForms = {"add", "delete"}
  RequestsCrash = TRUE
  MaxRetries = 3
  NoInquiry = NoInquiry
  NoTutor = NoTutor
  NoTask = NoTask
  Workers = {w1}
  PushMayRaise = TRUE
  WorkersCrash = FALSE
\* Users may stop asking, and the inquiry ids of the instance run out.
CHECK_DEADLOCK FALSE
INVARIANT DeclinedStaysHidden
PROPERTY ImplementsLifecycle
