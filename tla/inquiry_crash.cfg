SPECIFICATION SpecNotifications
CONSTANTS
  Requests = {r1}
  Inquiries = {i1}
  Tutors = {t1}
  BillingGateEnabled = TRUE
  AdminForms = {"add", "edit", "delete"}
  RequestsCrash = TRUE
  MaxRetries = 1
  NoInquiry = NoInquiry
  NoTutor = NoTutor
  NoTask = NoTask
  Workers = {w1}
  PushMayRaise = TRUE
  WorkersCrash = TRUE
\* Users may stop asking, and the inquiry ids of the instance run out.
CHECK_DEADLOCK FALSE
CONSTRAINT FewMessages AccountsRest
INVARIANTS FeedReportsRealStatuses
