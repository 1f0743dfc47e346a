SPECIFICATION FairSpecAccountsRest
CONSTANTS
  Requests = {r1, r2}
  Inquiries = {i1}
  Tutors = {t1}
  BillingGateEnabled = FALSE
  AdminForms = {}
  RequestsCrash = FALSE
  MaxRetries = 1
  NoInquiry = NoInquiry
  NoTutor = NoTutor
  NoTask = NoTask
  Workers = {w1}
  PushMayRaise = TRUE
  WorkersCrash = FALSE
\* Users may stop asking, and the inquiry ids of the instance run out.
CHECK_DEADLOCK FALSE
INVARIANTS TypeOKNotifications NoChangeForgotten RequestRowsBounded
PROPERTY FinalStatusReachesFeed
