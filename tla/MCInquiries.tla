----------------------------- MODULE MCInquiries -----------------------------
(***************************************************************************)
(* Small instances of Inquiries and InquiryNotifications.                  *)
(***************************************************************************)
EXTENDS InquiryNotifications, TLC

Symmetry == Permutations(Requests) \cup Permutations(Inquiries)
SymmetryNotifications == Permutations(Requests) \cup Permutations(Workers)

\* Bounds for the run in which the admin's change form can reopen an inquiry for ever.
FewMessages ==
  /\ \A m \in Tasks : queue[m] <= 1
  /\ Cardinality({m \in Tasks : queue[m] > 0}) <= 1
  /\ \A n \in FeedRows : feed[n] <= 1
  /\ Cardinality({n \in FeedRows : feed[n] > 0}) <= 2

\* Tutors keep their accounts: availability only guards the requests, and inquiry_races
\* explores its changes.
AccountsRest == \A t \in Tutors : account[t] = "open"

\* Inquiries alone: the notification variables rest.
SpecInquiries == InitNotifications /\ [][Next /\ UNCHANGED <<worker, feed>>]_allVars

\* The fair specification with AccountsRest built in: with liveness a state constraint would
\* cut behaviours short.
FairSpecAccountsRest ==
  InitNotifications /\ [][NextNotifications /\ UNCHANGED account]_allVars /\ Fairness
=============================================================================
