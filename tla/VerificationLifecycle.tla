------------------------- MODULE VerificationLifecycle -------------------------
(***************************************************************************)
(* What provider verification promises one applicant (apps/providers:      *)
(* models.ProviderVerification, services.apply_verification_outcome): the  *)
(* applicant submits, re-submits and withdraws, only a reviewer decides,   *)
(* and a provider role is granted on an approved verification only.        *)
(***************************************************************************)
CONSTANT Types  \* ProviderChoices: the kinds of provider, each with its own record

VARIABLES status,  \* [Types -> status column, or "NONE": no verification record]
          role     \* the provider roles the applicant holds

vars == <<status, role>>

Open == {"PENDING", "UPDATED"}
Verdicts == {"APPROVED", "REJECTED"}

Init ==
  /\ status = [p \in Types |-> "NONE"]
  /\ role = {}

\* A first submission asks for review (UPDATED if it edits a detail that was created
\* without a verification), a later one asks again.
Submit(p, s) ==
  /\ status[p] = "NONE"
  /\ s \in Open
  /\ status' = [status EXCEPT ![p] = s]
  /\ UNCHANGED role

Resubmit(p, s) ==
  /\ status[p] \in Open \cup {"REJECTED"}
  /\ s \in Open
  /\ status' = [status EXCEPT ![p] = s]
  /\ UNCHANGED role

Withdraw(p) ==
  /\ status[p] \in Open \cup {"REJECTED"}
  /\ status' = [status EXCEPT ![p] = "NONE"]
  /\ UNCHANGED role

Decide(p, s) ==
  /\ status[p] # "NONE"
  /\ s \in Verdicts
  /\ status' = [status EXCEPT ![p] = s]
  /\ UNCHANGED role

\* apply_verification_outcome: the role follows the verification.
Grant(p) ==
  /\ status[p] = "APPROVED"
  /\ role' = role \cup {p}
  /\ UNCHANGED status

\* A revoked role, a tutor who closes the profile, a deleted account.
Revoke(gone) ==
  /\ role' = role \ gone
  /\ UNCHANGED status

Next ==
  \/ \E p \in Types :
       \/ Withdraw(p) \/ Grant(p)
       \/ \E s \in Open : Submit(p, s) \/ Resubmit(p, s)
       \/ \E s \in Verdicts : Decide(p, s)
  \/ \E gone \in SUBSET Types : Revoke(gone)

Spec == Init /\ [][Next]_vars

-----------------------------------------------------------------------------
(***************************************************************************)
(* An approval ends in a rejection and in nothing else: it is not          *)
(* withdrawn and not reopened (views.py: "An approved verification cannot  *)
(* be cancelled.").                                                        *)
(***************************************************************************)
ApprovalEndsInRejection ==
  [][\A p \in Types :
       status[p] = "APPROVED" => status'[p] \in Verdicts]_vars

(***************************************************************************)
(* No role is granted but on a verification that is approved at that       *)
(* moment.                                                                 *)
(***************************************************************************)
GrantsAreApproved ==
  [][\A p \in Types : p \in role' \ role => status[p] = "APPROVED"]_vars
=============================================================================
