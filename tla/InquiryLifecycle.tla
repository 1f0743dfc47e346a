--------------------------- MODULE InquiryLifecycle ---------------------------
(***************************************************************************)
(* What the inquiry state machine promises (apps/inquiries/services.py,    *)
(* _ALLOWED and transition): every request is one atomic step, statuses    *)
(* move only along _ALLOWED, and the family's contact is revealed only     *)
(* while the inquiry is accepted and the billing gate is off.              *)
(***************************************************************************)
CONSTANTS Inquiries,          \* primary keys of inquiry rows
          BillingGateEnabled  \* settings.BILLING_GATE_ENABLED

VARIABLES status,    \* the status column; "UNUSED": no row yet, "DELETED": row gone
          revealed   \* the contact_revealed column

vars == <<status, revealed>>

Statuses == {"PENDING", "ACCEPTED", "DECLINED", "CANCELLED"}

\* The statuses a row in status s may move to.
Allowed(s) ==
  CASE s = "PENDING"  -> {"ACCEPTED", "DECLINED", "CANCELLED"}
    [] s = "ACCEPTED" -> {"CANCELLED"}
    [] OTHER          -> {}

TypeOK ==
  /\ status \in [Inquiries -> Statuses \cup {"UNUSED", "DELETED"}]
  /\ revealed \in [Inquiries -> BOOLEAN]

Init ==
  /\ status = [i \in Inquiries |-> "UNUSED"]
  /\ revealed = [i \in Inquiries |-> FALSE]

Create(i) ==
  /\ status[i] = "UNUSED"
  /\ status' = [status EXCEPT ![i] = "PENDING"]
  /\ UNCHANGED revealed

Move(i, s) ==
  /\ s \in Allowed(status[i])
  /\ status' = [status EXCEPT ![i] = s]
  /\ UNCHANGED revealed

Reveal(i) ==
  /\ status[i] = "ACCEPTED"
  /\ ~BillingGateEnabled
  /\ revealed' = [revealed EXCEPT ![i] = TRUE]
  /\ UNCHANGED status

Remove(i) ==
  /\ status[i] \in Statuses
  /\ status' = [status EXCEPT ![i] = "DELETED"]
  /\ UNCHANGED revealed

Next ==
  \E i \in Inquiries :
    \/ Create(i)
    \/ \E s \in Statuses : Move(i, s)
    \/ Reveal(i)
    \/ Remove(i)

Spec == Init /\ [][Next]_vars

-----------------------------------------------------------------------------
(***************************************************************************)
(* A declined inquiry never shows the family's contact to the tutor, and   *)
(* behind the billing gate no inquiry does (transition reveals only on     *)
(* accept, and an accepted inquiry can no longer be declined).             *)
(***************************************************************************)
DeclinedStaysHidden ==
  \A i \in Inquiries :
    revealed[i] => ~BillingGateEnabled /\ status[i] \notin {"UNUSED", "PENDING", "DECLINED"}
=============================================================================
