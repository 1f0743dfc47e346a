---------------------------- MODULE MCVerification ----------------------------
(***************************************************************************)
(* Small instances of Verification.                                        *)
(***************************************************************************)
EXTENDS Verification, TLC

\* Nothing reads tasks and told but RunTask, which changes nothing else: the runs about the
\* records, the roles and the detail need not tell states apart by them.
Records == <<row, detail, role, active, job, used, detailUsed, approved>>

Symmetry == Permutations(Requests) \cup Permutations(Ids)
=============================================================================
