------------------------------ MODULE MCReviews ------------------------------
(***************************************************************************)
(* Small instances of Reviews.                                             *)
(***************************************************************************)
EXTENDS Reviews, TLC

\* Nothing reads the reports: the properties of the run need not tell states apart by them.
WithoutReports == <<review, shown, listed, engaged, job, met, deleted, crossed, disturbed>>

\* The first listing of seed_catalog: 4.7 from 112 reviews nobody wrote.
Seeded == {[rating |-> 47, count |-> 112]}

Symmetry == Permutations(Requests) \cup Permutations(Authors) \cup Permutations(Ids)
=============================================================================
