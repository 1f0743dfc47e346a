----------------------------- MODULE MCListings -----------------------------
(***************************************************************************)
(* Small instances of Listings: the clock is independent of what is edited *)
(* and told, so a behaviour either has both rest or lets the events pass.  *)
(***************************************************************************)
EXTENDS Listings, TLC

VARIABLE scene

SymmetryEditors == Permutations(Editors)

InScene ==
  \/ /\ scene = "texts"
     /\ hour' = 0 /\ listing'.starts = MaxTime + 1
  \/ /\ scene = "events"
     /\ listing'.content = 1 /\ reviewQueue' = reviewQueue

MCListingsInit == ListingsInit /\ scene \in {"texts", "events"}

MCListingsNext == ListingsNext /\ InScene /\ UNCHANGED scene

MCListingsSpec == MCListingsInit /\ [][MCListingsNext]_<<listingVars, scene>>
=============================================================================
