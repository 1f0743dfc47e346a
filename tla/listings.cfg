SPECIFICATION MCListingsSpec
CONSTANTS
  Editors = {r1, r2}
  Comments = {c1}
  NoComment = NoComment
  ReviewWorkers = {w1}
  MaxContent = 2
  MaxTime = 2
  MaxTold = 1
SYMMETRY SymmetryEditors
\* The listing may be gone and the clock stopped.
CHECK_DEADLOCK FALSE
INVARIANT ModerationSound
PROPERTIES OnlyRacesReviveListings PageFresh
