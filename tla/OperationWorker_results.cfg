SPECIFICATION Spec
CONSTANTS
  Ops = {o1, o2}
  Items = {c1, c2}
  NoOp = NoOp
  NoItem = NoItem
  MaxTime = 1
  MaxEvidence = 2
  MaxFaults = 1
SYMMETRY Symmetry
INVARIANTS
  DenialIsTrue
  SuccessRanReviewed
  ItemsFollowEvidence
PROPERTIES PublishedIsFinal RefinesLifecycle
