SPECIFICATION FairSpec
CONSTANTS
  Ops = {o1}
  Items = {c1}
  NoOp = NoOp
  NoItem = NoItem
  MaxTime = 2
  MaxEvidence = 1
  MaxFaults = 2
INVARIANTS TypeOK AtMostOneStart NativeCovered ClockHeals
PROPERTY AcceptedIsPublished
