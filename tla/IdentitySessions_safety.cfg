SPECIFICATION Spec
CONSTANTS
  Procs = {p1, p2}
  IdleLifetime = 2
  AbsoluteLifetime = 4
  RotationAfter = 2
  PreviousGrace = 1
  MaximumSessions = 1
  MaxClock = 3
  MaxTokens = 2
  MaxEpoch = 2
  MaxClockSteps = 1
SYMMETRY Symmetry
INVARIANTS
  TableOK
  SessionsAreCurrent
  RotationKeepsRequests
  SignOutEnds
PROPERTY StrangersKept
