SPECIFICATION Spec
CONSTANTS
  Zones = {"nuuk"}
  LocalTime <- GapLocalTime
  DayLength = 3
  MaxDays = 3
  Minutes = {1, 2}
  LastInstant = 6
  Horizon <- MCHorizon
  MaxUpdates = 1
  MaxUses = 1
  MaxClockSteps = 0
  MaxFaults = 0
INVARIANT GapIsBridged
