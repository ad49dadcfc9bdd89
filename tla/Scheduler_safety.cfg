SPECIFICATION FairSpec
CONSTANTS
  Zones = {"dst", "west"}
  LocalTime <- MCLocalTime
  DayLength = 3
  MaxDays = 3
  Minutes = {1, 2}
  LastInstant = 6
  Horizon <- MCHorizon
  MaxUpdates = 2
  MaxUses = 1
  MaxClockSteps = 1
  MaxFaults = 1
INVARIANTS TypeOK NoStuckClaim OncePerLocalDate NoOccurrenceTwice
PROPERTIES NextIsEarliest DueIsAnswered
