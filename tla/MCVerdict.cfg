CONSTANTS
  None = None
  NDevices = 2
  Days = {}
  AgeCap = 2
  StreakCap = 2
  DayLength = 2
  UnitsPerMinute = 1
  Configs <- TestedConfigs
  Inputs <- RunInputs
SPECIFICATION VerdictSpec
PROPERTIES VerdictIsEarned CutIsBrief KeepsContract
