CONSTANTS
  None = None
  NDevices = 2
  Days = {}
  AgeCap = 2
  StreakCap = 2
  DayLength = 2
  UnitsPerMinute = 1
  Configs <- EmptiedConfigs
  Inputs <- RunInputs
SPECIFICATION VerdictSpec
INVARIANT DeviceExists
