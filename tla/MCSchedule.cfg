CONSTANTS
  None = None
  NDevices = 1
  Days = {0, 1, 2}
  DayMinutes = 5
  AgeCap = 2
  StreakCap = 2
  DayLength = 2
  UnitsPerMinute = 1
  Configs <- ScheduleConfigs
  Inputs <- ScheduleInputs
SPECIFICATION ScheduleSpec
 
PROPERTIES RunsComeAndGo
