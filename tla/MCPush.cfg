CONSTANTS
  None = None
  NDevices = 1
  Channels = {1}
  Days = {0}
  DayMinutes = 1
  Configs <- PushConfigs
  Readings = {None, 0}
  Clocks = {None}
  AgeCap = 1
  MaintenanceTime = 1
  OutTimes = {1}
  Commands = {"Ack", "SuspendAlerts", "Maintenance"}
  ManualStates = {}
  YellowRepeat = 2
  RedRepeat = 1
  RestartWindow = 0
  RestartMinUptime = 0
SPECIFICATION PushSpec
INVARIANTS AlarmIsRepeated SilencesAreForWhatWasShown
