CONSTANTS
  None = None
  NDevices = 2
  Channels = {1, 2}
  Days = {0}
  DayMinutes = 2
  Configs <- DeviceConfigs
  Readings = {None, 0, 1}
  Clocks <- DeviceClocks
  AgeCap = 2
  MaintenanceTime = 1
  OutTimes = {1}
  Commands = {"Maintenance"}
  ManualStates = {"On", "Off"}
  YellowRepeat = 0
  RedRepeat = 0
  RestartWindow = 0
  RestartMinUptime = 0
SPECIFICATION DeviceSpec
INVARIANTS ManualIsCurrent AlertHasItsDevices ExclusiveRunIsAlone BoostHoldsTheTarget
