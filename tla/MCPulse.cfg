CONSTANTS
  None = None
  Pump = Pump
  Siren = Siren
  Devices = {Pump, Siren}
  AgeCap = 3
  FailureCap = 2
  DayAckAfter = 2
  AlertSuspendMax = 1
  Configs <- PulseConfigs
  Inputs <- PulseInputs
SPECIFICATION PulseSpec
PROPERTIES PumpIsSpared KeepsContract LevelFollowsTheTank StandingAlarmIsHeard
