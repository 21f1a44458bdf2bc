CONSTANTS
  None = None
  Devices = {}
  AgeCap = 4
  FailureCap = 3
  DayAckAfter = 2
  AlertSuspendMax = 0
  Configs <- LevelConfigs
  Inputs <- LevelInputs
SPECIFICATION LevelSpec
INVARIANT NightFloor
PROPERTIES EscalationIsEarned RecoveryIsEarned
