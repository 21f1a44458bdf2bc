CONSTANTS
  None = None
  Pump = Pump
  Siren = Siren
  Devices = {Pump, Siren}
  AgeCap = 2
  FailureCap = 2
  DayAckAfter = 2
  AlertSuspendMax = 2
  Configs <- AlarmConfigs
  Inputs <- AlarmInputs
SPECIFICATION AlarmSpec
INVARIANTS AckCoversWhatStood SuspendCoversWhatStood
 
