SPECIFICATION MonitorFairSpec
CONSTANTS
  MaxToken = 1
  UserFiles = {"none"}
  CharIsSigned = FALSE
  MaxLossTimers = 2
INVARIANTS SupTypeOK PauseEnds LossNotForgotten
PROPERTIES LossPauses
