SPECIFICATION SupSpec
CONSTANTS
  MaxToken = 1
  UserFiles = {"none"}
  CharIsSigned = FALSE
  MaxLossTimers = 1
PROPERTY QuietWhilePaused
