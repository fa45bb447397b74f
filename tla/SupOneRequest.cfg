SPECIFICATION SupSpec
CONSTANTS
  MaxToken = 2
  UserFiles = {"none"}
  CharIsSigned = FALSE
  MaxLossTimers = 1
INVARIANT OneRequest
