SPECIFICATION FairSpec
CONSTANTS
  MaxToken = 2
  UserFiles = {"none", "host"}
  CharIsSigned = TRUE
INVARIANTS TypeOK LatchHasTimer ConnectedIsTrue UiBelief RetryArmed
PROPERTIES KeepsTrying StreamAsPromised
