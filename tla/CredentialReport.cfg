SPECIFICATION CredentialSpec
CONSTANTS
  Runs = {r1, r2}
  Callers <- MCCallers
  MaxPolls = 15
INVARIANTS
  CredentialTypeOK
  BusyIsNoFailure
PROPERTY
  FetchesEnd
CHECK_DEADLOCK FALSE
