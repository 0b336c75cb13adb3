SPECIFICATION Spec
CONSTANTS
  Configurations <- MCConfigurations
  Requests = {r1, r2}
INVARIANTS TypeOK RunsAsConfigured ExitIsClean
PROPERTIES  FailureExits
CHECK_DEADLOCK FALSE
