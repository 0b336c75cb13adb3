SPECIFICATION Spec
CONSTANTS
  Daemons = {d1, d2}
  Configs <- MCConfigs
  HookSlots = {0, 1}
  MaxStarts = 3
INVARIANTS TypeOK RunningIsPinned LeftOnlyByMishap
PROPERTIES NoTakeover CancelledStops
CHECK_DEADLOCK FALSE
