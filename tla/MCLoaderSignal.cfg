SPECIFICATION Spec
CONSTANTS
  Daemons = {d1, d2}
  Configs <- SecondaryConfigs
  HookSlots = {0, 1}
  MaxStarts = 1
INVARIANTS SignalDetaches
CHECK_DEADLOCK FALSE
