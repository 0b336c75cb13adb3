SPECIFICATION Spec
CONSTANTS
  Names = {"packets_rx", "packets_drop"}
  Readers = {r1}
  Length = 3
  MaxPushes = 4
INVARIANTS TypeOK ChartsInOrder ReadsAreLatest
PROPERTIES CrashesOnlyWarmingUp PushedIsCharted
CHECK_DEADLOCK FALSE
