SPECIFICATION Spec
CONSTANTS
  Names = {"packets_rx"}
  Readers = {}
  Length = 3
  MaxPushes = 3
INVARIANTS ReadsAllStored
CHECK_DEADLOCK FALSE
