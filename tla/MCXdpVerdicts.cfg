SPECIFICATION Spec
CONSTANTS
  Cpus = {c1}
  Prefixes <- MCPrefixes
  PrefixesOf <- MCPrefixesOf
  Sources <- MCSources
  Covered <- MCCovered
  Frames <- VerdictFrames
  LoadOptions <- QuietOptions
  PerfSlots = 6
  MaxFrames = 2
  MaxUpdates = 2
INVARIANTS TypeOK DropJustified PassJustified StatsLedger
CHECK_DEADLOCK FALSE
