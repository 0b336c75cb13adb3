SPECIFICATION ReadersSpec
CONSTANTS
  Cpus = {c1, c2}
  Prefixes = {"host"}
  PrefixesOf <- MCPrefixesOf
  Sources = {"a"}
  Covered <- MCCovered
  Frames <- V4Frames
  LoadOptions <- AllCounters
  PerfSlots = 2
  Tasks = {"tick"}
  MaxFrames = 2
  MaxUpdates = 0
  Ticker = ticker
  Handlers = {}
SYMMETRY CpuSymmetry
INVARIANTS ReadersTypeOK MetricsLedger HistogramComplete StatsExplained MetricsExplained SamplesExplained
PROPERTIES ExportsMonotone
CHECK_DEADLOCK FALSE
