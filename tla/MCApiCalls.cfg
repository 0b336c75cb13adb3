SPECIFICATION Spec
CONSTANTS
  Clients = {c1, c2}
  Kinds = {"blocklist"}
  Keys4 = {1, 2, 3}
  Keys6 = {}
  Covers <- MCCovers
  MaxEntries = 2
  Bad = Bad
  Skip = Skip
  Requests <- CallRequests
SYMMETRY ClientSymmetry
INVARIANTS HandlesHeld
PROPERTIES ImplementsPrefixSet
