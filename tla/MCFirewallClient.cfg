SPECIFICATION ClientSpec
CONSTANTS
  Clients = {c1, c2}
  Kinds = {"blocklist"}
  Keys4 = {1, 2}
  Keys6 = {}
  Covers <- MCCovers
  MaxEntries = 1
  Bad = Bad
  Skip = Skip
  Requests <- MCRequests
  Watched = {1}
  Commands <- MCCommands
INVARIANTS CommandHolds
PROPERTIES RequestsAnswered
