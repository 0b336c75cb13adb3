SPECIFICATION Spec
CONSTANTS
  W4 = 3
  W6 = 6
  MinPrefixV4 = 2
  MinPrefixV6 = 2
  MappedTop = 1
INVARIANTS TypeOK StoredIsMeant OneKeyPerPrefix PolicyAccepts
CHECK_DEADLOCK FALSE
