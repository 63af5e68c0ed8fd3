SPECIFICATION FairSpec
CONSTANTS
  Preference <- MCPreference
  Rows = {"retry", "message", "mcp"}
  SlotCount = 2
  McpCapacity = 1
  MaxCore = 2
INVARIANT
  NoWorkOverlooked
PROPERTY
  NoKindStarves
CHECK_DEADLOCK FALSE
