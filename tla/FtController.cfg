\* A user file and a cache file, each with up to two controls, and one or two active slots.
CONSTANTS
  Hashes = {1, 2}
  CacheHashes = {2}
  Copies = {1, 2}
  MaxControls = 3
  Users = {"user"}
  QueueSizes = {1, 2}
  MinPrioritized = 1
  MaxPending = 1
SPECIFICATION Spec
INVARIANTS ControllerTypeOK PositionsExact QueueIsLive
PROPERTY StateFollowsPosition
