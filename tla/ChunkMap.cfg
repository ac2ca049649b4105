\* Two sources share a file of two chunks, the last one short.
CONSTANTS
  Peers = {1, 2}
  FileSize = 5
  ChunkSize = 3
  Hints = {1, 2}
  PeerMaps = {{0}, {0, 1}}
  AssumeAvailability = FALSE
  Strategies = {"PROGRESSIVE", "STREAMING"}
  MaxJump = 1
  W32 = 8
  W64 = 16
  UserForceCheck = FALSE
SPECIFICATION CmSpec
INVARIANTS TypeOK RemainsExact TotalExact SlicesDisjoint ActiveIsTracked CompleteExact
PROPERTIES DoneIsFinal
