\* A slice of three packets whose second packet comes first, and a clean-up.
CONSTANTS
  Peers = {1}
  FileSize = 3
  ChunkSize = 3
  Hints = {3}
  PeerMaps = {{0}}
  AssumeAvailability = TRUE
  Strategies = {"PROGRESSIVE"}
  MaxJump = 50
  W32 = 4
  W64 = 8
  UserForceCheck = FALSE
  PacketSize = 1
  MaxPerPeer = 2
  MaxCopies = 1
  Refs = {0, 1}
  Unasked = FALSE
  Corruption = FALSE
  WrongSums = FALSE
  CleanUps = TRUE
  Restarts = FALSE
SPECIFICATION Spec
INVARIANT PerPeerExact
