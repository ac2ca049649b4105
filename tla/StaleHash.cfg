\* A file of one chunk; the user may force a check while it is being hashed.
CONSTANTS
  Peers = {1}
  FileSize = 1
  ChunkSize = 1
  Hints = {1}
  PeerMaps = {{0}}
  AssumeAvailability = TRUE
  Strategies = {"PROGRESSIVE"}
  MaxJump = 50
  W32 = 2
  W64 = 4
  UserForceCheck = TRUE
  PacketSize = 1
  MaxPerPeer = 1
  MaxCopies = 1
  Refs = {0}
  Unasked = FALSE
  Corruption = TRUE
  WrongSums = TRUE
  CleanUps = FALSE
  Restarts = FALSE
  OpenFails = FALSE
  Serving = FALSE
  Cancels = FALSE
SPECIFICATION TmSpec
INVARIANT MovedIsGood
CHECK_DEADLOCK FALSE
