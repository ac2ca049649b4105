\* Any packets at any time; slices of several sizes; wrong checksums; clean-up and restarts.
CONSTANTS
  Peers = {1, 2}
  FileSize = 4
  ChunkSize = 3
  Hints = {1, 3}
  PeerMaps = {{0, 1}}
  AssumeAvailability = TRUE
  Strategies = {"PROGRESSIVE"}
  MaxJump = 50
  W32 = 8
  W64 = 16
  UserForceCheck = FALSE
  PacketSize = 2
  MaxPerPeer = 1
  MaxCopies = 0
  Refs = {0, 1, 2, 3}
  Unasked = TRUE
  Corruption = FALSE
  WrongSums = TRUE
  CleanUps = TRUE
  Restarts = TRUE
SPECIFICATION Spec
INVARIANTS CreatorTypeOK PiecesDisjoint RefCountEnough ReceivedIsWritten
PROPERTY KeepsBytes
