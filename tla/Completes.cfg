\* Answers asked for only, lost, repeated and reordered; no clean-up: every download ends.
CONSTANTS
  Peers = {1, 2}
  FileSize = 4
  ChunkSize = 3
  Hints = {3}
  PeerMaps = {{0, 1}}
  AssumeAvailability = TRUE
  Strategies = {"PROGRESSIVE"}
  MaxJump = 50
  W32 = 8
  W64 = 16
  UserForceCheck = FALSE
  PacketSize = 1
  MaxPerPeer = 2
  MaxCopies = 2
  Refs = {0, 1, 2, 3}
  Unasked = FALSE
  Corruption = FALSE
  WrongSums = FALSE
  CleanUps = FALSE
  Restarts = FALSE
SPECIFICATION FairSpec
INVARIANTS NothingForgotten RefCountExact
PROPERTY Completes
