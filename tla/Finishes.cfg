\* Sources that sometimes send wrong data, and right checksums; the user may cancel.
CONSTANTS
  Peers = {1}
  FileSize = 2
  ChunkSize = 1
  Hints = {1}
  PeerMaps = {{0, 1}}
  AssumeAvailability = TRUE
  Strategies = {"PROGRESSIVE"}
  MaxJump = 50
  W32 = 4
  W64 = 8
  UserForceCheck = FALSE
  PacketSize = 1
  MaxPerPeer = 1
  MaxCopies = 2
  Refs = {0, 1}
  Unasked = FALSE
  Corruption = TRUE
  WrongSums = FALSE
  CleanUps = FALSE
  Restarts = FALSE
  OpenFails = FALSE
  Serving = FALSE
  Cancels = TRUE
SPECIFICATION TmFairSpec
INVARIANT HashHasCreator
PROPERTY Finishes
CHECK_DEADLOCK FALSE
