\* Any packets and checksums at any time, checks that fail, forced checks, clean-up.
CONSTANTS
  Peers = {1}
  FileSize = 2
  ChunkSize = 1
  Hints = {1}
  PeerMaps = {{0, 1}}
  AssumeAvailability = TRUE
  Strategies = {"PROGRESSIVE"}
  MaxJump = 50
  W32 = 4
  W64 = 8
  UserForceCheck = TRUE
  PacketSize = 1
  MaxPerPeer = 1
  MaxCopies = 0
  Refs = {0, 1}
  Unasked = TRUE
  Corruption = FALSE
  WrongSums = TRUE
  CleanUps = TRUE
  Restarts = FALSE
  OpenFails = TRUE
  Serving = TRUE
  Cancels = FALSE
SPECIFICATION TmSpec
INVARIANT TransferTypeOK
PROPERTY NoLostCheck
CHECK_DEADLOCK FALSE
