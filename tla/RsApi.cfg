\* Two components show the same resource; any request may fail.
CONSTANTS
  ControlWidgets = {c1, c2}
  PeersWidgets = {}
  MaxRequests = 4
  Peers = {}
  MaxChanges = 1
  MaxFlips = 0
SPECIFICATION FairSpec
INVARIANT FreshToken
PROPERTIES KeepsPromise RefreshesAll
CHECK_DEADLOCK FALSE
