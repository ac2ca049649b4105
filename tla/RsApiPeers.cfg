\* One component shows control data, one the friends list, which changes without its token.
CONSTANTS
  ControlWidgets = {c1}
  PeersWidgets = {p1}
  MaxRequests = 2
  Peers = {1}
  MaxChanges = 1
  MaxFlips = 2
SPECIFICATION Spec
INVARIANTS TypeOK OneListener ListenersMounted
CHECK_DEADLOCK FALSE
