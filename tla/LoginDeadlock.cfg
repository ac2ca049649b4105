\* A second browser window asks for the identities during a login.
CONSTANTS
  Clients = {"http", "terminal"}
  Requests = {"runstate", "set_password", "login", "identities"}
  MaxTries = 2
SPECIFICATION FairSpec
PROPERTY Answered
CHECK_DEADLOCK FALSE
