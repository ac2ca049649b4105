\* The HTTP thread and the terminal's thread send any request at any time.
CONSTANTS
  Clients = {"http", "terminal"}
  Requests = {"runstate", "set_password", "login", "login_unknown",
              "identities", "import_pgp", "create_location", "shutdown"}
  MaxTries = 2
SPECIFICATION FairSpec
INVARIANTS TypeOK PasswordIsThere ApiNeverAsks
PROPERTIES Announced StuckForEver AnsweredUnlessStuck PasswordUsed EndsUnlessStuck
CHECK_DEADLOCK FALSE
