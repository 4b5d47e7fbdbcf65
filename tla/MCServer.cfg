CONSTANTS
    Password = "secret"
    Passwords = {"secret", "guess"}
    Usernames = {"default", "other"}
    Names = {"", "n"}
    None = None
    Clients = {c1, c2}
    Scripts <- MCScripts
    MaxConnections = 1
SPECIFICATION FairSpec
INVARIANTS
    RepliesFollowTheScript
    AtMostOneLateRequest
    EngineIdleAtShutdown
    ConnectedWithinLimit
PROPERTIES
    RunReturns
    ConnectionsEnd
