CONSTANTS
    Password = "secret"
    Passwords = {"secret", "guess", ""}
    Usernames = {"default", "other"}
    Names = {"", "n", "m"}
    None = None
SPECIFICATION GateSpec
INVARIANTS
    AuthenticatedIffProved
PROPERTIES
    OnlyErrorsBeforeProof
    RefusalChangesNothing
CHECK_DEADLOCK FALSE
