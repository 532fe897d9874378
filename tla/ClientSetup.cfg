\* One service, every pair of TLS sections, one certificate file that changes.
CONSTANTS
    s1 = s1
    Services = {s1}
    Inputs <- SetupInputs
    Paths <- MCPaths
    Holds <- MCHolds
    MaxChanges = 1
SPECIFICATION Spec
INVARIANTS
    TypeOK
    EncryptedAsSwitched
    CredentialsNeverIgnored
    ValidatedIsUsable
    OneFileAsDocumented
CHECK_DEADLOCK FALSE
