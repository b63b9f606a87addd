SPECIFICATION LiveSpec
CONSTANTS
    Specs <- MCSpecs
    Edits <- MCEdits
    MaxGen = 2
    Addresses = {"kafka:9092"}
    Secured = {"kafka:9092"}
    Namespaces = {"apps", "ops"}
    ClusterNamespace = "apps"
    NoNamespace = ""
    SecretNames = {"admin"}
    NoRef = "nil"
    Texts = {"admin", "right", "wrong"}
    NoKey = "none"
    NoSecret = NoSecret
    Admin <- MCAdmin
    SecretStates <- MCSecretStates
INVARIANTS
    TypeOK
    ReadyWasReached
    CheckNeverStops
PROPERTIES
    ImplementsHealth
    FailureNoticed
    RecoveryNoticed
