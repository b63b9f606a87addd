SPECIFICATION LiveSpec
CONSTANTS
    Specs = {"entry"}
    Edits <- NoEdits
    MaxGen = 1
    Servers <- TwoServers
    Moves <- OneMove
    NoServer = "none"
INVARIANTS
    TypeOK
    WrittenAfterCheck
    NothingLeft
    ReadyOnNamed
PROPERTY
    ServedThroughCluster
