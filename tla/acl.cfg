SPECIFICATION LiveSpec
CONSTANTS
    Specs <- ReadSpecs
    Edits <- SameEntry
    MaxGen = 2
    Principals = {"User:app"}
    Hosts = {"*", "10.0.0.1"}
    NoHost = ""
    ResourceNames = {"orders"}
    ForeignEntries <- MCForeign
INVARIANTS
    TypeOK
    ReadyMeansInForce
    NoOrphan
    NoLostWakeup
PROPERTIES
    ImplementsManaged
    NotRevokedUnderLive
    EventuallyReady
    DeletionCompletes
