SPECIFICATION LiveSpec
CONSTANTS
    Specs <- MCSpecs
    Edits <- MCEdits
    MaxGen = 2
    UserNames = {"app"}
    NoName = ""
    ResourceName = "app"
    Passwords = {"old", "new"}
    NoPassword = "none"
    Intruded <- TheSlot
    NotFoundRecognised = FALSE
INVARIANTS
    TypeOK
    ReadyMeansApplied
    NoOrphan
    NoLostWakeup
PROPERTIES
    ImplementsManaged
    EventuallyServed
