SPECIFICATION LiveSpec
CONSTANTS
    SpecsA <- AnyHost
    SpecsB <- StarHost
    Principals = {"User:app"}
    Hosts = {"*"}
    NoHost = ""
    ResourceNames = {"orders"}
INVARIANTS
    EntryNamed
    ReadyKept
PROPERTY
    AllServed
CHECK_DEADLOCK FALSE
