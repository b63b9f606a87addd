SPECIFICATION LiveSpec
CONSTANTS
    Specs <- OtherSpecs
    Edits <- AllEdits
    MaxGen = 2
    Principals = {"User:app"}
    Hosts = {"*", "10.0.0.1"}
    NoHost = ""
    ResourceNames = {"orders"}
    ForeignEntries <- MCForeign
PROPERTY
    FormerGrantsGo
