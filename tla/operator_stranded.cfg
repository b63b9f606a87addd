SPECIFICATION LiveSpec
CONSTANTS
    Specs = {"entry"}
    Edits <- NoEdits
    MaxGen = 1
    Servers <- OneServer
    Moves <- NoEdits
    NoServer = "none"
PROPERTY
    FinalizersCleanUp
