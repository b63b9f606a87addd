SPECIFICATION LiveSpec
CONSTANTS
    Specs <- OwningSpecs
    Edits <- OwningEdits
    MaxGen = 2
    Names = {"orders"}
    NoName = ""
    ResourceName = "orders"
    Keys <- MCKeys
    Values <- MCValues
    Unset = "unset"
    AcceptedReplicas = {1, 2}
    ForeignTopics <- ForeignSmall
    ForeignSizes = {2}
    NotFoundRecognised = FALSE
PROPERTIES
    EventuallyReady
    EventuallyCleaned
