SPECIFICATION Spec
CONSTANTS
    Specs <- Refusing
    Edits <- RefusingEdits
    MaxGen = 2
    Names <- MCNames
    NoName = ""
    ResourceName = "orders"
    Keys <- MCKeys
    Values <- MCValues
    Unset = "unset"
    AcceptedReplicas = {1, 2}
    ForeignTopics <- ForeignLarge
    ForeignSizes = {}
    NotFoundRecognised = FALSE
PROPERTY
    NotOwnedNotTouched
