SPECIFICATION Spec
CONSTANTS
    Specs <- OwningSpecs
    Edits <- OwningEdits
    MaxGen = 2
    Names <- MCNames
    NoName = ""
    ResourceName = "orders"
    Keys <- MCKeys
    Values <- MCValues
    Unset = "unset"
    AcceptedReplicas = {1, 2}
    ForeignTopics <- Nobody
    ForeignSizes = {}
    NotFoundRecognised = FALSE
INVARIANT
    ReadyMeansAsAsked
