SPECIFICATION Spec
CONSTANTS
    Specs <- MixedSpecs
    Edits <- MixedEdits
    MaxGen = 2
    Names <- MCNames
    NoName = ""
    ResourceName = "orders"
    Keys <- MCKeys
    Values <- MCValues
    Unset = "unset"
    AcceptedReplicas = {1, 2}
    ForeignTopics <- ForeignLarge
    ForeignSizes = {2}
    NotFoundRecognised = FALSE
INVARIANTS
    TypeOK
    TopicInv
    ReadyMeansApplied
    NoOrphan
    NoLostWakeup
PROPERTIES
    ImplementsManaged
    OnlyDeletionDeletes
    ForeignUntouched
    OtherKeysKept
    TopicsOnlyGrow
