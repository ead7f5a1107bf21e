SPECIFICATION FairSpec
CONSTANTS
    MaxRows = 5
    PageSize = 2
    MaxErrors = 2
    MaxCancels = 2
    Chain <- Embedded
    Chunk = 3
    MaxReads = 3
    MaxSize = 14
    Chunks <- ThreeAttachments
    Messages <- TwoMessages
    Specials <- ThreeFolders
    Names <- TwoNames
    Lists <- TwoLists
INVARIANTS
    ReadsAreWhole SavedAsTold HandlesComeBackOnce
    ObjectsAreAsTold NamesAreTheStores
PROPERTIES
    LostIsLost EveryCallReturns
