SPECIFICATION FairSpec
CONSTANTS
    Variants = {v1, v2}
    Writers = {w1, w2}
    PageSize = 1
    MaxPages = 2
    MaxSequence = 2
    MaxFailures = 1
    MaxScheduled = 1
    Nothing = Nothing
    Unread = Unread
    NoCursor = NoCursor
INVARIANTS
    CatalogHonest
PROPERTIES
    CatalogConverges
