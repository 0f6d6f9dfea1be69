SPECIFICATION FairSpec
CONSTANTS
    Ids = {1, 2, 3, 4, 5}
    MaxLimit = 3
    Limits = {0, 1, 2, 9}
    NULL = NULL
    Malformed = Malformed
INVARIANTS WalkIsComplete NextPageHasRows
PROPERTIES PagesAdvance WalkEnds
CHECK_DEADLOCK FALSE
