\* Four descriptors: the object's, the one it is lent, and two that
\* another thread opens meanwhile.  0 is one of them.  Calls for up to
\* four bytes, cut by short reads in every way, with and without the end
\* of the file in reach.
SPECIFICATION Spec
CONSTANTS
    MaxFd = 3
    Interruptions = {"kept"}
    CloseFirst = TRUE
    Wants = {0, 1, 4}
    Lefts = {0, 3, 4, 5}
INVARIANTS
    TypeOK
    NeverClosesAnothers
    NoLeak
    Promise
PROPERTIES
    Returns
