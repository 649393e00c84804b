SPECIFICATION Spec
CONSTANTS
    MaxFd = 3
    Interruptions = {"closed"}
    CloseFirst = TRUE
    Wants = {0, 1, 4}
    Lefts = {0, 3, 4, 5}
INVARIANT
    NeverClosesAnothers
