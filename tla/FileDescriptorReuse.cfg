\* An object that is given another file without a close() before: open(),
\* add_fildes() and reset() assign fd and forget the descriptor it owns.
SPECIFICATION Spec
CONSTANTS
    MaxFd = 3
    Interruptions = {"kept"}
    CloseFirst = FALSE
    Wants = {0, 1, 4}
    Lefts = {0, 3, 4, 5}
INVARIANT
    NoLeak
