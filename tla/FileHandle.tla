----------------------------- MODULE FileHandle -----------------------------
(***************************************************************************)
(* The descriptor of LZ4File and DeflateFile, which keep it alike: opened  *)
(* by name it is the object's to close, handed in it stays the caller's.   *)
(* Other threads of the process open and close descriptors meanwhile, and  *)
(* the system gives the lowest number that is free.  FileDescriptor        *)
(* composes it with DetailRead.                                            *)
(***************************************************************************)
EXTENDS Integers, FiniteSets

CONSTANTS MaxFd,          \* bound: descriptors 0 .. MaxFd
          Interruptions,  \* what a close() that fails with EINTR did: "kept",
                          \* "closed" (POSIX leaves it open; Linux closes)
          CloseFirst      \* the caller close()s before it attaches again

VARIABLES open,           \* the descriptors open in the process
          held,           \* those the rest of the process has opened
          fd, fd_internal,
          pc,             \* "idle", "closing" in detail::close(), "gone"
          last            \* the destructor made the close() in progress

vars == <<open, held, fd, fd_internal, pc, last>>

Fds == 0 .. MaxFd

Fresh == CHOOSE f \in Fds \ open : \A g \in Fds \ open : f <= g

Init ==
    /\ open \in SUBSET Fds /\ held = open
    /\ fd = -1 /\ fd_internal = FALSE
    /\ pc = "idle" /\ last = FALSE

(* open(), add_fildes() and the reset() of either assign fd and never look *)
(* at the descriptor the object has: it is the caller who close()s first,  *)
(* or does not.                                                            *)
MayAttach == pc = "idle" /\ (CloseFirst => fd = -1)

(* open(filename), reset(filename): a failure throws, with -1 assigned.    *)
Open ==
    /\ MayAttach
    /\ \/ /\ open # Fds
          /\ fd' = Fresh /\ open' = open \cup {Fresh}
          /\ fd_internal' = TRUE
       \/ /\ fd' = -1
          /\ UNCHANGED <<open, fd_internal>>
    /\ UNCHANGED <<held, pc, last>>

(* add_fildes(fd), reset(fd): a descriptor of the caller's.                *)
AddFildes ==
    /\ MayAttach
    /\ fd' \in held /\ fd_internal' = FALSE
    /\ UNCHANGED <<open, held, pc, last>>

(* Wrong: any descriptor is closed; a borrowed one too; 0 is taken for no  *)
(* descriptor.                                                             *)
OwnsAny == TRUE
OwnsBorrowed == fd # -1
OwnsPositive == fd_internal /\ fd > 0

Owns == fd_internal /\ fd # -1

(* Wrong: the number is kept when the descriptor is closed.                *)
DetachedKept == pc' = "idle" /\ UNCHANGED <<fd, fd_internal>>

Detached == fd' = -1 /\ fd_internal' = FALSE /\ pc' = IF last' THEN "gone" ELSE "idle"

(* close(), from the caller or from the destructor.                        *)
Close ==
    /\ pc = "idle"
    /\ last' \in BOOLEAN
    /\ \/ Owns /\ pc' = "closing" /\ UNCHANGED <<fd, fd_internal>>
       \/ ~Owns /\ Detached
    /\ UNCHANGED <<open, held>>

(* ::close() closes the descriptor, whatever it returns, or finds none.    *)
Closes ==
    /\ pc = "closing"
    /\ open' = open \ {fd} /\ UNCHANGED last
    /\ Detached
    /\ UNCHANGED held

(* do { ... } while (r == -1 && errno == EINTR): ::close() is called again.*)
Interrupted ==
    /\ pc = "closing"
    /\ fd \in open
    /\ \E done \in Interruptions :
         open' = IF done = "closed" THEN open \ {fd} ELSE open
    /\ UNCHANGED <<held, fd, fd_internal, pc, last>>

(* The rest of the process.                                                *)
OtherOpens ==
    /\ open # Fds
    /\ open' = open \cup {Fresh} /\ held' = held \cup {Fresh}
    /\ UNCHANGED <<fd, fd_internal, pc, last>>

OtherCloses ==
    /\ \E f \in held : open' = open \ {f} /\ held' = held \ {f}
    /\ UNCHANGED <<fd, fd_internal, pc, last>>

Next ==
    \/ Open \/ AddFildes \/ Close
    \/ Closes \/ Interrupted
    \/ OtherOpens \/ OtherCloses
=============================================================================
