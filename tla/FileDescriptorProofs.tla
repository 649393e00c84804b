------------------------ MODULE FileDescriptorProofs ------------------------
(***************************************************************************)
(* The descriptor of the *File classes, for any number of descriptors and  *)
(* whatever other threads do, and detail::read for any length.             *)
(***************************************************************************)
EXTENDS FileDescriptor, WellFoundedInduction, TLAPS

-----------------------------------------------------------------------------
(* The lowest number that is free is one, and free.                        *)
LEMMA FreshIsFree ==
    ASSUME open # Handle!Fds, open \subseteq Handle!Fds
    PROVE  Handle!Fresh \in Handle!Fds \ open
<1> DEFINE F == Handle!Fds \ open
<1>1. F \subseteq Nat
  BY DescriptorAssumption DEF Handle!Fds
<1>0. F # {}
  <2> SUFFICES ASSUME F = {} PROVE open = Handle!Fds
    OBVIOUS
  <2>1. \A f \in Handle!Fds : f \in open
    OBVIOUS
  <2> QED
    BY <2>1
<1>2. \E f \in F : \A g \in F : ~(<<g, f>> \in OpToRel(<, Nat))
  BY <1>0, <1>1, WFMin, NatLessThanWellFounded
<1>3. \E f \in F : \A g \in F : f <= g
  <2>1. PICK f \in F : \A g \in F : ~(<<g, f>> \in OpToRel(<, Nat))
    BY <1>2
  <2>2. ASSUME NEW g \in F PROVE f <= g
    <3>1. f \in Nat /\ g \in Nat
      BY <1>1
    <3> HIDE DEF F
    <3>2. ~(<<g, f>> \in OpToRel(<, Nat))
      BY <2>1
    <3>3. g < f => <<g, f>> \in OpToRel(<, Nat)
      BY <3>1 DEF OpToRel
    <3>4. ~(g < f)
      BY <3>2, <3>3, Zenon
    <3> QED
      BY <3>1, <3>4, SMT
  <2> QED
    BY <2>2
<1> QED
  BY <1>3 DEF Handle!Fresh

LEMMA FreshWhenRoom ==
    ASSUME open \subseteq Handle!Fds, open # Handle!Fds
    PROVE  Handle!Fresh \in Handle!Fds /\ Handle!Fresh \notin open /\ Handle!Fresh # -1
BY FreshIsFree, DescriptorAssumption DEF Handle!Fds

-----------------------------------------------------------------------------
(* What ::close() is called on, whatever the caller attaches over.         *)
KnownInv ==
    /\ open \subseteq Handle!Fds
    /\ fd_internal \in BOOLEAN
    /\ pc = "closing" => Handle!Owns

(* The steps that touch the descriptor, or none of its variables.          *)
HandleStep ==
    \/ Handle!Open \/ Handle!AddFildes
    \/ Handle!Close \/ Handle!Closes \/ Handle!Interrupted
    \/ Handle!OtherOpens \/ Handle!OtherCloses
    \/ UNCHANGED handleVars

LEMMA StepsOfHandle == [Next]_vars => HandleStep
BY DEF Next, vars, Attaches, Detaches, Reads, Others, HandleStep

LEMMA InitKnown == Init => KnownInv
BY DEF Init, Handle!Init, KnownInv

LEMMA StepKnown == KnownInv /\ HandleStep => KnownInv'
<1> SUFFICES ASSUME KnownInv, HandleStep PROVE KnownInv'
  OBVIOUS
<1> USE DEF KnownInv, Handle!Owns
<1>1. CASE Handle!Open
  BY <1>1, FreshWhenRoom DEF Handle!Open, Handle!MayAttach
<1>2. CASE Handle!AddFildes
  BY <1>2 DEF Handle!AddFildes, Handle!MayAttach
<1>3. CASE Handle!Close
  <2>1. CASE Handle!Owns /\ pc' = "closing" /\ UNCHANGED <<fd, fd_internal>>
    BY <1>3, <2>1 DEF Handle!Close
  <2>2. CASE ~Handle!Owns /\ Handle!Detached
    <3>1. pc' # "closing" /\ fd_internal' = FALSE /\ fd' = -1
      BY <2>2 DEF Handle!Detached
    <3>2. UNCHANGED <<open, held>>
      BY <1>3 DEF Handle!Close
    <3> QED
      BY <2>2, <3>1, <3>2
  <2> QED
    BY <1>3, <2>1, <2>2 DEF Handle!Close
<1>4. CASE Handle!Closes
  BY <1>4 DEF Handle!Closes, Handle!Detached
<1>5. CASE Handle!Interrupted
  BY <1>5 DEF Handle!Interrupted
<1>6. CASE Handle!OtherOpens
  BY <1>6, FreshWhenRoom DEF Handle!OtherOpens
<1>7. CASE Handle!OtherCloses
  BY <1>7 DEF Handle!OtherCloses
<1>8. CASE UNCHANGED handleVars
  BY <1>8 DEF handleVars
<1> QED
  BY <1>1, <1>2, <1>3, <1>4, <1>5, <1>6, <1>7, <1>8 DEF HandleStep

(* The object's descriptor is the only one that is open and that the rest  *)
(* of the process does not know of, whatever an interrupted close() did:   *)
(* what a caller has that close()s before it attaches again.               *)
LEMMA StepNoLeak ==
    ASSUME CloseFirst, KnownInv, NoLeak, HandleStep
    PROVE  NoLeak'
<1> USE DEF KnownInv, NoLeak, Handle!Owns
<1>1. CASE Handle!Open
  <2>1. fd = -1 /\ open \subseteq held
    BY <1>1 DEF Handle!Open, Handle!MayAttach
  <2> QED
    BY <1>1, <2>1, FreshWhenRoom DEF Handle!Open
<1>2. CASE Handle!AddFildes
  BY <1>2 DEF Handle!AddFildes, Handle!MayAttach
<1>3. CASE Handle!Close
  <2>1. CASE Handle!Owns /\ UNCHANGED <<fd, fd_internal>>
    BY <1>3, <2>1 DEF Handle!Close
  <2>2. CASE ~Handle!Owns
    BY <1>3, <2>2 DEF Handle!Close
  <2> QED
    BY <2>1, <2>2, <1>3 DEF Handle!Close
<1>4. CASE Handle!Closes
  BY <1>4 DEF Handle!Closes, Handle!Detached
<1>5. CASE Handle!Interrupted
  BY <1>5 DEF Handle!Interrupted
<1>6. CASE Handle!OtherOpens
  BY <1>6, FreshWhenRoom DEF Handle!OtherOpens
<1>7. CASE Handle!OtherCloses
  BY <1>7 DEF Handle!OtherCloses
<1>8. CASE UNCHANGED handleVars
  BY <1>8 DEF handleVars
<1> QED
  BY <1>1, <1>2, <1>3, <1>4, <1>5, <1>6, <1>7, <1>8 DEF HandleStep

(* No descriptor that the object has opened is left open when it lets go   *)
(* of it, however close() is interrupted and whatever other threads open,  *)
(* if every open(), add_fildes() and reset() comes after a close().  The   *)
(* run file_descriptor_reuse shows that the condition cannot be dropped.   *)
THEOREM NoDescriptorLeaks ==
    ASSUME CloseFirst
    PROVE  Spec => []NoLeak
<1>1. KnownInv /\ NoLeak /\ [Next]_vars => KnownInv' /\ NoLeak'
  BY StepKnown, StepNoLeak, StepsOfHandle
<1>2. Init => NoLeak
  BY DEF Init, Handle!Init, NoLeak
<1> QED
  BY InitKnown, <1>1, <1>2, PTL DEF Spec

-----------------------------------------------------------------------------
(* The descriptor that the object owns is nobody else's until ::close()    *)
(* has released its number.                                                *)
OwnInv ==
    /\ open \subseteq Handle!Fds
    /\ held \subseteq open
    /\ fd_internal \in BOOLEAN
    /\ pc = "closing" => Handle!Owns
    /\ Handle!Owns => fd \in open \ held

LEMMA InitOwn == Init => OwnInv
BY DEF Init, Handle!Init, OwnInv, Handle!Owns

LEMMA StepOwn ==
    ASSUME "closed" \notin Interruptions, OwnInv, HandleStep
    PROVE  OwnInv'
<1> USE DEF OwnInv, Handle!Owns
<1>1. CASE Handle!Open
  BY <1>1, FreshWhenRoom DEF Handle!Open, Handle!MayAttach
<1>2. CASE Handle!AddFildes
  BY <1>2 DEF Handle!AddFildes, Handle!MayAttach
<1>3. CASE Handle!Close
  <2>1. CASE Handle!Owns /\ pc' = "closing" /\ UNCHANGED <<fd, fd_internal>>
    BY <1>3, <2>1 DEF Handle!Close
  <2>2. CASE ~Handle!Owns /\ Handle!Detached
    <3>1. pc' # "closing" /\ fd_internal' = FALSE /\ fd' = -1
      BY <2>2 DEF Handle!Detached
    <3>2. UNCHANGED <<open, held>>
      BY <1>3 DEF Handle!Close
    <3> QED
      BY <2>2, <3>1, <3>2
  <2> QED
    BY <1>3, <2>1, <2>2 DEF Handle!Close
<1>4. CASE Handle!Closes
  BY <1>4 DEF Handle!Closes, Handle!Detached
<1>5. CASE Handle!Interrupted
  BY <1>5 DEF Handle!Interrupted
<1>6. CASE Handle!OtherOpens
  BY <1>6, FreshWhenRoom DEF Handle!OtherOpens
<1>7. CASE Handle!OtherCloses
  BY <1>7 DEF Handle!OtherCloses
<1>8. CASE UNCHANGED handleVars
  BY <1>8 DEF handleVars
<1> QED
  BY <1>1, <1>2, <1>3, <1>4, <1>5, <1>6, <1>7, <1>8 DEF HandleStep

(* Where an interrupted close() has kept the descriptor, no other thread's *)
(* is ever closed, by a caller that attaches over an open file neither:    *)
(* what the retry in detail::close() counts on.                            *)
THEOREM OthersAreKept ==
    ASSUME "closed" \notin Interruptions
    PROVE  Spec => []NeverClosesAnothers
<1>1. OwnInv /\ [Next]_vars => OwnInv'
  BY StepOwn, StepsOfHandle
<1>2. OwnInv => NeverClosesAnothers
  BY DEF OwnInv, NeverClosesAnothers
<1> QED
  BY InitOwn, <1>1, <1>2, PTL DEF Spec

-----------------------------------------------------------------------------
(* What detail::read() has read and what it still asks for make what it    *)
(* was asked for, until it returns.                                        *)
ReadInv ==
    /\ want \in Nat /\ left \in Nat /\ done \in Nat /\ nbyte \in Nat
    /\ error \in BOOLEAN
    /\ done <= left
    /\ ret = Reading!Pending => done + nbyte = want /\ error = FALSE
    /\ Promise

ReadStep == Reading!Next \/ UNCHANGED readVars

LEMMA StepsOfRead == [Next]_vars => ReadStep
BY DEF Next, vars, Attaches, Detaches, Reads, Others, ReadStep

(* The result keeps the promise, from the three ways to return.            *)
LEMMA AllThereIs ==
    ASSUME NEW w \in Nat, NEW l \in Nat, NEW d \in Nat, d = Lesser(w, l)
    PROVE  /\ [n |-> d, failed |-> FALSE] \in ReadResults(l, w)
           /\ Returned([n |-> d, failed |-> FALSE]) = d
BY DEF ReadResults, Returned, Lesser

LEMMA CutShort ==
    ASSUME NEW w \in Nat, NEW l \in Nat, NEW d \in Nat, d <= l, d < w
    PROVE  /\ [n |-> d, failed |-> TRUE] \in ReadResults(l, w)
           /\ Returned([n |-> d, failed |-> TRUE]) = IF d = 0 THEN -1 ELSE d
BY DEF ReadResults, Returned, Lesser

LEMMA Taken ==
    ASSUME NEW n \in Nat, NEW m \in Nat, NEW c \in 1 .. Lesser(n, m)
    PROVE  c \in Nat /\ c <= n /\ c <= m
BY DEF Lesser

LEMMA InitRead == Init => ReadInv
<1> SUFFICES ASSUME Init PROVE ReadInv
  OBVIOUS
<1>1. /\ want = 0 /\ left = 0 /\ done = 0 /\ nbyte = 0
      /\ error = FALSE /\ ret = 0
  BY DEF Init, Reading!Init
<1>2. Promise
  BY <1>1, AllThereIs DEF Promise, Lesser
<1>3. ret # Reading!Pending
  BY <1>1 DEF Reading!Pending
<1>4. done <= left
  BY <1>1
<1> QED
  BY <1>1, <1>2, <1>3, <1>4 DEF ReadInv

LEMMA StepRead == ReadInv /\ ReadStep => ReadInv'
<1> SUFFICES ASSUME ReadInv, ReadStep PROVE ReadInv'
  OBVIOUS
<1> USE DEF ReadInv, Quiet, Reading!Pending
<1>1. ASSUME NEW n \in Wants, NEW l \in Lefts, Reading!Call(n, l)
      PROVE  ReadInv'
  <2>1. /\ want' = n /\ left' = l /\ done' = 0 /\ nbyte' = n
        /\ error' = FALSE /\ ret' = -2
    BY <1>1 DEF Reading!Call
  <2>2. n \in Nat /\ l \in Nat
    BY DescriptorAssumption
  <2>3. done' <= left' /\ done' + nbyte' = want'
    BY <2>1, <2>2
  <2>4. Promise'
    BY <2>1 DEF Promise
  <2> QED
    BY <2>1, <2>2, <2>3, <2>4
<1>2. ASSUME NEW c \in 1 .. want, Reading!Takes(c)
      PROVE  ReadInv'
  <2>1. /\ ret = -2 /\ c \in Nat /\ c <= nbyte /\ c <= left - done
        /\ done' = done + c
        /\ want' = want /\ left' = left /\ error' = FALSE
    <3>1. /\ c \in 1 .. Lesser(nbyte, left - done)
          /\ done' = done + c
          /\ want' = want /\ left' = left /\ error' = error
      BY <1>2 DEF Reading!Takes, Reading!Lesser, Lesser
    <3>2. /\ ret = -2 /\ error = FALSE
          /\ left - done \in Nat
      BY <1>2 DEF Reading!Takes, Reading!InLoop
    <3>3. c \in Nat /\ c <= nbyte /\ c <= left - done
      BY <3>1, <3>2, Taken
    <3> QED
      BY <3>1, <3>2, <3>3
  <2>2. done' \in Nat /\ done' <= left /\ left' = left
    BY <2>1
  <2>3. CASE c = nbyte
    <3>1. ret' = done' /\ nbyte' = nbyte
      BY <1>2, <2>3 DEF Reading!Takes
    <3>2. done' = want
      BY <2>1, <2>3
    <3>3. done' = Lesser(want, left)
      BY <3>2, <2>2 DEF Lesser
    <3>4. Promise'
      BY <2>1, <2>2, <3>1, <3>3, AllThereIs DEF Promise
    <3>5. ret' # -2
      BY <2>2, <3>1
    <3>6. nbyte' \in Nat /\ want' \in Nat /\ left' \in Nat /\ error' \in BOOLEAN
      BY <2>1, <3>1
    <3> QED
      BY <2>2, <3>4, <3>5, <3>6
  <2>4. CASE c # nbyte
    <3>1. nbyte' = nbyte - c /\ ret' = ret
      BY <1>2, <2>4 DEF Reading!Takes, Reading!Remaining
    <3>2. nbyte' \in Nat /\ done' + nbyte' = want'
      BY <2>1, <3>1
    <3>3. Promise'
      BY <2>1, <3>1 DEF Promise
    <3>4. want' \in Nat /\ left' \in Nat /\ error' = FALSE
      BY <2>1
    <3> QED
      BY <2>2, <3>2, <3>3, <3>4
  <2> QED
    BY <2>3, <2>4
<1>3. CASE Reading!AtEOF
  <2>1. /\ ret = -2 /\ done = left /\ nbyte # 0 /\ ret' = done
        /\ UNCHANGED <<want, left, done, nbyte, error>>
    BY <1>3 DEF Reading!AtEOF, Reading!OnEOF, Reading!InLoop
  <2>2. done = Lesser(want, left) /\ error = FALSE
    BY <2>1 DEF Lesser
  <2>3. Promise'
    BY <2>1, <2>2, AllThereIs DEF Promise
  <2> QED
    BY <2>1, <2>3
<1>4. CASE Reading!Fails
  <2>1. /\ ret = -2 /\ nbyte # 0 /\ error' = TRUE
        /\ ret' = IF done = 0 THEN -1 ELSE done
        /\ UNCHANGED <<want, left, done, nbyte>>
    BY <1>4 DEF Reading!Fails, Reading!OnError, Reading!InLoop
  <2>2. done < want
    BY <2>1
  <2>3. Promise'
    BY <2>1, <2>2, CutShort DEF Promise
  <2>4. ret' # -2
    BY <2>1
  <2> QED
    BY <2>1, <2>3, <2>4
<1>5. CASE Reading!AskedForNothing
  <2>1. /\ ret = -2 /\ nbyte = 0 /\ ret' = done
        /\ UNCHANGED <<want, left, done, nbyte, error>>
    BY <1>5 DEF Reading!AskedForNothing
  <2>2. done = Lesser(want, left) /\ error = FALSE
    BY <2>1 DEF Lesser
  <2>3. Promise'
    BY <2>1, <2>2, AllThereIs DEF Promise
  <2> QED
    BY <2>1, <2>3
<1>6. CASE Reading!Interrupted \/ UNCHANGED readVars
  BY <1>6 DEF Reading!Interrupted, Reading!vars, readVars, Promise
<1> QED
  BY <1>1, <1>2, <1>3, <1>4, <1>5, <1>6 DEF ReadStep, Reading!Next, Reading!Answered

(* Every call of detail::read(), of any length and cut in any way by short *)
(* reads, interruptions and errors, returns what the file classes assume.  *)
THEOREM ReadKeepsPromise == Spec => []Promise
<1>1. ReadInv /\ [Next]_vars => ReadInv'
  BY StepRead, StepsOfRead
<1>2. ReadInv => Promise
  BY DEF ReadInv
<1> QED
  BY InitRead, <1>1, <1>2, PTL DEF Spec

-----------------------------------------------------------------------------
(* The types of both parts.                                                *)
HandleType ==
    /\ held \subseteq Handle!Fds
    /\ fd \in Handle!Fds \cup {-1}
    /\ pc \in {"idle", "closing", "gone"}

LEMMA StepHandleType == KnownInv /\ HandleType /\ HandleStep => HandleType'
<1> SUFFICES ASSUME KnownInv, HandleType, HandleStep PROVE HandleType'
  OBVIOUS
<1> USE DEF KnownInv, HandleType
<1>1. CASE Handle!Open
  BY <1>1, FreshWhenRoom DEF Handle!Open
<1>2. CASE Handle!AddFildes
  BY <1>2 DEF Handle!AddFildes
<1>3. CASE Handle!Close
  <2>1. CASE Handle!Owns /\ pc' = "closing" /\ UNCHANGED <<fd, fd_internal>>
    BY <1>3, <2>1 DEF Handle!Close
  <2>2. CASE Handle!Detached
    <3>1. pc' \in {"idle", "gone"} /\ fd' = -1
      BY <2>2 DEF Handle!Detached
    <3> QED
      BY <1>3, <3>1 DEF Handle!Close
  <2> QED
    BY <1>3, <2>1, <2>2 DEF Handle!Close
<1>4. CASE Handle!Closes
  <2>1. pc' \in {"idle", "gone"} /\ fd' = -1 /\ held' = held
    BY <1>4 DEF Handle!Closes, Handle!Detached
  <2> QED
    BY <2>1
<1>5. CASE Handle!Interrupted
  BY <1>5 DEF Handle!Interrupted
<1>6. CASE Handle!OtherOpens
  BY <1>6, FreshWhenRoom DEF Handle!OtherOpens
<1>7. CASE Handle!OtherCloses
  BY <1>7 DEF Handle!OtherCloses
<1>8. CASE UNCHANGED handleVars
  BY <1>8 DEF handleVars
<1> QED
  BY <1>1, <1>2, <1>3, <1>4, <1>5, <1>6, <1>7, <1>8 DEF HandleStep

LEMMA StepLast == last \in BOOLEAN /\ HandleStep => last' \in BOOLEAN
BY DEF HandleStep, Handle!Open, Handle!AddFildes, Handle!Close, Handle!Closes,
       Handle!Interrupted, Handle!OtherOpens, Handle!OtherCloses, handleVars

ReadType ==
    /\ want \in Wants \cup {0} /\ left \in Lefts \cup {0}
    /\ done <= want /\ nbyte <= want
    /\ ret \in Nat \cup {-1, Reading!Pending}

LEMMA StepReadType == ReadInv /\ ReadType /\ ReadStep => ReadType'
<1> SUFFICES ASSUME ReadInv, ReadType, ReadStep PROVE ReadType'
  OBVIOUS
<1> USE DEF ReadInv, ReadType, Reading!Pending
<1>1. ASSUME NEW n \in Wants, NEW l \in Lefts, Reading!Call(n, l)
      PROVE  ReadType'
  BY <1>1, DescriptorAssumption DEF Reading!Call
<1>2. ASSUME NEW c \in 1 .. want, Reading!Takes(c)
      PROVE  ReadType'
  <2>1. c \in 1 .. Lesser(nbyte, left - done) /\ ret = -2 /\ left - done \in Nat
    BY <1>2 DEF Reading!Takes, Reading!InLoop, Reading!Lesser, Lesser
  <2>2. c \in Nat /\ c <= nbyte /\ done + nbyte = want
    BY <2>1, Taken
  <2> QED
    BY <1>2, <2>1, <2>2 DEF Reading!Takes, Reading!Remaining
<1>3. CASE Reading!AtEOF
  BY <1>3 DEF Reading!AtEOF, Reading!OnEOF
<1>4. CASE Reading!Fails
  BY <1>4 DEF Reading!Fails, Reading!OnError
<1>5. CASE Reading!AskedForNothing
  BY <1>5 DEF Reading!AskedForNothing
<1>6. CASE Reading!Interrupted \/ UNCHANGED readVars
  BY <1>6 DEF Reading!Interrupted, Reading!vars, readVars
<1> QED
  BY <1>1, <1>2, <1>3, <1>4, <1>5, <1>6 DEF ReadStep, Reading!Next, Reading!Answered

(* Every variable of the descriptor and of the call in progress keeps its  *)
(* type, whatever other threads do and however close() is interrupted.     *)
THEOREM DescriptorTypeOK == Spec => []TypeOK
<1> DEFINE Inv == KnownInv /\ HandleType /\ last \in BOOLEAN /\ ReadInv /\ ReadType
<1>1. Init => Inv
  <2>1. Init => HandleType /\ last \in BOOLEAN
    BY DEF Init, Handle!Init, HandleType
  <2>2. Init => ReadType
    BY DEF Init, Reading!Init, ReadType
  <2> QED
    BY <2>1, <2>2, InitKnown, InitRead
<1>2. Inv /\ [Next]_vars => Inv'
  BY StepsOfHandle, StepsOfRead, StepKnown, StepHandleType, StepLast, StepRead, StepReadType
<1>3. Inv => TypeOK
  BY DEF KnownInv, HandleType, ReadInv, ReadType, TypeOK, Handle!Owns, Lesser
<1> QED
  BY <1>1, <1>2, <1>3, PTL DEF Spec
=============================================================================
