-------------------------------- MODULE RWLock --------------------------------
(***************************************************************************)
(* What a std::shared_mutex promises: a thread alone, or any number of     *)
(* threads that share.  CAliasAddr, CConfigAliases and CRawMessage are     *)
(* written against this promise (lock_guard and shared_lock).              *)
(***************************************************************************)
CONSTANT Threads

VARIABLES writers, readers   \* who holds the lock, exclusively or shared

Init == writers = {} /\ readers = {}

Acquire(t) == writers = {} /\ readers = {} /\ writers' = {t} /\ UNCHANGED readers

AcquireShared(t) == writers = {} /\ readers' = readers \cup {t} /\ UNCHANGED writers

Release(t) == t \in writers /\ writers' = {} /\ UNCHANGED readers

ReleaseShared(t) == t \in readers /\ readers' = readers \ {t} /\ UNCHANGED writers

Next == \E t \in Threads : Acquire(t) \/ AcquireShared(t) \/ Release(t) \/ ReleaseShared(t)

Spec == Init /\ [][Next]_<<writers, readers>>
===============================================================================
