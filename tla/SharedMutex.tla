----------------------------- MODULE SharedMutex -----------------------------
(***************************************************************************)
(* __shared_mutex_cv of lib/lock/shared_mutex_kes.h, the implementation of *)
(* std::shared_mutex that a C++11 build takes where there is no            *)
(* pthread_rwlock_t (where there is one the class hands every call to it,  *)
(* which RWLock describes).                                                *)
(*                                                                         *)
(* Every access to _M_state is made under _M_mut, which wait releases      *)
(* while it blocks: a step is a stretch between two such points.  _M_state *)
(* is the pair of its write-entered bit and its count of readers.  A call  *)
(* of try_lock or try_lock_shared that fails changes nothing.              *)
(***************************************************************************)
EXTENDS Naturals, FiniteSets

CONSTANTS Threads,
          MaxReaders    \* _S_max_readers, 2^31 - 1 in the code

ASSUME SharedMutexAssumption == MaxReaders \in Nat \ {0}

VARIABLES
    entered,    \* the write-entered flag
    count,      \* the reader count
    at          \* where a thread is

lockVars == <<entered, count, at>>

Places == {"out",                    \* holds nothing, is in no call
           "gate1W", "gate1R",       \* lock, lock_shared: asleep in _M_gate1.wait
           "wokenW", "wokenR",       \* woken there, the predicate not yet tested
           "gate2", "woken2",        \* lock: asleep in _M_gate2.wait, and woken
           "write", "read"}          \* holds the lock

At(p) == {t \in Threads : at[t] = p}

Writers == At("write")
Readers == At("read")

LockTypeOK ==
    /\ entered \in BOOLEAN
    /\ count \in 0 .. MaxReaders
    /\ at \in [Threads -> Places]

LockInit ==
    /\ entered = FALSE
    /\ count = 0
    /\ at = [t \in Threads |-> "out"]

-----------------------------------------------------------------------------
Goto(t, p) == at' = [at EXCEPT ![t] = p]

(* The second wait of lock: are there readers left? *)
Gate2(t) == Goto(t, IF count = 0 THEN "write" ELSE "gate2")

(* Mutant: the flag is set whether another writer has set it or not. *)
Lock_NoGate1(t) ==
    /\ at[t] \in {"out", "wokenW"}
    /\ entered' = TRUE
    /\ Gate2(t)
    /\ UNCHANGED count

(* lock, from its start or from its first wait: the flag, then the readers. *)
Lock(t) ==
    /\ at[t] \in {"out", "wokenW"}
    /\ \/ ~entered /\ entered' = TRUE /\ Gate2(t)
       \/ entered /\ Goto(t, "gate1W") /\ UNCHANGED entered
    /\ UNCHANGED count

(* lock, woken in its second wait. *)
LockAgain(t) ==
    /\ at[t] = "woken2"
    /\ Gate2(t)
    /\ UNCHANGED <<entered, count>>

TryLock(t) ==
    /\ at[t] = "out"
    /\ ~entered /\ count = 0
    /\ entered' = TRUE
    /\ Goto(t, "write")
    /\ UNCHANGED count

WakeGate1(p) == CASE p = "gate1W" -> "wokenW" [] p = "gate1R" -> "wokenR" [] OTHER -> p

(* unlock, with its notify_all. *)
Unlock(t) ==
    /\ at[t] = "write"
    /\ entered' = FALSE
    /\ count' = 0
    /\ at' = [u \in Threads |-> IF u = t THEN "out" ELSE WakeGate1(at[u])]

(* _M_state < _S_max_readers: the flag is the high bit. *)
MayRead == ~entered /\ count < MaxReaders

(* Mutant: readers do not wait for the flag. *)
LockShared_IgnoresWriter(t) ==
    /\ at[t] \in {"out", "wokenR"}
    /\ count < MaxReaders
    /\ count' = count + 1
    /\ Goto(t, "read")
    /\ UNCHANGED entered

LockShared(t) ==
    /\ at[t] \in {"out", "wokenR"}
    /\ \/ MayRead /\ count' = count + 1 /\ Goto(t, "read")
       \/ ~MayRead /\ Goto(t, "gate1R") /\ UNCHANGED count
    /\ UNCHANGED entered

TryLockShared(t) ==
    /\ at[t] = "out"
    /\ MayRead
    /\ count' = count + 1
    /\ Goto(t, "read")
    /\ UNCHANGED entered

(* Mutant: the last reader does not look whether a writer is queued. *)
UnlockShared_NoNotify(t) ==
    /\ at[t] = "read"
    /\ count' = count - 1
    /\ Goto(t, "out")
    /\ UNCHANGED entered

(* unlock_shared: the last reader wakes the queued writer; without one, the *)
(* reader that frees the last place wakes one thread at the first gate.     *)
UnlockShared(t) ==
    /\ at[t] = "read"
    /\ count' = count - 1
    /\ UNCHANGED entered
    /\ LET left == [at EXCEPT ![t] = "out"]
           woken == IF entered
                    THEN IF count = 1 THEN At("gate2") ELSE {}
                    ELSE IF count = MaxReaders THEN At("gate1W") \cup At("gate1R") ELSE {}
       IN  IF woken = {}
           THEN at' = left
           ELSE \E u \in woken :
                   at' = [left EXCEPT ![u] = IF entered THEN "woken2" ELSE WakeGate1(at[u])]

(* A wait may return without a notification. *)
SpuriousWake(t) ==
    /\ at[t] \in {"gate1W", "gate1R", "gate2"}
    /\ Goto(t, IF at[t] = "gate2" THEN "woken2" ELSE WakeGate1(at[t]))
    /\ UNCHANGED <<entered, count>>

LockStep(t) ==
    \/ Lock(t) \/ LockAgain(t) \/ TryLock(t) \/ Unlock(t)
    \/ LockShared(t) \/ TryLockShared(t) \/ UnlockShared(t)
    \/ SpuriousWake(t)

LockNext == \E t \in Threads : LockStep(t)

LockSpec == LockInit /\ [][LockNext]_lockVars

-----------------------------------------------------------------------------
(* One thread writes alone, or threads read: what the callers of the lock    *)
(* rely on.                                                                  *)
Exclusion ==
    /\ Writers # {} => Readers = {}
    /\ \A t, u \in Writers : t = u

(* The asserts of the class: the count is that of the threads that read, and *)
(* the flag is set by the one thread that writes or is queued to.            *)
StateIsHolders ==
    /\ count = Cardinality(Readers)
    /\ entered <=> Writers \cup At("gate2") \cup At("woken2") # {}

(* Nobody sleeps who could go on and whom nobody is going to wake.  Two      *)
(* places left one after the other wake one thread, so this needs a place    *)
(* for all but one of the threads; the program has far fewer than 2^31 - 1.  *)
NobodyForgotten ==
    /\ At("gate2") # {} => count > 0
    /\ At("gate1W") \cup At("gate1R") # {} =>
          entered \/ count = MaxReaders \/ At("wokenW") \cup At("wokenR") # {}

RW == INSTANCE RWLock WITH writers <- Writers, readers <- Readers

ImplementsRWLock == RW!Spec
===============================================================================
