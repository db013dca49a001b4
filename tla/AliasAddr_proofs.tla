---------------------------- MODULE AliasAddr_proofs ----------------------------
(***************************************************************************)
(* Proofs about the shared mutex and about the maps it guards.             *)
(***************************************************************************)
EXTENDS AliasAddr, FiniteSetTheorems, TLAPS

(* Who has set the write-entered flag: the one that writes or is queued to. *)
Entrants == Writers \cup At("gate2") \cup At("woken2")

(* The state of the mutex in which its next step keeps its promise: the     *)
(* count is that of the readers, the flag that of the one entrant, and the  *)
(* entrant writes only when there are no readers left.                      *)
LockInv ==
    /\ LockTypeOK
    /\ IsFiniteSet(Readers)
    /\ StateIsHolders
    /\ \A t, u \in Entrants : t = u
    /\ Writers # {} => count = 0

LEMMA LockInvInit == LockInit => LockInv
<1> SUFFICES ASSUME LockInit PROVE LockInv
  OBVIOUS
<1>1. Readers = {} /\ Entrants = {}
  BY DEF LockInit, Readers, Entrants, Writers, At
<1>2. IsFiniteSet({}) /\ Cardinality({}) = 0
  BY FS_EmptySet
<1>3. LockTypeOK
  <2>1. 0 \in 0 .. MaxReaders
    BY SharedMutexAssumption
  <2> QED
    BY <2>1 DEF LockInit, LockTypeOK, Places
<1>4. StateIsHolders
  BY <1>1, <1>2 DEF LockInit, StateIsHolders, Entrants
<1> QED
  BY <1>1, <1>2, <1>3, <1>4 DEF LockInit, LockInv

(* What a step that moves one thread does to the sets of threads. *)
LEMMA MoveOne ==
    ASSUME LockTypeOK, NEW t \in Threads, NEW p \in Places, at' = [at EXCEPT ![t] = p]
    PROVE  /\ at' \in [Threads -> Places]
           /\ Readers' = IF p = "read" THEN Readers \cup {t} ELSE Readers \ {t}
           /\ Writers' = IF p = "write" THEN Writers \cup {t} ELSE Writers \ {t}
           /\ Entrants' = IF p \in {"write", "gate2", "woken2"}
                          THEN Entrants \cup {t} ELSE Entrants \ {t}
  BY DEF LockTypeOK, Readers, Writers, Entrants, At

(* What a step that moves one thread out and wakes one at a gate does. *)
LEMMA MoveAndWake ==
    ASSUME LockTypeOK, NEW t \in Threads, NEW u \in Threads \ {t},
           NEW p \in Places, at[t] = "read",
           at' = [[at EXCEPT ![t] = "out"] EXCEPT ![u] = p],
           \/ at[u] = "gate2" /\ p = "woken2"
           \/ at[u] = "gate1W" /\ p = "wokenW"
           \/ at[u] = "gate1R" /\ p = "wokenR"
    PROVE  /\ at' \in [Threads -> Places]
           /\ Readers' = Readers \ {t}
           /\ Writers' = Writers
           /\ Entrants' = Entrants
  BY DEF LockTypeOK, Readers, Writers, Entrants, At, Places

(* Entering the shared section. *)
LEMMA OneMoreReader ==
    ASSUME LockInv, NEW t \in Threads, at[t] # "read", MayRead,
           count' = count + 1, entered' = entered, Goto(t, "read"),
           t \notin Entrants
    PROVE  LockInv'
<1>1. /\ at' \in [Threads -> Places]
      /\ Readers' = Readers \cup {t}
      /\ Writers' = Writers \ {t}
      /\ Entrants' = Entrants \ {t}
  BY MoveOne DEF LockInv, Goto, Places
<1>2. t \notin Readers
  BY DEF Readers, At
<1>3. IsFiniteSet(Readers') /\ Cardinality(Readers') = Cardinality(Readers) + 1
  BY <1>1, <1>2, FS_AddElement DEF LockInv
<1>4. Entrants = {}
  BY DEF LockInv, StateIsHolders, MayRead, Entrants
<1>5. Writers' = {} /\ Entrants' = {}
  BY <1>1, <1>4 DEF Entrants
<1>6. ~entered' /\ count' \in 0 .. MaxReaders
  BY SharedMutexAssumption DEF LockInv, LockTypeOK, MayRead
<1> QED
  BY <1>1, <1>3, <1>4, <1>5, <1>6
     DEF LockInv, LockTypeOK, StateIsHolders, Entrants

(* Leaving the shared section, whether it wakes a thread or not. *)
LEMMA OneReaderLess ==
    ASSUME LockInv, NEW t \in Threads, UnlockShared(t)
    PROVE  /\ LockInv'
           /\ Readers' = Readers \ {t} /\ Writers' = Writers
<1> USE DEF LockInv
<1>1. /\ at' \in [Threads -> Places]
      /\ Readers' = Readers \ {t} /\ Writers' = Writers /\ Entrants' = Entrants
  <2> DEFINE left == [at EXCEPT ![t] = "out"]
  <2>1. CASE at' = left
    <3>1. t \notin Entrants /\ t \notin Writers
      BY DEF UnlockShared, Entrants, Writers, At
    <3>2. /\ at' \in [Threads -> Places]
          /\ Readers' = IF "out" = "read" THEN Readers \cup {t} ELSE Readers \ {t}
          /\ Writers' = IF "out" = "write" THEN Writers \cup {t} ELSE Writers \ {t}
          /\ Entrants' = IF "out" \in {"write", "gate2", "woken2"}
                         THEN Entrants \cup {t} ELSE Entrants \ {t}
      <4>1. "out" \in Places
        BY DEF Places
      <4> QED
        BY <2>1, <4>1, MoveOne
    <3> QED
      BY <3>1, <3>2
  <2>2. CASE at' # left
    <3>1. PICK u \in At("gate2") \cup At("gate1W") \cup At("gate1R") :
             /\ at' = [left EXCEPT ![u] = IF entered THEN "woken2" ELSE WakeGate1(at[u])]
             /\ entered <=> at[u] = "gate2"
      BY <2>2 DEF UnlockShared, At
    <3>2. u \in Threads \ {t} /\ at[t] = "read"
      BY DEF UnlockShared, At
    <3> DEFINE p == IF entered THEN "woken2" ELSE WakeGate1(at[u])
    <3>3. /\ p \in Places
          /\ \/ at[u] = "gate2" /\ p = "woken2"
             \/ at[u] = "gate1W" /\ p = "wokenW"
             \/ at[u] = "gate1R" /\ p = "wokenR"
      BY <3>1 DEF At, WakeGate1, Places
    <3> QED
      BY <3>1, <3>2, <3>3, MoveAndWake
  <2> QED
    BY <2>1, <2>2
<1>2. t \in Readers
  BY DEF UnlockShared, Readers, At
<1>3. /\ IsFiniteSet(Readers')
      /\ Cardinality(Readers') = Cardinality(Readers) - 1
      /\ Cardinality(Readers) \in Nat
  BY <1>1, <1>2, FS_RemoveElement, FS_CardinalityType
<1>4. count' = count - 1 /\ entered' = entered /\ count = Cardinality(Readers)
  BY DEF UnlockShared, StateIsHolders
<1>5. Cardinality(Readers) # 0
  BY <1>2, FS_EmptySet
<1>6. count \in 1 .. MaxReaders /\ count' \in 0 .. MaxReaders
  BY <1>3, <1>4, <1>5, SharedMutexAssumption DEF LockTypeOK
<1>7. StateIsHolders'
  BY <1>1, <1>3, <1>4 DEF StateIsHolders, Entrants
<1>8. Writers = {}
  BY <1>6
<1> QED
  BY <1>1, <1>3, <1>4, <1>6, <1>7, <1>8 DEF LockTypeOK

(* A step that moves a thread which does not hold the lock and does not read *)
(* after it: it keeps its entry, gives it up or makes the only one.          *)
LEMMA MoveOutside ==
    ASSUME LockInv, NEW t \in Threads, NEW p \in Places \ {"read"},
           at[t] \notin {"read", "write"}, Goto(t, p), UNCHANGED count,
           \/ t \in Entrants /\ p \in {"write", "gate2", "woken2"} /\ UNCHANGED entered
           \/ ~entered /\ entered' = TRUE /\ p \in {"write", "gate2"}
           \/ t \notin Entrants /\ p \notin {"write", "gate2", "woken2"} /\ UNCHANGED entered,
           p = "write" => count = 0
    PROVE  LockInv' /\ (RW!Next \/ UNCHANGED <<Writers, Readers>>)
<1> USE DEF LockInv
<1>1. /\ at' \in [Threads -> Places]
      /\ Readers' = Readers \ {t}
      /\ Writers' = IF p = "write" THEN Writers \cup {t} ELSE Writers \ {t}
      /\ Entrants' = IF p \in {"write", "gate2", "woken2"}
                     THEN Entrants \cup {t} ELSE Entrants \ {t}
  BY MoveOne DEF Goto
<1>2. t \notin Readers /\ t \notin Writers
  BY DEF Readers, Writers, At
<1>3. Readers' = Readers
  BY <1>1, <1>2
<1>4. entered <=> Entrants # {}
  BY DEF StateIsHolders, Entrants
<1>5. /\ \A u, v \in Entrants' : u = v
      /\ entered' <=> Entrants' # {}
      /\ entered' \in BOOLEAN
  BY <1>1, <1>4 DEF LockTypeOK
<1>6. StateIsHolders'
  BY <1>3, <1>5 DEF StateIsHolders, Entrants
<1>7. Writers' # {} => count' = 0
  BY <1>1
<1>8. LockInv'
  BY <1>1, <1>3, <1>5, <1>6, <1>7 DEF LockTypeOK
<1>9. CASE p = "write"
  <2>1. Readers = {}
    BY <1>9, FS_EmptySet DEF StateIsHolders
  <2>2. Writers = {}
    <3>1. Entrants \subseteq {t}
      BY <1>4, <1>9
    <3> QED
      BY <1>2, <3>1 DEF Entrants
  <2>3. RW!Acquire(t)
    BY <1>1, <1>3, <1>9, <2>1, <2>2 DEF RW!Acquire
  <2> QED
    BY <1>8, <2>3 DEF RW!Next
<1>10. CASE p # "write"
  BY <1>1, <1>2, <1>3, <1>8, <1>10
<1> QED
  BY <1>9, <1>10

(* The effect of every step of the mutex on its holders, and its invariant. *)
LEMMA LockSteps ==
    ASSUME LockInv, NEW t \in Threads, LockStep(t)
    PROVE  LockInv' /\ (RW!Next \/ UNCHANGED <<Writers, Readers>>)
<1> USE DEF LockInv
<1>0. /\ entered \in BOOLEAN /\ at[t] \in Places
      /\ entered <=> Entrants # {}
  BY DEF LockTypeOK, StateIsHolders, Entrants
<1>1. CASE Lock(t)
  <2>0. at[t] \notin {"read", "write"} /\ t \notin Entrants
    BY <1>1 DEF Lock, Entrants, Writers, At
  <2>1. CASE entered
    <3>1. Goto(t, "gate1W") /\ UNCHANGED <<entered, count>> /\ "gate1W" \in Places
      BY <1>1, <2>1 DEF Lock, Places
    <3> QED
      BY <2>0, <3>1, MoveOutside
  <2>2. CASE ~entered
    <3> DEFINE p == IF count = 0 THEN "write" ELSE "gate2"
    <3>1. Goto(t, p) /\ entered' = TRUE /\ UNCHANGED count /\ p \in Places \ {"read"}
      BY <1>1, <2>2 DEF Lock, Gate2, Places
    <3>2. p \in {"write", "gate2"} /\ (p = "write" => count = 0)
      OBVIOUS
    <3> HIDE DEF p
    <3> QED
      BY <2>0, <2>2, <3>1, <3>2, MoveOutside
  <2> QED
    BY <2>1, <2>2
<1>2. CASE LockAgain(t)
  <2> DEFINE p == IF count = 0 THEN "write" ELSE "gate2"
  <2>0. at[t] \notin {"read", "write"} /\ t \in Entrants
    BY <1>2 DEF LockAgain, Entrants, At
  <2>1. Goto(t, p) /\ UNCHANGED <<entered, count>> /\ p \in Places \ {"read"}
    BY <1>2 DEF LockAgain, Gate2, Places
  <2>2. p \in {"write", "gate2"} /\ (p = "write" => count = 0)
    OBVIOUS
  <2> HIDE DEF p
  <2> QED
    BY <2>0, <2>1, <2>2, MoveOutside
<1>3. CASE TryLock(t)
  <2>1. at[t] \notin {"read", "write"}
    BY <1>3 DEF TryLock
  <2>2. ~entered /\ count = 0 /\ entered' = TRUE /\ Goto(t, "write") /\ UNCHANGED count
    BY <1>3 DEF TryLock
  <2>3. "write" \in Places \ {"read"}
    BY DEF Places
  <2> QED
    BY <2>1, <2>2, <2>3, MoveOutside
<1>4. CASE Unlock(t)
  <2>0. t \in Writers /\ t \in Entrants /\ count = 0
    BY <1>4 DEF Unlock, Writers, Entrants, At
  <2>1. Writers = {t} /\ Entrants = {t}
    BY <2>0 DEF Entrants
  <2>2. at' \in [Threads -> Places]
    BY <1>4 DEF Unlock, WakeGate1, LockTypeOK, Places
  <2>3. Readers' = Readers
    BY <1>4 DEF Unlock, WakeGate1, Readers, At, LockTypeOK
  <2>4. Entrants' = {}
    <3>1. \A u \in Threads \ {t} : at[u] \notin {"write", "gate2", "woken2"}
      BY <2>1 DEF Entrants, Writers, At
    <3>2. \A u \in Threads : at'[u] \notin {"write", "gate2", "woken2"}
      BY <1>4, <3>1 DEF Unlock, WakeGate1, LockTypeOK
    <3> QED
      BY <3>2 DEF Entrants, Writers, At
  <2>5. Writers' = {}
    BY <2>4 DEF Entrants
  <2>6. count' = count /\ ~entered' /\ entered' \in BOOLEAN
    BY <1>4, <2>0 DEF Unlock
  <2>7. StateIsHolders'
    BY <2>3, <2>4, <2>6 DEF StateIsHolders, Entrants
  <2>8. LockInv'
    BY <2>2, <2>3, <2>4, <2>5, <2>6, <2>7 DEF LockTypeOK
  <2>9. RW!Release(t)
    BY <2>1, <2>3, <2>5 DEF RW!Release
  <2> QED
    BY <2>8, <2>9 DEF RW!Next
<1>5. CASE LockShared(t) /\ ~MayRead
  <2>0. at[t] \notin {"read", "write"} /\ t \notin Entrants
    BY <1>5 DEF LockShared, Entrants, Writers, At
  <2>1. Goto(t, "gate1R") /\ UNCHANGED <<entered, count>> /\ "gate1R" \in Places
    BY <1>5 DEF LockShared, Places
  <2> QED
    BY <2>0, <2>1, MoveOutside
<1>6. CASE MayRead /\ (LockShared(t) \/ TryLockShared(t))
  <2>0. at[t] # "read" /\ t \notin Entrants
    BY <1>6 DEF LockShared, TryLockShared, Entrants, Writers, At
  <2>1. count' = count + 1 /\ entered' = entered /\ Goto(t, "read")
    BY <1>6 DEF LockShared, TryLockShared
  <2>2. LockInv'
    BY <1>6, <2>0, <2>1, OneMoreReader
  <2>3. /\ Readers' = Readers \cup {t}
        /\ Writers' = Writers \ {t}
    BY <2>1, MoveOne DEF Goto, Places
  <2>4. Writers = {}
    BY <1>0, <1>6 DEF MayRead, Entrants
  <2>5. RW!AcquireShared(t)
    BY <2>3, <2>4 DEF RW!AcquireShared
  <2> QED
    BY <2>2, <2>5 DEF RW!Next
<1>7. CASE UnlockShared(t)
  <2>1. LockInv' /\ Readers' = Readers \ {t} /\ Writers' = Writers
    BY <1>7, OneReaderLess
  <2>2. t \in Readers
    BY <1>7 DEF UnlockShared, Readers, At
  <2>3. RW!ReleaseShared(t)
    BY <2>1, <2>2 DEF RW!ReleaseShared
  <2> QED
    BY <2>1, <2>3 DEF RW!Next
<1>8. CASE SpuriousWake(t)
  <2> DEFINE p == IF at[t] = "gate2" THEN "woken2" ELSE WakeGate1(at[t])
  <2>1. /\ at[t] \notin {"read", "write"}
        /\ Goto(t, p) /\ UNCHANGED <<entered, count>>
        /\ p \in Places \ {"read", "write"}
        /\ at[t] = "gate2" => p = "woken2"
        /\ at[t] # "gate2" => p \notin {"gate2", "woken2"}
    BY <1>8 DEF SpuriousWake, WakeGate1, Places
  <2>2. t \in Entrants <=> at[t] = "gate2"
    BY <1>8 DEF SpuriousWake, Entrants, Writers, At
  <2> HIDE DEF p
  <2> QED
    BY <2>1, <2>2, MoveOutside
<1> QED
  BY <1>1, <1>2, <1>3, <1>4, <1>5, <1>6, <1>7, <1>8
     DEF LockStep, LockShared, TryLockShared

LEMMA LockStutter ==
    ASSUME LockInv, UNCHANGED lockVars
    PROVE  LockInv' /\ UNCHANGED <<Writers, Readers>>
  BY DEF LockInv, LockTypeOK, StateIsHolders, lockVars, Readers, Writers, Entrants, At

-----------------------------------------------------------------------------
(* The maps. *)

IInv ==
    /\ TypeOK
    /\ LockInv
    /\ FlagHasAddr
    /\ \A t \in Threads : CallOK(t) /\ HalfWay(t)

LEMMA OneWriter ==
    ASSUME LockInv, NEW t \in Threads, NEW u \in Threads, at[t] = "write", at[u] = "write"
    PROVE  t = u
  BY DEF LockInv, Entrants, Writers, At

(* What a reader of the maps will see when the writer is done. *)
LEMMA SeenQuiet ==
    TypeOK /\ (\A t \in Threads : ~Writing(t)) => AliasSeen = alias
  BY DEF TypeOK, AliasSeen

LEMMA SeenWriting ==
    \A t \in Threads :
        IInv /\ Writing(t) =>
            AliasSeen = IF call[t].do = "insert"
                        THEN [alias EXCEPT ![call[t].addr] = call[t].path]
                        ELSE [alias EXCEPT ![found[t]] = None]
<1> SUFFICES ASSUME NEW t \in Threads, IInv, Writing(t)
             PROVE  AliasSeen = IF call[t].do = "insert"
                                THEN [alias EXCEPT ![call[t].addr] = call[t].path]
                                ELSE [alias EXCEPT ![found[t]] = None]
  OBVIOUS
<1>1. at[t] = "write" /\ call[t].do \in {"insert", "remove"} /\ todo[t] = "alias"
  BY DEF IInv, CallOK, Writing
<1>2. \A u \in Threads : Writing(u) => u = t
  BY <1>1, OneWriter DEF IInv, CallOK, Writing
<1>3. alias \in [Addrs -> Paths \cup {None}]
  BY DEF IInv, TypeOK
<1>0. AliasSeen = [a \in Addrs |-> AliasSeen[a]]
  BY DEF AliasSeen
<1>4. CASE call[t].do = "insert"
  <2>1. \A a \in Addrs : AliasSeen[a] = IF a = call[t].addr THEN call[t].path ELSE alias[a]
    BY <1>1, <1>2, <1>4 DEF AliasSeen, Writing
  <2> QED
    BY <1>0, <1>3, <1>4, <2>1
<1>5. CASE call[t].do = "remove"
  <2>1. \A a \in Addrs : AliasSeen[a] = IF a = found[t] THEN None ELSE alias[a]
    BY <1>1, <1>2, <1>5 DEF AliasSeen, Writing
  <2> QED
    BY <1>0, <1>3, <1>5, <2>1
<1> QED
  BY <1>1, <1>4, <1>5

LEMMA InvInit == Init => IInv
<1> SUFFICES ASSUME Init PROVE IInv
  OBVIOUS
<1>1. LockInv
  BY LockInvInit DEF Init
<1>2. TypeOK
  BY <1>1 DEF Init, TypeOK, LockInv, Todos
<1>3. FlagHasAddr /\ \A t \in Threads : CallOK(t) /\ HalfWay(t)
  BY DEF Init, LockInit, FlagHasAddr, CallOK, HalfWay
<1> QED
  BY <1>1, <1>2, <1>3 DEF IInv

(* The mutex moves a thread that does not call it only from sleep to waking. *)
Woken(u) ==
    \/ at'[u] = at[u]
    \/ at[u] = "gate1W" /\ at'[u] = "wokenW"
    \/ at[u] = "gate1R" /\ at'[u] = "wokenR"
    \/ at[u] = "gate2" /\ at'[u] = "woken2"

LEMMA OthersWoken ==
    ASSUME LockTypeOK, NEW t \in Threads, LockStep(t), NEW u \in Threads \ {t}
    PROVE  Woken(u)
<1>1. CASE Unlock(t)
  BY <1>1 DEF Unlock, WakeGate1, Woken, LockTypeOK
<1>2. CASE UnlockShared(t)
  BY <1>2 DEF UnlockShared, WakeGate1, Woken, LockTypeOK, At
<1>3. CASE Lock(t) \/ LockAgain(t) \/ TryLock(t) \/ LockShared(t) \/ TryLockShared(t)
              \/ SpuriousWake(t)
  BY <1>3 DEF Lock, LockAgain, TryLock, LockShared, TryLockShared, SpuriousWake, Gate2,
             Goto, Woken, LockTypeOK
<1> QED
  BY <1>1, <1>2, <1>3 DEF LockStep

(* A step of a thread leaves the others where they are in their calls. *)
LEMMA OthersKept ==
    ASSUME IInv, NEW t \in Threads, NEW u \in Threads \ {t},
           call'[u] = call[u], todo'[u] = todo[u], found'[u] = found[u],
           Woken(u),
           at[t] # "write" => UNCHANGED <<addr, alias>>
    PROVE  CallOK(u)' /\ HalfWay(u)'
<1>1. CallOK(u) /\ HalfWay(u) /\ LockInv
  BY DEF IInv
<1>2. CallOK(u)'
  BY <1>1 DEF CallOK, Woken
<1>3. HalfWay(u)'
  <2>1. CASE todo[u] = "alias"
    <3>1. at[t] # "write"
      BY <1>1, <2>1, OneWriter DEF CallOK
    <3> QED
      BY <1>1, <3>1 DEF HalfWay
  <2>2. CASE todo[u] # "alias"
    BY <2>2 DEF HalfWay
  <2> QED
    BY <2>1, <2>2
<1> QED
  BY <1>2, <1>3

(* A step that leaves the mutex and the other threads' calls alone. *)
LEMMA OwnStep ==
    ASSUME IInv, NEW t \in Threads, UNCHANGED lockVars, TypeOK',
           \A u \in Threads \ {t} :
               call'[u] = call[u] /\ todo'[u] = todo[u] /\ found'[u] = found[u],
           at[t] # "write" => UNCHANGED <<addr, alias>>,
           CallOK(t)', HalfWay(t)', FlagHasAddr'
    PROVE  IInv'
<1>1. LockInv'
  BY LockStutter DEF IInv
<1>2. \A u \in Threads \ {t} : CallOK(u)' /\ HalfWay(u)'
  BY OthersKept DEF Woken, lockVars
<1> QED
  BY <1>1, <1>2 DEF IInv

(* A step of the mutex with what the call does next. *)
LEMMA MutexStep ==
    ASSUME IInv, NEW t \in Threads, LockStep(t), UNCHANGED bookVars, TypeOK',
           \A u \in Threads \ {t} :
               call'[u] = call[u] /\ todo'[u] = todo[u] /\ found'[u] = found[u],
           CallOK(t)', HalfWay(t)'
    PROVE  IInv'
<1>1. LockInv' /\ LockTypeOK
  BY LockSteps DEF IInv, TypeOK
<1>2. \A u \in Threads \ {t} : CallOK(u)' /\ HalfWay(u)'
  BY <1>1, OthersWoken, OthersKept DEF bookVars
<1>3. FlagHasAddr'
  BY DEF FlagHasAddr, bookVars, IInv
<1> QED
  BY <1>1, <1>2, <1>3 DEF IInv

LEMMA CallTypes ==
    ASSUME TypeOK, NEW t \in Threads, call[t] # None
    PROVE  /\ call[t].path \in Paths
           /\ call[t].do \in {"insert", "remove", "reset", "get"}
           /\ call[t].do = "insert" => call[t].addr \in Addrs /\ call[t].flag \in BOOLEAN
  BY AliasAddrAssumption DEF TypeOK, Call

(* Every step of a call keeps the invariant. *)
LEMMA StepInv ==
    ASSUME IInv, NEW t \in Threads, Step(t) \/ Begin(t)
    PROVE  IInv'
<1> USE DEF bookVars, callVars, Then, Return
<1>0. /\ TypeOK /\ LockInv /\ FlagHasAddr /\ CallOK(t) /\ HalfWay(t)
      /\ None \notin Paths \cup Addrs \cup Calls
      /\ Calls \subseteq Call
  BY AliasAddrAssumption DEF IInv
<1>t. call[t] # None =>
          /\ call[t].path \in Paths
          /\ call[t].do \in {"insert", "remove", "reset", "get"}
          /\ call[t].do = "insert" => call[t].addr \in Addrs /\ call[t].flag \in BOOLEAN
  BY <1>0, CallTypes
<1>1. ASSUME NEW c \in Calls, Start(t, c) PROVE IInv'
  <2>0. c.do \in {"insert", "remove", "reset", "get"}
    BY <1>0 DEF Call
  <2>1. TypeOK'
    BY <1>1, <1>0, <1>t, <2>0 DEF Start, FirstOf, TypeOK, Todos, lockVars, LockTypeOK
  <2>2. CallOK(t)' /\ HalfWay(t)' /\ FlagHasAddr'
    BY <1>1, <1>0, <1>t, <2>0 DEF Start, FirstOf, CallOK, HalfWay, FlagHasAddr, TypeOK, lockVars, LockTypeOK
  <2>3. /\ UNCHANGED lockVars
        /\ \A u \in Threads \ {t} :
              call'[u] = call[u] /\ todo'[u] = todo[u] /\ found'[u] = found[u]
        /\ at[t] # "write" => UNCHANGED <<addr, alias>>
    BY <1>1, <1>0 DEF Start, FirstOf, TypeOK
  <2> QED
    BY <2>1, <2>2, <2>3, OwnStep
<1>i. CASE IsThere(t)
  <2>1. TypeOK'
    BY <1>i, <1>0 DEF IsThere, TypeOK, lockVars, LockTypeOK
  <2>2. CallOK(t)' /\ HalfWay(t)' /\ FlagHasAddr'
    BY <1>i, <1>0 DEF IsThere, CallOK, HalfWay, FlagHasAddr, lockVars
  <2> QED
    BY <1>i, <2>1, <2>2, OwnStep DEF IsThere
<1>l. CASE LookFlag(t)
  <2>1. TypeOK'
    BY <1>l, <1>0, <1>t DEF LookFlag, TypeOK, Todos, lockVars, LockTypeOK
  <2>2. CallOK(t)' /\ HalfWay(t)' /\ FlagHasAddr'
    BY <1>l, <1>0, <1>t DEF LookFlag, CallOK, HalfWay, FlagHasAddr, TypeOK, lockVars, LockTypeOK
  <2>3. /\ UNCHANGED lockVars
        /\ \A u \in Threads \ {t} :
              call'[u] = call[u] /\ todo'[u] = todo[u] /\ found'[u] = found[u]
        /\ at[t] # "write" => UNCHANGED <<addr, alias>>
    BY <1>l, <1>0 DEF LookFlag, TypeOK
  <2> QED
    BY <2>1, <2>2, <2>3, OwnStep
<1>2. CASE Look(t)
  <2>1. TypeOK'
    BY <1>2, <1>0, <1>t DEF Look, TypeOK, Todos, lockVars, LockTypeOK
  <2>2. CallOK(t)' /\ HalfWay(t)' /\ FlagHasAddr'
    BY <1>2, <1>0, <1>t DEF Look, CallOK, HalfWay, FlagHasAddr, TypeOK, lockVars, LockTypeOK
  <2>3. /\ UNCHANGED lockVars
        /\ \A u \in Threads \ {t} :
              call'[u] = call[u] /\ todo'[u] = todo[u] /\ found'[u] = found[u]
        /\ at[t] # "write" => UNCHANGED <<addr, alias>>
    BY <1>2, <1>0 DEF Look, TypeOK
  <2> QED
    BY <2>1, <2>2, <2>3, OwnStep
<1>3. CASE Get(t)
  <2>1. TypeOK'
    BY <1>3, <1>0, <1>t DEF Get, CallOK, TypeOK, Todos, lockVars, LockTypeOK
  <2>2. CallOK(t)' /\ HalfWay(t)' /\ FlagHasAddr'
    BY <1>3, <1>0, <1>t DEF Get, CallOK, HalfWay, FlagHasAddr, TypeOK, lockVars, LockTypeOK
  <2>3. /\ UNCHANGED lockVars
        /\ \A u \in Threads \ {t} :
              call'[u] = call[u] /\ todo'[u] = todo[u] /\ found'[u] = found[u]
        /\ at[t] # "write" => UNCHANGED <<addr, alias>>
    BY <1>3, <1>0 DEF Get, TypeOK
  <2> QED
    BY <2>1, <2>2, <2>3, OwnStep
<1>4. CASE Insert(t)
  <2>1. TypeOK'
    BY <1>4, <1>0, <1>t DEF Insert, Locked, TypeOK, Todos, lockVars, LockTypeOK
  <2>2. CallOK(t)' /\ HalfWay(t)' /\ FlagHasAddr'
    BY <1>4, <1>0, <1>t DEF Insert, Locked, CallOK, HalfWay, FlagHasAddr, TypeOK, lockVars, LockTypeOK
  <2>3. /\ UNCHANGED lockVars
        /\ \A u \in Threads \ {t} :
              call'[u] = call[u] /\ todo'[u] = todo[u] /\ found'[u] = found[u]
        /\ at[t] # "write" => UNCHANGED <<addr, alias>>
    BY <1>4, <1>0 DEF Insert, Locked, TypeOK
  <2> QED
    BY <2>1, <2>2, <2>3, OwnStep
<1>5. CASE InsertAlias(t)
  <2>1. TypeOK'
    BY <1>5, <1>0, <1>t DEF InsertAlias, Locked, TypeOK, Todos, lockVars, LockTypeOK
  <2>2. CallOK(t)' /\ HalfWay(t)' /\ FlagHasAddr'
    BY <1>5, <1>0, <1>t DEF InsertAlias, Locked, CallOK, HalfWay, FlagHasAddr, TypeOK, lockVars, LockTypeOK
  <2>3. /\ UNCHANGED lockVars
        /\ \A u \in Threads \ {t} :
              call'[u] = call[u] /\ todo'[u] = todo[u] /\ found'[u] = found[u]
        /\ at[t] # "write" => UNCHANGED <<addr, alias>>
    BY <1>5, <1>0 DEF InsertAlias, Locked, TypeOK
  <2> QED
    BY <2>1, <2>2, <2>3, OwnStep
<1>6. CASE Erase(t)
  <2>1. TypeOK'
    BY <1>6, <1>0, <1>t DEF Erase, Locked, TypeOK, Todos, lockVars, LockTypeOK
  <2>2. CallOK(t)' /\ HalfWay(t)' /\ FlagHasAddr'
    BY <1>6, <1>0, <1>t DEF Erase, Locked, CallOK, HalfWay, FlagHasAddr, TypeOK, lockVars, LockTypeOK
  <2>3. /\ UNCHANGED lockVars
        /\ \A u \in Threads \ {t} :
              call'[u] = call[u] /\ todo'[u] = todo[u] /\ found'[u] = found[u]
        /\ at[t] # "write" => UNCHANGED <<addr, alias>>
    BY <1>6, <1>0 DEF Erase, Locked, TypeOK
  <2> QED
    BY <2>1, <2>2, <2>3, OwnStep
<1>7. CASE EraseAlias(t)
  <2>1. TypeOK'
    BY <1>7, <1>0, <1>t DEF EraseAlias, Locked, TypeOK, Todos, lockVars, LockTypeOK
  <2>2. CallOK(t)' /\ HalfWay(t)' /\ FlagHasAddr'
    BY <1>7, <1>0, <1>t DEF EraseAlias, Locked, CallOK, HalfWay, FlagHasAddr, TypeOK, lockVars, LockTypeOK
  <2>3. /\ UNCHANGED lockVars
        /\ \A u \in Threads \ {t} :
              call'[u] = call[u] /\ todo'[u] = todo[u] /\ found'[u] = found[u]
        /\ at[t] # "write" => UNCHANGED <<addr, alias>>
    BY <1>7, <1>0 DEF EraseAlias, Locked, TypeOK
  <2> QED
    BY <2>1, <2>2, <2>3, OwnStep
<1>8. CASE ResetFlag(t)
  <2>1. TypeOK'
    BY <1>8, <1>0, <1>t DEF ResetFlag, Locked, TypeOK, Todos, lockVars, LockTypeOK
  <2>2. CallOK(t)' /\ HalfWay(t)' /\ FlagHasAddr'
    BY <1>8, <1>0, <1>t DEF ResetFlag, Locked, CallOK, HalfWay, FlagHasAddr, TypeOK, lockVars, LockTypeOK
  <2>3. /\ UNCHANGED lockVars
        /\ \A u \in Threads \ {t} :
              call'[u] = call[u] /\ todo'[u] = todo[u] /\ found'[u] = found[u]
        /\ at[t] # "write" => UNCHANGED <<addr, alias>>
    BY <1>8, <1>0 DEF ResetFlag, Locked, TypeOK
  <2> QED
    BY <2>1, <2>2, <2>3, OwnStep
<1>9. CASE TakeLock(t)
  <2>1. TypeOK'
    <3>1. LockTypeOK'
      BY <1>9, <1>0, LockSteps DEF TakeLock, LockStep, LockInv
    <3> QED
      BY <1>9, <1>0, <3>1 DEF TakeLock, TypeOK, Todos
  <2>2. CallOK(t)' /\ HalfWay(t)'
    BY <1>9, <1>0, <1>t DEF TakeLock, CallOK, HalfWay, TypeOK, LockTypeOK, Lock, LockAgain, LockShared, SpuriousWake, Gate2, Goto, WakeGate1
  <2>3. /\ LockStep(t) /\ UNCHANGED bookVars
        /\ \A u \in Threads \ {t} :
              call'[u] = call[u] /\ todo'[u] = todo[u] /\ found'[u] = found[u]
    BY <1>9, <1>0 DEF TakeLock, LockStep, TypeOK
  <2> QED
    BY <2>1, <2>2, <2>3, MutexStep
<1>10. CASE Unshare(t)
  <2>1. TypeOK'
    <3>1. LockTypeOK'
      BY <1>10, <1>0, LockSteps DEF Unshare, LockStep, LockInv
    <3> QED
      BY <1>10, <1>0, <3>1 DEF Unshare, TypeOK, Todos
  <2>2. CallOK(t)' /\ HalfWay(t)'
    BY <1>10, <1>0, <1>t DEF Unshare, CallOK, HalfWay, TypeOK, LockTypeOK, UnlockShared, WakeGate1, At
  <2>3. /\ LockStep(t) /\ UNCHANGED bookVars
        /\ \A u \in Threads \ {t} :
              call'[u] = call[u] /\ todo'[u] = todo[u] /\ found'[u] = found[u]
    BY <1>10, <1>0 DEF Unshare, LockStep, TypeOK
  <2> QED
    BY <2>1, <2>2, <2>3, MutexStep
<1>11. CASE Release(t)
  <2>1. TypeOK'
    <3>1. LockTypeOK'
      BY <1>11, <1>0, LockSteps DEF Release, LockStep, LockInv
    <3> QED
      BY <1>11, <1>0, <3>1 DEF Release, TypeOK, Todos
  <2>2. CallOK(t)' /\ HalfWay(t)'
    BY <1>11, <1>0, <1>t DEF Release, CallOK, HalfWay, TypeOK, LockTypeOK, Unlock
  <2>3. /\ LockStep(t) /\ UNCHANGED bookVars
        /\ \A u \in Threads \ {t} :
              call'[u] = call[u] /\ todo'[u] = todo[u] /\ found'[u] = found[u]
    BY <1>11, <1>0 DEF Release, LockStep, TypeOK
  <2> QED
    BY <2>1, <2>2, <2>3, MutexStep
<1> QED
  BY <1>1, <1>i, <1>l, <1>2, <1>3, <1>4, <1>5, <1>6, <1>7, <1>8, <1>9, <1>10, <1>11
     DEF Step, Begin

LEMMA StutterInv == IInv /\ UNCHANGED vars => IInv'
<1> SUFFICES ASSUME IInv, UNCHANGED vars PROVE IInv'
  OBVIOUS
<1>1. LockInv'
  BY LockStutter DEF IInv, vars
<1>2. TypeOK' /\ FlagHasAddr' /\ \A t \in Threads : CallOK(t)' /\ HalfWay(t)'
  BY DEF IInv, vars, lockVars, bookVars, callVars, TypeOK, LockTypeOK, FlagHasAddr,
         CallOK, HalfWay
<1> QED
  BY <1>1, <1>2 DEF IInv

(* The mutex and the maps are in a state the invariant describes whenever a  *)
(* thread is between two of its steps.                                       *)
THEOREM Invariance == Spec => []IInv
<1>1. Init => IInv
  BY InvInit
<1>2. IInv /\ [Next]_vars => IInv'
  BY StepInv, StutterInv DEF Next
<1> QED
  BY <1>1, <1>2, PTL DEF Spec

(* Values stay in their types, in the maps, in the mutex and in the calls.   *)
THEOREM TypeCorrect == Spec => []TypeOK
  BY Invariance, PTL DEF IInv

(* The asserts of the mutex hold (lib/lock/shared_mutex_kes.h): its count is *)
(* that of the threads inside, its flag that of the one writer.              *)
THEOREM MutexState == Spec => []StateIsHolders
<1>1. IInv => StateIsHolders
  BY DEF IInv, LockInv
<1> QED
  BY <1>1, Invariance, PTL

(* A step of a call is one of the mutex or leaves it alone. *)
LEMMA StepOfLock ==
    ASSUME NEW t \in Threads, Step(t) \/ Begin(t)
    PROVE  LockStep(t) \/ UNCHANGED lockVars
  BY DEF Step, Begin, IsThere, Start, Look, LookFlag, TakeLock, Get, Unshare, Insert, InsertAlias, Erase,
         EraseAlias, ResetFlag, Release, LockStep

(* The condition variables implement the lock that lock_guard and            *)
(* shared_lock need, however many threads call.                              *)
THEOREM MutexImplementsRWLock == Spec => ImplementsRWLock
<1>1. Init => RW!Init
  <2>1. LockInit => RW!Init
    BY DEF LockInit, RW!Init, Readers, Writers, At
  <2> QED
    BY <2>1 DEF Init
<1>2. IInv /\ [Next]_vars => [RW!Next]_<<Writers, Readers>>
  <2>1. ASSUME IInv, NEW t \in Threads, Step(t) \/ Begin(t)
        PROVE  RW!Next \/ UNCHANGED <<Writers, Readers>>
    <3>1. LockStep(t) \/ UNCHANGED lockVars
      BY <2>1, StepOfLock
    <3> QED
      BY <2>1, <3>1, LockSteps, LockStutter DEF IInv
  <2>2. IInv /\ UNCHANGED vars => UNCHANGED <<Writers, Readers>>
    BY LockStutter DEF IInv, vars
  <2> QED
    BY <2>1, <2>2 DEF Next
<1> QED
  BY <1>1, <1>2, Invariance, PTL DEF Spec, ImplementsRWLock, RW!Spec

-----------------------------------------------------------------------------
(* Nobody is left asleep. *)

Sleepers == At("gate1W") \cup At("gate1R")

(* What NobodyForgotten needs to be inductive: while the first gate stands   *)
(* open, nobody is asleep at it.                                             *)
GatesOK ==
    /\ At("gate2") # {} => count > 0
    /\ Sleepers # {} => entered \/ count = MaxReaders

(* One of the readers leaves, all places being taken, and wakes the only     *)
(* thread there is besides.                                                  *)
LEMMA LastSleeper ==
    ASSUME LockInv, IsFiniteSet(Threads), Cardinality(Threads) <= MaxReaders + 1,
           count = MaxReaders, NEW u \in Sleepers, NEW v \in Sleepers
    PROVE  u = v
<1> SUFFICES ASSUME u # v PROVE FALSE
  OBVIOUS
<1>1. u \in Threads \ Readers /\ v \in Threads \ Readers
  BY DEF Sleepers, Readers, At
<1>2. IsFiniteSet(Readers) /\ Cardinality(Readers) = MaxReaders /\ Readers \subseteq Threads
  BY DEF LockInv, StateIsHolders, Readers, At
<1>3. IsFiniteSet(Readers \cup {u}) /\ Cardinality(Readers \cup {u}) = MaxReaders + 1
  BY <1>1, <1>2, FS_AddElement
<1>4. v \notin Readers \cup {u}
  BY <1>1
<1>5. Cardinality((Readers \cup {u}) \cup {v}) = (MaxReaders + 1) + 1
  BY <1>3, <1>4, FS_AddElement
<1>6. (Readers \cup {u}) \cup {v} \subseteq Threads
  BY <1>1, <1>2
<1>7. Cardinality((Readers \cup {u}) \cup {v}) <= Cardinality(Threads)
  BY <1>6, FS_Subset
<1>8. Cardinality(Threads) \in Nat
  BY FS_CardinalityType
<1> QED
  BY <1>5, <1>7, <1>8, SharedMutexAssumption

LEMMA GatesStep ==
    ASSUME LockInv, GatesOK, IsFiniteSet(Threads), Cardinality(Threads) <= MaxReaders + 1,
           NEW t \in Threads, LockStep(t)
    PROVE  GatesOK'
<1>1. /\ entered \in BOOLEAN /\ count \in Nat /\ MaxReaders \in Nat \ {0}
      /\ at \in [Threads -> Places] /\ at[t] \in Places
  BY SharedMutexAssumption DEF LockInv, LockTypeOK
<1>2. CASE Lock(t) \/ LockAgain(t) \/ TryLock(t)
  <2>1. count' = count /\ (entered => entered') /\ (~entered' => UNCHANGED at)
    BY <1>1, <1>2 DEF Lock, LockAgain, TryLock, LockInv, StateIsHolders, At
  <2>2. at'[t] = "gate2" => count > 0
    BY <1>1, <1>2 DEF Lock, LockAgain, TryLock, Gate2, Goto
  <2>3. \A u \in Threads \ {t} : at'[u] = at[u]
    BY <1>1, <1>2 DEF Lock, LockAgain, TryLock, Gate2, Goto
  <2> QED
    BY <2>1, <2>2, <2>3 DEF GatesOK, Sleepers, At
<1>3. CASE Unlock(t)
  <2>1. \A u \in Threads : at'[u] \notin {"gate1W", "gate1R"}
    BY <1>1, <1>3 DEF Unlock, WakeGate1
  <2>2. \A u \in Threads : at'[u] # "gate2"
    <3>1. t \in Entrants
      BY <1>3 DEF Unlock, Entrants, Writers, At
    <3>2. \A u \in Threads : at[u] # "gate2"
      <4> SUFFICES ASSUME NEW u \in Threads, at[u] = "gate2" PROVE FALSE
        OBVIOUS
      <4>1. u \in Entrants
        BY DEF Entrants, At
      <4> QED
        BY <1>3, <3>1, <4>1 DEF LockInv, Unlock
    <3> QED
      BY <1>1, <1>3, <3>2 DEF Unlock, WakeGate1
  <2> QED
    BY <2>1, <2>2 DEF GatesOK, Sleepers, At
<1>4. CASE LockShared(t) \/ TryLockShared(t)
  <2>1. CASE ~MayRead
    <3>1. UNCHANGED <<entered, count>> /\ Goto(t, "gate1R")
      BY <1>4, <2>1 DEF LockShared, TryLockShared
    <3>2. entered \/ count = MaxReaders
      BY <1>1, <2>1 DEF MayRead, LockInv, LockTypeOK
    <3> QED
      BY <1>1, <3>1, <3>2 DEF GatesOK, Sleepers, At, Goto
  <2>2. CASE MayRead
    <3>1. entered' = entered /\ count' = count + 1 /\ Goto(t, "read")
      BY <1>4, <2>2 DEF LockShared, TryLockShared
    <3>2. Sleepers = {}
      BY <1>1, <2>2 DEF MayRead, GatesOK
    <3>3. Sleepers' = {}
      BY <1>1, <3>1, <3>2 DEF Goto, Sleepers, At
    <3> QED
      BY <1>1, <3>1, <3>3 DEF GatesOK
  <2> QED
    BY <2>1, <2>2
<1>5. CASE UnlockShared(t)
  <2>1. /\ entered' = entered /\ count' = count - 1 /\ at[t] = "read" /\ count > 0
        /\ count \in 0 .. MaxReaders
    <3>1. t \in Readers
      BY <1>5 DEF UnlockShared, Readers, At
    <3>2. count # 0
      BY <3>1, FS_EmptySet DEF LockInv, StateIsHolders
    <3> QED
      BY <1>1, <1>5, <3>2 DEF UnlockShared, LockInv, LockTypeOK
  <2> DEFINE left == [at EXCEPT ![t] = "out"]
  <2>2. CASE entered
    <3>1. Entrants = At("gate2") \cup At("woken2") \cup Writers
      BY DEF Entrants
    <3>2. \A u \in Threads : at'[u] = "gate2" => at[u] = "gate2"
      BY <1>1, <1>5, <2>2 DEF UnlockShared, At
    <3>3. CASE count = 1 /\ At("gate2") # {}
      <4>1. PICK u \in At("gate2") : at' = [left EXCEPT ![u] = "woken2"]
        BY <1>5, <2>2, <3>3 DEF UnlockShared
      <4>2. \A v \in Threads : at[v] = "gate2" => v = u
        BY <3>1 DEF LockInv, At
      <4>3. u \in Threads /\ at'[u] = "woken2"
        BY <1>1, <4>1 DEF At
      <4>4. At("gate2")' = {}
        BY <3>2, <4>2, <4>3 DEF At
      <4> QED
        BY <2>1, <2>2, <4>4 DEF GatesOK
    <3>4. CASE count # 1 \/ At("gate2") = {}
      <4>1. At("gate2")' # {} => count' > 0
        BY <2>1, <3>2, <3>4 DEF At
      <4> QED
        BY <2>1, <2>2, <4>1 DEF GatesOK
    <3> QED
      BY <3>3, <3>4
  <2>3. CASE ~entered
    <3>1. At("gate2") = {}
      BY <2>3 DEF LockInv, StateIsHolders
    <3>2. \A u \in Threads : at'[u] \in {"gate1W", "gate1R", "gate2"} => at'[u] = at[u]
      BY <1>1, <1>5, <2>3 DEF UnlockShared, WakeGate1, At
    <3>3. At("gate2")' = {}
      BY <3>1, <3>2 DEF At
    <3>4. Sleepers' = {}
      <4>1. CASE Sleepers = {}
        BY <3>2, <4>1 DEF Sleepers, At
      <4>2. CASE Sleepers # {}
        <5>1. count = MaxReaders
          BY <2>3, <4>2 DEF GatesOK
        <5>2. PICK u \in Sleepers : at' = [left EXCEPT ![u] = WakeGate1(at[u])]
          BY <1>5, <2>3, <4>2, <5>1 DEF UnlockShared, Sleepers
        <5>3. u \in Threads /\ at'[u] \notin {"gate1W", "gate1R"}
          BY <1>1, <5>2 DEF Sleepers, At, WakeGate1
        <5>4. \A v \in Sleepers : v = u
          BY <5>1, LastSleeper
        <5> QED
          BY <3>2, <5>3, <5>4 DEF Sleepers, At
      <4> QED
        BY <4>1, <4>2
    <3> QED
      BY <3>3, <3>4 DEF GatesOK
  <2> QED
    BY <1>1, <2>2, <2>3
<1>6. CASE SpuriousWake(t)
  <2>1. UNCHANGED <<entered, count>>
    BY <1>6 DEF SpuriousWake
  <2>2. \A u \in Threads : at'[u] \in {"gate1W", "gate1R", "gate2"} => at'[u] = at[u]
    BY <1>1, <1>6 DEF SpuriousWake, WakeGate1, Goto
  <2> QED
    BY <2>1, <2>2 DEF GatesOK, Sleepers, At
<1> QED
  BY <1>2, <1>3, <1>4, <1>5, <1>6 DEF LockStep

(* No thread sleeps in the mutex that could go on and that nobody is going   *)
(* to wake, as long as readers and one more thread are all there are.        *)
THEOREM NobodyLeftAsleep ==
    ASSUME IsFiniteSet(Threads), Cardinality(Threads) <= MaxReaders + 1
    PROVE  Spec => []NobodyForgotten
<1>1. Init => GatesOK
  BY DEF Init, LockInit, GatesOK, Sleepers, At
<1>2. IInv /\ GatesOK /\ [Next]_vars => GatesOK'
  <2>1. ASSUME IInv, GatesOK, NEW t \in Threads, Step(t) \/ Begin(t)
        PROVE  GatesOK'
    <3>1. CASE LockStep(t)
      BY <2>1, <3>1, GatesStep DEF IInv
    <3>2. CASE UNCHANGED lockVars
      BY <2>1, <3>2 DEF lockVars, GatesOK, Sleepers, At
    <3> QED
      BY <2>1, <3>1, <3>2, StepOfLock
  <2>2. GatesOK /\ UNCHANGED vars => GatesOK'
    BY DEF vars, lockVars, GatesOK, Sleepers, At
  <2> QED
    BY <2>1, <2>2 DEF Next
<1>3. GatesOK => NobodyForgotten
  BY DEF GatesOK, NobodyForgotten, Sleepers
<1> QED
  BY <1>1, <1>2, <1>3, Invariance, PTL DEF Spec

-----------------------------------------------------------------------------
(* Calls of the maps take effect at once. *)

LEMMA SeenNext ==
    /\ (TypeOK /\ (\A t \in Threads : ~Writing(t)) => AliasSeen = alias)'
    /\ (\A t \in Threads :
          IInv /\ Writing(t) =>
              AliasSeen = IF call[t].do = "insert"
                          THEN [alias EXCEPT ![call[t].addr] = call[t].path]
                          ELSE [alias EXCEPT ![found[t]] = None])'
  BY SeenQuiet, SeenWriting, PTL

LEMMA OneWrites ==
    ASSUME IInv, NEW t \in Threads, at[t] = "write"
    PROVE  \A u \in Threads \ {t} : ~Writing(u)
  BY OneWriter DEF IInv, CallOK, Writing

(* A step outside the writer's section. *)
LEMMA SeenKept ==
    ASSUME IInv, IInv', NEW t \in Threads, alias' = alias, ~Writing(t), ~Writing(t)',
           \A u \in Threads \ {t} :
               call'[u] = call[u] /\ todo'[u] = todo[u] /\ found'[u] = found[u]
    PROVE  AliasSeen' = AliasSeen
<1>1. CASE \E u \in Threads : Writing(u)
  <2>1. PICK u \in Threads : Writing(u)
    BY <1>1
  <2>2. u # t
    BY <2>1
  <2>3. Writing(u)'
    BY <2>1, <2>2 DEF Writing
  <2>4. AliasSeen = IF call[u].do = "insert"
                    THEN [alias EXCEPT ![call[u].addr] = call[u].path]
                    ELSE [alias EXCEPT ![found[u]] = None]
    BY <2>1, SeenWriting
  <2>5. AliasSeen' = IF call'[u].do = "insert"
                     THEN [alias' EXCEPT ![call'[u].addr] = call'[u].path]
                     ELSE [alias' EXCEPT ![found'[u]] = None]
    BY <2>3, SeenNext
  <2> QED
    BY <2>2, <2>4, <2>5
<1>2. CASE \A u \in Threads : ~Writing(u)
  <2>1. \A u \in Threads : ~Writing(u)'
    BY <1>2 DEF Writing
  <2> QED
    BY <1>2, <2>1, SeenQuiet, SeenNext DEF IInv
<1> QED
  BY <1>1, <1>2

LEMMA BookStep ==
    ASSUME IInv, IInv', NEW t \in Threads, Step(t) \/ Begin(t)
    PROVE  \/ \E x \in Paths, a \in Addrs : Book!Enter(x, a)
           \/ \E x \in Paths : Book!SetFlag(x)
           \/ /\ crossed' = (crossed \/ addr[call[t].path] # found[t])
              /\ call[t].path \in Paths /\ found[t] \in Addrs
              /\ Book!Remove(call[t].path, found[t])
           \/ UNCHANGED <<addr, flag, AliasSeen>>
<1> USE DEF Then, Return, bookVars, callVars
<1>0. /\ TypeOK /\ TypeOK' /\ CallOK(t) /\ HalfWay(t) /\ FlagHasAddr
      /\ call[t] # None =>
            /\ call[t].path \in Paths
            /\ call[t].do = "insert" => call[t].addr \in Addrs /\ call[t].flag \in BOOLEAN
  BY CallTypes DEF IInv
<1>1. CASE (\E c \in Calls : Start(t, c)) \/ Look(t) \/ LookFlag(t) \/ TakeLock(t) \/ Get(t)
              \/ Unshare(t) \/ Release(t)
  <2>1. /\ UNCHANGED <<addr, flag, alias>>
        /\ \A u \in Threads \ {t} :
              call'[u] = call[u] /\ todo'[u] = todo[u] /\ found'[u] = found[u]
    BY <1>0, <1>1 DEF TypeOK, Start, Look, LookFlag, TakeLock, Get, Unshare, Release
  <2>2. ~Writing(t) /\ ~Writing(t)'
    BY <1>0, <1>1 DEF TypeOK, Writing, Start, FirstOf, Look, LookFlag, TakeLock, Get, Unshare, Release
  <2> QED
    BY <2>1, <2>2, SeenKept
<1>2. CASE Insert(t)
  <2> DEFINE x == call[t].path
             a == call[t].addr
  <2>1. /\ call[t] # None /\ call[t].do = "insert" /\ at[t] = "write" /\ todo[t] = "lock"
        /\ x \in Paths /\ a \in Addrs /\ call[t].flag \in BOOLEAN
        /\ UNCHANGED <<alias, call, found>>
        /\ \A u \in Threads \ {t} :
              call'[u] = call[u] /\ todo'[u] = todo[u] /\ found'[u] = found[u]
    BY <1>0, <1>2 DEF Insert, Locked, TypeOK
  <2>2. ~Writing(t)
    BY <2>1 DEF Writing
  <2>3. AliasSeen = alias
    BY <2>1, <2>2, OneWrites, SeenQuiet, <1>0
  <2>4. CASE addr[x] = None /\ alias[a] = None
    <3>1. /\ addr' = [addr EXCEPT ![x] = a]
          /\ flag' = [flag EXCEPT ![x] = call[t].flag]
          /\ Writing(t)'
      BY <1>0, <1>2, <2>4 DEF Insert, Writing, TypeOK
    <3>2. AliasSeen' = [alias EXCEPT ![a] = x]
      BY <2>1, <3>1, SeenNext
    <3>3. Book!Enter(x, a)
      BY <2>1, <2>3, <2>4, <3>1, <3>2 DEF Book!Enter
    <3> QED
      BY <2>1, <3>3
  <2>5. CASE addr[x] = None /\ alias[a] # None
    <3>1. UNCHANGED <<addr, flag, todo>>
      BY <1>2, <2>5 DEF Insert
    <3>2. ~Writing(t)'
      BY <2>1, <3>1 DEF Writing
    <3> QED
      BY <2>1, <2>2, <3>1, <3>2, SeenKept
  <2>6. CASE addr[x] # None
    <3>1. /\ flag' = [flag EXCEPT ![x] = flag[x] \/ call[t].flag]
          /\ UNCHANGED addr
          /\ ~Writing(t)'
      BY <1>0, <1>2, <2>6 DEF Insert, Writing, TypeOK
    <3>2. AliasSeen' = AliasSeen
      BY <2>1, <2>2, <3>1, SeenKept
    <3>3. (flag[x] \/ call[t].flag) \in BOOLEAN
      OBVIOUS
    <3>4. Book!SetFlag(x)
      BY <2>6, <3>1, <3>2, <3>3 DEF Book!SetFlag
    <3> QED
      BY <2>1, <3>4
  <2> QED
    BY <2>4, <2>5, <2>6
<1>3. CASE InsertAlias(t)
  <2>1. /\ at[t] = "write" /\ Writing(t) /\ call[t].do = "insert"
        /\ alias' = [alias EXCEPT ![call[t].addr] = call[t].path]
        /\ UNCHANGED <<addr, flag, at>>
    BY <1>3 DEF InsertAlias, Locked, Writing, lockVars
  <2>2. AliasSeen = alias'
    BY <2>1, SeenWriting
  <2>3. \A u \in Threads : ~Writing(u)'
    BY <1>0, <1>3, <2>1, OneWrites DEF InsertAlias, Writing, TypeOK
  <2>4. AliasSeen' = alias'
    BY <1>0, <2>3, SeenNext
  <2> QED
    BY <2>1, <2>2, <2>4
<1>4. CASE Erase(t)
  <2> DEFINE x == call[t].path
             a == found[t]
  <2>1. /\ call[t].do = "remove" /\ at[t] = "write" /\ todo[t] = "lock"
        /\ x \in Paths /\ a \in Addrs
        /\ UNCHANGED <<alias, call, found>>
        /\ addr' = [addr EXCEPT ![x] = None]
        /\ flag' = [flag EXCEPT ![x] = FALSE]
        /\ crossed' = (crossed \/ addr[x] # a)
    BY <1>0, <1>4 DEF Erase, Locked, TypeOK, CallOK
  <2>2. ~Writing(t)
    BY <2>1 DEF Writing
  <2>3. AliasSeen = alias
    BY <2>1, <2>2, OneWrites, SeenQuiet, <1>0
  <2>4. Writing(t)'
    BY <1>0, <1>4 DEF Erase, Writing, TypeOK
  <2>5. AliasSeen' = [alias EXCEPT ![a] = None]
    BY <2>1, <2>4, SeenNext
  <2>6. Book!Remove(x, a)
    BY <2>1, <2>3, <2>5 DEF Book!Remove
  <2> QED
    BY <2>1, <2>6
<1>5. CASE EraseAlias(t)
  <2>1. /\ at[t] = "write" /\ Writing(t) /\ call[t].do = "remove"
        /\ alias' = [alias EXCEPT ![found[t]] = None]
        /\ UNCHANGED <<addr, flag, at>>
    BY <1>5 DEF EraseAlias, Locked, Writing, lockVars
  <2>2. AliasSeen = alias'
    BY <2>1, SeenWriting
  <2>3. \A u \in Threads : ~Writing(u)'
    BY <1>0, <1>5, <2>1, OneWrites DEF EraseAlias, Writing, TypeOK
  <2>4. AliasSeen' = alias'
    BY <1>0, <2>3, SeenNext
  <2> QED
    BY <2>1, <2>2, <2>4
<1>6. CASE ResetFlag(t)
  <2> DEFINE x == call[t].path
  <2>1. /\ x \in Paths /\ todo[t] = "lock"
        /\ UNCHANGED <<addr, alias>>
        /\ flag' = [flag EXCEPT ![x] = FALSE]
        /\ \A u \in Threads \ {t} :
              call'[u] = call[u] /\ todo'[u] = todo[u] /\ found'[u] = found[u]
    BY <1>0, <1>6 DEF ResetFlag, Locked, TypeOK
  <2>2. ~Writing(t) /\ ~Writing(t)'
    BY <1>0, <1>6 DEF ResetFlag, Locked, Writing, TypeOK
  <2>3. AliasSeen' = AliasSeen
    BY <2>1, <2>2, SeenKept
  <2>4. CASE addr[x] # None
    <3>1. Book!SetFlag(x)
      BY <2>1, <2>3, <2>4 DEF Book!SetFlag
    <3> QED
      BY <2>1, <3>1
  <2>5. CASE addr[x] = None
    <3>1. flag' = flag
      BY <1>0, <2>1, <2>5 DEF FlagHasAddr, TypeOK
    <3> QED
      BY <2>1, <2>3, <3>1
  <2> QED
    BY <2>4, <2>5
<1>7. CASE IsThere(t)
  BY <1>7 DEF IsThere, AliasSeen, Writing
<1> QED
  BY <1>1, <1>2, <1>3, <1>4, <1>5, <1>6, <1>7 DEF Step, Begin

LEMMA SeenStutter == IInv /\ IInv' /\ UNCHANGED vars => UNCHANGED <<addr, flag, AliasSeen>>
<1> SUFFICES ASSUME IInv, IInv', UNCHANGED vars PROVE UNCHANGED <<addr, flag, AliasSeen>>
  OBVIOUS
<1> QED
  BY DEF vars, bookVars, callVars, AliasSeen, Writing

(* Each call of CAliasAddr takes effect at once, for any number of threads,  *)
(* paths and addresses, whoever removes.                                     *)
THEOREM ImplementsBook == Spec => ImplementsAddressBook
<1>1. Init => Book!Init
  <2>1. ASSUME Init PROVE AliasSeen = alias
    <3>1. TypeOK /\ \A t \in Threads : ~Writing(t)
      BY <2>1, InvInit DEF IInv, Init, Writing
    <3> QED
      BY <3>1, SeenQuiet
  <2> QED
    BY <2>1 DEF Init, Book!Init
<1>2. IInv /\ IInv' /\ [Next]_vars => [Book!Next]_<<addr, flag, AliasSeen>>
  BY BookStep, SeenStutter DEF Next, Book!Next
<1> QED
  BY <1>1, <1>2, Invariance, PTL DEF Spec, ImplementsAddressBook, Book!Spec

-----------------------------------------------------------------------------
(* The maps are each other's inverse, as long as no removals cross. *)

(* A removal that has crossed another stays on record. *)
LEMMA CrossedStays ==
    ASSUME NEW t \in Threads, Step(t) \/ Begin(t), crossed
    PROVE  crossed'
  BY DEF Step, Begin, IsThere, Start, Look, LookFlag, TakeLock, Get, Unshare, Insert, InsertAlias,
         Erase, EraseAlias, ResetFlag, Release

LEMMA InverseStep ==
    ASSUME IInv, IInv', ~crossed => SeenInverse, NEW t \in Threads, Step(t) \/ Begin(t), ~crossed'
    PROVE  SeenInverse'
<1>0. /\ addr \in [Paths -> Addrs \cup {None}]
      /\ None \notin Paths \cup Addrs
  BY AliasAddrAssumption DEF IInv, TypeOK
<1>s. DOMAIN AliasSeen = Addrs /\ AliasSeen = [a \in Addrs |-> AliasSeen[a]]
  BY DEF AliasSeen
<1>c. SeenInverse
  BY CrossedStays
<1>1. ASSUME NEW x \in Paths, NEW a \in Addrs, Book!Enter(x, a) PROVE SeenInverse'
  <2>1. /\ addr[x] = None /\ AliasSeen[a] = None
        /\ addr' = [addr EXCEPT ![x] = a]
        /\ AliasSeen' = [AliasSeen EXCEPT ![a] = x]
    BY <1>1 DEF Book!Enter
  <2>2. \A b \in Addrs : AliasSeen'[b] = IF b = a THEN x ELSE AliasSeen[b]
    BY <1>s, <2>1
  <2> QED
    BY <1>0, <1>c, <2>1, <2>2 DEF SeenInverse
<1>2. ASSUME NEW x \in Paths, Book!SetFlag(x) PROVE SeenInverse'
  BY <1>c, <1>2 DEF Book!SetFlag, SeenInverse
<1>3. ASSUME NEW x \in Paths, NEW a \in Addrs, addr[x] = a, Book!Remove(x, a)
      PROVE  SeenInverse'
  <2>1. /\ addr' = [addr EXCEPT ![x] = None]
        /\ AliasSeen' = [AliasSeen EXCEPT ![a] = None]
    BY <1>3 DEF Book!Remove
  <2>2. \A b \in Addrs : AliasSeen'[b] = IF b = a THEN None ELSE AliasSeen[b]
    BY <1>s, <2>1
  <2> QED
    BY <1>0, <1>c, <1>3, <2>1, <2>2 DEF SeenInverse
<1>4. CASE UNCHANGED <<addr, flag, AliasSeen>>
  BY <1>c, <1>4 DEF SeenInverse
<1> QED
  BY <1>1, <1>2, <1>3, <1>4, BookStep

(* Whatever threads enter and remove: whoever finds the address of a path    *)
(* finds the path under that address, until a removal erases a path that has *)
(* no longer the address it found.                                           *)
THEOREM InverseMaps == Spec => []MapsInverse
<1> DEFINE J == ~crossed => SeenInverse
<1>1. Init => J
  <2> SUFFICES ASSUME Init PROVE J
    OBVIOUS
  <2>1. AliasSeen = alias
    <3>1. TypeOK /\ \A t \in Threads : ~Writing(t)
      BY InvInit DEF IInv, Init, Writing
    <3> QED
      BY <3>1, SeenQuiet
  <2> QED
    BY <2>1, AliasAddrAssumption DEF Init, SeenInverse
<1>2. IInv /\ IInv' /\ J /\ [Next]_vars => J'
  <2>1. IInv /\ IInv' /\ J /\ Next => J'
    BY InverseStep DEF Next
  <2>2. IInv /\ IInv' /\ J /\ UNCHANGED vars => J'
    <3> SUFFICES ASSUME IInv, IInv', J, UNCHANGED vars PROVE J'
      OBVIOUS
    <3>1. UNCHANGED <<addr, flag, AliasSeen>>
      BY SeenStutter
    <3> QED
      BY <3>1 DEF SeenInverse, vars
  <2> QED
    BY <2>1, <2>2
<1>3. IInv /\ J => MapsInverse
  BY SeenQuiet DEF IInv, SeenInverse, MapsInverse
<1>4. Spec => []J
  BY <1>1, <1>2, Invariance, PTL DEF Spec
<1> QED
  BY <1>3, <1>4, Invariance, PTL
================================================================================
