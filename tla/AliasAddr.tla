------------------------------ MODULE AliasAddr ------------------------------
(***************************************************************************)
(* CAliasAddr (communicator/source/src/base/CAliasAddr.cpp): the maps of   *)
(* paths to addresses (or sockets) and back, as the threads of a provider  *)
(* use them under its shared mutex.                                        *)
(*                                                                         *)
(* UdpProvider and TcpProvider take a locked section of these functions as *)
(* one step.  Here it is as many steps as it has accesses, with the lock   *)
(* of SharedMutex around them: that the coarser steps are right is what    *)
(* ImplementsAddressBook says.  The finds insert and is_there begin with   *)
(* take no lock.  A get of an address reads as one of a path does, and     *)
(* clear runs when no thread is left: both are left out.                   *)
(***************************************************************************)
EXTENDS SharedMutex

CONSTANTS Paths, Addrs,
          Calls,      \* what is called, records of Call
          None

Call == [do : {"insert"}, path : Paths, addr : Addrs, flag : BOOLEAN]
            \cup [do : {"remove", "reset", "get"}, path : Paths]

ASSUME AliasAddrAssumption ==
    /\ Calls \subseteq Call
    /\ None \notin Paths \cup Addrs \cup Calls

VARIABLES
    addr, flag,  \* _mm_addr_: address and connect flag of a path
    alias,       \* _mm_alias_: path of an address
    call,        \* the call a thread is in
    todo,        \* what comes next in it
    found,       \* the address get has found
    crossed,     \* some remove has erased a path that had not the address it found
    aborted      \* the assert of insert has failed or an unlocked read gone astray

bookVars == <<addr, flag, alias>>
callVars == <<call, todo, found>>
vars == <<lockVars, bookVars, callVars, crossed, aborted>>

Todos == {"nothing", "look", "lookFlag", "share", "unshare", "lock", "alias", "unlock"}

TypeOK ==
    /\ LockTypeOK
    /\ addr \in [Paths -> Addrs \cup {None}]
    /\ flag \in [Paths -> BOOLEAN]
    /\ alias \in [Addrs -> Paths \cup {None}]
    /\ call \in [Threads -> Calls \cup {None}]
    /\ todo \in [Threads -> Todos]
    /\ found \in [Threads -> Addrs \cup {None}]
    /\ crossed \in BOOLEAN
    /\ aborted \in BOOLEAN

Init ==
    /\ LockInit
    /\ addr = [x \in Paths |-> None]
    /\ flag = [x \in Paths |-> FALSE]
    /\ alias = [a \in Addrs |-> None]
    /\ call = [t \in Threads |-> None]
    /\ todo = [t \in Threads |-> "nothing"]
    /\ found = [t \in Threads |-> None]
    /\ crossed = FALSE
    /\ aborted = FALSE

-----------------------------------------------------------------------------
Then(t, s) == todo' = [todo EXCEPT ![t] = s]

Return(t) ==
    /\ Then(t, "nothing")
    /\ call' = [call EXCEPT ![t] = None]
    /\ found' = [found EXCEPT ![t] = None]

(* Each call with the first thing it does. *)
FirstOf(c) ==
    CASE c.do = "insert" -> "look"
      [] c.do = "reset" -> "lock"
      [] OTHER -> "share"

Start(t, c) ==
    /\ todo[t] = "nothing"
    /\ call' = [call EXCEPT ![t] = c]
    /\ Then(t, FirstOf(c))
    /\ UNCHANGED <<lockVars, bookVars, found, crossed, aborted>>

(* A writer is at _mm_addr_: an unlocked read beside it finds what it may,   *)
(* or goes astray and ends the process.                                      *)
Changing == \E u \in Threads : at[u] = "write" /\ todo[u] = "lock" /\ call[u].do # "reset"

(* is_there, whose answer is its caller's business. *)
IsThere(t) ==
    /\ todo[t] = "nothing"
    /\ Changing
    /\ aborted' = TRUE
    /\ UNCHANGED <<lockVars, bookVars, callVars, crossed>>

(* insert looks before it locks, if the path is there ... *)
Look(t) ==
    /\ todo[t] = "look"
    /\ \/ /\ addr[call[t].path] = None \/ Changing
          /\ Then(t, "lock") /\ UNCHANGED aborted
       \/ /\ addr[call[t].path] # None \/ Changing
          /\ Then(t, "lookFlag") /\ UNCHANGED aborted
       \/ Changing /\ aborted' = TRUE /\ UNCHANGED todo
    /\ UNCHANGED <<lockVars, bookVars, call, found, crossed>>

(* ... and, with a find of its own, at the flag.  If the path has gone in    *)
(* between, what is read behind the end of the map may say anything.         *)
LookFlag(t) ==
    LET x == call[t].path
        astray == addr[x] = None \/ Changing
    IN  /\ todo[t] = "lookFlag"
        /\ \/ /\ ~flag[x] \/ astray
              /\ Then(t, "lock") /\ UNCHANGED <<call, found, aborted>>
           \/ /\ flag[x] \/ astray
              /\ Return(t) /\ UNCHANGED aborted
           \/ astray /\ aborted' = TRUE /\ UNCHANGED callVars
        /\ UNCHANGED <<lockVars, bookVars, crossed>>

(* lock_guard and shared_lock: as many steps as the mutex takes. *)
TakeLock(t) ==
    /\ \/ todo[t] = "lock" /\ (Lock(t) \/ LockAgain(t) \/ SpuriousWake(t))
       \/ todo[t] = "share" /\ (LockShared(t) \/ SpuriousWake(t))
    /\ UNCHANGED <<bookVars, callVars, crossed, aborted>>

(* The locked section of get, which remove begins with. *)
Get(t) ==
    /\ todo[t] = "share" /\ at[t] = "read"
    /\ found' = [found EXCEPT ![t] = addr[call[t].path]]
    /\ Then(t, "unshare")
    /\ UNCHANGED <<lockVars, bookVars, call, crossed, aborted>>

Unshare(t) ==
    /\ todo[t] = "unshare"
    /\ UnlockShared(t)
    /\ \/ call[t].do = "remove" /\ found[t] # None /\ Then(t, "lock") /\ UNCHANGED <<call, found>>
       \/ (call[t].do # "remove" \/ found[t] = None) /\ Return(t)
    /\ UNCHANGED <<bookVars, crossed, aborted>>

(* In the exclusive section, within the call named. *)
Locked(t, do, s) == call[t] # None /\ call[t].do = do /\ todo[t] = s /\ at[t] = "write"

(* Mutant: an address that has a path gets the new one, without the assert. *)
Insert_NoAssert(t) ==
    LET x == call[t].path
    IN  /\ Locked(t, "insert", "lock")
        /\ IF addr[x] = None
           THEN /\ addr' = [addr EXCEPT ![x] = call[t].addr]
                /\ Then(t, "alias")
           ELSE Then(t, "unlock") /\ UNCHANGED addr
        /\ flag' = [flag EXCEPT ![x] = call[t].flag]
        /\ UNCHANGED <<lockVars, alias, call, found, crossed, aborted>>

(* insert enters a path it does not find, and sets the flag of one without. *)
Insert(t) ==
    LET x == call[t].path
        a == call[t].addr
    IN  /\ Locked(t, "insert", "lock")
        /\ \/ /\ addr[x] = None /\ alias[a] = None
              /\ addr' = [addr EXCEPT ![x] = a]
              /\ flag' = [flag EXCEPT ![x] = call[t].flag]
              /\ Then(t, "alias")
              /\ UNCHANGED aborted
           \/ /\ addr[x] = None /\ alias[a] # None
              /\ aborted' = TRUE                      \* assert, CAliasAddr.cpp:140
              /\ UNCHANGED <<addr, flag, todo>>
           \/ /\ addr[x] # None
              /\ flag' = [flag EXCEPT ![x] = @ \/ call[t].flag]
              /\ Then(t, "unlock")
              /\ UNCHANGED <<addr, aborted>>
        /\ UNCHANGED <<lockVars, alias, call, found, crossed>>

InsertAlias(t) ==
    /\ Locked(t, "insert", "alias")
    /\ alias' = [alias EXCEPT ![call[t].addr] = call[t].path]
    /\ Then(t, "unlock")
    /\ UNCHANGED <<lockVars, addr, flag, call, found, crossed, aborted>>

(* remove_impl *)
Erase(t) ==
    LET x == call[t].path
    IN  /\ Locked(t, "remove", "lock")
        /\ addr' = [addr EXCEPT ![x] = None]
        /\ flag' = [flag EXCEPT ![x] = FALSE]
        /\ crossed' = (crossed \/ addr[x] # found[t])
        /\ Then(t, "alias")
        /\ UNCHANGED <<lockVars, alias, call, found, aborted>>

EraseAlias(t) ==
    /\ Locked(t, "remove", "alias")
    /\ alias' = [alias EXCEPT ![found[t]] = None]
    /\ Then(t, "unlock")
    /\ UNCHANGED <<lockVars, addr, flag, call, found, crossed, aborted>>

ResetFlag(t) ==
    /\ Locked(t, "reset", "lock")
    /\ flag' = [flag EXCEPT ![call[t].path] = FALSE]
    /\ Then(t, "unlock")
    /\ UNCHANGED <<lockVars, addr, alias, call, found, crossed, aborted>>

Release(t) ==
    /\ todo[t] = "unlock"
    /\ Unlock(t)
    /\ Return(t)
    /\ UNCHANGED <<bookVars, crossed, aborted>>

Step(t) ==
    \/ Look(t) \/ LookFlag(t) \/ TakeLock(t) \/ Get(t) \/ Unshare(t)
    \/ Insert(t) \/ InsertAlias(t) \/ Erase(t) \/ EraseAlias(t) \/ ResetFlag(t)
    \/ Release(t)

(* A thread outside any call. *)
Begin(t) == IsThere(t) \/ \E c \in Calls : Start(t, c)

Next == ~aborted /\ \E t \in Threads : Step(t) \/ Begin(t)

(* A thread sleeps in one of the two waits of the mutex. *)
Asleep(t) == at[t] \in {"gate1W", "gate1R", "gate2"}

(* A thread inside a call is scheduled again and again.  One that sleeps     *)
(* has to be woken: that it wakes for no reason is possible and never sure.  *)
Fairness == \A t \in Threads : WF_vars(~aborted /\ ~Asleep(t) /\ Step(t))

Spec == Init /\ [][Next]_vars /\ Fairness

-----------------------------------------------------------------------------
Writing(t) == todo[t] = "alias"

(* Outside the section of a writer the maps are each other's inverse, so a   *)
(* reader of one finds its way back through the other.  remove looks the     *)
(* address up in one section and erases it in another, and a change of name  *)
(* removes without the mutex of the provider: the maps part only if another  *)
(* thread gave or took the path in between, whoever else inserts, and        *)
(* whatever the unlocked reads have said.                                    *)
MapsInverse ==
    ~crossed /\ (~\E t \in Threads : Writing(t)) =>
        \A x \in Paths, a \in Addrs : addr[x] = a <=> alias[a] = x

(* The path-and-address pairs of the maps with the section of a writer done. *)
AliasSeen ==
    [a \in Addrs |->
        IF \E t \in Threads : Writing(t) /\ call[t].do = "insert" /\ call[t].addr = a
        THEN call[CHOOSE t \in Threads : Writing(t) /\ call[t].do = "insert"
                                             /\ call[t].addr = a].path
        ELSE IF \E t \in Threads : Writing(t) /\ call[t].do = "remove" /\ found[t] = a
             THEN None ELSE alias[a]]

Book == INSTANCE AddressBook WITH alias <- AliasSeen

(* Every call takes effect at once, whatever other threads call. *)
ImplementsAddressBook == Book!Spec

(* Where a thread may be in the call it is in, with or without the lock. *)
CallOK(t) ==
    /\ todo[t] = "nothing" <=> call[t] = None
    /\ todo[t] \in {"look", "lookFlag"} => call[t].do = "insert"
    /\ todo[t] \in {"share", "unshare"} => call[t].do \in {"get", "remove"}
    /\ todo[t] = "lock" => call[t].do \in {"insert", "reset", "remove"}
    /\ todo[t] = "alias" => call[t].do \in {"insert", "remove"}
    /\ todo[t] \in {"alias", "unlock"} => at[t] = "write"
    /\ todo[t] = "lock" => at[t] \in {"out", "gate1W", "wokenW", "gate2", "woken2", "write"}
    /\ todo[t] = "share" => at[t] \in {"out", "gate1R", "wokenR", "read"}
    /\ todo[t] = "unshare" => at[t] = "read"
    /\ todo[t] \in {"nothing", "look", "lookFlag"} => at[t] = "out"
    /\ todo[t] \in {"lock", "alias"} /\ call[t].do = "remove" => found[t] # None

(* A writer half-way through its section has changed the one map. *)
HalfWay(t) ==
    LET x == call[t].path
    IN  todo[t] = "alias" /\ call[t].do = "insert" =>
            addr[x] = call[t].addr /\ alias[call[t].addr] = None

FlagHasAddr == \A x \in Paths : flag[x] => addr[x] # None

SeenInverse == \A x \in Paths, a \in Addrs : addr[x] = a <=> AliasSeen[a] = x

(* A writer that has set its flag gets the lock, though readers come and go: *)
(* new ones wait behind it.                                                  *)
QueuedWriterGetsIn ==
    \A t \in Threads : at[t] = "gate2" ~> (at[t] = "write" \/ aborted)

===============================================================================
