-------------------------- MODULE ThreadPoolTeardown --------------------------
(***************************************************************************)
(* ~CThreadPool and ~OpenLOOPER against the loopers of ThreadPool.         *)
(*                                                                         *)
(* The destructor holds mtx_map_list from its first to its last looper;    *)
(* push_looper needs that mutex while its looper owns _mtx_wake_.  The     *)
(* pool is destroyed by its last owner, so no run_thread is in progress.   *)
(* A detached thread goes on with memory that was freed; the steps it has  *)
(* left are those it would take were the memory untouched.                 *)
(***************************************************************************)
EXTENDS ThreadPool

VARIABLES dpc,       \* where the destructor is
          dcur,      \* the looper whose destructor runs
          detached,  \* the loopers whose thread nobody will join
          freed      \* the loopers destroyed so far

dVars == <<dpc, dcur, detached, freed>>
tdVars == <<vars, dVars>>

TdInit == Init /\ dpc = "alive" /\ dcur = NoLooper /\ detached = {} /\ freed = {}

DtorPCs == {"alive", "next",
            "lock",    \* 81: wants _mtx_wake_
            "join",    \* 86: waits for the thread
            "detach",  \* 88: has given _mtx_wake_ back
            "clear",   \* 149: wants _mtx_wake_ once more
            "free",    \* the members go
            "done"}

MapLocked == dpc \notin {"alive", "done"}

DtorBegin ==
    /\ dpc = "alive"
    /\ \A p \in Producers : ppc[p] = "ready"
    /\ dpc' = "next"
    /\ UNCHANGED <<vars, dcur, detached, freed>>

(* ~OpenLOOPER starts: _state_ is above EXIT, so it goes for _mtx_wake_.    *)
DtorLooper(w) ==
    /\ dpc = "next"
    /\ w \in thrMap
    /\ state[w] \in {"BUSY", "IDLE"}
    /\ dcur' = w
    /\ dpc' = "lock"
    /\ UNCHANGED <<vars, detached, freed>>

(* Mutant: _state_ is set, but nobody is notified. *)
DtorWake_NoNotify ==
    /\ dpc = "lock"
    /\ ~ Owns(dcur)
    /\ state[dcur] = "IDLE"
    /\ state' = [state EXCEPT ![dcur] = "EXIT"]
    /\ dpc' = "join"
    /\ UNCHANGED <<jobVars, idles, thrMap, runFunc, isJob, lpc, producerVars, dcur, detached, freed>>

(* _mtx_wake_ is taken; an idle looper is told to exit. *)
DtorWake ==
    /\ dpc = "lock"
    /\ ~ Owns(dcur)
    /\ state[dcur] = "IDLE"
    /\ state' = [state EXCEPT ![dcur] = "EXIT"]
    /\ lpc' = [lpc EXCEPT ![dcur] = "awake"]
    /\ dpc' = "join"
    /\ UNCHANGED <<jobVars, idles, thrMap, runFunc, isJob, producerVars, dcur, detached, freed>>

(* _mtx_wake_ is taken; a looper that is not idle is left alone, and the    *)
(* guard ends at 88.                                                        *)
DtorLeave ==
    /\ dpc = "lock"
    /\ ~ Owns(dcur)
    /\ state[dcur] # "IDLE"
    /\ dpc' = "detach"
    /\ UNCHANGED <<vars, dcur, detached, freed>>

(* detach, and clear() writes _state_: without the mutex, wherever the      *)
(* thread has come to by now.                                               *)
DtorDetach ==
    /\ dpc = "detach"
    /\ detached' = detached \cup {dcur}
    /\ state' = [state EXCEPT ![dcur] = "NOT_CREATED"]
    /\ dpc' = "clear"
    /\ UNCHANGED <<jobVars, idles, thrMap, runFunc, isJob, lpc, producerVars, dcur, freed>>

(* The thread has left run_routin: join returns and clear() begins. *)
DtorJoin ==
    /\ dpc = "join"
    /\ lpc[dcur] = "exited"
    /\ state' = [state EXCEPT ![dcur] = "NOT_CREATED"]
    /\ dpc' = "clear"
    /\ UNCHANGED <<jobVars, idles, thrMap, runFunc, isJob, lpc, producerVars, dcur, detached, freed>>

(* Mutant: clear() does not lock. *)
DtorClear_NoLock ==
    /\ dpc = "clear"
    /\ runFunc' = [runFunc EXCEPT ![dcur] = NoJob]
    /\ isJob' = [isJob EXCEPT ![dcur] = FALSE]
    /\ dpc' = "free"
    /\ UNCHANGED <<jobVars, idles, thrMap, state, lpc, producerVars, dcur, detached, freed>>

(* clear(), under _mtx_wake_. *)
DtorClear ==
    /\ dpc = "clear"
    /\ ~ Owns(dcur)
    /\ runFunc' = [runFunc EXCEPT ![dcur] = NoJob]
    /\ isJob' = [isJob EXCEPT ![dcur] = FALSE]
    /\ dpc' = "free"
    /\ UNCHANGED <<jobVars, idles, thrMap, state, lpc, producerVars, dcur, detached, freed>>

(* The looper and its entry of _thr_map_ are gone. *)
DtorFree ==
    /\ dpc = "free"
    /\ thrMap' = thrMap \ {dcur}
    /\ freed' = freed \cup {dcur}
    /\ dcur' = NoLooper
    /\ dpc' = "next"
    /\ UNCHANGED <<jobVars, idles, looperVars, producerVars, detached>>

(* Every looper is gone: the list is cleared, mtx_map_list given back. *)
DtorEnd ==
    /\ dpc = "next"
    /\ thrMap = {}
    /\ idles' = {}
    /\ dpc' = "done"
    /\ UNCHANGED <<jobVars, thrMap, looperVars, producerVars, dcur, detached, freed>>

Destructor ==
    \/ DtorBegin \/ DtorWake \/ DtorLeave \/ DtorDetach \/ DtorJoin
    \/ DtorClear \/ DtorFree \/ DtorEnd
    \/ \E w \in Loopers : DtorLooper(w)

(* The loop test at 167 meets what clear() wrote: between the two writes of *)
(* _state_ and the test that follows each, the destructor may have been.    *)
LeaveLoop(w) ==
    /\ At(w, "idle") \/ (At(w, "busy") /\ isJob[w])
    /\ state[w] = "NOT_CREATED"
    /\ Goto(w, "exited")
    /\ state' = [state EXCEPT ![w] = "EXIT"]
    /\ UNCHANGED <<jobVars, idles, thrMap, runFunc, isJob, producerVars>>

(* Loopers run on, but push_looper waits for mtx_map_list. *)
LooperStep(w) ==
    /\ Looper(w) \/ LeaveLoop(w)
    /\ MapLocked => ~ Park(w)
    /\ UNCHANGED dVars

TdNext ==
    \/ Destructor
    \/ \E p \in Producers : dpc = "alive" /\ Producer(p) /\ UNCHANGED dVars
    \/ \E w \in Loopers : LooperStep(w)
    \/ \E w \in Loopers : SpuriousWake(w) /\ UNCHANGED dVars

(* The thread that destroys the pool runs on, once it has begun. *)
TdSpec ==
    /\ TdInit
    /\ [][TdNext]_tdVars
    /\ WF_tdVars(Destructor /\ ~ DtorBegin)
    /\ \A w \in Loopers : WF_tdVars(LooperStep(w))
    /\ \A p \in Producers : WF_tdVars(dpc = "alive" /\ Producer(p) /\ ~ PushRunfunc(p) /\ UNCHANGED dVars)

-----------------------------------------------------------------------------
(* The mutex of a looper is given back at 88 and taken again at 149, and    *)
(* _state_ is written in between without it: still no looper is freed in a  *)
(* job or between two pops, nor with a job the destructor then clears away  *)
(* under it.  A thread that is not over has been detached, is on its way    *)
(* back from wait, and finds that it must leave: one step, but a step in    *)
(* memory that is gone.                                                     *)
FreedOutsideLoop ==
    /\ \A w \in freed :
          \/ lpc[w] \in {"exited", "dead"}
          \/ lpc[w] = "awake" /\ state[w] = "NOT_CREATED" /\ w \in detached
    /\ freed \cap thrMap = {}

(* ~CThreadPool returns, whatever the loopers do when it begins, except     *)
(* where a looper goes to push_looper: it then owns its _mtx_wake_ while it *)
(* wants mtx_map_list, and the destructor may wait for it the other way.    *)
DestructorReturns ==
    dpc = "next" ~> (dpc = "done" \/ \E w \in thrMap : lpc[w] = "park")
=============================================================================
