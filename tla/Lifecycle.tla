------------------------------ MODULE Lifecycle ------------------------------
(***************************************************************************)
(* ICommunicatorImpl (communicator/source/src/base/ICommunicatorImpl.cpp): *)
(* init starts a thread that makes a provider and loops in its accept;     *)
(* quit detaches that thread, cancels it and waits for its clean-up        *)
(* handler; the destructor quits and clears.  Threads of the application   *)
(* call connect_try, disconnect and send meanwhile.                        *)
(*                                                                         *)
(* Of the provider only what the life cycle depends on is here: whether it *)
(* has its protocol handler, and which provider holds the port.  The       *)
(* handler keeps a reference to its provider (IHProtocolInf 21), so that   *)
(* a provider that has one is never destroyed; the destructor of one that  *)
(* has none calls the pure virtual stop (IPVDInf 109,151).                 *)
(*                                                                         *)
(* No member is protected by a lock.  A cancelled thread may take some     *)
(* more steps before it ends.  Where in the middle of a library call the   *)
(* cancellation hits is not modelled.                                      *)
(***************************************************************************)
EXTENDS Naturals, FiniteSets

CONSTANTS MaxRuns,       \* bound: calls of init
          Users,         \* threads that call connect_try, disconnect and send
          Kinds,         \* kinds of provider the communicator may have
          StartMayFail   \* can the set-up fail for a reason of its own?

Runs == 1 .. MaxRuns
None == 0
Datagram == {"udp", "uds_udp"}

ASSUME LifecycleAssumption ==
    /\ MaxRuns \in Nat
    /\ Kinds \subseteq {"tcp_server", "tcp_client", "udp", "uds_udp"}
    /\ StartMayFail \in BOOLEAN

VARIABLES
    kind,      \* provider_type and mode
    runs,      \* how often init was called
    handle,    \* runner: the thread it stands for, if joinable
    cont,      \* runner_continue
    bits,      \* state
    hpvd,      \* h_pvd: the provider, named by the run that made it
    sendTo,    \* m_send_payload: the provider whose handler it is bound to
    prov,      \* the providers
    port,      \* the provider whose socket is bound to the port
    rt,        \* where in run each thread is
    cancel,    \* the threads pthread_cancel was called for
    told,      \* runs for which the initialization handler was called
    mpc,       \* where the owner of the communicator is
    qrun,      \* h_thread: the thread that quit is about
    quits,     \* history: how many calls of quit found a thread
    upc, uprov,\* where the users are, and in which provider
    crashed    \* how the process ended

mainVars == <<runs, handle, mpc, qrun, quits>>
sharedVars == <<cont, bits, hpvd, sendTo>>
provVars == <<prov, port>>
runVars == <<rt, cancel, told>>
userVars == <<upc, uprov>>
vars == <<kind, runs, handle, mpc, qrun, quits, cont, bits, hpvd, sendTo, prov, port, rt,
          cancel, told, upc, uprov, crashed>>

RunPCs == {"none",
           "begin",     \* 324: the clean-up handler is not there yet
           "make",      \* 339: get_provider, make_shared
           "bind",      \* init, and start up to the protocol handler
           "protocol",  \* create_hprotocol
           "tell",      \* handle_initialization
           "loop",      \* in accept
           "reset",     \* 384
           "pop",       \* 385
           "flag",      \* 387: the clean-up handler is gone
           "exited",
           "cancelled", \* and the clean-up handler ran
           "killed"}    \* cancelled where there is no clean-up handler

Ended == {"none", "exited", "cancelled", "killed"}

TypeOK ==
    /\ kind \in Kinds
    /\ runs \in 0 .. MaxRuns
    /\ handle \in Runs \cup {None}
    /\ cont \in BOOLEAN
    /\ bits \subseteq {"EXIT_THREAD", "DONE_FORCE_EXIT"}
    /\ hpvd \in Runs \cup {None}
    /\ sendTo \in Runs \cup {None}
    /\ prov \in [Runs -> {"none", "made", "started", "gone"}]
    /\ port \in Runs \cup {None}
    /\ rt \in [Runs -> RunPCs]
    /\ cancel \subseteq Runs
    /\ told \subseteq Runs
    /\ mpc \in {"ready", "cancel", "wait", "dcancel", "dwait", "clear", "gone"}
    /\ qrun \in Runs \cup {None}
    /\ quits \in 0 .. MaxRuns
    /\ upc \in [Users -> {"ready", "checked", "inside"}]
    /\ uprov \in [Users -> Runs \cup {None}]
    /\ crashed \in {"no", "twice", "thrown", "bind", "pure", "null"}

Init ==
    /\ kind \in Kinds
    /\ runs = 0 /\ handle = None
    /\ cont = FALSE /\ bits = {} /\ hpvd = None /\ sendTo = None
    /\ prov = [r \in Runs |-> "none"] /\ port = None
    /\ rt = [r \in Runs |-> "none"] /\ cancel = {} /\ told = {}
    /\ mpc = "ready" /\ qrun = None /\ quits = 0
    /\ upc = [u \in Users |-> "ready"] /\ uprov = [u \in Users |-> None]
    /\ crashed = "no"

-----------------------------------------------------------------------------
Running == crashed = "no"
MainAt(s) == Running /\ mpc = s
RunAt(r, s) == Running /\ rt[r] = s
RunGoto(r, s) == rt' = [rt EXCEPT ![r] = s]

(* The last reference to a provider without a protocol handler is dropped:  *)
(* it is destroyed, which ends the process; one with a handler lives on.    *)
Dropped == IF hpvd # None /\ prov[hpvd] = "made" THEN {hpvd} ELSE {}

(* h_pvd becomes p, with the states ps of the providers. *)
SetProvider(p, ps) ==
    /\ hpvd' = p
    /\ prov' = [q \in Runs |-> IF q \in Dropped THEN "gone" ELSE ps[q]]
    /\ crashed' = IF Dropped = {} THEN crashed ELSE "pure"

DropProvider == SetProvider(None, prov)

-----------------------------------------------------------------------------
(* init, quit and the destructor, called by the owner. *)

(* A thread that is still joinable is not replaced: std::terminate. *)
CallInit ==
    /\ MainAt("ready")
    /\ runs < MaxRuns
    /\ runs' = runs + 1
    /\ cont' = TRUE
    /\ handle' = runs + 1
    /\ RunGoto(runs + 1, "begin")
    /\ crashed' = IF handle = None THEN "no" ELSE "twice"
    /\ UNCHANGED <<kind, bits, hpvd, sendTo, provVars, cancel, told, mpc, qrun, quits, userVars>>

(* quit, its first line; without a joinable thread it does nothing. *)
CallQuit ==
    /\ MainAt("ready")
    /\ handle # None
    /\ cont' = FALSE
    /\ qrun' = handle
    /\ quits' = quits + 1
    /\ mpc' = "cancel"
    /\ UNCHANGED <<kind, runs, handle, bits, hpvd, sendTo, provVars, runVars, userVars, crashed>>

(* The destructor begins: nobody else uses the object any more. *)
Destroy ==
    /\ MainAt("ready")
    /\ \A u \in Users : upc[u] = "ready"
    /\ IF handle = None
       THEN mpc' = "clear" /\ UNCHANGED <<cont, qrun, quits>>
       ELSE mpc' = "dcancel" /\ cont' = FALSE /\ qrun' = handle /\ quits' = quits + 1
    /\ UNCHANGED <<kind, runs, handle, bits, hpvd, sendTo, provVars, runVars, userVars, crashed>>

(* force_exit_thread: detach and pthread_cancel. *)
ForceExitThread ==
    /\ \/ MainAt("cancel") /\ mpc' = "wait"
       \/ MainAt("dcancel") /\ mpc' = "dwait"
    /\ handle' = None
    /\ cancel' = cancel \cup {qrun}
    /\ UNCHANGED <<kind, runs, qrun, quits, sharedVars, provVars, rt, told, userVars, crashed>>

(* Mutant: quit does not wait for the clean-up handler. *)
WaitForExit_Not ==
    /\ \/ MainAt("wait") /\ mpc' = "ready"
       \/ MainAt("dwait") /\ mpc' = "clear"
    /\ qrun' = None
    /\ UNCHANGED <<kind, runs, handle, quits, sharedVars, provVars, runVars, userVars, crashed>>

(* The waiting loop sees the bit that the clean-up handler sets.  Nobody    *)
(* takes the bit back, so that only the first quit has to wait for it.      *)
WaitForExit ==
    /\ \/ MainAt("wait") /\ mpc' = "ready"
       \/ MainAt("dwait") /\ mpc' = "clear"
    /\ "DONE_FORCE_EXIT" \in bits
    /\ qrun' = None
    /\ UNCHANGED <<kind, runs, handle, quits, sharedVars, provVars, runVars, userVars, crashed>>

(* clear, and the object is gone. *)
Clear ==
    /\ MainAt("clear")
    /\ mpc' = "gone"
    /\ cont' = FALSE
    /\ bits' = {}
    /\ sendTo' = None
    /\ DropProvider
    /\ UNCHANGED <<kind, runs, handle, qrun, quits, port, runVars, userVars>>

Owner == ForceExitThread \/ WaitForExit \/ Clear

-----------------------------------------------------------------------------
(* run, the thread of run r. *)

(* h_pvd.reset() and the clean-up handler. *)
RunBegin(r) ==
    /\ RunAt(r, "begin")
    /\ DropProvider
    /\ RunGoto(r, "make")
    /\ UNCHANGED <<kind, mainVars, cont, bits, sendTo, port, cancel, told, userVars>>

(* get_provider may throw, which nobody catches. *)
RunMake(r) ==
    /\ RunAt(r, "make")
    /\ \/ /\ SetProvider(r, [prov EXCEPT ![r] = "made"])
          /\ RunGoto(r, "bind")
       \/ /\ StartMayFail
          /\ crashed' = "thrown"
          /\ UNCHANGED <<prov, hpvd, rt>>
    /\ UNCHANGED <<kind, mainVars, cont, bits, sendTo, port, cancel, told, userVars>>

(* With SO_REUSEADDR, which every socket here has, only a TCP socket that   *)
(* listens keeps others from its address: clients share one, so do UDP      *)
(* sockets; a datagram socket of sockaddr_un unlinks another one's file.    *)
CanBind == port = None \/ kind # "tcp_server"

(* Whatever run calls, it calls through h_pvd. *)
ProviderAt(r, s) == RunAt(r, s) /\ hpvd # None

(* Mutant: the handler is called before the protocol handler is made. *)
RunBind_TellsEarly(r) ==
    /\ ProviderAt(r, "bind")
    /\ CanBind
    /\ port' = hpvd
    /\ told' = told \cup {r}
    /\ RunGoto(r, "protocol")
    /\ UNCHANGED <<kind, mainVars, sharedVars, prov, cancel, userVars, crashed>>

(* init, and in start Bind and Listen.  On TCP a failed Bind throws and     *)
(* nobody catches; a failed Listen, and a failed Bind on UDP (for a reason  *)
(* of its own), make start return false, and accept with it.                *)
RunBind(r) ==
    /\ ProviderAt(r, "bind")
    /\ \/ /\ CanBind
          /\ port' = hpvd
          /\ RunGoto(r, "protocol")
          /\ UNCHANGED crashed
       \/ /\ ~CanBind
          /\ crashed' = "bind"
          /\ UNCHANGED <<port, rt>>
       \/ /\ StartMayFail
          /\ RunGoto(r, "reset")
          /\ UNCHANGED <<port, crashed>>
    /\ UNCHANGED <<kind, mainVars, sharedVars, prov, cancel, told, userVars>>

(* Mutant: handle_initialization is not called. *)
RunProtocol_Untold(r) ==
    /\ ProviderAt(r, "protocol")
    /\ prov' = [prov EXCEPT ![hpvd] = "started"]
    /\ sendTo' = hpvd
    /\ RunGoto(r, "loop")
    /\ UNCHANGED <<kind, mainVars, cont, bits, hpvd, port, cancel, told, userVars, crashed>>

(* create_hprotocol: from here on the provider holds a reference to itself; *)
(* set_app_call_back makes send use it.                                     *)
RunProtocol(r) ==
    /\ ProviderAt(r, "protocol")
    /\ prov' = [prov EXCEPT ![hpvd] = "started"]
    /\ sendTo' = hpvd
    /\ RunGoto(r, "tell")
    /\ UNCHANGED <<kind, mainVars, cont, bits, hpvd, port, cancel, told, userVars, crashed>>

(* The handler of the application may throw: in TCP's start nobody catches; *)
(* UDP's receiver, which calls it at every accept, goes on as after any     *)
(* other error.                                                             *)
RunTell(r) ==
    /\ RunAt(r, "tell")
    /\ told' = told \cup {r}
    /\ \/ RunGoto(r, "loop") /\ UNCHANGED crashed
       \/ StartMayFail /\ kind \notin Datagram /\ crashed' = "thrown" /\ UNCHANGED rt
    /\ UNCHANGED <<kind, mainVars, sharedVars, provVars, cancel, userVars>>

(* accept returns, in a server for a peer, in a client after a second, on   *)
(* UDP after an error; the loop goes on only while runner_continue.  UDP's  *)
(* accept returns false if the quit handler that is told of the error       *)
(* throws (one that was not registered does); the loop is over then as well.*)
RunLoopEnds(r) ==
    /\ RunAt(r, "loop")
    /\ ~cont \/ kind \in Datagram
    /\ RunGoto(r, "reset")
    /\ UNCHANGED <<kind, mainVars, sharedVars, provVars, cancel, told, userVars, crashed>>

(* server_accept throws (a receiver could not be started): nobody catches.  *)
RunAcceptThrows(r) ==
    /\ RunAt(r, "loop")
    /\ StartMayFail /\ kind = "tcp_server"
    /\ crashed' = "thrown"
    /\ UNCHANGED <<kind, mainVars, sharedVars, provVars, runVars, userVars>>

(* Another run has reset h_pvd: the next call through it fails. *)
RunCallsNull(r) ==
    /\ \/ \E s \in {"bind", "protocol", "loop"} : RunAt(r, s)
       \/ RunAt(r, "tell") /\ kind \in Datagram
    /\ hpvd = None
    /\ rt[r] = "loop" => cont
    /\ crashed' = "null"
    /\ UNCHANGED <<kind, mainVars, sharedVars, provVars, runVars, userVars>>

RunReset(r) ==
    /\ RunAt(r, "reset")
    /\ DropProvider
    /\ RunGoto(r, "pop")
    /\ UNCHANGED <<kind, mainVars, cont, bits, sendTo, port, cancel, told, userVars>>

RunPop(r) ==
    /\ RunAt(r, "pop")
    /\ RunGoto(r, "flag")
    /\ UNCHANGED <<kind, mainVars, sharedVars, provVars, cancel, told, userVars, crashed>>

RunFlag(r) ==
    /\ RunAt(r, "flag")
    /\ bits' = bits \cup {"EXIT_THREAD"}
    /\ RunGoto(r, "exited")
    /\ UNCHANGED <<kind, mainVars, cont, hpvd, sendTo, provVars, cancel, told, userVars, crashed>>

(* Has the thread its clean-up handler? *)
Armed(r) == rt[r] \notin {"begin", "flag"} \cup Ended

(* Mutant: the clean-up handler does not set the bit. *)
Cancelled_Silent(r) ==
    /\ Running
    /\ r \in cancel
    /\ rt[r] \notin Ended
    /\ RunGoto(r, IF Armed(r) THEN "cancelled" ELSE "killed")
    /\ UNCHANGED <<kind, mainVars, sharedVars, provVars, cancel, told, userVars, crashed>>

(* The cancellation takes effect; cb_force_exit_thread runs if it is there. *)
Cancelled(r) ==
    /\ Running
    /\ r \in cancel
    /\ rt[r] \notin Ended
    /\ IF Armed(r)
       THEN RunGoto(r, "cancelled") /\ bits' = bits \cup {"DONE_FORCE_EXIT"}
       ELSE RunGoto(r, "killed") /\ UNCHANGED bits
    /\ UNCHANGED <<kind, mainVars, cont, hpvd, sendTo, provVars, cancel, told, userVars, crashed>>

Runner(r) ==
    \/ RunBegin(r) \/ RunMake(r) \/ RunBind(r) \/ RunProtocol(r) \/ RunTell(r)
    \/ RunReset(r) \/ RunPop(r) \/ RunFlag(r) \/ RunCallsNull(r)

-----------------------------------------------------------------------------
(* connect_try and disconnect: h_pvd is tested, then used. *)

UseCheck(u) ==
    /\ Running /\ upc[u] = "ready"
    /\ mpc \in {"ready", "cancel", "wait"}
    /\ hpvd # None
    /\ upc' = [upc EXCEPT ![u] = "checked"]
    /\ UNCHANGED <<kind, mainVars, sharedVars, provVars, runVars, uprov, crashed>>

UseProvider(u) ==
    /\ Running /\ upc[u] = "checked"
    /\ upc' = [upc EXCEPT ![u] = "inside"]
    /\ uprov' = [uprov EXCEPT ![u] = hpvd]
    /\ crashed' = IF hpvd = None THEN "null" ELSE "no"
    /\ UNCHANGED <<kind, mainVars, sharedVars, provVars, runVars>>

(* send: through m_send_payload, if it is set. *)
UseSend(u) ==
    /\ Running /\ upc[u] = "ready"
    /\ mpc \in {"ready", "cancel", "wait"}
    /\ sendTo # None
    /\ upc' = [upc EXCEPT ![u] = "inside"]
    /\ uprov' = [uprov EXCEPT ![u] = sendTo]
    /\ UNCHANGED <<kind, mainVars, sharedVars, provVars, runVars, crashed>>

UseReturns(u) ==
    /\ Running /\ upc[u] = "inside"
    /\ upc' = [upc EXCEPT ![u] = "ready"]
    /\ uprov' = [uprov EXCEPT ![u] = None]
    /\ UNCHANGED <<kind, mainVars, sharedVars, provVars, runVars, crashed>>

-----------------------------------------------------------------------------
Next ==
    \/ CallInit \/ CallQuit \/ Destroy \/ Owner
    \/ \E r \in Runs : Runner(r) \/ RunLoopEnds(r) \/ RunAcceptThrows(r) \/ Cancelled(r)
    \/ \E u \in Users : UseCheck(u) \/ UseProvider(u) \/ UseSend(u) \/ UseReturns(u)

Spec == Init /\ [][Next]_vars

(* The threads run on, and a cancellation takes effect.  Nothing is assumed *)
(* of accept: no peer need come.                                            *)
FairSpec ==
    /\ Spec
    /\ WF_vars(Owner)
    /\ \A r \in Runs : WF_vars(Runner(r)) /\ WF_vars(Cancelled(r))

-----------------------------------------------------------------------------
(* Properties. *)

(* The loop of an announced datagram provider has ended by itself and h_pvd *)
(* is reset; the application is not told.                                   *)
LoopLeft(r) == kind \in Datagram /\ r \in told /\ rt[r] \in {"pop", "flag", "exited"}

(* connect_try's precondition is that the initialization handler was called *)
(* (ICommunicator.h:170).  From then until quit has begun, h_pvd and send   *)
(* stand for the very provider that was announced, and nobody who has found *)
(* h_pvd set finds it gone when using it, though no lock is held in between.*)
(* It is so again for the run of an init after the first quit, and no more  *)
(* after a second quit, which does not wait: a run that ends late takes the *)
(* provider away.  The one exception is a datagram provider's loop that     *)
(* ends by itself.                                                          *)
ToldMeansUsable ==
    /\ \A r \in told \ cancel :
          (cont /\ quits <= 1 /\ Running) =>
              (hpvd = r /\ sendTo = r /\ prov[r] = "started") \/ LoopLeft(r)
    /\ crashed = "null" => quits > 0 \/ \E r \in Runs : LoopLeft(r)

(* When the first quit has returned, or the destructor is over, the thread  *)
(* of the first run has ended: it will not touch the object (or memory that *)
(* was it) any more.  A later quit returns at once.                         *)
FirstQuitWaits ==
    (quits = 1 /\ mpc \in {"ready", "clear", "gone"}) => \A r \in cancel : rt[r] \in Ended

(* A provider that has started is never destroyed and keeps its socket: a   *)
(* TCP server on a fixed port is announced once, whatever quit does.        *)
ServerStartsOnce == kind = "tcp_server" => Cardinality(told) <= 1

(* init leads to a call of the initialization handler, to a quit, or to the *)
(* end of the process.                                                      *)
InitAnswers ==
    \A r \in Runs :
        rt[r] = "begin" ~> r \in told \/ r \in cancel \/ crashed # "no"

(* quit returns, unless its thread ends without the clean-up handler: it    *)
(* had not got so far, or it was past pthread_cleanup_pop.                  *)
QuitReturns ==
    \A r \in Runs :
        (mpc \in {"wait", "dwait"} /\ qrun = r) ~>
            \/ mpc \notin {"wait", "dwait"}
            \/ rt[r] \in {"exited", "killed"}
            \/ crashed # "no"
===============================================================================
