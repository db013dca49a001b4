------------------------------ MODULE ThreadPool ------------------------------
(***************************************************************************)
(* CThreadPool (communicator/source/include/base/CThreadPool.h): the job   *)
(* queue, the list of idle loopers and the looper threads.  IHProtocolInf  *)
(* hands every received message to such a pool.                            *)
(*                                                                         *)
(* A step is what one thread does between two points where another thread  *)
(* can see or change what it uses:                                         *)
(*   - push_runfunc and pop_runfunc run under mtx_queue, push_looper and   *)
(*     the search for a looper under mtx_map_list: one step each;          *)
(*   - a looper owns _mtx_wake_ from its start to its end, the time inside *)
(*     condition_variable::wait excepted.  Owns derives that from lpc;     *)
(*   - trig_run_func reads _state_ once without the mutex and once more    *)
(*     under it: two steps.                                                *)
(* _idles_list_ is a set here: list::remove erases every occurrence of an  *)
(* id, so only membership matters, and which idle looper is at the front   *)
(* is left open.  Jobs are numbered in the order of push_runfunc.          *)
(***************************************************************************)
EXTENDS Naturals, Sequences

CONSTANTS Producers,         \* threads that call run_thread
          Loopers,           \* every looper that may ever be created
          InitLoopers,       \* those the constructor creates
          RunImmediately,    \* values callers pass for run_immediatly
          MaxJobs,           \* bound: calls of run_thread
          JobsMayThrow,      \* can a job end with an exception?
          NoJob, NoLooper

ASSUME PoolAssumption ==
    /\ InitLoopers \subseteq Loopers
    /\ RunImmediately \subseteq BOOLEAN
    /\ MaxJobs \in Nat
    /\ JobsMayThrow \in BOOLEAN
    /\ NoJob \notin Nat
    /\ NoLooper \notin Loopers

VARIABLES
    npush,      \* number of jobs pushed so far
    queue,      \* _q_runfunc_
    idles,      \* _idles_list_
    thrMap,     \* keys of _thr_map_
    state,      \* [Loopers -> _state_]
    runFunc,    \* [Loopers -> _run_func_]
    isJob,      \* [Loopers -> _is_job_]
    lpc,        \* where in run_routin each looper is
    ppc,        \* where in run_thread each producer is
    arg,        \* the job the producer's call pushed
    sel,        \* the local variable "looper" of run_thread
    answer,     \* [job -> what run_thread returned for it]
    finished    \* history: jobs that ran to their end or threw

jobVars == <<npush, queue, finished>>
looperVars == <<state, runFunc, isJob, lpc>>
producerVars == <<ppc, arg, sel, answer>>
vars == <<npush, queue, finished, idles, thrMap, state, runFunc, isJob, lpc,
          ppc, arg, sel, answer>>

Jobs == 1 .. MaxJobs

States == {"NOT_CREATED", "EXIT", "BUSY", "IDLE"}

LooperPCs == {"none",      \* no thread yet
              "busy",      \* 183: about to test _is_job_
              "run",       \* 184: in _run_func_()
              "next",      \* 187: about to pop the next job
              "idle",      \* 171: about to pop in state IDLE
              "park",      \* 177: about to push its id and wait
              "wait",      \* 178: in _wake_thread_.wait
              "awake",     \* woken, wants _mtx_wake_ back
              "exited",    \* left run_routin at 203
              "dead"}      \* left run_routin by the handler at 205

ProducerPCs == {"ready", "select", "check", "trig"}

(* Types, and: the list names only loopers the map knows. *)
TypeOK ==
    /\ npush \in 0 .. MaxJobs
    /\ queue \in Seq(Jobs)
    /\ finished \subseteq Jobs
    /\ thrMap \subseteq Loopers
    /\ idles \subseteq thrMap      \* else run_thread throws "thread-unsafe"
    /\ state \in [Loopers -> States]
    /\ runFunc \in [Loopers -> Jobs \cup {NoJob}]
    /\ isJob \in [Loopers -> BOOLEAN]
    /\ lpc \in [Loopers -> LooperPCs]
    /\ ppc \in [Producers -> ProducerPCs]
    /\ arg \in [Producers -> Jobs \cup {NoJob}]
    /\ sel \in [Producers -> Loopers \cup {NoLooper}]
    /\ answer \in [Jobs -> {"none", "true", "false"}]

(* Who owns the _mtx_wake_ of looper w: w itself, everywhere but in wait.   *)
Owns(w) == lpc[w] \in {"busy", "run", "next", "idle", "park"}

(* The state in which the constructor returns.  create_loop waits for each  *)
(* thread to show a state above EXIT; a thread that ran further ahead is a  *)
(* behaviour of Next.                                                       *)
Init ==
    /\ npush = 0
    /\ queue = <<>>
    /\ finished = {}
    /\ idles = {}
    /\ thrMap = InitLoopers
    /\ state = [w \in Loopers |-> IF w \in InitLoopers THEN "BUSY" ELSE "NOT_CREATED"]
    /\ runFunc = [w \in Loopers |-> NoJob]
    /\ isJob = [w \in Loopers |-> FALSE]
    /\ lpc = [w \in Loopers |-> IF w \in InitLoopers THEN "busy" ELSE "none"]
    /\ ppc = [p \in Producers |-> "ready"]
    /\ arg = [p \in Producers |-> NoJob]
    /\ sel = [p \in Producers |-> NoLooper]
    /\ answer = [j \in Jobs |-> "none"]

-----------------------------------------------------------------------------
(* run_thread, up to the call of trig_run_func. *)

(* Mutant: the new job goes to the head of the queue. *)
PushRunfunc_Front(p) ==
    /\ ppc[p] = "ready"
    /\ npush < MaxJobs
    /\ npush' = npush + 1
    /\ queue' = <<npush + 1>> \o queue
    /\ arg' = [arg EXCEPT ![p] = npush + 1]
    /\ ppc' = [ppc EXCEPT ![p] = "select"]
    /\ UNCHANGED <<finished, idles, thrMap, looperVars, sel, answer>>

(* push_runfunc *)
PushRunfunc(p) ==
    /\ ppc[p] = "ready"
    /\ npush < MaxJobs
    /\ npush' = npush + 1
    /\ queue' = Append(queue, npush + 1)
    /\ arg' = [arg EXCEPT ![p] = npush + 1]
    /\ ppc' = [ppc EXCEPT ![p] = "select"]
    /\ UNCHANGED <<finished, idles, thrMap, looperVars, sel, answer>>

(* Under mtx_map_list: an idle looper is there, take it off the list. *)
SelectIdle(p) ==
    /\ ppc[p] = "select"
    /\ \E w \in idles :
          /\ sel' = [sel EXCEPT ![p] = w]
          /\ idles' = idles \ {w}
    /\ ppc' = [ppc EXCEPT ![p] = "check"]
    /\ UNCHANGED <<jobVars, thrMap, looperVars, arg, answer>>

(* Mutant: create_loop_no_locker forgets to enter the looper in _thr_map_. *)
SelectNew_NotMapped(p) ==
    /\ ppc[p] = "select"
    /\ idles = {}
    /\ TRUE \in RunImmediately
    /\ \E w \in Loopers \ thrMap :
          /\ lpc[w] = "none"
          /\ lpc' = [lpc EXCEPT ![w] = "busy"]
          /\ state' = [state EXCEPT ![w] = "BUSY"]
          /\ sel' = [sel EXCEPT ![p] = w]
    /\ ppc' = [ppc EXCEPT ![p] = "check"]
    /\ UNCHANGED <<jobVars, idles, thrMap, runFunc, isJob, arg, answer>>

(* Under mtx_map_list: none is idle, but the caller asked for a new one.    *)
(* The constructor of OpenLOOPER returns once the thread shows state BUSY.  *)
SelectNew(p) ==
    /\ ppc[p] = "select"
    /\ idles = {}
    /\ TRUE \in RunImmediately
    /\ \E w \in Loopers \ thrMap :
          /\ lpc[w] = "none"
          /\ thrMap' = thrMap \cup {w}
          /\ lpc' = [lpc EXCEPT ![w] = "busy"]
          /\ state' = [state EXCEPT ![w] = "BUSY"]
          /\ sel' = [sel EXCEPT ![p] = w]
    /\ ppc' = [ppc EXCEPT ![p] = "check"]
    /\ UNCHANGED <<jobVars, idles, runFunc, isJob, arg, answer>>

(* run_thread leaves with its result; the producer may call again. *)
Return(p, result) ==
    /\ answer' = [answer EXCEPT ![arg[p]] = result]
    /\ ppc' = [ppc EXCEPT ![p] = "ready"]
    /\ arg' = [arg EXCEPT ![p] = NoJob]
    /\ sel' = [sel EXCEPT ![p] = NoLooper]

(* Under mtx_map_list: no looper, the logic_error of line 280.  The job     *)
(* stays in the queue.                                                      *)
SelectNone(p) ==
    /\ ppc[p] = "select"
    /\ idles = {}
    /\ FALSE \in RunImmediately
    /\ Return(p, "false")
    /\ UNCHANGED <<jobVars, idles, thrMap, looperVars>>

-----------------------------------------------------------------------------
(* trig_run_func, called by run_thread on the looper it selected. *)

(* The first look at _state_, without the mutex. *)
TrigCheck(p) ==
    /\ ppc[p] = "check"
    /\ IF state[sel[p]] = "IDLE"
       THEN ppc' = [ppc EXCEPT ![p] = "trig"] /\ UNCHANGED <<arg, sel, answer>>
       ELSE Return(p, "true")
    /\ UNCHANGED <<jobVars, idles, thrMap, looperVars>>

(* pop_runfunc found a job: looper w is to run it. *)
PopInto(w) ==
    /\ queue # <<>>
    /\ queue' = Tail(queue)
    /\ runFunc' = [runFunc EXCEPT ![w] = Head(queue)]
    /\ isJob' = [isJob EXCEPT ![w] = TRUE]

(* pop_runfunc returned NULL. *)
PopNull(w) ==
    /\ queue = <<>>
    /\ runFunc' = [runFunc EXCEPT ![w] = NoJob]
    /\ UNCHANGED queue

(* Mutant: the second look at _state_ is forgotten. *)
TrigRunFunc_NoRecheck(p) ==
    LET w == sel[p] IN
    /\ ppc[p] = "trig"
    /\ ~ Owns(w)
    /\ \/ /\ PopInto(w)
          /\ state' = [state EXCEPT ![w] = "BUSY"]
          /\ lpc' = [lpc EXCEPT ![w] = IF @ = "wait" THEN "awake" ELSE @]
       \/ PopNull(w) /\ UNCHANGED <<state, isJob, lpc>>
    /\ Return(p, "true")
    /\ UNCHANGED <<npush, finished, idles, thrMap>>

(* Mutant: the looper gets its job and is not notified. *)
TrigRunFunc_NoNotify(p) ==
    LET w == sel[p] IN
    /\ ppc[p] = "trig"
    /\ ~ Owns(w)
    /\ \/ /\ state[w] = "IDLE"
          /\ PopInto(w)
          /\ state' = [state EXCEPT ![w] = "BUSY"]
          /\ UNCHANGED lpc
       \/ /\ state[w] = "IDLE" => queue = <<>>
          /\ UNCHANGED <<queue, looperVars>>
    /\ Return(p, "true")
    /\ UNCHANGED <<npush, finished, idles, thrMap>>

(* Under _mtx_wake_: bind the oldest job to the looper and wake it. *)
TrigRunFunc(p) ==
    LET w == sel[p] IN
    /\ ppc[p] = "trig"
    /\ ~ Owns(w)
    /\ \/ /\ state[w] = "IDLE"
          /\ PopInto(w)
          /\ state' = [state EXCEPT ![w] = "BUSY"]
          /\ lpc' = [lpc EXCEPT ![w] = IF @ = "wait" THEN "awake" ELSE @]
       \/ /\ state[w] = "IDLE"
          /\ PopNull(w)
          /\ UNCHANGED <<state, isJob, lpc>>
       \/ /\ state[w] # "IDLE"
          /\ UNCHANGED <<queue, looperVars>>
    /\ Return(p, "true")
    /\ UNCHANGED <<npush, finished, idles, thrMap>>

-----------------------------------------------------------------------------
(* OpenLOOPER::run_routin. *)

At(w, pc) == lpc[w] = pc
Goto(w, pc) == lpc' = [lpc EXCEPT ![w] = pc]

(* case BUSY: run the job at hand, or become idle. *)
TestIsJob(w) ==
    /\ At(w, "busy")
    /\ IF isJob[w] THEN Goto(w, "run") /\ UNCHANGED state
                   ELSE Goto(w, "idle") /\ state' = [state EXCEPT ![w] = "IDLE"]
    /\ UNCHANGED <<jobVars, idles, thrMap, runFunc, isJob, producerVars>>

RunJob(w) ==
    /\ At(w, "run")
    /\ finished' = finished \cup {runFunc[w]}
    /\ Goto(w, "next")
    /\ UNCHANGED <<npush, queue, idles, thrMap, state, runFunc, isJob, producerVars>>

(* The job throws: the handler at 205 ends the thread.  _state_, _is_job_   *)
(* and the entry in _thr_map_ stay as they are.                             *)
JobThrows(w) ==
    /\ JobsMayThrow
    /\ At(w, "run")
    /\ finished' = finished \cup {runFunc[w]}
    /\ Goto(w, "dead")
    /\ UNCHANGED <<npush, queue, idles, thrMap, state, runFunc, isJob, producerVars>>

(* Lines 187-191 *)
PopNext(w) ==
    /\ At(w, "next")
    /\ \/ PopInto(w) /\ Goto(w, "run")
       \/ PopNull(w) /\ isJob' = [isJob EXCEPT ![w] = FALSE] /\ Goto(w, "busy")
    /\ UNCHANGED <<npush, finished, idles, thrMap, state, producerVars>>

(* case IDLE: lines 171-175 *)
PopIdle(w) ==
    /\ At(w, "idle")
    /\ \/ PopInto(w) /\ Goto(w, "busy") /\ state' = [state EXCEPT ![w] = "BUSY"]
       \/ PopNull(w) /\ Goto(w, "park") /\ UNCHANGED <<isJob, state>>
    /\ UNCHANGED <<npush, finished, idles, thrMap, producerVars>>

(* push_looper, then wait.  _mtx_wake_ is held until wait releases it, so   *)
(* nobody can act on the looper between the two.                            *)
Park(w) ==
    /\ At(w, "park")
    /\ idles' = idles \cup {w}
    /\ Goto(w, "wait")
    /\ UNCHANGED <<jobVars, thrMap, state, runFunc, isJob, producerVars>>

(* A condition variable may wake its waiter without a notify. *)
SpuriousWake(w) ==
    /\ At(w, "wait")
    /\ Goto(w, "awake")
    /\ UNCHANGED <<jobVars, idles, thrMap, state, runFunc, isJob, producerVars>>

(* wait has _mtx_wake_ back; the loop looks at _state_. *)
Resume(w) ==
    /\ At(w, "awake")
    /\ \/ state[w] = "IDLE" /\ Goto(w, "idle") /\ UNCHANGED state
       \/ state[w] = "BUSY" /\ Goto(w, "busy") /\ UNCHANGED state
       \/ /\ state[w] \in {"EXIT", "NOT_CREATED"}
          /\ Goto(w, "exited")
          /\ state' = [state EXCEPT ![w] = "EXIT"]
    /\ UNCHANGED <<jobVars, idles, thrMap, runFunc, isJob, producerVars>>

-----------------------------------------------------------------------------
Producer(p) ==
    \/ PushRunfunc(p) \/ SelectIdle(p) \/ SelectNew(p) \/ SelectNone(p)
    \/ TrigCheck(p) \/ TrigRunFunc(p)

Looper(w) ==
    \/ TestIsJob(w) \/ RunJob(w) \/ JobThrows(w) \/ PopNext(w)
    \/ PopIdle(w) \/ Park(w) \/ Resume(w)

Next ==
    \/ \E p \in Producers : Producer(p)
    \/ \E w \in Loopers : Looper(w) \/ SpuriousWake(w)

Spec == Init /\ [][Next]_vars

(* The operating system keeps running a thread that can run.  Nothing makes *)
(* a producer call run_thread, but a call once made goes on.                *)
Fairness ==
    /\ \A p \in Producers : WF_vars(Producer(p) /\ ~ PushRunfunc(p))
    /\ \A w \in Loopers : WF_vars(Looper(w))

FairSpec == Spec /\ Fairness

-----------------------------------------------------------------------------
(* A looper holds a job from the pop that gave it the job to its end.       *)
Holds(w) == IF isJob[w] /\ lpc[w] \notin {"next", "dead"} THEN runFunc[w] ELSE NoJob

Holding == [w \in Loopers |-> Holds(w)]

(* The promise: ThreadPool implements JobQueue.                             *)
JQ == INSTANCE JobQueue WITH
        Workers <- Loopers, pushed <- npush, pending <- queue, holds <- Holding

-----------------------------------------------------------------------------
(* The inductive invariant the proofs rest on. *)

(* What the location of a looper says about its state and its job.          *)
LooperOK(w) ==
    /\ lpc[w] # "exited"
    /\ lpc[w] = "none" <=> w \notin thrMap
    /\ lpc[w] = "none" => ~ isJob[w]
    /\ lpc[w] \in {"idle", "park", "wait"} => state[w] = "IDLE" /\ ~ isJob[w]
    /\ lpc[w] \in {"run", "next", "dead"} => state[w] = "BUSY" /\ isJob[w]
    /\ lpc[w] = "busy" => state[w] = "BUSY"
    /\ lpc[w] = "awake" => state[w] = IF isJob[w] THEN "BUSY" ELSE "IDLE"
    /\ isJob[w] => runFunc[w] \in Jobs

(* What the location of a producer says about its local variables.          *)
ProducerOK(p) ==
    /\ ppc[p] # "ready" => arg[p] \in Jobs
    /\ ppc[p] \in {"check", "trig"} => sel[p] \in thrMap

IInv ==
    /\ TypeOK
    /\ \A w \in Loopers : LooperOK(w)
    /\ \A p \in Producers : ProducerOK(p)
    /\ JQ!JQInv            \* jobs leave the queue in push order

-----------------------------------------------------------------------------
(* Loopers and trig_run_func, popping and binding jobs under two different  *)
(* mutexes, never do anything JobQueue does not: no job is dropped, bound   *)
(* over another one or taken out of turn.                                   *)
ImplementsJobQueue == JQ!JQSpec

(* Each job that was pushed is in the queue, bound to exactly one looper,   *)
(* or over: a job bound by trig_run_func is never lost to the looper's own  *)
(* pop_runfunc, nor run a second time.                                      *)
EveryJobOnce == JQ!EveryJobOnce

(* With a single looper, as IHProtocolInf creates the pool, jobs also end in *)
(* the order in which they were pushed: the messages of a peer reach the    *)
(* application in the order in which its receiver read them.                *)
RunsInPushOrder == JQ!EndsInPushOrder

(* run_thread pushes the job and then has to "trig thread to wake-up": every*)
(* job pushed is run, even when no further call is made.                    *)
PushedJobRuns ==
    \A j \in Jobs : j <= npush ~> j \in finished
=============================================================================
