----------------------------- MODULE RxPath_proofs -----------------------------
(***************************************************************************)
(* What RxPath shows of the way of a message and of the names of a         *)
(* session, for any number of receivers, messages and names.               *)
(*                                                                         *)
(* Every step is a step of the pool or leaves it alone, so that the        *)
(* invariants of ThreadPool_proofs carry over; OrderOK adds what the       *)
(* application has got to them.  SessionOK says, for the places of the     *)
(* receiver, the job and the two that disconnect, under which names the    *)
(* session is ended, what the application was told and what the maps hold, *)
(* as long as a change of name and the end of the session have not met;    *)
(* what it says of the maps ends where two disconnections cross.           *)
(***************************************************************************)
EXTENDS RxPath, ThreadPool_proofs

(* The jobs taken from the queue so far. *)
Taken == npush - Len(queue)

PoolInv == IInv /\ JQ!NewestHeld

(* The looper is in the job's body only while it runs a job, and a chain is *)
(* there exactly then.                                                      *)
ChainOK ==
    /\ jpc # "create" => lpc[Lpr] = "run"
    /\ chains <= 1
    /\ lpc[Lpr] # "dead" => chains = IF jpc = "create" THEN 0 ELSE 1

(* What the application has got was taken, in order, and the job at hand is *)
(* newer until it is delivered.                                             *)
OrderOK ==
    /\ \A i \in 1 .. Len(delivered) : delivered[i] <= Taken
    /\ Holds(Lpr) # NoJob /\ jpc # "destroy" =>
           \A i \in 1 .. Len(delivered) : delivered[i] < Taken
    /\ DeliveredInOrder

(* The parameter of the lambda against the path of the alias object. *)
OwnerOK ==
    /\ fullPath = alias
    /\ jpc \in {"suspend", "unlist", "remove", "rename"} => newName \in Names \ {alias}
    /\ jpc \in {"insert", "list", "resume"} => newName = alias
    /\ rpc \in {"regist", "connect"} => alias = FirstName /\ ~Updating /\ mine = {}

(* Where the two that disconnect can be. *)
EndsOK ==
    /\ dstep["receiver"] # "out" => rpc = "migrate"
    /\ \A d \in Ends : dstep[d] \in {"remove", "unlist"} => ~open
    /\ crossed => rpc \in {"migrate", "done"}

(* The names under which the session is ended. *)
NamesOK ==
    /\ Updating => /\ rpc \in {"read", "blocked"}
                   /\ hasAddr /\ open
                   /\ dstep["application"] = "out"
    /\ rpc \in {"unregist", "tell"} => endName = alias
    /\ rpc = "check" => dname["receiver"] = alias
    /\ \A d \in Ends : dstep[d] # "out" => dname[d] = alias
    /\ sock \subseteq {alias}

(* What the application was told. *)
ViewOK ==
    /\ rpc \in {"regist", "connect"} => view = "nothing"
    /\ rpc \in {"read", "blocked"} =>
           IF Updating /\ jpc # "suspend"
           THEN view = "suspended" ELSE view \in {"connected", "resumed", "refused"}
    /\ rpc \in {"unregist", "tell"} =>
           view \in {"connected", "resumed", "refused"} \/ (view = "unheard" /\ again)
    /\ rpc \in {"read", "blocked", "unregist", "tell"} =>
           name \in Names /\ (name = alias <=> jpc \notin {"insert", "list", "resume"})
    /\ rpc \in {"check", "migrate", "done"} => view = "disconnected"

(* The maps. *)
MapsOK ==
    /\ failed # "null"
    /\ ~(FoundPath("receiver") /\ FoundPath("application"))
    /\ \A d \in Ends : dstep[d] \in {"get", "close"} => open
    /\ sock = IF jpc \notin {"rename", "insert"}
                 /\ (open \/ \E d \in Ends : dstep[d] = "remove")
              THEN {alias} ELSE {}
    /\ rpc \in {"migrate", "done"} => ~open \/ FoundPath("receiver")
    /\ listed \subseteq {alias}
    /\ open /\ rpc \in {"connect", "read", "blocked"}
            /\ jpc \notin {"remove", "rename", "insert", "list"} => listed = {alias}
    /\ jpc \in {"remove", "rename", "insert", "list"}
       \/ rpc \in {"tell", "check", "migrate", "done"} => listed = {}

SessionOK == ~late => NamesOK /\ ViewOK /\ (crossed \/ MapsOK)

BodyInv == PathTypeOK /\ ChainOK /\ OrderOK /\ OwnerOK /\ EndsOK /\ SessionOK

RInv == PoolInv /\ BodyInv

-----------------------------------------------------------------------------
(* The pool. *)

LEMMA OneLooper ==
    /\ Loopers = {Lpr} /\ RunImmediately = {FALSE} /\ NoJob \notin Nat /\ MaxJobs \in Nat
    /\ Rcv \in Producers /\ FirstName \in Names /\ NoName \notin Names
    /\ HandlersMayThrow \in BOOLEAN
  BY RxAssumption, PoolAssumption DEF RxAssumption, PoolAssumption

LEMMA PoolFacts ==
    ASSUME PoolInv
    PROVE  /\ npush \in 0 .. MaxJobs /\ Taken \in 0 .. npush
           /\ Holds(Lpr) # NoJob => Holds(Lpr) = Taken
           /\ lpc[Lpr] = "run" => isJob[Lpr] /\ Job = Taken /\ Job \in Jobs /\ Holds(Lpr) = Job
<1>1. npush \in 0 .. MaxJobs /\ queue \in Seq(Jobs) /\ LooperOK(Lpr)
  BY OneLooper DEF PoolInv, IInv, TypeOK
<1>2. JQ!Taken \in Nat /\ JQ!Taken = Taken
  BY DEF PoolInv, IInv, JQ!JQInv, JQ!Taken, Taken
<1>3. Len(queue) \in Nat
  BY <1>1
<1>4. Holds(Lpr) # NoJob => Holds(Lpr) = Taken
  BY OneLooper DEF PoolInv, JQ!NewestHeld, JQ!Taken, Taken, Holding
<1>5. lpc[Lpr] = "run" => isJob[Lpr] /\ Job \in Jobs /\ Holds(Lpr) = Job
  BY <1>1 DEF LooperOK, Holds, Job
<1>6. \A j \in Jobs : j # NoJob
  BY OneLooper DEF Jobs
<1> QED
  BY <1>1, <1>2, <1>3, <1>4, <1>5, <1>6 DEF Taken

(* A step of the pool takes at most one job, and a job just held is the one *)
(* just taken.                                                              *)
LEMMA PoolStep ==
    ASSUME PoolInv, [Next]_vars
    PROVE  /\ PoolInv'
           /\ Taken' \in {Taken, Taken + 1}
           /\ Holds(Lpr)' # NoJob /\ Holds(Lpr)' # Holds(Lpr) => Taken' = Taken + 1
<1>1. [JQ!JQNext]_JQ!jqVars /\ IInv' /\ JQ!JQInv
  BY StepRefines, StepIInv DEF PoolInv, IInv
<1>2. JQ!NewestHeld'
  BY <1>1, OneLooper, NoJobFact, NewestHeldStep DEF PoolInv
<1>3. npush \in Nat /\ queue \in Seq(Jobs)
  BY DEF PoolInv, IInv, TypeOK
<1>4. /\ Holds(Lpr) = Holding[Lpr] /\ Holds(Lpr)' = Holding'[Lpr]
      /\ DOMAIN Holding = Loopers
  BY OneLooper DEF Holding
<1>5. CASE JQ!Push
  <2>1. Holding' = Holding
    BY <1>5 DEF JQ!Push
  <2>2. Len(queue') = Len(queue) + 1 /\ npush' = npush + 1 /\ Len(queue) \in Nat
    BY <1>3, <1>5 DEF JQ!Push
  <2> QED
    BY <1>1, <1>2, <1>3, <1>4, <2>1, <2>2 DEF Taken, PoolInv
<1>6. ASSUME NEW w \in Loopers, JQ!Take(w)
      PROVE  Taken' = Taken + 1
  BY <1>3, <1>6 DEF JQ!Take, Taken
<1>7. ASSUME NEW w \in Loopers, JQ!Finish(w)
      PROVE  Taken' = Taken /\ Holds(Lpr)' = NoJob
  BY <1>4, <1>7, OneLooper DEF JQ!Finish, Taken
<1>8. CASE UNCHANGED JQ!jqVars
  <2>1. Holding' = Holding /\ npush' = npush /\ queue' = queue
    BY <1>8 DEF JQ!jqVars
  <2> QED
    BY <1>1, <1>2, <1>3, <1>4, <2>1 DEF Taken, PoolInv
<1> QED
  BY <1>1, <1>2, <1>5, <1>6, <1>7, <1>8 DEF PoolInv, JQ!JQNext

(* Neither a producer nor the looper outside a job disturbs the job at hand. *)
LEMMA Undisturbed ==
    ASSUME PoolInv,
           \/ \E p \in Producers : Producer(p)
           \/ TestIsJob(Lpr) \/ PopNext(Lpr) \/ PopIdle(Lpr) \/ Park(Lpr) \/ Resume(Lpr)
           \/ SpuriousWake(Lpr)
    PROVE  /\ [Next]_vars
           /\ lpc[Lpr] = "run" => lpc'[Lpr] = "run" /\ runFunc'[Lpr] = runFunc[Lpr]
           /\ lpc[Lpr] = "dead" <=> lpc'[Lpr] = "dead"
<1> USE DEF PoolInv, IInv
<1>1. /\ Lpr \in Loopers /\ lpc \in [Loopers -> LooperPCs]
      /\ runFunc \in [Loopers -> Jobs \cup {NoJob}]
  BY OneLooper DEF TypeOK
<1>2. ASSUME NEW p \in Producers, Producer(p)
      PROVE  /\ lpc[Lpr] = "run" => lpc'[Lpr] = "run" /\ runFunc'[Lpr] = runFunc[Lpr]
             /\ lpc[Lpr] = "dead" <=> lpc'[Lpr] = "dead"
  <2>1. CASE TrigRunFunc(p)
    <3>1. lpc[Lpr] = "run" => isJob[Lpr]
      BY <1>1 DEF LooperOK
    <3>2. sel[p] = Lpr
      BY <2>1, TrigCases, OneLooper
    <3> QED
      BY <2>1, <3>1, <3>2, <1>1, TrigCases DEF PopInto
  <2>2. CASE ~TrigRunFunc(p)
    BY <1>2, <2>2, OneLooper
       DEF Producer, PushRunfunc, SelectIdle, SelectNew, SelectNone, TrigCheck, looperVars
  <2> QED
    BY <2>1, <2>2
<1>3. ASSUME TestIsJob(Lpr) \/ PopNext(Lpr) \/ PopIdle(Lpr) \/ Park(Lpr) \/ Resume(Lpr)
             \/ SpuriousWake(Lpr)
      PROVE  lpc[Lpr] \notin {"run", "dead"} /\ lpc'[Lpr] # "dead"
  <2>1. /\ lpc[Lpr] \notin {"run", "dead"}
        /\ \E s \in LooperPCs \ {"dead"} : lpc' = [lpc EXCEPT ![Lpr] = s]
    <3> USE DEF At, Goto, LooperPCs
    <3>1. CASE TestIsJob(Lpr)
      BY <3>1 DEF TestIsJob
    <3>2. CASE PopNext(Lpr)
      BY <3>2 DEF PopNext
    <3>3. CASE PopIdle(Lpr)
      BY <3>3 DEF PopIdle
    <3>4. CASE Park(Lpr) \/ Resume(Lpr) \/ SpuriousWake(Lpr)
      BY <3>4 DEF Park, Resume, SpuriousWake
    <3> QED
      BY <1>3, <3>1, <3>2, <3>3, <3>4
  <2> QED
    BY <1>1, <2>1
<1>4. [Next]_vars
  BY <1>1 DEF Next, Looper
<1> QED
  BY <1>2, <1>3, <1>4

(* A step outside the job that moves the pool keeps what is said of both.   *)
LEMMA PoolMoves ==
    ASSUME RInv, [Next]_vars, UNCHANGED <<jpc, delivered, chains>>,
           lpc[Lpr] = "run" => lpc'[Lpr] = "run" /\ runFunc'[Lpr] = runFunc[Lpr],
           lpc[Lpr] = "dead" <=> lpc'[Lpr] = "dead"
    PROVE  PoolInv' /\ ChainOK' /\ OrderOK'
<1>1. /\ PoolInv' /\ Taken' \in {Taken, Taken + 1}
      /\ Holds(Lpr)' # NoJob /\ Holds(Lpr)' # Holds(Lpr) => Taken' = Taken + 1
  BY PoolStep DEF RInv
<1>2. ChainOK'
  BY DEF RInv, BodyInv, ChainOK
<1>3. OrderOK'
  <2>1. Taken \in Nat /\ \A i \in 1 .. Len(delivered) : delivered[i] \in Nat
    <3>1. delivered \in Seq(Jobs)
      BY DEF RInv, BodyInv, PathTypeOK
    <3>2. \A i \in 1 .. Len(delivered) : delivered[i] \in Jobs
      BY <3>1
    <3> QED
      BY <3>2, PoolFacts DEF RInv, Jobs
  <2> QED
    BY <1>1, <2>1 DEF RInv, BodyInv, OrderOK, DeliveredInOrder
<1> QED
  BY <1>1, <1>2, <1>3

-----------------------------------------------------------------------------
LEMMA InitInv == RxInit => RInv
<1> SUFFICES ASSUME RxInit PROVE RInv
  OBVIOUS
<1>1. IInv /\ JQ!JQInit
  BY InitIInv, InitJQ DEF RxInit
<1>2. PoolInv
  BY <1>1, NewestHeldInit DEF PoolInv
<1>3. PathTypeOK
  <2>1. <<>> \in Seq(Jobs) /\ 0 \in 0 .. 1
    OBVIOUS
  <2>2. dstep \in [Ends -> {"out", "get", "close", "remove", "unlist"}]
        /\ dname \in [Ends -> Names \cup {NoName}]
    BY DEF RxInit
  <2> QED
    BY <2>1, <2>2, OneLooper DEF RxInit, PathTypeOK
<1>4. ChainOK /\ OrderOK
  BY OneLooper DEF RxInit, Init, ChainOK, OrderOK, DeliveredInOrder
<1>5. OwnerOK /\ EndsOK /\ SessionOK
  BY DEF RxInit, OwnerOK, EndsOK, SessionOK, NamesOK, ViewOK, MapsOK, FoundPath, Updating, Ends
<1> QED
  BY <1>2, <1>3, <1>4, <1>5 DEF RInv, BodyInv

(* A step that leaves the pool alone keeps what is said of it. *)
LEMMA StillPool ==
    ASSUME RInv, UNCHANGED <<vars, delivered, chains>>,
           jpc = "create" <=> jpc' = "create", jpc = "destroy" <=> jpc' = "destroy"
    PROVE  PoolInv' /\ ChainOK' /\ OrderOK'
<1>1. PoolInv'
  BY PoolStep DEF RInv
<1>2. ChainOK'
  BY DEF RInv, BodyInv, vars, ChainOK
<1>3. OrderOK'
  BY DEF RInv, BodyInv, vars, OrderOK, DeliveredInOrder, Taken, Holds
<1> QED
  BY <1>1, <1>2, <1>3

(* What an invariant is made of. *)
LEMMA Together ==
    ASSUME PoolInv', ChainOK', OrderOK', PathTypeOK', OwnerOK', EndsOK',
           ~late' => NamesOK' /\ ViewOK', ~late' /\ ~crossed' => MapsOK'
    PROVE  RInv'
  BY DEF RInv, BodyInv, SessionOK

LEMMA Parts ==
    ASSUME RInv
    PROVE  /\ PathTypeOK /\ OwnerOK /\ EndsOK
           /\ ~late => NamesOK /\ ViewOK
           /\ ~late /\ ~crossed => MapsOK
  BY DEF RInv, BodyInv, SessionOK

-----------------------------------------------------------------------------
(* run_receiver. *)

LEMMA RcvRegistKeeps ==
    ASSUME RInv, RcvRegist
    PROVE  RInv'
<1> USE DEF RcvRegist, RcvAt, RcvGoto, Tell, rcvVars, discVars, jobBodyVars, mapVars,
       toldVars, histVars
<1>1. PoolInv' /\ ChainOK' /\ OrderOK'
  BY StillPool
<1>2. PathTypeOK'
  BY Parts DEF PathTypeOK, Ends
<1>3. OwnerOK'
  BY Parts DEF OwnerOK, Updating
<1>4. EndsOK'
  BY Parts DEF EndsOK, PathTypeOK, Ends
<1>5. ASSUME ~late' PROVE NamesOK'
  BY <1>5, Parts DEF NamesOK, OwnerOK, EndsOK, PathTypeOK, Updating, Ends
<1>6. ASSUME ~late' PROVE ViewOK'
  BY <1>6, Parts DEF NamesOK, ViewOK, OwnerOK, PathTypeOK, Updating
<1>7. ASSUME ~late', ~crossed' PROVE MapsOK'
  BY <1>7, Parts DEF MapsOK, NamesOK, OwnerOK, EndsOK, PathTypeOK, FoundPath, Updating, Ends
<1> QED
  BY <1>1, <1>2, <1>3, <1>4, <1>5, <1>6, <1>7, Together

LEMMA RcvConnectedKeeps ==
    ASSUME RInv, RcvConnected
    PROVE  RInv'
<1> USE DEF RcvConnected, RcvAt, RcvGoto, Tell, rcvVars, discVars, jobBodyVars,
       mapVars, toldVars, histVars, BeginEnd
<1>1. PoolInv' /\ ChainOK' /\ OrderOK'
  BY StillPool
<1>2. PathTypeOK'
  <2>1. late' \in BOOLEAN
    <3>1. late' = late \/ late' = (late \/ Updating)
      OBVIOUS
    <3>2. late \in BOOLEAN /\ Updating \in BOOLEAN
      BY Parts DEF PathTypeOK, Updating
    <3> HIDE DEF RcvConnected, BeginEnd
    <3> QED
      BY <3>1, <3>2
  <2>2. rpc' \in {"read", "unregist"} /\ again' \in BOOLEAN /\ endName' \in Names \cup {NoName}
    BY Parts DEF PathTypeOK
  <2>3. view' = "connected" /\ name' \in Names \cup {NoName}
    BY OneLooper
  <2> QED
    BY <2>1, <2>2, <2>3, Parts DEF PathTypeOK
<1>3. OwnerOK'
  BY Parts DEF OwnerOK, Updating
<1>4. EndsOK'
  BY Parts DEF EndsOK, PathTypeOK, Ends
<1>5. ASSUME ~late' PROVE NamesOK'
  BY <1>5, Parts DEF NamesOK, OwnerOK, EndsOK, PathTypeOK, Updating, Ends
<1>6. ASSUME ~late' PROVE ViewOK'
  BY <1>6, Parts DEF NamesOK, ViewOK, OwnerOK, PathTypeOK, Updating
<1>7. ASSUME ~late', ~crossed' PROVE MapsOK'
  BY <1>7, Parts DEF MapsOK, NamesOK, OwnerOK, EndsOK, PathTypeOK, FoundPath, Updating, Ends
<1> QED
  BY <1>1, <1>2, <1>3, <1>4, <1>5, <1>6, <1>7, Together

LEMMA RcvReadKeeps ==
    ASSUME RInv, RcvRead
    PROVE  RInv'
<1> USE DEF RcvRead, RcvAt, RcvGoto, Tell, rcvVars, discVars, jobBodyVars, mapVars,
       toldVars, histVars, BeginEnd
<1>1. PoolInv' /\ ChainOK' /\ OrderOK'
  BY StillPool
<1>2. PathTypeOK'
  BY Parts DEF PathTypeOK, Ends
<1>3. OwnerOK'
  BY Parts DEF OwnerOK, Updating
<1>4. EndsOK'
  BY Parts DEF EndsOK, PathTypeOK, Ends
<1>5. ASSUME ~late' PROVE NamesOK'
  BY <1>5, Parts DEF NamesOK, OwnerOK, EndsOK, PathTypeOK, Updating, Ends
<1>6. ASSUME ~late' PROVE ViewOK'
  BY <1>6, Parts DEF NamesOK, ViewOK, OwnerOK, PathTypeOK, Updating
<1>7. ASSUME ~late', ~crossed' PROVE MapsOK'
  BY <1>7, Parts DEF MapsOK, NamesOK, OwnerOK, EndsOK, PathTypeOK, FoundPath, Updating, Ends
<1> QED
  BY <1>1, <1>2, <1>3, <1>4, <1>5, <1>6, <1>7, Together

LEMMA RcvEndKeeps ==
    ASSUME RInv, RcvEnd
    PROVE  RInv'
<1> USE DEF RcvEnd, RcvAt, RcvGoto, Tell, rcvVars, discVars, jobBodyVars, mapVars,
       toldVars, histVars, BeginEnd
<1>1. PoolInv' /\ ChainOK' /\ OrderOK'
  BY StillPool
<1>2. PathTypeOK'
  BY Parts DEF PathTypeOK, Ends
<1>3. OwnerOK'
  BY Parts DEF OwnerOK, Updating
<1>4. EndsOK'
  BY Parts DEF EndsOK, PathTypeOK, Ends
<1>5. ASSUME ~late' PROVE NamesOK'
  BY <1>5, Parts DEF NamesOK, OwnerOK, EndsOK, PathTypeOK, Updating, Ends
<1>6. ASSUME ~late' PROVE ViewOK'
  BY <1>6, Parts DEF NamesOK, ViewOK, OwnerOK, PathTypeOK, Updating
<1>7. ASSUME ~late', ~crossed' PROVE MapsOK'
  BY <1>7, Parts DEF MapsOK, NamesOK, OwnerOK, EndsOK, PathTypeOK, FoundPath, Updating, Ends
<1> QED
  BY <1>1, <1>2, <1>3, <1>4, <1>5, <1>6, <1>7, Together

LEMMA RcvUnregistKeeps ==
    ASSUME RInv, RcvUnregist
    PROVE  RInv'
<1> USE DEF RcvUnregist, RcvAt, RcvGoto, Tell, rcvVars, discVars, jobBodyVars,
       mapVars, toldVars, histVars
<1>1. PoolInv' /\ ChainOK' /\ OrderOK'
  BY StillPool
<1>2. PathTypeOK'
  BY Parts DEF PathTypeOK, Ends
<1>3. OwnerOK'
  BY Parts DEF OwnerOK, Updating
<1>4. EndsOK'
  BY Parts DEF EndsOK, PathTypeOK, Ends
<1>5. ASSUME ~late' PROVE NamesOK'
  BY <1>5, Parts DEF NamesOK, OwnerOK, EndsOK, PathTypeOK, Updating, Ends
<1>6. ASSUME ~late' PROVE ViewOK'
  BY <1>6, Parts DEF NamesOK, ViewOK, OwnerOK, PathTypeOK, Updating
<1>7. ASSUME ~late', ~crossed' PROVE MapsOK'
  BY <1>7, Parts DEF MapsOK, NamesOK, OwnerOK, EndsOK, PathTypeOK, FoundPath, Updating, Ends
<1> QED
  BY <1>1, <1>2, <1>3, <1>4, <1>5, <1>6, <1>7, Together

LEMMA RcvDisconnectedKeeps ==
    ASSUME RInv, RcvDisconnected
    PROVE  RInv'
<1> USE DEF RcvDisconnected, RcvAt, RcvGoto, Tell, rcvVars, discVars, jobBodyVars,
       mapVars, toldVars, histVars, BeginEnd
<1>1. PoolInv' /\ ChainOK' /\ OrderOK'
  BY StillPool
<1>2. PathTypeOK'
  BY Parts DEF PathTypeOK, Ends
<1>3. OwnerOK'
  BY Parts DEF OwnerOK, Updating
<1>4. EndsOK'
  BY Parts DEF EndsOK, PathTypeOK, Ends
<1>5. ASSUME ~late' PROVE NamesOK'
  BY <1>5, Parts DEF NamesOK, OwnerOK, EndsOK, PathTypeOK, Updating, Ends
<1>6. ASSUME ~late' PROVE ViewOK'
  BY <1>6, Parts DEF NamesOK, ViewOK, OwnerOK, PathTypeOK, Updating
<1>7. ASSUME ~late', ~crossed' PROVE MapsOK'
  BY <1>7, Parts DEF MapsOK, NamesOK, OwnerOK, EndsOK, PathTypeOK, FoundPath, Updating, Ends
<1> QED
  BY <1>1, <1>2, <1>3, <1>4, <1>5, <1>6, <1>7, Together

LEMMA RcvMigrateKeeps ==
    ASSUME RInv, RcvMigrate
    PROVE  RInv'
<1> USE DEF RcvMigrate, RcvAt, RcvGoto, Tell, rcvVars, discVars, jobBodyVars,
       mapVars, toldVars, histVars
<1>1. PoolInv' /\ ChainOK' /\ OrderOK'
  BY StillPool
<1>2. PathTypeOK'
  BY Parts DEF PathTypeOK, Ends
<1>3. OwnerOK'
  BY Parts DEF OwnerOK, Updating
<1>4. EndsOK'
  BY Parts DEF EndsOK, PathTypeOK, Ends
<1>5. ASSUME ~late' PROVE NamesOK'
  BY <1>5, Parts DEF NamesOK, OwnerOK, EndsOK, PathTypeOK, Updating, Ends
<1>6. ASSUME ~late' PROVE ViewOK'
  BY <1>6, Parts DEF NamesOK, ViewOK, OwnerOK, PathTypeOK, Updating
<1>7. ASSUME ~late', ~crossed' PROVE MapsOK'
  BY <1>7, Parts DEF MapsOK, NamesOK, OwnerOK, EndsOK, PathTypeOK, FoundPath, Updating, Ends
<1> QED
  BY <1>1, <1>2, <1>3, <1>4, <1>5, <1>6, <1>7, Together

-----------------------------------------------------------------------------
(* disconnection. *)

LEMMA DiscCheckKeeps ==
    ASSUME RInv, DiscCheck
    PROVE  RInv'
<1> USE DEF DiscCheck, RcvAt, RcvGoto, Tell, rcvVars, discVars, jobBodyVars, mapVars,
       toldVars, histVars, DiscFinds, DiscGoto
<1>1. PoolInv' /\ ChainOK' /\ OrderOK'
  BY StillPool
<1>2. PathTypeOK'
  BY Parts DEF PathTypeOK, Ends
<1>3. OwnerOK'
  BY Parts DEF OwnerOK, Updating
<1>4. EndsOK'
  BY Parts DEF EndsOK, PathTypeOK, Ends
<1>5. ASSUME ~late' PROVE NamesOK'
  BY <1>5, Parts DEF NamesOK, OwnerOK, EndsOK, PathTypeOK, Updating, Ends
<1>6. ASSUME ~late' PROVE ViewOK'
  BY <1>6, Parts DEF NamesOK, ViewOK, OwnerOK, PathTypeOK, Updating
<1>7. ASSUME ~late', ~crossed' PROVE MapsOK'
  BY <1>7, Parts DEF MapsOK, NamesOK, OwnerOK, EndsOK, PathTypeOK, FoundPath, Updating, Ends
<1> QED
  BY <1>1, <1>2, <1>3, <1>4, <1>5, <1>6, <1>7, Together

LEMMA AppDisconnectsKeeps ==
    ASSUME RInv, NEW n \in Names, AppDisconnects(n)
    PROVE  RInv'
<1> USE DEF AppDisconnects, DiscAt, DiscGoto, Tell, rcvVars, discVars, jobBodyVars,
       mapVars, toldVars, histVars, DiscFinds
<1>1. PoolInv' /\ ChainOK' /\ OrderOK'
  BY StillPool
<1>2. PathTypeOK'
  BY Parts DEF PathTypeOK, Ends
<1>3. OwnerOK'
  BY Parts DEF OwnerOK, Updating
<1>4. EndsOK'
  <2>1. /\ dstep' = [dstep EXCEPT !["application"] = "get"]
        /\ UNCHANGED <<rpc, open>>
        /\ crossed' => crossed \/ FoundPath("receiver")
    BY DEF Ends
  <2>2. dstep'["receiver"] = dstep["receiver"] /\ dstep'["application"] = "get"
    BY <2>1, Parts DEF PathTypeOK, Ends
  <2> HIDE DEF AppDisconnects
  <2> QED
    BY <2>1, <2>2, Parts DEF EndsOK, Ends, FoundPath
<1>5. ASSUME ~late' PROVE NamesOK'
  BY <1>5, Parts DEF NamesOK, OwnerOK, EndsOK, PathTypeOK, Updating, Ends
<1>6. ASSUME ~late' PROVE ViewOK'
  BY <1>6, Parts DEF NamesOK, ViewOK, OwnerOK, PathTypeOK, Updating
<1>7. ASSUME ~late', ~crossed' PROVE MapsOK'
  BY <1>7, Parts DEF MapsOK, NamesOK, OwnerOK, EndsOK, PathTypeOK, FoundPath, Updating, Ends
<1> QED
  BY <1>1, <1>2, <1>3, <1>4, <1>5, <1>6, <1>7, Together

LEMMA DiscGetKeeps ==
    ASSUME RInv, NEW d \in Ends, DiscGet(d)
    PROVE  RInv'
<1> USE DEF DiscGet, DiscAt, DiscGoto, Tell, rcvVars, discVars, jobBodyVars, mapVars,
       toldVars, histVars
<1>1. PoolInv' /\ ChainOK' /\ OrderOK'
  BY StillPool
<1>2. PathTypeOK'
  BY Parts DEF PathTypeOK, Ends
<1>3. OwnerOK'
  BY Parts DEF OwnerOK, Updating
<1>4. EndsOK'
  BY Parts DEF EndsOK, PathTypeOK, Ends
<1>5. ASSUME ~late' PROVE NamesOK'
  BY <1>5, Parts DEF NamesOK, OwnerOK, EndsOK, PathTypeOK, Updating, Ends
<1>6. ASSUME ~late' PROVE ViewOK'
  BY <1>6, Parts DEF NamesOK, ViewOK, OwnerOK, PathTypeOK, Updating
<1>7. ASSUME ~late', ~crossed' PROVE MapsOK'
  BY <1>7, Parts DEF MapsOK, NamesOK, OwnerOK, EndsOK, PathTypeOK, FoundPath, Updating, Ends
<1> QED
  BY <1>1, <1>2, <1>3, <1>4, <1>5, <1>6, <1>7, Together

LEMMA DiscCloseKeeps ==
    ASSUME RInv, NEW d \in Ends, DiscClose(d)
    PROVE  RInv'
<1> USE DEF DiscClose, DiscAt, DiscGoto, Tell, rcvVars, discVars, jobBodyVars,
       mapVars, toldVars, histVars
<1>1. PoolInv' /\ ChainOK' /\ OrderOK'
  BY StillPool
<1>2. PathTypeOK'
  BY Parts DEF PathTypeOK, Ends
<1>3. OwnerOK'
  BY Parts DEF OwnerOK, Updating
<1>4. EndsOK'
  BY Parts DEF EndsOK, PathTypeOK, Ends
<1>5. ASSUME ~late' PROVE NamesOK'
  BY <1>5, Parts DEF NamesOK, OwnerOK, EndsOK, PathTypeOK, Updating, Ends
<1>6. ASSUME ~late' PROVE ViewOK'
  BY <1>6, Parts DEF NamesOK, ViewOK, OwnerOK, PathTypeOK, Updating
<1>7. ASSUME ~late', ~crossed' PROVE MapsOK'
  BY <1>7, Parts DEF MapsOK, NamesOK, OwnerOK, EndsOK, PathTypeOK, FoundPath, Updating, Ends
<1> QED
  BY <1>1, <1>2, <1>3, <1>4, <1>5, <1>6, <1>7, Together

LEMMA DiscRemoveKeeps ==
    ASSUME RInv, NEW d \in Ends, DiscRemove(d)
    PROVE  RInv'
<1> USE DEF DiscRemove, DiscAt, DiscGoto, Tell, rcvVars, discVars, jobBodyVars,
       mapVars, toldVars, histVars
<1>1. PoolInv' /\ ChainOK' /\ OrderOK'
  BY StillPool
<1>2. PathTypeOK'
  BY Parts DEF PathTypeOK, Ends
<1>3. OwnerOK'
  BY Parts DEF OwnerOK, Updating
<1>4. EndsOK'
  BY Parts DEF EndsOK, PathTypeOK, Ends
<1>5. ASSUME ~late' PROVE NamesOK'
  BY <1>5, Parts DEF NamesOK, OwnerOK, EndsOK, PathTypeOK, Updating, Ends
<1>6. ASSUME ~late' PROVE ViewOK'
  BY <1>6, Parts DEF NamesOK, ViewOK, OwnerOK, PathTypeOK, Updating
<1>7. ASSUME ~late', ~crossed' PROVE MapsOK'
  BY <1>7, Parts DEF MapsOK, NamesOK, OwnerOK, EndsOK, PathTypeOK, FoundPath, Updating, Ends
<1> QED
  BY <1>1, <1>2, <1>3, <1>4, <1>5, <1>6, <1>7, Together

LEMMA DiscUnlistKeeps ==
    ASSUME RInv, NEW d \in Ends, DiscUnlist(d)
    PROVE  RInv'
<1> USE DEF DiscUnlist, DiscAt, DiscGoto, Tell, rcvVars, discVars, jobBodyVars,
       mapVars, toldVars, histVars
<1>1. PoolInv' /\ ChainOK' /\ OrderOK'
  BY StillPool
<1>2. PathTypeOK'
  BY Parts DEF PathTypeOK, Ends
<1>3. OwnerOK'
  BY Parts DEF OwnerOK, Updating
<1>4. EndsOK'
  BY Parts DEF EndsOK, PathTypeOK, Ends
<1>5. ASSUME ~late' PROVE NamesOK'
  BY <1>5, Parts DEF NamesOK, OwnerOK, EndsOK, PathTypeOK, Updating, Ends
<1>6. ASSUME ~late' PROVE ViewOK'
  BY <1>6, Parts DEF NamesOK, ViewOK, OwnerOK, PathTypeOK, Updating
<1>7. ASSUME ~late', ~crossed' PROVE MapsOK'
  BY <1>7, Parts DEF MapsOK, NamesOK, OwnerOK, EndsOK, PathTypeOK, FoundPath, Updating, Ends
<1> QED
  BY <1>1, <1>2, <1>3, <1>4, <1>5, <1>6, <1>7, Together

-----------------------------------------------------------------------------
(* The job. *)

LEMMA JobCreateKeeps ==
    ASSUME RInv, JobCreate
    PROVE  RInv'
<1> USE DEF JobCreate, JobAt, JobGoto, Tell, rcvVars, discVars, jobBodyVars, mapVars,
       toldVars, histVars
<1>1. PoolInv' /\ ChainOK' /\ OrderOK'
  <2>1. UNCHANGED <<vars, delivered>> /\ lpc[Lpr] = "run" /\ jpc' = "update" /\ jpc = "create"
        /\ chains' = chains + 1
    OBVIOUS
  <2>2. PoolInv'
    BY <2>1, PoolStep DEF RInv
  <2>3. ChainOK'
    BY <2>1 DEF RInv, BodyInv, vars, ChainOK
  <2>4. OrderOK'
    BY <2>1 DEF RInv, BodyInv, vars, OrderOK, DeliveredInOrder, Taken, Holds
  <2> QED
    BY <2>2, <2>3, <2>4
<1>2. PathTypeOK'
  <2>1. chains' \in 0 .. 1
    BY DEF RInv, BodyInv, ChainOK
  <2> QED
    BY <2>1, Parts DEF PathTypeOK
<1>3. OwnerOK'
  BY Parts DEF OwnerOK, Updating
<1>4. EndsOK'
  BY Parts DEF EndsOK, PathTypeOK, Ends
<1>5. ASSUME ~late' PROVE NamesOK'
  BY <1>5, Parts DEF NamesOK, OwnerOK, EndsOK, PathTypeOK, Updating, Ends
<1>6. ASSUME ~late' PROVE ViewOK'
  BY <1>6, Parts DEF NamesOK, ViewOK, OwnerOK, PathTypeOK, Updating
<1>7. ASSUME ~late', ~crossed' PROVE MapsOK'
  BY <1>7, Parts DEF MapsOK, NamesOK, OwnerOK, EndsOK, PathTypeOK, FoundPath, Updating, Ends
<1> QED
  BY <1>1, <1>2, <1>3, <1>4, <1>5, <1>6, <1>7, Together

LEMMA JobUpdateKeeps ==
    ASSUME RInv, JobUpdate
    PROVE  RInv'
<1> USE DEF JobUpdate, JobAt, JobGoto, Tell, rcvVars, discVars, jobBodyVars, mapVars,
       toldVars, histVars
<1>1. PoolInv' /\ ChainOK' /\ OrderOK'
  BY StillPool
<1>2. PathTypeOK'
  <2>1. late' \in BOOLEAN
    <3>1. late' = late \/ late' = (late \/ Ending)
      OBVIOUS
    <3>2. late \in BOOLEAN /\ Ending \in BOOLEAN
      BY Parts DEF PathTypeOK, Ending
    <3> HIDE DEF JobUpdate
    <3> QED
      BY <3>1, <3>2
  <2>2. hasAddr' \in BOOLEAN
    <3>1. hasAddr' = hasAddr \/ hasAddr' = (fullPath \in sock)
      OBVIOUS
    <3>2. hasAddr \in BOOLEAN
      BY Parts DEF PathTypeOK
    <3> HIDE DEF JobUpdate
    <3>3. CASE hasAddr' = hasAddr
      BY <3>2, <3>3
    <3>4. CASE hasAddr' = (fullPath \in sock)
      BY <3>4
    <3> QED
      BY <3>1, <3>3, <3>4
  <2>3. jpc' \in {"message", "suspend"} /\ newName' \in Names \cup {NoName}
    BY Parts DEF PathTypeOK
  <2>4. UNCHANGED <<vars, rcvVars, discVars, alias, fullPath, delivered, mine, mapVars, chains,
                    toldVars, crossed, failed>>
    OBVIOUS
  <2> HIDE DEF JobUpdate
  <2> QED
    BY <2>1, <2>2, <2>3, <2>4, Parts DEF PathTypeOK
<1>3. OwnerOK'
  BY Parts DEF OwnerOK, Updating
<1>4. EndsOK'
  BY Parts DEF EndsOK, PathTypeOK, Ends
<1>5. ASSUME ~late' PROVE NamesOK'
  <2>1. CASE jpc' = "message"
    BY <1>5, <2>1, Parts DEF NamesOK, Updating
  <2>2. CASE jpc' = "suspend"
    <3>1. /\ jpc = "update" /\ hasAddr' = (fullPath \in sock) /\ late' = (late \/ Ending)
          /\ Job \in mine
          /\ UNCHANGED <<rpc, dstep, dname, open, endName, alias, fullPath, sock>>
      BY <2>2
    <3>2. ~late /\ ~Ending
      BY <1>5, <3>1
    <3>3. /\ rpc \in {"regist", "connect", "read", "blocked"} /\ open
          /\ dstep["application"] = "out"
      BY <3>2 DEF Ending
    <3>4. rpc \in {"read", "blocked"} /\ ~crossed /\ fullPath = alias
      BY <3>1, <3>3, Parts DEF OwnerOK, EndsOK
    <3>5. sock = {alias}
      BY <3>1, <3>2, <3>3, <3>4, Parts DEF MapsOK
    <3> HIDE DEF JobUpdate
    <3> QED
      BY <3>1, <3>2, <3>3, <3>4, <3>5, Parts DEF NamesOK, Updating
  <2> QED
    BY <2>1, <2>2
<1>6. ASSUME ~late' PROVE ViewOK'
  BY <1>6, Parts DEF NamesOK, ViewOK, OwnerOK, PathTypeOK, Updating
<1>7. ASSUME ~late', ~crossed' PROVE MapsOK'
  BY <1>7, Parts DEF MapsOK, NamesOK, OwnerOK, EndsOK, PathTypeOK, FoundPath, Updating, Ends
<1> QED
  BY <1>1, <1>2, <1>3, <1>4, <1>5, <1>6, <1>7, Together

LEMMA JobSuspendKeeps ==
    ASSUME RInv, JobSuspend
    PROVE  RInv'
<1> USE DEF JobSuspend, JobAt, JobGoto, Tell, rcvVars, discVars, jobBodyVars,
       mapVars, toldVars, histVars, UpdateEnds
<1>1. PoolInv' /\ ChainOK' /\ OrderOK'
  BY StillPool
<1>2. PathTypeOK'
  BY Parts DEF PathTypeOK, Ends
<1>3. OwnerOK'
  BY Parts DEF OwnerOK, Updating
<1>4. EndsOK'
  BY Parts DEF EndsOK, PathTypeOK, Ends
<1>5. ASSUME ~late' PROVE NamesOK'
  <2>1. /\ jpc' \in {"unlist", "message"} /\ jpc = "suspend"
        /\ UNCHANGED <<rpc, dstep, dname, open, endName, alias, sock, late>>
    OBVIOUS
  <2>2. NamesOK /\ Updating
    BY <1>5, <2>1, Parts DEF Updating
  <2>3. hasAddr
    BY <2>2 DEF NamesOK
  <2>4. jpc' = "unlist" => hasAddr'
    BY <2>3
  <2> HIDE DEF JobSuspend
  <2> QED
    BY <2>1, <2>2, <2>4 DEF NamesOK, Updating
<1>6. ASSUME ~late' PROVE ViewOK'
  BY <1>6, Parts DEF NamesOK, ViewOK, OwnerOK, PathTypeOK, Updating
<1>7. ASSUME ~late', ~crossed' PROVE MapsOK'
  BY <1>7, Parts DEF MapsOK, NamesOK, OwnerOK, EndsOK, PathTypeOK, FoundPath, Updating, Ends
<1> QED
  BY <1>1, <1>2, <1>3, <1>4, <1>5, <1>6, <1>7, Together

LEMMA JobUnlistKeeps ==
    ASSUME RInv, JobUnlist
    PROVE  RInv'
<1> USE DEF JobUnlist, JobAt, JobGoto, Tell, rcvVars, discVars, jobBodyVars, mapVars,
       toldVars, histVars
<1>1. PoolInv' /\ ChainOK' /\ OrderOK'
  BY StillPool
<1>2. PathTypeOK'
  BY Parts DEF PathTypeOK, Ends
<1>3. OwnerOK'
  BY Parts DEF OwnerOK, Updating
<1>4. EndsOK'
  BY Parts DEF EndsOK, PathTypeOK, Ends
<1>5. ASSUME ~late' PROVE NamesOK'
  BY <1>5, Parts DEF NamesOK, OwnerOK, EndsOK, PathTypeOK, Updating, Ends
<1>6. ASSUME ~late' PROVE ViewOK'
  BY <1>6, Parts DEF NamesOK, ViewOK, OwnerOK, PathTypeOK, Updating
<1>7. ASSUME ~late', ~crossed' PROVE MapsOK'
  BY <1>7, Parts DEF MapsOK, NamesOK, OwnerOK, EndsOK, PathTypeOK, FoundPath, Updating, Ends
<1> QED
  BY <1>1, <1>2, <1>3, <1>4, <1>5, <1>6, <1>7, Together

LEMMA JobRemoveKeeps ==
    ASSUME RInv, JobRemove
    PROVE  RInv'
<1> USE DEF JobRemove, JobAt, JobGoto, Tell, rcvVars, discVars, jobBodyVars, mapVars,
       toldVars, histVars
<1>1. PoolInv' /\ ChainOK' /\ OrderOK'
  BY StillPool
<1>2. PathTypeOK'
  BY Parts DEF PathTypeOK, Ends
<1>3. OwnerOK'
  BY Parts DEF OwnerOK, Updating
<1>4. EndsOK'
  BY Parts DEF EndsOK, PathTypeOK, Ends
<1>5. ASSUME ~late' PROVE NamesOK'
  BY <1>5, Parts DEF NamesOK, OwnerOK, EndsOK, PathTypeOK, Updating, Ends
<1>6. ASSUME ~late' PROVE ViewOK'
  BY <1>6, Parts DEF NamesOK, ViewOK, OwnerOK, PathTypeOK, Updating
<1>7. ASSUME ~late', ~crossed' PROVE MapsOK'
  BY <1>7, Parts DEF MapsOK, NamesOK, OwnerOK, EndsOK, PathTypeOK, FoundPath, Updating, Ends
<1> QED
  BY <1>1, <1>2, <1>3, <1>4, <1>5, <1>6, <1>7, Together

LEMMA JobRenameKeeps ==
    ASSUME RInv, JobRename
    PROVE  RInv'
<1> USE DEF JobRename, JobAt, JobGoto, Tell, rcvVars, discVars, jobBodyVars, mapVars,
       toldVars, histVars
<1>1. PoolInv' /\ ChainOK' /\ OrderOK'
  BY StillPool
<1>2. PathTypeOK'
  <2>1. newName \in Names
    BY Parts DEF OwnerOK
  <2> QED
    BY <2>1, Parts DEF PathTypeOK
<1>3. OwnerOK'
  BY Parts DEF OwnerOK, Updating
<1>4. EndsOK'
  BY Parts DEF EndsOK, PathTypeOK, Ends
<1>5. ASSUME ~late' PROVE NamesOK'
  <2>1. /\ jpc = "rename" /\ jpc' = "insert"
        /\ UNCHANGED <<rpc, dstep, dname, open, endName, hasAddr, sock, late, crossed>>
    OBVIOUS
  <2>2. /\ rpc \in {"read", "blocked"} /\ hasAddr /\ open /\ dstep["application"] = "out"
        /\ dstep["receiver"] = "out" /\ ~crossed
    BY <1>5, <2>1, Parts DEF NamesOK, EndsOK, PathTypeOK, Updating, Ends
  <2>3. sock = {}
    BY <1>5, <2>1, <2>2, Parts DEF MapsOK
  <2> HIDE DEF JobRename
  <2> QED
    BY <2>1, <2>2, <2>3 DEF NamesOK, Updating, Ends
<1>6. ASSUME ~late' PROVE ViewOK'
  BY <1>6, Parts DEF NamesOK, ViewOK, OwnerOK, PathTypeOK, Updating
<1>7. ASSUME ~late', ~crossed' PROVE MapsOK'
  BY <1>7, Parts DEF MapsOK, NamesOK, OwnerOK, EndsOK, PathTypeOK, FoundPath, Updating, Ends
<1> QED
  BY <1>1, <1>2, <1>3, <1>4, <1>5, <1>6, <1>7, Together

LEMMA JobInsertKeeps ==
    ASSUME RInv, JobInsert
    PROVE  RInv'
<1> USE DEF JobInsert, JobAt, JobGoto, Tell, rcvVars, discVars, jobBodyVars, mapVars,
       toldVars, histVars
<1>1. PoolInv' /\ ChainOK' /\ OrderOK'
  BY StillPool
<1>2. PathTypeOK'
  BY Parts DEF PathTypeOK, Ends
<1>3. OwnerOK'
  BY Parts DEF OwnerOK, Updating
<1>4. EndsOK'
  BY Parts DEF EndsOK, PathTypeOK, Ends
<1>5. ASSUME ~late' PROVE NamesOK'
  BY <1>5, Parts DEF NamesOK, OwnerOK, EndsOK, PathTypeOK, Updating, Ends
<1>6. ASSUME ~late' PROVE ViewOK'
  BY <1>6, Parts DEF NamesOK, ViewOK, OwnerOK, PathTypeOK, Updating
<1>7. ASSUME ~late', ~crossed' PROVE MapsOK'
  BY <1>7, Parts DEF MapsOK, NamesOK, OwnerOK, EndsOK, PathTypeOK, FoundPath, Updating, Ends
<1> QED
  BY <1>1, <1>2, <1>3, <1>4, <1>5, <1>6, <1>7, Together

LEMMA JobListKeeps ==
    ASSUME RInv, JobList
    PROVE  RInv'
<1> USE DEF JobList, JobAt, JobGoto, Tell, rcvVars, discVars, jobBodyVars, mapVars,
       toldVars, histVars
<1>1. PoolInv' /\ ChainOK' /\ OrderOK'
  BY StillPool
<1>2. PathTypeOK'
  BY Parts DEF PathTypeOK, Ends
<1>3. OwnerOK'
  BY Parts DEF OwnerOK, Updating
<1>4. EndsOK'
  BY Parts DEF EndsOK, PathTypeOK, Ends
<1>5. ASSUME ~late' PROVE NamesOK'
  BY <1>5, Parts DEF NamesOK, OwnerOK, EndsOK, PathTypeOK, Updating, Ends
<1>6. ASSUME ~late' PROVE ViewOK'
  BY <1>6, Parts DEF NamesOK, ViewOK, OwnerOK, PathTypeOK, Updating
<1>7. ASSUME ~late', ~crossed' PROVE MapsOK'
  BY <1>7, Parts DEF MapsOK, NamesOK, OwnerOK, EndsOK, PathTypeOK, FoundPath, Updating, Ends
<1> QED
  BY <1>1, <1>2, <1>3, <1>4, <1>5, <1>6, <1>7, Together

LEMMA JobResumeKeeps ==
    ASSUME RInv, JobResume
    PROVE  RInv'
<1> USE DEF JobResume, JobAt, JobGoto, Tell, rcvVars, discVars, jobBodyVars, mapVars,
       toldVars, histVars, UpdateEnds
<1>1. PoolInv' /\ ChainOK' /\ OrderOK'
  BY StillPool
<1>2. PathTypeOK'
  BY Parts DEF PathTypeOK, Ends
<1>3. OwnerOK'
  BY Parts DEF OwnerOK, Updating
<1>4. EndsOK'
  BY Parts DEF EndsOK, PathTypeOK, Ends
<1>5. ASSUME ~late' PROVE NamesOK'
  BY <1>5, Parts DEF NamesOK, OwnerOK, EndsOK, PathTypeOK, Updating, Ends
<1>6. ASSUME ~late' PROVE ViewOK'
  BY <1>6, Parts DEF NamesOK, ViewOK, OwnerOK, PathTypeOK, Updating
<1>7. ASSUME ~late', ~crossed' PROVE MapsOK'
  BY <1>7, Parts DEF MapsOK, NamesOK, OwnerOK, EndsOK, PathTypeOK, FoundPath, Updating, Ends
<1> QED
  BY <1>1, <1>2, <1>3, <1>4, <1>5, <1>6, <1>7, Together

LEMMA JobMessageKeeps ==
    ASSUME RInv, JobMessage
    PROVE  RInv'
<1> USE DEF JobMessage, JobAt, JobGoto, Tell, rcvVars, discVars, jobBodyVars,
       mapVars, toldVars, histVars
<1>1. PoolInv' /\ ChainOK' /\ OrderOK'
  <2> USE DEF RInv, BodyInv
  <2>1. UNCHANGED vars
    OBVIOUS
  <2>2. PoolInv' /\ ChainOK'
    BY <2>1, PoolStep DEF vars, ChainOK, PathTypeOK
  <2>3. OrderOK'
    <3>1. /\ Job = Taken /\ Taken' = Taken /\ Job \in Nat
          /\ delivered \in Seq(Jobs) /\ delivered' = Append(delivered, Job)
          /\ jpc' = "destroy" /\ jpc = "message" /\ Holds(Lpr) # NoJob
      <4>1. Job = Taken /\ Job \in Jobs /\ Holds(Lpr) = Job /\ Holds(Lpr) # NoJob
        BY PoolFacts, OneLooper DEF Jobs
      <4>2. Taken' = Taken
        BY <2>1 DEF vars, Taken
      <4>3. delivered \in Seq(Jobs)
        BY Parts DEF PathTypeOK
      <4> QED
        BY <4>1, <4>2, <4>3 DEF Jobs
    <3>2. /\ Len(delivered') = Len(delivered) + 1 /\ delivered'[Len(delivered) + 1] = Job
          /\ \A i \in 1 .. Len(delivered) : delivered'[i] = delivered[i]
          /\ Len(delivered) \in Nat
      BY <3>1
    <3>3. \A i \in 1 .. Len(delivered) : delivered[i] < Job
      BY <3>1 DEF OrderOK
    <3>4. \A i \in 1 .. Len(delivered) : delivered[i] \in Nat
      <4>1. Jobs \subseteq Nat
        BY DEF Jobs
      <4>2. \A i \in 1 .. Len(delivered) : delivered[i] \in Jobs
        BY <3>1
      <4> QED
        BY <4>1, <4>2
    <3> HIDE DEF JobMessage
    <3>5. \A i \in 1 .. Len(delivered') : i = Len(delivered) + 1 \/ i \in 1 .. Len(delivered)
      BY <3>2
    <3>6. \A i \in 1 .. Len(delivered') : delivered'[i] <= Taken'
      BY <3>1, <3>2, <3>3, <3>4, <3>5
    <3>7. DeliveredInOrder'
      BY <3>1, <3>2, <3>3, <3>4, <3>5 DEF DeliveredInOrder, OrderOK
    <3> QED
      BY <3>1, <3>6, <3>7 DEF OrderOK
  <2> QED
    BY <2>2, <2>3
<1>2. PathTypeOK'
  <2>1. Job \in Jobs
    BY PoolFacts DEF RInv
  <2>2. delivered' \in Seq(Jobs)
    BY <2>1, Parts DEF PathTypeOK
  <2> QED
    BY <2>2, Parts DEF PathTypeOK
<1>3. OwnerOK'
  BY Parts DEF OwnerOK, Updating
<1>4. EndsOK'
  BY Parts DEF EndsOK, PathTypeOK, Ends
<1>5. ASSUME ~late' PROVE NamesOK'
  BY <1>5, Parts DEF NamesOK, OwnerOK, EndsOK, PathTypeOK, Updating, Ends
<1>6. ASSUME ~late' PROVE ViewOK'
  BY <1>6, Parts DEF NamesOK, ViewOK, OwnerOK, PathTypeOK, Updating
<1>7. ASSUME ~late', ~crossed' PROVE MapsOK'
  BY <1>7, Parts DEF MapsOK, NamesOK, OwnerOK, EndsOK, PathTypeOK, FoundPath, Updating, Ends
<1> QED
  BY <1>1, <1>2, <1>3, <1>4, <1>5, <1>6, <1>7, Together

-----------------------------------------------------------------------------
(* The steps that move the pool. *)

LEMMA PoolOnlyKeeps ==
    ASSUME RInv,
           \/ \E p \in Producers : Producer(p)
           \/ TestIsJob(Lpr) \/ PopNext(Lpr) \/ PopIdle(Lpr) \/ Park(Lpr) \/ Resume(Lpr)
           \/ SpuriousWake(Lpr),
           UNCHANGED <<rcvVars, discVars, jobBodyVars, mine, mapVars, chains, toldVars, histVars,
                       failed>>
    PROVE  RInv'
<1> USE DEF rcvVars, discVars, jobBodyVars, mapVars, toldVars, histVars
<1>1. PoolInv
  BY DEF RInv
<1>2. /\ [Next]_vars
      /\ lpc[Lpr] = "run" => lpc'[Lpr] = "run" /\ runFunc'[Lpr] = runFunc[Lpr]
      /\ lpc[Lpr] = "dead" <=> lpc'[Lpr] = "dead"
  BY <1>1, Undisturbed
<1>3. PoolInv' /\ ChainOK' /\ OrderOK'
  BY <1>2, PoolMoves
<1>4. PathTypeOK' /\ OwnerOK' /\ EndsOK'
  BY Parts DEF PathTypeOK, OwnerOK, EndsOK, Updating
<1>5. ASSUME ~late' PROVE NamesOK' /\ ViewOK'
  BY <1>5, Parts DEF NamesOK, ViewOK, Updating
<1>6. ASSUME ~late', ~crossed' PROVE MapsOK'
  BY <1>6, Parts DEF MapsOK, FoundPath
<1> QED
  BY <1>3, <1>4, <1>5, <1>6, Together

LEMMA RcvMessageKeeps ==
    ASSUME RInv, RcvMessage
    PROVE  RInv'
<1> USE DEF RcvMessage, RcvAt, RcvGoto, rcvVars, discVars, jobBodyVars, mapVars, toldVars,
       histVars
<1>1. Producer(Rcv) /\ Rcv \in Producers
  BY OneLooper DEF Producer
<1>2. /\ [Next]_vars
      /\ lpc[Lpr] = "run" => lpc'[Lpr] = "run" /\ runFunc'[Lpr] = runFunc[Lpr]
      /\ lpc[Lpr] = "dead" <=> lpc'[Lpr] = "dead"
  BY <1>1, Undisturbed DEF RInv
<1>3. PoolInv' /\ ChainOK' /\ OrderOK'
  BY <1>2, PoolMoves
<1>4. mine' \subseteq Jobs
  <2>1. npush \in 0 .. MaxJobs /\ npush < MaxJobs
    BY OneLooper DEF RInv, PoolInv, IInv, TypeOK, PushRunfunc
  <2> QED
    BY <2>1, Parts, OneLooper DEF PathTypeOK, Jobs
<1>5. PathTypeOK' /\ OwnerOK' /\ EndsOK'
  BY <1>4, Parts DEF PathTypeOK, OwnerOK, EndsOK, Updating
<1>6. ASSUME ~late' PROVE NamesOK' /\ ViewOK'
  BY <1>6, Parts DEF NamesOK, ViewOK, Updating
<1>7. ASSUME ~late', ~crossed' PROVE MapsOK'
  BY <1>7, Parts DEF MapsOK, FoundPath
<1> QED
  BY <1>3, <1>5, <1>6, <1>7, Together

(* The job ends, or throws. *)
LEMMA JobEnds ==
    ASSUME RInv, RunJob(Lpr) \/ JobThrows(Lpr)
    PROVE  /\ PoolInv' /\ Taken' = Taken /\ Holds(Lpr)' = NoJob
           /\ lpc[Lpr] = "run" /\ lpc'[Lpr] = IF JobThrows(Lpr) THEN "dead" ELSE "next"
<1>1. [Next]_vars
  BY OneLooper DEF Next, Looper
<1>2. PoolInv'
  BY <1>1, PoolStep DEF RInv
<1>3. lpc \in [Loopers -> LooperPCs]
  BY DEF RInv, PoolInv, IInv, TypeOK
<1> QED
  BY <1>2, <1>3, OneLooper DEF RunJob, JobThrows, At, Goto, Taken, Holds

(* The end of a job changes nothing of the session. *)
LEMMA SessionStays ==
    ASSUME RInv, jpc \in {"create", "update", "message", "destroy"}, jpc' = "create",
           UNCHANGED <<rcvVars, discVars, alias, fullPath, hasAddr, newName, mine, mapVars,
                       toldVars, histVars, failed>>
    PROVE  /\ OwnerOK' /\ EndsOK'
           /\ ~late' => NamesOK' /\ ViewOK'
           /\ ~late' /\ ~crossed' => MapsOK'
<1> USE DEF rcvVars, discVars, mapVars, toldVars, histVars
<1>1. OwnerOK' /\ EndsOK'
  BY Parts DEF OwnerOK, EndsOK, Updating
<1>2. ASSUME ~late' PROVE NamesOK' /\ ViewOK'
  BY <1>2, Parts DEF NamesOK, ViewOK, Updating
<1>3. ASSUME ~late', ~crossed' PROVE MapsOK'
  BY <1>3, Parts DEF MapsOK, FoundPath
<1> QED
  BY <1>1, <1>2, <1>3

LEMMA JobDestroyKeeps ==
    ASSUME RInv, JobDestroy
    PROVE  RInv'
<1> USE DEF JobDestroy, JobGoto, rcvVars, discVars, mapVars, toldVars, histVars
<1>1. /\ PoolInv' /\ Taken' = Taken /\ Holds(Lpr)' = NoJob
      /\ lpc[Lpr] = "run" /\ lpc'[Lpr] # "dead"
  <2>1. ~JobThrows(Lpr)
    BY OneLooper DEF RunJob, JobThrows, Goto, RInv, PoolInv, IInv, TypeOK
  <2> QED
    BY <2>1, JobEnds
<1>2. chains = 1 /\ chains' = 0
  BY <1>1 DEF RInv, BodyInv, ChainOK
<1>3. PathTypeOK' /\ ChainOK'
  BY <1>2, OneLooper DEF RInv, BodyInv, PathTypeOK, ChainOK
<1>4. OrderOK'
  BY <1>1 DEF RInv, BodyInv, OrderOK, DeliveredInOrder
<1> QED
  BY <1>1, <1>3, <1>4, SessionStays, Together

LEMMA JobFailsKeeps ==
    ASSUME RInv, JobFails
    PROVE  RInv'
<1> USE DEF JobFails, JobGoto, rcvVars, discVars, mapVars, toldVars, histVars
<1>1. /\ PoolInv' /\ Taken' = Taken /\ Holds(Lpr)' = NoJob
      /\ lpc[Lpr] = "run" /\ lpc'[Lpr] = "dead"
  BY JobEnds
<1>2. PathTypeOK' /\ ChainOK'
  BY <1>1 DEF RInv, BodyInv, PathTypeOK, ChainOK
<1>3. OrderOK'
  BY <1>1 DEF RInv, BodyInv, OrderOK, DeliveredInOrder
<1> QED
  BY <1>1, <1>2, <1>3, SessionStays, Together

-----------------------------------------------------------------------------
LEMMA NextKeeps ==
    ASSUME RInv, [RxNext]_rxVars
    PROVE  RInv'
<1>1. ASSUME NEW d \in Ends, Disconnection(d) PROVE RInv'
  BY <1>1, DiscGetKeeps, DiscCloseKeeps, DiscRemoveKeeps, DiscUnlistKeeps DEF Disconnection
<1>2. CASE Receiver \/ RcvMessage \/ RcvEnd
  <2>1. CASE RcvRunThread
    BY <2>1, PoolOnlyKeeps, OneLooper DEF RcvRunThread
  <2> QED
    BY <1>1, <1>2, <2>1, RcvRegistKeeps, RcvConnectedKeeps, RcvReadKeeps, RcvEndKeeps,
       RcvUnregistKeeps, RcvDisconnectedKeeps, DiscCheckKeeps, RcvMigrateKeeps,
       RcvMessageKeeps DEF Receiver, Ends
<1>3. ASSUME NEW p \in Producers \ {Rcv}, OtherReceiver(p) PROVE RInv'
  BY <1>3, PoolOnlyKeeps DEF OtherReceiver
<1>4. CASE LooperMoves \/ RxSpuriousWake
  BY <1>4, PoolOnlyKeeps DEF LooperMoves, RxSpuriousWake
<1>5. CASE JobStep \/ JobFails
  BY <1>5, JobCreateKeeps, JobUpdateKeeps, JobSuspendKeeps, JobUnlistKeeps, JobRemoveKeeps,
     JobRenameKeeps, JobInsertKeeps, JobListKeeps, JobResumeKeeps, JobMessageKeeps,
     JobDestroyKeeps, JobFailsKeeps DEF JobStep
<1>6. CASE Disconnection("application") \/ \E n \in Names : AppDisconnects(n)
  BY <1>1, <1>6, AppDisconnectsKeeps DEF Ends
<1>7. CASE UNCHANGED rxVars
  <2> USE <1>7 DEF rxVars, rcvVars, discVars, jobBodyVars, mapVars, toldVars, histVars
  <2>1. PoolInv' /\ ChainOK' /\ OrderOK'
    BY StillPool
  <2>2. PathTypeOK' /\ OwnerOK' /\ EndsOK'
    BY Parts DEF PathTypeOK, OwnerOK, EndsOK, Updating
  <2>3. ASSUME ~late' PROVE NamesOK' /\ ViewOK'
    BY <2>3, Parts DEF NamesOK, ViewOK, Updating
  <2>4. ASSUME ~late', ~crossed' PROVE MapsOK'
    BY <2>4, Parts DEF MapsOK, FoundPath
  <2> QED
    BY <2>1, <2>2, <2>3, <2>4, Together
<1> QED
  BY <1>2, <1>3, <1>4, <1>5, <1>6, <1>7 DEF RxNext

LEMMA Always == RxSpec => []RInv
<1>1. RxInit => RInv
  BY InitInv
<1>2. RInv /\ [RxNext]_rxVars => RInv'
  BY NextKeeps
<1> QED
  BY <1>1, <1>2, PTL DEF RxSpec

-----------------------------------------------------------------------------
(* What the application is told. *)

LEMMA OnlyCallbacksTell ==
    ASSUME RxNext
    PROVE  /\ late' = late \/ late' = (late \/ Updating) \/ late' = (late \/ Ending)
           /\ RcvConnected \/ RcvDisconnected \/ JobSuspend \/ JobResume \/ UNCHANGED toldVars
<1> USE DEF histVars
<1>1. ASSUME NEW d \in Ends, Disconnection(d)
      PROVE  UNCHANGED <<late, toldVars>>
  BY <1>1 DEF Disconnection, DiscGet, DiscClose, DiscRemove, DiscUnlist
<1>2. CASE Receiver \/ RcvMessage \/ RcvEnd
  <2>1. CASE RcvConnected \/ RcvRead \/ RcvEnd \/ RcvDisconnected
    BY <2>1 DEF RcvConnected, RcvRead, RcvEnd, RcvDisconnected, BeginEnd
  <2>2. CASE RcvRegist \/ RcvRunThread \/ RcvMessage \/ RcvUnregist \/ DiscCheck \/ RcvMigrate
    BY <2>2 DEF RcvRegist, RcvRunThread, RcvMessage, RcvUnregist, DiscCheck, RcvMigrate
  <2> QED
    BY <1>1, <1>2, <2>1, <2>2 DEF Receiver, Ends
<1>3. CASE \/ LooperMoves \/ RxSpuriousWake \/ JobFails \/ Disconnection("application")
           \/ \E p \in Producers \ {Rcv} : OtherReceiver(p)
           \/ \E n \in Names : AppDisconnects(n)
  BY <1>1, <1>3 DEF LooperMoves, RxSpuriousWake, JobFails, OtherReceiver, AppDisconnects, Ends
<1>4. CASE JobStep /\ ~JobUpdate
  BY <1>4 DEF JobStep, JobCreate, JobSuspend, JobUnlist, JobRemove, JobRename, JobInsert,
     JobList, JobResume, JobMessage, JobDestroy
<1>5. CASE JobUpdate
  <2>1. UNCHANGED toldVars
    BY <1>5 DEF JobUpdate
  <2>2. late' = late \/ late' = (late \/ Ending)
    BY <1>5 DEF JobUpdate
  <2> QED
    BY <2>1, <2>2
<1> QED
  BY <1>2, <1>3, <1>4, <1>5 DEF RxNext

(* Each callback is a step of PeerSession, and so is the moment at which a  *)
(* change of name and the end of the session meet.                          *)
LEMMA ToldRefines ==
    ASSUME RInv, [RxNext]_rxVars
    PROVE  [Session!PSNext]_Session!svars
<1> USE DEF Session!PSNext, Session!svars
<1>1. CASE UNCHANGED rxVars
  BY <1>1 DEF rxVars, toldVars, histVars
<1>2. CASE RxNext
  <2>1. /\ late' = late \/ late' = (late \/ Updating) \/ late' = (late \/ Ending)
        /\ RcvConnected \/ RcvDisconnected \/ JobSuspend \/ JobResume \/ UNCHANGED toldVars
    BY <1>2, OnlyCallbacksTell
  <2>2. CASE late
    <3>1. late'
      BY <2>1, <2>2
    <3> QED
      BY <2>2, <3>1
  <2>3. CASE ~late /\ late'
    <3>1. view # "overtaken"
      BY DEF RInv, BodyInv, PathTypeOK
    <3> QED
      BY <2>3, <3>1 DEF Session!Overtaken
  <2>4. CASE ~late /\ ~late'
    <3>1. PathTypeOK /\ OwnerOK /\ NamesOK /\ ViewOK
      BY <2>4, Parts
    <3>2. CASE UNCHANGED toldVars
      BY <2>4, <3>2 DEF toldVars
    <3>3. CASE RcvConnected
      <4>1. view = "nothing" /\ view' = "connected" /\ name' \in Names
        BY <3>1, <3>3, OneLooper DEF RcvConnected, RcvAt, Tell, ViewOK
      <4> QED
        BY <2>4, <4>1 DEF Session!Connect
    <3>4. CASE RcvDisconnected
      <4>1. CASE UNCHANGED toldVars
        BY <2>4, <4>1 DEF toldVars
      <4>2. CASE ~UNCHANGED toldVars
        <5>1. /\ rpc = "tell" /\ endName = alias /\ ~Updating
          BY <3>1, <3>4 DEF RcvDisconnected, RcvAt, NamesOK
        <5>2. /\ name = alias
              /\ view \in {"connected", "resumed", "refused"} \/ (view = "unheard" /\ again)
          BY <3>1, <5>1 DEF ViewOK, Updating
        <5>3. /\ view' = "disconnected" \/ (view' = "unheard" /\ ~again)
              /\ name' = endName
          BY <3>4, <4>2 DEF RcvDisconnected, Tell
        <5> QED
          BY <2>4, <5>1, <5>2, <5>3 DEF Session!Disconnect
      <4> QED
        BY <4>1, <4>2
    <3>5. CASE JobSuspend
      <4>1. jpc = "suspend" /\ rpc \in {"read", "blocked"}
        BY <3>1, <3>5 DEF JobSuspend, JobAt, NamesOK, Updating
      <4>2. view \in {"connected", "resumed", "refused"} /\ name = alias
        BY <3>1, <4>1 DEF ViewOK
      <4>3. view' \in {"suspended", "refused"} /\ name' = alias
        BY <3>5 DEF JobSuspend, Tell
      <4> QED
        BY <2>4, <4>2, <4>3 DEF Session!Suspend
    <3>6. CASE JobResume
      <4>1. jpc = "resume" /\ rpc \in {"read", "blocked"} /\ Updating
        BY <3>1, <3>6 DEF JobResume, JobAt, NamesOK, Updating
      <4>2. view = "suspended" /\ name \in Names /\ name # alias /\ newName = alias
        BY <3>1, <4>1 DEF ViewOK, OwnerOK
      <4>3. view' = "resumed" /\ name' = newName
        BY <3>6 DEF JobResume, Tell
      <4> QED
        BY <2>4, <3>1, <4>2, <4>3 DEF Session!Resume, PathTypeOK
    <3> QED
      BY <2>1, <3>2, <3>3, <3>4, <3>5, <3>6
  <2> QED
    BY <2>2, <2>3, <2>4
<1> QED
  BY <1>1, <1>2

-----------------------------------------------------------------------------
(* The application sees the session as PeerSession tells it, whatever its   *)
(* handler throws: connected, then suspended and resumed in pairs, then     *)
(* disconnected, a second time only when the first was not heard, until a   *)
(* change of name meets the end (IHProtocolInf.cpp:90-131).                 *)
THEOREM CallbacksTellOneSession == RxSpec => ImplementsPeerSession
<1>1. RxInit => Session!PSInit
  BY DEF RxInit, Session!PSInit
<1> QED
  BY <1>1, ToldRefines, Always, PTL DEF RxSpec, ImplementsPeerSession, Session!PSSpec

(* Types of the path of a message; the pool's own are TypeCorrect.          *)
THEOREM RxTypeCorrect == RxSpec => []RxTypeOK
<1>1. RInv => RxTypeOK
  BY DEF RInv, BodyInv, PoolInv, IInv, RxTypeOK
<1> QED
  BY <1>1, Always, PTL

(* The messages of a provider's peers reach the application in the order in *)
(* which they were pushed, none twice (IHProtocolInf.cpp:161).              *)
THEOREM MessagesInOrder == RxSpec => []DeliveredInOrder
<1>1. RInv => DeliveredInOrder
  BY DEF RInv, BodyInv, OrderOK
<1> QED
  BY <1>1, Always, PTL

(* A protocol chain lives as long as its job; only the looper's death leaks *)
(* one (IHProtocolInf.cpp:136-157).                                         *)
THEOREM ChainPerJob == RxSpec => []ChainsComeBack
<1>1. RInv => ChainsComeBack
  BY DEF RInv, BodyInv, PathTypeOK, ChainOK, ChainsComeBack
<1> QED
  BY <1>1, Always, PTL

(* However often the peer changes its name, the alias object, the map of    *)
(* descriptors, the list of connected peers and the application agree on    *)
(* it between two changes (CPVD_TCP.cpp:592-625), whatever the handler      *)
(* throws and as long as the application does not disconnect.               *)
THEOREM NamesAgreeBetweenUpdates == RxSpec => []OneName
<1>1. ASSUME RInv PROVE OneName
  <2>1. ASSUME rpc \in {"read", "blocked"}, open, dstep["application"] = "out", ~Updating, ~late
        PROVE  fullPath = alias /\ sock = {alias} /\ listed = {alias} /\ name = alias
    BY <1>1, <2>1, Parts DEF OwnerOK, EndsOK, ViewOK, MapsOK, Updating
  <2> QED
    BY <2>1 DEF OneName
<1> QED
  BY <1>1, Always, PTL

(* When receiver and application have disconnected, nothing is left of a    *)
(* session whose end no change of name met and which the two did not end at *)
(* the same moment; and only those two races dereference a null pointer     *)
(* (CPVD_TCP.cpp:353-378, 592-625, 671).                                    *)
THEOREM EndsClean == RxSpec => []CleanEnd
<1>1. ASSUME RInv PROVE CleanEnd
  <2>1. ASSUME ~late, ~crossed PROVE failed # "null"
    BY <1>1, <2>1, Parts DEF MapsOK
  <2>2. ASSUME ~late, ~crossed, rpc = "done", dstep["application"] = "out"
        PROVE  ~open /\ sock = {} /\ listed = {}
    <3>1. dstep["receiver"] = "out"
      BY <1>1, <2>2, Parts DEF EndsOK, PathTypeOK, Ends
    <3> QED
      BY <1>1, <2>2, <3>1, Parts DEF MapsOK, FoundPath, Ends
  <2> QED
    BY <2>1, <2>2 DEF CleanEnd
<1> QED
  BY <1>1, Always, PTL
================================================================================
