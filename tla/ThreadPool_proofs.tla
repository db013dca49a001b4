-------------------------- MODULE ThreadPool_proofs --------------------------
(***************************************************************************)
(* Proofs about ThreadPool for any number of producers, loopers and jobs:  *)
(* IInv is inductive, and with it every step of the pool is a step of      *)
(* JobQueue or leaves JobQueue's variables alone.  The destructors, which  *)
(* begin in some state IInv allows, free no looper at work.                *)
(***************************************************************************)
EXTENDS ThreadPoolTeardown, TLAPS

(* The promise of JobQueue, for the variables to which ThreadPool maps its   *)
(* own: JQInv is inductive, and every job is in exactly one place.           *)

LEMMA NoJobFact == JQ!NoJobIsNoNumber
  BY PoolAssumption DEF JQ!NoJobIsNoNumber

LEMMA JQInitInv == JQ!NoJobIsNoNumber /\ JQ!JQInit => JQ!JQInv
  BY DEF JQ!NoJobIsNoNumber, JQ!JQInit, JQ!JQInv, JQ!JQTypeOK, JQ!Taken, JQ!Held

LEMMA PushInv ==
    ASSUME JQ!NoJobIsNoNumber, JQ!JQInv, JQ!Push
    PROVE  JQ!JQInv'
  <1> USE DEF JQ!Push, JQ!JQInv, JQ!JQTypeOK
  <1>1. JQ!JQTypeOK'
    <2>1. queue \in Seq(1 .. npush + 1) /\ Holding \in [Loopers -> (1 .. npush + 1) \cup {NoJob}]
      OBVIOUS
    <2>2. QED
      BY <2>1
  <1>2. Len(queue') = Len(queue) + 1 /\ JQ!Taken' = JQ!Taken
    BY DEF JQ!Taken
  <1>3. \A i \in 1 .. Len(queue') : queue'[i] = JQ!Taken' + i
    <2> SUFFICES ASSUME NEW i \in 1 .. Len(queue')
                 PROVE  queue'[i] = JQ!Taken' + i
      OBVIOUS
    <2>1. CASE i \in 1 .. Len(queue)
      BY <1>2, <2>1
    <2>2. CASE i = Len(queue) + 1
      <3>1. queue'[i] = npush + 1
        BY <2>2
      <3>2. QED
        BY <1>2, <2>2, <3>1 DEF JQ!Taken
    <2>3. QED
      BY <1>2, <2>1, <2>2
  <1>4. QED
    BY <1>1, <1>2, <1>3 DEF JQ!Held

LEMMA TakeInv ==
    ASSUME JQ!NoJobIsNoNumber, JQ!JQInv, NEW w \in Loopers, JQ!Take(w)
    PROVE  JQ!JQInv'
  <1> USE DEF JQ!NoJobIsNoNumber, JQ!Take, JQ!JQInv, JQ!JQTypeOK
  <1>1. /\ Head(queue) = JQ!Taken + 1
        /\ Len(queue) \in Nat \ {0}
        /\ Len(queue') = Len(queue) - 1
        /\ \A i \in 1 .. Len(queue') : queue'[i] = queue[i + 1]
    BY DEF JQ!Taken
  <1>2. JQ!Taken' = JQ!Taken + 1 /\ JQ!Taken + 1 \in 1 .. npush
    BY <1>1 DEF JQ!Taken
  <1>3. JQ!Held' = JQ!Held \cup {JQ!Taken + 1}
    BY <1>1 DEF JQ!Held
  <1>4. JQ!JQTypeOK'
    <2>1. Tail(queue) \in Seq(1 .. npush)
      OBVIOUS
    <2>2. QED
      BY <1>1, <1>2, <2>1
  <1>5. \A i \in 1 .. Len(queue') : queue'[i] = JQ!Taken' + i
    BY <1>1, <1>2 DEF JQ!Taken
  <1>6. finished' \cup JQ!Held' = 1 .. JQ!Taken' /\ finished' \cap JQ!Held' = {}
    <2>1. JQ!Taken \in Nat /\ finished' = finished
      OBVIOUS
    <2>2. 1 .. JQ!Taken + 1 = (1 .. JQ!Taken) \cup {JQ!Taken + 1}
      BY <2>1
    <2>3. JQ!Taken + 1 \notin 1 .. JQ!Taken
      BY <2>1
    <2>4. finished \cup JQ!Held = 1 .. JQ!Taken /\ finished \cap JQ!Held = {}
      OBVIOUS
    <2>5. QED
      BY <1>2, <1>3, <2>1, <2>2, <2>3, <2>4
  <1>7. \A u, v \in Loopers : u # v /\ Holding'[u] # NoJob => Holding'[u] # Holding'[v]
    <2>1. \A v \in Loopers : Holding[v] # JQ!Taken + 1
      <3>1. JQ!Taken + 1 \notin JQ!Held /\ JQ!Taken + 1 # NoJob
        BY <1>2
      <3>2. QED
        BY <3>1 DEF JQ!Held
    <2>2. QED
      BY <1>1, <2>1
  <1>8. QED
    BY <1>2, <1>4, <1>5, <1>6, <1>7

LEMMA FinishInv ==
    ASSUME JQ!NoJobIsNoNumber, JQ!JQInv, NEW w \in Loopers, JQ!Finish(w)
    PROVE  JQ!JQInv'
  <1> USE DEF JQ!NoJobIsNoNumber, JQ!Finish, JQ!JQInv, JQ!JQTypeOK
  <1>1. JQ!Taken' = JQ!Taken
    BY DEF JQ!Taken
  <1>2. JQ!Held' = JQ!Held \ {Holding[w]} /\ Holding[w] \in JQ!Held
    BY DEF JQ!Held
  <1>3. JQ!JQTypeOK'
    OBVIOUS
  <1>4. \A u, v \in Loopers : u # v /\ Holding'[u] # NoJob => Holding'[u] # Holding'[v]
    OBVIOUS
  <1>5. QED
    BY <1>1, <1>2, <1>3, <1>4

LEMMA JQStepInv == JQ!NoJobIsNoNumber /\ JQ!JQInv /\ [JQ!JQNext]_JQ!jqVars => JQ!JQInv'
  <1> SUFFICES ASSUME JQ!NoJobIsNoNumber, JQ!JQInv, [JQ!JQNext]_JQ!jqVars PROVE JQ!JQInv'
    OBVIOUS
  <1>1. CASE UNCHANGED JQ!jqVars
    BY <1>1 DEF JQ!jqVars, JQ!JQInv, JQ!JQTypeOK, JQ!Taken, JQ!Held
  <1>2. QED
    BY <1>1, PushInv, TakeInv, FinishInv DEF JQ!JQNext

LEMMA JQInvImplies == JQ!NoJobIsNoNumber /\ JQ!JQInv => JQ!EveryJobOnce
  <1> SUFFICES ASSUME JQ!NoJobIsNoNumber, JQ!JQInv PROVE JQ!EveryJobOnce
    OBVIOUS
  <1> USE DEF JQ!NoJobIsNoNumber, JQ!JQInv, JQ!JQTypeOK, JQ!Taken
  <1>1. \A i \in 1 .. Len(queue) : queue[i] \notin JQ!Held \cup finished
    OBVIOUS
  <1>2. \A j \in 1 .. npush :
          j \in JQ!Held \cup finished \/ \E i \in 1 .. Len(queue) : queue[i] = j
    <2> SUFFICES ASSUME NEW j \in 1 .. npush, j \notin 1 .. JQ!Taken
                 PROVE  \E i \in 1 .. Len(queue) : queue[i] = j
      OBVIOUS
    <2>1. j - JQ!Taken \in 1 .. Len(queue)
      OBVIOUS
    <2>2. queue[j - JQ!Taken] = j
      <3>1. queue[j - JQ!Taken] = JQ!Taken + (j - JQ!Taken)
        BY <2>1
      <3>2. QED
        BY <3>1
    <2>3. QED
      BY <2>1, <2>2
  <1>3. QED
    BY <1>1, <1>2 DEF JQ!EveryJobOnce

(* Whoever implements JobQueue loses no job and runs none twice. *)
THEOREM JobsOnce == JQ!JQSpec => []JQ!EveryJobOnce
  <1>1. JQ!JQInit => JQ!JQInv
    BY NoJobFact, JQInitInv
  <1>2. JQ!JQInv /\ [JQ!JQNext]_JQ!jqVars => JQ!JQInv'
    BY NoJobFact, JQStepInv
  <1>3. JQ!JQInv => JQ!EveryJobOnce
    BY NoJobFact, JQInvImplies
  <1>4. QED
    BY <1>1, <1>2, <1>3, PTL DEF JQ!JQSpec

-----------------------------------------------------------------------------
(* A single worker ends the jobs in the order in which they were pushed.   *)

LEMMA NewestHeldInit == JQ!JQInit => JQ!NewestHeld
  BY DEF JQ!JQInit, JQ!NewestHeld

LEMMA NewestHeldStep ==
    ASSUME NEW l, Loopers = {l}, JQ!NoJobIsNoNumber, JQ!JQInv, JQ!NewestHeld, [JQ!JQNext]_JQ!jqVars
    PROVE  JQ!NewestHeld'
  <1> USE DEF JQ!JQInv, JQ!JQTypeOK, JQ!NewestHeld, JQ!Taken
  <1>1. CASE UNCHANGED JQ!jqVars
    BY <1>1 DEF JQ!jqVars
  <1>2. CASE JQ!Push
    BY <1>2 DEF JQ!Push
  <1>3. CASE JQ!Take(l)
    <2>1. Head(queue) = JQ!Taken + 1 /\ Len(Tail(queue)) = Len(queue) - 1
      BY <1>3 DEF JQ!Take
    <2>2. QED
      BY <1>3, <2>1 DEF JQ!Take
  <1>4. CASE JQ!Finish(l)
    BY <1>4 DEF JQ!Finish
  <1>5. QED
    BY <1>1, <1>2, <1>3, <1>4 DEF JQ!JQNext

LEMMA NewestHeldImplies ==
    ASSUME NEW l, Loopers = {l}, JQ!NoJobIsNoNumber, JQ!JQInv, JQ!NewestHeld
    PROVE  JQ!EndsInPushOrder
  <1> USE DEF JQ!JQInv, JQ!JQTypeOK, JQ!NewestHeld, JQ!EndsInPushOrder
  <1>1. JQ!Held \subseteq {JQ!Taken}
    BY DEF JQ!Held
  <1>2. SUFFICES ASSUME NEW j \in finished, NEW i \in 1 .. j PROVE i \in finished
    OBVIOUS
  <1>3. j \in 1 .. JQ!Taken
    OBVIOUS
  <1>4. CASE i = JQ!Taken
    BY <1>3, <1>4
  <1>5. CASE i # JQ!Taken
    <2>1. i \in 1 .. JQ!Taken
      BY <1>3
    <2>2. i \notin JQ!Held
      BY <1>1, <1>5
    <2>3. QED
      BY <2>1, <2>2
  <1>6. QED
    BY <1>4, <1>5
-----------------------------------------------------------------------------
(* Any queue handed out in order is a sequence of positions of Jobs.        *)
LEMMA TailFacts ==
    ASSUME queue \in Seq(Jobs), queue # <<>>
    PROVE  /\ Head(queue) \in Jobs
           /\ Tail(queue) \in Seq(Jobs)
           /\ Head(queue) = queue[1]
           /\ Len(queue) \in Nat \ {0}
           /\ Len(Tail(queue)) = Len(queue) - 1
           /\ \A i \in 1 .. Len(Tail(queue)) : Tail(queue)[i] = queue[i + 1]
  OBVIOUS

LEMMA InitJQ == Init => JQ!JQInit
  BY DEF Init, JQ!JQInit, Holds, Holding

LEMMA InitIInv == Init => IInv
  <1> SUFFICES ASSUME Init PROVE IInv
    OBVIOUS
  <1> USE PoolAssumption DEF Init
  <1>1. TypeOK
    BY DEF TypeOK, Jobs, States, LooperPCs, ProducerPCs
  <1>2. \A w \in Loopers : LooperOK(w)
    BY DEF LooperOK
  <1>3. \A p \in Producers : ProducerOK(p)
    BY DEF ProducerOK
  <1>4. JQ!JQInv
    BY InitJQ, NoJobFact, JQInitInv
  <1>5. QED
    BY <1>1, <1>2, <1>3, <1>4 DEF IInv

-----------------------------------------------------------------------------
(* A looper step leaves every other looper alone. *)
LEMMA LooperFrame ==
    ASSUME IInv, NEW w \in Loopers, Looper(w) \/ SpuriousWake(w)
    PROVE  /\ thrMap' = thrMap /\ npush' = npush
           /\ UNCHANGED producerVars
           /\ \A v \in Loopers \ {w} :
                 /\ lpc'[v] = lpc[v] /\ state'[v] = state[v]
                 /\ isJob'[v] = isJob[v] /\ runFunc'[v] = runFunc[v]
  BY DEF IInv, TypeOK, Looper, TestIsJob, RunJob, JobThrows, PopNext, PopIdle, Park,
         Resume, SpuriousWake, PopInto, PopNull, At, Goto, jobVars, producerVars

LEMMA LooperTypes ==
    ASSUME IInv, NEW w \in Loopers, Looper(w) \/ SpuriousWake(w)
    PROVE  TypeOK'
  <1> USE DEF IInv, TypeOK, jobVars, producerVars, At, Goto
  <1>1. CASE TestIsJob(w)
    BY <1>1 DEF TestIsJob, States, LooperPCs
  <1>2. CASE RunJob(w)
    BY <1>2 DEF RunJob, LooperPCs, LooperOK
  <1>3. CASE JobThrows(w)
    BY <1>3 DEF JobThrows, LooperPCs, LooperOK
  <1>4. CASE PopNext(w)
    <2>1. CASE queue = <<>>
      BY <1>4, <2>1 DEF PopNext, PopInto, PopNull, LooperPCs
    <2>2. CASE queue # <<>>
      <3>1. Head(queue) \in Jobs /\ Tail(queue) \in Seq(Jobs)
        BY <2>2, TailFacts
      <3>2. QED
        BY <1>4, <2>2, <3>1 DEF PopNext, PopInto, PopNull, LooperPCs
    <2>3. QED
      BY <2>1, <2>2
  <1>5. CASE PopIdle(w)
    <2>1. CASE PopInto(w)
      <3>1. Head(queue) \in Jobs /\ Tail(queue) \in Seq(Jobs)
        BY <2>1, TailFacts DEF PopInto
      <3>2. lpc' = [lpc EXCEPT ![w] = "busy"] /\ state' = [state EXCEPT ![w] = "BUSY"]
        BY <1>5, <2>1 DEF PopIdle, PopInto, PopNull
      <3>3. lpc' \in [Loopers -> LooperPCs] /\ state' \in [Loopers -> States]
        BY <3>2 DEF LooperPCs, States
      <3>4. QED
        BY <1>5, <2>1, <3>1, <3>3 DEF PopIdle, PopInto
    <2>2. CASE PopNull(w)
      BY <1>5, <2>2 DEF PopIdle, PopInto, PopNull, LooperPCs, States
    <2>3. QED
      BY <1>5, <2>1, <2>2 DEF PopIdle
  <1>6. CASE Park(w)
    BY <1>6 DEF Park, LooperPCs, LooperOK
  <1>7. CASE Resume(w)
    BY <1>7 DEF Resume, LooperPCs, States
  <1>8. CASE SpuriousWake(w)
    BY <1>8 DEF SpuriousWake, LooperPCs
  <1>9. QED
    BY <1>1, <1>2, <1>3, <1>4, <1>5, <1>6, <1>7, <1>8 DEF Looper

LEMMA LooperLocations ==
    ASSUME IInv, NEW w \in Loopers, Looper(w) \/ SpuriousWake(w)
    PROVE  /\ \A v \in Loopers : LooperOK(v)'
           /\ \A p \in Producers : ProducerOK(p)'
  <1>1. \A v \in Loopers \ {w} : LooperOK(v)'
    BY LooperFrame DEF IInv, LooperOK
  <1>2. \A p \in Producers : ProducerOK(p)'
    BY LooperFrame DEF IInv, ProducerOK, producerVars
  <1>3. LooperOK(w)'
    <2> USE DEF IInv, TypeOK, LooperOK, At, Goto
    <2>1. CASE TestIsJob(w)
      BY <2>1 DEF TestIsJob
    <2>2. CASE RunJob(w)
      BY <2>2 DEF RunJob
    <2>3. CASE JobThrows(w)
      BY <2>3 DEF JobThrows
    <2>4. CASE PopNext(w)
      BY <2>4, TailFacts DEF PopNext, PopInto, PopNull
    <2>5. CASE PopIdle(w)
      BY <2>5, TailFacts DEF PopIdle, PopInto, PopNull
    <2>6. CASE Park(w)
      BY <2>6 DEF Park
    <2>7. CASE Resume(w)
      BY <2>7 DEF Resume
    <2>8. CASE SpuriousWake(w)
      BY <2>8 DEF SpuriousWake
    <2>9. QED
      BY <2>1, <2>2, <2>3, <2>4, <2>5, <2>6, <2>7, <2>8 DEF Looper
  <1>4. QED
    BY <1>1, <1>2, <1>3

-----------------------------------------------------------------------------
LEMMA ProducerTypes ==
    ASSUME IInv, NEW p \in Producers, Producer(p)
    PROVE  TypeOK'
  <1> USE DEF IInv, TypeOK, jobVars, looperVars
  <1>1. CASE PushRunfunc(p)
    <2>1. npush + 1 \in Jobs /\ npush + 1 \in 0 .. MaxJobs
      BY <1>1, PoolAssumption DEF PushRunfunc, Jobs
    <2>2. Append(queue, npush + 1) \in Seq(Jobs)
      BY <2>1
    <2>3. QED
      BY <1>1, <2>1, <2>2 DEF PushRunfunc, ProducerPCs
  <1>2. CASE SelectIdle(p)
    BY <1>2 DEF SelectIdle, ProducerPCs
  <1>3. CASE SelectNew(p)
    BY <1>3 DEF SelectNew, ProducerPCs, LooperPCs, States
  <1>4. CASE SelectNone(p)
    BY <1>4 DEF SelectNone, Return, ProducerPCs
  <1>5. CASE TrigCheck(p)
    <2>1. CASE state[sel[p]] = "IDLE"
      BY <1>5, <2>1 DEF TrigCheck, ProducerPCs
    <2>2. CASE state[sel[p]] # "IDLE"
      BY <1>5, <2>2 DEF TrigCheck, Return, ProducerPCs
    <2>3. QED
      BY <2>1, <2>2
  <1>6. CASE TrigRunFunc(p)
    <2>1. /\ npush' \in 0 .. MaxJobs /\ finished' \subseteq Jobs
          /\ thrMap' \subseteq Loopers /\ idles' \subseteq thrMap'
      BY <1>6 DEF TrigRunFunc
    <2>2. /\ ppc' \in [Producers -> ProducerPCs]
          /\ arg' \in [Producers -> Jobs \cup {NoJob}]
          /\ sel' \in [Producers -> Loopers \cup {NoLooper}]
          /\ answer' \in [Jobs -> {"none", "true", "false"}]
      BY <1>6 DEF TrigRunFunc, Return, ProducerPCs
    <2>3. /\ queue' \in Seq(Jobs)
          /\ runFunc' \in [Loopers -> Jobs \cup {NoJob}]
          /\ isJob' \in [Loopers -> BOOLEAN]
      <3>1. CASE PopInto(sel[p])
        <4>1. Head(queue) \in Jobs /\ Tail(queue) \in Seq(Jobs)
          BY <3>1, TailFacts DEF PopInto
        <4>2. QED
          BY <3>1, <4>1 DEF PopInto
      <3>2. CASE ~ PopInto(sel[p])
        BY <1>6, <3>2 DEF TrigRunFunc, PopNull
      <3>3. QED
        BY <3>1, <3>2
    <2>4. state' \in [Loopers -> States] /\ lpc' \in [Loopers -> LooperPCs]
      <3>1. \/ UNCHANGED <<state, lpc>>
            \/ /\ state' = [state EXCEPT ![sel[p]] = "BUSY"]
               /\ lpc' = [lpc EXCEPT ![sel[p]] = IF @ = "wait" THEN "awake" ELSE @]
        BY <1>6 DEF TrigRunFunc
      <3>2. QED
        BY <3>1 DEF States, LooperPCs
    <2>5. QED
      BY <2>1, <2>2, <2>3, <2>4
  <1>7. QED
    BY <1>1, <1>2, <1>3, <1>4, <1>5, <1>6 DEF Producer

(* What a step of trig_run_func does to the looper it was given: nothing,   *)
(* or it binds the oldest job to a looper that waits without one.           *)
LEMMA TrigCases ==
    ASSUME IInv, NEW p \in Producers, TrigRunFunc(p)
    PROVE  LET w == sel[p] IN
           /\ w \in Loopers
           /\ \/ UNCHANGED <<queue, state, isJob, lpc>> /\ UNCHANGED runFunc
              \/ /\ UNCHANGED <<queue, state, isJob, lpc>>
                 /\ ~ isJob[w]
                 /\ runFunc' = [runFunc EXCEPT ![w] = NoJob]
              \/ /\ PopInto(w)
                 /\ ~ isJob[w]
                 /\ lpc[w] \in {"wait", "awake"}
                 /\ lpc' = [lpc EXCEPT ![w] = "awake"]
                 /\ state' = [state EXCEPT ![w] = "BUSY"]
  <1> DEFINE w == sel[p]
  <1>1. w \in thrMap /\ w \in Loopers
    BY DEF IInv, TypeOK, ProducerOK, TrigRunFunc
  <1>2. lpc[w] \in {"wait", "awake", "dead"}
    BY <1>1 DEF IInv, TypeOK, LooperOK, LooperPCs, TrigRunFunc, Owns
  <1>3. CASE state[w] = "IDLE"
    <2>1. ~ isJob[w] /\ lpc[w] \in {"wait", "awake"}
      BY <1>1, <1>2, <1>3 DEF IInv, LooperOK
    <2>2. CASE PopInto(w)
      <3>1. lpc' = [lpc EXCEPT ![w] = "awake"] /\ state' = [state EXCEPT ![w] = "BUSY"]
        BY <1>3, <2>1, <2>2 DEF TrigRunFunc, PopInto, PopNull, IInv, TypeOK
      <3>2. QED
        BY <1>1, <2>1, <2>2, <3>1
    <2>3. CASE ~ PopInto(w)
      BY <1>1, <1>3, <2>1, <2>3 DEF TrigRunFunc, PopNull
    <2>4. QED
      BY <2>2, <2>3
  <1>4. CASE state[w] # "IDLE"
    BY <1>1, <1>4 DEF TrigRunFunc, looperVars
  <1>5. QED
    BY <1>3, <1>4

LEMMA ProducerLocations ==
    ASSUME IInv, NEW p \in Producers, Producer(p)
    PROVE  /\ \A v \in Loopers : LooperOK(v)'
           /\ \A q \in Producers : ProducerOK(q)'
  <1> USE DEF IInv, TypeOK, jobVars, looperVars
  <1>1. CASE PushRunfunc(p)
    <2>1. npush + 1 \in Jobs
      BY <1>1, PoolAssumption DEF PushRunfunc, Jobs
    <2>2. QED
      BY <1>1, <2>1 DEF PushRunfunc, LooperOK, ProducerOK
  <1>2. CASE SelectIdle(p)
    BY <1>2 DEF SelectIdle, LooperOK, ProducerOK
  <1>3. CASE SelectNew(p)
    BY <1>3 DEF SelectNew, LooperOK, ProducerOK
  <1>4. CASE SelectNone(p)
    BY <1>4 DEF SelectNone, Return, LooperOK, ProducerOK
  <1>5. CASE TrigCheck(p)
    <2>1. CASE state[sel[p]] = "IDLE"
      BY <1>5, <2>1 DEF TrigCheck, LooperOK, ProducerOK
    <2>2. CASE state[sel[p]] # "IDLE"
      BY <1>5, <2>2 DEF TrigCheck, Return, LooperOK, ProducerOK
    <2>3. QED
      BY <2>1, <2>2
  <1>6. CASE TrigRunFunc(p)
    <2>1. thrMap' = thrMap
      BY <1>6 DEF TrigRunFunc
    <2>2. \A q \in Producers : ProducerOK(q)'
      BY <1>6, <2>1 DEF TrigRunFunc, Return, ProducerOK
    <2>3. PopInto(sel[p]) => Head(queue) \in Jobs
      BY TailFacts DEF PopInto
    <2>4. \A v \in Loopers : LooperOK(v)'
      BY <1>6, <2>1, <2>3, TrigCases DEF PopInto, LooperOK
    <2>5. QED
      BY <2>2, <2>4
  <1>7. QED
    BY <1>1, <1>2, <1>3, <1>4, <1>5, <1>6 DEF Producer

-----------------------------------------------------------------------------
(* Every step of a looper is a Take, a Finish or nothing to JobQueue.       *)
LEMMA LooperRefines ==
    ASSUME IInv, NEW w \in Loopers, Looper(w) \/ SpuriousWake(w)
    PROVE  [JQ!JQNext]_JQ!jqVars
  <1>0. LooperOK(w) /\ \A v \in Loopers \ {w} : Holds(v)' = Holds(v)
    BY LooperFrame DEF Holds, IInv
  <1> USE <1>0, PoolAssumption DEF Holding, IInv, TypeOK, Jobs, At, Goto
  <1>1. CASE TestIsJob(w)
    <2>1. Holds(w)' = Holds(w)
      BY <1>1 DEF TestIsJob, Holds
    <2>2. QED
      BY <1>1, <2>1 DEF TestIsJob, jobVars, JQ!jqVars
  <1>2. CASE RunJob(w) \/ JobThrows(w)
    <2>1. Holds(w) = runFunc[w] /\ Holds(w) # NoJob /\ Holds(w)' = NoJob
      BY <1>2 DEF RunJob, JobThrows, Holds, LooperOK
    <2>2. Holding' = [Holding EXCEPT ![w] = NoJob]
      BY <2>1
    <2>3. JQ!Finish(w)
      BY <1>2, <2>1, <2>2 DEF RunJob, JobThrows, JQ!Finish
    <2>4. QED
      BY <2>3 DEF JQ!JQNext
  <1>3. CASE PopNext(w) \/ PopIdle(w)
    <2>1. Holds(w) = NoJob /\ npush' = npush /\ finished' = finished
      BY <1>3 DEF PopNext, PopIdle, Holds, LooperOK
    <2>2. CASE PopInto(w)
      <3>1. Holds(w)' = Head(queue)
        BY <1>3, <2>2 DEF PopNext, PopIdle, PopInto, PopNull, Holds
      <3>2. Holding' = [Holding EXCEPT ![w] = Head(queue)]
        BY <3>1
      <3>3. JQ!Take(w)
        BY <2>1, <2>2, <3>2 DEF PopInto, JQ!Take
      <3>4. QED
        BY <3>3 DEF JQ!JQNext
    <2>3. CASE PopNull(w)
      <3>1. Holds(w)' = NoJob
        BY <1>3, <2>3 DEF PopNext, PopIdle, PopInto, PopNull, Holds, LooperOK
      <3>2. QED
        BY <2>1, <2>3, <3>1 DEF PopNull, JQ!jqVars
    <2>4. QED
      BY <1>3, <2>2, <2>3 DEF PopNext, PopIdle
  <1>4. CASE Park(w) \/ Resume(w) \/ SpuriousWake(w)
    <2>1. Holds(w)' = Holds(w)
      BY <1>4 DEF Park, Resume, SpuriousWake, Holds
    <2>2. QED
      BY <1>4, <2>1 DEF Park, Resume, SpuriousWake, jobVars, JQ!jqVars
  <1>5. QED
    BY <1>1, <1>2, <1>3, <1>4 DEF Looper

(* Every step of a producer is a Push, a Take or nothing to JobQueue.       *)
LEMMA ProducerRefines ==
    ASSUME IInv, NEW p \in Producers, Producer(p)
    PROVE  [JQ!JQNext]_JQ!jqVars
  <1> USE PoolAssumption DEF Holding, IInv, TypeOK, Jobs, jobVars, looperVars
  <1>1. CASE PushRunfunc(p)
    <2>1. Holding' = Holding
      BY <1>1 DEF PushRunfunc, Holds
    <2>2. JQ!Push
      BY <1>1, <2>1 DEF PushRunfunc, JQ!Push
    <2>3. QED
      BY <2>2 DEF JQ!JQNext
  <1>2. CASE SelectIdle(p) \/ SelectNone(p) \/ TrigCheck(p)
    <2>1. Holding' = Holding /\ UNCHANGED jobVars
      BY <1>2 DEF SelectIdle, SelectNone, TrigCheck, Holds
    <2>2. QED
      BY <2>1 DEF JQ!jqVars
  <1>3. CASE SelectNew(p)
    <2>1. \A v \in Loopers : Holds(v)' = Holds(v)
      BY <1>3 DEF SelectNew, Holds, LooperOK
    <2>2. QED
      BY <1>3, <2>1 DEF SelectNew, JQ!jqVars
  <1>4. CASE TrigRunFunc(p)
    <2>0. PICK w \in Loopers : w = sel[p]
      BY <1>4, TrigCases
    <2>1. npush' = npush /\ finished' = finished
      BY <1>4 DEF TrigRunFunc
    <2> DEFINE NoPop == /\ UNCHANGED <<queue, state, isJob, lpc>>
                        /\ \/ UNCHANGED runFunc
                           \/ ~ isJob[w] /\ runFunc' = [runFunc EXCEPT ![w] = NoJob]
               Bind == /\ PopInto(w) /\ ~ isJob[w] /\ lpc[w] \in {"wait", "awake"}
                       /\ lpc' = [lpc EXCEPT ![w] = "awake"]
    <2>2. CASE NoPop
      <3>1. \A v \in Loopers : Holds(v)' = Holds(v)
        BY <2>1, <2>2 DEF Holds
      <3>2. QED
        BY <2>1, <2>2, <3>1 DEF JQ!jqVars
    <2>3. CASE Bind
      <3>1. Holds(w) = NoJob /\ Holds(w)' = Head(queue)
        BY <2>1, <2>3 DEF Holds, PopInto
      <3>2. \A v \in Loopers \ {w} : Holds(v)' = Holds(v)
        <4>1. \A v \in Loopers \ {w} :
                isJob'[v] = isJob[v] /\ runFunc'[v] = runFunc[v] /\ lpc'[v] = lpc[v]
          BY <2>1, <2>3 DEF PopInto
        <4>2. QED
          BY <4>1 DEF Holds
      <3>3. Holding' = [Holding EXCEPT ![w] = Head(queue)]
        BY <2>1, <3>1, <3>2
      <3>4. JQ!Take(w)
        BY <2>1, <2>3, <3>1, <3>3 DEF PopInto, JQ!Take
      <3>5. QED
        BY <2>1, <3>4 DEF JQ!JQNext
    <2>4. NoPop \/ Bind
      BY <1>4, <2>0, TrigCases
    <2>5. QED
      <3> HIDE DEF NoPop, Bind
      <3>1. QED
        BY <2>2, <2>3, <2>4
  <1>5. QED
    BY <1>1, <1>2, <1>3, <1>4 DEF Producer

-----------------------------------------------------------------------------
LEMMA StepRefines == IInv /\ [Next]_vars => [JQ!JQNext]_JQ!jqVars
  <1> SUFFICES ASSUME IInv, [Next]_vars PROVE [JQ!JQNext]_JQ!jqVars
    OBVIOUS
  <1>1. CASE UNCHANGED vars
    BY <1>1 DEF vars, JQ!jqVars, Holds, Holding
  <1>2. QED
    BY <1>1, LooperRefines, ProducerRefines DEF Next

LEMMA StepIInv == IInv /\ [Next]_vars => IInv'
  <1> SUFFICES ASSUME IInv, [Next]_vars PROVE IInv'
    OBVIOUS
  <1>1. JQ!JQInv'
    BY StepRefines, NoJobFact, JQStepInv DEF IInv
  <1>2. CASE UNCHANGED vars
    BY <1>1, <1>2 DEF vars, IInv, TypeOK, LooperOK, ProducerOK
  <1>3. CASE \E w \in Loopers : Looper(w) \/ SpuriousWake(w)
    BY <1>1, <1>3, LooperTypes, LooperLocations DEF IInv
  <1>4. CASE \E p \in Producers : Producer(p)
    BY <1>1, <1>4, ProducerTypes, ProducerLocations DEF IInv
  <1>5. QED
    BY <1>2, <1>3, <1>4 DEF Next

LEMMA SpecIInv == Spec => []IInv
  BY InitIInv, StepIInv, PTL DEF Spec

(* The variables keep their types, and the idle list names only loopers    *)
(* that _thr_map_ knows: run_thread's "thread-unsafe" error never happens.  *)
THEOREM TypeCorrect == Spec => []TypeOK
  <1>1. IInv => TypeOK
    BY DEF IInv
  <1>2. QED
    BY <1>1, SpecIInv, PTL

(* However many producers and loopers race in run_thread, trig_run_func and *)
(* run_routin, each job pushed is waiting, bound to one looper, or over.    *)
THEOREM NoJobLostOrDoubled == Spec => []EveryJobOnce
  <1>1. IInv => EveryJobOnce
    BY JQInvImplies, NoJobFact DEF IInv, EveryJobOnce
  <1>2. QED
    BY <1>1, SpecIInv, PTL

(* The pool implements the abstract job queue.                              *)
THEOREM PoolImplementsJobQueue == Spec => ImplementsJobQueue
  <1>1. Init => JQ!JQInit
    BY InitJQ
  <1>2. QED
    BY <1>1, StepRefines, SpecIInv, PTL DEF Spec, ImplementsJobQueue, JQ!JQSpec

(* A pool with one looper ends the jobs in the order of run_thread's pushes.*)
THEOREM OneLooperKeepsOrder ==
    ASSUME NEW l, Loopers = {l}
    PROVE  Spec => []RunsInPushOrder
  <1> DEFINE Inv == IInv /\ JQ!NewestHeld
  <1>1. Init => Inv
    BY InitIInv, InitJQ, NewestHeldInit
  <1>2. Inv /\ [Next]_vars => Inv'
    <2>1. IInv /\ [Next]_vars => [JQ!JQNext]_JQ!jqVars /\ IInv' /\ JQ!JQInv
      BY StepRefines, StepIInv DEF IInv
    <2>2. QED
      BY <2>1, NoJobFact, NewestHeldStep
  <1>3. Inv => RunsInPushOrder
    <2>1. IInv => JQ!JQInv
      BY DEF IInv
    <2>2. QED
      BY <2>1, NoJobFact, NewestHeldImplies
         DEF RunsInPushOrder, JQ!EndsInPushOrder
  <1>4. QED
    BY <1>1, <1>2, <1>3, PTL DEF Spec
-----------------------------------------------------------------------------
(* The destructor.  A looper it has not come to yet is as in the pool, but   *)
(* for its job, which no longer matters.                                     *)
AtWork(w) ==
    /\ lpc[w] = "none" <=> w \notin thrMap
    /\ lpc[w] \in {"idle", "park", "wait"} => state[w] = "IDLE"
    /\ lpc[w] \in {"busy", "run", "next", "dead"} => state[w] = "BUSY"
    /\ lpc[w] = "awake" => state[w] \in {"BUSY", "IDLE"}
    /\ lpc[w] # "exited"

(* The looper of which the destructor waits for the thread. *)
Leaving(w) == state[w] = "EXIT" /\ lpc[w] \in {"awake", "exited"}

(* The looper whose _state_ was overwritten: wherever its thread is, it is   *)
(* not in wait, and it cannot get there while mtx_map_list is held.          *)
Caught(w) ==
    /\ lpc[w] \notin {"none", "wait"}
    /\ lpc[w] = "awake" => state[w] = "NOT_CREATED" /\ w \in detached

(* A looper whose thread is over, or has yet to see that it must leave. *)
Over(w) ==
    \/ lpc[w] \in {"exited", "dead"}
    \/ lpc[w] = "awake" /\ state[w] = "NOT_CREATED" /\ w \in detached

Part(w) ==
    IF w \in freed THEN w \notin thrMap /\ Over(w)
    ELSE IF w # dcur THEN AtWork(w)
    ELSE /\ dpc \in {"next", "lock", "done"} => AtWork(w)
         /\ dpc = "join" => Leaving(w)
         /\ dpc = "detach" => AtWork(w) /\ lpc[w] # "wait"
         /\ dpc = "clear" => Caught(w)
         /\ dpc = "free" => Over(w)

ComingDown ==
    /\ thrMap \subseteq Loopers
    /\ state \in [Loopers -> States]
    /\ lpc \in [Loopers -> LooperPCs]
    /\ freed \subseteq Loopers
    /\ dpc \in DtorPCs \ {"alive"}
    /\ dpc \notin {"next", "done"} => dcur \in thrMap
    /\ dpc = "done" => thrMap = {}
    /\ \A w \in Loopers : Part(w)

TdInv == IF dpc = "alive" THEN IInv /\ freed = {} ELSE ComingDown

LEMMA TdInitInv == TdInit => TdInv
  BY InitIInv DEF TdInit, TdInv

LEMMA BeginsDown ==
    ASSUME IInv, freed = {}, DtorBegin
    PROVE  ComingDown'
  <1>1. \A w \in Loopers : AtWork(w)
    BY DEF IInv, LooperOK, AtWork
  <1>2. thrMap \subseteq Loopers /\ state \in [Loopers -> States] /\ lpc \in [Loopers -> LooperPCs]
    BY DEF IInv, TypeOK
  <1>3. dpc' = "next" /\ freed' = {} /\ UNCHANGED <<thrMap, state, lpc>>
    BY DEF DtorBegin, vars
  <1>4. QED
    BY <1>1, <1>2, <1>3 DEF ComingDown, Part, AtWork, DtorPCs

(* The threads of the loopers run on: what is theirs stays as it must be. *)
LEMMA LooperDown ==
    ASSUME ComingDown, NEW w \in Loopers, LooperStep(w) \/ SpuriousWake(w), UNCHANGED dVars
    PROVE  ComingDown'
  <1>1. UNCHANGED <<dpc, dcur, detached, freed, thrMap>>
    BY DEF dVars, LooperStep, LeaveLoop, Looper, TestIsJob, RunJob, JobThrows, PopNext, PopIdle,
           Park, Resume, SpuriousWake
  <1> DEFINE Moves(pc, s) ==
          /\ lpc' = [lpc EXCEPT ![w] = pc] /\ state' = [state EXCEPT ![w] = s]
          /\ pc \in LooperPCs /\ s \in States
          /\ \/ lpc[w] = "busy" /\ pc = "run" /\ s = state[w]
             \/ lpc[w] = "busy" /\ pc = "idle" /\ s = "IDLE"
             \/ lpc[w] = "run" /\ pc \in {"next", "dead"} /\ s = state[w]
             \/ lpc[w] = "next" /\ pc \in {"run", "busy"} /\ s = state[w]
             \/ lpc[w] = "idle" /\ pc = "busy" /\ s = "BUSY"
             \/ lpc[w] = "idle" /\ pc = "park" /\ s = state[w]
             \/ lpc[w] = "park" /\ pc = "wait" /\ s = state[w] /\ ~ MapLocked
             \/ lpc[w] = "wait" /\ pc = "awake" /\ s = state[w]
             \/ lpc[w] = "awake" /\ state[w] = "IDLE" /\ pc = "idle" /\ s = "IDLE"
             \/ lpc[w] = "awake" /\ state[w] = "BUSY" /\ pc = "busy" /\ s = "BUSY"
             \/ /\ lpc[w] = "awake" /\ state[w] \in {"EXIT", "NOT_CREATED"}
                /\ pc = "exited" /\ s = "EXIT"
             \/ /\ lpc[w] \in {"idle", "busy"} /\ state[w] = "NOT_CREATED"
                /\ pc = "exited" /\ s = "EXIT"
  <1>2. PICK pc, s : Moves(pc, s)
    <2> USE DEF At, Goto, LooperPCs, States
    <2>1. state = [state EXCEPT ![w] = state[w]] /\ state[w] \in States
      BY DEF ComingDown
    <2>2. CASE TestIsJob(w)
      <3>1. Moves("run", state[w]) \/ Moves("idle", "IDLE")
        BY <2>1, <2>2 DEF TestIsJob
      <3>2. QED
        BY <3>1
    <2>3. CASE RunJob(w)
      BY <2>1, <2>3 DEF RunJob
    <2>4. CASE JobThrows(w)
      BY <2>1, <2>4 DEF JobThrows
    <2>5. CASE PopNext(w)
      BY <2>1, <2>5 DEF PopNext
    <2>6. CASE PopIdle(w)
      BY <2>1, <2>6 DEF PopIdle
    <2>7. CASE Park(w) /\ ~ MapLocked
      BY <2>1, <2>7 DEF Park
    <2>8. CASE Resume(w)
      <3>1. Moves("idle", "IDLE") \/ Moves("busy", "BUSY") \/ Moves("exited", "EXIT")
        BY <2>1, <2>8 DEF Resume
      <3>2. QED
        BY <3>1
    <2>9. CASE SpuriousWake(w)
      BY <2>1, <2>9 DEF SpuriousWake
    <2>10. CASE LeaveLoop(w)
      <3>1. Moves("exited", "EXIT")
        BY <2>1, <2>10 DEF LeaveLoop
      <3>2. QED
        BY <3>1
    <2>11. QED
      BY <2>2, <2>3, <2>4, <2>5, <2>6, <2>7, <2>8, <2>9, <2>10 DEF LooperStep, Looper
  <1>3. lpc' \in [Loopers -> LooperPCs] /\ state' \in [Loopers -> States]
    BY <1>2 DEF ComingDown
  <1>4. lpc'[w] = pc /\ state'[w] = s
    BY <1>2 DEF ComingDown
  <1>5. \A v \in Loopers \ {w} : lpc'[v] = lpc[v] /\ state'[v] = state[v]
    BY <1>2 DEF ComingDown
  <1>6. \A v \in Loopers \ {w} : Part(v)'
    BY <1>1, <1>5 DEF ComingDown, Part, Over, Caught, Leaving, AtWork
  <1>7. Part(w)'
    <2>1. CASE w \in freed \/ (w = dcur /\ dpc = "free")
      BY <1>1, <1>2, <1>4, <2>1 DEF ComingDown, Part, Over
    <2>2. CASE w \notin freed /\ w = dcur /\ dpc \in {"join", "clear"}
      BY <1>1, <1>2, <1>4, <2>2 DEF ComingDown, Part, Caught, Leaving, MapLocked
    <2>3. CASE w \notin freed /\ (w # dcur \/ dpc \in {"next", "lock", "done", "detach"})
      BY <1>1, <1>2, <1>4, <2>3 DEF ComingDown, Part, AtWork, MapLocked
    <2>4. QED
      BY <2>1, <2>2, <2>3 DEF ComingDown, DtorPCs
  <1>8. QED
    BY <1>1, <1>3, <1>6, <1>7 DEF ComingDown

(* A step of the destructor changes nothing of any looper but its own. *)
LEMMA DestructorDown ==
    ASSUME ComingDown, Destructor
    PROVE  ComingDown'
  <1>1. dpc \notin {"next", "done"} => dcur \in Loopers \ freed
    BY DEF ComingDown, Part
  <1> DEFINE d == dcur
             Others == \A v \in Loopers \ {d} : state'[v] = state[v] /\ lpc'[v] = lpc[v]
             Kept == /\ UNCHANGED <<thrMap, freed, dcur>> /\ detached \subseteq detached'
                     /\ state' \in [Loopers -> States] /\ lpc' \in [Loopers -> LooperPCs]
                     /\ dpc \notin {"next", "done"} /\ dpc' \in DtorPCs \ {"alive", "next", "done"}
  <1>2. ASSUME Kept, Others, Part(d)' PROVE ComingDown'
    <2>1. \A v \in Loopers \ {d} : Part(v)'
      BY <1>2 DEF ComingDown, Part, Over, AtWork
    <2>2. QED
      BY <1>1, <1>2, <2>1 DEF ComingDown
  <1>3. CASE DtorBegin
    BY <1>3 DEF DtorBegin, ComingDown
  <1>4. CASE \E w \in Loopers : DtorLooper(w)
    <2>1. PICK w \in Loopers : DtorLooper(w)
      BY <1>4
    <2>2. /\ UNCHANGED <<thrMap, state, lpc, detached, freed>> /\ w \in thrMap
          /\ dpc = "next" /\ dpc' = "lock" /\ dcur' = w
      BY <2>1 DEF DtorLooper, vars
    <2>3. \A v \in Loopers : Part(v)'
      BY <2>2 DEF ComingDown, Part, Over, AtWork
    <2>4. QED
      BY <2>2, <2>3 DEF ComingDown, DtorPCs
  <1>5. CASE DtorWake
    <2>1. /\ Kept /\ Others /\ dpc' = "join"
          /\ state'[d] = "EXIT" /\ lpc'[d] = "awake"
      BY <1>1, <1>5 DEF DtorWake, ComingDown, States, LooperPCs, DtorPCs
    <2>2. Part(d)'
      BY <1>1, <2>1 DEF Part, Leaving
    <2>3. QED
      BY <1>2, <2>1, <2>2
  <1>6. CASE DtorLeave
    <2>1. Kept /\ Others /\ dpc = "lock" /\ dpc' = "detach" /\ UNCHANGED <<state, lpc>>
      BY <1>6 DEF DtorLeave, vars, ComingDown, DtorPCs
    <2>2. AtWork(d) /\ lpc[d] # "wait"
      BY <1>1, <1>6 DEF DtorLeave, ComingDown, Part, AtWork
    <2>3. Part(d)'
      BY <1>1, <2>1, <2>2 DEF Part, AtWork
    <2>4. QED
      BY <1>2, <2>1, <2>3
  <1>7. CASE DtorDetach
    <2>1. /\ Kept /\ Others /\ dpc = "detach" /\ dpc' = "clear" /\ UNCHANGED lpc
          /\ state'[d] = "NOT_CREATED" /\ d \in detached'
      BY <1>1, <1>7 DEF DtorDetach, ComingDown, States, DtorPCs
    <2>2. lpc[d] \notin {"none", "wait"}
      BY <1>1, <2>1 DEF ComingDown, Part, AtWork
    <2>3. Part(d)'
      BY <1>1, <2>1, <2>2 DEF Part, Caught
    <2>4. QED
      BY <1>2, <2>1, <2>3
  <1>8. CASE DtorJoin
    <2>1. /\ Kept /\ Others /\ dpc' = "clear" /\ UNCHANGED lpc /\ lpc[d] = "exited"
      BY <1>1, <1>8 DEF DtorJoin, ComingDown, States, DtorPCs
    <2>2. Part(d)'
      BY <1>1, <2>1 DEF Part, Caught
    <2>3. QED
      BY <1>2, <2>1, <2>2
  <1>9. CASE DtorClear
    <2>1. /\ Kept /\ Others /\ dpc = "clear" /\ dpc' = "free" /\ UNCHANGED <<state, lpc, detached>>
      BY <1>9 DEF DtorClear, ComingDown, DtorPCs
    <2>2. Over(d)
      BY <1>1, <1>9, <2>1 DEF DtorClear, ComingDown, Part, Caught, Over, Owns, LooperPCs
    <2>3. Part(d)'
      BY <1>1, <2>1, <2>2 DEF Part, Over
    <2>4. QED
      BY <1>2, <2>1, <2>3
  <1>10. CASE DtorFree
    <2>1. /\ UNCHANGED <<state, lpc, detached>> /\ dpc = "free" /\ dpc' = "next"
          /\ thrMap' = thrMap \ {d} /\ freed' = freed \cup {d}
      BY <1>10 DEF DtorFree, looperVars
    <2>2. \A v \in Loopers : Part(v)'
      BY <1>1, <2>1 DEF ComingDown, Part, Over, AtWork
    <2>3. QED
      BY <1>1, <2>1, <2>2 DEF ComingDown, DtorPCs
  <1>11. CASE DtorEnd
    BY <1>11 DEF DtorEnd, looperVars, ComingDown, Part, Over, AtWork, DtorPCs
  <1>12. QED
    BY <1>3, <1>4, <1>5, <1>6, <1>7, <1>8, <1>9, <1>10, <1>11 DEF Destructor

LEMMA TdStepInv == TdInv /\ [TdNext]_tdVars => TdInv'
  <1> SUFFICES ASSUME TdInv, [TdNext]_tdVars PROVE TdInv'
    OBVIOUS
  <1>1. CASE dpc = "alive"
    <2>1. IInv /\ freed = {}
      BY <1>1 DEF TdInv
    <2>2. ASSUME [Next]_vars, UNCHANGED dVars PROVE TdInv'
      BY <1>1, <2>1, <2>2, StepIInv DEF TdInv, dVars
    <2>3. CASE Destructor
      <3>1. DtorBegin
        BY <1>1, <2>3 DEF Destructor, DtorLooper, DtorWake, DtorLeave, DtorDetach, DtorJoin,
                          DtorClear, DtorFree, DtorEnd
      <3>2. QED
        BY <2>1, <3>1, BeginsDown DEF DtorBegin, TdInv
    <2>4. \A w \in Loopers : ~ LeaveLoop(w)
      BY <2>1 DEF IInv, LooperOK, LeaveLoop, At
    <2>5. QED
      BY <2>2, <2>3, <2>4 DEF TdNext, LooperStep, Next, tdVars
  <1>2. CASE dpc # "alive"
    <2>1. ComingDown
      BY <1>2 DEF TdInv
    <2>2. ComingDown' => TdInv'
      BY DEF TdInv, ComingDown
    <2>3. CASE Destructor
      BY <2>1, <2>2, <2>3, DestructorDown
    <2>4. ASSUME NEW w \in Loopers, LooperStep(w) \/ (SpuriousWake(w) /\ UNCHANGED dVars) PROVE TdInv'
      BY <2>1, <2>2, <2>4, LooperDown DEF LooperStep
    <2>5. CASE UNCHANGED tdVars
      BY <2>1, <2>2, <2>5 DEF tdVars, vars, dVars, ComingDown, Part, Over, Caught, Leaving, AtWork
    <2>6. QED
      BY <1>2, <2>3, <2>4, <2>5 DEF TdNext
  <1>3. QED
    BY <1>1, <1>2

(* Whenever the destructor begins, and however the loopers run on: the       *)
(* memory it frees is none that a job or a pop is using.                     *)
THEOREM FreesOutsideLoop == TdSpec => []FreedOutsideLoop
  <1>1. TdInv => FreedOutsideLoop
    BY DEF TdInv, IInv, ComingDown, Part, Over, FreedOutsideLoop
  <1>2. QED
    BY <1>1, TdInitInv, TdStepInv, PTL DEF TdSpec
=============================================================================
