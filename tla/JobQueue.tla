------------------------------- MODULE JobQueue -------------------------------
(***************************************************************************)
(* What CThreadPool promises the code that hands it work, with no threads, *)
(* no condition variables and no idle list in sight: jobs wait in the      *)
(* order in which they were pushed; a worker that holds no job takes the   *)
(* oldest one; a job it has taken is finished by that worker and is never  *)
(* given to another one.  Jobs are numbered in push order.                 *)
(*                                                                         *)
(* ThreadPool is shown to implement this specification.                    *)
(***************************************************************************)
EXTENDS Naturals, Sequences

CONSTANTS Workers,   \* the threads of the pool
          NoJob      \* "holds no job"

VARIABLES pushed,    \* how many jobs were pushed so far
          pending,   \* the jobs nobody has taken yet, oldest first
          holds,     \* [Workers -> job or NoJob]
          finished   \* the jobs that ran to their end (or threw)

jqVars == <<pushed, pending, holds, finished>>

JQTypeOK ==
    /\ pushed \in Nat
    /\ pending \in Seq(1 .. pushed)
    /\ holds \in [Workers -> (1 .. pushed) \cup {NoJob}]
    /\ finished \subseteq 1 .. pushed

JQInit ==
    /\ pushed = 0
    /\ pending = <<>>
    /\ holds = [w \in Workers |-> NoJob]
    /\ finished = {}

Push ==
    /\ pushed' = pushed + 1
    /\ pending' = Append(pending, pushed + 1)
    /\ UNCHANGED <<holds, finished>>

Take(w) ==
    /\ pending # <<>>
    /\ holds[w] = NoJob
    /\ pending' = Tail(pending)
    /\ holds' = [holds EXCEPT ![w] = Head(pending)]
    /\ UNCHANGED <<pushed, finished>>

Finish(w) ==
    /\ holds[w] # NoJob
    /\ finished' = finished \cup {holds[w]}
    /\ holds' = [holds EXCEPT ![w] = NoJob]
    /\ UNCHANGED <<pushed, pending>>

JQNext == Push \/ \E w \in Workers : Take(w) \/ Finish(w)

JQSpec == JQInit /\ [][JQNext]_jqVars

-----------------------------------------------------------------------------
(* The consequences a caller relies on. *)

Held == {holds[w] : w \in Workers} \ {NoJob}

(* What the proofs need of the constants; ThreadPool assumes it. *)
NoJobIsNoNumber == NoJob \notin Nat

(* A job is in exactly one place: waiting, held by one worker, or finished; *)
(* none is lost and none is run twice.                                      *)
EveryJobOnce ==
    /\ \A w, v \in Workers : w # v /\ holds[w] # NoJob => holds[w] # holds[v]
    /\ \A i \in 1 .. Len(pending) : pending[i] \notin Held \cup finished
    /\ Held \cap finished = {}
    /\ \A j \in 1 .. pushed :
          j \in Held \cup finished \/ \E i \in 1 .. Len(pending) : pending[i] = j

-----------------------------------------------------------------------------
(* The inductive invariant: the jobs still waiting are the last ones pushed,*)
(* in order, and the earlier ones are each held by one worker or finished.  *)
Taken == pushed - Len(pending)

JQInv ==
    /\ JQTypeOK
    /\ Taken \in Nat
    /\ \A i \in 1 .. Len(pending) : pending[i] = Taken + i
    /\ finished \cup Held = 1 .. Taken
    /\ finished \cap Held = {}
    /\ \A w, v \in Workers : w # v /\ holds[w] # NoJob => holds[w] # holds[v]

(* With one worker, the job it holds is the newest one taken.               *)
NewestHeld == \A w \in Workers : holds[w] # NoJob => holds[w] = Taken

(* With one worker, jobs also end in the order in which they were pushed.   *)
EndsInPushOrder == \A j \in finished : 1 .. j \subseteq finished
=============================================================================
