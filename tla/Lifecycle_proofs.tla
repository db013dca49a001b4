--------------------------- MODULE Lifecycle_proofs ---------------------------
(***************************************************************************)
(* The safety properties of Lifecycle for any number of calls of init and  *)
(* any threads of the application.                                         *)
(*                                                                         *)
(* Every thread is the one that runner stands for or one that quit has     *)
(* cancelled, and the former has the provider it has made unless a         *)
(* datagram's loop has ended by itself (RunsOK, HasProvider); OwnerOK      *)
(* follows the one call of quit and the bit it waits for; ServerOK         *)
(* says that whoever has bound the port is the only one that ever will.    *)
(***************************************************************************)
EXTENDS Lifecycle, FiniteSetTheorems, TLAPS

Quitting == {"cancel", "dcancel", "wait", "dwait"}

Numbered ==
    /\ cancel \subseteq 1 .. runs /\ told \subseteq 1 .. runs
    /\ handle <= runs
    /\ \A r \in Runs : r > runs => rt[r] = "none"
    /\ quits <= runs
    /\ handle # None /\ mpc \notin {"cancel", "dcancel"} => quits < runs

OwnerOK ==
    /\ mpc \in {"cancel", "dcancel"} => qrun = handle /\ handle # None
    /\ mpc \in {"wait", "dwait", "clear", "gone"} => handle = None
    /\ mpc \in Quitting => ~cont /\ quits > 0
    /\ quits = 0 \/ (quits = 1 /\ mpc \in {"cancel", "dcancel"}) => cancel = {}
    /\ quits <= 1 => \A r, s \in cancel : r = s
    /\ cancel = {} => "DONE_FORCE_EXIT" \notin bits
    /\ (quits <= 1 /\ ("DONE_FORCE_EXIT" \in bits \/ cont)) => \A r \in cancel : rt[r] \in Ended

(* The thread that runner stands for has the provider it has made, and only *)
(* a datagram provider's leaves the loop.                                   *)
HasProvider(r) ==
    /\ rt[r] \notin {"none", "cancelled", "killed"}
    /\ rt[r] = "bind" => hpvd = r /\ prov[r] = "made"
    /\ rt[r] = "protocol" => hpvd = r
    /\ rt[r] \in {"tell", "loop"} => hpvd = r /\ sendTo = r /\ prov[r] = "started"
    /\ rt[r] = "loop" => r \in told
    /\ rt[r] = "reset" =>
          /\ hpvd = r
          /\ \/ prov[r] = "made" /\ r \notin told
             \/ prov[r] = "started" /\ sendTo = r /\ r \in told /\ kind \in Datagram
    /\ rt[r] \in {"pop", "flag", "exited"} => LoopLeft(r)

RunsOK ==
    /\ \A r \in Runs : rt[r] # "none" => r = handle \/ r \in cancel
    /\ quits <= 1 /\ cont /\ handle # None => HasProvider(handle)
    /\ quits = 0 /\ handle # None => cont /\ (rt[handle] \in {"begin", "make"} => hpvd = None)
    /\ quits = 0 /\ handle = None => hpvd = None
    /\ quits = 0 /\ hpvd = None =>
          (\A u \in Users : upc[u] # "checked") \/ (handle # None /\ LoopLeft(handle))

ToldOK == \A r \in told : rt[r] \notin {"none", "begin", "make", "bind", "protocol"}

Passed(r) == rt[r] \in {"protocol", "tell"} \/ r \in told

ServerOK ==
    kind = "tcp_server" =>
        /\ port = None => \A r \in Runs : ~Passed(r)
        /\ \A r, s \in Runs : Passed(r) /\ Passed(s) => r = s

NullOK == crashed = "null" => quits > 0 \/ \E r \in Runs : LoopLeft(r)

LInv ==
    /\ TypeOK /\ Numbered /\ OwnerOK /\ FirstQuitWaits /\ ToldOK /\ ServerOK
    /\ Running => RunsOK
    /\ NullOK

(* The constants and the sets the types are built from. *)
LEMMA Sets ==
    /\ MaxRuns \in Nat /\ None = 0 /\ Runs = 1 .. MaxRuns
    /\ Kinds \subseteq {"tcp_server", "tcp_client", "udp", "uds_udp"}
  BY LifecycleAssumption DEF LifecycleAssumption, None, Runs

LEMMA InitInv == Init => LInv
<1> SUFFICES ASSUME Init PROVE LInv
  OBVIOUS
<1>1. TypeOK
  <2>1. 0 \in 0 .. MaxRuns
    BY Sets
  <2>2. /\ prov \in [Runs -> {"none", "made", "started", "gone"}]
        /\ rt \in [Runs -> RunPCs]
        /\ upc \in [Users -> {"ready", "checked", "inside"}]
        /\ uprov \in [Users -> Runs \cup {None}]
    BY DEF Init, RunPCs
  <2> QED
    BY <2>1, <2>2 DEF Init, TypeOK
<1>2. Numbered /\ OwnerOK /\ FirstQuitWaits /\ ToldOK
  BY Sets DEF Init, Numbered, OwnerOK, FirstQuitWaits, ToldOK, Quitting
<1>3. ServerOK
  BY DEF Init, ServerOK, Passed
<1>4. RunsOK
  BY Sets DEF Init, RunsOK, Ended
<1> QED
  BY <1>1, <1>2, <1>3, <1>4 DEF LInv, Init, NullOK

(* The owner: init, quit and the destructor. *)
LEMMA CallInitKeeps ==
    ASSUME LInv, CallInit
    PROVE  LInv'
<1> USE Sets DEF LInv, CallInit, RunGoto, RunAt, MainAt, Running, mainVars, sharedVars,
       provVars, runVars, userVars
<1>1. TypeOK'
  BY DEF TypeOK, Numbered, OwnerOK, RunPCs
<1>2. Numbered'
  BY DEF TypeOK, Numbered, OwnerOK, Quitting
<1>3. OwnerOK'
  BY DEF TypeOK, Numbered, OwnerOK, Quitting, FirstQuitWaits, Ended
<1>4. FirstQuitWaits'
  BY DEF TypeOK, Numbered, OwnerOK, Quitting, FirstQuitWaits, Ended
<1>5. ToldOK'
  BY DEF TypeOK, Numbered, ToldOK, Ended
<1>6. ServerOK'
  BY DEF TypeOK, Numbered, ServerOK, Passed, ToldOK, Ended
<1>7. (Running' => RunsOK')
  BY DEF TypeOK, Numbered, OwnerOK, Quitting, FirstQuitWaits, Ended, RunsOK, HasProvider,
         LoopLeft, Datagram, ToldOK
<1>8. NullOK'
  BY DEF NullOK, TypeOK, RunsOK, HasProvider, Numbered, OwnerOK, Quitting, Ended
<1> QED
  BY <1>1, <1>2, <1>3, <1>4, <1>5, <1>6, <1>7, <1>8

LEMMA CallQuitKeeps ==
    ASSUME LInv, CallQuit
    PROVE  LInv'
<1> USE Sets DEF LInv, CallQuit, RunGoto, RunAt, MainAt, Running, mainVars, sharedVars,
       provVars, runVars, userVars
<1>1. TypeOK'
  <2>1. handle # None /\ mpc = "ready" => quits + 1 \in 0 .. MaxRuns
    BY DEF TypeOK, Numbered
  <2>2. quits \in 0 .. MaxRuns /\ handle \in Runs \cup {None} /\ qrun \in Runs \cup {None}
    BY DEF TypeOK
  <2>3. quits' \in 0 .. MaxRuns /\ qrun' \in Runs \cup {None}
    BY <2>1, <2>2
  <2> QED
    BY <2>3 DEF TypeOK
<1>2. Numbered'
  BY DEF TypeOK, Numbered, OwnerOK, Quitting
<1>3. OwnerOK'
  BY DEF TypeOK, Numbered, OwnerOK, Quitting, FirstQuitWaits, Ended
<1>4. FirstQuitWaits'
  BY DEF TypeOK, Numbered, OwnerOK, Quitting, FirstQuitWaits, Ended
<1>5. ToldOK'
  BY DEF TypeOK, Numbered, ToldOK, Ended
<1>6. ServerOK'
  BY DEF TypeOK, Numbered, ServerOK, Passed, ToldOK, Ended
<1>7. (Running' => RunsOK')
  BY DEF TypeOK, Numbered, OwnerOK, Quitting, FirstQuitWaits, Ended, RunsOK, HasProvider,
         LoopLeft, Datagram, ToldOK
<1>8. NullOK'
  BY DEF NullOK, TypeOK, RunsOK, HasProvider, Numbered, OwnerOK, Quitting, Ended
<1> QED
  BY <1>1, <1>2, <1>3, <1>4, <1>5, <1>6, <1>7, <1>8

LEMMA DestroyKeeps ==
    ASSUME LInv, Destroy
    PROVE  LInv'
<1> USE Sets DEF LInv, Destroy, RunGoto, RunAt, MainAt, Running, mainVars, sharedVars,
       provVars, runVars, userVars
<1>1. TypeOK'
  <2>1. handle # None /\ mpc = "ready" => quits + 1 \in 0 .. MaxRuns
    BY DEF TypeOK, Numbered
  <2>2. quits \in 0 .. MaxRuns /\ handle \in Runs \cup {None} /\ qrun \in Runs \cup {None}
    BY DEF TypeOK
  <2>3. quits' \in 0 .. MaxRuns /\ qrun' \in Runs \cup {None}
    BY <2>1, <2>2
  <2> QED
    BY <2>3 DEF TypeOK
<1>2. Numbered'
  BY DEF TypeOK, Numbered, OwnerOK, Quitting
<1>3. OwnerOK'
  BY DEF TypeOK, Numbered, OwnerOK, Quitting, FirstQuitWaits, Ended
<1>4. FirstQuitWaits'
  BY DEF TypeOK, Numbered, OwnerOK, Quitting, FirstQuitWaits, Ended
<1>5. ToldOK'
  BY DEF TypeOK, Numbered, ToldOK, Ended
<1>6. ServerOK'
  BY DEF TypeOK, Numbered, ServerOK, Passed, ToldOK, Ended
<1>7. (Running' => RunsOK')
  BY DEF TypeOK, Numbered, OwnerOK, Quitting, FirstQuitWaits, Ended, RunsOK, HasProvider,
         LoopLeft, Datagram, ToldOK
<1>8. NullOK'
  BY DEF NullOK, TypeOK, RunsOK, HasProvider, Numbered, OwnerOK, Quitting, Ended
<1> QED
  BY <1>1, <1>2, <1>3, <1>4, <1>5, <1>6, <1>7, <1>8

LEMMA ForceExitThreadKeeps ==
    ASSUME LInv, ForceExitThread
    PROVE  LInv'
<1> USE Sets DEF LInv, ForceExitThread, RunGoto, RunAt, MainAt, Running, mainVars,
       sharedVars, provVars, runVars, userVars
<1>1. TypeOK'
  BY DEF TypeOK, Numbered, OwnerOK, RunPCs
<1>2. Numbered'
  BY DEF TypeOK, Numbered, OwnerOK, Quitting
<1>3. OwnerOK'
  BY DEF TypeOK, Numbered, OwnerOK, Quitting, FirstQuitWaits, Ended
<1>4. FirstQuitWaits'
  BY DEF TypeOK, Numbered, OwnerOK, Quitting, FirstQuitWaits, Ended
<1>5. ToldOK'
  BY DEF TypeOK, Numbered, ToldOK, Ended
<1>6. ServerOK'
  BY DEF TypeOK, Numbered, ServerOK, Passed, ToldOK, Ended
<1>7. (Running' => RunsOK')
  BY DEF TypeOK, Numbered, OwnerOK, Quitting, FirstQuitWaits, Ended, RunsOK, HasProvider,
         LoopLeft, Datagram, ToldOK
<1>8. NullOK'
  BY DEF NullOK, TypeOK, RunsOK, HasProvider, Numbered, OwnerOK, Quitting, Ended
<1> QED
  BY <1>1, <1>2, <1>3, <1>4, <1>5, <1>6, <1>7, <1>8

LEMMA WaitForExitKeeps ==
    ASSUME LInv, WaitForExit
    PROVE  LInv'
<1> USE Sets DEF LInv, WaitForExit, RunGoto, RunAt, MainAt, Running, mainVars, sharedVars,
       provVars, runVars, userVars
<1>1. TypeOK'
  BY DEF TypeOK, Numbered, OwnerOK, RunPCs
<1>2. Numbered'
  BY DEF TypeOK, Numbered, OwnerOK, Quitting
<1>3. OwnerOK'
  BY DEF TypeOK, Numbered, OwnerOK, Quitting, FirstQuitWaits, Ended
<1>4. FirstQuitWaits'
  BY DEF TypeOK, Numbered, OwnerOK, Quitting, FirstQuitWaits, Ended
<1>5. ToldOK'
  BY DEF TypeOK, Numbered, ToldOK, Ended
<1>6. ServerOK'
  BY DEF TypeOK, Numbered, ServerOK, Passed, ToldOK, Ended
<1>7. (Running' => RunsOK')
  BY DEF TypeOK, Numbered, OwnerOK, Quitting, FirstQuitWaits, Ended, RunsOK, HasProvider,
         LoopLeft, Datagram, ToldOK
<1>8. NullOK'
  BY DEF NullOK, TypeOK, RunsOK, HasProvider, Numbered, OwnerOK, Quitting, Ended
<1> QED
  BY <1>1, <1>2, <1>3, <1>4, <1>5, <1>6, <1>7, <1>8

LEMMA ClearKeeps ==
    ASSUME LInv, Clear
    PROVE  LInv'
<1> USE Sets DEF LInv, Clear, DropProvider, SetProvider, Dropped, RunGoto, RunAt, MainAt,
       Running, mainVars, sharedVars, provVars, runVars, userVars
<1>1. TypeOK'
  BY DEF TypeOK, Numbered, OwnerOK, RunPCs
<1>2. Numbered'
  BY DEF TypeOK, Numbered, OwnerOK, Quitting
<1>3. OwnerOK'
  BY DEF TypeOK, Numbered, OwnerOK, Quitting, FirstQuitWaits, Ended
<1>4. FirstQuitWaits'
  BY DEF TypeOK, Numbered, OwnerOK, Quitting, FirstQuitWaits, Ended
<1>5. ToldOK'
  BY DEF TypeOK, Numbered, ToldOK, Ended
<1>6. ServerOK'
  BY DEF TypeOK, Numbered, ServerOK, Passed, ToldOK, Ended
<1>7. (Running' => RunsOK')
  BY DEF TypeOK, Numbered, OwnerOK, Quitting, FirstQuitWaits, Ended, RunsOK, HasProvider,
         LoopLeft, Datagram, ToldOK
<1>8. NullOK'
  BY DEF NullOK, TypeOK, RunsOK, HasProvider, Numbered, OwnerOK, Quitting, Ended
<1> QED
  BY <1>1, <1>2, <1>3, <1>4, <1>5, <1>6, <1>7, <1>8

-----------------------------------------------------------------------------
(* The threads of run. *)
LEMMA RunBeginKeeps ==
    ASSUME LInv, NEW r \in Runs, RunBegin(r)
    PROVE  LInv'
<1> USE Sets DEF LInv, RunBegin, DropProvider, SetProvider, Dropped, RunGoto, RunAt,
       MainAt, Running, mainVars, sharedVars, provVars, runVars, userVars
<1>1. TypeOK'
  BY DEF TypeOK, Numbered, OwnerOK, RunPCs
<1>2. Numbered'
  BY DEF TypeOK, Numbered, OwnerOK, Quitting
<1>3. OwnerOK'
  BY DEF TypeOK, Numbered, OwnerOK, Quitting, FirstQuitWaits, Ended
<1>4. FirstQuitWaits'
  BY DEF TypeOK, Numbered, OwnerOK, Quitting, FirstQuitWaits, Ended
<1>5. ToldOK'
  BY DEF TypeOK, Numbered, ToldOK, Ended
<1>6. ServerOK'
  BY DEF TypeOK, Numbered, ServerOK, Passed, ToldOK, Ended
<1>7. (Running' => RunsOK')
  BY DEF TypeOK, Numbered, OwnerOK, Quitting, FirstQuitWaits, Ended, RunsOK, HasProvider,
         LoopLeft, Datagram, ToldOK
<1>8. NullOK'
  BY DEF NullOK, TypeOK, RunsOK, HasProvider, Numbered, OwnerOK, Quitting, Ended
<1> QED
  BY <1>1, <1>2, <1>3, <1>4, <1>5, <1>6, <1>7, <1>8

LEMMA RunMakeKeeps ==
    ASSUME LInv, NEW r \in Runs, RunMake(r)
    PROVE  LInv'
<1> USE Sets DEF LInv, RunMake, SetProvider, Dropped, RunGoto, RunAt, MainAt, Running,
       mainVars, sharedVars, provVars, runVars, userVars
<1>1. TypeOK'
  BY DEF TypeOK, Numbered, OwnerOK, RunPCs
<1>2. Numbered'
  BY DEF TypeOK, Numbered, OwnerOK, Quitting
<1>3. OwnerOK'
  BY DEF TypeOK, Numbered, OwnerOK, Quitting, FirstQuitWaits, Ended
<1>4. FirstQuitWaits'
  BY DEF TypeOK, Numbered, OwnerOK, Quitting, FirstQuitWaits, Ended
<1>5. ToldOK'
  BY DEF TypeOK, Numbered, ToldOK, Ended
<1>6. ServerOK'
  BY DEF TypeOK, Numbered, ServerOK, Passed, ToldOK, Ended
<1>7. (Running' => RunsOK')
  <2> SUFFICES ASSUME Running' PROVE RunsOK'
    OBVIOUS
  <2>1. /\ RunsOK /\ rt[r] = "make" /\ cont' = cont /\ handle' = handle /\ quits' = quits
        /\ cancel' = cancel /\ upc' = upc
    OBVIOUS
  <2>2. /\ hpvd' = r /\ rt' = [rt EXCEPT ![r] = "bind"] /\ Dropped = {}
        /\ prov' = [q \in Runs |-> [prov EXCEPT ![r] = "made"][q]]
    OBVIOUS
  <2>3. rt'[r] = "bind" /\ prov'[r] = "made" /\ r # None
    BY <2>2 DEF TypeOK
  <2>4. r = handle \/ r \in cancel
    BY <2>1 DEF RunsOK
  <2>5. (quits <= 1 /\ cont) => r = handle
    BY <2>1, <2>4 DEF OwnerOK, Ended
  <2>6. \A q \in Runs : rt'[q] # "none" => q = handle \/ q \in cancel
    BY <2>1, <2>2, <2>4 DEF RunsOK, TypeOK
  <2>7. (quits <= 1 /\ cont /\ handle # None) => HasProvider(handle)'
    BY <2>1, <2>2, <2>3, <2>5 DEF HasProvider
  <2>8. (quits = 0 /\ handle # None) => cont /\ rt'[handle] \notin {"begin", "make"}
    BY <2>1, <2>3, <2>5 DEF RunsOK
  <2>9. quits = 0 => handle # None
    BY <2>1, <2>3, <2>4 DEF OwnerOK
  <2> QED
    BY <2>1, <2>2, <2>3, <2>6, <2>7, <2>8, <2>9 DEF RunsOK
<1>8. NullOK'
  BY DEF NullOK, TypeOK, RunsOK, HasProvider, Numbered, OwnerOK, Quitting, Ended
<1> QED
  BY <1>1, <1>2, <1>3, <1>4, <1>5, <1>6, <1>7, <1>8

LEMMA RunBindKeeps ==
    ASSUME LInv, NEW r \in Runs, RunBind(r)
    PROVE  LInv'
<1> USE Sets DEF LInv, RunBind, ProviderAt, CanBind, RunGoto, RunAt, MainAt, Running,
       mainVars, sharedVars, provVars, runVars, userVars
<1>1. TypeOK'
  BY DEF TypeOK, Numbered, OwnerOK, RunPCs
<1>2. Numbered'
  BY DEF TypeOK, Numbered, OwnerOK, Quitting
<1>3. OwnerOK'
  BY DEF TypeOK, Numbered, OwnerOK, Quitting, FirstQuitWaits, Ended
<1>4. FirstQuitWaits'
  BY DEF TypeOK, Numbered, OwnerOK, Quitting, FirstQuitWaits, Ended
<1>5. ToldOK'
  BY DEF TypeOK, Numbered, ToldOK, Ended
<1>6. ServerOK'
  BY DEF TypeOK, Numbered, ServerOK, Passed, ToldOK, Ended
<1>7. (Running' => RunsOK')
  BY DEF TypeOK, Numbered, OwnerOK, Quitting, FirstQuitWaits, Ended, RunsOK, HasProvider,
         LoopLeft, Datagram, ToldOK
<1>8. NullOK'
  BY DEF NullOK, TypeOK, RunsOK, HasProvider, Numbered, OwnerOK, Quitting, Ended
<1> QED
  BY <1>1, <1>2, <1>3, <1>4, <1>5, <1>6, <1>7, <1>8

LEMMA RunProtocolKeeps ==
    ASSUME LInv, NEW r \in Runs, RunProtocol(r)
    PROVE  LInv'
<1> USE Sets DEF LInv, RunProtocol, ProviderAt, RunGoto, RunAt, MainAt, Running, mainVars,
       sharedVars, provVars, runVars, userVars
<1>1. TypeOK'
  BY DEF TypeOK, Numbered, OwnerOK, RunPCs
<1>2. Numbered'
  BY DEF TypeOK, Numbered, OwnerOK, Quitting
<1>3. OwnerOK'
  BY DEF TypeOK, Numbered, OwnerOK, Quitting, FirstQuitWaits, Ended
<1>4. FirstQuitWaits'
  BY DEF TypeOK, Numbered, OwnerOK, Quitting, FirstQuitWaits, Ended
<1>5. ToldOK'
  BY DEF TypeOK, Numbered, ToldOK, Ended
<1>6. ServerOK'
  BY DEF TypeOK, Numbered, ServerOK, Passed, ToldOK, Ended
<1>7. (Running' => RunsOK')
  <2>1. /\ RunsOK /\ rt[r] = "protocol" /\ r # None
        /\ UNCHANGED <<kind, cont, handle, quits, cancel, told, hpvd, upc>>
        /\ prov' = [prov EXCEPT ![hpvd] = "started"] /\ sendTo' = hpvd /\ hpvd \in Runs
        /\ rt' = [rt EXCEPT ![r] = "tell"] /\ rt'[r] = "tell"
    BY DEF TypeOK
  <2>2. (quits <= 1 /\ cont /\ handle # None) => r = handle /\ hpvd = r
    <3>1. r = handle \/ r \in cancel
      BY <2>1 DEF RunsOK
    <3> QED
      BY <2>1, <3>1 DEF OwnerOK, Ended, RunsOK, HasProvider
  <2>3. (quits <= 1 /\ cont /\ handle # None) => HasProvider(handle)'
    BY <2>1, <2>2 DEF HasProvider, TypeOK
  <2>4. \A q \in Runs : rt'[q] # "none" => q = handle \/ q \in cancel
    BY <2>1 DEF RunsOK, TypeOK
  <2>5. hpvd # None
    OBVIOUS
  <2>6. (quits = 0 /\ handle # None) => cont /\ rt'[handle] \notin {"begin", "make"}
    BY <2>1, <2>2 DEF RunsOK
  <2> HIDE DEF RunProtocol, LInv
  <2> QED
    BY <2>1, <2>3, <2>4, <2>5, <2>6 DEF RunsOK
<1>8. NullOK'
  BY DEF NullOK, TypeOK, RunsOK, HasProvider, Numbered, OwnerOK, Quitting, Ended
<1> QED
  BY <1>1, <1>2, <1>3, <1>4, <1>5, <1>6, <1>7, <1>8

LEMMA RunTellKeeps ==
    ASSUME LInv, NEW r \in Runs, RunTell(r)
    PROVE  LInv'
<1> USE Sets DEF LInv, RunTell, RunGoto, RunAt, MainAt, Running, mainVars, sharedVars,
       provVars, runVars, userVars
<1>1. TypeOK'
  BY DEF TypeOK, Numbered, OwnerOK, RunPCs
<1>2. Numbered'
  BY DEF TypeOK, Numbered, OwnerOK, Quitting
<1>3. OwnerOK'
  BY DEF TypeOK, Numbered, OwnerOK, Quitting, FirstQuitWaits, Ended
<1>4. FirstQuitWaits'
  BY DEF TypeOK, Numbered, OwnerOK, Quitting, FirstQuitWaits, Ended
<1>5. ToldOK'
  BY DEF TypeOK, Numbered, ToldOK, Ended
<1>6. ServerOK'
  BY DEF TypeOK, Numbered, ServerOK, Passed, ToldOK, Ended
<1>7. (Running' => RunsOK')
  BY DEF TypeOK, Numbered, OwnerOK, Quitting, FirstQuitWaits, Ended, RunsOK, HasProvider,
         LoopLeft, Datagram, ToldOK
<1>8. NullOK'
  BY DEF NullOK, TypeOK, RunsOK, HasProvider, Numbered, OwnerOK, Quitting, Ended
<1> QED
  BY <1>1, <1>2, <1>3, <1>4, <1>5, <1>6, <1>7, <1>8

LEMMA RunResetKeeps ==
    ASSUME LInv, NEW r \in Runs, RunReset(r)
    PROVE  LInv'
<1> USE Sets DEF LInv, RunReset, DropProvider, SetProvider, Dropped, RunGoto, RunAt,
       MainAt, Running, mainVars, sharedVars, provVars, runVars, userVars
<1>1. TypeOK'
  BY DEF TypeOK, Numbered, OwnerOK, RunPCs
<1>2. Numbered'
  BY DEF TypeOK, Numbered, OwnerOK, Quitting
<1>3. OwnerOK'
  BY DEF TypeOK, Numbered, OwnerOK, Quitting, FirstQuitWaits, Ended
<1>4. FirstQuitWaits'
  BY DEF TypeOK, Numbered, OwnerOK, Quitting, FirstQuitWaits, Ended
<1>5. ToldOK'
  BY DEF TypeOK, Numbered, ToldOK, Ended
<1>6. ServerOK'
  BY DEF TypeOK, Numbered, ServerOK, Passed, ToldOK, Ended
<1>7. (Running' => RunsOK')
  BY DEF TypeOK, Numbered, OwnerOK, Quitting, FirstQuitWaits, Ended, RunsOK, HasProvider,
         LoopLeft, Datagram, ToldOK
<1>8. NullOK'
  BY DEF NullOK, TypeOK, RunsOK, HasProvider, Numbered, OwnerOK, Quitting, Ended
<1> QED
  BY <1>1, <1>2, <1>3, <1>4, <1>5, <1>6, <1>7, <1>8

LEMMA RunPopKeeps ==
    ASSUME LInv, NEW r \in Runs, RunPop(r)
    PROVE  LInv'
<1> USE Sets DEF LInv, RunPop, RunGoto, RunAt, MainAt, Running, mainVars, sharedVars,
       provVars, runVars, userVars
<1>1. TypeOK'
  BY DEF TypeOK, Numbered, OwnerOK, RunPCs
<1>2. Numbered'
  BY DEF TypeOK, Numbered, OwnerOK, Quitting
<1>3. OwnerOK'
  BY DEF TypeOK, Numbered, OwnerOK, Quitting, FirstQuitWaits, Ended
<1>4. FirstQuitWaits'
  BY DEF TypeOK, Numbered, OwnerOK, Quitting, FirstQuitWaits, Ended
<1>5. ToldOK'
  BY DEF TypeOK, Numbered, ToldOK, Ended
<1>6. ServerOK'
  BY DEF TypeOK, Numbered, ServerOK, Passed, ToldOK, Ended
<1>7. (Running' => RunsOK')
  BY DEF TypeOK, Numbered, OwnerOK, Quitting, FirstQuitWaits, Ended, RunsOK, HasProvider,
         LoopLeft, Datagram, ToldOK
<1>8. NullOK'
  BY DEF NullOK, TypeOK, RunsOK, HasProvider, Numbered, OwnerOK, Quitting, Ended
<1> QED
  BY <1>1, <1>2, <1>3, <1>4, <1>5, <1>6, <1>7, <1>8

LEMMA RunFlagKeeps ==
    ASSUME LInv, NEW r \in Runs, RunFlag(r)
    PROVE  LInv'
<1> USE Sets DEF LInv, RunFlag, RunGoto, RunAt, MainAt, Running, mainVars, sharedVars,
       provVars, runVars, userVars
<1>1. TypeOK'
  BY DEF TypeOK, Numbered, OwnerOK, RunPCs
<1>2. Numbered'
  BY DEF TypeOK, Numbered, OwnerOK, Quitting
<1>3. OwnerOK'
  BY DEF TypeOK, Numbered, OwnerOK, Quitting, FirstQuitWaits, Ended
<1>4. FirstQuitWaits'
  BY DEF TypeOK, Numbered, OwnerOK, Quitting, FirstQuitWaits, Ended
<1>5. ToldOK'
  BY DEF TypeOK, Numbered, ToldOK, Ended
<1>6. ServerOK'
  BY DEF TypeOK, Numbered, ServerOK, Passed, ToldOK, Ended
<1>7. (Running' => RunsOK')
  BY DEF TypeOK, Numbered, OwnerOK, Quitting, FirstQuitWaits, Ended, RunsOK, HasProvider,
         LoopLeft, Datagram, ToldOK
<1>8. NullOK'
  BY DEF NullOK, TypeOK, RunsOK, HasProvider, Numbered, OwnerOK, Quitting, Ended
<1> QED
  BY <1>1, <1>2, <1>3, <1>4, <1>5, <1>6, <1>7, <1>8

LEMMA RunCallsNullKeeps ==
    ASSUME LInv, NEW r \in Runs, RunCallsNull(r)
    PROVE  LInv'
<1> USE Sets DEF LInv, RunCallsNull, RunGoto, RunAt, MainAt, Running, mainVars,
       sharedVars, provVars, runVars, userVars
<1>1. TypeOK'
  BY DEF TypeOK, Numbered, OwnerOK, RunPCs
<1>2. Numbered'
  BY DEF TypeOK, Numbered, OwnerOK, Quitting
<1>3. OwnerOK'
  BY DEF TypeOK, Numbered, OwnerOK, Quitting, FirstQuitWaits, Ended
<1>4. FirstQuitWaits'
  BY DEF TypeOK, Numbered, OwnerOK, Quitting, FirstQuitWaits, Ended
<1>5. ToldOK'
  BY DEF TypeOK, Numbered, ToldOK, Ended
<1>6. ServerOK'
  BY DEF TypeOK, Numbered, ServerOK, Passed, ToldOK, Ended
<1>7. (Running' => RunsOK')
  BY DEF TypeOK, Numbered, OwnerOK, Quitting, FirstQuitWaits, Ended, RunsOK, HasProvider,
         LoopLeft, Datagram, ToldOK
<1>8. NullOK'
  BY DEF NullOK, TypeOK, RunsOK, HasProvider, Numbered, OwnerOK, Quitting, Ended
<1> QED
  BY <1>1, <1>2, <1>3, <1>4, <1>5, <1>6, <1>7, <1>8

LEMMA RunLoopEndsKeeps ==
    ASSUME LInv, NEW r \in Runs, RunLoopEnds(r)
    PROVE  LInv'
<1> USE Sets DEF LInv, RunLoopEnds, RunGoto, RunAt, MainAt, Running, mainVars, sharedVars,
       provVars, runVars, userVars
<1>1. TypeOK'
  BY DEF TypeOK, Numbered, OwnerOK, RunPCs
<1>2. Numbered'
  BY DEF TypeOK, Numbered, OwnerOK, Quitting
<1>3. OwnerOK'
  BY DEF TypeOK, Numbered, OwnerOK, Quitting, FirstQuitWaits, Ended
<1>4. FirstQuitWaits'
  BY DEF TypeOK, Numbered, OwnerOK, Quitting, FirstQuitWaits, Ended
<1>5. ToldOK'
  BY DEF TypeOK, Numbered, ToldOK, Ended
<1>6. ServerOK'
  BY DEF TypeOK, Numbered, ServerOK, Passed, ToldOK, Ended
<1>7. (Running' => RunsOK')
  BY DEF TypeOK, Numbered, OwnerOK, Quitting, FirstQuitWaits, Ended, RunsOK, HasProvider,
         LoopLeft, Datagram, ToldOK
<1>8. NullOK'
  BY DEF NullOK, TypeOK, RunsOK, HasProvider, Numbered, OwnerOK, Quitting, Ended
<1> QED
  BY <1>1, <1>2, <1>3, <1>4, <1>5, <1>6, <1>7, <1>8

LEMMA RunAcceptThrowsKeeps ==
    ASSUME LInv, NEW r \in Runs, RunAcceptThrows(r)
    PROVE  LInv'
<1> USE Sets DEF LInv, RunAcceptThrows, RunGoto, RunAt, MainAt, Running, mainVars,
       sharedVars, provVars, runVars, userVars
<1>1. TypeOK'
  BY DEF TypeOK, Numbered, OwnerOK, RunPCs
<1>2. Numbered'
  BY DEF TypeOK, Numbered, OwnerOK, Quitting
<1>3. OwnerOK'
  BY DEF TypeOK, Numbered, OwnerOK, Quitting, FirstQuitWaits, Ended
<1>4. FirstQuitWaits'
  BY DEF TypeOK, Numbered, OwnerOK, Quitting, FirstQuitWaits, Ended
<1>5. ToldOK'
  BY DEF TypeOK, Numbered, ToldOK, Ended
<1>6. ServerOK'
  BY DEF TypeOK, Numbered, ServerOK, Passed, ToldOK, Ended
<1>7. (Running' => RunsOK')
  BY DEF TypeOK, Numbered, OwnerOK, Quitting, FirstQuitWaits, Ended, RunsOK, HasProvider,
         LoopLeft, Datagram, ToldOK
<1>8. NullOK'
  BY DEF NullOK, TypeOK, RunsOK, HasProvider, Numbered, OwnerOK, Quitting, Ended
<1> QED
  BY <1>1, <1>2, <1>3, <1>4, <1>5, <1>6, <1>7, <1>8

LEMMA CancelledKeeps ==
    ASSUME LInv, NEW r \in Runs, Cancelled(r)
    PROVE  LInv'
<1> USE Sets DEF LInv, Cancelled, Armed, RunGoto, RunAt, MainAt, Running, mainVars,
       sharedVars, provVars, runVars, userVars
<1>1. TypeOK'
  <2>1. rt' \in [Runs -> RunPCs] /\ bits' \subseteq {"EXIT_THREAD", "DONE_FORCE_EXIT"}
    BY DEF TypeOK, RunPCs
  <2>2. UNCHANGED <<kind, runs, handle, mpc, qrun, quits, cont, hpvd, sendTo, prov, port,
                    cancel, told, upc, uprov, crashed>>
    OBVIOUS
  <2> QED
    BY <2>1, <2>2 DEF TypeOK
<1>2. Numbered'
  BY DEF TypeOK, Numbered, OwnerOK, Quitting
<1>3. OwnerOK'
  BY DEF TypeOK, Numbered, OwnerOK, Quitting, FirstQuitWaits, Ended
<1>4. FirstQuitWaits'
  BY DEF TypeOK, Numbered, OwnerOK, Quitting, FirstQuitWaits, Ended
<1>5. ToldOK'
  BY DEF TypeOK, Numbered, ToldOK, Ended
<1>6. ServerOK'
  BY DEF TypeOK, Numbered, ServerOK, Passed, ToldOK, Ended
<1>7. (Running' => RunsOK')
  BY DEF TypeOK, Numbered, OwnerOK, Quitting, FirstQuitWaits, Ended, RunsOK, HasProvider,
         LoopLeft, Datagram, ToldOK
<1>8. NullOK'
  BY DEF NullOK, TypeOK, RunsOK, HasProvider, Numbered, OwnerOK, Quitting, Ended
<1> QED
  BY <1>1, <1>2, <1>3, <1>4, <1>5, <1>6, <1>7, <1>8

-----------------------------------------------------------------------------
(* The threads of the application. *)
LEMMA UseKeeps ==
    ASSUME LInv, NEW u \in Users, UseCheck(u) \/ UseProvider(u) \/ UseSend(u) \/ UseReturns(u)
    PROVE  LInv'
<1> USE DEF LInv
<1>1. /\ UNCHANGED <<kind, runs, handle, mpc, qrun, quits, cont, bits, hpvd, sendTo, prov, port,
                     rt, cancel, told>>
      /\ crashed = "no"
  BY DEF UseCheck, UseProvider, UseSend, UseReturns, Running, mainVars, sharedVars,
         provVars, runVars
<1>2. /\ upc' \in [Users -> {"ready", "checked", "inside"}]
      /\ uprov' \in [Users -> Runs \cup {None}]
      /\ crashed' \in {"no", "null"}
  BY <1>1 DEF UseCheck, UseProvider, UseSend, UseReturns, TypeOK
<1>3. TypeOK'
  BY <1>1, <1>2 DEF TypeOK
<1>4. /\ Numbered' /\ OwnerOK' /\ FirstQuitWaits' /\ ToldOK' /\ ServerOK'
      /\ \A r \in Runs : LoopLeft(r)' <=> LoopLeft(r)
  BY <1>1 DEF LoopLeft, Numbered, OwnerOK, FirstQuitWaits, ToldOK, ServerOK, Passed
<1>5. (\E w \in Users : upc'[w] = "checked") =>
          hpvd # None \/ \E w \in Users : upc[w] = "checked"
  BY DEF UseCheck, UseProvider, UseSend, UseReturns, TypeOK
<1>6. Running' => RunsOK'
  BY <1>1, <1>5 DEF Running, RunsOK, HasProvider, LoopLeft
<1>7. NullOK'
  <2>1. crashed' = "null" => hpvd = None /\ upc[u] = "checked"
    BY <1>1 DEF UseCheck, UseProvider, UseSend, UseReturns
  <2>2. crashed' = "null" => quits > 0 \/ \E r \in Runs : LoopLeft(r)
    BY <1>1, <2>1, Sets DEF Running, RunsOK, TypeOK
  <2> QED
    BY <1>1, <1>4, <2>2 DEF NullOK
<1> QED
  BY <1>3, <1>4, <1>6, <1>7

-----------------------------------------------------------------------------
LEMMA NextKeeps ==
    ASSUME LInv, [Next]_vars
    PROVE  LInv'
<1>1. CASE CallInit \/ CallQuit \/ Destroy \/ Owner
  BY <1>1, CallInitKeeps, CallQuitKeeps, DestroyKeeps, ForceExitThreadKeeps, WaitForExitKeeps,
     ClearKeeps DEF Owner
<1>2. ASSUME NEW r \in Runs, Runner(r)
      PROVE  LInv'
  BY <1>2, RunBeginKeeps, RunMakeKeeps, RunBindKeeps, RunProtocolKeeps, RunTellKeeps,
     RunResetKeeps, RunPopKeeps, RunFlagKeeps, RunCallsNullKeeps DEF Runner
<1>3. ASSUME NEW r \in Runs, RunLoopEnds(r) \/ RunAcceptThrows(r) \/ Cancelled(r)
      PROVE  LInv'
  BY <1>3, RunLoopEndsKeeps, RunAcceptThrowsKeeps, CancelledKeeps
<1>4. ASSUME NEW u \in Users, UseCheck(u) \/ UseProvider(u) \/ UseSend(u) \/ UseReturns(u)
      PROVE  LInv'
  BY <1>4, UseKeeps
<1>5. CASE UNCHANGED vars
  BY <1>5 DEF vars, LInv, TypeOK, Numbered, OwnerOK, FirstQuitWaits, ToldOK, ServerOK, Passed,
              Running, RunsOK, HasProvider, LoopLeft, NullOK
<1> QED
  BY <1>1, <1>2, <1>3, <1>4, <1>5 DEF Next

LEMMA Always == Spec => []LInv
<1>1. Init => LInv
  BY InitInv
<1>2. LInv /\ [Next]_vars => LInv'
  BY NextKeeps
<1> QED
  BY <1>1, <1>2, PTL DEF Spec

-----------------------------------------------------------------------------
(* Types of the communicator's members, its threads and its providers. *)
THEOREM TypeCorrect == Spec => []TypeOK
<1>1. LInv => TypeOK
  BY DEF LInv
<1> QED
  BY <1>1, Always, PTL

(* After the initialization handler was called and until quit, the provider *)
(* can be used through h_pvd and m_send_payload, and nobody dereferences a  *)
(* null h_pvd (ICommunicatorImpl.cpp:168-270, ICommunicator.h:170), for any *)
(* number of threads that do; the exception is a datagram provider whose    *)
(* accept has returned false (384, CPVD_UDP.cpp:155-158).                   *)
THEOREM AnnouncedIsUsable == Spec => []ToldMeansUsable
<1>1. LInv => ToldMeansUsable
  <2>1. ASSUME LInv, NEW r \in told \ cancel, cont, quits <= 1, Running
        PROVE  (hpvd = r /\ sendTo = r /\ prov[r] = "started") \/ LoopLeft(r)
    <3>1. r \in Runs /\ r # None /\ rt[r] \notin {"none", "begin", "make", "bind", "protocol"}
      BY <2>1, Sets DEF LInv, TypeOK, ToldOK
    <3>2. r = handle
      BY <2>1, <3>1 DEF LInv, RunsOK
    <3>3. HasProvider(r) /\ rt[r] \in RunPCs
      BY <2>1, <3>1, <3>2 DEF LInv, RunsOK, TypeOK
    <3> QED
      BY <2>1, <3>1, <3>3 DEF HasProvider, RunPCs
  <2> QED
    BY <2>1 DEF ToldMeansUsable, LInv, NullOK
<1> QED
  BY <1>1, Always, PTL

(* When the first quit is over, so is the thread it has cancelled           *)
(* (ICommunicatorImpl.cpp:391-404).                                         *)
THEOREM QuitWaitsOnce == Spec => []FirstQuitWaits
<1>1. LInv => FirstQuitWaits
  BY DEF LInv
<1> QED
  BY <1>1, Always, PTL

(* However often init and quit are called, a TCP server is announced once:  *)
(* its first provider is never destroyed and keeps the port                 *)
(* (IHProtocolInf.cpp:21).                                                  *)
THEOREM OneServerEver == Spec => []ServerStartsOnce
<1>1. LInv => ServerStartsOnce
  <2> SUFFICES ASSUME LInv, kind = "tcp_server"
               PROVE  Cardinality(told) <= 1
    BY DEF ServerStartsOnce
  <2>1. \A r, s \in told : r = s
    BY DEF LInv, TypeOK, ServerOK, Passed
  <2>2. CASE told = {}
    BY <2>2, FS_EmptySet
  <2>3. CASE told # {}
    <3>1. PICK r \in told : TRUE
      BY <2>3
    <3>2. told = {r}
      BY <2>1, <3>1
    <3>3. Cardinality({r}) = 1
      BY FS_Singleton
    <3> QED
      BY <3>2, <3>3
  <2> QED
    BY <2>2, <2>3
<1> QED
  BY <1>1, Always, PTL
===============================================================================
