-------------------------- MODULE UdpProvider_proofs --------------------------
(***************************************************************************)
(* The invariants of UdpProvider, for any finite number of application     *)
(* threads and any sets of addresses and paths.                            *)
(*                                                                         *)
(* NamesAgree is what makes the path that make_connection goes on with one *)
(* that the map knows, which is the last part of TypeOK; EveryChangeTold   *)
(* counts, for each path, the threads on the way to a callback.            *)
(***************************************************************************)
EXTENDS UdpProvider, FiniteSetTheorems, TLAPS

UInv == TypeOK /\ NamesAgree /\ EveryChangeTold

(* One more or one less in a finite set. *)
LEMMA OneMoreOrLess ==
    ASSUME NEW S, IsFiniteSet(S), NEW t
    PROVE  /\ Cardinality(S) \in Nat
           /\ Cardinality(S \cup {t}) = IF t \in S THEN Cardinality(S) ELSE Cardinality(S) + 1
           /\ Cardinality(S \ {t}) = IF t \in S THEN Cardinality(S) - 1 ELSE Cardinality(S)
  BY FS_AddElement, FS_RemoveElement, FS_CardinalityType

LEMMA FiniteThreads ==
    ASSUME NEW x
    PROVE  IsFiniteSet(Threads) /\ IsFiniteSet(ToTell(x)) /\ IsFiniteSet(ToUntell(x))
<1>1. IsFiniteSet(Threads)
  <2>1. IsFiniteSet({Receiver})
    BY FS_Singleton
  <2> QED
    BY <2>1, FS_Union, UdpAssumption DEF Threads, UdpAssumption
<1>2. ToTell(x) \subseteq Threads /\ ToUntell(x) \subseteq Threads
  BY DEF ToTell, ToUntell
<1> QED
  BY <1>1, <1>2, FS_Subset

(* What a thread in a place, with a path, counts for path x: 1 if it is to   *)
(* tell of it, -1 if it is to tell of its end.                               *)
Counts(t, s, y, x) ==
    IF y = x /\ (s = "tell" \/ (t = Receiver /\ s = "regist")) THEN 1
    ELSE IF y = x /\ s \in {"unregist", "untell"} THEN -1 ELSE 0

Sum(x) == Cardinality(ToTell(x)) - Cardinality(ToUntell(x))

(* A step of one thread changes the sum of a path by what that thread counts. *)
LEMMA OneThreadMoves ==
    ASSUME TypeOK, NEW t \in Threads, NEW s, NEW y, NEW x,
           pc' = [pc EXCEPT ![t] = s], path' = [path EXCEPT ![t] = y]
    PROVE  /\ Sum(x) \in Int
           /\ Sum(x)' = Sum(x) - Counts(t, pc[t], path[t], x) + Counts(t, s, y, x)
<1> DEFINE T == ToTell(x)
           U == ToUntell(x)
           NowT == path[t] = x /\ (pc[t] = "tell" \/ (t = Receiver /\ pc[t] = "regist"))
           NowU == path[t] = x /\ pc[t] \in {"unregist", "untell"}
           ThenT == y = x /\ (s = "tell" \/ (t = Receiver /\ s = "regist"))
           ThenU == y = x /\ s \in {"unregist", "untell"}
<1>1. (t \in T <=> NowT) /\ (t \in U <=> NowU)
  BY DEF ToTell, ToUntell
<1>2. (ThenT => T' = T \cup {t}) /\ (~ThenT => T' = T \ {t})
  BY DEF ToTell, TypeOK
<1>3. (ThenU => U' = U \cup {t}) /\ (~ThenU => U' = U \ {t})
  BY DEF ToUntell, TypeOK
<1>4. IsFiniteSet(T) /\ IsFiniteSet(U)
  BY FiniteThreads
<1>5. ~(NowT /\ NowU) /\ ~(ThenT /\ ThenU)
  OBVIOUS
<1>6. /\ Counts(t, pc[t], path[t], x) = IF NowT THEN 1 ELSE IF NowU THEN -1 ELSE 0
      /\ Counts(t, s, y, x) = IF ThenT THEN 1 ELSE IF ThenU THEN -1 ELSE 0
  BY DEF Counts
<1>7. /\ Sum(x) = Cardinality(T) - Cardinality(U)
      /\ Sum(x)' = Cardinality(T') - Cardinality(U')
  BY DEF Sum
<1> HIDE DEF T, U, NowT, NowU, ThenT, ThenU
<1>8. /\ Cardinality(T) \in Nat
      /\ Cardinality(T \cup {t}) = IF t \in T THEN Cardinality(T) ELSE Cardinality(T) + 1
      /\ Cardinality(T \ {t}) = IF t \in T THEN Cardinality(T) - 1 ELSE Cardinality(T)
  BY <1>4, OneMoreOrLess
<1>9. /\ Cardinality(U) \in Nat
      /\ Cardinality(U \cup {t}) = IF t \in U THEN Cardinality(U) ELSE Cardinality(U) + 1
      /\ Cardinality(U \ {t}) = IF t \in U THEN Cardinality(U) - 1 ELSE Cardinality(U)
  BY <1>4, OneMoreOrLess
<1>10. /\ NowT => Cardinality(T \ {t}) = Cardinality(T) - 1 /\ Cardinality(T \cup {t}) = Cardinality(T)
       /\ ~NowT => Cardinality(T \ {t}) = Cardinality(T) /\ Cardinality(T \cup {t}) = Cardinality(T) + 1
  BY <1>1, <1>8
<1>11. /\ NowU => Cardinality(U \ {t}) = Cardinality(U) - 1 /\ Cardinality(U \cup {t}) = Cardinality(U)
       /\ ~NowU => Cardinality(U \ {t}) = Cardinality(U) /\ Cardinality(U \cup {t}) = Cardinality(U) + 1
  BY <1>1, <1>9
<1>12. /\ ThenT => Cardinality(T') = Cardinality(T \cup {t})
       /\ ~ThenT => Cardinality(T') = Cardinality(T \ {t})
       /\ ThenU => Cardinality(U') = Cardinality(U \cup {t})
       /\ ~ThenU => Cardinality(U') = Cardinality(U \ {t})
  BY <1>2, <1>3
<1>13. Cardinality(T) \in Nat /\ Cardinality(U) \in Nat
  BY <1>8, <1>9
<1> QED
  BY <1>5, <1>6, <1>7, <1>10, <1>11, <1>12, <1>13

-----------------------------------------------------------------------------
LEMMA InitInv == Init => UInv
<1> SUFFICES ASSUME Init PROVE UInv
  OBVIOUS
<1>1. NamesAgree
  BY UdpAssumption DEF Init, NamesAgree, UdpAssumption
<1>2. TypeOK
  BY UdpAssumption DEF Init, TypeOK, UdpAssumption, PCs
<1>3. ASSUME NEW x \in Paths
      PROVE  balance[x] + Cardinality(ToTell(x)) - Cardinality(ToUntell(x))
                 = IF flag[x] THEN 1 ELSE 0
  <2>1. ToTell(x) = {} /\ ToUntell(x) = {}
    BY DEF Init, ToTell, ToUntell
  <2>2. Cardinality({}) = 0
    BY FS_EmptySet
  <2> QED
    BY <2>1, <2>2 DEF Init
<1> QED
  BY <1>1, <1>2, <1>3 DEF UInv, EveryChangeTold

(* insert keeps the maps inverse, and the path is known then, or the process *)
(* ends.                                                                     *)
LEMMA InsertKeeps ==
    ASSUME TypeOK, NamesAgree, failed = "nothing", NEW x \in Paths, InsertName(x)
    PROVE  /\ NamesAgree'
           /\ addr' \subseteq Paths /\ alias' \in [Addrs -> Paths \cup {NoPath}]
           /\ addr \subseteq addr'
           /\ failed' \in {"nothing", "insert"}
           /\ failed' = "nothing" => x \in addr'
<1>1. AddrOf[x] \in Addrs /\ AddrOf \in [Paths -> Addrs] /\ NoPath \notin Paths
  BY UdpAssumption DEF UdpAssumption
<1>2. NamesAgree'
  <2>1. CASE x \notin addr /\ alias[AddrOf[x]] = NoPath /\ addr' = addr \cup {x}
             /\ alias' = [alias EXCEPT ![AddrOf[x]] = x]
    <3> SUFFICES ASSUME NEW w \in Paths, NEW a \in Addrs
                 PROVE  (w \in addr' /\ AddrOf[w] = a) <=> alias'[a] = w
      BY DEF NamesAgree
    <3>1. alias'[a] = IF a = AddrOf[x] THEN x ELSE alias[a]
      BY <2>1, <1>1 DEF TypeOK
    <3>2. (w \in addr /\ AddrOf[w] = a) <=> alias[a] = w
      BY DEF NamesAgree
    <3> QED
      BY <3>1, <3>2, <2>1, <1>1
  <2>2. CASE UNCHANGED nameVars
    BY <2>2 DEF nameVars, NamesAgree
  <2> QED
    BY <2>1, <2>2 DEF InsertName
<1>3. addr' \subseteq Paths /\ alias' \in [Addrs -> Paths \cup {NoPath}] /\ addr \subseteq addr'
  BY <1>1 DEF InsertName, nameVars, TypeOK
<1>4. failed' \in {"nothing", "insert"} /\ (failed' = "nothing" => x \in addr')
  BY DEF InsertName, nameVars
<1> QED
  BY <1>2, <1>3, <1>4

-----------------------------------------------------------------------------
(* A step that takes one thread from a place and path to others, and changes *)
(* what was told and the flag as EveryChangeTold demands.                    *)
LEMMA SumKeeps ==
    ASSUME TypeOK, EveryChangeTold, NEW t \in Threads, NEW s, NEW y,
           pc' = [pc EXCEPT ![t] = s], path' = [path EXCEPT ![t] = y],
           \A x \in Paths :
               balance'[x] - balance[x] - Counts(t, pc[t], path[t], x) + Counts(t, s, y, x)
                   = (IF flag'[x] THEN 1 ELSE 0) - (IF flag[x] THEN 1 ELSE 0),
           balance' \in [Paths -> Int]
    PROVE  EveryChangeTold'
<1> SUFFICES ASSUME NEW x \in Paths
             PROVE  balance'[x] + Cardinality(ToTell(x)') - Cardinality(ToUntell(x)')
                        = IF flag'[x] THEN 1 ELSE 0
  BY DEF EveryChangeTold
<1>1. /\ Sum(x) \in Int
      /\ Sum(x)' = Sum(x) - Counts(t, pc[t], path[t], x) + Counts(t, s, y, x)
  BY OneThreadMoves
<1>2. /\ IsFiniteSet(ToTell(x)) /\ IsFiniteSet(ToUntell(x))
      /\ IsFiniteSet(ToTell(x)') /\ IsFiniteSet(ToUntell(x)')
  <2>1. IsFiniteSet(Threads)
    BY FiniteThreads
  <2>2. ToTell(x) \subseteq Threads /\ ToUntell(x) \subseteq Threads
    BY DEF ToTell, ToUntell
  <2>3. ToTell(x)' \subseteq Threads /\ ToUntell(x)' \subseteq Threads
    BY DEF ToTell, ToUntell
  <2> QED
    BY <2>1, <2>2, <2>3, FS_Subset
<1>3. /\ Cardinality(ToTell(x)) \in Nat /\ Cardinality(ToUntell(x)) \in Nat
      /\ Cardinality(ToTell(x)') \in Nat /\ Cardinality(ToUntell(x)') \in Nat
  BY <1>2, FS_CardinalityType
<1>4. Sum(x) = Cardinality(ToTell(x)) - Cardinality(ToUntell(x))
  BY DEF Sum
<1>5. Sum(x)' = Cardinality(ToTell(x)') - Cardinality(ToUntell(x)')
  BY DEF Sum
<1>6. balance[x] \in Int /\ balance'[x] \in Int
  BY DEF TypeOK
<1>7. Counts(t, pc[t], path[t], x) \in Int /\ Counts(t, s, y, x) \in Int
  BY DEF Counts
<1>8. balance[x] + Cardinality(ToTell(x)) - Cardinality(ToUntell(x)) = IF flag[x] THEN 1 ELSE 0
  BY DEF EveryChangeTold
<1>9. balance'[x] - balance[x] - Counts(t, pc[t], path[t], x) + Counts(t, s, y, x)
          = (IF flag'[x] THEN 1 ELSE 0) - (IF flag[x] THEN 1 ELSE 0)
  OBVIOUS
<1> QED
  BY <1>1, <1>3, <1>4, <1>5, <1>6, <1>7, <1>8, <1>9

(* A call begins: the thread is not yet about to tell of anything. *)
LEMMA BeginKeeps ==
    ASSUME UInv, failed = "nothing", NEW t \in Threads, NEW y \in Paths,
           NEW s \in {"look", "reset"}, pc[t] = "ready", Begin(t, y, s),
           UNCHANGED <<flag, registered, balance>>,
           NamesAgree', addr' \subseteq Paths, alias' \in [Addrs -> Paths \cup {NoPath}],
           addr \subseteq addr', failed' \in {"nothing", "insert"},
           failed' = "nothing" => y \in addr'
    PROVE  UInv'
<1> USE DEF UInv
<1>1. TypeOK'
  BY DEF TypeOK, Begin, Goto, PCs
<1>2. EveryChangeTold'
  <2>1. ASSUME NEW x PROVE Counts(t, pc[t], path[t], x) = 0 /\ Counts(t, s, y, x) = 0
    BY DEF Counts
  <2>2. pc' = [pc EXCEPT ![t] = s] /\ path' = [path EXCEPT ![t] = y]
    BY DEF Begin, Goto
  <2>3. \A x \in Paths :
           balance'[x] - balance[x] - Counts(t, pc[t], path[t], x) + Counts(t, s, y, x)
               = (IF flag'[x] THEN 1 ELSE 0) - (IF flag[x] THEN 1 ELSE 0)
    BY <2>1 DEF TypeOK
  <2> QED
    BY <2>2, <2>3, SumKeeps DEF TypeOK
<1> QED
  BY <1>1, <1>2

(* The alias of an address is a path the map knows. *)
LEMMA NamedIsKnown ==
    ASSUME TypeOK, NamesAgree, NEW a \in Addrs, alias[a] # NoPath
    PROVE  alias[a] \in addr /\ alias[a] \in Paths
  BY DEF TypeOK, NamesAgree

LEMMA CallsKeep ==
    ASSUME UInv, NEW t \in Apps, NEW x \in Paths,
           ConnectAddress(t, x) \/ MakeConnection(t, x) \/ Disconnect(t, x)
    PROVE  UInv'
<1>1. t \in Threads
  BY DEF Threads
<1>2. CASE ConnectAddress(t, x)
  <2>1. /\ failed = "nothing" /\ pc[t] = "ready" /\ InsertName(x) /\ Begin(t, x, "look")
        /\ UNCHANGED <<flag, registered, balance>>
    BY <1>2 DEF ConnectAddress, At
  <2>2. /\ NamesAgree' /\ addr' \subseteq Paths /\ alias' \in [Addrs -> Paths \cup {NoPath}]
        /\ addr \subseteq addr' /\ failed' \in {"nothing", "insert"}
        /\ failed' = "nothing" => x \in addr'
    BY <2>1, InsertKeeps DEF UInv
  <2> QED
    BY <1>1, <2>1, <2>2, BeginKeeps
<1>3. CASE MakeConnection(t, x)
  <2> DEFINE y == alias[AddrOf[x]]
  <2>1. /\ failed = "nothing" /\ pc[t] = "ready" /\ x \in addr /\ Begin(t, y, "look")
        /\ UNCHANGED <<nameVars, flag, registered, balance, failed>>
    BY <1>3 DEF MakeConnection, At
  <2>2. AddrOf[x] \in Addrs /\ x # NoPath
    BY UdpAssumption DEF UdpAssumption
  <2>3. y = x
    BY <2>1, <2>2 DEF UInv, NamesAgree
  <2>4. NamesAgree' /\ addr' = addr /\ alias' = alias
    BY <2>1 DEF nameVars, UInv, NamesAgree
  <2> QED
    BY <1>1, <2>1, <2>3, <2>4, BeginKeeps DEF UInv, TypeOK
<1>4. CASE Disconnect(t, x)
  <2>1. /\ failed = "nothing" /\ pc[t] = "ready" /\ x \in addr /\ Begin(t, x, "reset")
        /\ UNCHANGED <<nameVars, flag, registered, balance, failed>>
    BY <1>4 DEF Disconnect, At
  <2>2. NamesAgree' /\ addr' = addr /\ alias' = alias
    BY <2>1 DEF nameVars, UInv, NamesAgree
  <2> QED
    BY <1>1, <2>1, <2>2, BeginKeeps DEF UInv, TypeOK
<1> QED
  BY <1>2, <1>3, <1>4

LEMMA DatagramsKeep ==
    ASSUME UInv, NEW a \in Addrs, NEW s \in {"look", "reset"}, ClientId(a, s)
    PROVE  UInv'
<1>1. Receiver \in Threads
  BY DEF Threads
<1>2. failed = "nothing" /\ pc[Receiver] = "ready" /\ UNCHANGED <<flag, registered, balance>>
  BY DEF ClientId, At
<1>3. CASE alias[a] # NoPath /\ Begin(Receiver, alias[a], s) /\ UNCHANGED <<nameVars, failed>>
  <2>1. alias[a] \in addr /\ alias[a] \in Paths
    BY <1>3, NamedIsKnown DEF UInv
  <2>2. NamesAgree' /\ addr' = addr /\ alias' = alias
    BY <1>3 DEF nameVars, UInv, NamesAgree
  <2> QED
    BY <1>1, <1>2, <1>3, <2>1, <2>2, BeginKeeps DEF UInv, TypeOK
<1>4. CASE alias[a] = NoPath /\ InsertName(OwnName[a]) /\ Begin(Receiver, OwnName[a], s)
  <2>1. OwnName[a] \in Paths
    BY UdpAssumption DEF UdpAssumption
  <2>2. /\ NamesAgree' /\ addr' \subseteq Paths /\ alias' \in [Addrs -> Paths \cup {NoPath}]
        /\ addr \subseteq addr' /\ failed' \in {"nothing", "insert"}
        /\ failed' = "nothing" => OwnName[a] \in addr'
    BY <1>2, <1>4, <2>1, InsertKeeps DEF UInv
  <2> QED
    BY <1>1, <1>2, <1>4, <2>1, <2>2, BeginKeeps
<1> QED
  BY <1>3, <1>4 DEF ClientId

(* A thread inside the provider stays on its path, or leaves. *)
LEMMA MoveKeepsTypes ==
    ASSUME UInv, failed = "nothing", NEW t \in Threads, pc[t] # "ready",
           UNCHANGED <<nameVars, failed>>,
           \/ \E s \in PCs : Goto(t, s) /\ UNCHANGED path
           \/ Return(t),
           flag' \in [Paths -> BOOLEAN], registered' \subseteq Paths, balance' \in [Paths -> Int]
    PROVE  TypeOK' /\ NamesAgree'
<1>1. NamesAgree'
  BY DEF UInv, NamesAgree, nameVars
<1>2. TypeOK'
  <2>1. CASE \E s \in PCs : Goto(t, s) /\ UNCHANGED path
    BY <2>1 DEF UInv, TypeOK, Goto, nameVars
  <2>2. CASE Return(t)
    BY <2>2 DEF UInv, TypeOK, Return, Begin, Goto, nameVars, PCs
  <2> QED
    BY <2>1, <2>2
<1> QED
  BY <1>1, <1>2

LEMMA StepKeeps ==
    ASSUME UInv, NEW t \in Threads, Step(t)
    PROVE  UInv'
<1> USE DEF UInv
<1> DEFINE z == path[t]
           Settled(s, y) ==
               /\ pc' = [pc EXCEPT ![t] = s] /\ path' = [path EXCEPT ![t] = y]
               /\ \A x \in Paths :
                      balance'[x] - balance[x] - Counts(t, pc[t], path[t], x) + Counts(t, s, y, x)
                          = (IF flag'[x] THEN 1 ELSE 0) - (IF flag[x] THEN 1 ELSE 0)
<1>1. failed = "nothing" /\ UNCHANGED <<nameVars, failed>> /\ pc[t] # "ready"
  BY DEF Step, LookAtFlag, SetFlag, Tell, Regist, ResetFlag, Unregist, Untell, At
<1>2. z \in Paths /\ NoPath \notin Paths
  BY <1>1, UdpAssumption DEF TypeOK, UdpAssumption
<1>3. /\ flag' \in [Paths -> BOOLEAN] /\ registered' \subseteq Paths
      /\ balance' \in [Paths -> Int]
  <2>1. \/ flag' = flag
        \/ \E b \in BOOLEAN : flag' = [flag EXCEPT ![z] = b]
    BY DEF Step, LookAtFlag, SetFlag, Tell, Regist, ResetFlag, Unregist, Untell
  <2>2. registered' \in {registered, registered \cup {z}, registered \ {z}}
    BY DEF Step, LookAtFlag, SetFlag, Tell, Regist, ResetFlag, Unregist, Untell
  <2>3. balance' \in {balance, [balance EXCEPT ![z] = @ + 1], [balance EXCEPT ![z] = @ - 1]}
    BY DEF Step, LookAtFlag, SetFlag, Tell, Regist, ResetFlag, Unregist, Untell
  <2>4. flag' \in [Paths -> BOOLEAN]
    BY <1>2, <2>1 DEF TypeOK
  <2>5. registered' \subseteq Paths
    BY <1>2, <2>2 DEF TypeOK
  <2>6. balance' \in [Paths -> Int]
    BY <1>2, <2>3 DEF TypeOK
  <2> QED
    BY <2>4, <2>5, <2>6
<1>4. \/ \E s \in PCs : Goto(t, s) /\ UNCHANGED path
      \/ Return(t)
  BY DEF Step, LookAtFlag, SetFlag, Tell, Regist, ResetFlag, Unregist, Untell, PCs, IsNew
<1>5. TypeOK' /\ NamesAgree'
  BY <1>1, <1>3, <1>4, MoveKeepsTypes
<1>6. ASSUME NEW s, Goto(t, s) /\ UNCHANGED path
      PROVE  pc' = [pc EXCEPT ![t] = s] /\ path' = [path EXCEPT ![t] = z]
  BY <1>6 DEF Goto, TypeOK
<1>7. Return(t) => pc' = [pc EXCEPT ![t] = "ready"] /\ path' = [path EXCEPT ![t] = NoPath]
  BY DEF Return, Begin, Goto
<1>8. \E s, y : Settled(s, y)
  <2>1. CASE LookAtFlag(t)
    <3>1. balance' = balance /\ flag' = flag /\ pc[t] = "look"
      BY <2>1 DEF LookAtFlag, At
    <3>2. CASE Goto(t, "lock") /\ UNCHANGED path
      <4>1. Settled("lock", z)
        BY <3>1, <3>2, <1>6 DEF Counts, TypeOK
      <4> QED
        BY <4>1
    <3>3. CASE Return(t)
      <4>1. Settled("ready", NoPath)
        BY <3>1, <3>3, <1>7 DEF Counts, TypeOK
      <4> QED
        BY <4>1
    <3> QED
      BY <2>1, <3>2, <3>3 DEF LookAtFlag
  <2>2. CASE SetFlag(t)
    <3>1. balance' = balance /\ flag' = [flag EXCEPT ![z] = TRUE] /\ pc[t] = "lock"
      BY <2>2 DEF SetFlag, At
    <3>2. CASE ~flag[z] /\ IsNew(t)
      <4> DEFINE s == IF t = Receiver THEN "regist" ELSE "tell"
      <4>1. Goto(t, s) /\ UNCHANGED path
        BY <3>2 DEF IsNew
      <4>2. \A x \in Paths : Counts(t, "lock", z, x) = 0
                             /\ Counts(t, s, z, x) = IF x = z THEN 1 ELSE 0
        BY DEF Counts
      <4>3. \A x \in Paths : flag'[x] = IF x = z THEN TRUE ELSE flag[x]
        BY <3>1 DEF TypeOK
      <4>4. \A x \in Paths :
               balance'[x] - balance[x] - Counts(t, pc[t], z, x) + Counts(t, s, z, x)
                   = (IF flag'[x] THEN 1 ELSE 0) - (IF flag[x] THEN 1 ELSE 0)
        <5> HIDE DEF s
        <5> QED
          BY <3>1, <3>2, <4>2, <4>3 DEF TypeOK
      <4>5. Settled(s, z)
        <5>1. pc' = [pc EXCEPT ![t] = s] /\ path' = [path EXCEPT ![t] = z]
          BY <4>1, <1>6
        <5> QED
          BY <5>1, <4>4
      <4> HIDE DEF s
      <4> QED
        BY <4>5
    <3>3. CASE flag[z] /\ Return(t)
      <4>1. flag' = flag
        BY <3>1, <3>3, <1>2 DEF TypeOK
      <4>2. Settled("ready", NoPath)
        BY <3>1, <3>3, <4>1, <1>7 DEF Counts, TypeOK
      <4> QED
        BY <4>2
    <3> QED
      BY <2>2, <3>2, <3>3 DEF SetFlag
  <2>3. CASE Tell(t)
    <3>1. balance' = [balance EXCEPT ![z] = @ + 1] /\ flag' = flag /\ pc[t] = "tell"
      BY <2>3 DEF Tell, At
    <3>2. \A x \in Paths : balance'[x] - balance[x] = (IF x = z THEN 1 ELSE 0)
                           /\ Counts(t, "tell", z, x) = IF x = z THEN 1 ELSE 0
      BY <3>1 DEF TypeOK, Counts
    <3>3. CASE t # Receiver /\ Goto(t, "regist") /\ UNCHANGED path
      <4>1. \A x \in Paths : Counts(t, "regist", z, x) = 0
        BY <3>3 DEF Counts
      <4>2. Settled("regist", z)
        BY <3>1, <3>2, <3>3, <4>1, <1>6 DEF TypeOK
      <4> QED
        BY <4>2
    <3>4. CASE Return(t)
      <4>1. \A x \in Paths : Counts(t, "ready", NoPath, x) = 0
        BY DEF Counts
      <4>2. Settled("ready", NoPath)
        BY <3>1, <3>2, <3>4, <4>1, <1>7 DEF TypeOK
      <4> QED
        BY <4>2
    <3> QED
      BY <2>3, <3>3, <3>4 DEF Tell
  <2>4. CASE Regist(t)
    <3>1. balance' = balance /\ flag' = flag /\ pc[t] = "regist"
      BY <2>4 DEF Regist, At
    <3>2. CASE t = Receiver /\ Goto(t, "tell") /\ UNCHANGED path
      <4>1. \A x \in Paths : Counts(t, "regist", z, x) = Counts(t, "tell", z, x)
                             /\ Counts(t, "tell", z, x) \in Int
        BY <3>2 DEF Counts
      <4>2. Settled("tell", z)
        BY <3>1, <3>2, <4>1, <1>6 DEF TypeOK
      <4> QED
        BY <4>2
    <3>3. CASE t # Receiver /\ Return(t)
      <4>1. \A x \in Paths : Counts(t, "regist", z, x) = 0 /\ Counts(t, "ready", NoPath, x) = 0
        BY <3>3 DEF Counts
      <4>2. Settled("ready", NoPath)
        BY <3>1, <3>3, <4>1, <1>7 DEF TypeOK
      <4> QED
        BY <4>2
    <3> QED
      BY <2>4, <3>2, <3>3 DEF Regist
  <2>5. CASE ResetFlag(t)
    <3>1. balance' = balance /\ flag' = [flag EXCEPT ![z] = FALSE] /\ pc[t] = "reset"
      BY <2>5 DEF ResetFlag, At
    <3>2. CASE flag[z] /\ Goto(t, "unregist") /\ UNCHANGED path
      <4>1. \A x \in Paths : Counts(t, "reset", z, x) = 0
                             /\ Counts(t, "unregist", z, x) = IF x = z THEN -1 ELSE 0
        BY DEF Counts
      <4>2. \A x \in Paths : flag'[x] = IF x = z THEN FALSE ELSE flag[x]
        BY <3>1 DEF TypeOK
      <4>3. Settled("unregist", z)
        BY <3>1, <3>2, <4>1, <4>2, <1>6 DEF TypeOK
      <4> QED
        BY <4>3
    <3>3. CASE ~flag[z] /\ Return(t)
      <4>1. flag' = flag
        BY <3>1, <3>3, <1>2 DEF TypeOK
      <4>2. Settled("ready", NoPath)
        BY <3>1, <3>3, <4>1, <1>7 DEF Counts, TypeOK
      <4> QED
        BY <4>2
    <3> QED
      BY <2>5, <3>2, <3>3 DEF ResetFlag
  <2>6. CASE Unregist(t)
    <3>1. /\ balance' = balance /\ flag' = flag /\ pc[t] = "unregist"
          /\ Goto(t, "untell") /\ UNCHANGED path
      BY <2>6 DEF Unregist, At
    <3>2. \A x \in Paths : Counts(t, "unregist", z, x) = Counts(t, "untell", z, x)
                           /\ Counts(t, "untell", z, x) \in Int
      BY DEF Counts
    <3>3. Settled("untell", z)
      BY <3>1, <3>2, <1>6 DEF TypeOK
    <3> QED
      BY <3>3
  <2>7. CASE Untell(t)
    <3>1. /\ balance' = [balance EXCEPT ![z] = @ - 1] /\ flag' = flag /\ pc[t] = "untell"
          /\ Return(t)
      BY <2>7 DEF Untell, At
    <3>2. \A x \in Paths : balance'[x] - balance[x] = (IF x = z THEN -1 ELSE 0)
                           /\ Counts(t, "untell", z, x) = IF x = z THEN -1 ELSE 0
      BY <3>1 DEF TypeOK, Counts
    <3>3. \A x \in Paths : Counts(t, "ready", NoPath, x) = 0
      BY DEF Counts
    <3>4. Settled("ready", NoPath)
      BY <3>1, <3>2, <3>3, <1>7 DEF TypeOK
    <3> QED
      BY <3>4
  <2> QED
    BY <2>1, <2>2, <2>3, <2>4, <2>5, <2>6, <2>7 DEF Step
<1>9. EveryChangeTold'
  BY <1>3, <1>8, SumKeeps
<1> QED
  BY <1>5, <1>9

LEMMA NextKeeps ==
    ASSUME UInv, [Next]_vars
    PROVE  UInv'
<1>1. ASSUME NEW t \in Apps, NEW x \in Paths,
             ConnectAddress(t, x) \/ MakeConnection(t, x) \/ Disconnect(t, x)
      PROVE  UInv'
  BY <1>1, CallsKeep
<1>2. ASSUME NEW a \in Addrs, Datagram(a) \/ EmptyDatagram(a)
      PROVE  UInv'
  BY <1>2, DatagramsKeep DEF Datagram, EmptyDatagram
<1>3. CASE Unnamed
  <2>1. UNCHANGED <<addr, alias, flag, registered, balance, pc, path>> /\ failed' = "nobody"
    BY <1>3 DEF Unnamed, nameVars
  <2> QED
    BY <2>1 DEF UInv, TypeOK, NamesAgree, EveryChangeTold, ToTell, ToUntell
<1>4. ASSUME NEW t \in Threads, Step(t)
      PROVE  UInv'
  BY <1>4, StepKeeps
<1>5. CASE UNCHANGED vars
  BY <1>5 DEF vars, UInv, TypeOK, NamesAgree, EveryChangeTold, ToTell, ToUntell
<1> QED
  BY <1>1, <1>2, <1>3, <1>4, <1>5 DEF Next

LEMMA Always == Spec => []UInv
<1>1. Init => UInv
  BY InitInv
<1>2. UInv /\ [Next]_vars => UInv'
  BY NextKeeps
<1> QED
  BY <1>1, <1>2, PTL DEF Spec

-----------------------------------------------------------------------------
(* A thread inside the provider works on a path that its map knows, whoever *)
(* enters names meanwhile (CPVD_UDP.cpp:165-207).                           *)
THEOREM TypeCorrect == Spec => []TypeOK
<1>1. UInv => TypeOK
  BY DEF UInv
<1> QED
  BY <1>1, Always, PTL

(* The two maps of CAliasAddr stay inverse under every mix of connect_try,   *)
(* send and datagrams (CAliasAddr.cpp:118-159).                             *)
THEOREM InverseNames == Spec => []NamesAgree
<1>1. UInv => NamesAgree
  BY DEF UInv
<1> QED
  BY <1>1, Always, PTL

(* Each change of a connect flag is told once, by the thread that made it,  *)
(* however many threads make and undo connections at once.                  *)
THEOREM NoChangeUntold == Spec => []EveryChangeTold
<1>1. UInv => EveryChangeTold
  BY DEF UInv
<1> QED
  BY <1>1, Always, PTL
===============================================================================
