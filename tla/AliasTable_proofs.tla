-------------------------- MODULE AliasTable_proofs --------------------------
(***************************************************************************)
(* The alias table keeps its invariants and implements Connections from    *)
(* the constructor on, for any alias files, peers, providers and threads.  *)
(*                                                                         *)
(* While the constructor runs, the file is what the table has and what the *)
(* visits to come will give it: the paths, the faults, the self apps.      *)
(* These visits are those below the resource it is in (body), the end of   *)
(* that resource (res), and the resources after it (roots).                *)
(***************************************************************************)
EXTENDS AliasTable, SequenceTheorems, WellFoundedInduction, TLAPS

-----------------------------------------------------------------------------
(* The functions that read a file exist.  The library's induction takes a   *)
(* predicate as parameter, which the provers cannot be given; the least     *)
(* element of a set takes its place.                                        *)

(* A set of numbers with 0 and the successor of each is that of all. *)
LEMMA SetInduction ==
    ASSUME NEW S \in SUBSET Nat, 0 \in S, \A n \in S : n + 1 \in S
    PROVE  S = Nat
<1> DEFINE R == OpToRel(<, Nat)
<1>1. SUFFICES ASSUME Nat \ S # {} PROVE FALSE
  OBVIOUS
<1>2. IsWellFoundedOn(R, Nat) /\ \A x, y \in Nat : y < x => <<y, x>> \in R
  BY NatLessThanWellFounded DEF OpToRel
<1> HIDE DEF R
<1>3. PICK x \in Nat \ S : \A y \in Nat \ S : ~ (<<y, x>> \in R)
  BY <1>1, <1>2, WFMin
<1>4. x - 1 \in Nat /\ (x - 1) + 1 = x /\ x - 1 < x
  OBVIOUS
<1>5. <<x - 1, x>> \in R
  BY <1>2, <1>4
<1>6. x - 1 \in S
  BY <1>3, <1>4, <1>5
<1> QED
  BY <1>3, <1>4, <1>6

(* The value at x of what f is given, G[x][f], depends on the values of f at *)
(* places of lower rank only.                                               *)
Falling(P, V, rank, G) ==
    \A x \in P : \A f, g \in [P -> V] :
       (\A y \in P : rank[y] < rank[x] => f[y] = g[y]) => G[x][f] = G[x][g]

Solvable(P, V, G) == \E f \in [P -> V] : \A x \in P : f[x] = G[x][f]

(* Then there is a function that has these values. *)
LEMMA Recursion ==
    ASSUME NEW P, NEW V, NEW v \in V, NEW D \in Nat, NEW rank \in [P -> 0 .. D],
           NEW G \in [P -> [[P -> V] -> V]], Falling(P, V, rank, G)
    PROVE  Solvable(P, V, G)
<1> DEFINE Upto(f, n) == \A x \in P : rank[x] < n => f[x] = G[x][f]
           S == {n \in Nat : \E f \in [P -> V] : Upto(f, n)}
<1>1. 0 \in S
  <2>1. [x \in P |-> v] \in [P -> V] /\ Upto([x \in P |-> v], 0)
    OBVIOUS
  <2> QED
    BY <2>1
<1>2. ASSUME NEW n \in S
      PROVE  n + 1 \in S
  <2>1. PICK f \in [P -> V] : Upto(f, n)
    OBVIOUS
  <2> DEFINE g == [x \in P |-> IF rank[x] < n THEN f[x] ELSE G[x][f]]
  <2>2. g \in [P -> V] /\ \A x \in P : rank[x] < n => g[x] = f[x]
    OBVIOUS
  <2>3. \A x \in P : rank[x] < n + 1 => g[x] = G[x][f]
    BY <2>1
  <2>4. ASSUME NEW x \in P, rank[x] < n + 1
        PROVE  G[x][f] = G[x][g]
    <3> HIDE DEF g
    <3>1. \A y \in P : rank[y] < rank[x] => rank[y] < n
      BY <2>4
    <3>2. \A y \in P : rank[y] < rank[x] => f[y] = g[y]
      BY <2>2, <3>1
    <3> QED
      BY <2>2, <3>2 DEF Falling
  <2>5. Upto(g, n + 1)
    <3> HIDE DEF g
    <3> QED
      BY <2>3, <2>4
  <2>6. \E h \in [P -> V] : Upto(h, n + 1)
    <3> HIDE DEF g, Upto
    <3> QED
      BY <2>2, <2>5
  <2> QED
    <3> HIDE DEF Upto
    <3> QED
      BY <2>6
<1>3. PICK f \in [P -> V] : Upto(f, D + 1)
  <2> HIDE DEF Upto
  <2>1. S \in SUBSET Nat
    OBVIOUS
  <2>2. S = Nat
    <3> HIDE DEF S
    <3> QED
      BY <1>1, <1>2, <2>1, SetInduction
  <2>3. D + 1 \in S
    <3> HIDE DEF S
    <3> QED
      BY <2>2
  <2> QED
    BY <2>3
<1> QED
  BY <1>3 DEF Solvable

(* What is below an app is nested deeper. *)
Rank == [x \in Places |-> MaxDepth - Len(x[2])]

(* So its rank is lower, and every rank is a bounded number.                *)
LEMMA RankFalls ==
    /\ Rank \in [Places -> 0 .. MaxDepth]
    /\ \A x \in Places : x[1].type = "multi" =>
          \A i \in Members(x) : Below(x, i) \in Places /\ Rank[Below(x, i)] < Rank[x]
<1>1. ASSUME NEW x \in Places
      PROVE  /\ Len(x[2]) \in Nat /\ Len(x[2]) <= MaxDepth /\ MaxDepth \in Nat
             /\ Len(PathOf(x)) = Len(x[2]) + 1
  <2>1. PICK S, s : S = {y[1].name : y \in Places} /\ s = x[2] /\ s \in Seq(S)
    BY FilesAssumption
  <2>2. x[1].name \in S
    BY <2>1
  <2>3. Len(s) \in Nat /\ Len(Append(s, x[1].name)) = Len(s) + 1
    BY <2>1, <2>2
  <2> QED
    BY <2>1, <2>3, NestingAssumption DEF PathOf
<1>2. Rank \in [Places -> 0 .. MaxDepth]
  BY <1>1 DEF Rank
<1>3. ASSUME NEW x \in Places, x[1].type = "multi", NEW i \in Members(x)
      PROVE  Below(x, i) \in Places /\ Rank[Below(x, i)] < Rank[x]
  <2>1. Below(x, i) \in Places /\ Below(x, i)[2] = PathOf(x)
    BY <1>3, FilesAssumption DEF Below
  <2> QED
    BY <1>1, <2>1 DEF Rank
<1> QED
  BY <1>2, <1>3

(* The three functions are the solutions of their equations. *)
LEMMA WrittenIs ==
    \A x \in Places :
       Written[x] = IF x[1].type = "multi"
                    THEN UNION {Written[Below(x, i)] : i \in Members(x)}
                    ELSE {ProviderAt(PathOf(x), x[1].list[i]) : i \in Members(x)}
<1> DEFINE At(x, f) == IF x[1].type = "multi"
                       THEN UNION {f[Below(x, i)] : i \in Members(x)}
                       ELSE {ProviderAt(PathOf(x), x[1].list[i]) : i \in Members(x)}
           Its(x) == {ProviderAt(PathOf(x), x[1].list[i]) : i \in Members(x)}
           V == SUBSET UNION {Its(x) : x \in Places}
           G == [x \in Places |-> [f \in [Places -> V] |-> At(x, f)]]
<1>1. ASSUME NEW x \in Places, NEW f \in [Places -> V]
      PROVE  At(x, f) \in V
  <2>1. CASE x[1].type = "multi"
    <3>1. \A i \in Members(x) : f[Below(x, i)] \in V
      BY <2>1, RankFalls
    <3> QED
      BY <2>1, <3>1
  <2>2. CASE x[1].type # "multi"
    BY <2>2
  <2> QED
    BY <2>1, <2>2
<1>2. ASSUME NEW x \in Places, NEW f \in [Places -> V], NEW g \in [Places -> V],
             \A y \in Places : Rank[y] < Rank[x] => f[y] = g[y]
      PROVE  At(x, f) = At(x, g)
  <2>1. CASE x[1].type = "multi"
    <3>1. \A i \in Members(x) : f[Below(x, i)] = g[Below(x, i)]
      BY <1>2, <2>1, RankFalls
    <3> QED
      BY <2>1, <3>1
  <2>2. CASE x[1].type # "multi"
    BY <2>2
  <2> QED
    BY <2>1, <2>2
<1>3. {} \in V
  OBVIOUS
<1>4. PICK f \in [Places -> V] : \A x \in Places : f[x] = At(x, f)
  <2> HIDE DEF At, V
  <2>1. G \in [Places -> [[Places -> V] -> V]]
    BY <1>1
  <2>2. Falling(Places, V, Rank, G)
    BY <1>2 DEF Falling
  <2>3. \A x \in Places : \A f \in [Places -> V] : G[x][f] = At(x, f)
    OBVIOUS
  <2>4. Solvable(Places, V, G)
    <3> HIDE DEF G
    <3>1. MaxDepth \in Nat /\ Rank \in [Places -> 0 .. MaxDepth]
      BY NestingAssumption, RankFalls
    <3> QED
      BY <1>3, <2>1, <2>2, <3>1, Recursion
  <2> QED
    BY <2>3, <2>4 DEF Solvable
<1>5. \E g : g = [x \in Places |-> At(x, g)]
  <2> HIDE DEF At, V
  <2>1. f = [x \in Places |-> At(x, f)]
    BY <1>4
  <2> QED
    BY <2>1
<1>6. Written = [x \in Places |-> At(x, Written)]
  BY <1>5 DEF Written
<1>7. \A x \in Places : Written[x] = At(x, Written)
  <2> HIDE DEF At
  <2> QED
    BY <1>6
<1> QED
  BY <1>7

LEMMA WellFormedIs ==
    \A x \in Places :
       WellFormed[x] <=>
          /\ PropertyOK(x[1])
          /\ \A i \in Members(x) :
                IF x[1].type = "single" THEN ProviderOK(x[1].list[i])
                                        ELSE WellFormed[Below(x, i)]
<1> DEFINE At(x, f) ==
               /\ PropertyOK(x[1])
               /\ \A i \in Members(x) :
                     IF x[1].type = "single" THEN ProviderOK(x[1].list[i])
                                             ELSE f[Below(x, i)]
           G == [x \in Places |-> [f \in [Places -> BOOLEAN] |-> At(x, f)]]
<1>1. ASSUME NEW x \in Places, NEW f, NEW g,
             \A y \in Places : Rank[y] < Rank[x] => f[y] = g[y]
      PROVE  At(x, f) = At(x, g)
  <2>1. CASE x[1].type = "multi"
    <3>1. \A i \in Members(x) : f[Below(x, i)] = g[Below(x, i)]
      BY <1>1, <2>1, RankFalls
    <3> QED
      BY <2>1, <3>1
  <2>2. CASE x[1].type # "multi"
    BY <2>2 DEF PropertyOK, AppTypes
  <2> QED
    BY <2>1, <2>2
<1>2. \A x : \A f : At(x, f) \in BOOLEAN
  OBVIOUS
<1>3. PICK f \in [Places -> BOOLEAN] : \A x \in Places : f[x] = At(x, f)
  <2> HIDE DEF At
  <2>1. G \in [Places -> [[Places -> BOOLEAN] -> BOOLEAN]]
    BY <1>2
  <2>2. Falling(Places, BOOLEAN, Rank, G)
    BY <1>1 DEF Falling
  <2>3. \A x \in Places : \A f \in [Places -> BOOLEAN] : G[x][f] = At(x, f)
    OBVIOUS
  <2>4. Solvable(Places, BOOLEAN, G)
    <3> HIDE DEF G
    <3>1. /\ MaxDepth \in Nat /\ Rank \in [Places -> 0 .. MaxDepth]
          /\ TRUE \in BOOLEAN
      BY NestingAssumption, RankFalls
    <3> QED
      BY <2>1, <2>2, <3>1, Recursion
  <2> QED
    BY <2>3, <2>4 DEF Solvable
<1>4. \E g : g = [x \in Places |-> At(x, g)]
  <2> HIDE DEF At
  <2>1. f = [x \in Places |-> At(x, f)]
    BY <1>3
  <2> QED
    BY <2>1
<1>5. WellFormed = [x \in Places |-> At(x, WellFormed)]
  BY <1>4 DEF WellFormed
<1>6. \A x \in Places : WellFormed[x] = At(x, WellFormed)
  <2> HIDE DEF At
  <2> QED
    BY <1>5
<1> QED
  BY <1>6

LEMMA LeadsToSelfIs ==
    \A x \in Places :
       LeadsToSelf[x] <=>
          \/ x[1].type = "single"
          \/ /\ x[1].type = "multi"
             /\ \E i \in Members(x) : x[1].list[i].name = x[1].self /\ LeadsToSelf[Below(x, i)]
<1> DEFINE At(x, f) ==
               \/ x[1].type = "single"
               \/ /\ x[1].type = "multi"
                  /\ \E i \in Members(x) : x[1].list[i].name = x[1].self /\ f[Below(x, i)]
           G == [x \in Places |-> [f \in [Places -> BOOLEAN] |-> At(x, f)]]
<1>1. ASSUME NEW x \in Places, NEW f, NEW g,
             \A y \in Places : Rank[y] < Rank[x] => f[y] = g[y]
      PROVE  At(x, f) = At(x, g)
  <2>1. CASE x[1].type = "multi"
    <3>1. \A i \in Members(x) : f[Below(x, i)] = g[Below(x, i)]
      BY <1>1, <2>1, RankFalls
    <3> QED
      BY <2>1, <3>1
  <2>2. CASE x[1].type # "multi"
    BY <2>2
  <2> QED
    BY <2>1, <2>2
<1>2. \A x : \A f : At(x, f) \in BOOLEAN
  OBVIOUS
<1>3. PICK f \in [Places -> BOOLEAN] : \A x \in Places : f[x] = At(x, f)
  <2> HIDE DEF At
  <2>1. G \in [Places -> [[Places -> BOOLEAN] -> BOOLEAN]]
    BY <1>2
  <2>2. Falling(Places, BOOLEAN, Rank, G)
    BY <1>1 DEF Falling
  <2>3. \A x \in Places : \A f \in [Places -> BOOLEAN] : G[x][f] = At(x, f)
    OBVIOUS
  <2>4. Solvable(Places, BOOLEAN, G)
    <3> HIDE DEF G
    <3>1. /\ MaxDepth \in Nat /\ Rank \in [Places -> 0 .. MaxDepth]
          /\ TRUE \in BOOLEAN
      BY NestingAssumption, RankFalls
    <3> QED
      BY <2>1, <2>2, <3>1, Recursion
  <2> QED
    BY <2>3, <2>4 DEF Solvable
<1>4. \E g : g = [x \in Places |-> At(x, g)]
  <2> HIDE DEF At
  <2>1. f = [x \in Places |-> At(x, f)]
    BY <1>3
  <2> QED
    BY <2>1
<1>5. LeadsToSelf = [x \in Places |-> At(x, LeadsToSelf)]
  BY <1>4 DEF LeadsToSelf
<1>6. \A x \in Places : LeadsToSelf[x] = At(x, LeadsToSelf)
  <2> HIDE DEF At
  <2> QED
    BY <1>5
<1> QED
  BY <1>6

-----------------------------------------------------------------------------
USE PeersAssumption

-----------------------------------------------------------------------------
(* Sequences as the sets of their elements. *)
Items(s) == {s[i] : i \in DOMAIN s}

LEMMA ItemsOfConcat ==
    ASSUME NEW S, NEW s \in Seq(S), NEW t \in Seq(S)
    PROVE  Items(s \o t) = Items(s) \cup Items(t)
<1> DEFINE u == s \o t
<1>1. /\ u \in Seq(S)
      /\ Len(u) = Len(s) + Len(t)
      /\ \A i \in 1 .. Len(s) + Len(t) : u[i] = IF i <= Len(s) THEN s[i] ELSE t[i - Len(s)]
  BY ConcatProperties
<1>2. /\ Len(s) \in Nat /\ Len(t) \in Nat
      /\ DOMAIN s = 1 .. Len(s) /\ DOMAIN t = 1 .. Len(t) /\ DOMAIN u = 1 .. Len(u)
  BY <1>1, LenProperties
<1> HIDE DEF u
<1>3. \A i \in DOMAIN s : i \in DOMAIN u /\ u[i] = s[i]
  BY <1>1, <1>2
<1>4. \A i \in DOMAIN t : i + Len(s) \in DOMAIN u /\ u[i + Len(s)] = t[i]
  BY <1>1, <1>2
<1>5. \A i \in DOMAIN u : \/ i \in DOMAIN s /\ u[i] = s[i]
                          \/ i - Len(s) \in DOMAIN t /\ u[i] = t[i - Len(s)]
  BY <1>1, <1>2
<1>6. Items(u) = Items(s) \cup Items(t)
  BY <1>3, <1>4, <1>5 DEF Items
<1> QED
  BY <1>6 DEF u

LEMMA ItemsOfTail ==
    ASSUME NEW S, NEW s \in Seq(S), s # <<>>
    PROVE  /\ Head(s) \in S /\ Tail(s) \in Seq(S)
           /\ Items(s) = {Head(s)} \cup Items(Tail(s))
<1> DEFINE t == Tail(s)
           h == Head(s)
<1>1. /\ h \in S /\ t \in Seq(S)
      /\ Len(t) = Len(s) - 1
      /\ \A i \in 1 .. Len(t) : t[i] = s[i + 1]
  BY HeadTailProperties
<1>2. h = s[1]
  OBVIOUS
<1> HIDE DEF h, t
<1>3. /\ Len(s) \in Nat /\ Len(s) # 0
      /\ DOMAIN s = 1 .. Len(s) /\ DOMAIN t = 1 .. Len(t)
  BY <1>1, LenProperties, EmptySeq
<1>4. 1 \in DOMAIN s /\ \A i \in DOMAIN t : i + 1 \in DOMAIN s /\ t[i] = s[i + 1]
  BY <1>1, <1>3
<1>5. \A i \in DOMAIN s : i = 1 \/ (i - 1 \in DOMAIN t /\ t[i - 1] = s[i])
  BY <1>1, <1>3
<1>6. Items(s) = {h} \cup Items(t)
  BY <1>2, <1>4, <1>5 DEF Items
<1> QED
  BY <1>1, <1>6 DEF h, t

LEMMA ItemsOfEmpty == Items(<<>>) = {}
BY DEF Items

LEMMA ItemsInSet ==
    ASSUME NEW S, NEW s \in Seq(S)
    PROVE  Items(s) \subseteq S
BY LenProperties DEF Items

LEMMA ConcatHead ==
    ASSUME NEW S, NEW s \in Seq(S), NEW t \in Seq(S), s # <<>>
    PROVE  /\ s \o t # <<>>
           /\ Head(s \o t) = Head(s)
           /\ Tail(s \o t) = Tail(s) \o t
<1> DEFINE u == s \o t
           r == Tail(s)
           v == r \o t
           w == Tail(u)
<1>1. /\ u \in Seq(S) /\ Len(u) = Len(s) + Len(t)
      /\ \A i \in 1 .. Len(s) + Len(t) : u[i] = IF i <= Len(s) THEN s[i] ELSE t[i - Len(s)]
  BY ConcatProperties
<1>2. Len(s) \in Nat \ {0} /\ Len(t) \in Nat
  BY EmptySeq, LenProperties
<1>3. u # <<>>
  BY <1>1, <1>2
<1>4. r \in Seq(S) /\ Len(r) = Len(s) - 1 /\ \A i \in 1 .. Len(r) : r[i] = s[i + 1]
  BY HeadTailProperties
<1>5. w \in Seq(S) /\ Len(w) = Len(u) - 1 /\ \A i \in 1 .. Len(w) : w[i] = u[i + 1]
  BY <1>1, <1>3, HeadTailProperties
<1>6. /\ v \in Seq(S) /\ Len(v) = Len(r) + Len(t)
      /\ \A i \in 1 .. Len(r) + Len(t) : v[i] = IF i <= Len(r) THEN r[i] ELSE t[i - Len(r)]
  BY <1>4, ConcatProperties
<1>7. Head(u) = u[1] /\ Head(s) = s[1]
  OBVIOUS
<1>8. u[1] = s[1]
  BY <1>1, <1>2
<1>9. u # <<>> /\ Head(u) = Head(s)
  BY <1>3, <1>7, <1>8
<1> HIDE DEF u, v, w, r
<1>10. Len(w) = Len(v)
  BY <1>1, <1>2, <1>4, <1>5, <1>6
<1>11. ASSUME NEW i \in 1 .. Len(w)
       PROVE  w[i] = v[i]
  <2>1. w[i] = u[i + 1]
    BY <1>5
  <2>2. u[i + 1] = IF i + 1 <= Len(s) THEN s[i + 1] ELSE t[i + 1 - Len(s)]
    BY <1>1, <1>2, <1>5
  <2>3. v[i] = IF i <= Len(r) THEN r[i] ELSE t[i - Len(r)]
    BY <1>2, <1>4, <1>6, <1>10
  <2>4. i <= Len(r) => r[i] = s[i + 1]
    BY <1>2, <1>4
  <2>5. i + 1 - Len(s) = i - Len(r) /\ (i + 1 <= Len(s) <=> i <= Len(r))
    BY <1>2, <1>4
  <2> QED
    BY <2>1, <2>2, <2>3, <2>4, <2>5
<1>12. w = v
  BY <1>5, <1>6, <1>10, <1>11, SeqEqual
<1>13. Tail(s \o t) = Tail(s) \o t
  BY <1>12, Zenon DEF u, v, w, r
<1> QED
  BY <1>9, <1>13, Zenon DEF u

-----------------------------------------------------------------------------
(* What a visit will do. *)
Place(v) == <<v.what, v.app>>

Things == {x[1] : x \in Places} \cup UNION {Items(x[1].list) : x \in Places}
Names == {x[1].name : x \in Places}

Visits == [kind : {"app", "provider", "self", "resource"}, what : Things, app : Seq(Names), own : BOOLEAN]
Inner == {v \in Visits : /\ v.kind # "resource" /\ v.app # <<>>
                         /\ v.kind = "app" => Place(v) \in Places}
Ends == {v \in Visits : v.kind = "resource"}
Tops == {v \in Visits : v.kind = "app" /\ v.app = <<>> /\ v.own /\ Place(v) \in Places}

(* The paths it will enter. *)
VisitWritten(v) ==
    IF v.kind = "app" THEN Written[Place(v)]
    ELSE IF v.kind = "provider" THEN {ProviderAt(v.app, v.what)} ELSE {}

(* It will not throw. *)
VisitOK(v) ==
    /\ v.kind = "app" => WellFormed[Place(v)]
    /\ v.kind = "provider" => ProviderOK(v.what)

(* It will set self_app. *)
Leads(v) == v.own /\ (v.kind = "self" \/ (v.kind = "app" /\ LeadsToSelf[Place(v)]))

WrittenBy(V) == UNION {VisitWritten(v) : v \in V}
AllOK(V) == \A v \in V : VisitOK(v)
OneLeads(V) == \E v \in V : Leads(v)

SelfVisit(v, path) ==
    IF v.what.type = "single" THEN <<Visit("self", v.what, path, v.own)>> ELSE <<>>
Loop(v, path) == Entries(v.what, path, v.own) \o SelfVisit(v, path)

LEMMA FunctionIsSeq ==
    ASSUME NEW S, NEW n \in Nat, NEW f \in [1 .. n -> S]
    PROVE  f \in Seq(S) /\ DOMAIN f = 1 .. n
OBVIOUS

LEMMA PathNotEmpty ==
    ASSUME NEW v \in Visits, Place(v) \in Places
    PROVE  LET path == Append(v.app, v.what.name)
           IN  path \in Seq(Names) /\ path # <<>> /\ path = PathOf(Place(v))
<1>1. Place(v)[1] = v.what /\ Place(v)[2] = v.app
  BY DEF Place
<1>2. v.app \in Seq(Names) /\ v.what.name \in Names
  BY <1>1 DEF Visits, Names
<1> QED
  BY <1>1, <1>2, AppendProperties DEF PathOf

(* What the loop of make_app_alias goes through, and what comes after it,    *)
(* is what the app stands for.                                               *)
LEMMA MultiApp ==
    ASSUME NEW v \in Visits, v.kind = "app", Place(v) \in Places, v.what.type = "multi",
           PropertyOK(v.what)
    PROVE  LET ins == Loop(v, Append(v.app, v.what.name))
           IN  /\ Entries(v.what, Append(v.app, v.what.name), v.own) \in Seq(Inner)
               /\ SelfVisit(v, Append(v.app, v.what.name)) \in Seq(Inner)
               /\ ins \in Seq(Inner)
               /\ WrittenBy(Items(ins)) = VisitWritten(v)
               /\ AllOK(Items(ins)) <=> VisitOK(v)
               /\ OneLeads(Items(ins)) <=> Leads(v)
<1> DEFINE x == Place(v)
           path == Append(v.app, v.what.name)
           e == Entries(v.what, path, v.own)
           n == Len(v.what.list)
<1>1. x[1] = v.what /\ x[2] = v.app /\ path \in Seq(Names) /\ path # <<>> /\ path = PathOf(x)
  BY PathNotEmpty DEF Place
<1>2. n \in Nat /\ DOMAIN v.what.list = 1 .. n /\ Members(x) = 1 .. n
  BY <1>1, FilesAssumption DEF IsSequence, Members
<1>3. \A i \in 1 .. n : Below(x, i) \in Places /\ Below(x, i) = <<v.what.list[i], path>>
  BY <1>1, <1>2, FilesAssumption DEF Below
<1>4. e = [i \in 1 .. n |->
             Visit("app", v.what.list[i], path, v.own /\ v.what.list[i].name = v.what.self)]
  BY <1>2 DEF Entries
<1> HIDE DEF path, n, e, x
<1>5. \A i \in 1 .. n : /\ e[i].kind = "app" /\ Place(e[i]) = Below(x, i)
                        /\ e[i].own <=> v.own /\ v.what.list[i].name = v.what.self
  BY <1>3, <1>4 DEF Visit, Place
<1>6. \A i \in 1 .. n : v.what.list[i] \in Things
  BY <1>1, <1>2 DEF Things, Items, x
<1>7. \A i \in 1 .. n : e[i] \in Inner
  <2> SUFFICES ASSUME NEW i \in 1 .. n
               PROVE  e[i] \in Inner
    OBVIOUS
  <2>1. e[i] \in Visits
    BY <1>1, <1>4, <1>6 DEF Visit, Visits
  <2>2. e[i].app = path
    BY <1>4 DEF Visit
  <2> QED
    BY <2>1, <2>2, <1>1, <1>3, <1>5 DEF Inner
<1>8. e \in Seq(Inner) /\ DOMAIN e = 1 .. n
  <2>1. e \in [1 .. n -> Inner]
    BY <1>4, <1>7
  <2> QED
    BY <2>1, <1>2, FunctionIsSeq
<1>9. Items(e) = {e[i] : i \in 1 .. n}
  BY <1>8 DEF Items
<1>10. WrittenBy(Items(e)) = VisitWritten(v)
  <2>1. WrittenBy(Items(e)) = UNION {Written[Below(x, i)] : i \in 1 .. n}
    BY <1>5, <1>9 DEF WrittenBy, VisitWritten
  <2>2. Written[x] = UNION {Written[Below(x, i)] : i \in Members(x)}
    BY <1>1, WrittenIs, Zenon DEF x
  <2>3. VisitWritten(v) = Written[x]
    BY DEF VisitWritten, x
  <2> QED
    BY <2>1, <2>2, <2>3, <1>2
<1>11. AllOK(Items(e)) <=> VisitOK(v)
  <2>1. AllOK(Items(e)) <=> \A i \in 1 .. n : WellFormed[Below(x, i)]
    BY <1>5, <1>9 DEF AllOK, VisitOK
  <2> QED
    BY <2>1, <1>1, <1>2, WellFormedIs DEF VisitOK, x
<1>12. OneLeads(Items(e)) <=> Leads(v)
  <2>1. OneLeads(Items(e)) <=>
           \E i \in 1 .. n : v.own /\ v.what.list[i].name = v.what.self /\ LeadsToSelf[Below(x, i)]
    BY <1>5, <1>9 DEF OneLeads, Leads
  <2>2. LeadsToSelf[x] <=>
           \E i \in 1 .. n : v.what.list[i].name = v.what.self /\ LeadsToSelf[Below(x, i)]
    BY <1>1, <1>2, LeadsToSelfIs DEF x
  <2> QED
    BY <2>1, <2>2 DEF Leads, x
<1>13. Loop(v, path) = e /\ SelfVisit(v, path) \in Seq(Inner)
  BY <1>8, ConcatEmptySeq DEF Loop, SelfVisit, e
<1> QED
  BY <1>8, <1>10, <1>11, <1>12, <1>13 DEF path, e

LEMMA SingleApp ==
    ASSUME NEW v \in Visits, v.kind = "app", Place(v) \in Places, v.what.type = "single",
           PropertyOK(v.what)
    PROVE  LET ins == Loop(v, Append(v.app, v.what.name))
           IN  /\ Entries(v.what, Append(v.app, v.what.name), v.own) \in Seq(Inner)
               /\ SelfVisit(v, Append(v.app, v.what.name)) \in Seq(Inner)
               /\ ins \in Seq(Inner)
               /\ WrittenBy(Items(ins)) = VisitWritten(v)
               /\ AllOK(Items(ins)) <=> VisitOK(v)
               /\ OneLeads(Items(ins)) <=> Leads(v)
<1> DEFINE x == Place(v)
           path == Append(v.app, v.what.name)
           e == Entries(v.what, path, v.own)
           n == Len(v.what.list)
           self == Visit("self", v.what, path, v.own)
<1>1. x[1] = v.what /\ x[2] = v.app /\ path \in Seq(Names) /\ path # <<>> /\ path = PathOf(x)
  BY PathNotEmpty DEF Place
<1>2. n \in Nat /\ DOMAIN v.what.list = 1 .. n /\ Members(x) = 1 .. n
  BY <1>1, FilesAssumption DEF IsSequence, Members
<1>4. e = [i \in 1 .. n |-> Visit("provider", v.what.list[i], path, FALSE)]
  BY <1>2 DEF Entries
<1>14. /\ self.kind = "self" /\ self.app = path /\ self.own = v.own /\ self.what = v.what
       /\ self = [kind |-> "self", what |-> v.what, app |-> path, own |-> v.own]
  BY DEF Visit
<1>15. Loop(v, path) = e \o <<self>> /\ SelfVisit(v, path) = <<self>>
  BY DEF Loop, SelfVisit
<1> HIDE DEF path, n, e, x, self
<1>5. \A i \in 1 .. n : /\ e[i].kind = "provider" /\ e[i].app = path /\ e[i].what = v.what.list[i]
                        /\ e[i].own = FALSE
  BY <1>4 DEF Visit
<1>6. \A i \in 1 .. n : v.what.list[i] \in Things
  BY <1>1, <1>2 DEF Things, Items, x
<1>7. \A i \in 1 .. n : e[i] \in Inner
  <2> SUFFICES ASSUME NEW i \in 1 .. n
               PROVE  e[i] \in Inner
    OBVIOUS
  <2>1. e[i] \in Visits
    BY <1>1, <1>4, <1>6 DEF Visit, Visits
  <2> QED
    BY <2>1, <1>1, <1>5 DEF Inner
<1>8. e \in Seq(Inner) /\ DOMAIN e = 1 .. n
  <2>1. e \in [1 .. n -> Inner]
    BY <1>4, <1>7
  <2> QED
    BY <2>1, <1>2, FunctionIsSeq
<1>9. Items(e) = {e[i] : i \in 1 .. n}
  BY <1>8 DEF Items
<1>16. self \in Inner
  <2>1. self \in Visits
    BY <1>1, <1>14 DEF Visits
  <2> QED
    BY <2>1, <1>1, <1>14 DEF Inner
<1>17. <<self>> \in Seq(Inner) /\ e \o <<self>> \in Seq(Inner) /\ Items(e \o <<self>>) = Items(e) \cup {self}
  <2> DEFINE one == <<self>>
  <2>1. one \in Seq(Inner) /\ Items(one) = {self}
    BY <1>16 DEF Items
  <2> HIDE DEF one
  <2>2. e \o one \in Seq(Inner) /\ Items(e \o one) = Items(e) \cup Items(one)
    BY <2>1, <1>8, ConcatProperties, ItemsOfConcat
  <2> QED
    BY <2>1, <2>2, Zenon DEF one
<1>18. ~Leads(self) <=> ~v.own
  BY <1>14 DEF Leads
<1>10. WrittenBy(Items(e) \cup {self}) = VisitWritten(v)
  <2>1. VisitWritten(self) = {}
    BY <1>14 DEF VisitWritten
  <2>2. \A i \in 1 .. n : VisitWritten(e[i]) = {ProviderAt(path, v.what.list[i])}
    BY <1>5 DEF VisitWritten
  <2>3. WrittenBy(Items(e) \cup {self}) = {ProviderAt(path, v.what.list[i]) : i \in 1 .. n}
    BY <2>1, <2>2, <1>9 DEF WrittenBy
  <2>4. Written[x] = {ProviderAt(PathOf(x), x[1].list[i]) : i \in Members(x)}
    BY <1>1, WrittenIs DEF x
  <2>5. Written[x] = {ProviderAt(path, v.what.list[i]) : i \in 1 .. n}
    BY <2>4, <1>1, <1>2
  <2>6. VisitWritten(v) = Written[x]
    BY DEF VisitWritten, x
  <2> QED
    BY <2>3, <2>5, <2>6
<1>11. AllOK(Items(e) \cup {self}) <=> VisitOK(v)
  <2>1. AllOK(Items(e) \cup {self}) <=> \A i \in 1 .. n : ProviderOK(v.what.list[i])
    BY <1>5, <1>9, <1>14 DEF AllOK, VisitOK
  <2> QED
    BY <2>1, <1>1, <1>2, WellFormedIs DEF VisitOK, x
<1>12. OneLeads(Items(e) \cup {self}) <=> Leads(v)
  <2>1. OneLeads(Items(e) \cup {self}) <=> v.own
    BY <1>5, <1>9, <1>14 DEF OneLeads, Leads
  <2>2. LeadsToSelf[x]
    BY <1>1, LeadsToSelfIs DEF x
  <2> QED
    BY <2>1, <2>2 DEF Leads, x
<1> QED
  BY <1>8, <1>15, <1>17, <1>10, <1>11, <1>12 DEF path, e

LEMMA AppLoop ==
    ASSUME NEW v \in Visits, v.kind = "app", Place(v) \in Places, PropertyOK(v.what)
    PROVE  LET ins == Loop(v, Append(v.app, v.what.name))
           IN  /\ Entries(v.what, Append(v.app, v.what.name), v.own) \in Seq(Inner)
               /\ SelfVisit(v, Append(v.app, v.what.name)) \in Seq(Inner)
               /\ ins \in Seq(Inner)
               /\ WrittenBy(Items(ins)) = VisitWritten(v)
               /\ AllOK(Items(ins)) <=> VisitOK(v)
               /\ OneLeads(Items(ins)) <=> Leads(v)
<1>1. v.what.type = "single" \/ v.what.type = "multi"
  BY DEF PropertyOK, AppTypes
<1> QED
  BY <1>1, SingleApp, MultiApp

LEMMA BadProperty ==
    ASSUME NEW v, v.kind = "app", Place(v) \in Places, ~PropertyOK(v.what)
    PROVE  ~VisitOK(v)
BY WellFormedIs DEF VisitOK, Place

-----------------------------------------------------------------------------
(* The invariant of the constructor. *)
AllFormed(f) == \A i \in DOMAIN f : WellFormed[Top(f[i])]
AllLead(f) == \A i \in DOMAIN f : LeadsToSelf[Top(f[i])]

Entered == {x \in Paths : pvds[AppOf[x]][x] = 1}

Loading(body, res, roots) ==
    /\ body \in Seq(Inner) /\ roots \in Seq(Tops)
    /\ res = <<>> \/ \E r \in Ends : res = <<r>>
    /\ todo = body \o (res \o roots)
    /\ res = <<>> => body = <<>> /\ ~hasSelf
    /\ FileWritten(file) = Entered \cup WrittenBy(Items(body) \cup Items(roots))
    /\ AllFormed(file) <=> AllOK(Items(body) \cup Items(roots))
    /\ AllLead(file) <=> /\ \A v \in Items(roots) : Leads(v)
                         /\ res # <<>> => hasSelf \/ OneLeads(Items(body))

(* Nobody has the table yet. *)
Fresh ==
    /\ made = {} /\ keys = {} /\ listed = [p \in Peers |-> [m \in Mine |-> 0]]
    /\ pc = [t \in Callers |-> "ready"] /\ arg = [t \in Callers |-> NoPath]
    /\ inApp = [t \in Callers |-> NoPath]

TableOK ==
    /\ spaces \subseteq Apps
    /\ pvds \in [Apps -> [Paths -> {0, 1}]]
    /\ pathOf = [x \in Paths |-> x]
    /\ \A x \in Entered : AppOf[x] \in spaces

LEMMA FileOKIs == ASSUME NEW f PROVE FileOK(f) <=> AllFormed(f) /\ AllLead(f)
BY DEF FileOK, AllFormed, AllLead

LEMMA LoadingTypes ==
    ASSUME NEW body, NEW res, NEW roots, Loading(body, res, roots)
    PROVE  /\ body \in Seq(Visits) /\ res \in Seq(Visits) /\ roots \in Seq(Visits)
           /\ res \o roots \in Seq(Visits)
           /\ todo \in Seq(Visits)
<1>1. body \in Seq(Visits) /\ roots \in Seq(Visits)
  BY SeqMonotonic DEF Loading, Inner, Tops
<1>2. res \in Seq(Visits)
  <2>1. CASE res = <<>>
    BY <2>1
  <2>2. ASSUME NEW r \in Ends, res = <<r>> PROVE res \in Seq(Visits)
    <3>1. r \in Visits
      BY DEF Ends
    <3> QED
      BY <3>1, <2>2
  <2> QED
    BY <2>1, <2>2 DEF Loading
<1>3. res \o roots \in Seq(Visits)
  BY <1>1, <1>2, ConcatProperties
<1>4. todo \in Seq(Visits)
  BY <1>1, <1>3, ConcatProperties DEF Loading
<1> QED
  BY <1>1, <1>2, <1>3, <1>4

(* What the next visit is. *)
LEMMA NextInBody ==
    ASSUME NEW body, NEW res, NEW roots, Loading(body, res, roots), body # <<>>
    PROVE  /\ todo # <<>>
           /\ Head(todo) = Head(body)
           /\ Head(body) \in Inner /\ Tail(body) \in Seq(Inner)
           /\ Tail(todo) = Tail(body) \o (res \o roots)
           /\ Items(body) = {Head(body)} \cup Items(Tail(body))
<1>1. body \in Seq(Inner) /\ body \in Seq(Visits) /\ res \o roots \in Seq(Visits)
  BY LoadingTypes DEF Loading
<1>2. todo = body \o (res \o roots)
  BY DEF Loading
<1>3. /\ todo # <<>> /\ Head(todo) = Head(body)
      /\ Tail(todo) = Tail(body) \o (res \o roots)
  BY <1>1, <1>2, ConcatHead
<1>4. /\ Head(body) \in Inner /\ Tail(body) \in Seq(Inner)
      /\ Items(body) = {Head(body)} \cup Items(Tail(body))
  BY <1>1, ItemsOfTail
<1> QED
  BY <1>3, <1>4

LEMMA NextIsEnd ==
    ASSUME NEW body, NEW res, NEW roots, Loading(body, res, roots), body = <<>>, res # <<>>
    PROVE  /\ todo # <<>>
           /\ Head(todo).kind = "resource"
           /\ Tail(todo) = roots
<1>1. PICK r \in Ends : res = <<r>>
  BY DEF Loading
<1>2. roots \in Seq(Visits) /\ res \o roots \in Seq(Visits) /\ res \in Seq(Visits)
  BY LoadingTypes
<1>3. todo = res \o roots
  BY <1>2, ConcatEmptySeq DEF Loading
<1>4. todo # <<>> /\ Head(todo) = Head(res) /\ Tail(todo) = Tail(res) \o roots
  BY <1>2, <1>3, ConcatHead
<1>5. Head(res) = r /\ Tail(res) = <<>>
  BY <1>1
<1>6. <<>> \o roots = roots
  BY <1>2, ConcatEmptySeq
<1> QED
  BY <1>4, <1>5, <1>6 DEF Ends

LEMMA NextInRoots ==
    ASSUME NEW body, NEW res, NEW roots, Loading(body, res, roots), res = <<>>
    PROVE  /\ body = <<>> /\ todo = roots
           /\ todo # <<>> => /\ Head(todo) \in Tops /\ Tail(todo) \in Seq(Tops)
                             /\ Items(roots) = {Head(todo)} \cup Items(Tail(todo))
<1>1. roots \in Seq(Visits) /\ roots \in Seq(Tops)
  BY LoadingTypes DEF Loading
<1>2. body = <<>> /\ todo = roots
  BY <1>1, ConcatEmptySeq DEF Loading
<1> QED
  BY <1>1, <1>2, ItemsOfTail

LEMMA ThreeParts ==
    ASSUME NEW e \in Seq(Inner), NEW self \in Seq(Inner), NEW rsc \in Seq(Ends), NEW t \in Seq(Visits)
    PROVE  e \o (self \o rsc) \o t = (e \o self) \o (rsc \o t)
<1>1. e \in Seq(Visits) /\ self \in Seq(Visits) /\ rsc \in Seq(Visits)
  BY SeqMonotonic DEF Inner, Ends
<1>2. e \o (self \o rsc) = (e \o self) \o rsc
  BY <1>1, ConcatAssociative
<1> DEFINE a == e \o self
<1>3. a \in Seq(Visits) /\ rsc \in Seq(Visits) /\ t \in Seq(Visits)
  BY <1>1, ConcatProperties
<1> HIDE DEF a
<1>4. (a \o rsc) \o t = a \o (rsc \o t)
  BY <1>3, ConcatAssociative
<1> QED
  BY <1>2, <1>4, Zenon DEF a

(* A step of the constructor that goes on. *)
Goes == TableOK /\ \E body, res, roots : Loading(body, res, roots)

LEMMA LoadAppGoes ==
    ASSUME NEW body, NEW res, NEW roots, Loading(body, res, roots), TableOK,
           todo # <<>>, LoadApp, PropertyOK(Head(todo).what)
    PROVE  Goes'
<1> DEFINE v == Head(todo)
           path == Append(v.app, v.what.name)
           ins == Loop(v, path)
           self == SelfVisit(v, path)
           e == Entries(v.what, path, v.own)
           end == Visit("resource", v.what, path, v.own)
           rsc == IF v.app = <<>> THEN <<end>> ELSE <<>>
<1>1. v.kind = "app" /\ UNCHANGED <<spaces, pvds, pathOf, hasSelf, file>>
  BY DEF LoadApp, Throw, UsersUnchanged
<1>2. todo' = e \o (self \o rsc) \o Tail(todo)
  BY DEF LoadApp, SelfVisit
<1>3. v \in Visits
  BY LoadingTypes, HeadTailProperties
<1>4. ~(body = <<>> /\ res # <<>>)
  BY <1>1, NextIsEnd
<1>5. Place(v) \in Places
  <2>1. CASE body # <<>>
    BY <2>1, <1>1, NextInBody DEF Inner
  <2>2. CASE res = <<>>
    BY <2>2, NextInRoots DEF Tops
  <2> QED
    BY <2>1, <2>2, <1>4
<1>6. /\ e \in Seq(Inner) /\ self \in Seq(Inner)
      /\ ins \in Seq(Inner)
      /\ WrittenBy(Items(ins)) = VisitWritten(v)
      /\ AllOK(Items(ins)) <=> VisitOK(v)
      /\ OneLeads(Items(ins)) <=> Leads(v)
  BY <1>1, <1>3, <1>5, AppLoop
<1>7. ins = e \o self
  BY DEF Loop
<1>8. TableOK'
  BY <1>1 DEF TableOK, Entered
<1>9. Entered' = Entered
  BY <1>1 DEF Entered
<1>10. end \in Ends /\ rsc \in Seq(Ends)
  <2>1. path \in Seq(Names) /\ v.what \in Things /\ v.own \in BOOLEAN
    BY <1>3, <1>5, PathNotEmpty DEF Visits
  <2>2. end \in Ends
    BY <2>1 DEF Ends, Visits, Visit
  <2> QED
    BY <2>2
<1>11. Tail(todo) \in Seq(Visits)
  BY LoadingTypes, HeadTailProperties
<1> HIDE DEF v, path, ins, self, e, end, rsc
<1>12. todo' = ins \o (rsc \o Tail(todo))
  <2> DEFINE t == Tail(todo)
  <2>1. t \in Seq(Visits)
    BY <1>11
  <2> HIDE DEF t
  <2>2. e \o (self \o rsc) \o t = (e \o self) \o (rsc \o t)
    <3>1. e \in Seq(Inner) /\ self \in Seq(Inner) /\ rsc \in Seq(Ends)
      BY <1>6, <1>10
    <3> QED
      BY <2>1, <3>1, ThreeParts
  <2> QED
    BY <2>2, <1>2, <1>7, Zenon DEF t
<1>13. CASE body # <<>>
  <2>1. /\ v = Head(body) /\ v \in Inner /\ Tail(body) \in Seq(Inner)
        /\ Tail(todo) = Tail(body) \o (res \o roots)
        /\ Items(body) = {v} \cup Items(Tail(body))
    BY <1>13, NextInBody DEF v
  <2>2. rsc = <<>> /\ rsc \o Tail(todo) = Tail(todo)
    BY <2>1, <1>11, ConcatEmptySeq DEF Inner, rsc
  <2> DEFINE b == ins \o Tail(body)
  <2>9. ins \in Seq(Inner) /\ Tail(body) \in Seq(Inner)
    BY <2>1, <1>6
  <2>3. b \in Seq(Inner) /\ Items(b) = Items(ins) \cup Items(Tail(body))
    <3> DEFINE c == Tail(body)
    <3>1. ins \in Seq(Inner) /\ c \in Seq(Inner)
      BY <2>9
    <3> HIDE DEF c
    <3>2. ins \o c \in Seq(Inner) /\ Items(ins \o c) = Items(ins) \cup Items(c)
      BY <3>1, ConcatProperties, ItemsOfConcat
    <3> QED
      BY <3>2, Zenon DEF c
  <2>4. todo' = b \o (res \o roots)
    <3>1. ins \in Seq(Visits) /\ Tail(body) \in Seq(Visits) /\ res \o roots \in Seq(Visits)
      BY <1>6, <2>1, LoadingTypes, SeqMonotonic DEF Inner
    <3>2. todo' = ins \o (Tail(body) \o (res \o roots))
      BY <2>1, <2>2, <1>12, Zenon
    <3> DEFINE c == Tail(body)
               d == res \o roots
    <3>3. ins \in Seq(Visits) /\ c \in Seq(Visits) /\ d \in Seq(Visits)
      BY <3>1
    <3> HIDE DEF c, d
    <3>4. (ins \o c) \o d = ins \o (c \o d)
      BY <3>3, ConcatAssociative
    <3> QED
      BY <3>2, <3>4, Zenon DEF c, d
  <2> HIDE DEF b
  <2>5. WrittenBy(Items(b) \cup Items(roots)) = WrittenBy(Items(body) \cup Items(roots))
    BY <2>1, <2>3, <1>6 DEF WrittenBy
  <2>6. AllOK(Items(b) \cup Items(roots)) <=> AllOK(Items(body) \cup Items(roots))
    BY <2>1, <2>3, <1>6 DEF AllOK
  <2>7. OneLeads(Items(b)) <=> OneLeads(Items(body))
    BY <2>1, <2>3, <1>6 DEF OneLeads
  <2>12. PICK B : B = b
    OBVIOUS
  <2>13. B \in Seq(Inner) /\ todo' = B \o (res \o roots)
    BY <2>3, <2>4, <2>12, Zenon
  <2>8. Loading(B, res, roots)'
    <3>1. roots \in Seq(Tops) /\ (res = <<>> \/ \E r \in Ends : res = <<r>>)
      BY DEF Loading
    <3>2. res # <<>>
      BY <1>13 DEF Loading
    <3>3. FileWritten(file) = Entered \cup WrittenBy(Items(B) \cup Items(roots))
      BY <2>5, <2>12 DEF Loading
    <3>4. AllFormed(file) <=> AllOK(Items(B) \cup Items(roots))
      BY <2>6, <2>12 DEF Loading
    <3>5. AllLead(file) <=> /\ \A w \in Items(roots) : Leads(w)
                            /\ res # <<>> => hasSelf \/ OneLeads(Items(B))
      BY <2>7, <2>12 DEF Loading
    <3>6. file' = file /\ hasSelf' = hasSelf
      BY <1>1
    <3> QED
      BY <3>1, <3>2, <3>3, <3>4, <3>5, <3>6, <1>9, <2>13, Zenon DEF Loading
  <2> QED
    BY <2>8, <1>8 DEF Goes
<1>14. CASE body = <<>> /\ res = <<>>
  <2>1. /\ todo = roots /\ v \in Tops /\ Tail(todo) \in Seq(Tops)
        /\ Items(roots) = {v} \cup Items(Tail(todo))
    BY <1>14, NextInRoots DEF v
  <2>2. rsc = <<end>>
    BY <2>1 DEF Tops, rsc
  <2> DEFINE t == Tail(todo)
  <2> HIDE DEF t
  <2>3. WrittenBy(Items(ins) \cup Items(t)) = WrittenBy(Items(body) \cup Items(roots))
    BY <2>1, <1>6, <1>14, ItemsOfEmpty DEF WrittenBy, t
  <2>4. AllOK(Items(ins) \cup Items(t)) <=> AllOK(Items(body) \cup Items(roots))
    BY <2>1, <1>6, <1>14, ItemsOfEmpty DEF AllOK, t
  <2>5. (\A w \in Items(roots) : Leads(w)) <=>
           (\A w \in Items(t) : Leads(w)) /\ OneLeads(Items(ins))
    BY <2>1, <1>6 DEF t
  <2>6. todo' = ins \o (rsc \o t) /\ t \in Seq(Tops)
    BY <1>12, <2>1 DEF t
  <2>7. ~hasSelf /\ rsc # <<>> /\ res = <<>>
    BY <1>14, <2>2 DEF Loading
  <2>9. PICK I, R, T : I = ins /\ R = rsc /\ T = t
    OBVIOUS
  <2>10. I \in Seq(Inner) /\ T \in Seq(Tops) /\ todo' = I \o (R \o T)
    BY <1>6, <2>6, <2>9, Zenon
  <2>8. Loading(I, R, T)'
    <3>1. R # <<>> /\ \E r \in Ends : R = <<r>>
      BY <2>2, <2>9, <1>10
    <3>3. FileWritten(file) = Entered \cup WrittenBy(Items(I) \cup Items(T))
      BY <2>3, <2>9 DEF Loading
    <3>4. AllFormed(file) <=> AllOK(Items(I) \cup Items(T))
      BY <2>4, <2>9 DEF Loading
    <3>5. AllLead(file) <=> /\ \A w \in Items(T) : Leads(w)
                            /\ R # <<>> => hasSelf \/ OneLeads(Items(I))
      BY <2>5, <2>7, <2>9 DEF Loading
    <3>6. file' = file /\ hasSelf' = hasSelf
      BY <1>1
    <3> QED
      BY <3>1, <3>3, <3>4, <3>5, <3>6, <1>9, <2>10, Zenon DEF Loading
  <2> QED
    BY <2>8, <1>8 DEF Goes
<1> QED
  BY <1>4, <1>13, <1>14

(* The visits of a body that are not apps leave the rest of it. *)
LEMMA BodyVisit ==
    ASSUME NEW body, NEW res, NEW roots, Loading(body, res, roots), todo # <<>>,
           Head(todo).kind \in {"provider", "self"}
    PROVE  /\ body # <<>> /\ res # <<>>
           /\ Head(todo) \in Inner /\ Tail(body) \in Seq(Inner)
           /\ Tail(todo) = Tail(body) \o (res \o roots)
           /\ Items(body) = {Head(todo)} \cup Items(Tail(body))
<1>1. CASE body # <<>>
  <2>1. res # <<>>
    BY <1>1 DEF Loading
  <2>2. Head(todo) = Head(body)
    BY <1>1, NextInBody
  <2>3. /\ Head(body) \in Inner /\ Tail(body) \in Seq(Inner)
        /\ Tail(todo) = Tail(body) \o (res \o roots)
        /\ Items(body) = {Head(body)} \cup Items(Tail(body))
    BY <1>1, NextInBody
  <2> QED
    BY <1>1, <2>1, <2>2, <2>3, Zenon
<1>2. CASE body = <<>> /\ res # <<>>
  BY <1>2, NextIsEnd
<1>3. CASE res = <<>>
  BY <1>3, NextInRoots DEF Tops
<1> QED
  BY <1>1, <1>2, <1>3

LEMMA LoadProviderGoes ==
    ASSUME NEW body, NEW res, NEW roots, Loading(body, res, roots), TableOK, file \in Files,
           todo # <<>>, LoadProvider, ProviderOK(Head(todo).what)
    PROVE  Goes'
<1> DEFINE v == Head(todo)
           x == ProviderAt(v.app, v.what)
<1>1. /\ v.kind = "provider" /\ UNCHANGED <<pathOf, hasSelf, file>>
      /\ spaces' = spaces \cup {v.app}
      /\ pvds' = IF IsTherePvd(v.app, x) THEN pvds ELSE [pvds EXCEPT ![v.app][x] = 1]
      /\ todo' = Tail(todo)
  BY DEF LoadProvider, Throw, UsersUnchanged
<1>2. /\ body # <<>> /\ res # <<>>
      /\ v \in Inner /\ Tail(body) \in Seq(Inner)
      /\ Tail(todo) = Tail(body) \o (res \o roots)
      /\ Items(body) = {v} \cup Items(Tail(body))
  BY <1>1, BodyVisit
<1>3. x.app = v.app
  BY DEF ProviderAt
<1>4. VisitWritten(v) = {x}
  BY <1>1 DEF VisitWritten
<1> HIDE DEF v, x
<1>5. x \in FileWritten(file)
  BY <1>2, <1>4 DEF Loading, WrittenBy
<1>6. x \in Paths /\ AppOf[x] = v.app /\ v.app \in Apps
  BY <1>3, <1>5, FilesAssumption DEF Paths
<1>7. pvds' \in [Apps -> [Paths -> {0, 1}]] /\ Entered' = Entered \cup {x}
  <2>1. IsTherePvd(v.app, x) <=> pvds[v.app][x] = 1
    BY <1>6 DEF TableOK, IsTherePvd
  <2>2. CASE pvds[v.app][x] = 1
    BY <1>1, <1>6, <2>1, <2>2 DEF TableOK, Entered
  <2>3. CASE pvds[v.app][x] # 1
    <3>1. pvds' = [pvds EXCEPT ![v.app][x] = 1]
      BY <1>1, <2>1, <2>3
    <3>2. pvds' \in [Apps -> [Paths -> {0, 1}]] /\ pvds'[v.app][x] = 1
      BY <3>1, <1>6 DEF TableOK
    <3>3. \A a \in Apps, y \in Paths : y # x => pvds'[a][y] = pvds[a][y]
      BY <3>1, <1>6 DEF TableOK
    <3>4. \A y \in Paths : AppOf[y] \in Apps
      OBVIOUS
    <3> QED
      BY <1>6, <3>2, <3>3, <3>4 DEF Entered
  <2> QED
    BY <2>2, <2>3
<1>8. TableOK'
  BY <1>1, <1>6, <1>7 DEF TableOK
<1>9. PICK B : B = Tail(body)
  OBVIOUS
<1>10. B \in Seq(Inner) /\ todo' = B \o (res \o roots) /\ Items(body) = {v} \cup Items(B)
  BY <1>1, <1>2, <1>9, Zenon
<1>11. Entered \cup WrittenBy(Items(body) \cup Items(roots)) =
       Entered' \cup WrittenBy(Items(B) \cup Items(roots))
  BY <1>4, <1>7, <1>10 DEF WrittenBy
<1>12. VisitOK(v) /\ ~Leads(v)
  BY <1>1, <1>2 DEF VisitOK, Leads, v
<1>13. Loading(B, res, roots)'
  <2>1. roots \in Seq(Tops) /\ (res = <<>> \/ \E r \in Ends : res = <<r>>)
    BY DEF Loading
  <2>2. FileWritten(file) = Entered' \cup WrittenBy(Items(B) \cup Items(roots))
    BY <1>11 DEF Loading
  <2>3. AllFormed(file) <=> AllOK(Items(B) \cup Items(roots))
    BY <1>10, <1>12 DEF Loading, AllOK
  <2>4. OneLeads(Items(B)) <=> OneLeads(Items(body))
    BY <1>10, <1>12 DEF OneLeads
  <2>5. AllLead(file) <=> /\ \A w \in Items(roots) : Leads(w)
                          /\ res # <<>> => hasSelf \/ OneLeads(Items(B))
    BY <2>4 DEF Loading
  <2>6. file' = file /\ hasSelf' = hasSelf
    BY <1>1
  <2> QED
    BY <2>1, <2>2, <2>3, <2>5, <2>6, <1>2, <1>10, Zenon DEF Loading
<1> QED
  BY <1>8, <1>13 DEF Goes

LEMMA FoundSelfGoes ==
    ASSUME NEW body, NEW res, NEW roots, Loading(body, res, roots), TableOK,
           todo # <<>>, FoundSelf
    PROVE  Goes'
<1> DEFINE v == Head(todo)
<1>1. /\ v.kind = "self" /\ UNCHANGED <<spaces, pvds, pathOf, file>>
      /\ hasSelf' = (v.own \/ hasSelf)
      /\ todo' = Tail(todo)
  BY DEF FoundSelf, UsersUnchanged
<1>2. /\ body # <<>> /\ res # <<>>
      /\ v \in Inner /\ Tail(body) \in Seq(Inner)
      /\ Tail(todo) = Tail(body) \o (res \o roots)
      /\ Items(body) = {v} \cup Items(Tail(body))
  BY <1>1, BodyVisit
<1> HIDE DEF v
<1>3. VisitWritten(v) = {} /\ VisitOK(v) /\ (Leads(v) <=> v.own)
  BY <1>1 DEF VisitWritten, VisitOK, Leads
<1>4. TableOK' /\ Entered' = Entered
  BY <1>1 DEF TableOK, Entered
<1>5. PICK B : B = Tail(body)
  OBVIOUS
<1>6. B \in Seq(Inner) /\ todo' = B \o (res \o roots) /\ Items(body) = {v} \cup Items(B)
  BY <1>1, <1>2, <1>5, Zenon
<1>7. Loading(B, res, roots)'
  <2>1. roots \in Seq(Tops) /\ (res = <<>> \/ \E r \in Ends : res = <<r>>)
    BY DEF Loading
  <2>2. WrittenBy(Items(body) \cup Items(roots)) = WrittenBy(Items(B) \cup Items(roots))
    BY <1>3, <1>6 DEF WrittenBy
  <2>3. FileWritten(file) = Entered' \cup WrittenBy(Items(B) \cup Items(roots))
    BY <2>2, <1>4 DEF Loading
  <2>4. AllFormed(file) <=> AllOK(Items(B) \cup Items(roots))
    BY <1>3, <1>6 DEF Loading, AllOK
  <2>5. OneLeads(Items(body)) <=> v.own \/ OneLeads(Items(B))
    BY <1>3, <1>6 DEF OneLeads
  <2>6. AllLead(file) <=> /\ \A w \in Items(roots) : Leads(w)
                          /\ res # <<>> => hasSelf' \/ OneLeads(Items(B))
    BY <2>5, <1>1 DEF Loading
  <2>7. file' = file
    BY <1>1
  <2> QED
    BY <2>1, <2>3, <2>4, <2>6, <2>7, <1>2, <1>6, Zenon DEF Loading
<1> QED
  BY <1>4, <1>7 DEF Goes

LEMMA RegisterResourceGoes ==
    ASSUME NEW body, NEW res, NEW roots, Loading(body, res, roots), TableOK,
           todo # <<>>, RegisterResource
    PROVE  IF hasSelf THEN Goes' ELSE ~AllLead(file)
<1>1. body = <<>> /\ res # <<>>
  <2>1. CASE body # <<>>
    BY <2>1, NextInBody DEF RegisterResource, Inner
  <2>2. CASE res = <<>>
    BY <2>2, NextInRoots DEF RegisterResource, Tops
  <2> QED
    BY <2>1, <2>2
<1>2. Tail(todo) = roots
  BY <1>1, NextIsEnd
<1>3. ~OneLeads(Items(body))
  BY <1>1, ItemsOfEmpty DEF OneLeads
<1>4. CASE ~hasSelf
  BY <1>1, <1>3, <1>4 DEF Loading
<1>5. CASE hasSelf
  <2>1. todo' = roots /\ hasSelf' = FALSE /\ UNCHANGED <<spaces, pvds, pathOf, file>>
    BY <1>2, <1>5 DEF RegisterResource, UsersUnchanged
  <2>2. TableOK' /\ Entered' = Entered
    BY <2>1 DEF TableOK, Entered
  <2>3. /\ roots \in Seq(Tops) /\ roots \in Seq(Visits)
        /\ FileWritten(file) = Entered \cup WrittenBy(Items(<<>>) \cup Items(roots))
        /\ AllFormed(file) <=> AllOK(Items(<<>>) \cup Items(roots))
        /\ AllLead(file) <=> \A w \in Items(roots) : Leads(w)
    BY <1>1, <1>5, LoadingTypes DEF Loading
  <2>4. roots = <<>> \o (<<>> \o roots) /\ <<>> \in Seq(Inner)
    BY <2>3, ConcatEmptySeq
  <2>5. todo' = <<>> \o (<<>> \o roots)
    BY <2>1, <2>4, Zenon
  <2>6. Loading(<<>>, <<>>, roots)'
    BY <2>1, <2>2, <2>3, <2>4, <2>5, Zenon DEF Loading
  <2> QED
    BY <2>2, <2>6, <1>5 DEF Goes
<1> QED
  BY <1>4, <1>5

(* A visit that throws is one the file is not well-formed for. *)
LEMMA ThrowsRightly ==
    ASSUME NEW body, NEW res, NEW roots, Loading(body, res, roots), todo # <<>>,
           \/ Head(todo).kind = "app" /\ ~PropertyOK(Head(todo).what)
           \/ Head(todo).kind = "provider" /\ ~ProviderOK(Head(todo).what)
    PROVE  ~AllFormed(file)
<1> DEFINE v == Head(todo)
<1>1. /\ v \in Items(body) \cup Items(roots)
      /\ v.kind = "app" => Place(v) \in Places
  <2>1. CASE body # <<>>
    <3>1. v = Head(body)
      BY <2>1, NextInBody
    <3>2. Head(body) \in Items(body) /\ Head(body) \in Inner
      BY <2>1, NextInBody
    <3> QED
      BY <3>1, <3>2 DEF Inner
  <2>2. CASE body = <<>> /\ res # <<>>
    BY <2>2, NextIsEnd
  <2>3. CASE res = <<>>
    BY <2>3, NextInRoots DEF Tops
  <2> QED
    BY <2>1, <2>2, <2>3
<1>2. ~VisitOK(v)
  <2>1. CASE v.kind = "app"
    BY <2>1, <1>1, BadProperty
  <2>2. CASE v.kind # "app"
    BY <2>2 DEF VisitOK
  <2> QED
    BY <2>1, <2>2
<1> QED
  BY <1>1, <1>2 DEF Loading, AllOK

(* Nothing is left to visit. *)
LEMMA ReadyRightly ==
    ASSUME NEW body, NEW res, NEW roots, Loading(body, res, roots), TableOK, file \in Files,
           todo = <<>>
    PROVE  FileOK(file) /\ Kept(FileWritten(file)) /\ FileWritten(file) \subseteq Paths
<1>1. body = <<>> /\ res = <<>>
  BY NextInBody, NextIsEnd
<1>2. roots = <<>>
  BY <1>1, NextInRoots
<1>3. Items(body) \cup Items(roots) = {}
  BY <1>1, <1>2, ItemsOfEmpty
<1>4. FileWritten(file) = Entered
  BY <1>3 DEF Loading, WrittenBy
<1>5. AllFormed(file) /\ AllLead(file)
  BY <1>1, <1>3 DEF Loading, AllOK
<1>6. Kept(Entered)
  BY DEF Kept, TableOK, Entered
<1> QED
  BY <1>4, <1>5, <1>6, FileOKIs DEF Entered

LEMMA BeginsLoading == ASSUME TableInit PROVE Goes
<1>1. IsSequence(file) /\ \A i \in DOMAIN file : Top(file[i]) \in Places
  BY FilesAssumption DEF TableInit
<1> DEFINE n == Len(file)
<1>2. n \in Nat /\ DOMAIN file = 1 .. n
  BY <1>1 DEF IsSequence
<1>3. todo = [i \in 1 .. n |-> Visit("app", file[i], <<>>, TRUE)]
  BY <1>2 DEF TableInit
<1> HIDE DEF n
<1>4. \A i \in 1 .. n : todo[i] \in Tops /\ Place(todo[i]) = Top(file[i])
  <2> SUFFICES ASSUME NEW i \in 1 .. n
               PROVE  todo[i] \in Tops /\ Place(todo[i]) = Top(file[i])
    OBVIOUS
  <2>1. todo[i] = [kind |-> "app", what |-> file[i], app |-> <<>>, own |-> TRUE]
    BY <1>3 DEF Visit
  <2>2. Place(todo[i]) = Top(file[i]) /\ Top(file[i]) \in Places
    BY <2>1, <1>1, <1>2 DEF Place, Top
  <2>3. file[i] = Top(file[i])[1]
    BY DEF Top
  <2>4. file[i] \in Things
    BY <2>2, <2>3 DEF Things
  <2>5. todo[i] \in Visits
    BY <2>1, <2>4 DEF Visits
  <2> QED
    BY <2>1, <2>2, <2>5 DEF Tops
<1>5. todo \in Seq(Tops) /\ DOMAIN todo = 1 .. n
  <2>1. todo \in [1 .. n -> Tops]
    BY <1>3, <1>4
  <2> QED
    BY <2>1, <1>2, FunctionIsSeq
<1>6. Items(todo) = {todo[i] : i \in 1 .. n}
  BY <1>5 DEF Items
<1>7. \A i \in 1 .. n : todo[i].kind = "app" /\ todo[i].own
  BY <1>4 DEF Tops
<1>8. FileWritten(file) = WrittenBy(Items(todo))
  BY <1>2, <1>4, <1>6, <1>7 DEF FileWritten, WrittenBy, VisitWritten
<1>9. AllFormed(file) <=> AllOK(Items(todo))
  BY <1>2, <1>4, <1>6, <1>7 DEF AllFormed, AllOK, VisitOK
<1>10. AllLead(file) <=> \A v \in Items(todo) : Leads(v)
  BY <1>2, <1>4, <1>6, <1>7 DEF AllLead, Leads
<1>11. Entered = {} /\ TableOK /\ ~hasSelf
  BY DEF TableInit, TableOK, Entered
<1>12. PICK R : R = todo
  OBVIOUS
<1>13. todo = <<>> \o (<<>> \o R) /\ R \in Seq(Tops) /\ <<>> \in Seq(Inner)
  BY <1>5, <1>12, ConcatEmptySeq
<1>14. Items(<<>>) \cup Items(R) = Items(todo)
  BY <1>12, ItemsOfEmpty
<1>15. Loading(<<>>, <<>>, R)
  BY <1>8, <1>9, <1>10, <1>11, <1>12, <1>13, <1>14, Zenon DEF Loading
<1> QED
  BY <1>11, <1>15 DEF Goes

-----------------------------------------------------------------------------
(* The threads of the providers.  S stands for the alias objects of the      *)
(* file: no caller is about to clear their app or to append one of them to   *)
(* it again.                                                                 *)
CallerOK(t, S) ==
    /\ pc[t] # "ready" => arg[t] \in (IF t \in Mine THEN {t} ELSE Peers) /\ inApp[t] \in Apps
    /\ pc[t] = "connect" => t \in Threads
    /\ pc[t] = "space" => \A x \in S : AppOf[x] # inApp[t]
    /\ pc[t] = "append" => ~(arg[t] \in S /\ AppOf[arg[t]] = inApp[t])

Running(S) ==
    /\ S \subseteq Paths
    /\ TypeOK /\ KeyHasEntry /\ ListedOnce /\ Kept(S)
    /\ \A x \in Peers : pathOf[x] \in Peers
    /\ \A t \in Callers : CallerOK(t, S)

(* Steps that leave the table of connections alone. *)
LEMMA AliasStepInv ==
    ASSUME NEW S, Running(S), TypeOK', UNCHANGED <<pathOf, peerVars>>, Kept(S)',
           \A t \in Callers : CallerOK(t, S)'
    PROVE  Running(S)'
BY DEF Running, KeyHasEntry, ListedOnce, peerVars

LEMMA FileApps ==
    ASSUME NEW S, Running(S)
    PROVE  \A x \in S : x \in Paths /\ pvds[AppOf[x]][x] = 1 /\ AppOf[x] \in spaces
BY DEF Running, Kept, Paths

LEMMA CallerArg ==
    ASSUME NEW S, Running(S), NEW t \in Callers, pc[t] # "ready"
    PROVE  arg[t] \in Paths /\ inApp[t] \in Apps
<1>1. arg[t] \in (IF t \in Mine THEN {t} ELSE Peers) /\ inApp[t] \in Apps
  BY DEF Running, CallerOK
<1> QED
  BY <1>1 DEF Paths

LEMMA FindSpaceInv ==
    ASSUME NEW S, Running(S), NEW t \in Callers, NEW x \in Paths, FindSpace(t, x),
           x \in (IF t \in Mine THEN {t} ELSE Peers)
    PROVE  Running(S)'
<1>0. pathOf[x] \in Paths /\ AppOf[pathOf[x]] \in Apps
  BY DEF Running, TypeOK
<1>1. TypeOK'
  BY <1>0 DEF FindSpace, Running, TypeOK, aliasVars, peerVars
<1>2. \A u \in Callers : CallerOK(u, S)'
  <2>1. /\ inApp'[t] = AppOf[pathOf[x]] /\ arg'[t] = x
        /\ pc'[t] = IF AppOf[pathOf[x]] \in spaces THEN "search" ELSE "space"
    BY DEF FindSpace, Running, TypeOK
  <2>2. pc'[t] = "space" => \A y \in S : AppOf[y] # inApp'[t]
    BY <2>1, FileApps
  <2>3. CallerOK(t, S)'
    BY <2>1, <2>2, <1>0 DEF CallerOK
  <2>4. ASSUME NEW u \in Callers, u # t
        PROVE  CallerOK(u, S)'
    <3>1. pc'[u] = pc[u] /\ arg'[u] = arg[u] /\ inApp'[u] = inApp[u]
      BY <2>4 DEF FindSpace, Running, TypeOK
    <3> QED
      BY <3>1 DEF Running, CallerOK
  <2> QED
    BY <2>3, <2>4
<1>3. Kept(S)'
  BY DEF FindSpace, Running, Kept, aliasVars
<1> QED
  BY <1>1, <1>2, <1>3, AliasStepInv DEF FindSpace, aliasVars

LEMMA ClearSpaceInv ==
    ASSUME NEW S, Running(S), NEW t \in Callers, ClearSpace(t)
    PROVE  Running(S)'
<1>1. inApp[t] \in Apps
  BY CallerArg DEF ClearSpace
<1>2. TypeOK'
  BY <1>1 DEF ClearSpace, Running, TypeOK, Goto, callVars, peerVars
<1>3. \A u \in Callers : CallerOK(u, S)'
  BY DEF ClearSpace, Running, TypeOK, CallerOK, Goto, callVars
<1>4. Kept(S)'
  <2>1. \A x \in S : AppOf[x] # inApp[t] /\ AppOf[x] \in Apps
    BY FileApps DEF ClearSpace, Running, CallerOK
  <2>2. \A x \in S : pvds'[AppOf[x]] = pvds[AppOf[x]]
    BY <2>1 DEF ClearSpace, Running, TypeOK
  <2> QED
    BY <2>2, FileApps DEF ClearSpace, Kept
<1> QED
  BY <1>2, <1>3, <1>4, AliasStepInv DEF ClearSpace

(* Registered, and every step that ends in it or in "append". *)
LEMMA RegisteredInv ==
    ASSUME NEW S, Running(S), NEW t \in Callers, pc[t] # "ready",
           \/ Registered(t)
           \/ /\ Goto(t, "append") /\ UNCHANGED made
              /\ ~(arg[t] \in S /\ AppOf[arg[t]] = inApp[t]),
           spaces' \subseteq Apps, pvds' \in [Apps -> [Paths -> Nat]], Kept(S)',
           UNCHANGED <<pathOf, peerVars>>
    PROVE  Running(S)'
<1>1. TypeOK'
  BY DEF Registered, Running, TypeOK, Goto, Return, callVars, peerVars
<1>2. \A u \in Callers : CallerOK(u, S)'
  BY DEF Registered, Running, TypeOK, CallerOK, Goto, Return, callVars, Callers
<1> QED
  BY <1>1, <1>2, AliasStepInv

LEMMA SearchPvdInv ==
    ASSUME NEW S, Running(S), NEW t \in Callers, SearchPvd(t)
    PROVE  Running(S)'
<1>1. Kept(S)'
  BY DEF SearchPvd, aliasVars, Running, Kept
<1>2. ~IsTherePvd(inApp[t], arg[t]) => ~(arg[t] \in S /\ AppOf[arg[t]] = inApp[t])
  BY FileApps DEF IsTherePvd
<1> QED
  BY <1>1, <1>2, RegisteredInv DEF SearchPvd, aliasVars, Running, TypeOK

LEMMA AppendPvdContextInv ==
    ASSUME NEW S, Running(S), NEW t \in Callers, AppendPvdContext(t)
    PROVE  Running(S)'
<1>1. arg[t] \in Paths /\ inApp[t] \in Apps
  BY CallerArg DEF AppendPvdContext
<1>2. /\ pvds' \in [Apps -> [Paths -> Nat]]
      /\ \A a \in Apps, x \in Paths :
            ~(a = inApp[t] /\ x = arg[t]) => pvds'[a][x] = pvds[a][x]
  BY <1>1 DEF AppendPvdContext, Running, TypeOK
<1>3. Kept(S)'
  <2>1. \A x \in S : ~(AppOf[x] = inApp[t] /\ x = arg[t])
    BY DEF AppendPvdContext, Running, CallerOK
  <2>2. \A x \in S : x \in Paths /\ AppOf[x] \in Apps
    BY FileApps
  <2> QED
    BY <1>2, <2>1, <2>2, FileApps DEF AppendPvdContext, Kept
<1> QED
  BY <1>2, <1>3, RegisteredInv DEF AppendPvdContext, Running, TypeOK

LEMMA ConnectPeerInv ==
    ASSUME NEW S, Running(S), NEW t \in Threads, ConnectPeer(t)
    PROVE  Running(S)'
<1> DEFINE p == pathOf[arg[t]]
           m == Owner[t]
<1>1. p \in Peers /\ m \in Mine /\ t \in Callers
  BY DEF ConnectPeer, Running, CallerOK, Callers
<1>2. /\ listed' \in [Peers -> [Mine -> Nat]]
      /\ listed'[p][m] = 1
      /\ \A q \in Peers, n \in Mine :
            ~(q = p /\ n = m) => listed'[q][n] = listed[q][n]
  <2>1. CASE listed[p][m] > 0
    <3>1. listed[p][m] = 1
      BY <2>1, <1>1 DEF Running, ListedOnce, TypeOK
    <3> QED
      BY <2>1, <3>1 DEF ConnectPeer, Running, TypeOK
  <2>2. CASE ~(listed[p][m] > 0)
    BY <2>2, <1>1 DEF ConnectPeer, Running, TypeOK
  <2> QED
    BY <2>1, <2>2
<1>3. keys' = keys \cup {p}
  BY DEF ConnectPeer
<1>4. TypeOK'
  BY <1>1, <1>2, <1>3 DEF ConnectPeer, Running, TypeOK, Return, aliasVars
<1>5. ListedOnce'
  BY <1>1, <1>2 DEF Running, ListedOnce
<1>6. KeyHasEntry'
  <2> SUFFICES ASSUME NEW q \in Peers
               PROVE  q \in keys' <=> \E n \in Mine : listed'[q][n] > 0
    BY DEF KeyHasEntry
  <2>1. CASE q = p
    BY <2>1, <1>1, <1>2, <1>3
  <2>2. CASE q # p
    BY <2>2, <1>2, <1>3 DEF Running, KeyHasEntry
  <2> QED
    BY <2>1, <2>2
<1>7. \A u \in Callers : CallerOK(u, S)'
  BY DEF ConnectPeer, Running, TypeOK, CallerOK, Return
<1>8. Kept(S)' /\ pathOf' = pathOf
  BY DEF ConnectPeer, Running, Kept, aliasVars
<1> QED
  BY <1>4, <1>5, <1>6, <1>7, <1>8 DEF Running

(* Taking one entry of m off p's list: the one there was, and no other. *)
LEMMA ErasedOne ==
    ASSUME NEW S, Running(S), NEW p \in Peers, NEW m \in Mine, listed' = Erased(p, m)
    PROVE  /\ listed' \in [Peers -> [Mine -> Nat]]
           /\ listed'[p][m] = 0
           /\ \A q \in Peers, n \in Mine :
                 ~(q = p /\ n = m) => listed'[q][n] = listed[q][n]
<1>1. CASE listed[p][m] > 0
  <2>1. listed[p][m] = 1
    BY <1>1 DEF Running, TypeOK, ListedOnce
  <2> QED
    BY <1>1, <2>1 DEF Erased, Running, TypeOK
<1>2. CASE ~(listed[p][m] > 0)
  BY <1>2 DEF Erased, Running, TypeOK
<1> QED
  BY <1>1, <1>2

LEMMA UnregistConnectedPeerInv ==
    ASSUME NEW S, Running(S), NEW t \in Threads, NEW p \in Peers, UnregistConnectedPeer(t, p)
    PROVE  Running(S)'
<1> DEFINE m == Owner[t]
<1>1. m \in Mine
  OBVIOUS
<1>2. /\ listed' \in [Peers -> [Mine -> Nat]]
      /\ listed'[p][m] = 0
      /\ \A q \in Peers, n \in Mine :
            ~(q = p /\ n = m) => listed'[q][n] = listed[q][n]
  BY <1>1, ErasedOne DEF UnregistConnectedPeer
<1>3. keys' \subseteq keys
  BY DEF UnregistConnectedPeer
<1>4. TypeOK'
  BY <1>2, <1>3 DEF UnregistConnectedPeer, Running, TypeOK, aliasVars, callVars
<1>5. ListedOnce'
  <2> SUFFICES ASSUME NEW q \in Peers, NEW n \in Mine
               PROVE  listed'[q][n] <= 1
    BY DEF ListedOnce
  <2>1. CASE q = p /\ n = m
    BY <2>1, <1>2
  <2>2. CASE ~(q = p /\ n = m)
    BY <2>2, <1>2 DEF Running, ListedOnce
  <2> QED
    BY <2>1, <2>2
<1>6. KeyHasEntry'
  <2> SUFFICES ASSUME NEW q \in Peers
               PROVE  q \in keys' <=> \E n \in Mine : listed'[q][n] > 0
    BY DEF KeyHasEntry
  <2>1. CASE q = p
    <3>1. (\A n \in Mine : listed'[q][n] = 0) <=> ~ \E n \in Mine : listed'[q][n] > 0
      BY <1>2
    <3> QED
      BY <2>1, <3>1 DEF UnregistConnectedPeer
  <2>2. CASE q # p
    <3>1. q \in keys' <=> q \in keys
      BY <2>2 DEF UnregistConnectedPeer
    <3> QED
      BY <2>2, <3>1, <1>2 DEF Running, KeyHasEntry
  <2> QED
    BY <2>1, <2>2
<1>7. \A u \in Callers : CallerOK(u, S)'
  BY DEF UnregistConnectedPeer, Running, CallerOK, callVars
<1>8. Kept(S)' /\ pathOf' = pathOf
  BY DEF UnregistConnectedPeer, Running, Kept, aliasVars
<1> QED
  BY <1>4, <1>5, <1>6, <1>7, <1>8 DEF Running

LEMMA RenameInv ==
    ASSUME NEW S, Running(S), NEW t \in Threads, NEW x \in Peers, NEW name \in Peers,
           Rename(t, x, name)
    PROVE  Running(S)'
<1>1. x \in Paths /\ name \in Paths
  BY DEF Paths
<1>2. TypeOK' /\ \A y \in Peers : pathOf'[y] \in Peers
  BY <1>1 DEF Rename, Running, TypeOK, peerVars, callVars
<1>3. \A u \in Callers : CallerOK(u, S)'
  BY DEF Rename, Running, CallerOK, callVars
<1>4. KeyHasEntry' /\ ListedOnce' /\ Kept(S)'
  BY DEF Rename, Running, KeyHasEntry, ListedOnce, Kept, peerVars
<1> QED
  BY <1>2, <1>3, <1>4 DEF Running

LEMMA RunningStep ==
    ASSUME NEW S, Running(S), [Next]_vars
    PROVE  Running(S)'
<1>1. ASSUME NEW m \in Mine, RegistSelf(m) PROVE Running(S)'
  BY <1>1, FindSpaceInv DEF RegistSelf, Callers, Paths
<1>2. ASSUME NEW t \in Callers, ClearSpace(t) PROVE Running(S)'
  BY <1>2, ClearSpaceInv
<1>3. ASSUME NEW t \in Callers, SearchPvd(t) PROVE Running(S)'
  BY <1>3, SearchPvdInv
<1>4. ASSUME NEW t \in Callers, AppendPvdContext(t) PROVE Running(S)'
  BY <1>4, AppendPvdContextInv
<1>5. ASSUME NEW t \in Threads, ConnectPeer(t) PROVE Running(S)'
  BY <1>5, ConnectPeerInv
<1>6. ASSUME NEW t \in Threads, NEW p \in Peers, RegistConnectedPeer(t, p) PROVE Running(S)'
  BY <1>6, FindSpaceInv DEF RegistConnectedPeer, Callers, Paths
<1>7. ASSUME NEW t \in Threads, NEW p \in Peers, UnregistConnectedPeer(t, p) PROVE Running(S)'
  BY <1>7, UnregistConnectedPeerInv
<1>8. ASSUME NEW t \in Threads, NEW x \in Peers \ Mine, NEW name \in Peers, Rename(t, x, name)
      PROVE  Running(S)'
  BY <1>8, RenameInv
<1>9. CASE UNCHANGED vars
  BY <1>9 DEF vars, aliasVars, peerVars, callVars, Running, TypeOK, KeyHasEntry, ListedOnce,
              Kept, CallerOK
<1> QED
  BY <1>1, <1>2, <1>3, <1>4, <1>5, <1>6, <1>7, <1>8, <1>9 DEF Next

-----------------------------------------------------------------------------
(* The refinement. *)

(* Every step that leaves _mm_connected_peers_ alone. *)
LEMMA AnsweredSame ==
    ASSUME UNCHANGED peerVars
    PROVE  Answered' = Answered
BY DEF Answered, peerVars

LEMMA ConnectPeerRefines ==
    ASSUME NEW S, Running(S), NEW t \in Threads, ConnectPeer(t)
    PROVE  C!Next
<1> DEFINE p == pathOf[arg[t]]
           m == Owner[t]
<1>1. p \in Peers /\ m \in Mine
  BY DEF ConnectPeer, Running, CallerOK, Callers
<1>2. /\ listed'[p][m] > 0
      /\ \A q \in Peers, n \in Mine :
            ~(q = p /\ n = m) => listed'[q][n] = listed[q][n]
  BY <1>1 DEF ConnectPeer, Running, TypeOK
<1>3. keys' = keys \cup {p}
  BY DEF ConnectPeer
<1>4. \A n \in Mine : p \notin keys => ~(listed[p][n] > 0)
  BY <1>1 DEF Running, KeyHasEntry
<1>5. Answered' = Answered \cup {<<p, m>>}
  BY <1>1, <1>2, <1>3, <1>4 DEF Answered
<1> QED
  BY <1>1, <1>5 DEF C!Next, C!Connect

LEMMA UnregistConnectedPeerRefines ==
    ASSUME NEW S, Running(S), NEW t \in Threads, NEW p \in Peers, UnregistConnectedPeer(t, p)
    PROVE  C!Next
<1> DEFINE m == Owner[t]
<1>1. m \in Mine
  OBVIOUS
<1>2. /\ listed'[p][m] = 0
      /\ \A q \in Peers, n \in Mine :
            ~(q = p /\ n = m) => listed'[q][n] = listed[q][n]
  BY <1>1, ErasedOne DEF UnregistConnectedPeer
<1>3. \A q \in Peers : q # p => (q \in keys' <=> q \in keys)
  BY DEF UnregistConnectedPeer
<1>4. \A n \in Mine : listed'[p][n] > 0 => p \in keys'
  BY DEF UnregistConnectedPeer
<1>5. p \in keys
  BY DEF UnregistConnectedPeer
<1>6. Answered' = Answered \ {<<p, m>>}
  BY <1>1, <1>2, <1>3, <1>4, <1>5 DEF Answered
<1> QED
  BY <1>1, <1>6 DEF C!Next, C!Disconnect

LEMMA RunningRefines ==
    ASSUME NEW S, Running(S), [Next]_vars
    PROVE  C!Next \/ Answered' = Answered
<1>1. ASSUME NEW m \in Mine, RegistSelf(m) PROVE Answered' = Answered
  BY <1>1, AnsweredSame DEF RegistSelf, FindSpace
<1>2. ASSUME NEW t \in Callers, ClearSpace(t) \/ SearchPvd(t) \/ AppendPvdContext(t)
      PROVE  Answered' = Answered
  BY <1>2, AnsweredSame DEF ClearSpace, SearchPvd, AppendPvdContext
<1>3. ASSUME NEW t \in Threads, ConnectPeer(t) PROVE C!Next
  BY <1>3, ConnectPeerRefines
<1>4. ASSUME NEW t \in Threads, NEW p \in Peers, RegistConnectedPeer(t, p)
      PROVE  Answered' = Answered
  BY <1>4, AnsweredSame DEF RegistConnectedPeer, FindSpace
<1>5. ASSUME NEW t \in Threads, NEW p \in Peers, UnregistConnectedPeer(t, p) PROVE C!Next
  BY <1>5, UnregistConnectedPeerRefines
<1>6. ASSUME NEW t \in Threads, NEW x, NEW name, Rename(t, x, name)
      PROVE  Answered' = Answered
  BY <1>6, AnsweredSame DEF Rename
<1>7. ASSUME UNCHANGED vars PROVE Answered' = Answered
  BY <1>7, AnsweredSame DEF vars, peerVars
<1> QED
  BY <1>1, <1>2, <1>3, <1>4, <1>5, <1>6, <1>7 DEF Next

-----------------------------------------------------------------------------
(* The whole. *)

(* The constructor is at work. *)
LoadInv == load = "loading" /\ Fresh /\ Goes

(* It has failed, and rightly so. *)
FailedInv == load \in {"thrown", "aborted"} /\ Fresh /\ TableOK /\ ~FileOK(file)

(* It has returned. *)
ReadyInv == load = "ready" /\ FileOK(file) /\ Running(FileWritten(file))

TableInv == file \in Files /\ (LoadInv \/ FailedInv \/ ReadyInv)

LEMMA FreshOK ==
    ASSUME Fresh, TableOK
    PROVE  /\ TypeOK /\ KeyHasEntry /\ ListedOnce
           /\ \A S : Kept(S) /\ S \subseteq Paths => Running(S)
<1>1. TypeOK
  BY DEF Fresh, TableOK, TypeOK
<1>2. KeyHasEntry /\ ListedOnce
  BY DEF Fresh, KeyHasEntry, ListedOnce
<1>3. \A S : \A t \in Callers : CallerOK(t, S)
  BY DEF Fresh, CallerOK
<1>4. \A x \in Peers : pathOf[x] \in Peers
  BY DEF TableOK, Paths
<1> QED
  BY <1>1, <1>2, <1>3, <1>4 DEF Running

LEMMA InitInv == TableInit => TableInv
BY BeginsLoading DEF TableInit, TableInv, LoadInv, Fresh

LEMMA FreshStays == ASSUME Fresh, UsersUnchanged PROVE Fresh' /\ UNCHANGED <<file, pathOf>>
BY DEF Fresh, UsersUnchanged, peerVars, callVars

LEMMA FailsInv ==
    ASSUME TableInv, LoadInv, UsersUnchanged, load' \in {"thrown", "aborted"},
           UNCHANGED <<spaces, pvds>>, ~FileOK(file)
    PROVE  TableInv'
<1>1. Fresh' /\ file' = file /\ pathOf' = pathOf
  BY FreshStays DEF LoadInv
<1>2. TableOK'
  BY <1>1 DEF LoadInv, Goes, TableOK, Entered
<1>3. ~FileOK(file)'
  BY <1>1
<1> QED
  BY <1>1, <1>2, <1>3 DEF TableInv, FailedInv

LEMMA LoadStep ==
    ASSUME TableInv, Load
    PROVE  TableInv'
<1>1. load = "loading" /\ LoadInv /\ file \in Files
  BY DEF Load, TableInv, FailedInv, ReadyInv
<1>2. PICK body, res, roots : Loading(body, res, roots)
  BY <1>1 DEF LoadInv, Goes
<1>3. TableOK
  BY <1>1 DEF LoadInv, Goes
<1>4. ASSUME UsersUnchanged, load' = load, Goes' PROVE TableInv'
  BY <1>1, <1>4, FreshStays DEF TableInv, LoadInv
<1>5. CASE Ready
  <2>1. todo = <<>> /\ UsersUnchanged /\ load' = "ready" /\ UNCHANGED <<spaces, pvds>>
    BY <1>5 DEF Ready
  <2>2. FileOK(file) /\ Kept(FileWritten(file)) /\ FileWritten(file) \subseteq Paths
    BY <2>1, <1>1, <1>2, <1>3, ReadyRightly
  <2>3. Fresh' /\ file' = file /\ pathOf' = pathOf
    BY <2>1, <1>1, FreshStays DEF LoadInv
  <2>4. TableOK'
    BY <2>1, <2>3, <1>3 DEF TableOK, Entered
  <2>5. Kept(FileWritten(file))'
    BY <2>1, <2>2, <2>3 DEF Kept
  <2>6. (FileWritten(file) \subseteq Paths)' /\ FileOK(file)'
    BY <2>2, <2>3
  <2>7. Running(FileWritten(file))'
    <3>1. TypeOK'
      BY <2>3, <2>4 DEF Fresh, TableOK, TypeOK
    <3>2. KeyHasEntry' /\ ListedOnce'
      BY <2>3 DEF Fresh, KeyHasEntry, ListedOnce
    <3>3. \A t \in Callers : CallerOK(t, FileWritten(file))'
      BY <2>3 DEF Fresh, CallerOK
    <3>4. \A x \in Peers : pathOf'[x] \in Peers
      BY <2>4 DEF TableOK, Paths
    <3> QED
      BY <3>1, <3>2, <3>3, <3>4, <2>5, <2>6 DEF Running
  <2> QED
    BY <1>1, <2>1, <2>3, <2>6, <2>7 DEF TableInv, ReadyInv
<1>6. CASE todo # <<>> /\ LoadApp
  <2>1. CASE PropertyOK(Head(todo).what)
    BY <2>1, <1>2, <1>3, <1>4, <1>6, LoadAppGoes DEF LoadApp
  <2>2. CASE ~PropertyOK(Head(todo).what)
    BY <2>2, <1>1, <1>2, <1>6, ThrowsRightly, FileOKIs, FailsInv DEF LoadApp, Throw
  <2> QED
    BY <2>1, <2>2
<1>7. CASE todo # <<>> /\ LoadProvider
  <2>1. CASE ProviderOK(Head(todo).what)
    BY <2>1, <1>1, <1>2, <1>3, <1>4, <1>7, LoadProviderGoes DEF LoadProvider
  <2>2. CASE ~ProviderOK(Head(todo).what)
    BY <2>2, <1>1, <1>2, <1>7, ThrowsRightly, FileOKIs, FailsInv DEF LoadProvider, Throw
  <2> QED
    BY <2>1, <2>2
<1>8. CASE todo # <<>> /\ FoundSelf
  BY <1>2, <1>3, <1>4, <1>8, FoundSelfGoes DEF FoundSelf
<1>9. CASE todo # <<>> /\ RegisterResource
  <2>1. CASE hasSelf
    BY <2>1, <1>2, <1>3, <1>4, <1>9, RegisterResourceGoes DEF RegisterResource
  <2>2. CASE ~hasSelf
    BY <2>2, <1>1, <1>2, <1>3, <1>9, RegisterResourceGoes, FileOKIs, FailsInv DEF RegisterResource
  <2> QED
    BY <2>1, <2>2
<1> QED
  BY <1>5, <1>6, <1>7, <1>8, <1>9 DEF Load

LEMMA StepInv == TableInv /\ [TableNext]_tableVars => TableInv'
<1> SUFFICES ASSUME TableInv, [TableNext]_tableVars
             PROVE  TableInv'
  OBVIOUS
<1>1. CASE Load
  BY <1>1, LoadStep
<1>2. CASE load = "ready" /\ Next /\ UNCHANGED fileVars
  <2>1. file' = file /\ load' = load
    BY <1>2 DEF fileVars
  <2>2. ReadyInv
    BY <1>2 DEF TableInv, LoadInv, FailedInv
  <2>3. PICK F : F = FileWritten(file)
    OBVIOUS
  <2>4. Running(F)'
    BY <1>2, <2>2, <2>3, RunningStep DEF ReadyInv
  <2>5. F = FileWritten(file)'
    BY <2>1, <2>3
  <2>6. Running(FileWritten(file))'
    BY <2>4, <2>5
  <2>7. FileOK(file)'
    BY <2>1, <2>2 DEF ReadyInv
  <2> QED
    BY <1>2, <2>1, <2>6, <2>7 DEF TableInv, ReadyInv
<1>3. CASE UNCHANGED tableVars
  <2>1. /\ UNCHANGED <<file, todo, hasSelf, load>>
        /\ UNCHANGED <<spaces, pvds, pathOf, made, keys, listed, pc, arg, inApp>>
    BY <1>3 DEF tableVars, fileVars, vars, aliasVars, peerVars, callVars
  <2>2. TypeOK' = TypeOK /\ KeyHasEntry' = KeyHasEntry /\ ListedOnce' = ListedOnce
    BY <2>1 DEF TypeOK, KeyHasEntry, ListedOnce
  <2>3. Running(FileWritten(file))' = Running(FileWritten(file))
    BY <2>1 DEF Running, Kept, CallerOK, TypeOK, KeyHasEntry, ListedOnce
  <2>4. Fresh' = Fresh /\ TableOK' = TableOK /\ FileOK(file)' = FileOK(file)
    BY <2>1 DEF Fresh, TableOK, Entered
  <2>5. ASSUME Goes PROVE Goes'
    <3>1. PICK body, res, roots : Loading(body, res, roots)
      BY <2>5 DEF Goes
    <3>2. Loading(body, res, roots)'
      BY <3>1, <2>1 DEF Loading, Entered
    <3> QED
      BY <3>2, <2>4, <2>5 DEF Goes
  <2> QED
    BY <2>1, <2>3, <2>4, <2>5 DEF TableInv, LoadInv, FailedInv, ReadyInv
<1> QED
  BY <1>1, <1>2, <1>3 DEF TableNext

LEMMA InvAlways == TableSpec => []TableInv
BY InitInv, StepInv, PTL DEF TableSpec

(* In every phase the table is of its type, and so on. *)
LEMMA InvParts ==
    ASSUME TableInv
    PROVE  TypeOK /\ KeyHasEntry /\ ListedOnce /\ LoadedWhole /\ ConfiguredStays
<1>1. CASE LoadInv
  BY <1>1, FreshOK DEF LoadInv, Goes, LoadedWhole, ConfiguredStays
<1>2. CASE FailedInv
  BY <1>2, FreshOK DEF FailedInv, LoadedWhole, ConfiguredStays
<1>3. CASE ReadyInv
  BY <1>3 DEF ReadyInv, Running, LoadedWhole, ConfiguredStays
<1> QED
  BY <1>1, <1>2, <1>3 DEF TableInv

(* Every variable of the table keeps its type; the counters never go below   *)
(* zero.                                                                     *)
THEOREM TypeCorrect == TableSpec => []TypeOK
BY InvAlways, InvParts, PTL

(* A key of _mm_connected_peers_ always stands for a list with an entry, so  *)
(* "Peer is not exist" and an empty answer never differ.                     *)
THEOREM KeysHaveEntries == TableSpec => []KeyHasEntry
BY InvAlways, InvParts, PTL

(* A provider is listed at most once for a peer: one                         *)
(* unregist_connected_peer undoes any number of regist_connected_peer.       *)
THEOREM NeverListedTwice == TableSpec => []ListedOnce
BY InvAlways, InvParts, PTL

(* Whatever the order of the visits and the depth of the apps, the           *)
(* constructor returns for the well-formed files whose resources name an app *)
(* of their own, and for no other.                                           *)
THEOREM FilesLoadWhole == TableSpec => []LoadedWhole
BY InvAlways, InvParts, PTL

(* The alias object of a provider of the file is in the list of its app      *)
(* exactly once for ever: no race between the unlocked find, clear and       *)
(* push_back of append_pvd_context loses or doubles one, even while changes  *)
(* of name give other paths to the objects.  (An alias the file does not     *)
(* name may be lost, and one that has been renamed is found no more under    *)
(* the file's path.)                                                         *)
THEOREM ConfiguredAliasesStay == TableSpec => []ConfiguredStays
BY InvAlways, InvParts, PTL

LEMMA RefinesInit == TableInit => C!Init
BY DEF TableInit, C!Init, Answered

LEMMA RefinesStep == TableInv /\ [TableNext]_tableVars => [C!Next]_Answered
<1> SUFFICES ASSUME TableInv, [TableNext]_tableVars
             PROVE  C!Next \/ Answered' = Answered
  OBVIOUS
<1>1. CASE Load
  <2>1. UNCHANGED peerVars
    BY <1>1 DEF Load, Ready, LoadApp, LoadProvider, FoundSelf, RegisterResource, UsersUnchanged
  <2> QED
    BY <2>1, AnsweredSame
<1>2. CASE load = "ready" /\ Next
  <2>1. ReadyInv
    BY <1>2 DEF TableInv, LoadInv, FailedInv
  <2> QED
    BY <2>1, <1>2, RunningRefines DEF ReadyInv
<1>3. CASE UNCHANGED tableVars
  BY <1>3, AnsweredSame DEF tableVars, vars, peerVars
<1> QED
  BY <1>1, <1>2, <1>3 DEF TableNext

(* The table the communicators share behaves as one relation between peers   *)
(* and providers, every call an atomic change of one pair.                   *)
THEOREM PeersImplementConnections == TableSpec => ImplementsConnections
BY RefinesInit, RefinesStep, InvAlways, PTL DEF TableSpec, ImplementsConnections, C!Spec
===============================================================================
