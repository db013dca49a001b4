------------------------------ MODULE AliasTable ------------------------------
(***************************************************************************)
(* CConfigAliases as a whole: the constructor fills the table from the     *)
(* alias file (init, append_rsc_alias, make_app_alias, append_pvd_alias),  *)
(* then the threads of the providers change it as in ConnectedPeers.       *)
(*                                                                         *)
(* A file is the sequence of its resources, in the order of the JSON       *)
(* members; names may occur twice.  make_app_alias calls itself; what its  *)
(* loops have yet to visit is the sequence todo, nearest first.  Numbers,  *)
(* addresses and the other values of a provider are left out, and so is    *)
(* _mm_rscs_, which nothing reads.                                         *)
(*   resource, app   [name, type, self, where, list]                       *)
(*   provider        [name, type, keys, functions]                         *)
(*   function        [list, name, id]                                      *)
(* A path is [app, name, type], app being the sequence of names from the   *)
(* resource on: a list of _mm_pvds_map_ belongs to an app and a type.      *)
(***************************************************************************)
EXTENDS ConnectedPeers, Sequences

CONSTANTS Files,      \* contents of the alias file
          Places,     \* every app of these files, with the path it is written at
          MaxDepth    \* how deep these apps are nested at most

VARIABLES
    file,     \* the alias file
    todo,     \* what the constructor has yet to visit
    hasSelf,  \* is self_app of append_rsc_alias set?
    load      \* "loading", "ready", "thrown" or "aborted"

fileVars == <<file, todo, hasSelf, load>>
tableVars == <<vars, fileVars>>

TransKeys == {"ip", "port", "mask"}
ServiceKeys == {"service-id", "instance-id"}
TransTypes == {"udp", "udp_uds", "tcp", "tcp_uds"}
ServiceTypes == {"vsomeip"}
AppTypes == {"single", "multi"}

Visit(kind, what, app, own) == [kind |-> kind, what |-> what, app |-> app, own |-> own]

TableInit ==
    /\ file \in Files
    /\ todo = [i \in DOMAIN file |-> Visit("app", file[i], <<>>, TRUE)]
    /\ hasSelf = FALSE
    /\ load = "loading"
    /\ spaces = {} /\ pvds = [s \in Apps |-> [x \in Paths |-> 0]]
    /\ pathOf = [x \in Paths |-> x]
    /\ made = {} /\ keys = {} /\ listed = [p \in Peers |-> [m \in Mine |-> 0]]
    /\ pc = [t \in Callers |-> "ready"] /\ arg = [t \in Callers |-> NoPath]
    /\ inApp = [t \in Callers |-> NoPath]

-----------------------------------------------------------------------------
(* The constructor.                                                          *)
UsersUnchanged == UNCHANGED <<pathOf, made, peerVars, pc, callVars, file>>

(* make_pvd_trans and make_pvd_service know these members of an address. *)
AddressOK(pvd) ==
    \A i \in DOMAIN pvd.keys :
        pvd.keys[i] \in (IF pvd.type \in TransTypes THEN TransKeys ELSE ServiceKeys)

(* set_pvd_service_with_function and the push functions of CAliasService:    *)
(* no identifier is 0 and none of the three maps gets a name twice.          *)
FunctionsOK(pvd) ==
    \A i \in DOMAIN pvd.functions :
        LET f == pvd.functions[i]
        IN  /\ f.id # 0
            /\ \A j \in 1 .. (i - 1) :
                  pvd.functions[j].list = f.list => pvd.functions[j].name # f.name

(* append_pvd_alias and make_pvd_alias do not throw. *)
ProviderOK(pvd) ==
    /\ pvd.name # ""
    /\ pvd.type \in TransTypes \cup ServiceTypes
    /\ AddressOK(pvd)
    /\ pvd.type \in ServiceTypes => FunctionsOK(pvd)

(* get_property and the constructor of CAliasAPP do not throw. *)
PropertyOK(app) ==
    /\ app.name # ""
    /\ app.type \in AppTypes
    /\ app.type = "single" => app.where
    /\ app.type = "multi" => app.self # ""

(* The exception passes every frame up to the constructor's caller. *)
Throw ==
    /\ load' = "thrown"
    /\ todo' = <<>>
    /\ UNCHANGED <<spaces, pvds, hasSelf>>

(* Mutant: self_ is passed down for every app of the list. *)
Entries_AllOwn(app, path, own) ==
    [i \in DOMAIN app.list |->
        IF app.type = "single" THEN Visit("provider", app.list[i], path, FALSE)
                               ELSE Visit("app", app.list[i], path, own)]

(* What the loop of make_app_alias visits: self_ is passed down only for the *)
(* app the property names.                                                   *)
Entries(app, path, own) ==
    [i \in DOMAIN app.list |->
        IF app.type = "single" THEN Visit("provider", app.list[i], path, FALSE)
        ELSE Visit("app", app.list[i], path, own /\ app.list[i].name = app.self)]

(* make_app_alias up to its loop; a resource (one without a parent) is       *)
(* registered after it, and a single app is its own self.                    *)
LoadApp ==
    LET v == Head(todo)
        path == Append(v.app, v.what.name)
        after == (IF v.what.type = "single" THEN <<Visit("self", v.what, path, v.own)>> ELSE <<>>)
                 \o (IF v.app = <<>> THEN <<Visit("resource", v.what, path, v.own)>> ELSE <<>>)
    IN  /\ v.kind = "app"
        /\ \/ ~PropertyOK(v.what) /\ Throw
           \/ /\ PropertyOK(v.what)
              /\ todo' = Entries(v.what, path, v.own) \o after \o Tail(todo)
              /\ UNCHANGED <<spaces, pvds, hasSelf, load>>
        /\ UsersUnchanged

(* The path of a provider that is written in an app. *)
ProviderAt(path, pvd) == [app |-> path, name |-> pvd.name, type |-> pvd.type]

(* Mutant: the lists of the app are cleared for each of its providers. *)
LoadProvider_Clears ==
    LET v == Head(todo)
        x == ProviderAt(v.app, v.what)
    IN  /\ v.kind = "provider"
        /\ \/ ~ProviderOK(v.what) /\ Throw
           \/ /\ ProviderOK(v.what)
              /\ spaces' = spaces \cup {v.app}
              /\ pvds' = [pvds EXCEPT ![v.app] = [y \in Paths |-> IF y = x THEN 1 ELSE 0]]
              /\ todo' = Tail(todo)
              /\ UNCHANGED <<hasSelf, load>>
        /\ UsersUnchanged

(* append_pvd_alias, with append_pvd_context in one step: nobody else has    *)
(* the table yet.                                                            *)
LoadProvider ==
    LET v == Head(todo)
        x == ProviderAt(v.app, v.what)
    IN  /\ v.kind = "provider"
        /\ \/ ~ProviderOK(v.what) /\ Throw
           \/ /\ ProviderOK(v.what)
              /\ spaces' = spaces \cup {v.app}
              /\ pvds' = IF IsTherePvd(v.app, x) THEN pvds ELSE [pvds EXCEPT ![v.app][x] = 1]
              /\ todo' = Tail(todo)
              /\ UNCHANGED <<hasSelf, load>>
        /\ UsersUnchanged

(* The end of make_app_alias for a single app: self_ = app. *)
FoundSelf ==
    LET v == Head(todo)
    IN  /\ v.kind = "self"
        /\ hasSelf' = (v.own \/ hasSelf)
        /\ todo' = Tail(todo)
        /\ UNCHANGED <<spaces, pvds, load>>
        /\ UsersUnchanged

(* The end of append_rsc_alias: the assertion that a self app was found. *)
RegisterResource ==
    /\ Head(todo).kind = "resource"
    /\ IF hasSelf THEN load' = load /\ todo' = Tail(todo)
                  ELSE load' = "aborted" /\ todo' = <<>>
    /\ hasSelf' = FALSE
    /\ UNCHANGED <<spaces, pvds>>
    /\ UsersUnchanged

(* The constructor sets _m_f_ready_. *)
Ready ==
    /\ todo = <<>>
    /\ load' = "ready"
    /\ UNCHANGED <<spaces, pvds, todo, hasSelf>>
    /\ UsersUnchanged

Load ==
    /\ load = "loading"
    /\ Ready \/ (todo # <<>> /\ (LoadApp \/ LoadProvider \/ FoundSelf \/ RegisterResource))

TableNext ==
    \/ Load
    \/ load = "ready" /\ Next /\ UNCHANGED fileVars

TableSpec == TableInit /\ [][TableNext]_tableVars

-----------------------------------------------------------------------------
(* A reference reading of the file, from the tree and not in its order.  A   *)
(* place is <<app, parent>>: an app and the path of the app above it.        *)

PathOf(x) == Append(x[2], x[1].name)
Members(x) == DOMAIN x[1].list
Below(x, i) == <<x[1].list[i], PathOf(x)>>

(* The paths of the providers below an app. *)
Written[x \in Places] ==
    IF x[1].type = "multi"
    THEN UNION {Written[Below(x, i)] : i \in Members(x)}
    ELSE {ProviderAt(PathOf(x), x[1].list[i]) : i \in Members(x)}

(* The apps without a fault in them or below. *)
WellFormed[x \in Places] ==
    /\ PropertyOK(x[1])
    /\ \A i \in Members(x) :
          IF x[1].type = "single" THEN ProviderOK(x[1].list[i]) ELSE WellFormed[Below(x, i)]

(* The apps from which the names of the properties lead to a single one. *)
LeadsToSelf[x \in Places] ==
    \/ x[1].type = "single"
    \/ /\ x[1].type = "multi"
       /\ \E i \in Members(x) : x[1].list[i].name = x[1].self /\ LeadsToSelf[Below(x, i)]

Top(app) == <<app, <<>>>>

FileWritten(f) == UNION {Written[Top(f[i])] : i \in DOMAIN f}

FileOK(f) == \A i \in DOMAIN f : WellFormed[Top(f[i])] /\ LeadsToSelf[Top(f[i])]

IsSequence(s) == Len(s) \in Nat /\ DOMAIN s = 1 .. Len(s)

(* Places has every app of the files and FilePaths every provider. *)
ASSUME FilesAssumption ==
    /\ \A f \in Files : IsSequence(f) /\ \A i \in DOMAIN f : Top(f[i]) \in Places
    /\ \A x \in Places :
          /\ IsSequence(x[1].list)
          /\ x[2] \in Seq({y[1].name : y \in Places})
          /\ x[1].type = "multi" => \A i \in Members(x) : Below(x, i) \in Places
    /\ \A f \in Files : \A x \in FileWritten(f) : x \in FilePaths /\ AppOf[x] = x.app

(* Files are finite trees, so that the functions that read them exist. *)
ASSUME NestingAssumption ==
    MaxDepth \in Nat /\ \A x \in Places : Len(x[2]) <= MaxDepth

(* The constructor returns for exactly the files all of whose entries are    *)
(* well-formed and whose resources name an app of their own; a fault in the  *)
(* last entry is as fatal as one in the first.                               *)
LoadedWhole == load # "loading" => (load = "ready" <=> FileOK(file))

(* Every provider of the file, however deep, gets one alias object, and that *)
(* object stays in the list of its app, once, whatever the threads of the    *)
(* providers register and rename, although append_pvd_context clears and     *)
(* appends without a lock.  The path under which it is found is another      *)
(* matter: a change of name takes the file's own object along.               *)
ConfiguredStays == load = "ready" => Kept(FileWritten(file))
===============================================================================
