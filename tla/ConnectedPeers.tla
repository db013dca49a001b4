---------------------------- MODULE ConnectedPeers ----------------------------
(***************************************************************************)
(* The part of CConfigAliases (communicator/source/src/base/               *)
(* CConfigAliases.cpp) that changes while the program runs.  One instance  *)
(* serves all communicators made with the same alias file, so the receiver *)
(* threads of several providers call it at once.  What it starts from is   *)
(* in AliasTable.                                                          *)
(*                                                                         *)
(* The table holds alias objects, which a peer's change of name renames in *)
(* place; an object goes by the path it was made with, and pathOf is the   *)
(* path it has now.  A peer no file names is one object, too, though each  *)
(* of its connections makes its own.                                       *)
(*                                                                         *)
(* A list is the number of its entries per object: nothing depends on      *)
(* their order.  _mm_pvds_map_ has no lock, so append_pvd_context is four  *)
(* steps: the search for the app, the entry of an empty app, the search    *)
(* for the path and the push_back.  (Each is atomic here; that the         *)
(* accesses to the std::map race is left out.)  What runs under            *)
(* _mtx_connected_peers_ is one step.                                      *)
(***************************************************************************)
EXTENDS Naturals

CONSTANTS Peers,      \* paths of peers, all of one type
          Mine,       \* paths of the providers of this process
          Apps,       \* paths of applications
          AppOf,      \* the application a path begins with
          Threads,    \* threads of these providers
          Owner,      \* the provider a thread belongs to
          FilePaths,  \* paths an alias file may name
          NoPath

Paths == Peers \cup Mine \cup FilePaths

(* Who calls: the threads, and whoever runs the constructor of a provider,   *)
(* which goes by the provider's path.                                        *)
Callers == Threads \cup Mine

ASSUME PeersAssumption ==
    /\ AppOf \in [Paths -> Apps]
    /\ Owner \in [Threads -> Mine]
    /\ Threads \cap Mine = {}
    /\ NoPath \notin Paths

VARIABLES
    spaces,   \* the keys of _mm_pvds_map_
    pvds,     \* its lists: entries per app and object
    pathOf,   \* the path of an object
    made,     \* own providers whose constructor has returned
    keys,     \* the keys of _mm_connected_peers_
    listed,   \* its lists: entries per peer and own provider
    pc, arg,  \* where a caller is, and with which object
    inApp     \* the app it registers this in, of its path when the call began

aliasVars == <<spaces, pvds, pathOf>>
peerVars == <<keys, listed>>
callVars == <<arg, inApp>>
vars == <<aliasVars, made, peerVars, pc, callVars>>

TypeOK ==
    /\ spaces \subseteq Apps
    /\ pvds \in [Apps -> [Paths -> Nat]]
    /\ pathOf \in [Paths -> Paths]
    /\ made \subseteq Mine
    /\ keys \subseteq Peers
    /\ listed \in [Peers -> [Mine -> Nat]]
    /\ pc \in [Callers -> {"ready", "space", "search", "append", "connect"}]
    /\ arg \in [Callers -> Paths \cup {NoPath}]
    /\ inApp \in [Callers -> Apps \cup {NoPath}]

-----------------------------------------------------------------------------
(* The list of app a is searched for the path of x. *)
IsTherePvd(a, x) == \E y \in Paths : pvds[a][y] > 0 /\ pathOf[y] = pathOf[x]

Goto(t, s) == pc' = [pc EXCEPT ![t] = s] /\ UNCHANGED callVars

Return(t) ==
    /\ pc' = [pc EXCEPT ![t] = "ready"]
    /\ arg' = [arg EXCEPT ![t] = NoPath]
    /\ inApp' = [inApp EXCEPT ![t] = NoPath]

(* A thread of a provider that exists, outside any call. *)
Idle(t) == pc[t] = "ready" /\ Owner[t] \in made

(* append_pvd_context begins with the search for the app of x. *)
FindSpace(t, x) ==
    /\ arg' = [arg EXCEPT ![t] = x]
    /\ inApp' = [inApp EXCEPT ![t] = AppOf[pathOf[x]]]
    /\ pc' = [pc EXCEPT ![t] = IF AppOf[pathOf[x]] \in spaces THEN "search" ELSE "space"]
    /\ UNCHANGED <<aliasVars, made, peerVars>>

(* The constructor of IPVDInf registers the provider itself                  *)
(* (regist_unknown_pvd_alias).                                               *)
RegistSelf(m) ==
    /\ m \notin made
    /\ pc[m] = "ready"
    /\ FindSpace(m, m)

(* regist_connected_peer registers the alias of the peer first. *)
RegistConnectedPeer(t, p) ==
    /\ Idle(t)
    /\ FindSpace(t, p)

(* The app is entered and its lists are cleared, whatever they hold by now. *)
ClearSpace(t) ==
    /\ pc[t] = "space"
    /\ spaces' = spaces \cup {inApp[t]}
    /\ pvds' = [pvds EXCEPT ![inApp[t]] = [x \in Paths |-> 0]]
    /\ Goto(t, "search")
    /\ UNCHANGED <<pathOf, made, peerVars>>

(* The alias is registered: a constructor returns, a thread goes on to       *)
(* _mm_connected_peers_.                                                     *)
Registered(t) ==
    IF t \in Mine
    THEN made' = made \cup {t} /\ Return(t)
    ELSE Goto(t, "connect") /\ UNCHANGED made

(* isthere_pvd_context *)
SearchPvd(t) ==
    /\ pc[t] = "search"
    /\ \/ IsTherePvd(inApp[t], arg[t]) /\ Registered(t)
       \/ ~IsTherePvd(inApp[t], arg[t]) /\ Goto(t, "append") /\ UNCHANGED made
    /\ UNCHANGED <<aliasVars, peerVars>>

(* The push_back of append_pvd_context. *)
AppendPvdContext(t) ==
    /\ pc[t] = "append"
    /\ pvds' = [pvds EXCEPT ![inApp[t]][arg[t]] = @ + 1]
    /\ Registered(t)
    /\ UNCHANGED <<spaces, pathOf, peerVars>>

(* Mutant: the list is not searched for my_pvd before it is appended. *)
ConnectPeer_Again(t) ==
    LET peer == pathOf[arg[t]]
        m == Owner[t]
    IN  /\ pc[t] = "connect"
        /\ keys' = keys \cup {peer}
        /\ listed' = [listed EXCEPT ![peer][m] = @ + 1]
        /\ Return(t)
        /\ UNCHANGED <<aliasVars, made>>

(* The locked part of regist_connected_peer. *)
ConnectPeer(t) ==
    LET peer == pathOf[arg[t]]
        m == Owner[t]
    IN  /\ pc[t] = "connect"
        /\ keys' = keys \cup {peer}
        /\ listed' = IF listed[peer][m] > 0 THEN listed ELSE [listed EXCEPT ![peer][m] = 1]
        /\ Return(t)
        /\ UNCHANGED <<aliasVars, made>>

(* The lists after one entry of m is erased from that of p. *)
Erased(p, m) ==
    IF listed[p][m] > 0 THEN [listed EXCEPT ![p][m] = @ - 1] ELSE listed

(* Mutant: the key goes with the first entry, and the list with its key. *)
UnregistConnectedPeer_WholeList(t, p) ==
    /\ Idle(t)
    /\ p \in keys
    /\ listed' = [listed EXCEPT ![p] = [m \in Mine |-> 0]]
    /\ keys' = keys \ {p}
    /\ UNCHANGED <<aliasVars, made, pc, callVars>>

(* Mutant: an empty list keeps its key. *)
UnregistConnectedPeer_KeepsKey(t, p) ==
    /\ Idle(t)
    /\ p \in keys
    /\ listed' = Erased(p, Owner[t])
    /\ UNCHANGED <<aliasVars, made, keys, pc, callVars>>

(* unregist_connected_peer: one matching entry, and the key of an empty list. *)
UnregistConnectedPeer(t, p) ==
    /\ Idle(t)
    /\ p \in keys
    /\ listed' = Erased(p, Owner[t])
    /\ keys' = IF \A m \in Mine : listed'[p][m] = 0 THEN keys \ {p} ELSE keys
    /\ UNCHANGED <<aliasVars, made, pc, callVars>>

(* A change of name updates the peer's alias object, the file's own included *)
(* (CPVD_TCP takes it from the table).  The alias of a provider of this      *)
(* process is not renamed here.                                              *)
Rename(t, x, name) ==
    /\ Idle(t)
    /\ pathOf' = [pathOf EXCEPT ![x] = name]
    /\ UNCHANGED <<spaces, pvds, made, peerVars, pc, callVars>>

Next ==
    \/ \E m \in Mine : RegistSelf(m)
    \/ \E t \in Callers : ClearSpace(t) \/ SearchPvd(t) \/ AppendPvdContext(t)
    \/ \E t \in Threads :
          \/ ConnectPeer(t)
          \/ \E p \in Peers : RegistConnectedPeer(t, p) \/ UnregistConnectedPeer(t, p)
          \/ \E x \in Peers \ Mine, name \in Peers : Rename(t, x, name)

-----------------------------------------------------------------------------
(* get_connected_provider_to_peer finds the key of p, or reports that there  *)
(* is none: a key stands for a list with an entry.                           *)
KeyHasEntry == \A p \in Peers : p \in keys <=> \E m \in Mine : listed[p][m] > 0

(* A provider is in the list of a peer at most once, so that the one entry   *)
(* unregist_connected_peer erases is the last.                               *)
ListedOnce == \A p \in Peers, m \in Mine : listed[p][m] <= 1

(* The alias objects S are in the lists of the apps they were made in, once. *)
Kept(S) == \A x \in S : pvds[AppOf[x]][x] = 1 /\ AppOf[x] \in spaces

(* What get_connected_provider_to_peer answers, for every peer. *)
Answered == {pm \in Peers \X Mine : pm[1] \in keys /\ listed[pm[1]][pm[2]] > 0}

C == INSTANCE Connections WITH connected <- Answered

(* Calls of several communicators change the shared table one pair at a      *)
(* time: connecting or disconnecting one provider leaves what is answered of *)
(* the others of the same peer alone.                                        *)
ImplementsConnections == C!Spec
===============================================================================
