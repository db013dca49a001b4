------------------------------ MODULE UdpProvider ------------------------------
(***************************************************************************)
(* CPVD_UDP (communicator/source/src/implement/provider/CPVD_UDP.cpp) with *)
(* the map _mm_ali4addr_ (CAliasAddr) and the calls it makes to            *)
(* CConfigAliases and IHProtocolInf::handle_connection.                    *)
(*                                                                         *)
(* There are no sessions: a peer is connected while its connect flag is    *)
(* set.  The first datagram of a peer or the first call that addresses it  *)
(* sets the flag, an empty datagram or disconnect resets it, and whoever   *)
(* changes the flag tells the application and keeps the list of connected  *)
(* peers.  One thread receives; the application's threads call connect_try,*)
(* send and disconnect.  A callback that makes such a call is one of the   *)
(* interleavings in which an application thread makes it.                  *)
(*                                                                         *)
(* Entries of _mm_ali4addr_ are never removed.  A path is always given     *)
(* with the same address.  An error of recvfrom ends run_receiver, which   *)
(* accept calls again: nothing modelled here changes by it.                *)
(***************************************************************************)
EXTENDS Integers, FiniteSets

CONSTANTS Addrs,            \* addresses of peers
          Paths,            \* paths of peers
          AddrOf,           \* the address a path is given with
          OwnName,          \* the path make_new_client_alias forms from an address
          KnownPaths,       \* paths the alias file names
          Nameless,         \* sources of datagrams that have no address (unbound sockets)
          Apps,             \* threads of the application
          Receiver,         \* the thread in run_receiver
          HandlerMayThrow,  \* can the connection handler throw?
          NoPath

Threads == Apps \cup {Receiver}

ASSUME UdpAssumption ==
    /\ AddrOf \in [Paths -> Addrs]
    /\ OwnName \in [Addrs -> Paths]
    /\ \A a \in Addrs : AddrOf[OwnName[a]] = a
    /\ KnownPaths \subseteq Paths
    /\ \A x, y \in KnownPaths : AddrOf[x] = AddrOf[y] => x = y
    /\ Nameless \cap Addrs = {}
    /\ Receiver \notin Apps /\ IsFiniteSet(Apps)
    /\ HandlerMayThrow \in BOOLEAN
    /\ NoPath \notin Paths

VARIABLES
    addr,       \* the paths in _mm_addr_
    alias,      \* _mm_alias_: address to path
    flag,       \* the connect flag of a path
    registered, \* peers listed for this provider in _mm_connected_peers_
    balance,    \* E_CONNECTED less E_DISCONNECTED told of a path
    pc, path,   \* where a thread is, and for which peer
    failed      \* what ended the process

nameVars == <<addr, alias>>
vars == <<addr, alias, flag, registered, balance, pc, path, failed>>

PCs == {"ready",     \* outside the provider, or in recvfrom
        "look",      \* CAliasAddr 133: about to read the flag
        "lock",      \* CAliasAddr 136: about to lock and set it
        "tell",      \* about to tell E_CONNECTED
        "regist",    \* about to enter the peer in the list
        "reset",     \* CAliasAddr 225: about to reset the flag
        "unregist",  \* IHProtocolInf 113: about to take the peer off the list
        "untell"}    \* IHProtocolInf 115: about to tell E_DISCONNECTED

(* Types, and: a thread works on a path the map knows. *)
TypeOK ==
    /\ addr \subseteq Paths
    /\ alias \in [Addrs -> Paths \cup {NoPath}]
    /\ flag \in [Paths -> BOOLEAN]
    /\ registered \subseteq Paths
    /\ balance \in [Paths -> Int]
    /\ pc \in [Threads -> PCs]
    /\ path \in [Threads -> Paths \cup {NoPath}]
    /\ failed \in {"nothing", "insert", "nobody"}
    /\ failed = "nothing" => \A t \in Threads : pc[t] # "ready" => path[t] \in addr

(* init and start have returned; update_alias_mapper has entered the file's *)
(* paths, none of them connected.                                           *)
Init ==
    /\ addr = KnownPaths
    /\ alias = [a \in Addrs |->
                  IF \E x \in KnownPaths : AddrOf[x] = a
                  THEN CHOOSE x \in KnownPaths : AddrOf[x] = a
                  ELSE NoPath]
    /\ flag = [x \in Paths |-> FALSE]
    /\ registered = {}
    /\ balance = [x \in Paths |-> 0]
    /\ pc = [t \in Threads |-> "ready"]
    /\ path = [t \in Threads |-> NoPath]
    /\ failed = "nothing"

-----------------------------------------------------------------------------
(* A failed assertion aborts the process. *)
At(t, s) == failed = "nothing" /\ pc[t] = s
Goto(t, s) == pc' = [pc EXCEPT ![t] = s]

(* A thread goes on with path x. *)
Begin(t, x, s) == Goto(t, s) /\ path' = [path EXCEPT ![t] = x]

Return(t) == Begin(t, NoPath, "ready")

(* Mutant: insert overwrites the path of an address instead of asserting. *)
InsertName_NoAssert(x) ==
    /\ addr' = addr \cup {x}
    /\ alias' = [alias EXCEPT ![AddrOf[x]] = x]
    /\ UNCHANGED failed

(* CAliasAddr::insert without connect flag: a path that is there stays as it *)
(* is; else its address must have no path.                                   *)
InsertName(x) ==
    \/ /\ x \in addr
       /\ UNCHANGED <<nameVars, failed>>
    \/ /\ x \notin addr
       /\ alias[AddrOf[x]] = NoPath
       /\ addr' = addr \cup {x}
       /\ alias' = [alias EXCEPT ![AddrOf[x]] = x]
       /\ UNCHANGED failed
    \/ /\ x \notin addr
       /\ alias[AddrOf[x]] # NoPath
       /\ failed' = "insert"                \* assert, CAliasAddr.cpp:140
       /\ UNCHANGED nameVars

-----------------------------------------------------------------------------
(* The application's calls. *)

(* connect_try of an address: register_new_alias, then make_connection. *)
ConnectAddress(t, x) ==
    /\ At(t, "ready")
    /\ InsertName(x)
    /\ Begin(t, x, "look")
    /\ UNCHANGED <<flag, registered, balance>>

(* connect_try of an alias, or write_msg: make_connection finds the path and *)
(* goes from its address back to the alias.                                  *)
MakeConnection(t, x) ==
    /\ At(t, "ready")
    /\ x \in addr
    /\ Begin(t, alias[AddrOf[x]], "look")
    /\ UNCHANGED <<nameVars, flag, registered, balance, failed>>

(* Mutant: disconnection does not look whether the path is there. *)
Disconnect_Unchecked(t, x) ==
    /\ At(t, "ready")
    /\ Begin(t, x, "reset")
    /\ UNCHANGED <<nameVars, flag, registered, balance, failed>>

(* ICommunicatorImpl::disconnect, and disconnection up to reset_connect_flag. *)
Disconnect(t, x) ==
    /\ At(t, "ready")
    /\ x \in addr
    /\ Begin(t, x, "reset")
    /\ UNCHANGED <<nameVars, flag, registered, balance, failed>>

-----------------------------------------------------------------------------
(* read_msg: recvfrom returns, make_client_id finds or makes the alias. *)

(* It makes none for a source without an address: the process ends. *)
Unnamed ==
    /\ At(Receiver, "ready")
    /\ Nameless # {}
    /\ failed' = "nobody"
    /\ UNCHANGED <<nameVars, flag, registered, balance, pc, path>>

ClientId(a, s) ==
    /\ At(Receiver, "ready")
    /\ \/ /\ alias[a] # NoPath
          /\ Begin(Receiver, alias[a], s)
          /\ UNCHANGED <<nameVars, failed>>
       \/ /\ alias[a] = NoPath
          /\ InsertName(OwnName[a])
          /\ Begin(Receiver, OwnName[a], s)
    /\ UNCHANGED <<flag, registered, balance>>

(* A message: insert with the connect flag comes next. *)
Datagram(a) == ClientId(a, "look")

(* "Disconnected by Peer": disconnection comes next. *)
EmptyDatagram(a) == ClientId(a, "reset")

-----------------------------------------------------------------------------
(* CAliasAddr::insert with the connect flag, by make_connection or read_msg. *)

(* The first look at the flag, without the lock. *)
LookAtFlag(t) ==
    /\ At(t, "look")
    /\ \/ ~flag[path[t]] /\ Goto(t, "lock") /\ UNCHANGED path
       \/ flag[path[t]] /\ Return(t)
    /\ UNCHANGED <<nameVars, flag, registered, balance, failed>>

(* is_new: make_connection tells the application first, read_msg registers  *)
(* the peer first.                                                          *)
IsNew(t) == Goto(t, IF t = Receiver THEN "regist" ELSE "tell") /\ UNCHANGED path

(* Mutant: the flag is not read again under the lock. *)
SetFlag_NoRecheck(t) ==
    /\ At(t, "lock")
    /\ flag' = [flag EXCEPT ![path[t]] = TRUE]
    /\ IsNew(t)
    /\ UNCHANGED <<nameVars, registered, balance, failed>>

(* Under the lock. *)
SetFlag(t) ==
    /\ At(t, "lock")
    /\ flag' = [flag EXCEPT ![path[t]] = TRUE]
    /\ \/ ~flag[path[t]] /\ IsNew(t)
       \/ flag[path[t]] /\ Return(t)
    /\ UNCHANGED <<nameVars, registered, balance, failed>>

(* handle_connection(E_CONNECTED).  An exception of the handler leaves       *)
(* make_connection, or ends run_receiver.                                    *)
Tell(t) ==
    /\ At(t, "tell")
    /\ balance' = [balance EXCEPT ![path[t]] = @ + 1]
    /\ \/ t # Receiver /\ Goto(t, "regist") /\ UNCHANGED path
       \/ (t = Receiver \/ HandlerMayThrow) /\ Return(t)
    /\ UNCHANGED <<nameVars, flag, registered, failed>>

(* regist_connected_peer *)
Regist(t) ==
    /\ At(t, "regist")
    /\ registered' = registered \cup {path[t]}
    /\ \/ t = Receiver /\ Goto(t, "tell") /\ UNCHANGED path
       \/ t # Receiver /\ Return(t)
    /\ UNCHANGED <<nameVars, flag, balance, failed>>

-----------------------------------------------------------------------------
(* disconnection *)

(* reset_connect_flag; a peer that was not connected is not told of. *)
ResetFlag(t) ==
    /\ At(t, "reset")
    /\ flag' = [flag EXCEPT ![path[t]] = FALSE]
    /\ \/ flag[path[t]] /\ Goto(t, "unregist") /\ UNCHANGED path
       \/ ~flag[path[t]] /\ Return(t)
    /\ UNCHANGED <<nameVars, registered, balance, failed>>

(* handle_connection(E_DISCONNECTED): the list ... *)
Unregist(t) ==
    /\ At(t, "unregist")
    /\ registered' = registered \ {path[t]}
    /\ Goto(t, "untell")
    /\ UNCHANGED <<nameVars, flag, balance, path, failed>>

(* ... then the application. *)
Untell(t) ==
    /\ At(t, "untell")
    /\ balance' = [balance EXCEPT ![path[t]] = @ - 1]
    /\ Return(t)
    /\ UNCHANGED <<nameVars, flag, registered, failed>>

Step(t) ==
    LookAtFlag(t) \/ SetFlag(t) \/ Tell(t) \/ Regist(t) \/ ResetFlag(t) \/ Unregist(t)
        \/ Untell(t)

Next ==
    \/ \E t \in Apps, x \in Paths :
          ConnectAddress(t, x) \/ MakeConnection(t, x) \/ Disconnect(t, x)
    \/ \E a \in Addrs : Datagram(a) \/ EmptyDatagram(a)
    \/ Unnamed
    \/ \E t \in Threads : Step(t)

Spec == Init /\ [][Next]_vars

-----------------------------------------------------------------------------
(* Properties. *)

(* The two maps of CAliasAddr (CAliasAddr.cpp:118) are each other's inverse: *)
(* make_connection's way from a path to its address and back to the alias    *)
(* (CPVD_UDP.cpp:170) ends where it began.                                   *)
NamesAgree ==
    \A x \in Paths, a \in Addrs : (x \in addr /\ AddrOf[x] = a) <=> alias[a] = x

(* Who is about to tell the application of a change it has made. *)
ToTell(x) == {t \in Threads : path[t] = x /\ (pc[t] = "tell" \/ (t = Receiver /\ pc[t] = "regist"))}
ToUntell(x) == {t \in Threads : path[t] = x /\ pc[t] \in {"unregist", "untell"}}

(* However many threads and datagrams connect and disconnect a peer at once, *)
(* each change of its connect flag is told once, by the one thread that made *)
(* it (is_new, had_connected): what was told, with what is about to be,      *)
(* agrees with the flag.                                                     *)
EveryChangeTold ==
    \A x \in Paths :
        balance[x] + Cardinality(ToTell(x)) - Cardinality(ToUntell(x))
            = IF flag[x] THEN 1 ELSE 0
===============================================================================
