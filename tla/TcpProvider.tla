------------------------------ MODULE TcpProvider ------------------------------
(***************************************************************************)
(* CPVD_TCP (communicator/source/src/implement/provider/CPVD_TCP.cpp) with *)
(* what it uses of IPVDInf (the pool of receiver threads), CAliasAddr (the *)
(* two maps), CConfigAliases (which peers are connected) and               *)
(* IHProtocolInf::handle_connection: the life of the sessions with the     *)
(* peers.                                                                  *)
(*                                                                         *)
(* Three kinds of thread run here.  The application's call connect_try,    *)
(* disconnect and send; one thread of the communicator loops in accept;    *)
(* each session has a receiver.  A callback that calls connect_try or      *)
(* disconnect is one of the interleavings in which an application thread   *)
(* makes that call while the receiver stands still.                        *)
(*                                                                         *)
(* A step ends where another thread can see or change what is used next:   *)
(* at a lock, at a system call on a descriptor, at a callback.  A path is  *)
(* the name of one address, so a peer stands for both.  No alias update    *)
(* arrives (lamda_update_peer_alias), and nobody calls quit.               *)
(***************************************************************************)
EXTENDS Naturals, FiniteSets

CONSTANTS Peers,          \* peers, each with its address and its path
          Apps,           \* threads of the application
          Acceptor,       \* the thread of ICommunicatorImpl::run
          Receivers,      \* bound: receiver threads ever created
          Conns,          \* bound: sessions ever established
          Fds,            \* bound: descriptors open at the same time
          KnownPeers,     \* peers the alias file names
          Nameless,       \* peers for which make_client_id finds no alias
          ClientMode,     \* _mode_ = E_PVDM_CLIENT
          SelfFd,         \* the provider's own sockfd in client mode
          Uds,            \* is it the provider of sockaddr_un?
          ThreadsMayFail, \* can std::thread fail to start?
          HandlersMayThrow, \* can the application's handlers throw?
          NoPeer, NoFd, NoConn, NoRcv

Callers == Apps \cup {Acceptor}
Threads == Callers \cup Receivers

ASSUME TcpAssumption ==
    /\ Acceptor \notin Apps
    /\ Callers \cap Receivers = {}
    /\ KnownPeers \subseteq Peers
    /\ Nameless \subseteq Peers
    /\ SelfFd \in Fds
    /\ {ClientMode, Uds, ThreadsMayFail, HandlersMayThrow} \subseteq BOOLEAN
    /\ NoPeer \notin Peers
    /\ NoFd \notin Fds
    /\ NoConn \notin Conns
    /\ NoRcv \notin Receivers
    /\ "free" \notin Conns
    /\ NoConn # "free"

VARIABLES
    fdConn,     \* kernel: "free", NoConn (a socket), or the session of a descriptor
    sess,       \* kernel: what is known of every session
    known,      \* paths in _mm_ali4addr_
    sockAddr,   \* _mm_ali4sock_._mm_addr_: path to descriptor
    sockAlias,  \* _mm_ali4sock_._mm_alias_: descriptor to path
    avail,      \* _available_sockfd_
    registered, \* peers listed for this provider in _mm_connected_peers_
    pool,       \* mLooperPool
    garbage,    \* mLooperGarbage
    pc, path, fd, sending,      \* the callers and their locals
    dpc, dpath, dfd,            \* where a thread is in disconnection
    rpc, rpath, rfd, rconn,     \* the receivers and their locals
    told,       \* last connection state the application was told of a peer;
                \* "refused": its handler threw at E_DISCONNECTED
    failed,     \* which assertion or exception ended the process
    misclosed   \* history: has a close hit a descriptor of another session?

kernelVars == <<fdConn, sess, misclosed>>
sockVars == <<sockAddr, sockAlias>>
poolVars == <<pool, garbage>>
callVars == <<pc, path, fd, sending>>
discVars == <<dpc, dpath, dfd>>
rcvVars == <<rpc, rpath, rfd, rconn>>
vars == <<fdConn, sess, known, sockAddr, sockAlias, avail, registered, pool,
          garbage, pc, path, fd, sending, dpc, dpath, dfd, rpc, rpath, rfd,
          rconn, told, failed, misclosed>>

CallerPCs == {"ready",     \* outside the provider, or before accept
              "clear",     \* 850: read _available_sockfd_, about to clear it
              "connect",   \* 294: about to look the peer up and connect
              "insert",    \* 314, 830: about to enter the descriptor
              "create",    \* 317, 833: about to create the receiver
              "giveup",    \* 339: in the handler of CException
              "get",       \* 724: about to get the descriptor to write to
              "write"}     \* 435: about to lock mtx_write and write

ReceiverPCs == {"none",      \* no thread yet
                "start",     \* 628
                "regist",    \* 634
                "connected", \* 635: about to tell E_CONNECTED
                "read",      \* 645: about to call read
                "blocked",   \* in read
                "unregist",  \* IHProtocolInf 113
                "tell",      \* IHProtocolInf 115: about to tell E_DISCONNECTED
                "caught",    \* 676, 682: in a handler of run_receiver, then
                             \* IHProtocolInf 113
                "retell",    \* ... and 115
                "closing",   \* 687: in disconnection, or back from it
                "done"}      \* after zombi_thread_migrate

DiscPCs == {"out", "check", "get", "lock", "remove", "release", "unregist"}

TypeOK ==
    /\ fdConn \in [Fds -> Conns \cup {NoConn, "free"}]
    /\ sess \in [Conns -> [peer : Peers \cup {NoPeer},
                           by : {"nobody", "peer", "us"}, open : BOOLEAN]]
    /\ known \subseteq Peers
    /\ sockAddr \in [Peers -> Fds \cup {NoFd}]
    /\ sockAlias \in [Fds -> Peers \cup {NoPeer}]
    /\ avail \in Fds \cup {NoFd}
    /\ registered \subseteq Peers
    /\ pool \in [Peers -> Receivers \cup {NoRcv}]
    /\ garbage \in [Peers -> Receivers \cup {NoRcv}]
    /\ pc \in [Callers -> CallerPCs]
    /\ path \in [Callers -> Peers \cup {NoPeer}]
    /\ fd \in [Callers -> Fds \cup {NoFd}]
    /\ sending \in [Callers -> BOOLEAN]
    /\ dpc \in [Threads -> DiscPCs]
    /\ dpath \in [Threads -> Peers \cup {NoPeer}]
    /\ dfd \in [Threads -> Fds \cup {NoFd}]
    /\ rpc \in [Receivers -> ReceiverPCs]
    /\ rpath \in [Receivers -> Peers \cup {NoPeer}]
    /\ rfd \in [Receivers -> Fds \cup {NoFd}]
    /\ rconn \in [Receivers -> Conns \cup {NoConn}]
    /\ told \in [Peers -> {"nothing", "connected", "disconnected", "refused"}]
    /\ failed \in {"nothing", "insert", "start", "null", "send", "thrown"}
    /\ misclosed \in {"never", "once"}
    /\ \A t \in Callers : pc[t] \notin {"ready", "clear"} => path[t] \in Peers
    /\ \A t \in Threads : dpc[t] # "out" => dpath[t] \in Peers
    /\ \A r \in Receivers : rpc[r] # "none" => rpath[r] \in Peers

(* init and start have returned: a server listens, a client has bound its   *)
(* one socket and announced it as available.                                *)
Init ==
    /\ fdConn = [f \in Fds |-> IF ClientMode /\ f = SelfFd THEN NoConn ELSE "free"]
    /\ sess = [c \in Conns |-> [peer |-> NoPeer, by |-> "nobody", open |-> FALSE]]
    /\ known = KnownPeers
    /\ sockAddr = [p \in Peers |-> NoFd]
    /\ sockAlias = [f \in Fds |-> NoPeer]
    /\ avail = IF ClientMode THEN SelfFd ELSE NoFd
    /\ registered = {}
    /\ pool = [p \in Peers |-> NoRcv]
    /\ garbage = [p \in Peers |-> NoRcv]
    /\ pc = [t \in Callers |-> "ready"]
    /\ path = [t \in Callers |-> NoPeer]
    /\ fd = [t \in Callers |-> NoFd]
    /\ sending = [t \in Callers |-> FALSE]
    /\ dpc = [t \in Threads |-> "out"]
    /\ dpath = [t \in Threads |-> NoPeer]
    /\ dfd = [t \in Threads |-> NoFd]
    /\ rpc = [r \in Receivers |-> "none"]
    /\ rpath = [r \in Receivers |-> NoPeer]
    /\ rfd = [r \in Receivers |-> NoFd]
    /\ rconn = [r \in Receivers |-> NoConn]
    /\ told = [p \in Peers |-> "nothing"]
    /\ failed = "nothing"
    /\ misclosed = "never"

-----------------------------------------------------------------------------
(* A failed assertion, or an exception nobody catches, ends the process. *)
Running == failed = "nothing"

(* Where a caller, a thread in disconnection and a receiver stand. *)
At(t, s) == Running /\ pc[t] = s
DiscAt(t, s) == Running /\ dpc[t] = s
RcvAt(r, s) == Running /\ rpc[r] = s
Idle(t) == At(t, "ready") /\ dpc[t] = "out"

-----------------------------------------------------------------------------
(* The kernel and the peers. *)

FreeFds == {f \in Fds : fdConn[f] = "free"}
UnusedConns == {c \in Conns : sess[c].by = "nobody"}

(* A session is alive here while a descriptor names it or a thread reads it *)
(* (close does not end a read that another thread has begun).               *)
HeldHere(c) == (\E f \in Fds : fdConn[f] = c) \/ (\E r \in Receivers : rconn[r] = c)

(* Close(f): whatever f denotes now. *)
Closed(f) == [fdConn EXCEPT ![f] = "free"]

(* u has a descriptor that it has still to connect or to enter. *)
InHand(u) == pc[u] \in {"connect", "insert"}

(* The number f, which t is about to close, denotes by now what another path *)
(* entered or what another call has in hand.                                *)
Foreign(t, f) ==
    \/ \E p \in Peers : p # dpath[t] /\ sockAddr[p] = f
    \/ \E u \in Callers : u # t /\ InHand(u) /\ fd[u] = f

Close(t, f) ==
    /\ fdConn' = Closed(f)
    /\ misclosed' = IF Foreign(t, f) THEN "once" ELSE misclosed

(* The peer ends its side of a session. *)
PeerCloses(c) ==
    /\ Running
    /\ sess[c].open
    /\ sess' = [sess EXCEPT ![c].open = FALSE]
    /\ UNCHANGED <<fdConn, misclosed, known, sockVars, avail, registered, poolVars, callVars,
                   discVars, rcvVars, told, failed>>

(* Can a connection request from p be accepted?  On TCP the sessions a peer *)
(* opens from one address share their four-tuple: the last one is over.     *)
MayCall(p) ==
    Uds \/ \A c \in Conns : sess[c].peer = p /\ sess[c].by = "peer"
                               => ~sess[c].open /\ ~HeldHere(c)

-----------------------------------------------------------------------------
(* accept: in client mode it only sleeps. *)
Accepting == ~ClientMode /\ Idle(Acceptor)

(* make_client_id finds the path of the address, or makes and enters one.   *)
MakeClientId(p) == known' = known \cup {p}

(* server_accept: Accept returns, the peer gets its path.  The descriptor of *)
(* a peer without a name is forgotten.                                      *)
Accept(p) ==
    /\ Accepting
    /\ MayCall(p)
    /\ \E f \in FreeFds, c \in UnusedConns :
          /\ fdConn' = [fdConn EXCEPT ![f] = c]
          /\ sess' = [sess EXCEPT ![c] = [peer |-> p, by |-> "peer", open |-> TRUE]]
          /\ IF p \in Nameless
             THEN UNCHANGED <<known, callVars>>
             ELSE /\ MakeClientId(p)
                  /\ path' = [path EXCEPT ![Acceptor] = p]
                  /\ fd' = [fd EXCEPT ![Acceptor] = f]
                  /\ pc' = [pc EXCEPT ![Acceptor] = "insert"]
                  /\ UNCHANGED sending
    /\ UNCHANGED <<misclosed, sockVars, avail, registered, poolVars, discVars, rcvVars, told,
                   failed>>

-----------------------------------------------------------------------------
(* make_connection, called by connect_try or by send (see Send). *)

(* The call returns, its locals are gone. *)
Return(t) ==
    /\ pc' = [pc EXCEPT ![t] = "ready"]
    /\ path' = [path EXCEPT ![t] = NoPeer]
    /\ fd' = [fd EXCEPT ![t] = NoFd]
    /\ sending' = [sending EXCEPT ![t] = FALSE]

(* Its first part for server and both: a new socket.  Bind_uds_client may   *)
(* fail; its exception leaves the descriptor open.                          *)
MakeSocket(t, p) ==
    \E f \in FreeFds :
       /\ fdConn' = [fdConn EXCEPT ![f] = NoConn]
       /\ \/ /\ pc' = [pc EXCEPT ![t] = "connect"]
             /\ fd' = [fd EXCEPT ![t] = f]
             /\ path' = [path EXCEPT ![t] = p]
          \/ /\ Uds
             /\ UNCHANGED <<pc, fd, path>>

(* ... and for client: read _available_sockfd_.  get_self_sockfd takes no   *)
(* lock; clearing the variable is a step of its own.                        *)
GetSelfSockfd(t, p) ==
    /\ fd' = [fd EXCEPT ![t] = avail]
    /\ path' = [path EXCEPT ![t] = p]
    /\ pc' = [pc EXCEPT ![t] = "clear"]
    /\ UNCHANGED fdConn

MakeConnection(t, p) == IF ClientMode THEN GetSelfSockfd(t, p) ELSE MakeSocket(t, p)

(* register_new_alias: the path joins _mm_ali4addr_. *)
RegisterNewAlias(p) == known' = known \cup {p}

(* connect_try, of an alias or, after register_new_alias, of an address. *)
ConnectTry(t, p) ==
    /\ Idle(t)
    /\ RegisterNewAlias(p) \/ UNCHANGED known
    /\ MakeConnection(t, p)
    /\ sending' = [sending EXCEPT ![t] = FALSE]
    /\ UNCHANGED <<sess, misclosed, sockVars, avail, registered, poolVars, discVars, rcvVars,
                   told, failed>>

(* The rest of get_self_sockfd.  Zero means: no socket is available.  Then  *)
(* make_connection returns 0, which connect_try reports and which write_msg *)
(* does not take for an error: its assertion on the descriptor fails.       *)
ClearSelfSockfd(t) ==
    /\ At(t, "clear")
    /\ avail' = NoFd
    /\ \/ /\ fd[t] # NoFd
          /\ pc' = [pc EXCEPT ![t] = "connect"]
          /\ UNCHANGED <<path, fd, sending, failed>>
       \/ /\ fd[t] = NoFd
          /\ Return(t)
          /\ failed' = IF sending[t] THEN "send" ELSE failed
    /\ UNCHANGED <<kernelVars, known, sockVars, registered, poolVars, discVars, rcvVars, told>>

(* Connect: an unknown alias, a descriptor that is no unconnected socket,   *)
(* or a peer that does not answer make it fail.                             *)
Connect(t) ==
    /\ At(t, "connect")
    /\ \/ /\ path[t] \in known
          /\ fdConn[fd[t]] = NoConn
          /\ \E c \in UnusedConns :
                /\ fdConn' = [fdConn EXCEPT ![fd[t]] = c]
                /\ sess' = [sess EXCEPT ![c] = [peer |-> path[t], by |-> "us", open |-> TRUE]]
          /\ UNCHANGED misclosed
          /\ pc' = [pc EXCEPT ![t] = "insert"]
       \/ /\ pc' = [pc EXCEPT ![t] = "giveup"]
          /\ UNCHANGED kernelVars
    /\ UNCHANGED <<known, sockVars, avail, registered, poolVars, path, fd, sending, discVars,
                   rcvVars, told, failed>>

(* CAliasAddr<int>::insert.  A path that is there is left as it is (its     *)
(* connect flag is already true) and the call still succeeds.               *)
Insert(t) ==
    /\ At(t, "insert")
    /\ \/ /\ sockAddr[path[t]] # NoFd
          /\ UNCHANGED <<sockVars, failed>>
       \/ /\ sockAddr[path[t]] = NoFd
          /\ sockAlias[fd[t]] = NoPeer
          /\ sockAddr' = [sockAddr EXCEPT ![path[t]] = fd[t]]
          /\ sockAlias' = [sockAlias EXCEPT ![fd[t]] = path[t]]
          /\ UNCHANGED failed
       \/ /\ sockAddr[path[t]] = NoFd
          /\ sockAlias[fd[t]] # NoPeer
          /\ failed' = "insert"             \* assert, CAliasAddr.cpp:140
          /\ UNCHANGED sockVars
    /\ pc' = [pc EXCEPT ![t] = "create"]
    /\ UNCHANGED <<kernelVars, known, avail, registered, poolVars, path, fd, sending,
                   discVars, rcvVars, told>>

(* make_connection returns the descriptor, to connect_try or to write_msg;  *)
(* server_accept returns to the loop.                                       *)
Connected(t) ==
    IF sending[t]
    THEN pc' = [pc EXCEPT ![t] = "write"] /\ UNCHANGED <<path, fd, sending>>
    ELSE Return(t)

(* Mutant: thread_create does not look into mLooperPool first. *)
CreateThread_Always(t) ==
    /\ At(t, "create")
    /\ \E r \in Receivers :
          /\ rpc[r] = "none"
          /\ rpc' = [rpc EXCEPT ![r] = "start"]
          /\ rpath' = [rpath EXCEPT ![r] = path[t]]
          /\ pool' = [pool EXCEPT ![path[t]] = r]
    /\ Connected(t)
    /\ UNCHANGED <<kernelVars, known, sockVars, avail, registered, garbage, discVars, rfd,
                   rconn, told, failed>>

(* thread_create: a receiver for the path unless mLooperPool has one. *)
CreateThread(t) ==
    /\ At(t, "create")
    /\ \/ /\ pool[path[t]] = NoRcv
          /\ \E r \in Receivers :
                /\ rpc[r] = "none"
                /\ rpc' = [rpc EXCEPT ![r] = "start"]
                /\ rpath' = [rpath EXCEPT ![r] = path[t]]
                /\ pool' = [pool EXCEPT ![path[t]] = r]
          /\ Connected(t)
          /\ UNCHANGED <<dpc, dpath>>
       \/ /\ pool[path[t]] # NoRcv         \* "Already, thread was created"
          /\ Connected(t)
          /\ UNCHANGED <<rpc, rpath, pool, dpc, dpath>>
       \/ /\ ThreadsMayFail                \* std::thread threw
          /\ pool[path[t]] = NoRcv
          /\ dpc' = [dpc EXCEPT ![t] = "check"]
          /\ dpath' = [dpath EXCEPT ![t] = path[t]]
          /\ pc' = [pc EXCEPT ![t] = "giveup"]
          /\ UNCHANGED <<rpc, rpath, pool, path, fd, sending>>
    /\ UNCHANGED <<kernelVars, known, sockVars, avail, registered, garbage, dfd, rfd, rconn,
                   told, failed>>

(* The handler of CException.  Server and both close the descriptor, client *)
(* announces its socket again; server_accept throws on, and accept and run  *)
(* do so after it: nobody catches.                                          *)
GiveUp(t) ==
    /\ At(t, "giveup")
    /\ dpc[t] = "out"
    /\ \/ /\ t \in Apps
          /\ IF ClientMode
             THEN avail' = SelfFd /\ UNCHANGED <<fdConn, misclosed>>
             ELSE Close(t, fd[t]) /\ UNCHANGED avail
          /\ Return(t)
          /\ UNCHANGED failed
       \/ /\ t = Acceptor
          /\ failed' = "thrown"
          /\ UNCHANGED <<fdConn, misclosed, avail, callVars>>
    /\ UNCHANGED <<sess, known, sockVars, registered, poolVars, discVars, rcvVars, told>>

-----------------------------------------------------------------------------
(* write_msg. *)

(* get_connected_socket: the descriptor of the peer, or a new session. *)
Send(t, p) ==
    /\ Idle(t)
    /\ sending' = [sending EXCEPT ![t] = TRUE]
    /\ \/ /\ sockAddr[p] # NoFd
          /\ path' = [path EXCEPT ![t] = p]
          /\ pc' = [pc EXCEPT ![t] = "get"]
          /\ UNCHANGED <<fdConn, fd>>
       \/ /\ sockAddr[p] = NoFd
          /\ MakeConnection(t, p)
    /\ UNCHANGED <<sess, misclosed, known, sockVars, avail, registered, poolVars, discVars,
                   rcvVars, told, failed>>

(* is_there said yes; get may find nothing by now, and the null pointer is  *)
(* dereferenced.                                                            *)
GetSocket(t) ==
    /\ At(t, "get")
    /\ fd' = [fd EXCEPT ![t] = sockAddr[path[t]]]
    /\ pc' = [pc EXCEPT ![t] = "write"]
    /\ failed' = IF sockAddr[path[t]] = NoFd THEN "null" ELSE failed
    /\ UNCHANGED <<kernelVars, known, sockVars, avail, registered, poolVars, path, sending,
                   discVars, rcvVars, told>>

(* Who holds mtx_write: a thread in the locked part of disconnection. *)
WriteLockFree == \A t \in Threads : dpc[t] \notin {"remove", "release", "unregist"}

(* Lock mtx_write, write, unlock. *)
WriteMsg(t) ==
    /\ At(t, "write")
    /\ WriteLockFree
    /\ Return(t)
    /\ UNCHANGED <<kernelVars, known, sockVars, avail, registered, poolVars, discVars, rcvVars,
                   told, failed>>

-----------------------------------------------------------------------------
(* disconnection, a procedure of application threads, of receivers and, when *)
(* thread_create fails, of whoever made the session.                         *)

(* ICommunicatorImpl::disconnect. *)
Disconnect(t, p) ==
    /\ Idle(t)
    /\ dpc' = [dpc EXCEPT ![t] = "check"]
    /\ dpath' = [dpath EXCEPT ![t] = p]
    /\ UNCHANGED <<kernelVars, known, sockVars, avail, registered, poolVars, callVars, dfd,
                   rcvVars, told, failed>>

(* is_there; a path that is not there ends the call. *)
DiscCheck(t) ==
    /\ DiscAt(t, "check")
    /\ \/ /\ sockAddr[dpath[t]] # NoFd
          /\ dpc' = [dpc EXCEPT ![t] = "get"]
          /\ UNCHANGED dpath
       \/ /\ sockAddr[dpath[t]] = NoFd
          /\ dpc' = [dpc EXCEPT ![t] = "out"]
          /\ dpath' = [dpath EXCEPT ![t] = NoPeer]
    /\ UNCHANGED <<kernelVars, known, sockVars, avail, registered, poolVars, callVars,
                   dfd, rcvVars, told, failed>>

(* get, dereferenced; as in GetSocket the path may be gone. *)
DiscGet(t) ==
    /\ DiscAt(t, "get")
    /\ dfd' = [dfd EXCEPT ![t] = sockAddr[dpath[t]]]
    /\ dpc' = [dpc EXCEPT ![t] = "lock"]
    /\ failed' = IF sockAddr[dpath[t]] = NoFd THEN "null" ELSE failed
    /\ UNCHANGED <<kernelVars, known, sockVars, avail, registered, poolVars, callVars, dpath,
                   rcvVars, told>>

(* Lock mtx_write and Close the descriptor got before. *)
DiscClose(t) ==
    /\ DiscAt(t, "lock")
    /\ WriteLockFree
    /\ Close(t, dfd[t])
    /\ dpc' = [dpc EXCEPT ![t] = "remove"]
    /\ UNCHANGED <<sess, known, sockVars, avail, registered, poolVars, callVars, dpath, dfd,
                   rcvVars, told, failed>>

(* Mutant: remove erases the path and leaves the descriptor. *)
DiscRemove_KeepsAlias(t) ==
    /\ DiscAt(t, "remove")
    /\ sockAddr' = [sockAddr EXCEPT ![dpath[t]] = NoFd]
    /\ dpc' = [dpc EXCEPT ![t] = IF ClientMode THEN "release" ELSE "unregist"]
    /\ UNCHANGED <<kernelVars, known, sockAlias, avail, registered, poolVars, callVars, dpath,
                   dfd, rcvVars, told, failed>>

(* Mutant: the path is removed for client only. *)
DiscRemove_ClientOnly(t) ==
    /\ DiscAt(t, "remove")
    /\ IF ClientMode
       THEN /\ sockAddr' = [sockAddr EXCEPT ![dpath[t]] = NoFd]
            /\ sockAlias' = [sockAlias EXCEPT ![sockAddr[dpath[t]]] = NoPeer]
       ELSE UNCHANGED sockVars
    /\ dpc' = [dpc EXCEPT ![t] = IF ClientMode THEN "release" ELSE "unregist"]
    /\ UNCHANGED <<kernelVars, known, avail, registered, poolVars, callVars, dpath, dfd,
                   rcvVars, told, failed>>

(* CAliasAddr::remove.  It gets the descriptor of the path, then erases both *)
(* under its own lock; nothing can change the path in between, for removing  *)
(* needs mtx_write and insert leaves a path that is there.                   *)
DiscRemove(t) ==
    LET f == sockAddr[dpath[t]]
    IN  /\ DiscAt(t, "remove")
        /\ \/ /\ f # NoFd
              /\ sockAddr' = [sockAddr EXCEPT ![dpath[t]] = NoFd]
              /\ sockAlias' = [sockAlias EXCEPT ![f] = NoPeer]
           \/ /\ f = NoFd
              /\ UNCHANGED sockVars
        /\ dpc' = [dpc EXCEPT ![t] = IF ClientMode THEN "release" ELSE "unregist"]
        /\ UNCHANGED <<kernelVars, known, avail, registered, poolVars, callVars, dpath, dfd,
                       rcvVars, told, failed>>

(* release_self_sockfd, for client: only the provider's own socket counts. *)
DiscRelease(t) ==
    /\ DiscAt(t, "release")
    /\ avail' = IF dfd[t] = SelfFd THEN SelfFd ELSE avail
    /\ dpc' = [dpc EXCEPT ![t] = "unregist"]
    /\ UNCHANGED <<kernelVars, known, sockVars, registered, poolVars, callVars, dpath, dfd,
                   rcvVars, told, failed>>

(* unregist_connected_peer, and the lock is given back. *)
DiscUnregist(t) ==
    /\ DiscAt(t, "unregist")
    /\ registered' = registered \ {dpath[t]}
    /\ dpc' = [dpc EXCEPT ![t] = "out"]
    /\ dpath' = [dpath EXCEPT ![t] = NoPeer]
    /\ dfd' = [dfd EXCEPT ![t] = NoFd]
    /\ UNCHANGED <<kernelVars, known, sockVars, avail, poolVars, callVars, rcvVars, told, failed>>

Disconnection(t) ==
    DiscCheck(t) \/ DiscGet(t) \/ DiscClose(t) \/ DiscRemove(t) \/ DiscRelease(t)
        \/ DiscUnregist(t)

-----------------------------------------------------------------------------
(* run_receiver. *)

(* What the steps of a receiver leave alone that only touch rpc and rconn. *)
RcvQuiet == UNCHANGED <<kernelVars, known, sockVars, avail, poolVars, callVars, dfd, rpath>>

(* The path must still be in _mm_ali4sock_: the assertion at 629. *)
RcvStart(r) ==
    /\ RcvAt(r, "start")
    /\ rfd' = [rfd EXCEPT ![r] = sockAddr[rpath[r]]]
    /\ rpc' = [rpc EXCEPT ![r] = "regist"]
    /\ failed' = IF sockAddr[rpath[r]] = NoFd THEN "start" ELSE failed
    /\ UNCHANGED <<registered, dpc, dpath, rconn, told>>
    /\ RcvQuiet

RcvRegist(r) ==
    /\ RcvAt(r, "regist")
    /\ registered' = registered \cup {rpath[r]}
    /\ rpc' = [rpc EXCEPT ![r] = "connected"]
    /\ UNCHANGED <<dpc, dpath, rfd, rconn, told, failed>>
    /\ RcvQuiet

(* handle_connection(E_CONNECTED).  What the application's handler throws is *)
(* thrown on, as std::exception, to the last handler of run_receiver.        *)
RcvConnected(r) ==
    /\ RcvAt(r, "connected")
    /\ told' = [told EXCEPT ![rpath[r]] = "connected"]
    /\ \/ rpc' = [rpc EXCEPT ![r] = "read"]
       \/ /\ HandlersMayThrow
          /\ rpc' = [rpc EXCEPT ![r] = "caught"]
    /\ UNCHANGED <<registered, dpc, dpath, rfd, rconn, failed>>
    /\ RcvQuiet

(* read on the local descriptor: whatever session it denotes by now, or the  *)
(* error that read_msg throws as range_error.                                *)
RcvRead(r) ==
    /\ RcvAt(r, "read")
    /\ \/ /\ fdConn[rfd[r]] \in Conns
          /\ rconn' = [rconn EXCEPT ![r] = fdConn[rfd[r]]]
          /\ rpc' = [rpc EXCEPT ![r] = "blocked"]
       \/ /\ fdConn[rfd[r]] \notin Conns
          /\ rpc' = [rpc EXCEPT ![r] = "caught"]
          /\ UNCHANGED rconn
    /\ UNCHANGED <<registered, dpc, dpath, rfd, told, failed>>
    /\ RcvQuiet

(* read returns bytes of the peer; they go to the protocol chain. *)
RcvMessage(r) ==
    /\ RcvAt(r, "blocked")
    /\ sess[rconn[r]].open
    /\ rconn' = [rconn EXCEPT ![r] = NoConn]
    /\ rpc' = [rpc EXCEPT ![r] = "read"]
    /\ UNCHANGED <<registered, dpc, dpath, rfd, told, failed>>
    /\ RcvQuiet

(* Mutant: zero bytes do not end the loop. *)
RcvEnd_Continues(r) ==
    /\ RcvAt(r, "blocked")
    /\ ~sess[rconn[r]].open
    /\ rconn' = [rconn EXCEPT ![r] = NoConn]
    /\ rpc' = [rpc EXCEPT ![r] = "read"]
    /\ UNCHANGED <<registered, dpc, dpath, rfd, told, failed>>
    /\ RcvQuiet

(* read returns zero: "connection close by peer". *)
RcvEnd(r) ==
    /\ RcvAt(r, "blocked")
    /\ ~sess[rconn[r]].open
    /\ rconn' = [rconn EXCEPT ![r] = NoConn]
    /\ rpc' = [rpc EXCEPT ![r] = "unregist"]
    /\ UNCHANGED <<registered, dpc, dpath, rfd, told, failed>>
    /\ RcvQuiet

(* Mutant: handle_connection leaves the peer on the list. *)
RcvUnregist_Keeps(r) ==
    /\ RcvAt(r, "unregist")
    /\ rpc' = [rpc EXCEPT ![r] = "tell"]
    /\ UNCHANGED <<registered, dpc, dpath, rfd, rconn, told, failed>>
    /\ RcvQuiet

(* handle_connection(E_DISCONNECTED) takes the peer off the list first ... *)
RcvUnregist(r) ==
    /\ RcvAt(r, "unregist")
    /\ registered' = registered \ {rpath[r]}
    /\ rpc' = [rpc EXCEPT ![r] = "tell"]
    /\ UNCHANGED <<dpc, dpath, rfd, rconn, told, failed>>
    /\ RcvQuiet

(* The receiver has told the end and goes on to disconnection. *)
GoOnToClose(r) ==
    /\ told' = [told EXCEPT ![rpath[r]] = "disconnected"]
    /\ rpc' = [rpc EXCEPT ![r] = "closing"]
    /\ dpc' = [dpc EXCEPT ![r] = "check"]
    /\ dpath' = [dpath EXCEPT ![r] = rpath[r]]

(* ... then tells the application, whose handler may throw. *)
RcvTell(r) ==
    /\ RcvAt(r, "tell")
    /\ \/ GoOnToClose(r)
       \/ /\ HandlersMayThrow
          /\ told' = [told EXCEPT ![rpath[r]] = "refused"]
          /\ rpc' = [rpc EXCEPT ![r] = "caught"]
          /\ UNCHANGED <<dpc, dpath>>
    /\ UNCHANGED <<registered, rfd, rconn, failed>>
    /\ RcvQuiet

(* The handlers of run_receiver, after a read that failed and after a        *)
(* callback that threw: handle_connection(E_DISCONNECTED) again, which takes *)
(* the peer off the list ...                                                 *)
RcvCaught(r) ==
    /\ RcvAt(r, "caught")
    /\ registered' = registered \ {rpath[r]}
    /\ rpc' = [rpc EXCEPT ![r] = "retell"]
    /\ UNCHANGED <<dpc, dpath, rfd, rconn, told, failed>>
    /\ RcvQuiet

(* ... and tells the application.  Nothing catches what the callback (or     *)
(* cb_quit_handle after it) throws from there.                               *)
RcvRetell(r) ==
    /\ RcvAt(r, "retell")
    /\ GoOnToClose(r)
    /\ \/ UNCHANGED failed
       \/ /\ HandlersMayThrow
          /\ failed' = "thrown"
    /\ UNCHANGED <<registered, rfd, rconn>>
    /\ RcvQuiet

(* zombi_thread_migrate.  The looper it replaces in mLooperGarbage, if any,  *)
(* is joined: its thread must be at its end.                                 *)
RcvMigrate(r) ==
    LET p == rpath[r]
    IN  /\ RcvAt(r, "closing")
        /\ dpc[r] = "out"
        /\ garbage[p] # NoRcv => rpc[garbage[p]] = "done"
        /\ garbage' = IF pool[p] = NoRcv THEN garbage ELSE [garbage EXCEPT ![p] = pool[p]]
        /\ pool' = [pool EXCEPT ![p] = NoRcv]
        /\ rpc' = [rpc EXCEPT ![r] = "done"]
        /\ UNCHANGED <<kernelVars, known, sockVars, avail, registered, callVars, discVars,
                       rpath, rfd, rconn, told, failed>>

ReceiverStep(r) ==
    RcvStart(r) \/ RcvRegist(r) \/ RcvConnected(r) \/ RcvRead(r) \/ RcvEnd(r)
        \/ RcvUnregist(r) \/ RcvTell(r) \/ RcvCaught(r) \/ RcvRetell(r) \/ RcvMigrate(r) \/ Disconnection(r)

-----------------------------------------------------------------------------
(* What a caller does once its call has begun. *)
CallerStep(t) ==
    ClearSelfSockfd(t) \/ Connect(t) \/ Insert(t) \/ CreateThread(t) \/ GiveUp(t)
        \/ GetSocket(t) \/ WriteMsg(t) \/ Disconnection(t)

Next ==
    \/ \E c \in Conns : PeerCloses(c)
    \/ \E p \in Peers : Accept(p)
    \/ \E t \in Apps, p \in Peers : ConnectTry(t, p) \/ Send(t, p) \/ Disconnect(t, p)
    \/ \E t \in Callers : CallerStep(t)
    \/ \E r \in Receivers : ReceiverStep(r) \/ RcvMessage(r)

Spec == Init /\ [][Next]_vars

(* Every thread that can go on does; nothing is assumed of the peers (they   *)
(* need not send, close or connect) nor of how often the application calls.  *)
FairSpec ==
    /\ Spec
    /\ \A r \in Receivers : WF_vars(ReceiverStep(r))
    /\ \A t \in Callers : WF_vars(CallerStep(t))

-----------------------------------------------------------------------------
(* Properties. *)

(* r runs for p: from its creation to the end of zombi_thread_migrate. *)
Serving(r, p) == rpath[r] = p /\ (rpc[r] \notin {"none", "done"} \/ dpc[r] # "out")

(* The two maps of CAliasAddr (CAliasAddr.cpp:143,192) stay each other's     *)
(* inverse, whichever threads enter and remove descriptors: a path without   *)
(* its descriptor, or the reverse, makes a later insert abort the process.   *)
MapsAgree ==
    \A p \in Peers, f \in Fds : sockAddr[p] = f <=> sockAlias[f] = p

(* thread_create and zombi_thread_migrate (IPVDInf.cpp:226,277): a path has  *)
(* one receiver at a time, from its creation to its last step.               *)
OneReceiverPerPeer ==
    \A p \in Peers : \A r1, r2 \in Receivers :
        Serving(r1, p) /\ Serving(r2, p) => r1 = r2

(* The application is told E_CONNECTED and E_DISCONNECTED of a peer in turn  *)
(* (run_receiver, CPVD_TCP.cpp:635,671), across all sessions with it; the    *)
(* end is told once more (CPVD_TCP.cpp:682) only when its handler threw.     *)
ToldInTurn ==
    \A r \in Receivers :
        /\ rpc[r] = "connected" => told[rpath[r]] \in {"nothing", "disconnected"}
        /\ rpc[r] = "tell" => told[rpath[r]] = "connected"
        /\ rpc[r] = "retell" => told[rpath[r]] \in {"connected", "refused"}

(* A peer that IAliasSearcher::get_mypvds_sendable would name is one whose   *)
(* receiver is between its regist_connected_peer and the end of its session. *)
ListedIsServed ==
    \A p \in registered : \E r \in Receivers :
        /\ rpath[r] = p
        /\ rpc[r] \in {"connected", "read", "blocked", "unregist", "caught"}

(* Once the peer has ended the session a receiver reads, the application is  *)
(* told and the receiver gets to its end, unless the process aborts.         *)
EndIsNoticed ==
    \A r \in Receivers :
        (rpc[r] = "blocked" /\ ~sess[rconn[r]].open)
            ~> (rpc[r] = "done" \/ failed # "nothing")

(* Who is between the Close of a descriptor and its removal from the maps    *)
(* (CPVD_TCP.cpp:367,368), where the kernel may give its number out again.   *)
Removing(u, p) == dpc[u] = "remove" /\ dpath[u] = p

(* On a server the descriptor entered for a path is open, so write_msg       *)
(* reaches a session, whatever threads connect and disconnect: except while  *)
(* a disconnection of that path is before its remove, and once a close hit   *)
(* the descriptor of another session (disconnection gets it before it locks  *)
(* mtx_write, CPVD_TCP.cpp:362,365; make_connection closes one that          *)
(* disconnection closed before, CPVD_TCP.cpp:340).                           *)
EntryIsOpen ==
    ~ClientMode /\ misclosed = "never" =>
        \A p \in Peers : sockAddr[p] # NoFd =>
            fdConn[sockAddr[p]] # "free" \/ \E u \in Threads : Removing(u, p)

(* "assert( _mm_alias_.find( *address ) == _mm_alias_.end() )",              *)
(* CAliasAddr.cpp:140, when a server enters the descriptor of a new session: *)
(* it fails only while another thread is between the close of that number    *)
(* and its removal, or after a close hit another session's descriptor.       *)
InsertFailsOnlyOnReuse ==
    failed = "insert" /\ ~ClientMode /\ misclosed = "never" =>
        \E t \in Callers, u \in Threads, p \in Peers :
            /\ pc[t] = "create" /\ sockAddr[p] = fd[t] /\ p # path[t]
            /\ Removing(u, p) /\ u # t
===============================================================================
