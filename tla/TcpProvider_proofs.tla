-------------------------- MODULE TcpProvider_proofs --------------------------
(***************************************************************************)
(* The invariants of TcpProvider, for any sets of peers, application       *)
(* threads, receivers, sessions and descriptors, for server and client and *)
(* for both families of addresses.                                         *)
(*                                                                         *)
(* The pool is what ties the receivers to the peers: a receiver that is    *)
(* between its creation and its last step is the one mLooperPool has for   *)
(* its path (PoolOK).  What the application was told follows from where    *)
(* that one receiver stands (ToldOK).                                      *)
(***************************************************************************)
EXTENDS TcpProvider, TLAPS

(* A descriptor that is to be connected or entered is one; a caller about to *)
(* clear _available_sockfd_ knows its peer.                                  *)
CallersOK ==
    \A t \in Callers :
        /\ pc[t] \in {"connect", "insert"} => fd[t] \in Fds
        /\ pc[t] = "clear" => path[t] \in Peers

(* The receivers at work and the entries of mLooperPool are one to one, and *)
(* a receiver disconnects only at its end.                                  *)
PoolOK ==
    /\ \A r \in Receivers : rpc[r] \notin {"none", "done"} => pool[rpath[r]] = r
    /\ \A p \in Peers : pool[p] # NoRcv =>
           rpath[pool[p]] = p /\ rpc[pool[p]] \notin {"none", "done"}
    /\ \A r \in Receivers : dpc[r] # "out" => rpc[r] = "closing"

(* The end of the last session with p has not been told to its end. *)
Open(p) == told[p] \in {"connected", "refused"}

(* The application was told last that a peer is connected exactly while its *)
(* receiver is between its two callbacks; one whose handler threw at the    *)
(* end is about to be told it again.                                        *)
ToldOK ==
    /\ \A r \in Receivers :
          /\ rpc[r] \in {"start", "regist", "connected"} => ~Open(rpath[r])
          /\ rpc[r] \in {"read", "blocked", "unregist", "tell"} => told[rpath[r]] = "connected"
          /\ rpc[r] \in {"caught", "retell"} => Open(rpath[r])
    /\ \A p \in Peers : Open(p) =>
          /\ pool[p] # NoRcv
          /\ rpc[pool[p]] \in {"read", "blocked", "unregist", "tell", "caught", "retell"}

TInv == TypeOK /\ MapsAgree /\ CallersOK /\ PoolOK /\ ToldOK /\ ListedIsServed

(* The sets of threads are apart, and what stands for nothing is no member. *)
LEMMA Sets ==
    /\ Callers \subseteq Threads /\ Receivers \subseteq Threads
    /\ Apps \subseteq Callers /\ Acceptor \in Callers
    /\ \A t \in Callers : t \notin Receivers
    /\ NoPeer \notin Peers /\ NoFd \notin Fds /\ NoConn \notin Conns /\ NoRcv \notin Receivers
    /\ KnownPeers \subseteq Peers /\ SelfFd \in Fds
  BY TcpAssumption DEF TcpAssumption, Callers, Threads

LEMMA InitInv == Init => TInv
<1> SUFFICES ASSUME Init PROVE TInv
  OBVIOUS
<1>1. TypeOK
  BY Sets DEF Init, TypeOK, CallerPCs, ReceiverPCs, DiscPCs
<1>2. MapsAgree /\ CallersOK /\ PoolOK /\ ToldOK /\ ListedIsServed
  BY Sets DEF Init, MapsAgree, CallersOK, PoolOK, ToldOK, Open, ListedIsServed
<1> QED
  BY <1>1, <1>2 DEF TInv

-----------------------------------------------------------------------------
(* The kernel, the accepting thread and the calls that begin. *)

LEMMA PeerClosesKeeps ==
    ASSUME TInv, NEW c \in Conns, PeerCloses(c)
    PROVE  TInv'
<1> USE Sets DEF TInv, PeerCloses, Running, At, DiscAt, RcvAt, Idle, kernelVars, sockVars,
       poolVars, callVars, discVars, rcvVars
<1>1. TypeOK'
  <2> DEFINE S == [peer : Peers \cup {NoPeer}, by : {"nobody", "peer", "us"}, open : BOOLEAN]
  <2>1. sess \in [Conns -> S] /\ sess[c] \in S
    BY DEF TypeOK
  <2>2. [sess[c] EXCEPT !.open = FALSE] \in S
    BY <2>1
  <2>3. sess' = [sess EXCEPT ![c] = [sess[c] EXCEPT !.open = FALSE]]
    OBVIOUS
  <2> HIDE DEF S
  <2>4. sess' \in [Conns -> S]
    BY <2>1, <2>2, <2>3
  <2> QED
    BY <2>4 DEF TypeOK, S
<1>2. MapsAgree'
  BY DEF TypeOK, MapsAgree, CallersOK
<1>3. CallersOK'
  BY DEF TypeOK, CallersOK
<1>4. PoolOK'
  BY DEF TypeOK, PoolOK
<1>5. ToldOK'
  BY DEF TypeOK, PoolOK, ToldOK, Open
<1>6. ListedIsServed'
  BY DEF TypeOK, PoolOK, ListedIsServed
<1> QED
  BY <1>1, <1>2, <1>3, <1>4, <1>5, <1>6

LEMMA AcceptKeeps ==
    ASSUME TInv, NEW p \in Peers, Accept(p)
    PROVE  TInv'
<1> USE Sets DEF TInv, Accept, Accepting, MakeClientId, FreeFds, Running, At, DiscAt,
       RcvAt, Idle, kernelVars, sockVars, poolVars, callVars, discVars, rcvVars
<1>1. TypeOK'
  <2> DEFINE S == [peer : Peers \cup {NoPeer}, by : {"nobody", "peer", "us"}, open : BOOLEAN]
  <2>1. PICK f \in Fds, c \in Conns :
            /\ fdConn' = [fdConn EXCEPT ![f] = c]
            /\ sess' = [sess EXCEPT ![c] = [peer |-> p, by |-> "peer", open |-> TRUE]]
            /\ \/ UNCHANGED <<known, callVars>>
               \/ /\ known' = known \cup {p}
                  /\ path' = [path EXCEPT ![Acceptor] = p]
                  /\ fd' = [fd EXCEPT ![Acceptor] = f]
                  /\ pc' = [pc EXCEPT ![Acceptor] = "insert"]
                  /\ UNCHANGED sending
    BY DEF UnusedConns
  <2>2. [peer |-> p, by |-> "peer", open |-> TRUE] \in S
    OBVIOUS
  <2>3. UNCHANGED <<misclosed, sockVars, avail, registered, poolVars, discVars, rcvVars, told,
                   failed>>
    OBVIOUS
  <2> HIDE DEF Accept, S
  <2>4. sess' \in [Conns -> S]
    BY <2>1, <2>2 DEF TypeOK, S
  <2>5. fdConn' \in [Fds -> Conns \cup {NoConn, "free"}] /\ known' \subseteq Peers
    BY <2>1 DEF TypeOK
  <2>6. /\ pc' \in [Callers -> CallerPCs] /\ path' \in [Callers -> Peers \cup {NoPeer}]
        /\ fd' \in [Callers -> Fds \cup {NoFd}] /\ sending' \in [Callers -> BOOLEAN]
        /\ \A u \in Callers : pc'[u] \notin {"ready", "clear"} => path'[u] \in Peers
    <3>1. CASE UNCHANGED callVars
      BY <3>1 DEF TypeOK
    <3>2. CASE /\ path' = [path EXCEPT ![Acceptor] = p] /\ UNCHANGED sending
               /\ pc' = [pc EXCEPT ![Acceptor] = "insert"]
               /\ \E g \in Fds : fd' = [fd EXCEPT ![Acceptor] = g]
      <4>1. PICK g \in Fds : fd' = [fd EXCEPT ![Acceptor] = g]
        BY <3>2
      <4>2. fd' \in [Callers -> Fds \cup {NoFd}] /\ sending' \in [Callers -> BOOLEAN]
        BY <3>2, <4>1 DEF TypeOK
      <4>3. /\ pc' \in [Callers -> CallerPCs] /\ path' \in [Callers -> Peers \cup {NoPeer}]
            /\ \A u \in Callers : u # Acceptor => pc'[u] = pc[u] /\ path'[u] = path[u]
            /\ path'[Acceptor] \in Peers
        BY <3>2 DEF TypeOK, CallerPCs
      <4>4. \A u \in Callers : pc[u] \notin {"ready", "clear"} => path[u] \in Peers
        BY DEF TypeOK
      <4> QED
        BY <4>2, <4>3, <4>4
    <3> QED
      BY <2>1, <3>1, <3>2
  <2> QED
    BY <2>3, <2>4, <2>5, <2>6 DEF TypeOK, S
<1>2. MapsAgree'
  BY DEF TypeOK, MapsAgree, CallersOK
<1>3. CallersOK'
  BY DEF TypeOK, CallersOK
<1>4. PoolOK'
  BY DEF TypeOK, PoolOK
<1>5. ToldOK'
  BY DEF TypeOK, PoolOK, ToldOK, Open
<1>6. ListedIsServed'
  BY DEF TypeOK, PoolOK, ListedIsServed
<1> QED
  BY <1>1, <1>2, <1>3, <1>4, <1>5, <1>6

LEMMA ConnectTryKeeps ==
    ASSUME TInv, NEW t \in Apps, NEW p \in Peers, ConnectTry(t, p)
    PROVE  TInv'
<1> USE Sets DEF TInv, ConnectTry, RegisterNewAlias, MakeConnection, GetSelfSockfd,
       MakeSocket, FreeFds, Running, At, DiscAt, RcvAt, Idle, kernelVars, sockVars, poolVars,
       callVars, discVars, rcvVars
<1>1. TypeOK'
  <2>1. \E f \in Fds \cup {NoFd} :
            /\ fdConn' = fdConn \/ fdConn' = [fdConn EXCEPT ![f] = NoConn]
            /\ \/ /\ pc' = [pc EXCEPT ![t] = "connect"] \/ pc' = [pc EXCEPT ![t] = "clear"]
                  /\ fd' = fd \/ fd' = [fd EXCEPT ![t] = f]
                  /\ path' = [path EXCEPT ![t] = p]
               \/ UNCHANGED <<pc, fd, path>>
    BY DEF TypeOK
  <2>2. /\ sending' = [sending EXCEPT ![t] = FALSE]
        /\ known' = known \/ known' = known \cup {p}
        /\ UNCHANGED <<sess, misclosed, sockVars, avail, registered, poolVars, discVars, rcvVars,
                       told, failed>>
    OBVIOUS
  <2> HIDE DEF ConnectTry
  <2>3. fdConn' \in [Fds -> Conns \cup {NoConn, "free"}]
    BY <2>1 DEF TypeOK
  <2>4. /\ pc' \in [Callers -> CallerPCs] /\ path' \in [Callers -> Peers \cup {NoPeer}]
        /\ fd' \in [Callers -> Fds \cup {NoFd}] /\ sending' \in [Callers -> BOOLEAN]
        /\ \A u \in Callers : pc'[u] \notin {"ready", "clear"} => path'[u] \in Peers
    <3>0. pc \in [Callers -> CallerPCs] /\ path \in [Callers -> Peers \cup {NoPeer}]
      BY DEF TypeOK
    <3>1. /\ pc' \in [Callers -> CallerPCs] /\ path' \in [Callers -> Peers \cup {NoPeer}]
          /\ \A u \in Callers : u # t => pc'[u] = pc[u] /\ path'[u] = path[u]
          /\ (pc' = pc /\ path' = path) \/ path'[t] \in Peers
      <4> HIDE DEF TInv
      <4> QED
        BY <2>1, <3>0, Sets DEF CallerPCs
    <3>2. fd' \in [Callers -> Fds \cup {NoFd}] /\ sending' \in [Callers -> BOOLEAN]
      BY <2>1, <2>2 DEF TypeOK
    <3>3. \A u \in Callers : pc[u] \notin {"ready", "clear"} => path[u] \in Peers
      BY DEF TypeOK
    <3> QED
      BY <3>1, <3>2, <3>3
  <2> QED
    BY <2>2, <2>3, <2>4 DEF TypeOK
<1>2. MapsAgree'
  BY DEF TypeOK, MapsAgree, CallersOK
<1>3. CallersOK'
  BY DEF TypeOK, CallersOK
<1>4. PoolOK'
  BY DEF TypeOK, PoolOK
<1>5. ToldOK'
  BY DEF TypeOK, PoolOK, ToldOK, Open
<1>6. ListedIsServed'
  BY DEF TypeOK, PoolOK, ListedIsServed
<1> QED
  BY <1>1, <1>2, <1>3, <1>4, <1>5, <1>6

LEMMA SendKeeps ==
    ASSUME TInv, NEW t \in Apps, NEW p \in Peers, Send(t, p)
    PROVE  TInv'
<1> USE Sets DEF TInv, Send, MakeConnection, GetSelfSockfd, MakeSocket, FreeFds, Running,
       At, DiscAt, RcvAt, Idle, kernelVars, sockVars, poolVars, callVars, discVars, rcvVars
<1>1. TypeOK'
  <2>1. \E f \in Fds \cup {NoFd} :
            /\ fdConn' = fdConn \/ fdConn' = [fdConn EXCEPT ![f] = NoConn]
            /\ \/ /\ pc' = [pc EXCEPT ![t] = "get"] \/ pc' = [pc EXCEPT ![t] = "connect"]
                     \/ pc' = [pc EXCEPT ![t] = "clear"]
                  /\ fd' = fd \/ fd' = [fd EXCEPT ![t] = f]
                  /\ path' = [path EXCEPT ![t] = p]
               \/ UNCHANGED <<pc, fd, path>>
    BY DEF TypeOK
  <2>2. /\ sending' = [sending EXCEPT ![t] = TRUE]
        /\ UNCHANGED <<sess, misclosed, known, sockVars, avail, registered, poolVars, discVars,
                       rcvVars, told, failed>>
    OBVIOUS
  <2> HIDE DEF Send
  <2>3. fdConn' \in [Fds -> Conns \cup {NoConn, "free"}]
    BY <2>1 DEF TypeOK
  <2>4. /\ pc' \in [Callers -> CallerPCs] /\ path' \in [Callers -> Peers \cup {NoPeer}]
        /\ fd' \in [Callers -> Fds \cup {NoFd}] /\ sending' \in [Callers -> BOOLEAN]
        /\ \A u \in Callers : pc'[u] \notin {"ready", "clear"} => path'[u] \in Peers
    <3>0. pc \in [Callers -> CallerPCs] /\ path \in [Callers -> Peers \cup {NoPeer}]
      BY DEF TypeOK
    <3>1. /\ pc' \in [Callers -> CallerPCs] /\ path' \in [Callers -> Peers \cup {NoPeer}]
          /\ \A u \in Callers : u # t => pc'[u] = pc[u] /\ path'[u] = path[u]
          /\ (pc' = pc /\ path' = path) \/ path'[t] \in Peers
      <4> HIDE DEF TInv
      <4> QED
        BY <2>1, <3>0, Sets DEF CallerPCs
    <3>2. fd' \in [Callers -> Fds \cup {NoFd}] /\ sending' \in [Callers -> BOOLEAN]
      BY <2>1, <2>2 DEF TypeOK
    <3>3. \A u \in Callers : pc[u] \notin {"ready", "clear"} => path[u] \in Peers
      BY DEF TypeOK
    <3> QED
      BY <3>1, <3>2, <3>3
  <2> QED
    BY <2>2, <2>3, <2>4 DEF TypeOK
<1>2. MapsAgree'
  BY DEF TypeOK, MapsAgree, CallersOK
<1>3. CallersOK'
  BY DEF TypeOK, CallersOK
<1>4. PoolOK'
  BY DEF TypeOK, PoolOK
<1>5. ToldOK'
  BY DEF TypeOK, PoolOK, ToldOK, Open
<1>6. ListedIsServed'
  BY DEF TypeOK, PoolOK, ListedIsServed
<1> QED
  BY <1>1, <1>2, <1>3, <1>4, <1>5, <1>6

LEMMA DisconnectKeeps ==
    ASSUME TInv, NEW t \in Apps, NEW p \in Peers, Disconnect(t, p)
    PROVE  TInv'
<1> USE Sets DEF TInv, Disconnect, Running, At, DiscAt, RcvAt, Idle, kernelVars, sockVars,
       poolVars, callVars, discVars, rcvVars
<1>1. TypeOK'
  BY DEF TypeOK, CallersOK, CallerPCs, ReceiverPCs, DiscPCs
<1>2. MapsAgree'
  BY DEF TypeOK, MapsAgree, CallersOK
<1>3. CallersOK'
  BY DEF TypeOK, CallersOK
<1>4. PoolOK'
  BY DEF TypeOK, PoolOK
<1>5. ToldOK'
  BY DEF TypeOK, PoolOK, ToldOK, Open
<1>6. ListedIsServed'
  BY DEF TypeOK, PoolOK, ListedIsServed
<1> QED
  BY <1>1, <1>2, <1>3, <1>4, <1>5, <1>6

-----------------------------------------------------------------------------
(* The rest of make_connection, server_accept and write_msg. *)

LEMMA ClearSelfSockfdKeeps ==
    ASSUME TInv, NEW t \in Callers, ClearSelfSockfd(t)
    PROVE  TInv'
<1> USE Sets DEF TInv, ClearSelfSockfd, Return, Running, At, DiscAt, RcvAt, Idle,
       kernelVars, sockVars, poolVars, callVars, discVars, rcvVars
<1>1. TypeOK'
  <2>1. \/ pc' = [pc EXCEPT ![t] = "connect"] /\ pc[t] = "clear" /\ UNCHANGED <<path, fd, sending>>
        \/ Return(t)
    OBVIOUS
  <2>2. avail' = NoFd /\ (failed' = "send" \/ failed' = failed)
    OBVIOUS
  <2>3. UNCHANGED <<kernelVars, known, sockVars, registered, poolVars, discVars, rcvVars, told>>
    OBVIOUS
  <2>4. pc[t] = "clear" => path[t] \in Peers
    BY DEF CallersOK
  <2> HIDE DEF ClearSelfSockfd
  <2>5. /\ pc' \in [Callers -> CallerPCs] /\ path' \in [Callers -> Peers \cup {NoPeer}]
        /\ fd' \in [Callers -> Fds \cup {NoFd}] /\ sending' \in [Callers -> BOOLEAN]
        /\ \A u \in Callers : pc'[u] \notin {"ready", "clear"} => path'[u] \in Peers
    <3>1. CASE Return(t)
      BY <3>1 DEF TypeOK, CallerPCs
    <3>2. CASE pc' = [pc EXCEPT ![t] = "connect"] /\ pc[t] = "clear" /\ UNCHANGED <<path, fd, sending>>
      BY <2>4, <3>2 DEF TypeOK, CallerPCs
    <3> QED
      BY <2>1, <3>1, <3>2
  <2> QED
    BY <2>2, <2>3, <2>5 DEF TypeOK
<1>2. MapsAgree'
  BY DEF TypeOK, MapsAgree, CallersOK
<1>3. CallersOK'
  BY DEF TypeOK, CallersOK
<1>4. PoolOK'
  BY DEF TypeOK, PoolOK
<1>5. ToldOK'
  BY DEF TypeOK, PoolOK, ToldOK, Open
<1>6. ListedIsServed'
  BY DEF TypeOK, PoolOK, ListedIsServed
<1> QED
  BY <1>1, <1>2, <1>3, <1>4, <1>5, <1>6

LEMMA ConnectKeeps ==
    ASSUME TInv, NEW t \in Callers, Connect(t)
    PROVE  TInv'
<1> USE Sets DEF TInv, Connect, UnusedConns, Running, At, DiscAt, RcvAt, Idle, kernelVars,
       sockVars, poolVars, callVars, discVars, rcvVars
<1>1. TypeOK'
  <2> DEFINE S == [peer : Peers \cup {NoPeer}, by : {"nobody", "peer", "us"}, open : BOOLEAN]
  <2>1. path[t] \in Peers
    BY DEF TypeOK
  <2>2. sess' \in [Conns -> S] /\ fdConn' \in [Fds -> Conns \cup {NoConn, "free"}]
    <3>1. CASE UNCHANGED kernelVars
      BY <3>1 DEF TypeOK
    <3>2. CASE \E c \in Conns :
                  /\ fdConn' = [fdConn EXCEPT ![fd[t]] = c]
                  /\ sess' = [sess EXCEPT ![c] = [peer |-> path[t], by |-> "us", open |-> TRUE]]
      <4>1. [peer |-> path[t], by |-> "us", open |-> TRUE] \in S
        BY <2>1
      <4>2. PICK c \in Conns :
                /\ fdConn' = [fdConn EXCEPT ![fd[t]] = c]
                /\ sess' = [sess EXCEPT ![c] = [peer |-> path[t], by |-> "us", open |-> TRUE]]
        BY <3>2
      <4>3. sess \in [Conns -> S] /\ fdConn \in [Fds -> Conns \cup {NoConn, "free"}]
        BY DEF TypeOK
      <4> HIDE DEF Connect, S
      <4> QED
        BY <4>1, <4>2, <4>3
    <3> QED
      BY <3>1, <3>2
  <2>3. /\ pc' = [pc EXCEPT ![t] = "insert"] \/ pc' = [pc EXCEPT ![t] = "giveup"]
        /\ UNCHANGED misclosed
    OBVIOUS
  <2>4. UNCHANGED <<known, sockVars, avail, registered, poolVars, path, fd, sending, discVars,
                   rcvVars, told, failed>>
    OBVIOUS
  <2> HIDE DEF Connect
  <2>5. /\ pc' \in [Callers -> CallerPCs]
        /\ \A u \in Callers : pc'[u] \notin {"ready", "clear"} => path'[u] \in Peers
    BY <2>1, <2>3, <2>4 DEF TypeOK, CallerPCs
  <2> QED
    BY <2>2, <2>3, <2>4, <2>5 DEF TypeOK
<1>2. MapsAgree'
  BY DEF TypeOK, MapsAgree, CallersOK
<1>3. CallersOK'
  BY DEF TypeOK, CallersOK
<1>4. PoolOK'
  BY DEF TypeOK, PoolOK
<1>5. ToldOK'
  BY DEF TypeOK, PoolOK, ToldOK, Open
<1>6. ListedIsServed'
  BY DEF TypeOK, PoolOK, ListedIsServed
<1> QED
  BY <1>1, <1>2, <1>3, <1>4, <1>5, <1>6

LEMMA InsertKeeps ==
    ASSUME TInv, NEW t \in Callers, Insert(t)
    PROVE  TInv'
<1> USE Sets DEF TInv, Insert, Running, At, DiscAt, RcvAt, Idle, kernelVars, sockVars,
       poolVars, callVars, discVars, rcvVars
<1>1. TypeOK'
  <2>1. fd[t] \in Fds /\ path[t] \in Peers
    BY DEF CallersOK, TypeOK
  <2>2. \/ sockAddr' = [sockAddr EXCEPT ![path[t]] = fd[t]]
           /\ sockAlias' = [sockAlias EXCEPT ![fd[t]] = path[t]]
        \/ UNCHANGED sockVars
    OBVIOUS
  <2>3. (failed' = failed \/ failed' = "insert") /\ pc' = [pc EXCEPT ![t] = "create"]
    OBVIOUS
  <2>4. UNCHANGED <<kernelVars, known, avail, registered, poolVars, path, fd, sending,
                   discVars, rcvVars, told>>
    OBVIOUS
  <2> HIDE DEF Insert
  <2>5. sockAddr' \in [Peers -> Fds \cup {NoFd}] /\ sockAlias' \in [Fds -> Peers \cup {NoPeer}]
    BY <2>1, <2>2 DEF TypeOK
  <2>6. /\ pc' \in [Callers -> CallerPCs]
        /\ \A u \in Callers : pc'[u] \notin {"ready", "clear"} => path'[u] \in Peers
    BY <2>1, <2>3, <2>4 DEF TypeOK, CallerPCs
  <2> QED
    BY <2>3, <2>4, <2>5, <2>6 DEF TypeOK
<1>2. MapsAgree'
  BY DEF TypeOK, MapsAgree, CallersOK
<1>3. CallersOK'
  BY DEF TypeOK, CallersOK
<1>4. PoolOK'
  BY DEF TypeOK, PoolOK
<1>5. ToldOK'
  BY DEF TypeOK, PoolOK, ToldOK, Open
<1>6. ListedIsServed'
  BY DEF TypeOK, PoolOK, ListedIsServed
<1> QED
  BY <1>1, <1>2, <1>3, <1>4, <1>5, <1>6

LEMMA CreateThreadKeeps ==
    ASSUME TInv, NEW t \in Callers, CreateThread(t)
    PROVE  TInv'
<1> USE Sets DEF TInv, CreateThread, Connected, Return, Running, At, DiscAt, RcvAt, Idle,
       kernelVars, sockVars, poolVars, callVars, discVars, rcvVars
<1>1. TypeOK'
  <2>1. path[t] \in Peers /\ t \in Threads
    BY DEF TypeOK
  <2>2. \/ UNCHANGED <<rpc, rpath, pool>>
        \/ \E r \in Receivers : /\ rpc' = [rpc EXCEPT ![r] = "start"]
                                /\ rpath' = [rpath EXCEPT ![r] = path[t]]
                                /\ pool' = [pool EXCEPT ![path[t]] = r]
    OBVIOUS
  <2>3. \/ UNCHANGED <<dpc, dpath>>
        \/ dpc' = [dpc EXCEPT ![t] = "check"] /\ dpath' = [dpath EXCEPT ![t] = path[t]]
    OBVIOUS
  <2>4. \/ Return(t)
        \/ /\ pc' = [pc EXCEPT ![t] = "write"] \/ pc' = [pc EXCEPT ![t] = "giveup"]
           /\ UNCHANGED <<path, fd, sending>>
    OBVIOUS
  <2>5. UNCHANGED <<kernelVars, known, sockVars, avail, registered, garbage, dfd, rfd, rconn,
                   told, failed>>
    OBVIOUS
  <2> HIDE DEF CreateThread
  <2>6. /\ rpc' \in [Receivers -> ReceiverPCs] /\ rpath' \in [Receivers -> Peers \cup {NoPeer}]
        /\ pool' \in [Peers -> Receivers \cup {NoRcv}]
        /\ \A r \in Receivers : rpc'[r] # "none" => rpath'[r] \in Peers
    <3>1. CASE UNCHANGED <<rpc, rpath, pool>>
      BY <3>1 DEF TypeOK
    <3>2. CASE \E r \in Receivers : /\ rpc' = [rpc EXCEPT ![r] = "start"]
                                    /\ rpath' = [rpath EXCEPT ![r] = path[t]]
                                    /\ pool' = [pool EXCEPT ![path[t]] = r]
      BY <2>1, <3>2 DEF TypeOK, ReceiverPCs
    <3> QED
      BY <2>2, <3>1, <3>2
  <2>7. /\ dpc' \in [Threads -> DiscPCs] /\ dpath' \in [Threads -> Peers \cup {NoPeer}]
        /\ \A u \in Threads : dpc'[u] # "out" => dpath'[u] \in Peers
    BY <2>1, <2>3 DEF TypeOK, DiscPCs
  <2>8. /\ pc' \in [Callers -> CallerPCs] /\ path' \in [Callers -> Peers \cup {NoPeer}]
        /\ fd' \in [Callers -> Fds \cup {NoFd}] /\ sending' \in [Callers -> BOOLEAN]
        /\ \A u \in Callers : pc'[u] \notin {"ready", "clear"} => path'[u] \in Peers
    <3>1. CASE Return(t)
      BY <3>1 DEF TypeOK, CallerPCs
    <3>2. CASE /\ pc' = [pc EXCEPT ![t] = "write"] \/ pc' = [pc EXCEPT ![t] = "giveup"]
               /\ UNCHANGED <<path, fd, sending>>
      BY <2>1, <3>2 DEF TypeOK, CallerPCs
    <3> QED
      BY <2>4, <3>1, <3>2
  <2> QED
    BY <2>5, <2>6, <2>7, <2>8 DEF TypeOK
<1>2. MapsAgree'
  BY DEF TypeOK, MapsAgree, CallersOK
<1>3. CallersOK'
  BY DEF TypeOK, CallersOK
<1>4. PoolOK'
  BY DEF TypeOK, PoolOK
<1>5. ToldOK'
  <2>1. \/ UNCHANGED <<rpc, rpath, pool>>
        \/ \E r \in Receivers : /\ rpc[r] = "none" /\ pool[path[t]] = NoRcv
                                /\ rpc' = [rpc EXCEPT ![r] = "start"]
                                /\ rpath' = [rpath EXCEPT ![r] = path[t]]
                                /\ pool' = [pool EXCEPT ![path[t]] = r]
    OBVIOUS
  <2>2. told' = told /\ path[t] \in Peers
    BY DEF TypeOK
  <2> HIDE DEF CreateThread
  <2>3. CASE UNCHANGED <<rpc, rpath, pool>>
    BY <2>2, <2>3 DEF ToldOK, Open
  <2>4. ASSUME NEW r \in Receivers, rpc[r] = "none", pool[path[t]] = NoRcv,
               rpc' = [rpc EXCEPT ![r] = "start"], rpath' = [rpath EXCEPT ![r] = path[t]],
               pool' = [pool EXCEPT ![path[t]] = r]
        PROVE  ToldOK'
    <3>1. ~Open(path[t])
      BY <2>2, <2>4 DEF ToldOK
    <3>2. \A p \in Peers : pool[p] # r
      BY <2>4, Sets DEF PoolOK
    <3>3. /\ rpc'[r] = "start" /\ rpath'[r] = path[t]
          /\ \A s \in Receivers : s # r => rpc'[s] = rpc[s] /\ rpath'[s] = rpath[s]
      BY <2>4 DEF TypeOK
    <3>4. \A p \in Peers : p # path[t] => pool'[p] = pool[p]
      BY <2>4 DEF TypeOK
    <3>5. \A p \in Peers : pool[p] \in Receivers \cup {NoRcv}
      BY DEF TypeOK
    <3> QED
      BY <2>2, <3>1, <3>2, <3>3, <3>4, <3>5, Sets DEF ToldOK, Open
  <2> QED
    BY <2>1, <2>3, <2>4
<1>6. ListedIsServed'
  BY DEF TypeOK, PoolOK, ListedIsServed
<1> QED
  BY <1>1, <1>2, <1>3, <1>4, <1>5, <1>6

LEMMA GiveUpKeeps ==
    ASSUME TInv, NEW t \in Callers, GiveUp(t)
    PROVE  TInv'
<1> USE Sets DEF TInv, GiveUp, Close, Closed, Return, Running, At, DiscAt, RcvAt, Idle,
       kernelVars, sockVars, poolVars, callVars, discVars, rcvVars
<1>1. TypeOK'
  <2>1. /\ avail' = avail \/ avail' = SelfFd
        /\ fdConn' = fdConn \/ fdConn' = Closed(fd[t])
        /\ misclosed' = misclosed \/ misclosed' = "once"
        /\ \/ Return(t)
           \/ UNCHANGED callVars
        /\ failed' \in {failed, "thrown"}
    OBVIOUS
  <2>2. UNCHANGED <<sess, known, sockVars, registered, poolVars, discVars, rcvVars, told>>
    OBVIOUS
  <2> HIDE DEF GiveUp
  <2>3. /\ avail' \in Fds \cup {NoFd} /\ fdConn' \in [Fds -> Conns \cup {NoConn, "free"}]
        /\ misclosed' \in {"never", "once"}
    BY <2>1 DEF TypeOK
  <2>4. /\ pc' \in [Callers -> CallerPCs] /\ path' \in [Callers -> Peers \cup {NoPeer}]
        /\ fd' \in [Callers -> Fds \cup {NoFd}] /\ sending' \in [Callers -> BOOLEAN]
        /\ \A u \in Callers : pc'[u] \notin {"ready", "clear"} => path'[u] \in Peers
    <3>1. CASE Return(t)
      BY <3>1 DEF TypeOK, CallerPCs
    <3>2. CASE UNCHANGED callVars
      BY <3>2 DEF TypeOK
    <3> QED
      BY <2>1, <3>1, <3>2
  <2> QED
    BY <2>1, <2>2, <2>3, <2>4 DEF TypeOK
<1>2. MapsAgree'
  BY DEF TypeOK, MapsAgree, CallersOK
<1>3. CallersOK'
  BY DEF TypeOK, CallersOK
<1>4. PoolOK'
  BY DEF TypeOK, PoolOK
<1>5. ToldOK'
  BY DEF TypeOK, PoolOK, ToldOK, Open
<1>6. ListedIsServed'
  BY DEF TypeOK, PoolOK, ListedIsServed
<1> QED
  BY <1>1, <1>2, <1>3, <1>4, <1>5, <1>6

LEMMA GetSocketKeeps ==
    ASSUME TInv, NEW t \in Callers, GetSocket(t)
    PROVE  TInv'
<1> USE Sets DEF TInv, GetSocket, Running, At, DiscAt, RcvAt, Idle, kernelVars, sockVars,
       poolVars, callVars, discVars, rcvVars
<1>1. TypeOK'
  BY DEF TypeOK, CallersOK, CallerPCs, ReceiverPCs, DiscPCs
<1>2. MapsAgree'
  BY DEF TypeOK, MapsAgree, CallersOK
<1>3. CallersOK'
  BY DEF TypeOK, CallersOK
<1>4. PoolOK'
  BY DEF TypeOK, PoolOK
<1>5. ToldOK'
  BY DEF TypeOK, PoolOK, ToldOK, Open
<1>6. ListedIsServed'
  BY DEF TypeOK, PoolOK, ListedIsServed
<1> QED
  BY <1>1, <1>2, <1>3, <1>4, <1>5, <1>6

LEMMA WriteMsgKeeps ==
    ASSUME TInv, NEW t \in Callers, WriteMsg(t)
    PROVE  TInv'
<1> USE Sets DEF TInv, WriteMsg, Return, Running, At, DiscAt, RcvAt, Idle, kernelVars,
       sockVars, poolVars, callVars, discVars, rcvVars
<1>1. TypeOK'
  BY DEF TypeOK, CallersOK, CallerPCs, ReceiverPCs, DiscPCs
<1>2. MapsAgree'
  BY DEF TypeOK, MapsAgree, CallersOK
<1>3. CallersOK'
  BY DEF TypeOK, CallersOK
<1>4. PoolOK'
  BY DEF TypeOK, PoolOK
<1>5. ToldOK'
  BY DEF TypeOK, PoolOK, ToldOK, Open
<1>6. ListedIsServed'
  BY DEF TypeOK, PoolOK, ListedIsServed
<1> QED
  BY <1>1, <1>2, <1>3, <1>4, <1>5, <1>6

-----------------------------------------------------------------------------
(* disconnection. *)

LEMMA DiscCheckKeeps ==
    ASSUME TInv, NEW t \in Threads, DiscCheck(t)
    PROVE  TInv'
<1> USE Sets DEF TInv, DiscCheck, Running, At, DiscAt, RcvAt, Idle, kernelVars, sockVars,
       poolVars, callVars, discVars, rcvVars
<1>1. TypeOK'
  <2>1. /\ dpc' \in [Threads -> DiscPCs] /\ dpath' \in [Threads -> Peers \cup {NoPeer}]
        /\ \A u \in Threads : dpc'[u] # "out" => dpath'[u] \in Peers
    BY DEF TypeOK, DiscPCs
  <2> QED
    BY <2>1 DEF TypeOK
<1>2. MapsAgree'
  BY DEF TypeOK, MapsAgree, CallersOK
<1>3. CallersOK'
  BY DEF TypeOK, CallersOK
<1>4. PoolOK'
  BY DEF TypeOK, PoolOK
<1>5. ToldOK'
  BY DEF TypeOK, PoolOK, ToldOK, Open
<1>6. ListedIsServed'
  BY DEF TypeOK, PoolOK, ListedIsServed
<1> QED
  BY <1>1, <1>2, <1>3, <1>4, <1>5, <1>6

LEMMA DiscGetKeeps ==
    ASSUME TInv, NEW t \in Threads, DiscGet(t)
    PROVE  TInv'
<1> USE Sets DEF TInv, DiscGet, Running, At, DiscAt, RcvAt, Idle, kernelVars, sockVars,
       poolVars, callVars, discVars, rcvVars
<1>1. TypeOK'
  BY DEF TypeOK, CallersOK, CallerPCs, ReceiverPCs, DiscPCs
<1>2. MapsAgree'
  BY DEF TypeOK, MapsAgree, CallersOK
<1>3. CallersOK'
  BY DEF TypeOK, CallersOK
<1>4. PoolOK'
  BY DEF TypeOK, PoolOK
<1>5. ToldOK'
  BY DEF TypeOK, PoolOK, ToldOK, Open
<1>6. ListedIsServed'
  BY DEF TypeOK, PoolOK, ListedIsServed
<1> QED
  BY <1>1, <1>2, <1>3, <1>4, <1>5, <1>6

LEMMA DiscCloseKeeps ==
    ASSUME TInv, NEW t \in Threads, DiscClose(t)
    PROVE  TInv'
<1> USE Sets DEF TInv, DiscClose, Close, Closed, Running, At, DiscAt, RcvAt, Idle, kernelVars,
       sockVars, poolVars, callVars, discVars, rcvVars
<1>1. TypeOK'
  BY DEF TypeOK, CallersOK, CallerPCs, ReceiverPCs, DiscPCs
<1>2. MapsAgree'
  BY DEF TypeOK, MapsAgree, CallersOK
<1>3. CallersOK'
  BY DEF TypeOK, CallersOK
<1>4. PoolOK'
  BY DEF TypeOK, PoolOK
<1>5. ToldOK'
  BY DEF TypeOK, PoolOK, ToldOK, Open
<1>6. ListedIsServed'
  BY DEF TypeOK, PoolOK, ListedIsServed
<1> QED
  BY <1>1, <1>2, <1>3, <1>4, <1>5, <1>6

LEMMA DiscRemoveKeeps ==
    ASSUME TInv, NEW t \in Threads, DiscRemove(t)
    PROVE  TInv'
<1> USE Sets DEF TInv, DiscRemove, Running, At, DiscAt, RcvAt, Idle, kernelVars, sockVars,
       poolVars, callVars, discVars, rcvVars
<1>1. TypeOK'
  <2>1. sockAddr' \in [Peers -> Fds \cup {NoFd}] /\ sockAlias' \in [Fds -> Peers \cup {NoPeer}]
    <3>1. /\ dpath[t] \in Peers /\ sockAddr[dpath[t]] \in Fds \cup {NoFd}
          /\ sockAddr \in [Peers -> Fds \cup {NoFd}] /\ sockAlias \in [Fds -> Peers \cup {NoPeer}]
      BY DEF TypeOK
    <3>2. \/ /\ sockAddr' = [sockAddr EXCEPT ![dpath[t]] = NoFd]
             /\ sockAlias' = [sockAlias EXCEPT ![sockAddr[dpath[t]]] = NoPeer]
          \/ UNCHANGED sockVars
      OBVIOUS
    <3> HIDE DEF DiscRemove, TInv
    <3> QED
      BY <3>1, <3>2
  <2>2. \E s \in {"release", "unregist"} : dpc' = [dpc EXCEPT ![t] = s]
    OBVIOUS
  <2>3. UNCHANGED <<kernelVars, known, avail, registered, poolVars, callVars, dpath, dfd,
                   rcvVars, told, failed>> /\ dpath[t] \in Peers
    BY DEF TypeOK
  <2> HIDE DEF DiscRemove
  <2>4. /\ dpc' \in [Threads -> DiscPCs]
        /\ \A u \in Threads : dpc'[u] # "out" => dpath'[u] \in Peers
    BY <2>2, <2>3 DEF TypeOK, DiscPCs
  <2> QED
    BY <2>1, <2>3, <2>4 DEF TypeOK
<1>2. MapsAgree'
  BY DEF TypeOK, MapsAgree, CallersOK
<1>3. CallersOK'
  BY DEF TypeOK, CallersOK
<1>4. PoolOK'
  BY DEF TypeOK, PoolOK
<1>5. ToldOK'
  BY DEF TypeOK, PoolOK, ToldOK, Open
<1>6. ListedIsServed'
  BY DEF TypeOK, PoolOK, ListedIsServed
<1> QED
  BY <1>1, <1>2, <1>3, <1>4, <1>5, <1>6

LEMMA DiscReleaseKeeps ==
    ASSUME TInv, NEW t \in Threads, DiscRelease(t)
    PROVE  TInv'
<1> USE Sets DEF TInv, DiscRelease, Running, At, DiscAt, RcvAt, Idle, kernelVars,
       sockVars, poolVars, callVars, discVars, rcvVars
<1>1. TypeOK'
  BY DEF TypeOK, CallersOK, CallerPCs, ReceiverPCs, DiscPCs
<1>2. MapsAgree'
  BY DEF TypeOK, MapsAgree, CallersOK
<1>3. CallersOK'
  BY DEF TypeOK, CallersOK
<1>4. PoolOK'
  BY DEF TypeOK, PoolOK
<1>5. ToldOK'
  BY DEF TypeOK, PoolOK, ToldOK, Open
<1>6. ListedIsServed'
  BY DEF TypeOK, PoolOK, ListedIsServed
<1> QED
  BY <1>1, <1>2, <1>3, <1>4, <1>5, <1>6

LEMMA DiscUnregistKeeps ==
    ASSUME TInv, NEW t \in Threads, DiscUnregist(t)
    PROVE  TInv'
<1> USE Sets DEF TInv, DiscUnregist, Running, At, DiscAt, RcvAt, Idle, kernelVars,
       sockVars, poolVars, callVars, discVars, rcvVars
<1>1. TypeOK'
  BY DEF TypeOK, CallersOK, CallerPCs, ReceiverPCs, DiscPCs
<1>2. MapsAgree'
  BY DEF TypeOK, MapsAgree, CallersOK
<1>3. CallersOK'
  BY DEF TypeOK, CallersOK
<1>4. PoolOK'
  BY DEF TypeOK, PoolOK
<1>5. ToldOK'
  BY DEF TypeOK, PoolOK, ToldOK, Open
<1>6. ListedIsServed'
  BY DEF TypeOK, PoolOK, ListedIsServed
<1> QED
  BY <1>1, <1>2, <1>3, <1>4, <1>5, <1>6

-----------------------------------------------------------------------------
(* run_receiver. *)

LEMMA RcvStartKeeps ==
    ASSUME TInv, NEW r \in Receivers, RcvStart(r)
    PROVE  TInv'
<1> USE Sets DEF TInv, RcvStart, RcvQuiet, Running, At, DiscAt, RcvAt, Idle, kernelVars,
       sockVars, poolVars, callVars, discVars, rcvVars
<1>1. TypeOK'
  BY DEF TypeOK, CallersOK, CallerPCs, ReceiverPCs, DiscPCs
<1>2. MapsAgree'
  BY DEF TypeOK, MapsAgree, CallersOK
<1>3. CallersOK'
  BY DEF TypeOK, CallersOK
<1>4. PoolOK'
  BY DEF TypeOK, PoolOK
<1>5. ToldOK'
  BY DEF TypeOK, PoolOK, ToldOK, Open
<1>6. ListedIsServed'
  BY DEF TypeOK, PoolOK, ListedIsServed
<1> QED
  BY <1>1, <1>2, <1>3, <1>4, <1>5, <1>6

LEMMA RcvRegistKeeps ==
    ASSUME TInv, NEW r \in Receivers, RcvRegist(r)
    PROVE  TInv'
<1> USE Sets DEF TInv, RcvRegist, RcvQuiet, Running, At, DiscAt, RcvAt, Idle, kernelVars,
       sockVars, poolVars, callVars, discVars, rcvVars
<1>1. TypeOK'
  BY DEF TypeOK, CallersOK, CallerPCs, ReceiverPCs, DiscPCs
<1>2. MapsAgree'
  BY DEF TypeOK, MapsAgree, CallersOK
<1>3. CallersOK'
  BY DEF TypeOK, CallersOK
<1>4. PoolOK'
  BY DEF TypeOK, PoolOK
<1>5. ToldOK'
  BY DEF TypeOK, PoolOK, ToldOK, Open
<1>6. ListedIsServed'
  BY DEF TypeOK, PoolOK, ListedIsServed
<1> QED
  BY <1>1, <1>2, <1>3, <1>4, <1>5, <1>6

(* What the receiver of a path does with the application's view of its peer *)
(* disturbs nobody else's: the path has no other receiver.                  *)
LEMMA OwnView ==
    ASSUME TypeOK, PoolOK, ToldOK, NEW r \in Receivers, NEW s, NEW v,
           rpc[r] \notin {"none", "done"}, UNCHANGED <<rpath, pool>>,
           rpc' = [rpc EXCEPT ![r] = s], told' = [told EXCEPT ![rpath[r]] = v],
           \/ s = "closing" /\ v = "disconnected"
           \/ s = "read" /\ v = "connected"
           \/ s = "caught" /\ v \in {"connected", "refused"}
    PROVE  ToldOK'
<1>1. rpath[r] \in Peers /\ pool[rpath[r]] = r
  BY DEF TypeOK, PoolOK
<1>2. /\ rpc'[r] = s /\ \A q \in Receivers : q # r => rpc'[q] = rpc[q]
      /\ told'[rpath[r]] = v /\ \A p \in Peers : p # rpath[r] => told'[p] = told[p]
  BY <1>1 DEF TypeOK
<1>3. \A q \in Receivers : q # r /\ rpc[q] \notin {"none", "done"} => rpath[q] # rpath[r]
  BY <1>1 DEF PoolOK
<1>4. \A p \in Peers : pool[p] = r => p = rpath[r]
  BY Sets DEF PoolOK
<1>5. /\ \A p \in Peers : pool[p] \in Receivers \cup {NoRcv}
      /\ \A q \in Receivers : rpc[q] # "none" => rpath[q] \in Peers
  BY DEF TypeOK
<1>6. ASSUME NEW q \in Receivers
      PROVE  /\ rpc'[q] \in {"start", "regist", "connected"} => ~Open(rpath[q])'
             /\ rpc'[q] \in {"read", "blocked", "unregist", "tell"} =>
                    told'[rpath[q]] = "connected"
             /\ rpc'[q] \in {"caught", "retell"} => Open(rpath[q])'
  <2>1. CASE q = r
    BY <1>1, <1>2, <2>1 DEF Open
  <2>2. CASE q # r
    BY <1>2, <1>3, <1>5, <2>2 DEF ToldOK, Open
  <2> QED
    BY <2>1, <2>2
<1>7. ASSUME NEW p \in Peers, Open(p)'
      PROVE  pool[p] # NoRcv /\ rpc'[pool[p]] \in {"read", "blocked", "unregist", "tell",
                                                   "caught", "retell"}
  <2>1. CASE p = rpath[r]
    BY <1>1, <1>2, <1>7, <2>1, Sets DEF Open
  <2>2. CASE p # rpath[r]
    BY <1>2, <1>4, <1>5, <1>7, <2>2 DEF ToldOK, Open
  <2> QED
    BY <2>1, <2>2
<1> QED
  BY <1>6, <1>7 DEF ToldOK, Open

LEMMA RcvConnectedKeeps ==
    ASSUME TInv, NEW r \in Receivers, RcvConnected(r)
    PROVE  TInv'
<1> USE Sets DEF TInv, RcvConnected, RcvQuiet, Running, At, DiscAt, RcvAt, Idle,
       kernelVars, sockVars, poolVars, callVars, discVars, rcvVars
<1>1. TypeOK'
  BY DEF TypeOK, CallersOK, CallerPCs, ReceiverPCs, DiscPCs
<1>2. MapsAgree'
  BY DEF TypeOK, MapsAgree, CallersOK
<1>3. CallersOK'
  BY DEF TypeOK, CallersOK
<1>4. PoolOK'
  BY DEF TypeOK, PoolOK
<1>5. ToldOK'
  <2>1. /\ rpc[r] = "connected" /\ UNCHANGED <<rpath, pool>>
        /\ told' = [told EXCEPT ![rpath[r]] = "connected"]
        /\ \E s \in {"read", "caught"} : rpc' = [rpc EXCEPT ![r] = s]
    OBVIOUS
  <2> HIDE DEF RcvConnected
  <2> QED
    BY <2>1, OwnView
<1>6. ListedIsServed'
  BY DEF TypeOK, PoolOK, ListedIsServed
<1> QED
  BY <1>1, <1>2, <1>3, <1>4, <1>5, <1>6

LEMMA RcvReadKeeps ==
    ASSUME TInv, NEW r \in Receivers, RcvRead(r)
    PROVE  TInv'
<1> USE Sets DEF TInv, RcvRead, RcvQuiet, Running, At, DiscAt, RcvAt, Idle, kernelVars,
       sockVars, poolVars, callVars, discVars, rcvVars
<1>1. TypeOK'
  <2>1. \/ rpc' = [rpc EXCEPT ![r] = "blocked"]
        \/ rpc' = [rpc EXCEPT ![r] = "caught"]
    OBVIOUS
  <2>2. rconn' \in [Receivers -> Conns \cup {NoConn}]
    BY DEF TypeOK
  <2>3. UNCHANGED <<kernelVars, known, sockVars, avail, registered, poolVars, callVars,
                   discVars, rpath, rfd, told, failed>> /\ rpath[r] \in Peers
    BY DEF TypeOK
  <2> HIDE DEF RcvRead
  <2>4. /\ rpc' \in [Receivers -> ReceiverPCs]
        /\ \A s \in Receivers : rpc'[s] # "none" => rpath'[s] \in Peers
    BY <2>1, <2>3 DEF TypeOK, ReceiverPCs
  <2> QED
    BY <2>2, <2>3, <2>4 DEF TypeOK
<1>2. MapsAgree'
  BY DEF TypeOK, MapsAgree, CallersOK
<1>3. CallersOK'
  BY DEF TypeOK, CallersOK
<1>4. PoolOK'
  BY DEF TypeOK, PoolOK
<1>5. ToldOK'
  <2>1. /\ rpc[r] = "read" /\ UNCHANGED <<rpath, pool, told>>
        /\ \E s \in {"blocked", "caught"} : rpc' = [rpc EXCEPT ![r] = s]
    OBVIOUS
  <2> HIDE DEF RcvRead
  <2>2. /\ rpc'[r] \in {"blocked", "caught"}
        /\ \A q \in Receivers : q # r => rpc'[q] = rpc[q]
    BY <2>1 DEF TypeOK
  <2>3. \A p \in Peers : pool[p] \in Receivers \cup {NoRcv}
    BY DEF TypeOK
  <2> QED
    BY <2>1, <2>2, <2>3, Sets DEF ToldOK, Open
<1>6. ListedIsServed'
  BY DEF TypeOK, PoolOK, ListedIsServed
<1> QED
  BY <1>1, <1>2, <1>3, <1>4, <1>5, <1>6

LEMMA RcvMessageKeeps ==
    ASSUME TInv, NEW r \in Receivers, RcvMessage(r)
    PROVE  TInv'
<1> USE Sets DEF TInv, RcvMessage, RcvQuiet, Running, At, DiscAt, RcvAt, Idle, kernelVars,
       sockVars, poolVars, callVars, discVars, rcvVars
<1>1. TypeOK'
  BY DEF TypeOK, CallersOK, CallerPCs, ReceiverPCs, DiscPCs
<1>2. MapsAgree'
  BY DEF TypeOK, MapsAgree, CallersOK
<1>3. CallersOK'
  BY DEF TypeOK, CallersOK
<1>4. PoolOK'
  BY DEF TypeOK, PoolOK
<1>5. ToldOK'
  BY DEF TypeOK, PoolOK, ToldOK, Open
<1>6. ListedIsServed'
  BY DEF TypeOK, PoolOK, ListedIsServed
<1> QED
  BY <1>1, <1>2, <1>3, <1>4, <1>5, <1>6

LEMMA RcvEndKeeps ==
    ASSUME TInv, NEW r \in Receivers, RcvEnd(r)
    PROVE  TInv'
<1> USE Sets DEF TInv, RcvEnd, RcvQuiet, Running, At, DiscAt, RcvAt, Idle, kernelVars,
       sockVars, poolVars, callVars, discVars, rcvVars
<1>1. TypeOK'
  BY DEF TypeOK, CallersOK, CallerPCs, ReceiverPCs, DiscPCs
<1>2. MapsAgree'
  BY DEF TypeOK, MapsAgree, CallersOK
<1>3. CallersOK'
  BY DEF TypeOK, CallersOK
<1>4. PoolOK'
  BY DEF TypeOK, PoolOK
<1>5. ToldOK'
  BY DEF TypeOK, PoolOK, ToldOK, Open
<1>6. ListedIsServed'
  BY DEF TypeOK, PoolOK, ListedIsServed
<1> QED
  BY <1>1, <1>2, <1>3, <1>4, <1>5, <1>6

LEMMA RcvUnregistKeeps ==
    ASSUME TInv, NEW r \in Receivers, RcvUnregist(r)
    PROVE  TInv'
<1> USE Sets DEF TInv, RcvUnregist, RcvQuiet, Running, At, DiscAt, RcvAt, Idle,
       kernelVars, sockVars, poolVars, callVars, discVars, rcvVars
<1>1. TypeOK'
  BY DEF TypeOK, CallersOK, CallerPCs, ReceiverPCs, DiscPCs
<1>2. MapsAgree'
  BY DEF TypeOK, MapsAgree, CallersOK
<1>3. CallersOK'
  BY DEF TypeOK, CallersOK
<1>4. PoolOK'
  BY DEF TypeOK, PoolOK
<1>5. ToldOK'
  BY DEF TypeOK, PoolOK, ToldOK, Open
<1>6. ListedIsServed'
  BY DEF TypeOK, PoolOK, ListedIsServed
<1> QED
  BY <1>1, <1>2, <1>3, <1>4, <1>5, <1>6

LEMMA RcvTellKeeps ==
    ASSUME TInv, NEW r \in Receivers, RcvTell(r) \/ RcvRetell(r)
    PROVE  TInv'
<1> USE Sets DEF TInv, RcvQuiet, Running, At, DiscAt, RcvAt, Idle, kernelVars,
       sockVars, poolVars, callVars, discVars, rcvVars
<1>1. /\ rpc[r] \in {"tell", "retell"}
      /\ rpath[r] \in Peers
      /\ UNCHANGED <<kernelVars, known, sockVars, avail, registered, poolVars, callVars, dfd,
                     rpath, rfd, rconn>>
      /\ failed' = failed \/ failed' = "thrown"
      /\ \/ GoOnToClose(r)
         \/ /\ told' = [told EXCEPT ![rpath[r]] = "refused"]
            /\ rpc' = [rpc EXCEPT ![r] = "caught"]
            /\ UNCHANGED <<dpc, dpath>>
  BY DEF RcvTell, RcvRetell, TypeOK
<1>2. TypeOK'
  <2>1. /\ \E s \in {"closing", "caught"} : rpc' = [rpc EXCEPT ![r] = s]
        /\ \E v \in {"disconnected", "refused"} : told' = [told EXCEPT ![rpath[r]] = v]
        /\ \/ UNCHANGED <<dpc, dpath>>
           \/ /\ dpc' = [dpc EXCEPT ![r] = "check"]
              /\ dpath' = [dpath EXCEPT ![r] = rpath[r]]
    BY <1>1 DEF GoOnToClose
  <2>2. /\ rpc' \in [Receivers -> ReceiverPCs]
        /\ \A q \in Receivers : rpc'[q] # "none" => rpath[q] \in Peers
    BY <1>1, <2>1 DEF TypeOK, ReceiverPCs
  <2>3. /\ dpc' \in [Threads -> DiscPCs] /\ dpath' \in [Threads -> Peers \cup {NoPeer}]
        /\ \A u \in Threads : dpc'[u] # "out" => dpath'[u] \in Peers
    <3>1. /\ dpc \in [Threads -> DiscPCs] /\ dpath \in [Threads -> Peers \cup {NoPeer}]
          /\ \A u \in Threads : dpc[u] # "out" => dpath[u] \in Peers
          /\ r \in Threads /\ rpath[r] \in Peers
      BY <1>1 DEF TypeOK
    <3> HIDE DEF TInv
    <3> QED
      BY <2>1, <3>1 DEF DiscPCs
  <2>4. told' \in [Peers -> {"nothing", "connected", "disconnected", "refused"}]
    BY <1>1, <2>1 DEF TypeOK
  <2> QED
    <3>1. failed' \in {"nothing", "insert", "start", "null", "send", "thrown"}
      BY <1>1 DEF TypeOK
    <3>2. TypeOK /\ UNCHANGED <<kernelVars, known, sockVars, avail, registered, poolVars, callVars,
                               dfd, rpath, rfd, rconn>>
      BY <1>1
    <3> HIDE DEF TInv
    <3> QED
      BY <2>2, <2>3, <2>4, <3>1, <3>2 DEF TypeOK
<1>3. MapsAgree' /\ CallersOK'
  BY <1>1 DEF TypeOK, MapsAgree, CallersOK, GoOnToClose
<1>4. PoolOK'
  <2>1. CASE GoOnToClose(r)
    BY <1>1, <2>1 DEF TypeOK, PoolOK, GoOnToClose
  <2>2. CASE rpc' = [rpc EXCEPT ![r] = "caught"] /\ UNCHANGED dpc
    BY <1>1, <2>2 DEF TypeOK, PoolOK
  <2> QED
    BY <1>1, <2>1, <2>2
<1>5. ToldOK'
  BY <1>1, OwnView DEF GoOnToClose
<1>6. ListedIsServed'
  <2>1. /\ UNCHANGED <<registered, rpath>>
        /\ \E s \in {"closing", "caught"} : rpc' = [rpc EXCEPT ![r] = s]
    BY <1>1 DEF GoOnToClose
  <2> QED
    BY <1>1, <2>1 DEF TypeOK, PoolOK, ListedIsServed
<1> QED
  BY <1>2, <1>3, <1>4, <1>5, <1>6

LEMMA RcvCaughtKeeps ==
    ASSUME TInv, NEW r \in Receivers, RcvCaught(r)
    PROVE  TInv'
<1> USE Sets DEF TInv, RcvCaught, RcvQuiet, Running, At, DiscAt, RcvAt, Idle,
       kernelVars, sockVars, poolVars, callVars, discVars, rcvVars
<1>1. TypeOK'
  BY DEF TypeOK, CallersOK, CallerPCs, ReceiverPCs, DiscPCs
<1>2. MapsAgree'
  BY DEF TypeOK, MapsAgree, CallersOK
<1>3. CallersOK'
  BY DEF TypeOK, CallersOK
<1>4. PoolOK'
  BY DEF TypeOK, PoolOK
<1>5. ToldOK'
  BY DEF TypeOK, PoolOK, ToldOK, Open
<1>6. ListedIsServed'
  BY DEF TypeOK, PoolOK, ListedIsServed
<1> QED
  BY <1>1, <1>2, <1>3, <1>4, <1>5, <1>6

LEMMA RcvMigrateKeeps ==
    ASSUME TInv, NEW r \in Receivers, RcvMigrate(r)
    PROVE  TInv'
<1> USE Sets DEF TInv, RcvMigrate, RcvQuiet, Running, At, DiscAt, RcvAt, Idle, kernelVars,
       sockVars, poolVars, callVars, discVars, rcvVars
<1>1. TypeOK'
  BY DEF TypeOK, CallersOK, CallerPCs, ReceiverPCs, DiscPCs
<1>2. MapsAgree'
  BY DEF TypeOK, MapsAgree, CallersOK
<1>3. CallersOK'
  BY DEF TypeOK, CallersOK
<1>4. PoolOK'
  BY DEF TypeOK, PoolOK
<1>5. ToldOK'
  BY DEF TypeOK, PoolOK, ToldOK, Open
<1>6. ListedIsServed'
  <2>1. registered' = registered /\ rpath' = rpath /\ rpc' = [rpc EXCEPT ![r] = "done"]
        /\ rpc[r] = "closing"
    OBVIOUS
  <2> HIDE DEF RcvMigrate
  <2>2. \A s \in Receivers : s # r => rpc'[s] = rpc[s]
    BY <2>1 DEF TypeOK
  <2> QED
    BY <2>1, <2>2 DEF ListedIsServed
<1> QED
  BY <1>1, <1>2, <1>3, <1>4, <1>5, <1>6

-----------------------------------------------------------------------------
LEMMA NextKeeps ==
    ASSUME TInv, [Next]_vars
    PROVE  TInv'
<1>1. ASSUME NEW c \in Conns, PeerCloses(c) PROVE TInv'
  BY <1>1, PeerClosesKeeps
<1>2. ASSUME NEW p \in Peers, Accept(p) PROVE TInv'
  BY <1>2, AcceptKeeps
<1>3. ASSUME NEW t \in Apps, NEW p \in Peers, ConnectTry(t, p) \/ Send(t, p) \/ Disconnect(t, p)
      PROVE  TInv'
  BY <1>3, ConnectTryKeeps, SendKeeps, DisconnectKeeps
<1>4. ASSUME NEW t \in Threads, Disconnection(t) PROVE TInv'
  BY <1>4, DiscCheckKeeps, DiscGetKeeps, DiscCloseKeeps, DiscRemoveKeeps, DiscReleaseKeeps,
     DiscUnregistKeeps DEF Disconnection
<1>5. ASSUME NEW t \in Callers, CallerStep(t) PROVE TInv'
  BY <1>4, <1>5, Sets, ClearSelfSockfdKeeps, ConnectKeeps, InsertKeeps, CreateThreadKeeps,
     GiveUpKeeps, GetSocketKeeps, WriteMsgKeeps DEF CallerStep
<1>6. ASSUME NEW r \in Receivers, ReceiverStep(r) \/ RcvMessage(r) PROVE TInv'
  BY <1>4, <1>6, Sets, RcvStartKeeps, RcvRegistKeeps, RcvConnectedKeeps, RcvReadKeeps,
     RcvMessageKeeps, RcvEndKeeps, RcvUnregistKeeps, RcvTellKeeps, RcvCaughtKeeps,
     RcvMigrateKeeps DEF ReceiverStep
<1>7. CASE UNCHANGED vars
  BY <1>7 DEF vars, TInv, TypeOK, MapsAgree, CallersOK, PoolOK, ToldOK, Open, ListedIsServed
<1> QED
  BY <1>1, <1>2, <1>3, <1>5, <1>6, <1>7 DEF Next

LEMMA Always == Spec => []TInv
<1>1. Init => TInv
  BY InitInv
<1>2. TInv /\ [Next]_vars => TInv'
  BY NextKeeps
<1> QED
  BY <1>1, <1>2, PTL DEF Spec

-----------------------------------------------------------------------------
(* Types of the provider's maps, pool, threads and their locals.            *)
THEOREM TypeCorrect == Spec => []TypeOK
<1>1. TInv => TypeOK
  BY DEF TInv
<1> QED
  BY <1>1, Always, PTL

(* The two maps between paths and descriptors stay inverse, whichever       *)
(* threads connect, accept, disconnect and end at once                      *)
(* (CPVD_TCP.cpp:314,368,830).                                              *)
THEOREM InverseMaps == Spec => []MapsAgree
<1>1. TInv => MapsAgree
  BY DEF TInv
<1> QED
  BY <1>1, Always, PTL

(* However often a peer comes and goes, one receiver at a time runs for it  *)
(* (IPVDInf.cpp:226,277).                                                   *)
THEOREM OneReceiver == Spec => []OneReceiverPerPeer
<1>1. TInv => OneReceiverPerPeer
  <2> SUFFICES ASSUME TInv, NEW p \in Peers, NEW r1 \in Receivers, NEW r2 \in Receivers,
                      Serving(r1, p), Serving(r2, p)
               PROVE  r1 = r2
    BY DEF OneReceiverPerPeer
  <2>1. pool[p] = r1 /\ pool[p] = r2
    BY DEF TInv, PoolOK, Serving
  <2> QED
    BY <2>1
<1> QED
  BY <1>1, Always, PTL

(* The application is told of the start and of the end of the sessions with *)
(* a peer in turn, across all of them (CPVD_TCP.cpp:635,671).               *)
THEOREM CallbacksAlternate == Spec => []ToldInTurn
<1>1. TInv => ToldInTurn
  BY DEF TInv, TypeOK, ToldOK, Open, ToldInTurn
<1> QED
  BY <1>1, Always, PTL

(* A peer on the list of connected peers has a receiver whose session is    *)
(* not over (CPVD_TCP.cpp:634, IHProtocolInf.cpp:113).                      *)
THEOREM ListedPeersServed == Spec => []ListedIsServed
<1>1. TInv => ListedIsServed
  BY DEF TInv
<1> QED
  BY <1>1, Always, PTL

-----------------------------------------------------------------------------
(* Descriptors.  An open descriptor belongs to one entry of the maps, or to *)
(* one call that has still to connect or to enter it, until somebody closes *)
(* what is not his.                                                         *)

(* Where a thread can stand while it disconnects. *)
WhereOK ==
    /\ \A t \in Callers : dpc[t] # "out" => pc[t] \in {"ready", "giveup"}
    /\ \A t \in Threads : dpc[t] = "out" => dpath[t] = NoPeer
    /\ ~ClientMode => \A t \in Callers : pc[t] # "clear"

(* What a call has in hand is open and no other call's; an entry with that  *)
(* number is one that its disconnection has closed and is about to remove.  *)
HandsOK ==
    ~ClientMode /\ misclosed = "never" =>
        /\ \A t \in Callers : InHand(t) => fdConn[fd[t]] # "free"
        /\ \A t, u \in Callers : InHand(t) /\ InHand(u) /\ fd[t] = fd[u] => t = u
        /\ \A t \in Callers, p \in Peers : InHand(t) /\ sockAddr[p] = fd[t] =>
               \E u \in Threads : Removing(u, p)

DescInv == WhereOK /\ HandsOK /\ EntryIsOpen /\ InsertFailsOnlyOnReuse

LEMMA DescInit == Init => DescInv
  BY Sets DEF Init, DescInv, WhereOK, HandsOK, EntryIsOpen, InsertFailsOnlyOnReuse, InHand

(* A step that touches neither the kernel's table nor the maps, gives       *)
(* nobody a descriptor in hand and ends no removal.                         *)
Quiet ==
    /\ UNCHANGED <<fdConn, misclosed, sockAddr>>
    /\ failed' # "insert"
    /\ \A u \in Callers : InHand(u)' => InHand(u) /\ fd'[u] = fd[u]
    /\ \A u \in Threads, q \in Peers : Removing(u, q) => Removing(u, q)'

LEMMA QuietKeeps ==
    ASSUME DescInv, WhereOK', Quiet
    PROVE  DescInv'
<1>1. HandsOK'
  BY DEF DescInv, HandsOK, Quiet
<1>2. EntryIsOpen'
  BY DEF DescInv, EntryIsOpen, Quiet
<1>3. InsertFailsOnlyOnReuse'
  BY DEF InsertFailsOnlyOnReuse, Quiet
<1> QED
  BY <1>1, <1>2, <1>3 DEF DescInv

(* The calls, after Insert. *)
LEMMA CallsQuiet ==
    ASSUME TInv, DescInv, NEW t \in Callers,
           CreateThread(t) \/ GetSocket(t) \/ WriteMsg(t)
    PROVE  DescInv'
<1> USE Sets DEF TInv, TypeOK, DescInv, Running, At, DiscAt, RcvAt, Idle, kernelVars, sockVars,
       poolVars, callVars, discVars, rcvVars
<1>1. ASSUME CreateThread(t) PROVE Quiet /\ WhereOK'
  <2>1. WhereOK'
    <3>1. /\ pc[t] = "create" /\ path[t] \in Peers
          /\ \E s \in {"write", "ready", "giveup"} : pc' = [pc EXCEPT ![t] = s]
          /\ \/ UNCHANGED <<dpc, dpath>>
             \/ /\ dpc' = [dpc EXCEPT ![t] = "check"]
                /\ dpath' = [dpath EXCEPT ![t] = path[t]]
                /\ pc' = [pc EXCEPT ![t] = "giveup"]
      BY <1>1 DEF CreateThread, Connected, Return
    <3>2. /\ pc \in [Callers -> CallerPCs] /\ dpc \in [Threads -> DiscPCs]
          /\ dpath \in [Threads -> Peers \cup {NoPeer}]
      OBVIOUS
    <3> HIDE DEF TInv, TypeOK
    <3> QED
      BY <3>1, <3>2 DEF WhereOK
  <2>2. Quiet
    <3>1. dpc[t] = "out" /\ ~InHand(t)
      BY <1>1 DEF CreateThread, WhereOK, InHand
    <3>2. UNCHANGED <<fdConn, misclosed, sockAddr, failed>>
      BY <1>1 DEF CreateThread
    <3>3. \/ UNCHANGED <<dpc, dpath>>
          \/ dpc' = [dpc EXCEPT ![t] = "check"] /\ dpath' = [dpath EXCEPT ![t] = path[t]]
      BY <1>1 DEF CreateThread
    <3>4. \/ pc' \in {[pc EXCEPT ![t] = s] : s \in {"write", "giveup"}} /\ fd' = fd
          \/ pc' = [pc EXCEPT ![t] = "ready"] /\ fd' = [fd EXCEPT ![t] = NoFd]
      BY <1>1 DEF CreateThread, Connected, Return
    <3>5. \A u \in Callers : InHand(u)' => InHand(u) /\ fd'[u] = fd[u]
      BY <3>1, <3>4 DEF InHand
    <3>6. \A u \in Threads, q \in Peers : Removing(u, q) => Removing(u, q)'
      BY <3>1, <3>3 DEF Removing
    <3> QED
      BY <1>1, <3>2, <3>5, <3>6 DEF Quiet, CreateThread
  <2> QED
    BY <2>1, <2>2
<1>2. ASSUME GetSocket(t) PROVE Quiet /\ WhereOK'
  <2>1. WhereOK'
    BY <1>2 DEF WhereOK, GetSocket
  <2>2. Quiet
    BY <1>2 DEF Quiet, InHand, Removing, GetSocket
  <2> QED
    BY <2>1, <2>2
<1>3. ASSUME WriteMsg(t) PROVE Quiet /\ WhereOK'
  <2>1. WhereOK'
    BY <1>3 DEF WhereOK, WriteMsg, Return
  <2>2. Quiet
    BY <1>3 DEF Quiet, InHand, Removing, WriteMsg, Return
  <2> QED
    BY <2>1, <2>2
<1> QED
  BY <1>1, <1>2, <1>3, QuietKeeps

(* disconnection, without Close and remove. *)
LEMMA DisconnectionQuiet ==
    ASSUME TInv, DescInv, NEW t \in Threads,
           DiscCheck(t) \/ DiscGet(t) \/ DiscRelease(t) \/ DiscUnregist(t)
    PROVE  DescInv'
<1> USE Sets DEF TInv, TypeOK, DescInv, Running, At, DiscAt, RcvAt, Idle, kernelVars, sockVars,
       poolVars, callVars, discVars, rcvVars
<1>1. ASSUME DiscCheck(t) PROVE Quiet /\ WhereOK'
  <2>1. WhereOK'
    BY <1>1 DEF WhereOK, DiscCheck
  <2>2. Quiet
    BY <1>1 DEF Quiet, InHand, Removing, DiscCheck
  <2> QED
    BY <2>1, <2>2
<1>2. ASSUME DiscGet(t) PROVE Quiet /\ WhereOK'
  <2>1. WhereOK'
    BY <1>2 DEF WhereOK, DiscGet
  <2>2. Quiet
    BY <1>2 DEF Quiet, InHand, Removing, DiscGet
  <2> QED
    BY <2>1, <2>2
<1>3. ASSUME DiscRelease(t) PROVE Quiet /\ WhereOK'
  <2>1. WhereOK'
    BY <1>3 DEF WhereOK, DiscRelease
  <2>2. Quiet
    BY <1>3 DEF Quiet, InHand, Removing, DiscRelease
  <2> QED
    BY <2>1, <2>2
<1>4. ASSUME DiscUnregist(t) PROVE Quiet /\ WhereOK'
  <2>1. WhereOK'
    BY <1>4 DEF WhereOK, DiscUnregist
  <2>2. Quiet
    BY <1>4 DEF Quiet, InHand, Removing, DiscUnregist
  <2> QED
    BY <2>1, <2>2
<1> QED
  BY <1>1, <1>2, <1>3, <1>4, QuietKeeps

(* The receivers. *)
LEMMA ReceiversQuiet ==
    ASSUME TInv, DescInv, NEW r \in Receivers,
           RcvStart(r) \/ RcvRegist(r) \/ RcvConnected(r) \/ RcvRead(r) \/ RcvMessage(r)
           \/ RcvEnd(r) \/ RcvUnregist(r) \/ RcvTell(r) \/ RcvCaught(r) \/ RcvRetell(r)
           \/ RcvMigrate(r)
    PROVE  DescInv'
<1> USE Sets DEF TInv, TypeOK, DescInv, Running, At, DiscAt, RcvAt, Idle, kernelVars, sockVars,
       poolVars, callVars, discVars, rcvVars
<1>1. ASSUME RcvStart(r) PROVE Quiet /\ WhereOK'
  <2>1. WhereOK'
    BY <1>1 DEF WhereOK, RcvStart, RcvQuiet
  <2>2. Quiet
    BY <1>1 DEF Quiet, InHand, Removing, RcvStart, RcvQuiet
  <2> QED
    BY <2>1, <2>2
<1>2. ASSUME RcvRegist(r) PROVE Quiet /\ WhereOK'
  <2>1. WhereOK'
    BY <1>2 DEF WhereOK, RcvRegist, RcvQuiet
  <2>2. Quiet
    BY <1>2 DEF Quiet, InHand, Removing, RcvRegist, RcvQuiet
  <2> QED
    BY <2>1, <2>2
<1>3. ASSUME RcvConnected(r) PROVE Quiet /\ WhereOK'
  <2>1. WhereOK'
    BY <1>3 DEF WhereOK, RcvConnected, RcvQuiet
  <2>2. Quiet
    BY <1>3 DEF Quiet, InHand, Removing, RcvConnected, RcvQuiet
  <2> QED
    BY <2>1, <2>2
<1>4. ASSUME RcvRead(r) PROVE Quiet /\ WhereOK'
  <2>1. WhereOK'
    BY <1>4 DEF WhereOK, RcvRead, RcvQuiet
  <2>2. Quiet
    BY <1>4 DEF Quiet, InHand, Removing, RcvRead, RcvQuiet
  <2> QED
    BY <2>1, <2>2
<1>5. ASSUME RcvMessage(r) PROVE Quiet /\ WhereOK'
  <2>1. WhereOK'
    BY <1>5 DEF WhereOK, RcvMessage, RcvQuiet
  <2>2. Quiet
    BY <1>5 DEF Quiet, InHand, Removing, RcvMessage, RcvQuiet
  <2> QED
    BY <2>1, <2>2
<1>6. ASSUME RcvEnd(r) PROVE Quiet /\ WhereOK'
  <2>1. WhereOK'
    BY <1>6 DEF WhereOK, RcvEnd, RcvQuiet
  <2>2. Quiet
    BY <1>6 DEF Quiet, InHand, Removing, RcvEnd, RcvQuiet
  <2> QED
    BY <2>1, <2>2
<1>7. ASSUME RcvUnregist(r) PROVE Quiet /\ WhereOK'
  <2>1. WhereOK'
    BY <1>7 DEF WhereOK, RcvUnregist, RcvQuiet
  <2>2. Quiet
    BY <1>7 DEF Quiet, InHand, Removing, RcvUnregist, RcvQuiet
  <2> QED
    BY <2>1, <2>2
<1>8. ASSUME RcvTell(r) \/ RcvRetell(r) PROVE Quiet /\ WhereOK'
  <2>1. /\ rpc[r] \in {"tell", "retell"} /\ UNCHANGED <<fdConn, misclosed, sockAddr, pc, fd>>
        /\ failed' # "insert"
        /\ \/ UNCHANGED <<dpc, dpath>>
           \/ /\ dpc' = [dpc EXCEPT ![r] = "check"]
              /\ dpath' = [dpath EXCEPT ![r] = rpath[r]]
    BY <1>8 DEF RcvTell, RcvRetell, GoOnToClose, RcvQuiet
  <2>2. WhereOK'
    BY <2>1 DEF WhereOK
  <2>3. Quiet
    BY <2>1 DEF Quiet, InHand, Removing, PoolOK
  <2> QED
    BY <2>2, <2>3
<1>10. ASSUME RcvCaught(r) PROVE Quiet /\ WhereOK'
  <2>1. WhereOK'
    BY <1>10 DEF WhereOK, RcvCaught, RcvQuiet
  <2>2. Quiet
    BY <1>10 DEF Quiet, InHand, Removing, RcvCaught, RcvQuiet
  <2> QED
    BY <2>1, <2>2
<1>9. ASSUME RcvMigrate(r) PROVE Quiet /\ WhereOK'
  <2>1. WhereOK'
    BY <1>9 DEF WhereOK, RcvMigrate
  <2>2. Quiet
    BY <1>9 DEF Quiet, InHand, Removing, RcvMigrate
  <2> QED
    BY <2>1, <2>2
<1> QED
  BY <1>1, <1>2, <1>3, <1>4, <1>5, <1>6, <1>7, <1>8, <1>9, <1>10, QuietKeeps

(* Of a client the invariant says only where a thread can stand. *)
LEMMA ClientKeeps ==
    ASSUME ClientMode, WhereOK'
    PROVE  DescInv'
  BY DEF DescInv, HandsOK, EntryIsOpen, InsertFailsOnlyOnReuse

(* A descriptor that was free and is given out, to one call at most: no call *)
(* has its number in hand, and an entry with it is about to be removed.      *)
LEMMA NewSocketKeeps ==
    ASSUME TInv, DescInv, WhereOK', NEW t \in Callers, NEW f \in Fds, NEW c, c # "free",
           fdConn[f] = "free", fdConn' = [fdConn EXCEPT ![f] = c],
           UNCHANGED <<misclosed, sockAddr, dpc, dpath>>, failed' # "insert",
           \A u \in Callers : InHand(u)' => \/ InHand(u) /\ fd'[u] = fd[u]
                                            \/ u = t /\ fd'[u] = f
    PROVE  DescInv'
<1>1. \A g \in Fds : fdConn'[g] = IF g = f THEN c ELSE fdConn[g]
  BY DEF TInv, TypeOK
<1>2. EntryIsOpen'
  BY <1>1 DEF TInv, TypeOK, DescInv, EntryIsOpen, Removing
<1>3. HandsOK'
  <2> SUFFICES ASSUME ~ClientMode, misclosed = "never" PROVE HandsOK'
    BY DEF HandsOK
  <2>1. \A u \in Callers : InHand(u) => fd[u] \in Fds /\ fd[u] # f
    BY DEF TInv, CallersOK, DescInv, HandsOK, InHand
  <2>2. \A u \in Callers : InHand(u)' => fdConn'[fd'[u]] # "free"
    BY <1>1, <2>1 DEF DescInv, HandsOK
  <2>3. \A u, v \in Callers : InHand(u)' /\ InHand(v)' /\ fd'[u] = fd'[v] => u = v
    BY <2>1 DEF DescInv, HandsOK
  <2>4. \A u \in Callers, p \in Peers : InHand(u)' /\ sockAddr'[p] = fd'[u] =>
            \E v \in Threads : Removing(v, p)'
    <3> SUFFICES ASSUME NEW u \in Callers, NEW p \in Peers, InHand(u)', sockAddr'[p] = fd'[u]
                 PROVE  \E v \in Threads : Removing(v, p)
      BY DEF Removing
    <3>1. CASE InHand(u) /\ fd'[u] = fd[u]
      BY <3>1 DEF DescInv, HandsOK
    <3>2. CASE fd'[u] = f
      BY <3>2, Sets DEF DescInv, EntryIsOpen
    <3> QED
      BY <3>1, <3>2
  <2> QED
    BY <2>2, <2>3, <2>4 DEF HandsOK
<1>4. InsertFailsOnlyOnReuse'
  BY DEF InsertFailsOnlyOnReuse
<1> QED
  BY <1>2, <1>3, <1>4 DEF DescInv

LEMMA AcceptDesc ==
    ASSUME TInv, DescInv, NEW p \in Peers, Accept(p)
    PROVE  DescInv'
<1> USE Sets DEF Accept, Accepting, MakeClientId, FreeFds, UnusedConns, Running, At, Idle,
       discVars, sockVars, callVars
<1>1. WhereOK'
  BY DEF TInv, TypeOK, DescInv, WhereOK
<1>2. PICK f \in FreeFds, c \in UnusedConns :
          /\ fdConn' = [fdConn EXCEPT ![f] = c]
          /\ \/ UNCHANGED <<pc, fd>>
             \/ fd' = [fd EXCEPT ![Acceptor] = f] /\ pc' = [pc EXCEPT ![Acceptor] = "insert"]
  OBVIOUS
<1>3. \A u \in Callers : InHand(u)' => \/ InHand(u) /\ fd'[u] = fd[u]
                                       \/ u = Acceptor /\ fd'[u] = f
  BY <1>2 DEF TInv, TypeOK, InHand
<1>4. c # "free"
  BY TcpAssumption DEF TcpAssumption
<1>5. UNCHANGED <<misclosed, sockAddr, dpc, dpath>> /\ failed' # "insert"
  OBVIOUS
<1>6. f \in Fds /\ fdConn[f] = "free" /\ Acceptor \in Callers
  OBVIOUS
<1> HIDE DEF Accept, FreeFds, UnusedConns
<1> QED
  BY <1>1, <1>2, <1>3, <1>4, <1>5, <1>6, NewSocketKeeps

(* connect_try and send, as far as make_connection's new socket. *)
LEMMA MakeSocketDesc ==
    ASSUME TInv, DescInv, WhereOK', NEW t \in Apps, NEW p \in Peers, MakeSocket(t, p), Running,
           UNCHANGED <<misclosed, sockAddr, dpc, dpath, failed>>
    PROVE  DescInv'
<1> USE Sets DEF MakeSocket, FreeFds, Running
<1>1. PICK f \in FreeFds :
          /\ fdConn' = [fdConn EXCEPT ![f] = NoConn]
          /\ \/ UNCHANGED <<pc, fd>>
             \/ fd' = [fd EXCEPT ![t] = f] /\ pc' = [pc EXCEPT ![t] = "connect"]
  OBVIOUS
<1>2. \A u \in Callers : InHand(u)' => \/ InHand(u) /\ fd'[u] = fd[u]
                                       \/ u = t /\ fd'[u] = f
  BY <1>1 DEF TInv, TypeOK, InHand
<1>3. NoConn # "free"
  BY TcpAssumption DEF TcpAssumption
<1>4. f \in Fds /\ fdConn[f] = "free" /\ t \in Callers /\ failed' # "insert"
  OBVIOUS
<1> HIDE DEF MakeSocket, FreeFds, Running
<1> QED
  BY <1>1, <1>2, <1>3, <1>4, NewSocketKeeps

LEMMA CallsBeginDesc ==
    ASSUME TInv, DescInv, NEW t \in Apps, NEW p \in Peers,
           ConnectTry(t, p) \/ Send(t, p) \/ Disconnect(t, p)
    PROVE  DescInv'
<1> USE Sets DEF Running, At, Idle, kernelVars, sockVars, callVars, discVars
<1>1. t \in Callers
  OBVIOUS
<1>2. WhereOK'
  <2> USE DEF TInv, TypeOK, DescInv, WhereOK
  <2>1. CASE ConnectTry(t, p)
    BY <1>1, <2>1 DEF ConnectTry, MakeConnection, GetSelfSockfd, MakeSocket
  <2>2. CASE Send(t, p)
    BY <1>1, <2>2 DEF Send, MakeConnection, GetSelfSockfd, MakeSocket
  <2>3. CASE Disconnect(t, p)
    BY <1>1, <2>3 DEF Disconnect
  <2> QED
    BY <2>1, <2>2, <2>3
<1>3. CASE ClientMode
  BY <1>2, <1>3, ClientKeeps
<1>4. CASE MakeSocket(t, p) /\ (ConnectTry(t, p) \/ Send(t, p))
  BY <1>2, <1>4, MakeSocketDesc DEF ConnectTry, Send
<1>5. CASE Send(t, p) /\ pc' = [pc EXCEPT ![t] = "get"] /\ UNCHANGED <<fdConn, fd>>
  BY <1>1, <1>2, <1>5, QuietKeeps DEF Send, Quiet, InHand, Removing, TInv, TypeOK
<1>6. CASE Disconnect(t, p)
  BY <1>1, <1>2, <1>6, QuietKeeps DEF Disconnect, Quiet, InHand, Removing, TInv, TypeOK
<1> QED
  BY <1>3, <1>4, <1>5, <1>6 DEF ConnectTry, Send, MakeConnection

LEMMA ClearSelfSockfdDesc ==
    ASSUME TInv, DescInv, NEW t \in Callers, ClearSelfSockfd(t)
    PROVE  DescInv'
<1>1. ClientMode
  BY DEF DescInv, WhereOK, ClearSelfSockfd, At
<1>2. WhereOK'
  BY <1>1, Sets DEF TInv, TypeOK, DescInv, WhereOK, ClearSelfSockfd, Return, At, discVars
<1> QED
  BY <1>1, <1>2, ClientKeeps

LEMMA ConnectDesc ==
    ASSUME TInv, DescInv, NEW t \in Callers, Connect(t)
    PROVE  DescInv'
<1> USE Sets DEF TInv, TypeOK, CallersOK, Connect, UnusedConns, Running, At, kernelVars,
       sockVars, discVars
<1>1. WhereOK'
  <2>1. dpc[t] = "out"
    BY DEF DescInv, WhereOK
  <2>2. pc' \in {[pc EXCEPT ![t] = s] : s \in {"insert", "giveup"}} /\ UNCHANGED discVars
    OBVIOUS
  <2> HIDE DEF Connect
  <2> QED
    BY <2>1, <2>2 DEF DescInv, WhereOK
<1>2. \A g \in Fds : fdConn'[g] # "free" <=> fdConn[g] # "free"
  BY TcpAssumption DEF TcpAssumption
<1>3. /\ UNCHANGED <<misclosed, sockAddr, dpc, dpath, fd>> /\ failed' # "insert"
      /\ \A u \in Callers : InHand(u)' => InHand(u)
  BY DEF InHand
<1>4. \A u \in Callers : InHand(u) => fd[u] \in Fds
  BY DEF InHand
<1>5. \A p \in Peers : sockAddr[p] # NoFd => sockAddr[p] \in Fds
  OBVIOUS
<1> HIDE DEF TInv, TypeOK, CallersOK, Connect
<1>6. HandsOK'
  BY <1>2, <1>3, <1>4 DEF DescInv, HandsOK, Removing
<1>7. EntryIsOpen'
  BY <1>2, <1>3, <1>5 DEF DescInv, EntryIsOpen, Removing
<1>8. InsertFailsOnlyOnReuse'
  BY <1>3 DEF InsertFailsOnlyOnReuse
<1> QED
  BY <1>1, <1>6, <1>7, <1>8 DEF DescInv

(* The descriptor in hand is entered, unless its path has one.  If its       *)
(* number is there, a disconnection of another path is about to remove it.   *)
LEMMA InsertDesc ==
    ASSUME TInv, DescInv, NEW t \in Callers, Insert(t)
    PROVE  DescInv'
<1> USE Sets DEF Insert, Running, At, kernelVars, discVars
<1>1. WhereOK'
  BY DEF TInv, TypeOK, DescInv, WhereOK
<1>2. /\ InHand(t) /\ ~InHand(t)' /\ fd[t] \in Fds /\ path[t] \in Peers
      /\ \A u \in Callers : InHand(u)' => InHand(u)
      /\ UNCHANGED <<misclosed, fdConn, dpc, dpath, fd, path>>
  BY DEF TInv, TypeOK, CallersOK, InHand
<1>3. \/ sockAddr' = sockAddr
      \/ /\ sockAddr'[path[t]] = fd[t]
         /\ \A p \in Peers : p # path[t] => sockAddr'[p] = sockAddr[p]
  BY <1>2 DEF TInv, TypeOK, sockVars
<1>4. HandsOK'
  BY <1>2, <1>3 DEF DescInv, HandsOK, Removing
<1>5. EntryIsOpen'
  BY <1>2, <1>3 DEF DescInv, HandsOK, EntryIsOpen, Removing
<1>6. InsertFailsOnlyOnReuse'
  <2> SUFFICES ASSUME failed' = "insert", ~ClientMode, misclosed = "never"
               PROVE  InsertFailsOnlyOnReuse'
    BY <1>2 DEF InsertFailsOnlyOnReuse
  <2>1. sockAddr[path[t]] = NoFd /\ sockAlias[fd[t]] # NoPeer /\ sockAddr' = sockAddr
    BY DEF sockVars
  <2> DEFINE p == sockAlias[fd[t]]
  <2>2. p \in Peers /\ sockAddr[p] = fd[t] /\ p # path[t]
    BY <1>2, <2>1 DEF TInv, TypeOK, MapsAgree
  <2>3. PICK u \in Threads : Removing(u, p)
    BY <1>2, <2>2 DEF DescInv, HandsOK
  <2>4. u # t
    BY <2>3 DEF DescInv, WhereOK, Removing
  <2>5. pc'[t] = "create"
    BY DEF TInv, TypeOK
  <2> QED
    BY <1>2, <2>1, <2>2, <2>3, <2>4, <2>5 DEF InsertFailsOnlyOnReuse, Removing
<1> QED
  BY <1>1, <1>4, <1>5, <1>6 DEF DescInv

(* Closing: a call that has the number in hand, or an entry of another path  *)
(* with it, is what misclosed remembers.                                     *)
LEMMA CloseKeeps ==
    ASSUME TInv, DescInv, WhereOK', ~ClientMode, NEW t \in Threads, NEW f, Close(t, f),
           \A u \in Callers : InHand(u)' => u # t /\ InHand(u) /\ fd'[u] = fd[u],
           \A u \in Threads, p \in Peers : Removing(u, p) => Removing(u, p)',
           \A p \in Peers : p = dpath[t] => Removing(t, p)',
           sockAddr' = sockAddr, failed' # "insert"
    PROVE  DescInv'
<1>1. \A g \in Fds : fdConn'[g] = IF g = f THEN "free" ELSE fdConn[g]
  BY DEF TInv, TypeOK, Close, Closed
<1>2. misclosed' = "never" => misclosed = "never" /\ ~Foreign(t, f)
  BY DEF Close
<1>3. \A u \in Callers : InHand(u) => fd[u] \in Fds
  BY DEF TInv, CallersOK, InHand
<1>4. \A p \in Peers : sockAddr[p] # NoFd => sockAddr[p] \in Fds
  BY DEF TInv, TypeOK
<1>5. HandsOK'
  BY <1>1, <1>2, <1>3 DEF DescInv, HandsOK, Foreign
<1>6. EntryIsOpen'
  BY <1>1, <1>2, <1>4 DEF DescInv, EntryIsOpen, Foreign
<1>7. InsertFailsOnlyOnReuse'
  BY DEF InsertFailsOnlyOnReuse
<1> QED
  BY <1>5, <1>6, <1>7 DEF DescInv

LEMMA GiveUpDesc ==
    ASSUME TInv, DescInv, NEW t \in Callers, GiveUp(t)
    PROVE  DescInv'
<1> USE Sets DEF GiveUp, Return, Running, At, callVars, sockVars, discVars
<1>1. WhereOK'
  BY DEF TInv, TypeOK, DescInv, WhereOK
<1>2. CASE ClientMode
  BY <1>1, <1>2, ClientKeeps
<1>3. /\ \A u \in Callers : InHand(u)' => u # t /\ InHand(u) /\ fd'[u] = fd[u]
      /\ \A u \in Threads, p \in Peers : Removing(u, p) => Removing(u, p)'
      /\ sockAddr' = sockAddr /\ failed' # "insert"
  <2>1. /\ \A u \in Callers : u # t => pc'[u] = pc[u] /\ fd'[u] = fd[u]
        /\ pc'[t] \in {"ready", "giveup"}
    BY DEF TInv, TypeOK
  <2>2. UNCHANGED <<dpc, dpath, sockAddr>> /\ failed' # "insert"
    OBVIOUS
  <2> QED
    BY <2>1, <2>2 DEF InHand, Removing
<1>4. CASE ~ClientMode /\ Close(t, fd[t])
  <2>1. dpath[t] = NoPeer /\ t \in Threads
    BY DEF DescInv, WhereOK
  <2> HIDE DEF GiveUp
  <2> QED
    BY <1>1, <1>3, <1>4, <2>1, CloseKeeps
<1>5. CASE UNCHANGED <<fdConn, misclosed>>
  <2> HIDE DEF GiveUp
  <2> QED
    BY <1>1, <1>3, <1>5, QuietKeeps DEF Quiet
<1> QED
  BY <1>2, <1>4, <1>5

LEMMA DiscCloseDesc ==
    ASSUME TInv, DescInv, NEW t \in Threads, DiscClose(t)
    PROVE  DescInv'
<1> USE Sets DEF DiscClose, Running, DiscAt, callVars, sockVars
<1>1. WhereOK'
  BY DEF TInv, TypeOK, DescInv, WhereOK
<1>2. CASE ClientMode
  BY <1>1, <1>2, ClientKeeps
<1>3. CASE ~ClientMode
  <2>1. t \in Callers => ~InHand(t)
    BY DEF DescInv, WhereOK, InHand
  <2>2. /\ \A u \in Callers : InHand(u)' => u # t /\ InHand(u) /\ fd'[u] = fd[u]
        /\ sockAddr' = sockAddr /\ failed' # "insert"
    BY <2>1 DEF InHand
  <2>3. /\ \A u \in Threads, p \in Peers : Removing(u, p) => Removing(u, p)'
        /\ \A p \in Peers : p = dpath[t] => Removing(t, p)'
    BY DEF TInv, TypeOK, Removing
  <2>4. Close(t, dfd[t])
    OBVIOUS
  <2> HIDE DEF DiscClose
  <2> QED
    BY <1>1, <1>3, <2>2, <2>3, <2>4, CloseKeeps
<1> QED
  BY <1>2, <1>3

(* Only the entry goes whose disconnection this is. *)
LEMMA DiscRemoveDesc ==
    ASSUME TInv, DescInv, NEW t \in Threads, DiscRemove(t)
    PROVE  DescInv'
<1> USE Sets DEF DiscRemove, Running, DiscAt, callVars, sockVars, kernelVars
<1>1. WhereOK'
  BY DEF TInv, TypeOK, DescInv, WhereOK
<1>2. /\ UNCHANGED <<fdConn, misclosed, fd>> /\ failed' # "insert"
      /\ \A u \in Callers : InHand(u)' = InHand(u)
  BY DEF InHand
<1>3. \A p \in Peers : sockAddr'[p] = IF p = dpath[t] THEN NoFd ELSE sockAddr[p]
  BY DEF TInv, TypeOK
<1>4. \A u \in Threads, p \in Peers : Removing(u, p) /\ p # dpath[t] => Removing(u, p)'
  BY DEF TInv, TypeOK, Removing
<1>5. \A u \in Callers : InHand(u) => fd[u] # NoFd
  BY DEF TInv, CallersOK, InHand
<1> HIDE DEF DiscRemove
<1>6. HandsOK'
  BY <1>2, <1>3, <1>4, <1>5 DEF DescInv, HandsOK
<1>7. EntryIsOpen'
  BY <1>2, <1>3, <1>4 DEF DescInv, EntryIsOpen
<1>8. InsertFailsOnlyOnReuse'
  BY <1>2 DEF InsertFailsOnlyOnReuse
<1> QED
  BY <1>1, <1>6, <1>7, <1>8 DEF DescInv

LEMMA DescKeeps ==
    ASSUME TInv, DescInv, [Next]_vars
    PROVE  DescInv'
<1>1. ASSUME NEW c \in Conns, PeerCloses(c) PROVE DescInv'
  <2>1. WhereOK' /\ Quiet
    BY <1>1 DEF PeerCloses, Running, DescInv, WhereOK, Quiet, InHand, Removing, callVars,
       discVars, sockVars
  <2> QED
    BY <2>1, QuietKeeps
<1>2. ASSUME NEW p \in Peers, Accept(p) PROVE DescInv'
  BY <1>2, AcceptDesc
<1>3. ASSUME NEW t \in Apps, NEW p \in Peers, ConnectTry(t, p) \/ Send(t, p) \/ Disconnect(t, p)
      PROVE  DescInv'
  BY <1>3, CallsBeginDesc
<1>4. ASSUME NEW t \in Threads, Disconnection(t) PROVE DescInv'
  BY <1>4, DiscCloseDesc, DiscRemoveDesc, DisconnectionQuiet DEF Disconnection
<1>5. ASSUME NEW t \in Callers, CallerStep(t) PROVE DescInv'
  BY <1>4, <1>5, Sets, ClearSelfSockfdDesc, ConnectDesc, InsertDesc, GiveUpDesc, CallsQuiet
     DEF CallerStep
<1>6. ASSUME NEW r \in Receivers, ReceiverStep(r) \/ RcvMessage(r) PROVE DescInv'
  BY <1>4, <1>6, Sets, ReceiversQuiet DEF ReceiverStep
<1>7. CASE UNCHANGED vars
  BY <1>7 DEF vars, DescInv, WhereOK, HandsOK, EntryIsOpen, InsertFailsOnlyOnReuse, InHand,
     Removing
<1> QED
  BY <1>1, <1>2, <1>3, <1>5, <1>6, <1>7 DEF Next

LEMMA DescAlways == Spec => []DescInv
<1>1. Init => DescInv
  BY DescInit
<1>2. TInv /\ DescInv /\ [Next]_vars => DescInv'
  BY DescKeeps
<1> QED
  BY <1>1, <1>2, Always, PTL DEF Spec

(* A server writes to open descriptors only (CPVD_TCP.cpp:362-368): an entry *)
(* is closed only between Close and remove, as long as no close hits the     *)
(* descriptor of another session.                                            *)
THEOREM EnteredIsOpen == Spec => []EntryIsOpen
<1>1. DescInv => EntryIsOpen
  BY DEF DescInv
<1> QED
  BY <1>1, DescAlways, PTL

(* The assertion of CAliasAddr::insert (CAliasAddr.cpp:140) ends a server    *)
(* only in that same window, by the number of another path that is about to  *)
(* be removed.                                                               *)
THEOREM InsertAssertion == Spec => []InsertFailsOnlyOnReuse
<1>1. DescInv => InsertFailsOnlyOnReuse
  BY DEF DescInv
<1> QED
  BY <1>1, DescAlways, PTL

===============================================================================
