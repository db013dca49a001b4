-------------------------------- MODULE RxPath --------------------------------
(***************************************************************************)
(* The way of a message from the socket to the application, on TCP:        *)
(* CPVD_TCP::run_receiver reads it and has IHProtocolInf::                 *)
(* handle_protocol_chain push a job; the one looper of the pool runs the   *)
(* job, which builds a protocol chain, may give the peer another name      *)
(* (lamda_update_peer_alias) and calls the message handler.                *)
(*                                                                         *)
(* The receiver tells E_CONNECTED and E_DISCONNECTED itself, and the       *)
(* application may disconnect the peer, so three threads work on the       *)
(* peer's alias object, on _mm_ali4sock_, on the connected peers and on    *)
(* the application at the same time.  ThreadPool describes how a job gets  *)
(* to the looper; here RunJob is taken apart.                              *)
(*                                                                         *)
(* One session with one peer, from regist_connected_peer on (TcpProvider   *)
(* has the assertions before it and what a close does to the descriptors   *)
(* of others); the receivers of other peers of the provider push to the    *)
(* same pool messages that change no name.  A job hands one message on: no *)
(* protocol of the repository overrides get_msg_size.  A message that      *)
(* names no owner, or one that is no path (decompose_full_path), changes   *)
(* nothing.                                                                *)
(***************************************************************************)
EXTENDS ThreadPool, FiniteSets

CONSTANTS Rcv,         \* the receiver of the session
          Lpr,         \* the pool's only looper
          Names,       \* names of the peer
          FirstName,   \* the name under which the session began
          HandlersMayThrow,   \* can the connection handler throw?
          NoName

ASSUME RxAssumption ==
    /\ Rcv \in Producers
    /\ Loopers = {Lpr} /\ InitLoopers = {Lpr}
    /\ RunImmediately = {FALSE}
    /\ FirstName \in Names
    /\ HandlersMayThrow \in BOOLEAN
    /\ NoName \notin Names

VARIABLES
    rpc,        \* where the receiver is in run_receiver
    again,      \* is the receiver in one of run_receiver's handlers?
    endName,    \* the path it tells the end of
    inPool,     \* is the receiver in mLooperPool?
    dstep,      \* where the receiver and the application are in disconnection
    dname,      \* ... and the path it was called with
    open,       \* is the descriptor open?
    jpc,        \* where the looper is in the job
    alias,      \* the path of the alias object both threads share
    fullPath,   \* peer_full_path, the lambda's own copy of the path
    hasAddr,    \* did the lambda's get find the descriptor?
    newName,    \* the lambda's parameter, who_is_owner of the message
    mine,       \* the messages of the session (the others have other receivers)
    sock,       \* the paths _mm_ali4sock_ has for the descriptor
    listed,     \* the paths _mm_connected_peers_ has for the session
    chains,     \* chains of the jobs in proto_chains_map
    view, name, \* what the application was told last
    delivered,  \* the messages it got, in order
    late,       \* history: a change of name met the end of the session
    crossed,    \* history: two disconnections found the path
    failed      \* what ended the process: a null pointer or assertion, or an
                \* exception nobody catches

rcvVars == <<rpc, again, endName, inPool>>
discVars == <<dstep, dname, open>>
jobBodyVars == <<jpc, alias, fullPath, hasAddr, newName, delivered>>
mapVars == <<sock, listed>>
toldVars == <<view, name>>
histVars == <<late, crossed>>
rxVars == <<vars, rcvVars, discVars, jobBodyVars, mine, mapVars, chains, toldVars,
            histVars, failed>>

Updating == jpc \in {"suspend", "unlist", "remove", "rename", "insert", "list", "resume"}

(* Who disconnects. *)
Ends == {"receiver", "application"}

(* The session is at its end, or the application ends it. *)
Ending ==
    \/ rpc \notin {"regist", "connect", "read", "blocked"}
    \/ dstep["application"] # "out"
    \/ ~open

(* Types, apart from the pool's. *)
PathTypeOK ==
    /\ rpc \in {"regist", "connect", "read", "blocked", "unregist", "tell", "check", "migrate",
                "done"}
    /\ jpc \in {"create", "update", "suspend", "unlist", "remove", "rename", "insert", "list",
                "resume", "message", "destroy"}
    /\ dstep \in [Ends -> {"out", "get", "close", "remove", "unlist"}]
    /\ dname \in [Ends -> Names \cup {NoName}]
    /\ {alias, fullPath} \subseteq Names
    /\ {endName, newName, name} \subseteq Names \cup {NoName}
    /\ mine \subseteq Jobs
    /\ sock \subseteq Names
    /\ listed \subseteq Names
    /\ {again, hasAddr, open, inPool, late, crossed} \subseteq BOOLEAN
    /\ chains \in 0 .. 1
    /\ view \in {"nothing", "connected", "suspended", "refused", "resumed", "unheard",
                 "disconnected"}
    /\ delivered \in Seq(Jobs)
    /\ failed \in {"nothing", "null", "thrown"}

RxTypeOK == TypeOK /\ PathTypeOK

RxInit ==
    /\ Init
    /\ rpc = "regist" /\ jpc = "create"
    /\ again = FALSE /\ inPool = TRUE
    /\ dstep = [d \in Ends |-> "out"] /\ dname = [d \in Ends |-> NoName]
    /\ open = TRUE
    /\ alias = FirstName /\ fullPath = FirstName /\ endName = NoName
    /\ hasAddr = FALSE /\ newName = NoName
    /\ mine = {}
    /\ sock = {FirstName} /\ listed = {}
    /\ chains = 0
    /\ view = "nothing" /\ name = NoName
    /\ delivered = <<>>
    /\ late = FALSE /\ crossed = FALSE /\ failed = "nothing"

-----------------------------------------------------------------------------
(* run_receiver. *)

Running == failed = "nothing"
RcvAt(s) == Running /\ rpc = s
RcvGoto(s) == rpc' = s

(* A callback of the connection handler. *)
Tell(s, n) == view' = s /\ name' = n

(* handle_connection(E_DISCONNECTED) begins, after the loop or in a handler *)
(* of run_receiver; the name for it is read from the alias object.          *)
BeginEnd(inHandler) ==
    /\ endName' = alias
    /\ again' = inHandler
    /\ RcvGoto("unregist")
    /\ late' = (late \/ Updating)

RcvRegist ==
    /\ RcvAt("regist")
    /\ listed' = listed \cup {alias}
    /\ RcvGoto("connect")
    /\ UNCHANGED <<vars, again, endName, inPool, discVars, jobBodyVars, mine, sock, chains,
                   toldVars, histVars, failed>>

(* E_CONNECTED; what the callback throws is caught at the end of            *)
(* run_receiver.                                                            *)
RcvConnected ==
    /\ RcvAt("connect")
    /\ Tell("connected", FirstName)
    /\ \/ RcvGoto("read") /\ UNCHANGED <<again, endName, late>>
       \/ HandlersMayThrow /\ BeginEnd(TRUE)
    /\ UNCHANGED <<vars, inPool, discVars, jobBodyVars, mine, mapVars, chains, crossed, failed>>

(* read_msg calls read, which fails if the descriptor is closed by now.     *)
(* (A close does not end a read that has begun.)                            *)
RcvRead ==
    /\ RcvAt("read")
    /\ ppc[Rcv] = "ready"
    /\ \/ open /\ RcvGoto("blocked") /\ UNCHANGED <<again, endName, late>>
       \/ ~open /\ BeginEnd(TRUE)
    /\ UNCHANGED <<vars, inPool, discVars, jobBodyVars, mine, mapVars, chains, toldVars,
                   crossed, failed>>

(* read_msg returns a message, handle_protocol_chain begins run_thread. *)
RcvMessage ==
    /\ RcvAt("blocked")
    /\ PushRunfunc(Rcv)
    /\ mine' = mine \cup {npush + 1}
    /\ RcvGoto("read")
    /\ UNCHANGED <<again, endName, inPool, discVars, jobBodyVars, mapVars, chains, toldVars,
                   histVars, failed>>

(* The rest of run_thread. *)
RcvRunThread ==
    /\ Running
    /\ Producer(Rcv)
    /\ ppc[Rcv] # "ready"
    /\ UNCHANGED <<rcvVars, discVars, jobBodyVars, mine, mapVars, chains, toldVars, histVars,
                   failed>>

(* The receiver of another peer has a message. *)
OtherReceiver(p) ==
    /\ Running
    /\ Producer(p)
    /\ UNCHANGED <<rcvVars, discVars, jobBodyVars, mine, mapVars, chains, toldVars, histVars,
                   failed>>

(* The peer has ended the session: zero bytes, or an error. *)
RcvEnd ==
    /\ RcvAt("blocked")
    /\ \E inHandler \in BOOLEAN : BeginEnd(inHandler)
    /\ UNCHANGED <<vars, inPool, discVars, jobBodyVars, mine, mapVars, chains, toldVars,
                   crossed, failed>>

RcvUnregist ==
    /\ RcvAt("unregist")
    /\ listed' = listed \ {endName}
    /\ RcvGoto("tell")
    /\ UNCHANGED <<vars, again, endName, inPool, discVars, jobBodyVars, mine, sock, chains,
                   toldVars, histVars, failed>>

(* E_DISCONNECTED; disconnection reads the alias object again.  What the    *)
(* callback throws is caught, and E_DISCONNECTED told once more; what it    *)
(* throws from there nobody catches.                                        *)
RcvDisconnected ==
    /\ RcvAt("tell")
    /\ \/ /\ Tell("disconnected", endName)
          /\ RcvGoto("check")
          /\ dname' = [dname EXCEPT !["receiver"] = alias]
          /\ endName' = NoName
          /\ again' = FALSE
          /\ UNCHANGED <<late, failed>>
       \/ /\ HandlersMayThrow /\ ~again
          /\ Tell("unheard", endName)
          /\ BeginEnd(TRUE)
          /\ UNCHANGED <<dname, failed>>
       \/ /\ HandlersMayThrow /\ again
          /\ failed' = "thrown"
          /\ UNCHANGED <<toldVars, rpc, endName, again, dname, late>>
    /\ UNCHANGED <<vars, inPool, dstep, open, jobBodyVars, mine, mapVars, chains, crossed>>

-----------------------------------------------------------------------------
(* disconnection, by the receiver at its end and by the application. *)

DiscAt(d, s) == Running /\ dstep[d] = s
DiscGoto(d, s) == dstep' = [dstep EXCEPT ![d] = s]

(* d has found the path and not yet removed it. *)
FoundPath(d) == dstep[d] \in {"get", "close", "remove"}

(* is_there says yes. *)
DiscFinds(d) ==
    /\ DiscGoto(d, "get")
    /\ crossed' = (crossed \/ \E u \in Ends \ {d} : FoundPath(u))

DiscCheck ==
    /\ RcvAt("check")
    /\ RcvGoto("migrate")
    /\ \/ dname["receiver"] \in sock /\ DiscFinds("receiver") /\ UNCHANGED dname
       \/ /\ dname["receiver"] \notin sock
          /\ dname' = [dname EXCEPT !["receiver"] = NoName]
          /\ UNCHANGED <<dstep, crossed>>
    /\ UNCHANGED <<vars, again, endName, inPool, open, jobBodyVars, mine, mapVars, chains,
                   toldVars, late, failed>>

(* ICommunicatorImpl::disconnect; of a path that is not there it is a       *)
(* warning.                                                                 *)
AppDisconnects(n) ==
    /\ DiscAt("application", "out")
    /\ n \in sock
    /\ DiscFinds("application")
    /\ dname' = [dname EXCEPT !["application"] = n]
    /\ late' = (late \/ Updating)
    /\ UNCHANGED <<vars, rcvVars, open, jobBodyVars, mine, mapVars, chains, toldVars, failed>>

(* get, dereferenced *)
DiscGet(d) ==
    /\ DiscAt(d, "get")
    /\ failed' = IF dname[d] \in sock THEN failed ELSE "null"
    /\ DiscGoto(d, "close")
    /\ UNCHANGED <<vars, rcvVars, dname, open, jobBodyVars, mine, mapVars, chains, toldVars,
                   histVars>>

(* Lock mtx_write, which the other may hold, and Close. *)
DiscClose(d) ==
    /\ DiscAt(d, "close")
    /\ \A u \in Ends : dstep[u] \notin {"remove", "unlist"}
    /\ open' = FALSE
    /\ DiscGoto(d, "remove")
    /\ UNCHANGED <<vars, rcvVars, dname, jobBodyVars, mine, mapVars, chains, toldVars, histVars,
                   failed>>

(* Mutant: disconnection closes the descriptor and leaves its path. *)
DiscRemove_Keeps(d) ==
    /\ DiscAt(d, "remove")
    /\ DiscGoto(d, "unlist")
    /\ UNCHANGED <<vars, rcvVars, dname, open, jobBodyVars, mine, mapVars, chains, toldVars,
                   histVars, failed>>

DiscRemove(d) ==
    /\ DiscAt(d, "remove")
    /\ sock' = sock \ {dname[d]}
    /\ DiscGoto(d, "unlist")
    /\ UNCHANGED <<vars, rcvVars, dname, open, jobBodyVars, mine, listed, chains, toldVars,
                   histVars, failed>>

DiscUnlist(d) ==
    /\ DiscAt(d, "unlist")
    /\ listed' = listed \ {dname[d]}
    /\ DiscGoto(d, "out")
    /\ dname' = [dname EXCEPT ![d] = NoName]
    /\ UNCHANGED <<vars, rcvVars, open, jobBodyVars, mine, sock, chains, toldVars, histVars,
                   failed>>

Disconnection(d) == DiscGet(d) \/ DiscClose(d) \/ DiscRemove(d) \/ DiscUnlist(d)

(* zombi_thread_migrate: the looper was entered under the session's first   *)
(* name and is sought under the present one.                                *)
RcvMigrate ==
    /\ RcvAt("migrate")
    /\ dstep["receiver"] = "out"
    /\ inPool' = (inPool /\ alias # FirstName)
    /\ RcvGoto("done")
    /\ UNCHANGED <<vars, again, endName, discVars, jobBodyVars, mine, mapVars, chains, toldVars,
                   histVars, failed>>

Receiver ==
    \/ RcvRegist \/ RcvConnected \/ RcvRead \/ RcvRunThread \/ RcvUnregist \/ RcvDisconnected
    \/ DiscCheck \/ Disconnection("receiver") \/ RcvMigrate

-----------------------------------------------------------------------------
(* The job, at line 184 of the looper. *)

Job == runFunc[Lpr]
JobAt(s) == Running /\ lpc[Lpr] = "run" /\ jpc = s
JobGoto(s) == jpc' = s

(* create_protocols_chain: the map has room. *)
JobCreate ==
    /\ JobAt("create")
    /\ chains' = chains + 1
    /\ JobGoto("update")
    /\ UNCHANGED <<vars, rcvVars, discVars, alias, fullPath, hasAddr, newName, delivered, mine,
                   mapVars, toldVars, histVars, failed>>

(* An exception leaves the job and ends the looper: the map is full of the  *)
(* chains the application has made and not sent (MessagePath), the message  *)
(* does not unpack, or the application's handler throws.  The chain stays   *)
(* in the map.                                                              *)
JobFails ==
    /\ Running
    /\ jpc \in {"create", "update", "message"}
    /\ JobThrows(Lpr)
    /\ JobGoto("create")
    /\ UNCHANGED <<rcvVars, discVars, alias, fullPath, hasAddr, newName, delivered, mine,
                   mapVars, chains, toldVars, histVars, failed>>

(* lamda_update_peer_alias: the message names no other owner, or get the    *)
(* descriptor.                                                              *)
JobUpdate ==
    /\ JobAt("update")
    /\ \/ JobGoto("message") /\ UNCHANGED <<newName, hasAddr, late>>
       \/ /\ Job \in mine
          /\ newName' \in Names \ {fullPath}
          /\ hasAddr' = (fullPath \in sock)
          /\ JobGoto("suspend")
          /\ late' = (late \/ Ending)
    /\ UNCHANGED <<vars, rcvVars, discVars, alias, fullPath, delivered, mine, mapVars, chains,
                   toldVars, crossed, failed>>

(* The lambda returns. *)
UpdateEnds == JobGoto("message") /\ newName' = NoName /\ hasAddr' = FALSE

(* E_SUSPEND; the lambda catches what the callback throws, and gives the    *)
(* change of name up.                                                       *)
JobSuspend ==
    /\ JobAt("suspend")
    /\ \/ Tell("suspended", alias) /\ JobGoto("unlist") /\ UNCHANGED <<newName, hasAddr>>
       \/ HandlersMayThrow /\ Tell("refused", alias) /\ UpdateEnds
    /\ UNCHANGED <<vars, rcvVars, discVars, alias, fullPath, delivered, mine, mapVars, chains,
                   histVars, failed>>

JobUnlist ==
    /\ JobAt("unlist")
    /\ listed' = listed \ {fullPath}
    /\ JobGoto("remove")
    /\ UNCHANGED <<vars, rcvVars, discVars, alias, fullPath, hasAddr, newName, delivered, mine,
                   sock, chains, toldVars, histVars, failed>>

JobRemove ==
    /\ JobAt("remove")
    /\ sock' = sock \ {fullPath}
    /\ JobGoto("rename")
    /\ UNCHANGED <<vars, rcvVars, discVars, alias, fullPath, hasAddr, newName, delivered, mine,
                   listed, chains, toldVars, histVars, failed>>

(* Mutant: peer_alias->update is forgotten. *)
JobRename_NoUpdate ==
    /\ JobAt("rename")
    /\ fullPath' = newName
    /\ JobGoto("insert")
    /\ UNCHANGED <<vars, rcvVars, discVars, alias, hasAddr, newName, delivered, mine, mapVars,
                   chains, toldVars, histVars, failed>>

(* peer_full_path and the alias object get the new path. *)
JobRename ==
    /\ JobAt("rename")
    /\ fullPath' = newName
    /\ alias' = newName
    /\ JobGoto("insert")
    /\ UNCHANGED <<vars, rcvVars, discVars, hasAddr, newName, delivered, mine, mapVars, chains,
                   toldVars, histVars, failed>>

(* CAliasAddr::insert: without a descriptor it dereferences a null pointer, *)
(* and a descriptor that still has a path fails its assertion.              *)
JobInsert ==
    /\ JobAt("insert")
    /\ failed' = IF alias \notin sock /\ (~hasAddr \/ sock # {}) THEN "null" ELSE failed
    /\ sock' = sock \cup {alias}
    /\ JobGoto("list")
    /\ UNCHANGED <<vars, rcvVars, discVars, alias, fullPath, hasAddr, newName, delivered, mine,
                   listed, chains, toldVars, histVars>>

JobList ==
    /\ JobAt("list")
    /\ listed' = listed \cup {alias}
    /\ JobGoto("resume")
    /\ UNCHANGED <<vars, rcvVars, discVars, alias, fullPath, hasAddr, newName, delivered, mine,
                   sock, chains, toldVars, histVars, failed>>

(* Mutant: the application is told the old name. *)
JobResume_OldName ==
    /\ JobAt("resume")
    /\ Tell("resumed", name)
    /\ UpdateEnds
    /\ UNCHANGED <<vars, rcvVars, discVars, alias, fullPath, delivered, mine, mapVars, chains,
                   histVars, failed>>

(* E_RESUME_UPDATE; what the callback throws is caught, all is done. *)
JobResume ==
    /\ JobAt("resume")
    /\ Tell("resumed", newName)
    /\ UpdateEnds
    /\ UNCHANGED <<vars, rcvVars, discVars, alias, fullPath, delivered, mine, mapVars, chains,
                   histVars, failed>>

JobMessage ==
    /\ JobAt("message")
    /\ delivered' = Append(delivered, Job)
    /\ JobGoto("destroy")
    /\ UNCHANGED <<vars, rcvVars, discVars, alias, fullPath, hasAddr, newName, mine, mapVars,
                   chains, toldVars, histVars, failed>>

(* Mutant: the job ends without destroy_proto_chain. *)
JobDestroy_Forgets ==
    /\ Running /\ jpc = "destroy"
    /\ RunJob(Lpr)
    /\ JobGoto("create")
    /\ UNCHANGED <<rcvVars, discVars, alias, fullPath, hasAddr, newName, delivered, mine,
                   mapVars, chains, toldVars, histVars, failed>>

(* destroy_proto_chain; the job returns to the looper. *)
JobDestroy ==
    /\ Running /\ jpc = "destroy"
    /\ RunJob(Lpr)
    /\ chains' = chains - 1
    /\ JobGoto("create")
    /\ UNCHANGED <<rcvVars, discVars, alias, fullPath, hasAddr, newName, delivered, mine,
                   mapVars, toldVars, histVars, failed>>

JobStep ==
    \/ JobCreate \/ JobUpdate \/ JobSuspend \/ JobUnlist \/ JobRemove \/ JobRename
    \/ JobInsert \/ JobList \/ JobResume \/ JobMessage \/ JobDestroy

(* The looper between two jobs. *)
LooperMoves ==
    /\ Running
    /\ \/ TestIsJob(Lpr) \/ PopNext(Lpr) \/ PopIdle(Lpr) \/ Park(Lpr) \/ Resume(Lpr)
    /\ UNCHANGED <<rcvVars, discVars, jobBodyVars, mine, mapVars, chains, toldVars, histVars,
                   failed>>

RxSpuriousWake ==
    /\ Running
    /\ SpuriousWake(Lpr)
    /\ UNCHANGED <<rcvVars, discVars, jobBodyVars, mine, mapVars, chains, toldVars, histVars,
                   failed>>

-----------------------------------------------------------------------------
RxNext ==
    \/ Receiver \/ RcvMessage \/ RcvEnd
    \/ \E n \in Names : AppDisconnects(n)
    \/ Disconnection("application")
    \/ \E p \in Producers \ {Rcv} : OtherReceiver(p)
    \/ LooperMoves \/ JobStep \/ JobFails \/ RxSpuriousWake

(* The receivers that have begun run_thread and the looper run on.  Nothing *)
(* is assumed of the peer, nor of the threads that disconnect.              *)
RxSpec ==
    /\ RxInit
    /\ [][RxNext]_rxVars
    /\ WF_rxVars(RcvRunThread)
    /\ \A p \in Producers \ {Rcv} : WF_rxVars(OtherReceiver(p) /\ ppc[p] # "ready")
    /\ WF_rxVars(LooperMoves \/ JobStep \/ JobFails)

-----------------------------------------------------------------------------
(* Properties. *)

(* The messages of a peer reach the application in the order in which they  *)
(* were read, none twice (IHProtocolInf.cpp:161, one looper).               *)
DeliveredInOrder ==
    \A i, k \in 1 .. Len(delivered) : i < k => delivered[i] < delivered[k]

(* While the session lasts and no change of name is under way, the path of  *)
(* the alias object, the lambda's copy, the map of descriptors, the list of *)
(* connected peers and the name the application was told last agree,        *)
(* whatever the callbacks throw.                                            *)
OneName ==
    (rpc \in {"read", "blocked"} /\ open /\ dstep["application"] = "out" /\ ~Updating /\ ~late) =>
        /\ fullPath = alias
        /\ sock = {alias}
        /\ listed = {alias}
        /\ name = alias

(* When receiver and application have disconnected, nothing of the session  *)
(* is left, and neither dereference of what get returned has found nothing  *)
(* (CPVD_TCP.cpp:362, CAliasAddr.cpp:140).  Two races are excepted, after   *)
(* which the process may crash, the descriptor stay open or the new name    *)
(* stay listed for a peer that is gone: a change of name that meets the end *)
(* of the session (CPVD_TCP.cpp:613-619, 671), and two disconnections that  *)
(* both found the path (CPVD_TCP.cpp:358-362).                              *)
CleanEnd ==
    ~late /\ ~crossed =>
        /\ failed # "null"
        /\ (rpc = "done" /\ dstep["application"] = "out") => ~open /\ sock = {} /\ listed = {}

(* Every chain a job creates is destroyed: between two jobs none is left,   *)
(* except the one an exception leaks, and with it goes the looper           *)
(* (IHProtocolInf.cpp:136-157).                                             *)
ChainsComeBack ==
    /\ chains <= 1
    /\ chains = 1 => jpc # "create" \/ lpc[Lpr] = "dead"

(* The application sees a session as PeerSession tells it. *)
Session == INSTANCE PeerSession WITH
    view <- IF late THEN "overtaken" ELSE view,
    name <- IF late THEN NoName ELSE name

ImplementsPeerSession == Session!PSSpec

(* Again and again every message for which run_thread reported success has  *)
(* reached the application, unless an exception ended the looper or the     *)
(* process is gone.                                                         *)
MessageReachesApp ==
    []<>\/ \A j \in Jobs :
               answer[j] = "true" => \E i \in 1 .. Len(delivered) : delivered[i] = j
        \/ lpc[Lpr] = "dead"
        \/ ~Running
===============================================================================
