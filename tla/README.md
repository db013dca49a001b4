# common_communicator in TLA+

TLA+ models of the `common_communicator` library, TLC configurations that check
them on small instances, and proofs that TLAPS checks for every instance. All
line numbers refer to this repository; paths without a directory are under
`src/communicator/source/`. `PROJECT.json` holds, for every definition that
stands for code, the lines it stands for; the runs with their properties; a
plausible bug per property that the run catches (the definitions whose comment
begins with "Mutant"); the hazards of this code, each at its line, with the
properties that are about it; and the theorems.

## The system

A communicator connects an application with peers it knows by *path* (an
application name and a provider name). It runs one *provider* (TCP or UDP over
IP or Unix sockets); several communicators of a process share one alias table.

| Component | State it keeps | Operations | Hard because |
|---|---|---|---|
| `ICommunicatorImpl` | state bits, the thread of `run`, the provider | `init`, `quit`, `send`, `connect_try`, `disconnect` | the thread may be cancelled anywhere; `init` and `quit` may be repeated; no member has a lock |
| `CPVD_TCP` | two maps path/descriptor, the client's one socket, one receiver per peer, one `read_buf` | `accept`, `make_connection`, `disconnection`, `write_msg`, `read_msg`, `run_receiver` | application threads, the accepting thread and receivers change the maps between each other's steps; descriptor numbers come back |
| `CPVD_UDP` | connect flag per path | `make_connection`, `disconnection`, `read_msg`, `write_msg` | flag, callback and list of peers change one after the other |
| `IPVDInf` | receivers (`mLooperPool`) and ended ones (`mLooperGarbage`) | `thread_create`, `zombi_thread_migrate`, `register_new_alias`, `thread_destroy`, `quit` | a receiver removes itself while its peer may come back |
| `CAliasAddr` | path to address and address to path, connect flags | `insert`, `remove`, `get`, `reset_connect_flag` | looks outside its lock, twice in a row; asserts that an address is new |
| `CConfigAliases` | known aliases, connected peers | the constructor, `regist_provider`, `regist_connected_peer`, `unregist_connected_peer` | shared by the threads of several providers; the first table has no lock |
| `IHProtocolInf` | the pool of rx jobs | `handle_connection`, `handle_protocol_chain`, `handle_initialization` | callbacks and messages take different ways to the application; callbacks may throw; a job may rename its peer |
| `CThreadPool` | job queue, idle list, loopers | `run_thread`, `trig_run_func`, `run_routin`, destructors | two mutexes and a condition variable per looper; a flag read without its mutex |
| `CConfigProtocols`, `IProtocolInf`, `CPLittleEndian`, `CPBigEndian`, `CPUniversalCMD` | a chain of protocols per message, at most `MAX_PROTOCOL_CHAIN_INSTANCES` | `create_protocols_chain`, `pack_recursive`, `unpack_recurcive` | a chain must come back on every way out; nothing says how long a message is |
| `CRawMessage`, `CPayload`, `CSource` | a buffer and its source | `set_new_msg`, `append_msg`, `set_msg_hook` | used by one thread at a time |
| `shared_mutex` (`src/lib/lock/shared_mutex_kes.h`) | one word and two gates | `lock`, `lock_shared`, ... | a concurrency primitive of its own |
| `CAliasSearcherImpl`, JSON, logging, time, examples | none of interest | lookups, parsing | not hard |

How they interact. The application calls the communicator, which calls the
provider. `ICommunicatorImpl::run` loops in the provider's `accept`: for TCP it
accepts sessions, for UDP it is the receiver. A receiver reports changes of a
connection directly (`handle_connection`: first `unregist_connected_peer`, then
the callback) and hands messages to the `CThreadPool` of `IHProtocolInf`, whose
looper builds a protocol chain, may give the peer another name, and calls the
application's message handler. Handlers may call the communicator again, and they
may throw: what a connection handler throws is thrown on by `handle_connection` and
ends where its caller catches it. Nothing is persisted; there is no timeout or
retry.

What makes each component correct:

* `CThreadPool`: a pushed job is waiting, held by one looper, or over; jobs start
  in push order; the destructor frees no looper that is at work.
* `CPVD_TCP`: the two maps are inverse; a peer has one receiver; the application
  is told of connection and disconnection in turn, whatever its handler throws; the list of connected peers
  names only peers that are served; the end of a session is noticed.
* `CPVD_UDP`: each change of a connect flag is told exactly once; names and
  addresses are inverse.
* The way of a message: messages reach the application in order; all tables agree
  on a peer's name between two changes of it; chains are neither leaked nor left
  over; unpacking undoes packing.
* `CConfigAliases`: a file is loaded whole or not at all, the alias objects of what it
  names stay, and the table of connected peers answers as one relation that each call changes by
  one pair.
* `CAliasAddr` under `shared_mutex`: calls of several locked sections take effect
  at once; the mutex excludes, forgets nobody and lets writers in.
* `ICommunicatorImpl`: an announced provider is usable until `quit`; the first
  `quit` waits for the thread it ends; `init` and `quit` are answered.

## Modules

| Module | Models | State and actions against the code |
|---|---|---|
| `JobQueue` | the promise of `CThreadPool` | `Push`, `Take`, `Finish` on a FIFO queue; no threads |
| `ThreadPool` | `include/base/CThreadPool.h` | `queue` = `_q_runfunc_`, `idles` = `_idles_list_`, `thrMap` = `_thr_map_`, `state`, `runFunc`, `isJob` = the members of `OpenLOOPER`; producers go through `run_thread` (`PushRunfunc`, `SelectIdle/New/None`, `TrigCheck`, `TrigRunFunc`), loopers through `run_routin` (`TestIsJob`, `RunJob`, `PopNext`, `PopIdle`, `Park`, `Resume`) |
| `ThreadPoolTeardown` | both destructors | extends `ThreadPool`; `mtx_map_list` is held from `DtorBegin` to `DtorEnd`; a looper's `_mtx_wake_` is given back after the look at `_state_` (`DtorWake`, `DtorLeave`) and taken once more in `clear` (`DtorDetach` or `DtorJoin` writes `_state_`, `DtorClear` the rest), then it goes (`DtorFree`); `LeaveLoop` is a looper that meets what `clear` wrote |
| `RWLock`, `SharedMutex` | a readers-writer lock; `__shared_mutex_cv` | `entered`, `count` = `_M_state`; `at` = where a thread is; one step per stretch under `_M_mut` (`Lock`, `LockAgain`, `LockShared`, `Unlock`, `UnlockShared`, spurious wake-ups) |
| `AddressBook`, `AliasAddr` | the promise of `CAliasAddr`; its code | extends `SharedMutex`; one step per access to `addr`, `flag` (`_mm_addr_`) and `alias` (`_mm_alias_`), with the lock around them; `Look`, `LookFlag`, `IsThere` are the finds without it |
| `TcpProvider` | `CPVD_TCP.cpp` and what it uses of `IPVDInf`, `CAliasAddr`, `handle_connection` | `sockAddr`, `sockAlias` = `_mm_ali4sock_`; `pool`, `garbage`; `avail` = `_available_sockfd_`; `registered`; kernel state `fdConn`, `sess`; history `misclosed` (descriptors one thread closed under another's session). Application threads and the accepting thread go through `make_connection`/`write_msg` (`pc`), any thread through `disconnection` (`dpc`), receivers through `run_receiver` (`rpc`), whose handlers are `caught` and `retell` |
| `UdpProvider` | `CPVD_UDP.cpp` with `_mm_ali4addr_` | `addr`, `alias`, `flag`; one step per look, lock, callback and table update |
| `Connections` | the promise of the table of connected peers | a set of pairs, changed a pair at a time |
| `ConnectedPeers` | the changing part of `CConfigAliases` | `spaces`, `pvds` = `_mm_pvds_map_`; `pathOf` = the path an alias object has by now (`Rename`); `keys`, `listed` = `_mm_connected_peers_` |
| `AliasTable` | `CConfigAliases` from its constructor on | extends `ConnectedPeers`; `todo` is what the loops of `append_rsc_alias` and `make_app_alias` have yet to visit (`LoadApp`, `LoadProvider`, `FoundSelf`, `RegisterResource`, `Ready`, `Throw`) |
| `PeerSession`, `RxPath` | what the application is to see of a session; the receiver and the job of `handle_protocol_chain` on one TCP session | extends `ThreadPool`, whose `RunJob` it takes apart (`JobCreate`, `JobUpdate`, `JobSuspend` ... `JobMessage`, `JobDestroy`); `rpc` = the receiver; `dstep` = `disconnection`, by the receiver and by the application |
| `MessagePath` | a message from `create_payload` to the callback | `Pack`, `PackChain`, `Unpack`, `UnpackChain` are the protocols; `WriteSegment`, `WriteFails`, `Read`, `AppendMsg`, `ReadEnd`, `ReadDatagram` the providers' `write_msg` and `read_msg`; `Lose` and `Duplicate` the network; `chains` = `proto_chains_map` |
| `Lifecycle` | `ICommunicatorImpl.cpp` with the set-up of the provider | the owner (`mpc`: `init`, `quit`, destructor), each thread of `run` (`rt`), the cancellation, and threads that use the communicator (`upc`) |
| `*_proofs` | | theorems about `ThreadPool` (with `JobQueue` and `ThreadPoolTeardown`), `AliasTable` (with `ConnectedPeers`), `AliasAddr` (with `SharedMutex`), `UdpProvider`, `TcpProvider`, `RxPath`, `MessagePath`, `Lifecycle` |
| `MC*` | | constants of the TLC instances |

A step of a model ends where another thread can see or change what is used
next: at a lock or unlock, at a condition variable, at a system call on a
descriptor, at a callback. Five refinements tie modules together:

* `ThreadPool` implements `JobQueue` (`JQ`; the job a looper holds is derived from
  its location);
* `SharedMutex` implements `RWLock` (`RW`; readers and writers are the threads at
  those places), and `AliasAddr` implements `AddressBook` (`Book`; a call takes
  effect when its writer changes the first map). The providers' models take a
  call of `CAliasAddr` as one step: this is what allows it;
* `ConnectedPeers`, and with it `AliasTable`, implements `Connections` (`C`, through
  what `get_connected_provider_to_peer` answers);
* the callbacks of `RxPath` implement `PeerSession` (`Session`).

A failed `assert` (the build does not define `NDEBUG`) or a null pointer ends the
process: the models set `failed`, `aborted` or `crashed` and stop. Deadlock is
not checked in these runs, because the systems may really stop: a pool may be
idle for ever, a process may have aborted, and bounds are used up.

## Runs

| Run | Instance | Shows |
|---|---|---|
| `pool_safety` | 2 producers, 2 loopers of which one is created on demand, 3 jobs, jobs may throw | types; `EveryJobOnce`; the pool implements `JobQueue` |
| `pool_lost_wakeup` | 1 producer, 1 looper, 2 jobs, fair | **violated** `PushedJobRuns`: a job pushed between a looper's empty pop and its entry in the idle list wakes nobody and stays |
| `teardown` | 1 producer, 2 loopers, 2 jobs, the destructor may begin at any time, fair | no looper is freed in a job or between two pops; the destructor returns unless a looper goes to `push_looper` |
| `tcp_uds` | Unix sockets, accepts and connects; 2 peers (one gets no alias), 1 application thread, 2 receivers, sessions and descriptors; binds, threads and handlers may fail | maps, receivers, callbacks and list agree; a descriptor that is entered is open; the assertion of `insert` fails only where a descriptor was closed twice, or came back before its removal |
| `tcp_client` | client, 2 peers, 2 application threads, 1 socket; handlers may throw; fair | a session the peer ends comes to its end here, although both threads may take the one socket |
| `udp` | 2 application threads and the receiver, 2 addresses, 3 paths (two for one address), a peer without an address; handlers may throw | types; `NamesAgree`; `EveryChangeTold` |
| `peers` | 3 good and 10 faulty files; then a thread of each of 2 providers, 2 peers (one of them a provider of this process, whose name the other may take) | `LoadedWhole`; `ConfiguredStays`; `KeyHasEntry`; `ListedOnce`; the table implements `Connections` |
| `rx_path` | one session whose peer has 2 names, another receiver, the one looper, an application that disconnects, 2 jobs; jobs and handlers may throw; fair | order of messages; one name everywhere between changes; a clean end but for two races; no chain leaked; callbacks implement `PeerSession`; an accepted message reaches the application |
| `alias_addr` | 3 threads, each of which may insert, remove and reset; at most 2 readers, 2 paths of 1 address, 4 calls, fair | the asserts of the mutex; nobody forgotten; the maps inverse until a removal erases what it did not find; both refinements; a queued writer gets in |
| `lifecycle` | 4 kinds of provider, 3 calls of `init`, 1 user, set-up may fail, fair | an announced provider is usable until `quit`, or until its loop ended by itself; the first `quit` waits; `init` and `quit` are answered but for the cases the properties name |
| `message_path` | every protocol and two chains of two; streams and datagrams; messages of 0 and 3 in segments of 4 and a buffer of 5; 2 sends, 2 chains, 3 datagrams | types; `RoundTrip`; `ShownOnce`; `ChainsCounted` |
| `message_source` | two peers of a stream server, 1 message each | **violated** `SourceIsSender`: their receivers share `read_buf`, and bytes of one are shown as the other's |

The two violated runs each check one sentence of the sources against the code;
`findings` in `PROJECT.json` quotes it. The runs that hold visit between 16 000
and 5.1 million states (`message_path`) and take some three minutes each at most
(`tcp_uds`, 3.4 million states).

### Bounds, and why they are enough

* `MaxJobs` (pool): one job more than loopers, enough for a job to be bound by
  `trig_run_func` while a looper pops another and a third waits. In `rx_path` two
  jobs are one that runs and one that waits; a change of name may be in either.
* `Receivers`, `Conns`, `Fds` (TCP): two. A second session of the same peer, a
  session of a second peer on the first one's descriptor number, and a receiver
  that ends while the next is wanted all need two and no more. A client uses its
  socket for one session only (`disconnection` closes it), so one receiver is
  enough there.
* `MaxInstances`: two, so that the map of chains is full while there are messages to
  send. In `rx_path` the map is full whenever it likes (`JobFails`).
* `BufSize` 5 with segments of up to 4: a segment fits in a read, or fills it with
  a header more; two that come together do not fit. Of the sizes 0 and 3 each
  protocol treats 0 in its way (refused, no segment, a bare header), and 3 behind
  another header is more than the Endian protocols take (`MessagePath`).
* `MaxDatagrams`, 3: two sends, one of which arrives twice; any number more would be
  messages like these.
* `alias_addr` has two paths for one address, which is what the assertion of
  `insert`, a removal that meets another's address and a find that another thread's
  removal overtakes need; every thread may make every call.
* `MaxReaders` 2 with 3 threads: all places taken with a thread at the gate.
* `MaxRuns` 3: the second `quit` does not wait, so that a third `init` finds the
  threads of two earlier ones in every combination of places.
* `MaxDepth` (alias files) is the depth of the deepest file there; the theorems
  hold for any.
* The UDP and the alias models need no other bound: every variable ranges over a
  finite set.

`SYMMETRY` is used in `tcp_uds` and `message_source` only, which check
invariants; receivers, sessions and descriptors are chosen freely there, and
the two peers are alike.

### Fairness

Weak fairness per thread, for the steps of a call that has begun: the operating
system keeps running a thread that can run. Nothing makes the application call,
a peer send or close, `accept` return, a condition variable wake up by itself,
or the owner of a pool destroy it. Where a thread may sleep (`AliasAddr`),
fairness is for the steps of one that is awake, so that `QueuedWriterGetsIn` rests
on the notifications of the code and not on spurious wake-ups. In `Lifecycle` a
requested cancellation takes effect in the end, since `accept` is a cancellation
point. Mutexes need no strong fairness: calls are bounded or, in `AliasAddr`, a
writer's flag keeps new readers out.

## Proofs

| Theorem | States |
|---|---|
| `ThreadPool_proofs!JobsOnce` | `JobQueue` keeps every job in exactly one place |
| `ThreadPool_proofs!TypeCorrect` | types, and that the idle list names only loopers of the map (the "thread-unsafe" error of `run_thread` cannot happen) |
| `ThreadPool_proofs!PoolImplementsJobQueue`, `NoJobLostOrDoubled` | the pool implements `JobQueue`; `EveryJobOnce` |
| `ThreadPool_proofs!OneLooperKeepsOrder` | with one looper, jobs end in push order (`RunsInPushOrder`) |
| `ThreadPool_proofs!FreesOutsideLoop` | the destructors of `ThreadPoolTeardown` free no looper in a job or between two pops (`FreedOutsideLoop`) |
| `AliasTable_proofs!TypeCorrect`, `KeysHaveEntries`, `NeverListedTwice` | the invariants of the alias table, constructor included |
| `AliasTable_proofs!FilesLoadWhole`, `ConfiguredAliasesStay` | `LoadedWhole`, for files of any size and depth; `ConfiguredStays`: the alias objects of a file stay where they were entered |
| `AliasTable_proofs!PeersImplementConnections` | the table implements `Connections` |
| `AliasAddr_proofs!TypeCorrect`, `MutexState` | types; the asserts of the mutex (`StateIsHolders`) |
| `AliasAddr_proofs!MutexImplementsRWLock`, `ImplementsBook` | the mutex implements `RWLock`, the maps `AddressBook` |
| `AliasAddr_proofs!NobodyLeftAsleep` | `NobodyForgotten`, for at most one thread more than `MaxReaders` |
| `AliasAddr_proofs!InverseMaps` | `MapsInverse`, whatever threads remove |
| `UdpProvider_proofs!TypeCorrect`, `InverseNames`, `NoChangeUntold` | `TypeOK`, `NamesAgree`, `EveryChangeTold` |
| `TcpProvider_proofs!TypeCorrect`, `InverseMaps`, `OneReceiver`, `CallbacksAlternate`, `ListedPeersServed` | types, `MapsAgree`, `OneReceiverPerPeer`, `ToldInTurn`, `ListedIsServed`, with handlers that throw, for servers and clients of both address families |
| `TcpProvider_proofs!EnteredIsOpen`, `InsertAssertion` | `EntryIsOpen`, `InsertFailsOnlyOnReuse` |
| `RxPath_proofs!RxTypeCorrect`, `MessagesInOrder`, `ChainPerJob`, `NamesAgreeBetweenUpdates`, `EndsClean` | types, `DeliveredInOrder`, `ChainsComeBack`, `OneName`, `CleanEnd` |
| `RxPath_proofs!CallbacksTellOneSession` | the callbacks implement `PeerSession`, those of handlers that throw included |
| `MessagePath_proofs!TypeCorrect`, `ChainsAreCounted` | types, `ChainsCounted` |
| `MessagePath_proofs!MessagesArriveWhole` | `RoundTrip`, for every chain of protocols, every size of message, segment and buffer |
| `MessagePath_proofs!MessagesShownOnce` | `ShownOnce`, for streams |
| `MessagePath_proofs!SourceUnlessShared` | `SourceIsSender` for datagrams, and for a stream with one peer: where receivers share no buffer |
| `Lifecycle_proofs!TypeCorrect`, `AnnouncedIsUsable`, `QuitWaitsOnce`, `OneServerEver` | types, `ToldMeansUsable`, `FirstQuitWaits`; `ServerStartsOnce`, for TCP servers |

They hold for every value of the constants (any sets of threads, peers, paths,
addresses, receivers and sessions, any number of jobs and of calls), under the
`ASSUME` of each module (what is not a job is no number, a thread is not a
provider, an alias file is a tree of bounded depth, and the like) and what a
theorem itself assumes. TLC evaluates these assumptions in every run. The
theorems about `ThreadPool` are about that module itself, of which two runs check
an extension; those about the alias table are about `AliasTable`, constructor
included.

*The pool.* `EveryJobOnce` alone is not inductive: nothing in it says which job a
looper gets next, or that a looper `trig_run_func` binds a job to has none. `IInv`
adds what a looper's location says of `_state_` and `_is_job_` (`LooperOK`: a
looper that is IDLE holds no job, one that runs or has just run a job is BUSY),
what a producer's location says of its locals (`ProducerOK`), and `JQInv`: the
queue holds the last jobs pushed, in order, and the earlier ones are held or
finished. With `LooperOK`, each step is a step of `JobQueue` or a stutter
(`StepRefines`), so `JQInv` is preserved by the lemma proved once about
`JobQueue`; the order with one looper follows from `NewestHeld`, which says that
the job held is the newest one taken.

*Its destructor.* Until it begins, `IInv` holds (`TdInv`). From then on nothing is
pushed, and the argument needs each looper's place and `_state_` only
(`ComingDown`). `Part` says for each step of `~OpenLOOPER` where its looper may be:
where it was as long as the destructor waits for the mutex (`AtWork`); anywhere but
asleep when the guard ends at 88, because only an idle looper sleeps and that one
is woken; on its way out when it is joined (`Leaving`); anywhere but asleep, and if it
is on its way back from `wait` then with a `_state_` that ends its loop, once `clear`
has written `_state_` (`Caught`). `DtorClear` locks the mutex again, which a looper
owns wherever it is between two pops; what is left is a thread that is over, or
one that is detached, comes back from `wait` and leaves (`Over`). That last step is
one in freed memory: the code does not exclude it, and the property says so.

*The alias table.* While the constructor runs, the paths the file names are those
the table has and those the visits still to make will give it; the file is well
formed exactly when all these visits are; each resource leads to an app of its
own exactly when what is found or still to visit does (`Loading`). Each visit
replaces itself by visits that mean the same. With nothing to visit left this is
`LoadedWhole`. From then on, `Running`: `ListedOnce` makes the erased entry the last
of its provider, which is what makes `unregist_connected_peer` a single
`Disconnect`; `KeyHasEntry` makes the key's erasure invisible; `CallerOK` says what a
caller inside a call works on, and that no caller clears the list of an app of the
file or appends an object of it there. A change of name (`Rename`) changes the path
under which an object is found, the file's own objects included
(`CPVD_TCP.cpp:617`, `IAliasPVD.cpp:63`), and no list: what stays is the object. The reference reading of a file is recursive; that it is a function
follows from the bounded depth of the files (`Recursion`).

*The mutex and its maps.* `LockInv` adds to the asserts that the flag belongs to
one thread (`Entrants`) and that a writer leaves no reader in. `CallOK` says what
a call's place says of the lock, `HalfWay` that a writer between its two changes
has made the first. `AliasSeen`, the second map with the section of the
writer done, is what makes the two erasures of `remove` one step. A removal looks up
in one section and erases in another, and nothing keeps other removals out: a
change of name removes without the provider's mutex (`CPVD_TCP.cpp:613`). What is
true for any number of them is that the maps are inverse until some removal erases
a path that has no longer the address it found (the history `crossed`), and from
then on nothing is claimed. The two finds `insert` begins with take no lock; beside
a writer, or when the path goes between them, they may say anything or end the
process, and what `insert` then does under the lock is right either way.
`NobodyForgotten` follows from
`GatesOK`: while the first gate stands open nobody sleeps at it. That needs the
bound on the threads: with two sleepers and all places taken, two readers that
leave wake only one.

*UDP.* `EveryChangeTold` counts, for every path, the threads that have set or reset
the flag and have not told it yet: what was told, with those on their way, equals
the flag. With the types and `NamesAgree` it is inductive as it stands (`UInv`).

*TCP.* `TInv` conjoins what a caller's location says of its locals (`CallersOK`),
`PoolOK` (the receivers at work and the entries of `mLooperPool` are one to one, so
a path has one) and `ToldOK` (a peer was told as connected last, or its end was told
to a handler that threw, exactly while its receiver is between its callbacks). A
receiver in one of the handlers of `run_receiver` (`caught`, `retell`) comes from a
read that failed or from a callback that threw, and tells the end from there. `MapsAgree` and `ListedIsServed` are
conjuncts of it as they stand. `DescInv` adds the life of a descriptor number: it
is free, in the hands of one caller, or in the map, and it is in two of these
places only while a thread is between its close and its removal. This is so as long as
no `close` has hit another session's descriptor, which the history `misclosed`
records: `disconnection` takes the descriptor from the map before it has
`mtx_write` (`CPVD_TCP.cpp:362`), and the error path of `make_connection` closes
what it holds (340), so that two threads may close one number with an `accept` in
between. Nothing is claimed of the descriptors after that.

*The receiver and its jobs.* `RInv` is `IInv` of the pool with `NewestHeld` (`PoolInv`)
and what the two threads' locations say of each other (`BodyInv`): a chain exists
between `JobCreate` and `JobDestroy` (`ChainOK`), delivered jobs are older than the
one held (`OrderOK`), the owner a message names is or is not yet the path of the
alias object (`OwnerOK`), what the two that may disconnect are at (`EndsOK`), and a
name or a table has the old name, the new one or none depending on how far a change of
name is (`SessionOK`: `NamesOK`, `ViewOK`, `MapsOK`). Two races are named and kept out
of what is claimed. From the moment a change of name meets the end of the session,
whoever ends it (`late`), the session part claims nothing. From the moment the receiver
and the application have both found the path in `disconnection` (`crossed`), nothing is
claimed of the maps: the second `get` may return null, as it does in `TcpProvider`.
Callbacks that throw are no exception to any of it: the lambda gives a change of name
up, and the receiver tells the end once more.

*The way of a message.* A *packing* of a message is the sequence of its levels:
the message itself and what each protocol of the chain makes of the level before.
Each level is *clean*: its headers come first, its data is that of one send in
order (`PackingClean`). Unpacking goes through the levels backwards, whatever is
appended to the last one as long as some protocol of the chain has a header that
says how long the message is (`UnpackPacking`). `DataInv` says that what is written
and what was sent is a packing of the payload's content (`WrittenOK`), that what
was shown is what the chain makes of its chunk (`ViewsOK`), when a sender has
segments and how its chains are counted (`AppOK`), and where receivers may stand
(`ReadOK`). `RoundTrip` and `ChainsCounted` follow. The proof found that `RoundTrip` must take a chunk as a whole
not only for the chain of the one protocol without a header, but for every chain
that has no other protocol: nothing there says where a message ends.

`ShownOnce` is about streams: over UDP a message that the network repeats is shown
twice. For it, `OrderInv` puts what was shown, the jobs, the message that is put
together and what is under way in one line per peer (`LineOf`), in which every
place comes of a later send than those before it; only places at which a
segment of that peer begins are compared, because a read may begin anywhere and
another peer's bytes may lie in the buffer; a write that breaks off leaves the beginning
of a segment there, and its chain is not used again. A segment that is written is of a
later send than all of the line (`OldInv`). `SourceUnlessShared` says which part of
the claim that `message_source` refutes is true.

*The life cycle.* `LInv` says that runs are numbered as they are begun (`Numbered`),
that up to the first `quit` one run at most is not at its end, and what its
location says of `h_pvd` and of its provider (`RunsOK`, `HasProvider`), that `DONE_FORCE_EXIT` is
not set before a thread is cancelled and, up to the second `quit`, means that it
is at its end (`OwnerOK`), and that the run of a TCP server that got the port is the
only one to pass that place (`ServerOK`). A UDP provider's `accept` returns false when
the quit handler that is told of an error throws (`CPVD_UDP.cpp:155`); its loop is then
over and the announced provider gone without a `quit`. `LoopLeft` names this one
exception in `ToldMeansUsable`. UDP providers share a port (`SO_REUSEADDR`,
`CPVD_UDP.cpp:97`), so nothing is claimed of how often one starts.

Only model-checked: liveness, which is beyond the prover (`DestructorReturns`,
`EndIsNoticed`, `MessageReachesApp`, `QueuedWriterGetsIn`, `InitAnswers`,
`QuitReturns`). Every invariant that a run checks, and every refinement, is a
theorem. The induction theorems of the library cannot be instantiated in these
provers; where a recursive function is used (the chain of protocols, the reading
of a file), its existence and what it computes are proved from the least element
of a set (`SetInduction`).

## Not modelled, and why

* The vendored JSON parser (`src/lib/json/rapidjson`, over half of the
  repository's lines) and the code around it; logging, DLT, time, `pal`, `util`,
  `exception`; examples and tests. They keep no state the communicator depends
  on. `AliasTable` begins with the tree the parser returns.
* Lookups of `CAliasSearcherImpl` and `CConfigAliases`: they change nothing.
* `IPVDInf::quit`, `thread_destroy` and the providers' `stop`: they run in the
  destructor of a provider, and `Lifecycle` shows that no started provider is ever
  destroyed, because its handler keeps a reference to it.
* Values: bytes, header fields, byte order, addresses, capacities of `CRawMessage`.
* Data races on the containers themselves (`std::map` without a lock in
  `append_pvd_context`, `find` outside the lock in `CAliasAddr`): each access is
  atomic in the models; the interleavings around it are there. In `AliasAddr` a read without
  the lock beside a writer may go astray.
* Where in the middle of a library call a cancellation hits.
* A `sendto` that fails, which ends the process (`CPVD_UDP.cpp:440`).
* The values in a header of `CPUniversalCMD`: its flag, state and id are taken to be
  set, which `pack` asserts (277-279), and a message cut inside the sender's name,
  whose length it takes unsigned from what is left (`CPUniversalCMD.cpp:313`), may
  unpack to anything (`Unpack`: garbled).
* The kernel, the peers and the C library are modelled from how the code uses
  them and marked external.

What the models show without a run of their own, or what was met while reading
and is in no model:

* A looper taken off the idle list for a job another pop has taken first waits
  unlisted (`CThreadPool.h:283`).
* A TCP peer that returns while its last receiver ends gets no receiver
  (`IPVDInf.cpp:231`); a `disconnect` between the entry of a session and the start
  of its receiver fails the receiver's assertion (`CPVD_TCP.cpp:629`); `disconnect`
  tells the application nothing and leaves that to the receiver (372); a
  descriptor may come back from `accept` before it has left the map (367).
* A client that sends while its socket is in use fails the assertion of
  `write_msg` (432); an exception that is no `CException` leaves a new connection's
  socket open (`CPVD_TCP.cpp:344`).
* A UDP client already named by its address that is given to `connect_try` with
  another alias fails the assertion of `insert` (`CAliasAddr.cpp:140`); its first
  message may be handed on before `E_CONNECTED` is told (`CPVD_UDP.cpp:563`).
* Two threads that meet an application's first peers at once may lose an alias
  (`CConfigAliases.cpp:630`); the objects of the file are safe, though a peer's change
  of name may rename them.
* A change of name removes its path without `mtx_write` (`CPVD_TCP.cpp:613`); that and a
  `disconnect` of the application may crash the process or leave the new name listed
  (`late` in `RxPath`).
* A connection handler that throws while it is told of the end is told once more
  (`CPVD_TCP.cpp:682`), and if it throws again nobody catches; one that throws when a
  session begins ends it, the descriptor closed; one that throws at `E_SUSPEND` keeps
  the peer's old name and gets no `E_RESUME_UPDATE` (622).
* Two UDP providers can be bound to one port (`CPVD_UDP.cpp:97`), and a UDP provider
  whose quit handler throws is reset without a `quit` (`ICommunicatorImpl.cpp:384`).
* A datagram the network repeats is shown twice, one too long is cut, and a message
  after `E_DISCONNECTED` is shown nevertheless.
* A second `init` without a `quit` assigns to a joinable thread, which ends the
  process (`ICommunicatorImpl.cpp:134`); a `quit` whose thread has passed its
  clean-up handler does not return (401); a TCP server cannot be started again.
* The thread of `run` may be cancelled while it holds a lock.

## Plan

Done: 1. `ThreadPool`, `JobQueue`, teardown. 2. `TcpProvider`. 3. `ConnectedPeers`,
`Connections`, `AliasTable`. 4. `UdpProvider`. 5. `SharedMutex`, `RWLock`, `AliasAddr`,
`AddressBook`. 6. `RxPath`, `PeerSession`. 7. `MessagePath`. 8. `Lifecycle`. 9. Proofs
of all that the runs check but liveness.

Left, in this order:

1. `TcpProvider` with the contents of messages, for the write through a descriptor
   that has come back (`CPVD_TCP.cpp:435`).
2. Capacities of `CRawMessage` and the numbers in the headers of `CPLittleEndian` and
   `CPBigEndian` as functions over bounded inputs.
