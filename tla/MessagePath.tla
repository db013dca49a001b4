----------------------------- MODULE MessagePath -----------------------------
(***************************************************************************)
(* A message from the application of a peer to the callback of another:    *)
(* create_payload, set_payload and send; the chain of protocols packs it   *)
(* (IProtocolInf.cpp), write_payload writes the segments, read_msg of the  *)
(* provider reads chunks, and the job of handle_protocol_chain unpacks     *)
(* each chunk and shows it to the application.                             *)
(*                                                                         *)
(* Bytes are tokens: a token of data, one for the header of CPBigEndian    *)
(* and CPLittleEndian, two for that of CPUniversalCMD (its fixed part and  *)
(* the sender's name).  Each carries who sent it in which send, which the  *)
(* properties use and the code does not see.                               *)
(*                                                                         *)
(* Writing, the pool of loopers and the sessions are TcpProvider, RxPath   *)
(* and UdpProvider; here jobs run one at a time, in order.                 *)
(***************************************************************************)
EXTENDS Naturals, SequencesExt

CONSTANTS Peers,         \* the applications that send
          Chains,        \* protocol-lists a configuration may name
          Transports,    \* "stream", "datagram"
          Sizes,         \* sizes of the messages sent
          SegBytes,      \* Segment_ByteSize of CPBigEndian and CPLittleEndian
          BufSize,       \* read_bufsize
          MaxInstances,  \* MAX_PROTOCOL_CHAIN_INSTANCES
          MaxSends,      \* bound: sends of each application
          MaxDatagrams,  \* bound: the network duplicates while there are fewer
          Nobody

Protocols == {"none", "endian", "ucmd"}

ASSUME MessagePathAssumption ==
    /\ Chains \subseteq Seq(Protocols) \ {<< >>}
    /\ Transports \subseteq {"stream", "datagram"}
    /\ Sizes \subseteq Nat
    /\ {SegBytes, BufSize, MaxInstances, MaxSends} \subseteq Nat \ {0}
    /\ MaxDatagrams \in Nat
    /\ Nobody \notin Peers

VARIABLES
    chain,      \* proto_list, the same at both ends
    handle,     \* the protocol whose payload the application sets and sends
    transport,
    sends,      \* how many messages each application has begun to send
    pay,        \* its payload: is there one, is its chain in the map, its content
    segs,       \* _m_segments_ of the protocols of its chain
    writing,    \* is it in write_payload?
    out,        \* the segments still to write
    keep,       \* E_KEEP_PAYLOAD_AFTER_TX of the payload in write_payload
    chains,     \* size of proto_chains_map
    dropped,    \* history: payloads dropped with their chain still in the map
    wire,       \* what is under way: tokens of a stream, datagrams
    buf,        \* read_buf, one for all receivers of a provider
    rd,         \* each receiver of a stream: where it is, how much it has read
    acc,        \* the message it puts together
    queue,      \* the jobs of the pool
    shown,      \* what the callback was shown
    sent,       \* history: the segments written, with what was to arrive
    aborted     \* the chunk on which an assertion of unpack failed

appVars == <<sends, pay, segs, writing, out, keep, chains, dropped>>
readVars == <<buf, rd, acc, queue>>
vars == <<chain, handle, transport, appVars, wire, readVars, shown, sent, aborted>>

Token(k, p, n, len) == [k |-> k, from |-> p, send |-> n, len |-> len]
Data(p, n, size) == [i \in 1 .. size |-> Token("data", p, n, i)]

NoPayload == [there |-> FALSE, alive |-> FALSE, content |-> << >>]
Nothing == [src |-> Nobody, chunk |-> << >>]

TypeOK ==
    /\ chain \in Chains /\ handle \in 1 .. Len(chain) /\ transport \in Transports
    /\ sends \in [Peers -> 0 .. MaxSends]
    /\ \A p \in Peers :
          /\ pay[p].there \in BOOLEAN /\ pay[p].alive \in BOOLEAN
          /\ pay[p].alive => pay[p].there
          /\ DOMAIN segs[p] = DOMAIN chain
          /\ rd[p].n \in 0 .. BufSize
    /\ {keep, writing} \subseteq [Peers -> BOOLEAN]
    /\ chains \in [Peers -> 0 .. MaxInstances]
    /\ dropped \in [Peers -> 0 .. MaxInstances]
    /\ Len(buf) <= BufSize
    /\ aborted.src \in Peers \cup {Nobody}

Init ==
    /\ chain \in Chains /\ handle \in {1, Len(chain)} /\ transport \in Transports
    /\ sends = [p \in Peers |-> 0]
    /\ pay = [p \in Peers |-> NoPayload]
    /\ segs = [p \in Peers |-> [i \in DOMAIN chain |-> << >>]]
    /\ writing = [p \in Peers |-> FALSE]
    /\ out = [p \in Peers |-> << >>]
    /\ keep = [p \in Peers |-> FALSE]
    /\ chains = [p \in Peers |-> 0]
    /\ dropped = [p \in Peers |-> 0]
    /\ wire = [p \in Peers |-> << >>]
    /\ buf = << >>
    /\ rd = [p \in Peers |-> [at |-> "read", n |-> 0]]
    /\ acc = [p \in Peers |-> << >>]
    /\ queue = << >> /\ shown = << >> /\ sent = {} /\ aborted = Nothing

-----------------------------------------------------------------------------
(* Packing. *)

(* pack asserts: a message for it, of a size it takes.  IProtocolInf takes  *)
(* none that is empty; the Endian protocols make no segment of that one,    *)
(* and none of one that fills a segment (their loop over several segments   *)
(* is stopped by the assertion of pack_raw_data).  CPUniversalCMD asserts   *)
(* what the application has set, flag, state and msg_id: it has.            *)
Packs(proto, msg) ==
    CASE proto = "none"   -> msg # << >>
      [] proto = "endian" -> Len(msg) < SegBytes
      [] proto = "ucmd"   -> TRUE

(* pack: the segments of one message. *)
Pack(proto, p, n, msg) ==
    CASE proto = "none"   -> <<msg>>
      [] proto = "endian" -> IF msg = << >> THEN << >>
                             ELSE <<(<<Token("endian", p, n, Len(msg))>> \o msg)>>
      [] proto = "ucmd"   -> <<(<<Token("ucmd", p, n, Len(msg)), Token("name", p, n, 0)>> \o msg)>>

(* pack_recursive: every protocol of the chain packs the segments of the    *)
(* one before it, and adds them to those it has.                            *)
PackChain(p, n, msg) ==
    LET all[i \in DOMAIN chain] ==
            segs[p][i] \o IF i = 1 THEN Pack(chain[1], p, n, msg)
                          ELSE FlattenSeq([j \in DOMAIN all[i - 1] |->
                                              Pack(chain[i], p, n, all[i - 1][j])])
    IN  all

Packable(p, n, msg) ==
    LET all == PackChain(p, n, msg)
    IN  /\ Packs(chain[1], msg)
        /\ \A i \in 2 .. Len(chain) : \A j \in DOMAIN all[i - 1] : Packs(chain[i], all[i - 1][j])

-----------------------------------------------------------------------------
(* The application and write_payload. *)

(* Mutant: the limit is passed by one. *)
CreatePayload_Over(p) ==
    /\ ~pay[p].there
    /\ chains[p] <= MaxInstances
    /\ pay' = [pay EXCEPT ![p] = [NoPayload EXCEPT !.there = TRUE, !.alive = TRUE]]
    /\ chains' = [chains EXCEPT ![p] = @ + 1]
    /\ UNCHANGED <<chain, handle, transport, sends, segs, writing, out, keep, dropped, wire, readVars,
                   shown, sent, aborted>>

(* create_protocols_chain, which throws when the map is full. *)
CreatePayload(p) ==
    /\ ~pay[p].there
    /\ chains[p] < MaxInstances
    /\ pay' = [pay EXCEPT ![p] = [NoPayload EXCEPT !.there = TRUE, !.alive = TRUE]]
    /\ chains' = [chains EXCEPT ![p] = @ + 1]
    /\ UNCHANGED <<chain, handle, transport, sends, segs, writing, out, keep, dropped, wire, readVars,
                   shown, sent, aborted>>

(* The application lets its payload go: a chain is only in the map then.    *)
DropPayload(p) ==
    /\ pay[p].there /\ ~writing[p]
    /\ pay' = [pay EXCEPT ![p] = NoPayload]
    /\ segs' = [segs EXCEPT ![p] = [i \in DOMAIN chain |-> << >>]]
    /\ dropped' = [dropped EXCEPT ![p] = IF pay[p].alive THEN @ + 1 ELSE @]
    /\ UNCHANGED <<chain, handle, transport, sends, writing, out, keep, chains, wire, readVars, shown,
                   sent, aborted>>

(* set_payload and send.  Without its chain the payload cannot be packed:   *)
(* write_payload returns false and nothing has changed.  A message that     *)
(* fails an assertion of pack ends the sender; nothing is sent.             *)
SendPayload(p) ==
    \E size \in Sizes, k \in BOOLEAN :
        LET n == sends[p] + 1
            msg == Data(p, n, size)
            all == PackChain(p, n, msg)
        IN  /\ pay[p].alive /\ ~writing[p]
            /\ n <= MaxSends
            /\ Packable(p, n, msg)
            /\ sends' = [sends EXCEPT ![p] = n]
            /\ pay' = [pay EXCEPT ![p].content = msg]
            /\ segs' = [segs EXCEPT ![p] = all]
            /\ writing' = [writing EXCEPT ![p] = TRUE]
            /\ out' = [out EXCEPT ![p] = all[handle]]
            /\ keep' = [keep EXCEPT ![p] = k]
            /\ UNCHANGED <<chain, handle, transport, chains, dropped, wire, readVars, shown,
                           sent, aborted>>

(* write_msg of one segment. *)
WriteSegment(p) ==
    /\ writing[p] /\ out[p] # << >>
    /\ rd[p].at # "end"
    /\ LET seg == Head(out[p])
       IN  /\ wire' = [wire EXCEPT ![p] = IF transport = "stream" THEN @ \o seg
                                          ELSE Append(@, seg)]
           /\ sent' = sent \cup {[from |-> p, seg |-> seg, content |-> pay[p].content]}
    /\ out' = [out EXCEPT ![p] = Tail(@)]
    /\ UNCHANGED <<chain, handle, transport, sends, pay, segs, writing, keep, chains, dropped, readVars,
                   shown, aborted>>

(* destroy_protocols_chain: the protocols go with it, but for the one that  *)
(* the application holds.                                                   *)
DestroyChain(p) ==
    /\ pay' = [pay EXCEPT ![p].alive = FALSE]
    /\ chains' = [chains EXCEPT ![p] = @ - 1]
    /\ segs' = [segs EXCEPT ![p] = [i \in DOMAIN chain |-> << >>]]

(* Mutant: a failed write leaves the chain in the map, kept or not. *)
WriteFails_Keeps(p) ==
    /\ writing[p] /\ out[p] # << >>
    /\ writing' = [writing EXCEPT ![p] = FALSE]
    /\ out' = [out EXCEPT ![p] = << >>]
    /\ pay' = [pay EXCEPT ![p].alive = FALSE]
    /\ UNCHANGED <<chain, handle, transport, sends, segs, keep, chains, dropped, wire, readVars,
                   shown, sent, aborted>>

(* write_msg returns false: the chain is destroyed, even one to be kept.    *)
(* On a stream a part of the segment may have been written; to a peer that  *)
(* is not known no datagram goes.                                           *)
WriteFails(p) ==
    /\ writing[p] /\ out[p] # << >>
    /\ writing' = [writing EXCEPT ![p] = FALSE]
    /\ out' = [out EXCEPT ![p] = << >>]
    /\ DestroyChain(p)
    /\ \/ /\ transport = "stream"
          /\ \E part \in 1 .. Len(Head(out[p])) - 1 :
                wire' = [wire EXCEPT ![p] = @ \o SubSeq(Head(out[p]), 1, part)]
       \/ UNCHANGED wire
    /\ UNCHANGED <<chain, handle, transport, sends, keep, dropped, readVars, shown, sent, aborted>>

(* Mutant: a kept payload keeps its segments, too. *)
WriteEnds_KeepsSegments(p) ==
    /\ writing[p] /\ out[p] = << >>
    /\ writing' = [writing EXCEPT ![p] = FALSE]
    /\ out' = [out EXCEPT ![p] = << >>]
    /\ IF keep[p] THEN UNCHANGED <<segs, pay, chains>> ELSE DestroyChain(p)
    /\ UNCHANGED <<chain, handle, transport, sends, keep, dropped, wire, readVars, shown, sent,
                   aborted>>

(* All segments are written: clean_data(true, false), or the chain goes.    *)
WriteEnds(p) ==
    /\ writing[p] /\ out[p] = << >>
    /\ writing' = [writing EXCEPT ![p] = FALSE]
    /\ out' = [out EXCEPT ![p] = << >>]
    /\ \/ /\ keep[p]
          /\ segs' = [segs EXCEPT ![p] = [i \in DOMAIN chain |-> << >>]]
          /\ UNCHANGED <<pay, chains>>
       \/ ~keep[p] /\ DestroyChain(p)
    /\ UNCHANGED <<chain, handle, transport, sends, keep, dropped, wire, readVars, shown, sent,
                   aborted>>

App(p) ==
    \/ CreatePayload(p) \/ DropPayload(p) \/ SendPayload(p)
    \/ WriteSegment(p) \/ WriteFails(p) \/ WriteEnds(p)

-----------------------------------------------------------------------------
(* Reading. *)

(* read_msg of CPVD_TCP: read overwrites the front of the common buffer.    *)
Read(p) ==
    /\ transport = "stream" /\ rd[p].at = "read"
    /\ \E n \in 1 .. Len(wire[p]) :
          /\ n <= BufSize
          /\ buf' = SubSeq(wire[p], 1, n) \o SubSeq(buf, n + 1, Len(buf))
          /\ wire' = [wire EXCEPT ![p] = SubSeq(@, n + 1, Len(@))]
          /\ rd' = [rd EXCEPT ![p] = [at |-> "append", n |-> n]]
    /\ UNCHANGED <<chain, handle, transport, appVars, acc, queue, shown, sent, aborted>>

(* append_msg.  A full buffer makes it read on, without asking whether      *)
(* there is more; else the message goes to the pool.                        *)
AppendMsg(p) ==
    /\ rd[p].at = "append"
    /\ rd' = [rd EXCEPT ![p] = [at |-> "read", n |-> 0]]
    /\ LET msg == acc[p] \o SubSeq(buf, 1, rd[p].n)
       IN  IF rd[p].n = BufSize
           THEN acc' = [acc EXCEPT ![p] = msg] /\ UNCHANGED queue
           ELSE /\ acc' = [acc EXCEPT ![p] = << >>]
                /\ queue' = Append(queue, [src |-> p, chunk |-> msg])
    /\ UNCHANGED <<chain, handle, transport, appVars, wire, buf, shown, sent, aborted>>

(* The peer's end of the session: read returns 0, and what a full buffer    *)
(* left goes to the pool; or it fails, and that is lost.                    *)
ReadEnd(p) ==
    /\ transport = "stream" /\ rd[p].at = "read" /\ wire[p] = << >>
    /\ rd' = [rd EXCEPT ![p].at = "end"]
    /\ acc' = [acc EXCEPT ![p] = << >>]
    /\ \/ acc[p] # << >> /\ queue' = Append(queue, [src |-> p, chunk |-> acc[p]])
       \/ UNCHANGED queue
    /\ UNCHANGED <<chain, handle, transport, appVars, wire, buf, shown, sent, aborted>>

Cut(d) == IF Len(d) <= BufSize THEN d ELSE SubSeq(d, 1, BufSize)

(* read_msg of CPVD_UDP, under mtx_read: a datagram, cut to the buffer, is  *)
(* a message.                                                               *)
ReadDatagram(p) ==
    /\ transport = "datagram"
    /\ \E i \in DOMAIN wire[p] :
          /\ wire' = [wire EXCEPT ![p] = RemoveAt(@, i)]
          /\ queue' = Append(queue, [src |-> p, chunk |-> Cut(wire[p][i])])
    /\ UNCHANGED <<chain, handle, transport, appVars, buf, rd, acc, shown, sent, aborted>>

(* The network loses a datagram.  (That it takes another order is in the    *)
(* choice of ReadDatagram.)                                                 *)
Lose(p) ==
    /\ transport = "datagram" /\ wire[p] # << >>
    /\ wire' = [wire EXCEPT ![p] = Tail(@)]
    /\ UNCHANGED <<chain, handle, transport, appVars, readVars, shown, sent, aborted>>

(* It delivers one twice: a message like the others for the receiver.       *)
Duplicate(p) ==
    /\ transport = "datagram"
    /\ Len(wire[p]) + Len(queue) + Len(shown) < MaxDatagrams
    /\ \E i \in DOMAIN wire[p] : wire' = [wire EXCEPT ![p] = Append(@, wire[p][i])]
    /\ UNCHANGED <<chain, handle, transport, appVars, readVars, shown, sent, aborted>>

-----------------------------------------------------------------------------
(* Unpacking. *)

Unpacked(r, body, who) == [res |-> r, body |-> body, owner |-> who]

(* unpack of one protocol: it asserts more than its header, and a length    *)
(* that the message has.  What is no header is taken for one: then nothing  *)
(* is known of the outcome.  Nor is it where the sender's name is cut:      *)
(* CPUniversalCMD takes its length from what is left, unsigned, and may     *)
(* read beyond the chunk.                                                   *)
Unpack(proto, data) ==
    CASE proto = "none" -> Unpacked("ok", data, Nobody)
      [] proto = "endian" ->
            IF Len(data) <= 1 THEN Unpacked("abort", << >>, Nobody)
            ELSE IF data[1].k # "endian" THEN Unpacked("garbled", << >>, Nobody)
            ELSE IF data[1].len = 0 \/ data[1].len > Len(data) - 1
                 THEN Unpacked("abort", << >>, Nobody)
            ELSE Unpacked("ok", SubSeq(data, 2, data[1].len + 1), Nobody)
      [] proto = "ucmd" ->
            IF Len(data) <= 1 \/ data[1].k # "ucmd" THEN Unpacked("garbled", << >>, Nobody)
            ELSE IF data[1].len > Len(data) - 2 THEN Unpacked("abort", << >>, Nobody)
            ELSE Unpacked("ok", SubSeq(data, 3, data[1].len + 2), data[2].from)

(* Mutant: the first protocol unpacks first. *)
UnpackChain_Forward(data) ==
    LET at[i \in 0 .. Len(chain)] ==
            IF i = 0 THEN Unpacked("ok", data, Nobody)
            ELSE IF at[i - 1].res # "ok" \/ at[i - 1].body = << >> THEN at[i - 1]
            ELSE Unpack(chain[i], at[i - 1].body)
    IN  at[Len(chain)]

(* unpack_recurcive: from the last protocol to the first, which is the one  *)
(* the application is shown; an empty payload ends it.                      *)
UnpackChain(data) ==
    LET at[k \in 0 .. Len(chain)] ==
            IF k = 0 THEN Unpacked("ok", data, Nobody)
            ELSE IF at[k - 1].res # "ok" THEN at[k - 1]
            ELSE IF at[k - 1].body = << >> THEN Unpacked("ok", << >>, Nobody)
            ELSE Unpack(chain[Len(chain) + 1 - k], at[k - 1].body)
    IN  at[Len(chain)]

(* The job of handle_protocol_chain.  get_msg_size of the protocols there   *)
(* are is the size of the chunk, so that its loop ends after one message.   *)
HandleChunk ==
    /\ queue # << >>
    /\ queue' = Tail(queue)
    /\ LET job == Head(queue)
           u == UnpackChain(job.chunk)
       IN  \/ /\ u.res \in {"ok", "garbled"}
              /\ shown' = Append(shown, [src |-> job.src, chunk |-> job.chunk, how |-> u.res,
                                         content |-> u.body, owner |-> u.owner])
              /\ UNCHANGED aborted
           \/ /\ u.res \in {"abort", "garbled"}
              /\ aborted' = job
              /\ UNCHANGED shown
    /\ UNCHANGED <<chain, handle, transport, appVars, wire, buf, rd, acc, sent>>

Next ==
    /\ aborted = Nothing
    /\ \/ HandleChunk
       \/ \E p \in Peers :
             \/ App(p) \/ Read(p) \/ AppendMsg(p) \/ ReadEnd(p)
             \/ ReadDatagram(p) \/ Lose(p) \/ Duplicate(p)

Spec == Init /\ [][Next]_vars

-----------------------------------------------------------------------------
(* Properties. *)

(* A chunk begins with a segment that its peer wrote; where no protocol of  *)
(* the chain has a header, it is that segment.                              *)
BeginsWith(job, s) ==
    /\ s.from = job.src
    /\ IF \A i \in DOMAIN chain : chain[i] = "none"
       THEN job.chunk = s.seg ELSE IsPrefix(s.seg, job.chunk)

(* The payload sent is that of the last protocol of the chain. *)
SentThroughChain == handle = Len(chain)

(* The protocols undo each other: of a chunk that begins with a segment the *)
(* application is shown the message that was sent, from whom it was sent,   *)
(* however long it is, whatever joins it, and however often its payload was *)
(* used.  Assertions of unpack fail only on a chunk that begins with none:  *)
(* a read has cut it, or two receivers have shared the buffer.              *)
RoundTrip ==
    SentThroughChain =>
        \A s \in sent :
            /\ aborted # Nothing => ~BeginsWith(aborted, s)
            /\ \A i \in DOMAIN shown :
                  BeginsWith(shown[i], s) =>
                      /\ shown[i].how = "ok"
                      /\ shown[i].content = s.content
                      /\ chain[1] = "ucmd" => shown[i].owner = s.from

(* On a stream the messages of a peer are shown in the order of their sends *)
(* and none twice, though a payload be kept and sent again and a write fail *)
(* in the midst of a segment.  (A datagram that the network delivers twice  *)
(* is shown twice: nothing in read_msg or the job looks for it.)            *)
ShownOnce ==
    transport = "stream" =>
        \A i, j \in DOMAIN shown :
            (/\ i < j /\ shown[i].src = shown[j].src
             /\ \E s \in sent : BeginsWith(shown[i], s)
             /\ \E s \in sent : BeginsWith(shown[j], s)) =>
                shown[i].chunk[1].send < shown[j].chunk[1].send

(* A sender's chain is in the map as long as its payload can be sent, or if *)
(* it was dropped unsent: none is left by any way out of write_payload.     *)
(* (The jobs of a peer that receives have theirs in the same map; RxPath    *)
(* has those.)                                                              *)
ChainsCounted ==
    \A p \in Peers : chains[p] = dropped[p] + IF pay[p].alive THEN 1 ELSE 0

(* What is shown as a message of a peer was sent by that peer. *)
SourceIsSender ==
    \A i \in DOMAIN shown : \A t \in ToSet(shown[i].chunk) : t.from = shown[i].src
===============================================================================
