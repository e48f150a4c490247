------------------------------- MODULE TcpStack -------------------------------
(***************************************************************************)
(* TcpStack with its SocketTable, ListenerTable and ConnectionTable: the    *)
(* daemon (lifecycle_), which alone handles packets, the packet handlers,   *)
(* and the links packets travel on.                                         *)
(*                                                                          *)
(* A stack reaches itself through loopback_packet_queue_ and other stacks   *)
(* through their TUN devices, where packets may be lost, duplicated and     *)
(* reordered within the budgets MaxLoss, MaxDup and Reorder.                *)
(***************************************************************************)
EXTENDS TransmissionControlBlock, FiniteSets

CONSTANTS
    Stack,           \* the stacks, each named by its local_address()
    Route,           \* Route[ip]: the stack whose TUN device gets packets for ip
    ISN,             \* the values generate_random_uint32 may return
    MaxRetransmits,  \* bound: timer expiries per control block
    MaxLoss, MaxDup, \* bounds: packets the network loses and duplicates
    Reorder          \* may the network reorder packets

ASSUME IsnAssumption == ISN # {} /\ ISN \subseteq 0 .. SeqMod - 1
ASSUME RouteAssumption == Stack \subseteq DOMAIN Route
                          /\ \A ip \in DOMAIN Route : Route[ip] \in Stack

VARIABLES
    sockets_,              \* SocketTable: socket id -> control block, per stack
    next_id_,
    listeners_,            \* ListenerTable: port -> socket id
    connections_,          \* ConnectionTable: <<remote, local>> -> socket id
    dirty_socket_ids_,
    loopback_packet_queue_,
    tun,                   \* packets on their way to the TUN device of a stack
    daemon,                \* where each lifecycle_ is, and its is_running_
    writing,               \* the payload its recv_buffer.write is storing
    faults                 \* packets lost and duplicated so far

tables == <<sockets_, next_id_, listeners_, connections_>>
links == <<loopback_packet_queue_, tun>>
daemonState == <<daemon, writing, faults>>
stackVars == <<tables, dirty_socket_ids_, links, daemonState>>

Put(f, x, v) == [y \in DOMAIN f \cup {x} |-> IF y = x THEN v ELSE f[y]]
Remove(f, x) == [y \in DOMAIN f \ {x} |-> f[y]]

Live(s, id) == id \in DOMAIN sockets_[s]

\* ConnectionTable::find and ListenerTable::find: 0 unless the socket exists.
FindConnection(s, remote, local) ==
    LET key == <<remote, local>> IN
    IF key \in DOMAIN connections_[s] /\ Live(s, connections_[s][key])
    THEN connections_[s][key] ELSE 0
FindListener(s, port) ==
    IF port \in DOMAIN listeners_[s] /\ Live(s, listeners_[s][port])
    THEN listeners_[s][port] ELSE 0

\* TunDevice::tun_write: the device of the stack the packet is routed to.
tun_write(p) == tun' = [tun EXCEPT ![Route[p.dst[1]]] = Append(@, p)]

\* write_packet_: the fast path to the own stack, or the TUN device.
write_packet_(s, p) ==
    IF p.src[1] = p.dst[1] \/ p.dst[1] = s
    THEN /\ loopback_packet_queue_' = [loopback_packet_queue_ EXCEPT ![s] = Append(@, p)]
         /\ UNCHANGED tun
    ELSE tun_write(p) /\ UNCHANGED loopback_packet_queue_

SetTcb(s, id, c) == sockets_' = [sockets_ EXCEPT ![s][id] = c]

add_dirty_tcb(s, id) ==
    dirty_socket_ids_' = IF Live(s, id)
                         THEN [dirty_socket_ids_ EXCEPT ![s] = Append(@, id)]
                         ELSE dirty_socket_ids_

\* ConnectionTable::destroy_connection(remote, local), after c has been stored
\* as the block of socket id: the route goes and with it the socket it names.
DestroyConnection(s, id, c, remote, local) ==
    LET key == <<remote, local>>
        stored == [sockets_[s] EXCEPT ![id] = c]
    IN  IF key \in DOMAIN connections_[s]
        THEN /\ connections_' = [connections_ EXCEPT ![s] = Remove(@, key)]
             /\ sockets_' = [sockets_ EXCEPT ![s] =
                               Remove(stored, connections_[s][key])]
        ELSE /\ SetTcb(s, id, c)
             /\ UNCHANGED connections_

-----------------------------------------------------------------------------
(* Sending.                                                                 *)

process_block_(s, id) ==
    \/ /\ Live(s, id)
       /\ sockets_[s][id].state = "SYN_SENT"
       /\ LET c == sockets_[s][id] IN
            write_packet_(s, Control(c, {"SYN"}, c.iss, 0))
       /\ UNCHANGED <<sockets_, dirty_socket_ids_>>
    \/ /\ Live(s, id)
       /\ sockets_[s][id].state \in SendingStates
       /\ LET c == sockets_[s][id]
              n == Sendable(c)
              d == [c EXCEPT !.nxt = Add(@, n)]
          IN  /\ n > 0
              /\ write_packet_(s, create_writer_tcp_packet_(
                                    c, Run(NextUnsent(c), n), c.nxt))
              /\ SetTcb(s, id, d)
              /\ IF MorePending(d) THEN add_dirty_tcb(s, id)
                                   ELSE UNCHANGED dirty_socket_ids_
    \/ /\ \/ ~ Live(s, id)
          \/ sockets_[s][id].state \notin SendingStates \cup {"SYN_SENT"}
          \/ /\ sockets_[s][id].state \in SendingStates
             /\ Sendable(sockets_[s][id]) = 0
       /\ UNCHANGED <<sockets_, dirty_socket_ids_, links>>

-----------------------------------------------------------------------------
(* The packet handlers.  Each fixes sockets_, next_id_, connections_,       *)
(* dirty_socket_ids_, links and writing.                                    *)

Ignore == UNCHANGED <<sockets_, next_id_, connections_, dirty_socket_ids_,
                      links, writing>>

\* A handler that stores c, replies with p and does nothing else.
StoreAndReply(s, id, c, p) ==
    /\ SetTcb(s, id, c)
    /\ write_packet_(s, p)
    /\ UNCHANGED <<next_id_, connections_, dirty_socket_ids_, writing>>
Store(s, id, c) ==
    /\ SetTcb(s, id, c)
    /\ UNCHANGED <<next_id_, connections_, dirty_socket_ids_, links, writing>>

handle_closed_reset_response_AnswersRst(s, p) ==
    /\ write_packet_(s, RawRst(p.dst, p.src, p.ack, 0, {}))
    /\ UNCHANGED <<sockets_, next_id_, connections_, dirty_socket_ids_, writing>>
handle_closed_reset_response_Silent(s, p) == Ignore
handle_closed_reset_response_(s, p) ==
    \/ /\ Has(p, "RST")
       /\ Ignore
    \/ /\ ~ Has(p, "RST")
       /\ IF Has(p, "ACK")
          THEN write_packet_(s, RawRst(p.dst, p.src, p.ack, 0, {}))
          ELSE write_packet_(s, RawRst(p.dst, p.src, 0,
                 Add(p.seq, Len(p.data) + IF Has(p, "SYN") THEN 1 ELSE 0),
                 {"ACK"}))
       /\ UNCHANGED <<sockets_, next_id_, connections_, dirty_socket_ids_, writing>>

OpensPassively(s, p) ==
    FindListener(s, p.dst[2]) # 0 /\ Has(p, "SYN") /\ ~ Has(p, "ACK")

\* The control block of a connection a SYN opens.
Child_Established(p, iss) ==
    [Tcb("ESTABLISHED", p.dst, p.src) EXCEPT
       !.rnxt = PastControl(p), !.wnd = p.wnd,
       !.iss = iss, !.una = iss, !.nxt = Add(iss, 1)]
Child_Swapped(p, iss) ==
    [Tcb("SYN_RECEIVED", p.src, p.dst) EXCEPT
       !.rnxt = PastControl(p), !.wnd = p.wnd,
       !.iss = iss, !.una = iss, !.nxt = Add(iss, 1)]
Child(p, iss) ==
    [Tcb("SYN_RECEIVED", p.dst, p.src) EXCEPT
       !.rnxt = PastControl(p), !.wnd = p.wnd,
       !.iss = iss, !.una = iss, !.nxt = Add(iss, 1)]

handle_passive_open_syn_(s, p) ==
    \/ /\ OpensPassively(s, p)
       /\ \E iss \in ISN :
            LET child_id == next_id_[s]
                c == Child(p, iss)
            IN  /\ sockets_' = [sockets_ EXCEPT ![s] = Put(@, child_id, c)]
                /\ connections_' = [connections_ EXCEPT ![s] =
                                      Put(@, <<p.src, p.dst>>, child_id)]
                /\ next_id_' = [next_id_ EXCEPT ![s] = @ + 1]
                /\ write_packet_(s, Control(c, {"SYN", "ACK"}, iss, c.rnxt))
       /\ UNCHANGED <<dirty_socket_ids_, writing>>
    \/ /\ ~ OpensPassively(s, p)
       /\ Ignore

handle_syn_sent_state_(s, id, p) ==
    LET c == sockets_[s][id]
        acks == Has(p, "ACK") /\ p.ack = c.nxt
        opened == Opened(c, p)
    IN
    \/ /\ Has(p, "RST") /\ acks
       /\ Store(s, id, [c EXCEPT !.state = "CLOSED"])
    \/ /\ Has(p, "RST") /\ ~ acks
       /\ Ignore
    \/ /\ ~ Has(p, "RST") /\ Has(p, "ACK") /\ ~ acks
       /\ StoreAndReply(s, id, c, Control(c, {"RST"}, p.ack, 0))
    \/ /\ ~ Has(p, "RST") /\ acks /\ Has(p, "SYN")
       /\ LET d == [opened EXCEPT !.una = p.ack, !.state = "ESTABLISHED"]
          IN  StoreAndReply(s, id, d, Control(d, {"ACK"}, d.nxt, d.rnxt))
    \/ /\ ~ Has(p, "RST") /\ ~ Has(p, "ACK") /\ Has(p, "SYN")
       /\ LET d == [opened EXCEPT !.state = "SYN_RECEIVED"]
          IN  StoreAndReply(s, id, d, Control(d, {"SYN", "ACK"}, d.iss, d.rnxt))
    \/ /\ ~ Has(p, "RST") /\ ~ Has(p, "SYN") /\ (Has(p, "ACK") => acks)
       /\ Ignore

handle_syn_received_state_(s, id, p) ==
    LET c == sockets_[s][id]
        d == Established(c, p)
        stored == [sockets_[s] EXCEPT ![id] = d]
        listener_id == FindListener(s, c.src[2])
    IN
    \/ /\ Has(p, "RST")
       /\ sockets_' = [sockets_ EXCEPT ![s] = Remove(@, id)]
       /\ connections_' = [connections_ EXCEPT ![s] = Remove(@, <<p.src, c.src>>)]
       /\ UNCHANGED <<next_id_, dirty_socket_ids_, links, writing>>
    \/ /\ ~ Has(p, "RST")
       /\ ~ (Has(p, "ACK") /\ p.ack = c.nxt)
       /\ Ignore
    \/ /\ ~ Has(p, "RST")
       /\ Has(p, "ACK") /\ p.ack = c.nxt
       /\ sockets_' = [sockets_ EXCEPT ![s] =
            IF listener_id = 0 THEN stored
            ELSE [stored EXCEPT ![listener_id].accept_queue = Append(@, id)]]
       /\ IF Has(p, "SYN")
          THEN write_packet_(s, Control(d, {"ACK"}, d.nxt, d.rnxt))
          ELSE UNCHANGED links
       /\ UNCHANGED <<next_id_, connections_, dirty_socket_ids_, writing>>

handle_established_state_(s, id, p) ==
    LET c == sockets_[s][id]
        acked == Acknowledge(c, p)
    IN
    \/ /\ Has(p, "FIN")
       /\ LET d == PeerClosed(c, p) IN
            StoreAndReply(s, id, d, Control(d, {"ACK"}, d.nxt, d.rnxt))
    \/ /\ ~ Has(p, "FIN")
       /\ SetTcb(s, id, Counted(acked, p))
       /\ IF Has(p, "ACK") /\ MorePending(acked)
          THEN add_dirty_tcb(s, id) ELSE UNCHANGED dirty_socket_ids_
       \* recv_buffer.write may block the daemon: WritePayload goes on.
       /\ writing' = IF HasPayload(p)
                     THEN [writing EXCEPT ![s] = [id |-> id, data |-> p.data]]
                     ELSE writing
       /\ UNCHANGED <<next_id_, connections_, links>>

handle_fin_wait_1_state_DestroysEarly(s, id, p) ==
    LET c == sockets_[s][id] IN
    /\ Has(p, "ACK") /\ p.ack = c.nxt
    /\ DestroyConnection(s, id, [c EXCEPT !.state = "CLOSED"], c.src, c.dst)
    /\ UNCHANGED <<next_id_, dirty_socket_ids_, links, writing>>

handle_fin_wait_1_state_(s, id, p) ==
    LET c == sockets_[s][id]
        acks == Has(p, "ACK") /\ p.ack = c.nxt
        d == [c EXCEPT !.rnxt = PastControl(p)]
        reply == Control(d, {"ACK"}, d.nxt, d.rnxt)
    IN
    \/ /\ acks /\ Has(p, "FIN")
       /\ write_packet_(s, reply)
       /\ DestroyConnection(s, id, [d EXCEPT !.state = "CLOSED"], c.src, c.dst)
       /\ UNCHANGED <<next_id_, dirty_socket_ids_, writing>>
    \/ /\ acks /\ ~ Has(p, "FIN")
       /\ Store(s, id, [c EXCEPT !.state = "FIN_WAIT_2"])
    \/ /\ ~ acks /\ Has(p, "FIN")
       /\ StoreAndReply(s, id, [d EXCEPT !.state = "CLOSING"], reply)
    \/ /\ ~ acks /\ ~ Has(p, "FIN")
       /\ Ignore

handle_fin_wait_2_state_(s, id, p) ==
    LET c == sockets_[s][id]
        d == [c EXCEPT !.rnxt = PastControl(p),
                       !.nxt = IF Has(p, "ACK") THEN p.ack ELSE @]
    IN
    \/ /\ Has(p, "FIN")
       /\ write_packet_(s, Control(d, {"ACK"}, d.nxt, d.rnxt))
       /\ DestroyConnection(s, id, [d EXCEPT !.state = "CLOSED"], c.src, c.dst)
       /\ UNCHANGED <<next_id_, dirty_socket_ids_, writing>>
    \/ /\ ~ Has(p, "FIN")
       /\ Ignore

\* handle_closing_state_ and handle_last_ack_state_ have the same body.
AwaitLastAck(s, id, p) ==
    LET c == sockets_[s][id] IN
    \/ /\ Has(p, "ACK") /\ p.ack = c.nxt
       /\ DestroyConnection(s, id, [c EXCEPT !.state = "CLOSED"], c.src, c.dst)
       /\ UNCHANGED <<next_id_, dirty_socket_ids_, links, writing>>
    \/ /\ ~ (Has(p, "ACK") /\ p.ack = c.nxt)
       /\ Ignore
handle_closing_state_(s, id, p) == AwaitLastAck(s, id, p)
handle_last_ack_state_(s, id, p) == AwaitLastAck(s, id, p)

\* The switch of process_incoming_packet_.
Dispatch_WrongHandler(s, id, p) ==
    LET In(state) == sockets_[s][id].state = state IN
    \/ In("CLOSED") /\ handle_closed_reset_response_(s, p)
    \/ In("LISTEN") /\ handle_passive_open_syn_(s, p)
    \/ In("SYN_SENT") /\ handle_syn_sent_state_(s, id, p)
    \/ In("SYN_RECEIVED") /\ handle_syn_received_state_(s, id, p)
    \/ In("ESTABLISHED") /\ handle_established_state_(s, id, p)
    \/ In("FIN_WAIT_1") /\ handle_syn_received_state_(s, id, p)

Dispatch(s, id, p) ==
    LET In(state) == sockets_[s][id].state = state IN
    \/ In("CLOSED") /\ handle_closed_reset_response_(s, p)
    \/ In("LISTEN") /\ handle_passive_open_syn_(s, p)
    \/ In("SYN_SENT") /\ handle_syn_sent_state_(s, id, p)
    \/ In("SYN_RECEIVED") /\ handle_syn_received_state_(s, id, p)
    \/ In("ESTABLISHED") /\ handle_established_state_(s, id, p)
    \/ In("FIN_WAIT_1") /\ handle_fin_wait_1_state_(s, id, p)
    \/ In("FIN_WAIT_2") /\ handle_fin_wait_2_state_(s, id, p)
    \/ In("CLOSING") /\ handle_closing_state_(s, id, p)
    \/ In("LAST_ACK") /\ handle_last_ack_state_(s, id, p)
    \/ In("CLOSE_WAIT") /\ Ignore

process_incoming_packet_(s, p) ==
    LET id == FindConnection(s, p.src, p.dst) IN
    \/ id = 0 /\ OpensPassively(s, p) /\ handle_passive_open_syn_(s, p)
    \/ id = 0 /\ ~ OpensPassively(s, p) /\ handle_closed_reset_response_(s, p)
    \/ id # 0 /\ Dispatch(s, id, p)

-----------------------------------------------------------------------------
(* The daemon: lifecycle_.  Pending payload comes before the swapped-out    *)
(* dirty ids, and those before the step named by `at':                      *)
(*   "poll"  swap dirty_socket_ids_ out, then go on at `then'               *)
(*   "swap"  swap loopback_packet_queue_ out                                *)
(*   "batch" handle the next packet                                         *)
(*   "tun"   read the TUN device; check_retransmissions_ when it is empty   *)
(*   "rto"   inside check_retransmissions_                                  *)
(*   "exit"  returned: is_running_ was found false at the head of the loop  *)
(* Time is not modelled: a timer of a block with data in flight may be      *)
(* found expired, MaxRetransmits times per block.                           *)

NoWrite == [id |-> 0, data |-> <<>>]
At(s, place) == writing[s] = NoWrite /\ daemon[s].ids = <<>> /\ daemon[s].at = place

PollDirty(s) ==
    /\ At(s, "poll")
    /\ daemon' = [daemon EXCEPT ![s].ids = dirty_socket_ids_[s],
                                ![s].at = daemon[s].then]
    /\ dirty_socket_ids_' = [dirty_socket_ids_ EXCEPT ![s] = <<>>]
    /\ UNCHANGED <<tables, links, writing, faults>>

process_dirty_blocks_(s) ==
    /\ writing[s] = NoWrite
    /\ daemon[s].ids # <<>>
    /\ process_block_(s, Head(daemon[s].ids))
    /\ daemon' = [daemon EXCEPT ![s].ids = Tail(@)]
    /\ UNCHANGED <<next_id_, listeners_, connections_, writing, faults>>

SwapLoopback(s) ==
    /\ At(s, "swap")
    /\ daemon' = [daemon EXCEPT
         ![s].batch = loopback_packet_queue_[s],
         ![s].at = IF loopback_packet_queue_[s] = <<>> THEN "tun" ELSE "batch"]
    /\ loopback_packet_queue_' = [loopback_packet_queue_ EXCEPT ![s] = <<>>]
    /\ UNCHANGED <<tables, dirty_socket_ids_, tun, writing, faults>>

\* One packet of the loopback batch, or the one just read from the TUN device.
\* The loop on read_incoming_packets_ also ends when a handler returns 0.
HandlePacket(s) ==
    LET rest == Tail(daemon[s].batch) IN
    /\ At(s, "batch")
    /\ process_incoming_packet_(s, Head(daemon[s].batch))
    /\ \/ daemon' = [daemon EXCEPT
            ![s].batch = rest, ![s].at = "poll",
            ![s].then = IF rest = <<>> THEN "tun" ELSE "batch"]
       \/ /\ daemon[s].external
          /\ daemon' = [daemon EXCEPT ![s].batch = rest, ![s].at = "rto",
                                      ![s].external = FALSE]
    /\ UNCHANGED <<listeners_, faults>>

\* The rest of handle_established_state_: recv_buffer.write waits for room,
\* stores what fits, and the segment is acknowledged.
WritePayload(s) ==
    LET id == writing[s].id
        c == sockets_[s][id]
        d == Stored(c, writing[s].data)
    IN
    /\ writing[s] # NoWrite
    /\ Live(s, id)
    /\ FreeWnd(c) > 0 \/ c.woken_r
    /\ SetTcb(s, id, d)
    /\ write_packet_(s, Control(d, {"ACK"}, d.nxt, d.rnxt))
    /\ writing' = [writing EXCEPT ![s] = NoWrite]
    /\ UNCHANGED <<next_id_, listeners_, connections_, dirty_socket_ids_, daemon, faults>>

\* TunDevice::tun_read: the oldest packet on the link, or any one of them.
tun_read(s, i) ==
    /\ i \in DOMAIN tun[s]
    /\ Reorder \/ i = 1
    /\ tun' = [tun EXCEPT ![s] = SubSeq(@, 1, i - 1) \o SubSeq(@, i + 1, Len(@))]

\* read_incoming_packets_.
TunRead(s) ==
    /\ At(s, "tun")
    /\ \E i \in DOMAIN tun[s] :
         /\ tun_read(s, i)
         /\ daemon' = [daemon EXCEPT ![s].batch = <<tun[s][i]>>, ![s].at = "batch",
                                     ![s].external = TRUE]
    /\ UNCHANGED <<tables, dirty_socket_ids_, loopback_packet_queue_, writing, faults>>

\* check_retransmissions_ for one expired block.
Retransmit(s, id) ==
    LET c == sockets_[s][id]
        n == Lesser(Lesser(InFlight(c), MSS), c.slen)
    IN
    /\ At(s, "tun") \/ At(s, "rto")
    /\ c.state = "ESTABLISHED" /\ InFlight(c) > 0
    /\ n > 0
    /\ c.attempts < MaxRetransmits
    /\ SetTcb(s, id, [c EXCEPT !.attempts = @ + 1])
    /\ write_packet_(s, create_writer_tcp_packet_(c, Run(c.off, n), c.una))
    /\ daemon' = [daemon EXCEPT ![s].at = "rto", ![s].external = FALSE]
    /\ UNCHANGED <<next_id_, listeners_, connections_, dirty_socket_ids_, writing, faults>>

EndOfLoop(s) ==
    /\ At(s, "tun") \/ At(s, "rto")
    /\ daemon' = [daemon EXCEPT ![s].at = IF daemon[s].running THEN "poll" ELSE "exit",
                                ![s].then = "swap", ![s].external = FALSE]
    /\ UNCHANGED <<tables, dirty_socket_ids_, links, writing, faults>>

lifecycle_(s) ==
    \/ PollDirty(s) \/ process_dirty_blocks_(s) \/ SwapLoopback(s)
    \/ HandlePacket(s) \/ WritePayload(s) \/ TunRead(s)
    \/ \E id \in DOMAIN sockets_[s] : Retransmit(s, id)
    \/ EndOfLoop(s)

-----------------------------------------------------------------------------
(* The network between stacks, and the loss the tests inject with           *)
(* packet_drop_predicate_.                                                  *)

Lose(q, s) ==
    /\ faults.lost < MaxLoss
    /\ \E i \in DOMAIN q[s] :
         q' = [q EXCEPT ![s] = SubSeq(@, 1, i - 1) \o SubSeq(@, i + 1, Len(@))]
    /\ faults' = [faults EXCEPT !.lost = @ + 1]

LosePacket(s) ==
    /\ \/ Lose(tun, s) /\ UNCHANGED loopback_packet_queue_
       \/ Lose(loopback_packet_queue_, s) /\ UNCHANGED tun
    /\ UNCHANGED <<tables, dirty_socket_ids_, daemon, writing>>

DuplicatePacket(s) ==
    /\ faults.duplicated < MaxDup
    /\ \E i \in DOMAIN tun[s] : tun' = [tun EXCEPT ![s] = Append(@, tun[s][i])]
    /\ faults' = [faults EXCEPT !.duplicated = @ + 1]
    /\ UNCHANGED <<tables, dirty_socket_ids_, loopback_packet_queue_, daemon,
                   writing>>

-----------------------------------------------------------------------------

Empty == [x \in {} |-> 0]

StackInit ==
    /\ sockets_ = [s \in Stack |-> Empty]
    /\ next_id_ = [s \in Stack |-> 1]
    /\ listeners_ = [s \in Stack |-> Empty]
    /\ connections_ = [s \in Stack |-> Empty]
    /\ dirty_socket_ids_ = [s \in Stack |-> <<>>]
    /\ loopback_packet_queue_ = [s \in Stack |-> <<>>]
    /\ tun = [s \in Stack |-> <<>>]
    /\ daemon = [s \in Stack |-> [at |-> "poll", then |-> "swap", ids |-> <<>>,
                                  batch |-> <<>>, external |-> FALSE,
                                  running |-> TRUE]]
    /\ writing = [s \in Stack |-> NoWrite]
    /\ faults = [lost |-> 0, duplicated |-> 0]

StackNext == \E s \in Stack : lifecycle_(s) \/ LosePacket(s) \/ DuplicatePacket(s)
=============================================================================
