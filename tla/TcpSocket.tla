------------------------------- MODULE TcpSocket -------------------------------
(***************************************************************************)
(* TcpSocket: the blocking calls of the application threads, on top of      *)
(* TcpStack.  A thread runs a straight-line program of calls, taken from    *)
(* the repository's tests and applications; the daemons, the threads and    *)
(* the network interleave freely.                                           *)
(***************************************************************************)
EXTENDS TcpStack

CONSTANTS
    Thread,          \* the application threads
    Obj,             \* the TcpSocket objects of the programs
    Home,            \* Home[x]: the stack of thread or object x
    Scenarios,       \* a set of assignments of programs to threads
    BasePort         \* the first ephemeral port (49152)

ASSUME HomeAssumption == Home \in [Thread \cup Obj -> Stack]
ASSUME PortAssumption == BasePort \in Nat \ {0}

\* The calls a thread may make, on sockets of its own stack: a TcpSocket belongs
\* to the TcpStack it was made with.
Own(t) == {o \in Obj : Home[o] = Home[t]}
Call(t) ==
    [op : {"bind", "register", "connect"}, o : Own(t), addr : (DOMAIN Route) \X Nat]
    \cup [op : {"listen", "drain", "close", "crash"}, o : Own(t)]
    \cup [op : {"accept"}, o : Own(t), into : Own(t)]
    \cup [op : {"send", "recv"}, o : Own(t), n : Nat]
    \cup [op : {"stop"}] \cup [op : {"after"}, of : Thread]

ASSUME ScenarioAssumption ==
    \A sc \in Scenarios : DOMAIN sc = Thread /\ \A t \in Thread : sc[t] \in Seq(Call(t))

VARIABLES
    next_port,       \* the static counter of allocate_ephemeral_port
    socket_id,       \* TcpSocket::socket_id_
    prog, pc         \* per thread: calls still to make, place in the call

app == <<next_port, socket_id, prog, pc>>
vars == <<stackVars, app>>

\* Frame conditions of a call: beside the program counter it changes nothing,
\* or only the contents of one control block.
OnlyThread == UNCHANGED <<stackVars, next_port, socket_id>>
OnlyBlock == UNCHANGED <<next_id_, listeners_, connections_, dirty_socket_ids_,
                         links, daemonState, next_port, socket_id>>

-----------------------------------------------------------------------------
(* The application threads: TcpSocket.  pc[t].id is the control block the   *)
(* call works on through a raw pointer, pc[t].to the state close is heading *)
(* for.  A step through the pointer of a destroyed block is not taken: the  *)
(* thread hangs on it.                                                      *)

Ready == [at |-> "ready", id |-> 0, to |-> "CLOSED"]
Starts(t, op) ==
    pc[t] = Ready /\ prog[t] # <<>> /\ Head(prog[t]).op = op
Arg(t) == Head(prog[t])
Mine(t) == socket_id[Arg(t).o]

Goto(t, at, id, to) ==
    /\ pc' = [pc EXCEPT ![t] = [at |-> at, id |-> id, to |-> to]]
    /\ UNCHANGED prog
Return(t) ==
    /\ pc' = [pc EXCEPT ![t] = Ready]
    /\ prog' = [prog EXCEPT ![t] = Tail(@)]

\* allocate_ephemeral_port, away from the end of the range (EphemeralPorts
\* models the whole of it).
FreePort(s) ==
    CHOOSE p \in next_port .. next_port + Cardinality(DOMAIN listeners_[s]) :
        /\ FindListener(s, p) = 0
        /\ \A q \in next_port .. p - 1 : FindListener(s, q) # 0
Allocate_NoStep(s, port) == UNCHANGED next_port
Allocate(s, port) ==
    next_port' = IF port = 0 THEN FreePort(s) + 1 ELSE next_port
PortOf(s, port) == IF port = 0 THEN FreePort(s) ELSE port

bind(t) ==
    LET s == Home[t]
        addr == Arg(t).addr
        port == PortOf(s, addr[2])
        id == next_id_[s]
    IN
    /\ Starts(t, "bind")
    /\ Allocate(s, addr[2])
    /\ \E iss \in ISN :
         sockets_' = [sockets_ EXCEPT ![s] = Put(@, id,
           [Tcb("CLOSED", <<addr[1], port>>, NoAddr) EXCEPT !.iss = iss, !.nxt = iss])]
    /\ next_id_' = [next_id_ EXCEPT ![s] = @ + 1]
    /\ listeners_' = [listeners_ EXCEPT ![s] = Put(@, port, id)]
    /\ socket_id' = [socket_id EXCEPT ![Arg(t).o] = id]
    /\ Return(t)
    /\ UNCHANGED <<connections_, dirty_socket_ids_, links, daemonState>>

listen(t) ==
    LET s == Home[t] IN
    /\ Starts(t, "listen")
    /\ IF Live(s, Mine(t)) /\ sockets_[s][Mine(t)].state = "CLOSED"
       THEN sockets_' = [sockets_ EXCEPT ![s][Mine(t)].state = "LISTEN"]
       ELSE UNCHANGED sockets_
    /\ Return(t)
    /\ OnlyBlock

\* register_connection: a route to the socket `mine', or to a new one.
RegisteredId(s, mine) == IF Live(s, mine) THEN mine ELSE next_id_[s]
register_connection(s, asked, remote, mine) ==
    LET local == <<asked[1], PortOf(s, asked[2])>>
        id == RegisteredId(s, mine)
    IN
    /\ Allocate(s, asked[2])
    /\ sockets_' = [sockets_ EXCEPT ![s] =
         IF Live(s, mine) THEN [@ EXCEPT ![id].src = local, ![id].dst = remote]
                          ELSE Put(@, id, Tcb("CLOSED", local, remote))]
    /\ next_id_' = IF Live(s, mine) THEN next_id_ ELSE [next_id_ EXCEPT ![s] = @ + 1]
    /\ connections_' = [connections_ EXCEPT ![s] = Put(@, <<remote, local>>, id)]
    /\ UNCHANGED <<listeners_, dirty_socket_ids_, links, daemonState>>

\* A program that registers a route itself, for a bound socket (main.cpp).
RegisterRoute(t) ==
    LET s == Home[t] IN
    /\ Starts(t, "register") /\ Live(s, Mine(t))
    /\ register_connection(s, sockets_[s][Mine(t)].src, Arg(t).addr, Mine(t))
    /\ Return(t)
    /\ UNCHANGED socket_id

\* connect up to register_connection.
ConnectRegister(t) ==
    LET s == Home[t]
        asked == IF Live(s, Mine(t)) THEN sockets_[s][Mine(t)].src ELSE <<s, 0>>
        id == RegisteredId(s, Mine(t))
    IN
    /\ Starts(t, "connect")
    /\ register_connection(s, asked, Arg(t).addr, Mine(t))
    /\ socket_id' = [socket_id EXCEPT ![Arg(t).o] = id]
    /\ Goto(t, "opening", id, "CLOSED")

\* The send variables, SYN_SENT and the queued SYN.
ConnectOpen(t) ==
    LET s == Home[t]
        id == pc[t].id
    IN
    /\ pc[t].at = "opening" /\ Live(s, id)
    /\ \E iss \in ISN :
         SetTcb(s, id, [sockets_[s][id] EXCEPT !.iss = iss, !.una = iss,
                          !.nxt = Add(iss, 1), !.state = "SYN_SENT"])
    /\ add_dirty_tcb(s, id)
    /\ Goto(t, "connecting", id, "CLOSED")
    /\ UNCHANGED <<next_id_, listeners_, connections_, links, daemonState,
                   next_port, socket_id>>

\* The wait of connect: the predicate is re-evaluated when the thread runs,
\* so it must still hold then.
ConnectReturn(t) ==
    LET s == Home[t]
        id == pc[t].id
    IN
    /\ pc[t].at = "connecting" /\ Live(s, id)
    /\ sockets_[s][id].state \in {"ESTABLISHED", "CLOSED"}
    /\ Return(t)
    /\ OnlyThread

AcceptCall(t) ==
    LET s == Home[t] IN
    /\ Starts(t, "accept")
    /\ IF Live(s, Mine(t)) /\ sockets_[s][Mine(t)].state = "LISTEN"
       THEN Goto(t, "accepting", Mine(t), "CLOSED") /\ UNCHANGED socket_id
       ELSE Return(t) /\ socket_id' = [socket_id EXCEPT ![Arg(t).into] = 0]
    /\ UNCHANGED <<tables, dirty_socket_ids_, links, daemonState, next_port>>

AcceptReturn_NoPop(t) ==
    LET s == Home[t]
        id == pc[t].id
    IN
    /\ pc[t].at = "accepting" /\ Live(s, id)
    /\ sockets_[s][id].accept_queue # <<>>
    /\ socket_id' = [socket_id EXCEPT
                       ![Arg(t).into] = Head(sockets_[s][id].accept_queue)]
    /\ Return(t)
    /\ UNCHANGED <<tables, dirty_socket_ids_, links, daemonState, next_port>>

AcceptReturn(t) ==
    LET s == Home[t]
        id == pc[t].id
    IN
    /\ pc[t].at = "accepting" /\ Live(s, id)
    /\ sockets_[s][id].accept_queue # <<>>
    /\ sockets_' = [sockets_ EXCEPT ![s][id].accept_queue = Tail(@)]
    /\ socket_id' = [socket_id EXCEPT
                       ![Arg(t).into] = Head(sockets_[s][id].accept_queue)]
    /\ Return(t)
    /\ UNCHANGED <<next_id_, listeners_, connections_, dirty_socket_ids_, links,
                   daemonState, next_port>>

\* An application that sends or receives n bytes calls until it has them all
\* or a call hands it none.
Continue(t, n) ==
    IF n = 0 \/ n = Arg(t).n THEN Return(t)
    ELSE /\ pc' = [pc EXCEPT ![t] = Ready]
         /\ prog' = [prog EXCEPT ![t][1].n = @ - n]

\* A call on a socket whose block is gone returns 0.
NoSuchSocket(t) ==
    /\ Starts(t, "send") \/ Starts(t, "recv") \/ Starts(t, "drain")
    /\ ~ Live(Home[t], Mine(t))
    /\ Return(t)
    /\ OnlyThread

\* A send or recv whose buffer makes it wait.
Park(t) ==
    LET c == sockets_[Home[t]][Mine(t)] IN
    /\ \/ Starts(t, "send") /\ Live(Home[t], Mine(t)) /\ ~ CanWrite(c)
       \/ Starts(t, "recv") /\ Live(Home[t], Mine(t)) /\ ~ CanRead(c)
       \/ Starts(t, "drain") /\ Live(Home[t], Mine(t)) /\ ~ CanRead(c)
    /\ Goto(t, Arg(t).op, Mine(t), "CLOSED")
    /\ OnlyThread

\* The block a send or recv works on: the one it found when it was called.
Target(t) == IF pc[t] = Ready THEN Mine(t) ELSE pc[t].id

\* t calls op, or is parked in it, on a block that exists.
Inside(t, op) ==
    /\ Starts(t, op) \/ pc[t].at = op
    /\ Live(Home[t], Target(t))

send(t) ==
    LET s == Home[t]
        c == sockets_[s][Target(t)]
        n == Lesser(Arg(t).n, BufSize - c.slen)
    IN
    /\ Inside(t, "send")
    /\ CanWrite(c)
    /\ SetTcb(s, Target(t), [c EXCEPT !.slen = @ + n])
    /\ add_dirty_tcb(s, Mine(t))
    /\ Continue(t, n)
    /\ UNCHANGED <<next_id_, listeners_, connections_, links, daemonState,
                   next_port, socket_id>>

recv(t) ==
    LET s == Home[t]
        c == sockets_[s][Target(t)]
        n == Lesser(Arg(t).n, Buffered(c))
    IN
    /\ Inside(t, "recv")
    /\ CanRead(c)
    /\ SetTcb(s, Target(t), [c EXCEPT !.rread = @ + n])
    /\ Continue(t, n)
    /\ OnlyBlock

\* Receiving until the end of the stream: recv calls until one returns 0.
drain(t) ==
    LET s == Home[t]
        c == sockets_[s][Target(t)]
    IN
    /\ Inside(t, "drain")
    /\ CanRead(c)
    /\ SetTcb(s, Target(t), [c EXCEPT !.rread = Len(c.rcvd)])
    /\ IF Buffered(c) = 0 THEN Return(t)
       ELSE pc' = [pc EXCEPT ![t] = Ready] /\ UNCHANGED prog
    /\ OnlyBlock

\* close_connection, one step per access to the shared block.
CloseCheck(t) ==
    LET s == Home[t]
        id == Mine(t)
        state == sockets_[s][id].state
    IN
    /\ Starts(t, "close")
    /\ \/ ~ Live(s, id) /\ Return(t)
       \/ Live(s, id) /\ state = "ESTABLISHED" /\ Goto(t, "flush", id, "FIN_WAIT_1")
       \/ Live(s, id) /\ state = "CLOSE_WAIT" /\ Goto(t, "flush", id, "LAST_ACK")
       \/ /\ Live(s, id) /\ state \notin {"ESTABLISHED", "CLOSE_WAIT"}
          /\ Goto(t, "abort", id, "CLOSED")
    /\ OnlyThread

CloseFlush_Nothing(t) ==
    /\ pc[t].at = "flush" /\ Live(Home[t], pc[t].id)
    /\ Goto(t, "wake", pc[t].id, pc[t].to)
    /\ OnlyThread

CloseFlush(t) ==
    /\ pc[t].at = "flush" /\ Live(Home[t], pc[t].id)
    /\ process_block_(Home[t], pc[t].id)
    /\ Goto(t, "wake", pc[t].id, pc[t].to)
    /\ UNCHANGED <<next_id_, listeners_, connections_, daemonState, next_port,
                   socket_id>>

\* tcb->close() chooses a state by itself, set_state then overrules it.
CloseWake(t) ==
    LET s == Home[t]
        id == pc[t].id
    IN
    /\ pc[t].at = "wake" /\ Live(s, id)
    /\ SetTcb(s, id, Closing(sockets_[s][id]))
    /\ Goto(t, "mark", id, pc[t].to)
    /\ OnlyBlock

CloseMark(t) ==
    LET s == Home[t]
        id == pc[t].id
    IN
    /\ pc[t].at = "mark" /\ Live(s, id)
    /\ sockets_' = [sockets_ EXCEPT ![s][id].state = pc[t].to]
    /\ Goto(t, "fin", id, pc[t].to)
    /\ OnlyBlock

CloseFin(t) ==
    LET s == Home[t]
        c == sockets_[s][pc[t].id]
    IN
    /\ pc[t].at = "fin" /\ Live(s, pc[t].id)
    /\ write_packet_(s, Control(c, {"FIN", "ACK"}, c.nxt, c.rnxt))
    /\ Goto(t, "bump", pc[t].id, pc[t].to)
    /\ UNCHANGED <<tables, dirty_socket_ids_, daemonState, next_port, socket_id>>

\* SND.NXT++, after the FIN is out.  The block may have been freed by then: the
\* increment goes to memory nobody reads.
CloseBump(t) ==
    LET s == Home[t]
        id == pc[t].id
    IN
    /\ pc[t].at = "bump"
    /\ sockets_' = IF Live(s, id) THEN [sockets_ EXCEPT ![s][id].nxt = Add(@, 1)]
                   ELSE sockets_
    /\ Return(t)
    /\ OnlyBlock

CloseAbort(t) ==
    LET s == Home[t]
        id == pc[t].id
        c == sockets_[s][id]
    IN
    /\ pc[t].at = "abort" /\ Live(s, id)
    /\ DestroyConnection(s, id, Closing(c), c.src, c.dst)
    /\ Return(t)
    /\ UNCHANGED <<next_id_, listeners_, dirty_socket_ids_, links, daemonState,
                   next_port, socket_id>>

\* ~TcpStack: stop_ clears the flag, join waits for the daemon, then the
\* members are destroyed.
StopCall(t) ==
    /\ Starts(t, "stop")
    /\ daemon' = [daemon EXCEPT ![Home[t]].running = FALSE]
    /\ Goto(t, "joining", 0, "CLOSED")
    /\ UNCHANGED <<tables, dirty_socket_ids_, links, writing, faults, next_port,
                   socket_id>>

Join(t) ==
    LET s == Home[t] IN
    /\ pc[t].at = "joining"
    /\ daemon[s].at = "exit"
    /\ sockets_' = [sockets_ EXCEPT ![s] = Empty]
    /\ listeners_' = [listeners_ EXCEPT ![s] = Empty]
    /\ connections_' = [connections_ EXCEPT ![s] = Empty]
    /\ dirty_socket_ids_' = [dirty_socket_ids_ EXCEPT ![s] = <<>>]
    /\ loopback_packet_queue_' = [loopback_packet_queue_ EXCEPT ![s] = <<>>]
    /\ Return(t)
    /\ UNCHANGED <<next_id_, tun, daemonState, next_port, socket_id>>

\* The tests' simulate_node_crash: the route of a connection is erased, its
\* block stays.
simulate_node_crash(t) ==
    LET s == Home[t]
        c == sockets_[s][Mine(t)]
    IN
    /\ Starts(t, "crash")
    /\ connections_' = IF Live(s, Mine(t))
                       THEN [connections_ EXCEPT ![s] = Remove(@, <<c.dst, c.src>>)]
                       ELSE connections_
    /\ Return(t)
    /\ UNCHANGED <<sockets_, next_id_, listeners_, dirty_socket_ids_, links,
                   daemonState, next_port, socket_id>>

\* A program starts a thread by waiting in it for another program to end.
Await(t) ==
    /\ Starts(t, "after")
    /\ prog[Arg(t).of] = <<>>
    /\ Return(t)
    /\ OnlyThread

ThreadStep(t) ==
    /\ prog[t] # <<>>
    /\ \/ bind(t) \/ listen(t) \/ RegisterRoute(t) \/ ConnectRegister(t) \/ ConnectOpen(t)
       \/ ConnectReturn(t) \/ AcceptCall(t) \/ AcceptReturn(t)
       \/ NoSuchSocket(t) \/ Park(t) \/ send(t) \/ recv(t) \/ drain(t)
       \/ CloseCheck(t) \/ CloseFlush(t) \/ CloseWake(t) \/ CloseMark(t)
       \/ CloseFin(t) \/ CloseBump(t) \/ CloseAbort(t)
       \/ StopCall(t) \/ Join(t) \/ simulate_node_crash(t) \/ Await(t)

\* TcpSocket::state.
state(o) == IF Live(Home[o], socket_id[o])
            THEN sockets_[Home[o]][socket_id[o]].state ELSE "CLOSED"

-----------------------------------------------------------------------------

Init ==
    /\ StackInit
    /\ next_port = BasePort
    /\ socket_id = [o \in Obj |-> 0]
    /\ prog \in Scenarios
    /\ pc = [t \in Thread |-> Ready]

Next == \/ StackNext /\ UNCHANGED app
        \/ (\E t \in Thread : ThreadStep(t))

Spec == Init /\ [][Next]_vars

\* The daemon and the threads are scheduled; a packet that is on a link and
\* not lost reaches the device.
FairSpec ==
    /\ Spec
    /\ \A s \in Stack : /\ WF_vars(UNCHANGED app /\ lifecycle_(s))
                        /\ SF_vars(UNCHANGED app /\ TunRead(s))
    /\ \A t \in Thread : WF_vars(ThreadStep(t))

-----------------------------------------------------------------------------
(* Properties.                                                              *)

States == {"CLOSED", "LISTEN", "SYN_SENT", "SYN_RECEIVED", "ESTABLISHED",
           "FIN_WAIT_1", "FIN_WAIT_2", "CLOSE_WAIT", "CLOSING", "LAST_ACK"}
SeqNum == 0 .. SeqMod - 1

\* Types; the ids in queues, routes and objects were all handed out before.
TypeOK ==
    \A s \in Stack :
      LET Id == 1 .. next_id_[s] - 1 IN
      /\ DOMAIN sockets_[s] \subseteq Id
      /\ \A id \in DOMAIN sockets_[s] :
           LET c == sockets_[s][id] IN
           /\ c.state \in States
           /\ {c.una, c.nxt, c.iss, c.rnxt} \subseteq SeqNum
           /\ c.wnd \in 0..BufSize /\ c.slen \in 0..BufSize
           /\ Buffered(c) \in 0..BufSize
           /\ \A i \in DOMAIN c.accept_queue : c.accept_queue[i] \in Id
      /\ \A key \in DOMAIN connections_[s] : connections_[s][key] \in Id
      /\ \A port \in DOMAIN listeners_[s] : listeners_[s][port] \in Id
      /\ \A o \in Obj : Home[o] = s => socket_id[o] \in Id \cup {0}
      /\ \A i \in DOMAIN dirty_socket_ids_[s] : dirty_socket_ids_[s][i] \in Id

\* The block at the other end of connection id of stack s: the one a packet
\* from it is handed to (0 if there is none).
PeerStack(c) == Route[c.dst[1]]
PeerId(c) == FindConnection(PeerStack(c), c.src, c.dst)

Linked(P(_, _)) ==
    \A s \in Stack : \A id \in DOMAIN sockets_[s] :
        LET c == sockets_[s][id] IN
        (c.dst # NoAddr /\ PeerId(c) # 0) =>
            P(c, sockets_[PeerStack(c)][PeerId(c)])

\* What a socket has received is what its peer has written, in order, from
\* the first byte on and without a gap or a repetition.
StreamIntegrity ==
    \A s \in Stack : \A id \in DOMAIN sockets_[s] :
        sockets_[s][id].rcvd = Run(0, Len(sockets_[s][id].rcvd))

\* A byte leaves a send buffer only after the peer has stored it.
AckedIsDelivered ==
    Linked(LAMBDA c, d : c.state = "ESTABLISHED" => c.off <= Len(d.rcvd))

\* Both ends count the same: RCV.NXT is the peer's ISS plus one plus the bytes
\* received, through the wrap of the sequence space.
Pending(s, id) == IF writing[s].id = id THEN Len(writing[s].data) ELSE 0
SequenceAgreement ==
    \A s \in Stack : \A id \in DOMAIN sockets_[s] :
        LET c == sockets_[s][id]
            d == sockets_[PeerStack(c)][PeerId(c)]
        IN  c.state = "ESTABLISHED" /\ PeerId(c) # 0 =>
              c.rnxt = Add(d.iss, 1 + Len(c.rcvd) + Pending(s, id))

\* The daemon is never stuck in recv_buffer.write and never truncates what it
\* acknowledges: the window it advertised always has room for a segment.
WindowHonoured ==
    \A s \in Stack : writing[s] # NoWrite =>
        /\ Live(s, writing[s].id)
        /\ Len(writing[s].data) <= FreeWnd(sockets_[s][writing[s].id])

\* In ESTABLISHED everything in flight is still in the send buffer, so that
\* it can be retransmitted: UNA and NXT never drift past the stored bytes.
InFlightIsBuffered ==
    \A s \in Stack : \A id \in DOMAIN sockets_[s] :
        LET c == sockets_[s][id] IN
        c.state = "ESTABLISHED" => InFlight(c) <= c.slen

\* A call that works on a block through a raw pointer (TcpStack::get_tcb hands
\* them out), and the daemon inside recv_buffer.write, never outlive the block,
\* except for the increment with which close ends.
PointersStayValid ==
    /\ \A t \in Thread : pc[t].id # 0 /\ pc[t].at # "bump" => Live(Home[t], pc[t].id)
    /\ \A s \in Stack : writing[s] # NoWrite => Live(s, writing[s].id)

\* accept hands every child out once: no socket waits in two places or belongs
\* to two TcpSocket objects.
Queued(s, id) == {q \in (DOMAIN sockets_[s]) \X (1..next_id_[s]) :
                    /\ q[2] \in DOMAIN sockets_[s][q[1]].accept_queue
                    /\ sockets_[s][q[1]].accept_queue[q[2]] = id}
Holders(s, id) == {o \in Obj : Home[o] = s /\ socket_id[o] = id}
AcceptedOnce ==
    \A s \in Stack : \A id \in DOMAIN sockets_[s] :
        Cardinality(Queued(s, id)) + Cardinality(Holders(s, id)) <= 1

\* Every route leads to the block of that very 4-tuple, and every block with
\* a handshake behind it is reached by its route: no connection is orphaned or
\* answered by somebody else's block.
Synchronized == States \ {"CLOSED", "LISTEN", "SYN_SENT"}
RoutesExact ==
    \A s \in Stack :
      /\ \A key \in DOMAIN connections_[s] : Live(s, connections_[s][key]) =>
           LET c == sockets_[s][connections_[s][key]] IN key = <<c.dst, c.src>>
      /\ \A id \in DOMAIN sockets_[s] :
           LET c == sockets_[s][id] IN
           c.state \in Synchronized => FindConnection(s, c.dst, c.src) = id

\* A socket in ESTABLISHED has a peer that took part in its handshake, as long
\* as the peer's stack runs.
NoHalfOpen ==
    \A s \in Stack : \A id \in DOMAIN sockets_[s] :
        LET c == sockets_[s][id] IN
        c.state = "ESTABLISHED" /\ daemon[PeerStack(c)].at # "exit" =>
            /\ PeerId(c) # 0
            /\ sockets_[PeerStack(c)][PeerId(c)].state \in Synchronized

\* "Flush any unsent payload data before transmitting FIN" (TcpStack.cpp:221):
\* a socket told that the stream has ended has received all of it.
ClosingStates == {"FIN_WAIT_1", "FIN_WAIT_2", "CLOSING", "LAST_ACK"}
FlushedBeforeFin ==
    Linked(LAMBDA c, d : c.state = "CLOSE_WAIT" /\ d.state \in ClosingStates =>
                           Len(c.rcvd) = d.off + d.slen)

\* A connection is opened once: a socket becomes ESTABLISHED only out of a
\* handshake, and one that has been through a handshake never goes back to a
\* state from which a connection is opened (the handlers of TcpStack choose the
\* next state, close_connection and TransmissionControlBlock::close overrule it).
Opening == {"SYN_SENT", "SYN_RECEIVED"}
OpensOnce ==
    [][\A s \in Stack : \A id \in (DOMAIN sockets_[s]) \cap DOMAIN sockets_'[s] :
         LET from == sockets_[s][id].state
             to == sockets_'[s][id].state
         IN  /\ to = "ESTABLISHED" => from \in Opening \cup {"ESTABLISHED"}
             /\ from \in Synchronized \ Opening => to \notin Opening \cup {"LISTEN"}]_vars

\* Every call of every program returns.
AllCallsReturn == <>(\A t \in Thread : prog[t] = <<>>)

\* "Window is full; wait for peer ACKs to reopen window" (TcpStack.cpp:70): a
\* sender with unsent bytes does not wait for ever for a peer with an empty
\* receive buffer.  (MaxId bounds the socket ids the formula ranges over.)
Starved(s, id) ==
    /\ Live(s, id)
    /\ LET c == sockets_[s][id] IN
         /\ c.state = "ESTABLISHED" /\ c.slen > InFlight(c)
         /\ PeerId(c) # 0
         /\ Buffered(sockets_[PeerStack(c)][PeerId(c)]) = 0
MaxId == 3
WindowReopens ==
    \A s \in Stack, id \in 1..MaxId : Starved(s, id) ~> ~ Starved(s, id)

\* When both ends have been closed, both sockets end up CLOSED.
TeardownCompletes ==
    <>[](\A o \in Obj : state(o) \in {"CLOSED", "LISTEN"})

\* The stacks come to rest: no packet and no dirty block is left.
ComesToRest ==
    <>[](\A s \in Stack :
           /\ loopback_packet_queue_[s] = <<>> /\ tun[s] = <<>>
           /\ dirty_socket_ids_[s] = <<>> /\ daemon[s].batch = <<>>)
=============================================================================
