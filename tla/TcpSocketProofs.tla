---------------------------- MODULE TcpSocketProofs ----------------------------
(***************************************************************************)
(* The sockets, the stack and its tables, proved for every set of stacks,   *)
(* threads and sockets, every program of calls, every size of buffers,      *)
(* segments and sequence numbers, and every network.                        *)
(***************************************************************************)
EXTENDS TcpSocket, ModularArithmetic, SequenceTheorems, FiniteSetTheorems,
        WellFoundedInduction

(***************************************************************************)
(* Types.                                                                   *)
(***************************************************************************)

Addr == ((DOMAIN Route) \cup {"0.0.0.0"}) \X Nat

\* The control blocks of a stack whose next socket id is n.
Block(n) ==
    [state : States, src : Addr, dst : Addr,
     una : SeqNum, nxt : SeqNum, wnd : 0..BufSize, iss : SeqNum, rnxt : SeqNum,
     off : Nat, slen : 0..BufSize, rcvd : Seq(Nat), rread : Nat,
     woken_s : BOOLEAN, woken_r : BOOLEAN, accept_queue : Seq(1 .. n - 1),
     attempts : Nat]
\* Their receive buffers hold what has not been read, and no more than they can.
Good(n) == {c \in Block(n) : c.rread <= Len(c.rcvd) /\ Len(c.rcvd) <= c.rread + BufSize}

Flags == {"SYN", "ACK", "FIN", "RST"}
Segment == [src : Addr, dst : Addr, flags : SUBSET Flags, seq : SeqNum,
            ack : SeqNum, wnd : 0..BufSize, data : Seq(Nat)]

\* Where a daemon may be; it has a packet wherever it is about to handle one.
Loop(n) ==
    {d \in [at : {"poll", "swap", "batch", "tun", "rto", "exit"},
            then : {"swap", "batch", "tun"}, ids : Seq(1 .. n - 1), batch : Seq(Segment),
            external : BOOLEAN, running : BOOLEAN] :
        (IF d.at = "poll" THEN d.then ELSE d.at) = "batch" => d.batch # <<>>}
Writing(n) == [id : 0 .. n - 1, data : Seq(Nat)]
\* Where a thread may be in a call: close has chosen its state by then.
Place(n) ==
    {w \in [at : {"ready", "opening", "connecting", "accepting", "send", "recv", "drain",
                  "flush", "wake", "mark", "fin", "bump", "abort", "joining"},
            id : 0 .. n - 1, to : States] :
        /\ w.at = "ready" => w = Ready
        /\ w.at \in {"flush", "wake", "mark"} => w.to \in {"FIN_WAIT_1", "LAST_ACK"}}
\* The call each of these places belongs to.
CallAt(at) ==
    CASE at \in {"opening", "connecting"} -> "connect"
      [] at = "accepting" -> "accept"
      [] at \in {"flush", "wake", "mark", "fin", "bump", "abort"} -> "close"
      [] at = "joining" -> "stop"
      [] OTHER -> at

\* A table whose keys are in K and whose values are socket ids below n.
IdTable(f, K, n) == DOMAIN f \subseteq K /\ f \in [DOMAIN f -> 1 .. n - 1]
SocketTable(f, n) == DOMAIN f \subseteq 1 .. n - 1 /\ f \in [DOMAIN f -> Good(n)]

\* One part per table, queue and variable of the application.
IdsType == next_id_ \in [Stack -> Nat \ {0}]
SocketsType ==
    DOMAIN sockets_ = Stack /\ \A s \in Stack : SocketTable(sockets_[s], next_id_[s])
ListenersType ==
    /\ DOMAIN listeners_ = Stack
    /\ \A s \in Stack : /\ IdTable(listeners_[s], Nat, next_id_[s])
                         /\ IsFiniteSet(DOMAIN listeners_[s])
RoutesType ==
    /\ DOMAIN connections_ = Stack
    /\ \A s \in Stack : IdTable(connections_[s], Addr \X Addr, next_id_[s])
DirtyType ==
    /\ DOMAIN dirty_socket_ids_ = Stack
    /\ \A s \in Stack : dirty_socket_ids_[s] \in Seq(1 .. next_id_[s] - 1)
DaemonType ==
    DOMAIN daemon = Stack /\ \A s \in Stack : daemon[s] \in Loop(next_id_[s])
WritingType ==
    DOMAIN writing = Stack /\ \A s \in Stack : writing[s] \in Writing(next_id_[s])
LinksType ==
    /\ loopback_packet_queue_ \in [Stack -> Seq(Segment)]
    /\ tun \in [Stack -> Seq(Segment)]
PortType == next_port \in Nat /\ BasePort <= next_port
ObjType ==
    DOMAIN socket_id = Obj /\ \A o \in Obj : socket_id[o] \in 0 .. next_id_[Home[o]] - 1
ProgType == DOMAIN prog = Thread /\ \A t \in Thread : prog[t] \in Seq(Call(t))
PcType ==
    DOMAIN pc = Thread /\ \A t \in Thread : pc[t] \in Place(next_id_[Home[t]])

\* A thread inside a call is inside the one its program is at.
InCallType ==
    \A t \in Thread : pc[t].at # "ready" => prog[t] # <<>> /\ Arg(t).op = CallAt(pc[t].at)

TablesType == IdsType /\ SocketsType /\ ListenersType /\ RoutesType
StackType == TablesType /\ DirtyType /\ WritingType /\ LinksType
CallsType == ProgType /\ PcType /\ InCallType
AppType == PortType /\ ObjType /\ CallsType
TypeInv == StackType /\ DaemonType /\ AppType

-----------------------------------------------------------------------------
(* Arithmetic and sequences.                                                *)

\* The constants, as the lemmas below need them.
LEMMA Sizes == SeqMod \in Nat \ {0} /\ BufSize \in Nat \ {0} /\ MSS \in Nat \ {0}
               /\ ISN \subseteq SeqNum
  BY SeqModAssumption, SizesAssumption, IsnAssumption DEF SeqNum

\* Sequence numbers are closed under the 32-bit operations.
LEMMA AddType == ASSUME NEW a \in Int, NEW b \in Int PROVE Add(a, b) \in SeqNum
  BY Sizes, DivMod DEF Add, SeqNum
\* A difference of sequence numbers is a number.
LEMMA SubType == ASSUME NEW a \in Int, NEW b \in Int PROVE Sub(a, b) \in Nat
  BY Sizes, DivMod DEF Sub
\* Sequence numbers are numbers.
LEMMA SeqNumInt == 0 \in SeqNum /\ \A x \in SeqNum : x \in Nat /\ x \in Int
  BY Sizes DEF SeqNum

\* A segment taken out of a queue leaves a queue of segments.
LEMMA WithoutType ==
  ASSUME NEW S, NEW q \in Seq(S), NEW i \in DOMAIN q
  PROVE  /\ SubSeq(q, 1, i - 1) \o SubSeq(q, i + 1, Len(q)) \in Seq(S)
         /\ q[i] \in S
<1>1. i \in 1 .. Len(q) /\ Len(q) \in Nat
  BY LenProperties
<1>2. SubSeq(q, 1, i - 1) \in Seq(S) /\ SubSeq(q, i + 1, Len(q)) \in Seq(S)
  BY <1>1, SubSeqProperties
<1> QED
  BY <1>1, <1>2, ConcatProperties, ElementOfSeq

\* The bytes of a run are positions.
LEMMA RunType == \A from, n \in Nat : Run(from, n) \in Seq(Nat)
  BY DEF Run

-----------------------------------------------------------------------------
(* What the operators on control blocks and segments return.                *)

\* A block stays a block when the stack hands out more ids.
LEMMA GoodGrows ==
  ASSUME NEW n \in Nat, NEW m \in Nat, n <= m, NEW c \in Good(n)
  PROVE  c \in Good(m)
<1>1. c.accept_queue \in Seq(1 .. m - 1)
  <2>1. c.accept_queue \in Seq(1 .. n - 1) /\ 1 .. n - 1 \subseteq 1 .. m - 1
    BY DEF Good, Block
  <2> QED
    BY <2>1, SeqMonotonic
<1> QED
  BY <1>1 DEF Good, Block

\* The fresh block of a bind, a connect or a passive open.
LEMMA TcbType ==
  ASSUME NEW n \in Nat, NEW st \in States, NEW src \in Addr, NEW dst \in Addr
  PROVE  Tcb(st, src, dst) \in Good(n)
<1>1. <<>> \in Seq(Nat) /\ <<>> \in Seq(1 .. n - 1) /\ Len(<<>>) = 0
  BY EmptySeq
<1> QED
  BY <1>1, Sizes, SeqNumInt DEF Tcb, Good, Block

\* The block of a passive open.
LEMMA ChildType ==
  ASSUME NEW n \in Nat, NEW p \in Segment, NEW iss \in ISN
  PROVE  Child(p, iss) \in Good(n)
<1> DEFINE c == Tcb("SYN_RECEIVED", p.dst, p.src)
<1>1. c \in Good(n)
  BY TcbType DEF Segment, States
<1>2. iss \in SeqNum /\ Add(iss, 1) \in SeqNum /\ PastControl(p) \in SeqNum /\ p.wnd \in 0..BufSize
  BY Sizes, AddType, SeqNumInt DEF PastControl, Segment
<1> HIDE DEF c
<1>3. [c EXCEPT !.rnxt = PastControl(p), !.wnd = p.wnd,
                !.iss = iss, !.una = iss, !.nxt = Add(iss, 1)] \in Good(n)
  BY <1>1, <1>2 DEF Good, Block
<1> QED
  BY <1>3 DEF Child, c

\* The distances and window sizes computed from a block.
LEMMA FreeWndType ==
  ASSUME NEW n, NEW c \in Good(n)
  PROVE  FreeWnd(c) \in 0..BufSize /\ Buffered(c) \in 0..BufSize
<1>1. Len(c.rcvd) \in Nat /\ c.rread \in Nat /\ c.rread <= Len(c.rcvd)
      /\ Len(c.rcvd) <= c.rread + BufSize
  BY LenProperties DEF Good, Block
<1> QED
  BY <1>1, Sizes DEF FreeWnd, Buffered
\* What is in flight is a number.
LEMMA InFlightType ==
  ASSUME NEW n, NEW c \in Good(n)
  PROVE  InFlight(c) \in Nat
<1>1. c.nxt \in Int /\ c.una \in Int
  BY SeqNumInt DEF Good, Block
<1> QED
  BY <1>1, SubType, Sizes DEF InFlight
\* process_block_ sends no more than a segment and no more than the buffer holds.
LEMMA SendableType ==
  ASSUME NEW n, NEW c \in Good(n)
  PROVE  Sendable(c) \in Nat /\ NextUnsent(c) \in Nat
<1>1. c.wnd \in Nat /\ c.slen \in Nat /\ c.off \in Nat
  BY Sizes DEF Good, Block
<1> QED
  BY <1>1, InFlightType, Sizes DEF Sendable, NextUnsent, Lesser

\* The segments the stack builds.
LEMMA ControlType ==
  ASSUME NEW n, NEW c \in Good(n), NEW flags \in SUBSET Flags,
         NEW seq \in SeqNum, NEW ack \in SeqNum
  PROVE  Control(c, flags, seq, ack) \in Segment
<1>1. c.src \in Addr /\ c.dst \in Addr /\ FreeWnd(c) \in 0..BufSize
  BY FreeWndType DEF Good, Block
<1> QED
  BY <1>1, EmptySeq DEF Control, Packet, Segment
\* The data segment of a block is a segment.
LEMMA WriterType ==
  ASSUME NEW n, NEW c \in Good(n), NEW data \in Seq(Nat), NEW seq \in SeqNum
  PROVE  create_writer_tcp_packet_(c, data, seq) \in Segment
<1>1. c.src \in Addr /\ c.dst \in Addr /\ c.rnxt \in SeqNum /\ FreeWnd(c) \in 0..BufSize
  BY FreeWndType DEF Good, Block
<1> QED
  BY <1>1 DEF create_writer_tcp_packet_, Packet, Segment, Flags
\* So is a reset built without a block.
LEMMA RawRstType ==
  ASSUME NEW src \in Addr, NEW dst \in Addr, NEW seq \in SeqNum, NEW ack \in SeqNum,
         NEW flags \in SUBSET Flags
  PROVE  RawRst(src, dst, seq, ack, flags) \in Segment
  BY EmptySeq, Sizes DEF RawRst, Packet, Segment, Flags

\* What the handlers make of a block and a segment.
LEMMA HandledType ==
  ASSUME NEW n, NEW c \in Good(n), NEW p \in Segment
  PROVE  /\ Acknowledge(c, p) \in Good(n)
         /\ Counted(c, p) \in Good(n)
         /\ Opened(c, p) \in Good(n)
         /\ PeerClosed(c, p) \in Good(n)
         /\ Established(c, p) \in Good(n)
         /\ Closing(c) \in Good(n)
<1>1. /\ p.seq \in SeqNum /\ p.ack \in SeqNum /\ p.wnd \in 0..BufSize
      /\ PastControl(p) \in SeqNum /\ Len(p.data) \in Nat /\ Add(c.rnxt, Len(p.data)) \in SeqNum
  <2>1. p.data \in Seq(Nat) /\ p.seq \in SeqNum /\ p.ack \in SeqNum /\ p.wnd \in 0..BufSize
    BY DEF Segment
  <2>2. Len(p.data) \in Nat /\ c.rnxt \in SeqNum
    BY <2>1, LenProperties DEF Good, Block
  <2>3. p.seq \in Int /\ c.rnxt \in Int /\ Len(p.data) \in Int /\ 1 \in Int
    BY <2>1, <2>2, SeqNumInt
  <2>4. Add(c.rnxt, Len(p.data)) \in SeqNum /\ Add(p.seq, 1) \in SeqNum
    BY <2>3, AddType
  <2> QED
    BY <2>1, <2>2, <2>4 DEF PastControl
<1>2. Sub(p.ack, c.una) \in Nat /\ c.slen \in 0..BufSize /\ c.off \in Nat
  <2>1. p.ack \in Int /\ c.una \in Int
    BY <1>1, SeqNumInt DEF Good, Block
  <2> QED
    BY <2>1, SubType, Sizes DEF Good, Block
<1>3. Acknowledge(c, p) \in Good(n)
  <2> DEFINE m == Lesser(Sub(p.ack, c.una), c.slen)
  <2>1. c.off + m \in Nat /\ c.slen - m \in 0..BufSize
    BY <1>2, Sizes DEF Lesser
  <2> HIDE DEF m
  <2>2. [c EXCEPT !.off = @ + m, !.slen = @ - m, !.una = p.ack, !.wnd = p.wnd] \in Good(n)
    BY <1>1, <2>1 DEF Good, Block
  <2>3. [c EXCEPT !.wnd = p.wnd] \in Good(n)
    BY <1>1 DEF Good, Block
  <2> QED
    BY <2>2, <2>3 DEF Acknowledge, m
<1>4. Counted(c, p) \in Good(n)
  BY <1>1 DEF Counted, Good, Block
<1>5. Opened(c, p) \in Good(n)
  BY <1>1 DEF Opened, Good, Block
<1>6. PeerClosed(c, p) \in Good(n)
  BY <1>1 DEF PeerClosed, Good, Block, States
<1>7. Established(c, p) \in Good(n)
  BY <1>1 DEF Established, Good, Block, States
<1>8. Closing(c) \in Good(n)
  BY DEF Closing, Good, Block, States
<1> QED
  BY <1>3, <1>4, <1>5, <1>6, <1>7, <1>8

\* recv_buffer.write never overfills the buffer.
LEMMA StoredType ==
  ASSUME NEW n, NEW c \in Good(n), NEW data \in Seq(Nat)
  PROVE  Stored(c, data) \in Good(n)
<1> DEFINE m == Lesser(Len(data), FreeWnd(c))
<1>1. Len(data) \in Nat /\ FreeWnd(c) \in 0..BufSize
  BY LenProperties, FreeWndType
<1>2. m \in Nat /\ m <= Len(data) /\ m <= FreeWnd(c)
  BY <1>1, Sizes DEF Lesser
<1> HIDE DEF m
<1>3. /\ SubSeq(data, 1, m) \in Seq(Nat) /\ Len(SubSeq(data, 1, m)) = m
  <2>1. \A i \in 1 .. m : data[i] \in Nat
    BY <1>1, <1>2, ElementOfSeq
  <2> QED
    BY <1>2, <2>1, SubSeqProperties
<1>4. c.rcvd \in Seq(Nat) /\ c.rread \in Nat /\ c.rread <= Len(c.rcvd) /\ Len(c.rcvd) \in Nat
  BY LenProperties DEF Good, Block
<1>5. /\ c.rcvd \o SubSeq(data, 1, m) \in Seq(Nat)
      /\ Len(c.rcvd \o SubSeq(data, 1, m)) = Len(c.rcvd) + m
  BY <1>3, <1>4, ConcatProperties
<1>6. Len(c.rcvd) + m <= c.rread + BufSize
  BY <1>2, <1>4, Sizes DEF FreeWnd, Buffered
<1> DEFINE q == c.rcvd \o SubSeq(data, 1, m)
<1> HIDE DEF q
<1>9. q \in Seq(Nat) /\ Len(q) = Len(c.rcvd) + m
  BY <1>5 DEF q
<1>7. q \in Seq(Nat) /\ c.rread <= Len(q) /\ Len(q) <= c.rread + BufSize
  BY <1>2, <1>4, <1>6, <1>9, Sizes
<1>8. [c EXCEPT !.rcvd = q] \in Good(n)
  BY <1>7 DEF Good, Block
<1> QED
  BY <1>8 DEF Stored, q, m

-----------------------------------------------------------------------------
(* The tables.                                                              *)

\* Ids are only ever added.
Grow == IdsType' /\ \A r \in Stack : next_id_[r] <= next_id_'[r]

\* A step that hands out no id,
LEMMA SameIds == ASSUME IdsType, UNCHANGED next_id_ PROVE Grow
  BY DEF Grow, IdsType
\* and one that hands out the next, only add ids.
LEMMA MoreIds ==
  ASSUME IdsType, NEW s \in Stack, next_id_' = [next_id_ EXCEPT ![s] = @ + 1]
  PROVE  Grow
  BY DEF Grow, IdsType

\* Tables of ids stay what they are when more ids are handed out.
LEMMA IdsGrow ==
  ASSUME NEW n \in Nat, NEW m \in Nat, n <= m
  PROVE  /\ \A q \in Seq(1 .. n - 1) : q \in Seq(1 .. m - 1)
         /\ \A f, K : IdTable(f, K, n) => IdTable(f, K, m)
         /\ \A f : SocketTable(f, n) => SocketTable(f, m)
         /\ \A d \in Loop(n) : d \in Loop(m)
         /\ \A w \in Writing(n) : w \in Writing(m)
         /\ \A w \in Place(n) : w \in Place(m)
<1>0. 1 .. n - 1 \subseteq 1 .. m - 1 /\ 0 .. n - 1 \subseteq 0 .. m - 1
  OBVIOUS
<1>1. \A q \in Seq(1 .. n - 1) : q \in Seq(1 .. m - 1)
  BY <1>0, SeqMonotonic
<1>2. \A f, K : IdTable(f, K, n) => IdTable(f, K, m)
  BY <1>0 DEF IdTable
<1>3. \A f : SocketTable(f, n) => SocketTable(f, m)
  BY <1>0, GoodGrows DEF SocketTable
<1>4. \A d \in Loop(n) : d \in Loop(m)
  BY <1>1 DEF Loop
<1>5. /\ \A w \in Writing(n) : w \in Writing(m)
      /\ \A w \in Place(n) : w \in Place(m)
  BY <1>0 DEF Writing, Place
<1> QED
  BY <1>1, <1>2, <1>3, <1>4, <1>5

\* A variable that does not change keeps its type when ids are added.
LEMMA Kept ==
  ASSUME IdsType, Grow
  PROVE  /\ SocketsType /\ UNCHANGED sockets_ => SocketsType'
         /\ ListenersType /\ UNCHANGED listeners_ => ListenersType'
         /\ RoutesType /\ UNCHANGED connections_ => RoutesType'
         /\ DirtyType /\ UNCHANGED dirty_socket_ids_ => DirtyType'
         /\ DaemonType /\ UNCHANGED daemon => DaemonType'
         /\ WritingType /\ UNCHANGED writing => WritingType'
         /\ ObjType /\ UNCHANGED socket_id => ObjType'
         /\ PcType /\ UNCHANGED pc => PcType'
<1>1. \A r \in Stack : next_id_[r] \in Nat /\ next_id_'[r] \in Nat /\ next_id_[r] <= next_id_'[r]
  BY DEF Grow, IdsType
<1>2. \A t \in Thread : Home[t] \in Stack
  BY HomeAssumption
<1>3. \A o \in Obj : Home[o] \in Stack
  BY HomeAssumption
<1>4. SocketsType /\ UNCHANGED sockets_ => SocketsType'
  BY <1>1, IdsGrow DEF SocketsType
<1>5. ListenersType /\ UNCHANGED listeners_ => ListenersType'
  BY <1>1, IdsGrow DEF ListenersType
<1>6. RoutesType /\ UNCHANGED connections_ => RoutesType'
  BY <1>1, IdsGrow DEF RoutesType
<1>7. DirtyType /\ UNCHANGED dirty_socket_ids_ => DirtyType'
  BY <1>1, IdsGrow DEF DirtyType
<1>8. DaemonType /\ UNCHANGED daemon => DaemonType'
  BY <1>1, IdsGrow DEF DaemonType
<1>9. WritingType /\ UNCHANGED writing => WritingType'
  BY <1>1, IdsGrow DEF WritingType
<1>10. ObjType /\ UNCHANGED socket_id => ObjType'
  <2> SUFFICES ASSUME ObjType, UNCHANGED socket_id, NEW o \in Obj
               PROVE  socket_id[o] \in 0 .. next_id_'[Home[o]] - 1
    BY DEF ObjType
  <2>1. socket_id[o] \in 0 .. next_id_[Home[o]] - 1
    BY DEF ObjType
  <2> QED
    BY <1>1, <1>3, <2>1
<1>11. PcType /\ UNCHANGED pc => PcType'
  BY <1>1, <1>2, IdsGrow DEF PcType
<1> QED
  BY <1>4, <1>5, <1>6, <1>7, <1>8, <1>9, <1>10, <1>11

\* Storing, adding and removing a block.
LEMMA TableSet ==
  ASSUME NEW n, NEW f, SocketTable(f, n), NEW id, NEW c \in Good(n)
  PROVE  SocketTable([f EXCEPT ![id] = c], n)
  BY DEF SocketTable
\* A block added under a new id,
LEMMA TablePut ==
  ASSUME NEW n \in Nat \ {0}, NEW f, SocketTable(f, n), NEW c \in Good(n + 1)
  PROVE  SocketTable(Put(f, n, c), n + 1)
<1>1. SocketTable(f, n + 1)
  BY IdsGrow
<1> QED
  BY <1>1 DEF SocketTable, Put
\* and one removed, leave a table of blocks.
LEMMA TableRemove ==
  ASSUME NEW n, NEW f, SocketTable(f, n), NEW x
  PROVE  SocketTable(Remove(f, x), n)
  BY DEF SocketTable, Remove
\* The same for a table of ids: an entry added,
LEMMA IdPut ==
  ASSUME NEW n, NEW K, NEW f, IdTable(f, K, n), NEW x \in K, NEW id \in 1 .. n - 1
  PROVE  IdTable(Put(f, x, id), K, n)
  BY DEF IdTable, Put
\* an entry removed,
LEMMA IdRemove ==
  ASSUME NEW n, NEW K, NEW f, IdTable(f, K, n), NEW x
  PROVE  IdTable(Remove(f, x), K, n)
  BY DEF IdTable, Remove
\* and the empty tables of ~TcpStack.
LEMMA EmptyTables ==
  ASSUME NEW n, NEW K
  PROVE  SocketTable(Empty, n) /\ IdTable(Empty, K, n) /\ IsFiniteSet(DOMAIN Empty)
  BY FS_EmptySet DEF Empty, SocketTable, IdTable

\* The table of one stack is replaced.
LEMMA SocketsSet ==
  ASSUME IdsType, SocketsType, Grow, NEW s \in Stack, NEW f,
         SocketTable(f, next_id_'[s]), sockets_' = [sockets_ EXCEPT ![s] = f]
  PROVE  SocketsType'
<1>1. \A r \in Stack : next_id_[r] \in Nat /\ next_id_'[r] \in Nat /\ next_id_[r] <= next_id_'[r]
  BY DEF Grow, IdsType
<1>2. \A r \in Stack : SocketTable(sockets_[r], next_id_'[r])
  BY <1>1, IdsGrow DEF SocketsType
<1> QED
  BY <1>2 DEF SocketsType
\* connections_ after a change to the routes of one stack.
LEMMA RoutesSet ==
  ASSUME IdsType, RoutesType, Grow, NEW s \in Stack, NEW f,
         IdTable(f, Addr \X Addr, next_id_'[s]), connections_' = [connections_ EXCEPT ![s] = f]
  PROVE  RoutesType'
<1>1. \A r \in Stack : next_id_[r] \in Nat /\ next_id_'[r] \in Nat /\ next_id_[r] <= next_id_'[r]
  BY DEF Grow, IdsType
<1>2. \A r \in Stack : IdTable(connections_[r], Addr \X Addr, next_id_'[r])
  BY <1>1, IdsGrow DEF RoutesType
<1> QED
  BY <1>2 DEF RoutesType

\* A block found by its id is one.
LEMMA Found ==
  ASSUME SocketsType, NEW s \in Stack, NEW id, Live(s, id)
  PROVE  sockets_[s][id] \in Good(next_id_[s]) /\ id \in 1 .. next_id_[s] - 1
  BY DEF SocketsType, SocketTable, Live
\* find_connection returns 0 or the id of a block,
LEMMA FoundRoute ==
  ASSUME IdsType, SocketsType, NEW s \in Stack, NEW remote, NEW local,
         FindConnection(s, remote, local) # 0
  PROVE  Live(s, FindConnection(s, remote, local))
  BY DEF FindConnection
\* and so does find_listener.
LEMMA FoundListener ==
  ASSUME NEW s, NEW port, FindListener(s, port) # 0
  PROVE  Live(s, FindListener(s, port)) /\ port \in DOMAIN listeners_[s]
         /\ FindListener(s, port) = listeners_[s][port]
  BY DEF FindListener

\* Storing a block.
LEMMA SetTcbType ==
  ASSUME IdsType, SocketsType, UNCHANGED next_id_, NEW s \in Stack, NEW id,
         NEW c \in Good(next_id_[s]), SetTcb(s, id, c)
  PROVE  SocketsType'
<1>1. sockets_' = [sockets_ EXCEPT ![s] = [sockets_[s] EXCEPT ![id] = c]]
  BY DEF SetTcb
<1>2. SocketTable([sockets_[s] EXCEPT ![id] = c], next_id_'[s])
  BY TableSet DEF SocketsType
<1> QED
  BY <1>1, <1>2, SameIds, SocketsSet

-----------------------------------------------------------------------------
(* Sending and handling packets keeps the types.                            *)

\* A segment put on a link.
LEMMA WriteType ==
  ASSUME LinksType, NEW s \in Stack, NEW p \in Segment, write_packet_(s, p)
  PROVE  LinksType'
<1>1. \A r \in Stack : Append(loopback_packet_queue_[r], p) \in Seq(Segment)
                       /\ Append(tun[r], p) \in Seq(Segment)
  BY AppendProperties DEF LinksType
<1>2. CASE /\ loopback_packet_queue_' =
                [loopback_packet_queue_ EXCEPT ![s] = Append(@, p)]
           /\ UNCHANGED tun
  BY <1>1, <1>2 DEF LinksType
<1>3. CASE tun_write(p) /\ UNCHANGED loopback_packet_queue_
  <2> DEFINE r == Route[p.dst[1]]
  <2>1. tun' = [tun EXCEPT ![r] = Append(tun[r], p)] /\ UNCHANGED loopback_packet_queue_
    BY <1>3 DEF tun_write
  <2> HIDE DEF r
  <2> QED
    BY <1>1, <2>1 DEF LinksType
<1> QED
  BY <1>2, <1>3 DEF write_packet_

\* Marking a block dirty.
LEMMA DirtyMark ==
  ASSUME IdsType, SocketsType, DirtyType, UNCHANGED next_id_, NEW s \in Stack, NEW id,
         add_dirty_tcb(s, id) \/ UNCHANGED dirty_socket_ids_
  PROVE  DirtyType'
<1>1. CASE Live(s, id) /\ add_dirty_tcb(s, id)
  <2>1. id \in 1 .. next_id_[s] - 1
    BY <1>1, Found
  <2>2. Append(dirty_socket_ids_[s], id) \in Seq(1 .. next_id_[s] - 1)
    BY <2>1, AppendProperties DEF DirtyType
  <2> QED
    BY <1>1, <2>2 DEF DirtyType, add_dirty_tcb
<1> QED
  BY <1>1 DEF DirtyType, add_dirty_tcb

\* destroy_connection takes a route and a block away.
LEMMA DestroyType ==
  ASSUME TablesType, UNCHANGED next_id_, NEW s \in Stack, NEW id,
         NEW c \in Good(next_id_[s]), NEW remote, NEW local,
         DestroyConnection(s, id, c, remote, local)
  PROVE  SocketsType' /\ RoutesType'
<1> DEFINE key == <<remote, local>>
           stored == [sockets_[s] EXCEPT ![id] = c]
<1>1. Grow /\ SocketTable(stored, next_id_'[s])
  BY SameIds, TableSet DEF TablesType, SocketsType
<1>2. CASE key \in DOMAIN connections_[s]
  <2> DEFINE f == Remove(stored, connections_[s][key])
             g == Remove(connections_[s], key)
  <2>1. sockets_' = [sockets_ EXCEPT ![s] = f] /\ connections_' = [connections_ EXCEPT ![s] = g]
    BY <1>2 DEF DestroyConnection
  <2>2. SocketTable(f, next_id_'[s])
    BY <1>1, TableRemove
  <2>3. IdTable(g, Addr \X Addr, next_id_'[s])
    BY IdRemove DEF TablesType, RoutesType
  <2> HIDE DEF f, g
  <2> QED
    BY <1>1, <2>1, <2>2, <2>3, SocketsSet, RoutesSet DEF TablesType
<1>3. CASE key \notin DOMAIN connections_[s]
  <2>1. SetTcb(s, id, c) /\ UNCHANGED connections_
    BY <1>3 DEF DestroyConnection
  <2> QED
    BY <1>1, <2>1, SetTcbType, Kept DEF TablesType
<1> QED
  BY <1>2, <1>3

\* process_block_, run by the daemon and by close.
LEMMA ProcessBlockType ==
  ASSUME StackType, NEW s \in Stack, NEW id, process_block_(s, id), UNCHANGED next_id_
  PROVE  SocketsType' /\ DirtyType' /\ LinksType'
<1> USE DEF StackType, TablesType
<1>0. Grow
  BY SameIds
<1> DEFINE c == sockets_[s][id]
           n == Sendable(c)
           d == [c EXCEPT !.nxt = Add(@, n)]
<1>1. CASE /\ Live(s, id)
           /\ write_packet_(s, Control(c, {"SYN"}, c.iss, 0))
           /\ UNCHANGED <<sockets_, dirty_socket_ids_>>
  <2>1. c \in Good(next_id_[s])
    BY <1>1, Found
  <2>2. c.iss \in SeqNum /\ 0 \in SeqNum /\ {"SYN"} \in SUBSET Flags
    BY <2>1, SeqNumInt DEF Good, Block, Flags
  <2>3. Control(c, {"SYN"}, c.iss, 0) \in Segment
    BY <2>1, <2>2, ControlType
  <2> QED
    BY <1>0, <1>1, <2>3, WriteType, Kept
<1>2. CASE /\ Live(s, id) /\ n > 0
           /\ write_packet_(s, create_writer_tcp_packet_(c, Run(NextUnsent(c), n), c.nxt))
           /\ SetTcb(s, id, d)
           /\ add_dirty_tcb(s, id) \/ UNCHANGED dirty_socket_ids_
  <2>1. c \in Good(next_id_[s])
    BY <1>2, Found
  <2> HIDE DEF c, n, d
  <2>2. c.nxt \in SeqNum /\ n \in Nat /\ NextUnsent(c) \in Nat
    BY <2>1, SendableType DEF Good, Block, n
  <2>3. Add(c.nxt, n) \in SeqNum
    <3>1. c.nxt \in Int /\ n \in Int
      BY <2>2, SeqNumInt
    <3> QED
      BY <3>1, AddType
  <2>4. d \in Good(next_id_[s])
    BY <2>1, <2>3 DEF Good, Block, d
  <2>5. create_writer_tcp_packet_(c, Run(NextUnsent(c), n), c.nxt) \in Segment
    BY <2>1, <2>2, RunType, WriterType
  <2> QED
    BY <1>2, <2>4, <2>5, SetTcbType, WriteType, DirtyMark
<1>3. CASE UNCHANGED <<sockets_, dirty_socket_ids_, links>>
  BY <1>0, <1>3, Kept DEF links, LinksType
<1> QED
  BY <1>1, <1>2, <1>3 DEF process_block_

\* The ways a handler ends.
LEMMA IgnoreType ==
  ASSUME StackType, Ignore, UNCHANGED listeners_
  PROVE  StackType' /\ Grow
  BY SameIds, Kept DEF StackType, TablesType, Ignore, links, LinksType, Grow
\* A handler that only replies,
LEMMA ReplyType ==
  ASSUME StackType, NEW s \in Stack, NEW p \in Segment, write_packet_(s, p),
         UNCHANGED <<sockets_, next_id_, listeners_, connections_, dirty_socket_ids_, writing>>
  PROVE  StackType' /\ Grow
  BY SameIds, Kept, WriteType DEF StackType, TablesType, Grow
\* one that stores a block and replies,
LEMMA StoreAndReplyType ==
  ASSUME StackType, NEW s \in Stack, NEW id, NEW c \in Good(next_id_[s]), NEW p \in Segment,
         StoreAndReply(s, id, c, p), UNCHANGED listeners_
  PROVE  StackType' /\ Grow
  BY SameIds, Kept, WriteType, SetTcbType DEF StackType, TablesType, StoreAndReply, Grow
\* and one that only stores a block.
LEMMA StoreType ==
  ASSUME StackType, NEW s \in Stack, NEW id, NEW c \in Good(next_id_[s]),
         Store(s, id, c), UNCHANGED listeners_
  PROVE  StackType' /\ Grow
  BY SameIds, Kept, SetTcbType DEF StackType, TablesType, Store, links, LinksType, Grow

\* The fields of a segment.
LEMMA SegmentFields ==
  ASSUME NEW p \in Segment
  PROVE  /\ p.src \in Addr /\ p.dst \in Addr /\ p.seq \in SeqNum /\ p.ack \in SeqNum
         /\ p.wnd \in 0..BufSize /\ p.data \in Seq(Nat) /\ Len(p.data) \in Nat
         /\ PastControl(p) \in SeqNum
<1>1. /\ p.src \in Addr /\ p.dst \in Addr /\ p.seq \in SeqNum /\ p.ack \in SeqNum
      /\ p.wnd \in 0..BufSize /\ p.data \in Seq(Nat)
  BY DEF Segment
<1>2. p.seq \in Int /\ 1 \in Int
  BY <1>1, SeqNumInt
<1> QED
  BY <1>1, <1>2, AddType, LenProperties DEF PastControl

\* A reply acknowledges with the numbers of its block.
LEMMA ReplyOf ==
  ASSUME NEW n, NEW c \in Good(n)
  PROVE  /\ Control(c, {"ACK"}, c.nxt, c.rnxt) \in Segment
         /\ Control(c, {"SYN", "ACK"}, c.iss, c.rnxt) \in Segment
         /\ Control(c, {"FIN", "ACK"}, c.nxt, c.rnxt) \in Segment
<1>1. c.nxt \in SeqNum /\ c.rnxt \in SeqNum /\ c.iss \in SeqNum
  BY DEF Good, Block
<1>2. {"ACK"} \in SUBSET Flags /\ {"SYN", "ACK"} \in SUBSET Flags /\ {"FIN", "ACK"} \in SUBSET Flags
  BY DEF Flags
<1> QED
  BY <1>1, <1>2, ControlType

\* A block in another state, or with other sequence numbers.
LEMMA Updated ==
  ASSUME NEW n, NEW c \in Good(n)
  PROVE  /\ \A st \in States : [c EXCEPT !.state = st] \in Good(n)
         /\ \A x \in SeqNum : /\ [c EXCEPT !.rnxt = x] \in Good(n)
                              /\ [c EXCEPT !.nxt = x] \in Good(n)
         /\ \A x \in SeqNum, st \in States : [c EXCEPT !.una = x, !.state = st] \in Good(n)
         /\ \A x, y \in SeqNum : [c EXCEPT !.rnxt = x, !.nxt = y] \in Good(n)
<1>1. \A st \in States : [c EXCEPT !.state = st] \in Good(n)
  BY DEF Good, Block
<1>2. \A x \in SeqNum : /\ [c EXCEPT !.rnxt = x] \in Good(n) /\ [c EXCEPT !.nxt = x] \in Good(n)
  BY DEF Good, Block
<1>3. \A x \in SeqNum, st \in States : [c EXCEPT !.una = x, !.state = st] \in Good(n)
  BY DEF Good, Block
<1>4. \A x, y \in SeqNum : [c EXCEPT !.rnxt = x, !.nxt = y] \in Good(n)
  BY DEF Good, Block
<1> QED
  BY <1>1, <1>2, <1>3, <1>4

\* handle_closed_reset_response_.
LEMMA ClosedResetType ==
  ASSUME StackType, NEW s \in Stack, NEW p \in Segment, handle_closed_reset_response_(s, p),
         UNCHANGED listeners_
  PROVE  StackType' /\ Grow
<1> DEFINE k == Len(p.data) + IF Has(p, "SYN") THEN 1 ELSE 0
<1>1. p.src \in Addr /\ p.dst \in Addr /\ p.ack \in SeqNum /\ 0 \in SeqNum /\ p.seq \in Int /\ k \in Int
  BY SegmentFields, SeqNumInt
<1>2. Add(p.seq, k) \in SeqNum
  BY <1>1, AddType
<1>3. {} \in SUBSET Flags /\ {"ACK"} \in SUBSET Flags
  BY DEF Flags
<1>4. RawRst(p.dst, p.src, p.ack, 0, {}) \in Segment /\ RawRst(p.dst, p.src, 0, Add(p.seq, k), {"ACK"}) \in Segment
  BY <1>1, <1>2, <1>3, RawRstType
<1> QED
  BY <1>4, IgnoreType, ReplyType DEF handle_closed_reset_response_

\* handle_passive_open_syn_.
LEMMA PassiveOpenType ==
  ASSUME StackType, NEW s \in Stack, NEW p \in Segment, handle_passive_open_syn_(s, p),
         UNCHANGED listeners_
  PROVE  StackType' /\ Grow
<1>1. CASE Ignore
  BY <1>1, IgnoreType
<1>2. CASE ~ Ignore
  <2> DEFINE child_id == next_id_[s]
  <2>1. PICK iss \in ISN :
          /\ sockets_' = [sockets_ EXCEPT ![s] = Put(@, child_id, Child(p, iss))]
          /\ connections_' = [connections_ EXCEPT ![s] = Put(@, <<p.src, p.dst>>, child_id)]
          /\ next_id_' = [next_id_ EXCEPT ![s] = @ + 1]
          /\ write_packet_(s, Control(Child(p, iss), {"SYN", "ACK"}, iss, Child(p, iss).rnxt))
          /\ UNCHANGED <<dirty_socket_ids_, writing>>
    BY <1>2 DEF handle_passive_open_syn_
  <2>2. child_id \in Nat \ {0} /\ next_id_'[s] = child_id + 1 /\ Grow
    BY <2>1, MoreIds DEF StackType, TablesType, IdsType
  <2>3. Child(p, iss) \in Good(child_id + 1)
    BY <2>2, ChildType
  <2>4. SocketsType'
    <3>1. SocketTable(Put(sockets_[s], child_id, Child(p, iss)), next_id_'[s])
      BY <2>2, <2>3, TablePut DEF StackType, TablesType, SocketsType
    <3> QED
      BY <2>1, <2>2, <3>1, SocketsSet DEF StackType, TablesType
  <2>5. RoutesType'
    <3>1. IdTable(connections_[s], Addr \X Addr, next_id_'[s])
      <4>1. IdTable(connections_[s], Addr \X Addr, child_id)
        BY DEF StackType, TablesType, RoutesType
      <4>2. child_id \in Nat /\ child_id + 1 \in Nat /\ child_id <= child_id + 1
        BY <2>2
      <4> HIDE DEF child_id
      <4> QED
        BY <2>2, <4>1, <4>2, IdsGrow
    <3>2. <<p.src, p.dst>> \in Addr \X Addr /\ child_id \in 1 .. next_id_'[s] - 1
      BY <2>2, SegmentFields
    <3>3. IdTable(Put(connections_[s], <<p.src, p.dst>>, child_id), Addr \X Addr, next_id_'[s])
      BY <3>1, <3>2, IdPut
    <3> QED
      BY <2>1, <2>2, <3>3, RoutesSet DEF StackType, TablesType
  <2>6. LinksType'
    <3>1. iss \in SeqNum /\ Child(p, iss).rnxt \in SeqNum /\ {"SYN", "ACK"} \in SUBSET Flags
      BY <2>3, Sizes DEF Good, Block, Flags
    <3>2. Control(Child(p, iss), {"SYN", "ACK"}, iss, Child(p, iss).rnxt) \in Segment
      BY <2>3, <3>1, ControlType
    <3> QED
      BY <2>1, <3>2, WriteType DEF StackType
  <2> QED
    BY <2>1, <2>2, <2>4, <2>5, <2>6, Kept DEF StackType, TablesType, Grow
<1> QED
  BY <1>1, <1>2

\* handle_syn_sent_state_.
LEMMA SynSentType ==
  ASSUME StackType, NEW s \in Stack, NEW id, Live(s, id), NEW p \in Segment,
         handle_syn_sent_state_(s, id, p), UNCHANGED listeners_
  PROVE  StackType' /\ Grow
<1> DEFINE c == sockets_[s][id]
           d1 == [Opened(c, p) EXCEPT !.una = p.ack, !.state = "ESTABLISHED"]
           d2 == [Opened(c, p) EXCEPT !.state = "SYN_RECEIVED"]
<1>1. c \in Good(next_id_[s]) /\ p.ack \in SeqNum /\ 0 \in SeqNum
  BY Found, SegmentFields, SeqNumInt DEF StackType, TablesType
<1>2. {"RST"} \in SUBSET Flags /\ "ESTABLISHED" \in States /\ "SYN_RECEIVED" \in States /\ "CLOSED" \in States
  BY DEF Flags, States
<1>3. \/ Ignore
      \/ Store(s, id, [c EXCEPT !.state = "CLOSED"])
      \/ StoreAndReply(s, id, c, Control(c, {"RST"}, p.ack, 0))
      \/ StoreAndReply(s, id, d1, Control(d1, {"ACK"}, d1.nxt, d1.rnxt))
      \/ StoreAndReply(s, id, d2, Control(d2, {"SYN", "ACK"}, d2.iss, d2.rnxt))
  BY DEF handle_syn_sent_state_
<1> HIDE DEF c
<1>4. Opened(c, p) \in Good(next_id_[s])
  BY <1>1, HandledType
<1>5. d1 \in Good(next_id_[s]) /\ d2 \in Good(next_id_[s])
      /\ [c EXCEPT !.state = "CLOSED"] \in Good(next_id_[s])
  BY <1>1, <1>2, <1>4, Updated
<1> HIDE DEF d1, d2
<1>6. /\ Control(c, {"RST"}, p.ack, 0) \in Segment
      /\ Control(d1, {"ACK"}, d1.nxt, d1.rnxt) \in Segment
      /\ Control(d2, {"SYN", "ACK"}, d2.iss, d2.rnxt) \in Segment
  BY <1>1, <1>2, <1>5, ControlType, ReplyOf
<1> QED
  BY <1>1, <1>3, <1>5, <1>6, IgnoreType, StoreType, StoreAndReplyType

\* A handshake completes in the listener's accept queue.
LEMMA EnqueueType ==
  ASSUME NEW n, NEW f, SocketTable(f, n), NEW l \in DOMAIN f, NEW id \in 1 .. n - 1
  PROVE  SocketTable([f EXCEPT ![l].accept_queue = Append(@, id)], n)
<1> DEFINE c == f[l]
           e == [c EXCEPT !.accept_queue = Append(@, id)]
<1>1. c \in Good(n)
  BY DEF SocketTable
<1> HIDE DEF c
<1>2. Append(c.accept_queue, id) \in Seq(1 .. n - 1)
  BY <1>1, AppendProperties DEF Good, Block
<1>3. e \in Good(n)
  BY <1>1, <1>2 DEF Good, Block
<1>4. [f EXCEPT ![l].accept_queue = Append(@, id)] = [f EXCEPT ![l] = e]
  BY DEF c
<1> HIDE DEF e
<1> QED
  BY <1>3, <1>4, TableSet

\* handle_syn_received_state_.
LEMMA SynReceivedType ==
  ASSUME StackType, NEW s \in Stack, NEW id, Live(s, id), NEW p \in Segment,
         handle_syn_received_state_(s, id, p), UNCHANGED listeners_
  PROVE  StackType' /\ Grow
<1> DEFINE c == sockets_[s][id]
           d == Established(c, p)
           stored == [sockets_[s] EXCEPT ![id] = d]
           l == FindListener(s, c.src[2])
<1>1. c \in Good(next_id_[s]) /\ id \in 1 .. next_id_[s] - 1
  BY Found DEF StackType, TablesType
<1>2. CASE /\ sockets_' = [sockets_ EXCEPT ![s] = Remove(@, id)]
           /\ connections_' = [connections_ EXCEPT ![s] = Remove(@, <<p.src, c.src>>)]
           /\ UNCHANGED <<next_id_, dirty_socket_ids_, links, writing>>
  <2>1. SocketTable(Remove(sockets_[s], id), next_id_'[s])
    BY <1>2, TableRemove DEF StackType, TablesType, SocketsType
  <2>2. IdTable(Remove(connections_[s], <<p.src, c.src>>), Addr \X Addr, next_id_'[s])
    BY <1>2, IdRemove DEF StackType, TablesType, RoutesType
  <2>3. Grow
    BY <1>2, SameIds DEF StackType, TablesType
  <2>4. SocketsType' /\ RoutesType'
    BY <1>2, <2>1, <2>2, <2>3, SocketsSet, RoutesSet DEF StackType, TablesType
  <2> QED
    BY <1>2, <2>3, <2>4, Kept DEF StackType, TablesType, links, LinksType, Grow
<1>3. CASE /\ sockets_' = [sockets_ EXCEPT ![s] =
                IF l = 0 THEN stored ELSE [stored EXCEPT ![l].accept_queue = Append(@, id)]]
           /\ \/ write_packet_(s, Control(d, {"ACK"}, d.nxt, d.rnxt))
              \/ UNCHANGED links
           /\ UNCHANGED <<next_id_, connections_, dirty_socket_ids_, writing>>
  <2>1. d \in Good(next_id_[s])
    BY <1>1, HandledType
  <2>2. Control(d, {"ACK"}, d.nxt, d.rnxt) \in Segment
    BY <2>1, ReplyOf
  <2>3. SocketTable(stored, next_id_[s]) /\ DOMAIN stored = DOMAIN sockets_[s]
    BY <2>1, TableSet DEF StackType, TablesType, SocketsType
  <2>4. l # 0 => l \in DOMAIN sockets_[s]
    BY FoundListener DEF Live
  <2> DEFINE f == IF l = 0 THEN stored ELSE [stored EXCEPT ![l].accept_queue = Append(@, id)]
  <2>5. SocketTable(f, next_id_'[s])
    <3> HIDE DEF stored, l
    <3> QED
      BY <1>1, <1>3, <2>3, <2>4, EnqueueType
  <2>6. Grow
    BY <1>3, SameIds DEF StackType, TablesType
  <2>7. sockets_' = [sockets_ EXCEPT ![s] = f]
    BY <1>3
  <2> HIDE DEF f
  <2>8. SocketsType'
    BY <2>5, <2>6, <2>7, SocketsSet DEF StackType, TablesType
  <2>9. LinksType'
    BY <1>3, <2>2, WriteType DEF StackType, links, LinksType
  <2> QED
    BY <1>3, <2>6, <2>8, <2>9, Kept DEF StackType, TablesType, Grow
<1>4. CASE Ignore
  BY <1>4, IgnoreType
<1> QED
  BY <1>2, <1>3, <1>4 DEF handle_syn_received_state_

\* handle_established_state_.
LEMMA EstablishedType ==
  ASSUME StackType, NEW s \in Stack, NEW id, Live(s, id), NEW p \in Segment,
         handle_established_state_(s, id, p), UNCHANGED listeners_
  PROVE  StackType' /\ Grow
<1> DEFINE c == sockets_[s][id]
           d == PeerClosed(c, p)
           e == Counted(Acknowledge(c, p), p)
<1>1. c \in Good(next_id_[s]) /\ id \in 1 .. next_id_[s] - 1
  BY Found DEF StackType, TablesType
<1>2. d \in Good(next_id_[s]) /\ e \in Good(next_id_[s])
  BY <1>1, HandledType
<1>3. CASE StoreAndReply(s, id, d, Control(d, {"ACK"}, d.nxt, d.rnxt))
  <2> HIDE DEF d
  <2> QED
    BY <1>2, <1>3, ReplyOf, StoreAndReplyType
<1>4. CASE /\ SetTcb(s, id, e)
           /\ add_dirty_tcb(s, id) \/ UNCHANGED dirty_socket_ids_
           /\ writing' = IF HasPayload(p)
                         THEN [writing EXCEPT ![s] = [id |-> id, data |-> p.data]]
                         ELSE writing
           /\ UNCHANGED <<next_id_, connections_, links>>
  <2> HIDE DEF e
  <2>1. Grow
    BY <1>4, SameIds DEF StackType, TablesType
  <2>2. SocketsType' /\ DirtyType'
    BY <1>2, <1>4, SetTcbType, DirtyMark DEF StackType, TablesType
  <2>3. WritingType'
    <3>1. [id |-> id, data |-> p.data] \in Writing(next_id_[s])
      BY <1>1, SegmentFields DEF Writing
    <3> QED
      BY <1>4, <3>1 DEF StackType, WritingType
  <2> QED
    BY <1>4, <2>1, <2>2, <2>3, Kept DEF StackType, TablesType, links, LinksType, Grow
<1> QED
  BY <1>3, <1>4 DEF handle_established_state_

\* A handler that destroys a connection, with or without a reply.
LEMMA DestroyAndReplyType ==
  ASSUME StackType, NEW s \in Stack, NEW id, NEW c \in Good(next_id_[s]), NEW remote, NEW local,
         DestroyConnection(s, id, c, remote, local), NEW p \in Segment,
         write_packet_(s, p) \/ UNCHANGED links,
         UNCHANGED <<next_id_, listeners_, dirty_socket_ids_, writing>>
  PROVE  StackType' /\ Grow
<1>1. Grow
  BY SameIds DEF StackType, TablesType
<1>2. SocketsType' /\ RoutesType'
  BY DestroyType DEF StackType
<1>3. LinksType'
  BY WriteType DEF StackType, links, LinksType
<1> QED
  BY <1>1, <1>2, <1>3, Kept DEF StackType, TablesType, Grow

\* handle_fin_wait_1_state_.
LEMMA FinWait1Type ==
  ASSUME StackType, NEW s \in Stack, NEW id, Live(s, id), NEW p \in Segment,
         handle_fin_wait_1_state_(s, id, p), UNCHANGED listeners_
  PROVE  StackType' /\ Grow
<1> DEFINE c == sockets_[s][id]
           d == [c EXCEPT !.rnxt = PastControl(p)]
           reply == Control(d, {"ACK"}, d.nxt, d.rnxt)
<1>1. c \in Good(next_id_[s]) /\ PastControl(p) \in SeqNum
  BY Found, SegmentFields DEF StackType, TablesType
<1>2. \/ /\ write_packet_(s, reply)
         /\ DestroyConnection(s, id, [d EXCEPT !.state = "CLOSED"], c.src, c.dst)
         /\ UNCHANGED <<next_id_, dirty_socket_ids_, writing>>
      \/ Store(s, id, [c EXCEPT !.state = "FIN_WAIT_2"])
      \/ StoreAndReply(s, id, [d EXCEPT !.state = "CLOSING"], reply)
      \/ Ignore
  BY DEF handle_fin_wait_1_state_
<1>3. d \in Good(next_id_[s])
  <2> HIDE DEF c
  <2> QED
    BY <1>1, Updated
<1>4. reply \in Segment
  <2> HIDE DEF d
  <2> QED
    BY <1>3, ReplyOf
<1>5. /\ [d EXCEPT !.state = "CLOSED"] \in Good(next_id_[s])
      /\ [d EXCEPT !.state = "CLOSING"] \in Good(next_id_[s])
      /\ [c EXCEPT !.state = "FIN_WAIT_2"] \in Good(next_id_[s])
  <2> HIDE DEF d, c
  <2> QED
    BY <1>1, <1>3, Updated DEF States
<1> HIDE DEF reply, d, c
<1> QED
  BY <1>2, <1>4, <1>5, IgnoreType, StoreType, StoreAndReplyType, DestroyAndReplyType

\* handle_fin_wait_2_state_.
LEMMA FinWait2Type ==
  ASSUME StackType, NEW s \in Stack, NEW id, Live(s, id), NEW p \in Segment,
         handle_fin_wait_2_state_(s, id, p), UNCHANGED listeners_
  PROVE  StackType' /\ Grow
<1> DEFINE c == sockets_[s][id]
           d == [c EXCEPT !.rnxt = PastControl(p), !.nxt = IF Has(p, "ACK") THEN p.ack ELSE @]
           reply == Control(d, {"ACK"}, d.nxt, d.rnxt)
<1>1. c \in Good(next_id_[s]) /\ PastControl(p) \in SeqNum /\ p.ack \in SeqNum
  BY Found, SegmentFields DEF StackType, TablesType
<1>2. \/ /\ write_packet_(s, reply)
         /\ DestroyConnection(s, id, [d EXCEPT !.state = "CLOSED"], c.src, c.dst)
         /\ UNCHANGED <<next_id_, dirty_socket_ids_, writing>>
      \/ Ignore
  BY DEF handle_fin_wait_2_state_
<1>3. d \in Good(next_id_[s])
  <2> HIDE DEF c
  <2>1. (IF Has(p, "ACK") THEN p.ack ELSE c.nxt) \in SeqNum
    BY <1>1 DEF Good, Block
  <2> QED
    BY <1>1, <2>1, Updated
<1>4. reply \in Segment
  <2> HIDE DEF d
  <2> QED
    BY <1>3, ReplyOf
<1>5. [d EXCEPT !.state = "CLOSED"] \in Good(next_id_[s])
  <2> HIDE DEF d
  <2> QED
    BY <1>3, Updated DEF States
<1> HIDE DEF reply, d, c
<1> QED
  BY <1>2, <1>4, <1>5, IgnoreType, DestroyAndReplyType

\* handle_closing_state_ and handle_last_ack_state_.
LEMMA LastAckType ==
  ASSUME StackType, NEW s \in Stack, NEW id, Live(s, id), NEW p \in Segment,
         AwaitLastAck(s, id, p), UNCHANGED listeners_
  PROVE  StackType' /\ Grow
<1> DEFINE c == sockets_[s][id]
           d == [c EXCEPT !.state = "CLOSED"]
<1>1. c \in Good(next_id_[s])
  BY Found DEF StackType, TablesType
<1>2. \/ /\ DestroyConnection(s, id, d, c.src, c.dst)
         /\ UNCHANGED <<next_id_, dirty_socket_ids_, links, writing>>
      \/ Ignore
  BY DEF AwaitLastAck
<1>3. d \in Good(next_id_[s])
  <2> HIDE DEF c
  <2> QED
    BY <1>1, Updated DEF States
<1> HIDE DEF d, c
<1> QED
  BY <1>2, <1>3, IgnoreType, DestroyAndReplyType

\* process_incoming_packet_ keeps the types, whatever the packet.
LEMMA IncomingType ==
  ASSUME StackType, NEW s \in Stack, NEW p \in Segment, process_incoming_packet_(s, p),
         UNCHANGED listeners_
  PROVE  StackType' /\ Grow
<1> DEFINE id == FindConnection(s, p.src, p.dst)
<1>1. id # 0 => Live(s, id)
  BY FoundRoute DEF StackType, TablesType
<1>2. CASE id # 0 /\ Dispatch(s, id, p)
  <2> HIDE DEF id
  <2> QED
    BY <1>1, <1>2, ClosedResetType, PassiveOpenType, SynSentType, SynReceivedType, EstablishedType,
       FinWait1Type, FinWait2Type, LastAckType, IgnoreType
       DEF Dispatch, handle_closing_state_, handle_last_ack_state_
<1> QED
  BY <1>2, ClosedResetType, PassiveOpenType DEF process_incoming_packet_

-----------------------------------------------------------------------------
(* The daemon and the network keep the types.                               *)

\* One daemon moves.
LEMMA DaemonSet ==
  ASSUME IdsType, DaemonType, Grow, NEW s \in Stack, NEW d \in Loop(next_id_'[s]),
         daemon' = [daemon EXCEPT ![s] = d]
  PROVE  DaemonType'
<1>1. \A r \in Stack : next_id_[r] \in Nat /\ next_id_'[r] \in Nat /\ next_id_[r] <= next_id_'[r]
  BY DEF Grow, IdsType
<1>2. \A r \in Stack : daemon[r] \in Loop(next_id_'[r])
  BY <1>1, IdsGrow DEF DaemonType
<1> QED
  BY <1>2 DEF DaemonType

\* The fields of a daemon.
LEMMA LoopFields ==
  ASSUME NEW n, NEW d \in Loop(n)
  PROVE  /\ d.at \in {"poll", "swap", "batch", "tun", "rto", "exit"}
         /\ d.then \in {"swap", "batch", "tun"} /\ d.ids \in Seq(1 .. n - 1)
         /\ d.batch \in Seq(Segment) /\ d.external \in BOOLEAN /\ d.running \in BOOLEAN
         /\ d.at = "batch" => d.batch # <<>>
         /\ d.at = "poll" /\ d.then = "batch" => d.batch # <<>>
  BY DEF Loop

\* The daemon swaps the dirty ids out,
LEMMA PollDirtyType ==
  ASSUME StackType, DaemonType, NEW s \in Stack, PollDirty(s)
  PROVE  StackType' /\ DaemonType' /\ Grow
<1> USE DEF StackType, TablesType
<1> DEFINE d == daemon[s]
           e == [d EXCEPT !.ids = dirty_socket_ids_[s], !.at = d.then]
<1>1. d \in Loop(next_id_[s]) /\ d.at = "poll" /\ dirty_socket_ids_[s] \in Seq(1 .. next_id_[s] - 1)
  BY DEF PollDirty, At, DaemonType, DirtyType
<1>2. UNCHANGED next_id_ /\ Grow
  BY SameIds DEF PollDirty, tables
<1>3. e \in Loop(next_id_'[s])
  BY <1>1, <1>2 DEF Loop
<1>4. daemon' = [daemon EXCEPT ![s] = e]
  BY DEF PollDirty, DaemonType
<1> HIDE DEF e
<1>5. DaemonType'
  BY <1>2, <1>3, <1>4, DaemonSet
<1>6. DirtyType'
  BY <1>2, EmptySeq DEF PollDirty, DirtyType
<1> QED
  BY <1>2, <1>5, <1>6, Kept DEF PollDirty, tables, links, LinksType, Grow

\* processes them,
LEMMA DirtyBlocksType ==
  ASSUME StackType, DaemonType, NEW s \in Stack, process_dirty_blocks_(s)
  PROVE  StackType' /\ DaemonType' /\ Grow
<1> USE DEF StackType, TablesType
<1> DEFINE d == daemon[s]
           e == [d EXCEPT !.ids = Tail(@)]
<1>1. d \in Loop(next_id_[s]) /\ d.ids # <<>>
  BY DEF process_dirty_blocks_, DaemonType
<1>2. UNCHANGED next_id_ /\ Grow
  BY SameIds DEF process_dirty_blocks_
<1>3. e \in Loop(next_id_'[s])
  <2> HIDE DEF d
  <2>1. Tail(d.ids) \in Seq(1 .. next_id_[s] - 1)
    BY <1>1, LoopFields, HeadTailProperties
  <2> QED
    BY <1>1, <1>2, <2>1 DEF Loop
<1>4. daemon' = [daemon EXCEPT ![s] = e]
  BY DEF process_dirty_blocks_, DaemonType
<1> HIDE DEF e
<1>5. DaemonType'
  BY <1>2, <1>3, <1>4, DaemonSet
<1>6. SocketsType' /\ DirtyType' /\ LinksType'
  BY <1>2, ProcessBlockType DEF process_dirty_blocks_
<1> QED
  BY <1>2, <1>5, <1>6, Kept DEF process_dirty_blocks_, Grow

\* swaps the loopback queue out,
LEMMA SwapLoopbackType ==
  ASSUME StackType, DaemonType, NEW s \in Stack, SwapLoopback(s)
  PROVE  StackType' /\ DaemonType' /\ Grow
<1> USE DEF StackType, TablesType
<1> DEFINE d == daemon[s]
           q == loopback_packet_queue_[s]
           e == [d EXCEPT !.batch = q, !.at = IF q = <<>> THEN "tun" ELSE "batch"]
<1>1. d \in Loop(next_id_[s]) /\ q \in Seq(Segment)
  BY DEF DaemonType, LinksType
<1>2. UNCHANGED next_id_ /\ Grow
  BY SameIds DEF SwapLoopback, tables
<1>3. e \in Loop(next_id_'[s])
  <2> HIDE DEF d, q
  <2> QED
    BY <1>1, <1>2 DEF Loop
<1>4. daemon' = [daemon EXCEPT ![s] = e]
  BY DEF SwapLoopback, DaemonType
<1> HIDE DEF e
<1>5. DaemonType'
  BY <1>2, <1>3, <1>4, DaemonSet
<1>6. LinksType'
  BY EmptySeq DEF SwapLoopback, LinksType
<1> QED
  BY <1>2, <1>5, <1>6, Kept DEF SwapLoopback, tables, Grow

\* handles a packet,
LEMMA HandlePacketType ==
  ASSUME StackType, DaemonType, NEW s \in Stack, HandlePacket(s)
  PROVE  StackType' /\ DaemonType' /\ Grow
<1> USE DEF StackType, TablesType
<1> DEFINE d == daemon[s]
           rest == Tail(d.batch)
           e == [d EXCEPT !.batch = rest, !.at = "poll",
                          !.then = IF rest = <<>> THEN "tun" ELSE "batch"]
           f == [d EXCEPT !.batch = rest, !.at = "rto", !.external = FALSE]
<1>1. d \in Loop(next_id_[s]) /\ d.at = "batch"
  BY DEF HandlePacket, At, DaemonType
<1>2. Head(d.batch) \in Segment /\ rest \in Seq(Segment)
  <2> HIDE DEF d
  <2> QED
    BY <1>1, LoopFields, HeadTailProperties
<1>3. StackType' /\ Grow
  BY <1>2, IncomingType DEF HandlePacket
<1>4. e \in Loop(next_id_'[s]) /\ f \in Loop(next_id_'[s])
  <2>1. d \in Loop(next_id_'[s])
    BY <1>1, <1>3, IdsGrow DEF Grow, IdsType
  <2> HIDE DEF d, rest
  <2> QED
    BY <1>2, <2>1 DEF Loop
<1>5. daemon' = [daemon EXCEPT ![s] = e] \/ daemon' = [daemon EXCEPT ![s] = f]
  BY DEF HandlePacket, DaemonType
<1> HIDE DEF e, f
<1>6. DaemonType'
  BY <1>3, <1>4, <1>5, DaemonSet
<1> QED
  BY <1>3, <1>6

\* finishes a write to a receive buffer,
LEMMA WritePayloadType ==
  ASSUME StackType, DaemonType, NEW s \in Stack, WritePayload(s)
  PROVE  StackType' /\ DaemonType' /\ Grow
<1> USE DEF StackType, TablesType
<1> DEFINE id == writing[s].id
           c == sockets_[s][id]
           d == Stored(c, writing[s].data)
<1>1. /\ Live(s, id) /\ SetTcb(s, id, d) /\ write_packet_(s, Control(d, {"ACK"}, d.nxt, d.rnxt))
      /\ writing' = [writing EXCEPT ![s] = NoWrite]
      /\ UNCHANGED <<next_id_, listeners_, connections_, dirty_socket_ids_, daemon>>
  BY DEF WritePayload
<1>2. c \in Good(next_id_[s]) /\ writing[s].data \in Seq(Nat)
  BY <1>1, Found DEF WritingType, Writing
<1>3. d \in Good(next_id_[s])
  <2> HIDE DEF c
  <2> QED
    BY <1>2, StoredType
<1> HIDE DEF d
<1>4. Control(d, {"ACK"}, d.nxt, d.rnxt) \in Segment
  BY <1>3, ReplyOf
<1>5. Grow
  BY <1>1, SameIds
<1>6. SocketsType' /\ LinksType'
  BY <1>1, <1>3, <1>4, SetTcbType, WriteType
<1>7. WritingType'
  <2>1. NoWrite \in Writing(next_id_[s])
    BY EmptySeq DEF NoWrite, Writing, IdsType
  <2> QED
    BY <1>1, <2>1 DEF WritingType
<1> QED
  BY <1>1, <1>5, <1>6, <1>7, Kept DEF Grow

\* reads the device,
LEMMA TunReadType ==
  ASSUME StackType, DaemonType, NEW s \in Stack, TunRead(s)
  PROVE  StackType' /\ DaemonType' /\ Grow
<1> USE DEF StackType, TablesType
<1>1. PICK i \in DOMAIN tun[s] :
        /\ tun_read(s, i)
        /\ daemon' = [daemon EXCEPT ![s].batch = <<tun[s][i]>>, ![s].at = "batch",
                                    ![s].external = TRUE]
  BY DEF TunRead
<1> DEFINE d == daemon[s]
           e == [d EXCEPT !.batch = <<tun[s][i]>>, !.at = "batch", !.external = TRUE]
           q == SubSeq(tun[s], 1, i - 1) \o SubSeq(tun[s], i + 1, Len(tun[s]))
<1>2. tun[s] \in Seq(Segment) /\ d \in Loop(next_id_[s])
  BY DEF LinksType, DaemonType
<1>3. q \in Seq(Segment) /\ tun[s][i] \in Segment
  BY <1>2, WithoutType
<1>4. UNCHANGED next_id_ /\ Grow
  BY SameIds DEF TunRead, tables
<1>5. e \in Loop(next_id_'[s])
  <2> DEFINE b == <<tun[s][i]>>
  <2>1. b \in Seq(Segment) /\ b # <<>>
    BY <1>3
  <2> HIDE DEF d, b
  <2>2. [d EXCEPT !.batch = b, !.at = "batch", !.external = TRUE] \in Loop(next_id_'[s])
    BY <1>2, <1>4, <2>1 DEF Loop
  <2> QED
    BY <2>2 DEF b
<1>6. daemon' = [daemon EXCEPT ![s] = e] /\ tun' = [tun EXCEPT ![s] = q]
  <2>1. s \in DOMAIN daemon /\ tun' = [tun EXCEPT ![s] = q]
    BY <1>1 DEF tun_read, DaemonType
  <2> HIDE DEF q
  <2> QED
    BY <1>1, <2>1
<1> HIDE DEF e, q
<1>7. DaemonType'
  BY <1>4, <1>5, <1>6, DaemonSet
<1>8. LinksType'
  BY <1>3, <1>6 DEF TunRead, LinksType
<1> QED
  BY <1>4, <1>7, <1>8, Kept DEF TunRead, tables, Grow

\* retransmits,
LEMMA RetransmitType ==
  ASSUME StackType, DaemonType, NEW s \in Stack, NEW id \in DOMAIN sockets_[s], Retransmit(s, id)
  PROVE  StackType' /\ DaemonType' /\ Grow
<1> USE DEF StackType, TablesType
<1> DEFINE c == sockets_[s][id]
           n == Lesser(Lesser(InFlight(c), MSS), c.slen)
           d == daemon[s]
           e == [d EXCEPT !.at = "rto", !.external = FALSE]
           g == [c EXCEPT !.attempts = @ + 1]
<1>1. c \in Good(next_id_[s]) /\ d \in Loop(next_id_[s])
  BY Found DEF DaemonType, Live
<1>2. UNCHANGED next_id_ /\ Grow
  BY SameIds DEF Retransmit
<1>3. e \in Loop(next_id_'[s])
  <2> HIDE DEF d
  <2> QED
    BY <1>1, <1>2 DEF Loop
<1>4. daemon' = [daemon EXCEPT ![s] = e]
  BY DEF Retransmit, DaemonType
<1>5. SetTcb(s, id, g) /\ write_packet_(s, create_writer_tcp_packet_(c, Run(c.off, n), c.una))
  BY DEF Retransmit
<1> HIDE DEF e, c, n, d
<1>6. g \in Good(next_id_[s])
  <2>1. c.attempts + 1 \in Nat
    BY <1>1 DEF Good, Block
  <2>2. \A m \in Nat : [c EXCEPT !.attempts = m] \in Good(next_id_[s])
    BY <1>1 DEF Good, Block
  <2> QED
    BY <2>1, <2>2
<1>7. c.off \in Nat /\ c.una \in SeqNum /\ n \in Nat
  <2>1. c.off \in Nat /\ c.una \in SeqNum /\ c.slen \in Nat
    BY <1>1, Sizes DEF Good, Block
  <2>2. InFlight(c) \in Nat
    BY <1>1, InFlightType
  <2> QED
    BY <2>1, <2>2, Sizes DEF n, Lesser
<1>8. create_writer_tcp_packet_(c, Run(c.off, n), c.una) \in Segment
  BY <1>1, <1>7, RunType, WriterType
<1> HIDE DEF g
<1>9. DaemonType' /\ SocketsType' /\ LinksType'
  BY <1>2, <1>3, <1>4, <1>5, <1>6, <1>8, DaemonSet, SetTcbType, WriteType
<1> QED
  BY <1>2, <1>9, Kept DEF Retransmit, Grow

\* and comes round or exits.
LEMMA EndOfLoopType ==
  ASSUME StackType, DaemonType, NEW s \in Stack, EndOfLoop(s)
  PROVE  StackType' /\ DaemonType' /\ Grow
<1> USE DEF StackType, TablesType
<1> DEFINE d == daemon[s]
           e == [d EXCEPT !.at = IF d.running THEN "poll" ELSE "exit",
                          !.then = "swap", !.external = FALSE]
<1>1. d \in Loop(next_id_[s])
  BY DEF DaemonType
<1>2. UNCHANGED next_id_ /\ Grow
  BY SameIds DEF EndOfLoop, tables
<1>3. e \in Loop(next_id_'[s])
  <2> HIDE DEF d
  <2> QED
    BY <1>1, <1>2 DEF Loop
<1>4. daemon' = [daemon EXCEPT ![s] = e]
  BY DEF EndOfLoop, DaemonType
<1> HIDE DEF e
<1>5. DaemonType'
  BY <1>2, <1>3, <1>4, DaemonSet
<1> QED
  BY <1>2, <1>5, Kept DEF EndOfLoop, tables, links, LinksType, Grow

\* What the network does to the queues of segments.
LEMMA NetworkType ==
  ASSUME StackType, DaemonType, NEW s \in Stack, LosePacket(s) \/ DuplicatePacket(s)
  PROVE  StackType' /\ DaemonType' /\ Grow
<1> USE DEF StackType, TablesType
<1>1. UNCHANGED <<sockets_, next_id_, listeners_, connections_, dirty_socket_ids_, daemon, writing>>
  BY DEF LosePacket, DuplicatePacket, tables
<1>2. Grow
  BY <1>1, SameIds
<1>3. LinksType'
  <2>1. tun[s] \in Seq(Segment) /\ loopback_packet_queue_[s] \in Seq(Segment)
    BY DEF LinksType
  <2>2. CASE Lose(tun, s) /\ UNCHANGED loopback_packet_queue_
    <3>1. PICK i \in DOMAIN tun[s] :
            tun' = [tun EXCEPT ![s] = SubSeq(@, 1, i - 1) \o SubSeq(@, i + 1, Len(@))]
      BY <2>2 DEF Lose
    <3> DEFINE q == SubSeq(tun[s], 1, i - 1) \o SubSeq(tun[s], i + 1, Len(tun[s]))
    <3>2. q \in Seq(Segment)
      BY <2>1, WithoutType
    <3>3. tun' = [tun EXCEPT ![s] = q]
      BY <3>1
    <3> HIDE DEF q
    <3> QED
      BY <2>2, <3>2, <3>3 DEF LinksType
  <2>3. CASE Lose(loopback_packet_queue_, s) /\ UNCHANGED tun
    <3> DEFINE l == loopback_packet_queue_[s]
    <3>1. PICK i \in DOMAIN l :
            loopback_packet_queue_' = [loopback_packet_queue_ EXCEPT ![s] =
                                         SubSeq(@, 1, i - 1) \o SubSeq(@, i + 1, Len(@))]
      BY <2>3 DEF Lose
    <3> DEFINE q == SubSeq(l, 1, i - 1) \o SubSeq(l, i + 1, Len(l))
    <3>2. q \in Seq(Segment)
      BY <2>1, WithoutType
    <3>3. loopback_packet_queue_' = [loopback_packet_queue_ EXCEPT ![s] = q]
      BY <3>1
    <3> HIDE DEF q
    <3> QED
      BY <2>3, <3>2, <3>3 DEF LinksType
  <2>4. CASE DuplicatePacket(s)
    <3>1. PICK i \in DOMAIN tun[s] : tun' = [tun EXCEPT ![s] = Append(@, tun[s][i])]
      BY <2>4 DEF DuplicatePacket
    <3>2. Append(tun[s], tun[s][i]) \in Seq(Segment)
      BY <2>1, WithoutType, AppendProperties
    <3> QED
      BY <2>4, <3>1, <3>2 DEF LinksType, DuplicatePacket
  <2> QED
    BY <2>2, <2>3, <2>4 DEF LosePacket
<1> QED
  BY <1>1, <1>2, <1>3, Kept DEF Grow

\* Every step of a stack keeps the types.
LEMMA StackStepType ==
  ASSUME StackType, DaemonType, StackNext
  PROVE  StackType' /\ DaemonType' /\ Grow
<1>1. PICK s \in Stack : lifecycle_(s) \/ LosePacket(s) \/ DuplicatePacket(s)
  BY DEF StackNext
<1> QED
  BY <1>1, PollDirtyType, DirtyBlocksType, SwapLoopbackType, HandlePacketType, WritePayloadType,
     TunReadType, RetransmitType, EndOfLoopType, NetworkType DEF lifecycle_

-----------------------------------------------------------------------------
(* The calls of the threads keep the types.                                 *)

\* The arguments of a call are those its program gives it.
LEMMA CallFields ==
  ASSUME NEW t \in Thread, NEW c \in Call(t)
  PROVE  /\ c.op \in {"bind", "register", "connect"} =>
              c.o \in Own(t) /\ c.addr \in (DOMAIN Route) \X Nat
         /\ c.op \in {"listen", "drain", "close", "crash", "accept", "send", "recv"} => c.o \in Own(t)
         /\ c.op = "accept" => c.into \in Own(t)
         /\ c.op \in {"send", "recv"} => c.n \in Nat
         /\ c.op \in {"send", "recv"} => \A m \in Nat : [c EXCEPT !.n = m] \in Call(t)
         /\ \A m : [c EXCEPT !.n = m].op = c.op
<1>1. /\ c.op \in {"bind", "register", "connect"} =>
              c.o \in Own(t) /\ c.addr \in (DOMAIN Route) \X Nat
      /\ c.op \in {"listen", "drain", "close", "crash", "accept", "send", "recv"} => c.o \in Own(t)
      /\ c.op = "accept" => c.into \in Own(t)
      /\ c.op \in {"send", "recv"} => c.n \in Nat
  BY DEF Call
<1>2. c.op \in {"send", "recv"} => \A m \in Nat : [c EXCEPT !.n = m] \in Call(t)
  BY DEF Call
<1>3. \A m : [c EXCEPT !.n = m].op = c.op
  BY DEF Call
<1> QED
  BY <1>1, <1>2, <1>3
\* The call a thread is at is one of its calls.
LEMMA CurrentCall ==
  ASSUME ProgType, NEW t \in Thread, prog[t] # <<>>
  PROVE  Arg(t) \in Call(t) /\ Tail(prog[t]) \in Seq(Call(t)) /\ Home[t] \in Stack
         /\ prog[t] \in Seq(Call(t)) /\ Len(prog[t]) \in Nat /\ Len(prog[t]) > 0
         /\ Arg(t) = prog[t][1]
<1>1. prog[t] \in Seq(Call(t))
  BY DEF ProgType
<1> QED
  BY <1>1, HeadTailProperties, EmptySeq, LenProperties, HomeAssumption DEF Arg

\* A call returns, or goes on.
LEMMA ReturnType ==
  ASSUME IdsType, Grow, CallsType, NEW t \in Thread, prog[t] # <<>>, Return(t)
  PROVE  CallsType'
<1> USE DEF CallsType
<1>1. \A u \in Thread : Home[u] \in Stack
  BY HomeAssumption
<1>2. \A u \in Thread : pc[u] \in Place(next_id_'[Home[u]])
  BY <1>1, IdsGrow DEF PcType, Grow, IdsType
<1>3. \A n \in Nat \ {0} : Ready \in Place(n)
  BY DEF Ready, Place, States
<1>4. PcType'
  BY <1>1, <1>2, <1>3 DEF PcType, Return, Grow, IdsType
<1>5. ProgType'
  BY CurrentCall DEF ProgType, Return
<1>6. InCallType'
  BY DEF InCallType, Return, PcType, ProgType, Ready, Arg
<1> QED
  BY <1>4, <1>5, <1>6
\* A call that goes on keeps the threads typed,
LEMMA GotoType ==
  ASSUME IdsType, Grow, CallsType, NEW t \in Thread, prog[t] # <<>>,
         NEW at, NEW id, NEW to, Goto(t, at, id, to),
         [at |-> at, id |-> id, to |-> to] \in Place(next_id_'[Home[t]]), Arg(t).op = CallAt(at)
  PROVE  CallsType'
<1> USE DEF CallsType
<1>1. \A u \in Thread : Home[u] \in Stack
  BY HomeAssumption
<1>2. \A u \in Thread : pc[u] \in Place(next_id_'[Home[u]])
  BY <1>1, IdsGrow DEF PcType, Grow, IdsType
<1>4. PcType'
  BY <1>1, <1>2 DEF PcType, Goto
<1>5. ProgType'
  BY DEF ProgType, Goto
<1>6. InCallType'
  BY DEF InCallType, Goto, PcType, Arg
<1> QED
  BY <1>4, <1>5, <1>6
\* and so does one that is made again for what is left.
LEMMA ContinueType ==
  ASSUME IdsType, Grow, CallsType, NEW t \in Thread, prog[t] # <<>>,
         Arg(t).op \in {"send", "recv"}, NEW n \in Nat, n <= Arg(t).n, Continue(t, n)
  PROVE  CallsType'
<1> USE DEF CallsType
<1>0. CASE Return(t)
  BY <1>0, ReturnType
<1>a. CASE /\ pc' = [pc EXCEPT ![t] = Ready]
           /\ prog' = [prog EXCEPT ![t][1].n = @ - n]
  <2>1. \A u \in Thread : Home[u] \in Stack
    BY HomeAssumption
  <2>2. \A u \in Thread : pc[u] \in Place(next_id_'[Home[u]])
    BY <2>1, IdsGrow DEF PcType, Grow, IdsType
  <2>3. \A m \in Nat \ {0} : Ready \in Place(m)
    BY DEF Ready, Place, States
  <2>4. PcType'
    BY <1>a, <2>1, <2>2, <2>3 DEF PcType, Grow, IdsType
  <2> DEFINE c == [Arg(t) EXCEPT !.n = @ - n]
  <2>5. c \in Call(t)
    <3>1. Arg(t).n \in Nat /\ Arg(t).n - n \in Nat
      BY CurrentCall, CallFields
    <3> QED
      BY <3>1, CurrentCall, CallFields
  <2>6. prog' = [prog EXCEPT ![t] = [prog[t] EXCEPT ![1] = c]]
    BY <1>a, CurrentCall DEF ProgType
  <2> HIDE DEF c
  <2>7. [prog[t] EXCEPT ![1] = c] \in Seq(Call(t))
    BY <2>5, CurrentCall, ExceptSeq
  <2>8. ProgType'
    BY <2>6, <2>7 DEF ProgType
  <2>9. InCallType'
    BY <1>a, <2>6 DEF InCallType, PcType, ProgType, Ready, Arg
  <2> QED
    BY <2>4, <2>8, <2>9
<1> QED
  BY <1>0, <1>a DEF Continue

\* The port the allocator finds is free, and not below the counter.
LEMMA FreePortType ==
  ASSUME ListenersType, PortType, NEW s \in Stack
  PROVE  /\ FreePort(s) \in Nat /\ FreePort(s) >= next_port
         /\ FindListener(s, FreePort(s)) = 0
<1> DEFINE D == DOMAIN listeners_[s]
           k == Cardinality(D)
           F == {p \in next_port .. next_port + k : FindListener(s, p) = 0}
<1>1. IsFiniteSet(D) /\ k \in Nat /\ next_port \in Nat
  BY FS_CardinalityType DEF ListenersType, PortType
<1>2. F # {}
  <2> SUFFICES ASSUME F = {} PROVE FALSE
    OBVIOUS
  <2> DEFINE I == next_port .. next_port + k
  <2>1. \A p \in I : p \in D
    BY FoundListener
  <2>2. Cardinality(I) = k + 1
    <3>1. next_port \in Int /\ next_port + k \in Int /\ ~ (next_port > next_port + k)
          /\ (next_port + k) - next_port + 1 = k + 1
      BY <1>1
    <3> HIDE DEF k
    <3> QED
      BY <3>1, FS_Interval
  <2> HIDE DEF I, D
  <2>3. Cardinality(I) <= Cardinality(D)
    BY <1>1, <2>1, FS_Subset
  <2> QED
    BY <1>1, <2>2, <2>3
<1>3. F \subseteq Nat
  BY <1>1
<1> HIDE DEF F
<1>4. PICK p \in F : \A q \in F : ~ (q < p)
  <2>1. PICK p \in F : \A q \in F : ~ (<<q, p>> \in OpToRel(<, Nat))
    BY <1>2, <1>3, WFMin, NatLessThanWellFounded
  <2>2. \A q \in F : q < p => <<q, p>> \in OpToRel(<, Nat)
    BY <1>3 DEF OpToRel
  <2> QED
    BY <2>1, <2>2
<1>5. /\ p \in next_port .. next_port + k /\ FindListener(s, p) = 0
      /\ \A q \in next_port .. p - 1 : FindListener(s, q) # 0
  BY <1>1, <1>4 DEF F
<1> DEFINE P(x) == /\ FindListener(s, x) = 0
                   /\ \A q \in next_port .. x - 1 : FindListener(s, q) # 0
<1>6. \E x \in next_port .. next_port + k : P(x)
  BY <1>5
<1>7. FreePort(s) \in next_port .. next_port + k /\ P(FreePort(s))
  <2>1. FreePort(s) = CHOOSE x \in next_port .. next_port + k : P(x)
    BY DEF FreePort
  <2> HIDE DEF P
  <2> QED
    BY <1>6, <2>1
<1> QED
  BY <1>1, <1>7

\* A call that changes only its thread, and one that changes also a block.
LEMMA OnlyThreadType ==
  ASSUME TypeInv, OnlyThread, CallsType'
  PROVE  TypeInv'
<1> USE DEF TypeInv, StackType, TablesType, AppType
<1>1. /\ UNCHANGED <<sockets_, next_id_, listeners_, connections_, dirty_socket_ids_>>
      /\ UNCHANGED <<loopback_packet_queue_, tun, daemon, writing, next_port, socket_id>>
  BY DEF OnlyThread, stackVars, tables, links, daemonState
<1>2. Grow
  BY <1>1, SameIds
<1> QED
  BY <1>1, <1>2, Kept DEF LinksType, PortType, Grow
\* A call that touches one block leaves the rest typed.
LEMMA OnlyBlockType ==
  ASSUME TypeInv, OnlyBlock, SocketsType', CallsType'
  PROVE  TypeInv'
<1> USE DEF TypeInv, StackType, TablesType, AppType
<1>1. /\ UNCHANGED <<next_id_, listeners_, connections_, dirty_socket_ids_>>
      /\ UNCHANGED <<loopback_packet_queue_, tun, daemon, writing, next_port, socket_id>>
  BY DEF OnlyBlock, links, daemonState
<1>2. Grow
  BY <1>1, SameIds
<1> QED
  BY <1>1, <1>2, Kept DEF LinksType, PortType, Grow

\* The block a call on one of the thread's own sockets works on.
LEMMA MineType ==
  ASSUME ObjType, IdsType, NEW t \in Thread, Arg(t).o \in Own(t)
  PROVE  Mine(t) \in 0 .. next_id_[Home[t]] - 1 /\ Arg(t).o \in Obj /\ Home[Arg(t).o] = Home[t]
  BY DEF Mine, Own, ObjType
\* A TcpSocket that is given an id stays typed.
LEMMA ObjSet ==
  ASSUME ObjType, IdsType, Grow, NEW t \in Thread, NEW o \in Own(t),
         NEW id \in 0 .. next_id_'[Home[t]] - 1, socket_id' = [socket_id EXCEPT ![o] = id]
  PROVE  ObjType'
<1>1. \A x \in Obj : socket_id[x] \in 0 .. next_id_'[Home[x]] - 1
  <2> SUFFICES ASSUME NEW x \in Obj PROVE socket_id[x] \in 0 .. next_id_'[Home[x]] - 1
    OBVIOUS
  <2>1. Home[x] \in Stack /\ socket_id[x] \in 0 .. next_id_[Home[x]] - 1
    BY HomeAssumption DEF ObjType
  <2>2. next_id_[Home[x]] <= next_id_'[Home[x]] /\ next_id_[Home[x]] \in Nat /\ next_id_'[Home[x]] \in Nat
    BY <2>1 DEF Grow, IdsType
  <2> QED
    BY <2>1, <2>2
<1>2. \A x \in Obj : socket_id'[x] \in 0 .. next_id_'[Home[x]] - 1
  BY <1>1 DEF ObjType, Own
<1> QED
  BY <1>2 DEF ObjType

\* The port a call uses.
LEMMA PortTypes ==
  ASSUME ListenersType, PortType, NEW s \in Stack, NEW port \in Nat, Allocate(s, port)
  PROVE  PortType' /\ PortOf(s, port) \in Nat /\ next_port <= next_port'
  BY FreePortType, PortAssumption DEF PortOf, Allocate, PortType

\* bind.
LEMMA BindType ==
  ASSUME TypeInv, NEW t \in Thread, prog[t] # <<>>, bind(t)
  PROVE  TypeInv'
<1> USE DEF TypeInv, StackType, TablesType, AppType
<1> DEFINE s == Home[t]
           addr == Arg(t).addr
           port == PortOf(s, addr[2])
           id == next_id_[s]
<1>1. PICK iss \in ISN :
        /\ Allocate(s, addr[2])
        /\ sockets_' = [sockets_ EXCEPT ![s] = Put(@, id,
             [Tcb("CLOSED", <<addr[1], port>>, NoAddr) EXCEPT !.iss = iss, !.nxt = iss])]
        /\ next_id_' = [next_id_ EXCEPT ![s] = @ + 1]
        /\ listeners_' = [listeners_ EXCEPT ![s] = Put(@, port, id)]
        /\ socket_id' = [socket_id EXCEPT ![Arg(t).o] = id]
        /\ Return(t)
        /\ UNCHANGED <<connections_, dirty_socket_ids_, links, daemonState>>
  BY DEF bind
<1>2. /\ Arg(t).o \in Own(t) /\ addr \in (DOMAIN Route) \X Nat /\ s \in Stack
  BY CurrentCall, CallFields DEF bind, Starts, CallsType, Arg
<1>3. id \in Nat \ {0} /\ next_id_'[s] = id + 1 /\ Grow
  BY <1>1, <1>2, MoreIds DEF IdsType
<1>4. PortType' /\ port \in Nat
  BY <1>1, <1>2, PortTypes
<1>5. SocketsType'
  <2> DEFINE c == Tcb("CLOSED", <<addr[1], port>>, NoAddr)
             d == [c EXCEPT !.iss = iss, !.nxt = iss]
  <2>1. <<addr[1], port>> \in Addr /\ NoAddr \in Addr
    BY <1>2, <1>4 DEF Addr, NoAddr
  <2>2. c \in Good(id + 1)
    BY <1>3, <2>1, TcbType DEF States
  <2>3. d \in Good(id + 1)
    <3> HIDE DEF c
    <3> QED
      BY <2>2, Sizes DEF Good, Block
  <2>4. sockets_' = [sockets_ EXCEPT ![s] = Put(@, id, d)]
    BY <1>1
  <2> HIDE DEF d
  <2>5. SocketTable(Put(sockets_[s], id, d), next_id_'[s])
    BY <1>2, <1>3, <2>3, TablePut DEF SocketsType
  <2> QED
    BY <1>2, <1>3, <2>4, <2>5, SocketsSet
<1>6. ListenersType'
  <2>1. \A r \in Stack : IdTable(listeners_[r], Nat, next_id_'[r]) /\ IsFiniteSet(DOMAIN listeners_[r])
    BY <1>3, IdsGrow DEF ListenersType, Grow, IdsType
  <2>a. id \in 1 .. next_id_'[s] - 1
    BY <1>3
  <2>2. IdTable(Put(listeners_[s], port, id), Nat, next_id_'[s])
    <3>1. IdTable(listeners_[s], Nat, next_id_'[s])
      BY <1>2, <2>1
    <3> HIDE DEF port, id, s
    <3> QED
      BY <1>4, <2>a, <3>1, IdPut
  <2> DEFINE f == Put(listeners_[s], port, id)
  <2>3. IsFiniteSet(DOMAIN f)
    <3>1. DOMAIN f = DOMAIN listeners_[s] \cup {port}
      BY DEF Put
    <3> QED
      BY <1>2, <2>1, <3>1, FS_AddElement
  <2>4. listeners_' = [listeners_ EXCEPT ![s] = f]
    BY <1>1
  <2> HIDE DEF f
  <2>5. \A r \in Stack : listeners_'[r] = IF r = s THEN f ELSE listeners_[r]
    BY <2>4 DEF ListenersType
  <2>6. DOMAIN listeners_' = Stack
    BY <2>4 DEF ListenersType
  <2>7. IdTable(f, Nat, next_id_'[s])
    BY <2>2 DEF f
  <2>8. \A r \in Stack : IdTable(listeners_'[r], Nat, next_id_'[r]) /\ IsFiniteSet(DOMAIN listeners_'[r])
    <3> HIDE DEF s
    <3> QED
      BY <2>1, <2>3, <2>5, <2>7
  <2> QED
    BY <2>6, <2>8 DEF ListenersType
<1>7. ObjType'
  <2>1. id \in 0 .. next_id_'[Home[t]] - 1
    BY <1>3
  <2> HIDE DEF id
  <2> QED
    BY <1>1, <1>2, <1>3, <2>1, ObjSet
<1>8. CallsType'
  BY <1>1, <1>3, ReturnType
<1> QED
  BY <1>1, <1>3, <1>4, <1>5, <1>6, <1>7, <1>8, Kept DEF links, daemonState, LinksType, Grow

\* listen.
LEMMA ListenType ==
  ASSUME TypeInv, NEW t \in Thread, prog[t] # <<>>, listen(t)
  PROVE  TypeInv'
<1> USE DEF TypeInv, StackType, TablesType, AppType
<1> DEFINE s == Home[t]
           c == sockets_[s][Mine(t)]
<1>1. UNCHANGED next_id_ /\ Grow /\ s \in Stack
  BY SameIds, CurrentCall DEF listen, OnlyBlock, CallsType
<1>2. SocketsType'
  <2>1. CASE UNCHANGED sockets_
    BY <1>1, <2>1, Kept
  <2>2. CASE Live(s, Mine(t)) /\ sockets_' = [sockets_ EXCEPT ![s][Mine(t)].state = "LISTEN"]
    <3>1. c \in Good(next_id_[s])
      BY <1>1, <2>2, Found
    <3>2. SetTcb(s, Mine(t), [c EXCEPT !.state = "LISTEN"])
      BY <1>1, <2>2 DEF SetTcb, SocketsType, Live
    <3>3. [c EXCEPT !.state = "LISTEN"] \in Good(next_id_[s])
      <4> HIDE DEF c
      <4> QED
        BY <3>1, Updated DEF States
    <3> QED
      BY <1>1, <3>2, <3>3, SetTcbType
  <2> QED
    BY <2>1, <2>2 DEF listen
<1>3. CallsType'
  BY <1>1, ReturnType DEF listen
<1> QED
  BY <1>2, <1>3, OnlyBlockType DEF listen

\* register_connection gives a socket a route, and a block if it has none.
LEMMA RegisterType ==
  ASSUME TablesType, PortType, NEW s \in Stack, NEW asked \in (DOMAIN Route \cup {"0.0.0.0"}) \X Nat,
         NEW remote \in Addr, NEW mine, register_connection(s, asked, remote, mine)
  PROVE  /\ SocketsType' /\ RoutesType' /\ Grow /\ PortType'
         /\ RegisteredId(s, mine) \in 1 .. next_id_'[s] - 1
<1> USE DEF TablesType
<1> DEFINE local == <<asked[1], PortOf(s, asked[2])>>
           id == RegisteredId(s, mine)
<1>1. PortType' /\ local \in Addr
  BY PortTypes DEF register_connection, Addr
<1>2. Grow /\ id \in 1 .. next_id_'[s] - 1
  <2>1. CASE Live(s, mine)
    BY <2>1, SameIds, Found DEF register_connection, RegisteredId, IdsType
  <2>2. CASE ~ Live(s, mine)
    <3>1. next_id_' = [next_id_ EXCEPT ![s] = @ + 1] /\ id = next_id_[s]
      BY <2>2 DEF register_connection, RegisteredId
    <3> HIDE DEF id
    <3>2. id \in Nat \ {0} /\ next_id_'[s] = id + 1
      BY <3>1 DEF IdsType
    <3>3. id \in 1 .. next_id_'[s] - 1
      BY <3>2
    <3> QED
      BY <3>1, <3>3, MoreIds
  <2> QED
    BY <2>1, <2>2
<1>3. RoutesType'
  <2>1. connections_' = [connections_ EXCEPT ![s] = Put(@, <<remote, local>>, id)]
    BY DEF register_connection
  <2>2. IdTable(connections_[s], Addr \X Addr, next_id_'[s])
    BY <1>2, IdsGrow DEF RoutesType, Grow, IdsType
  <2>3. <<remote, local>> \in Addr \X Addr
    BY <1>1
  <2> HIDE DEF local, id
  <2>4. IdTable(Put(connections_[s], <<remote, local>>, id), Addr \X Addr, next_id_'[s])
    BY <1>2, <2>2, <2>3, IdPut
  <2> QED
    BY <1>2, <2>1, <2>4, RoutesSet
<1>4. SocketsType'
  <2>1. CASE Live(s, mine)
    <3> DEFINE c == sockets_[s][mine]
               d == [c EXCEPT !.src = local, !.dst = remote]
    <3>1. c \in Good(next_id_[s]) /\ id = mine /\ UNCHANGED next_id_
      BY <2>1, Found DEF RegisteredId, register_connection
    <3>2. SetTcb(s, mine, d)
      <4>1. sockets_' = [sockets_ EXCEPT ![s] = [@ EXCEPT ![mine].src = local, ![mine].dst = remote]]
        BY <2>1 DEF register_connection, RegisteredId
      <4>2. [sockets_[s] EXCEPT ![mine].src = local, ![mine].dst = remote]
              = [sockets_[s] EXCEPT ![mine] = d]
        <5> HIDE DEF local
        <5> QED
          BY <2>1 DEF Live, SocketsType, SocketTable
      <4> HIDE DEF d, local
      <4> QED
        BY <4>1, <4>2 DEF SetTcb
    <3>3. d \in Good(next_id_[s])
      <4> HIDE DEF c, local
      <4> QED
        BY <1>1, <3>1 DEF Good, Block
    <3> HIDE DEF d
    <3> QED
      BY <3>1, <3>2, <3>3, SetTcbType
  <2>2. CASE ~ Live(s, mine)
    <3> DEFINE n == next_id_[s]
               d == Tcb("CLOSED", local, remote)
    <3>1. /\ n \in Nat \ {0} /\ next_id_'[s] = n + 1
          /\ sockets_' = [sockets_ EXCEPT ![s] = Put(@, n, d)]
      BY <2>2 DEF register_connection, RegisteredId, IdsType
    <3>2. d \in Good(n + 1)
      BY <1>1, <3>1, TcbType DEF States
    <3> HIDE DEF d
    <3>3. SocketTable(Put(sockets_[s], n, d), next_id_'[s])
      BY <3>1, <3>2, TablePut DEF SocketsType
    <3> QED
      BY <1>2, <3>1, <3>3, SocketsSet
  <2> QED
    BY <2>1, <2>2
<1> QED
  BY <1>1, <1>2, <1>3, <1>4

\* The addresses of calls and blocks.
LEMMA AddrTypes ==
  /\ (DOMAIN Route) \X Nat \subseteq Addr /\ Addr = (DOMAIN Route \cup {"0.0.0.0"}) \X Nat
  /\ \A s \in Stack : <<s, 0>> \in Addr
  BY RouteAssumption DEF Addr

\* A program's own register_connection.
LEMMA RegisterRouteType ==
  ASSUME TypeInv, NEW t \in Thread, prog[t] # <<>>, RegisterRoute(t)
  PROVE  TypeInv'
<1> USE DEF TypeInv, StackType, TablesType, AppType
<1> DEFINE s == Home[t]
           c == sockets_[s][Mine(t)]
<1>1. Arg(t).addr \in Addr /\ s \in Stack
  BY CurrentCall, CallFields, AddrTypes DEF RegisterRoute, Starts, CallsType, Arg
<1>2. c.src \in Addr
  BY <1>1, Found DEF RegisterRoute, Good, Block
<1>3. register_connection(s, c.src, Arg(t).addr, Mine(t))
  BY DEF RegisterRoute
<1>4. SocketsType' /\ RoutesType' /\ Grow /\ PortType'
  BY <1>1, <1>2, <1>3, RegisterType, AddrTypes
<1>5. CallsType'
  BY <1>4, ReturnType DEF RegisterRoute
<1> QED
  BY <1>4, <1>5, Kept DEF RegisterRoute, register_connection, links, daemonState, LinksType, Grow

\* connect, up to register_connection,
LEMMA ConnectRegisterType ==
  ASSUME TypeInv, NEW t \in Thread, prog[t] # <<>>, ConnectRegister(t)
  PROVE  TypeInv'
<1> USE DEF TypeInv, StackType, TablesType, AppType
<1> DEFINE s == Home[t]
           c == sockets_[s][Mine(t)]
           asked == IF Live(s, Mine(t)) THEN c.src ELSE <<s, 0>>
           id == RegisteredId(s, Mine(t))
<1>1. Arg(t).addr \in Addr /\ s \in Stack /\ Arg(t).op = "connect" /\ Arg(t).o \in Own(t)
  BY CurrentCall, CallFields, AddrTypes DEF ConnectRegister, Starts, CallsType, Arg
<1>2. asked \in Addr
  BY <1>1, Found, AddrTypes DEF Good, Block
<1>3. /\ register_connection(s, asked, Arg(t).addr, Mine(t))
      /\ socket_id' = [socket_id EXCEPT ![Arg(t).o] = id]
      /\ Goto(t, "opening", id, "CLOSED")
  BY DEF ConnectRegister
<1> HIDE DEF asked, id
<1>4. SocketsType' /\ RoutesType' /\ Grow /\ PortType' /\ id \in 1 .. next_id_'[s] - 1
  BY <1>1, <1>2, <1>3, RegisterType, AddrTypes DEF id
<1>6. id \in 0 .. next_id_'[s] - 1
  BY <1>4
<1>7. ObjType'
  BY <1>1, <1>3, <1>4, <1>6, ObjSet
<1>5. CallsType'
  <2>1. [at |-> "opening", id |-> id, to |-> "CLOSED"] \in Place(next_id_'[s])
    BY <1>6 DEF Place, States
  <2> QED
    BY <1>1, <1>3, <1>4, <2>1, GotoType DEF CallAt
<1> QED
  BY <1>3, <1>4, <1>5, <1>7, Kept DEF register_connection, links, daemonState, LinksType, Grow

\* sending its SYN,
LEMMA ConnectOpenType ==
  ASSUME TypeInv, NEW t \in Thread, prog[t] # <<>>, ConnectOpen(t)
  PROVE  TypeInv'
<1> USE DEF TypeInv, StackType, TablesType, AppType
<1> DEFINE s == Home[t]
           id == pc[t].id
           c == sockets_[s][id]
<1>1. PICK iss \in ISN :
        /\ pc[t].at = "opening" /\ Live(s, id)
        /\ SetTcb(s, id, [c EXCEPT !.iss = iss, !.una = iss,
                            !.nxt = Add(iss, 1), !.state = "SYN_SENT"])
        /\ add_dirty_tcb(s, id)
        /\ Goto(t, "connecting", id, "CLOSED")
        /\ UNCHANGED <<next_id_, listeners_, connections_, links, daemonState,
                       next_port, socket_id>>
  BY DEF ConnectOpen
<1> DEFINE d == [c EXCEPT !.iss = iss, !.una = iss, !.nxt = Add(iss, 1), !.state = "SYN_SENT"]
<1>2. s \in Stack /\ Arg(t).op = "connect"
  BY <1>1, CurrentCall DEF CallsType, InCallType, CallAt
<1>3. c \in Good(next_id_[s]) /\ id \in 0 .. next_id_[s] - 1
  BY <1>1, <1>2, Found
<1>4. d \in Good(next_id_[s])
  <2> HIDE DEF c
  <2>1. iss \in SeqNum /\ iss \in Int /\ 1 \in Int
    BY Sizes, SeqNumInt
  <2>2. Add(iss, 1) \in SeqNum
    BY <2>1, AddType
  <2> QED
    BY <1>3, <2>1, <2>2 DEF Good, Block, States
<1>5. Grow
  BY <1>1, SameIds
<1>6. SocketsType' /\ DirtyType'
  <2>1. SetTcb(s, id, d)
    BY <1>1
  <2> HIDE DEF d
  <2> QED
    BY <1>1, <1>2, <1>4, <2>1, SetTcbType, DirtyMark
<1>7. CallsType'
  <2>1. [at |-> "connecting", id |-> id, to |-> "CLOSED"] \in Place(next_id_'[s])
    BY <1>1, <1>3 DEF Place, States
  <2> QED
    BY <1>1, <1>2, <1>5, <2>1, GotoType DEF CallAt
<1> QED
  BY <1>1, <1>5, <1>6, <1>7, Kept DEF links, daemonState, LinksType, PortType, Grow

\* and returning.
LEMMA ConnectReturnType ==
  ASSUME TypeInv, NEW t \in Thread, prog[t] # <<>>, ConnectReturn(t) \/ NoSuchSocket(t) \/ Await(t)
  PROVE  TypeInv'
<1>1. OnlyThread /\ Return(t)
  BY DEF ConnectReturn, NoSuchSocket, Await
<1>2. IdsType /\ Grow /\ CallsType
  BY <1>1, SameIds DEF TypeInv, StackType, TablesType, AppType, OnlyThread, stackVars, tables
<1> QED
  BY <1>1, <1>2, ReturnType, OnlyThreadType

\* accept, called
LEMMA AcceptCallType ==
  ASSUME TypeInv, NEW t \in Thread, prog[t] # <<>>, AcceptCall(t)
  PROVE  TypeInv'
<1> USE DEF TypeInv, StackType, TablesType, AppType
<1> DEFINE s == Home[t]
<1>1. /\ s \in Stack /\ Arg(t).op = "accept" /\ Arg(t).o \in Own(t) /\ Arg(t).into \in Own(t)
  BY CurrentCall, CallFields DEF AcceptCall, Starts, CallsType, Arg
<1>2. /\ UNCHANGED <<sockets_, next_id_, listeners_, connections_, dirty_socket_ids_>>
      /\ UNCHANGED <<loopback_packet_queue_, tun, daemon, writing, next_port>>
  BY DEF AcceptCall, tables, links, daemonState
<1>3. Grow
  BY <1>2, SameIds
<1>4. CallsType' /\ ObjType'
  <2>1. CASE Live(s, Mine(t)) /\ Goto(t, "accepting", Mine(t), "CLOSED") /\ UNCHANGED socket_id
    <3>1. Mine(t) \in 0 .. next_id_'[s] - 1
      BY <1>1, <1>2, <2>1, MineType
    <3>2. [at |-> "accepting", id |-> Mine(t), to |-> "CLOSED"] \in Place(next_id_'[s])
      BY <3>1 DEF Place, States
    <3> QED
      BY <1>1, <1>3, <2>1, <3>2, GotoType, Kept DEF CallAt
  <2>2. CASE Return(t) /\ socket_id' = [socket_id EXCEPT ![Arg(t).into] = 0]
    <3>1. 0 \in 0 .. next_id_'[s] - 1
      BY <1>1, <1>2 DEF IdsType
    <3> QED
      BY <1>1, <1>3, <2>2, <3>1, ReturnType, ObjSet
  <2> QED
    BY <2>1, <2>2 DEF AcceptCall
<1> QED
  BY <1>2, <1>3, <1>4, Kept DEF LinksType, PortType, Grow

\* and returning a child.
LEMMA AcceptReturnType ==
  ASSUME TypeInv, NEW t \in Thread, prog[t] # <<>>, AcceptReturn(t)
  PROVE  TypeInv'
<1> USE DEF TypeInv, StackType, TablesType, AppType
<1> DEFINE s == Home[t]
           id == pc[t].id
           c == sockets_[s][id]
           d == [c EXCEPT !.accept_queue = Tail(@)]
<1>1. /\ s \in Stack /\ Arg(t).into \in Own(t) /\ Live(s, id) /\ c.accept_queue # <<>>
  <2>1. Arg(t).op = "accept"
    BY DEF AcceptReturn, CallsType, InCallType, CallAt
  <2> QED
    BY <2>1, CurrentCall, CallFields DEF AcceptReturn, CallsType
<1>2. c \in Good(next_id_[s])
  BY <1>1, Found
<1>3. SetTcb(s, id, d)
  BY <1>1 DEF AcceptReturn, SetTcb, SocketsType, Live
<1>4. UNCHANGED next_id_ /\ Grow
  BY SameIds DEF AcceptReturn
<1>5. d \in Good(next_id_[s]) /\ Head(c.accept_queue) \in 0 .. next_id_[s] - 1
  <2> HIDE DEF c
  <2>1. c.accept_queue \in Seq(1 .. next_id_[s] - 1)
    BY <1>2 DEF Good, Block
  <2>2. Tail(c.accept_queue) \in Seq(1 .. next_id_[s] - 1) /\ Head(c.accept_queue) \in 1 .. next_id_[s] - 1
    BY <1>1, <2>1, HeadTailProperties
  <2>3. d \in Good(next_id_[s])
    BY <1>2, <2>2 DEF Good, Block
  <2>4. next_id_[s] \in Nat
    BY <1>1 DEF IdsType
  <2> QED
    BY <2>2, <2>3, <2>4
<1>6. SocketsType'
  <2> HIDE DEF d
  <2> QED
    BY <1>1, <1>3, <1>4, <1>5, SetTcbType
<1>7. ObjType'
  BY <1>1, <1>4, <1>5, ObjSet DEF AcceptReturn
<1>8. CallsType'
  BY <1>4, ReturnType DEF AcceptReturn
<1> QED
  BY <1>4, <1>6, <1>7, <1>8, Kept DEF AcceptReturn, links, daemonState, LinksType, PortType, Grow

\* A send or recv that has to wait.
LEMMA ParkType ==
  ASSUME TypeInv, NEW t \in Thread, prog[t] # <<>>, Park(t)
  PROVE  TypeInv'
<1> USE DEF TypeInv, StackType, TablesType, AppType
<1> DEFINE s == Home[t]
           op == Arg(t).op
<1>1. s \in Stack /\ op \in {"send", "recv", "drain"} /\ Arg(t).o \in Own(t)
  BY CurrentCall, CallFields DEF Park, Starts, CallsType, Arg
<1>2. OnlyThread /\ UNCHANGED next_id_ /\ Grow
  BY SameIds DEF Park, OnlyThread, stackVars, tables
<1>3. Mine(t) \in 0 .. next_id_'[s] - 1
  BY <1>1, <1>2, MineType
<1>4. [at |-> op, id |-> Mine(t), to |-> "CLOSED"] \in Place(next_id_'[s])
  BY <1>1, <1>3 DEF Place, States
<1>5. op = CallAt(op)
  BY <1>1 DEF CallAt
<1>6. CallsType'
  BY <1>2, <1>4, <1>5, GotoType DEF Park
<1> QED
  BY <1>2, <1>6, OnlyThreadType

\* The call a thread is inside.
LEMMA InsideCall ==
  ASSUME TypeInv, NEW t \in Thread, prog[t] # <<>>, NEW op \in {"send", "recv", "drain"}, Inside(t, op)
  PROVE  /\ Arg(t).op = op /\ Arg(t).o \in Own(t) /\ Home[t] \in Stack
         /\ op # "drain" => Arg(t).n \in Nat
         /\ sockets_[Home[t]][Target(t)] \in Good(next_id_[Home[t]])
<1> USE DEF TypeInv, StackType, TablesType, AppType
<1>1. Arg(t).op = op
  BY DEF Inside, Starts, CallsType, InCallType, CallAt, Arg
<1>2. Home[t] \in Stack /\ Arg(t).o \in Own(t) /\ (op # "drain" => Arg(t).n \in Nat)
  BY <1>1, CurrentCall, CallFields DEF CallsType
<1> QED
  BY <1>1, <1>2, Found DEF Inside

\* send.
LEMMA SendType ==
  ASSUME TypeInv, NEW t \in Thread, prog[t] # <<>>, send(t)
  PROVE  TypeInv'
<1> USE DEF TypeInv, StackType, TablesType, AppType
<1> DEFINE s == Home[t]
           c == sockets_[s][Target(t)]
           n == Lesser(Arg(t).n, BufSize - c.slen)
           d == [c EXCEPT !.slen = @ + n]
<1>1. /\ Inside(t, "send") /\ SetTcb(s, Target(t), d) /\ add_dirty_tcb(s, Mine(t)) /\ Continue(t, n)
      /\ UNCHANGED <<next_id_, listeners_, connections_, links, daemonState, next_port, socket_id>>
  BY DEF send
<1>2. /\ Arg(t).op = "send" /\ s \in Stack /\ Arg(t).n \in Nat /\ c \in Good(next_id_[s])
  BY <1>1, InsideCall
<1>3. n \in Nat /\ n <= Arg(t).n /\ c.slen + n \in 0..BufSize
  <2>1. c.slen \in 0..BufSize
    BY <1>2 DEF Good, Block
  <2> HIDE DEF c
  <2> QED
    BY <1>2, <2>1, Sizes DEF Lesser
<1>4. d \in Good(next_id_[s])
  <2> HIDE DEF c, n
  <2> QED
    BY <1>2, <1>3 DEF Good, Block
<1>5. Grow
  BY <1>1, SameIds
<1> HIDE DEF d, n
<1>6. SocketsType' /\ DirtyType' /\ CallsType'
  BY <1>1, <1>2, <1>3, <1>4, <1>5, SetTcbType, DirtyMark, ContinueType
<1> QED
  BY <1>1, <1>5, <1>6, Kept DEF links, daemonState, LinksType, PortType, Grow

\* recv, and recv until the end of the stream.
LEMMA RecvType ==
  ASSUME TypeInv, NEW t \in Thread, prog[t] # <<>>, recv(t) \/ drain(t)
  PROVE  TypeInv'
<1> USE DEF TypeInv, StackType, TablesType, AppType
<1> DEFINE s == Home[t]
           c == sockets_[s][Target(t)]
           n == Lesser(Arg(t).n, Buffered(c))
           d == [c EXCEPT !.rread = @ + n]
           e == [c EXCEPT !.rread = Len(c.rcvd)]
<1>1. OnlyBlock /\ UNCHANGED next_id_ /\ Grow
  BY SameIds DEF recv, drain, OnlyBlock
<1>2. CASE recv(t)
  <2>1. Inside(t, "recv") /\ SetTcb(s, Target(t), d) /\ Continue(t, n)
    BY <1>2 DEF recv
  <2>2. Arg(t).op = "recv" /\ s \in Stack /\ Arg(t).n \in Nat /\ c \in Good(next_id_[s])
    BY <2>1, InsideCall
  <2>3. n \in Nat /\ n <= Arg(t).n /\ c.rread + n \in Nat /\ c.rread + n <= Len(c.rcvd)
        /\ Len(c.rcvd) <= (c.rread + n) + BufSize
    <3>1. c.rread \in Nat /\ Len(c.rcvd) \in Nat /\ c.rread <= Len(c.rcvd)
          /\ Len(c.rcvd) <= c.rread + BufSize
      BY <2>2, LenProperties DEF Good, Block
    <3> HIDE DEF c
    <3>2. PICK r, l, a : r = c.rread /\ l = Len(c.rcvd) /\ a = Arg(t).n
      OBVIOUS
    <3>3. r \in Nat /\ l \in Nat /\ a \in Nat /\ r <= l /\ l <= r + BufSize /\ BufSize \in Nat
      BY <2>2, <3>1, <3>2, Sizes
    <3>4. n = IF a <= l - r THEN a ELSE l - r
      BY <3>2 DEF Lesser, Buffered
    <3>5. n \in Nat /\ n <= a /\ r + n \in Nat /\ r + n <= l /\ l <= (r + n) + BufSize
      <4> HIDE DEF n
      <4> QED
        BY ONLY <3>3, <3>4
    <3> QED
      BY <3>2, <3>5
  <2>4. d \in Good(next_id_[s])
    <3> HIDE DEF c, n
    <3> QED
      BY <2>2, <2>3 DEF Good, Block
  <2> HIDE DEF d, n
  <2>5. SocketsType' /\ CallsType'
    BY <1>1, <2>1, <2>2, <2>3, <2>4, SetTcbType, ContinueType
  <2> QED
    BY <1>1, <2>5, OnlyBlockType
<1>3. CASE drain(t)
  <2>1. /\ Inside(t, "drain") /\ SetTcb(s, Target(t), e)
        /\ Return(t) \/ (pc' = [pc EXCEPT ![t] = Ready] /\ UNCHANGED prog)
    BY <1>3 DEF drain
  <2>2. s \in Stack /\ c \in Good(next_id_[s]) /\ Arg(t).op = "drain"
    BY <2>1, InsideCall
  <2>3. e \in Good(next_id_[s])
    <3> HIDE DEF c
    <3>1. Len(c.rcvd) \in Nat /\ Len(c.rcvd) <= Len(c.rcvd) + BufSize
      BY <2>2, LenProperties, Sizes DEF Good, Block
    <3>2. \A m \in Nat : m <= Len(c.rcvd) /\ Len(c.rcvd) <= m + BufSize =>
            [c EXCEPT !.rread = m] \in Good(next_id_[s])
      BY <2>2 DEF Good, Block
    <3> DEFINE k == Len(c.rcvd)
    <3>3. k \in Nat /\ k <= Len(c.rcvd) /\ Len(c.rcvd) <= k + BufSize
      BY <3>1
    <3> HIDE DEF k
    <3>4. [c EXCEPT !.rread = k] \in Good(next_id_[s])
      BY <3>2, <3>3
    <3> QED
      BY <3>4 DEF k
  <2> HIDE DEF e
  <2>4. SocketsType'
    BY <1>1, <2>1, <2>2, <2>3, SetTcbType
  <2>5. CallsType'
    <3>1. CASE Return(t)
      BY <1>1, <3>1, ReturnType
    <3>2. CASE pc' = [pc EXCEPT ![t] = Ready] /\ UNCHANGED prog
      <4>1. Ready \in Place(next_id_[s])
        BY <2>2 DEF Ready, Place, States, IdsType
      <4>2. PcType'
        BY <1>1, <3>2, <4>1 DEF CallsType, PcType
      <4> QED
        BY <3>2, <4>2 DEF CallsType, ProgType, InCallType, PcType, Ready, Arg
    <3> QED
      BY <2>1, <3>1, <3>2
  <2> QED
    BY <1>1, <2>4, <2>5, OnlyBlockType
<1> QED
  BY <1>2, <1>3

\* close_connection looks at the state,
LEMMA CloseCheckType ==
  ASSUME TypeInv, NEW t \in Thread, prog[t] # <<>>, CloseCheck(t)
  PROVE  TypeInv'
<1> USE DEF TypeInv, StackType, TablesType, AppType
<1> DEFINE s == Home[t]
           id == Mine(t)
<1>1. s \in Stack /\ Arg(t).op = "close" /\ Arg(t).o \in Own(t)
  BY CurrentCall, CallFields DEF CloseCheck, Starts, CallsType, Arg
<1>2. OnlyThread /\ UNCHANGED next_id_ /\ Grow
  BY SameIds DEF CloseCheck, OnlyThread, stackVars, tables
<1>3. id \in 0 .. next_id_'[s] - 1
  BY <1>1, <1>2, MineType
<1> HIDE DEF id
<1>4. /\ [at |-> "flush", id |-> id, to |-> "FIN_WAIT_1"] \in Place(next_id_'[s])
      /\ [at |-> "flush", id |-> id, to |-> "LAST_ACK"] \in Place(next_id_'[s])
      /\ [at |-> "abort", id |-> id, to |-> "CLOSED"] \in Place(next_id_'[s])
  BY <1>3 DEF Place, States
<1>5. CallAt("flush") = "close" /\ CallAt("abort") = "close"
  BY DEF CallAt
<1>6. \/ Return(t)
      \/ Goto(t, "flush", id, "FIN_WAIT_1") \/ Goto(t, "flush", id, "LAST_ACK")
      \/ Goto(t, "abort", id, "CLOSED")
  BY DEF CloseCheck, id
<1>7. CallsType'
  BY <1>1, <1>2, <1>4, <1>5, <1>6, ReturnType, GotoType
<1> QED
  BY <1>2, <1>7, OnlyThreadType

\* close goes on to its next step.
LEMMA CloseGoesOn ==
  ASSUME TypeInv, NEW t \in Thread, prog[t] # <<>>, UNCHANGED next_id_,
         pc[t].at \in {"flush", "wake", "mark", "fin"},
         NEW at \in {"wake", "mark", "fin", "bump"},
         at \in {"wake", "mark"} => pc[t].at \in {"flush", "wake"},
         Goto(t, at, pc[t].id, pc[t].to)
  PROVE  CallsType' /\ Grow /\ Home[t] \in Stack
<1> USE DEF TypeInv, StackType, TablesType, AppType
<1>1. Grow
  BY SameIds
<1>2. pc[t] \in Place(next_id_'[Home[t]])
  BY DEF CallsType, PcType
<1>3. [at |-> at, id |-> pc[t].id, to |-> pc[t].to] \in Place(next_id_'[Home[t]])
  BY <1>2 DEF Place
<1>4. Arg(t).op = "close" /\ CallAt(at) = "close"
  BY DEF CallsType, InCallType, CallAt
<1> QED
  BY <1>1, <1>3, <1>4, GotoType, CurrentCall DEF CallsType

\* flushes,
LEMMA CloseFlushType ==
  ASSUME TypeInv, NEW t \in Thread, prog[t] # <<>>, CloseFlush(t)
  PROVE  TypeInv'
<1> USE DEF TypeInv, StackType, TablesType, AppType
<1>1. CallsType' /\ Grow /\ Home[t] \in Stack
  BY CloseGoesOn DEF CloseFlush
<1>2. SocketsType' /\ DirtyType' /\ LinksType'
  BY <1>1, ProcessBlockType DEF CloseFlush
<1> QED
  BY <1>1, <1>2, Kept DEF CloseFlush, daemonState, PortType, Grow

\* wakes the waiting threads and sets the state,
LEMMA CloseWakeType ==
  ASSUME TypeInv, NEW t \in Thread, prog[t] # <<>>, CloseWake(t) \/ CloseMark(t)
  PROVE  TypeInv'
<1> USE DEF TypeInv, StackType, TablesType, AppType
<1> DEFINE s == Home[t]
           id == pc[t].id
           c == sockets_[s][id]
           d == [c EXCEPT !.state = pc[t].to]
<1>0. OnlyBlock /\ UNCHANGED next_id_ /\ Live(s, id)
  BY DEF CloseWake, CloseMark, OnlyBlock
<1>1. CallsType' /\ Grow /\ Home[t] \in Stack
  BY <1>0, CloseGoesOn DEF CloseWake, CloseMark
<1>2. c \in Good(next_id_[s]) /\ pc[t].to \in States
  BY <1>0, <1>1, Found DEF CallsType, PcType, Place
<1>3. SetTcb(s, id, Closing(c)) \/ SetTcb(s, id, d)
  BY <1>0, <1>1 DEF CloseWake, CloseMark, SetTcb, SocketsType, Live
<1>4. Closing(c) \in Good(next_id_[s])
  <2> HIDE DEF c
  <2> QED
    BY <1>2 DEF Closing, Good, Block, States
<1>5. d \in Good(next_id_[s])
  <2> HIDE DEF c
  <2> QED
    BY <1>2, Updated
<1> HIDE DEF c, d
<1>6. SocketsType'
  BY <1>0, <1>1, <1>3, <1>4, <1>5, SetTcbType
<1> QED
  BY <1>0, <1>1, <1>6, OnlyBlockType

\* sends the FIN,
LEMMA CloseFinType ==
  ASSUME TypeInv, NEW t \in Thread, prog[t] # <<>>, CloseFin(t)
  PROVE  TypeInv'
<1> USE DEF TypeInv, StackType, TablesType, AppType
<1> DEFINE s == Home[t]
           c == sockets_[s][pc[t].id]
<1>0. /\ pc[t].at = "fin" /\ Live(s, pc[t].id) /\ write_packet_(s, Control(c, {"FIN", "ACK"}, c.nxt, c.rnxt))
      /\ Goto(t, "bump", pc[t].id, pc[t].to)
      /\ UNCHANGED <<sockets_, next_id_, listeners_, connections_, dirty_socket_ids_>>
      /\ UNCHANGED <<daemon, writing, next_port, socket_id>>
  BY DEF CloseFin, tables, daemonState
<1>1. CallsType' /\ Grow /\ Home[t] \in Stack
  BY <1>0, CloseGoesOn
<1>2. c \in Good(next_id_[s])
  BY <1>0, <1>1, Found
<1>3. Control(c, {"FIN", "ACK"}, c.nxt, c.rnxt) \in Segment
  <2> HIDE DEF c
  <2> QED
    BY <1>2, ReplyOf
<1>4. LinksType'
  BY <1>0, <1>1, <1>3, WriteType
<1> QED
  BY <1>0, <1>1, <1>4, Kept DEF PortType, Grow

\* counts it,
LEMMA CloseBumpType ==
  ASSUME TypeInv, NEW t \in Thread, prog[t] # <<>>, CloseBump(t)
  PROVE  TypeInv'
<1> USE DEF TypeInv, StackType, TablesType, AppType
<1> DEFINE s == Home[t]
           id == pc[t].id
           c == sockets_[s][id]
           d == [c EXCEPT !.nxt = Add(@, 1)]
<1>1. OnlyBlock /\ UNCHANGED next_id_ /\ Grow /\ s \in Stack
  BY SameIds, CurrentCall DEF CloseBump, OnlyBlock, CallsType
<1>2. CallsType'
  BY <1>1, ReturnType DEF CloseBump
<1>3. CASE Live(s, id)
  <2>1. c \in Good(next_id_[s])
    BY <1>1, <1>3, Found
  <2>2. SetTcb(s, id, d)
    BY <1>1, <1>3 DEF CloseBump, SetTcb, SocketsType, Live
  <2>3. d \in Good(next_id_[s])
    <3> HIDE DEF c
    <3>1. c.nxt \in Int /\ 1 \in Int
      BY <2>1, SeqNumInt DEF Good, Block
    <3> QED
      BY <2>1, <3>1, AddType, Updated
  <2> HIDE DEF d
  <2> QED
    BY <1>1, <1>2, <2>2, <2>3, SetTcbType, OnlyBlockType
<1>4. CASE ~ Live(s, id)
  BY <1>1, <1>2, <1>4, Kept, OnlyBlockType DEF CloseBump
<1> QED
  BY <1>3, <1>4

\* or gives the connection up.
LEMMA CloseAbortType ==
  ASSUME TypeInv, NEW t \in Thread, prog[t] # <<>>, CloseAbort(t)
  PROVE  TypeInv'
<1> USE DEF TypeInv, StackType, TablesType, AppType
<1> DEFINE s == Home[t]
           id == pc[t].id
           c == sockets_[s][id]
<1>1. UNCHANGED next_id_ /\ Grow /\ s \in Stack /\ Live(s, id)
  BY SameIds, CurrentCall DEF CloseAbort, CallsType
<1>2. c \in Good(next_id_[s])
  BY <1>1, Found
<1>3. Closing(c) \in Good(next_id_[s])
  <2> HIDE DEF c
  <2> QED
    BY <1>2 DEF Closing, Good, Block, States
<1>4. SocketsType' /\ RoutesType'
  <2>1. DestroyConnection(s, id, Closing(c), c.src, c.dst)
    BY DEF CloseAbort
  <2> QED
    BY <1>1, <1>3, <2>1, DestroyType
<1>5. CallsType'
  BY <1>1, ReturnType DEF CloseAbort
<1> QED
  BY <1>1, <1>4, <1>5, Kept DEF CloseAbort, links, daemonState, LinksType, PortType, Grow

\* The destructor clears the flag of the daemon,
LEMMA StopType ==
  ASSUME TypeInv, NEW t \in Thread, prog[t] # <<>>, StopCall(t)
  PROVE  TypeInv'
<1> USE DEF TypeInv, StackType, TablesType, AppType
<1> DEFINE s == Home[t]
           d == [daemon[s] EXCEPT !.running = FALSE]
<1>1. UNCHANGED next_id_ /\ Grow /\ s \in Stack /\ Arg(t).op = "stop"
  BY SameIds, CurrentCall DEF StopCall, Starts, Arg, CallsType, tables
<1>2. d \in Loop(next_id_'[s])
  <2> DEFINE e == daemon[s]
  <2>1. e \in Loop(next_id_'[s])
    BY <1>1 DEF DaemonType
  <2> HIDE DEF e
  <2>2. [e EXCEPT !.running = FALSE] \in Loop(next_id_'[s])
    BY <2>1 DEF Loop
  <2> QED
    BY <2>2 DEF e
<1>3. daemon' = [daemon EXCEPT ![s] = d]
  BY <1>1 DEF StopCall, DaemonType
<1> HIDE DEF d
<1>4. DaemonType'
  BY <1>1, <1>2, <1>3, DaemonSet
<1>5. CallsType'
  <2>1. [at |-> "joining", id |-> 0, to |-> "CLOSED"] \in Place(next_id_'[s])
    BY <1>1 DEF Place, States, IdsType
  <2> QED
    BY <1>1, <2>1, GotoType DEF StopCall, CallAt
<1> QED
  BY <1>1, <1>4, <1>5, Kept DEF StopCall, tables, links, LinksType, PortType, Grow

\* and clears the tables when it has joined it.
LEMMA JoinType ==
  ASSUME TypeInv, NEW t \in Thread, prog[t] # <<>>, Join(t)
  PROVE  TypeInv'
<1> USE DEF TypeInv, StackType, TablesType, AppType
<1> DEFINE s == Home[t]
<1>1. UNCHANGED next_id_ /\ Grow /\ s \in Stack
  BY SameIds, CurrentCall DEF Join, CallsType
<1>2. SocketsType' /\ RoutesType'
  BY <1>1, EmptyTables, SocketsSet, RoutesSet DEF Join
<1>3. ListenersType'
  BY <1>1, EmptyTables DEF Join, ListenersType
<1>4. DirtyType' /\ LinksType'
  BY <1>1, EmptySeq DEF Join, DirtyType, LinksType
<1>5. CallsType'
  BY <1>1, ReturnType DEF Join
<1> QED
  BY <1>1, <1>2, <1>3, <1>4, <1>5, Kept DEF Join, daemonState, PortType, Grow

\* The tests' crash.
LEMMA CrashType ==
  ASSUME TypeInv, NEW t \in Thread, prog[t] # <<>>, simulate_node_crash(t)
  PROVE  TypeInv'
<1> USE DEF TypeInv, StackType, TablesType, AppType
<1> DEFINE s == Home[t]
           c == sockets_[s][Mine(t)]
<1>1. UNCHANGED next_id_ /\ Grow /\ s \in Stack
  BY SameIds, CurrentCall DEF simulate_node_crash, CallsType
<1>2. RoutesType'
  <2>1. CASE UNCHANGED connections_
    BY <1>1, <2>1, Kept
  <2>2. CASE connections_' = [connections_ EXCEPT ![s] = Remove(@, <<c.dst, c.src>>)]
    <3>1. IdTable(Remove(connections_[s], <<c.dst, c.src>>), Addr \X Addr, next_id_'[s])
      BY <1>1, IdRemove DEF RoutesType
    <3> QED
      BY <1>1, <2>2, <3>1, RoutesSet
  <2> QED
    BY <2>1, <2>2 DEF simulate_node_crash
<1>3. CallsType'
  BY <1>1, ReturnType DEF simulate_node_crash
<1> QED
  BY <1>1, <1>2, <1>3, Kept DEF simulate_node_crash, links, daemonState, LinksType, PortType, Grow

-----------------------------------------------------------------------------
(* Every behaviour is well typed.                                           *)

\* The types hold initially,
LEMMA TypeInit ==
  ASSUME Init
  PROVE  TypeInv
<1>1. IdsType
  BY DEF Init, StackInit, IdsType
<1>2. SocketsType /\ ListenersType /\ RoutesType
  BY EmptyTables DEF Init, StackInit, SocketsType, ListenersType, RoutesType
<1>3. DirtyType /\ LinksType
  BY EmptySeq DEF Init, StackInit, DirtyType, LinksType
<1>4. WritingType
  BY <1>1, EmptySeq DEF Init, StackInit, WritingType, Writing, NoWrite, IdsType
<1>5. DaemonType
  BY EmptySeq DEF Init, StackInit, DaemonType, Loop
<1>6. PortType /\ ObjType
  BY PortAssumption, HomeAssumption DEF Init, StackInit, PortType, ObjType
<1>7. ProgType
  BY ScenarioAssumption DEF Init, ProgType
<1>8. PcType
  BY <1>1, HomeAssumption DEF Init, PcType, Place, Ready, States, IdsType
<1>9. InCallType
  BY DEF Init, InCallType, Ready
<1> QED
  BY <1>1, <1>2, <1>3, <1>4, <1>5, <1>6, <1>7, <1>8, <1>9
     DEF TypeInv, StackType, TablesType, AppType, CallsType

\* and every step keeps them.
LEMMA TypeStep ==
  ASSUME TypeInv, [Next]_vars
  PROVE  TypeInv'
<1>1. CASE StackNext /\ UNCHANGED app
  <2>1. StackType' /\ DaemonType' /\ Grow
    BY <1>1, StackStepType DEF TypeInv
  <2>2. AppType'
    BY <1>1, <2>1, Kept DEF TypeInv, StackType, TablesType, AppType, CallsType, app, PortType,
                            ProgType, InCallType, Arg
  <2> QED
    BY <2>1, <2>2 DEF TypeInv
<1>2. CASE \E t \in Thread : ThreadStep(t)
  BY <1>2, BindType, ListenType, RegisterRouteType, ConnectRegisterType, ConnectOpenType,
     ConnectReturnType, AcceptCallType, AcceptReturnType, ParkType, SendType, RecvType,
     CloseCheckType, CloseFlushType, CloseWakeType, CloseFinType, CloseBumpType, CloseAbortType,
     StopType, JoinType, CrashType DEF ThreadStep
<1>3. CASE UNCHANGED vars
  <2>1. UNCHANGED <<next_port, socket_id, prog, pc>> /\ OnlyThread
    BY <1>3 DEF vars, app, OnlyThread
  <2>2. UNCHANGED next_id_ /\ Grow
    BY <2>1, SameIds DEF TypeInv, StackType, TablesType, OnlyThread, stackVars, tables
  <2>3. CallsType'
    BY <2>1, <2>2, Kept DEF TypeInv, StackType, TablesType, AppType, CallsType, ProgType, InCallType, Arg
  <2> QED
    BY <2>1, <2>3, OnlyThreadType
<1> QED
  BY <1>1, <1>2, <1>3 DEF Next

\* The invariant gives the run's type invariant.
LEMMA TypeInvGivesTypeOK ==
  ASSUME TypeInv
  PROVE  TypeOK
<1> USE DEF TypeInv, StackType, TablesType, AppType
<1> SUFFICES ASSUME NEW s \in Stack
             PROVE  LET Id == 1 .. next_id_[s] - 1 IN
                    /\ DOMAIN sockets_[s] \subseteq Id
                    /\ \A id \in DOMAIN sockets_[s] :
                         LET c == sockets_[s][id] IN
                         /\ c.state \in States
                         /\ {c.una, c.nxt, c.iss, c.rnxt} \subseteq SeqNum
                         /\ c.wnd \in 0..BufSize /\ c.slen \in 0..BufSize
                         /\ Buffered(c) \in 0..BufSize
                         /\ \A i \in DOMAIN c.accept_queue : c.accept_queue[i] \in Id
                    /\ \A key \in DOMAIN connections_[s] : connections_[s][key] \in Id
                    /\ \A port \in DOMAIN listeners_[s] : listeners_[s][port] \in Id
                    /\ \A o \in Obj : Home[o] = s => socket_id[o] \in Id \cup {0}
                    /\ \A i \in DOMAIN dirty_socket_ids_[s] : dirty_socket_ids_[s][i] \in Id
  BY DEF TypeOK
<1> DEFINE Id == 1 .. next_id_[s] - 1
<1>1. DOMAIN sockets_[s] \subseteq Id
  BY DEF SocketsType, SocketTable
<1>2. \A id \in DOMAIN sockets_[s] :
        LET c == sockets_[s][id] IN
        /\ c.state \in States
        /\ {c.una, c.nxt, c.iss, c.rnxt} \subseteq SeqNum
        /\ c.wnd \in 0..BufSize /\ c.slen \in 0..BufSize
        /\ Buffered(c) \in 0..BufSize
        /\ \A i \in DOMAIN c.accept_queue : c.accept_queue[i] \in Id
  <2> SUFFICES ASSUME NEW id \in DOMAIN sockets_[s], NEW c, c = sockets_[s][id]
               PROVE  /\ c.state \in States
                      /\ {c.una, c.nxt, c.iss, c.rnxt} \subseteq SeqNum
                      /\ c.wnd \in 0..BufSize /\ c.slen \in 0..BufSize
                      /\ Buffered(c) \in 0..BufSize
                      /\ \A i \in DOMAIN c.accept_queue : c.accept_queue[i] \in Id
    OBVIOUS
  <2>1. c \in Good(next_id_[s])
    BY Found DEF Live
  <2>2. c.accept_queue \in Seq(Id)
    BY <2>1 DEF Good, Block
  <2>3. \A i \in DOMAIN c.accept_queue : c.accept_queue[i] \in Id
    BY <2>2, WithoutType
  <2> QED
    BY <2>1, <2>3, FreeWndType DEF Good, Block
<1>3. /\ \A key \in DOMAIN connections_[s] : connections_[s][key] \in Id
      /\ \A port \in DOMAIN listeners_[s] : listeners_[s][port] \in Id
  BY DEF RoutesType, ListenersType, IdTable
<1>4. \A o \in Obj : Home[o] = s => socket_id[o] \in Id \cup {0}
  BY DEF ObjType, IdsType
<1>5. \A i \in DOMAIN dirty_socket_ids_[s] : dirty_socket_ids_[s][i] \in Id
  <2>1. dirty_socket_ids_[s] \in Seq(Id)
    BY DEF DirtyType
  <2> QED
    BY <2>1, WithoutType
<1> QED
  BY <1>1, <1>2, <1>3, <1>4, <1>5

\* The types hold always.
LEMMA AlwaysTyped == Spec => []TypeInv
<1>1. Init => TypeInv
  BY TypeInit
<1>2. TypeInv /\ [Next]_vars => TypeInv'
  BY TypeStep
<1> QED
  BY <1>1, <1>2, PTL DEF Spec

\* Whatever calls the threads make and whatever the network does: every socket id
\* in a table, a queue or a TcpSocket is one the SocketTable has handed out, every
\* buffer is within its capacity and every sequence number within its width.
THEOREM SocketsTyped == Spec => []TypeOK
  BY AlwaysTyped, TypeInvGivesTypeOK, PTL

-----------------------------------------------------------------------------
(* What the code leaves to its callers.  Each contract is a condition on a   *)
(* call at the moment a thread makes it.                                    *)

Calling(t) == pc[t] = Ready /\ ThreadStep(t)

\* A socket is reached by the route of its own 4-tuple (f: the sockets, g: the
\* routes of a stack).
Reaches(f, g, id) ==
    LET key == <<f[id].dst, f[id].src>> IN id \in DOMAIN f /\ key \in DOMAIN g /\ g[key] = id
Routed(s, id) == Reaches(sockets_[s], connections_[s], id)

\* The block of socket id of stack s is in the hands of a call in one of places.
Handled(s, id, places) ==
    \E u \in Thread : Home[u] = s /\ pc[u].id = id /\ pc[u].at \in places

\* Ports below the ephemeral range are for servers, and only a socket without a
\* block calls out.
SeparatePorts(t) ==
    /\ Arg(t).op = "bind" => Arg(t).addr[2] < BasePort
    /\ Arg(t).op = "connect" => ~ Live(Home[t], Mine(t))

\* A connection is opened on a CLOSED socket that has no route, to a peer no other
\* socket of the same address is connected to; a connection does not listen, and
\* only connections are closed.  The tests' crash is left out.
SingleRoutes(t) ==
    LET s == Home[t]
        id == Mine(t)
    IN
    /\ Arg(t).op # "crash"
    /\ Arg(t).op = "bind" => Arg(t).addr[2] < BasePort
    /\ Arg(t).op \in {"register", "connect"} /\ Live(s, id) =>
         /\ sockets_[s][id].state = "CLOSED" /\ ~ Routed(s, id)
         /\ FindConnection(s, Arg(t).addr, sockets_[s][id].src) = 0
    /\ Arg(t).op = "listen" => ~ Routed(s, id)
    /\ Arg(t).op = "close" /\ Live(s, id) => Routed(s, id)

\* A socket is not connected while another thread connects or closes it, or once
\* it has been, and not closed while another thread is about to send its SYN.
SingleOpener(t) ==
    LET s == Home[t]
        id == Mine(t)
    IN
    /\ Arg(t).op = "connect" /\ Live(s, id) =>
         /\ sockets_[s][id].state \in {"CLOSED", "LISTEN"}
         /\ ~ Handled(s, id, {"opening", "flush", "wake", "mark", "abort"})
    /\ Arg(t).op = "close" /\ Live(s, id) => ~ Handled(s, id, {"opening"})

-----------------------------------------------------------------------------
(* The inductive invariants.                                                *)

\* The ports in use have been passed by the counter (h: the listeners).
Below(f, h, n) ==
    (\A id \in DOMAIN f : f[id].src[2] < n) /\ (\A port \in DOMAIN h : port < n)
\* A route to a socket is the route of that socket's 4-tuple.
Exact(f, g) ==
    \A key \in DOMAIN g : g[key] \in DOMAIN f => key = <<f[g[key]].dst, f[g[key]].src>>
\* A socket that has been opened has its route, a listening one has none.
Right(f, g) ==
    \A id \in DOMAIN f : /\ f[id].state \notin {"CLOSED", "LISTEN"} => Reaches(f, g, id)
                         /\ f[id].state = "LISTEN" => ~ Reaches(f, g, id)
TablesRouted ==
    \A s \in Stack : /\ Below(sockets_[s], listeners_[s], next_port)
                     /\ Exact(sockets_[s], connections_[s])
                     /\ Right(sockets_[s], connections_[s])
\* A call that opens or closes a connection has a route to it.
CallsRouted ==
    \A t \in Thread :
      pc[t].at \in {"opening", "flush", "wake", "mark", "abort"} /\ Live(Home[t], pc[t].id) =>
        Routed(Home[t], pc[t].id)
RouteInv == TablesRouted /\ CallsRouted

\* Child id waits at place i of listener l's queue, or TcpSocket o of stack s
\* stands for it (f: the sockets of s, x: the objects' ids).
Waits(f, l, i, id) ==
    l \in DOMAIN f /\ i \in DOMAIN f[l].accept_queue /\ f[l].accept_queue[i] = id
Held(s, x, o, id) == Home[o] = s /\ x[o] = id
Unclaimed(s, f, x, id) ==
    /\ \A l \in DOMAIN f : \A i \in DOMAIN f[l].accept_queue : ~ Waits(f, l, i, id)
    /\ \A o \in Obj : ~ Held(s, x, o, id)
OneClaim(s, f, x, id) ==
    /\ \A l, m \in DOMAIN f : \A i \in DOMAIN f[l].accept_queue, j \in DOMAIN f[m].accept_queue :
         Waits(f, l, i, id) /\ Waits(f, m, j, id) => l = m /\ i = j
    /\ \A o, u \in Obj : Held(s, x, o, id) /\ Held(s, x, u, id) => o = u
    /\ \A l \in DOMAIN f : \A i \in DOMAIN f[l].accept_queue : \A o \in Obj :
         ~ (Waits(f, l, i, id) /\ Held(s, x, o, id))
\* An ephemeral port that was given to a connection: no socket listens at it
\* (h: the listeners of s, n: the next port).
Dedicated(h, n, port) == BasePort <= port /\ port < n /\ port \notin DOMAIN h
\* Nobody has a child before its handshake is over, and one place has it then.
\* A connection that calls out is no child: nothing listens at its port.
Settled(s, f, h, n, x) ==
    /\ \A port \in DOMAIN h : port < n
    /\ \A id \in DOMAIN f :
         /\ OneClaim(s, f, x, id)
         /\ f[id].state \in Opening => Unclaimed(s, f, x, id) \/ Dedicated(h, n, f[id].src[2])
QueuesSettled == \A s \in Stack : Settled(s, sockets_[s], listeners_[s], next_port, socket_id)
CallersDedicated ==
    \A t \in Thread : pc[t].at = "opening" /\ Live(Home[t], pc[t].id) =>
      Dedicated(listeners_[Home[t]], next_port, sockets_[Home[t]][pc[t].id].src[2])
QueueInv == QueuesSettled /\ CallersDedicated

OpenInv ==
    \A t \in Thread : pc[t].at = "opening" /\ Live(Home[t], pc[t].id) =>
      /\ sockets_[Home[t]][pc[t].id].state \in {"CLOSED", "LISTEN"}
      /\ \A u \in Thread : u # t /\ Home[u] = Home[t] /\ pc[u].id = pc[t].id =>
           pc[u].at \notin {"opening", "flush", "wake", "mark", "abort"}

-----------------------------------------------------------------------------
(* What the daemon does to the tables of its stack is one of five things.   *)

\* A block changes in place: it stays at its addresses, keeps its accept queue,
\* and its state changes as the handlers let it.
Follows(c, d) ==
    /\ d.src = c.src /\ d.dst = c.dst /\ d.accept_queue = c.accept_queue
    /\ \/ d.state = c.state
       \/ c.state = "SYN_SENT" /\ d.state \in {"SYN_RECEIVED", "ESTABLISHED", "CLOSED"}
       \/ /\ c.state \in Synchronized \ Opening
          /\ d.state \in {"FIN_WAIT_2", "CLOSE_WAIT", "CLOSING", "CLOSED"}
Updates(s) ==
    /\ UNCHANGED <<next_id_, connections_>>
    /\ \/ UNCHANGED sockets_
       \/ \E id \in DOMAIN sockets_[s], d \in Good(next_id_[s]) :
            Follows(sockets_[s][id], d) /\ SetTcb(s, id, d)
\* A SYN opens a connection.
Spawns(s) ==
    \E p \in Segment, iss \in ISN :
      LET id == FindConnection(s, p.src, p.dst) IN
      /\ id # 0 => sockets_[s][id].state = "LISTEN"
      /\ FindListener(s, p.dst[2]) # 0
      /\ sockets_' = [sockets_ EXCEPT ![s] = Put(@, next_id_[s], Child(p, iss))]
      /\ connections_' = [connections_ EXCEPT ![s] = Put(@, <<p.src, p.dst>>, next_id_[s])]
      /\ next_id_' = [next_id_ EXCEPT ![s] = @ + 1]
\* A handshake ends.
Enqueues(s) ==
    \E id \in DOMAIN sockets_[s], d \in Good(next_id_[s]) :
      LET c == sockets_[s][id]
          l == FindListener(s, c.src[2])
          stored == [sockets_[s] EXCEPT ![id] = d]
      IN
      /\ c.state = "SYN_RECEIVED" /\ d.state = "ESTABLISHED"
      /\ d.src = c.src /\ d.dst = c.dst /\ d.accept_queue = c.accept_queue
      /\ sockets_' = [sockets_ EXCEPT ![s] =
           IF l = 0 THEN stored ELSE [stored EXCEPT ![l].accept_queue = Append(@, id)]]
      /\ UNCHANGED <<next_id_, connections_>>
\* A handshake is reset.
Resets(s) ==
    \E p \in Segment :
      LET id == FindConnection(s, p.src, p.dst) IN
      /\ id # 0
      /\ sockets_' = [sockets_ EXCEPT ![s] = Remove(@, id)]
      /\ connections_' = [connections_ EXCEPT ![s] = Remove(@, <<p.src, sockets_[s][id].src>>)]
      /\ UNCHANGED next_id_
\* A connection ends.
Destroys(s) ==
    \E id \in DOMAIN sockets_[s], d \in Good(next_id_[s]) :
      LET c == sockets_[s][id] IN
      /\ c.state \in Synchronized \ Opening
      /\ Follows(c, d) /\ DestroyConnection(s, id, d, c.src, c.dst)
      /\ UNCHANGED next_id_
Shape(s) == Updates(s) \/ Spawns(s) \/ Enqueues(s) \/ Resets(s) \/ Destroys(s)

\* process_block_ updates a block.
LEMMA ProcessBlockShape ==
  ASSUME StackType, NEW s \in Stack, NEW id, process_block_(s, id), UNCHANGED <<next_id_, connections_>>
  PROVE  Updates(s)
<1>1. CASE UNCHANGED sockets_
  BY <1>1 DEF Updates
<1>2. CASE ~ UNCHANGED sockets_
  <2> DEFINE c == sockets_[s][id]
             n == Sendable(c)
             d == [c EXCEPT !.nxt = Add(@, n)]
  <2>1. Live(s, id) /\ SetTcb(s, id, d)
    BY <1>2 DEF process_block_
  <2>2. c \in Good(next_id_[s])
    BY <2>1, Found DEF StackType, TablesType
  <2> HIDE DEF c, n
  <2>3. c.nxt \in Int /\ n \in Int
    <3>1. n \in Nat
      BY <2>2, SendableType DEF n
    <3> QED
      BY <2>2, <3>1, SeqNumInt DEF Good, Block
  <2>4. Add(c.nxt, n) \in SeqNum
    BY <2>3, AddType
  <2>5. d \in Good(next_id_[s])
    BY <2>2, <2>4, Updated
  <2>6. Follows(c, d)
    BY <2>2 DEF Follows, Good, Block
  <2> HIDE DEF d
  <2> QED
    BY <2>1, <2>5, <2>6 DEF Updates, Live, c
<1> QED
  BY <1>1, <1>2

\* So does a handler that stores one.
LEMMA StoreShape ==
  ASSUME NEW s, NEW id, Live(s, id), NEW d \in Good(next_id_[s]), Follows(sockets_[s][id], d),
         NEW p, Store(s, id, d) \/ StoreAndReply(s, id, d, p)
  PROVE  Updates(s)
  BY DEF Updates, Store, StoreAndReply, Live

\* An answer without a block changes no table.
LEMMA ClosedResetShape ==
  ASSUME NEW s, NEW p, handle_closed_reset_response_(s, p)
  PROVE  Updates(s)
  BY DEF Updates, handle_closed_reset_response_, Ignore

\* A SYN at a listener spawns a child.
LEMMA PassiveOpenShape ==
  ASSUME StackType, NEW s \in Stack, NEW p \in Segment, handle_passive_open_syn_(s, p),
         FindConnection(s, p.src, p.dst) # 0 =>
           sockets_[s][FindConnection(s, p.src, p.dst)].state = "LISTEN"
  PROVE  Updates(s) \/ Spawns(s)
<1>1. CASE Ignore
  BY <1>1 DEF Updates, Ignore
<1>2. CASE ~ Ignore
  <2>1. PICK iss \in ISN :
          /\ sockets_' = [sockets_ EXCEPT ![s] = Put(@, next_id_[s], Child(p, iss))]
          /\ connections_' = [connections_ EXCEPT ![s] = Put(@, <<p.src, p.dst>>, next_id_[s])]
          /\ next_id_' = [next_id_ EXCEPT ![s] = @ + 1]
    BY <1>2 DEF handle_passive_open_syn_
  <2>2. FindListener(s, p.dst[2]) # 0
    BY <1>2 DEF handle_passive_open_syn_, OpensPassively
  <2> QED
    BY <2>1, <2>2 DEF Spawns
<1> QED
  BY <1>1, <1>2

\* SYN_SENT updates the block.
LEMMA SynSentShape ==
  ASSUME StackType, NEW s \in Stack, NEW id, Live(s, id), NEW p \in Segment,
         sockets_[s][id].state = "SYN_SENT", handle_syn_sent_state_(s, id, p)
  PROVE  Updates(s)
<1> DEFINE c == sockets_[s][id]
           d1 == [Opened(c, p) EXCEPT !.una = p.ack, !.state = "ESTABLISHED"]
           d2 == [Opened(c, p) EXCEPT !.state = "SYN_RECEIVED"]
           d3 == [c EXCEPT !.state = "CLOSED"]
<1>1. c \in Good(next_id_[s]) /\ p.ack \in SeqNum /\ c.state = "SYN_SENT"
  BY Found, SegmentFields DEF StackType, TablesType
<1>3. \/ Ignore
      \/ Store(s, id, d3)
      \/ StoreAndReply(s, id, c, Control(c, {"RST"}, p.ack, 0))
      \/ StoreAndReply(s, id, d1, Control(d1, {"ACK"}, d1.nxt, d1.rnxt))
      \/ StoreAndReply(s, id, d2, Control(d2, {"SYN", "ACK"}, d2.iss, d2.rnxt))
  BY DEF handle_syn_sent_state_
<1>4. Opened(c, p) \in Good(next_id_[s])
  BY <1>1, HandledType
<1>5. d1 \in Good(next_id_[s]) /\ d2 \in Good(next_id_[s]) /\ d3 \in Good(next_id_[s])
  <2> HIDE DEF c
  <2> QED
    BY <1>1, <1>4, Updated DEF States
<1>6. Follows(c, c) /\ Follows(c, d1) /\ Follows(c, d2) /\ Follows(c, d3)
  <2> HIDE DEF c
  <2> QED
    BY <1>1, <1>4 DEF Follows, Opened, Good, Block
<1> HIDE DEF d1, d2, d3
<1>7. Ignore => Updates(s)
  BY DEF Ignore, Updates
<1> QED
  BY <1>1, <1>3, <1>5, <1>6, <1>7, StoreShape

\* SYN_RECEIVED ends the handshake or resets it.
LEMMA SynReceivedShape ==
  ASSUME StackType, NEW s \in Stack, NEW p \in Segment, NEW id, id = FindConnection(s, p.src, p.dst),
         id # 0, Live(s, id), sockets_[s][id].state = "SYN_RECEIVED",
         handle_syn_received_state_(s, id, p)
  PROVE  Updates(s) \/ Enqueues(s) \/ Resets(s)
<1> DEFINE c == sockets_[s][id]
           d == Established(c, p)
           stored == [sockets_[s] EXCEPT ![id] = d]
           l == FindListener(s, c.src[2])
<1>1. c \in Good(next_id_[s])
  BY Found DEF StackType, TablesType
<1>2. \/ /\ sockets_' = [sockets_ EXCEPT ![s] = Remove(@, id)]
         /\ connections_' = [connections_ EXCEPT ![s] = Remove(@, <<p.src, c.src>>)]
         /\ UNCHANGED next_id_
      \/ /\ sockets_' = [sockets_ EXCEPT ![s] =
              IF l = 0 THEN stored ELSE [stored EXCEPT ![l].accept_queue = Append(@, id)]]
         /\ UNCHANGED <<next_id_, connections_>>
      \/ Ignore
  BY DEF handle_syn_received_state_
<1>3. d \in Good(next_id_[s]) /\ d.state = "ESTABLISHED"
      /\ d.src = c.src /\ d.dst = c.dst /\ d.accept_queue = c.accept_queue
  <2> HIDE DEF c
  <2> QED
    BY <1>1, HandledType DEF Established, Good, Block
<1>4. CASE Ignore
  BY <1>4 DEF Ignore, Updates
<1>5. CASE /\ sockets_' = [sockets_ EXCEPT ![s] = Remove(@, id)]
           /\ connections_' = [connections_ EXCEPT ![s] = Remove(@, <<p.src, c.src>>)]
           /\ UNCHANGED next_id_
  BY <1>5 DEF Resets
<1>6. CASE /\ sockets_' = [sockets_ EXCEPT ![s] =
                IF l = 0 THEN stored ELSE [stored EXCEPT ![l].accept_queue = Append(@, id)]]
           /\ UNCHANGED <<next_id_, connections_>>
  <2> HIDE DEF d
  <2> QED
    BY <1>3, <1>6 DEF Enqueues, Live
<1> QED
  BY <1>2, <1>4, <1>5, <1>6

\* ESTABLISHED updates the block.
LEMMA EstablishedShape ==
  ASSUME StackType, NEW s \in Stack, NEW id, Live(s, id), NEW p \in Segment,
         sockets_[s][id].state = "ESTABLISHED", handle_established_state_(s, id, p)
  PROVE  Updates(s)
<1> DEFINE c == sockets_[s][id]
           d == PeerClosed(c, p)
           a == Acknowledge(c, p)
           e == Counted(a, p)
<1>1. c \in Good(next_id_[s]) /\ c.state = "ESTABLISHED"
  BY Found DEF StackType, TablesType
<1>2. \/ StoreAndReply(s, id, d, Control(d, {"ACK"}, d.nxt, d.rnxt))
      \/ SetTcb(s, id, e) /\ UNCHANGED <<next_id_, connections_>>
  BY DEF handle_established_state_
<1> HIDE DEF c
<1>3. d \in Good(next_id_[s]) /\ a \in Good(next_id_[s]) /\ e \in Good(next_id_[s])
  BY <1>1, HandledType
<1>4. Follows(c, d)
  BY <1>1 DEF Follows, PeerClosed, Good, Block, Synchronized, Opening, States
<1>5. a.src = c.src /\ a.dst = c.dst /\ a.accept_queue = c.accept_queue /\ a.state = c.state
  BY <1>1 DEF Acknowledge, Good, Block
<1> HIDE DEF a
<1>6. Follows(c, e)
  BY <1>3, <1>5 DEF Follows, Counted, Good, Block
<1> HIDE DEF d, e
<1>7. CASE StoreAndReply(s, id, d, Control(d, {"ACK"}, d.nxt, d.rnxt))
  BY <1>3, <1>4, <1>7, StoreShape DEF c
<1>8. CASE SetTcb(s, id, e) /\ UNCHANGED <<next_id_, connections_>>
  BY <1>3, <1>6, <1>8 DEF Updates, Live, c
<1> QED
  BY <1>2, <1>7, <1>8

\* The handlers of the closing states.
LEMMA ClosingShape ==
  ASSUME StackType, NEW s \in Stack, NEW id, Live(s, id), NEW p \in Segment,
         sockets_[s][id].state \in {"FIN_WAIT_1", "FIN_WAIT_2", "CLOSING", "LAST_ACK"},
         \/ handle_fin_wait_1_state_(s, id, p) \/ handle_fin_wait_2_state_(s, id, p)
         \/ AwaitLastAck(s, id, p)
  PROVE  Updates(s) \/ Destroys(s)
<1> DEFINE c == sockets_[s][id]
           d1 == [c EXCEPT !.rnxt = PastControl(p)]
           d2 == [c EXCEPT !.rnxt = PastControl(p), !.nxt = IF Has(p, "ACK") THEN p.ack ELSE @]
           e1 == [d1 EXCEPT !.state = "CLOSED"]
           e2 == [d2 EXCEPT !.state = "CLOSED"]
           e3 == [c EXCEPT !.state = "CLOSED"]
           f1 == [c EXCEPT !.state = "FIN_WAIT_2"]
           f2 == [d1 EXCEPT !.state = "CLOSING"]
           reply == Control(d1, {"ACK"}, d1.nxt, d1.rnxt)
<1>1. /\ c \in Good(next_id_[s]) /\ PastControl(p) \in SeqNum /\ p.ack \in SeqNum
      /\ c.state \in Synchronized \ Opening
  BY Found, SegmentFields DEF StackType, TablesType, Synchronized, Opening, States
<1>2. \/ Ignore \/ Store(s, id, f1) \/ StoreAndReply(s, id, f2, reply)
      \/ /\ \/ DestroyConnection(s, id, e1, c.src, c.dst)
            \/ DestroyConnection(s, id, e2, c.src, c.dst)
            \/ DestroyConnection(s, id, e3, c.src, c.dst)
         /\ UNCHANGED next_id_
  BY DEF handle_fin_wait_1_state_, handle_fin_wait_2_state_, AwaitLastAck
<1> HIDE DEF c
<1>3. d1 \in Good(next_id_[s]) /\ d2 \in Good(next_id_[s])
  <2>1. (IF Has(p, "ACK") THEN p.ack ELSE c.nxt) \in SeqNum
    BY <1>1 DEF Good, Block
  <2> QED
    BY <1>1, <2>1, Updated
<1>4. /\ d1.src = c.src /\ d1.dst = c.dst /\ d1.accept_queue = c.accept_queue
      /\ d2.src = c.src /\ d2.dst = c.dst /\ d2.accept_queue = c.accept_queue
  BY <1>1 DEF Good, Block
<1> HIDE DEF d1, d2
<1>5. /\ e1 \in Good(next_id_[s]) /\ e2 \in Good(next_id_[s]) /\ e3 \in Good(next_id_[s])
      /\ f1 \in Good(next_id_[s]) /\ f2 \in Good(next_id_[s])
  BY <1>1, <1>3, Updated DEF States
<1>6. /\ Follows(c, e1) /\ Follows(c, e2) /\ Follows(c, e3)
      /\ Follows(c, f1) /\ Follows(c, f2)
  BY <1>1, <1>3, <1>4 DEF Follows, Good, Block
<1> HIDE DEF e1, e2, e3, f1, f2, reply
<1>7. CASE Ignore
  BY <1>7 DEF Ignore, Updates
<1>8. CASE Store(s, id, f1) \/ StoreAndReply(s, id, f2, reply)
  BY <1>5, <1>6, <1>8, StoreShape DEF c
<1>9. CASE /\ \/ DestroyConnection(s, id, e1, c.src, c.dst)
              \/ DestroyConnection(s, id, e2, c.src, c.dst)
              \/ DestroyConnection(s, id, e3, c.src, c.dst)
           /\ UNCHANGED next_id_
  BY <1>1, <1>5, <1>6, <1>9 DEF Destroys, Live, c
<1> QED
  BY <1>2, <1>7, <1>8, <1>9

\* Every packet has one of the five effects.
LEMMA IncomingShape ==
  ASSUME StackType, NEW s \in Stack, NEW p \in Segment, process_incoming_packet_(s, p)
  PROVE  Shape(s)
<1> DEFINE id == FindConnection(s, p.src, p.dst)
<1>1. id # 0 => Live(s, id)
  BY FoundRoute DEF StackType, TablesType
<1>2. CASE id # 0 /\ Dispatch(s, id, p)
  <2>1. id = FindConnection(s, p.src, p.dst) /\ Live(s, id) /\ id # 0
    BY <1>1, <1>2
  <2> HIDE DEF id
  <2>2. Ignore => Updates(s)
    BY DEF Ignore, Updates
  <2> DEFINE In(st) == sockets_[s][id].state = st
  <2>3. \/ handle_closed_reset_response_(s, p)
        \/ In("LISTEN") /\ handle_passive_open_syn_(s, p)
        \/ In("SYN_SENT") /\ handle_syn_sent_state_(s, id, p)
        \/ In("SYN_RECEIVED") /\ handle_syn_received_state_(s, id, p)
        \/ In("ESTABLISHED") /\ handle_established_state_(s, id, p)
        \/ In("FIN_WAIT_1") /\ handle_fin_wait_1_state_(s, id, p)
        \/ In("FIN_WAIT_2") /\ handle_fin_wait_2_state_(s, id, p)
        \/ In("CLOSING") /\ AwaitLastAck(s, id, p)
        \/ In("LAST_ACK") /\ AwaitLastAck(s, id, p)
        \/ Ignore
    BY <1>2 DEF Dispatch, handle_closing_state_, handle_last_ack_state_
  <2> QED
    BY <2>1, <2>2, <2>3, ClosedResetShape, PassiveOpenShape, SynSentShape, SynReceivedShape,
       EstablishedShape, ClosingShape DEF Shape
<1>3. CASE id = 0
  BY <1>3, ClosedResetShape, PassiveOpenShape DEF process_incoming_packet_, Shape
<1> QED
  BY <1>2, <1>3 DEF process_incoming_packet_

\* A step of the daemons and the network has one of these shapes.
LEMMA StackShape ==
  ASSUME StackType, DaemonType, StackNext
  PROVE  /\ UNCHANGED listeners_
         /\ \E s \in Stack : Shape(s)
<1>1. PICK s \in Stack : lifecycle_(s) \/ LosePacket(s) \/ DuplicatePacket(s)
  BY DEF StackNext
<1>2. UNCHANGED listeners_
  BY <1>1 DEF lifecycle_, PollDirty, process_dirty_blocks_, SwapLoopback, HandlePacket, WritePayload,
              TunRead, Retransmit, EndOfLoop, LosePacket, DuplicatePacket, tables
<1>3. CASE UNCHANGED tables
  BY <1>3 DEF tables, Shape, Updates
<1>4. CASE process_dirty_blocks_(s)
  BY <1>4, ProcessBlockShape DEF process_dirty_blocks_, Shape
<1>5. CASE HandlePacket(s)
  <2>1. daemon[s] \in Loop(next_id_[s]) /\ daemon[s].at = "batch"
    BY <1>5 DEF HandlePacket, At, DaemonType
  <2>2. Head(daemon[s].batch) \in Segment
    BY <2>1, LoopFields, HeadTailProperties
  <2> QED
    BY <1>5, <2>2, IncomingShape DEF HandlePacket
<1>6. CASE WritePayload(s)
  <2> DEFINE id == writing[s].id
             c == sockets_[s][id]
             d == Stored(c, writing[s].data)
  <2>1. /\ Live(s, id) /\ SetTcb(s, id, d) /\ UNCHANGED <<next_id_, connections_>>
    BY <1>6 DEF WritePayload
  <2>2. c \in Good(next_id_[s]) /\ writing[s].data \in Seq(Nat)
    BY <2>1, Found DEF WritingType, Writing, StackType, TablesType
  <2> HIDE DEF c
  <2>3. d \in Good(next_id_[s]) /\ Follows(c, d)
    BY <2>2, StoredType DEF Follows, Stored, Good, Block
  <2> HIDE DEF d
  <2>4. Updates(s)
    BY <2>1, <2>3 DEF Updates, Live, c
  <2> QED
    BY <2>4, <1>2 DEF Shape
<1>7. CASE \E id \in DOMAIN sockets_[s] : Retransmit(s, id)
  <2>1. PICK id \in DOMAIN sockets_[s] : Retransmit(s, id)
    BY <1>7
  <2> DEFINE c == sockets_[s][id]
             d == [c EXCEPT !.attempts = @ + 1]
  <2>2. SetTcb(s, id, d) /\ UNCHANGED <<next_id_, connections_>>
    BY <2>1 DEF Retransmit
  <2>3. c \in Good(next_id_[s])
    BY Found DEF Live, StackType, TablesType
  <2> HIDE DEF c
  <2>4. d \in Good(next_id_[s])
    <3>1. c.attempts + 1 \in Nat
      BY <2>3 DEF Good, Block
    <3>2. \A m \in Nat : [c EXCEPT !.attempts = m] \in Good(next_id_[s])
      BY <2>3 DEF Good, Block
    <3> QED
      BY <3>1, <3>2
  <2>5. Follows(c, d)
    BY <2>3 DEF Follows, Good, Block
  <2> HIDE DEF d
  <2>6. Updates(s)
    BY <2>2, <2>4, <2>5 DEF Updates, c
  <2> QED
    BY <2>6, <1>2 DEF Shape
<1> QED
  BY <1>1, <1>2, <1>3, <1>4, <1>5, <1>6, <1>7
     DEF lifecycle_, PollDirty, SwapLoopback, TunRead, EndOfLoop, LosePacket, DuplicatePacket

-----------------------------------------------------------------------------
(* How single blocks fare in a step.                                        *)

\* Storing, adding, removing a block, read back block by block.
LEMMA AfterSet ==
  ASSUME SocketsType, NEW s \in Stack, NEW id, NEW d, SetTcb(s, id, d)
  PROVE  \A r \in Stack :
           /\ DOMAIN sockets_'[r] = DOMAIN sockets_[r]
           /\ \A j \in DOMAIN sockets_[r] :
                sockets_'[r][j] = IF r = s /\ j = id THEN d ELSE sockets_[r][j]
  BY DEF SetTcb, SocketsType
Added(s, n, d) ==
    \A r \in Stack :
      /\ DOMAIN sockets_'[r] = IF r = s THEN DOMAIN sockets_[r] \cup {n} ELSE DOMAIN sockets_[r]
      /\ \A j \in DOMAIN sockets_'[r] :
           sockets_'[r][j] = IF r = s /\ j = n THEN d ELSE sockets_[r][j]
\* sockets_ after a block was added,
LEMMA AfterPut ==
  ASSUME SocketsType, NEW s \in Stack, NEW n, NEW d, sockets_' = [sockets_ EXCEPT ![s] = Put(@, n, d)]
  PROVE  Added(s, n, d)
  BY DEF Put, SocketsType, Added
\* after one was removed,
LEMMA AfterRemove ==
  ASSUME SocketsType, NEW s \in Stack, NEW n, sockets_' = [sockets_ EXCEPT ![s] = Remove(@, n)]
  PROVE  \A r \in Stack :
           /\ DOMAIN sockets_'[r] = IF r = s THEN DOMAIN sockets_[r] \ {n} ELSE DOMAIN sockets_[r]
           /\ \A j \in DOMAIN sockets_'[r] : sockets_'[r][j] = sockets_[r][j]
  BY DEF Remove, SocketsType
Destroyed(s, id, d, key) ==
    \A r \in Stack :
      /\ DOMAIN sockets_'[r] =
           IF r = s /\ key \in DOMAIN connections_[s]
           THEN DOMAIN sockets_[r] \ {connections_[s][key]} ELSE DOMAIN sockets_[r]
      /\ \A j \in DOMAIN sockets_'[r] :
           sockets_'[r][j] = IF r = s /\ j = id THEN d ELSE sockets_[r][j]
\* and after destroy_connection.
LEMMA AfterDestroy ==
  ASSUME SocketsType, NEW s \in Stack, NEW id, NEW d, NEW remote, NEW local,
         DestroyConnection(s, id, d, remote, local)
  PROVE  Destroyed(s, id, d, <<remote, local>>)
<1> DEFINE key == <<remote, local>>
           x == connections_[s][key]
           stored == [sockets_[s] EXCEPT ![id] = d]
<1>1. CASE key \in DOMAIN connections_[s]
  <2>1. sockets_' = [sockets_ EXCEPT ![s] = Remove(stored, x)]
    BY <1>1 DEF DestroyConnection
  <2> QED
    BY <1>1, <2>1 DEF Remove, SocketsType, Destroyed
<1>2. CASE key \notin DOMAIN connections_[s]
  BY <1>2, AfterSet DEF DestroyConnection, Destroyed
<1> QED
  BY <1>1, <1>2

\* A block after a step of the daemon.
Evolves(c, d) ==
    /\ d.src = c.src /\ d.dst = c.dst
    /\ \/ d.state = c.state
       \/ c.state \in Opening /\ d.state \in {"SYN_RECEIVED", "ESTABLISHED", "CLOSED"}
       \/ /\ c.state \in Synchronized \ Opening
          /\ d.state \in {"FIN_WAIT_2", "CLOSE_WAIT", "CLOSING", "CLOSED"}
\* A block changed by a handler has evolved,
LEMMA FollowsEvolves ==
  ASSUME NEW c, NEW d, Follows(c, d)
  PROVE  Evolves(c, d)
  BY DEF Follows, Evolves, Opening
\* and so has one that was left alone.
LEMMA SameEvolves == \A c : Evolves(c, c)
  BY DEF Evolves

Enqueued(s, id, d, l) ==
    \A r \in Stack :
      /\ DOMAIN sockets_'[r] = DOMAIN sockets_[r]
      /\ \A j \in DOMAIN sockets_[r] :
           LET e == IF r = s /\ j = id THEN d ELSE sockets_[r][j] IN
           /\ sockets_'[r][j].src = e.src /\ sockets_'[r][j].dst = e.dst
           /\ sockets_'[r][j].state = e.state
           /\ sockets_'[r][j].accept_queue =
                IF l # 0 /\ r = s /\ j = l
                THEN Append(sockets_[r][j].accept_queue, id) ELSE sockets_[r][j].accept_queue
\* The end of a handshake touches the child and its listener's queue.
LEMMA EnqueuesBlocks ==
  ASSUME StackType, NEW s \in Stack, NEW id \in DOMAIN sockets_[s], NEW d, NEW l,
         l # 0 => l \in DOMAIN sockets_[s],
         d.accept_queue = sockets_[s][id].accept_queue, d \in Good(next_id_[s]),
         NEW stored, stored = [sockets_[s] EXCEPT ![id] = d],
         sockets_' = [sockets_ EXCEPT ![s] =
           IF l = 0 THEN stored ELSE [stored EXCEPT ![l].accept_queue = Append(@, id)]]
  PROVE  Enqueued(s, id, d, l)
<1>0. DOMAIN sockets_ = Stack /\ \A r \in Stack : \A j \in DOMAIN sockets_[r] : sockets_[r][j] \in Good(next_id_[r])
  BY DEF StackType, TablesType, SocketsType, SocketTable
<1>1. CASE l = 0
  BY <1>0, <1>1 DEF Enqueued
<1>2. CASE l # 0
  <2> DEFINE f == [stored EXCEPT ![l].accept_queue = Append(@, id)]
  <2>1. sockets_' = [sockets_ EXCEPT ![s] = f]
    BY <1>2
  <2>2. DOMAIN stored = DOMAIN sockets_[s]
        /\ \A j \in DOMAIN sockets_[s] : stored[j] = IF j = id THEN d ELSE sockets_[s][j]
    OBVIOUS
  <2>3. \A j \in DOMAIN sockets_[s] : stored[j] \in Good(next_id_[s])
                /\ stored[j].accept_queue = sockets_[s][j].accept_queue
    BY <1>0, <2>2
  <2>4. DOMAIN f = DOMAIN sockets_[s] /\ \A j \in DOMAIN sockets_[s] :
          f[j] = IF j = l THEN [stored[l] EXCEPT !.accept_queue = Append(@, id)] ELSE stored[j]
    BY <1>2, <2>2
  <2>5. \A j \in DOMAIN sockets_[s] :
          /\ f[j].src = stored[j].src /\ f[j].dst = stored[j].dst /\ f[j].state = stored[j].state
          /\ f[j].accept_queue = IF j = l THEN Append(stored[j].accept_queue, id) ELSE stored[j].accept_queue
    <3> HIDE DEF f
    <3>1. \A c \in Good(next_id_[s]) : \A x :
            LET e == [c EXCEPT !.accept_queue = x] IN
            e.src = c.src /\ e.dst = c.dst /\ e.state = c.state /\ e.accept_queue = x
      BY DEF Good, Block
    <3> SUFFICES ASSUME NEW j \in DOMAIN sockets_[s]
                 PROVE  /\ f[j].src = stored[j].src /\ f[j].dst = stored[j].dst /\ f[j].state = stored[j].state
                        /\ f[j].accept_queue = IF j = l THEN Append(stored[j].accept_queue, id)
                                                        ELSE stored[j].accept_queue
      OBVIOUS
    <3>2. CASE j # l
      BY <3>2, <2>4
    <3>3. CASE j = l
      <4> DEFINE x == Append(stored[j].accept_queue, id)
      <4>1. f[j] = [stored[j] EXCEPT !.accept_queue = x]
        BY <3>3, <2>4
      <4>2. stored[j] \in Good(next_id_[s])
        BY <2>3
      <4> HIDE DEF x
      <4>3. f[j].src = stored[j].src /\ f[j].dst = stored[j].dst /\ f[j].state = stored[j].state
            /\ f[j].accept_queue = x
        BY <3>1, <4>1, <4>2
      <4> QED
        BY <3>3, <4>3 DEF x
    <3> QED
      BY <3>2, <3>3
  <2> HIDE DEF f
  <2>6. \A r \in Stack : sockets_'[r] = IF r = s THEN f ELSE sockets_[r]
    BY <1>0, <2>1
  <2>7. \A j \in DOMAIN sockets_[s] :
          /\ f[j].src = (IF j = id THEN d ELSE sockets_[s][j]).src
          /\ f[j].dst = (IF j = id THEN d ELSE sockets_[s][j]).dst
          /\ f[j].state = (IF j = id THEN d ELSE sockets_[s][j]).state
          /\ f[j].accept_queue = IF j = l THEN Append(sockets_[s][j].accept_queue, id)
                                          ELSE sockets_[s][j].accept_queue
    BY <2>2, <2>3, <2>5
  <2> QED
    BY <1>2, <2>4, <2>6, <2>7 DEF Enqueued
<1> QED
  BY <1>1, <1>2

\* No step of a stack brings an old id back, and blocks evolve.
LEMMA ShapeBlocks ==
  ASSUME StackType, NEW s \in Stack, Shape(s)
  PROVE  \A r \in Stack : \A id \in 1 .. next_id_[r] - 1 :
           id \in DOMAIN sockets_'[r] =>
             /\ id \in DOMAIN sockets_[r]
             /\ Evolves(sockets_[r][id], sockets_'[r][id])
<1>0. SocketsType /\ IdsType
  BY DEF StackType, TablesType
<1>1. CASE Updates(s)
  <2>1. CASE UNCHANGED sockets_
    BY <2>1, SameEvolves
  <2>2. CASE ~ UNCHANGED sockets_
    <3>1. PICK id \in DOMAIN sockets_[s], d \in Good(next_id_[s]) :
            Follows(sockets_[s][id], d) /\ SetTcb(s, id, d)
      BY <1>1, <2>2 DEF Updates
    <3> QED
      BY <1>0, <3>1, AfterSet, FollowsEvolves, SameEvolves
  <2> QED
    BY <2>1, <2>2
<1>2. CASE Spawns(s)
  <2>1. PICK p, iss : sockets_' = [sockets_ EXCEPT ![s] = Put(@, next_id_[s], Child(p, iss))]
    BY <1>2 DEF Spawns
  <2> DEFINE c == Child(p, iss)
  <2> HIDE DEF c
  <2>2. sockets_' = [sockets_ EXCEPT ![s] = Put(@, next_id_[s], c)]
    BY <2>1 DEF c
  <2>3. next_id_[s] \in Nat
    BY <1>0 DEF IdsType
  <2>4. \A r \in Stack :
           /\ DOMAIN sockets_'[r] = IF r = s THEN DOMAIN sockets_[r] \cup {next_id_[s]} ELSE DOMAIN sockets_[r]
           /\ \A j \in DOMAIN sockets_'[r] :
                sockets_'[r][j] = IF r = s /\ j = next_id_[s] THEN c ELSE sockets_[r][j]
    <3>0. PICK n : n = next_id_[s]
      OBVIOUS
    <3>1. sockets_' = [sockets_ EXCEPT ![s] = Put(@, n, c)]
      BY <2>2, <3>0
    <3>2. Added(s, n, c)
      BY <1>0, <3>1, AfterPut
    <3> QED
      BY <3>0, <3>2 DEF Added
  <2> SUFFICES ASSUME NEW r \in Stack, NEW id \in 1 .. next_id_[r] - 1, id \in DOMAIN sockets_'[r]
               PROVE  id \in DOMAIN sockets_[r] /\ Evolves(sockets_[r][id], sockets_'[r][id])
    OBVIOUS
  <2>5. ~ (r = s /\ id = next_id_[s])
    BY <2>3
  <2>6. id \in DOMAIN sockets_[r] /\ sockets_'[r][id] = sockets_[r][id]
    <3>1. DOMAIN sockets_'[r] = IF r = s THEN DOMAIN sockets_[r] \cup {next_id_[s]} ELSE DOMAIN sockets_[r]
      BY ONLY <2>4, r \in Stack
    <3>2. sockets_'[r][id] = IF r = s /\ id = next_id_[s] THEN c ELSE sockets_[r][id]
      BY ONLY <2>4, r \in Stack, id \in DOMAIN sockets_'[r]
    <3>3. id \in DOMAIN sockets_[r]
      BY ONLY <2>5, <3>1, id \in DOMAIN sockets_'[r]
    <3> QED
      BY ONLY <2>5, <3>2, <3>3
  <2> QED
    BY <2>6, SameEvolves
<1>3. CASE Enqueues(s)
  <2>1. PICK id \in DOMAIN sockets_[s], d \in Good(next_id_[s]) :
          LET c == sockets_[s][id]
              l == FindListener(s, c.src[2])
              stored == [sockets_[s] EXCEPT ![id] = d]
          IN
          /\ c.state = "SYN_RECEIVED" /\ d.state = "ESTABLISHED"
          /\ d.src = c.src /\ d.dst = c.dst /\ d.accept_queue = c.accept_queue
          /\ sockets_' = [sockets_ EXCEPT ![s] =
               IF l = 0 THEN stored ELSE [stored EXCEPT ![l].accept_queue = Append(@, id)]]
    BY <1>3 DEF Enqueues
  <2>0. PICK l, stored : l = FindListener(s, sockets_[s][id].src[2]) /\ stored = [sockets_[s] EXCEPT ![id] = d]
    OBVIOUS
  <2>2. l # 0 => l \in DOMAIN sockets_[s]
    BY <2>0, FoundListener DEF Live
  <2>4. /\ d.accept_queue = sockets_[s][id].accept_queue
        /\ sockets_' = [sockets_ EXCEPT ![s] =
             IF l = 0 THEN stored ELSE [stored EXCEPT ![l].accept_queue = Append(@, id)]]
    BY <2>0, <2>1
  <2>5. stored = [sockets_[s] EXCEPT ![id] = d]
    BY <2>0
  <2>3. Enqueued(s, id, d, l)
    <3>1. d \in Good(next_id_[s]) /\ id \in DOMAIN sockets_[s]
      OBVIOUS
    <3> QED
      BY <2>2, <2>4, <2>5, <3>1, EnqueuesBlocks
  <2>6. /\ sockets_[s][id].state = "SYN_RECEIVED" /\ d.state = "ESTABLISHED"
        /\ d.src = sockets_[s][id].src /\ d.dst = sockets_[s][id].dst
    BY <2>1
  <2> QED
    BY <2>3, <2>6 DEF Evolves, Opening, Enqueued
<1>4. CASE Resets(s)
  <2>1. PICK n : sockets_' = [sockets_ EXCEPT ![s] = Remove(@, n)]
    BY <1>4 DEF Resets
  <2>2. \A r \in Stack :
           /\ DOMAIN sockets_'[r] \subseteq DOMAIN sockets_[r]
           /\ \A j \in DOMAIN sockets_'[r] : sockets_'[r][j] = sockets_[r][j]
    <3>1. \A r \in Stack :
             /\ DOMAIN sockets_'[r] = IF r = s THEN DOMAIN sockets_[r] \ {n} ELSE DOMAIN sockets_[r]
             /\ \A j \in DOMAIN sockets_'[r] : sockets_'[r][j] = sockets_[r][j]
      BY <1>0, <2>1, AfterRemove
    <3> QED
      BY ONLY <3>1
  <2> SUFFICES ASSUME NEW r \in Stack, NEW id \in 1 .. next_id_[r] - 1, id \in DOMAIN sockets_'[r]
               PROVE  id \in DOMAIN sockets_[r] /\ Evolves(sockets_[r][id], sockets_'[r][id])
    OBVIOUS
  <2>3. id \in DOMAIN sockets_[r] /\ sockets_'[r][id] = sockets_[r][id]
    BY ONLY <2>2, r \in Stack, id \in DOMAIN sockets_'[r]
  <2> QED
    BY <2>3, SameEvolves
<1>5. CASE Destroys(s)
  <2>1. PICK id \in DOMAIN sockets_[s], d \in Good(next_id_[s]) :
          /\ Follows(sockets_[s][id], d)
          /\ DestroyConnection(s, id, d, sockets_[s][id].src, sockets_[s][id].dst)
    BY <1>5 DEF Destroys
  <2>2. \A r \in Stack :
           /\ DOMAIN sockets_'[r] \subseteq DOMAIN sockets_[r]
           /\ \A j \in DOMAIN sockets_'[r] :
                sockets_'[r][j] = IF r = s /\ j = id THEN d ELSE sockets_[r][j]
    <3>0. PICK x, y : x = sockets_[s][id].src /\ y = sockets_[s][id].dst
      OBVIOUS
    <3>1. DestroyConnection(s, id, d, x, y)
      BY <2>1, <3>0
    <3>2. Destroyed(s, id, d, <<x, y>>)
      BY <1>0, <3>1, AfterDestroy
    <3> QED
      BY <3>2 DEF Destroyed
  <2> QED
    BY <2>1, <2>2, FollowsEvolves, SameEvolves
<1> QED
  BY <1>1, <1>2, <1>3, <1>4, <1>5 DEF Shape

-----------------------------------------------------------------------------
(* What a thread does to the tables of its stack, and where its call goes.  *)

\* The state a call gives a block: listen makes a socket listen, connect sends its
\* SYN, close chooses the state of a closing connection.
Turns(t, id, from, to) ==
    \/ to = from
    \/ pc[t] = Ready /\ Arg(t).op = "listen" /\ id = Mine(t) /\ from = "CLOSED" /\ to = "LISTEN"
    \/ id = pc[t].id /\ pc[t].at \in {"wake", "mark"} /\ to \in {"FIN_WAIT_1", "LAST_ACK"}
    \/ id = pc[t].id /\ pc[t].at = "opening" /\ to = "SYN_SENT"
\* A call changes no more than the contents of one block.
SameAddresses(c, d) == d.src = c.src /\ d.dst = c.dst /\ d.accept_queue = c.accept_queue
Edits(t, id, d) ==
    LET c == sockets_[Home[t]][id] IN
    /\ SetTcb(Home[t], id, d)
    /\ SameAddresses(c, d)
    /\ Turns(t, id, c.state, d.state)
Touches(t) ==
    /\ UNCHANGED <<next_id_, listeners_, connections_, next_port, socket_id>>
    /\ UNCHANGED sockets_ \/ \E id \in DOMAIN sockets_[Home[t]] : \E d : Edits(t, id, d)

\* The fields a call may change leave the others alone.
Filled(c, d) == \E x : d \in {[c EXCEPT !.slen = x], [c EXCEPT !.rread = x], [c EXCEPT !.nxt = x]}
Restated(c, d, x) == d = [c EXCEPT !.state = x]
Dialled(c, d) == \E x, y, z : d = [c EXCEPT !.iss = x, !.una = y, !.nxt = z, !.state = "SYN_SENT"]
\* What the calls write into a block.
LEMMA EditedFields ==
  ASSUME NEW n, NEW c \in Good(n)
  PROVE  /\ \A d : Filled(c, d) => SameAddresses(c, d) /\ d.state = c.state
         /\ \A x, d : Restated(c, d, x) => SameAddresses(c, d) /\ d.state = x
         /\ \A d : Dialled(c, d) => SameAddresses(c, d) /\ d.state = "SYN_SENT"
         /\ SameAddresses(c, Closing(c)) /\ Closing(c).state \in {"FIN_WAIT_1", "LAST_ACK"}
  BY DEF Good, Block, Closing, SameAddresses, Filled, Restated, Dialled

\* The block a step through a pointer works on.
LEMMA EditedBlock ==
  ASSUME TypeInv, NEW t \in Thread, prog[t] # <<>>, NEW id, Live(Home[t], id)
  PROVE  /\ Home[t] \in Stack /\ id \in DOMAIN sockets_[Home[t]]
         /\ sockets_[Home[t]][id] \in Good(next_id_[Home[t]])
  BY CurrentCall, Found DEF Live, TypeInv, StackType, TablesType, AppType, CallsType

\* send and recv touch one block.
LEMMA SendTouches ==
  ASSUME TypeInv, NEW t \in Thread, prog[t] # <<>>, send(t) \/ recv(t) \/ drain(t)
  PROVE  Touches(t)
<1>1. PICK id : id = Target(t)
  OBVIOUS
<1>2. PICK c : c = sockets_[Home[t]][id]
  OBVIOUS
<1>3. Live(Home[t], id) /\ UNCHANGED <<next_id_, listeners_, connections_, next_port, socket_id>>
  BY <1>1 DEF send, recv, drain, Inside, OnlyBlock
<1>4. id \in DOMAIN sockets_[Home[t]] /\ c \in Good(next_id_[Home[t]])
  BY <1>2, <1>3, EditedBlock
<1>5. \E d : Filled(c, d) /\ SetTcb(Home[t], id, d)
  <2>1. CASE send(t)
    BY <2>1, <1>1, <1>2 DEF send, Filled
  <2>2. CASE recv(t)
    BY <2>2, <1>1, <1>2 DEF recv, Filled
  <2>3. CASE drain(t)
    BY <2>3, <1>1, <1>2 DEF drain, Filled
  <2> QED
    BY <2>1, <2>2, <2>3
<1>6. PICK d : SetTcb(Home[t], id, d) /\ SameAddresses(c, d) /\ d.state = c.state
  BY <1>4, <1>5, EditedFields
<1>7. Edits(t, id, d)
  BY <1>2, <1>6 DEF Edits, Turns
<1> QED
  BY <1>3, <1>4, <1>7 DEF Touches

\* So do the steps of close,
LEMMA CloseTouches ==
  ASSUME TypeInv, NEW t \in Thread, prog[t] # <<>>,
         CloseFlush(t) \/ CloseWake(t) \/ CloseMark(t) \/ CloseBump(t)
  PROVE  Touches(t)
<1>0. Home[t] \in Stack /\ SocketsType /\ StackType
  BY CurrentCall DEF TypeInv, StackType, TablesType, AppType, CallsType
<1>1. PICK id : id = pc[t].id
  OBVIOUS
<1>2. PICK c : c = sockets_[Home[t]][id]
  OBVIOUS
<1>3. UNCHANGED <<next_id_, listeners_, connections_, next_port, socket_id>>
  BY DEF CloseFlush, CloseWake, CloseMark, CloseBump, OnlyBlock
<1>4. CASE CloseFlush(t)
  <2>1. process_block_(Home[t], id) /\ Live(Home[t], id)
    BY <1>1, <1>4 DEF CloseFlush
  <2>2. CASE UNCHANGED sockets_
    BY <1>3, <2>2 DEF Touches
  <2>3. CASE ~ UNCHANGED sockets_
    <3>1. \E d : Filled(c, d) /\ SetTcb(Home[t], id, d)
      BY <1>2, <2>1, <2>3 DEF process_block_, Filled
    <3>2. id \in DOMAIN sockets_[Home[t]] /\ c \in Good(next_id_[Home[t]])
      BY <1>2, <2>1, EditedBlock
    <3>3. PICK d : SetTcb(Home[t], id, d) /\ SameAddresses(c, d) /\ d.state = c.state
      BY <3>1, <3>2, EditedFields
    <3>4. Edits(t, id, d)
      BY <1>2, <3>3 DEF Edits, Turns
    <3> QED
      BY <1>3, <3>2, <3>4 DEF Touches
  <2> QED
    BY <2>2, <2>3
<1>5. CASE CloseWake(t)
  <2>1. pc[t].at = "wake" /\ Live(Home[t], id) /\ SetTcb(Home[t], id, Closing(c))
    BY <1>1, <1>2, <1>5 DEF CloseWake
  <2>2. id \in DOMAIN sockets_[Home[t]] /\ c \in Good(next_id_[Home[t]])
    BY <1>2, <2>1, EditedBlock
  <2>3. PICK d : SetTcb(Home[t], id, d) /\ SameAddresses(c, d) /\ d.state \in {"FIN_WAIT_1", "LAST_ACK"}
    BY <2>1, <2>2, EditedFields
  <2>4. Edits(t, id, d)
    BY <1>1, <1>2, <2>1, <2>3 DEF Edits, Turns
  <2> QED
    BY <1>3, <2>2, <2>4 DEF Touches
<1>6. CASE CloseMark(t)
  <2>1. PICK to : to = pc[t].to
    OBVIOUS
  <2>2. pc[t].at = "mark" /\ Live(Home[t], id)
    BY <1>1, <1>6 DEF CloseMark
  <2>3. id \in DOMAIN sockets_[Home[t]] /\ c \in Good(next_id_[Home[t]])
    BY <1>2, <2>2, EditedBlock
  <2>4. SetTcb(Home[t], id, [c EXCEPT !.state = to])
    BY <1>0, <1>1, <1>2, <1>6, <2>1 DEF CloseMark, SetTcb, SocketsType, Live
  <2>5. to \in {"FIN_WAIT_1", "LAST_ACK"}
    BY <2>1, <2>2 DEF TypeInv, AppType, CallsType, PcType, Place
  <2>6. PICK d : Restated(c, d, to) /\ SetTcb(Home[t], id, d)
    BY <2>4 DEF Restated
  <2>8. SameAddresses(c, d) /\ d.state = to
    BY <2>3, <2>6, EditedFields
  <2>7. Edits(t, id, d)
    BY <1>1, <1>2, <2>2, <2>5, <2>6, <2>8 DEF Edits, Turns
  <2> QED
    BY <1>3, <2>3, <2>7 DEF Touches
<1>7. CASE CloseBump(t)
  <2>1. CASE ~ Live(Home[t], id)
    BY <1>1, <1>3, <1>7, <2>1 DEF CloseBump, Touches
  <2>2. CASE Live(Home[t], id)
    <3>1. id \in DOMAIN sockets_[Home[t]] /\ c \in Good(next_id_[Home[t]])
      BY <1>2, <2>2, EditedBlock
    <3>2. \E d : Filled(c, d) /\ SetTcb(Home[t], id, d)
      <4>1. SetTcb(Home[t], id, [c EXCEPT !.nxt = Add(@, 1)])
        BY <1>0, <1>1, <1>2, <1>7, <2>2 DEF CloseBump, SetTcb, SocketsType, Live
      <4> QED
        BY <4>1 DEF Filled
    <3>3. PICK d : SetTcb(Home[t], id, d) /\ SameAddresses(c, d) /\ d.state = c.state
      BY <3>1, <3>2, EditedFields
    <3>4. Edits(t, id, d)
      BY <1>2, <3>3 DEF Edits, Turns
    <3> QED
      BY <1>3, <3>1, <3>4 DEF Touches
  <2> QED
    BY <2>1, <2>2
<1> QED
  BY <1>4, <1>5, <1>6, <1>7

\* connect's SYN,
LEMMA OpenTouches ==
  ASSUME TypeInv, NEW t \in Thread, prog[t] # <<>>, ConnectOpen(t)
  PROVE  Touches(t)
<1>1. PICK id : id = pc[t].id
  OBVIOUS
<1>2. PICK c : c = sockets_[Home[t]][id]
  OBVIOUS
<1>3. /\ UNCHANGED <<next_id_, listeners_, connections_, next_port, socket_id>>
      /\ pc[t].at = "opening" /\ Live(Home[t], id)
  BY <1>1 DEF ConnectOpen
<1>4. \E d : Dialled(c, d) /\ SetTcb(Home[t], id, d)
  BY <1>1, <1>2 DEF ConnectOpen, Dialled
<1>5. id \in DOMAIN sockets_[Home[t]] /\ c \in Good(next_id_[Home[t]])
  BY <1>2, <1>3, EditedBlock
<1>6. PICK d : SetTcb(Home[t], id, d) /\ SameAddresses(c, d) /\ d.state = "SYN_SENT"
  BY <1>4, <1>5, EditedFields
<1>7. Edits(t, id, d)
  BY <1>1, <1>2, <1>3, <1>6 DEF Edits, Turns
<1> QED
  BY <1>3, <1>5, <1>7 DEF Touches

\* and listen.
LEMMA ListenTouches ==
  ASSUME TypeInv, NEW t \in Thread, prog[t] # <<>>, listen(t)
  PROVE  Touches(t)
<1>0. Home[t] \in Stack /\ SocketsType
  BY CurrentCall DEF TypeInv, StackType, TablesType, AppType, CallsType
<1>1. PICK id : id = Mine(t)
  OBVIOUS
<1>2. PICK c : c = sockets_[Home[t]][id]
  OBVIOUS
<1>3. /\ UNCHANGED <<next_id_, listeners_, connections_, next_port, socket_id>>
      /\ pc[t] = Ready /\ Arg(t).op = "listen"
  BY DEF listen, OnlyBlock, Starts, Arg
<1>4. CASE UNCHANGED sockets_
  BY <1>3, <1>4 DEF Touches
<1>5. CASE ~ UNCHANGED sockets_
  <2>1. Live(Home[t], id) /\ c.state = "CLOSED"
        /\ sockets_' = [sockets_ EXCEPT ![Home[t]][id].state = "LISTEN"]
    BY <1>1, <1>2, <1>5 DEF listen
  <2>2. SetTcb(Home[t], id, [c EXCEPT !.state = "LISTEN"])
    BY <1>0, <1>2, <2>1 DEF SetTcb, SocketsType, Live
  <2>3. id \in DOMAIN sockets_[Home[t]] /\ c \in Good(next_id_[Home[t]])
    BY <1>2, <2>1, EditedBlock
  <2>4. PICK d : Restated(c, d, "LISTEN") /\ SetTcb(Home[t], id, d)
    BY <2>2 DEF Restated
  <2>6. SameAddresses(c, d) /\ d.state = "LISTEN"
    BY <2>3, <2>4, EditedFields
  <2>5. Edits(t, id, d)
    BY <1>1, <1>2, <1>3, <2>1, <2>4, <2>6 DEF Edits, Turns
  <2> QED
    BY <1>3, <2>3, <2>5 DEF Touches
<1> QED
  BY <1>4, <1>5

\* Every step of a thread is one of these.
ThreadShape(t) ==
    \/ Touches(t) \/ bind(t) \/ RegisterRoute(t) \/ ConnectRegister(t) \/ AcceptCall(t)
    \/ AcceptReturn(t) \/ CloseAbort(t) \/ Join(t) \/ simulate_node_crash(t)
\* Every step of a thread is one of these.
LEMMA ThreadShapes ==
  ASSUME TypeInv, NEW t \in Thread, ThreadStep(t)
  PROVE  ThreadShape(t) /\ prog[t] # <<>> /\ Home[t] \in Stack
<1>1. prog[t] # <<>> /\ Home[t] \in Stack
  BY HomeAssumption DEF ThreadStep
<1>2. CASE ConnectReturn(t) \/ NoSuchSocket(t) \/ Park(t) \/ CloseCheck(t) \/ CloseFin(t)
           \/ StopCall(t) \/ Await(t)
  <2>1. UNCHANGED <<sockets_, next_id_, listeners_, connections_, next_port, socket_id>>
    BY <1>2 DEF ConnectReturn, NoSuchSocket, Park, CloseCheck, CloseFin, StopCall, Await,
                OnlyThread, stackVars, tables
  <2> QED
    BY <1>1, <2>1 DEF Touches, ThreadShape
<1>3. CASE send(t) \/ recv(t) \/ drain(t)
  BY <1>1, <1>3, SendTouches DEF ThreadShape
<1>4. CASE CloseFlush(t) \/ CloseWake(t) \/ CloseMark(t) \/ CloseBump(t)
  BY <1>1, <1>4, CloseTouches DEF ThreadShape
<1>5. CASE ConnectOpen(t) \/ listen(t)
  BY <1>1, <1>5, OpenTouches, ListenTouches DEF ThreadShape
<1> QED
  BY <1>1, <1>2, <1>3, <1>4, <1>5 DEF ThreadStep, ThreadShape

\* A connection is registered for a socket, or with a new one.
Rehomed(s, mine, local, remote) ==
    \E d : /\ SetTcb(s, mine, d) /\ d.src = local /\ d.dst = remote
           /\ d.state = sockets_[s][mine].state
           /\ d.accept_queue = sockets_[s][mine].accept_queue
Registered(s, mine, local, remote) ==
    \/ Live(s, mine) /\ UNCHANGED next_id_ /\ Rehomed(s, mine, local, remote)
    \/ /\ ~ Live(s, mine) /\ next_id_' = [next_id_ EXCEPT ![s] = @ + 1]
       /\ Added(s, next_id_[s], Tcb("CLOSED", local, remote))
Readdressed(c, d, local, remote) == d = [c EXCEPT !.src = local, !.dst = remote]
\* A new address leaves the state and the queue of a block.
LEMMA ReaddressedFields ==
  ASSUME NEW n, NEW c \in Good(n), NEW local, NEW remote, NEW d, Readdressed(c, d, local, remote)
  PROVE  /\ d.src = local /\ d.dst = remote /\ d.state = c.state
         /\ d.accept_queue = c.accept_queue
  BY DEF Good, Block, Readdressed
\* sockets_ after register_connection.
LEMMA RegisterBlocks ==
  ASSUME SocketsType, NEW s \in Stack, NEW asked, NEW remote, NEW mine,
         register_connection(s, asked, remote, mine),
         NEW local, local = <<asked[1], PortOf(s, asked[2])>>
  PROVE  Registered(s, mine, local, remote)
<1>1. CASE Live(s, mine)
  <2>1. PICK c : c = sockets_[s][mine]
    OBVIOUS
  <2>2. PICK d : d = [c EXCEPT !.src = local, !.dst = remote]
    OBVIOUS
  <2>3. sockets_' = [sockets_ EXCEPT ![s] = [@ EXCEPT ![mine].src = local, ![mine].dst = remote]]
        /\ UNCHANGED next_id_
    BY <1>1 DEF register_connection, RegisteredId
  <2>4. SetTcb(s, mine, d)
    BY <1>1, <2>1, <2>2, <2>3 DEF SetTcb, SocketsType, Live
  <2>5. c \in Good(next_id_[s])
    BY <1>1, <2>1, Found
  <2>6. Readdressed(c, d, local, remote)
    BY <2>2 DEF Readdressed
  <2>7. d.src = local /\ d.dst = remote /\ d.state = c.state /\ d.accept_queue = c.accept_queue
    BY <2>5, <2>6, ReaddressedFields
  <2> QED
    BY <1>1, <2>1, <2>3, <2>4, <2>7 DEF Registered, Rehomed
<1>2. CASE ~ Live(s, mine)
  <2>1. PICK n, d : n = next_id_[s] /\ d = Tcb("CLOSED", local, remote)
    OBVIOUS
  <2>2. sockets_' = [sockets_ EXCEPT ![s] = Put(@, n, d)]
        /\ next_id_' = [next_id_ EXCEPT ![s] = @ + 1]
    BY <1>2, <2>1 DEF register_connection, RegisteredId
  <2>3. Added(s, n, d)
    BY <2>2, AfterPut
  <2> QED
    BY <1>2, <2>1, <2>2, <2>3 DEF Registered
<1> QED
  BY <1>1, <1>2

\* accept takes the first child off the queue.
Popped(s, id) ==
    \E d : /\ SetTcb(s, id, d)
           /\ d.src = sockets_[s][id].src /\ d.dst = sockets_[s][id].dst
           /\ d.state = sockets_[s][id].state
           /\ d.accept_queue = Tail(sockets_[s][id].accept_queue)
Requeued(c, d, q) == d = [c EXCEPT !.accept_queue = q]
\* A new queue leaves the state and the addresses of a block.
LEMMA RequeuedFields ==
  ASSUME NEW n, NEW c \in Good(n), NEW q, NEW d, Requeued(c, d, q)
  PROVE  d.src = c.src /\ d.dst = c.dst /\ d.state = c.state /\ d.accept_queue = q
  BY DEF Good, Block, Requeued
\* sockets_ after an accept.
LEMMA AcceptBlocks ==
  ASSUME TypeInv, NEW t \in Thread, prog[t] # <<>>, AcceptReturn(t)
  PROVE  Popped(Home[t], pc[t].id) /\ pc[t].id \in DOMAIN sockets_[Home[t]]
<1>1. PICK id, c : id = pc[t].id /\ c = sockets_[Home[t]][id]
  OBVIOUS
<1>2. PICK q : q = Tail(c.accept_queue)
  OBVIOUS
<1>3. PICK d : d = [c EXCEPT !.accept_queue = q]
  OBVIOUS
<1>4. Live(Home[t], id)
  BY <1>1 DEF AcceptReturn
<1>5. id \in DOMAIN sockets_[Home[t]] /\ c \in Good(next_id_[Home[t]]) /\ Home[t] \in Stack
  BY <1>1, <1>4, EditedBlock
<1>6. SetTcb(Home[t], id, d)
  BY <1>1, <1>2, <1>3, <1>5 DEF AcceptReturn, SetTcb, TypeInv, StackType, TablesType, SocketsType
<1>7. Requeued(c, d, q)
  BY <1>3 DEF Requeued
<1>8. d.src = c.src /\ d.dst = c.dst /\ d.state = c.state /\ d.accept_queue = q
  BY <1>5, <1>7, RequeuedFields
<1> QED
  BY <1>1, <1>2, <1>5, <1>6, <1>8 DEF Popped

\* close of a connection that is not open destroys it at once.
Aborted(s, id) ==
    LET c == sockets_[s][id] IN
    \E d : /\ Destroyed(s, id, d, <<c.src, c.dst>>)
           /\ SameAddresses(c, d) /\ d.state \in {"FIN_WAIT_1", "LAST_ACK"}
\* sockets_ after a close that gives up.
LEMMA AbortBlocks ==
  ASSUME TypeInv, NEW t \in Thread, prog[t] # <<>>, CloseAbort(t)
  PROVE  Aborted(Home[t], pc[t].id) /\ pc[t].id \in DOMAIN sockets_[Home[t]] /\ pc[t].at = "abort"
<1>1. PICK id, c : id = pc[t].id /\ c = sockets_[Home[t]][id]
  OBVIOUS
<1>2. PICK d, x, y : d = Closing(c) /\ x = c.src /\ y = c.dst
  OBVIOUS
<1>3. Live(Home[t], id) /\ DestroyConnection(Home[t], id, d, x, y) /\ pc[t].at = "abort"
  BY <1>1, <1>2 DEF CloseAbort
<1>4. id \in DOMAIN sockets_[Home[t]] /\ c \in Good(next_id_[Home[t]]) /\ Home[t] \in Stack
  BY <1>1, <1>3, EditedBlock
<1>5. Destroyed(Home[t], id, d, <<x, y>>)
  BY <1>3, <1>4, AfterDestroy DEF TypeInv, StackType, TablesType
<1>6. SameAddresses(c, d) /\ d.state \in {"FIN_WAIT_1", "LAST_ACK"}
  BY <1>2, <1>4, EditedFields
<1> QED
  BY <1>1, <1>2, <1>3, <1>4, <1>5, <1>6 DEF Aborted

-----------------------------------------------------------------------------
(* A connection is opened once.                                             *)

\* What a step of thread t does to the state of a block that was there before.
Acts(t, r, id, from, to) ==
    \/ to = from
    \/ from = "CLOSED" /\ to = "LISTEN"
    \/ /\ r = Home[t] /\ id = pc[t].id
       /\ \/ pc[t].at \in {"wake", "mark", "abort"} /\ to \in {"FIN_WAIT_1", "LAST_ACK"}
          \/ pc[t].at = "opening" /\ to = "SYN_SENT"
Survives(t, r, id) ==
    id \in DOMAIN sockets_[r] /\ Acts(t, r, id, sockets_[r][id].state, sockets_'[r][id].state)
\* The blocks a step of a thread leaves were there, and their states changed as above.
LEMMA ThreadBlocks ==
  ASSUME TypeInv, NEW t \in Thread, ThreadStep(t),
         NEW r \in Stack, NEW id \in 1 .. next_id_[r] - 1, id \in DOMAIN sockets_'[r]
  PROVE  Survives(t, r, id)
<1>0. SocketsType /\ IdsType /\ Home[t] \in Stack /\ prog[t] # <<>>
  BY ThreadShapes DEF TypeInv, StackType, TablesType
<1>1. CASE UNCHANGED sockets_
  BY <1>1 DEF Survives, Acts
<1>2. CASE Touches(t) /\ ~ UNCHANGED sockets_
  <2>1. PICK j, d : j \in DOMAIN sockets_[Home[t]] /\ Edits(t, j, d)
    BY <1>2 DEF Touches
  <2>2. SetTcb(Home[t], j, d) /\ Turns(t, j, sockets_[Home[t]][j].state, d.state)
    BY <2>1 DEF Edits
  <2>3. /\ id \in DOMAIN sockets_[r]
        /\ sockets_'[r][id] = IF r = Home[t] /\ id = j THEN d ELSE sockets_[r][id]
    BY <1>0, <2>2, AfterSet
  <2> QED
    BY <2>2, <2>3 DEF Survives, Acts, Turns
<1>3. CASE bind(t)
  <2>1. PICK n, d : n = next_id_[Home[t]] /\ sockets_' = [sockets_ EXCEPT ![Home[t]] = Put(@, n, d)]
    BY <1>3 DEF bind
  <2>2. Added(Home[t], n, d)
    BY <1>0, <2>1, AfterPut
  <2>3. n \in Nat /\ ~ (r = Home[t] /\ id = n)
    BY <1>0, <2>1 DEF IdsType
  <2> QED
    BY <2>2, <2>3 DEF Added, Survives, Acts
<1>4. CASE RegisterRoute(t) \/ ConnectRegister(t)
  <2>1. PICK asked, remote, mine : register_connection(Home[t], asked, remote, mine)
    BY <1>4 DEF RegisterRoute, ConnectRegister
  <2>2. PICK local : local = <<asked[1], PortOf(Home[t], asked[2])>>
    OBVIOUS
  <2>3. Registered(Home[t], mine, local, remote)
    BY <1>0, <2>1, <2>2, RegisterBlocks
  <2>4. CASE Live(Home[t], mine)
    <3>1. PICK d : SetTcb(Home[t], mine, d) /\ d.state = sockets_[Home[t]][mine].state
      BY <2>3, <2>4 DEF Registered, Rehomed
    <3>2. /\ id \in DOMAIN sockets_[r]
          /\ sockets_'[r][id] = IF r = Home[t] /\ id = mine THEN d ELSE sockets_[r][id]
      BY <1>0, <3>1, AfterSet
    <3> QED
      BY <3>1, <3>2 DEF Survives, Acts
  <2>5. CASE ~ Live(Home[t], mine)
    <3>1. PICK d : d = Tcb("CLOSED", local, remote)
      OBVIOUS
    <3>2. ~ (r = Home[t] /\ id = next_id_[Home[t]])
      BY <1>0 DEF IdsType
    <3>3. id \in DOMAIN sockets_[r] /\ sockets_'[r][id] = sockets_[r][id]
      <4>1. Added(Home[t], next_id_[Home[t]], Tcb("CLOSED", local, remote))
        BY <2>3, <2>5 DEF Registered
      <4>2. /\ DOMAIN sockets_'[r] = IF r = Home[t] THEN DOMAIN sockets_[r] \cup {next_id_[Home[t]]}
                                                   ELSE DOMAIN sockets_[r]
            /\ \A j \in DOMAIN sockets_'[r] :
                 sockets_'[r][j] = IF r = Home[t] /\ j = next_id_[Home[t]] THEN d ELSE sockets_[r][j]
        BY <3>1, <4>1, Zenon DEF Added
      <4> QED
        BY <3>2, <4>2
    <3> QED
      BY <3>3 DEF Survives, Acts
  <2> QED
    BY <2>4, <2>5
<1>5. CASE AcceptReturn(t)
  <2>1. PICK j : j = pc[t].id
    OBVIOUS
  <2>2. PICK d : SetTcb(Home[t], j, d) /\ d.state = sockets_[Home[t]][j].state
    <3>1. Popped(Home[t], pc[t].id)
      BY <1>0, <1>5, AcceptBlocks
    <3> QED
      BY <2>1, <3>1 DEF Popped
  <2>3. /\ id \in DOMAIN sockets_[r]
        /\ sockets_'[r][id] = IF r = Home[t] /\ id = j THEN d ELSE sockets_[r][id]
    BY <1>0, <2>2, AfterSet
  <2> QED
    BY <2>2, <2>3 DEF Survives, Acts
<1>6. CASE CloseAbort(t)
  <2>1. Aborted(Home[t], pc[t].id) /\ pc[t].at = "abort"
    BY <1>0, <1>6, AbortBlocks
  <2>2. PICK d, key : Destroyed(Home[t], pc[t].id, d, key) /\ d.state \in {"FIN_WAIT_1", "LAST_ACK"}
    BY <2>1 DEF Aborted
  <2> QED
    BY <2>1, <2>2 DEF Destroyed, Survives, Acts
<1>7. CASE Join(t)
  BY <1>0, <1>7 DEF Join, Empty, SocketsType, Survives, Acts
<1> QED
  BY <1>0, <1>1, <1>2, <1>3, <1>4, <1>5, <1>6, <1>7, ThreadShapes
     DEF ThreadShape, AcceptCall, tables, simulate_node_crash

\* The places in a call at which a block is being opened or closed, and how a
\* thread gets there.
Enters(t, w) ==
    \/ w.at \notin {"opening", "flush", "wake", "mark", "abort"}
    \/ w.id = pc[t].id /\ pc[t].at \in {"flush", "wake"} /\ w.at \in {"wake", "mark"}
    \/ w.at = "opening" /\ w.id = RegisteredId(Home[t], Mine(t)) /\ ConnectRegister(t)
    \/ w.at \in {"flush", "abort"} /\ w.id = Mine(t) /\ Live(Home[t], Mine(t)) /\ CloseCheck(t)
Moves(t) == \E w : pc' = [pc EXCEPT ![t] = w] /\ Enters(t, w)
\* A call that returns is at none of these places,
LEMMA ReturnMoves ==
  ASSUME NEW t, pc' = [pc EXCEPT ![t] = Ready]
  PROVE  Moves(t)
<1>1. PICK w : w = Ready
  OBVIOUS
<1>2. Enters(t, w)
  BY <1>1 DEF Enters, Ready
<1> QED
  BY <1>1, <1>2 DEF Moves
\* one that goes on enters them as allowed,
LEMMA GotoMoves ==
  ASSUME NEW t, NEW at, NEW id, NEW to, Goto(t, at, id, to),
         \/ at \notin {"opening", "flush", "wake", "mark", "abort"}
         \/ id = pc[t].id /\ pc[t].at \in {"flush", "wake"} /\ at \in {"wake", "mark"}
         \/ at = "opening" /\ id = RegisteredId(Home[t], Mine(t)) /\ ConnectRegister(t)
         \/ at \in {"flush", "abort"} /\ id = Mine(t) /\ Live(Home[t], Mine(t)) /\ CloseCheck(t)
  PROVE  Moves(t)
<1>1. PICK w : w = [at |-> at, id |-> id, to |-> to]
  OBVIOUS
<1>2. pc' = [pc EXCEPT ![t] = w]
  BY <1>1 DEF Goto
<1>3. w.at = at /\ w.id = id
  BY <1>1
<1>4. Enters(t, w)
  BY <1>3 DEF Enters
<1> QED
  BY <1>2, <1>4 DEF Moves
\* and every step of a thread does one of the two.
LEMMA PcMoves ==
  ASSUME TypeInv, NEW t \in Thread, ThreadStep(t)
  PROVE  Moves(t)
<1>0. CASE pc' = [pc EXCEPT ![t] = Ready]
  BY <1>0, ReturnMoves
<1>1. CASE Return(t)
  BY <1>0, <1>1 DEF Return
<1>2. CASE send(t) \/ recv(t)
  <2>1. \E n : Continue(t, n)
    BY <1>2 DEF send, recv
  <2> QED
    BY <1>0, <1>1, <2>1 DEF Continue
<1>3. CASE drain(t)
  BY <1>0, <1>1, <1>3 DEF drain
<1>4. CASE Park(t)
  <2>1. PICK at, id : Goto(t, at, id, "CLOSED") /\ at \in {"send", "recv", "drain"}
    BY <1>4 DEF Park, Starts, Arg
  <2> QED
    BY <2>1, GotoMoves
<1>5. CASE ConnectRegister(t)
  <2>1. PICK id : id = RegisteredId(Home[t], Mine(t))
    OBVIOUS
  <2>2. Goto(t, "opening", id, "CLOSED")
    BY <1>5, <2>1 DEF ConnectRegister
  <2> QED
    BY <1>5, <2>1, <2>2, GotoMoves
<1>6. CASE ConnectOpen(t)
  <2>1. PICK id : Goto(t, "connecting", id, "CLOSED")
    BY <1>6 DEF ConnectOpen
  <2> QED
    BY <2>1, GotoMoves
<1>7. CASE AcceptCall(t) /\ ~ Return(t)
  <2>1. PICK id : Goto(t, "accepting", id, "CLOSED")
    BY <1>7 DEF AcceptCall
  <2> QED
    BY <2>1, GotoMoves
<1>8. CASE CloseCheck(t) /\ ~ Return(t)
  <2>1. PICK id : id = Mine(t)
    OBVIOUS
  <2>2. Live(Home[t], id) /\ \E at \in {"flush", "abort"} : \E to : Goto(t, at, id, to)
    BY <1>8, <2>1 DEF CloseCheck
  <2> QED
    BY <1>8, <2>1, <2>2, GotoMoves
<1>9. CASE CloseFlush(t) \/ CloseWake(t) \/ CloseMark(t) \/ CloseFin(t)
  <2>1. PICK id, to : id = pc[t].id /\ to = pc[t].to
    OBVIOUS
  <2>2. \/ pc[t].at = "flush" /\ Goto(t, "wake", id, to)
        \/ pc[t].at = "wake" /\ Goto(t, "mark", id, to)
        \/ Goto(t, "fin", id, to) \/ Goto(t, "bump", id, to)
    BY <1>9, <2>1 DEF CloseFlush, CloseWake, CloseMark, CloseFin
  <2> QED
    BY <2>1, <2>2, GotoMoves
<1>10. CASE StopCall(t)
  <2>1. Goto(t, "joining", 0, "CLOSED")
    BY <1>10 DEF StopCall
  <2> QED
    BY <2>1, GotoMoves
<1>11. CASE \/ bind(t) \/ listen(t) \/ RegisterRoute(t) \/ ConnectReturn(t) \/ AcceptReturn(t)
            \/ NoSuchSocket(t) \/ CloseBump(t) \/ CloseAbort(t) \/ Join(t)
            \/ simulate_node_crash(t) \/ Await(t)
  BY <1>1, <1>11 DEF bind, listen, RegisterRoute, ConnectReturn, AcceptReturn, NoSuchSocket,
     CloseBump, CloseAbort, Join, simulate_node_crash, Await
<1> QED
  BY <1>1, <1>2, <1>3, <1>4, <1>5, <1>6, <1>7, <1>8, <1>9, <1>10, <1>11 DEF ThreadStep

\* The block a thread works on is one of its stack's.
LEMMA PointedIds ==
  ASSUME TypeInv, NEW t \in Thread
  PROVE  /\ Home[t] \in Stack /\ next_id_[Home[t]] \in Nat
         /\ pc[t].id \in 0 .. next_id_[Home[t]] - 1
         /\ DOMAIN sockets_[Home[t]] \subseteq 1 .. next_id_[Home[t]] - 1
  BY HomeAssumption
     DEF TypeInv, StackType, TablesType, IdsType, AppType, CallsType, PcType, Place, SocketsType, SocketTable

\* A block about to send its SYN is new, and nobody else opens or closes it.
LEMMA OpenStep ==
  ASSUME TypeInv, TypeInv', OpenInv, [Next]_vars,
         [\A t \in Thread : Calling(t) => SingleOpener(t)]_vars
  PROVE  OpenInv'
<1>0. SUFFICES ASSUME NEW t \in Thread, pc'[t].at = "opening", Live(Home[t], pc[t].id)',
                      NEW s, s = Home[t], NEW id, id = pc'[t].id
               PROVE  /\ sockets_'[s][id].state \in {"CLOSED", "LISTEN"}
                      /\ \A u \in Thread : u # t /\ Home[u] = s /\ pc'[u].id = id =>
                           pc'[u].at \notin {"opening", "flush", "wake", "mark", "abort"}
  BY DEF OpenInv
<1>1. s \in Stack /\ id \in DOMAIN sockets_'[s]
  BY <1>0, PointedIds DEF Live
<1>6. id # 0
  BY <1>1 DEF TypeInv, StackType, TablesType, SocketsType, SocketTable
<1>2. CASE pc[t].at = "opening" /\ pc[t].id = id /\ id \in DOMAIN sockets_[s]
           /\ sockets_'[s][id] = sockets_[s][id] /\ UNCHANGED pc
  BY <1>0, <1>2 DEF OpenInv, Live
<1>3. CASE UNCHANGED vars
  BY <1>0, <1>1, <1>2, <1>3 DEF vars, app, stackVars, tables
<1>4. CASE StackNext /\ UNCHANGED app
  <2>1. PICK q \in Stack : Shape(q)
    BY <1>4, StackShape DEF TypeInv
  <2>2. pc[t].at = "opening" /\ pc[t].id = id /\ UNCHANGED pc
    BY <1>0, <1>4 DEF app
  <2>3. id \in 1 .. next_id_[s] - 1
    BY <1>0, <1>6, <2>2, PointedIds
  <2>4. id \in DOMAIN sockets_[s] /\ Evolves(sockets_[s][id], sockets_'[s][id])
    BY <1>1, <2>1, <2>3, ShapeBlocks DEF TypeInv
  <2>5. /\ sockets_[s][id].state \in {"CLOSED", "LISTEN"}
        /\ \A u \in Thread : u # t /\ Home[u] = s /\ pc[u].id = id =>
             pc[u].at \notin {"opening", "flush", "wake", "mark", "abort"}
    BY <1>0, <2>2, <2>4 DEF OpenInv, Live
  <2>6. sockets_'[s][id].state = sockets_[s][id].state
    BY <2>4, <2>5 DEF Evolves, Opening, Synchronized
  <2> QED
    BY <2>2, <2>5, <2>6
<1>5. CASE ~ UNCHANGED vars /\ \E v \in Thread : ThreadStep(v)
  <2>1. PICK v \in Thread : ThreadStep(v)
    BY <1>5
  <2>2. PICK w : pc' = [pc EXCEPT ![v] = w] /\ Enters(v, w)
    BY <2>1, PcMoves DEF Moves
  <2>3. DOMAIN pc = Thread
    BY DEF TypeInv, AppType, CallsType, PcType
  <2>4. pc'[v] = w /\ \A u \in Thread \ {v} : pc'[u] = pc[u]
    BY <2>2, <2>3
  <2>5. pc[v] = Ready => SingleOpener(v)
    BY <1>5, <2>1 DEF Calling
  <2>6. CASE t # v
    <3>1. pc[t].at = "opening" /\ pc[t].id = id
      BY <1>0, <2>4, <2>6
    <3>2. id \in 1 .. next_id_[s] - 1
      BY <1>0, <1>6, <3>1, PointedIds
    <3>3. Survives(v, s, id)
      BY <1>1, <2>1, <3>2, ThreadBlocks
    <3>4. /\ sockets_[s][id].state \in {"CLOSED", "LISTEN"}
          /\ \A u \in Thread : u # t /\ Home[u] = s /\ pc[u].id = id =>
               pc[u].at \notin {"opening", "flush", "wake", "mark", "abort"}
      BY <1>0, <3>1, <3>3 DEF OpenInv, Live, Survives
    <3>5. sockets_'[s][id].state \in {"CLOSED", "LISTEN"}
      BY <2>6, <3>3, <3>4 DEF Survives, Acts
    <3>6. ~ (Home[v] = s /\ w.id = id /\ w.at \in {"opening", "flush", "wake", "mark", "abort"})
      <4> SUFFICES ASSUME Home[v] = s, w.id = id, w.at \in {"opening", "flush", "wake", "mark", "abort"}
                   PROVE  FALSE
        OBVIOUS
      <4>1. CASE pc[v].id = id /\ pc[v].at \in {"flush", "wake"}
        BY <2>6, <3>4, <4>1
      <4>2. CASE id = RegisteredId(s, Mine(v)) /\ ConnectRegister(v)
        <5>1. id = Mine(v) /\ Live(s, id)
          BY <3>2, <4>2, PointedIds DEF RegisteredId
        <5>2. ~ Handled(s, id, {"opening", "flush", "wake", "mark", "abort"})
          BY <2>5, <4>2, <5>1 DEF ConnectRegister, Starts, Arg, SingleOpener
        <5> QED
          BY <1>0, <3>1, <5>2 DEF Handled
      <4>3. CASE id = Mine(v) /\ Live(s, id) /\ CloseCheck(v)
        <5>1. ~ Handled(s, id, {"opening"})
          BY <2>5, <4>3 DEF CloseCheck, Starts, Arg, SingleOpener
        <5> QED
          BY <1>0, <3>1, <5>1 DEF Handled
      <4> QED
        BY <2>2, <4>1, <4>2, <4>3 DEF Enters
    <3> QED
      BY <2>4, <3>4, <3>5, <3>6
  <2>7. CASE t = v
    <3>1. w.at = "opening" /\ w.id = id
      BY <1>0, <2>4, <2>7
    <3>2. ConnectRegister(t) /\ id = RegisteredId(s, Mine(t)) /\ pc[t] = Ready
      BY <1>0, <2>2, <2>7, <3>1 DEF Enters, ConnectRegister, Starts
    <3>3. \A u \in Thread \ {t} : pc'[u] = pc[u]
      BY <2>4, <2>7
    <3>4. PICK asked, remote, mine : register_connection(s, asked, remote, mine) /\ mine = Mine(t)
      BY <1>0, <3>2 DEF ConnectRegister
    <3>5. PICK local : local = <<asked[1], PortOf(s, asked[2])>>
      OBVIOUS
    <3>6. SocketsType /\ IdsType
      BY DEF TypeInv, StackType, TablesType
    <3>7. Registered(s, mine, local, remote)
      BY <1>1, <3>4, <3>5, <3>6, RegisterBlocks
    <3>8. CASE Live(s, mine)
      <4>1. id = mine
        BY <3>2, <3>4, <3>8 DEF RegisteredId
      <4>2. PICK d : SetTcb(s, id, d) /\ d.state = sockets_[s][id].state
        BY <3>7, <3>8, <4>1 DEF Registered, Rehomed
      <4>3. sockets_'[s][id] = d
        BY <1>1, <3>6, <3>8, <4>1, <4>2, AfterSet DEF Live
      <4>4. /\ sockets_[s][id].state \in {"CLOSED", "LISTEN"}
            /\ ~ Handled(s, id, {"opening", "flush", "wake", "mark", "abort"})
        BY <1>0, <2>5, <2>7, <3>2, <3>4, <3>8, <4>1 DEF ConnectRegister, Starts, Arg, SingleOpener
      <4> QED
        BY <3>3, <4>2, <4>3, <4>4 DEF Handled
    <3>9. CASE ~ Live(s, mine)
      <4>1. id = next_id_[s]
        BY <3>2, <3>4, <3>9 DEF RegisteredId
      <4>2. Added(s, next_id_[s], Tcb("CLOSED", local, remote))
        BY <3>7, <3>9 DEF Registered
      <4>3. sockets_'[s][id].state = "CLOSED"
        <5>1. sockets_'[s][id] = Tcb("CLOSED", local, remote)
          BY <1>1, <4>1, <4>2 DEF Added
        <5> QED
          BY <5>1 DEF Tcb
      <4>4. \A u \in Thread : Home[u] = s => pc[u].id # id
        BY <4>1, PointedIds
      <4> QED
        BY <3>3, <4>3, <4>4
    <3> QED
      BY <3>8, <3>9
  <2> QED
    BY <2>6, <2>7
<1> QED
  BY <1>3, <1>4, <1>5 DEF Next

\* The states of one block before and after a step.
OpensNext ==
    \A s \in Stack : \A id \in (DOMAIN sockets_[s]) \cap DOMAIN sockets_'[s] :
      LET from == sockets_[s][id].state
          to == sockets_'[s][id].state
      IN  /\ to = "ESTABLISHED" => from \in Opening \cup {"ESTABLISHED"}
          /\ from \in Synchronized \ Opening => to \notin Opening \cup {"LISTEN"}
\* With that, every step opens connections only where OpensOnce lets it.
LEMMA OpensStep ==
  ASSUME TypeInv, OpenInv, [Next]_vars
  PROVE  [OpensNext]_vars
<1>0. SUFFICES ASSUME ~ UNCHANGED vars, NEW s \in Stack,
                      NEW id \in DOMAIN sockets_[s], id \in DOMAIN sockets_'[s],
                      NEW from, from = sockets_[s][id].state, NEW to, to = sockets_'[s][id].state
               PROVE  /\ to = "ESTABLISHED" => from \in Opening \cup {"ESTABLISHED"}
                      /\ from \in Synchronized \ Opening => to \notin Opening \cup {"LISTEN"}
  BY DEF OpensNext
<1>1. id \in 1 .. next_id_[s] - 1
  BY DEF TypeInv, StackType, TablesType, SocketsType, SocketTable
<1>2. CASE StackNext
  <2>1. PICK q \in Stack : Shape(q)
    BY <1>2, StackShape DEF TypeInv
  <2>2. Evolves(sockets_[s][id], sockets_'[s][id])
    BY <1>0, <1>1, <2>1, ShapeBlocks DEF TypeInv
  <2> QED
    BY <1>0, <2>2 DEF Evolves, Opening, Synchronized
<1>3. CASE \E t \in Thread : ThreadStep(t)
  <2>1. PICK t \in Thread : ThreadStep(t)
    BY <1>3
  <2>2. Acts(t, s, id, from, to)
    <3>1. Survives(t, s, id)
      BY <1>0, <1>1, <2>1, ThreadBlocks
    <3> QED
      BY <1>0, <3>1 DEF Survives, Acts
  <2>3. s = Home[t] /\ id = pc[t].id /\ pc[t].at = "opening" => from \in {"CLOSED", "LISTEN"}
    BY <1>0 DEF OpenInv, Live
  <2> QED
    BY <2>2, <2>3 DEF Acts, Opening, Synchronized
<1> QED
  BY <1>0, <1>2, <1>3 DEF Next

\* Nobody is in connect initially.
LEMMA OpenInit == Init => OpenInv
  BY DEF Init, OpenInv, Ready

\* A connection is opened once, whatever the network does and however the threads
\* interleave: a socket becomes ESTABLISHED only out of a handshake, and one that
\* has been through a handshake never goes back to a state from which a connection
\* is opened.  connect is not called on a socket that another thread is connecting
\* or closing, or that has been connected already, and close not while another
\* thread is in connect on it.
THEOREM ConnectionsOpenOnce ==
  Spec /\ [][\A t \in Thread : Calling(t) => SingleOpener(t)]_vars => OpensOnce
<1>1. Init => TypeInv /\ OpenInv
  BY TypeInit, OpenInit
<1>2. TypeInv /\ OpenInv /\ [Next]_vars /\ [\A t \in Thread : Calling(t) => SingleOpener(t)]_vars
        => TypeInv' /\ OpenInv'
  BY TypeStep, OpenStep
<1>3. TypeInv /\ OpenInv /\ [Next]_vars => [OpensNext]_vars
  BY OpensStep
<1>4. Spec /\ [][\A t \in Thread : Calling(t) => SingleOpener(t)]_vars => [][OpensNext]_vars
  BY <1>1, <1>2, <1>3, PTL DEF Spec
<1> QED
  BY <1>4 DEF OpensOnce, OpensNext

-----------------------------------------------------------------------------
(* Routes lead to the blocks of their 4-tuples.  First the tables alone: f   *)
(* and g are the sockets and the routes of a stack before a step, f2 and g2  *)
(* after it.                                                                *)

\* A step that keeps the tables exact, and the routes of the blocks it keeps.
Progress(f, g, f2, g2) ==
    /\ Exact(f2, g2) /\ Right(f2, g2)
    /\ \A id \in DOMAIN f2 : Reaches(f, g, id) => Reaches(f2, g2, id)

\* Blocks that stay do so at their addresses, in a state their route allows.
Rests(f, g, j, c) ==
    /\ c.src = f[j].src /\ c.dst = f[j].dst
    /\ c.state \notin {"CLOSED", "LISTEN"} => Reaches(f, g, j)
    /\ c.state = "LISTEN" => ~ Reaches(f, g, j)
Revised(f, g, f2) == DOMAIN f2 \subseteq DOMAIN f /\ \A j \in DOMAIN f2 : Rests(f, g, j, f2[j])
\* Blocks that change in place keep the tables in order.
LEMMA RevisedProgress ==
  ASSUME NEW f, NEW g, NEW f2, Revised(f, g, f2), DOMAIN f2 = DOMAIN f, Exact(f, g)
  PROVE  Progress(f, g, f2, g)
<1>1. \A j \in DOMAIN f2 : Reaches(f2, g, j) <=> Reaches(f, g, j)
  BY DEF Revised, Rests, Reaches
<1>2. Exact(f2, g)
  BY DEF Revised, Rests, Exact
<1>3. Right(f2, g)
  BY <1>1 DEF Revised, Rests, Right
<1> QED
  BY <1>1, <1>2, <1>3 DEF Progress

\* A route goes together with the block it leads to.
Dropped(f, g, f2, g2) ==
    \E k \in DOMAIN g : DOMAIN f2 = DOMAIN f \ {g[k]} /\ g2 = Remove(g, k)
\* So does a block that goes with its route.
LEMMA DroppedProgress ==
  ASSUME NEW f, NEW g, NEW f2, NEW g2, Revised(f, g, f2), Dropped(f, g, f2, g2), Exact(f, g)
  PROVE  Progress(f, g, f2, g2)
<1>0. PICK k \in DOMAIN g : DOMAIN f2 = DOMAIN f \ {g[k]} /\ g2 = Remove(g, k)
  BY DEF Dropped
<1>1. DOMAIN g2 = DOMAIN g \ {k} /\ \A x \in DOMAIN g2 : g2[x] = g[x]
  BY <1>0 DEF Remove
<1>2. \A j \in DOMAIN f2 : Reaches(f2, g2, j) <=> Reaches(f, g, j)
  BY <1>0, <1>1 DEF Revised, Rests, Reaches
<1>3. Exact(f2, g2)
  BY <1>0, <1>1 DEF Revised, Rests, Exact
<1>4. Right(f2, g2)
  BY <1>2 DEF Revised, Rests, Right
<1> QED
  BY <1>2, <1>3, <1>4 DEF Progress

\* A new block, with or without a route of its own.
Fresh(f, g, m) == m \notin DOMAIN f /\ \A k \in DOMAIN g : g[k] # m
Vacant(f, g, key) == \A x \in DOMAIN f : Reaches(f, g, x) => <<f[x].dst, f[x].src>> # key
\* A new block without a route is no harm,
LEMMA BoundProgress ==
  ASSUME NEW f, NEW g, NEW m, NEW c, Fresh(f, g, m), c.state = "CLOSED", Exact(f, g), Right(f, g)
  PROVE  Progress(f, g, Put(f, m, c), g)
<1> DEFINE f2 == Put(f, m, c)
<1>1. DOMAIN f2 = DOMAIN f \cup {m} /\ f2[m] = c /\ \A x \in DOMAIN f : f2[x] = f[x]
  BY DEF Put, Fresh
<1> HIDE DEF f2
<1>2. \A j \in DOMAIN f : Reaches(f2, g, j) <=> Reaches(f, g, j)
  BY <1>1 DEF Reaches
<1>3. Exact(f2, g)
  BY <1>1 DEF Exact, Fresh
<1>4. Right(f2, g)
  BY <1>1, <1>2 DEF Right
<1>5. Progress(f, g, f2, g)
  BY <1>1, <1>2, <1>3, <1>4 DEF Progress, Reaches
<1> QED
  BY <1>5 DEF f2
\* nor is one with a route nobody had.
LEMMA OpenedProgress ==
  ASSUME NEW f, NEW g, NEW m, NEW c, NEW key, key = <<c.dst, c.src>>, Fresh(f, g, m),
         Vacant(f, g, key), c.state # "LISTEN", Exact(f, g), Right(f, g)
  PROVE  Progress(f, g, Put(f, m, c), Put(g, key, m)) /\ Reaches(Put(f, m, c), Put(g, key, m), m)
<1> DEFINE f2 == Put(f, m, c)
           g2 == Put(g, key, m)
<1>1. DOMAIN f2 = DOMAIN f \cup {m} /\ f2[m] = c /\ \A x \in DOMAIN f : f2[x] = f[x]
  BY DEF Put, Fresh
<1>2. DOMAIN g2 = DOMAIN g \cup {key} /\ g2[key] = m /\ \A x \in DOMAIN g \ {key} : g2[x] = g[x]
  BY DEF Put
<1> HIDE DEF f2, g2
<1>3. \A j \in DOMAIN f : Reaches(f2, g2, j) <=> Reaches(f, g, j)
  BY <1>1, <1>2 DEF Reaches, Fresh, Vacant
<1>4. Exact(f2, g2)
  BY <1>1, <1>2 DEF Exact, Fresh
<1>5. Reaches(f2, g2, m)
  BY <1>1, <1>2 DEF Reaches
<1>6. Right(f2, g2)
  BY <1>1, <1>3, <1>5 DEF Right
<1>7. Progress(f, g, f2, g2)
  BY <1>1, <1>3, <1>4, <1>5, <1>6 DEF Progress
<1> QED
  BY <1>5, <1>7 DEF f2, g2

\* A CLOSED block that has no route gets one, and the addresses that go with it.
Redirected(f, id, c, f2) ==
    DOMAIN f2 = DOMAIN f /\ \A j \in DOMAIN f : f2[j] = IF j = id THEN c ELSE f[j]
\* The route a program asks for, given to a block that had none.
LEMMA RedirectedProgress ==
  ASSUME NEW f, NEW g, NEW id \in DOMAIN f, NEW c, NEW f2, Redirected(f, id, c, f2),
         NEW key, key = <<c.dst, c.src>>, Vacant(f, g, key), ~ Reaches(f, g, id),
         c.state = "CLOSED", Exact(f, g), Right(f, g)
  PROVE  Progress(f, g, f2, Put(g, key, id)) /\ Reaches(f2, Put(g, key, id), id)
<1> DEFINE g2 == Put(g, key, id)
<1>1. DOMAIN f2 = DOMAIN f /\ f2[id] = c /\ \A x \in DOMAIN f \ {id} : f2[x] = f[x]
  BY DEF Redirected
<1>2. DOMAIN g2 = DOMAIN g \cup {key} /\ g2[key] = id /\ \A x \in DOMAIN g \ {key} : g2[x] = g[x]
  BY DEF Put
<1> HIDE DEF g2
<1>3. \A k \in DOMAIN g : g[k] # id
  BY DEF Exact, Reaches
<1>4. \A j \in DOMAIN f \ {id} : Reaches(f2, g2, j) <=> Reaches(f, g, j)
  BY <1>1, <1>2 DEF Reaches, Vacant
<1>5. Exact(f2, g2)
  BY <1>1, <1>2, <1>3 DEF Exact
<1>6. Reaches(f2, g2, id)
  BY <1>1, <1>2 DEF Reaches
<1>7. Right(f2, g2)
  BY <1>1, <1>4 DEF Right
<1>8. Progress(f, g, f2, g2)
  BY <1>1, <1>4, <1>5, <1>6, <1>7 DEF Progress
<1> QED
  BY <1>6, <1>8 DEF g2

\* A step works on the tables of one stack.
OnlyStack(s) ==
    \A r \in Stack \ {s} : sockets_'[r] = sockets_[r] /\ connections_'[r] = connections_[r]
\* The tables of every stack after a step.
RoutesKept ==
    \A r \in Stack : Progress(sockets_[r], connections_[r], sockets_'[r], connections_'[r])
PortsKept == \A r \in Stack : Below(sockets_'[r], listeners_'[r], next_port')
\* Tables nobody touches stay in order.
LEMMA SameProgress ==
  ASSUME NEW f, NEW g, Exact(f, g), Right(f, g)
  PROVE  Progress(f, g, f, g)
  BY DEF Progress
\* A step on one stack keeps the tables of all.
LEMMA OneStackProgress ==
  ASSUME TablesRouted, NEW s \in Stack, OnlyStack(s),
         Progress(sockets_[s], connections_[s], sockets_'[s], connections_'[s])
  PROVE  RoutesKept
<1> SUFFICES ASSUME NEW r \in Stack
             PROVE  Progress(sockets_[r], connections_[r], sockets_'[r], connections_'[r])
  BY DEF RoutesKept
<1>1. CASE r = s
  BY <1>1
<1>2. CASE r # s
  <2>1. PICK f, g : f = sockets_[r] /\ g = connections_[r]
    OBVIOUS
  <2>2. sockets_'[r] = f /\ connections_'[r] = g
    BY <1>2, <2>1 DEF OnlyStack
  <2>3. Progress(f, g, f, g)
    BY <2>1, SameProgress DEF TablesRouted
  <2> QED
    BY <2>1, <2>2, <2>3
<1> QED
  BY <1>1, <1>2
\* A step that only changes blocks in place.
LEMMA RevisedStep ==
  ASSUME TablesRouted, UNCHANGED <<listeners_, next_port>>, NEW s \in Stack, OnlyStack(s),
         Revised(sockets_[s], connections_[s], sockets_'[s]),
         \/ DOMAIN sockets_'[s] = DOMAIN sockets_[s] /\ connections_'[s] = connections_[s]
         \/ Dropped(sockets_[s], connections_[s], sockets_'[s], connections_'[s])
  PROVE  RoutesKept /\ PortsKept
<1>1. PICK f, g, f2, g2 : f = sockets_[s] /\ g = connections_[s] /\ f2 = sockets_'[s] /\ g2 = connections_'[s]
  OBVIOUS
<1>2. Exact(f, g) /\ Right(f, g) /\ Below(f, listeners_[s], next_port)
  BY <1>1 DEF TablesRouted
<1>3. Revised(f, g, f2) /\ ((DOMAIN f2 = DOMAIN f /\ g2 = g) \/ Dropped(f, g, f2, g2))
  BY <1>1
<1>4. Progress(f, g, f2, g2)
  BY <1>2, <1>3, RevisedProgress, DroppedProgress
<1>5. RoutesKept
  BY <1>1, <1>4, OneStackProgress
<1>6. \A r \in Stack : Below(sockets_'[r], listeners_'[r], next_port')
  <2> SUFFICES ASSUME NEW r \in Stack
               PROVE  Below(sockets_'[r], listeners_[r], next_port)
    OBVIOUS
  <2>1. CASE r = s
    <3>1. Below(f2, listeners_[s], next_port)
      BY <1>2, <1>3 DEF Below, Revised, Rests
    <3> QED
      BY <1>1, <2>1, <3>1
  <2>2. CASE r # s
    BY <2>2 DEF OnlyStack, TablesRouted
  <2> QED
    BY <2>1, <2>2
<1> QED
  BY <1>5, <1>6 DEF PortsKept

\* A block that only changes its state, out of an opened one if at all.
LEMMA EvolvesRests ==
  ASSUME NEW f, NEW g, Right(f, g), NEW j \in DOMAIN f, NEW c, Evolves(f[j], c)
  PROVE  Rests(f, g, j, c)
  BY DEF Right, Evolves, Rests, Opening, Synchronized, States

\* The route that goes with a destroyed connection.
LEMMA DestroyRoutes ==
  ASSUME TablesType, NEW s \in Stack, NEW id \in DOMAIN sockets_[s], NEW d, NEW remote, NEW local,
         DestroyConnection(s, id, d, remote, local)
  PROVE  /\ OnlyStack(s)
         /\ \/ DOMAIN sockets_'[s] = DOMAIN sockets_[s] /\ connections_'[s] = connections_[s]
            \/ Dropped(sockets_[s], connections_[s], sockets_'[s], connections_'[s])
<1> DEFINE key == <<remote, local>>
<1>0. DOMAIN sockets_ = Stack /\ DOMAIN connections_ = Stack
  BY DEF TablesType, SocketsType, RoutesType
<1>1. CASE key \in DOMAIN connections_[s]
  <2>1. /\ connections_' = [connections_ EXCEPT ![s] = Remove(@, key)]
        /\ sockets_' = [sockets_ EXCEPT ![s] = Remove([sockets_[s] EXCEPT ![id] = d], connections_[s][key])]
    BY <1>1 DEF DestroyConnection
  <2>2. connections_'[s] = Remove(connections_[s], key)
    BY <1>0, <2>1
  <2>3. DOMAIN sockets_'[s] = DOMAIN sockets_[s] \ {connections_[s][key]}
    BY <1>0, <2>1 DEF Remove
  <2>4. OnlyStack(s)
    BY <1>0, <2>1 DEF OnlyStack
  <2> QED
    BY <1>1, <2>2, <2>3, <2>4 DEF Dropped
<1>2. CASE key \notin DOMAIN connections_[s]
  BY <1>0, <1>2 DEF DestroyConnection, SetTcb, OnlyStack
<1> QED
  BY <1>1, <1>2

\* A reset handshake loses block and route together.
LEMMA ResetRoutes ==
  ASSUME TablesType, TablesRouted, NEW s \in Stack, Resets(s)
  PROVE  OnlyStack(s) /\ Dropped(sockets_[s], connections_[s], sockets_'[s], connections_'[s])
<1>0. DOMAIN sockets_ = Stack /\ DOMAIN connections_ = Stack
  BY DEF TablesType, SocketsType, RoutesType
<1>1. PICK p, id : /\ p \in Segment /\ id = FindConnection(s, p.src, p.dst) /\ id # 0
                   /\ sockets_' = [sockets_ EXCEPT ![s] = Remove(@, id)]
                   /\ connections_' = [connections_ EXCEPT ![s] = Remove(@, <<p.src, sockets_[s][id].src>>)]
  BY DEF Resets
<1>2. PICK key : key = <<p.src, p.dst>>
  OBVIOUS
<1>3. key \in DOMAIN connections_[s] /\ connections_[s][key] = id /\ id \in DOMAIN sockets_[s]
  BY <1>1, <1>2 DEF FindConnection, Live
<1>4. key = <<sockets_[s][id].dst, sockets_[s][id].src>>
  BY <1>3 DEF TablesRouted, Exact
<1>5. key = <<p.src, sockets_[s][id].src>>
  BY <1>2, <1>4
<1>6. connections_'[s] = Remove(connections_[s], key) /\ DOMAIN sockets_'[s] = DOMAIN sockets_[s] \ {id}
  BY <1>0, <1>1, <1>5 DEF Remove
<1>7. OnlyStack(s)
  BY <1>0, <1>1 DEF OnlyStack
<1> QED
  BY <1>3, <1>6, <1>7 DEF Dropped

\* The steps of the daemon that open no connection.
LEMMA RestRoutes ==
  ASSUME StackType, TablesRouted, UNCHANGED <<listeners_, next_port>>, NEW s \in Stack,
         Updates(s) \/ Enqueues(s) \/ Resets(s) \/ Destroys(s)
  PROVE  RoutesKept /\ PortsKept
<1>0. DOMAIN sockets_ = Stack /\ DOMAIN connections_ = Stack /\ SocketsType /\ TablesType
  BY DEF StackType, TablesType, SocketsType, RoutesType
<1>1. /\ OnlyStack(s) /\ DOMAIN sockets_'[s] \subseteq DOMAIN sockets_[s]
      /\ \/ DOMAIN sockets_'[s] = DOMAIN sockets_[s] /\ connections_'[s] = connections_[s]
         \/ Dropped(sockets_[s], connections_[s], sockets_'[s], connections_'[s])
  <2>1. CASE Updates(s)
    BY <1>0, <2>1 DEF Updates, SetTcb, OnlyStack
  <2>2. CASE Enqueues(s)
    <3>0. UNCHANGED connections_
      BY <2>2 DEF Enqueues
    <3>1. PICK id \in DOMAIN sockets_[s], d \in Good(next_id_[s]) :
            LET c == sockets_[s][id]
                l == FindListener(s, c.src[2])
                stored == [sockets_[s] EXCEPT ![id] = d]
            IN  sockets_' = [sockets_ EXCEPT ![s] =
                  IF l = 0 THEN stored ELSE [stored EXCEPT ![l].accept_queue = Append(@, id)]]
      BY <2>2 DEF Enqueues
    <3>2. PICK l, stored : l = FindListener(s, sockets_[s][id].src[2]) /\ stored = [sockets_[s] EXCEPT ![id] = d]
      OBVIOUS
    <3>3. PICK f2 : f2 = IF l = 0 THEN stored ELSE [stored EXCEPT ![l].accept_queue = Append(@, id)]
      OBVIOUS
    <3>4. DOMAIN f2 = DOMAIN sockets_[s]
      BY <3>2, <3>3
    <3>5. sockets_' = [sockets_ EXCEPT ![s] = f2]
      BY <3>1, <3>2, <3>3
    <3> QED
      BY <1>0, <3>0, <3>4, <3>5 DEF OnlyStack
  <2>3. CASE Resets(s)
    BY <1>0, <2>3, ResetRoutes DEF Dropped
  <2>4. CASE Destroys(s)
    <3>1. PICK id, d, x, y : id \in DOMAIN sockets_[s] /\ DestroyConnection(s, id, d, x, y)
      BY <2>4 DEF Destroys
    <3> QED
      BY <1>0, <3>1, DestroyRoutes DEF Dropped
  <2> QED
    BY <2>1, <2>2, <2>3, <2>4
<1>2. Revised(sockets_[s], connections_[s], sockets_'[s])
  <2>1. PICK f, g, f2 : f = sockets_[s] /\ g = connections_[s] /\ f2 = sockets_'[s]
    OBVIOUS
  <2>2. \A j \in DOMAIN f2 : j \in DOMAIN f /\ Evolves(f[j], f2[j])
    <3>1. Shape(s)
      BY DEF Shape
    <3>2. DOMAIN sockets_[s] \subseteq 1 .. next_id_[s] - 1
      BY <1>0 DEF SocketsType, SocketTable
    <3> QED
      BY <1>1, <2>1, <3>1, <3>2, ShapeBlocks
  <2>3. Right(f, g)
    BY <2>1 DEF TablesRouted
  <2>4. Revised(f, g, f2)
    BY <2>2, <2>3, EvolvesRests DEF Revised
  <2> QED
    BY <2>1, <2>4
<1> QED
  BY <1>1, <1>2, RevisedStep

\* A socket id that has not been handed out is nowhere.
LEMMA FreshId ==
  ASSUME TablesType, NEW s \in Stack
  PROVE  Fresh(sockets_[s], connections_[s], next_id_[s])
  BY DEF TablesType, IdsType, SocketsType, SocketTable, RoutesType, IdTable, Fresh

\* A child is in SYN_RECEIVED, at the addresses of its SYN.
LEMMA ChildFields ==
  ASSUME NEW p, NEW iss
  PROVE  LET c == Child(p, iss) IN
         c.src = p.dst /\ c.dst = p.src /\ c.state = "SYN_RECEIVED" /\ c.accept_queue = <<>>
  BY DEF Child, Tcb
\* A new block is as it was asked for.
LEMMA TcbFields ==
  ASSUME NEW st, NEW src, NEW dst
  PROVE  LET c == Tcb(st, src, dst) IN
         c.src = src /\ c.dst = dst /\ c.state = st /\ c.accept_queue = <<>>
  BY DEF Tcb

\* The ports of the blocks and listeners are numbers, so the counter may go on.
LEMMA BelowGrows ==
  ASSUME TablesType, PortType, TablesRouted, NEW r \in Stack, NEW n \in Nat, next_port <= n
  PROVE  Below(sockets_[r], listeners_[r], n)
<1>1. \A id \in DOMAIN sockets_[r] : sockets_[r][id].src[2] \in Nat
  <2> SUFFICES ASSUME NEW id \in DOMAIN sockets_[r]
               PROVE  sockets_[r][id].src[2] \in Nat
    OBVIOUS
  <2>1. sockets_[r][id] \in Good(next_id_[r])
    BY Found DEF TablesType, Live
  <2>2. sockets_[r][id].src \in Addr
    BY <2>1 DEF Good, Block
  <2> QED
    BY <2>2 DEF Addr
<1>2. DOMAIN listeners_[r] \subseteq Nat
  BY DEF TablesType, ListenersType, IdTable
<1>3. Below(sockets_[r], listeners_[r], next_port) /\ next_port \in Nat
  BY DEF TablesRouted, PortType
<1> QED
  BY <1>1, <1>2, <1>3 DEF Below
\* A step that takes no port keeps the ports in use below the counter.
LEMMA PortsGrow ==
  ASSUME TablesType, PortType, PortType', TablesRouted, NEW s \in Stack, OnlyStack(s),
         \A r \in Stack \ {s} : listeners_'[r] = listeners_[r],
         next_port <= next_port', Below(sockets_'[s], listeners_'[s], next_port')
  PROVE  PortsKept
<1> SUFFICES ASSUME NEW r \in Stack
             PROVE  Below(sockets_'[r], listeners_'[r], next_port')
  BY DEF PortsKept
<1>1. CASE r = s
  BY <1>1
<1>2. CASE r # s
  <2>1. PICK n : n = next_port'
    OBVIOUS
  <2>2. n \in Nat /\ next_port <= n
    BY <2>1 DEF PortType
  <2>3. Below(sockets_[r], listeners_[r], n)
    BY <2>2, BelowGrows
  <2> QED
    BY <1>2, <2>1, <2>3 DEF OnlyStack
<1> QED
  BY <1>1, <1>2

\* A SYN opens a connection: nothing it could take the route of is opened.
LEMMA SpawnRoutes ==
  ASSUME StackType, PortType, TablesRouted, UNCHANGED <<listeners_, next_port>>, NEW s \in Stack, Spawns(s)
  PROVE  RoutesKept /\ PortsKept
<1>0. DOMAIN sockets_ = Stack /\ DOMAIN connections_ = Stack /\ TablesType
  BY DEF StackType, TablesType, SocketsType, RoutesType
<1>1. PICK p \in Segment, iss \in ISN :
        LET id == FindConnection(s, p.src, p.dst) IN
        /\ id # 0 => sockets_[s][id].state = "LISTEN"
        /\ FindListener(s, p.dst[2]) # 0
        /\ sockets_' = [sockets_ EXCEPT ![s] = Put(@, next_id_[s], Child(p, iss))]
        /\ connections_' = [connections_ EXCEPT ![s] = Put(@, <<p.src, p.dst>>, next_id_[s])]
  BY DEF Spawns
<1>2. PICK f, g, m, c, key : /\ f = sockets_[s] /\ g = connections_[s] /\ m = next_id_[s]
                             /\ c = Child(p, iss) /\ key = <<p.src, p.dst>>
  OBVIOUS
<1>3. c.src = p.dst /\ c.dst = p.src /\ c.state = "SYN_RECEIVED" /\ key = <<c.dst, c.src>>
  BY <1>2, ChildFields
<1>4. sockets_'[s] = Put(f, m, c) /\ connections_'[s] = Put(g, key, m) /\ OnlyStack(s)
  BY <1>0, <1>1, <1>2 DEF OnlyStack
<1>5. Fresh(f, g, m) /\ Exact(f, g) /\ Right(f, g)
  BY <1>0, <1>2, FreshId DEF TablesRouted
<1>6. Vacant(f, g, key)
  <2> SUFFICES ASSUME NEW x \in DOMAIN f, Reaches(f, g, x), <<f[x].dst, f[x].src>> = key
               PROVE  FALSE
    BY DEF Vacant
  <2>1. key \in DOMAIN g /\ g[key] = x
    BY DEF Reaches
  <2>2. FindConnection(s, p.src, p.dst) = x
    BY <1>2, <2>1 DEF FindConnection, Live
  <2>3. x # 0
    BY <1>0, <1>2 DEF TablesType, SocketsType, SocketTable
  <2> QED
    BY <1>1, <1>2, <1>5, <2>2, <2>3 DEF Right
<1>7. Progress(f, g, Put(f, m, c), Put(g, key, m))
  BY <1>3, <1>5, <1>6, OpenedProgress
<1>8. RoutesKept
  BY <1>2, <1>4, <1>7, OneStackProgress
<1>9. Below(sockets_'[s], listeners_'[s], next_port')
  <2>1. Below(f, listeners_[s], next_port)
    BY <1>2 DEF TablesRouted
  <2>2. p.dst[2] \in DOMAIN listeners_[s]
    BY <1>1, FoundListener
  <2>3. c.src[2] < next_port
    BY <1>3, <2>1, <2>2 DEF Below
  <2>4. Below(Put(f, m, c), listeners_[s], next_port)
    BY <2>1, <2>3 DEF Below, Put
  <2> QED
    BY <1>4, <2>4
<1>10. PortsKept
  BY <1>0, <1>4, <1>9, PortsGrow DEF PortType
<1> QED
  BY <1>8, <1>10

\* No step of a stack breaks a route.
LEMMA StackRoutes ==
  ASSUME StackType, DaemonType, PortType, TablesRouted, StackNext, UNCHANGED next_port
  PROVE  RoutesKept /\ PortsKept
<1>1. PICK s \in Stack : Shape(s)
  BY StackShape
<1>2. UNCHANGED listeners_
  BY StackShape
<1> QED
  BY <1>1, <1>2, RestRoutes, SpawnRoutes DEF Shape

-----------------------------------------------------------------------------
(* The routes and the calls.                                                *)

\* The port a bind or a connect takes.
LEMMA TakenPort ==
  ASSUME ListenersType, PortType, NEW s \in Stack, NEW port \in Nat, Allocate(s, port),
         port < next_port
  PROVE  /\ PortType' /\ next_port <= next_port' /\ PortOf(s, port) < next_port'
         /\ port = 0 => PortOf(s, port) >= next_port
         /\ port # 0 => PortOf(s, port) = port
         /\ PortOf(s, port) \in Nat
  BY PortTypes, FreePortType DEF PortOf, Allocate, PortType

\* The calls that touch one block keep the routes,
LEMMA TouchRoutes ==
  ASSUME TypeInv, RouteInv, NEW t \in Thread, prog[t] # <<>>, Touches(t),
         pc[t] = Ready => SingleRoutes(t)
  PROVE  RoutesKept /\ PortsKept
<1> DEFINE s == Home[t]
<1>0. s \in Stack /\ DOMAIN sockets_ = Stack /\ SocketsType /\ TablesRouted
      /\ UNCHANGED <<connections_, listeners_, next_port>>
  BY HomeAssumption DEF TypeInv, StackType, TablesType, SocketsType, RouteInv, Touches
<1>1. PICK f, g, f2 : f = sockets_[s] /\ g = connections_[s] /\ f2 = sockets_'[s]
  OBVIOUS
<1>2. Right(f, g)
  BY <1>0, <1>1 DEF TablesRouted
<1>3. DOMAIN f2 = DOMAIN f /\ OnlyStack(s) /\ Revised(f, g, f2)
  <2>1. CASE UNCHANGED sockets_
    BY <1>0, <1>1, <1>2, <2>1 DEF OnlyStack, Revised, Rests, Right
  <2>2. CASE ~ UNCHANGED sockets_
    <3>1. PICK id, d : id \in DOMAIN f /\ Edits(t, id, d)
      BY <1>1, <2>2 DEF Touches
    <3>2. /\ SetTcb(s, id, d) /\ d.src = f[id].src /\ d.dst = f[id].dst
          /\ Turns(t, id, f[id].state, d.state)
      BY <1>1, <3>1 DEF Edits, SameAddresses
    <3>3. DOMAIN f2 = DOMAIN f /\ OnlyStack(s)
          /\ \A j \in DOMAIN f : f2[j] = IF j = id THEN d ELSE f[j]
      BY <1>0, <1>1, <3>2 DEF SetTcb, OnlyStack
    <3>4. Rests(f, g, id, d)
      <4>1. CASE d.state = f[id].state
        BY <1>2, <3>1, <3>2, <4>1 DEF Rests, Right
      <4>2. CASE pc[t] = Ready /\ Arg(t).op = "listen" /\ id = Mine(t) /\ d.state = "LISTEN"
        <5>1. ~ Routed(s, id)
          BY <4>2 DEF SingleRoutes
        <5>2. ~ Reaches(f, g, id)
          BY <1>1, <5>1 DEF Routed
        <5> QED
          BY <3>2, <4>2, <5>2 DEF Rests
      <4>3. CASE id = pc[t].id /\ pc[t].at \in {"wake", "mark", "opening"} /\ d.state # "LISTEN"
        <5>1. Routed(s, id)
          BY <1>1, <3>1, <4>3 DEF RouteInv, CallsRouted, Live
        <5>2. Reaches(f, g, id)
          BY <1>1, <5>1 DEF Routed
        <5> QED
          BY <3>2, <4>3, <5>2 DEF Rests
      <4> QED
        BY <3>2, <4>1, <4>2, <4>3 DEF Turns
    <3>5. \A j \in DOMAIN f : Rests(f, g, j, f[j])
      BY <1>2 DEF Rests, Right
    <3> QED
      BY <3>3, <3>4, <3>5 DEF Revised
  <2> QED
    BY <2>1, <2>2
<1>4. Revised(sockets_[s], connections_[s], sockets_'[s]) /\ DOMAIN sockets_'[s] = DOMAIN sockets_[s]
      /\ connections_'[s] = connections_[s] /\ OnlyStack(s)
  BY <1>0, <1>1, <1>3
<1> HIDE DEF s
<1> QED
  BY <1>0, <1>4, RevisedStep

\* accept does,
LEMMA AcceptRoutes ==
  ASSUME TypeInv, RouteInv, NEW t \in Thread, prog[t] # <<>>, AcceptReturn(t)
  PROVE  RoutesKept /\ PortsKept
<1> DEFINE s == Home[t]
<1>0. s \in Stack /\ DOMAIN sockets_ = Stack /\ TablesRouted
      /\ UNCHANGED <<connections_, listeners_, next_port>>
  BY HomeAssumption DEF TypeInv, StackType, TablesType, SocketsType, RouteInv, AcceptReturn
<1>1. PICK f, g, f2, id : f = sockets_[s] /\ g = connections_[s] /\ f2 = sockets_'[s] /\ id = pc[t].id
  OBVIOUS
<1>2. Right(f, g)
  BY <1>0, <1>1 DEF TablesRouted
<1>3. PICK d : SetTcb(s, id, d) /\ d.src = f[id].src /\ d.dst = f[id].dst /\ d.state = f[id].state
  <2>1. Popped(s, pc[t].id)
    BY AcceptBlocks
  <2> QED
    BY <1>1, <2>1 DEF Popped
<1>4. DOMAIN f2 = DOMAIN f /\ OnlyStack(s) /\ \A j \in DOMAIN f : f2[j] = IF j = id THEN d ELSE f[j]
  BY <1>0, <1>1, <1>3 DEF SetTcb, OnlyStack
<1>5. Revised(f, g, f2)
  BY <1>2, <1>3, <1>4 DEF Revised, Rests, Right
<1>6. Revised(sockets_[s], connections_[s], sockets_'[s]) /\ DOMAIN sockets_'[s] = DOMAIN sockets_[s]
      /\ connections_'[s] = connections_[s] /\ OnlyStack(s)
  BY <1>0, <1>1, <1>4, <1>5
<1> HIDE DEF s
<1> QED
  BY <1>0, <1>6, RevisedStep

\* and a close that gives up.
LEMMA AbortRoutes ==
  ASSUME TypeInv, RouteInv, NEW t \in Thread, prog[t] # <<>>, CloseAbort(t)
  PROVE  RoutesKept /\ PortsKept
<1> DEFINE s == Home[t]
<1>0. s \in Stack /\ TablesType /\ TablesRouted /\ UNCHANGED <<listeners_, next_port>>
  BY HomeAssumption DEF TypeInv, StackType, RouteInv, CloseAbort
<1>1. PICK f, g, f2, id : f = sockets_[s] /\ g = connections_[s] /\ f2 = sockets_'[s] /\ id = pc[t].id
  OBVIOUS
<1>2. Right(f, g)
  BY <1>0, <1>1 DEF TablesRouted
<1>3. id \in DOMAIN f /\ pc[t].at = "abort"
  BY <1>1, AbortBlocks
<1>4. PICK d, key : Destroyed(s, id, d, key) /\ d.src = f[id].src /\ d.dst = f[id].dst /\ d.state # "LISTEN"
  <2>1. Aborted(s, pc[t].id)
    BY AbortBlocks
  <2> QED
    BY <1>1, <2>1 DEF Aborted, SameAddresses
<1>5. Reaches(f, g, id)
  <2>1. Routed(s, pc[t].id)
    BY <1>1, <1>3 DEF RouteInv, CallsRouted, Live
  <2> QED
    BY <1>1, <2>1 DEF Routed
<1>6. DOMAIN f2 \subseteq DOMAIN f /\ \A j \in DOMAIN f2 : f2[j] = IF j = id THEN d ELSE f[j]
  BY <1>0, <1>1, <1>4 DEF Destroyed
<1>7. Revised(f, g, f2)
  BY <1>2, <1>4, <1>5, <1>6 DEF Revised, Rests, Right
<1>8. /\ OnlyStack(s)
      /\ \/ DOMAIN sockets_'[s] = DOMAIN sockets_[s] /\ connections_'[s] = connections_[s]
         \/ Dropped(sockets_[s], connections_[s], sockets_'[s], connections_'[s])
  <2>1. PICK c, x, y : DestroyConnection(s, id, c, x, y)
    BY <1>1 DEF CloseAbort
  <2>2. id \in DOMAIN sockets_[s]
    BY <1>1, <1>3
  <2> QED
    BY <1>0, <2>1, <2>2, DestroyRoutes
<1>9. Revised(sockets_[s], connections_[s], sockets_'[s])
  BY <1>1, <1>7
<1> HIDE DEF s
<1> QED
  BY <1>0, <1>8, <1>9, RevisedStep

\* The block bind makes, and the port it asks for.
LEMMA BindBlock ==
  ASSUME NEW t, bind(t), NEW s, s = Home[t], NEW m, m = next_id_[s],
         NEW port, port = PortOf(s, Arg(t).addr[2])
  PROVE  \E c : /\ c.state = "CLOSED" /\ c.src[2] = port /\ c.accept_queue = <<>>
                /\ sockets_' = [sockets_ EXCEPT ![s] = Put(@, m, c)]
<1>0. PICK ip : ip = Arg(t).addr[1]
  OBVIOUS
<1>1. PICK iss \in ISN : sockets_' = [sockets_ EXCEPT ![s] = Put(@, m,
         [Tcb("CLOSED", <<ip, port>>, NoAddr) EXCEPT !.iss = iss, !.nxt = iss])]
  <2>1. PICK iss \in ISN : sockets_' = [sockets_ EXCEPT ![s] = Put(@, next_id_[s],
           [Tcb("CLOSED", <<Arg(t).addr[1], PortOf(s, Arg(t).addr[2])>>, NoAddr)
              EXCEPT !.iss = iss, !.nxt = iss])]
    BY DEF bind
  <2> QED
    BY <1>0, <2>1
<1>2. PICK c : c = [Tcb("CLOSED", <<ip, port>>, NoAddr) EXCEPT !.iss = iss, !.nxt = iss]
  OBVIOUS
<1>3. c.state = "CLOSED" /\ c.src = <<ip, port>> /\ c.accept_queue = <<>>
  BY <1>2 DEF Tcb
<1>4. c.src[2] = port
  BY <1>3
<1>5. sockets_' = [sockets_ EXCEPT ![s] = Put(@, m, c)]
  BY <1>1, <1>2
<1> QED
  BY <1>3, <1>4, <1>5
\* A bound port is below the counter afterwards.
LEMMA BindPort ==
  ASSUME TypeInv, NEW t \in Thread, prog[t] # <<>>, bind(t)
  PROVE  /\ Arg(t).op = "bind" /\ Arg(t).addr[2] \in Nat /\ Allocate(Home[t], Arg(t).addr[2])
         /\ Arg(t).o \in Own(t)
<1>1. Arg(t).op = "bind" /\ Arg(t) \in Call(t)
  BY CurrentCall DEF bind, Starts, Arg, TypeInv, AppType, CallsType
<1>2. Arg(t).addr \in (DOMAIN Route) \X Nat /\ Arg(t).o \in Own(t)
  BY <1>1, CallFields
<1> QED
  BY <1>1, <1>2 DEF bind
\* bind keeps the routes,
LEMMA BindRoutes ==
  ASSUME TypeInv, RouteInv, NEW t \in Thread, prog[t] # <<>>, bind(t), SingleRoutes(t)
  PROVE  RoutesKept /\ PortsKept
<1> DEFINE s == Home[t]
<1>0. s \in Stack /\ DOMAIN sockets_ = Stack /\ DOMAIN listeners_ = Stack /\ TablesType /\ TablesRouted
      /\ PortType /\ ListenersType /\ UNCHANGED connections_
  BY HomeAssumption DEF TypeInv, StackType, TablesType, SocketsType, ListenersType, RouteInv, AppType, bind
<1>1. PICK f, g, h, m : f = sockets_[s] /\ g = connections_[s] /\ h = listeners_[s] /\ m = next_id_[s]
  OBVIOUS
<1>2. PICK asked, port : asked = Arg(t).addr[2] /\ port = PortOf(s, asked)
  OBVIOUS
<1>3. Arg(t).op = "bind" /\ asked \in Nat /\ asked < BasePort /\ Allocate(s, asked)
  BY <1>2, BindPort DEF SingleRoutes
<1>4. port < next_port' /\ next_port <= next_port' /\ PortType'
  <2>1. asked < next_port
    BY <1>0, <1>3, PortAssumption DEF PortType
  <2> QED
    BY <1>0, <1>2, <1>3, <2>1, TakenPort
<1>5. PICK c : c.state = "CLOSED" /\ c.src[2] = port /\ sockets_' = [sockets_ EXCEPT ![s] = Put(@, m, c)]
  <2>1. PICK v : v = s
    OBVIOUS
  <2> HIDE DEF s
  <2>2. v = Home[t] /\ m = next_id_[v] /\ port = PortOf(v, Arg(t).addr[2])
    BY <1>1, <1>2, <2>1 DEF s
  <2>3. PICK c : c.state = "CLOSED" /\ c.src[2] = port /\ sockets_' = [sockets_ EXCEPT ![v] = Put(@, m, c)]
    BY <2>2, BindBlock
  <2> QED
    BY <2>1, <2>3
<1>6. sockets_'[s] = Put(f, m, c) /\ connections_'[s] = g /\ OnlyStack(s)
  BY <1>0, <1>1, <1>5 DEF OnlyStack
<1>7. listeners_'[s] = Put(h, port, m) /\ \A r \in Stack \ {s} : listeners_'[r] = listeners_[r]
  BY <1>0, <1>1, <1>2 DEF bind
<1>8. Fresh(f, g, m) /\ Exact(f, g) /\ Right(f, g)
  BY <1>0, <1>1, FreshId DEF TablesRouted
<1>9. Progress(f, g, Put(f, m, c), g)
  BY <1>5, <1>8, BoundProgress
<1>10. RoutesKept
  BY <1>0, <1>1, <1>6, <1>9, OneStackProgress
<1>11. Below(sockets_'[s], listeners_'[s], next_port')
  <2>1. PICK n : n = next_port'
    OBVIOUS
  <2>2. n \in Nat /\ next_port <= n /\ port < n
    BY <1>4, <2>1 DEF PortType
  <2>3. Below(f, h, n)
    BY <1>0, <1>1, <2>2, BelowGrows
  <2>4. Below(Put(f, m, c), Put(h, port, m), n)
    BY <1>5, <2>2, <2>3 DEF Below, Put
  <2> QED
    BY <1>6, <1>7, <2>1, <2>4
<1>12. PortsKept
  BY <1>0, <1>4, <1>6, <1>7, <1>11, PortsGrow
<1> QED
  BY <1>10, <1>12

\* and so does the end of a stack.
LEMMA JoinRoutes ==
  ASSUME TypeInv, RouteInv, NEW t \in Thread, prog[t] # <<>>, Join(t)
  PROVE  RoutesKept /\ PortsKept
<1> DEFINE s == Home[t]
<1>0. s \in Stack /\ DOMAIN sockets_ = Stack /\ DOMAIN connections_ = Stack /\ DOMAIN listeners_ = Stack
      /\ TablesType /\ TablesRouted /\ PortType /\ UNCHANGED next_port
  BY HomeAssumption DEF TypeInv, StackType, TablesType, SocketsType, RoutesType, ListenersType, RouteInv,
                        AppType, Join
<1>1. PICK f, g, e : f = sockets_[s] /\ g = connections_[s] /\ e = Empty
  OBVIOUS
<1>2. /\ sockets_'[s] = e /\ connections_'[s] = e /\ listeners_'[s] = e /\ OnlyStack(s)
      /\ \A r \in Stack \ {s} : listeners_'[r] = listeners_[r]
  BY <1>0, <1>1 DEF Join, OnlyStack
<1>3. DOMAIN e = {}
  BY <1>1 DEF Empty
<1>4. Progress(f, g, e, e) /\ Below(e, e, next_port)
  BY <1>3 DEF Progress, Exact, Right, Below
<1>5. RoutesKept
  BY <1>0, <1>1, <1>2, <1>4, OneStackProgress
<1>6. PortsKept
  BY <1>0, <1>2, <1>4, PortsGrow DEF PortType
<1> QED
  BY <1>5, <1>6

\* connect and register_connection: the route is new, the port its own or new.
LEMMA RegisterRoutes ==
  ASSUME TypeInv, RouteInv, NEW t \in Thread, prog[t] # <<>>, SingleRoutes(t),
         Arg(t).op \in {"register", "connect"},
         NEW s, s = Home[t], NEW mine, mine = Mine(t), NEW remote, remote = Arg(t).addr,
         NEW asked, asked = IF Live(s, mine) THEN sockets_[s][mine].src ELSE <<s, 0>>,
         register_connection(s, asked, remote, mine)
  PROVE  RoutesKept /\ PortsKept /\ Reaches(sockets_'[s], connections_'[s], RegisteredId(s, mine))
<1>0. s \in Stack /\ DOMAIN sockets_ = Stack /\ DOMAIN connections_ = Stack /\ SocketsType
      /\ TablesType /\ TablesRouted /\ PortType /\ ListenersType /\ UNCHANGED listeners_
  BY HomeAssumption DEF TypeInv, StackType, TablesType, SocketsType, ListenersType, RoutesType, RouteInv,
                        AppType, register_connection
<1>1. PICK f, g, m : f = sockets_[s] /\ g = connections_[s] /\ m = next_id_[s]
  OBVIOUS
<1>2. Exact(f, g) /\ Right(f, g) /\ Below(f, listeners_[s], next_port)
  BY <1>0, <1>1 DEF TablesRouted
<1>3. asked \in Addr /\ asked[2] \in Nat /\ asked = <<asked[1], asked[2]>> /\ asked[2] < next_port
  <2>1. CASE Live(s, mine)
    <3>1. f[mine] \in Good(next_id_[s]) /\ mine \in DOMAIN f
      BY <1>0, <1>1, <2>1, Found DEF Live
    <3>2. asked = f[mine].src /\ asked \in Addr
      BY <1>1, <2>1, <3>1 DEF Good, Block
    <3>3. asked[2] < next_port
      BY <1>2, <3>1, <3>2 DEF Below
    <3> QED
      BY <3>2, <3>3 DEF Addr
  <2>2. CASE ~ Live(s, mine)
    BY <1>0, <2>2, PortAssumption, RouteAssumption DEF Addr, PortType
  <2> QED
    BY <2>1, <2>2
<1>4. PICK port, local, key : /\ port = PortOf(s, asked[2]) /\ local = <<asked[1], port>>
                              /\ key = <<remote, local>>
  OBVIOUS
<1>5. /\ PortType' /\ next_port <= next_port' /\ port < next_port'
      /\ asked[2] = 0 => port >= next_port
      /\ asked[2] # 0 => local = asked
      /\ port \in Nat /\ next_port \in Nat
  <2>1. Allocate(s, asked[2])
    BY DEF register_connection
  <2> QED
    BY <1>0, <1>3, <1>4, <2>1, TakenPort DEF PortType
<1>6. Registered(s, mine, local, remote)
  BY <1>0, <1>4, RegisterBlocks
<1>7. PICK id : id = RegisteredId(s, mine)
  OBVIOUS
<1>8. connections_' = [connections_ EXCEPT ![s] = Put(@, key, id)]
  BY <1>4, <1>7 DEF register_connection
<1>9. connections_'[s] = Put(g, key, id) /\ \A r \in Stack \ {s} : connections_'[r] = connections_[r]
  BY <1>0, <1>1, <1>8
<1>10. Vacant(f, g, key)
  <2> SUFFICES ASSUME NEW x \in DOMAIN f, Reaches(f, g, x), <<f[x].dst, f[x].src>> = key
               PROVE  FALSE
    BY DEF Vacant
  <2>1. key \in DOMAIN g /\ g[key] = x /\ f[x].src = local
    BY <1>4 DEF Reaches
  <2>2. port < next_port
    BY <1>2, <1>4, <2>1 DEF Below
  <2>3. local = asked /\ asked[2] # 0
    BY <1>5, <2>2
  <2>4. Live(s, mine)
    BY <2>3
  <2>5. FindConnection(s, remote, sockets_[s][mine].src) = 0
    BY <2>4 DEF SingleRoutes
  <2>6. FindConnection(s, remote, local) = x
    BY <1>1, <1>4, <2>1 DEF FindConnection, Live
  <2>7. x # 0
    BY <1>0, <1>1 DEF SocketsType, SocketTable
  <2> QED
    BY <2>3, <2>4, <2>5, <2>6, <2>7
<1>15. PICK f2, g2 : f2 = sockets_'[s] /\ g2 = connections_'[s]
  OBVIOUS
<1>11. /\ OnlyStack(s) /\ Progress(f, g, f2, g2) /\ Reaches(f2, g2, id)
       /\ \A j \in DOMAIN f2 : f2[j].src = local \/ (j \in DOMAIN f /\ f2[j] = f[j])
  <2>1. CASE Live(s, mine)
    <3>1. id = mine /\ id \in DOMAIN f
      BY <1>1, <1>7, <2>1 DEF RegisteredId, Live
    <3>2. f[id].state = "CLOSED" /\ ~ Reaches(f, g, id)
      BY <1>1, <2>1, <3>1 DEF SingleRoutes, Routed
    <3>3. PICK c : SetTcb(s, id, c) /\ c.src = local /\ c.dst = remote /\ c.state = "CLOSED"
      BY <1>1, <1>6, <2>1, <3>1, <3>2 DEF Registered, Rehomed
    <3>5. Redirected(f, id, c, f2) /\ OnlyStack(s)
      BY <1>0, <1>1, <1>9, <1>15, <3>3 DEF SetTcb, Redirected, OnlyStack
    <3>6. key = <<c.dst, c.src>>
      BY <1>4, <3>3
    <3>7. Progress(f, g, f2, Put(g, key, id)) /\ Reaches(f2, Put(g, key, id), id)
      BY <1>2, <1>10, <3>1, <3>2, <3>3, <3>5, <3>6, RedirectedProgress
    <3>8. ASSUME NEW j \in DOMAIN f2 PROVE f2[j].src = local \/ (j \in DOMAIN f /\ f2[j] = f[j])
      <4>1. c.src = local
        BY <3>3
      <4>2. j = id => f2[j] = c
        BY <3>1, <3>5 DEF Redirected
      <4>3. j # id => j \in DOMAIN f /\ f2[j] = f[j]
        BY <3>1, <3>5 DEF Redirected
      <4> QED
        BY <4>1, <4>2, <4>3
    <3>9. g2 = Put(g, key, id)
      BY <1>9, <1>15
    <3> QED
      BY <3>5, <3>7, <3>8, <3>9
  <2>2. CASE ~ Live(s, mine)
    <3>1. id = m
      BY <1>1, <1>7, <2>2 DEF RegisteredId
    <3>2. PICK c : c = Tcb("CLOSED", local, remote)
      OBVIOUS
    <3>3. c.src = local /\ c.dst = remote /\ c.state = "CLOSED"
      BY <3>2, TcbFields
    <3>4. sockets_' = [sockets_ EXCEPT ![s] = Put(@, m, c)]
      BY <1>1, <1>4, <2>2, <3>2 DEF register_connection, RegisteredId
    <3>5. sockets_'[s] = Put(f, m, c) /\ OnlyStack(s)
      BY <1>0, <1>1, <1>9, <3>4 DEF OnlyStack
    <3>6. key = <<c.dst, c.src>> /\ Fresh(f, g, m)
      BY <1>0, <1>1, <1>4, <3>3, FreshId
    <3>7. Progress(f, g, Put(f, m, c), Put(g, key, m)) /\ Reaches(Put(f, m, c), Put(g, key, m), m)
      BY <1>2, <1>10, <3>3, <3>6, OpenedProgress
    <3>8. f2 = Put(f, m, c) /\ g2 = Put(g, key, m)
      BY <1>9, <1>15, <3>1, <3>5
    <3>9. DOMAIN f2 = DOMAIN f \cup {m} /\ \A j \in DOMAIN f2 : f2[j] = IF j = m THEN c ELSE f[j]
      BY <3>8 DEF Put
    <3>10. ASSUME NEW j \in DOMAIN f2 PROVE f2[j].src = local \/ (j \in DOMAIN f /\ f2[j] = f[j])
      <4>1. c.src = local
        BY <3>3
      <4>2. j = m => f2[j] = c
        BY <3>9
      <4>3. j # m => j \in DOMAIN f /\ f2[j] = f[j]
        BY <3>9
      <4> QED
        BY <4>1, <4>2, <4>3
    <3> QED
      BY <3>1, <3>5, <3>7, <3>8, <3>10
  <2> QED
    BY <2>1, <2>2
<1>12. RoutesKept
  <2>1. Progress(sockets_[s], connections_[s], sockets_'[s], connections_'[s])
    BY <1>1, <1>11, <1>15
  <2> QED
    BY <1>0, <1>11, <2>1, OneStackProgress
<1>13. Reaches(sockets_'[s], connections_'[s], RegisteredId(s, mine))
  BY <1>7, <1>11, <1>15
<1>14. PortsKept
  <2>1. PICK n : n = next_port'
    OBVIOUS
  <2>2. n \in Nat /\ next_port <= n /\ port < n
    BY <1>5, <2>1 DEF PortType
  <2>3. Below(f, listeners_[s], n)
    BY <1>0, <1>1, <2>2, BelowGrows
  <2>4. Below(sockets_'[s], listeners_'[s], next_port')
    <3>1. Below(f2, listeners_[s], n)
      BY <1>4, <1>11, <2>2, <2>3 DEF Below
    <3> QED
      BY <1>0, <1>15, <2>1, <3>1
  <2> QED
    BY <1>0, <1>5, <1>11, <2>4, PortsGrow
<1> QED
  BY <1>12, <1>13, <1>14

\* The calls of a program that keeps to the contract break no route.
LEMMA RegisterCalls ==
  ASSUME TypeInv, RouteInv, NEW t \in Thread, prog[t] # <<>>, SingleRoutes(t),
         RegisterRoute(t) \/ ConnectRegister(t)
  PROVE  /\ RoutesKept /\ PortsKept
         /\ Reaches(sockets_'[Home[t]], connections_'[Home[t]], RegisteredId(Home[t], Mine(t)))
<1>1. PICK s, mine, remote : s = Home[t] /\ mine = Mine(t) /\ remote = Arg(t).addr
  OBVIOUS
<1>2. PICK asked : asked = IF Live(s, mine) THEN sockets_[s][mine].src ELSE <<s, 0>>
  OBVIOUS
<1>3. register_connection(s, asked, remote, mine) /\ Arg(t).op \in {"register", "connect"}
  BY <1>1, <1>2 DEF RegisterRoute, ConnectRegister, Starts, Arg
<1>4. RoutesKept /\ PortsKept /\ Reaches(sockets_'[s], connections_'[s], RegisteredId(s, mine))
  BY <1>1, <1>2, <1>3, RegisterRoutes
<1> QED
  BY <1>1, <1>4
\* Every step of a thread keeps the routes.
LEMMA ThreadRoutes ==
  ASSUME TypeInv, RouteInv, NEW t \in Thread, ThreadStep(t), pc[t] = Ready => SingleRoutes(t)
  PROVE  RoutesKept /\ PortsKept
<1>0. ThreadShape(t) /\ prog[t] # <<>> /\ Home[t] \in Stack
  BY ThreadShapes
<1>1. CASE Touches(t)
  BY <1>0, <1>1, TouchRoutes
<1>2. CASE AcceptReturn(t)
  BY <1>0, <1>2, AcceptRoutes
<1>3. CASE CloseAbort(t)
  BY <1>0, <1>3, AbortRoutes
<1>4. CASE Join(t)
  BY <1>0, <1>4, JoinRoutes
<1>5. CASE bind(t)
  <2>1. pc[t] = Ready
    BY <1>5 DEF bind, Starts
  <2> QED
    BY <1>0, <1>5, <2>1, BindRoutes
<1>6. CASE RegisterRoute(t) \/ ConnectRegister(t)
  <2>1. pc[t] = Ready
    BY <1>6 DEF RegisterRoute, ConnectRegister, Starts
  <2> QED
    BY <1>0, <1>6, <2>1, RegisterCalls
<1>7. CASE AcceptCall(t)
  <2>1. UNCHANGED <<sockets_, connections_, listeners_, next_port>> /\ TablesRouted
    BY <1>7 DEF AcceptCall, tables, RouteInv
  <2>2. Revised(sockets_[Home[t]], connections_[Home[t]], sockets_[Home[t]])
    BY <1>0, <2>1 DEF TablesRouted, Right, Revised, Rests
  <2> QED
    BY <1>0, <2>1, <2>2, RevisedStep DEF OnlyStack
<1>8. CASE simulate_node_crash(t)
  BY <1>8 DEF simulate_node_crash, Starts, Arg, SingleRoutes
<1> QED
  BY <1>0, <1>1, <1>2, <1>3, <1>4, <1>5, <1>6, <1>7, <1>8 DEF ThreadShape

\* Every step keeps the routes of the tables and of the calls.
LEMMA RouteStep ==
  ASSUME TypeInv, TypeInv', RouteInv, [Next]_vars,
         [\A t \in Thread : Calling(t) => SingleRoutes(t)]_vars
  PROVE  RouteInv'
<1>0. CASE UNCHANGED vars
  BY <1>0 DEF vars, app, stackVars, tables, RouteInv, TablesRouted, CallsRouted, Routed, Live
<1>1. CASE ~ UNCHANGED vars
  <2>1. RoutesKept /\ PortsKept
    <3>1. CASE StackNext /\ UNCHANGED app
      BY <3>1, StackRoutes DEF app, TypeInv, AppType, RouteInv
    <3>2. CASE \E t \in Thread : ThreadStep(t)
      <4>1. PICK t \in Thread : ThreadStep(t)
        BY <3>2
      <4> QED
        BY <1>1, <4>1, ThreadRoutes DEF Calling
    <3> QED
      BY <1>1, <3>1, <3>2 DEF Next
  <2>2. TablesRouted'
    BY <2>1 DEF RoutesKept, PortsKept, TablesRouted, Progress
  <2>3. ASSUME NEW t \in Thread, NEW s, s = Home[t], NEW id, id = pc'[t].id, id \in DOMAIN sockets_'[s],
               pc'[t].at \in {"opening", "flush", "wake", "mark", "abort"}
        PROVE  Reaches(sockets_'[s], connections_'[s], id)
    <3>0. s \in Stack /\ id # 0
      BY <2>3, PointedIds DEF TypeInv, StackType, TablesType, SocketsType, SocketTable
    <3>1. Routed(s, id) => Reaches(sockets_'[s], connections_'[s], id)
      BY <2>1, <2>3, <3>0 DEF RoutesKept, Progress, Routed
    <3>2. pc[t].at \in {"opening", "flush", "wake", "mark", "abort"} /\ pc[t].id = id
            /\ id \in DOMAIN sockets_[s] => Routed(s, id)
      BY <2>3 DEF RouteInv, CallsRouted, Live
    <3>3. pc[t].id = id => id \in 1 .. next_id_[s] - 1
      BY <2>3, <3>0, PointedIds
    <3>4. CASE StackNext /\ UNCHANGED app
      <4>1. PICK q \in Stack : Shape(q)
        BY <3>4, StackShape DEF TypeInv
      <4>2. pc[t] = pc'[t]
        BY <3>4 DEF app
      <4>3. id \in DOMAIN sockets_[s]
        BY <2>3, <3>0, <3>3, <4>1, <4>2, ShapeBlocks DEF TypeInv
      <4> QED
        BY <2>3, <3>1, <3>2, <4>2, <4>3
    <3>5. CASE \E v \in Thread : ThreadStep(v)
      <4>1. PICK v \in Thread : ThreadStep(v)
        BY <3>5
      <4>2. PICK w : pc' = [pc EXCEPT ![v] = w] /\ Enters(v, w)
        BY <4>1, PcMoves DEF Moves
      <4>3. DOMAIN pc = Thread
        BY DEF TypeInv, AppType, CallsType, PcType
      <4>4. pc'[v] = w /\ \A u \in Thread \ {v} : pc'[u] = pc[u]
        BY <4>2, <4>3
      <4>5. pc[t].id = id => id \in DOMAIN sockets_[s]
        BY <2>3, <3>0, <3>3, <4>1, ThreadBlocks DEF Survives
      <4>6. CASE t # v
        BY <2>3, <3>1, <3>2, <4>4, <4>5, <4>6
      <4>7. CASE t = v
        <5>1. Enters(t, w) /\ w.id = id /\ w.at \in {"opening", "flush", "wake", "mark", "abort"}
          BY <2>3, <4>2, <4>4, <4>7
        <5>2. CASE id = pc[t].id /\ pc[t].at \in {"flush", "wake"}
          BY <3>1, <3>2, <4>5, <5>2
        <5>3. CASE id = RegisteredId(Home[t], Mine(t)) /\ ConnectRegister(t)
          <6>1. pc[t] = Ready /\ prog[t] # <<>>
            BY <4>1, <4>7, <5>3, ThreadShapes DEF ConnectRegister, Starts
          <6>2. SingleRoutes(t)
            BY <1>1, <4>1, <4>7, <6>1 DEF Calling
          <6>3. Reaches(sockets_'[Home[t]], connections_'[Home[t]], RegisteredId(Home[t], Mine(t)))
            BY <5>3, <6>1, <6>2, RegisterCalls
          <6> QED
            BY <2>3, <5>3, <6>3
        <5>4. CASE id = Mine(t) /\ Live(s, id) /\ CloseCheck(t)
          <6>1. pc[t] = Ready /\ Arg(t).op = "close"
            BY <5>4 DEF CloseCheck, Starts, Arg
          <6>2. SingleRoutes(t)
            BY <1>1, <4>1, <4>7, <6>1 DEF Calling
          <6>3. Routed(s, id)
            BY <2>3, <5>4, <6>1, <6>2 DEF SingleRoutes
          <6> QED
            BY <3>1, <6>3
        <5> QED
          BY <2>3, <5>1, <5>2, <5>3, <5>4 DEF Enters
      <4> QED
        BY <4>6, <4>7
    <3> QED
      BY <1>1, <3>4, <3>5 DEF Next
  <2>4. CallsRouted'
    BY <2>3 DEF CallsRouted, Live, Routed
  <2> QED
    BY <2>2, <2>4 DEF RouteInv
<1> QED
  BY <1>0, <1>1

\* There are no routes initially.
LEMMA RouteInit == Init => RouteInv
<1>1. Init => \A s \in Stack : DOMAIN sockets_[s] = {} /\ DOMAIN connections_[s] = {} /\ DOMAIN listeners_[s] = {}
  BY DEF Init, StackInit, Empty
<1>2. Init => \A t \in Thread : pc[t].at = "ready"
  BY DEF Init, Ready
<1> QED
  BY <1>1, <1>2 DEF RouteInv, TablesRouted, CallsRouted, Below, Exact, Right
\* The inductive invariant implies the property.
LEMMA RouteInvGivesRoutesExact ==
  ASSUME TypeInv, RouteInv
  PROVE  RoutesExact
<1> SUFFICES ASSUME NEW s \in Stack, NEW f, f = sockets_[s], NEW g, g = connections_[s]
             PROVE  /\ \A key \in DOMAIN g : g[key] \in DOMAIN f => key = <<f[g[key]].dst, f[g[key]].src>>
                    /\ \A id \in DOMAIN f :
                         f[id].state \in Synchronized => FindConnection(s, f[id].dst, f[id].src) = id
  BY DEF RoutesExact, Live
<1>1. Exact(f, g) /\ Right(f, g)
  BY DEF RouteInv, TablesRouted
<1>2. ASSUME NEW id \in DOMAIN f, f[id].state \in Synchronized
      PROVE  FindConnection(s, f[id].dst, f[id].src) = id
  <2>1. Reaches(f, g, id)
    BY <1>1, <1>2 DEF Right, Synchronized
  <2> QED
    BY <2>1 DEF Reaches, FindConnection, Live
<1> QED
  BY <1>1, <1>2 DEF Exact

\* Every route leads to the block of its own 4-tuple, and every connection with a
\* handshake behind it is reached by its route, in every interleaving of the
\* daemons, the network and the calls.  The calls keep to SingleRoutes: what they
\* connect or register is CLOSED, has no route and takes no other socket's, what
\* they close has a route, and bind asks for ports below the ephemeral range.
THEOREM RoutesStayExact ==
  Spec /\ [][\A t \in Thread : Calling(t) => SingleRoutes(t)]_vars => []RoutesExact
<1>1. Init => TypeInv /\ RouteInv
  BY TypeInit, RouteInit
<1>2. TypeInv /\ RouteInv /\ [Next]_vars /\ [\A t \in Thread : Calling(t) => SingleRoutes(t)]_vars
        => TypeInv' /\ RouteInv'
  BY TypeStep, RouteStep
<1>3. TypeInv /\ RouteInv => RoutesExact
  BY RouteInvGivesRoutesExact
<1> QED
  BY <1>1, <1>2, <1>3, PTL DEF Spec

-----------------------------------------------------------------------------
(* A child is handed out once.  Again the tables first: f, h, n and x are   *)
(* the sockets, the listeners, the next port and the objects' ids before a  *)
(* step, f2, h2, n2 and x2 after it.                                        *)

\* A socket that loses claims has no new ones.
Fewer(s, f, x, f2, x2, id) ==
    /\ \A l, i : Waits(f2, l, i, id) => Waits(f, l, i, id)
    /\ \A o \in Obj : Held(s, x2, o, id) => Held(s, x, o, id)
\* It has one claim if it had one before.
LEMMA FewerClaims ==
  ASSUME NEW s, NEW f, NEW x, NEW f2, NEW x2, NEW id, Fewer(s, f, x, f2, x2, id)
  PROVE  /\ OneClaim(s, f, x, id) => OneClaim(s, f2, x2, id)
         /\ Unclaimed(s, f, x, id) => Unclaimed(s, f2, x2, id)
<1>1. \A l, i : Waits(f, l, i, id) => l \in DOMAIN f /\ i \in DOMAIN f[l].accept_queue
  BY DEF Waits
<1>2. OneClaim(s, f, x, id) => OneClaim(s, f2, x2, id)
  BY <1>1 DEF OneClaim, Fewer
<1>3. Unclaimed(s, f, x, id) => Unclaimed(s, f2, x2, id)
  BY <1>1 DEF Unclaimed, Fewer
<1> QED
  BY <1>2, <1>3

\* Ports given to connections stay theirs, and listeners stay below the next port.
PortsStay(f, h, n, f2, h2, n2) ==
    /\ \A port \in DOMAIN h2 : port < n2
    /\ \A id \in (DOMAIN f) \cap DOMAIN f2 :
         Dedicated(h, n, f[id].src[2]) => Dedicated(h2, n2, f2[id].src[2])

\* Blocks are changed or dropped, objects given up: no claim is new.
Quiet(f, f2) ==
    DOMAIN f2 \subseteq DOMAIN f /\ \A j \in DOMAIN f2 : f2[j].accept_queue = f[j].accept_queue
GivenUp(s, x, f2, x2) == \A o \in Obj : Home[o] = s => x2[o] = x[o] \/ x2[o] \notin DOMAIN f2
NoneOpens(f, f2, h2, n2) ==
    \A j \in DOMAIN f2 :
      f2[j].state \in Opening => f[j].state \in Opening \/ Dedicated(h2, n2, f2[j].src[2])
\* Queues that do not grow stay settled.
LEMMA QuietSettled ==
  ASSUME NEW s, NEW f, NEW h, NEW n, NEW x, NEW f2, NEW h2, NEW n2, NEW x2, Settled(s, f, h, n, x),
         Quiet(f, f2), GivenUp(s, x, f2, x2), NoneOpens(f, f2, h2, n2), PortsStay(f, h, n, f2, h2, n2)
  PROVE  Settled(s, f2, h2, n2, x2)
<1>1. ASSUME NEW id \in DOMAIN f2
      PROVE  /\ OneClaim(s, f2, x2, id)
             /\ f2[id].state \in Opening => Unclaimed(s, f2, x2, id) \/ Dedicated(h2, n2, f2[id].src[2])
  <2>1. id \in DOMAIN f
    BY <1>1 DEF Quiet
  <2>2. Fewer(s, f, x, f2, x2, id)
    BY <1>1 DEF Quiet, GivenUp, Fewer, Waits, Held
  <2>3. /\ OneClaim(s, f, x, id)
        /\ f[id].state \in Opening => Unclaimed(s, f, x, id) \/ Dedicated(h, n, f[id].src[2])
    BY <2>1 DEF Settled
  <2>4. OneClaim(s, f2, x2, id) /\ (Unclaimed(s, f, x, id) => Unclaimed(s, f2, x2, id))
    BY <2>2, <2>3, FewerClaims
  <2> QED
    BY <1>1, <2>1, <2>3, <2>4 DEF NoneOpens, PortsStay
<1> QED
  BY <1>1 DEF Settled, PortsStay

\* A new block, with or without an object.
NewBlock(f, m, f2) ==
    /\ m \notin DOMAIN f /\ DOMAIN f2 = DOMAIN f \cup {m} /\ f2[m].accept_queue = <<>>
    /\ \A j \in DOMAIN f : f2[j] = f[j]
NewHolder(s, x, m, x2) ==
    /\ \A o \in Obj : Home[o] = s => x2[o] = x[o] \/ x2[o] = m
    /\ \A o, u \in Obj : Held(s, x2, o, m) /\ Held(s, x2, u, m) => o = u
\* A new block is claimed by nobody, or by the socket it was made for.
LEMMA NewSettled ==
  ASSUME NEW s, NEW f, NEW h, NEW n, NEW x, NEW f2, NEW h2, NEW n2, NEW x2, Settled(s, f, h, n, x),
         NEW m, Unclaimed(s, f, x, m), NewBlock(f, m, f2), NewHolder(s, x, m, x2),
         f2[m].state \in Opening => x2 = x, PortsStay(f, h, n, f2, h2, n2)
  PROVE  Settled(s, f2, h2, n2, x2)
<1>0. \A l, i, id : Waits(f2, l, i, id) => Waits(f, l, i, id)
  <2> SUFFICES ASSUME NEW l, NEW i, NEW id, Waits(f2, l, i, id)
               PROVE  Waits(f, l, i, id)
    OBVIOUS
  <2>1. CASE l = m
    BY <2>1 DEF Waits, NewBlock
  <2>2. CASE l # m
    BY <2>2 DEF Waits, NewBlock
  <2> QED
    BY <2>1, <2>2
<1>1. ASSUME NEW id \in DOMAIN f2
      PROVE  /\ OneClaim(s, f2, x2, id)
             /\ f2[id].state \in Opening => Unclaimed(s, f2, x2, id) \/ Dedicated(h2, n2, f2[id].src[2])
  <2>1. CASE id = m
    <3>1. \A l, i : ~ Waits(f2, l, i, m)
      BY <1>0 DEF Unclaimed, Waits
    <3>2. OneClaim(s, f2, x2, m)
      BY <3>1 DEF OneClaim, NewHolder
    <3>3. x2 = x => Unclaimed(s, f2, x2, m)
      BY <3>1 DEF Unclaimed
    <3> QED
      BY <2>1, <3>2, <3>3
  <2>2. CASE id # m
    <3>1. id \in DOMAIN f /\ f2[id] = f[id]
      BY <1>1, <2>2 DEF NewBlock
    <3>2. Fewer(s, f, x, f2, x2, id)
      BY <1>0, <2>2 DEF NewHolder, Fewer, Held
    <3>3. /\ OneClaim(s, f, x, id)
          /\ f[id].state \in Opening => Unclaimed(s, f, x, id) \/ Dedicated(h, n, f[id].src[2])
      BY <3>1 DEF Settled
    <3>4. OneClaim(s, f2, x2, id) /\ (Unclaimed(s, f, x, id) => Unclaimed(s, f2, x2, id))
      BY <3>2, <3>3, FewerClaims
    <3> QED
      BY <1>1, <3>1, <3>3, <3>4 DEF PortsStay
  <2> QED
    BY <2>1, <2>2
<1> QED
  BY <1>1 DEF Settled, PortsStay

\* A child whose handshake ends goes to the end of its listener's queue.
Joins(f, l, id, f2) ==
    /\ DOMAIN f2 = DOMAIN f /\ id \in DOMAIN f /\ l \in DOMAIN f
    /\ f[id].state \in Opening /\ f2[id].state \notin Opening
    /\ \A j \in DOMAIN f :
         /\ f2[j].src = f[j].src
         /\ j # id => f2[j].state = f[j].state
         /\ j # l => f2[j].accept_queue = f[j].accept_queue
    /\ \A i \in DOMAIN f2[l].accept_queue :
         \/ i \in DOMAIN f[l].accept_queue /\ f2[l].accept_queue[i] = f[l].accept_queue[i]
         \/ i \notin DOMAIN f[l].accept_queue /\ f2[l].accept_queue[i] = id
    /\ \A i, j \in DOMAIN f2[l].accept_queue :
         i \notin DOMAIN f[l].accept_queue /\ j \notin DOMAIN f[l].accept_queue => i = j
\* A child that joins a queue was claimed by nobody.
LEMMA JoinsSettled ==
  ASSUME NEW s, NEW f, NEW h, NEW n, NEW x, NEW f2, Settled(s, f, h, n, x),
         NEW l, NEW id, Joins(f, l, id, f2), f[id].src[2] \in DOMAIN h
  PROVE  Settled(s, f2, h, n, x)
<1>0. Unclaimed(s, f, x, id)
  BY DEF Settled, Joins, Dedicated
<1>1. \A k, i, j : Waits(f2, k, i, j) =>
        Waits(f, k, i, j) \/ (j = id /\ k = l /\ i \in DOMAIN f2[l].accept_queue /\ i \notin DOMAIN f[l].accept_queue)
  BY DEF Waits, Joins
<1>2. ASSUME NEW j \in DOMAIN f2
      PROVE  /\ OneClaim(s, f2, x, j)
             /\ f2[j].state \in Opening => Unclaimed(s, f2, x, j) \/ Dedicated(h, n, f2[j].src[2])
  <2>1. CASE j = id
    <3>1. \A k, i : Waits(f2, k, i, id) =>
            k = l /\ i \in DOMAIN f2[l].accept_queue /\ i \notin DOMAIN f[l].accept_queue
      BY <1>0, <1>1 DEF Unclaimed, Waits
    <3>2. OneClaim(s, f2, x, id)
      BY <1>0, <3>1 DEF OneClaim, Unclaimed, Joins
    <3> QED
      BY <2>1, <3>2 DEF Joins
  <2>2. CASE j # id
    <3>1. Fewer(s, f, x, f2, x, j)
      BY <1>1, <2>2 DEF Fewer
    <3>2. j \in DOMAIN f /\ f2[j].state = f[j].state /\ f2[j].src = f[j].src
      BY <1>2, <2>2 DEF Joins
    <3>3. /\ OneClaim(s, f, x, j)
          /\ f[j].state \in Opening => Unclaimed(s, f, x, j) \/ Dedicated(h, n, f[j].src[2])
      BY <3>2 DEF Settled
    <3> QED
      BY <3>1, <3>2, <3>3, FewerClaims
  <2> QED
    BY <2>1, <2>2
<1> QED
  BY <1>2 DEF Settled

\* accept takes the first child of a queue and gives it to an object.
Leaves(f, l, f2) ==
    /\ DOMAIN f2 = DOMAIN f /\ l \in DOMAIN f /\ 1 \in DOMAIN f[l].accept_queue
    /\ \A j \in DOMAIN f :
         /\ f2[j].src = f[j].src /\ f2[j].state = f[j].state
         /\ j # l => f2[j].accept_queue = f[j].accept_queue
    /\ \A i \in DOMAIN f2[l].accept_queue :
         /\ i + 1 \in DOMAIN f[l].accept_queue /\ i + 1 # 1 /\ i \in Nat
         /\ f2[l].accept_queue[i] = f[l].accept_queue[i + 1]
Given(x, o, id, x2) == \A u \in Obj : x2[u] = IF u = o THEN id ELSE x[u]
\* A child that leaves its queue for an object has one claim again.
LEMMA LeavesSettled ==
  ASSUME NEW s, NEW f, NEW h, NEW n, NEW x, NEW f2, NEW x2, Settled(s, f, h, n, x),
         NEW l, NEW id, NEW o \in Obj, Home[o] = s, Leaves(f, l, f2), id = f[l].accept_queue[1],
         Given(x, o, id, x2)
  PROVE  Settled(s, f2, h, n, x2)
<1>0. Waits(f, l, 1, id)
  BY DEF Waits, Leaves
<1>1. \A k, i, j : Waits(f2, k, i, j) => \/ k # l /\ Waits(f, k, i, j)
                                         \/ k = l /\ i \in Nat /\ i + 1 # 1 /\ Waits(f, l, i + 1, j)
  BY DEF Waits, Leaves
<1>2. ASSUME NEW j \in DOMAIN f2
      PROVE  /\ OneClaim(s, f2, x2, j)
             /\ f2[j].state \in Opening => Unclaimed(s, f2, x2, j) \/ Dedicated(h, n, f2[j].src[2])
  <2>0. j \in DOMAIN f /\ f2[j].state = f[j].state /\ f2[j].src = f[j].src
    BY <1>2 DEF Leaves
  <2>3. /\ OneClaim(s, f, x, j)
        /\ f[j].state \in Opening => Unclaimed(s, f, x, j) \/ Dedicated(h, n, f[j].src[2])
    BY <2>0 DEF Settled
  <2>4. \A k, i : Waits(f, k, i, j) => k \in DOMAIN f /\ i \in DOMAIN f[k].accept_queue
    BY DEF Waits
  <2>1. CASE j = id
    <3>1. \A k, i : ~ Waits(f2, k, i, id)
      BY <1>0, <1>1, <2>1, <2>3, <2>4 DEF OneClaim
    <3>2. \A u \in Obj : ~ Held(s, x, u, id)
      BY <1>0, <2>1, <2>3, <2>4 DEF OneClaim
    <3>3. \A u \in Obj : Held(s, x2, u, id) => u = o
      BY <3>2 DEF Held, Given
    <3>4. ~ Unclaimed(s, f, x, id)
      BY <1>0, <2>1, <2>4 DEF Unclaimed
    <3> QED
      BY <2>0, <2>1, <2>3, <3>1, <3>3, <3>4 DEF OneClaim
  <2>2. CASE j # id
    <3>1. \A u \in Obj : Held(s, x2, u, j) => Held(s, x, u, j)
      BY <2>2 DEF Held, Given
    <3>2. OneClaim(s, f2, x2, j)
      BY <1>1, <2>3, <2>4, <3>1 DEF OneClaim
    <3>3. Unclaimed(s, f, x, j) => Unclaimed(s, f2, x2, j)
      BY <1>1, <2>4, <3>1 DEF Unclaimed
    <3> QED
      BY <2>0, <2>3, <3>2, <3>3
  <2> QED
    BY <2>1, <2>2
<1> QED
  BY <1>2 DEF Settled

\* What waits in a queue waited before, or ends its handshake now.
Entries(f, f2) ==
    \A l, i, id : Waits(f2, l, i, id) =>
      (\E k, j : Waits(f, k, j, id)) \/ (id \in DOMAIN f /\ f[id].state \in Opening)
\* No queues, no entries.
LEMMA NoEntries ==
  ASSUME NEW f, NEW f2, DOMAIN f2 = {}
  PROVE  Entries(f, f2)
  BY DEF Entries, Waits
\* The steps above add an entry only for a handshake that ends.
LEMMA EntriesFrom ==
  ASSUME NEW f, NEW f2,
         Quiet(f, f2) \/ (\E m : NewBlock(f, m, f2)) \/ (\E l, id : Joins(f, l, id, f2)) \/ \E l : Leaves(f, l, f2)
  PROVE  Entries(f, f2)
<1>1. CASE Quiet(f, f2)
  BY <1>1 DEF Quiet, Entries, Waits
<1>2. CASE \E m : NewBlock(f, m, f2)
  <2>1. PICK m : NewBlock(f, m, f2)
    BY <1>2
  <2>2. \A l, i, id : Waits(f2, l, i, id) => l # m
    BY <2>1 DEF NewBlock, Waits
  <2>3. \A l, i, id : Waits(f2, l, i, id) => Waits(f, l, i, id)
    BY <2>1, <2>2 DEF NewBlock, Waits
  <2> QED
    BY <2>3 DEF Entries
<1>3. CASE \E l, id : Joins(f, l, id, f2)
  <2>1. PICK l, id : Joins(f, l, id, f2)
    BY <1>3
  <2>2. \A k, i, j : Waits(f2, k, i, j) => Waits(f, k, i, j) \/ j = id
    BY <2>1 DEF Joins, Waits
  <2> QED
    BY <2>1, <2>2 DEF Joins, Entries
<1>4. CASE \E l : Leaves(f, l, f2)
  <2>1. PICK l : Leaves(f, l, f2)
    BY <1>4
  <2>2. \A k, i, j : Waits(f2, k, i, j) => Waits(f, k, i, j) \/ Waits(f, l, i + 1, j)
    BY <2>1 DEF Leaves, Waits
  <2> QED
    BY <2>2 DEF Entries
<1> QED
  BY <1>1, <1>2, <1>3, <1>4

\* A step works on the sockets, listeners and objects of one stack.
Elsewhere(s) ==
    /\ \A r \in Stack \ {s} : sockets_'[r] = sockets_[r] /\ listeners_'[r] = listeners_[r]
    /\ \A o \in Obj : Home[o] # s => socket_id'[o] = socket_id[o]
QueuesKept ==
    \A r \in Stack :
      /\ Settled(r, sockets_'[r], listeners_'[r], next_port', socket_id')
      /\ PortsStay(sockets_[r], listeners_[r], next_port, sockets_'[r], listeners_'[r], next_port')
      /\ Entries(sockets_[r], sockets_'[r])
\* The ports of the blocks and of the listeners are numbers.
LEMMA NaturalPorts ==
  ASSUME TablesType, NEW r \in Stack
  PROVE  (\A j \in DOMAIN sockets_[r] : sockets_[r][j].src[2] \in Nat) /\ DOMAIN listeners_[r] \subseteq Nat
<1>1. \A j \in DOMAIN sockets_[r] : sockets_[r][j].src \in Addr
  BY DEF TablesType, SocketsType, SocketTable, Good, Block
<1>2. \A a \in Addr : a[2] \in Nat
  BY DEF Addr
<1>3. DOMAIN listeners_[r] \subseteq Nat
  BY DEF TablesType, ListenersType, IdTable
<1> QED
  BY <1>1, <1>2, <1>3
\* A step that leaves listeners and counter alone keeps the ports.
LEMMA SamePorts ==
  ASSUME NEW f, NEW h, NEW n \in Nat, NEW f2, NEW n2 \in Nat, n <= n2, \A port \in DOMAIN h : port < n,
         \A j \in DOMAIN f2 : j \in DOMAIN f => f2[j].src = f[j].src,
         \A j \in DOMAIN f : f[j].src[2] \in Nat, DOMAIN h \subseteq Nat
  PROVE  PortsStay(f, h, n, f2, h, n2)
<1>1. \A port \in DOMAIN h : port < n2
  OBVIOUS
<1>2. \A j \in (DOMAIN f) \cap DOMAIN f2 :
         Dedicated(h, n, f[j].src[2]) => Dedicated(h, n2, f2[j].src[2])
  BY DEF Dedicated
<1> QED
  BY <1>1, <1>2 DEF PortsStay
\* A step on one stack keeps the queues of all settled.
LEMMA OneStackSettled ==
  ASSUME TablesType, PortType, QueuesSettled, next_port' \in Nat, next_port <= next_port',
         NEW s \in Stack, Elsewhere(s),
         Settled(s, sockets_'[s], listeners_'[s], next_port', socket_id'),
         PortsStay(sockets_[s], listeners_[s], next_port, sockets_'[s], listeners_'[s], next_port'),
         Entries(sockets_[s], sockets_'[s])
  PROVE  QueuesKept
<1> SUFFICES ASSUME NEW r \in Stack \ {s}
             PROVE  /\ Settled(r, sockets_'[r], listeners_'[r], next_port', socket_id')
                    /\ PortsStay(sockets_[r], listeners_[r], next_port, sockets_'[r], listeners_'[r], next_port')
                    /\ Entries(sockets_[r], sockets_'[r])
  BY DEF QueuesKept
<1>1. PICK f, h, n, x, n2, x2 : /\ f = sockets_[r] /\ h = listeners_[r] /\ n = next_port /\ x = socket_id
                                /\ n2 = next_port' /\ x2 = socket_id'
  OBVIOUS
<1>2. sockets_'[r] = f /\ listeners_'[r] = h
  BY <1>1 DEF Elsewhere
<1>3. n \in Nat /\ n2 \in Nat /\ n <= n2
  BY <1>1 DEF PortType
<1>4. Settled(r, f, h, n, x)
  BY <1>1 DEF QueuesSettled
<1>5. PortsStay(f, h, n, f, h, n2)
  <2>1. \A port \in DOMAIN h : port < n
    BY <1>4 DEF Settled
  <2>2. (\A j \in DOMAIN f : f[j].src[2] \in Nat) /\ DOMAIN h \subseteq Nat
    BY <1>1, NaturalPorts
  <2> QED
    BY <1>3, <2>1, <2>2, SamePorts
<1>6. Quiet(f, f) /\ NoneOpens(f, f, h, n2)
  BY DEF Quiet, NoneOpens
<1>7. GivenUp(r, x, f, x2)
  BY <1>1 DEF Elsewhere, GivenUp
<1>8. Settled(r, f, h, n2, x2)
  BY <1>4, <1>5, <1>6, <1>7, QuietSettled
<1>9. Entries(f, f)
  BY <1>6, EntriesFrom
<1> QED
  BY <1>1, <1>2, <1>5, <1>8, <1>9

\* A step that makes no new claim.
Calms(f, h, n, f2) ==
    /\ Quiet(f, f2)
    /\ \A j \in DOMAIN f2 :
         /\ f2[j].src = f[j].src
         /\ f2[j].state \in Opening => f[j].state \in Opening \/ Dedicated(h, n, f[j].src[2])
\* A step after which no queue is longer.
LEMMA QuietStep ==
  ASSUME TablesType, PortType, QueuesSettled, NEW s \in Stack, Elsewhere(s),
         listeners_'[s] = listeners_[s], UNCHANGED next_port,
         Calms(sockets_[s], listeners_[s], next_port, sockets_'[s]),
         GivenUp(s, socket_id, sockets_'[s], socket_id')
  PROVE  QueuesKept
<1>1. PICK f, h, n, x, f2, x2 : /\ f = sockets_[s] /\ h = listeners_[s] /\ n = next_port /\ x = socket_id
                                /\ f2 = sockets_'[s] /\ x2 = socket_id'
  OBVIOUS
<1>2. Settled(s, f, h, n, x) /\ n \in Nat /\ Calms(f, h, n, f2) /\ GivenUp(s, x, f2, x2)
  BY <1>1 DEF QueuesSettled, PortType
<1>3. PortsStay(f, h, n, f2, h, n)
  <2>1. (\A port \in DOMAIN h : port < n) /\ \A j \in DOMAIN f2 : f2[j].src = f[j].src
    BY <1>2 DEF Settled, Calms
  <2>2. (\A j \in DOMAIN f : f[j].src[2] \in Nat) /\ DOMAIN h \subseteq Nat
    BY <1>1, NaturalPorts
  <2> QED
    BY <1>2, <2>1, <2>2, SamePorts
<1>4. Quiet(f, f2) /\ NoneOpens(f, f2, h, n)
  BY <1>2 DEF Calms, NoneOpens
<1>5. Settled(s, f2, h, n, x2)
  BY <1>2, <1>3, <1>4, QuietSettled
<1>6. /\ Settled(s, sockets_'[s], listeners_'[s], next_port', socket_id')
      /\ PortsStay(sockets_[s], listeners_[s], next_port, sockets_'[s], listeners_'[s], next_port')
      /\ Entries(sockets_[s], sockets_'[s])
  BY <1>1, <1>3, <1>5, <1>4, EntriesFrom
<1> QED
  BY <1>6, OneStackSettled DEF PortType

\* The next id is nobody's.
LEMMA FreshClaims ==
  ASSUME TablesType, ObjType, NEW s \in Stack
  PROVE  Unclaimed(s, sockets_[s], socket_id, next_id_[s]) /\ next_id_[s] \notin DOMAIN sockets_[s]
<1>1. next_id_[s] \in Nat
  BY DEF TablesType, IdsType
<1>2. \A l \in DOMAIN sockets_[s] : sockets_[s][l].accept_queue \in Seq(1 .. next_id_[s] - 1)
  BY DEF TablesType, SocketsType, SocketTable, Good, Block
<1>3. \A l \in DOMAIN sockets_[s] : \A i \in DOMAIN sockets_[s][l].accept_queue :
        sockets_[s][l].accept_queue[i] \in 1 .. next_id_[s] - 1
  BY <1>2, ElementOfSeq, LenProperties
<1>4. \A o \in Obj : Home[o] = s => socket_id[o] \in 0 .. next_id_[s] - 1
  BY DEF ObjType
<1>5. next_id_[s] \notin DOMAIN sockets_[s]
  BY <1>1 DEF TablesType, SocketsType, SocketTable
<1> QED
  BY <1>1, <1>3, <1>4, <1>5 DEF Unclaimed, Waits, Held

\* The daemon hands children to their listeners, and to nobody else.
LEMMA QuietShapes ==
  ASSUME StackType, NEW s \in Stack, Updates(s) \/ Resets(s) \/ Destroys(s), NEW h, NEW n
  PROVE  /\ \A r \in Stack \ {s} : sockets_'[r] = sockets_[r]
         /\ Calms(sockets_[s], h, n, sockets_'[s])
<1>0. SocketsType /\ DOMAIN sockets_ = Stack
  BY DEF StackType, TablesType, SocketsType
<1>1. PICK f, f2 : f = sockets_[s] /\ f2 = sockets_'[s]
  OBVIOUS
<1>2. CASE UNCHANGED sockets_
  BY <1>2 DEF Calms, Quiet
<1>3. ASSUME NEW id \in DOMAIN f, NEW d, Follows(f[id], d), DOMAIN f2 \subseteq DOMAIN f,
             \A j \in DOMAIN f2 : f2[j] = IF j = id THEN d ELSE f[j]
      PROVE  Calms(f, h, n, f2)
  <2>1. ASSUME NEW j \in DOMAIN f2
        PROVE  /\ f2[j].src = f[j].src /\ f2[j].accept_queue = f[j].accept_queue
               /\ f2[j].state \in Opening => f[j].state \in Opening
    <3>1. CASE j = id
      BY <1>3, <2>1, <3>1 DEF Follows, Opening
    <3>2. CASE j # id
      BY <1>3, <2>1, <3>2
    <3> QED
      BY <3>1, <3>2
  <2> QED
    BY <1>3, <2>1 DEF Calms, Quiet
<1>4. CASE Updates(s) /\ ~ UNCHANGED sockets_
  <2>1. PICK id, d : id \in DOMAIN sockets_[s] /\ Follows(sockets_[s][id], d) /\ SetTcb(s, id, d)
    BY <1>4 DEF Updates
  <2>2. \A r \in Stack :
           /\ DOMAIN sockets_'[r] = DOMAIN sockets_[r]
           /\ \A j \in DOMAIN sockets_[r] :
                sockets_'[r][j] = IF r = s /\ j = id THEN d ELSE sockets_[r][j]
    BY <1>0, <2>1, AfterSet
  <2>3. \A r \in Stack \ {s} : sockets_'[r] = sockets_[r]
    BY <1>0, <2>1 DEF SetTcb
  <2> QED
    BY <1>1, <1>3, <2>1, <2>2, <2>3
<1>5. CASE Resets(s)
  <2>1. PICK m : sockets_' = [sockets_ EXCEPT ![s] = Remove(@, m)]
    BY <1>5 DEF Resets
  <2>2. sockets_'[s] = Remove(f, m) /\ \A r \in Stack \ {s} : sockets_'[r] = sockets_[r]
    BY <1>0, <1>1, <2>1
  <2>3. DOMAIN f2 \subseteq DOMAIN f /\ \A j \in DOMAIN f2 : f2[j] = f[j]
    BY <1>1, <2>2 DEF Remove
  <2>4. Calms(f, h, n, f2)
    BY <2>3 DEF Calms, Quiet
  <2> QED
    BY <1>1, <2>2, <2>4
<1>6. CASE Destroys(s)
  <2>1. PICK id \in DOMAIN sockets_[s], d \in Good(next_id_[s]) :
          /\ Follows(sockets_[s][id], d)
          /\ DestroyConnection(s, id, d, sockets_[s][id].src, sockets_[s][id].dst)
    BY <1>6 DEF Destroys
  <2>2. PICK x, y : DestroyConnection(s, id, d, x, y)
    BY <2>1
  <2>3. Destroyed(s, id, d, <<x, y>>)
    BY <1>0, <2>2, AfterDestroy
  <2>4. DOMAIN f2 \subseteq DOMAIN f /\ \A j \in DOMAIN f2 : f2[j] = IF j = id THEN d ELSE f[j]
    BY <1>1, <2>3 DEF Destroyed
  <2>5. \A r \in Stack \ {s} : sockets_'[r] = sockets_[r]
    BY <1>0, <2>2 DEF DestroyConnection, SetTcb
  <2> QED
    BY <1>1, <1>3, <2>1, <2>4, <2>5
<1> QED
  BY <1>2, <1>4, <1>5, <1>6

\* A new child is in no queue yet.
LEMMA SpawnQueues ==
  ASSUME StackType, PortType, ObjType, QueuesSettled, NEW s \in Stack, Spawns(s),
         UNCHANGED <<listeners_, next_port, socket_id>>
  PROVE  QueuesKept
<1>0. DOMAIN sockets_ = Stack /\ TablesType
  BY DEF StackType, TablesType, SocketsType
<1>1. PICK p, iss : sockets_' = [sockets_ EXCEPT ![s] = Put(@, next_id_[s], Child(p, iss))]
  BY DEF Spawns
<1>2. PICK f, h, n, x, m, c : /\ f = sockets_[s] /\ h = listeners_[s] /\ n = next_port /\ x = socket_id
                              /\ m = next_id_[s] /\ c = Child(p, iss)
  OBVIOUS
<1>3. c.accept_queue = <<>>
  BY <1>2, ChildFields
<1>4. sockets_'[s] = Put(f, m, c) /\ Elsewhere(s)
  BY <1>0, <1>1, <1>2 DEF Elsewhere
<1>5. PICK f2 : f2 = Put(f, m, c)
  OBVIOUS
<1>6. Unclaimed(s, f, x, m) /\ m \notin DOMAIN f /\ n \in Nat
  BY <1>0, <1>2, FreshClaims DEF PortType
<1>7. NewBlock(f, m, f2) /\ NewHolder(s, x, m, x)
  BY <1>3, <1>5, <1>6 DEF NewBlock, NewHolder, Unclaimed, Put
<1>8. Settled(s, f, h, n, x)
  BY <1>2 DEF QueuesSettled
<1>9. PortsStay(f, h, n, f2, h, n)
  <2>1. (\A port \in DOMAIN h : port < n) /\ \A j \in DOMAIN f2 : j \in DOMAIN f => f2[j].src = f[j].src
    BY <1>7, <1>8 DEF Settled, NewBlock
  <2>2. (\A j \in DOMAIN f : f[j].src[2] \in Nat) /\ DOMAIN h \subseteq Nat
    BY <1>0, <1>2, NaturalPorts
  <2> QED
    BY <1>6, <2>1, <2>2, SamePorts
<1>10. Settled(s, f2, h, n, x)
  BY <1>6, <1>7, <1>8, <1>9, NewSettled
<1>11. /\ Settled(s, sockets_'[s], listeners_'[s], next_port', socket_id')
       /\ PortsStay(sockets_[s], listeners_[s], next_port, sockets_'[s], listeners_'[s], next_port')
       /\ Entries(sockets_[s], sockets_'[s])
  BY <1>2, <1>4, <1>5, <1>9, <1>10, <1>7, EntriesFrom
<1> QED
  BY <1>0, <1>4, <1>11, OneStackSettled DEF PortType

\* A child whose handshake ends goes to the end of one queue.
LEMMA EnqueueQueues ==
  ASSUME StackType, PortType, QueuesSettled, NEW s \in Stack, Enqueues(s),
         UNCHANGED <<listeners_, next_port, socket_id>>
  PROVE  QueuesKept
<1>0. DOMAIN sockets_ = Stack /\ TablesType
  BY DEF StackType, TablesType, SocketsType
<1>1. PICK id \in DOMAIN sockets_[s], d \in Good(next_id_[s]) :
        LET c == sockets_[s][id]
            l == FindListener(s, c.src[2])
            stored == [sockets_[s] EXCEPT ![id] = d]
        IN
        /\ c.state = "SYN_RECEIVED" /\ d.state = "ESTABLISHED"
        /\ d.src = c.src /\ d.dst = c.dst /\ d.accept_queue = c.accept_queue
        /\ sockets_' = [sockets_ EXCEPT ![s] =
             IF l = 0 THEN stored ELSE [stored EXCEPT ![l].accept_queue = Append(@, id)]]
  BY DEF Enqueues
<1>2. PICK l, stored : l = FindListener(s, sockets_[s][id].src[2]) /\ stored = [sockets_[s] EXCEPT ![id] = d]
  OBVIOUS
<1>3. l # 0 => l \in DOMAIN sockets_[s] /\ sockets_[s][id].src[2] \in DOMAIN listeners_[s]
  BY <1>2, FoundListener DEF Live
<1>4. /\ d.accept_queue = sockets_[s][id].accept_queue /\ stored = [sockets_[s] EXCEPT ![id] = d]
      /\ sockets_' = [sockets_ EXCEPT ![s] =
           IF l = 0 THEN stored ELSE [stored EXCEPT ![l].accept_queue = Append(@, id)]]
  BY <1>1, <1>2
<1>5. Enqueued(s, id, d, l)
  <2>1. d \in Good(next_id_[s]) /\ id \in DOMAIN sockets_[s]
    OBVIOUS
  <2> QED
    BY <1>3, <1>4, <2>1, EnqueuesBlocks
<1>6. PICK f, f2, h, n, x : /\ f = sockets_[s] /\ f2 = sockets_'[s] /\ h = listeners_[s] /\ n = next_port
                            /\ x = socket_id
  OBVIOUS
<1>7. Elsewhere(s)
  BY <1>0, <1>4 DEF Elsewhere
<1>8. /\ d.state = "ESTABLISHED" /\ d.src = f[id].src /\ f[id].state = "SYN_RECEIVED" /\ id \in DOMAIN f
  BY <1>1, <1>6
<1>9. /\ DOMAIN f2 = DOMAIN f
      /\ \A j \in DOMAIN f :
           /\ f2[j].src = f[j].src
           /\ f2[j].state = IF j = id THEN "ESTABLISHED" ELSE f[j].state
           /\ f2[j].accept_queue = IF l # 0 /\ j = l THEN Append(f[j].accept_queue, id) ELSE f[j].accept_queue
  BY <1>5, <1>6, <1>8 DEF Enqueued
<1>10. CASE l = 0
  <2>1. Calms(f, h, n, f2) /\ GivenUp(s, x, f2, x)
    BY <1>9, <1>10 DEF Calms, Quiet, GivenUp, Opening
  <2>2. Calms(sockets_[s], listeners_[s], next_port, sockets_'[s])
        /\ GivenUp(s, socket_id, sockets_'[s], socket_id') /\ listeners_'[s] = listeners_[s]
    BY <1>6, <2>1
  <2> QED
    BY <1>0, <1>7, <2>2, QuietStep
<1>11. CASE l # 0
  <2>1. l \in DOMAIN f /\ f[id].src[2] \in DOMAIN h
    BY <1>3, <1>6, <1>11
  <2>2. PICK q : q = f[l].accept_queue
    OBVIOUS
  <2>3. q \in Seq(1 .. next_id_[s] - 1) /\ id \in 1 .. next_id_[s] - 1
    BY <1>0, <1>6, <2>1, <2>2 DEF TablesType, SocketsType, SocketTable, Good, Block
  <2>4. f2[l].accept_queue = Append(q, id)
    BY <1>9, <1>11, <2>1, <2>2
  <2>5. /\ Len(q) \in Nat /\ DOMAIN q = 1 .. Len(q) /\ DOMAIN Append(q, id) = 1 .. Len(q) + 1
        /\ Append(q, id)[Len(q) + 1] = id /\ \A i \in 1 .. Len(q) : Append(q, id)[i] = q[i]
    BY <2>3, AppendProperties, LenProperties
  <2>6. /\ \A i \in DOMAIN f2[l].accept_queue :
             \/ i \in DOMAIN q /\ f2[l].accept_queue[i] = q[i]
             \/ i \notin DOMAIN q /\ f2[l].accept_queue[i] = id
        /\ \A i, j \in DOMAIN f2[l].accept_queue : i \notin DOMAIN q /\ j \notin DOMAIN q => i = j
    BY <2>4, <2>5
  <2>7. Joins(f, l, id, f2)
    BY <1>8, <1>9, <2>1, <2>2, <2>6 DEF Joins, Opening
  <2>8. Settled(s, f, h, n, x)
    BY <1>6 DEF QueuesSettled
  <2>9. Settled(s, f2, h, n, x)
    BY <2>1, <2>7, <2>8, JoinsSettled
  <2>10. PortsStay(f, h, n, f2, h, n)
    <3>1. (\A port \in DOMAIN h : port < n) /\ \A j \in DOMAIN f2 : j \in DOMAIN f => f2[j].src = f[j].src
      BY <1>9, <2>8 DEF Settled
    <3>2. (\A j \in DOMAIN f : f[j].src[2] \in Nat) /\ DOMAIN h \subseteq Nat /\ n \in Nat
      BY <1>0, <1>6, NaturalPorts DEF PortType
    <3> QED
      BY <3>1, <3>2, SamePorts
  <2>11. /\ Settled(s, sockets_'[s], listeners_'[s], next_port', socket_id')
         /\ PortsStay(sockets_[s], listeners_[s], next_port, sockets_'[s], listeners_'[s], next_port')
         /\ Entries(sockets_[s], sockets_'[s])
    BY <1>6, <2>9, <2>10, <2>7, EntriesFrom
  <2> QED
    BY <1>0, <1>7, <2>11, OneStackSettled DEF PortType
<1> QED
  BY <1>10, <1>11

\* Every step of a daemon keeps the queues settled.
LEMMA StackQueues ==
  ASSUME StackType, DaemonType, PortType, ObjType, QueuesSettled, StackNext,
         UNCHANGED <<next_port, socket_id>>
  PROVE  QueuesKept
<1>1. PICK s \in Stack : Shape(s)
  BY StackShape
<1>2. UNCHANGED listeners_
  BY StackShape
<1>3. CASE Updates(s) \/ Resets(s) \/ Destroys(s)
  <2>1. PICK h, n : h = listeners_[s] /\ n = next_port
    OBVIOUS
  <2>2. (\A r \in Stack \ {s} : sockets_'[r] = sockets_[r]) /\ Calms(sockets_[s], h, n, sockets_'[s])
    BY <1>3, QuietShapes
  <2>3. Calms(sockets_[s], listeners_[s], next_port, sockets_'[s]) /\ Elsewhere(s)
        /\ GivenUp(s, socket_id, sockets_'[s], socket_id')
    BY <1>2, <2>1, <2>2 DEF Elsewhere, GivenUp
  <2> QED
    BY <1>2, <2>3, QuietStep DEF StackType
<1> QED
  BY <1>1, <1>2, <1>3, SpawnQueues, EnqueueQueues DEF Shape

-----------------------------------------------------------------------------
(* The queues and the calls.                                                *)

\* The calls that touch one block do,
LEMMA TouchQueues ==
  ASSUME TypeInv, QueueInv, NEW t \in Thread, prog[t] # <<>>, Touches(t)
  PROVE  QueuesKept
<1>0. PICK s : s = Home[t]
  OBVIOUS
<1>1. s \in Stack /\ DOMAIN sockets_ = Stack /\ SocketsType /\ TablesType /\ PortType /\ QueuesSettled
      /\ UNCHANGED <<listeners_, next_port, socket_id>>
  BY <1>0, HomeAssumption DEF TypeInv, StackType, TablesType, SocketsType, QueueInv, Touches, AppType
<1>2. PICK f, h, n, f2 : f = sockets_[s] /\ h = listeners_[s] /\ n = next_port /\ f2 = sockets_'[s]
  OBVIOUS
<1>3. Elsewhere(s) /\ Calms(f, h, n, f2)
  <2>1. CASE UNCHANGED sockets_
    BY <1>1, <1>2, <2>1 DEF Elsewhere, Calms, Quiet
  <2>2. CASE ~ UNCHANGED sockets_
    <3>1. PICK id, d : id \in DOMAIN f /\ Edits(t, id, d)
      BY <1>0, <1>2, <2>2 DEF Touches
    <3>2. /\ SetTcb(s, id, d) /\ d.src = f[id].src /\ d.accept_queue = f[id].accept_queue
          /\ Turns(t, id, f[id].state, d.state)
      BY <1>0, <1>2, <3>1 DEF Edits, SameAddresses
    <3>3. DOMAIN f2 = DOMAIN f /\ Elsewhere(s)
          /\ \A j \in DOMAIN f : f2[j] = IF j = id THEN d ELSE f[j]
      BY <1>1, <1>2, <3>2 DEF SetTcb, Elsewhere
    <3>4. d.state \in Opening => f[id].state \in Opening \/ Dedicated(h, n, f[id].src[2])
      <4>1. pc[t].at = "opening" /\ pc[t].id = id => Dedicated(h, n, f[id].src[2])
        BY <1>0, <1>2, <3>1 DEF QueueInv, CallersDedicated, Live
      <4> QED
        BY <3>2, <4>1 DEF Turns, Opening
    <3> QED
      BY <3>2, <3>3, <3>4 DEF Calms, Quiet
  <2> QED
    BY <2>1, <2>2
<1>4. Calms(sockets_[s], listeners_[s], next_port, sockets_'[s]) /\ listeners_'[s] = listeners_[s]
      /\ GivenUp(s, socket_id, sockets_'[s], socket_id')
  BY <1>1, <1>2, <1>3 DEF GivenUp
<1> QED
  BY <1>1, <1>3, <1>4, QuietStep

\* a close that gives up does,
LEMMA AbortQueues ==
  ASSUME TypeInv, QueueInv, NEW t \in Thread, prog[t] # <<>>, CloseAbort(t)
  PROVE  QueuesKept
<1>0. PICK s, id : s = Home[t] /\ id = pc[t].id
  OBVIOUS
<1>1. s \in Stack /\ DOMAIN sockets_ = Stack /\ TablesType /\ PortType /\ QueuesSettled
      /\ UNCHANGED <<listeners_, next_port, socket_id>>
  BY <1>0, HomeAssumption DEF TypeInv, StackType, TablesType, SocketsType, QueueInv, CloseAbort, AppType
<1>2. PICK f, h, n, f2 : f = sockets_[s] /\ h = listeners_[s] /\ n = next_port /\ f2 = sockets_'[s]
  OBVIOUS
<1>3. Aborted(Home[t], pc[t].id)
  BY AbortBlocks
<1>4. PICK d, key : /\ Destroyed(s, id, d, key) /\ d.src = f[id].src
                    /\ d.accept_queue = f[id].accept_queue /\ d.state \in {"FIN_WAIT_1", "LAST_ACK"}
  BY <1>0, <1>2, <1>3 DEF Aborted, SameAddresses
<1>5. DOMAIN f2 \subseteq DOMAIN f /\ \A j \in DOMAIN f2 : f2[j] = IF j = id THEN d ELSE f[j]
  BY <1>1, <1>2, <1>4 DEF Destroyed
<1>6. Calms(f, h, n, f2)
  BY <1>4, <1>5 DEF Calms, Quiet, Opening
<1>7. Elsewhere(s)
  BY <1>0, <1>1 DEF Elsewhere, CloseAbort, DestroyConnection, SetTcb
<1>8. Calms(sockets_[s], listeners_[s], next_port, sockets_'[s]) /\ listeners_'[s] = listeners_[s]
      /\ GivenUp(s, socket_id, sockets_'[s], socket_id')
  BY <1>1, <1>2, <1>6 DEF GivenUp
<1> QED
  BY <1>1, <1>7, <1>8, QuietStep

\* an accept that waits or fails,
LEMMA AcceptCallQueues ==
  ASSUME TypeInv, QueueInv, NEW t \in Thread, prog[t] # <<>>, AcceptCall(t) \/ simulate_node_crash(t)
  PROVE  QueuesKept
<1>0. PICK s : s = Home[t]
  OBVIOUS
<1>1. s \in Stack /\ TablesType /\ SocketsType /\ ObjType /\ PortType /\ QueuesSettled
      /\ UNCHANGED <<sockets_, listeners_, next_port>>
  BY <1>0, HomeAssumption DEF TypeInv, StackType, TablesType, QueueInv, AcceptCall, simulate_node_crash, tables, AppType
<1>2. \A o \in Obj : socket_id'[o] = socket_id[o] \/ (Home[o] = s /\ socket_id'[o] = 0)
  <2>1. CASE UNCHANGED socket_id
    BY <2>1
  <2>2. CASE ~ UNCHANGED socket_id
    <3>1. AcceptCall(t) /\ socket_id' = [socket_id EXCEPT ![Arg(t).into] = 0]
      BY <2>2 DEF AcceptCall, simulate_node_crash
    <3>2. Arg(t) \in Call(t) /\ Arg(t).op = "accept"
      BY <3>1, CurrentCall DEF AcceptCall, Starts, Arg, TypeInv, AppType, CallsType
    <3>3. Arg(t).into \in Own(t)
      BY <3>2, CallFields
    <3> QED
      BY <1>0, <1>1, <3>1, <3>3 DEF Own, ObjType
  <2> QED
    BY <2>1, <2>2
<1>3. 0 \notin DOMAIN sockets_[s]
  BY <1>1 DEF SocketsType, SocketTable
<1>4. Elsewhere(s) /\ GivenUp(s, socket_id, sockets_'[s], socket_id') /\ listeners_'[s] = listeners_[s]
      /\ Calms(sockets_[s], listeners_[s], next_port, sockets_'[s])
  BY <1>1, <1>2, <1>3 DEF Elsewhere, GivenUp, Calms, Quiet
<1> QED
  BY <1>1, <1>4, QuietStep

\* and the end of a stack.
LEMMA JoinQueues ==
  ASSUME TypeInv, QueueInv, NEW t \in Thread, prog[t] # <<>>, Join(t)
  PROVE  QueuesKept
<1>0. PICK s, e : s = Home[t] /\ e = Empty
  OBVIOUS
<1>1. s \in Stack /\ DOMAIN sockets_ = Stack /\ DOMAIN listeners_ = Stack /\ TablesType /\ PortType
      /\ QueuesSettled /\ UNCHANGED <<next_port, socket_id>>
  BY <1>0, HomeAssumption DEF TypeInv, StackType, TablesType, SocketsType, ListenersType, QueueInv, Join, AppType
<1>2. sockets_'[s] = e /\ listeners_'[s] = e /\ Elsewhere(s)
  BY <1>0, <1>1 DEF Join, Elsewhere
<1>3. DOMAIN e = {}
  BY <1>0 DEF Empty
<1>4. PICK f, h, n, x : f = sockets_[s] /\ h = listeners_[s] /\ n = next_port /\ x = socket_id
  OBVIOUS
<1>5. Settled(s, e, e, n, x) /\ PortsStay(f, h, n, e, e, n)
  BY <1>3 DEF Settled, PortsStay
<1>6. /\ Settled(s, sockets_'[s], listeners_'[s], next_port', socket_id')
      /\ PortsStay(sockets_[s], listeners_[s], next_port, sockets_'[s], listeners_'[s], next_port')
      /\ Entries(sockets_[s], sockets_'[s])
  BY <1>1, <1>2, <1>4, <1>5, <1>3, NoEntries
<1> QED
  BY <1>1, <1>2, <1>6, OneStackSettled DEF PortType

\* accept: the child leaves the queue for the object it is handed to.
LEMMA AcceptQueues ==
  ASSUME TypeInv, QueueInv, NEW t \in Thread, prog[t] # <<>>, AcceptReturn(t)
  PROVE  QueuesKept
<1>0. PICK s, l, o : s = Home[t] /\ l = pc[t].id /\ o = Arg(t).into
  OBVIOUS
<1>1. s \in Stack /\ DOMAIN sockets_ = Stack /\ TablesType /\ SocketsType /\ ObjType /\ PortType
      /\ QueuesSettled /\ UNCHANGED <<listeners_, next_port>>
  BY <1>0, HomeAssumption DEF TypeInv, StackType, TablesType, SocketsType, QueueInv, AcceptReturn, AppType
<1>2. PICK f, h, n, x, f2, x2 : /\ f = sockets_[s] /\ h = listeners_[s] /\ n = next_port /\ x = socket_id
                                /\ f2 = sockets_'[s] /\ x2 = socket_id'
  OBVIOUS
<1>3. o \in Obj /\ Home[o] = s
  <2>1. Arg(t) \in Call(t) /\ Arg(t).op = "accept"
    BY CurrentCall DEF AcceptReturn, TypeInv, AppType, CallsType, InCallType, CallAt
  <2>2. Arg(t).into \in Own(t)
    BY <2>1, CallFields
  <2> QED
    BY <1>0, <2>2 DEF Own
<1>4. Popped(Home[t], pc[t].id) /\ pc[t].id \in DOMAIN sockets_[Home[t]]
  BY AcceptBlocks
<1>5. PICK q, id : q = f[l].accept_queue /\ id = Head(q)
  OBVIOUS
<1>6. q # <<>> /\ socket_id' = [socket_id EXCEPT ![o] = id] /\ l \in DOMAIN f
  BY <1>0, <1>2, <1>4, <1>5 DEF AcceptReturn
<1>7. q \in Seq(1 .. next_id_[s] - 1)
  BY <1>1, <1>2, <1>5, <1>6 DEF SocketsType, SocketTable, Good, Block
<1>8. PICK d : /\ SetTcb(s, l, d) /\ d.src = f[l].src /\ d.state = f[l].state
               /\ d.accept_queue = Tail(q)
  BY <1>0, <1>2, <1>4, <1>5 DEF Popped
<1>9. DOMAIN f2 = DOMAIN f /\ \A j \in DOMAIN f : f2[j] = IF j = l THEN d ELSE f[j]
  BY <1>1, <1>2, <1>8 DEF SetTcb
<1>10. /\ id = q[1] /\ Len(q) \in Nat /\ Len(q) > 0 /\ DOMAIN q = 1 .. Len(q)
       /\ DOMAIN Tail(q) = 1 .. Len(q) - 1 /\ \A i \in 1 .. Len(q) - 1 : Tail(q)[i] = q[i + 1]
  BY <1>5, <1>6, <1>7, HeadTailProperties, EmptySeq, LenProperties
<1>11. f2[l].accept_queue = Tail(q)
  BY <1>6, <1>8, <1>9
<1>12. \A i \in DOMAIN f2[l].accept_queue :
         /\ i + 1 \in DOMAIN q /\ i + 1 # 1 /\ i \in Nat
         /\ f2[l].accept_queue[i] = q[i + 1]
  BY <1>10, <1>11
<1>13. 1 \in DOMAIN q
  BY <1>10
<1>14. Leaves(f, l, f2)
  BY <1>5, <1>6, <1>8, <1>9, <1>12, <1>13 DEF Leaves
<1>15. Given(x, o, id, x2)
  BY <1>1, <1>2, <1>6 DEF Given, ObjType
<1>16. Settled(s, f, h, n, x)
  BY <1>1, <1>2 DEF QueuesSettled
<1>17. Settled(s, f2, h, n, x2)
  BY <1>3, <1>5, <1>10, <1>14, <1>15, <1>16, LeavesSettled
<1>18. PortsStay(f, h, n, f2, h, n)
  <2>1. (\A port \in DOMAIN h : port < n) /\ \A j \in DOMAIN f2 : j \in DOMAIN f => f2[j].src = f[j].src
    BY <1>14, <1>16 DEF Settled, Leaves
  <2>2. (\A j \in DOMAIN f : f[j].src[2] \in Nat) /\ DOMAIN h \subseteq Nat /\ n \in Nat
    BY <1>1, <1>2, NaturalPorts DEF PortType
  <2> QED
    BY <2>1, <2>2, SamePorts
<1>19. Elsewhere(s)
  BY <1>1, <1>2, <1>3, <1>6, <1>8 DEF Elsewhere, SetTcb, ObjType
<1>20. /\ Settled(s, sockets_'[s], listeners_'[s], next_port', socket_id')
       /\ PortsStay(sockets_[s], listeners_[s], next_port, sockets_'[s], listeners_'[s], next_port')
       /\ Entries(sockets_[s], sockets_'[s])
  BY <1>1, <1>2, <1>17, <1>18, <1>14, EntriesFrom
<1> QED
  BY <1>1, <1>19, <1>20, OneStackSettled DEF PortType

\* A new block in the hands of the object that asked for it (bind, connect).
LEMMA NewStep ==
  ASSUME TypeInv, QueueInv, NEW t \in Thread, NEW s, s = Home[t], NEW o \in Own(t), NEW m, m = next_id_[s],
         NEW c, c.state = "CLOSED", c.accept_queue = <<>>,
         sockets_'[s] = Put(sockets_[s], m, c), \A r \in Stack \ {s} : sockets_'[r] = sockets_[r],
         socket_id' = [socket_id EXCEPT ![o] = m], PortType', next_port <= next_port',
         \A r \in Stack \ {s} : listeners_'[r] = listeners_[r], NEW h2, h2 = listeners_'[s],
         \A port \in DOMAIN h2 : port < next_port',
         \A port \in Nat : Dedicated(listeners_[s], next_port, port) => Dedicated(h2, next_port', port)
  PROVE  QueuesKept
<1>1. s \in Stack /\ DOMAIN sockets_ = Stack /\ TablesType /\ ObjType /\ PortType /\ QueuesSettled
  BY HomeAssumption DEF TypeInv, StackType, TablesType, SocketsType, QueueInv, AppType
<1>2. PICK f, h, n, x, f2, n2, x2 : /\ f = sockets_[s] /\ h = listeners_[s] /\ n = next_port /\ x = socket_id
                                    /\ f2 = sockets_'[s] /\ n2 = next_port' /\ x2 = socket_id'
  OBVIOUS
<1>3. Unclaimed(s, f, x, m) /\ m \notin DOMAIN f
  BY <1>1, <1>2, FreshClaims
<1>4. f2 = Put(f, m, c)
  BY <1>2
<1>5. NewBlock(f, m, f2) /\ f2[m] = c
  BY <1>3, <1>4 DEF NewBlock, Put
<1>6. \A u \in Obj : x2[u] = IF u = o THEN m ELSE x[u]
  BY <1>1, <1>2 DEF ObjType
<1>7. NewHolder(s, x, m, x2)
  BY <1>3, <1>6 DEF NewHolder, Held, Unclaimed
<1>8. Settled(s, f, h, n, x)
  BY <1>1, <1>2 DEF QueuesSettled
<1>9. PortsStay(f, h, n, f2, h2, n2)
  <2>1. \A j \in DOMAIN f : f[j].src[2] \in Nat
    BY <1>1, <1>2, NaturalPorts
  <2>2. \A port \in Nat : Dedicated(h, n, port) => Dedicated(h2, n2, port)
    BY <1>2
  <2>3. \A j \in DOMAIN f : f2[j] = f[j]
    BY <1>5 DEF NewBlock
  <2>4. \A port \in DOMAIN h2 : port < n2
    BY <1>2
  <2> QED
    BY <2>1, <2>2, <2>3, <2>4 DEF PortsStay
<1>10. f2[m].state \notin Opening
  BY <1>5 DEF Opening
<1>11. Settled(s, f2, h2, n2, x2)
  BY <1>3, <1>5, <1>7, <1>8, <1>9, <1>10, NewSettled
<1>12. Elsewhere(s)
  BY <1>1, <1>2, <1>6 DEF Elsewhere, Own
<1>13. /\ Settled(s, sockets_'[s], listeners_'[s], next_port', socket_id')
       /\ PortsStay(sockets_[s], listeners_[s], next_port, sockets_'[s], listeners_'[s], next_port')
       /\ Entries(sockets_[s], sockets_'[s])
  BY <1>2, <1>9, <1>11, <1>5, EntriesFrom
<1> QED
  BY <1>1, <1>12, <1>13, OneStackSettled DEF PortType

\* bind makes a block for its socket,
LEMMA BindQueues ==
  ASSUME TypeInv, QueueInv, NEW t \in Thread, prog[t] # <<>>, bind(t), SeparatePorts(t)
  PROVE  QueuesKept
<1>0. PICK s, m, o, asked : s = Home[t] /\ m = next_id_[s] /\ o = Arg(t).o /\ asked = Arg(t).addr[2]
  OBVIOUS
<1>1. s \in Stack /\ DOMAIN sockets_ = Stack /\ DOMAIN listeners_ = Stack /\ TablesType /\ ListenersType
      /\ PortType /\ QueuesSettled
  BY <1>0, HomeAssumption DEF TypeInv, StackType, TablesType, SocketsType, ListenersType, QueueInv, AppType
<1>2. asked \in Nat /\ asked < BasePort /\ Allocate(s, asked) /\ o \in Own(t)
  BY <1>0, BindPort DEF SeparatePorts
<1>3. PICK port : port = PortOf(s, asked)
  OBVIOUS
<1>4. /\ port < next_port' /\ next_port <= next_port' /\ PortType' /\ port \in Nat
      /\ port < BasePort \/ next_port <= port
  <2>1. asked < next_port
    BY <1>1, <1>2, PortAssumption DEF PortType
  <2> QED
    BY <1>1, <1>2, <1>3, <2>1, TakenPort, PortAssumption DEF PortType
<1>5. PICK c : c.state = "CLOSED" /\ c.accept_queue = <<>> /\ sockets_' = [sockets_ EXCEPT ![s] = Put(@, m, c)]
  <2>1. s = Home[t] /\ m = next_id_[s] /\ port = PortOf(s, Arg(t).addr[2])
    BY <1>0, <1>3
  <2> QED
    BY <2>1, BindBlock
<1>6. sockets_'[s] = Put(sockets_[s], m, c) /\ \A r \in Stack \ {s} : sockets_'[r] = sockets_[r]
  BY <1>1, <1>5
<1>7. listeners_'[s] = Put(listeners_[s], port, m) /\ \A r \in Stack \ {s} : listeners_'[r] = listeners_[r]
  BY <1>0, <1>1, <1>3 DEF bind
<1>8. socket_id' = [socket_id EXCEPT ![o] = m]
  BY <1>0 DEF bind
<1>9. PICK h, h2, n, n2 : h = listeners_[s] /\ h2 = listeners_'[s] /\ n = next_port /\ n2 = next_port'
  OBVIOUS
<1>10. DOMAIN h2 = DOMAIN h \cup {port}
  BY <1>7, <1>9 DEF Put
<1>11. n \in Nat /\ n2 \in Nat /\ n <= n2 /\ DOMAIN h \subseteq Nat /\ \A p \in DOMAIN h : p < n
  <2>1. DOMAIN h \subseteq Nat
    BY <1>1, <1>9, NaturalPorts
  <2>2. \A p \in DOMAIN h : p < n
    BY <1>1, <1>9 DEF QueuesSettled, Settled
  <2> QED
    BY <1>1, <1>4, <1>9, <2>1, <2>2 DEF PortType
<1>12. \A p \in DOMAIN h2 : p < n2
  BY <1>4, <1>9, <1>10, <1>11
<1>13. \A p \in Nat : Dedicated(h, n, p) => Dedicated(h2, n2, p)
  BY <1>4, <1>9, <1>10, <1>11, PortAssumption DEF Dedicated
<1>14. /\ \A p \in DOMAIN h2 : p < next_port'
       /\ \A p \in Nat : Dedicated(listeners_[s], next_port, p) => Dedicated(h2, next_port', p)
  BY <1>9, <1>12, <1>13
<1>15. /\ s = Home[t] /\ o \in Own(t) /\ m = next_id_[s] /\ c.state = "CLOSED" /\ c.accept_queue = <<>>
       /\ PortType' /\ next_port <= next_port'
  BY <1>0, <1>2, <1>4, <1>5
<1>16. h2 = listeners_'[s] /\ \A r \in Stack \ {s} : listeners_'[r] = listeners_[r]
  BY <1>7, <1>9
<1> QED
  BY <1>6, <1>8, <1>14, <1>15, <1>16, NewStep

\* connect of a socket without a block: its port is the connection's alone.
LEMMA ConnectQueues ==
  ASSUME TypeInv, QueueInv, NEW t \in Thread, prog[t] # <<>>, ConnectRegister(t), SeparatePorts(t),
         NEW s, s = Home[t], NEW m, m = RegisteredId(s, Mine(t))
  PROVE  /\ QueuesKept
         /\ m \in DOMAIN sockets_'[s] /\ Dedicated(listeners_'[s], next_port', sockets_'[s][m].src[2])
<1>0. PICK mine, o, remote, asked : /\ mine = Mine(t) /\ o = Arg(t).o /\ remote = Arg(t).addr
                                    /\ asked = IF Live(s, mine) THEN sockets_[s][mine].src ELSE <<s, 0>>
  OBVIOUS
<1>1. s \in Stack /\ DOMAIN sockets_ = Stack /\ TablesType /\ ListenersType /\ SocketsType
      /\ PortType /\ QueuesSettled
  BY HomeAssumption DEF TypeInv, StackType, TablesType, SocketsType, QueueInv, AppType
<1>2. /\ ~ Live(s, mine) /\ register_connection(s, asked, remote, mine)
      /\ socket_id' = [socket_id EXCEPT ![o] = m] /\ Arg(t).op = "connect"
  BY <1>0 DEF ConnectRegister, SeparatePorts, Starts, Arg
<1>3. o \in Own(t)
  <2>1. Arg(t) \in Call(t)
    BY CurrentCall DEF TypeInv, AppType, CallsType
  <2> QED
    BY <1>0, <1>2, <2>1, CallFields
<1>4. asked[1] = s /\ asked[2] = 0 /\ m = next_id_[s]
  BY <1>0, <1>2 DEF RegisteredId
<1>5. PICK port, local, c : /\ port = PortOf(s, asked[2]) /\ local = <<asked[1], port>>
                            /\ c = Tcb("CLOSED", local, remote)
  OBVIOUS
<1>6. /\ port \in Nat /\ next_port <= port /\ next_port' = port + 1 /\ next_port \in Nat /\ BasePort <= next_port
  <2>1. Allocate(s, asked[2]) /\ port = FreePort(s)
    BY <1>2, <1>4, <1>5 DEF register_connection, PortOf
  <2> QED
    BY <1>1, <1>4, <2>1, FreePortType DEF Allocate, PortType
<1>7. c.state = "CLOSED" /\ c.accept_queue = <<>> /\ c.src = local /\ c.src[2] = port
  BY <1>5, TcbFields
<1>8. sockets_' = [sockets_ EXCEPT ![s] = Put(@, m, c)] /\ UNCHANGED listeners_
  BY <1>0, <1>2, <1>4, <1>5 DEF register_connection, RegisteredId
<1>9. sockets_'[s] = Put(sockets_[s], m, c) /\ \A r \in Stack \ {s} : sockets_'[r] = sockets_[r]
  BY <1>1, <1>8
<1>10. PICK h, n, n2 : h = listeners_[s] /\ n = next_port /\ n2 = next_port'
  OBVIOUS
<1>11. DOMAIN h \subseteq Nat /\ \A p \in DOMAIN h : p < n
  <2>1. DOMAIN h \subseteq Nat
    BY <1>1, <1>10, NaturalPorts
  <2>2. \A p \in DOMAIN h : p < n
    BY <1>1, <1>10 DEF QueuesSettled, Settled
  <2> QED
    BY <2>1, <2>2
<1>12. /\ \A p \in DOMAIN h : p < n2
       /\ \A p \in Nat : Dedicated(h, n, p) => Dedicated(h, n2, p)
       /\ Dedicated(h, n2, port)
  BY <1>6, <1>10, <1>11, PortAssumption DEF Dedicated
<1>13. /\ h = listeners_'[s] /\ \A r \in Stack \ {s} : listeners_'[r] = listeners_[r]
       /\ \A p \in DOMAIN h : p < next_port'
       /\ \A p \in Nat : Dedicated(listeners_[s], next_port, p) => Dedicated(h, next_port', p)
  BY <1>8, <1>10, <1>12
<1>14. PortType' /\ next_port <= next_port'
  BY <1>6, PortAssumption DEF PortType
<1>15. QueuesKept
  BY <1>2, <1>3, <1>4, <1>7, <1>9, <1>13, <1>14, NewStep
<1>16. m \in DOMAIN sockets_'[s] /\ sockets_'[s][m] = c
  BY <1>9 DEF Put
<1>17. Dedicated(listeners_'[s], next_port', sockets_'[s][m].src[2])
  BY <1>7, <1>10, <1>12, <1>13, <1>16
<1> QED
  BY <1>15, <1>16, <1>17

\* and a program's own route changes an address only.
LEMMA RegisterQueues ==
  ASSUME TypeInv, QueueInv, NEW t \in Thread, prog[t] # <<>>, RegisterRoute(t)
  PROVE  QueuesKept
<1>0. PICK s, mine, remote : s = Home[t] /\ mine = Mine(t) /\ remote = Arg(t).addr
  OBVIOUS
<1>1. s \in Stack /\ DOMAIN sockets_ = Stack /\ TablesType /\ ListenersType /\ SocketsType
      /\ PortType /\ QueuesSettled /\ UNCHANGED <<listeners_, socket_id>>
  BY <1>0, HomeAssumption DEF TypeInv, StackType, TablesType, SocketsType, QueueInv, AppType,
                              RegisterRoute, register_connection
<1>2. PICK f, h, n, x, f2, n2 : /\ f = sockets_[s] /\ h = listeners_[s] /\ n = next_port /\ x = socket_id
                                /\ f2 = sockets_'[s] /\ n2 = next_port'
  OBVIOUS
<1>3. PICK asked : asked = f[mine].src
  OBVIOUS
<1>4. Live(s, mine) /\ register_connection(s, asked, remote, mine)
  BY <1>0, <1>2, <1>3 DEF RegisterRoute
<1>5. mine \in DOMAIN f /\ asked[2] \in Nat /\ DOMAIN h \subseteq Nat /\ \A j \in DOMAIN f : f[j].src[2] \in Nat
  <2>1. mine \in DOMAIN f
    BY <1>2, <1>4 DEF Live
  <2>2. DOMAIN h \subseteq Nat /\ \A j \in DOMAIN f : f[j].src[2] \in Nat
    BY <1>1, <1>2, NaturalPorts
  <2> QED
    BY <1>3, <2>1, <2>2
<1>6. PICK port, local : port = PortOf(s, asked[2]) /\ local = <<asked[1], port>>
  OBVIOUS
<1>7. PortType' /\ next_port <= next_port' /\ (asked[2] # 0 => port = asked[2])
  <2>1. Allocate(s, asked[2])
    BY <1>4 DEF register_connection
  <2> QED
    BY <1>1, <1>5, <1>6, <2>1, PortTypes DEF PortOf
<1>8. Registered(s, mine, local, remote)
  BY <1>1, <1>4, <1>6, RegisterBlocks
<1>9. PICK d : /\ SetTcb(s, mine, d) /\ d.src = local /\ d.state = f[mine].state
               /\ d.accept_queue = f[mine].accept_queue
  BY <1>2, <1>4, <1>8 DEF Registered, Rehomed
<1>10. DOMAIN f2 = DOMAIN f /\ (\A j \in DOMAIN f : f2[j] = IF j = mine THEN d ELSE f[j]) /\ Elsewhere(s)
  BY <1>1, <1>2, <1>9 DEF SetTcb, Elsewhere
<1>11. Settled(s, f, h, n, x) /\ n \in Nat /\ n2 \in Nat /\ n <= n2
  BY <1>1, <1>2, <1>7 DEF QueuesSettled, PortType
<1>12. PortsStay(f, h, n, f2, h, n2)
  <2>1. \A p \in DOMAIN h : p < n2
    BY <1>5, <1>11 DEF Settled
  <2>2. \A p \in Nat : Dedicated(h, n, p) => Dedicated(h, n2, p) /\ p # 0
    BY <1>5, <1>11, PortAssumption DEF Dedicated
  <2>3. asked[2] # 0 => d.src[2] = asked[2]
    BY <1>6, <1>7, <1>9
  <2>4. ASSUME NEW j \in DOMAIN f, Dedicated(h, n, f[j].src[2])
        PROVE  Dedicated(h, n2, f2[j].src[2])
    <3>1. CASE j = mine
      BY <1>3, <1>5, <1>10, <2>2, <2>3, <2>4, <3>1
    <3>2. CASE j # mine
      BY <1>5, <1>10, <2>2, <2>4, <3>2
    <3> QED
      BY <3>1, <3>2
  <2> QED
    BY <1>10, <2>1, <2>4 DEF PortsStay
<1>13. Quiet(f, f2) /\ NoneOpens(f, f2, h, n2) /\ GivenUp(s, x, f2, x)
  BY <1>9, <1>10 DEF Quiet, NoneOpens, GivenUp
<1>14. Settled(s, f2, h, n2, x)
  BY <1>11, <1>12, <1>13, QuietSettled
<1>15. /\ Settled(s, sockets_'[s], listeners_'[s], next_port', socket_id')
       /\ PortsStay(sockets_[s], listeners_[s], next_port, sockets_'[s], listeners_'[s], next_port')
       /\ Entries(sockets_[s], sockets_'[s])
  BY <1>1, <1>2, <1>12, <1>14, <1>13, EntriesFrom
<1> QED
  BY <1>1, <1>7, <1>10, <1>15, OneStackSettled DEF PortType

\* Every step of a thread keeps the queues settled.
LEMMA ThreadQueues ==
  ASSUME TypeInv, QueueInv, NEW t \in Thread, ThreadStep(t), pc[t] = Ready => SeparatePorts(t)
  PROVE  QueuesKept
<1>0. ThreadShape(t) /\ prog[t] # <<>>
  BY ThreadShapes
<1>1. CASE Touches(t)
  BY <1>0, <1>1, TouchQueues
<1>2. CASE AcceptReturn(t)
  BY <1>0, <1>2, AcceptQueues
<1>3. CASE CloseAbort(t)
  BY <1>0, <1>3, AbortQueues
<1>4. CASE Join(t)
  BY <1>0, <1>4, JoinQueues
<1>5. CASE bind(t)
  <2>1. pc[t] = Ready
    BY <1>5 DEF bind, Starts
  <2> QED
    BY <1>0, <1>5, <2>1, BindQueues
<1>6. CASE ConnectRegister(t)
  <2>1. pc[t] = Ready
    BY <1>6 DEF ConnectRegister, Starts
  <2>2. PICK s, m : s = Home[t] /\ m = RegisteredId(s, Mine(t))
    OBVIOUS
  <2> QED
    BY <1>0, <1>6, <2>1, <2>2, ConnectQueues
<1>7. CASE RegisterRoute(t)
  BY <1>0, <1>7, RegisterQueues
<1>8. CASE AcceptCall(t) \/ simulate_node_crash(t)
  BY <1>0, <1>8, AcceptCallQueues
<1> QED
  BY <1>0, <1>1, <1>2, <1>3, <1>4, <1>5, <1>6, <1>7, <1>8 DEF ThreadShape

\* Every step keeps the queues settled, and the ports of the callers theirs.
LEMMA QueueStep ==
  ASSUME TypeInv, TypeInv', QueueInv, [Next]_vars,
         [\A t \in Thread : Calling(t) => SeparatePorts(t)]_vars
  PROVE  QueueInv'
<1>0. CASE UNCHANGED vars
  BY <1>0 DEF vars, app, stackVars, tables, QueueInv, QueuesSettled, CallersDedicated, Live
<1>1. CASE ~ UNCHANGED vars
  <2>1. QueuesKept
    <3>1. CASE StackNext /\ UNCHANGED app
      BY <3>1, StackQueues DEF app, TypeInv, AppType, QueueInv
    <3>2. CASE \E t \in Thread : ThreadStep(t)
      <4>1. PICK t \in Thread : ThreadStep(t)
        BY <3>2
      <4> QED
        BY <1>1, <4>1, ThreadQueues DEF Calling
    <3> QED
      BY <1>1, <3>1, <3>2 DEF Next
  <2>2. QueuesSettled'
    BY <2>1 DEF QueuesKept, QueuesSettled
  <2>3. ASSUME NEW t \in Thread, NEW s, s = Home[t], NEW id, id = pc'[t].id, id \in DOMAIN sockets_'[s],
               pc'[t].at = "opening"
        PROVE  Dedicated(listeners_'[s], next_port', sockets_'[s][id].src[2])
    <3>0. s \in Stack /\ id # 0
      BY <2>3, PointedIds DEF TypeInv, StackType, TablesType, SocketsType, SocketTable
    <3>1. ASSUME pc[t] = pc'[t], id \in DOMAIN sockets_[s]
          PROVE  Dedicated(listeners_'[s], next_port', sockets_'[s][id].src[2])
      <4>1. Dedicated(listeners_[s], next_port, sockets_[s][id].src[2])
        BY <2>3, <3>1 DEF QueueInv, CallersDedicated, Live
      <4>2. PortsStay(sockets_[s], listeners_[s], next_port, sockets_'[s], listeners_'[s], next_port')
        BY <2>1, <3>0 DEF QueuesKept
      <4> QED
        BY <2>3, <3>1, <4>1, <4>2 DEF PortsStay
    <3>3. pc[t].id = id => id \in 1 .. next_id_[s] - 1
      BY <2>3, <3>0, PointedIds
    <3>4. CASE StackNext /\ UNCHANGED app
      <4>1. PICK q \in Stack : Shape(q)
        BY <3>4, StackShape DEF TypeInv
      <4>2. pc[t] = pc'[t]
        BY <3>4 DEF app
      <4>3. id \in DOMAIN sockets_[s]
        BY <2>3, <3>0, <3>3, <4>1, <4>2, ShapeBlocks DEF TypeInv
      <4> QED
        BY <3>1, <4>2, <4>3
    <3>5. CASE \E v \in Thread : ThreadStep(v)
      <4>1. PICK v \in Thread : ThreadStep(v)
        BY <3>5
      <4>2. PICK w : pc' = [pc EXCEPT ![v] = w] /\ Enters(v, w)
        BY <4>1, PcMoves DEF Moves
      <4>3. DOMAIN pc = Thread
        BY DEF TypeInv, AppType, CallsType, PcType
      <4>4. pc'[v] = w /\ \A u \in Thread \ {v} : pc'[u] = pc[u]
        BY <4>2, <4>3
      <4>5. CASE t # v
        <5>1. pc[t] = pc'[t]
          BY <4>4, <4>5
        <5>2. id \in DOMAIN sockets_[s]
          BY <2>3, <3>0, <3>3, <4>1, <5>1, ThreadBlocks DEF Survives
        <5> QED
          BY <3>1, <5>1, <5>2
      <4>6. CASE t = v
        <5>1. ConnectRegister(t) /\ id = RegisteredId(s, Mine(t))
          BY <2>3, <4>2, <4>4, <4>6 DEF Enters
        <5>2. pc[t] = Ready /\ prog[t] # <<>>
          BY <4>1, <4>6, <5>1, ThreadShapes DEF ConnectRegister, Starts
        <5>3. SeparatePorts(t)
          BY <1>1, <4>1, <4>6, <5>2 DEF Calling
        <5> QED
          BY <2>3, <5>1, <5>2, <5>3, ConnectQueues
      <4> QED
        BY <4>5, <4>6
    <3> QED
      BY <1>1, <3>4, <3>5 DEF Next
  <2>4. CallersDedicated'
    BY <2>3 DEF CallersDedicated, Live
  <2> QED
    BY <2>2, <2>4 DEF QueueInv
<1> QED
  BY <1>0, <1>1

\* There are no queues initially.
LEMMA QueueInit == Init => QueueInv
<1>1. Init => \A s \in Stack : DOMAIN sockets_[s] = {} /\ DOMAIN listeners_[s] = {}
  BY DEF Init, StackInit, Empty
<1>2. Init => \A t \in Thread : pc[t].at = "ready"
  BY DEF Init, Ready
<1> QED
  BY <1>1, <1>2 DEF QueueInv, QueuesSettled, CallersDedicated, Settled

\* Sets with at most one member, of which not both have one.
LEMMA AtMostOne ==
  ASSUME NEW S, \A q, r \in S : q = r
  PROVE  Cardinality(S) = 0 \/ (Cardinality(S) = 1 /\ S # {})
<1>1. CASE S = {}
  BY <1>1, FS_EmptySet
<1>2. CASE S # {}
  <2>1. PICK q : q \in S
    BY <1>2
  <2>2. S = {q}
    BY <2>1
  <2> QED
    BY <2>2, FS_Singleton
<1> QED
  BY <1>1, <1>2
\* The inductive invariant implies the property.
LEMMA QueueInvGivesAcceptedOnce ==
  ASSUME QueueInv
  PROVE  AcceptedOnce
<1> SUFFICES ASSUME NEW s \in Stack, NEW id \in DOMAIN sockets_[s]
             PROVE  Cardinality(Queued(s, id)) + Cardinality(Holders(s, id)) <= 1
  BY DEF AcceptedOnce
<1>1. PICK f, x : f = sockets_[s] /\ x = socket_id
  OBVIOUS
<1>2. OneClaim(s, f, x, id)
  BY <1>1 DEF QueueInv, QueuesSettled, Settled
<1>3. \A q \in Queued(s, id) : q = <<q[1], q[2]>> /\ Waits(f, q[1], q[2], id)
                               /\ q[1] \in DOMAIN f /\ q[2] \in DOMAIN f[q[1]].accept_queue
  BY <1>1 DEF Queued, Waits
<1>4. \A o \in Holders(s, id) : o \in Obj /\ Held(s, x, o, id)
  BY <1>1 DEF Holders, Held
<1>5. ASSUME NEW q \in Queued(s, id), NEW r \in Queued(s, id)
      PROVE  q = r
  <2>1. q[1] = r[1] /\ q[2] = r[2]
    BY <1>2, <1>3 DEF OneClaim
  <2> QED
    BY <1>3, <2>1
<1>6. \A o, u \in Holders(s, id) : o = u
  BY <1>2, <1>4 DEF OneClaim
<1>7. Queued(s, id) = {} \/ Holders(s, id) = {}
  BY <1>2, <1>3, <1>4 DEF OneClaim
<1>8. PICK Q, H : Q = Queued(s, id) /\ H = Holders(s, id)
  OBVIOUS
<1>9. Cardinality(Q) = 0 \/ (Cardinality(Q) = 1 /\ Q # {})
  BY <1>5, <1>8, AtMostOne
<1>10. Cardinality(H) = 0 \/ (Cardinality(H) = 1 /\ H # {})
  BY <1>6, <1>8, AtMostOne
<1>11. Cardinality(Q) + Cardinality(H) <= 1
  BY <1>7, <1>8, <1>9, <1>10
<1> QED
  BY <1>8, <1>11

\* accept hands every connection out once, however the handshakes, the accepts and
\* the closes of all threads interleave and whatever the network loses, repeats
\* or reorders: a socket never waits in two places of an accept queue, never
\* belongs to two TcpSocket objects, and never waits while it belongs to one.  The
\* calls keep to SeparatePorts: servers bind ports below the ephemeral range, and
\* connect is called on a socket that is not bound.
THEOREM ChildrenAcceptedOnce ==
  Spec /\ [][\A t \in Thread : Calling(t) => SeparatePorts(t)]_vars => []AcceptedOnce
<1>1. Init => TypeInv /\ QueueInv
  BY TypeInit, QueueInit
<1>2. TypeInv /\ QueueInv /\ [Next]_vars /\ [\A t \in Thread : Calling(t) => SeparatePorts(t)]_vars
        => TypeInv' /\ QueueInv'
  BY TypeStep, QueueStep
<1>3. QueueInv => AcceptedOnce
  BY QueueInvGivesAcceptedOnce
<1> QED
  BY <1>1, <1>2, <1>3, PTL DEF Spec

-----------------------------------------------------------------------------
(* Programs that keep to the contracts.  What a program may do is a         *)
(* condition on its calls alone: no state of the stacks is in it.           *)

\* A call gives TcpSocket o its block, or is op on o.
Gives(c, o) == (c.op \in {"bind", "connect"} /\ c.o = o) \/ (c.op = "accept" /\ c.into = o)
Does(c, op, o) == c.op = op /\ c.o = o

\* bind asks for ports below the ephemeral range, and a socket that calls out gets
\* its block from that one call.
CallersUnbound(p) ==
    /\ \A t \in Thread : \A i \in DOMAIN p[t] : p[t][i].op = "bind" => p[t][i].addr[2] < BasePort
    /\ \A t, u \in Thread, o \in Obj : \A i \in DOMAIN p[t], j \in DOMAIN p[u] :
         Does(p[t][i], "connect", o) /\ Gives(p[u][j], o) => t = u /\ i = j
\* The thread that connects a socket closes it, if anyone does.
CallersClose(p) ==
    \A t, u \in Thread, o \in Obj : \A i \in DOMAIN p[t], j \in DOMAIN p[u] :
      Does(p[t][i], "connect", o) /\ Does(p[u][j], "close", o) => t = u
\* What is bound listens and is not closed, what is connected or accepted does not
\* listen; routes come from connect and from the listeners alone.
RolesApart(p) ==
    /\ \A t \in Thread : \A i \in DOMAIN p[t] : p[t][i].op \notin {"register", "crash"}
    /\ \A t, u \in Thread, o \in Obj : \A i \in DOMAIN p[t], j \in DOMAIN p[u] : Gives(p[t][i], o) =>
         /\ p[t][i].op = "bind" => ~ Does(p[u][j], "close", o)
         /\ p[t][i].op # "bind" => ~ Does(p[u][j], "listen", o)

\* The calls thread t has still to make after a step that takes k of them (n of a
\* send or recv may go down).
Alike(c, d) == d = c \/ (c.op \in {"send", "recv"} /\ d.op = c.op)
Advances(t, k, p, p2) ==
    \A u \in Thread : \A j \in DOMAIN p2[u] :
      LET i == IF u = t THEN j + k ELSE j IN
      j \in Nat /\ j # 0 /\ i \in DOMAIN p[u] /\ Alike(p[u][i], p2[u][j])
\* A call with less to send or receive is the same call.
LEMMA AlikeCalls ==
  ASSUME NEW c, NEW d, Alike(c, d)
  PROVE  /\ d.op = c.op
         /\ \A o : Gives(d, o) => Gives(c, o)
         /\ \A o : \A op \in {"bind", "connect", "close", "listen"} : Does(d, op, o) => Does(c, op, o) /\ d = c
         /\ d.op = "bind" => d = c
  BY DEF Alike, Gives, Does
\* What a program may do is kept by the calls it makes.
LEMMA ProgramsAdvance ==
  ASSUME NEW t \in Thread, NEW k \in {0, 1}, NEW p, NEW p2, Advances(t, k, p, p2)
  PROVE  /\ CallersUnbound(p) => CallersUnbound(p2)
         /\ CallersClose(p) => CallersClose(p2)
         /\ RolesApart(p) => RolesApart(p2)
<1> DEFINE Ix(u, j) == IF u = t THEN j + k ELSE j
<1>1. ASSUME NEW u \in Thread, NEW j \in DOMAIN p2[u]
      PROVE  /\ j \in Nat /\ j # 0 /\ Ix(u, j) \in DOMAIN p[u] /\ p2[u][j].op = p[u][Ix(u, j)].op
             /\ \A o : Gives(p2[u][j], o) => Gives(p[u][Ix(u, j)], o)
             /\ \A o : \A op \in {"bind", "connect", "close", "listen"} :
                  Does(p2[u][j], op, o) => Does(p[u][Ix(u, j)], op, o)
             /\ p2[u][j].op = "bind" => p2[u][j] = p[u][Ix(u, j)]
  <2>1. j \in Nat /\ j # 0 /\ Ix(u, j) \in DOMAIN p[u] /\ Alike(p[u][Ix(u, j)], p2[u][j])
    BY <1>1 DEF Advances
  <2> HIDE DEF Ix
  <2> QED
    BY <2>1, AlikeCalls
<1>2. \A u \in Thread : \A i, j \in Nat : Ix(u, i) = Ix(u, j) => i = j
  OBVIOUS
<1> HIDE DEF Ix
<1>3. CallersUnbound(p) => CallersUnbound(p2)
  <2> SUFFICES ASSUME CallersUnbound(p) PROVE CallersUnbound(p2)
    OBVIOUS
  <2>1. \A u \in Thread : \A i \in DOMAIN p2[u] : p2[u][i].op = "bind" => p2[u][i].addr[2] < BasePort
    BY <1>1 DEF CallersUnbound
  <2>2. ASSUME NEW v \in Thread, NEW u \in Thread, NEW o \in Obj, NEW i \in DOMAIN p2[v], NEW j \in DOMAIN p2[u],
               Does(p2[v][i], "connect", o), Gives(p2[u][j], o)
        PROVE  v = u /\ i = j
    <3>1. Does(p[v][Ix(v, i)], "connect", o) /\ Gives(p[u][Ix(u, j)], o)
      BY <1>1, <2>2
    <3>2. v = u /\ Ix(v, i) = Ix(u, j)
      BY <1>1, <2>2, <3>1 DEF CallersUnbound
    <3> QED
      BY <1>1, <1>2, <2>2, <3>2
  <2> QED
    BY <2>1, <2>2 DEF CallersUnbound
<1>4. CallersClose(p) => CallersClose(p2)
  <2> SUFFICES ASSUME CallersClose(p),
                      NEW v \in Thread, NEW u \in Thread, NEW o \in Obj,
                      NEW i \in DOMAIN p2[v], NEW j \in DOMAIN p2[u],
                      Does(p2[v][i], "connect", o), Does(p2[u][j], "close", o)
               PROVE  v = u
    BY DEF CallersClose
  <2>1. Ix(v, i) \in DOMAIN p[v] /\ Does(p[v][Ix(v, i)], "connect", o)
    BY <1>1
  <2>2. Ix(u, j) \in DOMAIN p[u] /\ Does(p[u][Ix(u, j)], "close", o)
    BY <1>1
  <2> QED
    BY <2>1, <2>2 DEF CallersClose
<1>5. RolesApart(p) => RolesApart(p2)
  <2> SUFFICES ASSUME RolesApart(p) PROVE RolesApart(p2)
    OBVIOUS
  <2>1. \A u \in Thread : \A i \in DOMAIN p2[u] : p2[u][i].op \notin {"register", "crash"}
    BY <1>1 DEF RolesApart
  <2>2. ASSUME NEW v \in Thread, NEW u \in Thread, NEW o \in Obj, NEW i \in DOMAIN p2[v], NEW j \in DOMAIN p2[u],
               Gives(p2[v][i], o)
        PROVE  /\ p2[v][i].op = "bind" => ~ Does(p2[u][j], "close", o)
               /\ p2[v][i].op # "bind" => ~ Does(p2[u][j], "listen", o)
    <3>1. Ix(v, i) \in DOMAIN p[v] /\ Gives(p[v][Ix(v, i)], o) /\ p[v][Ix(v, i)].op = p2[v][i].op
      BY <1>1, <2>2
    <3>2. Ix(u, j) \in DOMAIN p[u]
      BY <1>1
    <3>3. /\ p[v][Ix(v, i)].op = "bind" => ~ Does(p[u][Ix(u, j)], "close", o)
          /\ p[v][Ix(v, i)].op # "bind" => ~ Does(p[u][Ix(u, j)], "listen", o)
      BY <3>1, <3>2 DEF RolesApart
    <3>4. /\ Does(p2[u][j], "close", o) => Does(p[u][Ix(u, j)], "close", o)
          /\ Does(p2[u][j], "listen", o) => Does(p[u][Ix(u, j)], "listen", o)
      BY <1>1
    <3> QED
      BY <3>1, <3>3, <3>4
  <2> QED
    BY <2>1, <2>2 DEF RolesApart
<1> QED
  BY <1>3, <1>4, <1>5

\* What a step of thread t does to the programs, the places and the objects: an
\* object is given a block by a call on it, which returns unless it is connect.
Walks(t, k) ==
    /\ Advances(t, k, prog, prog')
    /\ \A u \in Thread \ {t} : pc'[u] = pc[u] /\ prog'[u] = prog[u]
    /\ \A o \in Obj : socket_id'[o] # socket_id[o] =>
         Gives(prog[t][1], o) /\ (k = 1 \/ pc'[t].at = "opening")
    /\ pc[t].at \in {"opening", "connecting"} => k = 1 \/ pc'[t].at = "connecting"
    /\ pc'[t].at = "opening" => prog' = prog /\ socket_id'[prog[t][1].o] = pc'[t].id
\* A call that returns, and one that goes on.
LEMMA ReturnWalks ==
  ASSUME CallsType, NEW t \in Thread, prog[t] # <<>>, Return(t),
         \A o \in Obj : socket_id'[o] # socket_id[o] => Gives(prog[t][1], o)
  PROVE  Walks(t, 1)
<1>1. DOMAIN pc = Thread /\ DOMAIN prog = Thread
  BY DEF CallsType, PcType, ProgType
<1>2. pc'[t].at = "ready" /\ prog'[t] = Tail(prog[t])
      /\ \A u \in Thread \ {t} : pc'[u] = pc[u] /\ prog'[u] = prog[u]
  BY <1>1 DEF Return, Ready
<1>3. \A u \in Thread : \A j \in DOMAIN prog[u] : j \in Nat /\ j # 0
  BY LenProperties DEF CallsType, ProgType
<1>4. PICK S, q : q = prog[t] /\ q \in Seq(S)
  BY DEF CallsType, ProgType
<1>5. \A j \in DOMAIN Tail(q) : j \in Nat /\ j # 0 /\ j + 1 \in DOMAIN q /\ Tail(q)[j] = q[j + 1]
  BY <1>4, HeadTailProperties, LenProperties
<1>6. ASSUME NEW u \in Thread, NEW j \in DOMAIN prog'[u], NEW i, i = IF u = t THEN j + 1 ELSE j
      PROVE  j \in Nat /\ j # 0 /\ i \in DOMAIN prog[u] /\ Alike(prog[u][i], prog'[u][j])
  <2>1. CASE u = t
    BY <1>2, <1>4, <1>5, <1>6, <2>1 DEF Alike
  <2>2. CASE u # t
    BY <1>2, <1>3, <1>6, <2>2 DEF Alike
  <2> QED
    BY <2>1, <2>2
<1>7. Advances(t, 1, prog, prog')
  BY <1>6 DEF Advances
<1> QED
  BY <1>2, <1>7 DEF Walks
\* A call that goes on is still the first of its program.
LEMMA GotoWalks ==
  ASSUME CallsType, NEW t \in Thread, NEW at, NEW id, NEW to, Goto(t, at, id, to),
         \A o \in Obj : socket_id'[o] # socket_id[o] => Gives(prog[t][1], o) /\ at = "opening",
         pc[t].at \in {"opening", "connecting"} => at = "connecting",
         at = "opening" => socket_id'[prog[t][1].o] = id
  PROVE  Walks(t, 0)
<1>1. DOMAIN pc = Thread
  BY DEF CallsType, PcType
<1>2. pc'[t].at = at /\ pc'[t].id = id /\ prog' = prog /\ \A u \in Thread \ {t} : pc'[u] = pc[u]
  BY <1>1 DEF Goto
<1>3. \A u \in Thread : \A j \in DOMAIN prog[u] : j \in Nat /\ j # 0 /\ j + 0 = j
  BY LenProperties DEF CallsType, ProgType
<1>4. Advances(t, 0, prog, prog')
  BY <1>2, <1>3 DEF Advances, Alike
<1> QED
  BY <1>2, <1>4 DEF Walks
\* A call that is made again, for what is left.
LEMMA RepeatWalks ==
  ASSUME CallsType, NEW t \in Thread, prog[t] # <<>>, UNCHANGED socket_id,
         pc' = [pc EXCEPT ![t] = Ready], pc[t].at \notin {"opening", "connecting"},
         \/ UNCHANGED prog
         \/ Arg(t).op \in {"send", "recv"} /\ \E n : prog' = [prog EXCEPT ![t][1].n = @ - n]
  PROVE  Walks(t, 0)
<1>1. DOMAIN pc = Thread /\ DOMAIN prog = Thread
  BY DEF CallsType, PcType, ProgType
<1>2. pc'[t].at = "ready" /\ \A u \in Thread \ {t} : pc'[u] = pc[u]
  BY <1>1 DEF Ready
<1>3. \A u \in Thread : \A j \in DOMAIN prog[u] : j \in Nat /\ j # 0 /\ j + 0 = j
  BY LenProperties DEF CallsType, ProgType
<1>4. Arg(t) = prog[t][1] /\ Arg(t) \in Call(t)
  BY CurrentCall DEF CallsType
<1>5. /\ \A u \in Thread \ {t} : prog'[u] = prog[u]
      /\ DOMAIN prog'[t] = DOMAIN prog[t] /\ \A j \in DOMAIN prog[t] : Alike(prog[t][j], prog'[t][j])
  <2>1. CASE UNCHANGED prog
    BY <2>1 DEF Alike
  <2>2. CASE Arg(t).op \in {"send", "recv"} /\ \E n : prog' = [prog EXCEPT ![t][1].n = @ - n]
    <3>1. PICK c, n : c = prog[t][1] /\ prog' = [prog EXCEPT ![t][1].n = @ - n]
      BY <2>2
    <3>2. DOMAIN prog'[t] = DOMAIN prog[t] /\ \A j \in DOMAIN prog[t] \ {1} : prog'[t][j] = prog[t][j]
      BY <1>1, <3>1
    <3>3. 1 \in DOMAIN prog[t] => prog'[t][1] = [c EXCEPT !.n = @ - n]
      BY <1>1, <3>1
    <3>4. [c EXCEPT !.n = @ - n].op = c.op
      BY <1>4, <3>1, CallFields
    <3>5. \A u \in Thread \ {t} : prog'[u] = prog[u]
      BY <1>1, <3>1
    <3> QED
      BY <1>4, <2>2, <3>1, <3>2, <3>3, <3>4, <3>5 DEF Alike
  <2> QED
    BY <2>1, <2>2
<1>6. Advances(t, 0, prog, prog')
  BY <1>3, <1>5 DEF Advances, Alike
<1> QED
  BY <1>2, <1>5, <1>6 DEF Walks

\* Every step of a thread is one of these.
LEMMA CallWalks ==
  ASSUME TypeInv, NEW t \in Thread, ThreadStep(t)
  PROVE  \E k \in {0, 1} : Walks(t, k)
<1>0. CallsType /\ prog[t] # <<>> /\ ObjType
  BY DEF TypeInv, AppType, ThreadStep
<1>1. Arg(t) = prog[t][1] /\ Ready.at = "ready"
  BY <1>0, CurrentCall DEF CallsType, Ready
<1>2. CASE Return(t) /\ UNCHANGED socket_id
  BY <1>0, <1>2, ReturnWalks
<1>3. CASE bind(t) \/ AcceptReturn(t) \/ (AcceptCall(t) /\ Return(t))
  <2>1. Return(t)
    BY <1>3 DEF bind, AcceptReturn
  <2>2. Arg(t).op = "bind" \/ Arg(t).op = "accept"
    BY <1>0, <1>3 DEF bind, AcceptCall, AcceptReturn, Starts, Arg, CallsType, InCallType, CallAt
  <2>3. \E o, id : socket_id' = [socket_id EXCEPT ![o] = id] /\ Gives(Arg(t), o)
    <3>1. CASE bind(t)
      BY <3>1 DEF bind, Starts, Arg, Gives
    <3>2. CASE AcceptReturn(t)
      BY <1>0, <3>2 DEF AcceptReturn, Arg, Gives, CallsType, InCallType, CallAt
    <3>3. CASE AcceptCall(t) /\ socket_id' = [socket_id EXCEPT ![Arg(t).into] = 0]
      BY <3>3 DEF AcceptCall, Starts, Arg, Gives
    <3>4. CASE AcceptCall(t) /\ Return(t) /\ Goto(t, "accepting", Mine(t), "CLOSED")
      <4>1. pc'[t].at = "accepting" /\ pc'[t].at = "ready"
        BY <1>0, <3>4 DEF Return, Goto, Ready, CallsType, PcType
      <4> QED
        BY <4>1
    <3> QED
      BY <1>3, <3>1, <3>2, <3>3, <3>4 DEF AcceptCall
  <2>4. \A o \in Obj : socket_id'[o] # socket_id[o] => Gives(prog[t][1], o)
    BY <1>0, <1>1, <2>3 DEF ObjType
  <2> QED
    BY <1>0, <2>1, <2>4, ReturnWalks
<1>4. CASE send(t) \/ recv(t) \/ drain(t)
  <2>1. UNCHANGED socket_id /\ (Return(t) \/ pc' = [pc EXCEPT ![t] = Ready])
    BY <1>4 DEF send, recv, drain, OnlyBlock, Continue
  <2>2. Arg(t).op \in {"send", "recv", "drain"} /\ pc[t].at \notin {"opening", "connecting"}
    BY <1>0, <1>1, <1>4 DEF send, recv, drain, Inside, Starts, Arg, CallsType, InCallType, CallAt
  <2>3. \/ Return(t) \/ UNCHANGED prog
        \/ Arg(t).op \in {"send", "recv"} /\ \E n : prog' = [prog EXCEPT ![t][1].n = @ - n]
    <3>1. CASE drain(t)
      BY <3>1 DEF drain
    <3>2. CASE send(t) \/ recv(t)
      <4>1. PICK n : Continue(t, n)
        BY <3>2 DEF send, recv
      <4>2. Arg(t).op \in {"send", "recv"}
        BY <1>0, <1>1, <3>2 DEF send, recv, Inside, Starts, Arg, CallsType, InCallType, CallAt
      <4> QED
        BY <4>1, <4>2 DEF Continue
    <3> QED
      BY <1>4, <3>1, <3>2
  <2> QED
    BY <1>0, <1>2, <2>1, <2>2, <2>3, RepeatWalks
<1>5. CASE ConnectRegister(t)
  <2>1. PICK id : id = RegisteredId(Home[t], Mine(t))
    OBVIOUS
  <2>2. PICK o : o = Arg(t).o
    OBVIOUS
  <2>3. /\ Goto(t, "opening", id, "CLOSED") /\ socket_id' = [socket_id EXCEPT ![o] = id]
        /\ Arg(t).op = "connect" /\ pc[t].at = "ready"
    BY <1>1, <1>5, <2>1, <2>2 DEF ConnectRegister, Starts, Arg
  <2>4. o \in Obj
    BY <1>0, <2>2, <2>3, CurrentCall, CallFields DEF CallsType, Own
  <2>5. /\ \A u \in Obj : socket_id'[u] # socket_id[u] => Gives(prog[t][1], u)
        /\ socket_id'[prog[t][1].o] = id
    BY <1>0, <1>1, <2>2, <2>3, <2>4 DEF ObjType, Gives
  <2>6. Walks(t, 0)
    BY <1>0, <2>3, <2>5, GotoWalks
  <2> QED
    BY <2>6
<1>6. ASSUME UNCHANGED socket_id, NEW at, NEW id, NEW to, Goto(t, at, id, to), at # "opening",
             pc[t].at \in {"opening", "connecting"} => at = "connecting"
      PROVE  Walks(t, 0)
  BY <1>0, <1>6, GotoWalks
<1>7. CASE Park(t) \/ ConnectOpen(t) \/ (AcceptCall(t) /\ ~ Return(t)) \/ (CloseCheck(t) /\ ~ Return(t))
           \/ CloseFlush(t) \/ CloseWake(t) \/ CloseMark(t) \/ CloseFin(t) \/ StopCall(t)
  <2>1. UNCHANGED socket_id
    BY <1>7 DEF Park, ConnectOpen, AcceptCall, CloseCheck, CloseFlush, CloseWake, CloseMark, CloseFin,
                StopCall, OnlyThread, OnlyBlock
  <2>2. \E at, id, to : /\ Goto(t, at, id, to) /\ at # "opening"
                        /\ pc[t].at \in {"opening", "connecting"} => at = "connecting"
    <3>1. CASE Park(t)
      BY <1>1, <3>1 DEF Park, Starts, Arg
    <3>2. CASE ConnectOpen(t)
      BY <3>2 DEF ConnectOpen
    <3>3. CASE (AcceptCall(t) /\ ~ Return(t)) \/ (CloseCheck(t) /\ ~ Return(t)) \/ StopCall(t)
      BY <1>1, <3>3 DEF AcceptCall, CloseCheck, StopCall, Starts
    <3>4. CASE CloseFlush(t) \/ CloseWake(t) \/ CloseMark(t) \/ CloseFin(t)
      BY <3>4 DEF CloseFlush, CloseWake, CloseMark, CloseFin
    <3> QED
      BY <1>7, <3>1, <3>2, <3>3, <3>4
  <2> QED
    BY <1>6, <2>1, <2>2
<1>8. CASE \/ listen(t) \/ RegisterRoute(t) \/ ConnectReturn(t) \/ NoSuchSocket(t)
           \/ (CloseCheck(t) /\ Return(t)) \/ CloseBump(t) \/ CloseAbort(t) \/ Join(t)
           \/ simulate_node_crash(t) \/ Await(t)
  <2>1. Return(t)
    BY <1>8 DEF listen, RegisterRoute, ConnectReturn, NoSuchSocket, CloseBump, CloseAbort, Join,
                simulate_node_crash, Await
  <2>2. UNCHANGED socket_id
    BY <1>8 DEF listen, RegisterRoute, ConnectReturn, NoSuchSocket, CloseCheck, CloseBump, CloseAbort,
                Join, simulate_node_crash, Await, OnlyThread, OnlyBlock
  <2> QED
    BY <1>2, <2>1, <2>2
<1> QED
  BY <1>3, <1>4, <1>5, <1>7, <1>8 DEF ThreadStep

\* A socket that will call out has no block yet, unless it is the one its thread
\* calls out with; the block a thread is about to open is that socket's.
CallersEmpty ==
    \A u \in Thread, o \in Obj : \A i \in DOMAIN prog[u] : Does(prog[u][i], "connect", o) =>
      socket_id[o] = 0 \/ (i = 1 /\ pc[u].at \in {"opening", "connecting"})
CallersHold == \A u \in Thread : pc[u].at = "opening" => socket_id[prog[u][1].o] = pc[u].id
CallerInv == CallersUnbound(prog) /\ CallersEmpty /\ CallersHold
\* No socket has a block initially.
LEMMA CallerInit == Init /\ CallersUnbound(prog) => CallerInv
  BY DEF Init, CallerInv, CallersEmpty, CallersHold, Ready
\* The call a thread is at, and the socket it is on.
LEMMA FirstCall ==
  ASSUME TypeInv, NEW t \in Thread, prog[t] # <<>>
  PROVE  /\ 1 \in DOMAIN prog[t] /\ Arg(t) = prog[t][1]
         /\ Arg(t).op \in {"bind", "connect", "close", "listen", "accept"} =>
              Arg(t).o \in Obj /\ Home[Arg(t).o] = Home[t]
<1>1. ProgType
  BY DEF TypeInv, AppType, CallsType
<1>2. /\ Arg(t) = prog[t][1] /\ Arg(t) \in Call(t) /\ prog[t] \in Seq(Call(t))
      /\ Len(prog[t]) \in Nat /\ Len(prog[t]) > 0
  BY <1>1, CurrentCall
<1>3. 1 \in DOMAIN prog[t]
  BY <1>2, LenProperties
<1> QED
  BY <1>2, <1>3, CallFields DEF Own
\* Every step keeps the callers without a block until they call.
LEMMA CallerStep ==
  ASSUME TypeInv, TypeInv', CallerInv, [Next]_vars
  PROVE  CallerInv'
<1>1. CASE UNCHANGED app
  BY <1>1 DEF app, CallerInv, CallersEmpty, CallersHold
<1>2. CASE \E t \in Thread : ThreadStep(t)
  <2>1. PICK t \in Thread : ThreadStep(t)
    BY <1>2
  <2>2. PICK k \in {0, 1} : Walks(t, k)
    BY <2>1, CallWalks
  <2>3. 1 \in DOMAIN prog[t]
    BY <2>1, FirstCall DEF ThreadStep
  <2>4. PICK p, p2 : p = prog /\ p2 = prog'
    OBVIOUS
  <2>5. CallersUnbound(p2)
    BY <2>2, <2>4, ProgramsAdvance DEF Walks, CallerInv
  <2>6. ASSUME NEW u \in Thread, NEW o \in Obj, NEW j \in DOMAIN p2[u], Does(p2[u][j], "connect", o)
        PROVE  socket_id'[o] = 0 \/ (j = 1 /\ pc'[u].at \in {"opening", "connecting"})
    <3>1. PICK i : i = IF u = t THEN j + k ELSE j
      OBVIOUS
    <3>2. j \in Nat /\ j # 0 /\ i \in DOMAIN p[u] /\ Alike(p[u][i], p2[u][j])
      BY <2>2, <2>4, <3>1 DEF Walks, Advances
    <3>3. Does(p[u][i], "connect", o)
      BY <2>6, <3>2, AlikeCalls
    <3>4. socket_id[o] = 0 \/ (i = 1 /\ pc[u].at \in {"opening", "connecting"})
      BY <2>4, <3>2, <3>3 DEF CallerInv, CallersEmpty
    <3>5. CASE i = 1 /\ pc[u].at \in {"opening", "connecting"}
      BY <2>2, <3>1, <3>2, <3>5 DEF Walks
    <3>6. CASE socket_id[o] = 0 /\ socket_id'[o] # socket_id[o]
      <4>1. Gives(p[t][1], o) /\ (k = 1 \/ pc'[t].at = "opening")
        BY <2>2, <2>4, <3>6 DEF Walks
      <4>2. u = t /\ i = 1
        BY <2>3, <2>4, <3>2, <3>3, <4>1 DEF CallerInv, CallersUnbound
      <4> QED
        BY <3>1, <3>2, <4>1, <4>2
    <3> QED
      BY <3>4, <3>5, <3>6
  <2>7. ASSUME NEW u \in Thread, pc'[u].at = "opening"
        PROVE  socket_id'[prog'[u][1].o] = pc'[u].id
    <3>1. CASE u = t
      BY <2>2, <2>7, <3>1 DEF Walks
    <3>2. CASE u # t
      <4>1. pc'[u] = pc[u] /\ prog'[u] = prog[u] /\ pc[u].at = "opening"
        BY <2>2, <2>7, <3>2 DEF Walks
      <4>2. Arg(u).op = "connect" /\ prog[u] # <<>>
        BY <4>1 DEF TypeInv, AppType, CallsType, InCallType, CallAt
      <4>3. 1 \in DOMAIN prog[u] /\ Arg(u) = prog[u][1] /\ Arg(u).o \in Obj
        BY <4>2, FirstCall
      <4>4. PICK o : o = Arg(u).o
        OBVIOUS
      <4>5. socket_id[o] = pc[u].id
        BY <4>1, <4>3, <4>4 DEF CallerInv, CallersHold
      <4>6. Does(p[u][1], "connect", o) /\ o \in Obj /\ 1 \in DOMAIN p[u] /\ 1 \in DOMAIN p[t]
        BY <2>3, <2>4, <4>2, <4>3, <4>4 DEF Does
      <4>7. ~ Gives(p[t][1], o)
        BY <2>4, <3>2, <4>6 DEF CallerInv, CallersUnbound
      <4>8. socket_id'[o] = socket_id[o]
        BY <2>2, <2>4, <4>6, <4>7 DEF Walks
      <4> QED
        BY <4>1, <4>3, <4>4, <4>5, <4>8
    <3> QED
      BY <3>1, <3>2
  <2>8. CallersEmpty'
    BY <2>4, <2>6 DEF CallersEmpty
  <2> QED
    BY <2>4, <2>5, <2>7, <2>8 DEF CallerInv, CallersHold
<1> QED
  BY <1>1, <1>2 DEF Next, vars
\* Such programs keep to the contract of the ports.
LEMMA CallersSeparate ==
  ASSUME TypeInv, CallerInv, NEW t \in Thread, Calling(t)
  PROVE  SeparatePorts(t) /\ (Arg(t).op = "connect" => ~ Live(Home[t], Mine(t)))
<1>1. pc[t].at = "ready" /\ prog[t] # <<>>
  BY DEF Calling, ThreadStep, Ready
<1>2. /\ 1 \in DOMAIN prog[t] /\ Arg(t) = prog[t][1]
      /\ Arg(t).op = "connect" => Arg(t).o \in Obj
  BY <1>1, FirstCall
<1>3. Arg(t).op = "bind" => Arg(t).addr[2] < BasePort
  BY <1>2 DEF CallerInv, CallersUnbound
<1>4. Arg(t).op = "connect" => Mine(t) = 0
  BY <1>1, <1>2 DEF CallerInv, CallersEmpty, Does, Mine
<1>5. 0 \notin DOMAIN sockets_[Home[t]]
  BY PointedIds
<1> QED
  BY <1>3, <1>4, <1>5 DEF SeparatePorts, Live

\* accept hands every connection out once in every behaviour of a program whose
\* servers bind ports below the ephemeral range and whose callers get their block
\* from connect alone, whatever its threads' interleaving and its network.
THEOREM UnboundCallersAcceptOnce == Spec /\ CallersUnbound(prog) => []AcceptedOnce
<1>1. Init /\ CallersUnbound(prog) => TypeInv /\ QueueInv /\ CallerInv
  BY TypeInit, QueueInit, CallerInit
<1>2. TypeInv /\ CallerInv => \A t \in Thread : Calling(t) => SeparatePorts(t)
  BY CallersSeparate
<1>3. TypeInv /\ QueueInv /\ CallerInv /\ [Next]_vars => TypeInv' /\ QueueInv' /\ CallerInv'
  BY <1>2, TypeStep, QueueStep, CallerStep
<1>4. QueueInv => AcceptedOnce
  BY QueueInvGivesAcceptedOnce
<1> QED
  BY <1>1, <1>3, <1>4, PTL DEF Spec

\* If the thread that connects a socket is the one that closes it, a call never
\* meets another thread inside connect on the same block.
LEMMA CallersOpenAlone ==
  ASSUME TypeInv, CallerInv, QueueInv, CallersClose(prog), NEW t \in Thread, Calling(t)
  PROVE  SingleOpener(t)
<1>1. pc[t].at = "ready" /\ prog[t] # <<>>
  BY DEF Calling, ThreadStep, Ready
<1>2. Arg(t).op = "connect" => ~ Live(Home[t], Mine(t))
  BY CallersSeparate
<1>3. ASSUME Arg(t).op = "close", NEW s, s = Home[t], NEW id, id = Mine(t), Live(s, id),
             NEW u \in Thread, Home[u] = s, pc[u].id = id, pc[u].at = "opening"
      PROVE  FALSE
  <2>1. Arg(u).op = "connect" /\ prog[u] # <<>>
    BY <1>3 DEF TypeInv, AppType, CallsType, InCallType, CallAt
  <2>2. PICK o, q : o = Arg(t).o /\ q = Arg(u).o
    OBVIOUS
  <2>3. /\ 1 \in DOMAIN prog[t] /\ Arg(t) = prog[t][1] /\ o \in Obj /\ Home[o] = s
        /\ 1 \in DOMAIN prog[u] /\ Arg(u) = prog[u][1] /\ q \in Obj /\ Home[q] = s
    BY <1>1, <1>3, <2>1, <2>2, FirstCall
  <2>4. socket_id[o] = id /\ socket_id[q] = id
    BY <1>3, <2>2, <2>3 DEF Mine, CallerInv, CallersHold
  <2>5. OneClaim(s, sockets_[s], socket_id, id)
    BY <1>3, PointedIds DEF QueueInv, QueuesSettled, Settled, Live
  <2>6. PICK x, f : x = socket_id /\ f = sockets_[s]
    OBVIOUS
  <2>7. Held(s, x, o, id) /\ Held(s, x, q, id)
    BY <2>3, <2>4, <2>6 DEF Held
  <2>8. o = q
    BY <2>3, <2>5, <2>6, <2>7 DEF OneClaim
  <2>9. Does(prog[u][1], "connect", o) /\ Does(prog[t][1], "close", o)
    BY <1>3, <2>1, <2>2, <2>3, <2>8 DEF Does
  <2>10. u = t
    BY <2>3, <2>9 DEF CallersClose
  <2> QED
    BY <1>1, <1>3, <2>10
<1> QED
  BY <1>2, <1>3 DEF SingleOpener, Handled
\* The condition on who closes is kept by every step.
LEMMA ClosersStay ==
  ASSUME TypeInv, CallersClose(prog), [Next]_vars
  PROVE  CallersClose(prog)'
<1>1. CASE UNCHANGED app
  BY <1>1 DEF app
<1>2. CASE \E t \in Thread : ThreadStep(t)
  <2>1. PICK t \in Thread : ThreadStep(t)
    BY <1>2
  <2>2. PICK k \in {0, 1} : Walks(t, k)
    BY <2>1, CallWalks
  <2>3. PICK p, p2 : p = prog /\ p2 = prog'
    OBVIOUS
  <2>4. CallersClose(p2)
    BY <2>2, <2>3, ProgramsAdvance DEF Walks
  <2> QED
    BY <2>3, <2>4
<1> QED
  BY <1>1, <1>2 DEF Next, vars

\* A connection is opened once in every behaviour of a program whose callers get
\* their block from connect alone and are closed, if at all, by the thread that
\* connects them.
THEOREM UnboundCallersOpenOnce ==
  Spec /\ CallersUnbound(prog) /\ CallersClose(prog) => OpensOnce
<1> DEFINE Inv == TypeInv /\ QueueInv /\ CallerInv /\ CallersClose(prog) /\ OpenInv
<1>1. Init /\ CallersUnbound(prog) /\ CallersClose(prog) => Inv
  BY TypeInit, QueueInit, CallerInit, OpenInit
<1>2. Inv => \A t \in Thread : Calling(t) => SeparatePorts(t) /\ SingleOpener(t)
  BY CallersSeparate, CallersOpenAlone
<1>3. Inv /\ [Next]_vars => Inv'
  BY <1>2, TypeStep, QueueStep, CallerStep, ClosersStay, OpenStep
<1>4. Inv /\ [Next]_vars => [OpensNext]_vars
  BY OpensStep
<1>5. Spec /\ CallersUnbound(prog) /\ CallersClose(prog) => [][OpensNext]_vars
  BY <1>1, <1>3, <1>4, PTL DEF Spec
<1> QED
  BY <1>5 DEF OpensOnce, OpensNext

-----------------------------------------------------------------------------
(* Programs whose sockets keep to one role have exact routes.               *)

\* A route that appears leads to a socket that was not there (g: the routes of a
\* stack whose next id is n).
NewRoutes(g, n, g2) ==
    \A key \in DOMAIN g2 : (key \in DOMAIN g /\ g2[key] = g[key]) \/ g2[key] = n
\* A step that adds one route to a new socket, or removes some.
LEMMA SomeRoutes ==
  ASSUME RoutesType, NEW s \in Stack, NEW r \in Stack, NEW key,
         \/ UNCHANGED connections_
         \/ connections_' = [connections_ EXCEPT ![s] = Put(@, key, next_id_[s])]
         \/ connections_' = [connections_ EXCEPT ![s] = Remove(@, key)]
         \/ connections_' = [connections_ EXCEPT ![s] = Empty]
  PROVE  NewRoutes(connections_[r], next_id_[r], connections_'[r])
<1>1. DOMAIN connections_ = Stack
  BY DEF RoutesType
<1>2. CASE UNCHANGED connections_
  BY <1>2 DEF NewRoutes
<1>3. CASE connections_' = [connections_ EXCEPT ![s] = Put(@, key, next_id_[s])]
  BY <1>1, <1>3 DEF NewRoutes, Put
<1>4. CASE connections_' = [connections_ EXCEPT ![s] = Remove(@, key)]
  BY <1>1, <1>4 DEF NewRoutes, Remove
<1>5. CASE connections_' = [connections_ EXCEPT ![s] = Empty]
  BY <1>1, <1>5 DEF NewRoutes, Empty
<1> QED
  BY <1>2, <1>3, <1>4, <1>5
\* destroy_connection adds no route,
LEMMA DestroyedRoutes ==
  ASSUME RoutesType, NEW s \in Stack, NEW r \in Stack, NEW id, NEW d, NEW x, NEW y,
         DestroyConnection(s, id, d, x, y)
  PROVE  NewRoutes(connections_[r], next_id_[r], connections_'[r])
<1>1. PICK key : key = <<x, y>>
  OBVIOUS
<1>2. UNCHANGED connections_ \/ connections_' = [connections_ EXCEPT ![s] = Remove(@, key)]
  BY <1>1 DEF DestroyConnection
<1> QED
  BY <1>2, SomeRoutes
\* a daemon adds the route of a child,
LEMMA StackNewRoutes ==
  ASSUME StackType, NEW s \in Stack, Shape(s), NEW r \in Stack
  PROVE  NewRoutes(connections_[r], next_id_[r], connections_'[r])
<1>0. RoutesType
  BY DEF StackType, TablesType
<1>1. CASE Updates(s) \/ Enqueues(s)
  <2>1. UNCHANGED connections_
    BY <1>1 DEF Updates, Enqueues
  <2> QED
    BY <1>0, <2>1, SomeRoutes
<1>2. CASE Spawns(s)
  <2>1. PICK key : connections_' = [connections_ EXCEPT ![s] = Put(@, key, next_id_[s])]
    BY <1>2 DEF Spawns
  <2> QED
    BY <1>0, <2>1, SomeRoutes
<1>3. CASE Resets(s)
  <2>1. PICK key : connections_' = [connections_ EXCEPT ![s] = Remove(@, key)]
    BY <1>3 DEF Resets
  <2> QED
    BY <1>0, <2>1, SomeRoutes
<1>4. CASE Destroys(s)
  <2>1. PICK id, d, x, y : DestroyConnection(s, id, d, x, y)
    BY <1>4 DEF Destroys
  <2> QED
    BY <1>0, <2>1, DestroyedRoutes
<1> QED
  BY <1>1, <1>2, <1>3, <1>4 DEF Shape
\* and a thread the one of a socket that calls out.
LEMMA ThreadNewRoutes ==
  ASSUME TypeInv, NEW t \in Thread, ThreadStep(t), ~ RegisterRoute(t),
         ConnectRegister(t) => ~ Live(Home[t], Mine(t)), NEW r \in Stack
  PROVE  NewRoutes(connections_[r], next_id_[r], connections_'[r])
<1>0. RoutesType /\ ThreadShape(t) /\ Home[t] \in Stack
  BY ThreadShapes DEF TypeInv, StackType, TablesType
<1>1. CASE Touches(t) \/ bind(t) \/ AcceptCall(t) \/ AcceptReturn(t)
  <2>1. UNCHANGED connections_
    BY <1>1 DEF Touches, bind, AcceptCall, AcceptReturn, tables
  <2> QED
    BY <1>0, <2>1, SomeRoutes
<1>2. CASE ConnectRegister(t)
  <2>1. PICK s, mine, asked, remote : s = Home[t] /\ mine = Mine(t) /\ register_connection(s, asked, remote, mine)
    BY <1>2 DEF ConnectRegister
  <2>2. RegisteredId(s, mine) = next_id_[s]
    BY <1>2, <2>1 DEF RegisteredId
  <2>3. PICK key : connections_' = [connections_ EXCEPT ![s] = Put(@, key, next_id_[s])]
    BY <2>1, <2>2 DEF register_connection
  <2> QED
    BY <1>0, <2>1, <2>3, SomeRoutes
<1>3. CASE CloseAbort(t)
  <2>1. PICK id, d, x, y : DestroyConnection(Home[t], id, d, x, y)
    BY <1>3 DEF CloseAbort
  <2> QED
    BY <1>0, <2>1, DestroyedRoutes
<1>4. CASE Join(t)
  <2>1. connections_' = [connections_ EXCEPT ![Home[t]] = Empty]
    BY <1>4 DEF Join
  <2> QED
    BY <1>0, <2>1, SomeRoutes
<1>5. CASE simulate_node_crash(t)
  <2>1. PICK key : UNCHANGED connections_ \/ connections_' = [connections_ EXCEPT ![Home[t]] = Remove(@, key)]
    BY <1>5 DEF simulate_node_crash
  <2> QED
    BY <1>0, <2>1, SomeRoutes
<1> QED
  BY <1>0, <1>1, <1>2, <1>3, <1>4, <1>5 DEF ThreadShape

\* What a socket gets from the call that gives it a block.
LEMMA GivenBlock ==
  ASSUME TypeInv, NEW t \in Thread, ThreadStep(t), NEW o \in Obj, socket_id'[o] # socket_id[o]
  PROVE  /\ Home[o] = Home[t] /\ 1 \in DOMAIN prog[t] /\ Gives(prog[t][1], o)
         /\ \/ /\ prog[t][1].op = "bind" /\ socket_id'[o] = next_id_[Home[t]]
               /\ UNCHANGED connections_
            \/ /\ ConnectRegister(t) /\ prog[t][1].op = "connect"
               /\ socket_id'[o] = RegisteredId(Home[t], Mine(t))
            \/ /\ prog[t][1].op = "accept"
               /\ \/ socket_id'[o] = 0
                  \/ Waits(sockets_[Home[t]], pc[t].id, 1, socket_id'[o])
<1>0. ThreadShape(t) /\ prog[t] # <<>> /\ ObjType /\ ProgType
  BY ThreadShapes DEF TypeInv, AppType, CallsType
<1>1. 1 \in DOMAIN prog[t] /\ Arg(t) = prog[t][1] /\ Arg(t) \in Call(t)
  BY <1>0, FirstCall, CurrentCall
<1>2. PICK k \in {0, 1} : Walks(t, k)
  BY CallWalks
<1>3. Gives(prog[t][1], o)
  BY <1>2 DEF Walks
<1>4. Home[o] = Home[t]
  BY <1>1, <1>3, CallFields DEF Gives, Own
<1>5. CASE bind(t)
  <2>1. /\ prog[t][1].op = "bind" /\ UNCHANGED connections_
        /\ socket_id' = [socket_id EXCEPT ![Arg(t).o] = next_id_[Home[t]]]
    BY <1>1, <1>5 DEF bind, Starts, Arg
  <2>2. socket_id'[o] = next_id_[Home[t]]
    BY <1>0, <2>1 DEF ObjType
  <2> QED
    BY <1>1, <1>3, <1>4, <2>1, <2>2
<1>6. CASE ConnectRegister(t)
  <2>1. /\ prog[t][1].op = "connect"
        /\ socket_id' = [socket_id EXCEPT ![Arg(t).o] = RegisteredId(Home[t], Mine(t))]
    BY <1>1, <1>6 DEF ConnectRegister, Starts, Arg
  <2>2. socket_id'[o] = RegisteredId(Home[t], Mine(t))
    BY <1>0, <2>1 DEF ObjType
  <2> QED
    BY <1>1, <1>3, <1>4, <1>6, <2>1, <2>2
<1>7. CASE AcceptCall(t)
  <2>1. prog[t][1].op = "accept" /\ socket_id' = [socket_id EXCEPT ![Arg(t).into] = 0]
    BY <1>1, <1>7 DEF AcceptCall, Starts, Arg
  <2>2. socket_id'[o] = 0
    BY <1>0, <2>1 DEF ObjType
  <2> QED
    BY <1>1, <1>3, <1>4, <2>1, <2>2
<1>8. CASE AcceptReturn(t)
  <2>1. PICK s, id, q : s = Home[t] /\ id = pc[t].id /\ q = sockets_[s][id].accept_queue
    OBVIOUS
  <2>2. /\ id \in DOMAIN sockets_[s] /\ q # <<>> /\ pc[t].at = "accepting"
        /\ socket_id' = [socket_id EXCEPT ![Arg(t).into] = Head(q)]
    BY <1>8, <2>1 DEF AcceptReturn, Live
  <2>3. q \in Seq(1 .. next_id_[s] - 1)
    BY <2>1, <2>2, PointedIds DEF TypeInv, StackType, TablesType, SocketsType, SocketTable, Good, Block
  <2>4. 1 \in DOMAIN q /\ Head(q) = q[1]
    BY <2>2, <2>3, HeadTailProperties, EmptySeq, LenProperties
  <2>5. socket_id'[o] = q[1]
    BY <1>0, <2>2, <2>4 DEF ObjType
  <2>6. prog[t][1].op = "accept"
    BY <1>1, <2>2 DEF TypeInv, AppType, CallsType, InCallType, CallAt
  <2>7. Waits(sockets_[s], id, 1, socket_id'[o])
    BY <2>1, <2>2, <2>4, <2>5 DEF Waits
  <2> QED
    BY <1>1, <1>3, <1>4, <2>1, <2>6, <2>7
<1>9. CASE Touches(t) \/ RegisterRoute(t) \/ CloseAbort(t) \/ Join(t) \/ simulate_node_crash(t)
  BY <1>9 DEF Touches, RegisterRoute, CloseAbort, Join, simulate_node_crash
<1> QED
  BY <1>0, <1>5, <1>6, <1>7, <1>8, <1>9 DEF ThreadShape

\* What waits to be accepted has its route (f: the sockets, g: the routes of a
\* stack), so has what a program is still to close, and what it is still to put
\* into LISTEN has none.
WaitersReached(f, g) ==
    \A l, id \in DOMAIN f : \A i \in DOMAIN f[l].accept_queue : Waits(f, l, i, id) => Reaches(f, g, id)
WaitersRouted == \A s \in Stack : WaitersReached(sockets_[s], connections_[s])
ClosedRouted ==
    \A u \in Thread, o \in Obj : \A i \in DOMAIN prog[u] :
      Does(prog[u][i], "close", o) /\ Live(Home[o], socket_id[o]) => Routed(Home[o], socket_id[o])
Unrouted(g, id) == \A key \in DOMAIN g : g[key] # id
ListenersUnrouted ==
    \A u \in Thread, o \in Obj : \A i \in DOMAIN prog[u] :
      Does(prog[u][i], "listen", o) => Unrouted(connections_[Home[o]], socket_id[o])
RoleInv == RolesApart(prog) /\ WaitersRouted /\ ClosedRouted /\ ListenersUnrouted
\* The roles are as the program has them initially.
LEMMA RoleInit == Init /\ RolesApart(prog) => RoleInv
<1>1. Init => \A s \in Stack : DOMAIN sockets_[s] = {} /\ DOMAIN connections_[s] = {}
  BY DEF Init, StackInit, Empty
<1>2. \A o \in Obj : Home[o] \in Stack
  BY HomeAssumption
<1> QED
  BY <1>1, <1>2 DEF RoleInv, WaitersRouted, WaitersReached, ClosedRouted, ListenersUnrouted, Unrouted, Live

\* Such programs keep to the contract of the routes.
LEMMA RolesSingle ==
  ASSUME TypeInv, CallerInv, RoleInv, NEW t \in Thread, Calling(t)
  PROVE  SingleRoutes(t) /\ SeparatePorts(t)
<1>1. prog[t] # <<>>
  BY DEF Calling, ThreadStep
<1>2. /\ 1 \in DOMAIN prog[t] /\ Arg(t) = prog[t][1]
      /\ Arg(t).op \in {"close", "listen"} => Arg(t).o \in Obj /\ Home[Arg(t).o] = Home[t]
  BY <1>1, FirstCall
<1>3. SeparatePorts(t) /\ (Arg(t).op = "connect" => ~ Live(Home[t], Mine(t)))
  BY CallersSeparate
<1>4. Arg(t).op \notin {"register", "crash"}
  BY <1>2 DEF RoleInv, RolesApart
<1>5. Arg(t).op = "close" /\ Live(Home[t], Mine(t)) => Routed(Home[t], Mine(t))
  BY <1>2 DEF RoleInv, ClosedRouted, Does, Mine
<1>6. Arg(t).op = "listen" => ~ Routed(Home[t], Mine(t))
  <2>1. Arg(t).op = "listen" => Unrouted(connections_[Home[t]], Mine(t))
    BY <1>2 DEF RoleInv, ListenersUnrouted, Does, Mine
  <2> QED
    BY <2>1 DEF Unrouted, Routed, Reaches
<1> QED
  BY <1>3, <1>4, <1>5, <1>6 DEF SingleRoutes, SeparatePorts

\* The tables after a step of such a program.
LEMMA RoleTables ==
  ASSUME TypeInv, QueueInv, RouteInv, CallerInv, RoleInv, Next, ~ UNCHANGED vars
  PROVE  /\ RoutesKept /\ QueuesKept
         /\ \A r \in Stack : NewRoutes(connections_[r], next_id_[r], connections_'[r])
         /\ \A r \in Stack : \A id \in 1 .. next_id_[r] - 1 :
              id \in DOMAIN sockets_'[r] => id \in DOMAIN sockets_[r]
<1>1. CASE StackNext /\ UNCHANGED app
  <2>1. RoutesKept
    BY <1>1, StackRoutes DEF app, TypeInv, AppType, RouteInv
  <2>2. QueuesKept
    BY <1>1, StackQueues DEF app, TypeInv, AppType, QueueInv
  <2>3. PICK q \in Stack : Shape(q)
    BY <1>1, StackShape DEF TypeInv
  <2>4. \A r \in Stack : NewRoutes(connections_[r], next_id_[r], connections_'[r])
    BY <2>3, StackNewRoutes DEF TypeInv
  <2>5. \A r \in Stack : \A id \in 1 .. next_id_[r] - 1 :
          id \in DOMAIN sockets_'[r] => id \in DOMAIN sockets_[r]
    BY <2>3, ShapeBlocks DEF TypeInv
  <2> QED
    BY <2>1, <2>2, <2>4, <2>5
<1>2. CASE \E t \in Thread : ThreadStep(t)
  <2>1. PICK t \in Thread : ThreadStep(t)
    BY <1>2
  <2>2. pc[t] = Ready => SingleRoutes(t) /\ SeparatePorts(t)
    BY <2>1, RolesSingle DEF Calling
  <2>3. RoutesKept
    BY <2>1, <2>2, ThreadRoutes
  <2>4. QueuesKept
    BY <2>1, <2>2, ThreadQueues
  <2>5. ~ RegisterRoute(t) /\ (ConnectRegister(t) => ~ Live(Home[t], Mine(t)))
    <3>1. pc[t] = Ready => Arg(t).op # "register" /\ (Arg(t).op = "connect" => ~ Live(Home[t], Mine(t)))
      <4>1. pc[t] = Ready => 1 \in DOMAIN prog[t] /\ Arg(t) = prog[t][1]
        BY <2>1, FirstCall DEF ThreadStep
      <4> QED
        BY <2>2, <4>1 DEF SeparatePorts, RoleInv, RolesApart
    <3> QED
      BY <3>1 DEF RegisterRoute, ConnectRegister, Starts, Arg
  <2>6. \A r \in Stack : NewRoutes(connections_[r], next_id_[r], connections_'[r])
    BY <2>1, <2>5, ThreadNewRoutes
  <2>7. \A r \in Stack : \A id \in 1 .. next_id_[r] - 1 :
          id \in DOMAIN sockets_'[r] => id \in DOMAIN sockets_[r]
    BY <2>1, ThreadBlocks DEF Survives
  <2> QED
    BY <2>3, <2>4, <2>6, <2>7
<1> QED
  BY <1>1, <1>2 DEF Next

\* A queue that gets an entry gets one that was in a handshake, with a route.
LEMMA WaitersStep ==
  ASSUME NEW f, NEW g, NEW f2, NEW g2, NEW n \in Nat, Right(f, g), Progress(f, g, f2, g2), Entries(f, f2),
         WaitersReached(f, g), \A id \in DOMAIN f2 : id \in 1 .. n - 1 => id \in DOMAIN f,
         \A l, i, id : Waits(f, l, i, id) => id \in 1 .. n - 1
  PROVE  WaitersReached(f2, g2)
<1> SUFFICES ASSUME NEW l \in DOMAIN f2, NEW id \in DOMAIN f2, NEW i \in DOMAIN f2[l].accept_queue,
                    Waits(f2, l, i, id)
             PROVE  Reaches(f2, g2, id)
  BY DEF WaitersReached
<1>1. (\E k, j : Waits(f, k, j, id)) \/ (id \in DOMAIN f /\ f[id].state \in Opening)
  BY DEF Entries
<1>2. CASE \E k, j : Waits(f, k, j, id)
  <2>1. PICK k, j : Waits(f, k, j, id)
    BY <1>2
  <2>2. id \in DOMAIN f
    BY <2>1
  <2>3. Reaches(f, g, id)
    BY <2>1, <2>2 DEF WaitersReached, Waits
  <2> QED
    BY <2>3 DEF Progress
<1>3. CASE id \in DOMAIN f /\ f[id].state \in Opening
  <2>1. Reaches(f, g, id)
    BY <1>3 DEF Right, Opening
  <2> QED
    BY <2>1 DEF Progress
<1> QED
  BY <1>1, <1>2, <1>3

\* Every step of such a program keeps its sockets to their roles.
LEMMA RoleStep ==
  ASSUME TypeInv, TypeInv', QueueInv, RouteInv, CallerInv, RoleInv, [Next]_vars
  PROVE  RoleInv'
<1>0. CASE UNCHANGED vars
  BY <1>0 DEF vars, app, stackVars, tables, RoleInv, WaitersRouted, ClosedRouted, ListenersUnrouted,
              Live, Routed
<1>1. CASE Next /\ ~ UNCHANGED vars
  <2>1. /\ RoutesKept /\ QueuesKept
        /\ \A r \in Stack : NewRoutes(connections_[r], next_id_[r], connections_'[r])
        /\ \A r \in Stack : \A id \in 1 .. next_id_[r] - 1 :
             id \in DOMAIN sockets_'[r] => id \in DOMAIN sockets_[r]
    BY <1>1, RoleTables
  <2>2. IdsType /\ SocketsType /\ RoutesType /\ ObjType
    BY DEF TypeInv, StackType, TablesType, AppType
  <2>3. \A r \in Stack : \A id \in DOMAIN sockets_'[r] : id # 0
    BY DEF TypeInv, StackType, TablesType, SocketsType, SocketTable
  <2>4. ASSUME NEW r \in Stack, NEW id, Routed(r, id), id \in DOMAIN sockets_'[r]
        PROVE  Routed(r, id)'
    BY <2>1, <2>4 DEF RoutesKept, Progress, Routed
  <2>5. WaitersRouted'
    <3> SUFFICES ASSUME NEW r \in Stack PROVE WaitersReached(sockets_'[r], connections_'[r])
      BY DEF WaitersRouted
    <3>1. PICK f, g, f2, g2, n : f = sockets_[r] /\ g = connections_[r] /\ f2 = sockets_'[r]
                                 /\ g2 = connections_'[r] /\ n = next_id_[r]
      OBVIOUS
    <3>2. n \in Nat /\ SocketTable(f, n)
      BY <2>2, <3>1 DEF IdsType, SocketsType
    <3>3. \A l \in DOMAIN f : f[l].accept_queue \in Seq(1 .. n - 1)
      BY <3>2 DEF SocketTable, Good, Block
    <3>4. \A l, i, id : Waits(f, l, i, id) => id \in 1 .. n - 1
      BY <3>3, ElementOfSeq, LenProperties DEF Waits
    <3>5. Right(f, g) /\ Progress(f, g, f2, g2) /\ Entries(f, f2) /\ WaitersReached(f, g)
      BY <2>1, <3>1 DEF RouteInv, TablesRouted, RoutesKept, QueuesKept, RoleInv, WaitersRouted
    <3>6. \A id \in DOMAIN f2 : id \in 1 .. n - 1 => id \in DOMAIN f
      BY <2>1, <3>1
    <3>7. WaitersReached(f2, g2)
      BY <3>2, <3>4, <3>5, <3>6, WaitersStep
    <3> QED
      BY <3>1, <3>7
  <2>6. CASE UNCHANGED app
    <3>1. UNCHANGED <<prog, socket_id>>
      BY <2>6 DEF app
    <3>2. ClosedRouted'
      <4> SUFFICES ASSUME NEW u \in Thread, NEW o \in Obj, NEW i \in DOMAIN prog[u],
                          Does(prog[u][i], "close", o), NEW id, id = socket_id[o], NEW s, s = Home[o],
                          id \in DOMAIN sockets_'[s]
                   PROVE  Routed(s, id)'
        BY <3>1 DEF ClosedRouted, Live
      <4>1. s \in Stack /\ id \in 1 .. next_id_[s] - 1
        BY <2>2, <2>3, HomeAssumption DEF ObjType, IdsType
      <4>2. Routed(s, id)
        BY <2>1, <4>1 DEF RoleInv, ClosedRouted, Live
      <4> QED
        BY <2>4, <4>1, <4>2
    <3>3. ListenersUnrouted'
      <4> SUFFICES ASSUME NEW u \in Thread, NEW o \in Obj, NEW i \in DOMAIN prog[u],
                          Does(prog[u][i], "listen", o), NEW s, s = Home[o], NEW id, id = socket_id[o]
                   PROVE  Unrouted(connections_'[s], id)
        BY <3>1 DEF ListenersUnrouted
      <4>1. s \in Stack /\ id \in 0 .. next_id_[s] - 1 /\ next_id_[s] \in Nat
        BY <2>2, HomeAssumption DEF ObjType, IdsType
      <4>2. Unrouted(connections_[s], id)
        BY DEF RoleInv, ListenersUnrouted
      <4> QED
        BY <2>1, <4>1, <4>2 DEF NewRoutes, Unrouted
    <3> QED
      BY <2>5, <3>1, <3>2, <3>3 DEF RoleInv
  <2>7. CASE \E t \in Thread : ThreadStep(t)
    <3>1. PICK t \in Thread : ThreadStep(t)
      BY <2>7
    <3>2. PICK k \in {0, 1} : Walks(t, k)
      BY <3>1, CallWalks
    <3>3. PICK p, p2 : p = prog /\ p2 = prog'
      OBVIOUS
    <3>4. Advances(t, k, p, p2) /\ RolesApart(p)
      BY <3>2, <3>3 DEF Walks, RoleInv
    <3>5. RolesApart(p2)
      BY <3>4, ProgramsAdvance
    <3>6. ASSUME NEW u \in Thread, NEW j \in DOMAIN p2[u]
          PROVE  \E i \in DOMAIN p[u] : \A o : \A op \in {"close", "listen"} :
                   Does(p2[u][j], op, o) => Does(p[u][i], op, o)
      <4>1. PICK i : i = IF u = t THEN j + k ELSE j
        OBVIOUS
      <4>2. i \in DOMAIN p[u] /\ Alike(p[u][i], p2[u][j])
        BY <3>4, <4>1 DEF Advances
      <4> QED
        BY <4>2, AlikeCalls
    <3>7. ASSUME NEW u \in Thread, NEW o \in Obj, NEW j \in DOMAIN p2[u], Does(p2[u][j], "close", o),
                 NEW s, s = Home[o], NEW id, id = socket_id'[o], id \in DOMAIN sockets_'[s]
          PROVE  Routed(s, id)'
      <4>1. PICK i \in DOMAIN p[u] : Does(p[u][i], "close", o)
        BY <3>6, <3>7
      <4>2. s \in Stack /\ id # 0
        BY <2>3, <3>7, HomeAssumption
      <4>3. CASE socket_id'[o] = socket_id[o]
        <5>1. id \in 1 .. next_id_[s] - 1
          BY <2>2, <3>7, <4>2, <4>3 DEF ObjType, IdsType
        <5>2. Routed(s, id)
          BY <2>1, <3>3, <3>7, <4>1, <4>2, <4>3, <5>1 DEF RoleInv, ClosedRouted, Live
        <5> QED
          BY <2>4, <3>7, <4>2, <5>2
      <4>4. CASE socket_id'[o] # socket_id[o]
        <5>1. /\ s = Home[t] /\ 1 \in DOMAIN p[t] /\ Gives(p[t][1], o)
              /\ \/ p[t][1].op = "bind"
                 \/ ConnectRegister(t) /\ id = RegisteredId(Home[t], Mine(t))
                 \/ id = 0 \/ Waits(sockets_[s], pc[t].id, 1, id)
          BY <3>1, <3>3, <3>7, <4>4, GivenBlock
        <5>2. p[t][1].op # "bind"
          BY <3>4, <4>1, <5>1 DEF RolesApart
        <5>3. CASE ConnectRegister(t) /\ id = RegisteredId(Home[t], Mine(t))
          <6>1. pc[t] = Ready /\ prog[t] # <<>>
            BY <3>1, <5>3 DEF ConnectRegister, Starts, ThreadStep
          <6>2. SingleRoutes(t)
            BY <3>1, <6>1, RolesSingle DEF Calling
          <6>3. Reaches(sockets_'[Home[t]], connections_'[Home[t]], RegisteredId(Home[t], Mine(t)))
            BY <5>3, <6>1, <6>2, RegisterCalls
          <6> QED
            BY <5>1, <5>3, <6>3 DEF Routed
        <5>4. CASE Waits(sockets_[s], pc[t].id, 1, id)
          <6>1. PICK f, l : f = sockets_[s] /\ l = pc[t].id
            OBVIOUS
          <6>2. l \in DOMAIN f /\ 1 \in DOMAIN f[l].accept_queue /\ f[l].accept_queue[1] = id
            BY <5>4, <6>1 DEF Waits
          <6>3. f[l].accept_queue \in Seq(1 .. next_id_[s] - 1)
            BY <2>2, <4>2, <6>1, <6>2 DEF SocketsType, SocketTable, Good, Block
          <6>4. id \in 1 .. next_id_[s] - 1
            BY <6>2, <6>3, ElementOfSeq, LenProperties
          <6>5. id \in DOMAIN f
            BY <2>1, <3>7, <4>2, <6>1, <6>4
          <6>6. WaitersReached(f, connections_[s])
            BY <4>2, <6>1 DEF RoleInv, WaitersRouted
          <6>7. Reaches(f, connections_[s], id)
            BY <5>4, <6>1, <6>2, <6>5, <6>6 DEF WaitersReached
          <6> QED
            BY <2>4, <3>7, <4>2, <6>1, <6>7 DEF Routed
        <5> QED
          BY <4>2, <5>1, <5>2, <5>3, <5>4
      <4> QED
        BY <4>3, <4>4
    <3>8. ASSUME NEW u \in Thread, NEW o \in Obj, NEW j \in DOMAIN p2[u], Does(p2[u][j], "listen", o),
                 NEW s, s = Home[o], NEW id, id = socket_id'[o]
          PROVE  Unrouted(connections_'[s], id)
      <4>1. PICK i \in DOMAIN p[u] : Does(p[u][i], "listen", o)
        BY <3>6, <3>8
      <4>2. s \in Stack /\ next_id_[s] \in Nat
        BY <2>2, <3>8, HomeAssumption DEF IdsType
      <4>3. CASE socket_id'[o] = socket_id[o]
        <5>1. id \in 0 .. next_id_[s] - 1
          BY <2>2, <3>8, <4>3 DEF ObjType
        <5>2. Unrouted(connections_[s], id)
          BY <3>3, <3>8, <4>1, <4>3 DEF RoleInv, ListenersUnrouted
        <5> QED
          BY <2>1, <4>2, <5>1, <5>2 DEF NewRoutes, Unrouted
      <4>4. CASE socket_id'[o] # socket_id[o]
        <5>1. /\ s = Home[t] /\ 1 \in DOMAIN p[t] /\ Gives(p[t][1], o)
              /\ \/ id = next_id_[s] /\ UNCHANGED connections_
                 \/ p[t][1].op # "bind"
          BY <3>1, <3>3, <3>8, <4>4, GivenBlock
        <5>2. p[t][1].op = "bind"
          BY <3>4, <4>1, <5>1 DEF RolesApart
        <5>3. \A key \in DOMAIN connections_[s] : connections_[s][key] \in 1 .. next_id_[s] - 1
          BY <2>2, <4>2 DEF RoutesType, IdTable
        <5> QED
          BY <4>2, <5>1, <5>2, <5>3 DEF Unrouted
      <4> QED
        BY <4>3, <4>4
    <3>9. ClosedRouted'
      BY <3>3, <3>7 DEF ClosedRouted, Live
    <3>10. ListenersUnrouted'
      BY <3>3, <3>8 DEF ListenersUnrouted
    <3> QED
      BY <2>5, <3>3, <3>5, <3>9, <3>10 DEF RoleInv
  <2> QED
    BY <1>1, <2>6, <2>7 DEF Next
<1> QED
  BY <1>0, <1>1

\* Every route leads to the block of its own 4-tuple and every connection with a
\* handshake behind it is reached by its route, in every behaviour of a program
\* that binds its listeners below the ephemeral range and does not close them, and
\* that calls out with sockets connect gives their block, whatever its threads'
\* interleaving and its network.
THEOREM RolesKeepRoutesExact ==
  Spec /\ CallersUnbound(prog) /\ RolesApart(prog) => []RoutesExact
<1> DEFINE Inv == TypeInv /\ QueueInv /\ RouteInv /\ CallerInv /\ RoleInv
<1>1. Init /\ CallersUnbound(prog) /\ RolesApart(prog) => Inv
  BY TypeInit, QueueInit, RouteInit, CallerInit, RoleInit
<1>2. Inv => \A t \in Thread : Calling(t) => SingleRoutes(t) /\ SeparatePorts(t)
  BY RolesSingle
<1>3. Inv /\ [Next]_vars => Inv'
  BY <1>2, TypeStep, QueueStep, RouteStep, CallerStep, RoleStep
<1>4. Inv => RoutesExact
  BY RouteInvGivesRoutesExact
<1> QED
  BY <1>1, <1>3, <1>4, PTL DEF Spec

=============================================================================
