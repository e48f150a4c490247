----------------------- MODULE TransmissionControlBlock -----------------------
(***************************************************************************)
(* The control block of a socket, the segments built from it and the        *)
(* arithmetic on it: everything of a connection that is a pure function.    *)
(*                                                                          *)
(* Payload is abstracted to positions: byte k of what the application       *)
(* writes into a connection is the number k.  The send buffer then holds    *)
(* the interval off+1 .. off+slen, and `rcvd' is every byte the receive     *)
(* buffer ever accepted, the first `rread' of them already read.            *)
(*                                                                          *)
(* An operator named Op_Fault is Op with a fault of the kind its code could  *)
(* have; the runs use them to show that a property would notice the fault.  *)
(***************************************************************************)
EXTENDS Integers, Sequences

CONSTANTS
    SeqMod,          \* sequence numbers are 0 .. SeqMod-1 (2^32 in the code)
    MSS,             \* payload bytes per segment (1460 in the code)
    BufSize          \* capacity of a buffer (MAX_IPV4_PACKET_SIZE)

ASSUME SeqModAssumption == SeqMod \in Nat /\ SeqMod > 2 * BufSize + 1
ASSUME SizesAssumption == MSS \in Nat \ {0} /\ BufSize \in Nat \ {0}

Add_NoWrap(a, b) == a + b
Add(a, b) == (a + b) % SeqMod
Sub(a, b) == (a - b) % SeqMod
\* static_cast<int32_t>(a - b) > 0
After(a, b) == Sub(a, b) \in 1 .. (SeqMod \div 2) - 1

Lesser(a, b) == IF a <= b THEN a ELSE b
Run(from, n) == [i \in 1..n |-> from + i]

NoAddr == <<"0.0.0.0", 0>>

Tcb(state, src, dst) ==
    [state |-> state, src |-> src, dst |-> dst,
     una |-> 0, nxt |-> 0, wnd |-> BufSize, iss |-> 0, rnxt |-> 0,
     off |-> 0, slen |-> 0,          \* bytes discarded from, and in, send_buffer
     rcvd |-> <<>>, rread |-> 0,     \* bytes ever in, and read from, recv_buffer
     woken_s |-> FALSE, woken_r |-> FALSE,
     accept_queue |-> <<>>, attempts |-> 0]

InFlight(c) == Sub(c.nxt, c.una)
Buffered(c) == Len(c.rcvd) - c.rread
FreeWnd(c) == BufSize - Buffered(c)

Packet(src, dst, flags, seq, ack, wnd, data) ==
    [src |-> src, dst |-> dst, flags |-> flags, seq |-> seq, ack |-> ack,
     wnd |-> wnd, data |-> data]

create_writer_tcp_packet_(c, data, seq) ==
    Packet(c.src, c.dst, {"ACK"}, seq, c.rnxt, FreeWnd(c), data)
Control(c, flags, seq, ack) ==
    Packet(c.src, c.dst, flags, seq, ack, FreeWnd(c), <<>>)
RawRst(src, dst, seq, ack, flags) ==
    Packet(src, dst, {"RST"} \cup flags, seq, ack, 0, <<>>)
Has(p, flag) == flag \in p.flags

\* A SYN and a FIN each take one sequence number.
PastControl(p) == Add(p.seq, 1)

HasPayload(p) == p.data # <<>>

-----------------------------------------------------------------------------
(* Sending, acknowledging, closing.                                         *)

\* The position after which the bytes not yet in flight begin.
NextUnsent_Oldest(c) == c.off
NextUnsent(c) == c.off + InFlight(c)

Sendable_IgnoresFlight(c) ==
    LET unsent == IF c.slen > InFlight(c) THEN c.slen - InFlight(c) ELSE 0
    IN  Lesser(Lesser(c.wnd, MSS), unsent)

\* The bytes process_block_ may transmit now: what is in the buffer beyond
\* those in flight, within the usable window and the segment size.
Sendable(c) ==
    LET usable == IF c.wnd > InFlight(c) THEN c.wnd - InFlight(c) ELSE 0
        unsent == IF c.slen > InFlight(c) THEN c.slen - InFlight(c) ELSE 0
    IN  Lesser(Lesser(usable, MSS), unsent)

MorePending(c) == c.slen > InFlight(c) /\ c.wnd > InFlight(c)

SendingStates == {"ESTABLISHED", "CLOSE_WAIT", "FIN_WAIT_1", "LAST_ACK"}

Acknowledge_DropsAll(c, p) ==
    IF Has(p, "ACK") /\ After(p.ack, c.una)
    THEN [c EXCEPT !.off = @ + c.slen, !.slen = 0, !.una = p.ack, !.wnd = p.wnd]
    ELSE c
Acknowledge_KeepsUna(c, p) ==
    LET n == Lesser(Sub(p.ack, c.una), c.slen) IN
    IF Has(p, "ACK") /\ After(p.ack, c.una)
    THEN [c EXCEPT !.off = @ + n, !.slen = @ - n, !.wnd = p.wnd]
    ELSE c

\* The acknowledgement part of handle_established_state_.
Acknowledge(c, p) ==
    IF ~ Has(p, "ACK") THEN c
    ELSE IF After(p.ack, c.una)
         THEN LET n == Lesser(Sub(p.ack, c.una), c.slen) IN
              [c EXCEPT !.off = @ + n, !.slen = @ - n,
                        !.una = p.ack, !.wnd = p.wnd]
         ELSE [c EXCEPT !.wnd = p.wnd]

\* RCV.NXT moves past the payload of a segment.
Counted_PerSegment(c, p) == [c EXCEPT !.rnxt = Add(@, IF HasPayload(p) THEN 1 ELSE 0)]
Counted(c, p) == [c EXCEPT !.rnxt = Add(@, Len(p.data))]

\* What a SYN or SYN-ACK tells a socket in SYN_SENT.
Opened_NoCount(c, p) == [c EXCEPT !.rnxt = p.seq, !.wnd = p.wnd]
Opened(c, p) == [c EXCEPT !.rnxt = PastControl(p), !.wnd = p.wnd]

\* The FIN part of handle_established_state_.
PeerClosed_CountsOne(c, p) ==
    [c EXCEPT !.rnxt = PastControl(p), !.nxt = Add(p.ack, 1), !.wnd = p.wnd,
              !.state = "CLOSE_WAIT", !.woken_r = TRUE]
PeerClosed(c, p) ==
    [c EXCEPT !.rnxt = PastControl(p),
              !.nxt = IF Has(p, "ACK") THEN p.ack ELSE @,
              !.wnd = IF Has(p, "ACK") THEN p.wnd ELSE @,
              !.state = "CLOSE_WAIT", !.woken_r = TRUE]

\* The final ACK of a handshake, in SYN_RECEIVED.
Established_KeepsState(c, p) == [c EXCEPT !.una = p.ack, !.wnd = p.wnd]
Established(c, p) ==
    [c EXCEPT !.una = p.ack, !.wnd = p.wnd, !.state = "ESTABLISHED"]

\* recv_buffer.write: what fits.
Stored_OneShort(c, data) ==
    LET n == Lesser(Len(data), FreeWnd(c)) IN
    [c EXCEPT !.rcvd = @ \o SubSeq(data, 1, n - 1)]
Stored(c, data) ==
    LET n == Lesser(Len(data), FreeWnd(c)) IN
    [c EXCEPT !.rcvd = @ \o SubSeq(data, 1, n)]

CanWrite(c) == c.slen < BufSize \/ c.woken_s
CanRead(c) == Buffered(c) > 0 \/ c.woken_r

\* TransmissionControlBlock::close.
Closing(c) ==
    [c EXCEPT !.woken_r = TRUE, !.woken_s = TRUE,
              !.state = IF @ = "ESTABLISHED" THEN "FIN_WAIT_1" ELSE "LAST_ACK"]
=============================================================================
