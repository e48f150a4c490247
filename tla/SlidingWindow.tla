----------------------------- MODULE SlidingWindow -----------------------------
(***************************************************************************)
(* One direction of an established connection between two stacks, access by *)
(* access: the sending application, the daemon of the sender's stack, a     *)
(* thread that closes the sender, the daemon of the receiver's stack, the   *)
(* receiving application and a thread that closes the receiver.             *)
(*                                                                          *)
(* process_block_ reads SND.UNA, SND.NXT and SND.WND, then copies from the  *)
(* send buffer, then advances SND.NXT and writes the segment, and the       *)
(* daemon and the closing thread may be inside it at once.  The links lose  *)
(* nothing and keep the order (the loopback queue, a TUN device without     *)
(* loss), and no timer expires; TcpStack models the rest of a connection.   *)
(***************************************************************************)
EXTENDS TransmissionControlBlock

CONSTANTS
    First,           \* the sequence number of the first byte
    MaxWrite         \* bound: bytes the application writes

ASSUME WindowAssumption == First \in 0 .. SeqMod - 1 /\ MaxWrite \in Nat

VARIABLES
    snd, rcv,        \* the control blocks of the two ends
    dirty,           \* is snd in dirty_socket_ids_ (once or several times)
    pump,            \* where the two threads that send for snd are
    acking,          \* the ACK the sender's daemon is applying, if any
    data, acks,      \* the segments and the ACKs under way
    pending,         \* a payload counted in RCV.NXT and not yet stored
    hangup,          \* where the thread closing the receiver is
    torn             \* history: see Disturbs

vars == <<snd, rcv, dirty, pump, acking, data, acks, pending, hangup, torn>>

\* Between calls of process_block_ the daemon is "out", or it is "due" to go
\* through the dirty blocks before the next packet (lifecycle_); after its
\* flush the closing thread is about to "mark" the block, then "done".
Pump == {"daemon", "closer"}
Place(at) == [at |-> at, flight |-> 0, room |-> 0, seq |-> 0, bytes |-> <<>>]
Mid(p) == pump[p].at \in {"peek", "emit"}
DaemonFree == pump["daemon"].at \in {"out", "due"} /\ acking = <<>>

Written == snd.off + snd.slen

\* The closing thread and the daemon work on snd at the same time while some of
\* its bytes are unsent.
Disturbs(other) == other /\ snd.slen > InFlight(snd)

Init ==
    /\ snd = [Tcb("ESTABLISHED", <<"S", 1>>, <<"R", 2>>) EXCEPT !.una = First, !.nxt = First]
    /\ rcv = [Tcb("ESTABLISHED", <<"R", 2>>, <<"S", 1>>) EXCEPT !.rnxt = First]
    /\ dirty = FALSE
    /\ pump = [p \in Pump |-> Place("out")]
    /\ acking = <<>>
    /\ data = <<>> /\ acks = <<>> /\ pending = <<>>
    /\ hangup = "no"
    /\ torn = FALSE

-----------------------------------------------------------------------------
(* The sending application, process_block_ and close_connection.            *)

send ==
    /\ pump["closer"].at = "out"
    /\ CanWrite(snd)
    /\ \E n \in 1 .. Lesser(BufSize - snd.slen, MaxWrite - Written) :
         snd' = [snd EXCEPT !.slen = @ + n]
    /\ dirty' = TRUE
    /\ UNCHANGED <<rcv, pump, acking, data, acks, pending, hangup, torn>>

\* Where a thread goes when process_block_ returns.
Leave(p) == Place(IF p = "daemon" THEN "out" ELSE "mark")

Looked_IgnoresFlight(p) ==
    IF snd.wnd = 0 THEN Leave(p)
    ELSE [Place("peek") EXCEPT !.flight = InFlight(snd), !.room = Lesser(snd.wnd, MSS)]

\* in_flight and the usable window, read once.
Looked(p) ==
    LET usable == IF snd.wnd > InFlight(snd) THEN snd.wnd - InFlight(snd) ELSE 0 IN
    IF usable = 0 THEN Leave(p)
    ELSE [Place("peek") EXCEPT !.flight = InFlight(snd), !.room = Lesser(usable, MSS)]

Look(p) ==
    /\ \/ p = "daemon" /\ DaemonFree /\ dirty /\ dirty' = FALSE
       \/ p = "closer" /\ pump[p].at = "out" /\ UNCHANGED dirty
    /\ pump' = [pump EXCEPT ![p] = Looked(p)]
    /\ torn' = (torn \/ Disturbs(IF p = "daemon" THEN Mid("closer")
                                 ELSE Mid("daemon") \/ acking # <<>>))
    /\ UNCHANGED <<snd, rcv, acking, data, acks, pending, hangup>>

\* send_buffer.peek at the offset read before, and the header of the segment.
Peek_FromStart(p) ==
    LET n == IF pump[p].flight < snd.slen
             THEN Lesser(pump[p].room, snd.slen - pump[p].flight) ELSE 0
    IN
    /\ pump[p].at = "peek"
    /\ pump' = [pump EXCEPT ![p] =
         IF n = 0 THEN Leave(p)
         ELSE [@ EXCEPT !.at = "emit", !.bytes = Run(snd.off, n), !.seq = snd.nxt]]
    /\ UNCHANGED <<snd, rcv, dirty, acking, data, acks, pending, hangup, torn>>
Peek(p) ==
    LET n == IF pump[p].flight < snd.slen
             THEN Lesser(pump[p].room, snd.slen - pump[p].flight) ELSE 0
    IN
    /\ pump[p].at = "peek"
    /\ pump' = [pump EXCEPT ![p] =
         IF n = 0 THEN Leave(p)
         ELSE [@ EXCEPT !.at = "emit", !.bytes = Run(snd.off + pump[p].flight, n),
                        !.seq = snd.nxt]]
    /\ UNCHANGED <<snd, rcv, dirty, acking, data, acks, pending, hangup, torn>>

\* SND.NXT += read_size is a read and a write, so an addition of the other
\* thread between them may be lost; then the segment goes out.
Emit(p) ==
    LET n == Len(pump[p].bytes) IN
    /\ pump[p].at = "emit"
    /\ \E nxt \in {Add(snd.nxt, n), Add(pump[p].seq, n)} : snd' = [snd EXCEPT !.nxt = nxt]
    /\ data' = Append(data, create_writer_tcp_packet_(snd, pump[p].bytes, pump[p].seq))
    /\ dirty' = (dirty \/ MorePending(snd'))
    /\ pump' = [pump EXCEPT ![p] = Leave(p)]
    /\ UNCHANGED <<rcv, acking, acks, pending, hangup, torn>>

\* The new state after the flush; the FIN and what follows it are in TcpSocket.
Mark ==
    /\ pump["closer"].at = "mark"
    /\ snd' = Closing(snd)
    /\ pump' = [pump EXCEPT !["closer"] = Place("done")]
    /\ UNCHANGED <<rcv, dirty, acking, data, acks, pending, hangup, torn>>

-----------------------------------------------------------------------------
(* The sender's daemon handles packets: an ACK in two steps, discard and    *)
(* then SND.UNA and SND.WND; a FIN.  Only ESTABLISHED takes ACKs.           *)

AckDiscard ==
    LET p == Head(acks)
        n == Lesser(Sub(p.ack, snd.una), snd.slen)
    IN
    /\ pump["daemon"].at = "out" /\ acking = <<>>
    /\ acks # <<>> /\ ~ Has(p, "FIN")
    /\ acks' = Tail(acks)
    /\ IF snd.state = "ESTABLISHED"
       THEN /\ acking' = <<p>>
            /\ snd' = IF After(p.ack, snd.una)
                      THEN [snd EXCEPT !.off = @ + n, !.slen = @ - n] ELSE snd
            /\ torn' = (torn \/ Disturbs(Mid("closer")))
       ELSE UNCHANGED <<acking, snd, torn>>
    /\ UNCHANGED <<rcv, dirty, pump, data, pending, hangup>>

AckStore_NoRequeue ==
    LET p == acking[1] IN
    /\ acking # <<>>
    /\ snd' = [snd EXCEPT !.una = IF After(p.ack, @) THEN p.ack ELSE @, !.wnd = p.wnd]
    /\ acking' = <<>>
    /\ UNCHANGED <<rcv, dirty, pump, data, acks, pending, hangup, torn>>
AckStore ==
    LET p == acking[1] IN
    /\ acking # <<>>
    /\ snd' = [snd EXCEPT !.una = IF After(p.ack, @) THEN p.ack ELSE @, !.wnd = p.wnd]
    /\ dirty' = (dirty \/ MorePending(snd'))
    /\ pump' = [pump EXCEPT !["daemon"] = Place(IF dirty' THEN "due" ELSE "out")]
    /\ acking' = <<>>
    /\ UNCHANGED <<rcv, data, acks, pending, hangup, torn>>

PeerFin ==
    /\ pump["daemon"].at = "out" /\ acking = <<>>
    /\ acks # <<>> /\ Has(Head(acks), "FIN")
    /\ acks' = Tail(acks)
    /\ snd' = IF snd.state = "ESTABLISHED" THEN PeerClosed(snd, Head(acks)) ELSE snd
    /\ UNCHANGED <<rcv, dirty, pump, acking, data, pending, hangup, torn>>

-----------------------------------------------------------------------------
(* The receiving end.                                                       *)

\* After its own FIN the receiver takes no payload.
Receive ==
    /\ data # <<>> /\ pending = <<>>
    /\ IF rcv.state = "ESTABLISHED"
       THEN rcv' = Counted(rcv, Head(data)) /\ pending' = Head(data).data
       ELSE UNCHANGED <<rcv, pending>>
    /\ data' = Tail(data)
    /\ UNCHANGED <<snd, dirty, pump, acking, acks, hangup, torn>>

\* recv_buffer.write waits for room; then the ACK.
StorePayload ==
    LET d == Stored(rcv, pending) IN
    /\ pending # <<>>
    /\ FreeWnd(rcv) > 0 \/ rcv.woken_r
    /\ rcv' = d
    /\ acks' = Append(acks, Control(d, {"ACK"}, d.nxt, d.rnxt))
    /\ pending' = <<>>
    /\ UNCHANGED <<snd, dirty, pump, acking, data, hangup, torn>>

recv ==
    /\ \E n \in 1 .. Buffered(rcv) : rcv' = [rcv EXCEPT !.rread = @ + n]
    /\ UNCHANGED <<snd, dirty, pump, acking, data, acks, pending, hangup, torn>>

\* Data the receiving application sends the other way carries an ACK too; one
\* such segment is under way at a time.
Piggyback ==
    /\ acks = <<>> /\ pending = <<>> /\ rcv.state = "ESTABLISHED"
    /\ acks' = <<Control(rcv, {"ACK"}, rcv.nxt, rcv.rnxt)>>
    /\ UNCHANGED <<snd, rcv, dirty, pump, acking, data, pending, hangup, torn>>

\* close_connection at the receiving end: a last segment of its own, if it has
\* one, and the FIN, with the acknowledgement and the window of the moment.
HangupFlush ==
    /\ hangup = "no"
    /\ hangup' = "flushed"
    /\ \/ /\ acks' = Append(acks, Control(rcv, {"ACK"}, rcv.nxt, rcv.rnxt))
          /\ torn' = (torn \/ pending # <<>>)
       \/ UNCHANGED <<acks, torn>>
    /\ UNCHANGED <<snd, rcv, dirty, pump, acking, data, pending>>

HangupFin ==
    /\ hangup = "flushed"
    /\ hangup' = "done"
    /\ rcv' = Closing(rcv)
    /\ acks' = Append(acks, Control(rcv, {"FIN", "ACK"}, rcv.nxt, rcv.rnxt))
    /\ UNCHANGED <<snd, dirty, pump, acking, data, pending, torn>>

-----------------------------------------------------------------------------

Sending(p) == Look(p) \/ Peek(p) \/ Emit(p)
Acking == AckDiscard \/ AckStore
Receiving == Receive \/ StorePayload

\* A behaviour is followed until it is torn.
Next == /\ ~ torn
        /\ \/ send \/ (\E p \in Pump : Sending(p)) \/ Mark
           \/ Acking \/ PeerFin
           \/ Receiving \/ recv \/ Piggyback \/ HangupFlush \/ HangupFin

Spec == Init /\ [][Next]_vars

\* The daemons run, the receiving application reads, and now and then it also
\* writes: without that last part a closed window stays closed.
FairSpec == /\ Spec
            /\ WF_vars(Sending("daemon")) /\ WF_vars(Acking) /\ WF_vars(Receiving)
            /\ WF_vars(recv) /\ WF_vars(Piggyback)

-----------------------------------------------------------------------------
(* Properties.                                                              *)

SeqNum == 0 .. SeqMod - 1
TypeOK ==
    /\ {snd.una, snd.nxt, rcv.rnxt} \subseteq SeqNum
    /\ snd.slen \in 0..BufSize /\ snd.wnd \in 0..BufSize
    /\ rcv.rread \in 0 .. Len(rcv.rcvd)
    /\ pump \in [Pump -> [at : {"out", "due", "peek", "emit", "mark", "done"},
                          flight : SeqNum, room : 0..MSS, seq : SeqNum,
                          bytes : Seq(1..MaxWrite)]]
    /\ dirty \in BOOLEAN /\ torn \in BOOLEAN

\* The receiver's daemon never has to wait in recv_buffer.write and never
\* stores less than it has counted: the windows it advertised, some of them
\* still under way, leave room for every segment that is.
WindowHonoured == ~ torn => Len(pending) <= FreeWnd(rcv)

\* What is in flight is in the send buffer, so that SND.UNA and SND.NXT keep
\* pointing into it, also after a FIN has set SND.NXT back (TcpStack.cpp:448).
InFlightIsBuffered ==
    ~ torn /\ acking = <<>> /\ snd.state \in {"ESTABLISHED", "CLOSE_WAIT"} =>
        InFlight(snd) <= snd.slen

Stream == INSTANCE ByteStream WITH
    accepted <- Written, forgotten <- snd.off, stream <- rcv.rcvd,
    taken <- rcv.rread, sound <- ~ torn

\* The connection keeps the promise of ByteStream, also across closes at
\* either end, unless the closing thread and the daemon meet: at the sender
\* while bytes are unsent, at the receiver between counting and storing.
ImplementsStream == Stream!Spec

\* While the receiving application reads, and writes now and then, everything
\* accepted arrives.
EverythingArrives ==
    []<>(\/ Len(rcv.rcvd) = Written
         \/ pump["closer"].at # "out" \/ hangup # "no")
=============================================================================
