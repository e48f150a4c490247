-------------------------- MODULE SlidingWindowProofs --------------------------
(***************************************************************************)
(* One direction of an established connection keeps its windows and is a    *)
(* byte stream, proved for every size of the sequence numbers, the buffers  *)
(* and the segments, every first sequence number and every amount of data.  *)
(***************************************************************************)
EXTENDS SlidingWindow, ModularArithmetic

(***************************************************************************)
(* Positions and sequence numbers.  A position counts bytes of the stream   *)
(* and never wraps; the code has only sequence numbers.                     *)
(***************************************************************************)

\* The sequence number of the byte after position k.
SeqOf(k) == (First + k) % SeqMod

\* The constants of the arithmetic, as the lemmas below need them.
LEMMA SeqModType == SeqMod \in Nat \ {0} /\ SeqMod > 2 * BufSize + 1 /\ First \in Int /\ BufSize \in Nat
  BY SeqModAssumption, SizesAssumption, WindowAssumption

\* A position has a sequence number.
LEMMA SeqOfType == \A k \in Int : SeqOf(k) \in SeqNum
  BY SeqModType, DivMod DEF SeqOf, SeqNum

\* A distance between sequence numbers is one itself.
LEMMA SubType == \A x, y \in Int : Sub(x, y) \in 0 .. SeqMod - 1
  BY SeqModType, DivMod DEF Sub

\* Subtraction of sequence numbers is that of positions less than SeqMod apart.
LEMMA SubSeqOf ==
  ASSUME NEW a \in Int, NEW b \in Int, b <= a, a - b < SeqMod
  PROVE  Sub(SeqOf(a), SeqOf(b)) = a - b
<1> DEFINE qa == (First + a) \div SeqMod
           qb == (First + b) \div SeqMod
<1>1. /\ First + a \in Int /\ First + b \in Int
  BY SeqModType
<1>2. /\ qa \in Int /\ SeqOf(a) \in Int /\ First + a = SeqMod * qa + SeqOf(a)
      /\ qb \in Int /\ SeqOf(b) \in Int /\ First + b = SeqMod * qb + SeqOf(b)
  BY <1>1, SeqModType, DivMod DEF SeqOf
<1> DEFINE sa == SeqOf(a)
           sb == SeqOf(b)
<1> HIDE DEF qa, qb, sa, sb
<1>3. sa \in Int /\ sb \in Int /\ First + a = SeqMod * qa + sa /\ First + b = SeqMod * qb + sb
  BY <1>2 DEF sa, sb
<1>4. SeqMod * (qb - qa) = SeqMod * qb - SeqMod * qa
  BY <1>2, SeqModType
<1>5. qb - qa \in Int /\ a - b \in 0 .. SeqMod - 1 /\ sa - sb = SeqMod * (qb - qa) + (a - b)
  BY <1>2, <1>3, <1>4, SeqModType
<1>6. (SeqMod * (qb - qa) + (a - b)) % SeqMod = a - b
  BY <1>5, SeqModType, ModUnique
<1> QED
  BY <1>5, <1>6 DEF Sub, sa, sb

\* Adding to a sequence number advances its position.
LEMMA AddSeqOf ==
  ASSUME NEW a \in Int, NEW n \in Int
  PROVE  Add(SeqOf(a), n) = SeqOf(a + n)
<1> DEFINE q == (First + a) \div SeqMod
<1>1. q \in Int /\ SeqOf(a) \in Int /\ First + a = SeqMod * q + SeqOf(a)
  BY SeqModType, DivMod DEF SeqOf
<1> DEFINE s == SeqOf(a) + n
<1> HIDE DEF q, s
<1>2. s \in Int /\ First + (a + n) = s + SeqMod * q
  BY <1>1, SeqModType DEF s
<1>3. (s + SeqMod * q) % SeqMod = s % SeqMod
  BY <1>1, <1>2, SeqModType, ModShift
<1> QED
  BY <1>2, <1>3 DEF Add, SeqOf, s

\* Every sequence number has a position within SeqMod of any other.
LEMMA SeqOfSub ==
  ASSUME NEW b \in Int, NEW x \in SeqNum
  PROVE  SeqOf(b + Sub(x, SeqOf(b))) = x
<1> DEFINE y == x - SeqOf(b)
           q == y \div SeqMod
           d == y % SeqMod
<1>1. SeqOf(b) \in Int /\ x \in Int /\ y \in Int
  BY SeqOfType, SeqModType DEF SeqNum
<1> HIDE DEF y
<1>2. q \in Int /\ d \in Int /\ y = SeqMod * q + d
  BY <1>1, SeqModType, DivMod
<1> HIDE DEF q, d
<1>3. SeqOf(b + d) = Add(SeqOf(b), d)
  BY <1>2, AddSeqOf
<1>4. -q \in Int /\ SeqOf(b) + d = SeqMod * (-q) + x
  BY <1>1, <1>2, SeqModType DEF y
<1>5. (SeqMod * (-q) + x) % SeqMod = x
  BY <1>4, SeqModType, ModUnique DEF SeqNum
<1>6. Add(SeqOf(b), d) = x
  BY <1>4, <1>5 DEF Add
<1> QED
  BY <1>3, <1>6 DEF Sub, y, d

\* Sequence numbers without distance are equal.
LEMMA SubZero ==
  ASSUME NEW x \in SeqNum, NEW y \in SeqNum, Sub(x, y) = 0
  PROVE  x = y
<1> DEFINE z == x - y
           q == z \div SeqMod
<1>1. z \in Int /\ -SeqMod < z /\ z < SeqMod
  BY SeqModType DEF SeqNum
<1>2. z % SeqMod = 0
  BY DEF Sub
<1> HIDE DEF z
<1>3. q \in Int /\ z = SeqMod * q + (z % SeqMod)
  BY <1>1, DivMod, SeqModType
<1> HIDE DEF q
<1>4. z = SeqMod * q
  BY <1>1, <1>2, <1>3, SeqModType
<1>5. q = 0
  BY <1>1, <1>3, <1>4, NoMultiple, SeqModType
<1>6. z = 0
  BY <1>4, <1>5, SeqModType
<1> QED
  BY <1>6, SeqModType DEF z, SeqNum

\* A sequence number stands for one position, seen from any base up to it.
LEMMA Rebase ==
  ASSUME NEW b \in Int, NEW c \in Int, NEW x \in SeqNum,
         b <= c, c <= b + Sub(x, SeqOf(b))
  PROVE  c + Sub(x, SeqOf(c)) = b + Sub(x, SeqOf(b))
<1> DEFINE p == b + Sub(x, SeqOf(b))
<1>1. Sub(x, SeqOf(b)) \in 0 .. SeqMod - 1
  BY SubType, SeqOfType, SeqModType DEF SeqNum
<1>2. p \in Int /\ p - c < SeqMod /\ c <= p
  BY <1>1, SeqModType
<1>3. SeqOf(p) = x
  BY SeqOfSub
<1> HIDE DEF p
<1>4. Sub(SeqOf(p), SeqOf(c)) = p - c
  BY <1>2, SubSeqOf
<1>5. c + Sub(x, SeqOf(c)) = p
  BY <1>2, <1>3, <1>4
<1> QED
  BY <1>5 DEF p

\* The position a sequence number stands for: the first one, from what the
\* sender has discarded on, that has it.
Pos(x) == snd.off + Sub(x, SeqOf(snd.off))

Sent == Pos(snd.nxt)                            \* SND.NXT
Got == Len(rcv.rcvd) + Len(pending)             \* RCV.NXT
Edge == rcv.rread + BufSize                     \* the end of the receiver's buffer
Open == rcv.state = "ESTABLISHED"

-----------------------------------------------------------------------------
(* The inductive invariant.  Its parts but the first are claimed while the  *)
(* behaviour is not torn.                                                   *)

Addr == {<<"S", 1>>, <<"R", 2>>}

Block == [state : SendingStates, src : Addr, dst : Addr,
          una : SeqNum, nxt : SeqNum, wnd : 0..BufSize, iss : SeqNum, rnxt : SeqNum,
          off : Nat, slen : 0..BufSize, rcvd : Seq(1..MaxWrite), rread : Nat,
          woken_s : BOOLEAN, woken_r : BOOLEAN, accept_queue : {<<>>}, attempts : Nat]

Segment == [src : Addr, dst : Addr, flags : SUBSET {"ACK", "FIN"},
            seq : SeqNum, ack : SeqNum, wnd : 0..BufSize, data : Seq(1..MaxWrite)]

Places == [at : {"out", "due", "peek", "emit", "mark", "done"},
           flight : SeqNum, room : 0..MSS, seq : SeqNum, bytes : Seq(1..MaxWrite)]

TypeInv ==
    /\ snd \in Block /\ rcv \in Block
    /\ snd.rcvd = <<>> /\ snd.rread = 0
    /\ Written <= MaxWrite
    /\ rcv.rread <= Len(rcv.rcvd)
    /\ pump \in [Pump -> Places]
    /\ acking \in Seq(Segment) /\ data \in Seq(Segment) /\ acks \in Seq(Segment)
    /\ pending \in Seq(1..MaxWrite)
    /\ hangup \in {"no", "flushed", "done"}
    /\ dirty \in BOOLEAN /\ torn \in BOOLEAN

\* What was acknowledged has arrived, what has arrived was sent, what was sent
\* was written; SND.UNA is where the send buffer begins, but while an ACK is
\* being applied.
SenderInv ==
    /\ snd.off <= Len(rcv.rcvd)
    /\ Got <= Sent
    /\ Sent <= Written
    /\ acking = <<>> => snd.una = SeqOf(snd.off)
    /\ acking # <<>> => /\ acking[1].ack = SeqOf(snd.off)
                        /\ Sub(SeqOf(snd.off), snd.una) <= BufSize
                        /\ pump["daemon"].at = "out"

ReceiverInv ==
    /\ rcv.rnxt = SeqOf(Got)
    /\ Got <= Edge
    /\ pending # <<>> => pending = Run(Len(rcv.rcvd), Len(pending))

\* The window the sender knows ends within the receiver's buffer.
WindowInv ==
    Open => /\ Sent <= Edge
            /\ acking = <<>> => snd.off + snd.wnd <= Edge
            /\ acking # <<>> => snd.off + acking[1].wnd <= Edge

\* A thread that will find nothing to copy.
Quiet(p) == pump[p].at = "peek" /\ snd.slen <= pump[p].flight

\* in_flight and the usable window are as they were read.
Fresh(p) ==
    /\ Sent = snd.off + pump[p].flight
    /\ Open => Sent + pump[p].room <= Edge

\* The segment begins where SND.NXT is and holds those bytes.
SeqAt(p) == Pos(pump[p].seq)
EmitInv(p) ==
    LET n == Len(pump[p].bytes) IN
    pump[p].at = "emit" =>
        /\ n >= 1
        /\ Sent <= SeqAt(p)
        /\ SeqAt(p) + n <= Written
        /\ Open => /\ pump[p].seq = snd.nxt
                   /\ pump[p].bytes = Run(Sent, n)
                   /\ Sent + n <= Edge

\* What the closing thread has read is stale only when it will copy nothing, or
\* when the receiver, having sent its FIN, takes no more payload.
PumpInv ==
    /\ \A p \in Pump : EmitInv(p)
    /\ pump["daemon"].at = "peek" => Fresh("daemon")
    /\ pump["closer"].at = "peek" =>
         \/ Quiet("closer") \/ Fresh("closer")
         \/ ~ Open /\ Sent <= snd.off + pump["closer"].flight
    /\ Mid("daemon") /\ Mid("closer") => Quiet("daemon") /\ Quiet("closer")
    /\ Mid("closer") /\ acking # <<>> => Quiet("closer")

\* The segments under way are the bytes between RCV.NXT and SND.NXT, in order.
Lo(d) == d.data[1] - 1
Hi(d) == Lo(d) + Len(d.data)
DataInv ==
    Open =>
        /\ \A j \in 1..Len(data) : /\ data[j].data # <<>>
                                   /\ data[j].data = Run(Lo(data[j]), Len(data[j].data))
                                   /\ Hi(data[j]) <= Sent
        /\ \A j \in 1..Len(data) - 1 : Lo(data[j + 1]) = Hi(data[j])
        /\ data = <<>> => Got = Sent
        /\ data # <<>> => Lo(data[1]) = Got /\ Hi(data[Len(data)]) = Sent

\* The ACKs under way, in order, acknowledge what has arrived and leave room
\* for what they permit.
AckAt(j) == Pos(acks[j].ack)
AckInv ==
    /\ \A j \in 1..Len(acks) :
         /\ AckAt(j) <= Got
         /\ IF Has(acks[j], "FIN") THEN AckAt(j) = Got /\ ~ Open
            ELSE AckAt(j) <= Len(rcv.rcvd)
         /\ Open => AckAt(j) + acks[j].wnd <= Edge
    /\ \A j, k \in 1..Len(acks) : j <= k => AckAt(j) <= AckAt(k)

Core == SenderInv /\ ReceiverInv /\ WindowInv /\ PumpInv /\ DataInv /\ AckInv

Inv == TypeInv /\ (~ torn => Core)
-----------------------------------------------------------------------------
(* The fields of the state, one by one.                                     *)

\* The types of the fields of a control block.
LEMMA BlockFields ==
  ASSUME NEW c \in Block
  PROVE  /\ c.una \in SeqNum /\ c.nxt \in SeqNum /\ c.rnxt \in SeqNum
         /\ c.wnd \in 0..BufSize /\ c.slen \in 0..BufSize
         /\ c.off \in Nat /\ c.rread \in Nat
         /\ c.rcvd \in Seq(1..MaxWrite) /\ Len(c.rcvd) \in Nat
         /\ c.src \in Addr /\ c.dst \in Addr
  BY DEF Block

\* The types of the fields of a segment.
LEMMA SegmentFields ==
  ASSUME NEW s \in Segment
  PROVE  /\ s.seq \in SeqNum /\ s.ack \in SeqNum /\ s.wnd \in 0..BufSize
         /\ s.data \in Seq(1..MaxWrite) /\ Len(s.data) \in Nat
  BY DEF Segment

\* The types of what a sending thread has read.
LEMMA PlaceFields ==
  ASSUME NEW q \in Places
  PROVE  /\ q.flight \in SeqNum /\ q.seq \in SeqNum /\ q.room \in 0..MSS
         /\ q.bytes \in Seq(1..MaxWrite) /\ Len(q.bytes) \in Nat
  BY DEF Places

\* What Look and Peek record in a place.
LEMMA PlaceSet ==
  ASSUME NEW q \in Places, NEW f \in SeqNum, NEW r \in 0..MSS, NEW s \in SeqNum,
         NEW b \in Seq(1..MaxWrite)
  PROVE  LET look == [q EXCEPT !.flight = f, !.room = r]
             peek == [q EXCEPT !.at = "emit", !.bytes = b, !.seq = s]
         IN  /\ look \in Places /\ look.at = q.at /\ look.flight = f /\ look.room = r
             /\ peek \in Places /\ peek.at = "emit" /\ peek.bytes = b /\ peek.seq = s
  BY DEF Places

\* Run(f, n) is the bytes f+1 .. f+n.
LEMMA RunIs ==
  ASSUME NEW f \in Nat, NEW n \in Nat
  PROVE  /\ Len(Run(f, n)) = n /\ \A i \in 1..n : Run(f, n)[i] = f + i
         /\ f + n <= MaxWrite => Run(f, n) \in Seq(1..MaxWrite)
<1>1. Run(f, n) \in Seq(Nat) /\ Len(Run(f, n)) = n /\ \A i \in 1..n : Run(f, n)[i] = f + i
  BY DEF Run
<1>2. ASSUME f + n <= MaxWrite PROVE Run(f, n) \in Seq(1..MaxWrite)
  <2>1. \A i \in 1..n : f + i \in 1..MaxWrite
    BY <1>2, WindowAssumption
  <2> QED
    BY <2>1 DEF Run
<1> QED
  BY <1>1, <1>2

\* The ranges of the fields are natural numbers.
LEMMA Numbers ==
  /\ SeqNum \subseteq Nat /\ 0..BufSize \subseteq Nat /\ 0..MSS \subseteq Nat
  /\ 0 \in SeqNum /\ 0 \in 0..MSS /\ BufSize \in Nat \ {0} /\ MSS \in Nat \ {0} /\ MaxWrite \in Nat
  BY SizesAssumption, WindowAssumption, SeqModType DEF SeqNum

-----------------------------------------------------------------------------
(* What the positions say about the code's expressions.                     *)

\* Pos and SeqOf are inverse to each other within SeqMod of the send buffer.
LEMMA PosFacts ==
  ASSUME TypeInv
  PROVE  /\ \A x \in SeqNum : /\ Pos(x) \in Nat /\ Pos(x) >= snd.off
                              /\ Sub(x, SeqOf(snd.off)) = Pos(x) - snd.off
                              /\ SeqOf(Pos(x)) = x
         /\ \A k \in Int : snd.off <= k /\ k - snd.off < SeqMod => Pos(SeqOf(k)) = k
<1>1. snd.off \in Nat /\ SeqOf(snd.off) \in Int
  BY SeqOfType, SeqModType DEF TypeInv, Block, SeqNum
<1>2. ASSUME NEW x \in SeqNum
      PROVE  /\ Pos(x) \in Nat /\ Pos(x) >= snd.off
             /\ Sub(x, SeqOf(snd.off)) = Pos(x) - snd.off
             /\ SeqOf(Pos(x)) = x
  <2>0. x \in Int
    BY SeqModType DEF SeqNum
  <2>1. Sub(x, SeqOf(snd.off)) \in 0 .. SeqMod - 1
    BY <1>1, <2>0, SubType
  <2>2. SeqOf(Pos(x)) = x
    BY <1>1, SeqOfSub DEF Pos
  <2> QED
    BY <1>1, <2>1, <2>2, SeqModType DEF Pos
<1>3. ASSUME NEW k \in Int, snd.off <= k, k - snd.off < SeqMod
      PROVE  Pos(SeqOf(k)) = k
  BY <1>1, <1>3, SubSeqOf DEF Pos
<1> QED
  BY <1>2, <1>3

\* The bytes in flight, as process_block_ computes them, while no ACK is being
\* applied.
LEMMA InFlightIs ==
  ASSUME TypeInv, SenderInv, acking = <<>>
  PROVE  InFlight(snd) = Sent - snd.off /\ InFlight(snd) <= snd.slen
<1>1. snd.nxt \in SeqNum /\ snd.off \in Nat /\ snd.slen \in Nat
  BY SizesAssumption DEF TypeInv, Block
<1> QED
  BY <1>1, PosFacts DEF SenderInv, InFlight, Sent, Written

\* Positions stay while the send buffer discards nothing.
LEMMA PosKept == snd'.off = snd.off => \A x \in SeqNum : Pos(x)' = Pos(x)
  BY DEF Pos

\* A position at or beyond what is discarded stays.
LEMMA PosRebased ==
  ASSUME TypeInv, TypeInv', snd'.off >= snd.off, NEW x \in SeqNum, snd'.off <= Pos(x)
  PROVE  Pos(x)' = Pos(x)
<1>1. snd.off \in Int /\ snd'.off \in Int
  BY DEF TypeInv, Block
<1> QED
  BY <1>1, Rebase DEF Pos
-----------------------------------------------------------------------------
(* The types.                                                               *)

\* Nothing that is built from the blocks leaves its type.
LEMMA BuiltTypes ==
  ASSUME TypeInv
  PROVE  /\ \A x, y \in SeqNum : Sub(x, y) \in SeqNum
         /\ \A x \in SeqNum, n \in Nat : Add(x, n) \in SeqNum
         /\ \A p \in Pump : Leave(p) \in Places
         /\ \A a \in {"out", "due", "peek", "done"} : Place(a) \in Places
         /\ \A b \in Seq(1..MaxWrite), x \in SeqNum :
              create_writer_tcp_packet_(snd, b, x) \in Segment
<1> USE SeqModType
<1>1. \A x, y \in SeqNum : Sub(x, y) \in SeqNum
  BY DivMod DEF Sub, SeqNum
<1>2. \A x \in SeqNum, n \in Nat : Add(x, n) \in SeqNum
  BY DivMod DEF Add, SeqNum
<1>3. \A a \in {"out", "due", "peek", "mark", "done"} : Place(a) \in Places
  BY SizesAssumption DEF Place, Places, SeqNum
<1>4. \A b \in Seq(1..MaxWrite), x \in SeqNum :
         create_writer_tcp_packet_(snd, b, x) \in Segment
  <2>1. FreeWnd(snd) \in 0..BufSize
    BY SizesAssumption DEF FreeWnd, Buffered, TypeInv
  <2> QED
    BY <2>1 DEF create_writer_tcp_packet_, Packet, Segment, TypeInv, Block
<1> QED
  BY <1>1, <1>2, <1>3, <1>4 DEF Leave

\* An ACK of the receiver's advertises the room in its buffer.
LEMMA ControlType ==
  ASSUME TypeInv, Got <= Edge,
         NEW f \in SUBSET {"ACK", "FIN"}, NEW x \in SeqNum, NEW y \in SeqNum
  PROVE  /\ Control(rcv, f, x, y) \in Segment
         /\ Control(rcv, f, x, y).wnd = Edge - Len(rcv.rcvd)
<1>1. FreeWnd(rcv) = Edge - Len(rcv.rcvd) /\ FreeWnd(rcv) \in 0..BufSize
  <2>1. Len(rcv.rcvd) \in Nat /\ rcv.rread \in Nat /\ rcv.rread <= Len(rcv.rcvd)
        /\ Len(pending) \in Nat
    BY BlockFields DEF TypeInv
  <2> QED
    BY <2>1, Numbers DEF FreeWnd, Buffered, Got, Edge
<1>2. <<>> \in Seq(1..MaxWrite)
  OBVIOUS
<1> QED
  BY <1>1, <1>2 DEF Control, Packet, Segment, TypeInv, Block

\* A write keeps the send buffer within its capacity.
LEMMA TypeSend == ASSUME Inv, ~ torn, send PROVE TypeInv'
<1>1. PICK n \in 1 .. Lesser(BufSize - snd.slen, MaxWrite - Written) :
        snd' = [snd EXCEPT !.slen = @ + n]
  BY DEF send
<1>2. snd.off \in Nat /\ snd.slen \in 0..BufSize
  BY BlockFields DEF Inv, TypeInv
<1>3. n \in Nat /\ snd.slen + n \in 0..BufSize /\ snd.off + (snd.slen + n) <= MaxWrite
  BY <1>2, Numbers DEF Lesser, Written
<1>4. /\ snd' \in Block /\ snd'.slen = snd.slen + n /\ snd'.off = snd.off
      /\ snd'.rcvd = snd.rcvd /\ snd'.rread = snd.rread
  BY <1>1, <1>3 DEF Inv, TypeInv, Block
<1> QED
  BY <1>3, <1>4 DEF send, Inv, TypeInv, Written

\* The usable window read is one.
LEMMA TypeLook == ASSUME Inv, ~ torn, NEW p \in Pump, Look(p) PROVE TypeInv'
<1>1. InFlight(snd) \in SeqNum
  BY BuiltTypes DEF Inv, TypeInv, Block, InFlight
<1>2. Looked(p) \in Places
  <2>1. snd.wnd \in 0..BufSize
    BY DEF Inv, TypeInv, Block
  <2>2. Leave(p) \in Places
    BY BuiltTypes DEF Inv
  <2> DEFINE u == IF snd.wnd > InFlight(snd) THEN snd.wnd - InFlight(snd) ELSE 0
  <2>3. u \in Nat /\ Lesser(u, MSS) \in 0..MSS
    BY <1>1, <2>1, SizesAssumption, SeqModType DEF Lesser, SeqNum
  <2> HIDE DEF u
  <2>4. [Place("peek") EXCEPT !.flight = InFlight(snd), !.room = Lesser(u, MSS)] \in Places
    <3>1. Place("peek") \in Places /\ <<>> \in Seq(1..MaxWrite) /\ 0 \in SeqNum
      BY BuiltTypes, Numbers DEF Inv
    <3> QED
      BY <1>1, <2>3, <3>1, PlaceSet
  <2> QED
    BY <2>2, <2>4 DEF Looked, u
<1> QED
  BY <1>2 DEF Look, Inv, TypeInv, Written, Disturbs, Mid

\* The bytes copied were written.
LEMMA TypePeek == ASSUME Inv, ~ torn, NEW p \in Pump, Peek(p) PROVE TypeInv'
<1> DEFINE n == IF pump[p].flight < snd.slen
                THEN Lesser(pump[p].room, snd.slen - pump[p].flight) ELSE 0
           b == Run(snd.off + pump[p].flight, n)
<1>1. /\ snd.off \in Nat /\ snd.slen \in 0..BufSize /\ snd.nxt \in SeqNum
      /\ pump[p] \in Places /\ pump[p].flight \in Nat /\ pump[p].room \in Nat
  BY BlockFields, PlaceFields, Numbers DEF Inv, TypeInv
<1>2. n \in Nat /\ (n # 0 => pump[p].flight + n <= snd.slen)
  BY <1>1, SizesAssumption DEF Lesser
<1>3. ASSUME n # 0 PROVE b \in Seq(1..MaxWrite)
  <2>1. snd.off + snd.slen <= MaxWrite
    BY DEF Inv, TypeInv, Written
  <2> HIDE DEF n
  <2>2. snd.off + pump[p].flight \in Nat /\ n \in Nat /\ snd.off + pump[p].flight + n <= MaxWrite
    BY <1>1, <1>2, <1>3, <2>1, Numbers
  <2> QED
    BY <2>2, RunIs
<1>4. pump'[p] \in Places
  <2>1. Leave(p) \in Places
    BY BuiltTypes DEF Inv
  <2> HIDE DEF n, b
  <2>2. n # 0 => [pump[p] EXCEPT !.at = "emit", !.bytes = b, !.seq = snd.nxt] \in Places
    BY <1>1, <1>3 DEF Places
  <2> QED
    BY <2>1, <2>2 DEF Peek, Inv, TypeInv, n, b
<1> QED
  BY <1>4 DEF Peek, Inv, TypeInv, Written

\* SND.NXT stays a sequence number, whichever addition is lost.
LEMMA TypeEmit == ASSUME Inv, ~ torn, NEW p \in Pump, Emit(p) PROVE TypeInv'
<1> DEFINE n == Len(pump[p].bytes)
<1>1. /\ snd \in Block /\ snd.nxt \in SeqNum /\ pump[p].seq \in SeqNum
      /\ n \in Nat /\ pump[p].bytes \in Seq(1..MaxWrite)
  BY BlockFields, PlaceFields DEF Inv, TypeInv
<1>2. /\ Add(snd.nxt, n) \in SeqNum /\ Add(pump[p].seq, n) \in SeqNum
      /\ Leave(p) \in Places
      /\ create_writer_tcp_packet_(snd, pump[p].bytes, pump[p].seq) \in Segment
  BY <1>1, BuiltTypes DEF Inv
<1>3. PICK v \in SeqNum : snd' = [snd EXCEPT !.nxt = v]
  BY <1>2 DEF Emit
<1>4. /\ snd' \in Block /\ snd'.off = snd.off /\ snd'.slen = snd.slen
      /\ snd'.rcvd = snd.rcvd /\ snd'.rread = snd.rread
  BY <1>1, <1>3 DEF Block
<1>5. data' \in Seq(Segment) /\ pump' \in [Pump -> Places] /\ dirty' \in BOOLEAN
  BY <1>2 DEF Emit, Inv, TypeInv, MorePending
<1> QED
  BY <1>4, <1>5 DEF Emit, Inv, TypeInv, Written

\* TransmissionControlBlock::close leaves ESTABLISHED and no number changes.
LEMMA ClosingKeeps ==
  ASSUME NEW c \in Block
  PROVE  LET d == Closing(c) IN
         /\ d \in Block /\ d.state # "ESTABLISHED"
         /\ d.off = c.off /\ d.slen = c.slen /\ d.una = c.una /\ d.nxt = c.nxt /\ d.wnd = c.wnd
         /\ d.rcvd = c.rcvd /\ d.rread = c.rread /\ d.rnxt = c.rnxt
<1> DEFINE st == IF c.state = "ESTABLISHED" THEN "FIN_WAIT_1" ELSE "LAST_ACK"
<1>1. st \in SendingStates /\ st # "ESTABLISHED"
  BY DEF SendingStates
<1>2. Closing(c) = [c EXCEPT !.woken_r = TRUE, !.woken_s = TRUE, !.state = st]
  BY DEF Closing, Block
<1> HIDE DEF st
<1>3. Closing(c) \in Block
  BY <1>1, <1>2 DEF Block
<1>4. Closing(c).state = st
  BY <1>1, <1>2 DEF Block
<1> QED
  BY <1>1, <1>2, <1>3, <1>4 DEF Block

\* The FIN of the peer sets SND.NXT back to what it acknowledges.
LEMMA PeerClosedSets ==
  ASSUME NEW c \in Block, NEW p \in Segment
  PROVE  LET d == PeerClosed(c, p) IN
         /\ d \in Block
         /\ d.nxt = IF Has(p, "ACK") THEN p.ack ELSE c.nxt
         /\ d.off = c.off /\ d.slen = c.slen /\ d.una = c.una
         /\ d.rcvd = c.rcvd /\ d.rread = c.rread
<1> DEFINE x == IF Has(p, "ACK") THEN p.ack ELSE c.nxt
           w == IF Has(p, "ACK") THEN p.wnd ELSE c.wnd
<1>1. /\ x \in SeqNum /\ w \in 0..BufSize /\ "CLOSE_WAIT" \in SendingStates
      /\ PastControl(p) \in SeqNum
  <2>0. p.seq \in SeqNum /\ p.seq \in Nat
    BY SegmentFields, Numbers
  <2>1. p.seq + 1 \in Int
    BY <2>0
  <2>2. PastControl(p) \in SeqNum
    BY <2>1, DivMod, SeqModType DEF PastControl, Add, SeqNum
  <2> QED
    BY <2>2, BlockFields, SegmentFields DEF SendingStates
<1>2. PeerClosed(c, p) = [c EXCEPT !.rnxt = PastControl(p), !.nxt = x, !.wnd = w,
                                   !.state = "CLOSE_WAIT", !.woken_r = TRUE]
  BY DEF PeerClosed, Block
<1> HIDE DEF x, w
<1>3. PeerClosed(c, p) \in Block
  BY <1>1, <1>2 DEF Block
<1> QED
  BY <1>1, <1>2, <1>3 DEF Block, x

\* The new state is one of a block that may send.
LEMMA TypeMark == ASSUME Inv, ~ torn, Mark PROVE TypeInv'
<1>1. /\ snd' \in Block /\ snd'.off = snd.off /\ snd'.slen = snd.slen
      /\ snd'.rcvd = snd.rcvd /\ snd'.rread = snd.rread
  BY ClosingKeeps DEF Mark, Inv, TypeInv
<1>2. pump' \in [Pump -> Places]
  BY BuiltTypes DEF Mark, Inv, TypeInv
<1> QED
  BY <1>1, <1>2 DEF Mark, Inv, TypeInv, Written

\* An acknowledgement discards no more than the buffer holds.
LEMMA TypeAckDiscard == ASSUME Inv, ~ torn, AckDiscard PROVE TypeInv'
<1> DEFINE p == Head(acks)
           n == Lesser(Sub(p.ack, snd.una), snd.slen)
<1>1. /\ snd \in Block /\ snd.una \in SeqNum /\ snd.slen \in 0..BufSize /\ snd.off \in Nat
      /\ p \in Segment /\ p.ack \in SeqNum /\ Tail(acks) \in Seq(Segment)
      /\ <<p>> \in Seq(Segment) /\ torn' \in BOOLEAN
  <2>1. snd \in Block /\ snd.una \in SeqNum /\ snd.slen \in 0..BufSize /\ snd.off \in Nat
    BY BlockFields DEF Inv, TypeInv
  <2>2. acks \in Seq(Segment) /\ acks # <<>>
    BY DEF Inv, TypeInv, AckDiscard
  <2>3. p \in Segment /\ Tail(acks) \in Seq(Segment)
    BY <2>2
  <2>4. torn' \in BOOLEAN
    BY DEF Inv, TypeInv, AckDiscard
  <2> QED
    BY <2>1, <2>3, <2>4, SegmentFields
<1>2. Sub(p.ack, snd.una) \in Nat
  BY <1>1, BuiltTypes, Numbers DEF Inv
<1>3. n \in Nat /\ n <= snd.slen
  BY <1>1, <1>2, Numbers DEF Lesser
<1> HIDE DEF n
<1>4. /\ snd' \in Block /\ snd'.off + snd'.slen = snd.off + snd.slen
      /\ snd'.rcvd = snd.rcvd /\ snd'.rread = snd.rread
  <2>1. CASE snd' = snd
    BY <1>1, <2>1
  <2>2. CASE snd' = [snd EXCEPT !.off = @ + n, !.slen = @ - n]
    <3>1. snd.off + n \in Nat /\ snd.slen - n \in 0..BufSize
      BY <1>1, <1>3, Numbers
    <3>2. /\ snd' \in Block /\ snd'.off = snd.off + n /\ snd'.slen = snd.slen - n
          /\ snd'.rcvd = snd.rcvd /\ snd'.rread = snd.rread
      BY <1>1, <2>2, <3>1 DEF Block
    <3> QED
      BY <1>1, <1>3, <3>2
  <2> QED
    BY <2>1, <2>2 DEF AckDiscard, n
<1>5. acking' \in Seq(Segment) /\ acks' \in Seq(Segment)
  BY <1>1 DEF AckDiscard, Inv, TypeInv
<1> QED
  BY <1>1, <1>4, <1>5 DEF AckDiscard, Inv, TypeInv, Written

\* SND.UNA and SND.WND come from a segment.
LEMMA TypeAckStore == ASSUME Inv, ~ torn, AckStore PROVE TypeInv'
<1> DEFINE p == acking[1]
<1>1. snd \in Block /\ p \in Segment /\ p.ack \in SeqNum /\ p.wnd \in 0..BufSize /\ snd.una \in SeqNum
  BY BlockFields, SegmentFields DEF Inv, TypeInv, AckStore
<1>2. PICK u \in SeqNum : snd' = [snd EXCEPT !.una = u, !.wnd = p.wnd]
  BY <1>1 DEF AckStore
<1>3. /\ snd' \in Block /\ snd'.off = snd.off /\ snd'.slen = snd.slen
      /\ snd'.rcvd = snd.rcvd /\ snd'.rread = snd.rread
  BY <1>1, <1>2 DEF Block
<1>4. pump' \in [Pump -> Places] /\ dirty' \in BOOLEAN
  BY BuiltTypes DEF AckStore, Inv, TypeInv, MorePending
<1> QED
  BY <1>3, <1>4 DEF AckStore, Inv, TypeInv, Written

\* SND.NXT and SND.WND come from the FIN.
LEMMA TypePeerFin == ASSUME Inv, ~ torn, PeerFin PROVE TypeInv'
<1> DEFINE p == Head(acks)
<1>1. /\ snd \in Block /\ p \in Segment /\ p.ack \in SeqNum /\ p.wnd \in 0..BufSize
      /\ p.seq \in SeqNum /\ Tail(acks) \in Seq(Segment)
  BY SegmentFields DEF Inv, TypeInv, PeerFin
<1>3. /\ snd' \in Block /\ snd'.off = snd.off /\ snd'.slen = snd.slen
      /\ snd'.rcvd = snd.rcvd /\ snd'.rread = snd.rread
  <2>1. CASE snd' = snd
    BY <1>1, <2>1
  <2>2. CASE snd' = PeerClosed(snd, p)
    BY <1>1, <2>2, PeerClosedSets
  <2> QED
    BY <2>1, <2>2 DEF PeerFin
<1> QED
  BY <1>1, <1>3 DEF PeerFin, Inv, TypeInv, Written

\* The payload counted comes from a segment.
LEMMA TypeReceive == ASSUME Inv, ~ torn, Receive PROVE TypeInv'
<1> DEFINE d == Head(data)
<1>1. /\ d \in Segment /\ Tail(data) \in Seq(Segment)
      /\ d.data \in Seq(1..MaxWrite) /\ Len(d.data) \in Nat
  <2>1. d \in Segment /\ Tail(data) \in Seq(Segment)
    BY DEF Receive, Inv, TypeInv
  <2> QED
    BY <2>1, SegmentFields
<1>2. /\ rcv' \in Block /\ rcv'.rcvd = rcv.rcvd /\ rcv'.rread = rcv.rread
      /\ pending' \in Seq(1..MaxWrite)
  <2>1. CASE Open
    <3>1. rcv \in Block /\ rcv.rnxt \in SeqNum
      BY BlockFields DEF Inv, TypeInv
    <3>2. Add(rcv.rnxt, Len(d.data)) \in SeqNum
      BY <1>1, <3>1, BuiltTypes DEF Inv
    <3>3. rcv' = [rcv EXCEPT !.rnxt = Add(rcv.rnxt, Len(d.data))] /\ pending' = d.data
      BY <2>1 DEF Receive, Counted, Open
    <3> QED
      BY <1>1, <3>1, <3>2, <3>3 DEF Block
  <2>2. CASE ~ Open
    BY <2>2 DEF Receive, Open, Inv, TypeInv
  <2> QED
    BY <2>1, <2>2
<1> QED
  BY <1>1, <1>2 DEF Receive, Inv, TypeInv, Written

\* The payload that was counted is stored whole.
LEMMA StoredWhole ==
  ASSUME Inv, ~ torn, StorePayload
  PROVE  /\ rcv' \in Block /\ rcv'.rcvd = rcv.rcvd \o pending
         /\ Len(rcv'.rcvd) = Len(rcv.rcvd) + Len(pending)
         /\ rcv'.rread = rcv.rread /\ rcv'.rnxt = rcv.rnxt /\ rcv'.state = rcv.state
         /\ rcv'.nxt = rcv.nxt
<1>1. /\ rcv \in Block /\ rcv.rcvd \in Seq(1..MaxWrite) /\ pending \in Seq(1..MaxWrite)
      /\ Len(rcv.rcvd) \in Nat /\ Len(pending) \in Nat /\ rcv.rread \in Nat
  BY BlockFields DEF Inv, TypeInv
<1>2. Len(rcv.rcvd) + Len(pending) <= rcv.rread + BufSize
  BY DEF Inv, Core, ReceiverInv, Got, Edge
<1>3. Lesser(Len(pending), FreeWnd(rcv)) = Len(pending)
  BY <1>1, <1>2, Numbers DEF Lesser, FreeWnd, Buffered
<1>4. SubSeq(pending, 1, Len(pending)) = pending
  BY <1>1
<1>5. rcv' = [rcv EXCEPT !.rcvd = rcv.rcvd \o pending]
  BY <1>3, <1>4 DEF StorePayload, Stored
<1>6. /\ rcv.rcvd \o pending \in Seq(1..MaxWrite)
      /\ Len(rcv.rcvd \o pending) = Len(rcv.rcvd) + Len(pending)
  BY <1>1
<1> QED
  BY <1>1, <1>5, <1>6 DEF Block

\* The window advertised after storing is one.
LEMMA TypeStorePayload == ASSUME Inv, ~ torn, StorePayload PROVE TypeInv'
<1>1. /\ rcv' \in Block /\ Len(rcv'.rcvd) = Len(rcv.rcvd) + Len(pending)
      /\ rcv'.rread = rcv.rread /\ rcv'.rnxt = rcv.rnxt /\ rcv'.nxt = rcv.nxt
  BY StoredWhole
<1>2. rcv.rread \in Nat /\ Len(rcv.rcvd) \in Nat /\ Len(pending) \in Nat /\ rcv.rread <= Len(rcv.rcvd)
      /\ Len(rcv.rcvd) + Len(pending) <= rcv.rread + BufSize
  BY BlockFields DEF Inv, TypeInv, Core, ReceiverInv, Got, Edge
<1>3. FreeWnd(rcv') \in 0..BufSize
  BY <1>1, <1>2, Numbers DEF FreeWnd, Buffered
<1>4. Control(rcv', {"ACK"}, rcv'.nxt, rcv'.rnxt) \in Segment
  <2>1. /\ rcv'.src \in Addr /\ rcv'.dst \in Addr /\ rcv'.nxt \in SeqNum /\ rcv'.rnxt \in SeqNum
        /\ <<>> \in Seq(1..MaxWrite)
    BY <1>1, BlockFields
  <2> QED
    BY <1>3, <2>1 DEF Control, Packet, Segment
<1>5. acks' = Append(acks, Control(rcv', {"ACK"}, rcv'.nxt, rcv'.rnxt))
  BY DEF StorePayload
<1>6. acks' \in Seq(Segment) /\ pending' = <<>> /\ rcv'.rread <= Len(rcv'.rcvd)
  BY <1>1, <1>2, <1>4, <1>5 DEF StorePayload, Inv, TypeInv
<1> QED
  BY <1>1, <1>6 DEF StorePayload, Inv, TypeInv, Written

\* No more is read than was stored.
LEMMA TypeRecv == ASSUME Inv, ~ torn, recv PROVE TypeInv'
<1>1. PICK n \in 1 .. Buffered(rcv) : rcv' = [rcv EXCEPT !.rread = @ + n]
  BY DEF recv
<1>2. rcv \in Block /\ rcv.rread \in Nat /\ Len(rcv.rcvd) \in Nat
  BY BlockFields DEF Inv, TypeInv
<1>3. rcv.rread + n \in Nat /\ rcv.rread + n <= Len(rcv.rcvd)
  BY <1>2 DEF Buffered
<1>4. rcv' \in Block /\ rcv'.rcvd = rcv.rcvd /\ rcv'.rread = rcv.rread + n
  BY <1>1, <1>2, <1>3 DEF Block
<1> QED
  BY <1>3, <1>4 DEF recv, Inv, TypeInv, Written

\* The other steps of the receiving end append an ACK or a FIN, or nothing.
LEMMA TypeReplies ==
  ASSUME Inv, ~ torn, Piggyback \/ HangupFlush \/ HangupFin
  PROVE  TypeInv'
<1>1. rcv \in Block /\ rcv.nxt \in SeqNum /\ rcv.rnxt \in SeqNum
  BY BlockFields DEF Inv, TypeInv
<1>2. /\ Control(rcv, {"ACK"}, rcv.nxt, rcv.rnxt) \in Segment
      /\ Control(rcv, {"FIN", "ACK"}, rcv.nxt, rcv.rnxt) \in Segment
  BY <1>1, ControlType DEF Inv, Core, ReceiverInv
<1>3. CASE Piggyback
  BY <1>2, <1>3 DEF Piggyback, Inv, TypeInv, Written
<1>4. CASE HangupFlush
  <2>0. acks' = acks \/ acks' = Append(acks, Control(rcv, {"ACK"}, rcv.nxt, rcv.rnxt))
    BY <1>4 DEF HangupFlush
  <2>3. acks \in Seq(Segment) /\ hangup' \in {"no", "flushed", "done"}
    BY <1>4 DEF HangupFlush, Inv, TypeInv
  <2>1. acks' \in Seq(Segment)
    BY <1>2, <2>0, <2>3
  <2>2. torn' \in BOOLEAN
    BY <1>4 DEF HangupFlush, Inv, TypeInv
  <2> QED
    BY <1>4, <2>1, <2>2, <2>3 DEF HangupFlush, Inv, TypeInv, Written
<1>5. CASE HangupFin
  <2>1. rcv' \in Block /\ rcv'.rcvd = rcv.rcvd /\ rcv'.rread = rcv.rread
    BY <1>1, <1>5, ClosingKeeps DEF HangupFin
  <2> QED
    BY <1>2, <1>5, <2>1 DEF HangupFin, Inv, TypeInv, Written
<1> QED
  BY <1>3, <1>4, <1>5

\* No step leaves the types.
LEMMA TypeNext == ASSUME Inv, [Next]_vars PROVE TypeInv'
<1>1. CASE UNCHANGED vars
  BY <1>1 DEF vars, Inv, TypeInv, Written
<1>2. ASSUME ~ torn, NEW p \in Pump, Sending(p) PROVE TypeInv'
  BY <1>2, TypeLook, TypePeek, TypeEmit DEF Sending
<1> QED
  BY <1>1, <1>2, TypeSend, TypeMark, TypeAckDiscard, TypeAckStore, TypePeerFin, TypeReceive,
     TypeStorePayload, TypeRecv, TypeReplies DEF Next, Acking, Receiving
-----------------------------------------------------------------------------
(* The core.                                                                *)

\* The numbers the invariant speaks of.
NumsOK ==
    /\ snd.off \in Nat /\ snd.slen \in Nat /\ snd.wnd \in Nat
    /\ Sent \in Nat /\ snd.off <= Sent /\ Sent = Pos(snd.nxt)
    /\ Len(rcv.rcvd) \in Nat /\ Len(pending) \in Nat /\ rcv.rread \in Nat
    /\ Got \in Nat /\ Edge \in Nat /\ Written \in Nat
    /\ Got = Len(rcv.rcvd) + Len(pending) /\ Edge = rcv.rread + BufSize
    /\ Written = snd.off + snd.slen

\* They are natural numbers, in the order given, whenever the types hold.
LEMMA Nums == TypeInv => NumsOK
<1> SUFFICES ASSUME TypeInv PROVE NumsOK
  OBVIOUS
<1>1. /\ snd.off \in Nat /\ snd.slen \in Nat /\ snd.wnd \in Nat /\ snd.nxt \in SeqNum
      /\ Len(rcv.rcvd) \in Nat /\ Len(pending) \in Nat /\ rcv.rread \in Nat
  BY BlockFields, Numbers DEF TypeInv
<1>2. Pos(snd.nxt) \in Nat /\ snd.off <= Pos(snd.nxt)
  BY <1>1, PosFacts
<1> QED
  BY <1>1, <1>2, Numbers DEF NumsOK, Got, Edge, Written, Sent

\* The same in the next state.
LEMMA NumsNext == TypeInv' => NumsOK'
  BY Nums, PTL
\* What a step that leaves the positions alone need not look at again.
LEMMA SentKept == snd'.off = snd.off /\ snd'.nxt = snd.nxt => Sent' = Sent
  BY DEF Sent, Pos

\* The segments under way are as they were when neither end moves.
LEMMA DataKept ==
  ASSUME DataInv, UNCHANGED data, Open' => Open, Got' = Got, Sent' = Sent
  PROVE  DataInv'
  BY DEF DataInv, Lo, Hi

\* The ACKs under way stay good while the receiver only moves on.
LEMMA AckKept ==
  ASSUME TypeInv, TypeInv', AckInv, UNCHANGED acks, snd'.off = snd.off,
         Open' => Open, Got' >= Got, Got' # Got => Open,
         Len(rcv'.rcvd) >= Len(rcv.rcvd), Edge' >= Edge
  PROVE  AckInv'
<1>1. \A j \in 1..Len(acks) : acks[j].ack \in SeqNum /\ acks[j].wnd \in Nat
  BY SegmentFields, Numbers DEF TypeInv
<1>2. \A j \in 1..Len(acks) : AckAt(j)' = AckAt(j) /\ AckAt(j) \in Nat
  BY <1>1, PosFacts, PosKept DEF AckAt
<1>3. /\ Got \in Nat /\ Got' \in Nat /\ Edge \in Nat /\ Edge' \in Nat
      /\ Len(rcv.rcvd) \in Nat /\ Len(rcv'.rcvd) \in Nat
  BY Nums, NumsNext DEF NumsOK
<1>4. ASSUME NEW j \in 1..Len(acks)
      PROVE  /\ AckAt(j)' <= Got'
             /\ IF Has(acks[j], "FIN") THEN AckAt(j)' = Got' /\ ~ Open'
                ELSE AckAt(j)' <= Len(rcv'.rcvd)
             /\ Open' => AckAt(j)' + acks[j].wnd <= Edge'
  <2>1. /\ AckAt(j) <= Got
        /\ IF Has(acks[j], "FIN") THEN AckAt(j) = Got /\ ~ Open
           ELSE AckAt(j) <= Len(rcv.rcvd)
        /\ Open => AckAt(j) + acks[j].wnd <= Edge
    BY DEF AckInv
  <2> QED
    BY <1>1, <1>2, <1>3, <2>1
<1>5. \A j, k \in 1..Len(acks) : j <= k => AckAt(j)' <= AckAt(k)'
  BY <1>2 DEF AckInv
<1> QED
  BY <1>4, <1>5 DEF AckInv

\* A segment about to go out stays good while SND.NXT stays and the buffer
\* grows.
LEMMA EmitKept ==
  ASSUME TypeInv, TypeInv', NEW p \in Pump, EmitInv(p), pump'[p] = pump[p],
         snd'.off = snd.off, snd'.nxt = snd.nxt,
         Open' => Open, Edge' >= Edge, Written' >= Written
  PROVE  EmitInv(p)'
<1>1. /\ pump[p].seq \in SeqNum /\ Len(pump[p].bytes) \in Nat
  BY PlaceFields DEF TypeInv
<1>2. SeqAt(p)' = SeqAt(p) /\ SeqAt(p) \in Nat /\ Sent' = Sent
  BY <1>1, PosFacts, PosKept, SentKept DEF SeqAt
<1>3. NumsOK /\ NumsOK'
  BY Nums, NumsNext
<1>4. Sent \in Nat /\ Edge \in Nat /\ Edge' \in Nat /\ Written \in Nat /\ Written' \in Nat
  BY <1>3 DEF NumsOK
<1> SUFFICES ASSUME pump'[p].at = "emit" PROVE EmitInv(p)'
  BY DEF EmitInv
<1>5. /\ Len(pump[p].bytes) >= 1
      /\ Sent <= SeqAt(p)
      /\ SeqAt(p) + Len(pump[p].bytes) <= Written
  BY DEF EmitInv
<1>6. Open => /\ pump[p].seq = snd.nxt
              /\ pump[p].bytes = Run(Sent, Len(pump[p].bytes))
              /\ Sent + Len(pump[p].bytes) <= Edge
  BY DEF EmitInv
<1>7. /\ Len(pump'[p].bytes) >= 1
      /\ Sent' <= SeqAt(p)'
      /\ SeqAt(p)' + Len(pump'[p].bytes) <= Written'
  BY <1>1, <1>2, <1>4, <1>5
<1>8. Open' => /\ pump'[p].seq = snd'.nxt
               /\ pump'[p].bytes = Run(Sent', Len(pump'[p].bytes))
               /\ Sent' + Len(pump'[p].bytes) <= Edge'
  BY <1>1, <1>2, <1>4, <1>6
<1> QED
  BY <1>7, <1>8 DEF EmitInv

\* A write leaves every position alone but the last.
LEMMA CoreSend == ASSUME Inv, ~ torn, send PROVE Core'
<1>0. TypeInv /\ TypeInv' /\ Core /\ NumsOK /\ NumsOK'
  BY TypeSend, Nums, NumsNext DEF Inv
<1>1. PICK n \in 1 .. Lesser(BufSize - snd.slen, MaxWrite - Written) :
        snd' = [snd EXCEPT !.slen = @ + n]
  BY DEF send
<1>2. /\ snd'.off = snd.off /\ snd'.nxt = snd.nxt /\ snd'.una = snd.una /\ snd'.wnd = snd.wnd
      /\ snd'.slen >= snd.slen
  <2>1. snd \in Block /\ n \in Nat
    BY <1>0, Numbers DEF TypeInv, NumsOK, Lesser
  <2>2. snd'.slen = snd.slen + n
    BY <1>1, <2>1 DEF Block
  <2> QED
    BY <1>0, <1>1, <2>1, <2>2 DEF Block, NumsOK
<1>3. UNCHANGED <<rcv, pump, acking, data, acks, pending>> /\ pump["closer"].at = "out"
  BY DEF send
<1>4. Sent' = Sent /\ Got' = Got /\ Edge' = Edge /\ Open' = Open /\ Written' >= Written
  BY <1>0, <1>2, <1>3, SentKept DEF Got, Edge, Open, NumsOK
<1>5. SenderInv' /\ ReceiverInv' /\ WindowInv'
  BY <1>0, <1>2, <1>3, <1>4 DEF Core, SenderInv, ReceiverInv, WindowInv, NumsOK
<1>6. PumpInv'
  <2>1. \A p \in Pump : EmitInv(p)'
    BY <1>0, <1>2, <1>3, <1>4, EmitKept DEF Core, PumpInv, NumsOK
  <2> QED
    BY <1>0, <1>2, <1>3, <1>4, <2>1 DEF Core, PumpInv, Fresh, Quiet, Mid
<1>7. DataInv' /\ AckInv'
  BY <1>0, <1>2, <1>3, <1>4, DataKept, AckKept DEF Core, NumsOK
<1> QED
  BY <1>5, <1>6, <1>7 DEF Core
\* No thread is about to send while there is nothing unsent.
LEMMA NothingToEmit ==
  ASSUME TypeInv, PumpInv, NEW p \in Pump, Written <= Sent
  PROVE  pump[p].at # "emit"
<1>1. /\ pump[p].seq \in SeqNum /\ Len(pump[p].bytes) \in Nat
  BY PlaceFields DEF TypeInv
<1>2. SeqAt(p) \in Nat /\ Sent \in Nat /\ Written \in Nat
  BY <1>1, PosFacts, Nums DEF SeqAt, NumsOK
<1>3. ASSUME pump[p].at = "emit"
      PROVE  /\ Len(pump[p].bytes) >= 1 /\ Sent <= SeqAt(p)
             /\ SeqAt(p) + Len(pump[p].bytes) <= Written
  BY <1>3 DEF PumpInv, EmitInv
<1> QED
  BY <1>1, <1>2, <1>3

\* What process_block_ reads before it copies.
LEMMA LookedIs ==
  ASSUME TypeInv, NEW p \in Pump
  PROVE  /\ Looked(p) \in Places
         /\ Looked(p).at # "emit"
         /\ Looked(p).at = "peek" => /\ Looked(p).flight = InFlight(snd)
                                     /\ Looked(p).room + InFlight(snd) <= snd.wnd
<1> DEFINE u == IF snd.wnd > InFlight(snd) THEN snd.wnd - InFlight(snd) ELSE 0
           q == [Place("peek") EXCEPT !.flight = InFlight(snd), !.room = Lesser(u, MSS)]
<1>1. InFlight(snd) \in SeqNum /\ InFlight(snd) \in Nat /\ snd.wnd \in Nat
  BY BuiltTypes, BlockFields, Numbers DEF TypeInv, InFlight
<1>2. u \in Nat /\ Lesser(u, MSS) \in 0..MSS /\ Lesser(u, MSS) <= u
      /\ (u # 0 => u + InFlight(snd) = snd.wnd)
  BY <1>1, Numbers DEF Lesser
<1> HIDE DEF u
<1>3. q \in Places /\ q.at = "peek" /\ q.flight = InFlight(snd) /\ q.room = Lesser(u, MSS)
  <2>1. /\ Place("peek") \in Places /\ Place("peek").at = "peek" /\ <<>> \in Seq(1..MaxWrite)
        /\ 0 \in SeqNum
    BY BuiltTypes, Numbers DEF Place
  <2>2. q \in Places
    BY <1>1, <1>2, <2>1, PlaceSet
  <2>3. q.at = Place("peek").at /\ q.flight = InFlight(snd) /\ q.room = Lesser(u, MSS)
    BY <2>1 DEF Places
  <2> QED
    BY <2>1, <2>2, <2>3
<1>4. Looked(p) = IF u = 0 THEN Leave(p) ELSE q
  BY DEF Looked, u
<1> HIDE DEF q
<1>5. Leave(p) \in Places /\ Leave(p).at \in {"out", "mark"}
  BY BuiltTypes DEF Leave, Place
<1> QED
  BY <1>1, <1>2, <1>3, <1>4, <1>5

\* A thread that begins process_block_ reads a window that is current, or is
\* alone with a block that has nothing to copy.
LEMMA CoreLook == ASSUME Inv, ~ torn, ~ torn', NEW p \in Pump, Look(p) PROVE Core'
<1>0. TypeInv /\ TypeInv' /\ Core /\ NumsOK /\ NumsOK'
  BY TypeLook, Nums, NumsNext DEF Inv
<1>n. /\ snd.off \in Nat /\ snd.slen \in Nat /\ snd.wnd \in Nat /\ Sent \in Nat
      /\ Edge \in Nat /\ Written = snd.off + snd.slen /\ InFlight(snd) \in Nat
      /\ pump["daemon"].flight \in Nat /\ pump["closer"].flight \in Nat
  <2>1. InFlight(snd) \in Nat
    BY <1>0, BuiltTypes, BlockFields, Numbers DEF TypeInv, InFlight
  <2>2. pump["daemon"].flight \in Nat /\ pump["closer"].flight \in Nat
    BY <1>0, PlaceFields, Numbers DEF TypeInv, Pump
  <2> QED
    BY <1>0, <2>1, <2>2 DEF NumsOK
<1>1. /\ UNCHANGED <<snd, rcv, acking, data, acks, pending>>
      /\ pump' = [pump EXCEPT ![p] = Looked(p)]
  BY DEF Look
<1>2. Sent' = Sent /\ Got' = Got /\ Edge' = Edge /\ Open' = Open /\ Written' = Written
  BY <1>0, <1>1, SentKept DEF Got, Edge, Open, Written
<1>3. /\ "daemon" \in Pump /\ "closer" \in Pump /\ pump'[p] = Looked(p)
      /\ \A q \in Pump \ {p} : pump'[q] = pump[q]
      /\ p = "daemon" => acking = <<>>
      /\ p \in {"daemon", "closer"}
  BY <1>0, <1>1 DEF Pump, TypeInv, Look, DaemonFree
<1>4. Looked(p).flight \in Nat /\ Looked(p).room \in Nat
  BY <1>0, LookedIs, PlaceFields, Numbers
<1>5. acking = <<>> => InFlight(snd) = Sent - snd.off
  BY <1>0, InFlightIs DEF Core
<1>6. SenderInv' /\ ReceiverInv' /\ WindowInv'
  <2>1. acking # <<>> => pump'["daemon"].at = "out"
    BY <1>0, <1>3 DEF Core, SenderInv
  <2> QED
    BY <1>0, <1>1, <1>2, <2>1 DEF Core, SenderInv, ReceiverInv, WindowInv
<1>7. PumpInv'
  <2>1. \A q \in Pump : EmitInv(q)'
    <3>1. EmitInv(p)'
      BY <1>0, <1>3, LookedIs DEF EmitInv
    <3>2. ASSUME NEW q \in Pump \ {p} PROVE EmitInv(q)'
      BY <1>0, <1>1, <1>2, <1>3, EmitKept DEF Core, PumpInv, NumsOK
    <3> QED
      BY <3>1, <3>2
  <2>2. pump'[p].at = "peek" /\ acking = <<>> => Fresh(p)'
    <3> SUFFICES ASSUME pump'[p].at = "peek", acking = <<>> PROVE Fresh(p)'
      OBVIOUS
    <3>1. Looked(p).flight = Sent - snd.off /\ Looked(p).room + (Sent - snd.off) <= snd.wnd
      BY <1>0, <1>3, <1>5, LookedIs
    <3>2. Open => snd.off + snd.wnd <= Edge
      BY <1>0 DEF Core, WindowInv
    <3>3. Sent = snd.off + Looked(p).flight
      BY <1>n, <3>1
    <3>4. Open => Sent + Looked(p).room <= Edge
      BY <1>n, <1>4, <3>1, <3>2
    <3> QED
      BY <1>1, <1>2, <1>3, <3>3, <3>4 DEF Fresh
  <2>3. p = "daemon" /\ Mid("closer") => Written <= Sent
    <3>1. p = "daemon" /\ Mid("closer") => ~ (snd.slen > InFlight(snd))
      BY Zenon DEF Look, Disturbs
    <3> QED
      BY <1>n, <1>3, <1>5, <3>1
  <2>4. p = "closer" /\ (Mid("daemon") \/ acking # <<>>) => snd.slen <= InFlight(snd)
    <3>1. p = "closer" /\ (Mid("daemon") \/ acking # <<>>) => ~ (snd.slen > InFlight(snd))
      BY Zenon DEF Look, Disturbs
    <3> QED
      BY <1>n, <3>1
  <2>5. pump'["daemon"].at = "peek" => Fresh("daemon")'
    BY <1>0, <1>1, <1>2, <1>3, <2>2 DEF Core, PumpInv, Fresh
  <2>6. pump'["closer"].at = "peek" =>
          (\/ Quiet("closer") \/ Fresh("closer")
           \/ ~ Open /\ Sent <= snd.off + pump["closer"].flight)'
    <3>1. CASE p = "closer" /\ acking = <<>>
      BY <2>2, <3>1
    <3>2. CASE p = "closer" /\ acking # <<>>
      BY <1>0, <1>1, <1>3, <2>4, <3>2, LookedIs DEF Quiet
    <3>3. CASE p = "daemon"
      BY <1>0, <1>1, <1>2, <1>3, <3>3 DEF Core, PumpInv, Fresh, Quiet
    <3> QED
      BY <1>3, <3>1, <3>2, <3>3
  <2>7. (Mid("daemon") /\ Mid("closer"))' => Quiet("daemon")' /\ Quiet("closer")'
    <3> SUFFICES ASSUME Mid("daemon")', Mid("closer")' PROVE Quiet("daemon")' /\ Quiet("closer")'
      OBVIOUS
    <3>2. CASE p = "daemon"
      <4>1. Mid("closer") /\ acking = <<>>
        BY <1>3, <3>2 DEF Mid
      <4>2. Written <= Sent
        BY <2>3, <3>2, <4>1
      <4>3. pump["closer"].at = "peek"
        BY <1>0, <1>3, <4>1, <4>2, NothingToEmit DEF Core, Mid
      <4>4. snd.slen <= pump["closer"].flight
        BY <1>0, <1>n, <4>2, <4>3 DEF Core, PumpInv, Quiet, Fresh
      <4>5. Looked(p).at = "peek" /\ Looked(p).flight = Sent - snd.off
        BY <1>0, <1>3, <1>5, <4>1, <3>2, LookedIs DEF Mid
      <4> QED
        BY <1>n, <1>1, <1>3, <3>2, <4>2, <4>3, <4>4, <4>5 DEF Quiet
    <3>3. CASE p = "closer"
      <4>1. Mid("daemon") /\ acking = <<>>
        BY <1>0, <1>3, <3>3 DEF Mid, Core, SenderInv
      <4>2. Written <= Sent
        BY <1>n, <1>5, <2>4, <3>3, <4>1
      <4>3. pump["daemon"].at = "peek"
        BY <1>0, <1>3, <4>1, <4>2, NothingToEmit DEF Core, Mid
      <4>4. snd.slen <= pump["daemon"].flight
        BY <1>0, <1>n, <4>2, <4>3 DEF Core, PumpInv, Fresh
      <4>5. Looked(p).at = "peek" /\ Looked(p).flight = Sent - snd.off
        BY <1>0, <1>3, <1>5, <4>1, <3>3, LookedIs DEF Mid
      <4> QED
        BY <1>n, <1>1, <1>3, <3>3, <4>2, <4>3, <4>4, <4>5 DEF Quiet
    <3> QED
      BY <1>3, <3>2, <3>3
  <2>8. (Mid("closer") /\ acking # <<>>)' => Quiet("closer")'
    <3>1. CASE p = "daemon"
      BY <1>1, <1>3, <3>1
    <3>2. CASE p = "closer"
      BY <1>0, <1>1, <1>3, <2>4, <3>2, LookedIs DEF Mid, Quiet
    <3> QED
      BY <1>3, <3>1, <3>2
  <2> QED
    BY <2>1, <2>5, <2>6, <2>7, <2>8 DEF PumpInv
<1>8. DataInv' /\ AckInv'
  BY <1>0, <1>1, <1>2, DataKept, AckKept DEF Core, NumsOK
<1> QED
  BY <1>6, <1>7, <1>8 DEF Core

\* A thread that leaves process_block_ holds nothing of the block.
LEMMA LeaveIs == \A p \in Pump : Leave(p).at \notin {"peek", "emit"}
                                 /\ (p = "daemon" => Leave(p).at = "out")
  BY DEF Leave, Place, Pump

\* The bytes copied begin at SND.NXT and end within the window.
LEMMA CorePeek == ASSUME Inv, ~ torn, NEW p \in Pump, Peek(p) PROVE Core'
<1> DEFINE n == IF pump[p].flight < snd.slen
                THEN Lesser(pump[p].room, snd.slen - pump[p].flight) ELSE 0
           b == Run(snd.off + pump[p].flight, n)
           q == [pump[p] EXCEPT !.at = "emit", !.bytes = b, !.seq = snd.nxt]
<1>0. TypeInv /\ TypeInv' /\ Core /\ NumsOK /\ NumsOK'
  BY TypePeek, Nums, NumsNext DEF Inv
<1>n. /\ snd.off \in Nat /\ snd.slen \in Nat /\ Sent \in Nat /\ Edge \in Nat
      /\ Written = snd.off + snd.slen /\ Sent = Pos(snd.nxt)
      /\ pump[p] \in Places /\ pump[p].flight \in Nat /\ pump[p].room \in Nat
  <2>1. pump[p] \in Places /\ pump[p].flight \in Nat /\ pump[p].room \in Nat
    BY <1>0, PlaceFields, Numbers DEF TypeInv
  <2> QED
    BY <1>0, <2>1 DEF NumsOK
<1>1. /\ UNCHANGED <<snd, rcv, acking, data, acks, pending>> /\ pump[p].at = "peek"
      /\ pump' = [pump EXCEPT ![p] = IF n = 0 THEN Leave(p) ELSE q]
  BY DEF Peek
<1>2. n \in Nat /\ (n # 0 => /\ n >= 1 /\ n <= pump[p].room
                             /\ pump[p].flight + n <= snd.slen /\ ~ Quiet(p))
  BY <1>n DEF Lesser, Quiet
<1>3. n # 0 => q.at = "emit" /\ q.bytes = b /\ q.seq = snd.nxt
  BY <1>n DEF Places
<1> HIDE DEF n, q
<1>4. Len(b) = n
  <2>1. snd.off + pump[p].flight \in Nat /\ n \in Nat
    BY <1>n, <1>2
  <2> QED
    BY <2>1, RunIs
<1>5. Sent' = Sent /\ Got' = Got /\ Edge' = Edge /\ Open' = Open /\ Written' = Written
  BY <1>0, <1>1, SentKept DEF Got, Edge, Open, Written
<1>6. /\ "daemon" \in Pump /\ "closer" \in Pump /\ p \in {"daemon", "closer"}
      /\ pump'[p] = IF n = 0 THEN Leave(p) ELSE q
      /\ \A r \in Pump \ {p} : pump'[r] = pump[r]
  BY <1>0, <1>1 DEF Pump, TypeInv
<1>7. SenderInv' /\ ReceiverInv' /\ WindowInv'
  <2>1. acking # <<>> => pump'["daemon"].at = "out"
    BY <1>0, <1>1, <1>6 DEF Core, SenderInv
  <2> QED
    BY <1>0, <1>1, <1>5, <2>1 DEF Core, SenderInv, ReceiverInv, WindowInv
<1>8. PumpInv'
  <2>1. n # 0 => /\ Sent <= snd.off + pump[p].flight
                 /\ Open => Fresh(p)
    <3>1. n # 0 => Fresh(p) \/ (~ Open /\ Sent <= snd.off + pump[p].flight)
      BY <1>0, <1>1, <1>2, <1>6 DEF Core, PumpInv
    <3> QED
      BY <1>n, <3>1 DEF Fresh
  <2>2. EmitInv(p)'
    <3>1. CASE n = 0
      BY <1>6, <3>1, LeaveIs DEF EmitInv
    <3>2. CASE n # 0
      <4>1. SeqAt(p)' = Sent /\ pump'[p].seq = snd.nxt /\ pump'[p].bytes = b
        BY <1>n, <1>1, <1>3, <1>5, <1>6, <3>2 DEF SeqAt, Sent
      <4>2. Len(pump'[p].bytes) = n /\ n >= 1 /\ Sent' <= SeqAt(p)' /\ SeqAt(p)' + n <= Written'
        BY <1>n, <1>2, <1>4, <1>5, <2>1, <3>2, <4>1
      <4>3. Open => b = Run(Sent, n) /\ Sent + n <= Edge
        BY <1>n, <1>2, <2>1, <3>2 DEF Fresh
      <4>4. Open' => /\ pump'[p].seq = snd'.nxt /\ pump'[p].bytes = Run(Sent', n)
                     /\ Sent' + n <= Edge'
        BY <1>1, <1>5, <4>1, <4>3
      <4> HIDE DEF b
      <4> QED
        BY <4>2, <4>4 DEF EmitInv
    <3> QED
      BY <3>1, <3>2
  <2>3. \A r \in Pump \ {p} : EmitInv(r)'
    BY <1>0, <1>1, <1>5, <1>6, EmitKept DEF Core, PumpInv, NumsOK
  <2>4. pump'[p].at # "peek"
    BY <1>3, <1>6, LeaveIs
  <2>5. pump'["daemon"].at = "peek" => Fresh("daemon")'
    BY <1>0, <1>1, <1>5, <1>6, <2>4 DEF Core, PumpInv, Fresh
  <2>6. pump'["closer"].at = "peek" =>
          (\/ Quiet("closer") \/ Fresh("closer")
           \/ ~ Open /\ Sent <= snd.off + pump["closer"].flight)'
    BY <1>0, <1>1, <1>5, <1>6, <2>4 DEF Core, PumpInv, Fresh, Quiet
  <2>7. ~ (Mid("daemon") /\ Mid("closer"))'
    <3>1. CASE n = 0
      BY <1>6, <3>1, LeaveIs DEF Mid
    <3>2. CASE n # 0
      BY <1>0, <1>1, <1>2, <1>6, <3>2 DEF Core, PumpInv, Mid
    <3> QED
      BY <3>1, <3>2
  <2>8. (Mid("closer") /\ acking # <<>>)' => Quiet("closer")'
    <3>1. CASE p = "closer"
      BY <1>0, <1>1, <1>2, <1>6, <3>1, LeaveIs DEF Core, PumpInv, Mid
    <3>2. CASE p = "daemon"
      BY <1>0, <1>1, <1>6, <3>2 DEF Core, SenderInv
    <3> QED
      BY <1>6, <3>1, <3>2
  <2> QED
    BY <2>2, <2>3, <2>5, <2>6, <2>7, <2>8 DEF PumpInv
<1>9. DataInv' /\ AckInv'
  BY <1>0, <1>1, <1>5, DataKept, AckKept DEF Core, NumsOK
<1> QED
  BY <1>7, <1>8, <1>9 DEF Core
\* SND.NXT after a segment: both outcomes of the race for it lie within what
\* was written, and while the receiver takes payload they are the same.
LEMMA EmitAdvances ==
  ASSUME Inv, ~ torn, NEW p \in Pump, Emit(p)
  PROVE  LET n == Len(pump[p].bytes) IN
         /\ n \in Nat /\ n >= 1 /\ snd'.off = snd.off /\ snd'.slen = snd.slen
         /\ snd'.una = snd.una /\ snd'.wnd = snd.wnd
         /\ Sent' >= Sent /\ Sent' <= Written
         /\ Open => /\ Sent' = Sent + n /\ Sent' <= Edge
                    /\ pump[p].bytes = Run(Sent, n)
<1> DEFINE n == Len(pump[p].bytes)
<1>0. TypeInv /\ TypeInv' /\ Core
  BY TypeEmit DEF Inv
<1>1. /\ snd \in Block /\ snd.nxt \in SeqNum /\ snd.off \in Nat /\ snd.slen \in 0..BufSize
      /\ pump[p].seq \in SeqNum /\ n \in Nat /\ pump[p].at = "emit"
      /\ Sent \in Nat /\ Sent >= snd.off /\ Written = snd.off + snd.slen
      /\ Sent = Pos(snd.nxt) /\ Edge \in Nat
  <2>1. /\ snd \in Block /\ snd.nxt \in SeqNum /\ snd.slen \in 0..BufSize
    BY <1>0, BlockFields DEF TypeInv
  <2>2. pump[p].seq \in SeqNum /\ n \in Nat
    BY <1>0, PlaceFields DEF TypeInv
  <2> QED
    BY <1>0, <2>1, <2>2, Nums DEF NumsOK, Emit
<1>2. SeqAt(p) \in Nat /\ SeqAt(p) >= snd.off
  BY <1>0, <1>1, PosFacts DEF SeqAt
<1>3. snd.nxt = SeqOf(Sent) /\ pump[p].seq = SeqOf(SeqAt(p))
  BY <1>0, <1>1, PosFacts DEF SeqAt
<1>4. n >= 1 /\ Sent <= SeqAt(p) /\ SeqAt(p) + n <= Written
  BY <1>0, <1>1 DEF Core, PumpInv, EmitInv
<1>5. Open => /\ pump[p].seq = snd.nxt /\ pump[p].bytes = Run(Sent, n) /\ Sent + n <= Edge
  BY <1>0, <1>1 DEF Core, PumpInv, EmitInv
<1> HIDE DEF n
<1>6. PICK a \in {Sent, SeqAt(p)} : snd' = [snd EXCEPT !.nxt = SeqOf(a + n)]
  <2>1. Add(snd.nxt, n) = SeqOf(Sent + n) /\ Add(pump[p].seq, n) = SeqOf(SeqAt(p) + n)
    <3>1. Sent \in Int /\ SeqAt(p) \in Int /\ n \in Int
      BY <1>1, <1>2
    <3>2. Add(SeqOf(Sent), n) = SeqOf(Sent + n)
      BY <3>1, AddSeqOf
    <3>3. Add(SeqOf(SeqAt(p)), n) = SeqOf(SeqAt(p) + n)
      BY <3>1, AddSeqOf
    <3> QED
      BY <1>3, <3>2, <3>3
  <2>2. \E x \in {Add(snd.nxt, n), Add(pump[p].seq, n)} : snd' = [snd EXCEPT !.nxt = x]
    BY DEF Emit, n
  <2> QED
    BY <2>1, <2>2
<1>7. /\ snd'.nxt = SeqOf(a + n) /\ snd'.off = snd.off /\ snd'.slen = snd.slen
      /\ snd'.una = snd.una /\ snd'.wnd = snd.wnd
  BY <1>1, <1>6 DEF Block
<1>8. a + n \in Int /\ a + n >= snd.off /\ a + n <= Written /\ a + n - snd.off < SeqMod
  BY <1>1, <1>2, <1>4, <1>6, SeqModType
<1>9. Sent' = a + n
  <2>1. Pos(SeqOf(a + n)) = a + n
    <3> DEFINE c == a + n
    <3>1. c \in Int /\ snd.off <= c /\ c - snd.off < SeqMod
      BY <1>1, <1>8
    <3> HIDE DEF c
    <3>2. Pos(SeqOf(c)) = c
      BY <1>0, <3>1, PosFacts
    <3> QED
      BY <3>2 DEF c
  <2>2. Sent' = Pos(SeqOf(a + n))
    BY <1>7 DEF Sent, Pos
  <2> QED
    BY <2>1, <2>2
<1>10. Open => a = Sent
  BY <1>1, <1>5, <1>6 DEF SeqAt
<1> QED
  BY <1>1, <1>2, <1>4, <1>5, <1>6, <1>7, <1>8, <1>9, <1>10 DEF n

\* The segment that goes out continues the ones under way.
LEMMA CoreEmit == ASSUME Inv, ~ torn, NEW p \in Pump, Emit(p) PROVE Core'
<1> DEFINE n == Len(pump[p].bytes)
           k == create_writer_tcp_packet_(snd, pump[p].bytes, pump[p].seq)
<1>0. TypeInv /\ TypeInv' /\ Core /\ NumsOK /\ NumsOK'
  BY TypeEmit, Nums, NumsNext DEF Inv
<1>1. /\ n \in Nat /\ n >= 1 /\ snd'.off = snd.off /\ snd'.slen = snd.slen
      /\ snd'.una = snd.una /\ snd'.wnd = snd.wnd
      /\ Sent' >= Sent /\ Sent' <= Written
      /\ Open => Sent' = Sent + n /\ Sent' <= Edge /\ pump[p].bytes = Run(Sent, n)
  BY EmitAdvances
<1>2. /\ UNCHANGED <<rcv, acking, acks, pending>> /\ pump[p].at = "emit"
      /\ pump' = [pump EXCEPT ![p] = Leave(p)] /\ data' = Append(data, k)
  BY DEF Emit
<1>3. Got' = Got /\ Edge' = Edge /\ Open' = Open /\ Written' = Written
  BY <1>1, <1>2 DEF Got, Edge, Open, Written
<1>4. /\ "daemon" \in Pump /\ "closer" \in Pump /\ p \in {"daemon", "closer"}
      /\ pump'[p] = Leave(p) /\ \A r \in Pump \ {p} : pump'[r] = pump[r]
  BY <1>0, <1>2 DEF Pump, TypeInv
<1>5. acking = <<>> /\ \A r \in Pump : pump'[r].at \notin {"peek", "emit"}
  <2>1. acking = <<>>
    BY <1>0, <1>2, <1>4 DEF Core, SenderInv, PumpInv, Mid, Quiet
  <2>2. \A r \in Pump \ {p} : ~ Mid(r)
    BY <1>0, <1>2, <1>4 DEF Core, PumpInv, Mid, Quiet, Pump
  <2> QED
    BY <1>4, <2>1, <2>2, LeaveIs DEF Mid
<1>6. SenderInv' /\ ReceiverInv' /\ WindowInv'
  BY <1>0, <1>1, <1>2, <1>3, <1>5 DEF Core, SenderInv, ReceiverInv, WindowInv, NumsOK
<1>7. PumpInv'
  BY <1>4, <1>5 DEF PumpInv, EmitInv, Mid
<1>8. DataInv'
  <2> SUFFICES ASSUME Open PROVE DataInv'
    BY <1>3 DEF DataInv
  <2>1. k.data = Run(Sent, n) /\ Len(k.data) = n /\ Sent \in Nat
    BY <1>0, <1>1 DEF create_writer_tcp_packet_, Packet, NumsOK
  <2>2. k.data[1] = Sent + 1
    <3>1. 1 \in 1..n
      BY <1>1
    <3>2. Run(Sent, n)[1] = Sent + 1
      BY <1>1, <2>1, <3>1, RunIs
    <3> QED
      BY <2>1, <3>2
  <2>3. Lo(k) = Sent /\ Hi(k) = Sent' /\ k.data # <<>>
    BY <1>1, <2>1, <2>2 DEF Lo, Hi
  <2> HIDE DEF k
  <2>4. /\ Len(data') = Len(data) + 1 /\ data'[Len(data) + 1] = k /\ Len(data) \in Nat
        /\ \A j \in 1..Len(data) : data'[j] = data[j]
    BY <1>0, <1>2 DEF TypeInv
  <2>5. \A j \in 1..Len(data) : /\ data[j].data # <<>>
                                /\ data[j].data = Run(Lo(data[j]), Len(data[j].data))
                                /\ Hi(data[j]) <= Sent
    BY <1>0 DEF Core, DataInv
  <2>6. \A j \in 1..Len(data) : Hi(data[j]) \in Int
    <3> SUFFICES ASSUME NEW j \in 1..Len(data) PROVE Hi(data[j]) \in Int
      OBVIOUS
    <3>1. data[j] \in Segment
      BY <1>0 DEF TypeInv
    <3>2. data[j].data \in Seq(1..MaxWrite) /\ data[j].data # <<>>
      BY <2>5, <3>1, SegmentFields
    <3> QED
      BY <3>2, Numbers DEF Hi, Lo
  <2>7. \A j \in 1..Len(data') : /\ data'[j].data # <<>>
                                 /\ data'[j].data = Run(Lo(data'[j]), Len(data'[j].data))
                                 /\ Hi(data'[j]) <= Sent'
    <3> SUFFICES ASSUME NEW j \in 1..Len(data')
                 PROVE  /\ data'[j].data # <<>>
                        /\ data'[j].data = Run(Lo(data'[j]), Len(data'[j].data))
                        /\ Hi(data'[j]) <= Sent'
      OBVIOUS
    <3>0. Sent \in Int /\ Sent' \in Int
      BY <1>0 DEF NumsOK
    <3>1. CASE j = Len(data) + 1
      BY <2>1, <2>3, <2>4, <3>0, <3>1
    <3>2. CASE j \in 1..Len(data)
      <4>1. data'[j] = data[j] /\ Hi(data[j]) \in Int /\ Hi(data[j]) <= Sent
        BY <2>4, <2>5, <2>6, <3>2
      <4> QED
        BY <1>1, <2>5, <3>0, <3>2, <4>1
    <3> QED
      BY <2>4, <3>1, <3>2
  <2>8. \A j \in 1..Len(data') - 1 : Lo(data'[j + 1]) = Hi(data'[j])
    <3> SUFFICES ASSUME NEW j \in 1..Len(data') - 1 PROVE Lo(data'[j + 1]) = Hi(data'[j])
      OBVIOUS
    <3>1. CASE j = Len(data)
      BY <1>0, <2>3, <2>4, <3>1 DEF Core, DataInv
    <3>2. CASE j \in 1..Len(data) - 1
      BY <1>0, <2>4, <3>2 DEF Core, DataInv
    <3> QED
      BY <2>4, <3>1, <3>2
  <2>9. data' # <<>> /\ Lo(data'[1]) = Got' /\ Hi(data'[Len(data')]) = Sent'
    <3>1. CASE data = <<>>
      BY <1>0, <1>3, <2>3, <2>4, <3>1 DEF Core, DataInv
    <3>2. CASE data # <<>>
      BY <1>0, <1>3, <2>3, <2>4, <3>2 DEF Core, DataInv, TypeInv
    <3> QED
      BY <3>1, <3>2
  <2> QED
    BY <2>7, <2>8, <2>9 DEF DataInv, Lo, Hi
<1>9. AckInv'
  BY <1>0, <1>1, <1>2, <1>3, AckKept DEF Core, NumsOK
<1> QED
  BY <1>6, <1>7, <1>8, <1>9 DEF Core

\* The state of the sender is of no concern to its positions.
LEMMA CoreMark == ASSUME Inv, ~ torn, Mark PROVE Core'
<1>0. TypeInv /\ TypeInv' /\ Core /\ NumsOK /\ NumsOK'
  BY TypeMark, Nums, NumsNext DEF Inv
<1>1. /\ snd'.off = snd.off /\ snd'.slen = snd.slen /\ snd'.una = snd.una
      /\ snd'.nxt = snd.nxt /\ snd'.wnd = snd.wnd
  BY <1>0, ClosingKeeps DEF Mark, TypeInv
<1>2. /\ UNCHANGED <<rcv, acking, data, acks, pending>>
      /\ pump' = [pump EXCEPT !["closer"] = Place("done")]
  BY DEF Mark
<1>3. Sent' = Sent /\ Got' = Got /\ Edge' = Edge /\ Open' = Open /\ Written' = Written
  BY <1>1, <1>2, SentKept DEF Got, Edge, Open, Written
<1>4. /\ "daemon" \in Pump /\ "closer" \in Pump /\ pump'["closer"].at = "done"
      /\ pump'["daemon"] = pump["daemon"]
  BY <1>0, <1>2 DEF Pump, TypeInv, Place
<1>5. SenderInv' /\ ReceiverInv' /\ WindowInv'
  BY <1>0, <1>1, <1>2, <1>3, <1>4 DEF Core, SenderInv, ReceiverInv, WindowInv
<1>6. PumpInv'
  <2>1. EmitInv("daemon")'
    BY <1>0, <1>1, <1>3, <1>4, EmitKept DEF Core, PumpInv, NumsOK
  <2>2. EmitInv("closer")'
    BY <1>4 DEF EmitInv
  <2> QED
    BY <1>0, <1>1, <1>3, <1>4, <2>1, <2>2 DEF Core, PumpInv, Fresh, Mid, Pump
<1>7. DataInv' /\ AckInv'
  BY <1>0, <1>1, <1>2, <1>3, DataKept, AckKept DEF Core, NumsOK
<1> QED
  BY <1>5, <1>6, <1>7 DEF Core
\* The ACKs under way have positions within the send buffer.
LEMMA AckPlaces ==
  ASSUME TypeInv, Core
  PROVE  \A j \in 1..Len(acks) :
           /\ acks[j] \in Segment /\ acks[j].ack \in SeqNum /\ acks[j].wnd \in Nat
           /\ AckAt(j) \in Nat /\ snd.off <= AckAt(j) /\ acks[j].ack = SeqOf(AckAt(j))
           /\ AckAt(j) <= Got /\ AckAt(j) <= Written /\ AckAt(j) <= Sent
<1> SUFFICES ASSUME NEW j \in 1..Len(acks)
             PROVE  /\ acks[j] \in Segment /\ acks[j].ack \in SeqNum /\ acks[j].wnd \in Nat
                    /\ AckAt(j) \in Nat /\ snd.off <= AckAt(j) /\ acks[j].ack = SeqOf(AckAt(j))
                    /\ AckAt(j) <= Got /\ AckAt(j) <= Written /\ AckAt(j) <= Sent
  OBVIOUS
<1>1. acks[j] \in Segment /\ acks[j].ack \in SeqNum /\ acks[j].wnd \in Nat
  BY SegmentFields, Numbers DEF TypeInv
<1>2. AckAt(j) \in Nat /\ snd.off <= AckAt(j) /\ acks[j].ack = SeqOf(AckAt(j))
  BY <1>1, PosFacts DEF AckAt
<1>3. /\ AckAt(j) <= Got /\ Got <= Sent /\ Sent <= Written
      /\ Got \in Nat /\ Sent \in Nat /\ Written \in Nat
  BY Nums DEF Core, AckInv, SenderInv, NumsOK
<1> QED
  BY <1>1, <1>2, <1>3

\* An acknowledgement discards exactly what it acknowledges.
LEMMA AckMoves ==
  ASSUME Inv, ~ torn, AckDiscard, snd.state = "ESTABLISHED"
  PROVE  /\ snd'.off = AckAt(1) /\ snd'.slen = Written - AckAt(1)
         /\ snd'.una = snd.una /\ snd'.nxt = snd.nxt /\ snd'.wnd = snd.wnd
         /\ snd.off <= AckAt(1) /\ AckAt(1) <= Len(rcv.rcvd)
         /\ acks[1].ack = SeqOf(AckAt(1)) /\ Sub(SeqOf(AckAt(1)), snd.una) <= BufSize
<1> DEFINE p == Head(acks)
           A == AckAt(1)
<1>0. TypeInv /\ Core
  BY DEF Inv
<1>1. 1 \in 1..Len(acks) /\ acks[1] = p /\ acking = <<>> /\ ~ Has(p, "FIN")
  BY <1>0 DEF AckDiscard, TypeInv
<1>2. /\ snd \in Block /\ snd.off \in Nat /\ snd.slen \in Nat /\ snd.slen <= BufSize
      /\ Written = snd.off + snd.slen
  <2>1. snd.slen \in 0..BufSize /\ snd \in Block
    BY <1>0, BlockFields DEF TypeInv
  <2> QED
    BY <1>0, <2>1, Nums, Numbers DEF NumsOK
<1>3. A \in Nat /\ snd.off <= A /\ p.ack = SeqOf(A) /\ A <= Written
  BY <1>0, <1>1, AckPlaces
<1>4. A <= Len(rcv.rcvd)
  BY <1>0, <1>1 DEF Core, AckInv
<1> HIDE DEF A
<1>5. Sub(SeqOf(A), snd.una) = A - snd.off
  <2>1. snd.una = SeqOf(snd.off)
    BY <1>0, <1>1 DEF Core, SenderInv
  <2>2. A - snd.off < SeqMod
    BY <1>2, <1>3, SeqModType
  <2> QED
    BY <1>2, <1>3, <2>1, <2>2, SubSeqOf
<1>6. Lesser(Sub(p.ack, snd.una), snd.slen) = A - snd.off
  BY <1>2, <1>3, <1>5 DEF Lesser
<1>7. After(p.ack, snd.una) <=> A > snd.off
  <2>1. A - snd.off <= BufSize /\ A - snd.off \in Nat
    BY <1>2, <1>3, Numbers
  <2>2. (SeqMod \div 2) - 1 >= BufSize /\ (SeqMod \div 2) \in Int
    BY SeqModType
  <2>3. After(p.ack, snd.una) <=> A - snd.off \in 1 .. (SeqMod \div 2) - 1
    BY <1>3, <1>5 DEF After
  <2> QED
    BY <1>2, <1>3, <2>1, <2>2, <2>3, Numbers
<1>8. snd' = IF A > snd.off
             THEN [snd EXCEPT !.off = @ + (A - snd.off), !.slen = @ - (A - snd.off)] ELSE snd
  BY <1>6, <1>7 DEF AckDiscard
<1> DEFINE Moved == /\ snd'.off = A /\ snd'.slen = Written - A
                    /\ snd'.una = snd.una /\ snd'.nxt = snd.nxt /\ snd'.wnd = snd.wnd
<1>9. ASSUME A > snd.off PROVE Moved
  <2>1. snd' = [snd EXCEPT !.off = @ + (A - snd.off), !.slen = @ - (A - snd.off)]
    BY <1>8, <1>9
  <2>2. snd'.off = snd.off + (A - snd.off) /\ snd'.slen = snd.slen - (A - snd.off)
        /\ snd'.una = snd.una /\ snd'.nxt = snd.nxt /\ snd'.wnd = snd.wnd
    BY <1>2, <2>1 DEF Block
  <2> QED
    BY <1>2, <1>3, <2>2
<1>10. ASSUME ~ (A > snd.off) PROVE Moved
  BY <1>2, <1>3, <1>8, <1>10
<1>12. Sub(SeqOf(A), snd.una) <= BufSize
  BY <1>2, <1>3, <1>5, Numbers
<1> QED
  BY <1>1, <1>3, <1>4, <1>9, <1>10, <1>12 DEF A

\* The first of the ACKs under way is taken off.
LEMMA AckTaken ==
  ASSUME TypeInv, TypeInv', Core, acks # <<>>, acks' = Tail(acks),
         snd'.off \in {snd.off, AckAt(1)}, UNCHANGED <<rcv, pending>>
  PROVE  AckInv'
<1>0. snd.off \in Int /\ snd'.off \in Int
  BY BlockFields DEF TypeInv
<1>1. /\ Len(acks) \in Nat /\ Len(acks) >= 1 /\ Len(acks') = Len(acks) - 1
      /\ \A j \in 1..Len(acks') : acks'[j] = acks[j + 1] /\ j + 1 \in 1..Len(acks)
  BY DEF TypeInv
<1>2. ASSUME NEW j \in 1..Len(acks') PROVE AckAt(j)' = AckAt(j + 1)
  <2>1. /\ j + 1 \in 1..Len(acks) /\ 1 \in 1..Len(acks) /\ 1 <= j + 1
        /\ acks'[j].ack = acks[j + 1].ack
    BY <1>1
  <2>2. /\ acks[j + 1].ack \in SeqNum /\ AckAt(j + 1) \in Nat /\ AckAt(1) \in Nat
        /\ snd.off <= AckAt(1) /\ snd.off <= AckAt(j + 1) /\ snd.off \in Nat
    BY <2>1, AckPlaces, Nums DEF NumsOK
  <2>3. AckAt(1) <= AckAt(j + 1)
    BY <2>1 DEF Core, AckInv
  <2>4. snd'.off >= snd.off /\ snd'.off <= Pos(acks[j + 1].ack)
    BY <2>2, <2>3 DEF AckAt
  <2> DEFINE x == acks[j + 1].ack
  <2>5. x \in SeqNum /\ snd'.off <= Pos(x) /\ snd.off <= snd'.off
    BY <1>0, <2>2, <2>4
  <2> HIDE DEF x
  <2>6. snd'.off + Sub(x, SeqOf(snd'.off)) = Pos(x)
    BY <1>0, <2>5, Rebase DEF Pos
  <2>7. AckAt(j)' = snd'.off + Sub(acks'[j].ack, SeqOf(snd'.off))
    BY DEF AckAt, Pos
  <2> QED
    BY <2>1, <2>6, <2>7 DEF AckAt, x
<1>3. Got' = Got /\ Edge' = Edge /\ Open' = Open
  BY DEF Got, Edge, Open
<1>4. ASSUME NEW j \in 1..Len(acks')
      PROVE  /\ AckAt(j)' <= Got'
             /\ IF Has(acks'[j], "FIN") THEN AckAt(j)' = Got' /\ ~ Open'
                ELSE AckAt(j)' <= Len(rcv'.rcvd)
             /\ Open' => AckAt(j)' + acks'[j].wnd <= Edge'
  <2>1. j + 1 \in 1..Len(acks) /\ acks'[j] = acks[j + 1]
    BY <1>1
  <2> DEFINE i == j + 1
  <2> HIDE DEF i
  <2>2. /\ AckAt(i) <= Got
        /\ IF Has(acks[i], "FIN") THEN AckAt(i) = Got /\ ~ Open ELSE AckAt(i) <= Len(rcv.rcvd)
        /\ Open => AckAt(i) + acks[i].wnd <= Edge
    BY <2>1 DEF Core, AckInv, i
  <2> QED
    BY <1>2, <1>3, <2>1, <2>2 DEF i
<1>5. \A j, k \in 1..Len(acks') : j <= k => AckAt(j)' <= AckAt(k)'
  <2> SUFFICES ASSUME NEW j \in 1..Len(acks'), NEW k \in 1..Len(acks'), j <= k
               PROVE  AckAt(j + 1) <= AckAt(k + 1)
    BY <1>2
  <2>1. j + 1 \in 1..Len(acks) /\ k + 1 \in 1..Len(acks) /\ j + 1 <= k + 1
    BY <1>1
  <2> QED
    BY <2>1 DEF Core, AckInv
<1> QED
  BY <1>4, <1>5 DEF AckInv

\* Discarding moves the buffer up to what has arrived, before SND.UNA
\* follows.
LEMMA CoreAckDiscard == ASSUME Inv, ~ torn, ~ torn', AckDiscard PROVE Core'
<1>0. TypeInv /\ TypeInv' /\ Core /\ NumsOK /\ NumsOK'
  BY TypeAckDiscard, Nums, NumsNext DEF Inv
<1>1. /\ UNCHANGED <<rcv, pump, data, pending>> /\ acks # <<>> /\ acks' = Tail(acks)
      /\ acking = <<>> /\ pump["daemon"].at = "out"
  BY DEF AckDiscard
<1>2. Got' = Got /\ Edge' = Edge /\ Open' = Open
  BY <1>1 DEF Got, Edge, Open
<1>3. CASE snd.state # "ESTABLISHED"
  <2>1. UNCHANGED <<acking, snd>>
    BY <1>3 DEF AckDiscard
  <2>2. Sent' = Sent /\ Written' = Written
    BY <2>1 DEF Sent, Pos, Written
  <2>3. SenderInv' /\ ReceiverInv' /\ WindowInv'
    BY <1>0, <1>1, <1>2, <2>1, <2>2 DEF Core, SenderInv, ReceiverInv, WindowInv
  <2>4. PumpInv'
    <3>1. \A p \in Pump : EmitInv(p)'
      BY <1>0, <1>1, <1>2, <2>1, <2>2, EmitKept DEF Core, PumpInv, NumsOK
    <3> QED
      BY <1>0, <1>1, <1>2, <2>1, <2>2, <3>1 DEF Core, PumpInv, Fresh, Quiet, Mid
  <2>5. DataInv' /\ AckInv'
    BY <1>0, <1>1, <1>2, <2>1, <2>2, DataKept, AckTaken DEF Core
  <2> QED
    BY <2>3, <2>4, <2>5 DEF Core
<1>4. CASE snd.state = "ESTABLISHED"
  <2> DEFINE A == AckAt(1)
             p == acks[1]
  <2>1. /\ snd'.off = A /\ snd'.slen = Written - A
        /\ snd'.una = snd.una /\ snd'.nxt = snd.nxt /\ snd'.wnd = snd.wnd
        /\ snd.off <= A /\ A <= Len(rcv.rcvd)
        /\ p.ack = SeqOf(A) /\ Sub(SeqOf(A), snd.una) <= BufSize
    BY <1>4, AckMoves
  <2>2. /\ snd.off \in Nat /\ snd.slen \in Nat /\ Sent \in Nat /\ Written = snd.off + snd.slen
        /\ snd.nxt \in SeqNum /\ Sent = Pos(snd.nxt)
    BY <1>0, BlockFields DEF NumsOK, TypeInv
  <2>3. A \in Nat /\ A <= Written /\ A <= Sent /\ p.wnd \in Nat /\ 1 \in 1..Len(acks)
    <3>1. 1 \in 1..Len(acks)
      BY <1>0, <1>1 DEF TypeInv
    <3> QED
      BY <1>0, <3>1, AckPlaces
  <2>4. acking' = <<p>> /\ acking' # <<>> /\ acking'[1] = p
    <3>1. Head(acks) = acks[1]
      BY <1>0, <1>1 DEF TypeInv
    <3>2. acking' = <<Head(acks)>>
      BY <1>4 DEF AckDiscard
    <3> QED
      BY <3>1, <3>2
  <2> HIDE DEF A, p
  <2>5. Sent' = Sent
    <3> DEFINE x == snd.nxt
    <3>1. x \in SeqNum /\ snd'.off <= Pos(x) /\ snd.off <= snd'.off /\ snd'.off \in Int
      BY <2>1, <2>2, <2>3
    <3>2. snd'.off + Sub(x, SeqOf(snd'.off)) = Pos(x)
      <4> HIDE DEF x
      <4> QED
        BY <2>2, <3>1, Rebase DEF Pos
    <3> QED
      BY <2>1, <2>2, <3>2 DEF Sent, Pos
  <2>6. Written' = Written
    BY <2>1, <2>2, <2>3 DEF Written
  <2>7. SenderInv'
    BY <1>0, <1>1, <1>2, <2>1, <2>4, <2>5, <2>6 DEF Core, SenderInv
  <2>8. ReceiverInv' /\ WindowInv'
    <3>1. Open => A + p.wnd <= Edge
      BY <1>0, <2>3 DEF Core, AckInv, A, p
    <3> QED
      BY <1>0, <1>1, <1>2, <2>1, <2>4, <2>5, <3>1 DEF Core, ReceiverInv, WindowInv
  <2>9. PumpInv'
    <3>1. Mid("closer") => Quiet("closer")
      <4> SUFFICES ASSUME Mid("closer") PROVE Quiet("closer")
        OBVIOUS
      <4>1. ~ (snd.slen > InFlight(snd))
        BY <1>4, Zenon DEF AckDiscard, Disturbs
      <4>2. Written <= Sent
        BY <1>0, <1>1, <2>2, <4>1, InFlightIs DEF Core
      <4>3. pump["closer"].flight \in Nat /\ "closer" \in Pump
        BY <1>0, PlaceFields, Numbers DEF TypeInv, Pump
      <4>4. pump["closer"].at = "peek"
        BY <1>0, <4>2, <4>3, NothingToEmit DEF Core, Mid
      <4> QED
        BY <1>0, <2>2, <4>2, <4>3, <4>4 DEF Core, PumpInv, Quiet, Fresh
    <3>2. Mid("closer") => pump["closer"].flight \in Nat /\ Quiet("closer")'
      <4>1. pump["closer"].flight \in Nat
        BY <1>0, PlaceFields, Numbers DEF TypeInv, Pump
      <4> QED
        BY <1>1, <2>1, <2>2, <2>3, <3>1, <4>1 DEF Quiet
    <3>3. pump["closer"].at # "emit" /\ ~ Mid("daemon")
      BY <1>1, <3>1 DEF Mid, Quiet
    <3>4. \A r \in Pump : EmitInv(r)'
      BY <1>1, <3>3 DEF EmitInv, Mid, Pump
    <3> QED
      BY <1>1, <3>2, <3>3, <3>4 DEF PumpInv, Mid
  <2>10. DataInv' /\ AckInv'
    BY <1>0, <1>1, <1>2, <2>1, <2>5, DataKept, AckTaken DEF Core, A
  <2> QED
    BY <2>7, <2>8, <2>9, <2>10 DEF Core
<1> QED
  BY <1>3, <1>4

\* SND.UNA follows the buffer, and the window is the one acknowledged.
LEMMA CoreAckStore == ASSUME Inv, ~ torn, AckStore PROVE Core'
<1> DEFINE p == acking[1]
<1>0. TypeInv /\ TypeInv' /\ Core /\ NumsOK /\ NumsOK'
  BY TypeAckStore, Nums, NumsNext DEF Inv
<1>1. /\ UNCHANGED <<rcv, data, acks, pending>> /\ acking # <<>> /\ acking' = <<>>
      /\ pump' = [pump EXCEPT !["daemon"] = Place(IF dirty' THEN "due" ELSE "out")]
      /\ snd' = [snd EXCEPT !.una = IF After(p.ack, snd.una) THEN p.ack ELSE snd.una,
                            !.wnd = p.wnd]
  BY DEF AckStore
<1>2. /\ p.ack = SeqOf(snd.off) /\ Sub(SeqOf(snd.off), snd.una) <= BufSize
      /\ pump["daemon"].at = "out"
  BY <1>0, <1>1 DEF Core, SenderInv
<1>3. snd \in Block /\ snd.una \in SeqNum /\ snd.off \in Nat
  BY <1>0, BlockFields DEF TypeInv
<1>4. (IF After(p.ack, snd.una) THEN p.ack ELSE snd.una) = SeqOf(snd.off)
  <2> DEFINE d == Sub(SeqOf(snd.off), snd.una)
  <2>1. d \in Nat
    <3>1. SeqOf(snd.off) \in SeqNum
      BY <1>3, SeqOfType
    <3>2. Sub(SeqOf(snd.off), snd.una) \in SeqNum
      BY <1>0, <1>3, <3>1, BuiltTypes
    <3> QED
      BY <3>2, Numbers
  <2>2. CASE d = 0
    <3>1. SeqOf(snd.off) \in SeqNum
      BY <1>3, SeqOfType
    <3>2. SeqOf(snd.off) = snd.una
      BY <1>3, <2>2, <3>1, SubZero
    <3> QED
      BY <1>2, <3>2
  <2>3. CASE d # 0
    <3>1. (SeqMod \div 2) - 1 >= BufSize /\ (SeqMod \div 2) \in Int
      BY SeqModType
    <3>2. d \in 1 .. (SeqMod \div 2) - 1
      BY <1>2, <2>1, <2>3, <3>1, Numbers
    <3> QED
      BY <1>2, <3>2 DEF After
  <2> QED
    BY <2>2, <2>3
<1>5. /\ snd'.una = SeqOf(snd.off) /\ snd'.wnd = p.wnd /\ snd'.off = snd.off
      /\ snd'.slen = snd.slen /\ snd'.nxt = snd.nxt
  BY <1>1, <1>3, <1>4 DEF Block
<1>6. Sent' = Sent /\ Got' = Got /\ Edge' = Edge /\ Open' = Open /\ Written' = Written
  BY <1>1, <1>5, SentKept DEF Got, Edge, Open, Written
<1>7. /\ "daemon" \in Pump /\ "closer" \in Pump /\ pump'["closer"] = pump["closer"]
      /\ pump'["daemon"].at \notin {"peek", "emit"}
  BY <1>0, <1>1 DEF Pump, TypeInv, Place
<1>8. SenderInv' /\ ReceiverInv' /\ WindowInv'
  BY <1>0, <1>1, <1>5, <1>6 DEF Core, SenderInv, ReceiverInv, WindowInv
<1>9. PumpInv'
  <2>1. EmitInv("closer")'
    BY <1>0, <1>5, <1>6, <1>7, EmitKept DEF Core, PumpInv, NumsOK
  <2>2. EmitInv("daemon")'
    BY <1>7 DEF EmitInv
  <2> QED
    BY <1>0, <1>1, <1>5, <1>6, <1>7, <2>1, <2>2 DEF Core, PumpInv, Fresh, Quiet, Mid, Pump
<1>10. DataInv' /\ AckInv'
  BY <1>0, <1>1, <1>5, <1>6, DataKept, AckKept DEF Core, NumsOK
<1> QED
  BY <1>8, <1>9, <1>10 DEF Core

\* A FIN sets SND.NXT back to what the receiver had counted, which is closed
\* by then.
LEMMA CorePeerFin == ASSUME Inv, ~ torn, PeerFin PROVE Core'
<1> DEFINE p == Head(acks)
<1>0. TypeInv /\ TypeInv' /\ Core /\ NumsOK /\ NumsOK'
  BY TypePeerFin, Nums, NumsNext DEF Inv
<1>1. /\ UNCHANGED <<rcv, pump, acking, data, pending>> /\ acks # <<>> /\ acks' = Tail(acks)
      /\ acking = <<>> /\ pump["daemon"].at = "out" /\ Has(p, "FIN")
      /\ snd' \in {snd, PeerClosed(snd, p)}
  BY DEF PeerFin
<1>2. 1 \in 1..Len(acks) /\ acks[1] = p /\ p \in Segment
  BY <1>0, <1>1 DEF TypeInv
<1>3. AckAt(1) = Got /\ ~ Open
  BY <1>0, <1>1, <1>2 DEF Core, AckInv
<1>4. /\ snd'.off = snd.off /\ snd'.slen = snd.slen /\ snd'.una = snd.una
      /\ snd'.nxt \in {snd.nxt, p.ack}
  <2>1. snd \in Block
    BY <1>0 DEF TypeInv
  <2> QED
    BY <1>1, <1>2, <2>1, PeerClosedSets
<1>5. Got' = Got /\ Edge' = Edge /\ Open' = Open /\ Written' = Written
  BY <1>1, <1>4 DEF Got, Edge, Open, Written
<1>6. Sent' \in {Sent, Got}
  <2>1. snd'.nxt = snd.nxt => Sent' = Sent
    BY <1>4, SentKept
  <2>2. snd'.nxt = acks[1].ack => Sent' = AckAt(1)
    BY <1>4 DEF Sent, AckAt, Pos
  <2> QED
    BY <1>2, <1>3, <1>4, <2>1, <2>2
<1>7. Sent \in Nat /\ Got \in Nat /\ Got <= Sent /\ Sent <= Written /\ Written \in Nat
  BY <1>0 DEF Core, SenderInv, NumsOK
<1>8. SenderInv' /\ ReceiverInv' /\ WindowInv'
  BY <1>0, <1>1, <1>3, <1>4, <1>5, <1>6, <1>7 DEF Core, SenderInv, ReceiverInv, WindowInv
<1>9. PumpInv'
  <2>1. /\ "closer" \in Pump /\ pump["closer"].flight \in Nat /\ pump["closer"].seq \in SeqNum
        /\ snd.off \in Nat
    BY <1>0, PlaceFields, Numbers DEF TypeInv, Pump, NumsOK
  <2>2. SeqAt("closer")' = SeqAt("closer") /\ SeqAt("closer") \in Nat
    BY <1>0, <1>1, <1>4, <2>1, PosFacts DEF SeqAt, Pos
  <2>3. EmitInv("closer")'
    <3> SUFFICES ASSUME pump["closer"].at = "emit" PROVE EmitInv("closer")'
      BY <1>1 DEF EmitInv
    <3>1. /\ Len(pump["closer"].bytes) >= 1 /\ Sent <= SeqAt("closer")
          /\ SeqAt("closer") + Len(pump["closer"].bytes) <= Written
      BY <1>0, <2>1 DEF Core, PumpInv, EmitInv
    <3>2. Sent' <= SeqAt("closer")'
      BY <1>6, <1>7, <2>2, <3>1
    <3>3. /\ pump'["closer"] = pump["closer"] /\ ~ Open'
          /\ SeqAt("closer")' + Len(pump["closer"].bytes) <= Written'
      BY <1>1, <1>3, <1>5, <2>2, <3>1
    <3> QED
      BY <3>1, <3>2, <3>3 DEF EmitInv
  <2>4. EmitInv("daemon")'
    BY <1>1 DEF EmitInv
  <2>5. pump'["closer"].at = "peek" =>
          Quiet("closer")' \/ (~ Open' /\ Sent' <= snd'.off + pump'["closer"].flight)
    <3> SUFFICES ASSUME pump["closer"].at = "peek"
                 PROVE  Quiet("closer")' \/ (~ Open' /\ Sent' <= snd'.off + pump'["closer"].flight)
      BY <1>1
    <3>1. Quiet("closer") \/ Sent <= snd.off + pump["closer"].flight
      BY <1>0, <1>7, <2>1 DEF Core, PumpInv, Fresh
    <3>2. CASE Quiet("closer")
      <4>1. Quiet("closer")'
        BY <1>1, <1>4, <3>2 DEF Quiet
      <4> QED
        BY <4>1
    <3>3. CASE Sent <= snd.off + pump["closer"].flight
      BY <1>1, <1>3, <1>4, <1>5, <1>6, <1>7, <2>1, <3>3
    <3> QED
      BY <3>1, <3>2, <3>3
  <2> QED
    BY <1>1, <2>3, <2>4, <2>5 DEF PumpInv, Mid, Pump
<1>10. DataInv' /\ AckInv'
  BY <1>0, <1>1, <1>3, <1>4, <1>5, AckTaken DEF DataInv
<1> QED
  BY <1>8, <1>9, <1>10 DEF Core
\* A step of the receiving end leaves what the sender knows true.
LEMMA SenderKept ==
  ASSUME TypeInv, TypeInv', Core, UNCHANGED <<snd, pump, acking>>, Open' => Open, Edge' >= Edge
  PROVE  PumpInv' /\ WindowInv'
<1>1. Sent' = Sent /\ Written' = Written
  BY SentKept DEF Written
<1>2. /\ Sent \in Nat /\ Edge \in Nat /\ Edge' \in Nat /\ snd.off \in Nat /\ snd.wnd \in Nat
      /\ Written \in Nat
  <2>1. NumsOK /\ NumsOK'
    BY Nums, NumsNext
  <2> QED
    BY <2>1 DEF NumsOK
<1>3. /\ \A p \in Pump : pump[p].room \in Nat
      /\ acking # <<>> => acking[1].wnd \in Nat
  <2>1. \A p \in Pump : pump[p].room \in Nat
    BY PlaceFields, Numbers DEF TypeInv
  <2>2. acking # <<>> => acking[1] \in Segment
    BY DEF TypeInv
  <2> QED
    BY <2>1, <2>2, SegmentFields, Numbers
<1>4. WindowInv'
  BY <1>1, <1>2, <1>3 DEF Core, WindowInv
<1>5. \A p \in Pump : EmitInv(p)'
  BY <1>1, <1>2, EmitKept DEF Core, PumpInv
<1>6. "daemon" \in Pump /\ "closer" \in Pump
  BY DEF Pump
<1>7. \A p \in Pump : Fresh(p) => Fresh(p)'
  BY <1>1, <1>2, <1>3 DEF Fresh
<1>8. /\ pump["daemon"].at = "peek" => Fresh("daemon")'
      /\ pump["closer"].at = "peek" =>
           \/ Quiet("closer") \/ Fresh("closer")'
           \/ ~ Open' /\ Sent <= snd.off + pump["closer"].flight
  BY <1>6, <1>7 DEF Core, PumpInv
<1>9. PumpInv'
  BY <1>1, <1>5, <1>8 DEF Core, PumpInv, Quiet, Mid
<1> QED
  BY <1>4, <1>9

\* An ACK or a FIN that is appended acknowledges all that was counted.
LEMMA AckAppended ==
  ASSUME TypeInv, TypeInv', Core, NEW m \in Segment, acks' = Append(acks, m),
         UNCHANGED snd, m.ack = SeqOf(Got),
         Open' => Open, Got' = Got, Edge' = Edge, Len(rcv'.rcvd) >= Len(rcv.rcvd),
         IF Has(m, "FIN") THEN ~ Open' ELSE Got = Len(rcv'.rcvd),
         Open' => Got + m.wnd <= Edge
  PROVE  AckInv'
<1>1. /\ Len(acks) \in Nat /\ Len(acks') = Len(acks) + 1 /\ acks'[Len(acks) + 1] = m
      /\ \A j \in 1..Len(acks) : acks'[j] = acks[j]
  BY DEF TypeInv
<1>2. /\ Got \in Nat /\ snd.off <= Got /\ Got - snd.off < SeqMod /\ snd.off \in Nat
      /\ Len(rcv.rcvd) \in Nat /\ Len(rcv'.rcvd) \in Nat
  <2>1. NumsOK /\ NumsOK' /\ snd.slen \in 0..BufSize
    BY Nums, NumsNext, BlockFields DEF TypeInv
  <2>2. snd.off <= Len(rcv.rcvd) /\ Got <= Sent /\ Sent <= Written
    BY DEF Core, SenderInv
  <2>3. /\ snd.off \in Nat /\ Got \in Nat /\ Sent \in Nat /\ Written = snd.off + snd.slen
        /\ Got = Len(rcv.rcvd) + Len(pending) /\ Len(pending) \in Nat
        /\ Len(rcv.rcvd) \in Nat /\ Len(rcv'.rcvd) \in Nat
    BY <2>1 DEF NumsOK
  <2>4. snd.slen \in Nat /\ snd.slen <= BufSize
    BY <2>1, Numbers
  <2>5. Got - snd.off <= BufSize /\ snd.off <= Got
    BY <2>2, <2>3, <2>4, SeqModType
  <2> QED
    BY <2>3, <2>5, SeqModType
<1>3. ASSUME NEW l \in Nat, l = Len(acks) + 1 PROVE AckAt(l)' = Got
  <2>1. Pos(SeqOf(Got)) = Got
    BY <1>2, PosFacts
  <2>2. AckAt(l)' = Pos(m.ack)
    BY <1>1, <1>3 DEF AckAt, Pos
  <2> QED
    BY <2>1, <2>2
<1>4. \A j \in 1..Len(acks) : AckAt(j)' = AckAt(j) /\ AckAt(j) \in Nat
  BY <1>1, AckPlaces DEF AckAt, Pos
<1>5. ASSUME NEW j \in 1..Len(acks')
      PROVE  /\ AckAt(j)' <= Got'
             /\ IF Has(acks'[j], "FIN") THEN AckAt(j)' = Got' /\ ~ Open'
                ELSE AckAt(j)' <= Len(rcv'.rcvd)
             /\ Open' => AckAt(j)' + acks'[j].wnd <= Edge'
  <2>1. CASE j = Len(acks) + 1
    <3>1. AckAt(j)' = Got /\ acks'[j] = m
      BY <1>1, <1>3, <2>1
    <3> QED
      BY <1>2, <3>1
  <2>2. CASE j \in 1..Len(acks)
    <3>1. /\ AckAt(j) <= Got
          /\ IF Has(acks[j], "FIN") THEN AckAt(j) = Got /\ ~ Open
             ELSE AckAt(j) <= Len(rcv.rcvd)
          /\ Open => AckAt(j) + acks[j].wnd <= Edge
      BY <2>2 DEF Core, AckInv
    <3> QED
      BY <1>1, <1>2, <1>4, <2>2, <3>1
  <2> QED
    BY <1>1, <2>1, <2>2
<1>6. ASSUME NEW j \in 1..Len(acks'), NEW k \in 1..Len(acks'), j <= k
      PROVE  AckAt(j)' <= AckAt(k)'
  <2>1. CASE k = Len(acks) + 1
    <3>1. AckAt(k)' = Got
      BY <1>1, <1>3, <2>1
    <3> QED
      BY <1>5, <3>1
  <2>2. CASE k \in 1..Len(acks)
    <3>1. j \in 1..Len(acks)
      BY <1>1, <1>6, <2>2
    <3> QED
      BY <1>4, <1>6, <2>2, <3>1 DEF Core, AckInv
  <2> QED
    BY <1>1, <2>1, <2>2
<1> QED
  BY <1>5, <1>6 DEF AckInv
\* The first segment under way is taken off and counted.
LEMMA DataTaken ==
  ASSUME TypeInv, DataInv, Open, data # <<>>, data' = Tail(data),
         Got \in Nat, Sent' = Sent, Got' = Got + Len(data[1].data)
  PROVE  /\ DataInv' /\ Got' <= Sent
         /\ data[1].data = Run(Got, Len(data[1].data)) /\ Len(data[1].data) \in Nat
<1> DEFINE d == data[1]
<1>1. /\ Len(data) \in Nat /\ Len(data) >= 1 /\ Len(data') = Len(data) - 1
      /\ \A j \in 1..Len(data') : data'[j] = data[j + 1] /\ j + 1 \in 1..Len(data)
      /\ 1 \in 1..Len(data) /\ d \in Segment
  BY DEF TypeInv
<1>2. /\ d.data = Run(Lo(d), Len(d.data)) /\ Hi(d) <= Sent /\ Lo(d) = Got
  BY <1>1 DEF DataInv
<1>3. Len(d.data) \in Nat /\ Hi(d) = Got + Len(d.data)
  BY <1>1, <1>2, SegmentFields DEF Hi
<1>4. \A j \in 1..Len(data') : /\ data'[j].data # <<>>
                               /\ data'[j].data = Run(Lo(data'[j]), Len(data'[j].data))
                               /\ Hi(data'[j]) <= Sent'
  BY <1>1 DEF DataInv
<1>5. \A j \in 1..Len(data') - 1 : Lo(data'[j + 1]) = Hi(data'[j])
  <2> SUFFICES ASSUME NEW j \in 1..Len(data') - 1 PROVE Lo(data'[j + 1]) = Hi(data'[j])
    OBVIOUS
  <2>1. j + 1 \in 1..Len(data) - 1 /\ data'[j] = data[j + 1] /\ data'[j + 1] = data[(j + 1) + 1]
    BY <1>1
  <2> QED
    BY <2>1 DEF DataInv
<1>6. CASE Len(data) = 1
  <2>1. data' = <<>> /\ Got' = Sent
    BY <1>1, <1>3, <1>6 DEF DataInv
  <2> QED
    BY <1>2, <1>3, <1>4, <1>5, <2>1 DEF DataInv, Lo, Hi
<1>7. CASE Len(data) # 1
  <2>1. data' # <<>> /\ data'[1] = data[2] /\ data'[Len(data')] = data[Len(data)]
    <3>1. Len(data') \in 1..Len(data') /\ 1 \in 1..Len(data') /\ Len(data') + 1 = Len(data)
      BY <1>1, <1>7
    <3>2. data'[1] = data[1 + 1] /\ data'[Len(data')] = data[Len(data') + 1]
      BY <1>1, <3>1
    <3>3. data' # <<>>
      BY <1>1, <1>7
    <3> QED
      BY <3>1, <3>2, <3>3
  <2>2. Lo(data[2]) = Hi(data[1])
    <3>1. 1 \in 1..Len(data) - 1
      BY <1>1, <1>7
    <3>2. Lo(data[1 + 1]) = Hi(data[1])
      BY <3>1 DEF DataInv
    <3> QED
      BY <3>2
  <2>3. Lo(data'[1]) = Got' /\ Hi(data'[Len(data')]) = Sent'
    BY <1>3, <2>1, <2>2 DEF DataInv
  <2> QED
    BY <1>2, <1>3, <1>4, <1>5, <2>1, <2>3 DEF DataInv, Lo, Hi
<1> QED
  BY <1>6, <1>7

\* The first segment under way begins at RCV.NXT.
LEMMA CoreReceive == ASSUME Inv, ~ torn, Receive PROVE Core'
<1>0. TypeInv /\ TypeInv' /\ Core /\ NumsOK /\ NumsOK'
  BY TypeReceive, Nums, NumsNext DEF Inv
<1>1. /\ UNCHANGED <<snd, pump, acking, acks>> /\ data # <<>> /\ data' = Tail(data)
      /\ pending = <<>>
  BY DEF Receive
<1>2. Sent' = Sent /\ Written' = Written
  BY <1>1, SentKept DEF Written
<1>3. CASE ~ Open
  <2>1. UNCHANGED <<rcv, pending>>
    BY <1>3 DEF Receive, Open
  <2>2. Got' = Got /\ Edge' = Edge /\ Open' = Open
    BY <2>1 DEF Got, Edge, Open
  <2>3. SenderInv' /\ ReceiverInv'
    BY <1>0, <1>1, <1>2, <2>1, <2>2 DEF Core, SenderInv, ReceiverInv
  <2>4. PumpInv' /\ WindowInv'
    BY <1>0, <1>1, <2>2, SenderKept DEF NumsOK
  <2>5. DataInv' /\ AckInv'
    BY <1>0, <1>1, <1>3, <2>1, <2>2, AckKept DEF DataInv, Core, NumsOK
  <2> QED
    BY <2>3, <2>4, <2>5 DEF Core
<1>4. CASE Open
  <2> DEFINE L == Len(data[1].data)
  <2>0. /\ rcv \in Block /\ data[1] \in Segment /\ L \in Nat /\ Head(data) = data[1]
    <3>1. rcv \in Block /\ data[1] \in Segment /\ Head(data) = data[1]
      BY <1>0, <1>1 DEF TypeInv
    <3> QED
      BY <3>1, SegmentFields
  <2>1. rcv' = [rcv EXCEPT !.rnxt = Add(rcv.rnxt, L)] /\ pending' = data[1].data
    BY <1>4, <2>0 DEF Receive, Counted, Open
  <2>2. /\ rcv'.rcvd = rcv.rcvd /\ rcv'.rread = rcv.rread /\ rcv'.state = rcv.state
        /\ rcv'.rnxt = Add(rcv.rnxt, L)
    BY <2>0, <2>1 DEF Block
  <2>3. Got \in Nat /\ Got = Len(rcv.rcvd) /\ Got' = Got + L /\ Edge' = Edge /\ Open' = Open
    <3>1. Len(rcv.rcvd) \in Nat /\ Len(pending) = 0
      BY <1>0, <1>1 DEF NumsOK
    <3> QED
      BY <2>0, <2>1, <2>2, <3>1 DEF Got, Edge, Open
  <2>4. DataInv' /\ Got' <= Sent /\ pending' = Run(Got, L)
    BY <1>0, <1>1, <1>2, <1>4, <2>1, <2>3, DataTaken DEF Core
  <2>5. rcv'.rnxt = SeqOf(Got')
    <3>1. rcv.rnxt = SeqOf(Got) /\ Got \in Int /\ L \in Int
      BY <1>0, <2>0, <2>3 DEF Core, ReceiverInv
    <3> QED
      BY <2>2, <2>3, <3>1, AddSeqOf
  <2>6. SenderInv'
    BY <1>0, <1>1, <1>2, <2>2, <2>4 DEF Core, SenderInv
  <2>7. ReceiverInv'
    <3>1. Sent \in Nat /\ Edge \in Nat /\ Got' \in Nat /\ Sent <= Edge
      BY <1>0, <1>4 DEF Core, WindowInv, NumsOK
    <3>0. Got' <= Sent /\ Edge' = Edge
      BY <2>3, <2>4
    <3>2. Got' <= Edge'
      BY <3>0, <3>1
    <3>3. pending' = Run(Len(rcv'.rcvd), Len(pending'))
      BY <2>1, <2>2, <2>3, <2>4
    <3> QED
      BY <2>5, <3>2, <3>3 DEF ReceiverInv
  <2>8. PumpInv' /\ WindowInv'
    BY <1>0, <1>1, <2>3, SenderKept DEF NumsOK
  <2>9. AckInv'
    BY <1>0, <1>1, <1>4, <2>0, <2>2, <2>3, AckKept DEF Core, NumsOK
  <2> QED
    BY <2>4, <2>6, <2>7, <2>8, <2>9 DEF Core
<1> QED
  BY <1>3, <1>4

\* Storing a payload whole makes room for the ACK to promise.
LEMMA CoreStorePayload == ASSUME Inv, ~ torn, StorePayload PROVE Core'
<1> DEFINE m == Control(rcv', {"ACK"}, rcv'.nxt, rcv'.rnxt)
<1>0. TypeInv /\ TypeInv' /\ Core /\ NumsOK /\ NumsOK'
  BY TypeStorePayload, Nums, NumsNext DEF Inv
<1>1. /\ UNCHANGED <<snd, pump, acking, data>> /\ pending' = <<>> /\ acks' = Append(acks, m)
  BY DEF StorePayload
<1>2. /\ Len(rcv'.rcvd) = Len(rcv.rcvd) + Len(pending)
      /\ rcv'.rread = rcv.rread /\ rcv'.rnxt = rcv.rnxt /\ rcv'.state = rcv.state
  BY StoredWhole
<1>3. /\ Got \in Nat /\ Len(rcv.rcvd) \in Nat /\ Len(pending) \in Nat /\ rcv.rread \in Nat
      /\ Got = Len(rcv.rcvd) + Len(pending) /\ Edge = rcv.rread + BufSize
  BY <1>0 DEF NumsOK
<1>4. Got' = Got /\ Edge' = Edge /\ Open' = Open /\ Got = Len(rcv'.rcvd)
  BY <1>1, <1>2, <1>3 DEF Got, Edge, Open
<1>5. Sent' = Sent /\ Written' = Written
  BY <1>1, SentKept DEF Written
<1>6. SenderInv' /\ ReceiverInv'
  <2>1. snd.off <= Len(rcv.rcvd) /\ snd.off \in Nat
    BY <1>0 DEF Core, SenderInv, NumsOK
  <2>2. snd'.off <= Len(rcv'.rcvd)
    BY <1>1, <1>2, <1>3, <2>1
  <2>3. SenderInv'
    BY <1>0, <1>1, <1>4, <1>5, <2>2 DEF Core, SenderInv
  <2>4. ReceiverInv'
    BY <1>0, <1>1, <1>2, <1>4 DEF Core, ReceiverInv
  <2> QED
    BY <2>3, <2>4
<1>7. PumpInv' /\ WindowInv'
  BY <1>0, <1>1, <1>4, SenderKept DEF NumsOK
<1>8. DataInv'
  BY <1>0, <1>1, <1>4, <1>5, DataKept DEF Core
<1>9. AckInv'
  <2>1. /\ m.ack = SeqOf(Got) /\ m.wnd = FreeWnd(rcv') /\ m.flags = {"ACK"}
    BY <1>0, <1>2 DEF Control, Packet, Core, ReceiverInv
  <2>2. m \in Segment
    <3>1. Len(acks') \in 1..Len(acks') /\ acks'[Len(acks')] = m
      BY <1>0, <1>1 DEF TypeInv
    <3> QED
      BY <1>0, <3>1 DEF TypeInv
  <2>3. Got + m.wnd <= Edge
    BY <1>2, <1>3, <2>1, Numbers DEF FreeWnd, Buffered
  <2>4. ~ Has(m, "FIN")
    BY <2>1 DEF Has
  <2> HIDE DEF m
  <2> QED
    BY <1>0, <1>1, <1>2, <1>3, <1>4, <2>1, <2>2, <2>3, <2>4, AckAppended
<1> QED
  BY <1>6, <1>7, <1>8, <1>9 DEF Core

\* A read only moves the end of the receiver's buffer on.
LEMMA CoreRecv == ASSUME Inv, ~ torn, recv PROVE Core'
<1>0. TypeInv /\ TypeInv' /\ Core /\ NumsOK /\ NumsOK'
  BY TypeRecv, Nums, NumsNext DEF Inv
<1>1. UNCHANGED <<snd, pump, acking, data, acks, pending>>
  BY DEF recv
<1>2. /\ rcv'.rcvd = rcv.rcvd /\ rcv'.rnxt = rcv.rnxt /\ rcv'.state = rcv.state
      /\ rcv'.rread >= rcv.rread
  <2>1. PICK n \in 1 .. Buffered(rcv) : rcv' = [rcv EXCEPT !.rread = @ + n]
    BY DEF recv
  <2>2. rcv \in Block /\ rcv.rread \in Nat /\ Len(rcv.rcvd) \in Nat /\ n \in Nat
    BY <1>0, BlockFields DEF TypeInv, Buffered
  <2> QED
    BY <2>1, <2>2 DEF Block
<1>3. Got' = Got /\ Edge' >= Edge /\ Open' = Open /\ Got \in Nat /\ Edge \in Nat /\ Edge' \in Nat
  BY <1>0, <1>1, <1>2, Numbers DEF Got, Open, NumsOK
<1>4. Sent' = Sent /\ Written' = Written
  BY <1>1, SentKept DEF Written
<1>5. SenderInv' /\ ReceiverInv'
  BY <1>0, <1>1, <1>2, <1>3, <1>4 DEF Core, SenderInv, ReceiverInv
<1>6. PumpInv' /\ WindowInv'
  BY <1>0, <1>1, <1>3, SenderKept
<1>7. DataInv' /\ AckInv'
  BY <1>0, <1>1, <1>2, <1>3, <1>4, DataKept, AckKept DEF Core, NumsOK
<1> QED
  BY <1>5, <1>6, <1>7 DEF Core

\* The ACKs and the FIN the receiver sends of its own accord acknowledge what
\* has arrived.
LEMMA CoreReplies ==
  ASSUME Inv, ~ torn, ~ torn', Piggyback \/ HangupFlush \/ HangupFin
  PROVE  Core'
<1> DEFINE m == Control(rcv, {"ACK"}, rcv.nxt, rcv.rnxt)
           f == Control(rcv, {"FIN", "ACK"}, rcv.nxt, rcv.rnxt)
<1>0. TypeInv /\ TypeInv' /\ Core /\ NumsOK /\ NumsOK'
  BY TypeReplies, Nums, NumsNext DEF Inv
<1>1. UNCHANGED <<snd, pump, acking, data, pending>>
  BY DEF Piggyback, HangupFlush, HangupFin
<1>2. Sent' = Sent /\ Written' = Written
  BY <1>1, SentKept DEF Written
<1>3. /\ rcv'.rcvd = rcv.rcvd /\ rcv'.rnxt = rcv.rnxt /\ rcv'.rread = rcv.rread
      /\ Open' => Open
      /\ HangupFin => ~ Open'
  <2>1. CASE rcv' = rcv /\ ~ HangupFin
    BY <2>1 DEF Open
  <2>2. CASE HangupFin
    <3>1. rcv \in Block
      BY <1>0 DEF TypeInv
    <3>2. rcv' = Closing(rcv)
      BY <2>2 DEF HangupFin
    <3> QED
      BY <3>1, <3>2, ClosingKeeps DEF Open
  <2> QED
    BY <2>1, <2>2 DEF Piggyback, HangupFlush
<1>4. Got' = Got /\ Edge' = Edge /\ Got \in Nat /\ Edge \in Nat
  BY <1>0, <1>1, <1>3 DEF Got, Edge, NumsOK
<1>5. SenderInv' /\ ReceiverInv'
  BY <1>0, <1>1, <1>2, <1>3, <1>4 DEF Core, SenderInv, ReceiverInv
<1>6. PumpInv' /\ WindowInv'
  BY <1>0, <1>1, <1>3, <1>4, SenderKept
<1>7. DataInv'
  BY <1>0, <1>1, <1>2, <1>3, <1>4, DataKept DEF Core
<1>8. AckInv'
  <2>1. /\ m \in Segment /\ m.wnd = Edge - Len(rcv.rcvd)
        /\ f \in Segment /\ f.wnd = Edge - Len(rcv.rcvd)
    <3>1. rcv.nxt \in SeqNum /\ rcv.rnxt \in SeqNum /\ Got <= Edge
      BY <1>0, BlockFields DEF TypeInv, Core, ReceiverInv
    <3> QED
      BY <1>0, <3>1, ControlType
  <2>2. m.ack = SeqOf(Got) /\ m.flags = {"ACK"} /\ f.ack = SeqOf(Got) /\ f.flags = {"FIN", "ACK"}
    BY <1>0 DEF Control, Packet, Core, ReceiverInv
  <2>3. ~ Has(m, "FIN") /\ Has(f, "FIN")
    BY <2>2 DEF Has
  <2>4. Len(rcv.rcvd) \in Nat /\ (pending = <<>> => Got = Len(rcv.rcvd))
    BY <1>0 DEF NumsOK
  <2> HIDE DEF m, f
  <2>5. CASE acks' = Append(acks, m) /\ pending = <<>>
    <3>1. Got + m.wnd <= Edge /\ Got = Len(rcv'.rcvd)
      BY <1>3, <1>4, <2>1, <2>4, <2>5
    <3> QED
      BY <1>0, <1>1, <1>3, <1>4, <2>1, <2>2, <2>3, <2>4, <2>5, <3>1, AckAppended
  <2>6. CASE HangupFin
    <3>1. acks' = Append(acks, f) /\ ~ Open'
      BY <1>3, <2>6 DEF HangupFin, f
    <3> QED
      BY <1>0, <1>1, <1>3, <1>4, <2>1, <2>2, <2>3, <2>4, <3>1, AckAppended
  <2>7. CASE UNCHANGED acks
    BY <1>0, <1>1, <1>3, <1>4, <2>4, <2>7, AckKept DEF Core, NumsOK
  <2>8. CASE Piggyback
    <3>1. acks' = Append(acks, m) /\ pending = <<>>
      BY <2>8 DEF Piggyback, m
    <3> QED
      BY <2>5, <3>1
  <2>9. CASE HangupFlush
    <3>1. UNCHANGED acks \/ (acks' = Append(acks, m) /\ pending = <<>>)
      BY <2>9 DEF HangupFlush, m
    <3> QED
      BY <2>5, <2>7, <3>1
  <2> QED
    BY <2>6, <2>8, <2>9
<1> QED
  BY <1>5, <1>6, <1>7, <1>8 DEF Core

-----------------------------------------------------------------------------
(* The theorems.                                                            *)

\* The invariant holds initially.
LEMMA InitInv == Init => Inv
<1> SUFFICES ASSUME Init PROVE Inv
  OBVIOUS
<1>1. /\ snd = [Tcb("ESTABLISHED", <<"S", 1>>, <<"R", 2>>) EXCEPT !.una = First, !.nxt = First]
      /\ rcv = [Tcb("ESTABLISHED", <<"R", 2>>, <<"S", 1>>) EXCEPT !.rnxt = First]
  BY DEF Init
<1>2. First \in SeqNum /\ First \in Nat
  BY WindowAssumption, SeqModType DEF SeqNum
<1>3. \A a, b \in Addr : Tcb("ESTABLISHED", a, b) \in Block
  BY Numbers DEF Tcb, Block, SendingStates
<1>4. <<"S", 1>> \in Addr /\ <<"R", 2>> \in Addr
  BY DEF Addr
<1>5. /\ snd \in Block /\ snd.una = First /\ snd.nxt = First /\ snd.off = 0 /\ snd.slen = 0
      /\ snd.wnd = BufSize /\ snd.rcvd = <<>> /\ snd.rread = 0
  <2> DEFINE c == Tcb("ESTABLISHED", <<"S", 1>>, <<"R", 2>>)
  <2>1. c \in Block
    BY <1>3, <1>4
  <2>2. c.off = 0 /\ c.slen = 0 /\ c.wnd = BufSize /\ c.rcvd = <<>> /\ c.rread = 0
    BY DEF Tcb
  <2>3. snd = [c EXCEPT !.una = First, !.nxt = First]
    BY <1>1
  <2> HIDE DEF c
  <2>4. \A d \in Block, x \in SeqNum : [d EXCEPT !.una = x, !.nxt = x] \in Block
    BY DEF Block
  <2>5. snd \in Block
    BY <1>2, <2>1, <2>3, <2>4
  <2> QED
    BY <1>2, <2>1, <2>2, <2>3, <2>5 DEF Block
<1>6. /\ rcv \in Block /\ rcv.rnxt = First /\ rcv.rcvd = <<>> /\ rcv.rread = 0
  <2> DEFINE c == Tcb("ESTABLISHED", <<"R", 2>>, <<"S", 1>>)
  <2>1. c \in Block
    BY <1>3, <1>4
  <2>2. c.rcvd = <<>> /\ c.rread = 0
    BY DEF Tcb
  <2>3. rcv = [c EXCEPT !.rnxt = First]
    BY <1>1
  <2> HIDE DEF c
  <2>4. \A d \in Block, x \in SeqNum : [d EXCEPT !.rnxt = x] \in Block
    BY DEF Block
  <2>5. rcv \in Block
    BY <1>2, <2>1, <2>3, <2>4
  <2> QED
    BY <1>2, <2>1, <2>2, <2>3, <2>5 DEF Block
<1>7. TypeInv
  <2>1. Place("out") \in Places
    BY Numbers DEF Place, Places
  <2>2. pump \in [Pump -> Places]
    <3>1. pump = [p \in Pump |-> Place("out")]
      BY DEF Init
    <3> QED
      BY <2>1, <3>1
  <2>3. /\ acking \in Seq(Segment) /\ data \in Seq(Segment) /\ acks \in Seq(Segment)
        /\ pending \in Seq(1..MaxWrite)
        /\ hangup \in {"no", "flushed", "done"}
        /\ dirty \in BOOLEAN /\ torn \in BOOLEAN
    <3>1. \A S : <<>> \in Seq(S)
      OBVIOUS
    <3>2. /\ acking = <<>> /\ data = <<>> /\ acks = <<>> /\ pending = <<>>
          /\ hangup = "no" /\ dirty = FALSE /\ torn = FALSE
      BY DEF Init
    <3> QED
      BY <3>1, <3>2
  <2>4. Written <= MaxWrite /\ rcv.rread <= Len(rcv.rcvd)
    BY <1>5, <1>6, Numbers DEF Written
  <2> QED
    BY <1>5, <1>6, <2>2, <2>3, <2>4 DEF TypeInv
<1>8. SeqOf(0) = First
  BY WindowAssumption, SeqModType DEF SeqOf
<1>9. Sent = 0
  BY <1>5, <1>7, <1>8, PosFacts, SeqModType DEF Sent
<1>10. Got = 0 /\ Edge = BufSize
  BY <1>6, Numbers DEF Init, Got, Edge
<1>11. SenderInv /\ ReceiverInv /\ WindowInv
  BY <1>5, <1>6, <1>8, <1>9, <1>10, Numbers
     DEF Init, SenderInv, ReceiverInv, WindowInv, Written
<1>12. PumpInv /\ DataInv /\ AckInv
  BY <1>9, <1>10 DEF Init, PumpInv, EmitInv, Mid, Place, Pump, DataInv, AckInv
<1> QED
  BY <1>7, <1>11, <1>12 DEF Inv, Core

\* Every step keeps it.
LEMMA NextInv == Inv /\ [Next]_vars => Inv'
<1> SUFFICES ASSUME Inv, [Next]_vars PROVE Inv'
  OBVIOUS
<1>1. TypeInv'
  BY TypeNext
<1>2. CASE UNCHANGED vars
  <2>1. ASSUME ~ torn' PROVE Core'
    BY <1>2, <2>1 DEF vars, Inv, Core, SenderInv, ReceiverInv, WindowInv, PumpInv, EmitInv,
       Fresh, Quiet, Mid, DataInv, AckInv, Sent, Got, Edge, Open, Written, Pos, SeqAt, AckAt
  <2> QED
    BY <1>1, <2>1 DEF Inv
<1>3. ASSUME ~ torn, ~ torn', Next PROVE Core'
  <2>1. ASSUME NEW p \in Pump, Sending(p) PROVE Core'
    BY <1>3, <2>1, CoreLook, CorePeek, CoreEmit DEF Sending
  <2> QED
    BY <1>3, <2>1, CoreSend, CoreMark, CoreAckDiscard, CoreAckStore, CorePeerFin, CoreReceive,
       CoreStorePayload, CoreRecv, CoreReplies DEF Next, Acking, Receiving
<1>4. CASE Next
  BY <1>1, <1>3, <1>4 DEF Inv, Next
<1> QED
  BY <1>2, <1>4

\* The inductive invariant holds in every behaviour.
LEMMA SpecInv == Spec => []Inv
  BY InitInv, NextInv, PTL DEF Spec

\* No interleaving of the six threads takes a sequence number, a window, a
\* buffer length or an offset out of its type.
THEOREM WindowTyped == Spec => []TypeOK
<1>1. Inv => TypeOK
  <2> SUFFICES ASSUME Inv PROVE TypeOK
    OBVIOUS
  <2>1. /\ snd.una \in SeqNum /\ snd.nxt \in SeqNum /\ rcv.rnxt \in SeqNum
        /\ snd.slen \in 0..BufSize /\ snd.wnd \in 0..BufSize
        /\ rcv.rread \in Nat /\ Len(rcv.rcvd) \in Nat /\ rcv.rread <= Len(rcv.rcvd)
    BY BlockFields DEF Inv, TypeInv
  <2> QED
    BY <2>1 DEF TypeOK, Inv, TypeInv, Places
<1> QED
  BY <1>1, SpecInv, PTL

\* The receiver's daemon never blocks in recv_buffer.write and stores whole
\* every payload it has counted in RCV.NXT: process_block_ respects windows
\* that were advertised earlier and may have shrunk since.
THEOREM Honoured == Spec => []WindowHonoured
<1>1. Inv => WindowHonoured
  <2> SUFFICES ASSUME Inv, ~ torn PROVE Len(pending) <= FreeWnd(rcv)
    BY DEF WindowHonoured
  <2>1. /\ Len(rcv.rcvd) \in Nat /\ Len(pending) \in Nat /\ rcv.rread \in Nat
        /\ Len(rcv.rcvd) + Len(pending) <= rcv.rread + BufSize
    BY Nums DEF Inv, NumsOK, Core, ReceiverInv
  <2> QED
    BY <2>1, Numbers DEF FreeWnd, Buffered
<1> QED
  BY <1>1, SpecInv, PTL

\* SND.NXT - SND.UNA, computed modulo the width of the sequence numbers, never
\* exceeds what the send buffer holds, also after a FIN has set SND.NXT back.
THEOREM Buffers == Spec => []InFlightIsBuffered
<1>1. Inv => InFlightIsBuffered
  BY InFlightIs DEF Inv, Core, InFlightIsBuffered
<1> QED
  BY <1>1, SpecInv, PTL
-----------------------------------------------------------------------------
(* The refinement of ByteStream.                                            *)

\* What a step leaves alone when the stream does not move.
Still == /\ snd'.off = snd.off /\ snd'.slen = snd.slen
         /\ rcv'.rcvd = rcv.rcvd /\ rcv'.rread = rcv.rread

\* A write of the application extends the accepted bytes within the buffer.
LEMMA SendAccepts == ASSUME Inv, ~ torn, send PROVE Stream!Accept
<1>1. PICK n \in 1 .. Lesser(BufSize - snd.slen, MaxWrite - Written) :
        snd' = [snd EXCEPT !.slen = @ + n]
  BY DEF send
<1>2. snd \in Block /\ snd.off \in Nat /\ snd.slen \in 0..BufSize
  BY BlockFields DEF Inv, TypeInv
<1>3. n \in Nat /\ snd.slen + n \in 0..BufSize
  BY <1>2, Numbers DEF Lesser, Written
<1>4. snd'.slen = snd.slen + n /\ snd'.off = snd.off
  BY <1>1, <1>2, <1>3 DEF Block
<1>5. Written' \in Written .. snd.off + BufSize
  BY <1>2, <1>3, <1>4, Numbers DEF Written
<1> QED
  BY <1>4, <1>5 DEF send, Stream!Accept

\* An ACK makes the sender forget bytes that have all arrived.
LEMMA AckForgets ==
  ASSUME Inv, Inv', ~ torn, AckDiscard, snd.state = "ESTABLISHED"
  PROVE  Stream!Forget
<1>1. /\ snd'.off = AckAt(1) /\ snd'.slen = Written - AckAt(1)
      /\ snd.off <= AckAt(1) /\ AckAt(1) <= Len(rcv.rcvd)
  BY AckMoves
<1>2. /\ snd.off \in Nat /\ snd'.off \in Nat /\ Written \in Nat /\ Len(rcv.rcvd) \in Nat
      /\ Written' = snd'.off + snd'.slen
  BY Nums, NumsNext DEF Inv, NumsOK
<1>3. snd'.off \in snd.off .. Len(rcv.rcvd) /\ Written' = Written
  BY <1>1, <1>2
<1> QED
  BY <1>3 DEF AckDiscard, Stream!Forget

\* The payload stored is the next bytes of the stream, and there is room for it.
LEMMA StoreArrives == ASSUME Inv, ~ torn, StorePayload PROVE Stream!Arrive
<1> DEFINE n == Len(pending)
<1>1. rcv'.rcvd = rcv.rcvd \o pending /\ rcv'.rread = rcv.rread
  BY StoredWhole
<1>2. pending # <<>> /\ UNCHANGED snd
  BY DEF StorePayload
<1>3. /\ Len(rcv.rcvd) \in Nat /\ n \in Nat /\ rcv.rread \in Nat /\ Written \in Nat /\ Sent \in Nat
      /\ Got = Len(rcv.rcvd) + n /\ Edge = rcv.rread + BufSize
  BY Nums DEF Inv, NumsOK
<1>4. Got <= Sent /\ Sent <= Written /\ Got <= Edge /\ pending = Run(Len(rcv.rcvd), n)
  BY <1>2 DEF Inv, Core, SenderInv, ReceiverInv
<1>5. n # 0
  BY <1>2 DEF Inv, TypeInv
<1>6. rcv'.rcvd = rcv.rcvd \o [i \in 1..n |-> Len(rcv.rcvd) + i]
  BY <1>1, <1>4 DEF Run
<1> HIDE DEF n
<1>7. n \in 1 .. Written - Len(rcv.rcvd) /\ Len(rcv.rcvd) + n <= rcv.rread + BufSize
  BY <1>3, <1>4, <1>5, Numbers
<1> QED
  BY <1>1, <1>2, <1>6, <1>7 DEF Stream!Arrive, Written

\* A read takes bytes that have arrived.
LEMMA RecvTakes == ASSUME Inv, recv PROVE Stream!Take
<1>1. PICK n \in 1 .. Buffered(rcv) : rcv' = [rcv EXCEPT !.rread = @ + n]
  BY DEF recv
<1>2. rcv \in Block /\ rcv.rread \in Nat /\ Len(rcv.rcvd) \in Nat
  BY BlockFields DEF Inv, TypeInv
<1>3. n \in Nat /\ n <= Len(rcv.rcvd) - rcv.rread
  BY <1>2 DEF Buffered
<1>4. rcv'.rread = rcv.rread + n /\ rcv'.rcvd = rcv.rcvd
  BY <1>1, <1>2, <1>3 DEF Block
<1>5. rcv'.rread \in rcv.rread .. Len(rcv.rcvd)
  BY <1>2, <1>3, <1>4
<1> QED
  BY <1>4, <1>5 DEF recv, Stream!Take, Written

\* No other step moves the stream.
LEMMA OthersStill ==
  ASSUME Inv, ~ torn,
         \/ \E p \in Pump : Sending(p)
         \/ Mark \/ AckStore \/ PeerFin \/ Receive \/ Piggyback \/ HangupFlush \/ HangupFin
         \/ AckDiscard /\ snd.state # "ESTABLISHED"
  PROVE  Still
<1>0. snd \in Block /\ rcv \in Block /\ acks \in Seq(Segment) /\ acking \in Seq(Segment)
  BY DEF Inv, TypeInv
<1>1. ASSUME NEW p \in Pump, Look(p) \/ Peek(p) PROVE Still
  BY <1>1 DEF Look, Peek, Still
<1>2. ASSUME NEW p \in Pump, Emit(p) PROVE Still
  <2>1. PICK v : snd' = [snd EXCEPT !.nxt = v]
    BY <1>2 DEF Emit
  <2> QED
    BY <1>0, <1>2, <2>1 DEF Emit, Still, Block
<1>3. CASE Mark
  BY <1>0, <1>3, ClosingKeeps DEF Mark, Still
<1>4. CASE AckStore
  <2>1. PICK u, w : snd' = [snd EXCEPT !.una = u, !.wnd = w]
    BY <1>4 DEF AckStore
  <2> QED
    BY <1>0, <1>4, <2>1 DEF AckStore, Still, Block
<1>5. CASE PeerFin
  <2>1. Head(acks) \in Segment
    BY <1>0, <1>5 DEF PeerFin
  <2>2. snd'.off = snd.off /\ snd'.slen = snd.slen
    BY <1>0, <1>5, <2>1, PeerClosedSets DEF PeerFin
  <2> QED
    BY <1>5, <2>2 DEF PeerFin, Still
<1>6. CASE Receive
  <2>1. rcv'.rcvd = rcv.rcvd /\ rcv'.rread = rcv.rread
    <3>1. rcv' = rcv \/ \E v : rcv' = [rcv EXCEPT !.rnxt = v]
      BY <1>6 DEF Receive, Counted
    <3> QED
      BY <1>0, <3>1 DEF Block
  <2> QED
    BY <1>6, <2>1 DEF Receive, Still
<1>7. CASE Piggyback \/ HangupFlush
  BY <1>7 DEF Piggyback, HangupFlush, Still
<1>8. CASE HangupFin
  BY <1>0, <1>8, ClosingKeeps DEF HangupFin, Still
<1>9. CASE AckDiscard /\ snd.state # "ESTABLISHED"
  BY <1>9 DEF AckDiscard, Still
<1> QED
  BY <1>1, <1>2, <1>3, <1>4, <1>5, <1>6, <1>7, <1>8, <1>9 DEF Sending

\* Every step is one of the stream's, or a stutter, or ends the promise.
LEMMA StepRefines == Inv /\ Inv' /\ [Next]_vars => [Stream!Next]_(Stream!vars)
<1> SUFFICES ASSUME Inv, Inv', [Next]_vars
             PROVE  Stream!Next \/ UNCHANGED Stream!vars
  OBVIOUS
<1>1. CASE UNCHANGED vars
  BY <1>1 DEF vars, Stream!vars, Written
<1>2. CASE torn'
  BY <1>2 DEF Stream!Next
<1>3. ASSUME Next, ~ torn' PROVE Stream!Next \/ UNCHANGED Stream!vars
  <2>0. ~ torn
    BY <1>3 DEF Next
  <2>1. ASSUME Stream!Accept \/ Stream!Forget \/ Stream!Arrive \/ Stream!Take
        PROVE  Stream!Next
    BY <1>3, <2>0, <2>1 DEF Stream!Next
  <2>2. ASSUME Still PROVE UNCHANGED Stream!vars
    BY <1>3, <2>0, <2>2 DEF Still, Stream!vars, Written
  <2> QED
    BY <1>3, <2>0, <2>1, <2>2, SendAccepts, AckForgets, StoreArrives, RecvTakes, OthersStill
       DEF Next, Acking, Receiving
<1> QED
  BY <1>1, <1>2, <1>3

\* The connection is a byte stream with bounded buffers for every SeqMod, MSS,
\* BufSize, first sequence number and amount of data: what arrives is what was
\* written, each byte once and in order, across any wrap of the sequence numbers;
\* handle_established_state_ discards no byte before it has arrived; and a close
\* at either end changes nothing of that, unless it meets the daemon where torn
\* says.
THEOREM Refines == Spec => ImplementsStream
<1>1. Init => Stream!Init
  <2> SUFFICES ASSUME Init PROVE Stream!Init
    OBVIOUS
  <2>1. /\ snd = [Tcb("ESTABLISHED", <<"S", 1>>, <<"R", 2>>) EXCEPT !.una = First, !.nxt = First]
        /\ rcv = [Tcb("ESTABLISHED", <<"R", 2>>, <<"S", 1>>) EXCEPT !.rnxt = First]
    BY DEF Init
  <2>2. snd.off = 0 /\ snd.slen = 0
    BY <2>1 DEF Tcb
  <2>3. rcv.rcvd = <<>> /\ rcv.rread = 0
    BY <2>1 DEF Tcb
  <2> QED
    BY <2>2, <2>3 DEF Init, Stream!Init, Written
<1> QED
  BY <1>1, SpecInv, StepRefines, PTL DEF Spec, ImplementsStream, Stream!Spec
=============================================================================
