------------------------------ MODULE PacketCodec ------------------------------
(***************************************************************************)
(* TcpHeader, IPv4Header, their packets, their views and the checksums: the *)
(* way of a segment from the setters to the wire and back, and PacketDump,  *)
(* which cuts a capture of such datagrams into packets again.               *)
(*                                                                          *)
(* Headers and packets are sequences of bytes in network order, which is    *)
(* what the packed structs hold and serialize copies.  A 16-bit value is a  *)
(* number, a 32-bit value the pair of its halves.  Offsets count from 0, as *)
(* in the code.                                                             *)
(***************************************************************************)
EXTENDS Integers, Sequences
LOCAL INSTANCE SequencesExt

CONSTANTS Value16, Value32,  \* what the setters are called with, by width
          Bits,              \* values for the bit fields, cut to their width
          DataOffsets, IHLs, \* values for the two header lengths
          Payloads,
          Room,              \* the size of the output buffers
          MaxSets,           \* bound: setter calls per packet
          Copies, Cuts       \* bounds: whole packets in a capture, bytes after them

ASSUME WordsAssumption == /\ Value16 \subseteq 0 .. 2^16 - 1
                          /\ Value32 \subseteq (0 .. 2^16 - 1) \X (0 .. 2^16 - 1)
ASSUME BitsAssumption == Bits \subseteq Nat /\ DataOffsets \subseteq 0..15 /\ IHLs \subseteq 0..15
ASSUME SizesAssumption == Payloads \subseteq Seq(0..255) /\ Room \in 0 .. 2^16 - 1

VARIABLES tcp, ip,     \* the two headers
          last,        \* what each field was last set to
          sets,        \* setter calls so far
          payload,
          stage,       \* "building", "sent", "received", "dumping" or "dumped"
          summed,      \* was the segment written with its addresses
          datagram,    \* the bytes of the written packet
          received,    \* what process_incoming_packet_ makes of them
          capture      \* PacketDump: its input, where it is, what it has shown

vars == <<tcp, ip, last, sets, payload, stage, summed, datagram, received, capture>>

-----------------------------------------------------------------------------
(* Fields.                                                                  *)

BE16(b, off) == 256 * b[off + 1] + b[off + 2]
BE32(b, off) == <<BE16(b, off), BE16(b, off + 2)>>
Put16(b, off, v) == [b EXCEPT ![off + 1] = v \div 256, ![off + 2] = v % 256]
Put32(b, off, v) == Put16(Put16(b, off, v[1]), off + 2, v[2])

\* `width' bits from bit `lo' on of the 16-bit word at `off'.
GetBits(b, off, lo, width) == (BE16(b, off) \div 2^lo) % 2^width
PutBits_Clobbers(b, off, lo, width, v) == Put16(b, off, (v % 2^width) * 2^lo)
PutBits(b, off, lo, width, v) ==
    Put16(b, off, BE16(b, off) + ((v % 2^width) - GetBits(b, off, lo, width)) * 2^lo)

Word(off) == [off |-> off, lo |-> 0, width |-> 16]
Long(off) == [off |-> off, lo |-> 0, width |-> 32]
Part(off, lo, width) == [off |-> off, lo |-> lo, width |-> width]

TcpHeader ==
    [source_port |-> Word(0), dest_port |-> Word(2), seq_num |-> Long(4),
     ack_num |-> Long(8), data_offset |-> Part(12, 12, 4),
     urg |-> Part(12, 5, 1), ack |-> Part(12, 4, 1), psh |-> Part(12, 3, 1),
     rst |-> Part(12, 2, 1), syn |-> Part(12, 1, 1), fin |-> Part(12, 0, 1),
     window |-> Word(14), checksum |-> Word(16), urgent_pointer |-> Word(18)]

IPv4Header ==
    [version |-> Part(0, 12, 4), IHL |-> Part(0, 8, 4),
     type_of_service |-> Part(0, 0, 8), total_length |-> Word(2),
     identification |-> Word(4), flags |-> Part(6, 13, 3),
     fragment_offset |-> Part(6, 0, 13), ttl |-> Part(8, 8, 8),
     protocol |-> Part(8, 0, 8), checksum |-> Word(10),
     source_address |-> Long(12), destination_address |-> Long(16)]

Get(b, f) == IF f.width = 32 THEN BE32(b, f.off) ELSE GetBits(b, f.off, f.lo, f.width)
Set(b, f, v) == IF f.width = 32 THEN Put32(b, f.off, v)
                ELSE PutBits(b, f.off, f.lo, f.width, v)
Fields(b, header) == [f \in DOMAIN header |-> Get(b, header[f])]

-----------------------------------------------------------------------------
(* Checksums: the words are added up first, then the carries folded in.     *)

\* The last byte of an odd number is padded on the right with zeros.
WordSum_OddLeft(b) ==
    LET Sum[n \in 0 .. Len(b) \div 2] ==
            IF n = 0 THEN IF Len(b) % 2 = 1 THEN b[Len(b)] ELSE 0
            ELSE Sum[n - 1] + BE16(b, 2 * (n - 1))
    IN  Sum[Len(b) \div 2]
WordSum(b) ==
    LET Sum[n \in 0 .. Len(b) \div 2] ==
            IF n = 0 THEN IF Len(b) % 2 = 1 THEN 256 * b[Len(b)] ELSE 0
            ELSE Sum[n - 1] + BE16(b, 2 * (n - 1))
    IN  Sum[Len(b) \div 2]
Folded[s \in Nat] == IF s < 2^16 THEN s ELSE Folded[(s % 2^16) + (s \div 2^16)]

OnesComplementChecksum(b) == 65535 - Folded[WordSum(b)]
ComputeTcpChecksum(src, dst, header, data) ==
    65535 - Folded[src[1] + src[2] + dst[1] + dst[2] + 6
                   + ((Len(header) + Len(data)) % 2^16)
                   + WordSum(header) + WordSum(data)]

-----------------------------------------------------------------------------
(* Writing.  The output is the header's 20 bytes, with the payload copied   *)
(* in at the length the header claims; a gap keeps what the buffer held.    *)

Assemble(header, header_len, data, junk) ==
    [i \in 1 .. header_len + Len(data) |->
       IF i > header_len THEN data[i - header_len]
       ELSE IF i <= 20 THEN header[i] ELSE junk]

HeaderLen(words) == IF words > 0 THEN 4 * words ELSE 20

\* TcpPacket::write without addresses: the checksum stays as it was set.
TcpWriteBare(header, data, junk) ==
    LET header_len == HeaderLen(Get(header, TcpHeader.data_offset))
        hdr == IF Get(header, TcpHeader.data_offset) = 0
               THEN Set(header, TcpHeader.data_offset, 5) ELSE header
    IN  IF Room < header_len + Len(data) THEN <<>>
        ELSE Assemble(hdr, header_len, data, junk)

\* TcpPacket::write with addresses.
TcpWrite(header, src, dst, data, junk) ==
    LET header_len == HeaderLen(Get(header, TcpHeader.data_offset))
        sized == IF Get(header, TcpHeader.data_offset) = 0
                 THEN Set(header, TcpHeader.data_offset, 5) ELSE header
        cleared == Set(sized, TcpHeader.checksum, 0)
        hdr == Set(cleared, TcpHeader.checksum,
                   ComputeTcpChecksum(src, dst, cleared, data))
    IN  IF Room < header_len + Len(data) THEN <<>>
        ELSE Assemble(hdr, header_len, data, junk)

\* IPv4Packet::write.
Total_DataOnly(header_len, data) == Len(data)
Total(header_len, data) == header_len + Len(data)
IPv4Write(header, data, junk) ==
    LET header_len == HeaderLen(Get(header, IPv4Header.IHL))
        total == Total(header_len, data)
        sized == Set(header, IPv4Header.total_length, total)
        hdr == Set(sized, IPv4Header.checksum,
                   OnesComplementChecksum(Set(sized, IPv4Header.checksum, 0)))
    IN  IF Room < header_len + Len(data) THEN <<>>
        ELSE Assemble(hdr, header_len, data, junk)

-----------------------------------------------------------------------------
(* Reading.                                                                 *)

\* The getters of the two views, which read the bytes in place.
IPv4PacketView(b) == Fields(b, IPv4Header)
TcpPacketView(b) == Fields(b, TcpHeader)

\* IPv4PacketView::valid and payload, TcpPacketView::valid and payload.
IPv4Valid(b) ==
    /\ Len(b) >= 20
    /\ Get(b, IPv4Header.version) = 4
    /\ Get(b, IPv4Header.total_length) >= 4 * Get(b, IPv4Header.IHL)
    /\ Get(b, IPv4Header.total_length) <= Len(b)
IPv4Payload(b) ==
    SubSeq(b, 4 * Get(b, IPv4Header.IHL) + 1, Get(b, IPv4Header.total_length))
TcpValid(b) ==
    /\ Len(b) >= 20
    /\ 4 * Get(b, TcpHeader.data_offset) \in 20 .. Len(b)
TcpPayload(b) == SubSeq(b, 4 * Get(b, TcpHeader.data_offset) + 1, Len(b))

\* The head of process_incoming_packet_.
Dropped == [valid |-> FALSE]
Parsed(b) ==
    IF IPv4Valid(b) /\ TcpValid(IPv4Payload(b))
    THEN LET segment == IPv4Payload(b) IN
         [valid |-> TRUE, ip |-> IPv4PacketView(b),
          tcp |-> TcpPacketView(segment), payload |-> TcpPayload(segment)]
    ELSE Dropped

\* PacketDump shows the datagram its input begins with.
DumpPacket(b) == SubSeq(b, 1, Get(b, IPv4Header.total_length))

-----------------------------------------------------------------------------
(* Behaviour: headers are built with setters in any order, written, read.   *)

Zero == [i \in 1..20 |-> 0]
\* Every bit a setter could forget to clear is set; the lengths are sane.
Ones == [i \in 1..20 |-> 255]

\* write_packet_ before it fills in the addresses.
StackIp(h) == Set(Set(Set(Set(Set(h, IPv4Header.version, 4), IPv4Header.IHL, 5),
                  IPv4Header.ttl, 255), IPv4Header.protocol, 6),
                  IPv4Header.fragment_offset, 0)

NoCapture == [data |-> <<>>, offset |-> 0, shown |-> <<>>, packets |-> 0]

Start(h, p) ==
    /\ tcp = Set(h, TcpHeader.data_offset, 5)
    /\ ip = StackIp(h)
    /\ payload = p
    /\ last = [tcp |-> Fields(tcp, TcpHeader), ip |-> Fields(ip, IPv4Header)]
    /\ sets = 0 /\ stage = "building" /\ summed = FALSE
    /\ datagram = <<>> /\ received = Dropped /\ capture = NoCapture

Init == \E h \in {Zero, Ones}, p \in Payloads : Start(h, p)

Building == sets < MaxSets /\ stage = "building"
Values(header, f) ==
    IF header[f].width = 32 THEN Value32
    ELSE IF header[f].width = 16 THEN Value16
    ELSE CASE f = "data_offset" -> DataOffsets
           [] f = "IHL" -> IHLs
           [] f = "version" -> {4}
           [] OTHER -> {v % 2^header[f].width : v \in Bits}

SetTcp(f, v) ==
    /\ Building
    /\ tcp' = Set(tcp, TcpHeader[f], v)
    /\ last' = [last EXCEPT !.tcp[f] = v]
    /\ sets' = sets + 1
    /\ UNCHANGED <<ip, payload, stage, summed, datagram, received, capture>>

\* set_flags: the six control bits at once.
SetFlags(v) ==
    /\ Building
    /\ tcp' = PutBits(tcp, 12, 0, 6, v)
    /\ last' = [last EXCEPT !.tcp = [f \in DOMAIN TcpHeader |->
                  IF TcpHeader[f].off = 12 /\ TcpHeader[f].width = 1
                  THEN (v \div 2^TcpHeader[f].lo) % 2 ELSE @[f]]]
    /\ sets' = sets + 1
    /\ UNCHANGED <<ip, payload, stage, summed, datagram, received, capture>>

SetIp(f, v) ==
    /\ Building
    /\ ip' = Set(ip, IPv4Header[f], v)
    /\ last' = [last EXCEPT !.ip[f] = v]
    /\ sets' = sets + 1
    /\ UNCHANGED <<tcp, payload, stage, summed, datagram, received, capture>>

\* A test's own datagram, its segment written without addresses.
WriteBare ==
    /\ stage = "building" /\ stage' = "sent"
    /\ \E junk \in {0, 255} :
         datagram' = IPv4Write(ip, TcpWriteBare(tcp, payload, junk), junk)
    /\ UNCHANGED <<tcp, ip, last, sets, payload, summed, received, capture>>

write_packet_ ==
    /\ stage = "building" /\ stage' = "sent"
    /\ summed' = TRUE
    /\ \E junk \in {0, 255} :
         datagram' = IPv4Write(ip, TcpWrite(tcp, Get(ip, IPv4Header.source_address),
                                            Get(ip, IPv4Header.destination_address),
                                            payload, junk), junk)
    /\ UNCHANGED <<tcp, ip, last, sets, payload, received, capture>>

process_incoming_packet_ ==
    /\ stage = "sent" /\ stage' = "received"
    /\ received' = Parsed(datagram)
    /\ UNCHANGED <<tcp, ip, last, sets, payload, summed, datagram, capture>>

-----------------------------------------------------------------------------
(* PacketDump.  A capture file holds the datagram n times and perhaps the   *)
(* beginning of another copy.                                               *)

built == <<tcp, ip, last, sets, payload, summed, datagram, received>>

OpenCapture(n, cut) ==
    /\ stage = "received" /\ stage' = "dumping"
    /\ cut = 0 \/ cut < Len(datagram)
    /\ capture' = [NoCapture EXCEPT
         !.data = FlattenSeq([i \in 1..n |-> datagram]) \o SubSeq(datagram, 1, cut),
         !.packets = IF datagram = <<>> THEN 0 ELSE n]
    /\ UNCHANGED built

Rest == SubSeq(capture.data, capture.offset + 1, Len(capture.data))

\* One turn of the loop of DumpFromFile.
DumpFromFile_SkipsPayload ==
    /\ stage = "dumping" /\ IPv4Valid(Rest)
    /\ capture' = [capture EXCEPT !.shown = Append(@, DumpPacket(Rest)),
                                  !.offset = @ + Len(IPv4Payload(Rest))]
    /\ UNCHANGED <<stage, built>>
DumpFromFile ==
    /\ stage = "dumping" /\ IPv4Valid(Rest)
    /\ capture' = [capture EXCEPT !.shown = Append(@, DumpPacket(Rest)),
                                  !.offset = @ + Get(Rest, IPv4Header.total_length)]
    /\ UNCHANGED <<stage, built>>

\* The end of the file, or bytes that are no packet.
DumpEnds ==
    /\ stage = "dumping" /\ ~ IPv4Valid(Rest)
    /\ stage' = "dumped"
    /\ UNCHANGED <<capture, built>>

\* One turn of the loop of DumpFromTun: a read returns one datagram, or nothing.
DumpFromTun ==
    /\ stage = "received" /\ stage' = "dumped"
    /\ capture' = [NoCapture EXCEPT
         !.shown = IF IPv4Valid(datagram) THEN <<DumpPacket(datagram)>> ELSE <<>>,
         !.packets = IF datagram = <<>> THEN 0 ELSE 1]
    /\ UNCHANGED built

Next == \/ \E f \in DOMAIN TcpHeader : \E v \in Values(TcpHeader, f) : SetTcp(f, v)
        \/ \E f \in DOMAIN IPv4Header : \E v \in Values(IPv4Header, f) : SetIp(f, v)
        \/ \E v \in Bits : SetFlags(v)
        \/ write_packet_ \/ WriteBare
        \/ process_incoming_packet_
        \/ \E cut \in Cuts : OpenCapture(Copies, cut)
        \/ DumpFromFile \/ DumpEnds \/ DumpFromTun

Spec == Init /\ [][Next]_vars

-----------------------------------------------------------------------------
(* Properties.                                                              *)

\* Whatever setters are called in whatever order, every getter returns what its
\* field was last set to: no setter of a shared word disturbs its neighbours.
FieldsAsSet == /\ Fields(tcp, TcpHeader) = last.tcp
               /\ Fields(ip, IPv4Header) = last.ip

\* What TcpPacket::write, IPv4Packet::write and the two views make of a packet
\* is that packet, or, if it does not fit the output buffer, nothing.
Computed == {"checksum", "data_offset", "total_length"}
Same(a, b) == \A f \in DOMAIN a \ Computed : a[f] = b[f]
RoundTrip ==
    stage = "received" =>
      IF Room < 40 + Len(payload) THEN ~ received.valid
      ELSE /\ received.valid
           /\ Same(received.tcp, last.tcp) /\ Same(received.ip, last.ip)
           /\ ~ summed => received.tcp.checksum = last.tcp.checksum
           /\ received.payload = payload

\* The checksum of RFC 1071, one end-around carry at a time, over all bytes.
RfcSum(b) ==
    LET padded == IF Len(b) % 2 = 1 THEN Append(b, 0) ELSE b
        Plus(x, y) == IF x + y > 65535 THEN x + y - 65535 ELSE x + y
        Sum[n \in 0 .. Len(padded) \div 2] ==
            IF n = 0 THEN 0 ELSE Plus(Sum[n - 1], BE16(padded, 2 * (n - 1)))
    IN  Sum[Len(padded) \div 2]

\* "automatically computing the full RFC 793 TCP checksum" (TcpPacket.h:354): a
\* receiver that sums a written datagram as RFC 793 and RFC 791 say, pseudo-header
\* and checksum fields included, gets all ones for both headers.
ChecksumsVerify ==
    datagram # <<>> =>
      LET segment == IPv4Payload(datagram)
          pseudo == SubSeq(datagram, 13, 20)
                    \o <<0, 6, Len(segment) \div 256, Len(segment) % 256>>
      IN  /\ RfcSum(SubSeq(datagram, 1, 20)) = 65535
          /\ summed => RfcSum(pseudo \o segment) = 65535

\* "Reads packets until EOF, one full IP datagram at a time" (PacketDump.cpp:44):
\* when PacketDump ends it has shown every whole packet of its input, in full
\* and in order, and nothing of a packet that is cut off.
CaptureReplayed ==
    stage = "dumped" => capture.shown = [i \in 1..capture.packets |-> datagram]
=============================================================================
