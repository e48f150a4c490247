----------------------------- MODULE MCPacketCodec -----------------------------
(* PacketCodec with boundary values.                                        *)
EXTENDS PacketCodec

\* All bits, none, and both sides of the byte boundary.
Words == {0, 255, 65280, 65535}
Longs == {<<0, 0>>, <<65535, 65535>>, <<2560, 2>>}
Patterns == {0, 21, 42, 65535}

\* Empty, even and odd lengths; the longest does not fit the buffer.
Contents == {<<>>, <<255>>, <<1, 2>>, <<255, 255, 255>>, <<0, 0, 0, 0, 0>>}
=============================================================================
