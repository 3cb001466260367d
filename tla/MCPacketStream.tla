--------------------------- MODULE MCPacketStream ---------------------------
(***************************************************************************)
(* Instances of PacketStream for TLC, with Crc16 to say which packets are  *)
(* intact.                                                                 *)
(***************************************************************************)
EXTENDS PacketStream, Crc16

Packet(bytes, genuine) ==
  [size |-> Len(bytes), declared |-> 256 * bytes[2] + bytes[3],
   intact |-> IsIntact(bytes), genuine |-> genuine]

\* A first byte, the length, a byte of data, and the CRC.
Good == <<87, 0, 6, 129, 211, 144>>
ASSUME IsIntact(Good)

\* A length by itself, behind any first byte, is no intact packet.
ASSUME \A b \in Byte : ~ IsIntact(<<b, 0, 3>>)

\* The first byte changed to anything, or two neighbours behind the length: one
\* to anything, the other to one of some.
SomeBytes == {0, 1, 128, 129, 144, 211, 255}
Changed ==
  ({[Good EXCEPT ![1] = a] : a \in Byte}
     \cup {[Good EXCEPT ![i] = a, ![i + 1] = b] : i \in {4, 5}, a \in Byte, b \in SomeBytes}
     \cup {[Good EXCEPT ![i] = b, ![i + 1] = a] : i \in {4, 5}, a \in Byte, b \in SomeBytes})
  \ {Good}

\* And one with nothing behind its length, and one that declares less than its
\* length bytes.  The changed ones are all alike if the CRC finds them all out.
SomePackets ==
  {Packet(Good, TRUE), Packet(<<87, 0, 3, 0>>, TRUE), Packet(<<87, 0, 1, 1, 208>>, TRUE)}
    \cup {[Packet(Good, FALSE) EXCEPT !.intact = b] : b \in {IsIntact(c) : c \in Changed}}
=============================================================================
