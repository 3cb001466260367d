\* Two packets behind the header, good ones and bad ones, in every division
\* into pieces, with silence or a close at any byte.
SPECIFICATION FairStreamSpec
CONSTANTS
  Packets <- SomePackets
  MaxPackets = 2
  Word = 32
INVARIANTS
  AcceptedAsWritten
  GoodPacketIsReadUnlessTorn
PROPERTIES
  ReadingEnds
\* The connection is closed, or a packet refused.
CHECK_DEADLOCK FALSE
