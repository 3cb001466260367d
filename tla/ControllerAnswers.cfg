\* Two controllers, two changes of the tables, two faults; numbers that fit,
\* reach into the next field and leave the packet.
SPECIFICATION FairSpec
CONSTANTS
  s1 = s1
  s2 = s2
  Sockets <- TwoSockets
  FoneLengths = {14, 18}
  Configured = {0, 12}
  MaxChanges = 2
  MaxFaults = 2
INVARIANTS
  OneState
  FieldsAreWhole
PROPERTIES
  ChangeIsSeen
