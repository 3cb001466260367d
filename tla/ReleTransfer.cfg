\* Results of none to eight rows in packets of three: less than a packet,
\* exactly one, more than one, more than two.
SPECIFICATION FairSpec
CONSTANTS
  Batch = 3
  Word <- SmallWord
  MaxRows = 8
INVARIANTS
  SmallTransferIsSafe
  AllRowsOrNone
  NoEmptySlot
PROPERTIES
  TransferEnds
\* The handler returns.
CHECK_DEADLOCK FALSE
