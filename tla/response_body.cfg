\* Responses of every framing, read in pieces of every size; servers may break off.
CONSTANTS
  Sessions <- Reused
  Capacity = 48
  Pieces = {1, 4, 11, 13}
SPECIFICATION FairSpec
INVARIANT TypeOK
PROPERTY ImplementsTransfer
PROPERTY LoopEnds
\* The last response of the slot has been read.
CHECK_DEADLOCK FALSE
