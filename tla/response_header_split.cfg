\* A header that comes in two reads.
CONSTANTS
  Sessions <- OneLength
  Capacity = 48
  Pieces = {1, 4, 11, 13}
SPECIFICATION Spec
INVARIANT HeaderContinued
\* The last response of the slot has been read.
CHECK_DEADLOCK FALSE
