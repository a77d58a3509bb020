\* What is queued while the last busy worker goes to rest.
CONSTANTS
  NWorkers = 1
  NSlots = 2
  MaxFd = 4
  MaxCommands = 2
  Methods <- TwoGets
  Faults <- NoFaults
SPECIFICATION FairSpec
PROPERTY EventDequeued
\* The client may come to rest: nothing more is typed and no server owes an answer.
CHECK_DEADLOCK FALSE
