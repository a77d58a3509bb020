\* One worker, more commands than slots: the conn queue fills and drains behind it,
\* and a queued connection may be closed by its server and its slot look free.
CONSTANTS
  NWorkers = 1
  NSlots = 2
  MaxFd = 4
  MaxCommands = 3
  Methods <- ThreeDeletes
  Faults <- HangUps
SPECIFICATION FairSpec
INVARIANT TypeOK
INVARIANT DuplicatesAdjoin
PROPERTY QueueDrains
\* The client may come to rest: nothing more is typed and no server owes an answer.
CHECK_DEADLOCK FALSE
