\* A readable event that outlives its connection.
CONSTANTS
  NWorkers = 1
  NSlots = 1
  MaxFd = 3
  MaxCommands = 1
  Methods <- OneGet
  Faults <- NoFaults
SPECIFICATION Spec
INVARIANT ResponseHasSocket
\* The client may come to rest: nothing more is typed and no server owes an answer.
CHECK_DEADLOCK FALSE
