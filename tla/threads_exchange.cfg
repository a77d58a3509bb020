\* Two exchanges side by side, a get and a put, with every fault.
CONSTANTS
  NWorkers = 2
  NSlots = 2
  MaxFd = 4
  MaxCommands = 2
  Methods <- GetThenPut
  Faults <- AllFaults
SPECIFICATION Spec
INVARIANT UniqueSockets
INVARIANT HeldOnce
INVARIANT RequestSent
INVARIANT WatchedHasSlot
INVARIANT ReservationSafe
PROPERTY Undisturbed
\* The client may come to rest: nothing more is typed and no server owes an answer.
CHECK_DEADLOCK FALSE
