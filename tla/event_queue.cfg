\* Both event queues and their searches, on a ring that wraps.
CONSTANTS
  e1 = e1
  e2 = e2
  e3 = e3
  e4 = e4
  Event <- MCEvent4
  NoEvent = NoEvent
  QueueMax = 3
  Outstanding = 3
SPECIFICATION Spec
INVARIANT TypeOK
INVARIANT MissesTheYoungest
INVARIANT NoStaleHit
PROPERTY ImplementsFifo
CHECK_DEADLOCK TRUE
