\* One more event outstanding than the array has elements: 512 slots, 256 elements.
CONSTANTS
  e1 = e1
  e2 = e2
  e3 = e3
  e4 = e4
  Event <- MCEvent4
  NoEvent = NoEvent
  QueueMax = 3
  Outstanding = 4
SPECIFICATION Spec
PROPERTY ImplementsFifo
CHECK_DEADLOCK TRUE
