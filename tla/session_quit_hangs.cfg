\* A session is ended while a worker waits for its server.
CONSTANTS
  NWorkers = 1
  Nobody = Nobody
  Words = {"c1"}
  Inputs <- OneExchange
  MaxEvents = 1
SPECIFICATION FairSpec
PROPERTY Terminates
\* The user may stop typing, the session ends, and a thread may wait for ever.
CHECK_DEADLOCK FALSE
