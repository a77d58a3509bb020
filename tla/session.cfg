\* Terminals, pipes and files; lines of every kind; two workers.
CONSTANTS
  NWorkers = 2
  Nobody = Nobody
  Words = {"c1", "c2"}
  Inputs <- AllInputs
  MaxEvents = 1
SPECIFICATION FairSpec
INVARIANT TypeOK
INVARIANT TakenInOrder
INVARIANT PatcherHasWorkspace
PROPERTY FlagsOnlyFall
PROPERTY WorkerLogs
PROPERTY LineTaken
PROPERTY QuitEnds
\* The user may stop typing, the session ends, and a thread may wait for ever.
CHECK_DEADLOCK FALSE
