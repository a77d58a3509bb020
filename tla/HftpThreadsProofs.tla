----------------------------- MODULE HftpThreadsProofs -----------------------------
(*******************************************************************************)
(* Theorems of HftpThreads, for every number of workers, slots, descriptors and *)
(* commands, and under every fault:                                            *)
(*   TypeCorrect          Spec => []TypeOK                                     *)
(*   ReservationIsSafe    Spec => []ReservationSafe                            *)
(*   WorkersUndisturbed   Spec => Undisturbed                                  *)
(* TypeInv strengthens TypeOK to an inductive invariant, ReservationInv         *)
(* strengthens ReservationSafe to one relative to TypeInv.                     *)
(*******************************************************************************)
EXTENDS HftpThreads, FiniteSetTheorems, WellFoundedInduction, TLAPS

\* Where the patcher has a descriptor in hand, where it also has a slot, and where
\* a worker uses its connection.
ActiveLabels == {"scan", "scan_worker", "scan_queue", "scan_loop", "register",
                 "reserve", "enq_conn", "ev_worker", "ev_queue", "ev_search",
                 "ev_idle", "ev_assign", "ev_flag", "ev_enq"}
SlotLabels == {"scan_worker", "scan_queue", "scan_loop", "register", "reserve",
               "enq_conn"}
ConnLabels == {"req_write", "resp_read", "close", "clear_sock"}

\* What is in hand at these places, and that whoever is flagged has been told
\* what to run, is in order.
FdPlaced == ppc \in ActiveLabels => fd \in Fds
SlotPlaced == ppc \in SlotLabels => slot \in Slots
Assigned ==
  /\ \A w \in flag : http_process[w] # "null"
  /\ ppc = "ev_flag" => http_process[target] # "null"
ConnPlaced == \A w \in Workers : wpc[w] \in ConnLabels => conn[w] \in Slots
Placed == FdPlaced /\ SlotPlaced /\ Assigned /\ ConnPlaced

\* The lock of the epoll queue: one worker at a time is inside of a dequeue.
TakingPlaced ==
  \A w \in Workers : wpc[w] = "deq_start" =>
    taking \in Fds /\ \A v \in Workers : wpc[v] = "deq_start" => v = w

TypeInv == TypeOK /\ Placed /\ TakingPlaced

\* Every nonempty set of integers of an interval has a least element: of the
\* intervals a .. x that end in T, one has none of the others below it.
LEMMA LeastElement ==
  ASSUME NEW a \in Int, NEW b \in Int, NEW T, T \subseteq a .. b, T # {}
  PROVE  Min(T) \in T /\ \A y \in T : Min(T) <= y
<1> DEFINE Below(x) == a .. x
           C == {Below(x) : x \in T}
<1>1. IsFiniteSet(a .. b)
  BY FS_Interval
<1>2. IsWellFoundedOn(StrictSubsetOrdering(a .. b), FiniteSubsetsOf(a .. b))
  BY FS_StrictSubsetOrderingWellFounded
<1>3. C \subseteq FiniteSubsetsOf(a .. b) /\ C # {}
  <2>1. ASSUME NEW x \in T PROVE Below(x) \in FiniteSubsetsOf(a .. b)
    <3>1. x \in Int /\ a <= x /\ x <= b
      OBVIOUS
    <3>2. Below(x) \subseteq a .. b
      BY <3>1
    <3>3. IsFiniteSet(Below(x))
      BY <3>1, FS_Interval
    <3>4. QED
      BY <3>2, <3>3 DEF FiniteSubsetsOf
  <2>2. QED
    BY <2>1
<1>4. PICK D \in C : \A E \in C : <<E, D>> \notin StrictSubsetOrdering(a .. b)
  <2> HIDE DEF C
  <2>1. QED
    BY <1>2, <1>3, WFMin
<1>5. PICK x \in T : D = Below(x)
  OBVIOUS
<1>6. ASSUME NEW y \in T, y < x PROVE FALSE
  <2>1. Below(y) \subseteq Below(x) /\ x \in Below(x) /\ x \notin Below(y)
    BY <1>6
  <2>2. <<Below(y), Below(x)>> \in StrictSubsetOrdering(a .. b)
    BY <2>1 DEF StrictSubsetOrdering
  <2>3. QED
    BY <2>2, <1>4, <1>5
<1>7. \A y \in T : x <= y
  BY <1>6
<1>8. QED
  BY <1>7 DEF Min

\* get_idle_work_thread_index_not_safety, when it finds a thread.
LEMMA LowestIdle ==
  ASSUME Idle # {}
  PROVE  Min(Idle) \in Workers \ flag
<1>1. 0 \in Int /\ NWorkers - 1 \in Int
  BY ThreadsAssumption
<1>2. Idle \subseteq 0 .. NWorkers - 1
  BY DEF Idle, Workers
<1>3. Min(Idle) \in Idle
  BY <1>1, <1>2, LeastElement, Zenon
<1>4. QED
  BY <1>3 DEF Idle

\* The first slot with a given socket is a slot with that socket, and none before
\* it has it.
LEMMA LowestSlot ==
  ASSUME NEW f, SlotsOf(f) # {}
  PROVE  /\ Min(SlotsOf(f)) \in Slots /\ sockfd[Min(SlotsOf(f))] = f
         /\ \A s \in Slots : sockfd[s] = f => Min(SlotsOf(f)) <= s
<1>1. 0 \in Int /\ NSlots - 1 \in Int
  BY ThreadsAssumption
<1>2. SlotsOf(f) \subseteq 0 .. NSlots - 1
  BY DEF SlotsOf, Slots
<1>3. Min(SlotsOf(f)) \in SlotsOf(f) /\ \A s \in SlotsOf(f) : Min(SlotsOf(f)) <= s
  BY <1>1, <1>2, LeastElement, Zenon
<1>4. QED
  BY <1>3 DEF SlotsOf

\* The descriptor that socket returns is one the process may open, and was free.
LEMMA LowestFree ==
  ASSUME Free # {}
  PROVE  Min(Free) \in Fds /\ wire[Min(Free)] = "free"
<1>1. 3 \in Int /\ MaxFd \in Int
  BY ThreadsAssumption
<1>2. Free \subseteq 3 .. MaxFd
  BY DEF Free, Fds
<1>3. Min(Free) \in Free
  BY <1>1, <1>2, LeastElement, Zenon
<1>4. QED
  BY <1>3 DEF Free

\* Where the search of the conn queue first meets a slot.
LEMMA PlaceIsNat ==
  ASSUME TypeOK, NEW s
  PROVE  PlaceOf(s) \in Nat
<1>1. CASE Queued(s)
  <2> DEFINE n == Len(connq)
             K == {k \in 1 .. n : connq[k].slot = s}
  <2>1. n \in Int /\ 1 \in Int
    BY DEF TypeOK, QueueType
  <2>2. K \subseteq 1 .. n /\ K # {}
    BY <1>1 DEF Queued
  <2>3. Min(K) \in K
    <3> HIDE DEF K, n
    <3>1. QED
      BY <2>1, <2>2, LeastElement, Zenon
  <2>4. PlaceOf(s) = Min(K)
    BY <1>1 DEF PlaceOf
  <2>5. QED
    BY <2>1, <2>2, <2>3, <2>4
<1>2. CASE ~Queued(s)
  BY <1>2 DEF PlaceOf
<1>3. QED
  BY <1>1, <1>2

(* The initial state. *)
LEMMA TypeInit == Init => TypeInv
<1> SUFFICES ASSUME Init PROVE TypeInv
  OBVIOUS
<1>5. QueueType
  <2>1. connq = <<>> /\ epq = <<>> /\ taking = None /\ crossed = FALSE
    BY DEF Init
  <2>2. <<>> \in Seq(ConnEvent) /\ <<>> \in Seq(Fds)
    OBVIOUS
  <2>3. QED
    BY <2>1, <2>2 DEF QueueType
<1> USE ThreadsAssumption DEF Init, PatcherInit, WorkspaceInit, Workers, Slots, Fds, Stdin, None
<1>1. PatcherType
  BY DEF PatcherType, PatcherLabels, MethodNames
<1>2. WorkerType
  BY DEF WorkerType, WorkerLabels
<1>3. WorkspaceType
  BY DEF WorkspaceType
<1>4. SlotType
  BY DEF SlotType, MethodNames, SentMax
<1>6. WorldType
  BY DEF WorldType
<1>7. Placed
  BY DEF Placed, FdPlaced, SlotPlaced, Assigned, ConnPlaced, ActiveLabels, SlotLabels,
         ConnLabels
<1>8. TakingPlaced
  BY DEF TakingPlaced
<1>9. QED
  BY <1>1, <1>2, <1>3, <1>4, <1>5, <1>6, <1>7, <1>8 DEF TypeInv, TypeOK

(* What a step leaves alone keeps its part of the invariant. *)
LEMMA Frames ==
  ASSUME TypeInv
  PROVE  /\ UNCHANGED <<ppc, batch, fd, asked, slot, th, target, place, cnt>> =>
              PatcherType' /\ FdPlaced' /\ SlotPlaced'
         /\ UNCHANGED <<wpc, auto, eev, conn>> => WorkerType' /\ ConnPlaced'
         /\ UNCHANGED <<http_process, conn_index, chunk, flag>> => WorkspaceType'
         /\ UNCHANGED <<sockfd, state, method, clb, sent>> => SlotType'
         /\ UNCHANGED <<connq, epq, taking, crossed>> => QueueType'
         /\ UNCHANGED <<wire, registered, typed, outcome>> => WorldType'
         /\ UNCHANGED <<http_process, flag, ppc, target>> => Assigned'
         /\ UNCHANGED <<http_process, flag>> /\ ppc' # "ev_flag" => Assigned'
<1> USE DEF TypeInv, TypeOK, Placed
<1>1. UNCHANGED <<ppc, batch, fd, asked, slot, th, target, place, cnt>> =>
        PatcherType' /\ FdPlaced' /\ SlotPlaced'
  BY DEF PatcherType, FdPlaced, SlotPlaced
<1>2. UNCHANGED <<wpc, auto, eev, conn>> => WorkerType' /\ ConnPlaced'
  BY DEF WorkerType, ConnPlaced
<1>3. UNCHANGED <<http_process, conn_index, chunk, flag>> => WorkspaceType'
  BY DEF WorkspaceType
<1>4. UNCHANGED <<sockfd, state, method, clb, sent>> => SlotType'
  BY DEF SlotType
<1>5. UNCHANGED <<connq, epq, taking, crossed>> => QueueType'
  BY DEF QueueType
<1>6. UNCHANGED <<wire, registered, typed, outcome>> => WorldType'
  BY DEF WorldType
<1>7. UNCHANGED <<http_process, flag, ppc, target>> => Assigned'
  BY DEF Assigned
<1>8. UNCHANGED <<http_process, flag>> /\ ppc' # "ev_flag" => Assigned'
  BY DEF Assigned
<1>9. QED
  BY <1>1, <1>2, <1>3, <1>4, <1>5, <1>6, <1>7, <1>8

(* Every step of the patcher. *)
LEMMA TypePatcher ==
  ASSUME TypeInv, PatcherStep \/ WaitInput \/ WaitFails
  PROVE  TypeOK' /\ Placed'
<1> USE DEF TypeInv, TypeOK, Placed
<1>1. CASE WaitSockets
  <2>1. PatcherType' /\ FdPlaced' /\ SlotPlaced'
    BY <1>1 DEF WaitSockets, PatcherType, FdPlaced, SlotPlaced, PatcherLabels,
         ActiveLabels, SlotLabels, PatcherAt, PatcherGoes, Readable, Stdin,
         WorldType
  <2>2. QED
    BY <1>1, <2>1, Frames DEF WaitSockets, workerVars, workspaceVars, slotVars,
         queueVars, worldVars, CommandDone, PatcherDone, PatcherAt, PatcherGoes
<1>2. CASE NextEvent
  <2>1. PatcherType' /\ FdPlaced' /\ SlotPlaced'
    BY <1>2, ThreadsAssumption DEF NextEvent, PatcherType, FdPlaced, SlotPlaced,
         PatcherLabels, ActiveLabels, SlotLabels, PatcherAt, PatcherGoes, Stdin,
         WorldType
  <2>2. QED
    BY <1>2, <2>1, Frames DEF NextEvent, workerVars, workspaceVars, slotVars,
         queueVars, worldVars, CommandDone, PatcherDone, PatcherAt, PatcherGoes
<1>3. CASE RejectCommand
  <2>1. PatcherType' /\ FdPlaced' /\ SlotPlaced'
    BY <1>3, ThreadsAssumption DEF RejectCommand, PatcherType, FdPlaced,
         SlotPlaced, PatcherLabels, ActiveLabels, SlotLabels, PatcherAt,
         PatcherGoes, CommandDone, None, MethodNames, Workers
  <2>2. WorldType'
    BY <1>3, ThreadsAssumption DEF RejectCommand, WorldType
  <2>3. QED
    BY <1>3, <2>1, <2>2, Frames DEF RejectCommand, workerVars, workspaceVars,
         slotVars, queueVars, worldVars, CommandDone, PatcherDone, PatcherAt,
         PatcherGoes
<1>4. CASE \E m \in MethodNames : Connect(m)
  <2>1. PatcherType' /\ FdPlaced' /\ SlotPlaced'
    BY <1>4, LowestFree, ThreadsAssumption DEF Connect, PatcherType, FdPlaced,
         SlotPlaced, PatcherLabels, ActiveLabels, SlotLabels, PatcherAt,
         PatcherGoes
  <2>2. WorldType'
    BY <1>4, LowestFree, ThreadsAssumption DEF Connect, WorldType
  <2>3. QED
    BY <1>4, <2>1, <2>2, Frames DEF Connect, workerVars, workspaceVars, slotVars,
         queueVars, worldVars, CommandDone, PatcherDone, PatcherAt, PatcherGoes
<1>5. CASE EndLine
  <2>1. PatcherType' /\ FdPlaced' /\ SlotPlaced'
    BY <1>5 DEF EndLine, PatcherType, FdPlaced, SlotPlaced, PatcherLabels,
         ActiveLabels, SlotLabels, PatcherAt, PatcherGoes
  <2>2. QED
    BY <1>5, <2>1, Frames DEF EndLine, workerVars, workspaceVars, slotVars,
         queueVars, worldVars, CommandDone, PatcherDone, PatcherAt, PatcherGoes
<1>6. CASE ScanSlot
  <2>1. PatcherType' /\ FdPlaced' /\ SlotPlaced'
    BY <1>6, ThreadsAssumption DEF ScanSlot, PatcherType, FdPlaced, SlotPlaced,
         PatcherLabels, ActiveLabels, SlotLabels, PatcherAt, PatcherGoes,
         CommandDone, None, MethodNames, Workers, Slots
  <2>2. QED
    BY <1>6, <2>1, Frames DEF ScanSlot, workerVars, workspaceVars, slotVars,
         queueVars, worldVars, CommandDone, PatcherDone, PatcherAt, PatcherGoes
<1>7. CASE ScanWorker
  <2>1. PatcherType' /\ FdPlaced' /\ SlotPlaced'
    BY <1>7, ThreadsAssumption DEF ScanWorker, PatcherType, FdPlaced, SlotPlaced,
         PatcherLabels, ActiveLabels, SlotLabels, PatcherAt, PatcherGoes, Workers,
         Slots
  <2>2. QED
    BY <1>7, <2>1, Frames DEF ScanWorker, workerVars, workspaceVars, slotVars,
         queueVars, worldVars, CommandDone, PatcherDone, PatcherAt, PatcherGoes
<1>8. CASE SkipQueuedSlot
  <2>1. PatcherType' /\ FdPlaced' /\ SlotPlaced'
    BY <1>8, ThreadsAssumption DEF SkipQueuedSlot, PatcherType, FdPlaced,
         SlotPlaced, PatcherLabels, ActiveLabels, SlotLabels, PatcherAt,
         PatcherGoes, Workers, Slots
  <2>2. QED
    BY <1>8, <2>1, Frames DEF SkipQueuedSlot, workerVars, workspaceVars, slotVars,
         queueVars, worldVars, CommandDone, PatcherDone, PatcherAt, PatcherGoes
<1>9. CASE ClaimSlot
  <2>1. PatcherType' /\ FdPlaced' /\ SlotPlaced'
    BY <1>9 DEF ClaimSlot, PatcherType, FdPlaced, SlotPlaced, PatcherLabels,
         ActiveLabels, SlotLabels, PatcherAt, PatcherGoes
  <2>2. SlotType'
    BY <1>9 DEF ClaimSlot, SlotType, PatcherType, FdPlaced, SlotPlaced,
         ActiveLabels, SlotLabels, SentMax, PatcherAt
  <2>3. QED
    BY <1>9, <2>1, <2>2, Frames DEF ClaimSlot, workerVars, workspaceVars,
         slotVars, queueVars, worldVars, CommandDone, PatcherDone, PatcherAt,
         PatcherGoes
<1>10. CASE Register
  <2>1. PatcherType' /\ FdPlaced' /\ SlotPlaced'
    BY <1>10, ThreadsAssumption DEF Register, PatcherType, FdPlaced, SlotPlaced,
         PatcherLabels, ActiveLabels, SlotLabels, PatcherAt, PatcherGoes,
         CommandDone, None, MethodNames, Workers
  <2>2. WorldType'
    BY <1>10 DEF Register, WorldType, FdPlaced, ActiveLabels, PatcherAt
  <2>3. QED
    BY <1>10, <2>1, <2>2, Frames DEF Register, workerVars, workspaceVars,
         slotVars, queueVars, worldVars, CommandDone, PatcherDone, PatcherAt,
         PatcherGoes
<1>11. CASE Reserve
  <2>1. PatcherType' /\ FdPlaced' /\ SlotPlaced'
    BY <1>11, LowestIdle DEF Reserve, PatcherType, FdPlaced, SlotPlaced,
         PatcherLabels, ActiveLabels, SlotLabels, PatcherAt, PatcherGoes
  <2>2. WorkspaceType'
    BY <1>11, LowestIdle DEF Reserve, WorkspaceType, SlotPlaced, SlotLabels,
         PatcherAt
  <2>3. SlotType'
    BY <1>11, LowestIdle DEF Reserve, ParamSet, SlotType, SlotPlaced, SlotLabels,
         PatcherAt
  <2>4. Assigned'
    BY <1>11, LowestIdle DEF Reserve, Assigned, WorkspaceType
  <2>5. QED
    BY <1>11, <2>1, <2>2, <2>3, <2>4, Frames DEF Reserve, workerVars,
         workspaceVars, slotVars, queueVars, worldVars, CommandDone, PatcherDone,
         PatcherAt, PatcherGoes
<1>12. CASE NoneIdle
  <2>1. PatcherType' /\ FdPlaced' /\ SlotPlaced'
    BY <1>12 DEF NoneIdle, PatcherType, FdPlaced, SlotPlaced, PatcherLabels,
         ActiveLabels, SlotLabels, PatcherAt, PatcherGoes
  <2>2. QED
    BY <1>12, <2>1, Frames DEF NoneIdle, workerVars, workspaceVars, slotVars,
         queueVars, worldVars, CommandDone, PatcherDone, PatcherAt, PatcherGoes
<1>13. CASE CommandSignal
  <2>1. PatcherType' /\ FdPlaced' /\ SlotPlaced'
    BY <1>13, ThreadsAssumption DEF CommandSignal, PatcherType, FdPlaced,
         SlotPlaced, PatcherLabels, ActiveLabels, SlotLabels, PatcherAt,
         PatcherGoes, CommandDone, None, MethodNames, Workers
  <2>2. WorkerType' /\ ConnPlaced'
    BY <1>13 DEF CommandSignal, WorkerType, ConnPlaced, ConnLabels, Signalled,
         WorkerLabels, PatcherType
  <2>3. QED
    BY <1>13, <2>1, <2>2, Frames DEF CommandSignal, workerVars, workspaceVars,
         slotVars, queueVars, worldVars, CommandDone, PatcherDone, PatcherAt,
         PatcherGoes
<1>14. CASE EnqueueConn
  <2>1. PatcherType' /\ FdPlaced' /\ SlotPlaced'
    BY <1>14, ThreadsAssumption DEF EnqueueConn, PatcherType, FdPlaced,
         SlotPlaced, PatcherLabels, ActiveLabels, SlotLabels, PatcherAt,
         PatcherGoes, CommandDone, None, MethodNames, Workers
  <2>2. QueueType'
    BY <1>14 DEF EnqueueConn, QueueType, ConnEvent, FdPlaced, SlotPlaced,
         ActiveLabels, SlotLabels, PatcherAt
  <2>3. QED
    BY <1>14, <2>1, <2>2, Frames DEF EnqueueConn, workerVars, workspaceVars,
         slotVars, queueVars, worldVars, CommandDone, PatcherDone, PatcherAt,
         PatcherGoes
<1>15. CASE EventWorker
  <2>1. PatcherType' /\ FdPlaced' /\ SlotPlaced'
    BY <1>15, ThreadsAssumption DEF EventWorker, PatcherType, FdPlaced,
         SlotPlaced, PatcherLabels, ActiveLabels, SlotLabels, PatcherAt,
         PatcherGoes, PatcherDone, None, Workers
  <2>2. QED
    BY <1>15, <2>1, Frames DEF EventWorker, workerVars, workspaceVars, slotVars,
         queueVars, worldVars, CommandDone, PatcherDone, PatcherAt, PatcherGoes
<1>16. CASE EventQueued
  <2>1. PatcherType' /\ FdPlaced' /\ SlotPlaced'
    BY <1>16, ThreadsAssumption DEF EventQueued, PatcherType, FdPlaced,
         SlotPlaced, PatcherLabels, ActiveLabels, SlotLabels, PatcherAt,
         PatcherGoes, PatcherDone, None, Workers
  <2>2. QED
    BY <1>16, <2>1, Frames DEF EventQueued, workerVars, workspaceVars, slotVars,
         queueVars, worldVars, CommandDone, PatcherDone, PatcherAt, PatcherGoes
<1>17. CASE EventIdle
  <2>1. PatcherType' /\ FdPlaced' /\ SlotPlaced'
    BY <1>17, LowestIdle DEF EventIdle, PatcherType, FdPlaced, SlotPlaced,
         PatcherLabels, ActiveLabels, SlotLabels, PatcherAt, PatcherGoes
  <2>2. QED
    BY <1>17, <2>1, Frames DEF EventIdle, workerVars, workspaceVars, slotVars,
         queueVars, worldVars, CommandDone, PatcherDone, PatcherAt, PatcherGoes
<1>18. CASE EventAssign
  <2>1. PatcherType' /\ FdPlaced' /\ SlotPlaced'
    BY <1>18 DEF EventAssign, PatcherType, FdPlaced, SlotPlaced, PatcherLabels,
         ActiveLabels, SlotLabels, PatcherAt, PatcherGoes
  <2>2. WorkspaceType'
    BY <1>18, LowestSlot DEF EventAssign, WorkspaceType, PatcherType
  <2>3. Assigned'
    BY <1>18 DEF EventAssign, Assigned, WorkspaceType, PatcherType
  <2>4. QueueType'
    BY <1>18 DEF EventAssign, QueueType
  <2>5. QED
    BY <1>18, <2>1, <2>2, <2>3, <2>4, Frames DEF EventAssign, workerVars, workspaceVars,
         slotVars, queueVars, worldVars, CommandDone, PatcherDone, PatcherAt,
         PatcherGoes
<1>19. CASE EventFlag
  <2>1. PatcherType' /\ FdPlaced' /\ SlotPlaced'
    BY <1>19 DEF EventFlag, PatcherType, FdPlaced, SlotPlaced, PatcherLabels,
         ActiveLabels, SlotLabels, PatcherAt, PatcherGoes
  <2>2. WorkspaceType'
    BY <1>19 DEF EventFlag, WorkspaceType, PatcherType, workspaceVars
  <2>3. Assigned'
    BY <1>19 DEF EventFlag, Assigned, PatcherAt, workspaceVars
  <2>4. QED
    BY <1>19, <2>1, <2>2, <2>3, Frames DEF EventFlag, workerVars, workspaceVars,
         slotVars, queueVars, worldVars, CommandDone, PatcherDone, PatcherAt,
         PatcherGoes
<1>20. CASE EventSignal
  <2>1. PatcherType' /\ FdPlaced' /\ SlotPlaced'
    BY <1>20, ThreadsAssumption DEF EventSignal, PatcherType, FdPlaced,
         SlotPlaced, PatcherLabels, ActiveLabels, SlotLabels, PatcherAt,
         PatcherGoes, PatcherDone, None, Workers
  <2>2. WorkerType' /\ ConnPlaced'
    BY <1>20 DEF EventSignal, WorkerType, ConnPlaced, ConnLabels, Signalled,
         WorkerLabels, PatcherType
  <2>3. QED
    BY <1>20, <2>1, <2>2, Frames DEF EventSignal, workerVars, workspaceVars,
         slotVars, queueVars, worldVars, CommandDone, PatcherDone, PatcherAt,
         PatcherGoes
<1>21. CASE EnqueueEpoll
  <2>1. PatcherType' /\ FdPlaced' /\ SlotPlaced'
    BY <1>21, ThreadsAssumption DEF EnqueueEpoll, PatcherType, FdPlaced,
         SlotPlaced, PatcherLabels, ActiveLabels, SlotLabels, PatcherAt,
         PatcherGoes, PatcherDone, None, Workers
  <2>2. QueueType'
    BY <1>21 DEF EnqueueEpoll, QueueType, FdPlaced, ActiveLabels, PatcherAt
  <2>3. QED
    BY <1>21, <2>1, <2>2, Frames DEF EnqueueEpoll, workerVars, workspaceVars,
         slotVars, queueVars, worldVars, CommandDone, PatcherDone, PatcherAt,
         PatcherGoes
<1>22. CASE WaitInput
  <2>1. PatcherType' /\ FdPlaced' /\ SlotPlaced'
    BY <1>22 DEF WaitInput, PatcherType, FdPlaced, SlotPlaced, PatcherLabels,
         ActiveLabels, SlotLabels, PatcherAt, PatcherGoes, Readable, Stdin,
         WorldType
  <2>2. QED
    BY <1>22, <2>1, Frames DEF WaitInput, workerVars, workspaceVars, slotVars,
         queueVars, worldVars, CommandDone, PatcherDone, PatcherAt, PatcherGoes
<1>23. CASE WaitFails
  <2>1. PatcherType' /\ FdPlaced' /\ SlotPlaced'
    BY <1>23 DEF WaitFails, PatcherType, FdPlaced, SlotPlaced, PatcherLabels,
         ActiveLabels, SlotLabels, PatcherAt, PatcherGoes
  <2>2. QED
    BY <1>23, <2>1, Frames DEF WaitFails, workerVars, workspaceVars, slotVars,
         queueVars, worldVars, CommandDone, PatcherDone, PatcherAt, PatcherGoes
<1>24. CASE SearchConnQueue
  <2>1. PlaceOf(slot) \in Nat
    BY PlaceIsNat
  <2>2. PatcherType' /\ FdPlaced' /\ SlotPlaced'
    BY <1>24, <2>1 DEF SearchConnQueue, PatcherType, FdPlaced, SlotPlaced,
         PatcherLabels, ActiveLabels, SlotLabels, PatcherAt, PatcherGoes
  <2>3. QED
    BY <1>24, <2>2, Frames DEF SearchConnQueue, workerVars, workspaceVars, slotVars,
         queueVars, worldVars, PatcherAt, PatcherGoes
<1>25. CASE EventCount
  <2>1. Len(epq) \in Nat
    BY DEF QueueType
  <2>2. PatcherType' /\ FdPlaced' /\ SlotPlaced'
    BY <1>25, <2>1 DEF EventCount, PatcherType, FdPlaced, SlotPlaced, PatcherLabels,
         ActiveLabels, SlotLabels, PatcherAt, PatcherGoes
  <2>3. QED
    BY <1>25, <2>2, Frames DEF EventCount, workerVars, workspaceVars, slotVars,
         queueVars, worldVars, PatcherAt, PatcherGoes
<1>26. QED
  BY <1>1, <1>2, <1>3, <1>4, <1>5, <1>6, <1>7, <1>8, <1>9, <1>10, <1>11, <1>12,
     <1>13, <1>14, <1>15, <1>16, <1>17, <1>18, <1>19, <1>20, <1>21, <1>22, <1>23,
     <1>24, <1>25
  DEF PatcherStep

(* Every step of a worker. *)
LEMMA TypeWorker ==
  ASSUME TypeInv, NEW w \in Workers, WorkerStep(w) \/ SpuriousWake(w)
  PROVE  TypeOK' /\ Placed'
<1> USE DEF TypeInv, TypeOK, Placed
<1>1. CASE CheckIdle(w)
  <2>1. WorkerType' /\ ConnPlaced'
    BY <1>1 DEF CheckIdle, WorkerAt, WorkerGoes, WorkerType, ConnPlaced,
         WorkerLabels, ConnLabels
  <2>2. QED
    BY <1>1, <2>1, Frames DEF CheckIdle, patcherVars, workerVars, workspaceVars,
         slotVars, queueVars, worldVars
<1>2. CASE Park(w)
  <2>1. WorkerType' /\ ConnPlaced'
    BY <1>2 DEF Park, WorkerAt, WorkerGoes, WorkerType, ConnPlaced, WorkerLabels,
         ConnLabels
  <2>2. QED
    BY <1>2, <2>1, Frames DEF Park, patcherVars, workerVars, workspaceVars,
         slotVars, queueVars, worldVars
<1>3. CASE ChooseProcess(w)
  <2>1. WorkerType' /\ ConnPlaced'
    BY <1>3, LowestSlot DEF ChooseProcess, WorkerAt, WorkerGoes, WorkerType,
         ConnPlaced, WorkerLabels, ConnLabels, Assigned, WorkspaceType
  <2>2. WorkspaceType'
    BY <1>3, LowestSlot DEF ChooseProcess, WorkspaceType, WorkerType
  <2>3. Assigned'
    BY <1>3 DEF ChooseProcess, Assigned, WorkspaceType, patcherVars
  <2>4. QED
    BY <1>3, <2>1, <2>2, <2>3, Frames DEF ChooseProcess, patcherVars, workerVars,
         workspaceVars, slotVars, queueVars, worldVars
<1>4. CASE AssertFails(w)
  <2>1. WorldType'
    BY <1>4 DEF AssertFails, WorldType
  <2>2. QED
    BY <1>4, <2>1, Frames DEF AssertFails, patcherVars, workerVars, workspaceVars,
         slotVars, queueVars, worldVars
<1>5. CASE BeginRequest(w)
  <2>1. WorkerType' /\ ConnPlaced'
    BY <1>5 DEF BeginRequest, WorkerAt, WorkerGoes, WorkerType, ConnPlaced,
         WorkerLabels, ConnLabels, BadSocket
  <2>2. SlotType'
    BY <1>5 DEF BeginRequest, SlotType, ConnPlaced, ConnLabels, WorkerAt
  <2>3. QED
    BY <1>5, <2>1, <2>2, Frames DEF BeginRequest, patcherVars, workerVars,
         workspaceVars, slotVars, queueVars, worldVars
<1>6. CASE WriteHeader(w)
  <2>1. WorkspaceType'
    BY <1>6 DEF WriteHeader, WorkspaceType
  <2>2. Assigned'
    BY <1>6 DEF WriteHeader, Assigned, WorkspaceType, patcherVars
  <2>3. SlotType'
    BY <1>6 DEF WriteHeader, SlotType, SentMax, ConnPlaced, ConnLabels, WorkerAt
  <2>4. WorldType'
    BY <1>6 DEF WriteHeader, WorldType
  <2>5. QED
    BY <1>6, <2>1, <2>2, <2>3, <2>4, Frames DEF WriteHeader, patcherVars,
         workerVars, workspaceVars, slotVars, queueVars, worldVars
<1>7. CASE BrokenPipe(w)
  <2>1. WorldType'
    BY <1>7 DEF BrokenPipe, WorldType
  <2>2. QED
    BY <1>7, <2>1, Frames DEF BrokenPipe, patcherVars, workerVars, workspaceVars,
         slotVars, queueVars, worldVars
<1>8. CASE FailRequest(w)
  <2>1. WorkerType' /\ ConnPlaced'
    BY <1>8 DEF FailRequest, WorkerAt, WorkerGoes, WorkerType, ConnPlaced,
         WorkerLabels, ConnLabels
  <2>2. SlotType'
    BY <1>8 DEF FailRequest, SlotType, ConnPlaced, ConnLabels, WorkerAt
  <2>3. QED
    BY <1>8, <2>1, <2>2, Frames DEF FailRequest, patcherVars, workerVars,
         workspaceVars, slotVars, queueVars, worldVars
<1>9. CASE EndRequest(w)
  <2>1. WorkerType' /\ ConnPlaced'
    BY <1>9 DEF EndRequest, WorkerAt, WorkerGoes, WorkerType, ConnPlaced,
         WorkerLabels, ConnLabels
  <2>2. SlotType'
    BY <1>9 DEF EndRequest, SlotType, ConnPlaced, ConnLabels, WorkerAt
  <2>3. QED
    BY <1>9, <2>1, <2>2, Frames DEF EndRequest, patcherVars, workerVars,
         workspaceVars, slotVars, queueVars, worldVars
<1>10. CASE BeginResponse(w)
  <2>1. WorkerType' /\ ConnPlaced'
    BY <1>10 DEF BeginResponse, WorkerAt, WorkerGoes, WorkerType, ConnPlaced,
         WorkerLabels, ConnLabels, BadSocket
  <2>2. QED
    BY <1>10, <2>1, Frames DEF BeginResponse, patcherVars, workerVars,
         workspaceVars, slotVars, queueVars, worldVars
<1>11. CASE ReadResponse(w)
  <2>1. WorkerType' /\ ConnPlaced'
    BY <1>11 DEF ReadResponse, WorkerAt, WorkerGoes, WorkerType, ConnPlaced,
         WorkerLabels, ConnLabels
  <2>2. WorkspaceType'
    BY <1>11 DEF ReadResponse, WorkspaceType, HeaderCallback, ConnPlaced,
         ConnLabels, SlotType, WorkerAt
  <2>3. Assigned'
    BY <1>11 DEF ReadResponse, Assigned, WorkspaceType, patcherVars
  <2>4. SlotType'
    BY <1>11 DEF ReadResponse, SlotType, ConnPlaced, ConnLabels, WorkerAt
  <2>5. QED
    BY <1>11, <2>1, <2>2, <2>3, <2>4, Frames DEF ReadResponse, patcherVars,
         workerVars, workspaceVars, slotVars, queueVars, worldVars
<1>12. CASE ReadOn(w)
  <2>1. WorkspaceType'
    BY <1>12 DEF ReadOn, WorkspaceType, HeaderCallback, ConnPlaced, ConnLabels,
         SlotType, WorkerAt
  <2>2. Assigned'
    BY <1>12 DEF ReadOn, Assigned, WorkspaceType, patcherVars
  <2>3. WorldType'
    BY <1>12 DEF ReadOn, WorldType
  <2>4. QED
    BY <1>12, <2>1, <2>2, <2>3, Frames DEF ReadOn, patcherVars, workerVars,
         workspaceVars, slotVars, queueVars, worldVars
<1>13. CASE ReadEnds(w)
  <2>1. WorkerType' /\ ConnPlaced'
    BY <1>13 DEF ReadEnds, WorkerAt, WorkerGoes, WorkerType, ConnPlaced,
         WorkerLabels, ConnLabels
  <2>2. SlotType'
    BY <1>13 DEF ReadEnds, SlotType, ConnPlaced, ConnLabels, WorkerAt
  <2>3. QED
    BY <1>13, <2>1, <2>2, Frames DEF ReadEnds, patcherVars, workerVars,
         workspaceVars, slotVars, queueVars, worldVars
<1>14. CASE TakesStdin(w)
  <2>1. WorldType'
    BY <1>14 DEF TakesStdin, WorldType
  <2>2. QED
    BY <1>14, <2>1, Frames DEF TakesStdin, patcherVars, workerVars, workspaceVars,
         slotVars, queueVars, worldVars
<1>15. CASE Close(w)
  <2>1. WorkerType' /\ ConnPlaced'
    BY <1>15 DEF Close, WorkerAt, WorkerGoes, WorkerType, ConnPlaced,
         WorkerLabels, ConnLabels
  <2>2. WorldType'
    BY <1>15 DEF Close, WorldType, SlotType, Stdin
  <2>3. QED
    BY <1>15, <2>1, <2>2, Frames DEF Close, patcherVars, workerVars,
         workspaceVars, slotVars, queueVars, worldVars
<1>16. CASE ClearSocket(w)
  <2>1. WorkerType' /\ ConnPlaced'
    BY <1>16 DEF ClearSocket, WorkerAt, WorkerGoes, WorkerType, ConnPlaced,
         WorkerLabels, ConnLabels
  <2>2. SlotType'
    BY <1>16 DEF ClearSocket, SlotType, ConnPlaced, ConnLabels, WorkerAt
  <2>3. QED
    BY <1>16, <2>1, <2>2, Frames DEF ClearSocket, patcherVars, workerVars,
         workspaceVars, slotVars, queueVars, worldVars
<1>17. CASE Reset(w)
  <2>1. WorkerType' /\ ConnPlaced'
    BY <1>17 DEF Reset, WorkerAt, WorkerGoes, WorkerType, ConnPlaced,
         WorkerLabels, ConnLabels
  <2>2. WorkspaceType'
    BY <1>17 DEF Reset, WorkspaceType
  <2>3. Assigned'
    BY <1>17 DEF Reset, Assigned, WorkspaceType, patcherVars
  <2>4. QED
    BY <1>17, <2>1, <2>2, <2>3, Frames DEF Reset, patcherVars, workerVars,
         workspaceVars, slotVars, queueVars, worldVars
<1>18. CASE DequeueConn(w)
  <2>1. Head(connq) \in ConnEvent /\ Tail(connq) \in Seq(ConnEvent)
    BY <1>18 DEF DequeueConn, QueueType
  <2>2. WorkerType' /\ ConnPlaced'
    BY <1>18, <2>1 DEF DequeueConn, WorkerAt, WorkerGoes, WorkerType, ConnPlaced,
         WorkerLabels, ConnLabels, ConnEvent
  <2>3. WorkspaceType'
    BY <1>18, <2>1 DEF DequeueConn, WorkspaceType, ConnEvent
  <2>4. SlotType'
    BY <1>18, <2>1 DEF DequeueConn, ParamSet, SlotType, ConnEvent
  <2>5. QueueType'
    BY <1>18, <2>1 DEF DequeueConn, QueueType
  <2>6. Assigned'
    BY <1>18 DEF DequeueConn, Assigned, WorkspaceType, patcherVars
  <2>7. QED
    BY <1>18, <2>1, <2>2, <2>3, <2>4, <2>5, <2>6, Frames DEF DequeueConn,
         patcherVars, workerVars, workspaceVars, slotVars, queueVars, worldVars
<1>19. CASE NoConnEvent(w)
  <2>1. WorkerType' /\ ConnPlaced'
    BY <1>19 DEF NoConnEvent, WorkerAt, WorkerGoes, WorkerType, ConnPlaced,
         WorkerLabels, ConnLabels
  <2>2. QED
    BY <1>19, <2>1, Frames DEF NoConnEvent, patcherVars, workerVars,
         workspaceVars, slotVars, queueVars, worldVars
<1>20. CASE DequeueEpoll(w)
  <2>1. taking \in Fds
    BY <1>20 DEF DequeueEpoll, WorkerAt, TakingPlaced
  <2>2. WorkerType' /\ ConnPlaced'
    <3>1. CASE SlotsOf(taking) = {}
      BY <1>20, <3>1 DEF DequeueEpoll, WorkerAt, WorkerGoes, WorkerType, ConnPlaced,
           WorkerLabels, ConnLabels
    <3>2. CASE SlotsOf(taking) # {}
      <4>1. PICK s \in Slots : s = Min(SlotsOf(taking))
        BY <3>2, LowestSlot
      <4>2. /\ wpc' = [wpc EXCEPT ![w] = "check"]
            /\ auto' = [auto EXCEPT ![w] = 2]
            /\ eev' = [eev EXCEPT ![w] = taking]
            /\ conn' = [conn EXCEPT ![w] = s]
        BY <1>20, <3>2, <4>1 DEF DequeueEpoll, WorkerGoes
      <4>3. WorkerType'
        BY <2>1, <4>2 DEF WorkerType, WorkerLabels
      <4>4. ConnPlaced'
        BY <4>2 DEF WorkerType, ConnPlaced, ConnLabels
      <4>5. QED
        BY <4>3, <4>4
    <3>3. QED
      BY <3>1, <3>2
  <2>3. WorkspaceType'
    BY <1>20, LowestSlot DEF DequeueEpoll, WorkspaceType
  <2>4. SlotType'
    <3>1. state' = state \/ \E s \in Slots : state' = [state EXCEPT ![s] = 2]
      BY <1>20, LowestSlot DEF DequeueEpoll
    <3>2. state' \in [Slots -> -1 .. 3]
      BY <3>1 DEF SlotType
    <3>3. QED
      BY <1>20, <3>2 DEF DequeueEpoll, SlotType
  <2>5. QueueType'
    <3>1. crossed' \in BOOLEAN
      BY <1>20 DEF DequeueEpoll, QueueType
    <3>2. QED
      BY <1>20, <2>1, <3>1 DEF DequeueEpoll, QueueType
  <2>6. Assigned'
    BY <1>20 DEF DequeueEpoll, Assigned, WorkspaceType, patcherVars
  <2>7. QED
    BY <1>20, <2>1, <2>2, <2>3, <2>4, <2>5, <2>6, Frames DEF DequeueEpoll,
         patcherVars, workerVars, workspaceVars, slotVars, queueVars, worldVars
<1>21. CASE NoEpollEvent(w)
  <2>1. WorkerType' /\ ConnPlaced'
    BY <1>21 DEF NoEpollEvent, WorkerAt, WorkerGoes, WorkerType, ConnPlaced,
         WorkerLabels, ConnLabels
  <2>2. QED
    BY <1>21, <2>1, Frames DEF NoEpollEvent, patcherVars, workerVars,
         workspaceVars, slotVars, queueVars, worldVars
<1>22. CASE ClearFlag(w)
  <2>1. WorkerType' /\ ConnPlaced'
    BY <1>22 DEF ClearFlag, WorkerAt, WorkerGoes, WorkerType, ConnPlaced,
         WorkerLabels, ConnLabels
  <2>2. WorkspaceType'
    BY <1>22 DEF ClearFlag, WorkspaceType, workspaceVars
  <2>3. Assigned'
    BY <1>22 DEF ClearFlag, Assigned, workspaceVars, WorkspaceType, patcherVars
  <2>4. QED
    BY <1>22, <2>1, <2>2, <2>3, Frames DEF ClearFlag, patcherVars, workerVars,
         workspaceVars, slotVars, queueVars, worldVars
<1>23. CASE SpuriousWake(w)
  <2>1. WorkerType' /\ ConnPlaced'
    BY <1>23 DEF SpuriousWake, WorkerAt, WorkerGoes, WorkerType, ConnPlaced,
         WorkerLabels, ConnLabels
  <2>2. QED
    BY <1>23, <2>1, Frames DEF SpuriousWake, patcherVars, workerVars,
         workspaceVars, slotVars, queueVars, worldVars
<1>24. CASE TakeEpoll(w)
  <2>1. Head(epq) \in Fds /\ Tail(epq) \in Seq(Fds)
    BY <1>24 DEF TakeEpoll, QueueType
  <2>2. WorkerType' /\ ConnPlaced'
    BY <1>24 DEF TakeEpoll, WorkerAt, WorkerGoes, WorkerType, ConnPlaced,
         WorkerLabels, ConnLabels
  <2>3. QueueType'
    BY <1>24, <2>1 DEF TakeEpoll, QueueType
  <2>4. QED
    BY <1>24, <2>2, <2>3, Frames DEF TakeEpoll, patcherVars, workerVars,
         workspaceVars, slotVars, queueVars, worldVars
<1>25. QED
  BY <1>1, <1>2, <1>3, <1>4, <1>5, <1>6, <1>7, <1>8, <1>9, <1>10, <1>11, <1>12,
     <1>13, <1>14, <1>15, <1>16, <1>17, <1>18, <1>19, <1>20, <1>21, <1>22, <1>23,
     <1>24
  DEF WorkerStep

(* Every step of a server. *)
LEMMA TypeServer ==
  ASSUME TypeInv, NEW f \in Fds, Answer(f) \/ HangUp(f)
  PROVE  TypeOK' /\ Placed'
<1>1. WorldType'
  BY DEF Answer, HangUp, TypeInv, TypeOK, WorldType
<1>2. QED
  BY <1>1, Frames DEF Answer, HangUp, TypeInv, TypeOK, Placed, patcherVars, workerVars,
                      workspaceVars, slotVars, queueVars

(* The lock of the epoll queue is taken by TakeEpoll and given back by          *)
(* DequeueEpoll; no other step comes near it.                                   *)
LEMMA TakingStep ==
  ASSUME TypeInv, [Next]_vars
  PROVE  TakingPlaced'
<1> DEFINE Kept == UNCHANGED taking /\ \A v \in Workers :
                     wpc'[v] = "deq_start" => wpc[v] = "deq_start"
<1>1. Kept => TakingPlaced'
  BY DEF TypeInv, TakingPlaced
<1>2. ASSUME PatcherStep \/ WaitInput \/ WaitFails PROVE Kept
  BY <1>2 DEF PatcherStep, WaitSockets, NextEvent, RejectCommand, Connect, EndLine,
       ScanSlot, ScanWorker, SearchConnQueue, SkipQueuedSlot, ClaimSlot, Register,
       Reserve, NoneIdle, CommandSignal, EnqueueConn, EventWorker, EventCount,
       EventQueued, EventIdle, EventAssign, EventFlag, EventSignal, EnqueueEpoll,
       WaitInput, WaitFails, Signalled, workerVars, queueVars, TypeInv, TypeOK,
       WorkerType
<1>3. ASSUME NEW w \in Workers, WorkerStep(w) \/ SpuriousWake(w),
             ~TakeEpoll(w), ~DequeueEpoll(w)
      PROVE  Kept
  <2>1. UNCHANGED taking
    BY <1>3 DEF WorkerStep, CheckIdle, Park, ChooseProcess, AssertFails, BeginRequest,
         WriteHeader, BrokenPipe, FailRequest, EndRequest, BeginResponse, ReadResponse,
         ReadOn, ReadEnds, TakesStdin, Close, ClearSocket, Reset, DequeueConn,
         NoConnEvent, NoEpollEvent, ClearFlag, SpuriousWake, queueVars
  <2>2. \A v \in Workers : wpc'[v] = "deq_start" => wpc[v] = "deq_start"
    BY <1>3 DEF WorkerStep, CheckIdle, Park, ChooseProcess, AssertFails, BeginRequest,
         WriteHeader, BrokenPipe, FailRequest, EndRequest, BeginResponse, ReadResponse,
         ReadOn, ReadEnds, TakesStdin, Close, ClearSocket, Reset, DequeueConn,
         NoConnEvent, NoEpollEvent, ClearFlag, SpuriousWake, workerVars, WorkerGoes,
         TypeInv, TypeOK, WorkerType, WorkspaceType
  <2>3. QED
    BY <2>1, <2>2
<1>4. ASSUME NEW w \in Workers, TakeEpoll(w) PROVE TakingPlaced'
  <2>1. taking = None /\ None \notin Fds
    BY <1>4 DEF TakeEpoll, None, Fds
  <2>2. taking' \in Fds
    BY <1>4 DEF TakeEpoll, TypeInv, TypeOK, QueueType
  <2>3. QED
    BY <1>4, <2>1, <2>2 DEF TakeEpoll, WorkerGoes, TypeInv, TypeOK, WorkerType,
         TakingPlaced
<1>5. ASSUME NEW w \in Workers, DequeueEpoll(w) PROVE TakingPlaced'
  BY <1>5 DEF DequeueEpoll, WorkerAt, WorkerGoes, TypeInv, TypeOK, WorkerType,
       TakingPlaced
<1>6. ASSUME NEW f \in Fds, Answer(f) \/ HangUp(f) PROVE Kept
  BY <1>6 DEF Answer, HangUp, workerVars, queueVars
<1>7. ASSUME UNCHANGED vars PROVE Kept
  BY <1>7 DEF vars, workerVars, queueVars
<1>8. QED
  <2> HIDE DEF Kept
  <2>1. QED
    BY <1>1, <1>2, <1>3, <1>4, <1>5, <1>6, <1>7 DEF Next

(* Every step. *)
LEMMA TypeStep == TypeInv /\ [Next]_vars => TypeInv'
<1> SUFFICES ASSUME TypeInv, [Next]_vars PROVE TypeInv'
  OBVIOUS
<1>1. ASSUME Next PROVE TypeOK' /\ Placed'
  BY <1>1, TypePatcher, TypeWorker, TypeServer DEF Next
<1>2. ASSUME UNCHANGED vars PROVE TypeOK' /\ Placed'
  BY <1>2, Frames DEF vars, patcherVars, workerVars, workspaceVars, slotVars, queueVars,
                      worldVars, TypeInv, TypeOK, Placed
<1>3. TakingPlaced'
  BY TakingStep
<1>4. QED
  BY <1>1, <1>2, <1>3 DEF TypeInv

(* TypeOK, for every number of workers, slots, descriptors and commands: every  *)
(* index that epoll_patcher and epoll_worker hand to each other is one of the   *)
(* arrays it is used on, in every interleaving and under every fault.           *)
THEOREM TypeCorrect == Spec => []TypeOK
<1>1. TypeInv => TypeOK
  BY DEF TypeInv
<1>2. QED
  BY <1>1, TypeInit, TypeStep, PTL DEF Spec

--------------------------------------------------------------------------------
(* ReservationSafe is not inductive: a worker that clears its flag must have    *)
(* nothing left, which Reset and the two failing dequeues see to.               *)
Emptied ==
  \A w \in Workers : wpc[w] \in {"deq_conn", "deq_epoll", "deq_start", "clear_flag"} =>
    auto[w] = 0 /\ conn[w] = None /\ conn_index[w] = None

ReservationInv == ReservationSafe /\ Emptied

(* At the start all flags are clear and all workers rest. *)
LEMMA ReservationInit == Init => ReservationInv
BY DEF Init, PatcherInit, WorkspaceInit, ReservationInv, ReservationSafe, Emptied,
       Rests, Resting, Workers, None

(* What a step leaves alone. *)
LEMMA ReservationFrame ==
  ASSUME ReservationInv, UNCHANGED <<wpc, auto, conn, conn_index, flag>>,
         \/ UNCHANGED <<ppc, target>>
         \/ ppc # "ev_flag" /\ ppc' \notin {"ev_assign", "ev_flag"}
  PROVE  ReservationInv'
BY DEF ReservationInv, ReservationSafe, Emptied, Rests

(* The patcher reserves only workers that rest. *)
LEMMA ReservationPatcher ==
  ASSUME TypeInv, ReservationInv, PatcherStep \/ WaitInput \/ WaitFails
  PROVE  ReservationInv'
<1> USE DEF PatcherAt, PatcherGoes, workerVars, workspaceVars
<1>1. CASE WaitSockets
  BY <1>1, ReservationFrame DEF WaitSockets
<1>2. CASE NextEvent
  BY <1>2, ReservationFrame DEF NextEvent
<1>3. CASE RejectCommand
  BY <1>3, ReservationFrame DEF RejectCommand, CommandDone
<1>4. CASE EndLine
  BY <1>4, ReservationFrame DEF EndLine
<1>5. CASE ScanSlot
  BY <1>5, ReservationFrame DEF ScanSlot, CommandDone
<1>6. CASE ScanWorker
  BY <1>6, ReservationFrame DEF ScanWorker
<1>7. CASE SkipQueuedSlot
  BY <1>7, ReservationFrame DEF SkipQueuedSlot
<1>8. CASE ClaimSlot
  BY <1>8, ReservationFrame DEF ClaimSlot
<1>9. CASE Register
  BY <1>9, ReservationFrame DEF Register, CommandDone
<1>10. CASE NoneIdle
  BY <1>10, ReservationFrame DEF NoneIdle
<1>11. CASE EnqueueConn
  BY <1>11, ReservationFrame DEF EnqueueConn, CommandDone
<1>12. CASE EventWorker
  BY <1>12, ReservationFrame DEF EventWorker, PatcherDone
<1>13. CASE EventQueued
  BY <1>13, ReservationFrame DEF EventQueued, PatcherDone
<1>14. CASE EnqueueEpoll
  BY <1>14, ReservationFrame DEF EnqueueEpoll, PatcherDone
<1>15. CASE WaitInput
  BY <1>15, ReservationFrame DEF WaitInput
<1>16. CASE WaitFails
  BY <1>16, ReservationFrame DEF WaitFails
<1>17. CASE \E m \in MethodNames : Connect(m)
  BY <1>17, ReservationFrame DEF Connect
<1>18. CASE Reserve
  BY <1>18, LowestIdle DEF Reserve, TypeInv, TypeOK, WorkerType, WorkspaceType,
         PatcherType, ReservationInv, ReservationSafe, Emptied, Rests, Resting
<1>19. CASE CommandSignal
  BY <1>19 DEF CommandSignal, TypeInv, TypeOK, WorkerType, WorkspaceType,
         PatcherType, CommandDone, Signalled, ReservationInv, ReservationSafe,
         Emptied, Rests, Resting
<1>20. CASE EventIdle
  BY <1>20, LowestIdle DEF EventIdle, TypeInv, TypeOK, WorkerType, WorkspaceType,
         PatcherType, ReservationInv, ReservationSafe, Emptied, Rests, Resting
<1>21. CASE EventAssign
  BY <1>21 DEF EventAssign, TypeInv, TypeOK, WorkerType, WorkspaceType,
         PatcherType, WorkerLabels, ReservationInv, ReservationSafe, Emptied,
         Rests, Resting
<1>22. CASE EventFlag
  BY <1>22 DEF EventFlag, TypeInv, TypeOK, WorkerType, WorkspaceType, PatcherType,
         ReservationInv, ReservationSafe, Emptied, Rests, Resting
<1>23. CASE EventSignal
  BY <1>23 DEF EventSignal, TypeInv, TypeOK, WorkerType, WorkspaceType,
         PatcherType, PatcherDone, Signalled, ReservationInv, ReservationSafe,
         Emptied, Rests, Resting
<1>24. CASE SearchConnQueue
  BY <1>24, ReservationFrame DEF SearchConnQueue
<1>25. CASE EventCount
  BY <1>25, ReservationFrame DEF EventCount
<1>26. QED
  BY <1>1, <1>2, <1>3, <1>4, <1>5, <1>6, <1>7, <1>8, <1>9, <1>10, <1>11, <1>12,
     <1>13, <1>14, <1>15, <1>16, <1>17, <1>18, <1>19, <1>20, <1>21, <1>22, <1>23,
     <1>24, <1>25
  DEF PatcherStep

(* A worker gives up its reservation only when it has nothing left. *)
LEMMA ReservationWorker ==
  ASSUME TypeInv, ReservationInv, NEW w \in Workers, WorkerStep(w) \/ SpuriousWake(w)
  PROVE  ReservationInv'
<1> USE DEF WorkerAt, WorkerGoes, patcherVars, workerVars, workspaceVars
<1>1. CASE CheckIdle(w)
  BY <1>1 DEF CheckIdle, TypeInv, TypeOK, WorkerType, WorkspaceType,
         ReservationInv, ReservationSafe, Emptied, Rests, Resting
<1>2. CASE Park(w)
  BY <1>2 DEF Park, TypeInv, TypeOK, WorkerType, WorkspaceType, ReservationInv,
         ReservationSafe, Emptied, Rests, Resting
<1>3. CASE ChooseProcess(w)
  BY <1>3 DEF ChooseProcess, TypeInv, TypeOK, WorkerType, WorkspaceType,
         ReservationInv, ReservationSafe, Emptied, Rests, Resting, Placed,
         Assigned
<1>4. CASE AssertFails(w)
  BY <1>4, ReservationFrame DEF AssertFails
<1>5. CASE BeginRequest(w)
  BY <1>5 DEF BeginRequest, TypeInv, TypeOK, WorkerType, WorkspaceType,
         ReservationInv, ReservationSafe, Emptied, Rests, Resting
<1>6. CASE WriteHeader(w)
  BY <1>6, ReservationFrame DEF WriteHeader
<1>7. CASE BrokenPipe(w)
  BY <1>7, ReservationFrame DEF BrokenPipe
<1>8. CASE FailRequest(w)
  BY <1>8 DEF FailRequest, TypeInv, TypeOK, WorkerType, WorkspaceType,
         ReservationInv, ReservationSafe, Emptied, Rests, Resting
<1>9. CASE EndRequest(w)
  BY <1>9 DEF EndRequest, TypeInv, TypeOK, WorkerType, WorkspaceType,
         ReservationInv, ReservationSafe, Emptied, Rests, Resting
<1>10. CASE BeginResponse(w)
  BY <1>10 DEF BeginResponse, TypeInv, TypeOK, WorkerType, WorkspaceType,
         ReservationInv, ReservationSafe, Emptied, Rests, Resting
<1>11. CASE ReadResponse(w)
  BY <1>11 DEF ReadResponse, TypeInv, TypeOK, WorkerType, WorkspaceType,
         ReservationInv, ReservationSafe, Emptied, Rests, Resting
<1>12. CASE ReadOn(w)
  BY <1>12, ReservationFrame DEF ReadOn
<1>13. CASE ReadEnds(w)
  BY <1>13 DEF ReadEnds, TypeInv, TypeOK, WorkerType, WorkspaceType,
         ReservationInv, ReservationSafe, Emptied, Rests, Resting
<1>14. CASE TakesStdin(w)
  BY <1>14, ReservationFrame DEF TakesStdin
<1>15. CASE Close(w)
  BY <1>15 DEF Close, TypeInv, TypeOK, WorkerType, WorkspaceType, ReservationInv,
         ReservationSafe, Emptied, Rests, Resting
<1>16. CASE ClearSocket(w)
  BY <1>16 DEF ClearSocket, TypeInv, TypeOK, WorkerType, WorkspaceType,
         ReservationInv, ReservationSafe, Emptied, Rests, Resting
<1>17. CASE Reset(w)
  BY <1>17 DEF Reset, TypeInv, TypeOK, WorkerType, WorkspaceType, ReservationInv,
         ReservationSafe, Emptied, Rests, Resting
<1>18. CASE DequeueConn(w)
  BY <1>18 DEF DequeueConn, TypeInv, TypeOK, WorkerType, WorkspaceType,
         ReservationInv, ReservationSafe, Emptied, Rests, Resting
<1>19. CASE NoConnEvent(w)
  BY <1>19 DEF NoConnEvent, TypeInv, TypeOK, WorkerType, WorkspaceType,
         ReservationInv, ReservationSafe, Emptied, Rests, Resting
<1>20. CASE DequeueEpoll(w)
  BY <1>20 DEF DequeueEpoll, TypeInv, TypeOK, WorkerType, WorkspaceType,
         ReservationInv, ReservationSafe, Emptied, Rests, Resting
<1>21. CASE NoEpollEvent(w)
  BY <1>21 DEF NoEpollEvent, TypeInv, TypeOK, WorkerType, WorkspaceType,
         ReservationInv, ReservationSafe, Emptied, Rests, Resting
<1>22. CASE ClearFlag(w)
  BY <1>22 DEF ClearFlag, TypeInv, TypeOK, WorkerType, WorkspaceType,
         ReservationInv, ReservationSafe, Emptied, Rests, Resting
<1>23. CASE SpuriousWake(w)
  BY <1>23 DEF SpuriousWake, TypeInv, TypeOK, WorkerType, WorkspaceType,
         ReservationInv, ReservationSafe, Emptied, Rests, Resting
<1>24. CASE TakeEpoll(w)
  BY <1>24 DEF TakeEpoll, TypeInv, TypeOK, WorkerType, WorkspaceType,
         ReservationInv, ReservationSafe, Emptied, Rests, Resting
<1>25. QED
  BY <1>1, <1>2, <1>3, <1>4, <1>5, <1>6, <1>7, <1>8, <1>9, <1>10, <1>11, <1>12,
     <1>13, <1>14, <1>15, <1>16, <1>17, <1>18, <1>19, <1>20, <1>21, <1>22, <1>23,
     <1>24
  DEF WorkerStep

(* Every step. *)
LEMMA ReservationStep == TypeInv /\ ReservationInv /\ [Next]_vars => ReservationInv'
<1> SUFFICES ASSUME TypeInv, ReservationInv, [Next]_vars PROVE ReservationInv'
  OBVIOUS
<1> USE DEF patcherVars, workerVars, workspaceVars
<1>1. ASSUME NEW f \in Fds, Answer(f) \/ HangUp(f) PROVE ReservationInv'
  BY <1>1, ReservationFrame DEF Answer, HangUp
<1>2. CASE Next
  BY <1>1, <1>2, ReservationPatcher, ReservationWorker DEF Next
<1>3. CASE UNCHANGED vars
  BY <1>3, ReservationFrame DEF vars
<1>4. QED
  BY <1>2, <1>3

(* ReservationSafe: whatever the number of workers and commands, the patcher    *)
(* never assigns work to a worker that still runs, or that another assignment   *)
(* is left over in, although it looks at the flag word and writes the workspace *)
(* in separate steps and under different locks.                                 *)
THEOREM ReservationIsSafe == Spec => []ReservationSafe
<1>1. ReservationInv => ReservationSafe
  BY DEF ReservationInv
<1>2. QED
  BY <1>1, TypeInit, TypeStep, ReservationInit, ReservationStep, PTL DEF Spec

--------------------------------------------------------------------------------
(* The step that Undisturbed asks for. *)
LeftAlone ==
  \A w \in Workers : wpc[w] \notin Resting \/ auto[w] # 0 =>
    \/ wpc'[w] # wpc[w]
    \/ UNCHANGED <<http_process[w], conn_index[w]>>

\* A worker that has begun is reserved, so that the patcher, which writes to the
\* workspaces of Idle and target only, does not write to its own.
LEMMA UndisturbedPatcher ==
  ASSUME TypeInv, ReservationInv, PatcherStep \/ WaitInput \/ WaitFails
  PROVE  LeftAlone
<1>1. ASSUME NEW w \in Workers, wpc[w] \notin Resting \/ auto[w] # 0 PROVE w \in flag
  BY <1>1 DEF ReservationInv, ReservationSafe, Rests
<1>2. CASE Reserve
  BY <1>1, <1>2, LowestIdle DEF Reserve, LeftAlone, TypeInv, TypeOK, WorkspaceType
<1>3. CASE EventAssign
  BY <1>1, <1>3 DEF EventAssign, PatcherAt, LeftAlone, TypeInv, TypeOK, WorkspaceType,
                    ReservationInv, ReservationSafe
<1>4. CASE ~Reserve /\ ~EventAssign
  <2>1. UNCHANGED <<http_process, conn_index>>
    BY <1>4 DEF PatcherStep, WaitSockets, NextEvent, RejectCommand, Connect, EndLine,
                ScanSlot, ScanWorker, SearchConnQueue, SkipQueuedSlot, ClaimSlot,
                Register, NoneIdle, CommandSignal, EnqueueConn, EventWorker,
                EventCount, EventQueued, EventIdle, EventFlag, EventSignal, EnqueueEpoll, WaitInput, WaitFails,
                workspaceVars
  <2>2. QED
    BY <2>1 DEF LeftAlone
<1>5. QED
  BY <1>2, <1>3, <1>4

\* A worker writes to its own workspace only, and moves on when it does.
LEMMA UndisturbedWorker ==
  ASSUME TypeInv, NEW w \in Workers, WorkerStep(w) \/ SpuriousWake(w)
  PROVE  LeftAlone
<1>1. \A v \in Workers : v # w => UNCHANGED <<http_process[v], conn_index[v]>>
  BY DEF WorkerStep, CheckIdle, Park, ChooseProcess, AssertFails, BeginRequest,
         WriteHeader, BrokenPipe, FailRequest, EndRequest, BeginResponse,
         ReadResponse, ReadOn, ReadEnds, TakesStdin, Close, ClearSocket, Reset,
         DequeueConn, NoConnEvent, TakeEpoll, DequeueEpoll, NoEpollEvent,
         ClearFlag, SpuriousWake, workspaceVars, TypeInv, TypeOK, WorkspaceType
<1>2. wpc'[w] # wpc[w] \/ UNCHANGED <<http_process, conn_index>>
  BY DEF WorkerStep, CheckIdle, Park, ChooseProcess, AssertFails, BeginRequest,
         WriteHeader, BrokenPipe, FailRequest, EndRequest, BeginResponse,
         ReadResponse, ReadOn, ReadEnds, TakesStdin, Close, ClearSocket, Reset,
         DequeueConn, NoConnEvent, TakeEpoll, DequeueEpoll, NoEpollEvent,
         ClearFlag, SpuriousWake, workspaceVars, WorkerAt, WorkerGoes, TypeInv, TypeOK,
         WorkerType, WorkspaceType, Placed, Assigned
<1>3. QED
  BY <1>1, <1>2 DEF LeftAlone

(* Every step. *)
LEMMA UndisturbedStep == TypeInv /\ ReservationInv /\ [Next]_vars => [LeftAlone]_vars
<1> SUFFICES ASSUME TypeInv, ReservationInv, Next PROVE LeftAlone
  OBVIOUS
<1>1. ASSUME NEW f \in Fds, Answer(f) \/ HangUp(f) PROVE LeftAlone
  BY <1>1 DEF Answer, HangUp, LeftAlone, workspaceVars
<1>2. QED
  BY <1>1, UndisturbedPatcher, UndisturbedWorker DEF Next

(* Undisturbed: a worker that has begun keeps its assignment until it gives it  *)
(* up itself, in every interleaving and under every fault.                      *)
THEOREM WorkersUndisturbed == Spec => Undisturbed
<1>1. TypeInv /\ ReservationInv /\ [Next]_vars => [LeftAlone]_vars
  BY UndisturbedStep
<1>2. Spec => [][LeftAlone]_vars
  BY <1>1, TypeInit, TypeStep, ReservationInit, ReservationStep, PTL DEF Spec
<1>3. QED
  BY <1>2 DEF Undisturbed, LeftAlone
================================================================================
