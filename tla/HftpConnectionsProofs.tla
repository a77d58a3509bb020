-------------------------- MODULE HftpConnectionsProofs --------------------------
(*******************************************************************************)
(* Theorems of HftpThreads about the connections, for every number of workers,  *)
(* slots, descriptors and commands, and under every fault:                     *)
(*   DuplicatesSideBySide Spec => []DuplicatesAdjoin                           *)
(*   SocketsUnique        Spec => []UniqueSockets                              *)
(*   WatchedHaveSlots     Spec => []WatchedHasSlot                             *)
(*   RequestsSent         Spec => []RequestSent                                *)
(*   CommandsHeldOnce     Spec => []HeldOnce                                   *)
(* What they say of commands and slots are parts of one invariant,              *)
(* ConnectionInv, which says who holds which slot in which state; what the      *)
(* first says of events rests on EventsApart, which needs no more than types.   *)
(*******************************************************************************)
EXTENDS HftpThreadsProofs

--------------------------------------------------------------------------------
(* The epoll queue.                                                             *)

\* Where the patcher has found that no event of its descriptor is queued.
NewEventLabels == {"ev_idle", "ev_enq"}

\* Only the patcher enqueues: from the reading of the count on, the queue, with the
\* event that is being taken, can only become shorter.  What the search may miss is
\* the youngest event.
Taken == IF taking = None THEN 0 ELSE 1
EventsApart ==
  /\ \A j, k \in 1 .. Len(epq) : j < k /\ epq[j] = epq[k] => k = j + 1
  /\ ppc = "ev_search" => cnt + 1 >= Len(epq) + Taken
  /\ ppc \in NewEventLabels => \A k \in 1 .. Len(epq) : epq[k] = fd => k = Len(epq)

\* No event is queued in the beginning.
LEMMA EventsInit == Init => EventsApart
BY DEF Init, PatcherInit, EventsApart, NewEventLabels

\* Steps that leave the queue alone, and either what the patcher has in hand, or
\* after which it has nothing in hand that it must have looked for.
LEMMA EventsFrame ==
  ASSUME EventsApart, UNCHANGED <<epq, taking>>,
         ppc' # "ev_search" \/ UNCHANGED <<ppc, cnt>>,
         \/ ppc' \notin NewEventLabels
         \/ ppc \in NewEventLabels /\ UNCHANGED fd
  PROVE  EventsApart'
BY DEF EventsApart, Taken

\* What is left of a queue.
LEMMA TailElements ==
  ASSUME NEW S, NEW q \in Seq(S), q # <<>>
  PROVE  /\ Tail(q) \in Seq(S) /\ Len(Tail(q)) = Len(q) - 1
         /\ \A k \in 1 .. Len(Tail(q)) : k + 1 \in 1 .. Len(q) /\ Tail(q)[k] = q[k + 1]
OBVIOUS

\* What is in a sequence with one element more.
LEMMA AppendElements ==
  ASSUME NEW S, NEW q \in Seq(S), NEW e \in S
  PROVE  /\ Append(q, e) \in Seq(S) /\ Len(Append(q, e)) = Len(q) + 1
         /\ Append(q, e)[Len(q) + 1] = e
         /\ \A k \in 1 .. Len(q) : Append(q, e)[k] = q[k]
OBVIOUS

\* A search that meets no event of its descriptor has missed the youngest at most.
LEMMA MissedIsYoungest ==
  ASSUME TypeInv, EventsApart, ppc = "ev_search", ~Meets(fd),
         NEW k \in 1 .. Len(epq), epq[k] = fd
  PROVE  k = Len(epq)
<1>1. epq \in Seq(Fds) /\ taking \in Fds \cup {None} /\ cnt \in Nat
  BY DEF TypeInv, TypeOK, QueueType, PatcherType
<1>2. CASE taking = None
  <2>1. FromStart = epq
    BY <1>2 DEF FromStart
  <2>2. ~(k <= cnt)
    BY <2>1 DEF Meets
  <2>3. cnt + 1 >= Len(epq)
    BY <1>1, <1>2 DEF EventsApart, Taken
  <2>4. QED
    BY <1>1, <2>2, <2>3
<1>3. CASE taking # None
  <2>1. FromStart = <<taking>> \o epq /\ <<taking>> \in Seq(Fds)
    BY <1>1, <1>3 DEF FromStart
  <2>2. Len(FromStart) = Len(epq) + 1 /\ FromStart[k + 1] = epq[k]
    BY <1>1, <2>1
  <2>3. ~(k + 1 <= cnt)
    BY <1>1, <2>2 DEF Meets
  <2>4. cnt + 1 >= Len(epq) + 1
    BY <1>3 DEF EventsApart, Taken
  <2>5. QED
    BY <1>1, <2>3, <2>4
<1>4. QED
  BY <1>2, <1>3

\* The patcher queues an event that is not queued, or whose descriptor has the
\* youngest event.
LEMMA EventsPatcher ==
  ASSUME TypeInv, EventsApart, PatcherStep \/ WaitInput \/ WaitFails
  PROVE  EventsApart'
<1> USE DEF NewEventLabels, PatcherAt, PatcherGoes, queueVars
<1>1. CASE EventCount
  <2>1. ppc' = "ev_search" /\ cnt' = Len(epq) /\ UNCHANGED <<epq, taking, fd>>
    BY <1>1 DEF EventCount
  <2>2. Len(epq) \in Nat /\ Taken' \in 0 .. 1
    BY DEF TypeInv, TypeOK, QueueType, Taken
  <2>3. cnt' + 1 >= Len(epq) + Taken'
    BY <2>1, <2>2
  <2>4. QED
    BY <2>1, <2>3 DEF EventsApart
<1>2. CASE EventQueued
  <2>1. CASE ppc' = "events"
    BY <1>2, <2>1, EventsFrame DEF EventQueued
  <2>2. CASE ppc' = "ev_idle"
    <3>1. ppc = "ev_search" /\ ~Meets(fd) /\ UNCHANGED <<epq, fd>>
      BY <1>2, <2>2 DEF EventQueued, PatcherDone
    <3>2. \A k \in 1 .. Len(epq) : epq[k] = fd => k = Len(epq)
      BY <3>1, MissedIsYoungest
    <3>3. QED
      BY <2>2, <3>1, <3>2 DEF EventsApart
  <2>3. QED
    BY <1>2, <2>1, <2>2 DEF EventQueued, PatcherDone
<1>3. CASE EnqueueEpoll
  <2>1. /\ epq' = Append(epq, fd) /\ ppc' = "events"
        /\ \A k \in 1 .. Len(epq) : epq[k] = fd => k = Len(epq)
    BY <1>3 DEF EnqueueEpoll, PatcherDone, EventsApart
  <2>2. epq \in Seq(Fds) /\ fd \in Fds
    BY <1>3 DEF EnqueueEpoll, TypeInv, TypeOK, QueueType, Placed, FdPlaced, ActiveLabels
  <2>3. ASSUME NEW j \in 1 .. Len(epq'), NEW k \in 1 .. Len(epq'), j < k,
               epq'[j] = epq'[k]
        PROVE  k = j + 1
    <3>1. j \in 1 .. Len(epq) /\ epq'[j] = epq[j] /\ Len(epq) \in Nat
      BY <2>1, <2>2, <2>3, AppendElements
    <3>2. CASE k \in 1 .. Len(epq)
      <4>1. epq'[k] = epq[k]
        BY <2>1, <2>2, <3>2, AppendElements
      <4>2. QED
        BY <2>3, <3>1, <3>2, <4>1 DEF EventsApart
    <3>3. CASE k = Len(epq) + 1
      <4>1. epq'[k] = fd
        BY <2>1, <2>2, <3>3, AppendElements
      <4>2. QED
        BY <2>1, <2>3, <3>1, <3>3, <4>1
    <3>4. QED
      BY <2>1, <2>2, <3>1, <3>2, <3>3, AppendElements
  <2>4. QED
    BY <2>1, <2>3 DEF EventsApart
<1>4. CASE ~EventCount /\ ~EventQueued /\ ~EnqueueEpoll
  <2>1. UNCHANGED <<epq, taking>>
    BY <1>4 DEF PatcherStep, WaitSockets, NextEvent, RejectCommand, Connect, EndLine,
                ScanSlot, ScanWorker, SearchConnQueue, SkipQueuedSlot, ClaimSlot,
                Register, Reserve, NoneIdle, CommandSignal, EnqueueConn, EventWorker,
                EventIdle, EventAssign, EventFlag, EventSignal, WaitInput, WaitFails
  <2>2. /\ ppc' # "ev_search"
        /\ \/ ppc' \notin NewEventLabels
           \/ ppc \in NewEventLabels /\ UNCHANGED fd
    BY <1>4 DEF PatcherStep, WaitSockets, NextEvent, RejectCommand, Connect, EndLine,
                ScanSlot, ScanWorker, SearchConnQueue, SkipQueuedSlot, ClaimSlot,
                Register, Reserve, NoneIdle, CommandSignal, EnqueueConn, EventWorker,
                EventIdle, EventAssign, EventFlag, EventSignal, WaitInput, WaitFails,
                CommandDone, PatcherDone
  <2>3. QED
    BY <2>1, <2>2, EventsFrame
<1>5. QED
  BY <1>1, <1>2, <1>3, <1>4

\* A worker takes the head of the queue, and the rest stays.
LEMMA EventsWorker ==
  ASSUME TypeInv, EventsApart, NEW w \in Workers, WorkerStep(w) \/ SpuriousWake(w)
  PROVE  EventsApart'
<1>1. UNCHANGED <<ppc, fd, cnt>>
  BY DEF WorkerStep, CheckIdle, Park, ChooseProcess, AssertFails, BeginRequest,
         WriteHeader, BrokenPipe, FailRequest, EndRequest, BeginResponse,
         ReadResponse, ReadOn, ReadEnds, TakesStdin, Close, ClearSocket, Reset,
         DequeueConn, NoConnEvent, TakeEpoll, DequeueEpoll, NoEpollEvent, ClearFlag,
         SpuriousWake, patcherVars
<1>2. epq \in Seq(Fds) /\ Len(epq) \in Nat /\ cnt \in Nat
  BY DEF TypeInv, TypeOK, QueueType, PatcherType
<1>3. CASE TakeEpoll(w)
  <2>1. /\ epq # <<>> /\ epq' = Tail(epq)
        /\ Taken = 0 /\ Taken' \in 0 .. 1
    BY <1>3 DEF TakeEpoll, Taken
  <2>2. /\ Len(epq') = Len(epq) - 1
        /\ \A k \in 1 .. Len(epq') : k + 1 \in 1 .. Len(epq) /\ epq'[k] = epq[k + 1]
    BY <1>2, <2>1, TailElements
  <2>3. ASSUME NEW j \in 1 .. Len(epq'), NEW k \in 1 .. Len(epq'), j < k,
               epq'[j] = epq'[k]
        PROVE  k = j + 1
    <3>1. j + 1 < k + 1 /\ epq[j + 1] = epq[k + 1]
      BY <2>2, <2>3
    <3>2. k + 1 = (j + 1) + 1
      BY <2>2, <3>1 DEF EventsApart
    <3>3. QED
      BY <3>2
  <2>4. ASSUME ppc = "ev_search" PROVE cnt + 1 >= Len(epq') + Taken'
    <3>1. cnt + 1 >= Len(epq) + Taken
      BY <2>4 DEF EventsApart
    <3>2. Len(epq') = Len(epq) - 1
      BY <2>2
    <3>3. Taken = 0 /\ (Taken' = 0 \/ Taken' = 1)
      BY <2>1
    <3> HIDE DEF Taken
    <3>4. QED
      BY <1>2, <3>1, <3>2, <3>3
  <2>5. ASSUME ppc \in NewEventLabels, NEW k \in 1 .. Len(epq'), epq'[k] = fd
        PROVE  k = Len(epq')
    <3>1. k + 1 \in 1 .. Len(epq) /\ epq[k + 1] = fd
      BY <2>2, <2>5
    <3>2. k + 1 = Len(epq)
      BY <2>5, <3>1 DEF EventsApart
    <3>3. QED
      BY <1>2, <2>2, <3>2
  <2>6. QED
    BY <1>1, <2>3, <2>4, <2>5 DEF EventsApart
<1>4. CASE DequeueEpoll(w)
  <2>1. UNCHANGED epq /\ Taken' = 0 /\ Taken \in 0 .. 1
    BY <1>4 DEF DequeueEpoll, Taken
  <2>2. ppc = "ev_search" => cnt + 1 >= Len(epq) + Taken'
    BY <1>2, <2>1 DEF EventsApart
  <2>3. QED
    BY <1>1, <2>1, <2>2 DEF EventsApart
<1>5. CASE ~TakeEpoll(w) /\ ~DequeueEpoll(w)
  <2>1. UNCHANGED <<epq, taking>>
    BY <1>5 DEF WorkerStep, CheckIdle, Park, ChooseProcess, AssertFails, BeginRequest,
         WriteHeader, BrokenPipe, FailRequest, EndRequest, BeginResponse,
         ReadResponse, ReadOn, ReadEnds, TakesStdin, Close, ClearSocket, Reset,
         DequeueConn, NoConnEvent, NoEpollEvent, ClearFlag, SpuriousWake, queueVars
  <2>2. QED
    BY <1>1, <2>1 DEF EventsApart, Taken
<1>6. QED
  BY <1>3, <1>4, <1>5

\* EventsApart is kept by every step.
LEMMA EventsStep == TypeInv /\ EventsApart /\ [Next]_vars => EventsApart'
<1> SUFFICES ASSUME TypeInv, EventsApart, [Next]_vars PROVE EventsApart'
  OBVIOUS
<1>1. ASSUME NEW f \in Fds, Answer(f) \/ HangUp(f) PROVE EventsApart'
  BY <1>1 DEF Answer, HangUp, queueVars, patcherVars, EventsApart, Taken
<1>2. CASE Next
  BY <1>1, <1>2, EventsPatcher, EventsWorker DEF Next
<1>3. CASE UNCHANGED vars
  BY <1>3 DEF vars, queueVars, patcherVars, EventsApart, Taken
<1>4. QED
  BY <1>2, <1>3

--------------------------------------------------------------------------------
(* What a worker does.                                                          *)

BusyLabels == {"request", "req_write", "response", "resp_read", "close", "clear_sock",
               "reset"}
EndLabels == {"close", "clear_sock", "reset"}

\* A worker that runs works on the connection that others see it hold, and is at
\* the half of the exchange that it was told to run.
RoleInv ==
  /\ \A w \in Workers : wpc[w] \in BusyLabels \/ auto[w] # 0 => conn[w] = conn_index[w]
  /\ \A w \in Workers : wpc[w] \in {"request", "req_write"} => Requests(w)
  /\ \A w \in Workers : wpc[w] \in {"response", "resp_read"} => ~Requests(w)
  /\ \A w \in Workers : wpc[w] = "reset" => conn_index[w] \in Slots
  /\ ppc = "ev_flag" => http_process[target] = "response"

\* No worker has a role in the beginning.
LEMMA RoleInit == Init => RoleInv
BY DEF Init, PatcherInit, WorkspaceInit, RoleInv, BusyLabels

\* A step that changes no worker keeps the roles.
LEMMA RoleFrame ==
  ASSUME RoleInv, UNCHANGED <<wpc, auto, conn, conn_index, http_process>>,
         ppc' # "ev_flag" \/ UNCHANGED <<ppc, target>>
  PROVE  RoleInv'
BY DEF RoleInv, Requests

\* The patcher writes to workers that rest.
LEMMA RolePatcher ==
  ASSUME TypeInv, ReservationInv, RoleInv, PatcherStep \/ WaitInput \/ WaitFails
  PROVE  RoleInv'
<1> USE DEF PatcherAt, PatcherGoes, workerVars, workspaceVars
<1>1. CASE Reserve
  <2>1. Rests(Min(Idle))
    BY <1>1, LowestIdle DEF Reserve, ReservationInv, ReservationSafe
  <2>2. QED
    BY <1>1, <2>1, LowestIdle DEF Reserve, RoleInv, Requests, Rests, Resting, BusyLabels,
         TypeInv, TypeOK, WorkspaceType
<1>2. CASE EventAssign
  <2>1. Rests(target)
    BY <1>2 DEF EventAssign, ReservationInv, ReservationSafe, TypeInv, TypeOK, PatcherType
  <2>2. QED
    BY <1>2, <2>1 DEF EventAssign, RoleInv, Requests, Rests, Resting, BusyLabels,
         TypeInv, TypeOK, WorkspaceType, PatcherType
<1>3. CASE CommandSignal
  BY <1>3 DEF CommandSignal, CommandDone, Signalled, RoleInv, Requests, BusyLabels,
       TypeInv, TypeOK, WorkerType, PatcherType
<1>4. CASE EventSignal
  BY <1>4 DEF EventSignal, PatcherDone, Signalled, RoleInv, Requests, BusyLabels,
       TypeInv, TypeOK, WorkerType, PatcherType
<1>5. CASE ~Reserve /\ ~EventAssign /\ ~CommandSignal /\ ~EventSignal
  <2>1. UNCHANGED <<wpc, auto, conn, conn_index, http_process>> /\ ppc' # "ev_flag"
    BY <1>5 DEF PatcherStep, WaitSockets, NextEvent, RejectCommand, Connect, EndLine,
                ScanSlot, ScanWorker, SearchConnQueue, SkipQueuedSlot, ClaimSlot,
                Register, NoneIdle, EnqueueConn, EventWorker, EventCount, EventQueued,
                EventIdle, EventFlag, EnqueueEpoll, WaitInput, WaitFails, CommandDone,
                PatcherDone
  <2>2. QED
    BY <2>1, RoleFrame
<1>6. QED
  BY <1>1, <1>2, <1>3, <1>4, <1>5

\* A worker changes its own role only.
LEMMA RoleWorker ==
  ASSUME TypeInv, ReservationInv, RoleInv, NEW w \in Workers,
         WorkerStep(w) \/ SpuriousWake(w)
  PROVE  RoleInv'
<1> USE DEF WorkerAt, WorkerGoes, patcherVars, workerVars, workspaceVars
<1>1. CASE CheckIdle(w)
  BY <1>1 DEF CheckIdle, RoleInv, Requests, BusyLabels, TypeInv, TypeOK, WorkerType,
       WorkspaceType
<1>2. CASE Park(w)
  BY <1>2 DEF Park, RoleInv, Requests, BusyLabels, TypeInv, TypeOK, WorkerType,
       WorkspaceType
<1>3. CASE BeginRequest(w)
  BY <1>3 DEF BeginRequest, RoleInv, Requests, BusyLabels, TypeInv, TypeOK, WorkerType,
       WorkspaceType
<1>4. CASE FailRequest(w)
  BY <1>4 DEF FailRequest, RoleInv, Requests, BusyLabels, TypeInv, TypeOK, WorkerType,
       WorkspaceType
<1>5. CASE EndRequest(w)
  BY <1>5 DEF EndRequest, RoleInv, Requests, BusyLabels, TypeInv, TypeOK, WorkerType,
       WorkspaceType, Placed, ConnPlaced, ConnLabels
<1>6. CASE BeginResponse(w)
  BY <1>6 DEF BeginResponse, RoleInv, Requests, BusyLabels, TypeInv, TypeOK, WorkerType,
       WorkspaceType
<1>7. CASE ReadResponse(w)
  BY <1>7 DEF ReadResponse, RoleInv, Requests, BusyLabels, TypeInv, TypeOK, WorkerType,
       WorkspaceType
<1>8. CASE ReadEnds(w)
  BY <1>8 DEF ReadEnds, RoleInv, Requests, BusyLabels, TypeInv, TypeOK, WorkerType,
       WorkspaceType
<1>9. CASE Close(w)
  BY <1>9 DEF Close, RoleInv, Requests, BusyLabels, TypeInv, TypeOK, WorkerType,
       WorkspaceType
<1>10. CASE ClearSocket(w)
  BY <1>10 DEF ClearSocket, RoleInv, Requests, BusyLabels, TypeInv, TypeOK, WorkerType,
       WorkspaceType, Placed, ConnPlaced, ConnLabels
<1>11. CASE Reset(w)
  BY <1>11 DEF Reset, RoleInv, Requests, BusyLabels, TypeInv, TypeOK, WorkerType,
       WorkspaceType
<1>12. CASE DequeueConn(w)
  BY <1>12 DEF DequeueConn, RoleInv, Requests, BusyLabels, TypeInv, TypeOK, WorkerType,
       WorkspaceType
<1>13. CASE NoConnEvent(w)
  BY <1>13 DEF NoConnEvent, RoleInv, Requests, BusyLabels, TypeInv, TypeOK, WorkerType,
       WorkspaceType
<1>14. CASE NoEpollEvent(w) \/ TakeEpoll(w)
  BY <1>14 DEF NoEpollEvent, TakeEpoll, RoleInv, Requests, BusyLabels, TypeInv, TypeOK, WorkerType,
       WorkspaceType
<1>15. CASE ClearFlag(w)
  BY <1>15 DEF ClearFlag, RoleInv, Requests, BusyLabels, TypeInv, TypeOK, WorkerType,
       WorkspaceType
<1>16. CASE SpuriousWake(w)
  BY <1>16 DEF SpuriousWake, RoleInv, Requests, BusyLabels, TypeInv, TypeOK, WorkerType,
       WorkspaceType
<1>17. CASE ChooseProcess(w)
  <2>1. auto[w] = 0 => http_process[w] \in {"request", "response"}
    BY <1>17 DEF ChooseProcess, TypeInv, TypeOK, WorkspaceType, Placed, Assigned
  <2>2. QED
    BY <1>17, <2>1 DEF ChooseProcess, RoleInv, Requests, BusyLabels, TypeInv, TypeOK,
         WorkerType, WorkspaceType
<1>18. CASE DequeueEpoll(w)
  <2>1. \/ /\ UNCHANGED <<auto, conn, conn_index>>
           /\ wpc' = [wpc EXCEPT ![w] = "clear_flag"]
        \/ \E s : /\ conn_index' = [conn_index EXCEPT ![w] = s]
                  /\ conn' = [conn EXCEPT ![w] = s]
                  /\ auto' = [auto EXCEPT ![w] = 2]
                  /\ wpc' = [wpc EXCEPT ![w] = "check"]
    BY <1>18 DEF DequeueEpoll
  <2>2. UNCHANGED <<http_process, ppc, target>>
    BY <1>18 DEF DequeueEpoll
  <2>3. CASE UNCHANGED <<auto, conn, conn_index>> /\ wpc' = [wpc EXCEPT ![w] = "clear_flag"]
    BY <2>2, <2>3 DEF RoleInv, Requests, BusyLabels, TypeInv, TypeOK, WorkerType
  <2>4. ASSUME NEW s, conn_index' = [conn_index EXCEPT ![w] = s],
               conn' = [conn EXCEPT ![w] = s], auto' = [auto EXCEPT ![w] = 2],
               wpc' = [wpc EXCEPT ![w] = "check"]
        PROVE  RoleInv'
    BY <2>2, <2>4 DEF RoleInv, Requests, BusyLabels, TypeInv, TypeOK, WorkerType, WorkspaceType
  <2>5. QED
    BY <2>1, <2>3, <2>4
<1>19. CASE AssertFails(w) \/ WriteHeader(w) \/ BrokenPipe(w) \/ ReadOn(w) \/ TakesStdin(w)
  BY <1>19, RoleFrame DEF AssertFails, WriteHeader, BrokenPipe, ReadOn, TakesStdin
<1>20. QED
  BY <1>1, <1>2, <1>3, <1>4, <1>5, <1>6, <1>7, <1>8, <1>9, <1>10, <1>11, <1>12, <1>13, <1>14, <1>15, <1>16, <1>17, <1>18, <1>19
  DEF WorkerStep

\* RoleInv is kept by every step.
LEMMA RoleStep == TypeInv /\ ReservationInv /\ RoleInv /\ [Next]_vars => RoleInv'
<1> SUFFICES ASSUME TypeInv, ReservationInv, RoleInv, [Next]_vars PROVE RoleInv'
  OBVIOUS
<1> USE DEF patcherVars, workerVars, workspaceVars
<1>1. ASSUME NEW f \in Fds, Answer(f) \/ HangUp(f) PROVE RoleInv'
  BY <1>1, RoleFrame DEF Answer, HangUp
<1>2. CASE Next
  BY <1>1, <1>2, RolePatcher, RoleWorker DEF Next
<1>3. CASE UNCHANGED vars
  BY <1>3, RoleFrame DEF vars
<1>4. QED
  BY <1>2, <1>3

--------------------------------------------------------------------------------
(* Who holds which connection.                                                  *)

\* Where the patcher has a new socket and looks for a slot, and where it has a slot
\* for a command and has not handed it out.
NewLabels == {"scan", "scan_worker", "scan_queue", "scan_loop"}
ClaimLabels == {"register", "reserve", "enq_conn"}

\* Some worker has closed the socket of slot s and not yet cleared it.
Closing(s) == \E w \in Workers : wpc[w] = "clear_sock" /\ conn_index[w] = s

\* The slot of the command in the patcher's hands is its own.
ClaimedSlot ==
  ppc \in ClaimLabels =>
    /\ sockfd[slot] = fd /\ state[slot] = 0
    /\ \A w \in Workers : conn_index[w] # slot
    /\ ppc = "register" => fd \notin registered

\* So is the slot of each queued command.
QueuedSlots ==
  \A k \in 1 .. Len(connq) :
    /\ sockfd[connq[k].slot] = connq[k].fd /\ state[connq[k].slot] = 0
    /\ \A w \in Workers : conn_index[w] # connq[k].slot

\* A worker shares its slot only with workers that are done with it.
SoleHolder ==
  \A v, w \in Workers :
    v # w /\ conn_index[v] = conn_index[w] /\ conn_index[v] # None =>
      wpc[v] = "reset" \/ wpc[w] = "reset"

\* The socket of a slot is open, and no other slot has it, until it is closed.
OpenSocket ==
  \A s \in Slots : sockfd[s] # 0 /\ ~Closing(s) => wire[sockfd[s]] # "free"
OneSlot ==
  \A s, t \in Slots :
    s # t /\ sockfd[s] = sockfd[t] /\ sockfd[s] # 0 => Closing(s) \/ Closing(t)

\* A new socket is nobody's, and the slot that is being looked at is free and,
\* as far as it has been seen, in nobody's hands.
NewSocket ==
  ppc \in NewLabels =>
    /\ wire[fd] # "free"
    /\ \A s \in Slots : sockfd[s] = fd => Closing(s)
FreshSlot ==
  /\ ppc \in {"scan_worker", "scan_queue", "scan_loop"} => sockfd[slot] = 0
  /\ ppc = "scan_worker" => \A w \in Workers : w < th => conn_index[w] # slot
  /\ ppc \in {"scan_queue", "scan_loop"} => \A w \in Workers : conn_index[w] # slot

\* What epoll watches belongs to a slot that is not being given up.
Watched ==
  \A f \in registered \ {Stdin} : \E s \in Slots : sockfd[s] = f /\ ~Closing(s)

\* A second lookup of a dequeued event finds the slot that the first one found.
FirstWith ==
  \A w \in Workers : wpc[w] \in Resting /\ auto[w] = 2 =>
    /\ conn_index[w] \in Slots /\ sockfd[conn_index[w]] = eev[w]
    /\ \A s \in Slots : sockfd[s] = eev[w] => conn_index[w] <= s

\* A worker that has a request to send finds the connection as the claim left it.
RequestReady ==
  \A w \in Workers :
    Requests(w) /\ conn_index[w] # None /\ wpc[w] \in Resting \cup {"request", "req_write"} =>
      /\ clb[conn_index[w]] = ParamSet(method[conn_index[w]], w)
      /\ state[conn_index[w]] = 0

\* A scratch chunk is in use only by its worker, for a header that it has written.
Scratch ==
  \A w \in Workers : chunk[w] = 1 =>
    /\ wpc[w] \in {"req_write"} \cup EndLabels
    /\ Requests(w)
    /\ wpc[w] = "req_write" => sent[conn_index[w]] >= 1

HeaderSent ==
  \A s \in Slots : state[s] = 1 /\ method[s] \in {"get", "put"} => sent[s] >= 1

\* A connection has ended when, and only when, it is being given up.
Ended ==
  /\ \A w \in Workers : wpc[w] \in {"close", "clear_sock"} => state[conn_index[w]] \in {3, -1}
  /\ \A s \in Slots : sockfd[s] # 0 /\ state[s] \in {3, -1} =>
       \E w \in Workers : conn_index[w] = s /\ wpc[w] \in {"close", "clear_sock"}
  /\ \A w \in Workers : Requests(w) /\ wpc[w] \in EndLabels => ~Unsent(conn_index[w])

\* A command that epoll watches and that is not sent is held by somebody.
Held ==
  \A s \in Slots : Pending(s) => WithPatcher(s) \/ Queued(s) \/ WithWorkers(s) # {}

Holding ==
  /\ ClaimedSlot /\ QueuedSlots /\ SoleHolder
  /\ OpenSocket /\ OneSlot /\ NewSocket /\ FreshSlot /\ Watched /\ FirstWith
  /\ RequestReady /\ Scratch /\ HeaderSent /\ Ended /\ Held

\* No slot is queued twice, nor the one of the command in the patcher's hands.
CommandsApart ==
  /\ \A j, k \in 1 .. Len(connq) : j # k => connq[j].slot # connq[k].slot
  /\ ppc \in ClaimLabels => ~Queued(slot)

ConnectionInv == ~crossed => CommandsApart /\ Holding

Base == TypeInv /\ ReservationInv /\ RoleInv

\* What a worker holds while it works on it is a slot.
LEMMA Holder ==
  ASSUME Base, NEW w \in Workers, wpc[w] \in ConnLabels \cup {"reset"}
  PROVE  conn_index[w] = conn[w] /\ conn_index[w] \in Slots
BY DEF Base, TypeInv, Placed, ConnPlaced, ConnLabels, RoleInv, BusyLabels

\* What is queued are slots and their descriptors.
LEMMA QueuedEvents ==
  ASSUME TypeInv, NEW k \in 1 .. Len(connq)
  PROVE  connq[k].slot \in Slots /\ connq[k].fd \in Fds
<1>1. connq \in Seq(ConnEvent)
  BY DEF TypeInv, TypeOK, QueueType
<1>2. connq[k] \in ConnEvent
  BY <1>1
<1>3. QED
  BY <1>2 DEF ConnEvent

\* The values at a worker or at a slot, for the steps that change one of them.
LEMMA Domains ==
  ASSUME TypeInv
  PROVE  /\ DOMAIN wpc = Workers /\ DOMAIN conn_index = Workers /\ DOMAIN chunk = Workers
         /\ DOMAIN auto = Workers /\ DOMAIN http_process = Workers /\ DOMAIN eev = Workers
         /\ DOMAIN sockfd = Slots /\ DOMAIN state = Slots /\ DOMAIN method = Slots
         /\ DOMAIN clb = Slots /\ DOMAIN sent = Slots /\ DOMAIN wire = Fds
BY DEF TypeInv, TypeOK, WorkerType, WorkspaceType, SlotType, WorldType

\* What a step leaves alone keeps its part of the invariant.
LEMMA HoldingFrames ==
  ASSUME Holding
  PROVE  /\ UNCHANGED <<ppc, slot, fd, sockfd, state, conn_index, registered>> => ClaimedSlot'
         /\ UNCHANGED <<connq, sockfd, state, conn_index>> => QueuedSlots'
         /\ UNCHANGED <<wpc, conn_index>> => SoleHolder'
         /\ UNCHANGED <<sockfd, wpc, conn_index, wire>> => OpenSocket'
         /\ UNCHANGED <<sockfd, wpc, conn_index>> => OneSlot'
         /\ UNCHANGED <<ppc, fd, wire, sockfd, wpc, conn_index>> => NewSocket'
         /\ UNCHANGED <<ppc, slot, th, sockfd, conn_index>> => FreshSlot'
         /\ UNCHANGED <<registered, sockfd, wpc, conn_index>> => Watched'
         /\ UNCHANGED <<wpc, auto, conn_index, sockfd, eev>> => FirstWith'
         /\ UNCHANGED <<wpc, auto, http_process, conn_index, clb, method, state>> =>
              RequestReady'
         /\ UNCHANGED <<chunk, wpc, auto, http_process, sent, conn_index>> => Scratch'
         /\ UNCHANGED <<state, method, sent>> => HeaderSent'
         /\ UNCHANGED <<wpc, conn_index, state, sockfd, auto, http_process, method, sent>> =>
              Ended'
         /\ UNCHANGED <<ppc, slot, connq, conn_index, auto, http_process, state, method, sent,
                        sockfd, registered>> => Held'
<1>1. UNCHANGED <<ppc, slot, fd, sockfd, state, conn_index, registered>> => ClaimedSlot'
  BY DEF Holding, ClaimedSlot
<1>2. UNCHANGED <<connq, sockfd, state, conn_index>> => QueuedSlots'
  BY DEF Holding, QueuedSlots
<1>3. UNCHANGED <<wpc, conn_index>> => SoleHolder'
  BY DEF Holding, SoleHolder
<1>4. UNCHANGED <<sockfd, wpc, conn_index, wire>> => OpenSocket'
  BY DEF Holding, OpenSocket, Closing
<1>5. UNCHANGED <<sockfd, wpc, conn_index>> => OneSlot'
  BY DEF Holding, OneSlot, Closing
<1>6. UNCHANGED <<ppc, fd, wire, sockfd, wpc, conn_index>> => NewSocket'
  BY DEF Holding, NewSocket, Closing
<1>7. UNCHANGED <<ppc, slot, th, sockfd, conn_index>> => FreshSlot'
  BY DEF Holding, FreshSlot
<1>8. UNCHANGED <<registered, sockfd, wpc, conn_index>> => Watched'
  BY DEF Holding, Watched, Closing
<1>9. UNCHANGED <<wpc, auto, conn_index, sockfd, eev>> => FirstWith'
  BY DEF Holding, FirstWith
<1>10. UNCHANGED <<wpc, auto, http_process, conn_index, clb, method, state>> => RequestReady'
  BY DEF Holding, RequestReady, Requests
<1>11. UNCHANGED <<chunk, wpc, auto, http_process, sent, conn_index>> => Scratch'
  BY DEF Holding, Scratch, Requests
<1>12. UNCHANGED <<state, method, sent>> => HeaderSent'
  BY DEF Holding, HeaderSent
<1>13. UNCHANGED <<wpc, conn_index, state, sockfd, auto, http_process, method, sent>> => Ended'
  BY DEF Holding, Ended, Requests, Unsent
<1>14. UNCHANGED <<ppc, slot, connq, conn_index, auto, http_process, state, method, sent,
                   sockfd, registered>> => Held'
  BY DEF Holding, Held, Pending, Unsent, WithPatcher, Queued, WithWorkers, Requests
<1>15. QED
  BY <1>1, <1>2, <1>3, <1>4, <1>5, <1>6, <1>7, <1>8, <1>9, <1>10, <1>11, <1>12, <1>13, <1>14

\* In the beginning no slot is in use.
LEMMA HoldingInit == Init => ConnectionInv
<1> SUFFICES ASSUME Init PROVE CommandsApart /\ Holding
  BY DEF ConnectionInv
<1> USE DEF Init, PatcherInit, WorkspaceInit
<1>1. ClaimedSlot /\ QueuedSlots /\ SoleHolder /\ NewSocket /\ FreshSlot
  BY DEF ClaimedSlot, ClaimLabels, QueuedSlots, SoleHolder, NewSocket, NewLabels, FreshSlot
<1>2. OpenSocket /\ OneSlot /\ Watched /\ FirstWith
  BY DEF OpenSocket, OneSlot, Watched, FirstWith
<1>3. RequestReady /\ Scratch /\ HeaderSent /\ Ended
  BY DEF RequestReady, Scratch, HeaderSent, Ended, EndLabels, Requests
<1>4. Held
  BY DEF Held, Pending
<1>5. CommandsApart
  BY DEF CommandsApart, ClaimLabels
<1>6. QED
  BY <1>1, <1>2, <1>3, <1>4, <1>5 DEF Holding

\* A worker that fails, or has read its response, is going to give up its slot.
LEMMA GivesUp ==
  ASSUME Base, Holding, NEW w \in Workers, NEW s \in Slots, conn_index[w] = s,
         wpc[w] \in {"request", "req_write", "resp_read"},
         wpc' = [wpc EXCEPT ![w] = "close"],
         NEW r \in {3, -1}, state' = [state EXCEPT ![s] = r],
         \A v \in Workers : chunk'[v] = 1 => chunk[v] = 1,
         UNCHANGED <<ppc, slot, fd, th, auto, eev, http_process, conn_index, sockfd, method,
                     clb, sent, connq, wire, registered>>
  PROVE  Holding'
<1>1. wpc'[w] = "close" /\ \A v \in Workers : v # w => wpc'[v] = wpc[v]
  BY Domains DEF Base
<1>2. state'[s] = r /\ \A u \in Slots : u # s => state'[u] = state[u]
  BY Domains DEF Base
<1>3. \A u : Closing(u)' <=> Closing(u)
  BY <1>1 DEF Closing
<1>4. \A v \in Workers : v # w /\ conn_index[v] = s => wpc[v] = "reset"
  BY DEF Holding, SoleHolder, Slots, None
<1>5. ClaimedSlot'
  <2>1. ppc \in ClaimLabels => slot \in Slots /\ slot # s
    BY DEF Holding, ClaimedSlot, ClaimLabels, Base, TypeInv, Placed, SlotPlaced, SlotLabels
  <2>2. QED
    BY <1>2, <2>1 DEF Holding, ClaimedSlot
<1>6. QueuedSlots'
  <2>1. \A k \in 1 .. Len(connq) : connq[k].slot \in Slots /\ connq[k].slot # s
    BY QueuedEvents DEF Holding, QueuedSlots, Base
  <2>2. QED
    BY <1>2, <2>1 DEF Holding, QueuedSlots
<1>7. SoleHolder'
  BY <1>1 DEF Holding, SoleHolder
<1>8. OpenSocket' /\ OneSlot' /\ NewSocket' /\ Watched'
  BY <1>3 DEF Holding, OpenSocket, OneSlot, NewSocket, Watched
<1>9. FreshSlot'
  BY HoldingFrames
<1>10. FirstWith'
  BY <1>1 DEF Holding, FirstWith, Resting
<1>11. RequestReady'
  <2>1. ASSUME NEW v \in Workers, Requests(v), conn_index[v] # None,
               wpc'[v] \in Resting \cup {"request", "req_write"}
        PROVE  /\ clb[conn_index[v]] = ParamSet(method[conn_index[v]], v)
               /\ state'[conn_index[v]] = 0
    <3>1. v # w /\ wpc[v] \in Resting \cup {"request", "req_write"}
      BY <1>1, <2>1 DEF Resting
    <3>2. conn_index[v] # s /\ conn_index[v] \in Slots
      BY <1>4, <2>1, <3>1 DEF Resting, Base, TypeInv, TypeOK, WorkspaceType
    <3>3. QED
      BY <1>2, <2>1, <3>1, <3>2 DEF Holding, RequestReady
  <2>2. QED
    BY <2>1 DEF RequestReady, Requests, ParamSet
<1>12. Scratch'
  BY <1>1 DEF Holding, Scratch, EndLabels, Requests
<1>13. HeaderSent'
  BY <1>2 DEF Holding, HeaderSent
<1>14. Ended'
  <2>1. ASSUME NEW v \in Workers, wpc'[v] \in {"close", "clear_sock"}
        PROVE  state'[conn_index[v]] \in {3, -1}
    <3>1. CASE v = w
      BY <1>2, <3>1
    <3>2. CASE v # w
      <4>1. wpc[v] \in {"close", "clear_sock"} /\ conn_index[v] \in Slots
        BY <1>1, <2>1, <3>2, Holder DEF ConnLabels
      <4>2. conn_index[v] # s
        BY <1>4, <3>2, <4>1
      <4>3. QED
        BY <1>2, <4>1, <4>2 DEF Holding, Ended
    <3>3. QED
      BY <3>1, <3>2
  <2>2. ASSUME NEW u \in Slots, sockfd[u] # 0, state'[u] \in {3, -1}
        PROVE  \E v \in Workers : conn_index[v] = u /\ wpc'[v] \in {"close", "clear_sock"}
    <3>1. CASE u = s
      BY <1>1, <3>1
    <3>2. CASE u # s
      BY <1>1, <1>2, <2>2, <3>2 DEF Holding, Ended
    <3>3. QED
      BY <3>1, <3>2
  <2>3. ASSUME NEW v \in Workers, Requests(v), wpc'[v] \in EndLabels
        PROVE  ~Unsent(conn_index[v])'
    <3>1. CASE conn_index[v] = s
      BY <1>2, <3>1 DEF Unsent
    <3>2. CASE conn_index[v] # s
      <4>1. wpc[v] \in EndLabels /\ conn_index[v] \in Slots
        BY <1>1, <2>3, <3>2, Holder DEF EndLabels, ConnLabels
      <4>2. QED
        BY <1>2, <2>3, <3>2, <4>1 DEF Holding, Ended, Unsent
    <3>3. QED
      BY <3>1, <3>2
  <2>4. QED
    BY <2>1, <2>2, <2>3 DEF Ended, Requests
<1>15. Held'
  <2>1. ASSUME NEW u \in Slots, Pending(u)'
        PROVE  WithPatcher(u) \/ Queued(u) \/ WithWorkers(u) # {}
    <3>1. u # s
      BY <1>2, <2>1 DEF Pending, Unsent
    <3>2. Pending(u)
      BY <1>2, <2>1, <3>1 DEF Pending, Unsent
    <3>3. QED
      BY <3>2 DEF Holding, Held
  <2>2. QED
    BY <2>1 DEF Held, WithPatcher, Queued, WithWorkers, Requests
<1>16. QED
  BY <1>5, <1>6, <1>7, <1>8, <1>9, <1>10, <1>11, <1>12, <1>13, <1>14, <1>15 DEF Holding

\* Whether the patcher has a command in hand stays as it is.
HandLabels == NewLabels \cup ClaimLabels
SameHand ==
  \/ UNCHANGED <<ppc, slot, fd, th>>
  \/ ppc \notin HandLabels /\ ppc' \notin HandLabels

\* The parts that speak of the patcher, when they are as they were.
LEMMA HandFrame ==
  ASSUME Base, Holding, SameHand, UNCHANGED <<sockfd, state, conn_index, registered>>,
         \A f \in Fds : wire[f] # "free" => wire'[f] # "free",
         \A u : Closing(u) => Closing(u)',
         UNCHANGED <<auto, http_process, method, sent, connq>>
  PROVE  ClaimedSlot' /\ NewSocket' /\ FreshSlot' /\ Held'
<1>1. ClaimedSlot'
  BY DEF SameHand, HandLabels, Holding, ClaimedSlot
<1>2. NewSocket'
  <2>1. ppc \in NewLabels => fd \in Fds
    BY DEF NewLabels, Base, TypeInv, Placed, FdPlaced, ActiveLabels
  <2>2. QED
    BY <2>1 DEF SameHand, HandLabels, Holding, NewSocket
<1>3. FreshSlot'
  BY DEF SameHand, HandLabels, NewLabels, Holding, FreshSlot
<1>4. Held'
  BY DEF SameHand, HandLabels, ClaimLabels, Holding, Held, Pending, Unsent, WithPatcher, Queued,
         WithWorkers, Requests
<1>5. QED
  BY <1>1, <1>2, <1>3, <1>4

\* The servers, and a step that only clears scratch chunks.
LEMMA WorldMoves ==
  ASSUME Base, Holding, SameHand,
         \A f \in Fds : wire[f] # "free" => wire'[f] # "free",
         \A v \in Workers : chunk'[v] = 1 => chunk[v] = 1,
         UNCHANGED <<wpc, auto, eev, http_process, conn_index, sockfd, state, method, clb,
                     sent, connq, registered>>
  PROVE  Holding'
<1>1. \A u : Closing(u)' <=> Closing(u)
  BY DEF Closing
<1>2. ClaimedSlot' /\ NewSocket' /\ FreshSlot' /\ Held'
  BY <1>1, HandFrame
<1>3. OpenSocket'
  <2>1. \A s \in Slots : sockfd[s] # 0 => sockfd[s] \in Fds
    BY DEF Base, TypeInv, TypeOK, SlotType
  <2>2. QED
    BY <1>1, <2>1 DEF Holding, OpenSocket
<1>4. Scratch'
  BY DEF Holding, Scratch, Requests
<1>5. QED
  BY <1>2, <1>3, <1>4, HoldingFrames DEF Holding

\* A worker goes on without touching what it shares.
LEMMA Moves ==
  ASSUME Base, Holding, SameHand, NEW w \in Workers, NEW l,
         wpc' = [wpc EXCEPT ![w] = l],
         wpc[w] \in Resting \cup {"request", "response", "deq_conn", "deq_epoll", "deq_start",
                              "clear_flag"},
         l \in Resting \cup {"request", "req_write", "response", "resp_read", "deq_epoll",
                             "deq_start", "clear_flag"},
         l \in Resting => wpc[w] \in Resting \/ (conn_index[w] = None /\ auto[w] = 0),
         l \in {"request", "req_write"} => wpc[w] \in Resting \cup {"request"},
         \/ UNCHANGED eev
         \/ l \notin Resting /\ \A v \in Workers : v # w => eev'[v] = eev[v],
         UNCHANGED <<auto, http_process, conn_index, chunk, sockfd, state, method, clb, sent,
                     connq, wire, registered>>
  PROVE  Holding'
<1>1. wpc'[w] = l /\ \A v \in Workers : v # w => wpc'[v] = wpc[v]
  BY Domains DEF Base
<1>2. \A v \in Workers : wpc'[v] \in EndLabels \/ wpc[v] \in EndLabels => wpc'[v] = wpc[v]
  BY <1>1 DEF EndLabels, Resting
<1>3. \A u : Closing(u)' <=> Closing(u)
  BY <1>2 DEF Closing, EndLabels
<1>4. ClaimedSlot' /\ NewSocket' /\ FreshSlot' /\ Held'
  BY <1>3, HandFrame
<1>5. QueuedSlots' /\ HeaderSent'
  BY HoldingFrames
<1>6. SoleHolder'
  BY <1>2 DEF Holding, SoleHolder, EndLabels
<1>7. OpenSocket' /\ OneSlot' /\ Watched'
  BY <1>3 DEF Holding, OpenSocket, OneSlot, Watched
<1>8. FirstWith'
  <2>1. ASSUME NEW v \in Workers, wpc'[v] \in Resting, auto[v] = 2
        PROVE  wpc[v] \in Resting /\ eev'[v] = eev[v]
    BY <1>1, <2>1 DEF Resting
  <2>2. QED
    BY <2>1 DEF Holding, FirstWith
<1>9. RequestReady'
  <2>1. ASSUME NEW v \in Workers, conn_index[v] # None,
               wpc'[v] \in Resting \cup {"request", "req_write"}
        PROVE  wpc[v] \in Resting \cup {"request", "req_write"}
    BY <1>1, <2>1 DEF Resting
  <2>2. QED
    BY <2>1 DEF Holding, RequestReady, Requests, ParamSet
<1>10. Scratch'
  <2>1. \A v \in Workers : chunk[v] = 1 => wpc'[v] = wpc[v]
    BY <1>1 DEF Holding, Scratch, EndLabels, Resting
  <2>2. QED
    BY <2>1 DEF Holding, Scratch, Requests
<1>11. Ended'
  BY <1>2 DEF Holding, Ended, EndLabels, Requests, Unsent
<1>12. QED
  BY <1>4, <1>5, <1>6, <1>7, <1>8, <1>9, <1>10, <1>11 DEF Holding

\* The scratch chunk is the worker's own, so that what it has written stands there.
LEMMA HoldingWriteHeader ==
  ASSUME Base, Holding, NEW w \in Workers, WriteHeader(w)
  PROVE  Holding'
<1> DEFINE s == conn_index[w]
<1>1. /\ wpc[w] = "req_write" /\ s \in Slots /\ conn[w] = s /\ Requests(w)
      /\ UNCHANGED <<ppc, slot, fd, th, wpc, auto, eev, http_process, conn_index, sockfd, state,
                     method, clb, connq, registered>>
  BY Holder DEF WriteHeader, WorkerAt, ConnLabels, Base, RoleInv, patcherVars, workerVars, queueVars
<1>2. clb[s].chunk = w
  <2>1. clb[s] = ParamSet(method[s], w)
    BY <1>1 DEF Holding, RequestReady, Slots, None
  <2>2. QED
    BY <2>1 DEF ParamSet
<1>3. chunk'[w] = 1 /\ \A v \in Workers : v # w => chunk'[v] = chunk[v]
  BY <1>1, <1>2, Domains DEF WriteHeader, Base
<1>4. /\ \A u \in Slots : sent'[u] >= sent[u] /\ sent[u] \in Nat /\ sent'[u] \in Nat
      /\ sent'[s] >= 1
  <2>1. \A u \in Slots : sent[u] \in 0 .. 2
    BY DEF Base, TypeInv, TypeOK, SlotType, SentMax
  <2>2. sent' = [sent EXCEPT ![s] = IF @ < 2 THEN @ + 1 ELSE @]
    BY <1>1 DEF WriteHeader, SentMax
  <2>3. /\ sent'[s] = IF sent[s] < 2 THEN sent[s] + 1 ELSE sent[s]
        /\ \A u \in Slots : u # s => sent'[u] = sent[u]
    BY <1>1, <2>2, Domains DEF Base
  <2>4. QED
    BY <1>1, <2>1, <2>3
<1>5. \A f \in Fds : wire[f] # "free" => wire'[f] # "free"
  <2>1. wire' = wire \/ \E f \in Fds : wire' = [wire EXCEPT ![f] = "asked"]
    BY DEF WriteHeader
  <2>2. QED
    BY <2>1 DEF Base, TypeInv, TypeOK, WorldType
<1> HIDE DEF s
<1>6. ClaimedSlot' /\ QueuedSlots' /\ SoleHolder' /\ OneSlot' /\ FreshSlot' /\ Watched'
      /\ FirstWith' /\ RequestReady'
  BY <1>1, HoldingFrames
<1>7. \A u : Closing(u)' <=> Closing(u)
  BY <1>1 DEF Closing
<1>8. OpenSocket'
  <2>1. \A u \in Slots : sockfd[u] # 0 => sockfd[u] \in Fds
    BY DEF Base, TypeInv, TypeOK, SlotType
  <2>2. QED
    BY <1>1, <1>5, <1>7, <2>1 DEF Holding, OpenSocket
<1>9. NewSocket'
  <2>1. ppc \in NewLabels => fd \in Fds
    BY DEF NewLabels, Base, TypeInv, Placed, FdPlaced, ActiveLabels
  <2>2. QED
    BY <1>1, <1>5, <1>7, <2>1 DEF Holding, NewSocket
<1>10. Scratch'
  <2>1. ASSUME NEW v \in Workers, chunk'[v] = 1
        PROVE  /\ wpc[v] \in {"req_write"} \cup EndLabels /\ Requests(v)
               /\ wpc[v] = "req_write" => sent'[conn_index[v]] >= 1
    <3>1. CASE v = w
      BY <1>1, <1>4, <3>1 DEF s
    <3>2. CASE v # w
      <4>1. wpc[v] = "req_write" => conn_index[v] \in Slots
        BY Holder DEF ConnLabels
      <4>2. QED
        BY <1>3, <1>4, <2>1, <3>2, <4>1 DEF Holding, Scratch
    <3>3. QED
      BY <3>1, <3>2
  <2>2. QED
    BY <1>1, <2>1 DEF Scratch, Requests
<1>11. HeaderSent'
  BY <1>1, <1>4 DEF Holding, HeaderSent
<1>12. \A u \in Slots : Unsent(u)' => Unsent(u)
  BY <1>1, <1>4 DEF Unsent
<1>13. Ended'
  <2>1. \A v \in Workers : wpc[v] \in EndLabels => conn_index[v] \in Slots
    BY Holder DEF EndLabels, ConnLabels
  <2>2. QED
    BY <1>1, <1>12, <2>1 DEF Holding, Ended, Requests
<1>14. Held'
  BY <1>1, <1>12 DEF Holding, Held, Pending, WithPatcher, Queued, WithWorkers, Requests
<1>15. QED
  BY <1>6, <1>8, <1>9, <1>10, <1>11, <1>13, <1>14 DEF Holding

\* A request counts as sent only when its header need not be written any more.
LEMMA HoldingEndRequest ==
  ASSUME Base, Holding, NEW w \in Workers, EndRequest(w)
  PROVE  Holding'
<1> DEFINE s == conn_index[w]
<1>1. /\ wpc[w] = "req_write" /\ s \in Slots /\ conn[w] = s /\ Requests(w)
      /\ UNCHANGED <<ppc, slot, fd, th, auto, eev, http_process, conn_index, chunk, sockfd,
                     method, clb, sent, connq, wire, registered>>
  BY Holder DEF EndRequest, WorkerAt, ConnLabels, Base, RoleInv, patcherVars, workspaceVars,
                queueVars, worldVars
<1>2. method[s] \in {"get", "put"} => sent[s] >= 1
  <2>1. clb[s] = ParamSet(method[s], w)
    BY <1>1 DEF Holding, RequestReady, Slots, None
  <2>2. method[s] \in {"get", "put"} => chunk[w] # 0
    BY <1>1, <2>1 DEF EndRequest, HeaderDue, ParamSet
  <2>3. chunk[w] \in {0, 1}
    BY DEF Base, TypeInv, TypeOK, WorkspaceType
  <2>4. QED
    BY <1>1, <2>2, <2>3 DEF Holding, Scratch
<1>3. wpc'[w] = "reset" /\ \A v \in Workers : v # w => wpc'[v] = wpc[v]
  BY Domains DEF EndRequest, WorkerGoes, Base
<1>4. state'[s] = 1 /\ \A u \in Slots : u # s => state'[u] = state[u]
  BY <1>1, Domains DEF EndRequest, Base
<1> HIDE DEF s
<1>5. \A v \in Workers : v # w /\ conn_index[v] = s => wpc[v] = "reset"
  BY <1>1 DEF Holding, SoleHolder, Slots, None, s
<1>6. \A u : Closing(u)' <=> Closing(u)
  BY <1>1, <1>3 DEF Closing
<1>7. ClaimedSlot'
  <2>1. ppc \in ClaimLabels => slot \in Slots /\ slot # s
    BY DEF Holding, ClaimedSlot, ClaimLabels, Base, TypeInv, Placed, SlotPlaced, SlotLabels, s
  <2>2. QED
    BY <1>1, <1>4, <2>1 DEF Holding, ClaimedSlot
<1>8. QueuedSlots'
  <2>1. \A k \in 1 .. Len(connq) : connq[k].slot \in Slots /\ connq[k].slot # s
    BY QueuedEvents DEF Holding, QueuedSlots, Base, s
  <2>2. QED
    BY <1>1, <1>4, <2>1 DEF Holding, QueuedSlots
<1>9. SoleHolder'
  BY <1>1, <1>3 DEF Holding, SoleHolder
<1>10. OpenSocket' /\ OneSlot' /\ NewSocket' /\ Watched'
  BY <1>1, <1>6 DEF Holding, OpenSocket, OneSlot, NewSocket, Watched
<1>11. FreshSlot'
  BY <1>1, HoldingFrames
<1>12. FirstWith'
  BY <1>1, <1>3 DEF Holding, FirstWith, Resting
<1>13. RequestReady'
  <2>1. ASSUME NEW v \in Workers, Requests(v), conn_index[v] # None,
               wpc'[v] \in Resting \cup {"request", "req_write"}
        PROVE  /\ clb[conn_index[v]] = ParamSet(method[conn_index[v]], v)
               /\ state'[conn_index[v]] = 0
    <3>1. v # w /\ wpc[v] \in Resting \cup {"request", "req_write"}
      BY <1>3, <2>1 DEF Resting
    <3>2. conn_index[v] # s /\ conn_index[v] \in Slots
      BY <1>5, <2>1, <3>1 DEF Resting, Base, TypeInv, TypeOK, WorkspaceType
    <3>3. QED
      BY <1>4, <2>1, <3>1, <3>2 DEF Holding, RequestReady
  <2>2. QED
    BY <1>1, <2>1 DEF RequestReady, Requests, ParamSet
<1>14. Scratch'
  BY <1>1, <1>3 DEF Holding, Scratch, EndLabels, Requests
<1>15. HeaderSent'
  BY <1>1, <1>2, <1>4 DEF Holding, HeaderSent
<1>16. Ended'
  <2>1. ASSUME NEW v \in Workers, wpc'[v] \in {"close", "clear_sock"}
        PROVE  state'[conn_index[v]] \in {3, -1}
    <3>1. v # w /\ wpc[v] \in {"close", "clear_sock"} /\ conn_index[v] \in Slots
      BY <1>3, <2>1, Holder DEF ConnLabels
    <3>2. QED
      BY <1>4, <1>5, <3>1 DEF Holding, Ended
  <2>2. ASSUME NEW u \in Slots, sockfd[u] # 0, state'[u] \in {3, -1}
        PROVE  \E v \in Workers : conn_index[v] = u /\ wpc'[v] \in {"close", "clear_sock"}
    BY <1>1, <1>3, <1>4, <2>2 DEF Holding, Ended
  <2>3. ASSUME NEW v \in Workers, Requests(v), wpc'[v] \in EndLabels
        PROVE  ~Unsent(conn_index[v])'
    <3>1. CASE conn_index[v] = s
      BY <1>1, <1>4, <3>1 DEF Unsent
    <3>2. CASE conn_index[v] # s
      <4>1. wpc[v] \in EndLabels /\ conn_index[v] \in Slots
        BY <1>3, <2>3, <3>2, Holder DEF EndLabels, ConnLabels, s
      <4>2. QED
        BY <1>1, <1>4, <2>3, <3>2, <4>1 DEF Holding, Ended, Unsent
    <3>3. QED
      BY <3>1, <3>2
  <2>4. QED
    BY <1>1, <2>1, <2>2, <2>3 DEF Ended, Requests
<1>17. Held'
  <2>1. ASSUME NEW u \in Slots, Pending(u)'
        PROVE  WithPatcher(u) \/ Queued(u) \/ WithWorkers(u) # {}
    <3>1. u # s
      BY <1>4, <2>1 DEF Pending, Unsent
    <3>2. Pending(u)
      BY <1>1, <1>4, <2>1, <3>1 DEF Pending, Unsent
    <3>3. QED
      BY <3>2 DEF Holding, Held
  <2>2. QED
    BY <1>1, <2>1 DEF Held, WithPatcher, Queued, WithWorkers, Requests
<1>18. QED
  BY <1>7, <1>8, <1>9, <1>10, <1>11, <1>12, <1>13, <1>14, <1>15, <1>16, <1>17 DEF Holding

\* The descriptor that is closed is no other slot's, and not the patcher's new one.
LEMMA HoldingClose ==
  ASSUME Base, Holding, NEW w \in Workers, Close(w)
  PROVE  Holding'
<1> DEFINE s == conn_index[w]
           f == sockfd[s]
<1>1. /\ wpc[w] = "close" /\ s \in Slots /\ conn[w] = s
      /\ UNCHANGED <<ppc, slot, fd, th, auto, eev, http_process, conn_index, chunk, sockfd,
                     state, method, clb, sent, connq>>
  BY Holder DEF Close, WorkerAt, ConnLabels, patcherVars, workspaceVars, slotVars, queueVars
<1>2. f # 0 /\ f \in Fds
  BY <1>1 DEF Close, Base, TypeInv, TypeOK, SlotType, Stdin
<1>3. wpc'[w] = "clear_sock" /\ \A v \in Workers : v # w => wpc'[v] = wpc[v]
  BY Domains DEF Close, WorkerGoes, Base
<1>4. registered' = registered \ {f} /\ \A g \in Fds : g # f => wire'[g] = wire[g]
  BY <1>1, Domains DEF Close, Base
<1> HIDE DEF f
<1>5. ~Closing(s)
  BY <1>1 DEF Closing, Holding, SoleHolder, Slots, None
<1> HIDE DEF s
<1>6. \A u : Closing(u)' <=> Closing(u) \/ u = s
  BY <1>1, <1>3 DEF Closing, s
<1>7. \A u \in Slots : u # s /\ sockfd[u] = f => Closing(u)
  BY <1>1, <1>2, <1>5 DEF Holding, OneSlot, f
<1>8. ClaimedSlot'
  BY <1>1, <1>4 DEF Holding, ClaimedSlot
<1>9. QueuedSlots' /\ FreshSlot' /\ HeaderSent'
  BY <1>1, HoldingFrames
<1>10. SoleHolder'
  BY <1>1, <1>3 DEF Holding, SoleHolder
<1>11. OpenSocket'
  <2>1. \A u \in Slots : sockfd[u] # 0 => sockfd[u] \in Fds
    BY DEF Base, TypeInv, TypeOK, SlotType
  <2>2. QED
    BY <1>1, <1>4, <1>6, <1>7, <2>1 DEF Holding, OpenSocket
<1>12. OneSlot'
  BY <1>1, <1>6 DEF Holding, OneSlot
<1>13. NewSocket'
  <2>1. ppc \in NewLabels => fd \in Fds /\ fd # f
    BY <1>1, <1>5 DEF NewLabels, Base, TypeInv, Placed, FdPlaced, ActiveLabels, Holding,
                      NewSocket, f
  <2>2. QED
    BY <1>1, <1>4, <1>6, <2>1 DEF Holding, NewSocket
<1>14. Watched'
  <2>1. ASSUME NEW g \in registered' \ {Stdin}
        PROVE  \E u \in Slots : sockfd[u] = g /\ ~Closing(u)'
    <3>1. PICK u \in Slots : sockfd[u] = g /\ ~Closing(u)
      BY <1>4, <2>1 DEF Holding, Watched
    <3>2. u # s
      BY <1>4, <2>1, <3>1 DEF f
    <3>3. QED
      BY <1>6, <3>1, <3>2
  <2>2. QED
    BY <1>1, <2>1 DEF Watched
<1>15. FirstWith'
  BY <1>1, <1>3 DEF Holding, FirstWith, Resting
<1>16. RequestReady'
  BY <1>1, <1>3 DEF Holding, RequestReady, Requests, ParamSet, Resting
<1>17. Scratch'
  BY <1>1, <1>3 DEF Holding, Scratch, EndLabels, Requests
<1>18. Ended'
  <2>1. \A v \in Workers : wpc'[v] \in EndLabels <=> wpc[v] \in EndLabels
    BY <1>1, <1>3 DEF EndLabels
  <2>2. \A v \in Workers :
          wpc'[v] \in {"close", "clear_sock"} <=> wpc[v] \in {"close", "clear_sock"}
    BY <1>1, <1>3
  <2>3. QED
    BY <1>1, <2>1, <2>2 DEF Holding, Ended, Requests, Unsent
<1>19. Held'
  BY <1>1, <1>4 DEF Holding, Held, Pending, Unsent, WithPatcher, Queued, WithWorkers, Requests
<1>20. QED
  BY <1>8, <1>9, <1>10, <1>11, <1>12, <1>13, <1>14, <1>15, <1>16, <1>17, <1>18, <1>19
  DEF Holding

\* Nobody else holds the slot whose socket is cleared, except workers done with it.
LEMMA HoldingClearSocket ==
  ASSUME Base, Holding, NEW w \in Workers, ClearSocket(w)
  PROVE  Holding'
<1> DEFINE s == conn_index[w]
<1>1. /\ wpc[w] = "clear_sock" /\ s \in Slots /\ conn[w] = s
      /\ UNCHANGED <<ppc, slot, fd, th, auto, eev, http_process, conn_index, chunk, state,
                     method, clb, sent, connq, wire, registered>>
  BY Holder DEF ClearSocket, WorkerAt, ConnLabels, patcherVars, workspaceVars, queueVars,
                worldVars
<1>2. wpc'[w] = "reset" /\ \A v \in Workers : v # w => wpc'[v] = wpc[v]
  BY Domains DEF ClearSocket, WorkerGoes, Base
<1>3. sockfd'[s] = 0 /\ \A u \in Slots : u # s => sockfd'[u] = sockfd[u]
  BY <1>1, Domains DEF ClearSocket, Base
<1>4. \A v \in Workers : v # w /\ conn_index[v] = s => wpc[v] = "reset"
  BY <1>1 DEF Holding, SoleHolder, Slots, None
<1>5. /\ \A u : u # s => (Closing(u)' <=> Closing(u))
      /\ Closing(s)
  BY <1>1, <1>2 DEF Closing
<1> HIDE DEF s
<1>6. ClaimedSlot'
  <2>1. ppc \in ClaimLabels => slot \in Slots /\ slot # s
    BY DEF Holding, ClaimedSlot, ClaimLabels, Base, TypeInv, Placed, SlotPlaced, SlotLabels, s
  <2>2. QED
    BY <1>1, <1>3, <2>1 DEF Holding, ClaimedSlot
<1>7. QueuedSlots'
  <2>1. \A k \in 1 .. Len(connq) : connq[k].slot \in Slots /\ connq[k].slot # s
    BY QueuedEvents DEF Holding, QueuedSlots, Base, s
  <2>2. QED
    BY <1>1, <1>3, <2>1 DEF Holding, QueuedSlots
<1>8. SoleHolder'
  BY <1>1, <1>2 DEF Holding, SoleHolder
<1>9. OpenSocket' /\ OneSlot'
  BY <1>1, <1>3, <1>5 DEF Holding, OpenSocket, OneSlot
<1>10. NewSocket'
  <2>1. ppc \in NewLabels => fd # 0
    BY DEF NewLabels, Base, TypeInv, Placed, FdPlaced, ActiveLabels, Fds
  <2>2. QED
    BY <1>1, <1>3, <1>5, <2>1 DEF Holding, NewSocket
<1>11. FreshSlot'
  <2>1. ppc \in {"scan_worker", "scan_queue", "scan_loop"} => slot \in Slots
    BY DEF Base, TypeInv, Placed, SlotPlaced, SlotLabels
  <2>2. QED
    BY <1>1, <1>3, <2>1 DEF Holding, FreshSlot
<1>12. Watched'
  <2>1. ASSUME NEW g \in registered \ {Stdin}
        PROVE  \E u \in Slots : sockfd'[u] = g /\ ~Closing(u)'
    <3>1. PICK u \in Slots : sockfd[u] = g /\ ~Closing(u)
      BY <2>1 DEF Holding, Watched
    <3>2. u # s
      BY <1>5, <3>1
    <3>3. QED
      BY <1>3, <1>5, <3>1, <3>2
  <2>2. QED
    BY <1>1, <2>1 DEF Watched
<1>13. FirstWith'
  <2>1. ASSUME NEW v \in Workers, wpc'[v] \in Resting, auto[v] = 2
        PROVE  /\ conn_index[v] \in Slots /\ sockfd'[conn_index[v]] = eev[v]
               /\ \A u \in Slots : sockfd'[u] = eev[v] => conn_index[v] <= u
    <3>1. v # w /\ wpc[v] \in Resting
      BY <1>2, <2>1 DEF Resting
    <3>2. conn_index[v] # s
      BY <1>4, <3>1 DEF Resting
    <3>3. eev[v] # 0
      BY DEF Base, TypeInv, TypeOK, WorkerType, Fds, None
    <3>4. QED
      BY <1>3, <2>1, <3>1, <3>2, <3>3 DEF Holding, FirstWith
  <2>2. QED
    BY <1>1, <2>1 DEF FirstWith
<1>14. RequestReady'
  BY <1>1, <1>2 DEF Holding, RequestReady, Requests, ParamSet, Resting
<1>15. Scratch'
  BY <1>1, <1>2 DEF Holding, Scratch, EndLabels, Requests
<1>16. HeaderSent'
  BY <1>1, HoldingFrames
<1>17. Ended'
  <2>1. ASSUME NEW v \in Workers, wpc'[v] \in {"close", "clear_sock"}
        PROVE  state[conn_index[v]] \in {3, -1}
    BY <1>1, <1>2, <2>1 DEF Holding, Ended
  <2>2. ASSUME NEW u \in Slots, sockfd'[u] # 0, state[u] \in {3, -1}
        PROVE  \E v \in Workers : conn_index[v] = u /\ wpc'[v] \in {"close", "clear_sock"}
    <3>1. u # s /\ sockfd[u] # 0
      BY <1>3, <2>2
    <3>2. PICK v \in Workers : conn_index[v] = u /\ wpc[v] \in {"close", "clear_sock"}
      BY <2>2, <3>1 DEF Holding, Ended
    <3>3. v # w
      BY <3>1, <3>2 DEF s
    <3>4. QED
      BY <1>2, <3>2, <3>3
  <2>3. \A v \in Workers : wpc'[v] \in EndLabels => wpc[v] \in EndLabels
    BY <1>1, <1>2 DEF EndLabels
  <2>4. QED
    BY <1>1, <2>1, <2>2, <2>3 DEF Holding, Ended, Requests, Unsent
<1>18. Held'
  <2>1. ASSUME NEW u \in Slots, Pending(u)'
        PROVE  WithPatcher(u) \/ Queued(u) \/ WithWorkers(u) # {}
    <3>1. u # s
      BY <1>3, <2>1 DEF Pending, Stdin
    <3>2. Pending(u)
      BY <1>1, <1>3, <2>1, <3>1 DEF Pending, Unsent
    <3>3. QED
      BY <3>2 DEF Holding, Held
  <2>2. QED
    BY <1>1, <2>1 DEF Held, WithPatcher, Queued, WithWorkers, Requests
<1>19. QED
  BY <1>6, <1>7, <1>8, <1>9, <1>10, <1>11, <1>12, <1>13, <1>14, <1>15, <1>16, <1>17, <1>18
  DEF Holding

\* A worker lets go of its slot when the request on it is sent or has failed.
LEMMA HoldingReset ==
  ASSUME Base, Holding, NEW w \in Workers, Reset(w)
  PROVE  Holding'
<1>1. /\ wpc[w] = "reset" /\ conn_index[w] \in Slots
      /\ UNCHANGED <<ppc, slot, fd, th, eev, http_process, sockfd, state, method, clb, sent,
                     connq, wire, registered>>
  BY Holder DEF Reset, WorkerAt, patcherVars, slotVars, queueVars, worldVars
<1>2. /\ wpc'[w] = "deq_conn" /\ chunk'[w] = 0 /\ auto'[w] = 0 /\ conn_index'[w] = None
      /\ \A v \in Workers : v # w =>
           /\ wpc'[v] = wpc[v] /\ chunk'[v] = chunk[v] /\ auto'[v] = auto[v]
           /\ conn_index'[v] = conn_index[v]
  BY Domains DEF Reset, WorkerGoes, Base
<1>3. None \notin Slots
  BY DEF Slots, None
<1>4. \A u : Closing(u)' <=> Closing(u)
  BY <1>1, <1>2 DEF Closing
<1>5. \A v \in Workers : v # w => (Requests(v)' <=> Requests(v))
  BY <1>1, <1>2 DEF Requests
<1>6. ClaimedSlot'
  <2>1. ppc \in ClaimLabels => slot \in Slots
    BY DEF ClaimLabels, Base, TypeInv, Placed, SlotPlaced, SlotLabels
  <2>2. QED
    BY <1>1, <1>2, <1>3, <2>1 DEF Holding, ClaimedSlot
<1>7. QueuedSlots'
  <2>1. \A k \in 1 .. Len(connq) : connq[k].slot \in Slots
    BY QueuedEvents DEF Base
  <2>2. QED
    BY <1>1, <1>2, <1>3, <2>1 DEF Holding, QueuedSlots
<1>8. SoleHolder'
  BY <1>1, <1>2 DEF Holding, SoleHolder
<1>9. OpenSocket' /\ OneSlot' /\ NewSocket' /\ Watched'
  BY <1>1, <1>4 DEF Holding, OpenSocket, OneSlot, NewSocket, Watched
<1>10. FreshSlot'
  <2>1. ppc \in {"scan_worker", "scan_queue", "scan_loop"} => slot \in Slots
    BY DEF Base, TypeInv, Placed, SlotPlaced, SlotLabels
  <2>2. QED
    BY <1>1, <1>2, <1>3, <2>1 DEF Holding, FreshSlot
<1>11. FirstWith'
  BY <1>1, <1>2 DEF Holding, FirstWith, Resting
<1>12. RequestReady'
  BY <1>1, <1>2, <1>5 DEF Holding, RequestReady, ParamSet, Resting
<1>13. Scratch'
  BY <1>1, <1>2, <1>5 DEF Holding, Scratch, EndLabels
<1>14. HeaderSent'
  BY <1>1, HoldingFrames
<1>15. Ended'
  <2>1. \A v \in Workers : wpc'[v] \in EndLabels => v # w
    BY <1>2 DEF EndLabels
  <2>2. \A v \in Workers : wpc'[v] \in {"close", "clear_sock"} => v # w
    BY <1>2
  <2>3. \A v \in Workers : wpc[v] \in {"close", "clear_sock"} => v # w
    BY <1>1
  <2>4. QED
    BY <1>1, <1>2, <1>5, <2>1, <2>2, <2>3 DEF Holding, Ended, Unsent
<1>16. Held'
  <2>1. ASSUME NEW u \in Slots, Pending(u), NEW v \in WithWorkers(u)
        PROVE  v \in WithWorkers(u)'
    <3>1. v \in Workers /\ conn_index[v] = u /\ Requests(v) /\ Unsent(u)
      BY <2>1 DEF WithWorkers, Pending
    <3>2. v # w
      BY <1>1, <3>1 DEF Holding, Ended, EndLabels
    <3>3. QED
      BY <1>2, <1>5, <3>1, <3>2 DEF WithWorkers
  <2>2. ASSUME NEW u \in Slots, Pending(u)
        PROVE  WithPatcher(u) \/ Queued(u) \/ WithWorkers(u)' # {}
    BY <2>1, <2>2 DEF Holding, Held
  <2>3. QED
    BY <1>1, <2>2 DEF Held, Pending, Unsent, WithPatcher, Queued
<1>17. QED
  BY <1>6, <1>7, <1>8, <1>9, <1>10, <1>11, <1>12, <1>13, <1>14, <1>15, <1>16 DEF Holding

\* A queued command is taken by a worker that holds nothing, with its slot as the
\* patcher has left it: the writes of the socket and the state change nothing.
LEMMA HoldingDequeueConn ==
  ASSUME Base, CommandsApart, Holding, NEW w \in Workers, DequeueConn(w)
  PROVE  Holding'
<1> DEFINE s == connq[1].slot
<1>1. /\ wpc[w] = "deq_conn" /\ connq # <<>> /\ connq' = Tail(connq)
      /\ auto[w] = 0 /\ conn_index[w] = None
      /\ UNCHANGED <<ppc, slot, fd, th, eev, http_process, chunk, method, sent, wire,
                     registered>>
  BY DEF DequeueConn, WorkerAt, patcherVars, worldVars, Base, ReservationInv, Emptied
<1>2. /\ 1 \in 1 .. Len(connq) /\ Head(connq) = connq[1]
      /\ \A k \in 1 .. Len(connq') : k + 1 \in 1 .. Len(connq) /\ connq'[k] = connq[k + 1]
      /\ \A k \in 1 .. Len(connq) : k # 1 => k - 1 \in 1 .. Len(connq')
  <2>1. connq \in Seq(ConnEvent)
    BY DEF Base, TypeInv, TypeOK, QueueType
  <2>2. QED
    BY <1>1, <2>1, TailElements
<1>3. s \in Slots /\ connq[1].fd \in Fds
  BY <1>2, QueuedEvents DEF Base
<1>4. /\ sockfd[s] = connq[1].fd /\ state[s] = 0
      /\ \A v \in Workers : conn_index[v] # s
  BY <1>2 DEF Holding, QueuedSlots
<1>5. UNCHANGED <<sockfd, state>>
  BY <1>2, <1>3, <1>4 DEF DequeueConn, Base, TypeInv, TypeOK, SlotType
<1>6. /\ wpc'[w] = "check" /\ auto'[w] = 1 /\ conn_index'[w] = s
      /\ \A v \in Workers : v # w =>
           /\ wpc'[v] = wpc[v] /\ auto'[v] = auto[v] /\ conn_index'[v] = conn_index[v]
  BY <1>2, Domains DEF DequeueConn, WorkerGoes, Base
<1>7. /\ clb'[s] = ParamSet(method[s], w)
      /\ \A u \in Slots : u # s => clb'[u] = clb[u]
  BY <1>2, <1>3, Domains DEF DequeueConn, Base
<1>8. \A k \in 1 .. Len(connq') : connq'[k].slot # s
  <2>1. ASSUME NEW k \in 1 .. Len(connq') PROVE connq[k + 1].slot # s
    BY <1>2, <2>1 DEF CommandsApart
  <2>2. QED
    BY <1>2, <2>1
<1>9. Queued(s)
  BY <1>2 DEF Queued
<1> HIDE DEF s
<1>10. \A u : Closing(u)' <=> Closing(u)
  BY <1>1, <1>6 DEF Closing
<1>11. \A v \in Workers : v # w => (Requests(v)' <=> Requests(v))
  BY <1>1, <1>6 DEF Requests
<1>12. ClaimedSlot'
  <2>1. ppc \in ClaimLabels => slot # s
    BY <1>9 DEF CommandsApart
  <2>2. QED
    BY <1>1, <1>5, <1>6, <2>1 DEF Holding, ClaimedSlot
<1>13. QueuedSlots'
  <2>1. ASSUME NEW k \in 1 .. Len(connq')
        PROVE  /\ sockfd[connq'[k].slot] = connq'[k].fd /\ state[connq'[k].slot] = 0
               /\ \A v \in Workers : conn_index'[v] # connq'[k].slot
    <3>1. k + 1 \in 1 .. Len(connq) /\ connq'[k] = connq[k + 1]
      BY <1>2
    <3>2. /\ sockfd[connq[k + 1].slot] = connq[k + 1].fd /\ state[connq[k + 1].slot] = 0
          /\ \A v \in Workers : conn_index[v] # connq[k + 1].slot
      BY <3>1 DEF Holding, QueuedSlots
    <3>3. QED
      BY <1>6, <1>8, <3>1, <3>2
  <2>2. QED
    BY <1>5, <2>1 DEF QueuedSlots
<1>14. SoleHolder'
  BY <1>4, <1>6 DEF Holding, SoleHolder
<1>15. OpenSocket' /\ OneSlot' /\ NewSocket' /\ Watched'
  BY <1>1, <1>5, <1>10 DEF Holding, OpenSocket, OneSlot, NewSocket, Watched
<1>16. FreshSlot'
  <2>1. ppc \in {"scan_worker", "scan_queue", "scan_loop"} => slot # s
    BY <1>3, <1>4 DEF Holding, FreshSlot, Fds
  <2>2. QED
    BY <1>1, <1>5, <1>6, <2>1 DEF Holding, FreshSlot
<1>17. FirstWith'
  BY <1>1, <1>5, <1>6 DEF Holding, FirstWith
<1>18. RequestReady'
  <2>1. ASSUME NEW v \in Workers, Requests(v)', conn_index'[v] # None,
               wpc'[v] \in Resting \cup {"request", "req_write"}
        PROVE  /\ clb'[conn_index'[v]] = ParamSet(method[conn_index'[v]], v)
               /\ state[conn_index'[v]] = 0
    <3>1. CASE v = w
      BY <1>4, <1>6, <1>7, <3>1
    <3>2. CASE v # w
      <4>1. conn_index[v] # s /\ conn_index[v] \in Slots
        BY <1>4, <1>6, <2>1, <3>2 DEF Base, TypeInv, TypeOK, WorkspaceType
      <4>2. QED
        BY <1>6, <1>7, <1>11, <2>1, <3>2, <4>1 DEF Holding, RequestReady
    <3>3. QED
      BY <3>1, <3>2
  <2>2. QED
    BY <1>1, <1>5, <2>1 DEF RequestReady, ParamSet
<1>19. Scratch'
  BY <1>1, <1>6, <1>11 DEF Holding, Scratch, EndLabels
<1>20. HeaderSent'
  BY <1>1, <1>5, HoldingFrames
<1>21. Ended'
  <2>1. \A v \in Workers : wpc'[v] \in EndLabels => v # w
    BY <1>6 DEF EndLabels
  <2>2. \A v \in Workers : wpc'[v] \in {"close", "clear_sock"} => v # w
    BY <1>6
  <2>3. \A v \in Workers : wpc[v] \in {"close", "clear_sock"} => v # w
    BY <1>1
  <2>4. QED
    BY <1>1, <1>5, <1>6, <1>11, <2>1, <2>2, <2>3 DEF Holding, Ended, Unsent
<1>22. Held'
  <2>1. ASSUME NEW u \in Slots, Queued(u)
        PROVE  Queued(u)' \/ WithWorkers(u)' # {}
    <3>1. PICK k \in 1 .. Len(connq) : connq[k].slot = u
      BY <2>1 DEF Queued
    <3>2. CASE k = 1
      BY <1>6, <3>1, <3>2 DEF WithWorkers, Requests, s
    <3>3. CASE k # 1
      <4>1. k - 1 \in 1 .. Len(connq') /\ connq'[k - 1] = connq[(k - 1) + 1]
        BY <1>2, <3>3
      <4>2. (k - 1) + 1 = k
        OBVIOUS
      <4>3. QED
        BY <3>1, <4>1, <4>2 DEF Queued
    <3>4. QED
      BY <3>2, <3>3
  <2>2. ASSUME NEW u \in Slots, NEW v \in WithWorkers(u)
        PROVE  v \in WithWorkers(u)'
    BY <1>1, <1>3, <1>6, <1>11 DEF WithWorkers, Slots, None
  <2>3. ASSUME NEW u \in Slots, Pending(u)
        PROVE  WithPatcher(u) \/ Queued(u)' \/ WithWorkers(u)' # {}
    BY <2>1, <2>2, <2>3 DEF Holding, Held
  <2>4. QED
    BY <1>1, <1>5, <2>3 DEF Held, Pending, Unsent, WithPatcher
<1>23. QED
  BY <1>12, <1>13, <1>14, <1>15, <1>16, <1>17, <1>18, <1>19, <1>20, <1>21, <1>22 DEF Holding

\* A response that is given out on a connection in nobody's hands: the connection
\* is neither a command in the queue or at the patcher, nor does any worker hold it
\* who is not done with it.
LEMMA NotInHand ==
  ASSUME NEW s, ~InHand(s)
  PROVE  /\ ~Queued(s)
         /\ ppc \in ClaimLabels => slot # s
         /\ \A v \in Workers : conn_index[v] = s => wpc[v] = "reset"
BY DEF InHand, ClaimLabels

\* The worker takes an event, and its slot is in nobody's hands.
LEMMA HoldingDequeueEpoll ==
  ASSUME Base, Holding, NEW w \in Workers, DequeueEpoll(w), SlotsOf(taking) # {},
         ~crossed'
  PROVE  Holding'
<1>1. /\ wpc[w] = "deq_start" /\ auto[w] = 0 /\ conn_index[w] = None
      /\ UNCHANGED <<ppc, slot, fd, th, http_process, chunk, sockfd, method, clb, sent, connq,
                     wire, registered>>
  BY DEF DequeueEpoll, WorkerAt, patcherVars, worldVars, Base, ReservationInv, Emptied
<1>2. PICK f \in Fds : f = taking
  BY <1>1 DEF Base, TypeInv, TakingPlaced
<1>3. PICK s \in Slots : /\ s = Min(SlotsOf(f)) /\ sockfd[s] = f
                         /\ \A u \in Slots : sockfd[u] = f => s <= u
  BY <1>2, LowestSlot
<1>4. /\ wpc'[w] = "check" /\ auto'[w] = 2 /\ conn_index'[w] = s /\ eev'[w] = f
      /\ \A v \in Workers : v # w =>
           /\ wpc'[v] = wpc[v] /\ auto'[v] = auto[v] /\ conn_index'[v] = conn_index[v]
           /\ eev'[v] = eev[v]
  BY <1>2, <1>3, Domains DEF DequeueEpoll, WorkerGoes, Base
<1>5. state'[s] = 2 /\ \A u \in Slots : u # s => state'[u] = state[u]
  BY <1>2, <1>3, Domains DEF DequeueEpoll, Base
<1>6. f # 0
  BY DEF Fds
<1>7. /\ ~Queued(s)
      /\ ppc \in ClaimLabels => slot # s
      /\ \A v \in Workers : conn_index[v] = s => wpc[v] = "reset"
  <2>1. ~InHand(s)
    BY <1>2, <1>3 DEF DequeueEpoll
  <2>2. QED
    BY <2>1, NotInHand
<1>8. \A u : Closing(u)' <=> Closing(u)
  BY <1>1, <1>4 DEF Closing
<1>9. \A v \in Workers : v # w => (Requests(v)' <=> Requests(v))
  BY <1>1, <1>4 DEF Requests
<1>10. ~Requests(w)'
  BY <1>4 DEF Requests
<1>11. \A u \in Slots : Unsent(u)' => Unsent(u)
  <2>1. state[s] \notin {3, -1}
    BY <1>3, <1>6, <1>7 DEF Holding, Ended
  <2>2. state[s] \in -1 .. 3
    BY <1>3 DEF Base, TypeInv, TypeOK, SlotType
  <2>3. state[s] = 1 /\ method[s] \in {"get", "put"} => sent[s] # 0
    BY <1>3 DEF Holding, HeaderSent
  <2>4. QED
    BY <1>1, <1>5, <2>1, <2>2, <2>3 DEF Unsent
<1>13. ClaimedSlot'
  <2>1. ppc \in ClaimLabels => slot \in Slots
    BY DEF ClaimLabels, Base, TypeInv, Placed, SlotPlaced, SlotLabels
  <2>2. QED
    BY <1>1, <1>4, <1>5, <1>7, <2>1 DEF Holding, ClaimedSlot
<1>14. QueuedSlots'
  <2>1. \A k \in 1 .. Len(connq) : connq[k].slot \in Slots /\ connq[k].slot # s
    BY <1>7, QueuedEvents DEF Base, Queued
  <2>2. QED
    BY <1>1, <1>4, <1>5, <2>1 DEF Holding, QueuedSlots
<1>15. SoleHolder'
  BY <1>4, <1>7 DEF Holding, SoleHolder
<1>16. OpenSocket' /\ OneSlot' /\ NewSocket' /\ Watched'
  BY <1>1, <1>8 DEF Holding, OpenSocket, OneSlot, NewSocket, Watched
<1>17. FreshSlot'
  <2>1. ppc \in {"scan_worker", "scan_queue", "scan_loop"} => slot # s
    BY <1>3, <1>6 DEF Holding, FreshSlot
  <2>2. QED
    BY <1>1, <1>4, <2>1 DEF Holding, FreshSlot
<1>18. FirstWith'
  BY <1>1, <1>3, <1>4 DEF Holding, FirstWith
<1>19. RequestReady'
  <2>1. ASSUME NEW v \in Workers, Requests(v)', conn_index'[v] # None,
               wpc'[v] \in Resting \cup {"request", "req_write"}
        PROVE  /\ clb[conn_index'[v]] = ParamSet(method[conn_index'[v]], v)
               /\ state'[conn_index'[v]] = 0
    <3>1. v # w
      BY <1>10, <2>1
    <3>2. conn_index[v] # s /\ conn_index[v] \in Slots
      BY <1>4, <1>7, <2>1, <3>1 DEF Base, TypeInv, TypeOK, WorkspaceType, Resting
    <3>3. QED
      BY <1>4, <1>5, <1>9, <2>1, <3>1, <3>2 DEF Holding, RequestReady
  <2>2. QED
    BY <1>1, <2>1 DEF RequestReady, ParamSet
<1>20. Scratch'
  BY <1>1, <1>4, <1>9 DEF Holding, Scratch, EndLabels
<1>21. HeaderSent'
  BY <1>1, <1>5 DEF Holding, HeaderSent
<1>22. Ended'
  <2>1. ASSUME NEW v \in Workers, wpc'[v] \in {"close", "clear_sock"}
        PROVE  state'[conn_index'[v]] \in {3, -1}
    <3>1. v # w /\ wpc[v] \in {"close", "clear_sock"}
      BY <1>4, <2>1
    <3>2. conn_index[v] \in Slots /\ conn_index[v] # s
      BY <1>7, <3>1, Holder DEF ConnLabels
    <3>3. QED
      BY <1>4, <1>5, <3>1, <3>2 DEF Holding, Ended
  <2>2. ASSUME NEW u \in Slots, sockfd[u] # 0, state'[u] \in {3, -1}
        PROVE  \E v \in Workers : conn_index'[v] = u /\ wpc'[v] \in {"close", "clear_sock"}
    <3>1. PICK v \in Workers : conn_index[v] = u /\ wpc[v] \in {"close", "clear_sock"}
      BY <1>5, <2>2 DEF Holding, Ended
    <3>2. v # w
      BY <1>1, <3>1
    <3>3. QED
      BY <1>4, <3>1, <3>2
  <2>3. ASSUME NEW v \in Workers, Requests(v)', wpc'[v] \in EndLabels
        PROVE  ~Unsent(conn_index[v])'
    <3>1. v # w /\ conn_index'[v] = conn_index[v] /\ wpc[v] \in EndLabels /\ Requests(v)
      BY <1>4, <1>9, <1>10, <2>3
    <3>2. PICK u \in Slots : conn_index[v] = u /\ ~Unsent(u)
      BY <3>1, Holder DEF Holding, Ended, EndLabels, ConnLabels
    <3>3. conn_index'[v] = u /\ ~Unsent(u)'
      BY <1>11, <3>1, <3>2
    <3>4. QED
      BY <3>3 DEF Unsent
  <2>4. QED
    BY <1>1, <2>1, <2>2, <2>3 DEF Ended
<1>23. Held'
  <2>1. ASSUME NEW u \in Slots, Pending(u)' PROVE Pending(u)
    BY <1>1, <1>11, <2>1 DEF Pending
  <2>2. ASSUME NEW u \in Slots, NEW v \in WithWorkers(u)
        PROVE  v \in WithWorkers(u)'
    BY <1>1, <1>4, <1>9 DEF WithWorkers, Slots, None
  <2>3. ASSUME NEW u \in Slots, Pending(u)'
        PROVE  WithPatcher(u) \/ Queued(u) \/ WithWorkers(u)' # {}
    BY <2>1, <2>2, <2>3 DEF Holding, Held
  <2>4. QED
    BY <1>1, <2>3 DEF Held, WithPatcher, Queued
<1>24. QED
  BY <1>13, <1>14, <1>15, <1>16, <1>17, <1>18, <1>19, <1>20, <1>21, <1>22, <1>23 DEF Holding

\* The second lookup of the connection finds what the first one found.
LEMMA HoldingChooseProcess ==
  ASSUME Base, Holding, NEW w \in Workers, ChooseProcess(w)
  PROVE  Holding'
<1>1. /\ wpc[w] = "check" /\ auto[w] \in 0 .. 2
      /\ UNCHANGED <<auto, http_process, chunk, ppc, slot, fd, th, sockfd, state, method, clb,
                     sent, connq, wire, registered>>
      /\ \A v \in Workers : v # w => eev'[v] = eev[v]
  BY DEF ChooseProcess, WorkerAt, patcherVars, slotVars, queueVars, worldVars, Base, TypeInv,
         TypeOK, WorkerType
<1>2. \/ wpc' = [wpc EXCEPT ![w] = "request"]
      \/ wpc' = [wpc EXCEPT ![w] = "response"]
  <2>1. auto[w] = 0 => http_process[w] \in {"request", "response"}
    BY DEF ChooseProcess, Base, TypeInv, TypeOK, WorkspaceType, Placed, Assigned
  <2>2. CASE auto[w] = 0
    <3>1. wpc' = [wpc EXCEPT ![w] = http_process[w]]
      BY <2>2 DEF ChooseProcess, WorkerGoes
    <3>2. QED
      BY <2>1, <2>2, <3>1
  <2>3. CASE auto[w] = 1
    BY <2>3 DEF ChooseProcess, WorkerGoes
  <2>4. CASE auto[w] = 2
    BY <2>4 DEF ChooseProcess, WorkerGoes
  <2>5. QED
    BY <1>1, <2>2, <2>3, <2>4
<1>3. UNCHANGED conn_index
  <2>1. CASE auto[w] = 0
    BY <2>1 DEF ChooseProcess, Base, TypeInv, TypeOK, WorkspaceType
  <2>2. CASE auto[w] = 1
    BY <2>2 DEF ChooseProcess, Base, RoleInv, TypeInv, TypeOK, WorkspaceType
  <2>3. CASE auto[w] = 2
    <3>1. /\ conn_index[w] \in Slots /\ sockfd[conn_index[w]] = eev[w]
          /\ \A u \in Slots : sockfd[u] = eev[w] => conn_index[w] <= u
      BY <1>1, <2>3 DEF Holding, FirstWith, Resting
    <3>2. SlotsOf(eev[w]) # {}
      BY <3>1 DEF SlotsOf
    <3>3. Min(SlotsOf(eev[w])) = conn_index[w]
      <4>1. /\ Min(SlotsOf(eev[w])) \in Slots
            /\ Min(SlotsOf(eev[w])) <= conn_index[w] /\ conn_index[w] <= Min(SlotsOf(eev[w]))
        BY <3>1, <3>2, LowestSlot
      <4>2. QED
        BY <3>1, <4>1 DEF Slots
    <3>4. QED
      BY <2>3, <3>2, <3>3 DEF ChooseProcess, Base, TypeInv, TypeOK, WorkspaceType
  <2>4. QED
    BY <1>1, <2>1, <2>2, <2>3
<1>4. SameHand
  BY <1>1 DEF SameHand
<1>5. QED
  BY <1>1, <1>2, <1>3, <1>4, Moves DEF Resting

\* The header callback only clears.
LEMMA CallbackClears ==
  ASSUME Base, NEW w \in Workers, HeaderCallback(w)
  PROVE  \A v \in Workers : chunk'[v] = 1 => chunk[v] = 1
<1>1. chunk' = chunk \/ \E c : chunk' = [chunk EXCEPT ![c] = 0]
  BY DEF HeaderCallback
<1>2. QED
  BY <1>1, Domains DEF Base

\* Every step of a worker.
LEMMA HoldingWorker ==
  ASSUME Base, CommandsApart, Holding, ~crossed', NEW w \in Workers, WorkerStep(w) \/ SpuriousWake(w)
  PROVE  Holding'
<1> USE DEF WorkerAt, WorkerGoes, patcherVars, workerVars, workspaceVars, slotVars, queueVars,
            worldVars
<1>1. UNCHANGED <<ppc, slot, fd, th>> /\ SameHand
  BY DEF WorkerStep, CheckIdle, Park, ChooseProcess, AssertFails, BeginRequest,
         WriteHeader, BrokenPipe, FailRequest, EndRequest, BeginResponse,
         ReadResponse, ReadOn, ReadEnds, TakesStdin, Close, ClearSocket, Reset,
         DequeueConn, NoConnEvent, TakeEpoll, DequeueEpoll, NoEpollEvent, ClearFlag,
         SpuriousWake, SameHand
<1>2. CASE CheckIdle(w)
  BY <1>1, <1>2, Moves DEF CheckIdle, Resting
<1>3. CASE Park(w)
  BY <1>1, <1>3, Moves DEF Park, Resting
<1>4. CASE SpuriousWake(w)
  BY <1>1, <1>4, Moves DEF SpuriousWake, Resting
<1>5. CASE BeginRequest(w)
  <2>1. /\ wpc[w] = "request" /\ conn[w] = conn_index[w] /\ conn[w] \in Slots
        /\ UNCHANGED <<auto, eev, http_process, conn_index, chunk, sockfd, method, clb, sent,
                       connq, wire, registered>>
    BY <1>5 DEF BeginRequest, BadSocket, Base, RoleInv, BusyLabels
  <2>2. CASE wpc' = [wpc EXCEPT ![w] = "req_write"] /\ UNCHANGED state
    BY <1>1, <2>1, <2>2, Moves DEF Resting
  <2>3. CASE wpc' = [wpc EXCEPT ![w] = "close"] /\ state' = [state EXCEPT ![conn[w]] = -1]
    BY <1>1, <2>1, <2>3, GivesUp
  <2>4. QED
    BY <1>5, <2>2, <2>3 DEF BeginRequest
<1>6. CASE FailRequest(w)
  <2>1. wpc[w] = "req_write" /\ conn[w] = conn_index[w] /\ conn[w] \in Slots
    BY <1>6, Holder DEF FailRequest, ConnLabels
  <2>2. QED
    BY <1>1, <1>6, <2>1, GivesUp DEF FailRequest
<1>7. CASE BeginResponse(w)
  BY <1>1, <1>7, Moves DEF BeginResponse, Resting
<1>8. CASE ReadResponse(w)
  <2>1. wpc[w] = "resp_read" /\ conn[w] = conn_index[w] /\ conn[w] \in Slots
    BY <1>8, Holder DEF ReadResponse, ConnLabels
  <2>2. \A v \in Workers : chunk'[v] = 1 => chunk[v] = 1
    BY <1>8, CallbackClears DEF ReadResponse
  <2>3. PICK r \in {3, -1} : state' = [state EXCEPT ![conn[w]] = r]
    BY <1>8 DEF ReadResponse
  <2>4. QED
    BY <1>1, <1>8, <2>1, <2>2, <2>3, GivesUp DEF ReadResponse
<1>9. CASE ReadEnds(w)
  <2>1. wpc[w] = "resp_read" /\ conn[w] = conn_index[w] /\ conn[w] \in Slots
    BY <1>9, Holder DEF ReadEnds, ConnLabels
  <2>2. QED
    BY <1>1, <1>9, <2>1, GivesUp DEF ReadEnds
<1>10. CASE ReadOn(w)
  <2>1. \A v \in Workers : chunk'[v] = 1 => chunk[v] = 1
    BY <1>10, CallbackClears DEF ReadOn
  <2>2. \A f \in Fds : wire[f] # "free" => wire'[f] # "free"
    <3>1. \E g : wire' = [wire EXCEPT ![g] = "read"]
      BY <1>10 DEF ReadOn
    <3>2. QED
      BY <3>1, Domains DEF Base
  <2>3. QED
    BY <1>1, <1>10, <2>1, <2>2, WorldMoves DEF ReadOn
<1>11. CASE AssertFails(w) \/ BrokenPipe(w) \/ TakesStdin(w)
  BY <1>1, <1>11, WorldMoves DEF AssertFails, BrokenPipe, TakesStdin
<1>12. CASE NoConnEvent(w)
  BY <1>1, <1>12, Moves DEF NoConnEvent, Resting
<1>13. CASE NoEpollEvent(w) \/ TakeEpoll(w)
  BY <1>1, <1>13, Moves DEF NoEpollEvent, TakeEpoll, Resting
<1>14. CASE ClearFlag(w)
  <2>1. auto[w] = 0 /\ conn_index[w] = None
    BY <1>14 DEF ClearFlag, Base, ReservationInv, Emptied
  <2>2. QED
    BY <1>1, <1>14, <2>1, Moves DEF ClearFlag, Resting
<1>15. CASE DequeueEpoll(w)
  <2>1. CASE SlotsOf(taking) = {}
    <3>1. /\ wpc[w] = "deq_start" /\ wpc' = [wpc EXCEPT ![w] = "clear_flag"]
          /\ UNCHANGED <<auto, eev, http_process, conn_index, chunk, sockfd, state, method,
                         clb, sent, connq, wire, registered>>
      BY <1>15, <2>1 DEF DequeueEpoll
    <3>2. QED
      BY <1>1, <3>1, Moves DEF Resting
  <2>2. CASE SlotsOf(taking) # {}
    BY <1>15, <2>2, HoldingDequeueEpoll
  <2>3. QED
    BY <2>1, <2>2
<1>16. QED
  BY <1>2, <1>3, <1>4, <1>5, <1>6, <1>7, <1>8, <1>9, <1>10, <1>11, <1>12, <1>13, <1>14, <1>15,
     HoldingChooseProcess, HoldingWriteHeader, HoldingEndRequest, HoldingClose,
     HoldingClearSocket, HoldingReset, HoldingDequeueConn
  DEF WorkerStep

\* Every search through the workers begins with the first one.
ScanStart ==
  ppc \in {"events", "line", "line_end", "scan", "scan_queue", "scan_loop"} => th = 0

\* The patcher starts with no search under way.
LEMMA ScanInit == Init => ScanStart
BY DEF Init, PatcherInit, ScanStart

\* A search is begun with the first worker (317), and goes on from there.
LEMMA ScanStep == ScanStart /\ [Next]_vars => ScanStart'
<1> SUFFICES ASSUME ScanStart, [Next]_vars PROVE ScanStart'
  OBVIOUS
<1> USE DEF patcherVars, PatcherAt, PatcherGoes
<1>1. CASE PatcherStep \/ WaitInput \/ WaitFails
  <2>1. CASE ScanSlot \/ ScanWorker
    BY <2>1 DEF ScanSlot, ScanWorker, CommandDone, ScanStart
  <2>2. CASE ~ScanSlot /\ ~ScanWorker
    BY <1>1, <2>2
    DEF PatcherStep, WaitSockets, NextEvent, RejectCommand, Connect, EndLine,
        SearchConnQueue, SkipQueuedSlot, ClaimSlot, Register, Reserve, NoneIdle,
        CommandSignal, EnqueueConn, EventWorker, EventCount, EventQueued, EventIdle, EventAssign, EventFlag, EventSignal,
        EnqueueEpoll, WaitInput, WaitFails, CommandDone, PatcherDone, ScanStart
  <2>3. QED
    BY <2>1, <2>2
<1>2. ASSUME NEW w \in Workers, WorkerStep(w) \/ SpuriousWake(w) PROVE ScanStart'
  <2>1. UNCHANGED <<ppc, th>>
    BY <1>2
    DEF WorkerStep, CheckIdle, Park, ChooseProcess, AssertFails, BeginRequest,
        WriteHeader, BrokenPipe, FailRequest, EndRequest, BeginResponse,
        ReadResponse, ReadOn, ReadEnds, TakesStdin, Close, ClearSocket, Reset,
        DequeueConn, NoConnEvent, TakeEpoll, DequeueEpoll, NoEpollEvent, ClearFlag,
        SpuriousWake
  <2>2. QED
    BY <2>1 DEF ScanStart
<1>3. ASSUME NEW f \in Fds, Answer(f) \/ HangUp(f) PROVE ScanStart'
  BY <1>3 DEF Answer, HangUp, ScanStart
<1>4. CASE UNCHANGED vars
  BY <1>4 DEF vars, ScanStart
<1>5. QED
  BY <1>1, <1>2, <1>3, <1>4 DEF Next

\* The patcher goes on without touching what it shares.
LEMMA PatcherMoves ==
  ASSUME Holding, ClaimedSlot', NewSocket', FreshSlot',
         \A u : WithPatcher(u) => WithPatcher(u)',
         UNCHANGED <<wpc, auto, eev, http_process, conn_index, chunk, sockfd, state, method,
                     clb, sent, connq, wire, registered>>
  PROVE  Holding'
<1>1. Held'
  BY DEF Holding, Held, Pending, Unsent, Queued, WithWorkers, Requests
<1>2. QED
  BY <1>1, HoldingFrames DEF Holding

\* A descriptor that is free belongs to no slot, except one that is being given up.
LEMMA HoldingConnect ==
  ASSUME Base, Holding, NEW m \in MethodNames, Connect(m)
  PROVE  Holding'
<1>1. PICK f \in Fds : f = Min(Free) /\ wire[f] = "free"
  BY LowestFree DEF Connect
<1>2. /\ ppc \in {"line", "line_end"} /\ ppc' = "scan" /\ fd' = f
      /\ UNCHANGED <<wpc, auto, eev, http_process, conn_index, chunk, sockfd, state, method,
                     clb, sent, connq, registered>>
  BY <1>1 DEF Connect, PatcherGoes, workerVars, workspaceVars, slotVars, queueVars
<1>3. wire'[f] = "quiet" /\ \A g \in Fds : g # f => wire'[g] = wire[g]
  BY <1>1, Domains DEF Connect, Base
<1>4. \A u : Closing(u)' <=> Closing(u)
  BY <1>2 DEF Closing
<1>5. ClaimedSlot' /\ FreshSlot'
  BY <1>2 DEF ClaimedSlot, ClaimLabels, FreshSlot
<1>6. OpenSocket'
  <2>1. \A s \in Slots : sockfd[s] # 0 => sockfd[s] \in Fds
    BY DEF Base, TypeInv, TypeOK, SlotType
  <2>2. QED
    BY <1>2, <1>3, <1>4, <2>1 DEF Holding, OpenSocket
<1>7. NewSocket'
  <2>1. ASSUME NEW s \in Slots, sockfd[s] = f PROVE Closing(s)
    BY <1>1, <2>1 DEF Holding, OpenSocket, Fds
  <2>2. QED
    BY <1>2, <1>3, <1>4, <2>1 DEF NewSocket
<1>8. Held'
  BY <1>2 DEF Holding, Held, Pending, Unsent, WithPatcher, Queued, WithWorkers, Requests
<1>9. QED
  BY <1>2, <1>5, <1>6, <1>7, <1>8, HoldingFrames DEF Holding

\* The search for a slot.
LEMMA HoldingScan ==
  ASSUME Base, Holding, ScanStart, ScanSlot \/ ScanWorker \/ SearchConnQueue \/ SkipQueuedSlot
  PROVE  Holding'
<1>1. /\ ppc \in NewLabels /\ ppc' \in NewLabels \cup {"line_end"}
      /\ ppc' \in NewLabels => UNCHANGED fd
      /\ UNCHANGED <<wpc, auto, eev, http_process, conn_index, chunk, sockfd, state, method,
                     clb, sent, connq, wire, registered>>
  BY DEF ScanSlot, ScanWorker, SearchConnQueue, SkipQueuedSlot, PatcherAt, PatcherGoes,
         CommandDone, NewLabels, workerVars, workspaceVars, slotVars, queueVars, worldVars
<1>2. ClaimedSlot' /\ \A u : ~WithPatcher(u)
  BY <1>1 DEF ClaimedSlot, ClaimLabels, NewLabels, WithPatcher
<1>3. NewSocket'
  BY <1>1 DEF Holding, NewSocket, NewLabels, Closing
<1>4. FreshSlot'
  <2>1. CASE ScanSlot
    BY <1>1, <2>1 DEF ScanSlot, PatcherAt, PatcherGoes, CommandDone, ScanStart, FreshSlot,
                      Workers
  <2>2. CASE ScanWorker
    <3>1. CASE th \in Workers /\ conn_index[th] = slot
      BY <2>2, <3>1 DEF ScanWorker, PatcherAt, PatcherGoes, FreshSlot
    <3>2. CASE th \in Workers /\ conn_index[th] # slot
      <4>1. ppc' = "scan_worker" /\ ppc = "scan_worker" /\ th' = th + 1 /\ UNCHANGED slot
        BY <2>2, <3>2 DEF ScanWorker, PatcherAt
      <4>2. \A w \in Workers : w < th + 1 => w < th \/ w = th
        BY <3>2 DEF Workers
      <4>3. QED
        BY <1>1, <3>2, <4>1, <4>2 DEF Holding, FreshSlot
    <3>3. CASE th \notin Workers
      <4>1. \A w \in Workers : w < th
        BY <3>3, ThreadsAssumption DEF Workers, Base, TypeInv, TypeOK, PatcherType
      <4>2. QED
        BY <1>1, <2>2, <3>3, <4>1 DEF ScanWorker, PatcherAt, PatcherGoes, Holding, FreshSlot
    <3>4. QED
      BY <3>1, <3>2, <3>3
  <2>3. CASE SkipQueuedSlot
    BY <2>3 DEF SkipQueuedSlot, PatcherGoes, FreshSlot
  <2>4. CASE SearchConnQueue
    BY <1>1, <2>4 DEF SearchConnQueue, PatcherAt, PatcherGoes, Holding, FreshSlot
  <2>5. QED
    BY <2>1, <2>2, <2>3, <2>4
<1>5. QED
  BY <1>1, <1>2, <1>3, <1>4, PatcherMoves

\* The slot of a queued command has its socket: a slot without is not queued.
LEMMA FreshNotQueued ==
  ASSUME Base, Holding, ppc \in {"scan_worker", "scan_queue", "scan_loop"}
  PROVE  ~Queued(slot)
<1>1. ASSUME NEW k \in 1 .. Len(connq) PROVE connq[k].slot # slot
  <2>1. connq[k].fd \in Fds /\ sockfd[connq[k].slot] = connq[k].fd
    BY QueuedEvents DEF Base, Holding, QueuedSlots
  <2>2. sockfd[slot] = 0
    BY DEF Holding, FreshSlot
  <2>3. QED
    BY <2>1, <2>2 DEF Fds
<1>2. QED
  BY <1>1 DEF Queued

\* The slot that is claimed is in nobody's hands, and its new socket is nobody's.
LEMMA HoldingClaimSlot ==
  ASSUME Base, Holding, ClaimSlot
  PROVE  Holding'
<1>1. /\ ppc = "scan_loop" /\ ppc' = "register" /\ ~Queued(slot)
      /\ UNCHANGED <<fd, slot, th, wpc, auto, eev, http_process, conn_index, chunk, clb, connq,
                     wire, registered>>
  BY FreshNotQueued
  DEF ClaimSlot, PatcherAt, PatcherGoes, workerVars, workspaceVars, queueVars, worldVars
<1>2. PICK s \in Slots : s = slot
  BY <1>1 DEF Base, TypeInv, Placed, SlotPlaced, SlotLabels
<1>3. PICK f \in Fds : f = fd
  BY <1>1 DEF Base, TypeInv, Placed, FdPlaced, ActiveLabels
<1>4. /\ sockfd'[s] = f /\ state'[s] = 0
      /\ \A u \in Slots : u # s =>
           /\ sockfd'[u] = sockfd[u] /\ state'[u] = state[u] /\ method'[u] = method[u]
           /\ sent'[u] = sent[u]
  BY <1>2, <1>3, Domains DEF ClaimSlot, Base
<1>5. /\ sockfd[s] = 0 /\ \A w \in Workers : conn_index[w] # s
      /\ wire[f] # "free" /\ \A u \in Slots : sockfd[u] = f => Closing(u)
  BY <1>1, <1>2, <1>3 DEF Holding, FreshSlot, NewSocket, NewLabels
<1>6. f # 0
  BY DEF Fds
<1>7. \A u : Closing(u)' <=> Closing(u)
  BY <1>1 DEF Closing
<1>8. \A w \in Workers : Requests(w)' <=> Requests(w)
  BY <1>1 DEF Requests
<1>9. f \notin registered
  BY <1>5, <1>6 DEF Holding, Watched, Stdin
<1>10. ClaimedSlot'
  BY <1>1, <1>2, <1>3, <1>4, <1>5, <1>9 DEF ClaimedSlot
<1>11. QueuedSlots'
  <2>1. \A k \in 1 .. Len(connq) : connq[k].slot \in Slots /\ connq[k].slot # s
    BY <1>1, <1>2, QueuedEvents DEF Base, Queued
  <2>2. QED
    BY <1>1, <1>4, <2>1 DEF Holding, QueuedSlots
<1>12. SoleHolder'
  BY <1>1, HoldingFrames
<1>13. OpenSocket'
  BY <1>1, <1>4, <1>5, <1>7 DEF Holding, OpenSocket
<1>14. OneSlot'
  <2>1. ASSUME NEW u \in Slots, NEW v \in Slots, u # v, sockfd'[u] = sockfd'[v],
               sockfd'[u] # 0
        PROVE  Closing(u) \/ Closing(v)
    <3>1. CASE u = s
      BY <1>4, <1>5, <2>1, <3>1
    <3>2. CASE v = s
      BY <1>4, <1>5, <2>1, <3>2
    <3>3. CASE u # s /\ v # s
      BY <1>4, <2>1, <3>3 DEF Holding, OneSlot
    <3>4. QED
      BY <3>1, <3>2, <3>3
  <2>2. QED
    BY <1>7, <2>1 DEF OneSlot
<1>15. NewSocket' /\ FreshSlot'
  BY <1>1 DEF NewSocket, FreshSlot, NewLabels
<1>16. Watched'
  <2>1. ASSUME NEW g \in registered \ {Stdin}
        PROVE  \E u \in Slots : sockfd'[u] = g /\ ~Closing(u)'
    <3>1. PICK u \in Slots : sockfd[u] = g /\ ~Closing(u)
      BY <2>1 DEF Holding, Watched
    <3>2. u # s
      BY <1>5, <2>1, <3>1 DEF Stdin
    <3>3. QED
      BY <1>4, <1>7, <3>1, <3>2
  <2>2. QED
    BY <1>1, <2>1 DEF Watched
<1>17. FirstWith'
  <2>1. ASSUME NEW w \in Workers, wpc[w] \in Resting, auto[w] = 2
        PROVE  /\ conn_index[w] \in Slots /\ sockfd'[conn_index[w]] = eev[w]
               /\ \A u \in Slots : sockfd'[u] = eev[w] => conn_index[w] <= u
    <3>1. /\ conn_index[w] \in Slots /\ conn_index[w] # s /\ sockfd[conn_index[w]] = eev[w]
          /\ \A u \in Slots : sockfd[u] = eev[w] => conn_index[w] <= u
      BY <1>5, <2>1 DEF Holding, FirstWith
    <3>2. ~Closing(conn_index[w])
      BY <2>1, <3>1 DEF Closing, Holding, SoleHolder, Resting, Slots, None
    <3>3. eev[w] # f
      BY <1>5, <3>1, <3>2
    <3>4. QED
      BY <1>4, <3>1, <3>3
  <2>2. QED
    BY <1>1, <2>1 DEF FirstWith
<1>18. RequestReady'
  <2>1. ASSUME NEW w \in Workers, Requests(w), conn_index[w] # None,
               wpc[w] \in Resting \cup {"request", "req_write"}
        PROVE  /\ clb[conn_index[w]] = ParamSet(method'[conn_index[w]], w)
               /\ state'[conn_index[w]] = 0
    <3>1. conn_index[w] \in Slots /\ conn_index[w] # s
      BY <1>5, <2>1 DEF Base, TypeInv, TypeOK, WorkspaceType
    <3>2. QED
      BY <1>4, <2>1, <3>1 DEF Holding, RequestReady
  <2>2. QED
    BY <1>1, <1>8, <2>1 DEF RequestReady, ParamSet
<1>19. Scratch'
  <2>1. \A w \in Workers : wpc[w] = "req_write" => conn_index[w] \in Slots /\ conn_index[w] # s
    BY <1>5, Holder DEF ConnLabels
  <2>2. QED
    BY <1>1, <1>4, <1>8, <2>1 DEF Holding, Scratch
<1>20. HeaderSent'
  BY <1>4 DEF Holding, HeaderSent
<1>21. Ended'
  <2>1. \A w \in Workers : wpc[w] \in EndLabels => conn_index[w] \in Slots /\ conn_index[w] # s
    BY <1>5, Holder DEF EndLabels, ConnLabels
  <2>2. ASSUME NEW w \in Workers, wpc[w] \in {"close", "clear_sock"}
        PROVE  state'[conn_index[w]] \in {3, -1}
    <3>1. conn_index[w] \in Slots /\ conn_index[w] # s
      BY <2>1, <2>2 DEF EndLabels
    <3>2. QED
      BY <1>4, <2>2, <3>1 DEF Holding, Ended
  <2>3. ASSUME NEW u \in Slots, sockfd'[u] # 0, state'[u] \in {3, -1}
        PROVE  \E w \in Workers : conn_index[w] = u /\ wpc[w] \in {"close", "clear_sock"}
    BY <1>4, <2>3 DEF Holding, Ended
  <2>4. ASSUME NEW w \in Workers, Requests(w), wpc[w] \in EndLabels
        PROVE  ~Unsent(conn_index[w])'
    <3>1. conn_index[w] \in Slots /\ conn_index[w] # s /\ ~Unsent(conn_index[w])
      BY <2>1, <2>4 DEF Holding, Ended
    <3>2. QED
      BY <1>1, <1>4, <3>1 DEF Unsent
  <2>5. QED
    BY <1>1, <1>8, <2>2, <2>3, <2>4 DEF Ended, Unsent
<1>22. Held'
  <2>1. ASSUME NEW u \in Slots, Pending(u)'
        PROVE  Queued(u) \/ WithWorkers(u) # {}
    <3>1. u # s
      BY <1>1, <1>4, <1>9, <2>1 DEF Pending
    <3>2. Pending(u)
      BY <1>1, <1>4, <2>1, <3>1 DEF Pending, Unsent
    <3>3. QED
      BY <1>1, <3>2 DEF Holding, Held, WithPatcher
  <2>2. QED
    BY <1>1, <1>8, <2>1 DEF Held, Queued, WithWorkers
<1>23. QED
  BY <1>10, <1>11, <1>12, <1>13, <1>14, <1>15, <1>16, <1>17, <1>18, <1>19, <1>20, <1>21, <1>22
  DEF Holding

\* What epoll is told to watch is the socket of the slot that was claimed for it; a
\* connection that has ended by then and has the same number is being given up.
LEMMA HoldingRegister ==
  ASSUME Base, Holding, Register
  PROVE  Holding'
<1>1. /\ ppc = "register"
      /\ UNCHANGED <<wpc, auto, eev, http_process, conn_index, chunk, sockfd, state, method,
                     clb, sent, connq, wire>>
  BY DEF Register, PatcherAt, workerVars, workspaceVars, slotVars, queueVars
<1>2. \A u : ~WithPatcher(u)
  BY <1>1 DEF WithPatcher
<1>3. CASE ppc' = "line_end" /\ UNCHANGED registered
  <2>1. ClaimedSlot' /\ NewSocket' /\ FreshSlot'
    BY <1>3 DEF ClaimedSlot, NewSocket, FreshSlot, ClaimLabels, NewLabels
  <2>2. QED
    BY <1>1, <1>2, <1>3, <2>1, PatcherMoves
<1>4. CASE ppc' = "reserve" /\ registered' = registered \cup {fd} /\ UNCHANGED <<fd, slot>>
  <2>1. PICK s \in Slots : s = slot
    BY <1>1 DEF Base, TypeInv, Placed, SlotPlaced, SlotLabels
  <2>2. PICK f \in Fds : f = fd
    BY <1>1 DEF Base, TypeInv, Placed, FdPlaced, ActiveLabels
  <2>3. sockfd[s] = f /\ state[s] = 0 /\ \A w \in Workers : conn_index[w] # s
    BY <1>1, <2>1, <2>2 DEF Holding, ClaimedSlot, ClaimLabels
  <2>4. ~Closing(s) /\ f # 0
    BY <2>3 DEF Closing, Fds
  <2>5. ClaimedSlot'
    BY <1>1, <1>4, <2>1, <2>2, <2>3 DEF ClaimedSlot
  <2>6. NewSocket' /\ FreshSlot'
    BY <1>4 DEF NewSocket, FreshSlot, NewLabels
  <2>7. Watched'
    <3>1. \A u : Closing(u)' <=> Closing(u)
      BY <1>1 DEF Closing
    <3>2. QED
      BY <1>1, <1>4, <2>2, <2>3, <2>4, <3>1 DEF Holding, Watched
  <2>8. Held'
    <3>1. ASSUME NEW u \in Slots, Pending(u)'
          PROVE  u = s \/ Queued(u) \/ WithWorkers(u) # {}
      <4>1. CASE sockfd[u] \in registered
        <5>1. Pending(u)
          BY <1>1, <3>1, <4>1 DEF Pending, Unsent
        <5>2. QED
          BY <1>2, <5>1 DEF Holding, Held
      <4>2. CASE sockfd[u] = f /\ u # s
        <5>1. Closing(u)
          BY <2>3, <2>4, <4>2 DEF Holding, OneSlot
        <5>2. state[u] \in {3, -1}
          BY <5>1 DEF Closing, Holding, Ended
        <5>3. QED
          BY <1>1, <3>1, <5>2 DEF Pending, Unsent
      <4>3. QED
        BY <1>1, <1>4, <2>2, <3>1, <4>1, <4>2 DEF Pending
    <3>2. \A u \in Slots : Pending(u)' => WithPatcher(u)' \/ Queued(u)' \/ WithWorkers(u)' # {}
      BY <1>1, <1>4, <2>1, <3>1 DEF WithPatcher, Queued, WithWorkers, Requests
    <3>3. QED
      BY <3>2 DEF Held
  <2>9. QED
    BY <1>1, <2>5, <2>6, <2>7, <2>8, HoldingFrames DEF Holding
<1>5. QED
  BY <1>3, <1>4 DEF Register, CommandDone, PatcherGoes

\* The command goes to a worker that rests, which then holds its slot alone.
LEMMA HoldingReserve ==
  ASSUME Base, CommandsApart, Holding, Reserve
  PROVE  Holding'
<1>1. PICK w \in Workers : w = Min(Idle) /\ w \notin flag
  BY LowestIdle DEF Reserve
<1>2. /\ ppc = "reserve" /\ ppc' = "cmd_signal"
      /\ UNCHANGED <<fd, slot, wpc, auto, eev, chunk, sockfd, state, method, sent, connq, wire,
                     registered>>
  BY DEF Reserve, PatcherAt, PatcherGoes, workerVars, queueVars, worldVars
<1>3. PICK s \in Slots : s = slot
  BY <1>2 DEF Base, TypeInv, Placed, SlotPlaced, SlotLabels
<1>4. wpc[w] \in Resting /\ auto[w] = 0 /\ conn_index[w] = None
  BY <1>1, <1>2 DEF Base, ReservationInv, ReservationSafe, Rests
<1>5. /\ http_process'[w] = "request" /\ conn_index'[w] = s
      /\ \A v \in Workers : v # w =>
           http_process'[v] = http_process[v] /\ conn_index'[v] = conn_index[v]
  BY <1>1, <1>3, Domains DEF Reserve, Base
<1>6. clb'[s] = ParamSet(method[s], w) /\ \A u \in Slots : u # s => clb'[u] = clb[u]
  BY <1>1, <1>3, Domains DEF Reserve, Base
<1>7. /\ sockfd[s] = fd /\ state[s] = 0 /\ ~Queued(s)
      /\ \A v \in Workers : conn_index[v] # s
  BY <1>2, <1>3 DEF Holding, ClaimedSlot, ClaimLabels, CommandsApart
<1>8. \A u : Closing(u)' <=> Closing(u)
  BY <1>2, <1>4, <1>5 DEF Closing, Resting
<1>9. \A v \in Workers : v # w => (Requests(v)' <=> Requests(v))
  BY <1>2, <1>5 DEF Requests
<1>10. ClaimedSlot' /\ NewSocket' /\ FreshSlot'
  BY <1>2 DEF ClaimedSlot, NewSocket, FreshSlot, ClaimLabels, NewLabels
<1>11. QueuedSlots'
  <2>1. \A k \in 1 .. Len(connq) : connq[k].slot # s
    BY <1>7 DEF Queued
  <2>2. QED
    BY <1>2, <1>5, <2>1 DEF Holding, QueuedSlots
<1>12. SoleHolder'
  BY <1>2, <1>5, <1>7 DEF Holding, SoleHolder
<1>13. OpenSocket' /\ OneSlot' /\ Watched'
  BY <1>2, <1>8 DEF Holding, OpenSocket, OneSlot, Watched
<1>14. FirstWith'
  BY <1>2, <1>4, <1>5 DEF Holding, FirstWith
<1>15. RequestReady'
  <2>1. ASSUME NEW v \in Workers, Requests(v)', conn_index'[v] # None,
               wpc[v] \in Resting \cup {"request", "req_write"}
        PROVE  /\ clb'[conn_index'[v]] = ParamSet(method[conn_index'[v]], v)
               /\ state[conn_index'[v]] = 0
    <3>1. CASE v = w
      BY <1>5, <1>6, <1>7, <3>1
    <3>2. CASE v # w
      <4>1. conn_index[v] # s /\ conn_index[v] \in Slots
        BY <1>5, <1>7, <2>1, <3>2 DEF Base, TypeInv, TypeOK, WorkspaceType
      <4>2. QED
        BY <1>5, <1>6, <1>9, <2>1, <3>2, <4>1 DEF Holding, RequestReady
    <3>3. QED
      BY <3>1, <3>2
  <2>2. QED
    BY <1>2, <2>1 DEF RequestReady, ParamSet
<1>16. Scratch'
  BY <1>2, <1>4, <1>5, <1>9 DEF Holding, Scratch, EndLabels, Resting
<1>17. HeaderSent'
  BY <1>2, HoldingFrames
<1>18. Ended'
  <2>1. \A v \in Workers : wpc[v] \in EndLabels => v # w
    BY <1>4 DEF EndLabels, Resting
  <2>2. \A v \in Workers : wpc[v] \in {"close", "clear_sock"} => v # w
    BY <1>4 DEF Resting
  <2>3. QED
    BY <1>2, <1>5, <1>9, <2>1, <2>2 DEF Holding, Ended, Unsent
<1>19. Held'
  <2>1. ASSUME NEW u, WithPatcher(u) PROVE w \in WithWorkers(u)'
    BY <1>2, <1>3, <1>4, <1>5, <2>1 DEF WithPatcher, WithWorkers, Requests
  <2>2. ASSUME NEW u \in Slots, NEW v \in WithWorkers(u) PROVE v \in WithWorkers(u)'
    BY <1>4, <1>5, <1>9 DEF WithWorkers, Slots, None
  <2>3. ASSUME NEW u \in Slots, Pending(u)
        PROVE  Queued(u) \/ WithWorkers(u)' # {}
    BY <2>1, <2>2, <2>3 DEF Holding, Held
  <2>4. QED
    BY <1>2, <2>3 DEF Held, Pending, Unsent, Queued
<1>20. QED
  BY <1>10, <1>11, <1>12, <1>13, <1>14, <1>15, <1>16, <1>17, <1>18, <1>19 DEF Holding

\* The command goes to the queue, its slot with it.
LEMMA HoldingEnqueueConn ==
  ASSUME Base, Holding, EnqueueConn
  PROVE  Holding'
<1>1. /\ ppc = "enq_conn" /\ ppc' = "line_end" /\ connq' = Append(connq, [slot |-> slot, fd |-> fd])
      /\ UNCHANGED <<wpc, auto, eev, http_process, conn_index, chunk, sockfd, state, method,
                     clb, sent, wire, registered>>
  BY DEF EnqueueConn, CommandDone, PatcherAt, PatcherGoes, workerVars, workspaceVars, slotVars,
         worldVars
<1>2. slot \in Slots /\ fd \in Fds
  BY <1>1 DEF Base, TypeInv, Placed, SlotPlaced, SlotLabels, FdPlaced, ActiveLabels
<1>3. /\ Len(connq) \in Nat /\ Len(connq') = Len(connq) + 1
      /\ connq'[Len(connq) + 1] = [slot |-> slot, fd |-> fd]
      /\ \A k \in 1 .. Len(connq) : connq'[k] = connq[k]
  <2>1. connq \in Seq(ConnEvent) /\ [slot |-> slot, fd |-> fd] \in ConnEvent
    BY <1>2 DEF Base, TypeInv, TypeOK, QueueType, ConnEvent
  <2>2. QED
    BY <1>1, <2>1, AppendElements
<1>4. ClaimedSlot' /\ NewSocket' /\ FreshSlot'
  BY <1>1 DEF ClaimedSlot, NewSocket, FreshSlot, ClaimLabels, NewLabels
<1>5. QueuedSlots'
  <2>1. ASSUME NEW k \in 1 .. Len(connq')
        PROVE  /\ sockfd[connq'[k].slot] = connq'[k].fd /\ state[connq'[k].slot] = 0
               /\ \A w \in Workers : conn_index[w] # connq'[k].slot
    <3>1. CASE k \in 1 .. Len(connq)
      BY <1>3, <3>1 DEF Holding, QueuedSlots
    <3>2. CASE k = Len(connq) + 1
      BY <1>1, <1>3, <3>2 DEF Holding, ClaimedSlot, ClaimLabels
    <3>3. QED
      BY <1>3, <3>1, <3>2
  <2>2. QED
    BY <1>1, <2>1 DEF QueuedSlots
<1>6. Held'
  <2>1. ASSUME NEW u, Queued(u) \/ WithPatcher(u) PROVE Queued(u)'
    <3>1. CASE Queued(u)
      <4>1. PICK k \in 1 .. Len(connq) : connq[k].slot = u
        BY <3>1 DEF Queued
      <4>2. k \in 1 .. Len(connq') /\ connq'[k].slot = u
        BY <1>3, <4>1
      <4>3. QED
        BY <4>2 DEF Queued
    <3>2. CASE WithPatcher(u)
      <4>1. /\ Len(connq) + 1 \in 1 .. Len(connq')
            /\ connq'[Len(connq) + 1].slot = u
        BY <1>3, <3>2 DEF WithPatcher
      <4>2. QED
        BY <4>1 DEF Queued
    <3>3. QED
      BY <2>1, <3>1, <3>2
  <2>2. QED
    BY <1>1, <2>1 DEF Holding, Held, Pending, Unsent, WithWorkers, Requests
<1>7. QED
  BY <1>1, <1>4, <1>5, <1>6, HoldingFrames DEF Holding

\* The response goes to a worker that rests, on a connection in nobody's hands.
LEMMA HoldingEventAssign ==
  ASSUME Base, Holding, EventAssign, ~crossed'
  PROVE  Holding'
<1>1. PICK w \in Workers : w = target
  BY DEF Base, TypeInv, TypeOK, PatcherType
<1>2. /\ ppc = "ev_assign" /\ ppc' = "ev_flag"
      /\ UNCHANGED <<fd, slot, th, wpc, auto, eev, chunk, sockfd, state, method, clb, sent,
                     connq, wire, registered>>
  BY DEF EventAssign, PatcherAt, PatcherGoes, workerVars, slotVars, worldVars
<1>3. wpc[w] \in Resting /\ auto[w] = 0 /\ conn_index[w] = None
  BY <1>1, <1>2 DEF Base, ReservationInv, ReservationSafe, Rests
<1>4. /\ http_process'[w] = "response"
      /\ \A v \in Workers : v # w =>
           http_process'[v] = http_process[v] /\ conn_index'[v] = conn_index[v]
  BY <1>1, Domains DEF EventAssign, Base
<1>5. conn_index'[w] # None =>
        /\ conn_index'[w] \in Slots /\ ~Queued(conn_index'[w])
        /\ \A v \in Workers : conn_index[v] = conn_index'[w] => wpc[v] = "reset"
  <2>1. CASE SlotsOf(fd) = {}
    BY <1>3, <2>1 DEF EventAssign
  <2>2. CASE SlotsOf(fd) # {}
    <3>1. conn_index'[w] = Min(SlotsOf(fd)) /\ ~InHand(Min(SlotsOf(fd)))
      BY <1>1, <2>2, Domains DEF EventAssign, Base
    <3>2. QED
      BY <2>2, <3>1, LowestSlot, NotInHand
  <2>3. QED
    BY <2>1, <2>2
<1>6. \A u : Closing(u)' <=> Closing(u)
  BY <1>2, <1>3, <1>4 DEF Closing, Resting
<1>7. ~Requests(w)' /\ \A v \in Workers : v # w => (Requests(v)' <=> Requests(v))
  BY <1>2, <1>3, <1>4 DEF Requests
<1>8. ClaimedSlot' /\ NewSocket' /\ FreshSlot'
  BY <1>2 DEF ClaimedSlot, NewSocket, FreshSlot, ClaimLabels, NewLabels
<1>9. QueuedSlots'
  <2>1. \A k \in 1 .. Len(connq) : connq[k].slot \in Slots /\ connq[k].slot # conn_index'[w]
    BY <1>5, QueuedEvents DEF Base, Queued, Slots, None
  <2>2. QED
    BY <1>2, <1>4, <2>1 DEF Holding, QueuedSlots
<1>10. SoleHolder'
  BY <1>2, <1>4, <1>5 DEF Holding, SoleHolder
<1>11. OpenSocket' /\ OneSlot' /\ Watched'
  BY <1>2, <1>6 DEF Holding, OpenSocket, OneSlot, Watched
<1>12. FirstWith'
  BY <1>2, <1>3, <1>4 DEF Holding, FirstWith
<1>13. RequestReady'
  BY <1>2, <1>4, <1>7 DEF Holding, RequestReady, ParamSet
<1>14. Scratch'
  BY <1>2, <1>3, <1>4, <1>7 DEF Holding, Scratch, EndLabels, Resting
<1>15. HeaderSent'
  BY <1>2, HoldingFrames
<1>16. Ended'
  <2>1. \A v \in Workers : wpc[v] \in EndLabels => v # w
    BY <1>3 DEF EndLabels, Resting
  <2>2. \A v \in Workers : wpc[v] \in {"close", "clear_sock"} => v # w
    BY <1>3 DEF Resting
  <2>3. QED
    BY <1>2, <1>4, <1>7, <2>1, <2>2 DEF Holding, Ended, Unsent
<1>17. Held'
  <2>1. ASSUME NEW u \in Slots, NEW v \in WithWorkers(u) PROVE v \in WithWorkers(u)'
    BY <1>3, <1>4, <1>7 DEF WithWorkers, Slots, None
  <2>2. \A u : ~WithPatcher(u)
    BY <1>2 DEF WithPatcher
  <2>3. ASSUME NEW u \in Slots, Pending(u)
        PROVE  Queued(u) \/ WithWorkers(u)' # {}
    BY <2>1, <2>2, <2>3 DEF Holding, Held
  <2>4. QED
    BY <1>2, <2>3 DEF Held, Pending, Unsent, Queued
<1>18. QED
  BY <1>8, <1>9, <1>10, <1>11, <1>12, <1>13, <1>14, <1>15, <1>16, <1>17 DEF Holding

\* Every step of the patcher.
LEMMA HoldingPatcher ==
  ASSUME Base, ScanStart, CommandsApart, Holding, ~crossed', PatcherStep \/ WaitInput \/ WaitFails
  PROVE  Holding'
<1> USE DEF PatcherAt, PatcherGoes, workerVars, workspaceVars, slotVars, queueVars, worldVars
<1>1. CASE NoneIdle
  <2>1. /\ ppc = "reserve" /\ ppc' = "enq_conn"
        /\ UNCHANGED <<fd, slot, wpc, auto, eev, http_process, conn_index, chunk, sockfd,
                       state, method, clb, sent, connq, wire, registered>>
    BY <1>1 DEF NoneIdle
  <2>2. ClaimedSlot' /\ NewSocket' /\ FreshSlot' /\ \A u : WithPatcher(u) => WithPatcher(u)'
    BY <2>1 DEF Holding, ClaimedSlot, NewSocket, FreshSlot, ClaimLabels, NewLabels, WithPatcher
  <2>3. QED
    BY <2>1, <2>2, PatcherMoves
<1>2. CASE CommandSignal \/ EventSignal
  <2>1. /\ SameHand
        /\ UNCHANGED <<auto, eev, http_process, conn_index, chunk, sockfd, state, method, clb,
                       sent, connq, wire, registered>>
    BY <1>2 DEF CommandSignal, EventSignal, CommandDone, PatcherDone, SameHand, HandLabels,
                NewLabels, ClaimLabels
  <2>2. PICK w \in Workers : wpc' = Signalled(w)
    BY <1>2 DEF CommandSignal, EventSignal, Base, TypeInv, TypeOK, PatcherType
  <2>3. CASE wpc[w] = "waiting"
    <3>1. wpc' = [wpc EXCEPT ![w] = "check"]
      BY <2>2, <2>3 DEF Signalled
    <3>2. QED
      BY <2>1, <2>3, <3>1, Moves DEF Resting
  <2>4. CASE wpc[w] # "waiting"
    BY <2>1, <2>2, <2>4, WorldMoves DEF Signalled
  <2>5. QED
    BY <2>3, <2>4
<1>3. CASE WaitSockets \/ NextEvent \/ RejectCommand \/ EndLine \/ EventWorker \/ EventCount
           \/ EventQueued \/ EventIdle \/ EventFlag \/ EnqueueEpoll \/ WaitInput \/ WaitFails
  <2>1. UNCHANGED <<wpc, auto, eev, http_process, conn_index, chunk, sockfd, state, method,
                    clb, sent, connq, wire, registered>>
    BY <1>3 DEF WaitSockets, NextEvent, RejectCommand, EndLine, EventWorker, EventCount,
                EventQueued, EventIdle, EventFlag, EnqueueEpoll, WaitInput, WaitFails
  <2>2. SameHand
    BY <1>3 DEF WaitSockets, NextEvent, RejectCommand, EndLine, EventWorker, EventCount,
                EventQueued, EventIdle, EventFlag, EnqueueEpoll, WaitInput, WaitFails, CommandDone,
                PatcherDone, SameHand, HandLabels, NewLabels, ClaimLabels
  <2>3. QED
    BY <2>1, <2>2, WorldMoves
<1>4. QED
  BY <1>1, <1>2, <1>3, HoldingConnect, HoldingScan, HoldingClaimSlot, HoldingRegister,
     HoldingReserve, HoldingEnqueueConn, HoldingEventAssign
  DEF PatcherStep

\* Every step of a server.
LEMMA HoldingServer ==
  ASSUME Base, Holding, NEW f \in Fds, Answer(f) \/ HangUp(f)
  PROVE  Holding'
<1>1. /\ SameHand
      /\ UNCHANGED <<wpc, auto, eev, http_process, conn_index, chunk, sockfd, state, method,
                     clb, sent, connq, registered>>
  BY DEF Answer, HangUp, SameHand, patcherVars, workerVars, workspaceVars, slotVars, queueVars
<1>2. wire' = [wire EXCEPT ![f] = "answered"] \/ wire' = [wire EXCEPT ![f] = "hungup"]
  BY DEF Answer, HangUp
<1>3. \A g \in Fds : wire[g] # "free" => wire'[g] # "free"
  BY <1>2, Domains DEF Base
<1>4. QED
  BY <1>1, <1>3, WorldMoves

\* What has happened has happened.
LEMMA CrossedStays == crossed /\ [Next]_vars => crossed'
<1> SUFFICES ASSUME crossed, [Next]_vars PROVE crossed'
  OBVIOUS
<1> USE DEF queueVars
<1>1. CASE PatcherStep \/ WaitInput \/ WaitFails
  BY <1>1
  DEF PatcherStep, WaitSockets, NextEvent, RejectCommand, Connect, EndLine, ScanSlot,
      ScanWorker, SearchConnQueue, SkipQueuedSlot, ClaimSlot, Register, Reserve, NoneIdle,
      CommandSignal, EnqueueConn, EventWorker, EventCount, EventQueued, EventIdle, EventAssign, EventFlag, EventSignal,
      EnqueueEpoll, WaitInput, WaitFails
<1>2. ASSUME NEW w \in Workers, WorkerStep(w) \/ SpuriousWake(w) PROVE crossed'
  BY <1>2
  DEF WorkerStep, CheckIdle, Park, ChooseProcess, AssertFails, BeginRequest, WriteHeader,
      BrokenPipe, FailRequest, EndRequest, BeginResponse, ReadResponse, ReadOn, ReadEnds,
      TakesStdin, Close, ClearSocket, Reset, DequeueConn, NoConnEvent, TakeEpoll,
      DequeueEpoll, NoEpollEvent, ClearFlag, SpuriousWake
<1>3. ASSUME NEW f \in Fds, Answer(f) \/ HangUp(f) PROVE crossed'
  BY <1>3 DEF Answer, HangUp
<1>4. CASE UNCHANGED vars
  BY <1>4 DEF vars
<1>5. QED
  BY <1>1, <1>2, <1>3, <1>4 DEF Next

\* Steps that leave the conn queue alone, and either the slot in the patcher's hands,
\* or after which it has none in hand.
LEMMA ApartFrame ==
  ASSUME CommandsApart, UNCHANGED connq,
         \/ ppc' \notin ClaimLabels
         \/ ppc \in ClaimLabels /\ UNCHANGED slot
  PROVE  CommandsApart'
BY DEF CommandsApart, Queued

\* The patcher queues a slot that is not queued.
LEMMA ApartPatcher ==
  ASSUME Base, CommandsApart, Holding, PatcherStep \/ WaitInput \/ WaitFails
  PROVE  CommandsApart'
<1> USE DEF ClaimLabels, PatcherAt, PatcherGoes, queueVars
<1>1. CASE ClaimSlot
  <2>1. ~Queued(slot) /\ UNCHANGED <<connq, slot>>
    BY <1>1, FreshNotQueued DEF ClaimSlot
  <2>2. QED
    BY <2>1 DEF CommandsApart, Queued
<1>2. CASE EnqueueConn
  <2>1. /\ connq' = Append(connq, [slot |-> slot, fd |-> fd])
        /\ ppc' = "line_end" /\ ~Queued(slot)
    BY <1>2 DEF EnqueueConn, CommandDone, CommandsApart
  <2>2. connq \in Seq(ConnEvent) /\ [slot |-> slot, fd |-> fd] \in ConnEvent
    BY <1>2 DEF EnqueueConn, Base, TypeInv, TypeOK, QueueType, ConnEvent, Placed, FdPlaced,
                SlotPlaced, ActiveLabels, SlotLabels
  <2>3. ASSUME NEW j \in 1 .. Len(connq'), NEW k \in 1 .. Len(connq'), j < k
        PROVE  connq'[j].slot # connq'[k].slot
    <3>1. j \in 1 .. Len(connq) /\ connq'[j] = connq[j] /\ Len(connq) \in Nat
      BY <2>1, <2>2, <2>3, AppendElements
    <3>2. CASE k \in 1 .. Len(connq)
      <4>1. connq'[k] = connq[k]
        BY <2>1, <2>2, <3>2, AppendElements
      <4>2. QED
        BY <2>3, <3>1, <3>2, <4>1 DEF CommandsApart
    <3>3. CASE k = Len(connq) + 1
      <4>1. connq'[k].slot = slot
        BY <2>1, <2>2, <3>3, AppendElements
      <4>2. QED
        BY <2>1, <3>1, <4>1 DEF Queued
    <3>4. QED
      BY <2>1, <2>2, <3>1, <3>2, <3>3, AppendElements
  <2>4. ASSUME NEW j \in 1 .. Len(connq'), NEW k \in 1 .. Len(connq'), j # k
        PROVE  connq'[j].slot # connq'[k].slot
    <3>1. j < k \/ k < j
      BY <2>1, <2>2, <2>4, AppendElements
    <3>2. QED
      BY <2>3, <3>1
  <2>5. QED
    BY <2>1, <2>4 DEF CommandsApart
<1>3. CASE ~ClaimSlot /\ ~EnqueueConn
  <2>1. UNCHANGED connq
    BY <1>3 DEF PatcherStep, WaitSockets, NextEvent, RejectCommand, Connect, EndLine,
                ScanSlot, ScanWorker, SearchConnQueue, SkipQueuedSlot, Register, Reserve,
                NoneIdle, CommandSignal, EventWorker, EventCount, EventQueued, EventIdle,
                EventAssign, EventFlag, EventSignal, EnqueueEpoll, WaitInput, WaitFails
  <2>2. \/ ppc' \notin ClaimLabels
        \/ ppc \in ClaimLabels /\ UNCHANGED slot
    BY <1>3 DEF PatcherStep, WaitSockets, NextEvent, RejectCommand, Connect, EndLine,
                ScanSlot, ScanWorker, SearchConnQueue, SkipQueuedSlot, Register, Reserve,
                NoneIdle, CommandSignal, EventWorker, EventCount, EventQueued, EventIdle,
                EventAssign, EventFlag, EventSignal, EnqueueEpoll, WaitInput, WaitFails,
                CommandDone, PatcherDone
  <2>3. QED
    BY <2>1, <2>2, ApartFrame
<1>4. QED
  BY <1>1, <1>2, <1>3

\* A worker takes the head of the queue, and the rest stays.
LEMMA ApartWorker ==
  ASSUME Base, CommandsApart, NEW w \in Workers, WorkerStep(w) \/ SpuriousWake(w)
  PROVE  CommandsApart'
<1>1. UNCHANGED <<ppc, slot>>
  BY DEF WorkerStep, CheckIdle, Park, ChooseProcess, AssertFails, BeginRequest,
         WriteHeader, BrokenPipe, FailRequest, EndRequest, BeginResponse,
         ReadResponse, ReadOn, ReadEnds, TakesStdin, Close, ClearSocket, Reset,
         DequeueConn, NoConnEvent, TakeEpoll, DequeueEpoll, NoEpollEvent, ClearFlag,
         SpuriousWake, patcherVars
<1>2. CASE DequeueConn(w)
  <2>1. connq # <<>> /\ connq' = Tail(connq) /\ connq \in Seq(ConnEvent)
    BY <1>2 DEF DequeueConn, Base, TypeInv, TypeOK, QueueType
  <2>2. \A k \in 1 .. Len(connq') : k + 1 \in 1 .. Len(connq) /\ connq'[k] = connq[k + 1]
    BY <2>1, TailElements
  <2>3. ASSUME NEW j \in 1 .. Len(connq'), NEW k \in 1 .. Len(connq'), j # k
        PROVE  connq'[j].slot # connq'[k].slot
    <3>1. j + 1 # k + 1
      BY <2>3
    <3>2. /\ j + 1 \in 1 .. Len(connq) /\ connq'[j] = connq[j + 1]
          /\ k + 1 \in 1 .. Len(connq) /\ connq'[k] = connq[k + 1]
      BY <2>2
    <3>3. connq[j + 1].slot # connq[k + 1].slot
      BY <3>1, <3>2 DEF CommandsApart
    <3>4. QED
      BY <3>2, <3>3
  <2>4. \A s : Queued(s)' => Queued(s)
    BY <2>2 DEF Queued
  <2>5. Queued(slot)' => Queued(slot)
    BY <1>1, <2>4
  <2>6. QED
    BY <1>1, <2>3, <2>5 DEF CommandsApart
<1>3. CASE ~DequeueConn(w)
  <2>1. UNCHANGED connq
    BY <1>3 DEF WorkerStep, CheckIdle, Park, ChooseProcess, AssertFails, BeginRequest,
         WriteHeader, BrokenPipe, FailRequest, EndRequest, BeginResponse,
         ReadResponse, ReadOn, ReadEnds, TakesStdin, Close, ClearSocket, Reset,
         NoConnEvent, TakeEpoll, DequeueEpoll, NoEpollEvent, ClearFlag, SpuriousWake,
         queueVars
  <2>2. QED
    BY <1>1, <2>1, ApartFrame
<1>4. QED
  BY <1>2, <1>3

\* ConnectionInv is kept by every step, on the ground of the other invariants.
LEMMA ConnectionStep == Base /\ ScanStart /\ ConnectionInv /\ [Next]_vars => ConnectionInv'
<1> SUFFICES ASSUME Base, ScanStart, ConnectionInv, [Next]_vars, ~crossed'
             PROVE  CommandsApart' /\ Holding'
  BY DEF ConnectionInv
<1>1. CommandsApart /\ Holding
  BY CrossedStays DEF ConnectionInv
<1>2. CASE Next
  <2>1. Holding'
    BY <1>1, <1>2, HoldingPatcher, HoldingWorker, HoldingServer DEF Next
  <2>2. ASSUME NEW f \in Fds, Answer(f) \/ HangUp(f) PROVE CommandsApart'
    BY <1>1, <2>2, ApartFrame DEF Answer, HangUp, patcherVars, queueVars
  <2>3. CommandsApart'
    BY <1>1, <1>2, <2>2, ApartPatcher, ApartWorker DEF Next
  <2>4. QED
    BY <2>1, <2>3
<1>3. CASE UNCHANGED vars
  <2>1. /\ SameHand
        /\ UNCHANGED <<wpc, auto, eev, http_process, conn_index, chunk, sockfd, state, method,
                       clb, sent, connq, registered, wire>>
    BY <1>3 DEF vars, SameHand, patcherVars, workerVars, workspaceVars, slotVars, queueVars,
                worldVars
  <2>2. CommandsApart'
    BY <1>1, <1>3, ApartFrame DEF vars, patcherVars, queueVars
  <2>3. QED
    BY <1>1, <2>1, <2>2, WorldMoves
<1>4. QED
  BY <1>2, <1>3

\* All the invariants together hold always.
LEMMA ConnectionInvariant == Spec => [](Base /\ ConnectionInv)
<1>1. TypeInv /\ ReservationInv /\ RoleInv => Base
  BY DEF Base
<1>2. Base => TypeInv /\ ReservationInv /\ RoleInv
  BY DEF Base
<1>3. QED
  BY <1>1, <1>2, TypeInit, TypeStep, ReservationInit, ReservationStep, RoleInit,
     RoleStep, ScanInit, ScanStep, HoldingInit, ConnectionStep, PTL
  DEF Spec

--------------------------------------------------------------------------------
(* What is promised until a response is given out on a connection in other      *)
(* hands (crossed), as the searches before it are meant to prevent.             *)

(* DuplicatesAdjoin: in every interleaving of the patcher with the workers, and *)
(* under every fault.  Only the patcher enqueues, so that between a search and  *)
(* what follows from it nothing but dequeues can come: an event that the search *)
(* of the epoll queue missed is the youngest, and stays so.  A slot is claimed  *)
(* for a command only when it has no socket, and queued slots have theirs.      *)
THEOREM DuplicatesSideBySide == Spec => []DuplicatesAdjoin
<1>1. ASSUME EventsApart, ConnectionInv PROVE DuplicatesAdjoin
  BY <1>1 DEF DuplicatesAdjoin, EventsApart, ConnectionInv, CommandsApart
<1>2. Spec => []EventsApart
  BY TypeInit, TypeStep, EventsInit, EventsStep, PTL DEF Spec
<1>3. QED
  BY <1>1, <1>2, ConnectionInvariant, PTL

(* UniqueSockets: a slot gets a descriptor only from a connect, when no slot    *)
(* has it but one that is being given up.  One worker gives a slot up: it closes *)
(* the descriptor and then clears the socket, and in between nobody else holds  *)
(* the slot.                                                                    *)
THEOREM SocketsUnique == Spec => []UniqueSockets
<1>1. ASSUME Base, ConnectionInv PROVE UniqueSockets
  <2> SUFFICES ASSUME ~crossed, NEW s \in Slots, NEW t \in Slots,
                      s # t, sockfd[s] = sockfd[t], sockfd[s] # 0
               PROVE  \E w \in Workers : wpc[w] = "clear_sock" /\ conn[w] \in {s, t}
    BY DEF UniqueSockets
  <2>1. Closing(s) \/ Closing(t)
    BY <1>1 DEF ConnectionInv, Holding, OneSlot
  <2>2. PICK w \in Workers : wpc[w] = "clear_sock" /\ conn_index[w] \in {s, t}
    BY <2>1 DEF Closing
  <2>3. conn_index[w] = conn[w]
    BY <1>1, <2>2, Holder DEF ConnLabels
  <2>4. QED
    BY <2>2, <2>3
<1>2. QED
  BY <1>1, ConnectionInvariant, PTL

(* WatchedHasSlot: close takes a descriptor out of what epoll watches before    *)
(* the socket of its slot is cleared, and a claim writes the socket before      *)
(* epoll is told of it.                                                         *)
THEOREM WatchedHaveSlots == Spec => []WatchedHasSlot
<1>1. ASSUME Base, ConnectionInv PROVE WatchedHasSlot
  BY <1>1 DEF WatchedHasSlot, ConnectionInv, Holding, Watched, SlotsOf
<1>2. QED
  BY <1>1, ConnectionInvariant, PTL

(* RequestSent: the chunk a header is looked up in is the worker's own, and the *)
(* flag in it is of this request: Reset has cleared what the one before left.   *)
THEOREM RequestsSent == Spec => []RequestSent
<1>1. ASSUME Base, ConnectionInv PROVE RequestSent
  BY <1>1 DEF RequestSent, ConnectionInv, Holding, HeaderSent
<1>2. QED
  BY <1>1, ConnectionInvariant, PTL

(* HeldOnce: a command goes from the patcher to one worker, or to the queue and *)
(* from there to one worker, and until its request is sent or has failed nobody *)
(* else gets its slot.                                                          *)
THEOREM CommandsHeldOnce == Spec => []HeldOnce
<1>1. ASSUME Base, ConnectionInv PROVE HeldOnce
  <2> SUFFICES ASSUME ~crossed, NEW s \in Slots, Pending(s)
               PROVE  \/ WithPatcher(s) /\ ~Queued(s) /\ WithWorkers(s) = {}
                      \/ ~WithPatcher(s) /\ Queued(s) /\ WithWorkers(s) = {}
                      \/ ~WithPatcher(s) /\ ~Queued(s) /\ Cardinality(WithWorkers(s)) = 1
    BY DEF HeldOnce
  <2> USE <1>1
  <2>1. Holding
    BY DEF ConnectionInv
  <2>2. WithPatcher(s) => ~Queued(s) /\ WithWorkers(s) = {}
    BY <2>1 DEF WithPatcher, ClaimLabels, ConnectionInv, CommandsApart, Holding, ClaimedSlot,
                WithWorkers
  <2>3. Queued(s) => WithWorkers(s) = {}
    BY <2>1 DEF Queued, Holding, QueuedSlots, WithWorkers
  <2>4. CASE ~WithPatcher(s) /\ ~Queued(s)
    <3>1. PICK w \in Workers : conn_index[w] = s /\ Requests(w)
      BY <2>1, <2>4 DEF Holding, Held, WithWorkers
    <3>2. ASSUME NEW v \in Workers, conn_index[v] = s, Requests(v) PROVE wpc[v] # "reset"
      BY <2>1, <3>2 DEF Holding, Ended, EndLabels, Pending
    <3>3. ASSUME NEW v \in WithWorkers(s) PROVE v = w
      BY <2>1, <3>1, <3>2, <3>3 DEF WithWorkers, Holding, SoleHolder, Slots, None
    <3>4. WithWorkers(s) = {w}
      BY <3>1, <3>3 DEF WithWorkers
    <3>5. QED
      BY <2>4, <3>4, FS_Singleton
  <2>5. QED
    BY <2>2, <2>3, <2>4
<1>2. QED
  BY <1>1, ConnectionInvariant, PTL

================================================================================
