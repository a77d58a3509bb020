------------------------------- MODULE HftpThreads -------------------------------
(*******************************************************************************)
(* The running client in interactive mode: the patcher thread of threads.c,    *)
(* which reads commands and socket events and hands them out, the pool of      *)
(* worker threads which run the two halves of an exchange (http_request,       *)
(* http_response of http_core.c), the flag word and the two queues between     *)
(* them, and the connections of g_conn_workspace they all share.               *)
(*                                                                             *)
(* One action is what a thread does between two points where another thread    *)
(* can see or change something it uses; pc labels are named after what the     *)
(* thread is about to do.  The ring buffers and the unlocked searches of them  *)
(* are EventQueue's subject: here the queues are sequences.  A search is two   *)
(* steps, between which workers dequeue, and answers what it can answer on the *)
(* ring.  The network and the servers are the environment.                     *)
(*******************************************************************************)
EXTENDS Integers, Sequences, FiniteSets, FiniteSetsExt

CONSTANTS
  NWorkers,      \* DEFAULT_WORKER_COUNT
  NSlots,        \* EPOLL_INSTANCE_MAX_SOCKFD, the size of g_conn_workspace
  MaxFd,         \* the largest descriptor the process may open
  MaxCommands,   \* bound: how many commands are typed
  Methods,       \* the methods that each of them may name, in the order of typing
  Faults         \* what may go wrong: "register" (epoll_ctl fails), "interrupt"
                 \* (epoll_wait fails), "file" (a local file cannot be opened or
                 \* read), "hangup" (a server closes a connection before it has
                 \* answered), "endless" (a response ends with its connection)

MethodNames == {"get", "put", "propfind", "delete"}

ASSUME ThreadsAssumption ==
  /\ NWorkers \in Nat \ {0}
  /\ NSlots \in Nat \ {0}
  /\ MaxFd \in Nat
  /\ MaxCommands \in Nat
  /\ Methods \in [1 .. MaxCommands -> SUBSET MethodNames]
  /\ Faults \subseteq {"register", "interrupt", "file", "hangup", "endless"}

Workers == 0 .. NWorkers - 1
Slots == 0 .. NSlots - 1
Fds == 3 .. MaxFd          \* 0, 1 and 2 are the standard streams
Stdin == 0
None == -1                 \* conn_index of a thread without connection
SentMax == 2               \* bound of the history variable sent

VARIABLES
  \* the patcher thread and its locals
  ppc, batch, fd, asked, slot, th, target,
  place,         \* where its search of the conn queue can meet the slot, or 0
  cnt,           \* the count that its search of the epoll queue runs to
  \* each worker thread: its pc and the locals auto_dequeue and eev.data.fd, and
  \* the connection it works on
  wpc, auto, eev, conn,
  \* g_workspace: what is assigned to each worker, and its scratch chunks
  http_process, conn_index, chunk,
  flag,          \* g_thread_work_flag, as the set of its bits
  \* g_conn_workspace: the fields that other threads read
  sockfd, state, method, clb,
  connq, epq,    \* the two event queues
  taking,        \* the event of the epoll queue that is between the two writes of its
                 \* dequeue: the count is lowered, the start index still points at it
  crossed,       \* history: a response was given out on a connection in other hands
  \* the kernel and the servers
  wire, registered, typed,
  outcome,       \* "running", or how the process ended
  sent           \* history: request headers written since the slot was claimed

patcherVars == <<ppc, batch, fd, asked, slot, th, target, place, cnt>>
workerVars == <<wpc, auto, eev, conn>>
workspaceVars == <<http_process, conn_index, chunk>>
slotVars == <<sockfd, state, method, clb, sent>>
queueVars == <<connq, epq, taking, crossed>>
worldVars == <<wire, registered, typed, outcome>>
vars == <<patcherVars, workerVars, workspaceVars, flag, slotVars, queueVars, worldVars>>

PatcherLabels == {"events", "line", "line_end", "scan", "scan_worker", "scan_queue",
                  "scan_loop", "register", "reserve", "cmd_signal", "enq_conn",
                  "ev_worker", "ev_queue", "ev_search", "ev_idle", "ev_assign",
                  "ev_flag", "ev_signal", "ev_enq", "exited"}
WorkerLabels == {"check", "park", "waiting", "request", "req_write", "response",
                 "resp_read", "close", "clear_sock", "reset", "deq_conn",
                 "deq_epoll", "deq_start", "clear_flag"}

Resting == {"check", "park", "waiting"}

\* Fault variants (IdleTooFar, EnqueueConnLost, ...): a plausible mistake in the
\* definition that follows, to see that a property notices it.
IdleTooFar == (0 .. NWorkers) \ flag

Idle == Workers \ flag
SlotsOf(f) == {s \in Slots : sockfd[s] = f}
Queued(s) == \E k \in 1 .. Len(connq) : connq[k].slot = s
EventQueuedFor(f) == \E k \in 1 .. Len(epq) : epq[k] = f

(* Where a search of the conn queue first meets slot s; 0, nowhere. *)
PlaceOf(s) == IF Queued(s) THEN Min({k \in 1 .. Len(connq) : connq[k].slot = s}) ELSE 0

(* What a search of the epoll queue finds from the start index on: as long as a *)
(* dequeue is not over, the event that it takes comes first.                    *)
FromStart == IF taking = None THEN epq ELSE <<taking>> \o epq
\* Fault variant: the search begins one too far.
MeetsPastFirst(f) == \E k \in 2 .. Len(FromStart) : k <= cnt /\ FromStart[k] = f

Meets(f) == \E k \in 1 .. Len(FromStart) : k <= cnt /\ FromStart[k] = f

(* A connection is in somebody's hands: queued for its request, being handed    *)
(* out by the patcher, or with a worker that has not finished what it runs.     *)
InHand(s) ==
  \/ Queued(s)
  \/ ppc \in {"register", "reserve", "enq_conn"} /\ slot = s
  \/ \E v \in Workers : conn_index[v] = s /\ wpc[v] # "reset"

Free == {f \in Fds : wire[f] = "free"}
Readable == {f \in registered : f # Stdin /\ wire[f] \in {"answered", "hungup"}}

(* epoll_patcher_init: epoll watches the standard input.  Input is interactive, *)
(* so epoll_ctl takes it, and the patcher begins to wait.                       *)
PatcherInit ==
  /\ ppc = "events" /\ batch = {} /\ fd = None /\ asked = "get"
  /\ slot = 0 /\ th = 0 /\ target = 0 /\ place = 0 /\ cnt = 0
  /\ registered = {Stdin}
  /\ typed = 0

WorkspaceInit ==
  /\ wpc = [w \in Workers |-> "check"]
  /\ auto = [w \in Workers |-> 0]
  /\ eev = [w \in Workers |-> None]
  /\ conn = [w \in Workers |-> None]
  /\ http_process = [w \in Workers |-> "null"]
  /\ conn_index = [w \in Workers |-> None]
  /\ chunk = [w \in Workers |-> 0]
  /\ flag = {}

Init ==
  /\ PatcherInit
  /\ WorkspaceInit
  /\ sockfd = [s \in Slots |-> 0]
  /\ state = [s \in Slots |-> 0]
  /\ method = [s \in Slots |-> "get"]
  /\ clb = [s \in Slots |-> [chunk |-> 0, method |-> "get"]]
  /\ sent = [s \in Slots |-> 0]
  /\ connq = <<>> /\ epq = <<>> /\ taking = None /\ crossed = FALSE
  /\ wire = [f \in Fds |-> "free"]
  /\ outcome = "running"

--------------------------------------------------------------------------------
(* The patcher: epoll_patcher.                                                  *)

PatcherAt(l) == outcome = "running" /\ ppc = l
PatcherGoes(l) == ppc' = l

(* epoll_wait is level-triggered: it reports every descriptor that is readable  *)
(* now, also one whose data a worker is reading at this moment.                 *)
WaitSockets ==
  /\ PatcherAt("events") /\ batch = {}
  /\ Readable # {}
  /\ batch' = Readable
  /\ UNCHANGED <<ppc, fd, asked, slot, th, target, place, cnt>>
  /\ UNCHANGED <<workerVars, workspaceVars, flag, slotVars, queueVars, worldVars>>

WaitInput ==
  /\ PatcherAt("events") /\ batch = {}
  /\ typed < MaxCommands
  /\ batch' = Readable \cup {Stdin}
  /\ UNCHANGED <<ppc, fd, asked, slot, th, target, place, cnt>>
  /\ UNCHANGED <<workerVars, workspaceVars, flag, slotVars, queueVars, worldVars>>

(* Any failure of epoll_wait, also EINTR, ends the thread. *)
WaitFails ==
  /\ "interrupt" \in Faults
  /\ PatcherAt("events") /\ batch = {}
  /\ PatcherGoes("exited")
  /\ UNCHANGED <<batch, fd, asked, slot, th, target, place, cnt>>
  /\ UNCHANGED <<workerVars, workspaceVars, flag, slotVars, queueVars, worldVars>>

NextEvent ==
  /\ PatcherAt("events")
  /\ \E e \in batch :
       /\ batch' = batch \ {e}
       /\ \/ /\ e = Stdin
             /\ PatcherGoes("line")
             /\ UNCHANGED <<fd, th>>
          \/ /\ e # Stdin
             /\ PatcherGoes("ev_worker")
             /\ fd' = e
             /\ th' = 0
  /\ UNCHANGED <<asked, slot, target, place, cnt>>
  /\ UNCHANGED <<workerVars, workspaceVars, flag, slotVars, queueVars, worldVars>>

--------------------------------------------------------------------------------
(* A line of input: interprete_multiple_commands runs its commands in turn.     *)

CommandDone ==
  /\ PatcherGoes("line_end")
  /\ fd' = None /\ asked' = "get" /\ slot' = 0 /\ th' = 0 /\ target' = 0
  /\ UNCHANGED <<place, cnt>>

(* A command that does not parse, or whose host cannot be resolved or reached,  *)
(* leaves nothing behind.                                                       *)
RejectCommand ==
  /\ outcome = "running" /\ ppc \in {"line", "line_end"}
  /\ typed < MaxCommands
  /\ typed' = typed + 1
  /\ CommandDone
  /\ UNCHANGED batch
  /\ UNCHANGED <<workerVars, workspaceVars, flag, slotVars, queueVars>>
  /\ UNCHANGED <<wire, registered, outcome>>

(* socket and connect: the kernel gives out the lowest free descriptor. *)
Connect(m) ==
  /\ outcome = "running" /\ ppc \in {"line", "line_end"}
  /\ typed < MaxCommands /\ m \in Methods[typed + 1]
  /\ typed' = typed + 1
  /\ Free # {}
  /\ fd' = Min(Free)
  /\ wire' = [wire EXCEPT ![Min(Free)] = "quiet"]
  /\ asked' = m
  /\ slot' = 0
  /\ PatcherGoes("scan")
  /\ UNCHANGED <<batch, th, target, place, cnt>>
  /\ UNCHANGED <<workerVars, workspaceVars, flag, slotVars, queueVars>>
  /\ UNCHANGED <<registered, outcome>>

EndLine ==
  /\ PatcherAt("line_end")
  /\ PatcherGoes("events")
  /\ UNCHANGED <<batch, fd, asked, slot, th, target, place, cnt>>
  /\ UNCHANGED <<workerVars, workspaceVars, flag, slotVars, queueVars, worldVars>>

(* The search for a slot: its socket, then every worker's connection, then the  *)
(* conn queue.  When there is none the new socket is neither kept nor closed.   *)
ScanSlot ==
  /\ PatcherAt("scan")
  /\ \/ /\ slot \notin Slots
        /\ CommandDone
     \/ /\ slot \in Slots /\ sockfd[slot] # 0
        /\ slot' = slot + 1
        /\ UNCHANGED <<ppc, fd, asked, th, target, place, cnt>>
     \/ /\ slot \in Slots /\ sockfd[slot] = 0
        /\ PatcherGoes("scan_worker")
        /\ UNCHANGED <<fd, asked, slot, th, target, place, cnt>>
  /\ UNCHANGED batch
  /\ UNCHANGED <<workerVars, workspaceVars, flag, slotVars, queueVars, worldVars>>

ScanWorker ==
  /\ PatcherAt("scan_worker")
  /\ \/ /\ th \in Workers /\ conn_index[th] = slot
        /\ PatcherGoes("scan")
        /\ slot' = slot + 1
        /\ th' = 0
     \/ /\ th \in Workers /\ conn_index[th] # slot
        /\ th' = th + 1
        /\ UNCHANGED <<ppc, slot>>
     \/ /\ th \notin Workers
        /\ PatcherGoes("scan_queue")
        /\ th' = 0
        /\ UNCHANGED slot
  /\ UNCHANGED <<batch, fd, asked, target, place, cnt>>
  /\ UNCHANGED <<workerVars, workspaceVars, flag, slotVars, queueVars, worldVars>>

(* conn_queue_have_conn_index reads the start index once and the count before   *)
(* each element.  A start index read in the middle of a dequeue is the one read *)
(* just before it.                                                              *)
SearchConnQueue ==
  /\ PatcherAt("scan_queue")
  /\ PatcherGoes("scan_loop")
  /\ place' = PlaceOf(slot)
  /\ UNCHANGED <<batch, fd, asked, slot, th, target, cnt>>
  /\ UNCHANGED <<workerVars, workspaceVars, flag, slotVars, queueVars, worldVars>>

SkipQueuedSlot ==
  /\ PatcherAt("scan_loop") /\ place # 0
  /\ PatcherGoes("scan")
  /\ slot' = slot + 1
  /\ place' = 0
  /\ UNCHANGED <<batch, fd, asked, th, target, cnt>>
  /\ UNCHANGED <<workerVars, workspaceVars, flag, slotVars, queueVars, worldVars>>

(* The search misses a slot that is not queued, and one that lies beyond the    *)
(* count that dequeues have lowered in the meantime: it stays queued.           *)
ClaimSlot ==
  /\ PatcherAt("scan_loop") /\ (place = 0 \/ place > Len(connq))
  /\ PatcherGoes("register")
  /\ sockfd' = [sockfd EXCEPT ![slot] = fd]
  /\ state' = [state EXCEPT ![slot] = 0]
  /\ method' = [method EXCEPT ![slot] = asked]
  /\ sent' = [sent EXCEPT ![slot] = 0]
  /\ place' = 0
  /\ UNCHANGED <<batch, fd, asked, slot, th, target, cnt, clb>>
  /\ UNCHANGED <<workerVars, workspaceVars, flag, queueVars, worldVars>>

(* epoll_ctl(ADD); when it fails the slot and the socket are not given back. *)
Register ==
  /\ PatcherAt("register")
  /\ \/ /\ wire[fd] # "free"
        /\ PatcherGoes("reserve")
        /\ registered' = registered \cup {fd}
        /\ UNCHANGED <<fd, asked, slot, th, target, place, cnt>>
     \/ /\ wire[fd] = "free" \/ "register" \in Faults
        /\ CommandDone
        /\ UNCHANGED registered
  /\ UNCHANGED batch
  /\ UNCHANGED <<workerVars, workspaceVars, flag, slotVars, queueVars>>
  /\ UNCHANGED <<wire, typed, outcome>>

\* A method's param_set: its callbacks, with the scratch chunk of worker w as their
\* parameter.  The memset of delete clears the word `close` only.
ParamSet(m, w) == [chunk |-> w, method |-> m]

(* Under the write lock of the flag word: the lowest idle worker is assigned    *)
(* the request and its flag is set, or there is none.                           *)
Reserve ==
  /\ PatcherAt("reserve") /\ Idle # {}
  /\ LET w == Min(Idle) IN
       /\ http_process' = [http_process EXCEPT ![w] = "request"]
       /\ conn_index' = [conn_index EXCEPT ![w] = slot]
       /\ clb' = [clb EXCEPT ![slot] = ParamSet(method[slot], w)]
       /\ flag' = flag \cup {w}
       /\ target' = w
  /\ PatcherGoes("cmd_signal")
  /\ UNCHANGED <<batch, fd, asked, slot, th, place, cnt, chunk, sockfd, state, method, sent>>
  /\ UNCHANGED <<workerVars, queueVars, worldVars>>

NoneIdle ==
  /\ PatcherAt("reserve") /\ Idle = {}
  /\ PatcherGoes("enq_conn")
  /\ UNCHANGED <<batch, fd, asked, slot, th, target, place, cnt>>
  /\ UNCHANGED <<workerVars, workspaceVars, flag, slotVars, queueVars, worldVars>>

(* pthread_cond_signal wakes the worker if it waits, and is forgotten if not. *)
Signalled(w) == IF wpc[w] = "waiting" THEN [wpc EXCEPT ![w] = "check"] ELSE wpc

CommandSignal ==
  /\ PatcherAt("cmd_signal")
  /\ wpc' = Signalled(target)
  /\ CommandDone
  /\ UNCHANGED <<batch, auto, eev, conn>>
  /\ UNCHANGED <<workspaceVars, flag, slotVars, queueVars, worldVars>>

\* Fault variant: the event is lost.
EnqueueConnLost ==
  /\ PatcherAt("enq_conn")
  /\ CommandDone
  /\ UNCHANGED batch
  /\ UNCHANGED <<workerVars, workspaceVars, flag, slotVars, queueVars, worldVars>>

EnqueueConn ==
  /\ PatcherAt("enq_conn")
  /\ connq' = Append(connq, [slot |-> slot, fd |-> fd])
  /\ CommandDone
  /\ UNCHANGED <<batch, epq, taking, crossed>>
  /\ UNCHANGED <<workerVars, workspaceVars, flag, slotVars, worldVars>>

--------------------------------------------------------------------------------
(* A socket event.                                                              *)

PatcherDone ==
  /\ PatcherGoes("events")
  /\ fd' = None /\ th' = 0 /\ target' = 0 /\ cnt' = 0
  /\ UNCHANGED place

(* An event of a connection that some worker holds is dropped: the descriptor   *)
(* stays readable and will be reported again.                                   *)
EventWorker ==
  /\ PatcherAt("ev_worker")
  /\ \/ /\ th \in Workers
        /\ conn_index[th] # None /\ sockfd[conn_index[th]] = fd
        /\ PatcherDone
     \/ /\ th \in Workers
        /\ conn_index[th] # None => sockfd[conn_index[th]] # fd
        /\ th' = th + 1
        /\ UNCHANGED <<ppc, fd, target, place, cnt>>
     \/ /\ th \notin Workers
        /\ PatcherGoes("ev_queue")
        /\ UNCHANGED <<fd, th, target, place, cnt>>
  /\ UNCHANGED <<batch, asked, slot>>
  /\ UNCHANGED <<workerVars, workspaceVars, flag, slotVars, queueVars, worldVars>>

(* epoll_queue_have_sockfd reads the count. *)
EventCount ==
  /\ PatcherAt("ev_queue")
  /\ PatcherGoes("ev_search")
  /\ cnt' = Len(epq)
  /\ UNCHANGED <<batch, fd, asked, slot, th, target, place>>
  /\ UNCHANGED <<workerVars, workspaceVars, flag, slotVars, queueVars, worldVars>>

(* Then it reads the start index and as many events from there, which nobody    *)
(* overwrites meanwhile.  When the count is older than the start index, the     *)
(* last of them are events of an earlier lap, which may be of any descriptor.   *)
EventQueued ==
  /\ PatcherAt("ev_search")
  /\ \/ /\ Meets(fd) \/ cnt > Len(FromStart)
        /\ PatcherDone
     \/ /\ ~Meets(fd)
        /\ PatcherGoes("ev_idle")
        /\ cnt' = 0
        /\ UNCHANGED <<fd, th, target, place>>
  /\ UNCHANGED <<batch, asked, slot>>
  /\ UNCHANGED <<workerVars, workspaceVars, flag, slotVars, queueVars, worldVars>>

\* Fault variant: the flags are not looked at.
EventIdleBusy ==
  /\ PatcherAt("ev_idle")
  /\ target' = Min(Workers)
  /\ PatcherGoes("ev_assign")
  /\ UNCHANGED <<batch, fd, asked, slot, th, place, cnt>>
  /\ UNCHANGED <<workerVars, workspaceVars, flag, slotVars, queueVars, worldVars>>

(* The read lock of the flag word covers the lookup only. *)
EventIdle ==
  /\ PatcherAt("ev_idle")
  /\ \/ /\ Idle # {}
        /\ target' = Min(Idle)
        /\ PatcherGoes("ev_assign")
     \/ /\ Idle = {}
        /\ PatcherGoes("ev_enq")
        /\ UNCHANGED target
  /\ UNCHANGED <<batch, fd, asked, slot, th, place, cnt>>
  /\ UNCHANGED <<workerVars, workspaceVars, flag, slotVars, queueVars, worldVars>>

(* The worker gets the first slot with this descriptor, whoever else has got it *)
(* meanwhile; when no slot has the descriptor any more, conn_index stays as it  *)
(* is.                                                                          *)
EventAssign ==
  /\ PatcherAt("ev_assign")
  /\ http_process' = [http_process EXCEPT ![target] = "response"]
  /\ conn_index' = IF SlotsOf(fd) = {} THEN conn_index
                   ELSE [conn_index EXCEPT ![target] = Min(SlotsOf(fd))]
  /\ crossed' = (crossed \/ (SlotsOf(fd) # {} /\ InHand(Min(SlotsOf(fd)))))
  /\ PatcherGoes("ev_flag")
  /\ UNCHANGED <<batch, fd, asked, slot, th, target, place, cnt, chunk, connq, epq, taking>>
  /\ UNCHANGED <<workerVars, flag, slotVars, worldVars>>

EventFlag ==
  /\ PatcherAt("ev_flag")
  /\ flag' = flag \cup {target}
  /\ PatcherGoes("ev_signal")
  /\ UNCHANGED <<batch, fd, asked, slot, th, target, place, cnt>>
  /\ UNCHANGED <<workerVars, workspaceVars, slotVars, queueVars, worldVars>>

EventSignal ==
  /\ PatcherAt("ev_signal")
  /\ wpc' = Signalled(target)
  /\ PatcherDone
  /\ UNCHANGED <<batch, asked, slot, auto, eev, conn>>
  /\ UNCHANGED <<workspaceVars, flag, slotVars, queueVars, worldVars>>

(* The lock keeps enqueues out of a dequeue. *)
EnqueueEpoll ==
  /\ PatcherAt("ev_enq") /\ taking = None
  /\ epq' = Append(epq, fd)
  /\ PatcherDone
  /\ UNCHANGED <<batch, asked, slot, connq, taking, crossed>>
  /\ UNCHANGED <<workerVars, workspaceVars, flag, slotVars, worldVars>>

--------------------------------------------------------------------------------
(* A worker: epoll_worker.                                                      *)

WorkerAt(w, l) == outcome = "running" /\ wpc[w] = l
WorkerGoes(w, l) == wpc' = [wpc EXCEPT ![w] = l]

(* is_idle_thread is read before the mutex is taken. *)
CheckIdle(w) ==
  /\ WorkerAt(w, "check") /\ auto[w] = 0 /\ w \notin flag
  /\ WorkerGoes(w, "park")
  /\ UNCHANGED <<auto, eev, conn>>
  /\ UNCHANGED <<patcherVars, workspaceVars, flag, slotVars, queueVars, worldVars>>

Park(w) ==
  /\ WorkerAt(w, "park")
  /\ WorkerGoes(w, "waiting")
  /\ UNCHANGED <<auto, eev, conn>>
  /\ UNCHANGED <<patcherVars, workspaceVars, flag, slotVars, queueVars, worldVars>>

(* POSIX lets pthread_cond_wait return without a signal. *)
SpuriousWake(w) ==
  /\ WorkerAt(w, "waiting")
  /\ WorkerGoes(w, "check")
  /\ UNCHANGED <<auto, eev, conn>>
  /\ UNCHANGED <<patcherVars, workspaceVars, flag, slotVars, queueVars, worldVars>>

(* What the worker runs: what it was assigned, or what it took from a queue.    *)
(* The connection of an event is looked up once more, and conn_index stays as   *)
(* it is when no slot has the descriptor.                                       *)
ChooseProcess(w) ==
  /\ WorkerAt(w, "check") /\ (auto[w] # 0 \/ w \in flag)
  /\ LET process == CASE auto[w] = 0 -> http_process[w]
                      [] auto[w] = 1 -> "request"
                      [] auto[w] = 2 -> "response"
         index == CASE auto[w] = 0 -> conn_index[w]
                    [] auto[w] = 1 -> conn[w]
                    [] auto[w] = 2 -> IF SlotsOf(eev[w]) = {} THEN conn_index[w]
                                      ELSE Min(SlotsOf(eev[w]))
     IN  /\ WorkerGoes(w, process)
         /\ conn' = [conn EXCEPT ![w] = index]
         /\ conn_index' = [conn_index EXCEPT ![w] = index]
  /\ eev' = [eev EXCEPT ![w] = None]
  /\ UNCHANGED <<auto, http_process, chunk>>
  /\ UNCHANGED <<patcherVars, flag, slotVars, queueVars, worldVars>>

(* assert(conn->sockfd > 2), the first thing both halves do; conn_index -1      *)
(* points before the array.                                                     *)
BadSocket(w) == ~(conn[w] \in Slots /\ sockfd[conn[w]] > 2)

AssertFails(w) ==
  /\ outcome = "running" /\ wpc[w] \in {"request", "response"}
  /\ BadSocket(w)
  /\ outcome' = "aborted"
  /\ UNCHANGED <<patcherVars, workerVars, workspaceVars, flag, slotVars, queueVars>>
  /\ UNCHANGED <<wire, registered, typed>>

\* before_req: put opens the local file; the others do nothing.
BeforeRequestFails(w) == "file" \in Faults /\ clb[conn[w]].method = "put"

BeginRequest(w) ==
  /\ WorkerAt(w, "request") /\ ~BadSocket(w)
  /\ \/ /\ WorkerGoes(w, "req_write")
        /\ UNCHANGED state
     \/ /\ BeforeRequestFails(w)
        /\ WorkerGoes(w, "close")
        /\ state' = [state EXCEPT ![conn[w]] = -1]
  /\ UNCHANGED <<auto, eev, conn, sockfd, method, clb, sent>>
  /\ UNCHANGED <<patcherVars, workspaceVars, flag, queueVars, worldVars>>

(* req_write, until it returns 0: get and put write the header while the int    *)
(* req_write_once (req_header_write_fin: the same word of the union) is 0;      *)
(* propfind and delete return 0 at once.                                        *)
HeaderDue(w) ==
  LET c == clb[conn[w]] IN c.method \in {"get", "put"} /\ chunk[c.chunk] = 0

WriteHeader(w) ==
  /\ WorkerAt(w, "req_write") /\ HeaderDue(w)
  /\ LET f == sockfd[conn[w]] IN
       wire' = IF f \in Fds /\ wire[f] = "quiet" THEN [wire EXCEPT ![f] = "asked"]
               ELSE wire
  /\ chunk' = [chunk EXCEPT ![clb[conn[w]].chunk] = 1]
  /\ sent' = [sent EXCEPT ![conn[w]] = IF @ < SentMax THEN @ + 1 ELSE @]
  /\ UNCHANGED <<http_process, conn_index, sockfd, state, method, clb>>
  /\ UNCHANGED <<patcherVars, workerVars, flag, queueVars>>
  /\ UNCHANGED <<registered, typed, outcome>>

(* Writing to a connection that the server has closed raises SIGPIPE. *)
BrokenPipe(w) ==
  /\ WorkerAt(w, "req_write") /\ HeaderDue(w)
  /\ \E f \in Fds : f = sockfd[conn[w]] /\ wire[f] = "hungup"
  /\ outcome' = "sigpipe"
  /\ UNCHANGED <<patcherVars, workerVars, workspaceVars, flag, slotVars, queueVars>>
  /\ UNCHANGED <<wire, registered, typed>>

(* fstat or read of the local file fails. *)
FailRequest(w) ==
  /\ WorkerAt(w, "req_write")
  /\ "file" \in Faults /\ clb[conn[w]].method = "put"
  /\ WorkerGoes(w, "close")
  /\ state' = [state EXCEPT ![conn[w]] = -1]
  /\ UNCHANGED <<auto, eev, conn, sockfd, method, clb, sent>>
  /\ UNCHANGED <<patcherVars, workspaceVars, flag, queueVars, worldVars>>

EndRequest(w) ==
  /\ WorkerAt(w, "req_write") /\ ~HeaderDue(w)
  /\ WorkerGoes(w, "reset")
  /\ state' = [state EXCEPT ![conn[w]] = 1]
  /\ UNCHANGED <<auto, eev, conn, sockfd, method, clb, sent>>
  /\ UNCHANGED <<patcherVars, workspaceVars, flag, queueVars, worldVars>>

BeginResponse(w) ==
  /\ WorkerAt(w, "response") /\ ~BadSocket(w)
  /\ WorkerGoes(w, "resp_read")
  /\ UNCHANGED <<auto, eev, conn>>
  /\ UNCHANGED <<patcherVars, workspaceVars, flag, slotVars, queueVars, worldVars>>

(* The header callback of get clears req_write_once in the chunk of the worker  *)
(* that sent the request, whoever uses it now; not when it fails to open the    *)
(* local file.                                                                  *)
HeaderCallback(w) ==
  LET c == clb[conn[w]] IN
    \/ /\ c.method = "get"
       /\ chunk' = [chunk EXCEPT ![c.chunk] = 0]
    \/ /\ c.method # "get" \/ "file" \in Faults
       /\ chunk' = chunk

(* http_internal_response reads until the response is complete, and waits while *)
(* the server is silent.  A response that does not add up fails.                *)
ReadResponse(w) ==
  /\ WorkerAt(w, "resp_read")
  /\ sockfd[conn[w]] \in Fds /\ wire[sockfd[conn[w]]] = "answered"
  /\ HeaderCallback(w)
  /\ \E result \in {3, -1} : state' = [state EXCEPT ![conn[w]] = result]
  /\ WorkerGoes(w, "close")
  /\ UNCHANGED <<auto, eev, conn, http_process, conn_index, sockfd, method, clb, sent>>
  /\ UNCHANGED <<patcherVars, flag, queueVars, worldVars>>

(* A response that is neither chunked nor has a positive Content-Length does    *)
(* not end the loop: the worker reads on.                                       *)
ReadOn(w) ==
  /\ WorkerAt(w, "resp_read") /\ "endless" \in Faults
  /\ sockfd[conn[w]] \in Fds /\ wire[sockfd[conn[w]]] = "answered"
  /\ HeaderCallback(w)
  /\ wire' = [wire EXCEPT ![sockfd[conn[w]]] = "read"]
  /\ UNCHANGED <<http_process, conn_index, registered, typed, outcome>>
  /\ UNCHANGED <<patcherVars, workerVars, flag, slotVars, queueVars>>

(* The end of the connection, or a failing read, ends the loop without error. *)
ReadEnds(w) ==
  /\ WorkerAt(w, "resp_read")
  /\ sockfd[conn[w]] \in Fds /\ wire[sockfd[conn[w]]] \in {"hungup", "free"}
  /\ state' = [state EXCEPT ![conn[w]] = 3]
  /\ WorkerGoes(w, "close")
  /\ UNCHANGED <<auto, eev, conn, sockfd, method, clb, sent>>
  /\ UNCHANGED <<patcherVars, workspaceVars, flag, queueVars, worldVars>>

(* Another worker has cleared the socket of this connection, so that it is the  *)
(* descriptor of the standard input that is read or closed: the model ends.     *)
TakesStdin(w) ==
  /\ outcome = "running" /\ wpc[w] \in {"resp_read", "close"}
  /\ sockfd[conn[w]] = Stdin
  /\ outcome' = "stdin"
  /\ UNCHANGED <<patcherVars, workerVars, workspaceVars, flag, slotVars, queueVars>>
  /\ UNCHANGED <<wire, registered, typed>>

\* Fault variant: the socket is cleared before it is closed.
CloseCleared(w) ==
  /\ WorkerAt(w, "close") /\ sockfd[conn[w]] # Stdin
  /\ sockfd' = [sockfd EXCEPT ![conn[w]] = 0]
  /\ WorkerGoes(w, "reset")
  /\ UNCHANGED <<auto, eev, conn, state, method, clb, sent>>
  /\ UNCHANGED <<patcherVars, workspaceVars, flag, queueVars, worldVars>>

Close(w) ==
  /\ WorkerAt(w, "close") /\ sockfd[conn[w]] # Stdin
  /\ wire' = [wire EXCEPT ![sockfd[conn[w]]] = "free"]
  /\ registered' = registered \ {sockfd[conn[w]]}
  /\ WorkerGoes(w, "clear_sock")
  /\ UNCHANGED <<auto, eev, conn, typed, outcome>>
  /\ UNCHANGED <<patcherVars, workspaceVars, flag, slotVars, queueVars>>

\* Fault variant: the socket is not cleared.
ClearSocketNot(w) ==
  /\ WorkerAt(w, "clear_sock")
  /\ WorkerGoes(w, "reset")
  /\ UNCHANGED <<auto, eev, conn>>
  /\ UNCHANGED <<patcherVars, workspaceVars, flag, slotVars, queueVars, worldVars>>

ClearSocket(w) ==
  /\ WorkerAt(w, "clear_sock")
  /\ sockfd' = [sockfd EXCEPT ![conn[w]] = 0]
  /\ WorkerGoes(w, "reset")
  /\ UNCHANGED <<auto, eev, conn, state, method, clb, sent>>
  /\ UNCHANGED <<patcherVars, workspaceVars, flag, queueVars, worldVars>>

\* Fault variants: one of the resets is left out, or the conn queue is passed over.
ResetKeepsChunk(w) ==
  /\ WorkerAt(w, "reset")
  /\ auto' = [auto EXCEPT ![w] = 0]
  /\ conn_index' = [conn_index EXCEPT ![w] = None]
  /\ conn' = [conn EXCEPT ![w] = None]
  /\ WorkerGoes(w, "deq_conn")
  /\ UNCHANGED <<http_process, chunk, eev>>
  /\ UNCHANGED <<patcherVars, flag, slotVars, queueVars, worldVars>>

ResetKeepsConn(w) ==
  /\ WorkerAt(w, "reset")
  /\ chunk' = [chunk EXCEPT ![w] = 0]
  /\ auto' = [auto EXCEPT ![w] = 0]
  /\ conn' = [conn EXCEPT ![w] = None]
  /\ WorkerGoes(w, "deq_conn")
  /\ UNCHANGED <<http_process, conn_index, eev>>
  /\ UNCHANGED <<patcherVars, flag, slotVars, queueVars, worldVars>>

ResetSkipsQueue(w) ==
  /\ WorkerAt(w, "reset")
  /\ chunk' = [chunk EXCEPT ![w] = 0]
  /\ auto' = [auto EXCEPT ![w] = 0]
  /\ conn_index' = [conn_index EXCEPT ![w] = None]
  /\ conn' = [conn EXCEPT ![w] = None]
  /\ WorkerGoes(w, "deq_epoll")
  /\ UNCHANGED <<http_process, eev>>
  /\ UNCHANGED <<patcherVars, flag, slotVars, queueVars, worldVars>>

Reset(w) ==
  /\ WorkerAt(w, "reset")
  /\ chunk' = [chunk EXCEPT ![w] = 0]
  /\ auto' = [auto EXCEPT ![w] = 0]
  /\ conn_index' = [conn_index EXCEPT ![w] = None]
  /\ conn' = [conn EXCEPT ![w] = None]
  /\ WorkerGoes(w, "deq_conn")
  /\ UNCHANGED <<http_process, eev>>
  /\ UNCHANGED <<patcherVars, flag, slotVars, queueVars, worldVars>>

(* Under the lock of the conn queue. *)
DequeueConn(w) ==
  /\ WorkerAt(w, "deq_conn") /\ connq # <<>>
  /\ LET cev == Head(connq) IN
       /\ conn_index' = [conn_index EXCEPT ![w] = cev.slot]
       /\ conn' = [conn EXCEPT ![w] = cev.slot]
       /\ sockfd' = [sockfd EXCEPT ![cev.slot] = cev.fd]
       /\ state' = [state EXCEPT ![cev.slot] = 0]
       /\ clb' = [clb EXCEPT ![cev.slot] = ParamSet(method[cev.slot], w)]
  /\ connq' = Tail(connq)
  /\ auto' = [auto EXCEPT ![w] = 1]
  /\ WorkerGoes(w, "check")
  /\ UNCHANGED <<http_process, eev, chunk, method, sent, epq, taking, crossed>>
  /\ UNCHANGED <<patcherVars, flag, worldVars>>

NoConnEvent(w) ==
  /\ WorkerAt(w, "deq_conn") /\ connq = <<>>
  /\ WorkerGoes(w, "deq_epoll")
  /\ UNCHANGED <<auto, eev, conn>>
  /\ UNCHANGED <<patcherVars, workspaceVars, flag, slotVars, queueVars, worldVars>>

(* Under the lock of the epoll queue: the event is copied and the count is      *)
(* lowered.                                                                     *)
TakeEpoll(w) ==
  /\ WorkerAt(w, "deq_epoll") /\ taking = None /\ epq # <<>>
  /\ taking' = Head(epq)
  /\ epq' = Tail(epq)
  /\ WorkerGoes(w, "deq_start")
  /\ UNCHANGED <<auto, eev, conn, connq, crossed>>
  /\ UNCHANGED <<patcherVars, workspaceVars, flag, slotVars, worldVars>>

(* Still under the lock: the start index follows, and the connection is looked  *)
(* up.  An event whose socket has no slot any more is forgotten, and the worker *)
(* looks no further.                                                            *)
DequeueEpoll(w) ==
  /\ WorkerAt(w, "deq_start")
  /\ LET f == taking IN
       \/ /\ SlotsOf(f) = {}
          /\ WorkerGoes(w, "clear_flag")
          /\ UNCHANGED <<auto, eev, conn, conn_index, state, crossed>>
       \/ /\ SlotsOf(f) # {}
          /\ conn_index' = [conn_index EXCEPT ![w] = Min(SlotsOf(f))]
          /\ conn' = [conn EXCEPT ![w] = Min(SlotsOf(f))]
          /\ state' = [state EXCEPT ![Min(SlotsOf(f))] = 2]
          /\ eev' = [eev EXCEPT ![w] = f]
          /\ auto' = [auto EXCEPT ![w] = 2]
          /\ crossed' = (crossed \/ InHand(Min(SlotsOf(f))))
          /\ WorkerGoes(w, "check")
  /\ taking' = None
  /\ UNCHANGED <<http_process, chunk, sockfd, method, clb, sent, connq, epq>>
  /\ UNCHANGED <<patcherVars, flag, worldVars>>

NoEpollEvent(w) ==
  /\ WorkerAt(w, "deq_epoll") /\ taking = None /\ epq = <<>>
  /\ WorkerGoes(w, "clear_flag")
  /\ UNCHANGED <<auto, eev, conn>>
  /\ UNCHANGED <<patcherVars, workspaceVars, flag, slotVars, queueVars, worldVars>>

ClearFlag(w) ==
  /\ WorkerAt(w, "clear_flag")
  /\ flag' = flag \ {w}
  /\ WorkerGoes(w, "check")
  /\ UNCHANGED <<auto, eev, conn>>
  /\ UNCHANGED <<patcherVars, workspaceVars, slotVars, queueVars, worldVars>>

--------------------------------------------------------------------------------
(* The servers.                                                                 *)

Answer(f) ==
  /\ outcome = "running" /\ wire[f] = "asked"
  /\ wire' = [wire EXCEPT ![f] = "answered"]
  /\ UNCHANGED <<patcherVars, workerVars, workspaceVars, flag, slotVars, queueVars>>
  /\ UNCHANGED <<registered, typed, outcome>>

HangUp(f) ==
  /\ "hangup" \in Faults
  /\ outcome = "running" /\ wire[f] \in {"quiet", "asked", "read"}
  /\ wire' = [wire EXCEPT ![f] = "hungup"]
  /\ UNCHANGED <<patcherVars, workerVars, workspaceVars, flag, slotVars, queueVars>>
  /\ UNCHANGED <<registered, typed, outcome>>

--------------------------------------------------------------------------------
PatcherStep ==
  \/ WaitSockets \/ NextEvent
  \/ RejectCommand \/ (\E m \in MethodNames : Connect(m)) \/ EndLine
  \/ ScanSlot \/ ScanWorker \/ SearchConnQueue \/ SkipQueuedSlot \/ ClaimSlot
  \/ Register
  \/ Reserve \/ NoneIdle \/ CommandSignal \/ EnqueueConn
  \/ EventWorker \/ EventCount \/ EventQueued \/ EventIdle \/ EventAssign \/ EventFlag
  \/ EventSignal \/ EnqueueEpoll

WorkerStep(w) ==
  \/ CheckIdle(w) \/ Park(w) \/ ChooseProcess(w) \/ AssertFails(w)
  \/ BeginRequest(w) \/ WriteHeader(w) \/ BrokenPipe(w) \/ FailRequest(w) \/ EndRequest(w)
  \/ BeginResponse(w) \/ ReadResponse(w) \/ ReadOn(w) \/ ReadEnds(w) \/ TakesStdin(w)
  \/ Close(w) \/ ClearSocket(w) \/ Reset(w)
  \/ DequeueConn(w) \/ NoConnEvent(w) \/ TakeEpoll(w) \/ DequeueEpoll(w) \/ NoEpollEvent(w)
  \/ ClearFlag(w)

Next ==
  \/ PatcherStep \/ WaitInput \/ WaitFails
  \/ \E w \in Workers : WorkerStep(w) \/ SpuriousWake(w)
  \/ \E f \in Fds : Answer(f) \/ HangUp(f)

Spec == Init /\ [][Next]_vars

(* The scheduler runs every thread that can run, and a server answers what it   *)
(* was asked; nobody has to type, and no wait has to end without a signal.      *)
Fairness ==
  /\ WF_vars(PatcherStep)
  /\ \A w \in Workers : WF_vars(WorkerStep(w))
  /\ \A f \in Fds : WF_vars(Answer(f))

FairSpec == Spec /\ Fairness

--------------------------------------------------------------------------------
PatcherType ==
  /\ ppc \in PatcherLabels
  /\ batch \subseteq Fds \cup {Stdin}
  /\ fd \in Fds \cup {None}
  /\ asked \in MethodNames
  /\ slot \in 0 .. NSlots /\ th \in 0 .. NWorkers /\ target \in Workers
  /\ place \in Nat /\ cnt \in Nat
WorkerType ==
  /\ wpc \in [Workers -> WorkerLabels]
  /\ auto \in [Workers -> 0 .. 2]
  /\ eev \in [Workers -> Fds \cup {None}]
  /\ conn \in [Workers -> Slots \cup {None}]
WorkspaceType ==
  /\ http_process \in [Workers -> {"null", "request", "response"}]
  /\ conn_index \in [Workers -> Slots \cup {None}]
  /\ chunk \in [Workers -> {0, 1}]
  /\ flag \subseteq Workers
SlotType ==
  /\ sockfd \in [Slots -> Fds \cup {0}]
  /\ state \in [Slots -> -1 .. 3]
  /\ method \in [Slots -> MethodNames]
  /\ clb \in [Slots -> [chunk : Workers, method : MethodNames]]
  /\ sent \in [Slots -> 0 .. SentMax]
ConnEvent == [slot : Slots, fd : Fds]
QueueType ==
  /\ connq \in Seq(ConnEvent)
  /\ epq \in Seq(Fds)
  /\ taking \in Fds \cup {None}
  /\ crossed \in BOOLEAN
WorldType ==
  /\ wire \in [Fds -> {"free", "quiet", "asked", "answered", "read", "hungup"}]
  /\ registered \subseteq Fds \cup {Stdin}
  /\ typed \in 0 .. MaxCommands
  /\ outcome \in {"running", "aborted", "sigpipe", "stdin"}

(* Every variable keeps its type: what the two kinds of threads index their     *)
(* arrays with is an index of them, or -1 where the code allows for it.         *)
TypeOK ==
  PatcherType /\ WorkerType /\ WorkspaceType /\ SlotType /\ QueueType /\ WorldType

(* A worker whose flag is clear rests: it holds no connection and nothing is    *)
(* left of its last exchange.  The patcher writes to the workspace of such a    *)
(* worker without a lock it shares with it (epoll_patcher, between the lookup   *)
(* and the setting of the flag), which only this makes safe.                    *)
Rests(w) ==
  /\ wpc[w] \in Resting
  /\ auto[w] = 0
  /\ conn[w] = None
  /\ conn_index[w] # None => ppc = "ev_flag" /\ target = w

ReservationSafe ==
  /\ \A w \in Workers : w \notin flag => Rests(w)
  /\ ppc \in {"ev_assign", "ev_flag"} => target \notin flag

(* A worker that has begun is left alone: nobody else changes what it runs or   *)
(* the connection it runs it on.                                                *)
Undisturbed ==
  [][\A w \in Workers : wpc[w] \notin Resting \/ auto[w] # 0 =>
       \/ wpc'[w] # wpc[w]
       \/ UNCHANGED <<http_process[w], conn_index[w]>>]_vars

(* The searches before a response is handed out are made one after the other    *)
(* while workers go on, and an event names a number, not a connection, so that  *)
(* a response may be given out on a connection that is in other hands           *)
(* (EventAssign, DequeueEpoll).  What follows is promised until that happens:   *)
(* afterwards a socket may be closed twice, and a command lose its slot.        *)

(* A descriptor may be queued twice, because the search of the epoll queue      *)
(* misses the youngest event while a worker is between the two writes of a      *)
(* dequeue; but never more than twice, and then its two events lie side by      *)
(* side.  A command's slot is not queued twice until connections have crossed.  *)
DuplicatesAdjoin ==
  /\ \A j, k \in 1 .. Len(epq) : j < k /\ epq[j] = epq[k] => k = j + 1
  /\ ~crossed => \A j, k \in 1 .. Len(connq) : j # k => connq[j].slot # connq[k].slot

(* Two slots have the same socket only while one of them is being given up by   *)
(* a worker that has closed the descriptor and not yet cleared it (http_request *)
(* and http_response close first, and the kernel may hand the number out again  *)
(* at once).                                                                    *)
UniqueSockets ==
  ~crossed => \A s, t \in Slots :
    s # t /\ sockfd[s] = sockfd[t] /\ sockfd[s] # 0 =>
      \E w \in Workers : wpc[w] = "clear_sock" /\ conn[w] \in {s, t}

(* A command that was accepted is neither lost nor taken twice: until its       *)
(* request has been sent or has failed it is in the hands of the patcher, or    *)
(* in the conn queue once, or with one worker.                                  *)
Unsent(s) ==
  state[s] = 0 \/ (state[s] = 2 /\ method[s] \in {"get", "put"} /\ sent[s] = 0)
Pending(s) == sockfd[s] \in registered \ {Stdin} /\ Unsent(s)
WithPatcher(s) == ppc \in {"reserve", "enq_conn"} /\ slot = s
Requests(w) == auto[w] = 1 \/ (auto[w] = 0 /\ http_process[w] = "request")
WithWorkers(s) == {w \in Workers : conn_index[w] = s /\ Requests(w)}
HeldOnce ==
  ~crossed => \A s \in Slots : Pending(s) =>
    \/ WithPatcher(s) /\ ~Queued(s) /\ WithWorkers(s) = {}
    \/ ~WithPatcher(s) /\ Queued(s) /\ WithWorkers(s) = {}
    \/ ~WithPatcher(s) /\ ~Queued(s) /\ Cardinality(WithWorkers(s)) = 1

(* A request that counts as sent has had its header written: the scratch flag   *)
(* of an earlier exchange never suppresses it (epoll_worker clears the chunk).  *)
RequestSent ==
  ~crossed => \A s \in Slots : state[s] = 1 /\ method[s] \in {"get", "put"} => sent[s] >= 1

(* epoll watches only sockets that some slot holds, so that an event can be     *)
(* attributed to a connection.                                                  *)
WatchedHasSlot ==
  ~crossed => \A f \in registered \ {Stdin} : SlotsOf(f) # {}

(* While a worker has a request to send, or has finished what it ran and not    *)
(* yet looked at the conn queue, every queued command is on its way: one worker *)
(* empties the queue, whatever the others do (epoll_worker, auto_dequeue 1).    *)
Serving(w) ==
  \/ auto[w] = 1
  \/ wpc[w] \in {"request", "req_write", "close", "clear_sock", "reset", "deq_conn"}
QueueDrains ==
  \A s \in Slots :
    (Queued(s) /\ \E w \in Workers : Serving(w)) ~> (~Queued(s) \/ outcome # "running")

--------------------------------------------------------------------------------
(* What the source says of itself, and does not keep.                           *)

(* http_core.c:388, assert(conn->sockfd > 2): a response is only run on a       *)
(* connection that has a socket.                                                *)
ResponseHasSocket ==
  \A w \in Workers : wpc[w] = "response" => ~BadSocket(w)

(* threads.c:853 and 876, "conn event dequeue.", "epoll event dequeue": a        *)
(* queued command, and the queued event of a connection that has its answer, is *)
(* dequeued, or some worker is at least busy.                                   *)
EventDequeued ==
  /\ \A s \in Slots : Queued(s) ~> (~Queued(s) \/ flag # {} \/ outcome # "running")
  /\ \A f \in Fds :
       EventQueuedFor(f) /\ wire[f] = "answered"
         ~> (~EventQueuedFor(f) \/ flag # {} \/ outcome # "running")
=================================================================================
