------------------------------- MODULE EventQueue -------------------------------
(*******************************************************************************)
(* The two event queues of threads.c: g_conn_event_queue and                   *)
(* g_epoll_event_queue.  Both are the same ring (an array, a start index and a *)
(* count), and both are searched without their lock by the patcher thread      *)
(* while worker threads dequeue under it.  This module is the ring and its     *)
(* search; who calls it when, and the locks, are in HftpThreads.               *)
(*                                                                             *)
(* The patcher is the only thread that enqueues and the only one that searches *)
(* (interprete_single_command and epoll_patcher both run in it), so it does    *)
(* one of the two at a time.  Enqueues and dequeues exclude each other by the  *)
(* queue's lock; a search takes no lock, so that any read of it may fall       *)
(* between the two writes of a dequeue.  Writes and reads are seen in the      *)
(* order of the program: the Makefile asks for no optimisation, and the        *)
(* processor is one that keeps stores in order.                                *)
(*******************************************************************************)
EXTENDS Integers, Sequences

CONSTANTS
  Event,            \* the keys that are queued: connection slots, or descriptors
  NoEvent,          \* the content of an array element that was never written
  QueueMax,         \* CONN_EVENT_QUEUE_MAX, EPOLL_EVENT_QUEUE_MAX
  Outstanding       \* the most events the callers ever have in the queue at once

ASSUME QueueAssumption ==
  /\ QueueMax \in Nat \ {0}
  /\ Outstanding \in Nat
  /\ NoEvent \notin Event

VARIABLES
  snapshot,  \* which of the two queues this is: TRUE, the epoll queue, whose search
             \* runs to the count it read first; FALSE, the conn queue, whose
             \* search reads the count again before each element
  ring,      \* the array
  start,     \* g_..._event_queue_start_index
  count,     \* g_..._event_queue_count
  taken,     \* *out_ev of the last dequeue
  dequeuing, \* a worker has lowered the count and not yet moved the start index
  search,    \* where the patcher's search is: "none", "start", "loop", "hit", "miss"
  key,       \* what it searches for
  cnt,       \* its local copy of the count
  first,     \* its local copy of the start index
  idx,       \* its loop variable
  had,       \* history: key was queued at the search's first read, or being taken
  stayed,    \* history: it was queued then and has been ever since
  torn       \* history: the search has read the count, and the start index if it is
             \* that far, in the middle of one and the same dequeue

ringVars == <<snapshot, ring, start, count, taken, dequeuing>>
searchVars == <<search, key, cnt, first, idx>>
history == <<had, stayed, torn>>
vars == <<ringVars, searchVars, history>>

Index == 0 .. QueueMax - 1

(* The oldest event that no dequeue has taken: while one is in progress, the    *)
(* start index still points at the event it takes.                              *)
Oldest == IF dequeuing THEN (start + 1) % QueueMax ELSE start

Content == [k \in 1 .. count |-> ring[(Oldest + (k - 1)) % QueueMax]]

Queued(e) == \E k \in 0 .. count - 1 : ring[(Oldest + k) % QueueMax] = e

Init ==
  /\ snapshot \in BOOLEAN
  /\ ring = [k \in Index |-> NoEvent]
  /\ start = 0
  /\ count = 0
  /\ taken = NoEvent
  /\ dequeuing = FALSE
  /\ search = "none"
  /\ key = NoEvent
  /\ cnt = 0
  /\ first = 0
  /\ idx = 0
  /\ had = FALSE
  /\ stayed = FALSE
  /\ torn = FALSE

\* Fault variant: the event is written at the count, wherever the queue starts.
EnqueueAtCount(e) ==
  /\ search = "none" /\ ~dequeuing
  /\ count < Outstanding
  /\ ring' = [ring EXCEPT ![count % QueueMax] = e]
  /\ count' = count + 1
  /\ UNCHANGED <<snapshot, start, taken, dequeuing, searchVars, history>>

(* enqueue_..._event: the code never compares count with the size of the array; *)
(* Outstanding is the callers' bound, not a test of the queue's own.            *)
Enqueue(e) ==
  /\ search = "none" /\ ~dequeuing
  /\ count < Outstanding
  /\ ring' = [ring EXCEPT ![(start + count) % QueueMax] = e]
  /\ count' = count + 1
  /\ UNCHANGED <<snapshot, start, taken, dequeuing, searchVars, history>>

(* dequeue_..._event_not_safety: the worker holds the queue's lock and has seen *)
(* a count that is not 0.  It copies the event and lowers the count, and then   *)
(* moves the start index.                                                       *)
TakeEvent ==
  /\ ~dequeuing /\ count # 0
  /\ taken' = ring[start % QueueMax]
  /\ count' = count - 1
  /\ dequeuing' = TRUE
  /\ UNCHANGED <<snapshot, ring, start, searchVars, had, torn>>
  /\ stayed' = (stayed /\ Queued(key)')

\* Fault variant: the start index does not wrap.
AdvanceUnwrapped ==
  /\ dequeuing
  /\ start' = start + 1
  /\ dequeuing' = FALSE
  /\ torn' = (torn /\ search # "start")
  /\ UNCHANGED <<snapshot, ring, count, taken, searchVars, had, stayed>>

AdvanceStart ==
  /\ dequeuing
  /\ start' = (start + 1) % QueueMax
  /\ dequeuing' = FALSE
  /\ torn' = (torn /\ search # "start")
  /\ UNCHANGED <<snapshot, ring, count, taken, searchVars, had, stayed>>

(* conn_queue_have_conn_index, epoll_queue_have_sockfd: cnt is read first. *)
SearchCount(e) ==
  /\ search = "none"
  /\ search' = "start"
  /\ key' = e
  /\ cnt' = count
  /\ had' = (Queued(e) \/ (dequeuing /\ ring[start] = e))
  /\ stayed' = Queued(e)
  /\ torn' = dequeuing
  /\ UNCHANGED <<ringVars, first, idx>>

SearchStart ==
  /\ search = "start"
  /\ search' = "loop"
  /\ first' = start
  /\ idx' = 0
  /\ UNCHANGED <<ringVars, key, cnt, history>>

\* Fault variant: the search compares with the other of the two counts.
BoundSwapped == IF snapshot THEN count ELSE cnt

Bound == IF snapshot THEN cnt ELSE count

SearchLoop ==
  /\ search = "loop"
  /\ UNCHANGED <<ringVars, key, cnt, first, history>>
  /\ \/ /\ idx >= Bound
        /\ search' = "miss"
        /\ idx' = idx
     \/ /\ idx < Bound
        /\ ring[(first + idx) % QueueMax] = key
        /\ search' = "hit"
        /\ idx' = idx
     \/ /\ idx < Bound
        /\ ring[(first + idx) % QueueMax] # key
        /\ search' = "loop"
        /\ idx' = idx + 1

(* The caller has its answer; the locals are gone. *)
SearchReturn ==
  /\ search \in {"hit", "miss"}
  /\ search' = "none"
  /\ key' = NoEvent
  /\ cnt' = 0
  /\ first' = 0
  /\ idx' = 0
  /\ had' = FALSE
  /\ stayed' = FALSE
  /\ torn' = FALSE
  /\ UNCHANGED ringVars

Next ==
  \/ \E e \in Event : Enqueue(e)
  \/ TakeEvent
  \/ AdvanceStart
  \/ \E e \in Event : SearchCount(e)
  \/ SearchStart
  \/ SearchLoop
  \/ SearchReturn

Spec == Init /\ [][Next]_vars

--------------------------------------------------------------------------------
(* Every variable keeps its type; count stays within what the callers bound it  *)
(* to, whatever the ring does.                                                  *)
TypeOK ==
  /\ snapshot \in BOOLEAN
  /\ ring \in [Index -> Event \cup {NoEvent}]
  /\ start \in Index
  /\ count \in 0 .. Outstanding
  /\ taken \in Event \cup {NoEvent}
  /\ dequeuing \in BOOLEAN
  /\ search \in {"none", "start", "loop", "hit", "miss"}
  /\ key \in Event \cup {NoEvent}
  /\ cnt \in 0 .. Outstanding
  /\ first \in Index
  /\ idx \in 0 .. Outstanding
  /\ had \in BOOLEAN
  /\ stayed \in BOOLEAN
  /\ torn \in BOOLEAN

(* The ring behaves as a first-in first-out queue for its callers: what a       *)
(* worker dequeues is the oldest event not yet dequeued, whatever the wrap of   *)
(* the indices (enqueue_*_event, dequeue_*_event_not_safety).                   *)
FifoQueue == INSTANCE Fifo WITH queue <- Content
ImplementsFifo == FifoQueue!Spec

(* A search that runs to the count it read first misses an event that stays in  *)
(* the queue only when both of its first two reads fell between the two writes  *)
(* of one dequeue, and then it misses the youngest event and no other, however  *)
(* many dequeues ran beside it.  epoll_patcher drops an event or queues it once *)
(* more by this answer of epoll_queue_have_sockfd.                              *)
MissesTheYoungest ==
  snapshot /\ search = "miss" /\ stayed =>
    torn /\ ring[(first + cnt) % QueueMax] = key

(* A search that reads the count again each time never reports an event whose   *)
(* dequeue was over before it began: the stale elements behind the start index  *)
(* are out of its reach.  interprete_single_command relies on this answer of    *)
(* conn_queue_have_conn_index, or it would pass over slots that are free.       *)
NoStaleHit == ~snapshot /\ search = "hit" => had
=================================================================================
