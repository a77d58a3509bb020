---------------------------------- MODULE Fifo ----------------------------------
(*******************************************************************************)
(* What a caller of the event queues of threads.c expects of them: an event    *)
(* that is put in comes out once, unchanged and in order.  EventQueue is shown *)
(* to implement this module.                                                   *)
(*******************************************************************************)
EXTENDS Sequences

CONSTANTS Event,     \* what is queued: a struct conn_event or a struct epoll_event
          NoEvent    \* the value of *out_ev before the first dequeue

VARIABLES queue,     \* the events put in and not yet taken, oldest first
          taken      \* the event handed to the last caller of dequeue

vars == <<queue, taken>>

Init == /\ queue = <<>>
        /\ taken = NoEvent

Put(e) == /\ queue' = Append(queue, e)
          /\ taken' = taken

Take == /\ queue # <<>>
        /\ taken' = Head(queue)
        /\ queue' = Tail(queue)

Next == (\E e \in Event : Put(e)) \/ Take

Spec == Init /\ [][Next]_vars
=================================================================================
